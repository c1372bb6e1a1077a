--------------------------- MODULE FileClipboard ---------------------------
(***************************************************************************)
(* Files on the system clipboard of the client: the poll thread looks for  *)
(* a copied file and the reader thread publishes a received one            *)
(* (clipboard_files.rs over file_clipboard.rs), under clipboard_lock, with *)
(* other programs using the same clipboard.                                *)
(***************************************************************************)
EXTENDS Naturals, FiniteSets

CONSTANTS
    Files,     \* what another program may copy, one file each
    Received,  \* the file the peer sent
    MaxSeq     \* bound: clipboard writes

Threads == {"poll", "reader"}

VARIABLES
    os,       \* "mac", where concurrent calls abort the process, or "windows"
    lock,     \* the thread inside clipboard_lock, or "free"
    open,     \* who has the Win32 clipboard open: a thread, "other" or "none"
    content,  \* what is on it: a file, "multi", "text" or "empty"
    seq,      \* its sequence number, or changeCount
    last,     \* last_change_count of the poll thread
    found,    \* the file poll_file_url returned last, "none" before
    ours,     \* whether the reader owns a memory block
    intact,   \* whether the block behind the content is still allocated
    pc        \* thread -> where it is

vars == <<os, lock, open, content, seq, last, found, ours, intact, pc>>

Init ==
    /\ os \in {"mac", "windows"}
    /\ lock = "free" /\ open = "none"
    /\ content = "empty" /\ seq = 0 /\ last = 0 /\ found = "none"
    /\ ours = FALSE /\ intact = TRUE
    /\ pc = [t \in Threads |-> "idle"]

At(t, here, there) == pc[t] = here /\ pc' = [pc EXCEPT ![t] = there]

----------------------------------------------------------------------------
(* clipboard_lock::hold, for one call. *)
NoLock(t) == lock' = t

hold(t) == lock = "free" /\ lock' = t

Enter(t) ==
    /\ At(t, "idle", "in")
    /\ hold(t)
    /\ UNCHANGED <<os, open, content, seq, last, found, ours, intact>>

Leaves(t) == lock' = "free" /\ pc' = [pc EXCEPT ![t] = "idle"]

(* poll_file_url: the counter first, and it is taken over before the       *)
(* content is judged.                                                      *)
Unchanged ==
    /\ pc["poll"] = "in" /\ seq = last
    /\ Leaves("poll")
    /\ UNCHANGED <<os, open, content, seq, last, found, ours, intact>>

poll_file_url ==
    /\ seq # last
    /\ At("poll", "in", "probe")
    /\ last' = seq
    /\ UNCHANGED <<os, lock, open, content, seq, found, ours, intact>>

(* OpenClipboard: on Windows it fails while another program has it. *)
OpenForRead ==
    /\ pc["poll"] = "probe"
    /\ IF os = "windows" /\ open # "none"
         THEN Leaves("poll") /\ UNCHANGED open
         ELSE /\ pc' = [pc EXCEPT !["poll"] = "read"]
              /\ open' = "poll" /\ UNCHANGED lock
    /\ UNCHANGED <<os, content, seq, last, found, ours, intact>>

(* One file is returned; none, several or no file at all are not. *)
poll_cf_hdrop ==
    /\ pc["poll"] = "read"
    /\ found' = IF content \in Files \cup {Received} THEN content ELSE found
    /\ open' = "none"
    /\ Leaves("poll")
    /\ UNCHANGED <<os, content, seq, last, ours, intact>>

----------------------------------------------------------------------------
(* set_file_url: a block is filled, then the clipboard is opened, emptied  *)
(* and given the block; every step may fail.                               *)
Alloc ==
    /\ pc["reader"] = "in"
    /\ \/ ours' = TRUE /\ pc' = [pc EXCEPT !["reader"] = "filled"] /\ UNCHANGED lock
       \/ UNCHANGED ours /\ Leaves("reader")
    /\ UNCHANGED <<os, open, content, seq, last, found, intact>>

OpenForWrite ==
    /\ pc["reader"] = "filled"
    /\ IF os = "windows" /\ open # "none"
         THEN ours' = FALSE /\ Leaves("reader") /\ UNCHANGED open
         ELSE /\ pc' = [pc EXCEPT !["reader"] = "opened"]
              /\ open' = "reader" /\ UNCHANGED <<ours, lock>>
    /\ UNCHANGED <<os, content, seq, last, found, intact>>

EmptyClipboard ==
    /\ pc["reader"] = "opened"
    /\ \/ /\ content' = "empty" /\ seq' = seq + 1 /\ intact' = TRUE
          /\ pc' = [pc EXCEPT !["reader"] = "emptied"]
          /\ UNCHANGED <<ours, open, lock>>
       \/ /\ os = "windows"
          /\ ours' = FALSE /\ open' = "none" /\ Leaves("reader")
          /\ UNCHANGED <<content, seq, intact>>
    /\ UNCHANGED <<os, last, found>>

(* SetClipboardData takes the block over when it succeeds. *)
FreedAnyway == ours' = FALSE /\ intact' = FALSE

HandedOver == ours' = FALSE /\ intact' = TRUE

set_file_url ==
    /\ pc["reader"] = "emptied"
    /\ \/ content' = Received /\ seq' = seq + 1 /\ HandedOver
       \/ ours' = FALSE /\ UNCHANGED <<content, seq, intact>>
    /\ open' = "none"
    /\ Leaves("reader")
    /\ UNCHANGED <<os, last, found>>

----------------------------------------------------------------------------
(* Another program copies something, its own block behind it, or just      *)
(* keeps the clipboard open.                                               *)
Copy(c) ==
    /\ os = "windows" => open \in {"none", "other"}
    /\ seq < MaxSeq
    /\ content' = c /\ seq' = seq + 1
    /\ intact' = TRUE
    /\ UNCHANGED <<os, lock, open, last, found, ours, pc>>

OtherOpens ==
    /\ os = "windows"
    /\ \/ open = "none" /\ open' = "other"
       \/ open = "other" /\ open' = "none"
    /\ UNCHANGED <<os, lock, content, seq, last, found, ours, intact, pc>>

Next ==
    \/ Enter("poll")
    \/ seq < MaxSeq /\ Enter("reader")
    \/ Unchanged \/ poll_file_url \/ OpenForRead \/ poll_cf_hdrop
    \/ Alloc \/ OpenForWrite \/ EmptyClipboard \/ set_file_url
    \/ \E c \in Files \cup {"multi", "text"} : Copy(c)
    \/ OtherOpens

Spec == Init /\ [][Next]_vars

----------------------------------------------------------------------------
(* No two threads are in a clipboard call at once (on macOS the process    *)
(* would abort); a call that is over, however it went, has closed the      *)
(* clipboard and owns no memory; and what was published is not freed.      *)
CallsLeaveNothingBehind ==
    /\ Cardinality({t \in Threads : pc[t] # "idle"}) <= 1
    /\ \A t \in Threads : pc[t] = "idle" => open # t
    /\ pc["reader"] = "idle" => ~ours
    /\ intact
=============================================================================
