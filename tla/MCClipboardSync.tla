-------------------------- MODULE MCClipboardSync --------------------------
EXTENDS ClipboardSync
Item(k, d, n, b) == [kind |-> k, id |-> d, n |-> n, big |-> b]
AllKinds == {"text", "image", "file"}
MCMac == {Item("text", 1, 2, "no"), Item("text", 2, 2, "no"), Item("file", 3, 1, "no")}
MCStart == [mac |-> {Item("text", 1, 2, "no")}, win |-> {}]
MCWin == {Item("image", 4, 2, "no"), Item("image", 5, 1, "yes")}
MCTakes == {[mac |-> AllKinds, win |-> AllKinds],
            [mac |-> {"text"}, win |-> {"text", "image"}]}
=============================================================================
