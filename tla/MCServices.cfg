CONSTANTS
    Threads = {t1, t2}
    MaxHeaders = 2
    Versions = {3, 4}
    MaxFrames = 2
SPECIFICATION MCSpec
CHECK_DEADLOCK FALSE
INVARIANTS NothingAttachedNothingSlips
PROPERTIES EverybodyHears
