----------------------------- MODULE FileCopy -----------------------------
(***************************************************************************)
(* What a transfer in either direction promises: the bytes that have got   *)
(* across are always the beginning of the file, they grow by one segment   *)
(* at a time, and the transfer counts as complete exactly when a segment   *)
(* that is not full, possibly an empty one, has followed all full ones.    *)
(***************************************************************************)
EXTENDS Integers, Sequences

CONSTANT Segment      \* bytes of file per DATA packet

VARIABLES
    source,           \* the file being sent
    copy,             \* what the receiving side holds of it
    complete          \* whether the transfer is complete

copyVars == <<source, copy, complete>>

Init == copy = <<>> /\ complete = FALSE

\* One more segment gets across.
Deliver ==
    LET end == Len(copy) + Segment
    IN  /\ ~complete
        /\ copy' = SubSeq(source, 1, IF end <= Len(source) THEN end
                                     ELSE Len(source))
        /\ complete' = (end > Len(source))
        /\ UNCHANGED source

Spec == Init /\ [][Deliver]_copyVars
============================================================================
