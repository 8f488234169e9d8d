--------------------------- MODULE MCReadSession ---------------------------
(* A download served by two children, the request having been repeated.     *)
EXTENDS ReadSession

CONSTANTS f1, f2

Whole == <<1, 2, 2, 1, 1, 1, 2, 1>>
MCInitFiles == {[n \in {f1} |-> SubSeq(Whole, 1, k)] : k \in {0, 3, 4, 7, 8}}
MCPort == {69, 70}
============================================================================
