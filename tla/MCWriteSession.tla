-------------------------- MODULE MCWriteSession --------------------------
(* An upload over an old file or to a new one.                              *)
EXTENDS WriteSession

CONSTANTS f1, f2

Whole == <<1, 2, 2, 1, 1, 1, 2, 1>>
MCSources == {SubSeq(Whole, 1, k) : k \in {0, 1, 4, 7, 8}}
MCNulSources == {<<1, 0, 2>>}
MCInitFiles == {[n \in {f1} |-> <<2, 1, 2>>]}
MCPort == {69}
MCBlend == [x \in Peer \X Peer |-> {x[1], x[2]}]
============================================================================
