--------------------------- MODULE MCWriteData ---------------------------
(* write_data against arbitrary senders of full DATA packets, with a NUL in  *)
(* them, and ERROR packets, for a file that exists, a new one and one that   *)
(* cannot be written.                                                       *)
EXTENDS WriteData

CONSTANTS f1, f2, client, stranger, nowhere

MCStray == {Data(1, <<1, 0>>), Err(0)}
MCInitFiles == {[n \in {f1} |-> <<2, 1, 2>>]}
MCPort == {69}
MCBlend == [x \in Peer \X Peer |->
               IF x[1] = x[2] THEN {x[1]} ELSE {x[1], x[2], nowhere}]
============================================================================
