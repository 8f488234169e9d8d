---------------------------- MODULE MCReadData ----------------------------
(* read_data against arbitrary senders: two ends, ACK and ERROR packets, and *)
(* files of no byte, of one, and of two and of three and a half segments.    *)
EXTENDS ReadData

CONSTANTS f1, f2

MCStray == {Ack(1), Err(0)}

Whole == <<1, 2, 2, 1, 1, 1, 2>>
MCInitFiles == {[n \in {f1} |-> SubSeq(Whole, 1, k)] : k \in {0, 1, 4, 7}}
MCPort == {69}
============================================================================
