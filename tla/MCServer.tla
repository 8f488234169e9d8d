------------------------------ MODULE MCServer ------------------------------
(* Two children on one directory: a download and an upload of one file, two  *)
(* uploads of full packets with a NUL, two downloads, an empty datagram, an  *)
(* unknown opcode, and ports: two free ones, the parent's, 0 and a wrap.     *)
EXTENDS Server

CONSTANTS f1

MCInitFiles == {[n \in {f1} |-> <<2, 1, 2>>]}
MCBlend == [x \in Peer \X Peer |-> {x[1], x[2]}]
MCPort == 0..3
MCMinTid == -2
MCRanges == {<<1, 3>>}
MCStray == {Ack(1), Data(1, <<1, 0>>)}
============================================================================
