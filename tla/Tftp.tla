------------------------------- MODULE Tftp -------------------------------
(***************************************************************************)
(* The packets server.c exchanges on a child's socket, at the level the    *)
(* handlers look at them: an opcode, a 16-bit word (the block number, or   *)
(* the code of an ERROR) and the bytes after the 4-byte header.            *)
(***************************************************************************)
EXTENDS Integers, Sequences

CONSTANTS
    Byte,         \* the values a byte of a file takes
    Segment,      \* bytes of file per DATA packet: 512 in server.c
    BlockMod,     \* number of 16-bit words: 2^16 in server.c
    MaxTimeouts   \* receive timeouts before a child disconnects: 10 in server.c

ASSUME TftpAssumption ==
    /\ Segment \in Nat \ {0}
    /\ BlockMod \in Nat \ {0}
    /\ MaxTimeouts \in Nat \ {0}

\* Defect: block numbers do not wrap.
NoWrap(n) == n

\* htons keeps the low 16 bits of the int it is given: block numbers wrap.
Htons(n) == n % BlockMod

Data(b, bytes) == [op |-> 3, block |-> Htons(b), data |-> bytes]
Ack(b)         == [op |-> 4, block |-> Htons(b), data |-> <<>>]
Err(code)      == [op |-> 5, block |-> Htons(code), data |-> <<>>]

Packet == [op : 3..5, block : 0..(BlockMod - 1), data : Seq(Byte)]
============================================================================
