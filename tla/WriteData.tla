----------------------------- MODULE WriteData -----------------------------
(***************************************************************************)
(* write_data of server.c: a child answers a write request with ACK 0 and  *)
(* then stores the payload of every datagram that arrives and acknowledges *)
(* it, until one is shorter than a full DATA packet.                       *)
(***************************************************************************)
EXTENDS Child

CONSTANTS
    Nul,          \* the byte that ends a C string
    Unwritable,   \* the names for which fopen(file, "w") fails
    Blend,        \* Blend[a, b]: the addresses whose first bytes are those of
                  \* b and whose other bytes are those of a
    NegativeLen,  \* whether the uninitialized addr_len may be negative
    MaxBlocks     \* bound: datagrams a child takes before they stop coming

ASSUME WriteDataAssumption ==
    /\ Nul \in Byte
    /\ Unwritable \subseteq Name
    /\ Blend \in [Peer \X Peer -> SUBSET Peer]
    /\ \A a, b \in Peer : b \in Blend[a, b] /\ Blend[a, a] = {a}
    /\ NegativeLen \in BOOLEAN
    /\ MaxBlocks \in Nat

vars == childVars

\* Defect: the last byte of a packet is lost.
DropsLast(bytes) == SubSeq(bytes, 1, Len(bytes) - 1)

\* What fprintf("%s") takes of the bytes of a packet: those before the first NUL.
CString(bytes) ==
    LET nuls == {i \in 1..Len(bytes) : bytes[i] = Nul}
    IN  IF nuls = {} THEN bytes
        ELSE SubSeq(bytes, 1, (CHOOSE i \in nuls : \A j \in nuls : i <= j) - 1)

\* The contents f of a file after bytes are written at offset at of it: a gap
\* before the offset, left by another child's truncation, reads as NULs.
WriteAt(f, at, bytes) ==
    IF bytes = <<>> THEN f
    ELSE LET end == at + Len(bytes)
         IN  [i \in 1..(IF Len(f) > end THEN Len(f) ELSE end) |->
                 IF i \in (at + 1)..end THEN bytes[i - at]
                 ELSE IF i <= Len(f) THEN f[i] ELSE Nul]

\* The directory with file n holding bytes.
WithFile(n, bytes) ==
    [m \in DOMAIN files \cup {n} |-> IF m = n THEN bytes ELSE files[m]]

\* Defect: the stream's offset stays behind.
KeepsOffset(c, held, k) ==
    /\ files' = IF name[c] \in Unwritable THEN files
                ELSE WithFile(name[c], WriteAt(files[name[c]], pos[c],
                                               SubSeq(held, 1, k)))
    /\ UNCHANGED pos
    /\ buf' = [buf EXCEPT ![c] = SubSeq(held, k + 1, Len(held))]

\* stdio writes the first k of the bytes the stream holds to the file.
Flush(c, held, k) ==
    /\ files' = IF name[c] \in Unwritable THEN files
                ELSE WithFile(name[c], WriteAt(files[name[c]], pos[c],
                                               SubSeq(held, 1, k)))
    /\ pos' = [pos EXCEPT ![c] = @ + k]
    /\ buf' = [buf EXCEPT ![c] = SubSeq(held, k + 1, Len(held))]

\* Defect: no fclose, and the child ends with _exit: exit would write what is left.
LeavesUnflushed(c, how) ==
    /\ pc' = [pc EXCEPT ![c] = how]
    /\ UNCHANGED <<files, pos, buf>>

\* fclose writes what is left; fclose(NULL), after a failed fopen, crashes.
Fclose(c, how) ==
    /\ Flush(c, buf[c], Len(buf[c]))
    /\ pc' = [pc EXCEPT ![c] = IF name[c] \in Unwritable THEN "crashed" ELSE how]

\* block++; the ACK is kept for a resend and goes to to.
Acknowledge(c, in, to) ==
    /\ block' = [block EXCEPT ![c] = @ + 1]
    /\ last' = [last EXCEPT ![c] = Ack(block[c] + 1)]
    /\ Exchange(in, {Dgram(port[c], to, Ack(block[c] + 1))})

\* fopen(file, "w") empties or creates the file, its failure goes unnoticed, and
\* ACK 0 invites the first block.
Start(c) ==
    /\ pc[c] = "wrq"
    /\ files' = IF name[c] \in Unwritable THEN files ELSE WithFile(name[c], <<>>)
    /\ last' = [last EXCEPT ![c] = Ack(0)]
    /\ Exchange({}, {Dgram(port[c], peer[c], Ack(0))})
    /\ pc' = [pc EXCEPT ![c] = "writewait"]
    /\ UNCHANGED <<port, peer, name, block, timeouts, pos, buf, quiet>>

\* Defect: the counter of timeouts is not reset.
KeepsCounting(c, d, from) ==
    /\ pc[c] = "writewait"
    /\ block[c] < MaxBlocks
    /\ Arrives(c, d)
    /\ from \in IF block[c] = 0 THEN Blend[peer[c], d.src] ELSE {d.src}
    /\ peer' = [peer EXCEPT ![c] = from]
    /\ quiet' = [quiet EXCEPT ![c] = 0]
    /\ UNCHANGED <<port, name, timeouts>>

\* recvfrom returns a datagram: timeout = 0, and its sender becomes the client.
\* For the first one addr_len is uninitialized, and the address may be copied in
\* part or not at all.
Returned(c, d, from) ==
    /\ pc[c] = "writewait"
    /\ block[c] < MaxBlocks
    /\ Arrives(c, d)
    /\ from \in IF block[c] = 0 THEN Blend[peer[c], d.src] ELSE {d.src}
    /\ peer' = [peer EXCEPT ![c] = from]
    /\ timeouts' = [timeouts EXCEPT ![c] = 0]
    /\ quiet' = [quiet EXCEPT ![c] = 0]
    /\ UNCHANGED <<port, name>>

\* Defect: a full packet is taken for the last one.
EndsOnFull(c, bytes) ==
    pc' = [pc EXCEPT ![c] = IF Len(bytes) <= Segment THEN "closing" ELSE @]

\* Defect: a short packet does not end the transfer.
NeverLast(c, bytes) == UNCHANGED pc

\* if (data_len < 516) {more_packet = false;}: the loop ends after this packet.
Continue(c, bytes) ==
    pc' = [pc EXCEPT ![c] = IF Len(bytes) < Segment THEN "closing" ELSE @]

\* A datagram, whatever its opcode and block number. Its payload goes to the
\* stream, which passes any part of what it holds on to the file, and an ACK to
\* the sender.
Stored(c, d) ==
    LET bytes == d.pkt.data
        held == buf[c] \o CString(bytes)
    IN  \E from \in Peer :
            /\ Returned(c, d, from)
            /\ ~(name[c] \in Unwritable /\ bytes # <<>>)
            /\ \E k \in 0..Len(held) : Flush(c, held, k)
            /\ Acknowledge(c, {d}, from)
            /\ Continue(c, bytes)

\* fprintf on the NULL stream of a failed fopen.
Crashed(c, d) ==
    /\ \E from \in Peer : Returned(c, d, from)
    /\ name[c] \in Unwritable /\ d.pkt.data # <<>>
    /\ pc' = [pc EXCEPT ![c] = "crashed"]
    /\ Exchange({d}, {})
    /\ UNCHANGED <<files, block, last, pos, buf>>

\* With a negative addr_len recvfrom fails with EINVAL after taking the first
\* datagram: data_len is -1, which is not a timeout but less than 516.
Mistaken(c, d) ==
    /\ NegativeLen
    /\ pc[c] = "writewait"
    /\ block[c] = 0
    /\ Arrives(c, d)
    /\ timeouts' = [timeouts EXCEPT ![c] = 0]
    /\ quiet' = [quiet EXCEPT ![c] = 0]
    /\ Acknowledge(c, {d}, peer[c])
    /\ pc' = [pc EXCEPT ![c] = "closing"]
    /\ UNCHANGED <<files, port, peer, name, pos, buf>>

\* The loop is over, its last ACK sent: what the stream holds reaches the file.
Close(c) ==
    /\ pc[c] = "closing"
    /\ Fclose(c, "exited")
    /\ UNCHANGED <<net, port, peer, name, block, timeouts, last, quiet>>

\* recvfrom times out: the last ACK is sent again, but the 10th timeout in a row
\* ends the transfer.
WriteTimeout(c) ==
    /\ pc[c] = "writewait"
    /\ Silence(c)
    /\ timeouts' = [timeouts EXCEPT ![c] = @ + 1]
    /\ quiet' = [quiet EXCEPT ![c] = @ + 1]
    /\ \/ /\ timeouts'[c] >= MaxTimeouts
          /\ Fclose(c, "timedout")
          /\ UNCHANGED net
       \/ /\ timeouts'[c] < MaxTimeouts
          /\ Exchange({}, {Dgram(port[c], peer[c], last[c])})
          /\ UNCHANGED <<files, pc, pos, buf>>
    /\ UNCHANGED <<port, peer, name, block, last>>

WriteStep(c) ==
    \/ Start(c)
    \/ \E d \in net : Stored(c, d) \/ Crashed(c, d) \/ Mistaken(c, d)
    \/ WriteTimeout(c)
    \/ Close(c)

Inject ==
    /\ SendStray
    /\ UNCHANGED <<files, pc, port, peer, name, block, timeouts, last, pos,
                   buf, quiet>>

Init == ChildInit("wrq")

Next == Inject \/ \E c \in Child : WriteStep(c)

Spec == Init /\ [][Next]_vars

\* A child keeps running: the kernel schedules it, and its receive ends with a
\* datagram or after a second.
FairSpec == Spec /\ \A c \in Child : WF_vars(WriteStep(c))

----------------------------------------------------------------------------
\* Every variable holds a value of its type; in particular the counter of
\* timeouts stays within its limit although nothing checks it after a reset.
TypeOK ==
    /\ ChildTypeOK
    /\ pc \in [Child -> {"wrq", "writewait", "closing"} \cup Stopped]

\* As long as no other child has opened the same file, a child's stream is at the
\* end of it: what write_data stores is appended to what it stored, whoever sends
\* it. (Another child's fopen empties the file under the stream's feet.)
StreamAtEnd ==
    \A c \in Child :
        /\ pc[c] # "wrq" /\ name[c] \notin Unwritable
        /\ \A e \in Child \ {c} : name[e] = name[c] => pc[e] = "wrq"
        => name[c] \in DOMAIN files /\ Len(files[name[c]]) = pos[c]

\* Before its handler runs a child has nothing open; afterwards its file exists,
\* unless fopen failed, whatever other children have done to it.
Opened ==
    \A c \in Child :
        /\ pc[c] = "wrq" => pos[c] = 0 /\ buf[c] = <<>>
        /\ pc[c] # "wrq" /\ name[c] \notin Unwritable => name[c] \in DOMAIN files

\* timeout is exactly the number of timeouts since a datagram came. It is below
\* its limit while write_data runs and at it when a child has given up.
SilenceCounted ==
    \A c \in Child :
        /\ timeouts[c] = quiet[c]
        /\ pc[c] \in {"wrq", "writewait", "closing"} => timeouts[c] < MaxTimeouts
        /\ pc[c] = "timedout" => timeouts[c] = MaxTimeouts

\* The inductive invariant that the proofs of the properties above rest on.
WriteInv == TypeOK /\ Sockets /\ SilenceCounted /\ Opened /\ StreamAtEnd

\* Whoever keeps or stops sending, a child serving a write request ends once no
\* more than MaxBlocks datagrams come: the last of them is a short one, or
\* MaxTimeouts timeouts follow it, and what its stream holds is then written.
Terminates == \A c \in Child : <>(pc[c] \in Stopped /\ buf[c] = <<>>)
============================================================================
