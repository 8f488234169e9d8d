--------------------------- MODULE WriteSession ---------------------------
(***************************************************************************)
(* An upload: a write_data child, the client whose request it serves and   *)
(* the network between them. The client is a TFTP client as RFC 1350 asks  *)
(* for, which leaves resending to the server's timeouts.                   *)
(***************************************************************************)
EXTENDS WriteData

CONSTANTS
    Client,      \* the client's address
    Sources,     \* the files the client may upload
    MaxLoss      \* bound: datagrams the network loses

ASSUME WriteSessionAssumption ==
    /\ \E c \in Child : Child = {c}
    /\ Client \in Peer
    /\ Sources \subseteq Seq(Byte)
    /\ MaxLoss \in Nat

VARIABLES
    source,      \* the file being uploaded
    sent,        \* the block the client sent last, 0: the write request
    cstate,      \* "open" or "done"
    losses       \* datagrams lost so far

clientVars == <<source, sent, cstate>>
sessionVars == <<vars, clientVars, losses>>

\* Block i of the file; the last one is shorter than a segment.
Block(i) == SubSeq(source, (i - 1) * Segment + 1,
                   IF i * Segment <= Len(source) THEN i * Segment
                   ELSE Len(source))

LastSent == sent > 0 /\ Len(Block(sent)) < Segment

\* An ACK of the block sent last: the next block goes out, unless it was the last.
NextBlock(d) ==
    /\ d.pkt = Ack(sent)
    /\ \/ /\ LastSent
          /\ cstate' = "done"
          /\ Exchange({d}, {})
          /\ UNCHANGED sent
       \/ /\ ~LastSent
          /\ sent' = sent + 1
          /\ Exchange({d}, {Dgram(Client, d.src, Data(sent + 1, Block(sent + 1)))})
          /\ UNCHANGED cstate

\* The ACK before, again: the block was lost and is sent again.
RepeatBlock(d) ==
    /\ sent > 0
    /\ d.pkt = Ack(sent - 1)
    /\ Exchange({d}, {Dgram(Client, d.src, Data(sent, Block(sent)))})
    /\ UNCHANGED <<sent, cstate>>

ClientStep ==
    /\ cstate = "open"
    /\ \E d \in net : d.dst = Client /\ (NextBlock(d) \/ RepeatBlock(d))
    /\ UNCHANGED <<files, pc, port, peer, name, block, timeouts, last, pos, buf,
                   quiet, source, losses>>

\* The network loses a datagram.
Lose ==
    /\ losses < MaxLoss
    /\ losses' = losses + 1
    /\ \E d \in net : net' = net \ {d}
    /\ UNCHANGED <<files, pc, port, peer, name, block, timeouts, last, pos, buf,
                   quiet, clientVars>>

Serve(c) == WriteStep(c) /\ UNCHANGED <<clientVars, losses>>

SessionInit ==
    /\ Init
    /\ \A c \in Child : peer[c] = Client
    /\ source \in Sources
    /\ sent = 0 /\ cstate = "open"
    /\ losses = 0

SessionNext == ClientStep \/ Lose \/ \E c \in Child : Serve(c)

SessionSpec == SessionInit /\ [][SessionNext]_sessionVars

\* The child is scheduled and its receives end; the client answers.
FairSessionSpec ==
    /\ SessionSpec
    /\ WF_sessionVars(ClientStep)
    /\ \A c \in Child : WF_sessionVars(Serve(c))

----------------------------------------------------------------------------
\* The child that serves the upload, and what it holds of it: what it wrote to
\* the file and what its stream holds.
Server == CHOOSE c \in Child : TRUE

Uploaded == IF pc[Server] = "wrq" THEN <<>> ELSE files[name[Server]] \o buf[Server]

Copying == INSTANCE FileCopy WITH
               copy <- Uploaded,
               complete <- pc[Server] \in {"closing", "exited"}

\* An upload implements FileCopy: block by block write_data takes the bytes of
\* the client's file in order, none twice and none left out, and ends the
\* transfer exactly when it has them all, although it never looks at the block
\* numbers of the packets it stores.
RefinesFileCopy == Copying!Spec

\* The blocks the client has seen acknowledged are in the server's hands: an ACK
\* never runs ahead of the data, across lost packets, lost ACKs and resends.
AckedIsHeld ==
    LET acked == IF cstate = "done" THEN Len(source)
                 ELSE IF sent = 0 THEN 0 ELSE (sent - 1) * Segment
    IN  Len(Uploaded) >= acked

\* write_data writes to the file all the data there is: once the child has ended
\* an upload, the file is the client's.
UploadExact == pc[Server] = "exited" => files[name[Server]] = source

\* What the proofs about uploads assume: a network that RFC 1350 can cope with, a
\* file that fopen creates, text without NULs (fprintf stops at one) and recvfrom
\* given a length that is not negative.
Deliverable ==
    /\ Timely /\ BlockMod > 1
    /\ Unwritable = {} /\ ~NegativeLen
    /\ \A f \in Sources : \A i \in 1..Len(f) : f[i] # Nul

\* The first i blocks of the file.
Beginning(i) == SubSeq(source, 1, IF i * Segment <= Len(source) THEN i * Segment
                                  ELSE Len(source))

\* One datagram is under way at most: the ACK that the child would resend, or the
\* block after the one that it acknowledged.
OneInFlight ==
    /\ peer[Server] = Client
    /\ last[Server] = Ack(block[Server])
    /\ pc[Server] = "wrq" => net = {}
    /\ \A d, e \in net : d = e
    /\ \A d \in net :
          \/ d.src = port[Server] /\ d.dst = Client /\ d.pkt = Ack(block[Server])
          \/ /\ d.src = Client /\ d.dst = port[Server]
             /\ d.pkt = Data(sent, Block(sent)) /\ sent = block[Server] + 1

\* The client is at the block the child has acknowledged or at the next one. All
\* the child took were full blocks, up to a short one that made it close the
\* file; only then can the client have been told that it is done.
BlocksInStep ==
    /\ source \in Sources /\ sent \in Nat /\ cstate \in {"open", "done"}
    /\ pc[Server] \in {"wrq", "writewait", "timedout", "closing", "exited"}
    /\ pc[Server] = "wrq" => block[Server] = 0 /\ sent = 0
    /\ pc[Server] \in {"wrq", "writewait", "timedout"} =>
          /\ cstate = "open" /\ sent \in {block[Server], block[Server] + 1}
          /\ block[Server] * Segment <= Len(source)
    /\ pc[Server] \in {"closing", "exited"} =>
          /\ block[Server] >= 1 /\ sent = block[Server]
          /\ (block[Server] - 1) * Segment <= Len(source)
          /\ Len(source) < block[Server] * Segment

\* File and stream together hold the blocks acknowledged; at the end the file
\* holds them all.
BlocksHeld == /\ Uploaded = Beginning(block[Server])
              /\ pc[Server] = "exited" => buf[Server] = <<>>

\* The inductive invariant that the proofs about uploads rest on.
UploadInv == WriteInv /\ OneInFlight /\ BlocksInStep /\ BlocksHeld

\* An upload is stored when fewer than MaxTimeouts datagrams are lost: the child
\* does not give up, it does not wait for ever, and what it acknowledged last
\* reaches the file.
Stores == <>(pc[Server] = "exited" /\ files[name[Server]] = source)
============================================================================
