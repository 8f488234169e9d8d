---------------------------- MODULE ReadSession ----------------------------
(***************************************************************************)
(* A download: read_data children, the client whose request they serve and *)
(* the network between them. Several children serve the same request when  *)
(* the client's RRQ is repeated: main forks one for every datagram. The    *)
(* client is a TFTP client as RFC 1350 asks for; only its packets reach    *)
(* the children.                                                           *)
(***************************************************************************)
EXTENDS ReadData

CONSTANTS
    Client,      \* the client's address
    None,        \* no transfer identifier yet
    MaxLoss      \* bound: datagrams the network loses

ASSUME ReadSessionAssumption ==
    /\ Client \in Peer
    /\ None \notin Port
    /\ MaxLoss \in Nat

\* RFC 1350 takes for granted that the block numbers of two segments in a row
\* differ and that no datagram outlives the timeout: a copy of an ACK would make
\* read_data, which does not look at it, send the next segment.
ASSUME NetworkAssumption == Timely /\ BlockMod > 1

VARIABLES
    copy,        \* what the client has received of the file
    expect,      \* the segment it waits for next
    tid,         \* the port it took the first DATA packet from
    cstate,      \* "open", "done" or "failed"
    losses       \* datagrams lost so far

clientVars == <<copy, expect, tid, cstate>>
sessionVars == <<vars, clientVars, losses>>

\* What the client receives, and its answer. Packets that are neither the next
\* segment nor the one before, nor an ERROR, it ignores.
Receives(d) == d \in net /\ d.dst = Client

Reply(d, pkt) == Exchange({d}, {Dgram(Client, d.src, pkt)})

KnownTid(d) == tid \in {None, d.src}

\* The next segment: it is appended and acknowledged; a short one is the last.
TakeData(d) ==
    /\ Receives(d) /\ KnownTid(d)
    /\ d.pkt.op = 3 /\ d.pkt.block = Htons(expect)
    /\ cstate = "open"
    /\ copy' = copy \o d.pkt.data
    /\ expect' = expect + 1
    /\ tid' = d.src
    /\ cstate' = IF Len(d.pkt.data) < Segment THEN "done" ELSE cstate
    /\ Reply(d, Ack(expect))

\* The segment before, again: its ACK was lost. A client that has the whole file
\* still answers ("dallies").
TakeDuplicate(d) ==
    /\ Receives(d) /\ d.src = tid
    /\ d.pkt.op = 3 /\ d.pkt.block = Htons(expect - 1)
    /\ Reply(d, Ack(expect - 1))
    /\ UNCHANGED clientVars

\* A packet from another child: ERROR 5, unknown transfer ID.
RejectTid(d) ==
    /\ Receives(d) /\ ~KnownTid(d)
    /\ Reply(d, Err(5))
    /\ UNCHANGED clientVars

\* An ERROR packet ends the transfer.
TakeError(d) ==
    /\ Receives(d) /\ KnownTid(d)
    /\ d.pkt.op = 5
    /\ cstate = "open"
    /\ cstate' = "failed"
    /\ tid' = d.src
    /\ Exchange({d}, {})
    /\ UNCHANGED <<copy, expect>>

ClientStep ==
    /\ \E d \in net : \/ TakeData(d) \/ TakeDuplicate(d)
                      \/ RejectTid(d) \/ TakeError(d)
    /\ UNCHANGED <<files, pc, port, peer, name, block, timeouts, last, pos, buf,
                   quiet, done, losses>>

\* The network loses a datagram.
Lose ==
    /\ losses < MaxLoss
    /\ losses' = losses + 1
    /\ \E d \in net : net' = net \ {d}
    /\ UNCHANGED <<files, pc, port, peer, name, block, timeouts, last, pos, buf,
                   quiet, done, clientVars>>

Serve(c) == ReadStep(c) /\ UNCHANGED <<clientVars, losses>>

SessionInit ==
    /\ Init
    /\ \A c, e \in Child : peer[c] = Client /\ name[c] = name[e]
    /\ copy = <<>> /\ expect = 1 /\ tid = None /\ cstate = "open"
    /\ losses = 0

SessionNext == ClientStep \/ Lose \/ \E c \in Child : Serve(c)

SessionSpec == SessionInit /\ [][SessionNext]_sessionVars

\* Children are scheduled and their receives end; the client answers.
FairSessionSpec ==
    /\ SessionSpec
    /\ WF_sessionVars(ClientStep)
    /\ \A c \in Child : WF_sessionVars(Serve(c))

----------------------------------------------------------------------------
\* The file all the children of the session serve.
Source == LET n == name[CHOOSE c \in Child : TRUE]
          IN  IF n \in DOMAIN files THEN files[n] ELSE <<>>

Copying == INSTANCE FileCopy WITH source <- Source, complete <- cstate = "done"

\* A download implements FileCopy: segment by segment the client gets the bytes
\* of the file in order, none twice and none left out, and takes the transfer
\* for complete exactly when it has them all, although read_data never looks at
\* what the datagrams it waits for contain.
RefinesFileCopy == Copying!Spec

\* read_data is at the segment the client waits for or at the one before, so the
\* server and the client, which see block numbers modulo 2^16 only, agree on the
\* segment they mean: it goes on sending when an ACK of the last packet arrived.
Lockstep ==
    \A c \in Child : port[c] = tid /\ cstate # "failed" =>
        block[c] - 1 \in {expect - 1, expect}

\* When the child that the client deals with ends without giving up, the client
\* has the whole file: no datagram was mistaken for the last ACK.
ExitMeansDelivered ==
    \A c \in Child : pc[c] = "exited" /\ port[c] = tid =>
        cstate = "done" \/ name[c] \notin DOMAIN files

\* The datagrams between a child and the client.
Wire(c) == {d \in net : port[c] \in {d.src, d.dst}}

\* What a child sent last: the segment before the one its counter names.
Latest(c) == IF name[c] \in DOMAIN files
             THEN Data(block[c] - 1, Seg(files[name[c]], block[c] - 1))
             ELSE Err(1)

\* Stop and wait: the children serve one request of one client, a child and the
\* client have at most one datagram between them, none before the child has
\* started, and what the child has sent is the segment it would resend.
OneInFlight ==
    /\ \A c, e \in Child : peer[c] = Client /\ name[c] = name[e]
    /\ \A d \in net : \E c \in Child : \/ d.src = port[c] /\ d.dst = Client
                                       \/ d.src = Client /\ d.dst = port[c]
    /\ \A c \in Child :
          /\ pc[c] = "rrq" => Wire(c) = {}
          /\ \A d, e \in Wire(c) : d = e
          /\ \A d \in Wire(c) : d.src = port[c] =>
                /\ d.pkt = Latest(c)
                /\ name[c] \in DOMAIN files => block[c] >= 2

\* The client has the segments before the one it expects, and is done when the
\* last of them was a short one.
ClientInStep ==
    /\ expect \in Nat \ {0}
    /\ cstate \in {"open", "done", "failed"}
    /\ copy = SubSeq(Source, 1, Least(Off(expect), Len(Source)))
    /\ cstate = "done" <=> Len(Source) < Off(expect)
    /\ cstate = "failed" => \A c \in Child : name[c] \notin DOMAIN files
    /\ tid = None => expect = 1 /\ cstate = "open"
    /\ tid # None => \E c \in Child : port[c] = tid

\* The client and the child it deals with: before the first DATA packet no child
\* has been answered, and afterwards an answer under way is to the last segment
\* sent, so that a child whose short segment is answered may exit.
InAgreement ==
    \A c \in Child :
        /\ tid = None => block[c] <= 2 /\ \A d \in net : d.dst # port[c]
        /\ port[c] = tid /\ cstate # "failed" =>
              /\ name[c] \in DOMAIN files
              /\ pc[c] # "rrq"
              /\ block[c] \in {expect, expect + 1}
              /\ cstate = "done" => block[c] = expect
              /\ \A d \in net : d.dst = port[c] => block[c] = expect
              /\ pc[c] = "exited" => cstate = "done"

\* The inductive invariant that the proofs about downloads rest on.
SessionInv == ReadInv /\ OneInFlight /\ ClientInStep /\ InAgreement

\* A download of a file that exists completes when fewer than MaxTimeouts
\* datagrams are lost, however long the file and however often its block numbers
\* wrap: every loss costs read_data one timeout, after which it resends.
Completes == <>(cstate = "done" \/ \E c \in Child : name[c] \notin DOMAIN files)
============================================================================
