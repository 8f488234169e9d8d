------------------------------ MODULE DgEcho -------------------------------
(***************************************************************************)
(* The signal-driven UDP server, unpv13e/sigio/dgecho01.c: the handler of  *)
(* SIGIO reads datagrams into a ring and the main loop echoes them. The    *)
(* mask of SIGIO follows from where the main loop stands.                  *)
(***************************************************************************)
EXTENDS Integers, Sequences, SequencesExt

CONSTANTS
    QSIZE,        \* slots of the ring
    MaxDgs        \* bound: datagrams that arrive

VARIABLES
    main,      \* "async", "nbio", "mask" while setting up, then "test",
               \* "suspend", "send", "sent"; "gone" after err_quit or err_sys
    handling,  \* sig_io is running
    pending,   \* SIGIO is pending
    buf,       \* the socket's receive buffer
    arrived,   \* datagrams that have reached it, numbered 1, 2, ...
    dg, iget, iput, nqueue,
    took,      \* datagrams read, in order
    echoed,    \* datagrams sent back, in order
    early      \* one arrived before the socket was set up

vars == <<main, handling, pending, buf, arrived, dg, iget, iput, nqueue, took, echoed, early>>
ring == <<dg, iget, iput, nqueue>>

Init ==
    /\ main = "async" /\ handling = FALSE /\ pending = FALSE
    /\ buf = <<>> /\ arrived = 0
    /\ dg = [k \in 0..(QSIZE - 1) |-> 0] /\ iget = 0 /\ iput = 0 /\ nqueue = 0
    /\ took = <<>> /\ echoed = <<>> /\ early = FALSE

Nonblocking == main \notin {"async", "nbio"}

\* A datagram arrives; SIGIO is generated once FIOASYNC is set.
Arrive ==
    /\ arrived < MaxDgs /\ main # "gone"
    /\ arrived' = arrived + 1 /\ buf' = Append(buf, arrived + 1)
    /\ pending' = (main # "async") /\ early' = (early \/ ~Nonblocking)
    /\ UNCHANGED <<main, handling, ring, took, echoed>>

\* The main loop runs while the handler does not.
Main(from, to) == ~handling /\ main = from /\ main' = to

\* FIOASYNC, FIONBIO, and SIGIO blocked.
SetUp ==
    /\ Main("async", "nbio") \/ Main("nbio", "mask") \/ Main("mask", "test")
    /\ UNCHANGED <<handling, pending, buf, arrived, ring, took, echoed, early>>

\* while (nqueue == 0) sigsuspend; otherwise SIGIO is unblocked.
Test ==
    /\ Main("test", IF nqueue = 0 THEN "suspend" ELSE "send")
    /\ UNCHANGED <<handling, pending, buf, arrived, ring, took, echoed, early>>

\* The socket does not block: Sendto ends the server when there is no room.
Sendto ==
    /\ \/ Main("send", "sent") /\ echoed' = Append(echoed, dg[iget])
       \/ Main("send", "gone") /\ UNCHANGED echoed
    /\ UNCHANGED <<handling, pending, buf, arrived, ring, took, early>>

\* The next slot, SIGIO blocked again, and one datagram less. The handler does not
\* use iget and cannot run once SIGIO is blocked.
Sent ==
    /\ Main("sent", "test")
    /\ iget' = (iget + 1) % QSIZE /\ nqueue' = nqueue - 1
    /\ UNCHANGED <<handling, pending, buf, arrived, dg, iput, took, echoed, early>>

----------------------------------------------------------------------------
\* SIGIO is delivered where it is not blocked; sigsuspend lets it in.
Deliver ==
    /\ pending /\ ~handling /\ main \notin {"test", "gone"}
    /\ handling' = TRUE /\ pending' = FALSE
    /\ UNCHANGED <<main, buf, arrived, ring, took, echoed, early>>

\* Defect: nobody looks.
Unchecked == FALSE
Overflow == nqueue >= QSIZE

Store ==
    /\ dg' = [dg EXCEPT ![iput] = Head(buf)] /\ took' = Append(took, Head(buf))
    /\ buf' = Tail(buf) /\ nqueue' = nqueue + 1 /\ iput' = (iput + 1) % QSIZE

\* Out of the handler, and out of sigsuspend.
Return == handling' = FALSE /\ main' = IF main = "suspend" THEN "test" ELSE main

\* Defect: one datagram for each signal.
OnePerSignal ==
    /\ handling
    /\ IF Overflow THEN main' = "gone" /\ UNCHANGED <<handling, buf, dg, iput, nqueue, took>>
       ELSE /\ buf # <<>> \/ Nonblocking
            /\ IF buf # <<>> THEN Store ELSE UNCHANGED <<buf, dg, iput, nqueue, took>>
            /\ Return
    /\ main # "gone"
    /\ UNCHANGED <<pending, arrived, iget, echoed, early>>

\* One turn of the handler's loop: it reads until there is nothing left, and waits
\* in recvfrom as long as the socket still blocks. A full ring ends the server, and so
\* does any other error of recvfrom.
sig_io ==
    /\ handling
    /\ \/ main' = "gone" /\ UNCHANGED <<handling, buf, dg, iput, nqueue, took>>
       \/ ~Overflow /\ buf # <<>> /\ Store /\ UNCHANGED <<main, handling>>
       \/ /\ ~Overflow /\ buf = <<>> /\ Nonblocking /\ Return
          /\ UNCHANGED <<buf, dg, iput, nqueue, took>>
    /\ main # "gone"
    /\ UNCHANGED <<pending, arrived, iget, echoed, early>>

Server == SetUp \/ Test \/ Sendto \/ Sent \/ Deliver \/ sig_io
Next == Arrive \/ Server

----------------------------------------------------------------------------
\* Datagrams are echoed in the order they were read, each once and unaltered: the
\* handler never reads into a slot the main loop has still to send.
EchoesInOrder == IsPrefix(echoed, took)

\* What makes EchoesInOrder inductive: the ring holds, from iget on, exactly the nqueue
\* datagrams that were read and are not yet done with.
Slot(k) == (iget + k) % QSIZE
Done == Len(echoed) - (IF main = "sent" THEN 1 ELSE 0)
RingType ==
    /\ buf \in Seq(Nat) /\ arrived \in Nat /\ took \in Seq(Nat) /\ echoed \in Seq(Nat)
    /\ dg \in [0..(QSIZE - 1) -> Nat] /\ iget \in 0..(QSIZE - 1) /\ nqueue \in 0..QSIZE
RingHolds ==
    /\ iput = Slot(nqueue) /\ (main \in {"send", "sent"} => nqueue > 0)
    /\ Done >= 0 /\ Len(took) = Done + nqueue
    /\ \A k \in 0..(nqueue - 1) : dg[Slot(k)] = took[Done + k + 1]
Agree == Len(echoed) <= Len(took) /\ \A k \in 1..Len(echoed) : echoed[k] = took[k]
RingInv == RingType /\ Agree /\ (main # "gone" => RingHolds)

Reached(d) == arrived >= d
Answered(d) == main = "gone" \/ early \/ \E k \in DOMAIN echoed : echoed[k] = d
============================================================================
