---------------------------- MODULE PoolServer -----------------------------
(***************************************************************************)
(* The prethreaded server, serv08.c and pthread08.c of unpv13e/server: the *)
(* main thread puts accepted descriptors into the ring clifd, the threads  *)
(* take them out, all under clifd_mutex. What happens between locking and  *)
(* unlocking is one step; clifd_cond wakes a thread, but the thread must   *)
(* get the mutex again before it goes on, and may wake without a reason.   *)
(***************************************************************************)
EXTENDS Integers, Sequences, FiniteSets

CONSTANTS
    NThreads,      \* nthreads
    MAXNCLI,       \* slots of the ring
    MaxConns       \* bound: connections that arrive

Threads == 1..NThreads
Conns == 1..MaxConns

VARIABLES
    main,       \* "accept", "put", or "gone" after err_quit
    connfd,     \* the descriptor the main thread has accepted
    arrived,    \* connections that have come, numbered 1, 2, ...
    accepted,   \* and how many of them were accepted
    clifd, iget, iput,
    thread,     \* "lock", "waiting" for clifd_cond, "web"
    serving,    \* the connection of each thread
    count       \* how often each connection was given to web_child

vars == <<main, connfd, arrived, accepted, clifd, iget, iput, thread, serving, count>>

Init ==
    /\ main = "accept" /\ connfd = 0 /\ arrived = 0 /\ accepted = 0
    /\ clifd = [k \in 0..(MAXNCLI - 1) |-> 0] /\ iget = 0 /\ iput = 0
    /\ thread = [t \in Threads |-> "lock"] /\ serving = [t \in Threads |-> 0]
    /\ count = [c \in Conns |-> 0]

Arrive ==
    /\ arrived < MaxConns /\ main # "gone" /\ arrived' = arrived + 1
    /\ UNCHANGED <<main, connfd, accepted, clifd, iget, iput, thread, serving, count>>

\* A failure of Accept ends the server.
Accept ==
    /\ main = "accept" /\ accepted < arrived
    /\ \/ accepted' = accepted + 1 /\ connfd' = accepted + 1 /\ main' = "put"
       \/ main' = "gone" /\ UNCHANGED <<accepted, connfd>>
    /\ UNCHANGED <<arrived, clifd, iget, iput, thread, serving, count>>

Waiting == {t \in Threads : thread[t] = "waiting"}

\* Defect: nobody is woken.
Unsignalled == thread' = thread
\* Pthread_cond_signal wakes one of the waiting threads, if there is one.
Signal ==
    IF Waiting = {} THEN thread' = thread
    ELSE \E t \in Waiting : thread' = [thread EXCEPT ![t] = "lock"]

\* iput has caught up with iget.
Full == iput' = iget

Put ==
    /\ main = "put"
    /\ clifd' = [clifd EXCEPT ![iput] = connfd] /\ iput' = (iput + 1) % MAXNCLI
    /\ IF Full THEN main' = "gone" /\ UNCHANGED thread
       ELSE main' = "accept" /\ Signal
    /\ UNCHANGED <<connfd, arrived, accepted, iget, serving, count>>

----------------------------------------------------------------------------
\* thread_main: with the mutex, wait while the ring is empty, or take a descriptor.
Get(t) ==
    /\ thread[t] = "lock" /\ main # "gone"
    /\ IF iget = iput
       THEN thread' = [thread EXCEPT ![t] = "waiting"] /\ UNCHANGED <<iget, serving, count>>
       ELSE /\ serving' = [serving EXCEPT ![t] = clifd[iget]]
            /\ count' = [count EXCEPT ![clifd[iget]] = @ + 1]
            /\ iget' = (iget + 1) % MAXNCLI
            /\ thread' = [thread EXCEPT ![t] = "web"]
    /\ UNCHANGED <<main, connfd, arrived, accepted, clifd, iput>>

Spurious(t) ==
    /\ thread[t] = "waiting" /\ main # "gone" /\ thread' = [thread EXCEPT ![t] = "lock"]
    /\ UNCHANGED <<main, connfd, arrived, accepted, clifd, iget, iput, serving, count>>

\* web_child and Close. Threads share the process: a reset by the client that ends a
\* thread ends the server.
web_child(t) ==
    /\ thread[t] = "web" /\ main # "gone"
    /\ \/ main' = main
       \/ main' = "gone"
    /\ thread' = [thread EXCEPT ![t] = "lock"] /\ serving' = [serving EXCEPT ![t] = 0]
    /\ UNCHANGED <<connfd, arrived, accepted, clifd, iget, iput, count>>

Next ==
    \/ Arrive \/ Accept \/ Put
    \/ \E t \in Threads : Get(t) \/ Spurious(t) \/ web_child(t)

Main == Accept \/ Put

----------------------------------------------------------------------------
\* The descriptors in the ring, in order.
Queued == [k \in 1..((iput - iget) % MAXNCLI) |-> clifd[(iget + k - 1) % MAXNCLI]]

\* Every accepted connection is in exactly one place, in the ring or with a thread
\* that took it once, however the threads are woken; only an overflow ends this.
OneThreadEach ==
    main # "gone" =>
        /\ \A c \in Conns : count[c] <= 1
        /\ \A k \in DOMAIN Queued : count[Queued[k]] = 0
        /\ accepted = Cardinality({c \in Conns : count[c] = 1}) + Len(Queued)
                          + (IF main = "put" THEN 1 ELSE 0)

\* What makes OneThreadEach inductive: connections go through the ring in the order of
\* their numbers, so those up to Taken have left it and the next ones are in it.
Waits == (iput - iget) % MAXNCLI
Taken == accepted - Waits - (IF main = "put" THEN 1 ELSE 0)
PoolType ==
    /\ arrived \in 0..MaxConns /\ accepted \in 0..arrived /\ connfd \in Nat
    /\ clifd \in [0..(MAXNCLI - 1) -> Nat]
    /\ iget \in 0..(MAXNCLI - 1) /\ iput \in 0..(MAXNCLI - 1)
    /\ thread \in [Threads -> {"lock", "waiting", "web"}] /\ count \in [Conns -> Nat]
PoolOrder ==
    /\ Taken >= 0 /\ (main = "put" => connfd = accepted)
    /\ \A k \in 1..Waits : clifd[(iget + k - 1) % MAXNCLI] = Taken + k
    /\ \A c \in Conns : count[c] = IF c <= Taken THEN 1 ELSE 0
PoolInv == PoolType /\ (main # "gone" => PoolOrder)

Reached(c) == arrived >= c
Served(c) == count[c] > 0 \/ main = "gone"
\* Every thread is at work for a client that has not ended its session.
AllBusy == \A t \in Threads : thread[t] = "web"
============================================================================
