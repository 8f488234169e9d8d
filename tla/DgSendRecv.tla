---------------------------- MODULE DgSendRecv -----------------------------
(***************************************************************************)
(* dg_send_recv of unpv13e/rtt with the timers of lib/rtt.c: a request is  *)
(* sent over UDP and sent again when SIGALRM goes off before its reply.    *)
(* The network loses, repeats and reorders datagrams: what was sent once   *)
(* may arrive at any later time, any number of times, or never. The alarm  *)
(* takes at least RTT_RXTMIN seconds, so it is assumed not to go off       *)
(* between alarm and sigsetjmp, two statements that Arm joins.             *)
(***************************************************************************)
EXTENDS Integers

CONSTANTS
    MaxCalls,         \* bound: calls of dg_send_recv
    Estimates         \* what RTT_RTOCALC may yield, in seconds

RTT_RXTMIN == 2
RTT_RXTMAX == 60
RTT_MAXNREXMT == 3

VARIABLES
    at,        \* "idle" between calls, "send", "arm", "recv", "stop", "gone"
    seq,       \* sendhdr.seq
    got,       \* recvhdr.seq
    nrexmt,    \* rtt_nrexmt
    rto,       \* rtt_rto, -1 while rttinit = 0
    timer,     \* the alarm is running
    result,    \* what the last call returned: the reply's number, or -1
    reqs,      \* requests and
    reps       \* replies the network may still deliver

vars == <<at, seq, got, nrexmt, rto, timer, result, reqs, reps>>

Init ==
    /\ at = "idle" /\ seq = 0 /\ got = 0 /\ nrexmt = 0 /\ rto = -1
    /\ timer = FALSE /\ result = 0 /\ reqs = {} /\ reps = {}

\* Defect: no lower bound.
NoFloor(r) == IF r > RTT_RXTMAX THEN RTT_RXTMAX ELSE r
rtt_minmax(r) == IF r < RTT_RXTMIN THEN RTT_RXTMIN ELSE IF r > RTT_RXTMAX THEN RTT_RXTMAX ELSE r

\* rtt_init, with the first estimate of 3 seconds.
rtt_init == rtt_minmax(3)

dg_send_recv ==
    /\ at = "idle" /\ seq < MaxCalls
    /\ at' = "send" /\ seq' = seq + 1 /\ nrexmt' = 0
    /\ rto' = IF rto = -1 THEN rtt_init ELSE rto
    /\ UNCHANGED <<got, timer, result, reqs, reps>>

\* Sendmsg ends the program when it fails.
Sendmsg ==
    /\ at = "send"
    /\ \/ at' = "arm" /\ reqs' = reqs \cup {seq}
       \/ at' = "gone" /\ UNCHANGED reqs
    /\ UNCHANGED <<seq, got, nrexmt, rto, timer, result, reps>>

\* alarm(rtt_start()): an alarm of 0 seconds is no alarm.
Arm ==
    /\ at = "arm" /\ at' = "recv" /\ timer' = (rto > 0)
    /\ UNCHANGED <<seq, got, nrexmt, rto, result, reqs, reps>>

\* Recvmsg until a reply carries the number of the request; its failure ends the
\* program, and the alarm with it.
Recvmsg ==
    /\ at = "recv"
    /\ \/ /\ \E m \in reps : got' = m /\ at' = IF m = seq THEN "stop" ELSE "recv"
          /\ UNCHANGED timer
       \/ at' = "gone" /\ timer' = FALSE /\ UNCHANGED got
    /\ UNCHANGED <<seq, nrexmt, rto, result, reqs, reps>>

\* Defect: the alarm is left running.
StopKeepsAlarm ==
    /\ at = "stop" /\ at' = "idle" /\ result' = got
    /\ \E r \in Estimates : rto' = rtt_minmax(r)
    /\ UNCHANGED <<seq, got, nrexmt, timer, reqs, reps>>

\* alarm(0), rtt_stop and the return.
Stop ==
    /\ at = "stop" /\ at' = "idle" /\ result' = got
    /\ timer' = FALSE /\ \E r \in Estimates : rto' = rtt_minmax(r)
    /\ UNCHANGED <<seq, got, nrexmt, reqs, reps>>

rtt_timeout == nrexmt + 1 > RTT_MAXNREXMT

\* SIGALRM jumps back to sigsetjmp, from recvmsg or after it has returned: the
\* request is sent again, or the call gives up and forgets its estimates.
sig_alrm ==
    /\ timer /\ at \in {"recv", "stop"}
    /\ timer' = FALSE /\ nrexmt' = nrexmt + 1
    /\ IF rtt_timeout THEN at' = "idle" /\ result' = -1 /\ rto' = -1
       ELSE at' = "send" /\ rto' = 2 * rto /\ UNCHANGED result
    /\ UNCHANGED <<seq, got, reqs, reps>>

\* The server echoes each request that reaches it.
Reply ==
    /\ \E r \in reqs \ reps : reps' = reps \cup {r}
    /\ UNCHANGED <<at, seq, got, nrexmt, rto, timer, result, reqs>>

Next == dg_send_recv \/ Sendmsg \/ Arm \/ Recvmsg \/ Stop \/ sig_alrm \/ Reply

Client == Sendmsg \/ Arm \/ Stop

----------------------------------------------------------------------------
\* A call that returns a reply returns the one to its own request, not one that
\* arrived late from an earlier call; and no alarm is left to jump into the frame
\* of a call that has returned.
ReturnsClean == at = "idle" => ~timer /\ result \in {-1, seq}

\* What makes ReturnsClean inductive: the alarm runs only while recvmsg waits or its
\* reply is about to be returned, and then the reply carries the request's number.
RttInv ==
    /\ timer => at \in {"recv", "stop"}
    /\ at = "stop" => got = seq
    /\ ReturnsClean

InCall == at # "idle"
Returned == at \in {"idle", "gone"}
============================================================================
