--------------------------- MODULE MCConcurrency ---------------------------
(***************************************************************************)
(* The concurrent components that share no state, side by side: part says  *)
(* which of them runs, and x1, x2, ... hold its variables.                 *)
(***************************************************************************)
EXTENDS Integers, FiniteSets

CONSTANTS MaxCalls, QSIZE, MaxDgs, MaxReplies, NChildren, NThreads, MAXNCLI, MaxConns, MsgLen,
    NFiles

ASSUME ConcurrencyAssumption ==
    /\ QSIZE \in Nat \ {0} /\ MAXNCLI \in Nat \ {0}
    /\ {MaxConns, MsgLen, NChildren} \subseteq Nat

VARIABLES part, x1, x2, x3, x4, x5, x6, x7, x8, x9, x10, x11, x12

vars == <<part, x1, x2, x3, x4, x5, x6, x7, x8, x9, x10, x11, x12>>

\* An estimate below the least timeout, one between and one above the greatest.
Estimates == {0, 3, 100}
\* web01 with several connections; web03 with one, see MCWebClient for more.
Runs == {[program |-> "web01", maxnconn |-> 2], [program |-> "web03", maxnconn |-> 1]}

Rtt == INSTANCE DgSendRecv WITH at <- x1, seq <- x2, got <- x3, nrexmt <- x4, rto <- x5,
           timer <- x6, result <- x7, reqs <- x8, reps <- x9
Sigio == INSTANCE DgEcho WITH main <- x1, handling <- x2, pending <- x3, buf <- x4,
             arrived <- x5, dg <- x6, iget <- x7, iput <- x8, nqueue <- x9, took <- x10,
             echoed <- x11, early <- x12
Alarm == INSTANCE AlarmLoop WITH way <- x1, at <- x2, alarm <- x3, note <- x4, replies <- x5,
             more <- x6
Serv05 == INSTANCE PassServer WITH parent <- x1, rset <- x2, navail <- x3, status <- x4,
              backlog <- x5, arrived <- x6, aborted <- x7, down <- x8, up <- x9, child <- x10,
              serving <- x11, count <- x12
Serv08 == INSTANCE PoolServer WITH main <- x1, connfd <- x2, arrived <- x3, accepted <- x4,
              clifd <- x5, iget <- x6, iput <- x7, thread <- x8, serving <- x9, count <- x10
Web == INSTANCE WebClient WITH run <- x1, main <- x2, fptr <- x3, nconn <- x4,
           nlefttoconn <- x5, nlefttoread <- x6, f_flags <- x7, ndone <- x8, thread <- x9

Init ==
    \/ part = "rtt" /\ Rtt!Init /\ x10 = 0 /\ x11 = 0 /\ x12 = 0
    \/ part = "sigio" /\ Sigio!Init
    \/ part = "alarm" /\ Alarm!Init /\ x7 = 0 /\ x8 = 0 /\ x9 = 0 /\ x10 = 0 /\ x11 = 0 /\ x12 = 0
    \/ part = "serv05" /\ Serv05!Init
    \/ part = "serv08" /\ Serv08!Init /\ x11 = 0 /\ x12 = 0
    \/ part = "web" /\ Web!Init /\ x10 = 0 /\ x11 = 0 /\ x12 = 0

Only(p) == part = p /\ UNCHANGED part
RttRest == Only("rtt") /\ UNCHANGED <<x10, x11, x12>>
AlarmRest == Only("alarm") /\ UNCHANGED <<x7, x8, x9, x10, x11, x12>>
Serv08Rest == Only("serv08") /\ UNCHANGED <<x11, x12>>
WebRest == Only("web") /\ UNCHANGED <<x10, x11, x12>>

Next ==
    \/ RttRest /\ Rtt!Next
    \/ Only("sigio") /\ Sigio!Next
    \/ AlarmRest /\ Alarm!Next
    \/ Only("serv05") /\ Serv05!Next
    \/ Serv08Rest /\ Serv08!Next
    \/ WebRest /\ Web!Next

\* The processes and threads are scheduled and alarms go off; clients, the network and
\* spurious wake-ups owe nothing: a session of web_child may last for ever.
Fairness ==
    /\ WF_vars(RttRest /\ Rtt!Client) /\ WF_vars(RttRest /\ Rtt!sig_alrm)
    /\ WF_vars(Only("sigio") /\ Sigio!Server)
    /\ WF_vars(AlarmRest /\ Alarm!Client) /\ WF_vars(AlarmRest /\ Alarm!Expire)
    /\ WF_vars(AlarmRest /\ Alarm!recvfrom_alarm)
    /\ WF_vars(Only("serv05") /\ Serv05!Parent)
    /\ \A i \in 1..NChildren : WF_vars(Only("serv05") /\ Serv05!Child(i))
    /\ WF_vars(Serv08Rest /\ Serv08!Main)
    /\ \A t \in 1..NThreads : WF_vars(Serv08Rest /\ Serv08!Get(t))
    /\ WF_vars(WebRest /\ Web!Main)
    /\ \A f \in 1..NFiles : WF_vars(WebRest /\ Web!do_get_read(f))

Spec == Init /\ [][Next]_vars /\ Fairness

----------------------------------------------------------------------------
\* rtt/dg_send_recv.c: a call that returns a reply returns the one to its own request,
\* not one that arrived late from an earlier call, and no alarm is left to jump into
\* the frame of a call that has returned.
ReturnsClean == part = "rtt" => Rtt!ReturnsClean

\* rtt/dg_send_recv.c: every call returns, whether or not a reply ever comes.
CallReturns == (part = "rtt" /\ Rtt!InCall) ~> (part = "rtt" /\ Rtt!Returned)

\* sigio/dgecho01.c: datagrams are echoed in the order they were read, each once and
\* unaltered: the handler never reads into a slot the main loop has still to send.
EchoesInOrder == part = "sigio" => Sigio!EchoesInOrder

\* sigio/dgecho01.c: every datagram is echoed, although one SIGIO may stand for several
\* of them, unless the server has ended or one came before the socket was set up.
Echoed ==
    \A d \in 1..MaxDgs :
        (part = "sigio" /\ Sigio!Reached(d)) ~> (part = "sigio" /\ Sigio!Answered(d))

\* bcast/dgclibcast4.c to dgclibcast6.c: a round ends once its alarm has gone off,
\* wherever in the loop that happens.
RoundEnds == (part = "alarm" /\ Alarm!InRound) ~> (part = "alarm" /\ ~Alarm!InRound)

\* server/serv05.c and server/serv08.c: every connection has one child or one thread
\* to serve it. The table the parent of serv05 keeps is right about the living children
\* although the message of one that ended is read as news about it, and its navail is
\* exact until that happens; the ring of serv08 loses and repeats no connection.
ServedOnce ==
    /\ part = "serv05" => Serv05!OneChildEach
    /\ part = "serv08" => Serv08!OneThreadEach

\* server/serv05.c and server/serv08.c: every connection is served in the end, unless
\* its client gives up, the server ends, or from some time on every child or thread
\* works for a client that never ends its session, which web_child does not limit.
AllServed ==
    \A c \in 1..MaxConns :
        /\ \/ (part = "serv05" /\ Serv05!Reached(c)) ~> (part = "serv05" /\ Serv05!Served(c))
           \/ <>[](part = "serv05" /\ Serv05!AllBusy)
        /\ \/ (part = "serv08" /\ Serv08!Reached(c)) ~> (part = "serv08" /\ Serv08!Served(c))
           \/ <>[](part = "serv08" /\ Serv08!AllBusy)

\* threads/web01.c, and threads/web03.c with one connection: every file is fetched and
\* the program exits.
AllFetched == part = "web" ~> (part = "web" /\ Web!Exited)

\* The inductive invariant of each component that ConcurrencyProofs starts from.
ConcurrencyInv ==
    /\ part = "rtt" => Rtt!RttInv
    /\ part = "sigio" => Sigio!RingInv
    /\ part = "serv05" => Serv05!PassInv
    /\ part = "serv08" => Serv08!PoolInv
============================================================================
