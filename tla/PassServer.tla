---------------------------- MODULE PassServer -----------------------------
(***************************************************************************)
(* The server that passes connections to preforked children: serv05.c and  *)
(* child05.c of unpv13e/server. The parent accepts while a child is free,  *)
(* writes the descriptor to the child's stream pipe and learns from a byte *)
(* on the same pipe that the child is free again. The pipe is also the     *)
(* child's standard error: a child that ends in web_child with err_sys or  *)
(* err_quit prints its message there, and the parent takes every byte of   *)
(* it for the news that the child is free.                                 *)
(***************************************************************************)
EXTENDS Integers, Sequences, FiniteSets, FiniteSetsExt

CONSTANTS
    NChildren,     \* nchildren
    MsgLen,        \* bound: bytes of the message a child ends with
    MaxConns       \* bound: connections that arrive

Children == 1..NChildren
Conns == 1..MaxConns

VARIABLES
    parent,     \* "select", "accept", "scan", or "gone" with the reason
    rset,       \* what select found: the pipes, and 0 for the listening socket
    navail,
    status,     \* child_status of each child
    backlog,    \* connections waiting to be accepted
    arrived,    \* how many have come,
    aborted,    \* and the ones whose client gave up before accept
    down, up,   \* each pipe: descriptors to the child, bytes to the parent
    child,      \* "read", "web", "tell" or "dead"
    serving,    \* the connection a child works on, 0 for none
    count       \* how often each connection was given to web_child

vars == <<parent, rset, navail, status, backlog, arrived, aborted, down, up, child, serving, count>>

Init ==
    /\ parent = "select" /\ rset = {} /\ navail = NChildren
    /\ status = [i \in Children |-> 0] /\ backlog = <<>> /\ arrived = 0 /\ aborted = {}
    /\ down = [i \in Children |-> <<>>] /\ up = [i \in Children |-> 0]
    /\ child = [i \in Children |-> "read"] /\ serving = [i \in Children |-> 0]
    /\ count = [c \in Conns |-> 0]

Arrive ==
    /\ arrived < MaxConns /\ parent \notin {"died", "none"}
    /\ arrived' = arrived + 1 /\ backlog' = Append(backlog, arrived + 1)
    /\ UNCHANGED <<parent, rset, navail, status, aborted, down, up, child, serving, count>>

\* A client gives up before its connection is accepted.
Abort ==
    /\ backlog # <<>> /\ backlog' = Tail(backlog) /\ aborted' = aborted \cup {Head(backlog)}
    /\ UNCHANGED <<parent, rset, navail, status, arrived, down, up, child, serving, count>>

\* A pipe is readable when it holds a byte, or when the child has died.
Readable == {i \in Children : up[i] > 0 \/ child[i] = "dead"}

\* Defect: select looks at the listening socket always.
ListensAlways == IF backlog # <<>> THEN {0} ELSE {}
\* The listening socket is left out while no child is available.
Listening == IF navail > 0 /\ backlog # <<>> THEN {0} ELSE {}

Select ==
    /\ parent = "select" /\ rset' = Listening \cup Readable /\ rset' # {}
    /\ parent' = IF 0 \in rset' THEN "accept" ELSE "scan"
    /\ UNCHANGED <<navail, status, backlog, arrived, aborted, down, up, child, serving, count>>

Free == {i \in Children : status[i] = 0}

\* Accept waits when the connection has gone since select saw it; its failure ends the
\* server, and so does writing to a dead child's pipe.
Accept ==
    /\ parent = "accept" /\ backlog # <<>>
    /\ LET i == Min(Free)
       IN \/ parent' = "died" /\ UNCHANGED <<backlog, navail, status, down>>
          \/ /\ Free = {} /\ parent' = "none" /\ backlog' = Tail(backlog)
             /\ UNCHANGED <<navail, status, down>>
          \/ /\ Free # {} /\ backlog' = Tail(backlog)
             /\ status' = [status EXCEPT ![i] = 1] /\ navail' = navail - 1
             /\ IF child[i] = "dead" THEN parent' = "died" /\ UNCHANGED down
                ELSE /\ parent' = IF rset = {0} THEN "select" ELSE "scan"
                     /\ down' = [down EXCEPT ![i] = Append(@, Head(backlog))]
    /\ UNCHANGED <<rset, arrived, aborted, up, child, serving, count>>

\* Every readable pipe: a byte makes its child available, an end ends the server.
Scan ==
    /\ parent = "scan"
    /\ LET ready == rset \ {0}
           told == {i \in ready : up[i] > 0}
       IN /\ parent' = IF told = ready THEN "select" ELSE "died"
          /\ up' = [i \in Children |-> IF i \in told THEN up[i] - 1 ELSE up[i]]
          /\ status' = [i \in Children |-> IF i \in told THEN 0 ELSE status[i]]
          /\ navail' = navail + Cardinality(told)
    /\ UNCHANGED <<rset, backlog, arrived, aborted, down, child, serving, count>>

----------------------------------------------------------------------------
\* child_main.
Read_fd(i) ==
    /\ child[i] = "read" /\ down[i] # <<>>
    /\ serving' = [serving EXCEPT ![i] = Head(down[i])]
    /\ down' = [down EXCEPT ![i] = Tail(@)]
    /\ count' = [count EXCEPT ![Head(down[i])] = @ + 1]
    /\ child' = [child EXCEPT ![i] = "web"]
    /\ UNCHANGED <<parent, rset, navail, status, backlog, arrived, aborted, up>>

\* web_child returns when the client has closed its end. A bad request or a reset
\* connection ends the child, with a message on the pipe or, by SIGPIPE, without one.
web_child(i) ==
    /\ child[i] = "web"
    /\ \/ child' = [child EXCEPT ![i] = "tell"] /\ UNCHANGED up
       \/ /\ child' = [child EXCEPT ![i] = "dead"]
          /\ \E m \in {0, MsgLen} : up' = [up EXCEPT ![i] = @ + m]
    /\ serving' = [serving EXCEPT ![i] = 0]
    /\ UNCHANGED <<parent, rset, navail, status, backlog, arrived, aborted, down, count>>

Write(i) ==
    /\ child[i] = "tell"
    /\ child' = [child EXCEPT ![i] = "read"] /\ up' = [up EXCEPT ![i] = @ + 1]
    /\ UNCHANGED <<parent, rset, navail, status, backlog, arrived, aborted, down, serving, count>>

Parent == Select \/ Accept \/ Scan
\* What a child does by itself; the end of web_child is the client's to bring about.
Child(i) == Read_fd(i) \/ Write(i)
Next == Arrive \/ Abort \/ Parent \/ \E i \in Children : Child(i) \/ web_child(i)

----------------------------------------------------------------------------
Dead(i) == child[i] = "dead"

\* The parent's table: no connection is given out twice, none is accepted without a
\* child to give it to, and a living child marked free has nothing to do, even when
\* another's last message has been read as news. navail is exactly the number of
\* children marked free as long as none has ended, and never less.
OneChildEach ==
    /\ navail >= Cardinality(Free)
    /\ navail > Cardinality(Free) => \E i \in Children : Dead(i)
    /\ \A i \in Children :
          status[i] = 0 /\ ~Dead(i) => down[i] = <<>> /\ up[i] = 0 /\ child[i] = "read"
    /\ \A c \in Conns : count[c] <= 1
    /\ parent # "none"

\* What makes OneChildEach inductive: a busy child has its connection still in the pipe,
\* is at work on it, or has told the parent; navail can exceed the number of free
\* children only while a dead one is marked free; connections leave the backlog in the
\* order of their numbers, so the ones beyond Left are nobody's yet.
Left == arrived - Len(backlog)
PassType ==
    /\ parent \in {"select", "accept", "scan", "died"} /\ rset \subseteq 0..NChildren
    /\ navail \in Int
    /\ status \in [Children -> {0, 1}] /\ backlog \in Seq(Nat) /\ arrived \in 0..MaxConns
    /\ down \in [Children -> Seq(Nat)] /\ up \in [Children -> Nat]
    /\ child \in [Children -> {"read", "web", "tell", "dead"}] /\ count \in [Conns -> {0, 1}]
Stage(i) ==
    \/ status[i] = 0 /\ down[i] = <<>> /\ up[i] = 0 /\ child[i] = "read"
    \/ status[i] = 1 /\ Len(down[i]) = 1 /\ up[i] = 0 /\ child[i] = "read"
    \/ status[i] = 1 /\ down[i] = <<>> /\ up[i] = 0 /\ child[i] \in {"web", "tell"}
    \/ status[i] = 1 /\ down[i] = <<>> /\ up[i] = 1 /\ child[i] = "read"
    \/ Dead(i) /\ down[i] = <<>>
Surplus ==
    navail > Cardinality(Free) =>
        \E i \in Children : Dead(i) /\ (parent = "died" \/ status[i] = 0)
Books ==
    /\ navail >= Cardinality(Free) /\ Surplus /\ (parent = "accept" => Free # {})
    /\ \A i \in Children : Stage(i)
Numbers ==
    /\ Left >= 0 /\ \A k \in 1..Len(backlog) : backlog[k] = Left + k
    /\ \A c \in Conns : c > Left => count[c] = 0
    /\ \A i \in Children : down[i] # <<>> => down[i][1] \in 1..Left /\ count[down[i][1]] = 0
    /\ \A i, j \in Children : i # j /\ down[i] # <<>> /\ down[j] # <<>> => down[i][1] # down[j][1]
PassInv == PassType /\ Books /\ Numbers

\* A connection is served, its client gives up, or the server has ended.
Reached(c) == arrived >= c
Served(c) == count[c] > 0 \/ c \in aborted \/ parent = "died"
\* Every child is at work for a client that has not ended its session.
AllBusy == \A i \in Children : child[i] = "web"
============================================================================
