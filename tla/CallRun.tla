------------------------------ MODULE CallRun ------------------------------
(***************************************************************************)
(* One program of a table of programs is chosen and run. Every call may    *)
(* succeed or fail, every read may find data or the end of the stream,     *)
(* every branch may be taken. A process that forks is followed into the    *)
(* child or in the parent, a thread in its creator or in the thread.       *)
(***************************************************************************)
EXTENDS Calls

CONSTANT Programs        \* for each directory [name |-> sequence of steps]

VARIABLES
    prog,     \* the program running, "" before it is chosen
    todo,     \* the steps it has still to take
    held,     \* the state of each resource it holds
    who,      \* "main", "child", "thread", or "gone" after exit
    spare,    \* what a thread may leave open when it ends
    caught,   \* the signals with a handler
    kids      \* children nobody waits for, counted to MaxKids

vars == <<prog, todo, held, who, spare, caught, kids>>
MaxKids == 2

Init ==
    /\ prog = <<"", "">> /\ todo = <<>> /\ held = <<>> /\ who = "main"
    /\ spare = {} /\ caught = {} /\ kids = 0

Choose ==
    /\ prog = <<"", "">>
    /\ \E d \in DOMAIN Programs : \E p \in DOMAIN Programs[d] :
          prog' = <<d, p>> /\ todo' = Programs[d][p]
    /\ held' = [stdin |-> "connected"]
    /\ UNCHANGED <<who, spare, caught, kids>>

----------------------------------------------------------------------------
state(r) == IF r \in DOMAIN held THEN held[r] ELSE None

\* held with resource r in state s.
Put(h, r, s) ==
    LET d == IF s = None THEN DOMAIN h \ {r} ELSE DOMAIN h \cup {r}
    IN [x \in d |-> IF x = r THEN s ELSE h[x]]

Running == todo # <<>> /\ who # "gone"
next == Head(todo)
At(ops) == Running /\ next.op \in ops
Control == {"exit", "either", "loop", "again", "break", "continue", "fn", "ret", "return",
            "fork", "thread", "signal", "wait", "watch", "if", "move"}
Calling == Running /\ next.op \notin Control

\* The next call finds its resource in a state it can succeed in, and has a free
\* place for what it creates.
Apt == IF next.op = "watch" THEN \A f \in next.fds : state(f) \in Open
       ELSE state(next.fd) \in Legal(next.op)
Room == next.op \in {"accept", "move"} => state(next.new) = None

\* The steps after the first one with operation op.
Past(op) ==
    LET i == CHOOSE j \in DOMAIN todo : todo[j].op = op /\ \A k \in 1..(j - 1) : todo[k].op # op
    IN SubSeq(todo, i + 1, Len(todo))
From(op) ==
    LET i == CHOOSE j \in DOMAIN todo : todo[j].op = op /\ \A k \in 1..(j - 1) : todo[k].op # op
    IN SubSeq(todo, i, Len(todo))

Succeed ==
    /\ Calling /\ Apt
    /\ todo' = Tail(todo)
    /\ held' = IF next.op = "accept"
               THEN Put(held, next.new, "connected")
               ELSE Put(held, next.fd, After(next.op, state(next.fd)))
    /\ UNCHANGED <<prog, who, spare, caught, kids>>

Fail ==
    /\ Calling \/ At({"watch"})
    /\ todo' = next.alt \o Tail(todo)
    /\ held' = IF next.op = "watch" THEN held
               ELSE Put(held, next.fd, Failed(next.op, state(next.fd)))
    /\ UNCHANGED <<prog, who, spare, caught, kids>>

EndOfStream ==
    /\ At({"read"}) /\ state(next.fd) \in {"connected", "half", "file"}
    /\ todo' = next.end \o Tail(todo)
    /\ held' = IF state(next.fd) = "file" THEN held
               ELSE Put(held, next.fd, Ended(state(next.fd)))
    /\ UNCHANGED <<prog, who, spare, caught, kids>>

Ready ==
    /\ At({"watch"}) /\ Apt
    /\ todo' = Tail(todo)
    /\ UNCHANGED <<prog, held, who, spare, caught, kids>>

Branch ==
    /\ At({"either"})
    /\ \E i \in DOMAIN next.of : todo' = next.of[i] \o Tail(todo)
    /\ UNCHANGED <<prog, held, who, spare, caught, kids>>

Jump ==
    /\ todo' = CASE At({"loop", "again"}) ->
                        next.body \o <<[op |-> "again", body |-> next.body]>> \o Tail(todo)
                 [] At({"fn"}) -> next.body \o <<[op |-> "ret", own |-> next.own]>> \o Tail(todo)
                 [] At({"break"}) -> Past("again")
                 [] At({"continue"}) -> From("again")
                 [] At({"return"}) -> From("ret")
                 [] At({"if"}) -> (IF state(next.fd) \in next.in THEN next.yes ELSE next.no)
                                      \o Tail(todo)
    /\ UNCHANGED <<prog, held, who, spare, caught, kids>>

\* The end of a function: what only its variables referred to is out of reach.
Returned ==
    /\ At({"ret"})
    /\ todo' = Tail(todo)
    /\ held' = [r \in DOMAIN held \ next.own |-> held[r]]
    /\ UNCHANGED <<prog, who, spare, caught, kids>>

Assign ==
    /\ At({"move"})
    /\ todo' = Tail(todo)
    /\ held' = Put(Put(held, next.fd, None), next.new, state(next.fd))
    /\ UNCHANGED <<prog, who, spare, caught, kids>>

\* fork: the child runs next.body and whatever follows it; the parent goes on. The end
\* of the child leaves a zombie unless SIGCHLD is handled. Signals are not queued, so
\* of two children that end together a handler that waits once may leave one.
Child ==
    /\ At({"fork"})
    /\ todo' = next.body \o Tail(todo) /\ who' = "child"
    /\ UNCHANGED <<prog, held, spare, caught, kids>>

Zombies ==
    LET more == IF kids = MaxKids THEN kids ELSE kids + 1
    IN IF ~next.ends \/ "SIGCHLD" \in caught THEN {kids}
       ELSE IF "SIGCHLD wait" \in caught THEN {kids, more} ELSE {more}

Parent ==
    /\ At({"fork"})
    /\ \/ /\ todo' = Tail(todo)
          /\ kids' \in Zombies
       \/ todo' = next.alt \o Tail(todo) /\ UNCHANGED kids
    /\ UNCHANGED <<prog, held, who, spare, caught>>

Reap ==
    /\ At({"wait"})
    /\ todo' = Tail(todo) /\ kids' = 0
    /\ UNCHANGED <<prog, held, who, spare, caught>>

Handle ==
    /\ At({"signal"})
    /\ todo' = Tail(todo) /\ caught' = caught \cup {next.sig}
    /\ UNCHANGED <<prog, held, who, spare, kids>>

\* pthread_create: the thread runs next.body and ends; its creator goes on without
\* the resources it handed over.
InThread ==
    /\ At({"thread"})
    /\ todo' = next.body /\ who' = "thread" /\ spare' = DOMAIN held \ next.own
    /\ UNCHANGED <<prog, held, caught, kids>>

InCreator ==
    /\ At({"thread"})
    /\ todo' = Tail(todo)
    /\ held' = [r \in DOMAIN held \ next.own |-> held[r]]
    /\ UNCHANGED <<prog, who, spare, caught, kids>>

Leave ==
    /\ At({"exit"})
    /\ who' = "gone" /\ todo' = <<>> /\ held' = <<>>
    /\ UNCHANGED <<prog, spare, caught, kids>>

Next ==
    \/ Choose \/ Succeed \/ Fail \/ EndOfStream \/ Ready \/ Branch \/ Child \/ Parent
    \/ Reap \/ Handle \/ InThread \/ InCreator \/ Leave
    \/ (Running /\ next.op \in {"loop", "again", "fn", "break", "continue", "return", "if"} /\ Jump)
    \/ Returned \/ Assign

Spec == Init /\ [][Next]_vars

----------------------------------------------------------------------------
\* The programs that really make a call that cannot succeed, or use what they have
\* released. hostent2 and test1 print a host they did not find; str_cli_poll03 polls
\* standard input after its end; web writes on a socket whose connect failed;
\* sctp_bind_arg_list reads a freed list; sock -u -s writes on an unconnected socket,
\* and sock -s accepts although listen failed; the datagram programs on STREAMS do not
\* notice that net_bind failed; backlog and qlen do not notice that the other side has
\* gone; lab3 and the first attempts at it do not look at what their calls return.
Careless == {"hostent2", "test1", "ad_tcpcli03", "web", "sctpserv07", "sock_tcp_server",
             "sock_udp_server", "dg_client", "dg_server", "backlog", "qlen",
             "lab3_server", "lab3_client", "tcp_client", "tcp_server"}

\* The ones that lose the last reference to something still open: the parents of
\* udpserv03 and udpserv04 keep the socket of every interface, web and o_udpcli01 the
\* lists of addresses, udpcksum a list and the packet of each query, backlog and qlen
\* their connections, tcp_server the connection and the line of every client.
\* get_ifi_info leaves the socket of its ioctls open (ssntp, prifinfo, prmac, udpserv03,
\* udpserv04) or its buffer allocated (rt_prifinfo), mynetstat the tables it prints; and
\* nb_tcpcli02 returns at the end of the stream with answers it has not written yet.
Leaky == {"udpserv03", "udpserv04", "web", "o_udpcli01", "udpcksum", "backlog", "qlen",
          "tcp_server", "ssntp", "prifinfo", "prmac", "rt_prifinfo", "mynetstat",
          "nb_tcpcli02"}

\* The ones that fork for every client and do not wait for all of them: tcpserv01,
\* sctpserv_fork and sock -F never do, tcpserv02 and tcpserv03 wait once for each signal
\* (tcpserv04.c:23 "must call waitpid()"), the handler of lab3_client only counts.
Unreaped == {"tcpserv01", "tcpserv02", "tcpserv03", "sctpserv_fork", "sock_tcp_server",
             "lab3_client"}

\* Whatever fails before it, each call of a program is made on a resource in a state
\* in which it can succeed: no read past the end of a stream, no write after
\* shutdown, no use of a descriptor, list or buffer after it was closed or freed.
LegalCalls ==
    (Calling /\ prog[2] \notin Careless /\ next.op \notin Creates) => Apt


\* A server that forks for every client has a handler that collects every child that
\* has ended, however many of them one signal stands for; a program that forks several
\* children without such a handler still has a wait to come.
NoZombies ==
    (kids = MaxKids /\ who # "gone" /\ prog[2] \notin Unreaped)
        => \E i \in DOMAIN todo : todo[i].op = "wait"

\* A thread ends without a lock, and without a descriptor that was handed to it.
ThreadsClean == who = "thread" /\ todo = <<>> => DOMAIN held \subseteq spare
============================================================================
