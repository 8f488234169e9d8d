------------------------------ MODULE Servers ------------------------------
(***************************************************************************)
(* The server designs of unpv13e/server and their clients: iterative, a    *)
(* child or thread per client, and children or threads created beforehand. *)
(* The designs that hand connections over have modules of their own:       *)
(* PassServer for serv05 and PoolServer for serv08.                        *)
(***************************************************************************)
EXTENDS Library

\* pr_cpu_time fails when getrusage does; sig_int ends the program between any two
\* calls, after it has killed and reaped the children, when there are any.
pr_cpu_time == <<Maybe(Quit)>>
sig_int == pr_cpu_time \o Quit
sig_int_children == <<Wait, Maybe(Quit)>> \o sig_int
Pause(handler) == <<Loop(<<Maybe(handler)>>)>>

\* Readline: the end of the stream is the peer's close only before the first byte of
\* a line; later it ends the line, and the next call finds it again.
readline(fd, end) == <<read(fd, end, Quit)>>
web_child(fd) ==
    <<Loop(readline(fd, <<Break>>) \o <<Maybe(Quit), Write(fd)>>)>>
my_read_r(fd, end) == <<Loop(<<read(fd, end, <<Either(<<<<Continue>>, Quit>>)>>), Break>>)>>
web_child_r(fd) == <<Fn(<<Loop(my_read_r(fd, <<Return>>) \o <<Maybe(Quit), Write(fd)>>)>>)>>

\* The listening socket, the memory for addresses or children, the handler.
Listening(memory) == <<Usage>> \o tcp_listen("listenfd") \o <<Obtain("memory", memory)>>
Accepting == <<Accept("listenfd", "connfd")>>
Web == web_child("connfd") \o <<Close("connfd")>>

serv00 ==
    Listening("cliaddr") \o <<Signal("SIGINT"), Loop(<<Maybe(sig_int)>> \o Accepting \o Web)>>

\* Defect: no handler for SIGCHLD.
Unattended ==
    Listening("cliaddr")
        \o <<Signal("SIGINT"),
             Loop(Accepting
                  \o <<Fork(<<Close("listenfd")>> \o web_child("connfd") \o Quit),
                       Close("connfd")>>)>>

serv01 ==
    Listening("cliaddr")
        \o <<Signal("SIGCHLD"), Signal("SIGINT"),
             Loop(<<Maybe(sig_int),
                    accept("listenfd", "connfd", <<Either(<<<<Continue>>, Quit>>)>>),
                    Fork(<<Close("listenfd")>> \o web_child("connfd") \o Quit),
                    Close("connfd")>>)>>

\* Children that all accept on the listening socket: as it is, after select, and
\* counting their clients in shared memory; or one at a time, under a lock on a file
\* or on a mutex in shared memory.
Child(body) == <<Obtain("memory", "cliaddr"), Loop(body)>>
child02 == Child(Accepting \o Web)
child02l == Child(<<Watch({"listenfd"}), Maybe(Quit)>> \o Accepting \o Web)
child02m == Child(Accepting \o <<Need("meter")>> \o Web)
my_lock_init == <<Obtain("file", "lock_fd"), Maybe(Quit)>>
my_lock_wait ==
    <<Loop(<<opt("lock_fd", <<Either(<<<<Continue>>, Quit>>)>>), Break>>), Lock("lock_it")>>
my_lock_release == <<Opt("lock_fd"), Unlock("lock_it")>>
Guarded(wait, release) == wait \o Accepting \o release
child03 == Child(Guarded(my_lock_wait, my_lock_release) \o Web)
child03m == Child(Guarded(my_lock_wait, my_lock_release) \o <<Need("meter")>> \o Web)
pthread_lock_init ==
    <<Obtain("file", "fd"), Obtain("map", "mptr"), Close("fd"), Maybe(Quit)>>
pthread_lock_wait == <<Need("mptr"), Lock("mutex")>>
pthread_lock_release == <<Need("mptr"), Unlock("mutex")>>
child04 == Child(Guarded(pthread_lock_wait, pthread_lock_release) \o Web)

meter ==
    <<Either(<<<<Obtain("map", "meter")>>,
               <<Obtain("file", "zero"), Obtain("map", "meter"), Close("zero")>> >>)>>
Prefork(init, child) ==
    Listening("pids") \o init \o <<While(<<Spawn(child)>>), Signal("SIGINT")>>
        \o Pause(sig_int_children)
serv02 == Prefork(<<>>, child02)
serv02l == Prefork(<<>>, child02l)
serv02m == Prefork(meter, child02m)
serv03 == Prefork(my_lock_init, child03)
serv03m == Prefork(meter \o my_lock_init, child03m)
serv04 == Prefork(pthread_lock_init, child04)

\* Threads: one per client, which must close the connection it was given, or several
\* that accept, under a mutex or not.
\* (Unclosed is the mutated form of doit: the thread leaves the connection open.)
Unclosed == web_child_r("connfd")

doit == web_child_r("connfd") \o <<Close("connfd")>>
serv06 ==
    Listening("cliaddr")
        \o <<Signal("SIGINT"), Loop(<<Maybe(sig_int)>> \o Accepting \o <<Thread({"connfd"}, doit)>>)>>
thread_main07 ==
    <<Obtain("memory", "cliaddr"),
      Loop(<<Lock("mlock")>> \o Accepting \o <<Unlock("mlock"), Need("tptr")>> \o doit)>>
thread_main09 == <<Obtain("memory", "cliaddr"), Loop(Accepting \o <<Need("tptr")>> \o doit)>>
Prethread(thread) ==
    Listening("tptr") \o <<While(<<Thread({}, thread)>>), Signal("SIGINT")>> \o Pause(sig_int)
serv07 == Prethread(thread_main07)
serv09 == Prethread(thread_main09)

\* nchildren children make nloops connections each; the parent waits for all. Every
\* third connection of one child of clientrst is reset and made again.
Request == <<Write("fd"), Loop(<<read("fd", Quit, Quit), Maybe(<<Break>>)>>), Close("fd")>>
Reset == <<Maybe(<<Opt("fd"), Close("fd")>> \o tcp_connect("fd"))>>
Clients(connecting) ==
    <<Usage, While(<<Fork(<<While(connecting \o Request), Exit>>)>>), Wait, Maybe(Quit), Exit>>
client == Clients(tcp_connect("fd"))
clientrst == Clients(tcp_connect("fd") \o Reset)

Table == [
    serv00 |-> serv00, serv01 |-> serv01, serv02 |-> serv02, serv02l |-> serv02l,
    serv02m |-> serv02m, serv03 |-> serv03, serv03m |-> serv03m, serv04 |-> serv04,
    serv06 |-> serv06, serv07 |-> serv07, serv09 |-> serv09, client |-> client,
    clientrst |-> clientrst]
============================================================================
