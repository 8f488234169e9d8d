------------------------------ MODULE Advanced ------------------------------
(***************************************************************************)
(* The programs of unpv13e/threads, nonblock, advio and oob: threads,      *)
(* nonblocking and timed calls, polling, and urgent data.                  *)
(***************************************************************************)
EXTENDS Library

Intr == <<Either(<<<<Continue>>, Quit>>)>>
Client(dialog) ==
    <<Usage, Socket("sockfd", "stream"), Connect("sockfd")>> \o dialog \o Quit
Restarting(session) ==
    <<Socket("listenfd", "stream"), Bind("listenfd"), Listen("listenfd"), Signal("SIGCHLD"),
      Loop(<<accept("listenfd", "connfd", Intr),
             Fork(<<Close("listenfd")>> \o session \o Quit), Close("connfd")>>)>>

\* threads/: a thread copies the input to the socket; a thread serves a connection.
copyto == <<While(<<Write("sockfd")>>), Shutdown("sockfd")>>
strclithread == <<Thread({}, copyto), ReadAll("sockfd", <<>>)>>
strclithread2 == <<Thread({}, copyto), ReadAll("sockfd", <<>>), Maybe(Quit)>>
t_tcpcli01 == <<Usage>> \o tcp_connect("sockfd") \o strclithread \o Quit
t_tcpcli02 == <<Usage>> \o tcp_connect("sockfd") \o strclithread2 \o Quit
t_tcpserv01 ==
    <<Usage>> \o tcp_listen("listenfd")
        \o <<Obtain("memory", "cliaddr"),
             Loop(<<Accept("listenfd", "connfd"),
                    Thread({"connfd"}, str_echo("connfd") \o <<Close("connfd")>>)>>)>>
t_tcpserv02 ==
    <<Usage>> \o tcp_listen("listenfd")
        \o <<Obtain("memory", "cliaddr"),
             Loop(<<Obtain("memory", "iptr"), Accept("listenfd", "connfd"),
                    Thread({"iptr", "connfd"},
                           <<Need("iptr"), Release("iptr")>> \o str_echo("connfd")
                               \o <<Close("connfd")>>)>>)>>
\* The per-thread buffer of the reentrant readline, allocated on its first call.
t_readline(fd, end) ==
    <<If("tsd", {None}, <<Obtain("memory", "tsd")>>, <<>>), Loop(<<read(fd, end, Intr), Break>>)>>
test03 == <<Thread({}, <<>>), Lock("mutex"), While(<<Maybe(Quit)>>), Unlock("mutex"), Exit>>
test04 ==
    <<Usage, While(<<Thread({}, <<Obtain("memory", "fpout"),
                                  While(<<Obtain("file", "fdin"), ReadAll("fdin", <<>>), Close("fdin")>>),
                                  Release("fpout")>>)>>)>>
example02 ==
    <<Thread({}, <<While(<<Lock("mutex"), Unlock("mutex")>>)>>),
      Thread({}, <<While(<<Lock("mutex"), Unlock("mutex")>>)>>), Exit>>

\* The three threaded web clients, one connection per thread.
home_page == tcp_connect("fd") \o <<Write("fd"), ReadAll("fd", <<>>), Close("fd")>>
do_get_read == home_page
Fetching(done) ==
    <<Usage>> \o home_page \o <<While(<<While(<<Thread({}, do_get_read \o done)>>)>> \o done), Exit>>
web01 == Fetching(<<>>)
web02 == Fetching(<<Lock("ndone_mutex"), Unlock("ndone_mutex")>>)
web03 == Fetching(<<Lock("ndone_mutex"), Unlock("ndone_mutex")>>)

----------------------------------------------------------------------------
\* nonblock/.
nb_daytimetcpcli ==
    <<Socket("sockfd", "stream")>> \o connect_nonb("sockfd", Quit)
        \o <<ReadAll("sockfd", <<>>), Exit>>

\* One process reads the socket, the other one writes it and is killed by the first.
strclifork ==
    <<Fork(<<ReadAll("sockfd", <<>>), Exit>>), While(<<Write("sockfd")>>), Shutdown("sockfd"), Exit>>

\* Nonblocking descriptors and two buffers: "to" is held while there is data for the
\* server, "fr" while there is data for the standard output. finish is done when the
\* input ends. A return at the end of the stream forgets what the buffers still hold.
WouldBlock == <<Either(<<<<Return>>, Quit>>)>>
Fill(buffer) == If(buffer, {None}, <<Obtain("memory", buffer)>>, <<>>)
Unless(r, S, steps) == If(r, S, <<>>, steps)
Nonblocking(finish) ==
    <<Function({"to", "fr"},
        <<Opt("sockfd"), Opt("sockfd"), Opt("stdin"), Opt("stdin"),
          Loop(<<Watch({"sockfd"}),
                 Unless("stdin", {"eof"},
                        <<Maybe(<<Fn(<<read("stdin", finish \o <<Return>>, WouldBlock), Fill("to")>>)>>)>>),
                 Maybe(<<Fn(<<read("sockfd", <<If("stdin", {"eof"}, <<Break>>, Quit)>>, WouldBlock),
                              Fill("fr")>>)>>),
                 Unless("fr", {None}, <<Either(<< <<>>, Quit, <<Release("fr")>> >>)>>),
                 Unless("to", {None},
                        <<Maybe(<<Fn(<<write("sockfd", WouldBlock),
                                       Maybe(<<Release("to"),
                                               If("stdin", {"eof"}, <<Shutdown("sockfd")>>, <<>>)>>)>>)>>)>>)>>)>>)>>

\* Defect: the half is shut down at the end of the input although data is still to
\* be written.
ShutsEarly == Nonblocking(<<Shutdown("sockfd")>>)
strclinonb == Nonblocking(<<If("to", {None}, <<Shutdown("sockfd")>>, <<>>)>>)
nb_tcpcli01 == Client(strclifork)
nb_tcpcli02 == Client(strclinonb)
nb_tcpcli03 == Client(<<Opt("sockfd"), Close("sockfd")>>)
nb_tcpcli04 == Client(<<Opt("sockfd")>> \o str_cli("sockfd"))

\* A line of 0 bytes is "written" after Close: writen makes no call for it.
Slot(c) ==
    <<If(c, {None}, <<>>,
         <<Maybe(<<Fn(<<Read(c, <<Close(c), Return>>), Write(c)>>), Maybe(<<Continue>>)>>)>>)>>
tcpservselect03 ==
    <<Socket("listenfd", "stream"), Bind("listenfd"), Listen("listenfd"),
      Loop(<<Watch({"listenfd"}),
             Maybe(<<Accept("listenfd", "connfd"),
                     If("c0", {None}, <<Move("connfd", "c0")>>,
                        <<If("c1", {None}, <<Move("connfd", "c1")>>, Quit)>>),
                     Maybe(<<Continue>>)>>)>> \o Slot("c0") \o Slot("c1"))>>

\* The web client with nonblocking connects: the list of each lookup is kept, and
\* a connect that failed is only reported.
write_get_cmd(fd) == <<Write(fd)>>
start_connect(fd) ==
    Host_serv
        \o <<Socket(fd, "stream"), Opt(fd), Opt(fd),
             Either(<< <<Connect(fd)>> \o write_get_cmd(fd), <<On("pending", fd, Quit)>> >>)>>
web ==
    <<Usage>> \o home_page
        \o <<Loop(<<If("fd0", {None}, <<Maybe(start_connect("fd0"))>>, <<>>),
                    If("fd1", {None}, <<Maybe(start_connect("fd1"))>>, <<>>)>>
             \o [i \in 1..2 |->
                    LET f == <<"fd0", "fd1">>[i]
                    IN Maybe(<<If(f, {"connecting"},
                                  <<connect(f, <<>>)>> \o write_get_cmd(f),
                                  <<If(f, {"connected"},
                                       <<Fn(<<Read(f, <<Close(f), Return>>)>>)>>, <<>>)>>)>>)])>>

----------------------------------------------------------------------------
\* advio/.
ad_daytimetcpcli ==
    <<Usage>> \o tcp_connect("sockfd")
        \o <<Opt("sockfd"),
             Loop(<<Read("sockfd", <<Break>>), Opt("sockfd"), Recvfrom("sockfd")>>), Exit>>
daytimeudpcli3 ==
    <<Usage>> \o udp_client("sockfd")
        \o <<Sendto("sockfd"), Recvfrom("sockfd"), Opt("sockfd"), Recvfrom("sockfd"), Exit>>
daytimeudpcli4 ==
    <<Usage>> \o udp_connect("sockfd")
        \o <<Opt("sockfd"), Write("sockfd"), Recvfrom("sockfd"), Opt("sockfd"),
             Read("sockfd", <<>>), Exit>>
dgclitimeo ==
    <<While(<<Sendto("sockfd"), Readable_timeo("sockfd"), Maybe(<<Continue>>), Recvfrom("sockfd")>>)>>
dgclitimeo1 ==
    <<While(<<Sendto("sockfd"), Readable_timeo("sockfd"), Maybe(<<Recvfrom("sockfd")>>)>>)>>
dgclitimeo2 == <<Opt("sockfd"), While(<<Sendto("sockfd"), recvfrom("sockfd", Intr)>>)>>
dgclitimeo3 ==
    <<Signal("SIGALRM"),
      While(<<Sendto("sockfd"), recvfrom("sockfd", <<Maybe(Quit)>>)>>)>>
recvfrom_flags(fd) == <<Recvfrom(fd), Maybe(Quit)>>
dgechoaddr ==
    <<opt("sockfd", <<>>), opt("sockfd", <<>>),
      Loop(recvfrom_flags("sockfd") \o <<Sendto("sockfd")>>)>>
str_cli_kqueue04 ==
    LET Stop == <<Shutdown("sockfd"), Opt("kq"), Continue>>
    IN <<Obtain("file", "kq"), Opt("kq"),
         Loop(<<Opt("kq"), Maybe(FromServer),
                If("sockfd", {"half"}, <<>>,
                   <<Maybe(<<Read("stdin", Stop), Write("sockfd"), Maybe(Stop)>>)>>)>>)>>
str_cli_poll03 ==
    <<Obtain("file", "wfd"), Write("wfd"),
      Loop(<<Opt("wfd"), Maybe(FromServer),
             Maybe(<<Read("stdin", <<Shutdown("sockfd"), Continue>>), Write("sockfd")>>)>>)>>
str_cli_select02 ==
    <<Loop(<<Watch({"sockfd"}), Maybe(FromServer),
             If("stdin", {"eof"}, <<>>,
                <<Maybe(<<Read("stdin", <<Shutdown("sockfd"), Continue>>), Write("sockfd")>>)>>)>>)>>
str_echo_stdio02 ==
    <<Obtain("memory", "fpin"), Obtain("memory", "fpout"),
      Loop(<<read("connfd", <<Break>>, <<Break>>), write("connfd", Quit)>>)>>
ad_tcpcli01 ==
    <<Usage, Socket("sockfd", "stream")>> \o connect_timeo("sockfd", Quit)
        \o str_cli("sockfd") \o Quit
ad_tcpcli02 == Client(str_cli_select02)
ad_tcpcli03 == Client(str_cli_poll03)
ad_tcpcli04 == Client(str_cli_kqueue04)
ad_tcpserv02 == Restarting(str_echo_stdio02)
DgClient(dialog) == <<Usage, Socket("sockfd", "dgram")>> \o dialog \o Quit
ad_udpcli01 == DgClient(dgclitimeo1)
ad_udpcli02 == DgClient(dgclitimeo2)
ad_udpcli03 == DgClient(dgclitimeo3)
ad_udpserv01 == <<Socket("sockfd", "dgram"), Bind("sockfd")>> \o dgechoaddr

\* One socket and one child for every address of every interface; the parent does
\* not close the socket it has handed to a child.
NewSocket == <<Socket("sockfd", "dgram"), Opt("sockfd")>>
mydg_echo == <<Spawn(dg_echo("sockfd"))>>
EachInterface ==
    Get_ifi_info \o
    <<While(NewSocket \o <<Bind("sockfd")>> \o mydg_echo
            \o <<Maybe(NewSocket
                       \o <<bind("sockfd", <<Either(<<<<Close("sockfd"), Continue>>, Quit>>)>>)>>
                       \o mydg_echo)>>)>>
udpserv03 == EachInterface \o NewSocket \o <<Bind("sockfd")>> \o mydg_echo \o Quit
udpserv04 ==
    <<Usage>> \o udp_client("sockfd") \o <<Close("sockfd")>> \o EachInterface \o NewSocket
        \o <<Obtain("memory", "wild"), Bind("sockfd")>> \o mydg_echo \o Quit

----------------------------------------------------------------------------
\* oob/: a heartbeat of urgent bytes beside the dialog. The timer runs until it is
\* cleared; its handler may run between any two calls.
heartbeat_cli ==
    <<Signal("SIGURG"), Opt("sockfd"), Signal("SIGALRM"), Obtain("timer", "alarm")>>
sig_alrm == <<If("alarm", {None}, <<>>, <<Maybe(<<Either(<<Quit, <<Write("sockfd")>>>>)>>)>>)>>
ob_strcliselect02 ==
    heartbeat_cli
        \o <<Loop(sig_alrm \o <<[Watch({"sockfd"}) EXCEPT !.alt = Intr], Maybe(FromServer)>> \o sig_alrm
                  \o <<If("stdin", {"eof"}, <<>>,
                          <<Maybe(<<Read("stdin", <<Release("alarm"), Shutdown("sockfd"), Continue>>),
                                    Write("sockfd")>>)>>)>>)>>
heartbeat_serv ==
    <<Signal("SIGURG"), Opt("connfd"), Signal("SIGALRM"), Obtain("timer", "alarm")>>
sig_urg == <<Maybe(<<On("opt", "connfd", <<Maybe(Quit)>>), Write("connfd")>>), Maybe(Quit)>>
strecho02 ==
    heartbeat_serv \o <<Loop(sig_urg \o <<Read("connfd", <<Break>>), Write("connfd")>>)>>
ob_tcpcli02 == Client(ob_strcliselect02)
ob_tcpserv02 == Restarting(strecho02)

Receiver(prepare, body) ==
    <<Usage>> \o tcp_listen("listenfd") \o prepare \o <<Accept("listenfd", "connfd")>> \o body
Urgent == <<Maybe(<<Recvfrom("connfd")>>)>>
Normal == Read("connfd", Quit)
tcprecv01 == Receiver(<<>>, <<Signal("SIGURG"), Opt("connfd"), Loop(Urgent \o <<Normal>>)>>)
tcprecv02 == Receiver(<<>>, <<Loop(<<Watch({"connfd"})>> \o Urgent \o <<Maybe(<<Normal>>)>>)>>)
tcprecv03 == Receiver(<<>>, <<Loop(<<Watch({"connfd"})>> \o Urgent \o <<Maybe(<<Normal>>)>>)>>)
tcprecv03p == Receiver(<<>>, <<Loop(<<Watch({"connfd"})>> \o Urgent \o <<Maybe(<<Normal>>)>>)>>)
tcprecv04 == Receiver(<<Opt("listenfd")>>, <<Loop(<<Opt("connfd"), Normal>>)>>)
tcprecv05 == Receiver(<<Opt("listenfd")>>, <<Signal("SIGURG"), Opt("connfd"), Loop(Urgent)>>)
tcprecv06 == Receiver(<<Opt("listenfd")>>, <<Loop(<<Opt("connfd"), Normal>>)>>)
Sender(n) ==
    <<Usage>> \o tcp_connect("sockfd")
        \o [i \in 1..n |-> IF i % 2 = 1 THEN Write("sockfd") ELSE Sendto("sockfd")] \o Quit
tcpsend01 == Sender(5)
tcpsend02 == Sender(5)
tcpsend03 == Sender(5)
tcpsend04 == Sender(3)
tcpsend05 ==
    <<Usage>> \o tcp_connect("sockfd")
        \o <<Opt("sockfd"), Write("sockfd"), Sendto("sockfd"), Write("sockfd"), Exit>>
tcpsend06 == Sender(5)

Table == [
    t_tcpcli01 |-> t_tcpcli01, t_tcpcli02 |-> t_tcpcli02, t_tcpserv01 |-> t_tcpserv01,
    t_tcpserv02 |-> t_tcpserv02, test03 |-> test03, test04 |-> test04, example02 |-> example02,
    web01 |-> web01, web02 |-> web02, web03 |-> web03, nb_daytimetcpcli |-> nb_daytimetcpcli,
    nb_tcpcli01 |-> nb_tcpcli01, nb_tcpcli02 |-> nb_tcpcli02, nb_tcpcli03 |-> nb_tcpcli03,
    nb_tcpcli04 |-> nb_tcpcli04, tcpservselect03 |-> tcpservselect03, web |-> web,
    ad_daytimetcpcli |-> ad_daytimetcpcli, daytimeudpcli3 |-> daytimeudpcli3,
    daytimeudpcli4 |-> daytimeudpcli4, ad_tcpcli01 |-> ad_tcpcli01, ad_tcpcli02 |-> ad_tcpcli02,
    ad_tcpcli03 |-> ad_tcpcli03, ad_tcpcli04 |-> ad_tcpcli04, ad_tcpserv02 |-> ad_tcpserv02,
    ad_udpcli01 |-> ad_udpcli01, ad_udpcli02 |-> ad_udpcli02, ad_udpcli03 |-> ad_udpcli03,
    ad_dgclitimeo |-> DgClient(dgclitimeo), ad_udpserv01 |-> ad_udpserv01, udpserv03 |-> udpserv03,
    udpserv04 |-> udpserv04, ob_tcpcli02 |-> ob_tcpcli02, ob_tcpserv02 |-> ob_tcpserv02,
    tcprecv01 |-> tcprecv01, tcprecv02 |-> tcprecv02, tcprecv03 |-> tcprecv03,
    tcprecv03p |-> tcprecv03p, tcprecv04 |-> tcprecv04, tcprecv05 |-> tcprecv05,
    tcprecv06 |-> tcprecv06, tcpsend01 |-> tcpsend01, tcpsend02 |-> tcpsend02,
    tcpsend03 |-> tcpsend03, tcpsend04 |-> tcpsend04, tcpsend05 |-> tcpsend05,
    tcpsend06 |-> tcpsend06]
============================================================================
