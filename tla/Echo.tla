-------------------------------- MODULE Echo --------------------------------
(***************************************************************************)
(* The echo clients and servers of unpv13e/tcpcliserv, select, udpcliserv  *)
(* and unixdomain.                                                         *)
(***************************************************************************)
EXTENDS Library

\* Clients of tcpcliserv: connect, then one of the str_cli.
Client(dialog) ==
    <<Usage, Socket("sockfd", "stream"), Connect("sockfd")>> \o dialog \o Quit
str_cli08 == str_cli("sockfd")
str_cli09 == <<While(<<Maybe(<<Continue>>), Write("sockfd"), Read("sockfd", Quit)>>)>>
str_cli11 == <<While(<<Write("sockfd"), Write("sockfd"), Read("sockfd", Quit)>>)>>
tcpcli01 == Client(str_cli("sockfd"))
tcpcli04 ==
    <<Usage, Socket("sockfd0", "stream"), Connect("sockfd0"),
      Socket("sockfd1", "stream"), Connect("sockfd1")>> \o str_cli("sockfd0") \o Quit
tcpcli05 == Client(str_cli("sockfd"))
tcpcli06 == Client(<<Write("sockfd")>>)
tcpcli07 ==
    <<Usage, Socket("sockfd", "stream"), Signal("SIGALRM"), Maybe(Quit), Connect("sockfd")>>
        \o str_cli("sockfd") \o Quit
tcpcli08 == Client(str_cli08)
tcpcli09 == Client(str_cli09)
tcpcli10 == Client(str_cli("sockfd") \o <<Opt("sockfd")>>)
tcpcli11 == Client(str_cli11)
tsigpipe ==
    <<Usage, Socket("sockfd", "stream"), Signal("SIGPIPE"), Connect("sockfd"),
      Write("sockfd"), Write("sockfd"), Exit>>

\* Servers with a child per connection. From tcpserv03 on they restart an accept that a
\* SIGCHLD interrupted; tcpserv02 and tcpserv03 are linked with the handler of
\* sigchldwait.c, the others with the one of sigchldwaitpid.c.
Intr == <<Either(<<<<Continue>>, Quit>>)>>
Serving(acc, session) ==
    <<Loop(<<acc, Fork(<<Close("listenfd")>> \o session \o Quit), Close("connfd")>>)>>
Bound(kind) == <<Socket("listenfd", kind), Bind("listenfd"), Listen("listenfd")>>
Handling(handler, session) ==
    Bound("stream") \o <<Signal(handler)>> \o Serving(accept("listenfd", "connfd", Intr), session)
Restarting(session) == Handling("SIGCHLD", session)
str_echo08 == <<Loop(<<Read("connfd", <<Break>>), Write("connfd")>>)>>
str_echo09 == <<Loop(<<Read("connfd", <<Break>>), Write("connfd")>>)>>
tcpserv01 == Bound("stream") \o Serving(Accept("listenfd", "connfd"), str_echo("connfd"))
tcpserv02 ==
    Bound("stream") \o <<Signal("SIGCHLD wait")>>
        \o Serving(Accept("listenfd", "connfd"), str_echo("connfd"))
tcpserv03 == Handling("SIGCHLD wait", str_echo("connfd"))
tcpserv04 == Restarting(str_echo("connfd"))
tcpserv08 == Restarting(str_echo08)
tcpserv09 == Restarting(str_echo09)

\* One process for all clients: the descriptor of a new connection goes to the
\* first free slot of client[]; a slot is freed when its connection ends.
Store ==
    <<If("client0", {None}, <<Move("connfd", "client0")>>,
         <<If("client1", {None}, <<Move("connfd", "client1")>>, Quit)>>)>>
Exchange(c, alt) ==
    <<If(c, {None}, <<>>,
         <<Maybe(<<Fn(<<read(c, <<Close(c), Return>>, alt), Write(c)>>), Maybe(<<Continue>>)>>)>>)>>
Multiplex(alt) ==
    Bound("stream")
        \o <<Loop(<<Watch({"listenfd"}),
                    Maybe(<<Accept("listenfd", "connfd")>> \o Store \o <<Maybe(<<Continue>>)>>)>>
                  \o Exchange("client0", alt["client0"]) \o Exchange("client1", alt["client1"]))>>
tcpservpoll01 ==
    Multiplex([c \in {"client0", "client1"} |-> <<Either(<<<<Close(c), Return>>, Quit>>)>>])
tcpservselect01 == Multiplex([c \in {"client0", "client1"} |-> Quit])

\* select/: the client watches standard input and the socket; the second one shuts
\* down its half at the end of the input and goes on reading.
strcliselect01 ==
    <<Loop(<<Watch({"sockfd"}), Maybe(<<Read("sockfd", Quit)>>),
             Maybe(<<Read("stdin", <<Break>>), Write("sockfd")>>)>>)>>
strcliselect02 ==
    <<Loop(<<Watch({"sockfd"}), Maybe(FromServer),
             If("stdin", {"eof"}, <<>>,
                <<Maybe(<<Read("stdin", <<Shutdown("sockfd"), Continue>>), Write("sockfd")>>)>>)>>)>>
s_tcpcli01 == Client(strcliselect01)
s_tcpcli02 == Client(strcliselect02)
s_tcpcli03 == Client(<<On("opt", "sockfd", <<>>)>>)

----------------------------------------------------------------------------
\* udpcliserv/: one dg_cli or dg_echo for each client and server.
DgClient(dialog) == <<Usage, Socket("sockfd", "dgram")>> \o dialog \o Quit
dgcliaddr ==
    <<Obtain("memory", "preply_addr"),
      While(<<Sendto("sockfd"), Recvfrom("sockfd"), Maybe(<<Continue>>)>>)>>
dgclibig == <<Opt("sockfd"), Opt("sockfd"), Sendto("sockfd"), Recvfrom("sockfd")>>
dgcliconnect ==
    <<Connect("sockfd"), While(<<Write("sockfd"), Read("sockfd", <<>>)>>)>>
dgcliinetaddr == <<Obtain("memory", "replyaddr"), While(<<Sendto("sockfd"), Recvfrom("sockfd")>>)>>
dgcliloop1 == <<While(<<Sendto("sockfd")>>)>>
dgcliloop3 == <<Opt("sockfd"), While(<<Sendto("sockfd")>>)>>
dgecholoop1 == <<Signal("SIGINT"), Loop(<<Recvfrom("sockfd"), Maybe(Quit)>>)>>
dgecholoop2 == <<Signal("SIGINT"), Opt("sockfd"), Loop(<<Recvfrom("sockfd"), Maybe(Quit)>>)>>
udpcli01 == DgClient(dg_cli("sockfd"))
udpcli02 == DgClient(dgcliaddr)
udpcli03 == DgClient(dgcliinetaddr)
udpcli04 == DgClient(dgcliconnect)
udpcli05 == <<Usage, Socket("sockfd", "dgram"), Bind("sockfd")>> \o dg_cli("sockfd") \o Quit
udpcli06 == DgClient(dgcliloop1)
udpcli08 == DgClient(dgcliloop3)
udpcli09 == DgClient(<<Connect("sockfd"), Opt("sockfd")>>)
udpcli10 == <<Usage>> \o udp_client("sockfd") \o dgclibig \o Quit
DgServer(echo) == <<Socket("sockfd", "dgram"), Bind("sockfd")>> \o echo
udpserv01 == DgServer(dg_echo("sockfd"))
udpserv06 == DgServer(dgecholoop1)
udpserv07 == DgServer(dgecholoop2)
udpservselect01 ==
    <<Socket("listenfd", "stream"), Opt("listenfd"), Bind("listenfd"), Listen("listenfd"),
      Socket("udpfd", "dgram"), Bind("udpfd"), Signal("SIGCHLD"),
      Loop(<<[Watch({"listenfd", "udpfd"}) EXCEPT !.alt = Intr],
             Maybe(<<Accept("listenfd", "connfd"),
                     Fork(<<Close("listenfd")>> \o str_echo("connfd") \o Quit), Close("connfd")>>),
             Maybe(<<Recvfrom("udpfd"), Sendto("udpfd")>>)>>)>>

----------------------------------------------------------------------------
\* unixdomain/.
u_daytimetcpcli ==
    <<Usage>> \o tcp_connect("sockfd")
        \o <<Obtain("memory", "sa"), Opt("sockfd"), ReadAll("sockfd", <<>>), Exit>>
u_daytimetcpsrv2 ==
    <<Usage>> \o tcp_listen("listenfd")
        \o <<Obtain("memory", "cliaddr"),
             Loop(<<Accept("listenfd", "connfd"), While(<<Write("connfd")>>), Close("connfd")>>)>>

\* A file opened by another process and passed over a socket pair.
openfile == <<Usage, obtain("file", "fd", Quit), write("sockfd1", Quit), Exit>>
myopen(alt) ==
    Socketpair("sockfd0", "sockfd1")
        \o <<Fork(<<Close("sockfd0"), Maybe(Quit)>> \o openfile), Close("sockfd1"), Wait,
             Maybe(Quit),
             Either(<< <<Read("sockfd0", <<>>), Obtain("file", "fd"), Close("sockfd0")>>,
                       <<Close("sockfd0")>> \o alt >>)>>
mycat == <<Usage>> \o myopen(Quit) \o <<ReadAll("fd", <<>>), Exit>>

\* Credentials: a message without the expected control data ends the process.
read_cred(fd, end, alt) == <<read(fd, end, alt), Maybe(Quit)>>
strecho ==
    <<Loop(read_cred("connfd", <<Break>>, Intr) \o <<Write("connfd")>>)>>
recv_cred(fd, end) == <<read(fd, end, Quit), Maybe(Quit)>>
tfcred01 ==
    Socketpair("fd0", "fd1") \o <<Opt("fd1"), Write("fd0")>> \o recv_cred("fd1", Quit) \o Quit
unixbind == <<Usage, Socket("sockfd", "stream"), Bind("sockfd"), Opt("sockfd"), Exit>>
unixdgcli01 == <<Socket("sockfd", "dgram"), Bind("sockfd")>> \o dg_cli("sockfd") \o Quit
unixdgserv01 == DgServer(dg_echo("sockfd"))
unixstrcli01 == <<Socket("sockfd", "stream"), Connect("sockfd")>> \o str_cli("sockfd") \o Quit
unixstrserv01 == Restarting(str_echo("connfd"))
unixstrserv02 == Restarting(strecho)

Table == [
    tcpcli01 |-> tcpcli01, tcpcli04 |-> tcpcli04, tcpcli05 |-> tcpcli05, tcpcli06 |-> tcpcli06,
    tcpcli07 |-> tcpcli07, tcpcli08 |-> tcpcli08, tcpcli09 |-> tcpcli09, tcpcli10 |-> tcpcli10,
    tcpcli11 |-> tcpcli11, tsigpipe |-> tsigpipe, tcpserv01 |-> tcpserv01,
    tcpserv02 |-> tcpserv02, tcpserv03 |-> tcpserv03, tcpserv04 |-> tcpserv04,
    tcpserv08 |-> tcpserv08, tcpserv09 |-> tcpserv09, tcpservpoll01 |-> tcpservpoll01,
    tcpservselect01 |-> tcpservselect01, s_tcpcli01 |-> s_tcpcli01, s_tcpcli02 |-> s_tcpcli02,
    s_tcpcli03 |-> s_tcpcli03, udpcli01 |-> udpcli01, udpcli02 |-> udpcli02,
    udpcli03 |-> udpcli03, udpcli04 |-> udpcli04, udpcli05 |-> udpcli05, udpcli06 |-> udpcli06,
    udpcli08 |-> udpcli08, udpcli09 |-> udpcli09, udpcli10 |-> udpcli10,
    udpserv01 |-> udpserv01, udpserv06 |-> udpserv06, udpserv07 |-> udpserv07,
    udpservselect01 |-> udpservselect01, u_daytimetcpcli |-> u_daytimetcpcli,
    u_daytimetcpsrv2 |-> u_daytimetcpsrv2, mycat |-> mycat, tfcred01 |-> tfcred01,
    unixbind |-> unixbind, unixdgcli01 |-> unixdgcli01, unixdgserv01 |-> unixdgserv01,
    unixstrcli01 |-> unixstrcli01, unixstrserv01 |-> unixstrserv01,
    unixstrserv02 |-> unixstrserv02]
============================================================================
