------------------------------ MODULE Messages ------------------------------
(***************************************************************************)
(* The message-oriented programs: unpv13e/sctp, mcast (m_), bcast (b_),    *)
(* icmpd (i_), ssntp, mysdr, sigio (g_), rtt (r_), and the option programs *)
(* of sockopt, ipopts (o_) and inetd (d_).                                 *)
(***************************************************************************)
EXTENDS Library

\* sctp/. One seqpacket socket for all associations.
Sctp_recvmsg(fd) == <<Recvfrom(fd)>>
Sctp_sendmsg(fd) == <<Sendto(fd)>>
Sctp_bindx(fd) == <<Bind(fd)>>
sctp_address_to_associd(fd) == <<opt(fd, <<>>)>>
sctp_get_no_strms(fd) == sctp_address_to_associd(fd) \o <<Opt(fd)>>
NextStream == <<Maybe(sctp_get_no_strms("sock_fd"))>>
Notification == <<Maybe(<<Continue>>)>>
SctpServer(before, binding, receive, answer) ==
    <<Socket("sock_fd", "seqpacket")>> \o before \o binding
        \o <<Opt("sock_fd"), Listen("sock_fd"),
             Loop(receive \o answer \o Sctp_sendmsg("sock_fd"))>>
Received == Sctp_recvmsg("sock_fd")
Wildcard == <<Bind("sock_fd")>>
sctpserv01 == SctpServer(<<>>, Wildcard, Received, NextStream)
sctpserv02 == SctpServer(<<Opt("sock_fd")>>, Wildcard, Received, NextStream)
sctpserv03 == SctpServer(<<>>, Wildcard, Received, NextStream)
sctpserv04 == SctpServer(<<Opt("sock_fd")>>, Wildcard, Received, NextStream)

\* A buffer that lives as long as the process and grows with the longest message;
\* an empty first part returns NULL.
pdapi_recvmsg(null) ==
    <<If("readbuf", {None}, <<Obtain("memory", "readbuf")>>, <<>>)>> \o Sctp_recvmsg("sock_fd")
        \o <<Maybe(null), While(<<Maybe(<<Release("readbuf"), Obtain("memory", "readbuf")>>)>>
                                \o Sctp_recvmsg("sock_fd"))>>
sctpserv05 ==
    SctpServer(<<>>, Wildcard, pdapi_recvmsg(<<Continue>>), <<Need("readbuf")>> \o NextStream)
sctpserv06 == SctpServer(<<>>, Wildcard, Received \o Notification, NextStream)

\* The length of the address is read again after the list is freed.
sctp_bind_arg_list(fd) ==
    <<Obtain("memory", "bindbuf"),
      While(Host_serv \o <<Need("ai"), Release("ai"), Need("ai")>>)>>
        \o Sctp_bindx(fd) \o <<Release("bindbuf")>>
sctpserv07 ==
    <<Usage>> \o SctpServer(<<>>, sctp_bind_arg_list("sock_fd"), Received \o Notification, <<>>)

\* An association is peeled off to a descriptor of its own and served by a child;
\* a failing fork is treated as the parent.
sctpserv_fork ==
    <<Socket("sock_fd", "seqpacket"), Bind("sock_fd"), Opt("sock_fd"), Listen("sock_fd"),
      Loop(Sctp_recvmsg("sock_fd") \o Sctp_sendmsg("sock_fd")
           \o sctp_address_to_associd("sock_fd") \o <<Maybe(<<Continue>>)>>
           \o <<accept("sock_fd", "connfd", <<Continue>>),
                Forking(<<Close("sock_fd")>> \o str_echo("connfd") \o Quit, <<>>),
                Close("connfd")>>)>>

SctpClient(dialog) ==
    <<Usage, Socket("sock_fd", "seqpacket"), Opt("sock_fd")>> \o dialog
OneStream == <<Maybe(<<Continue>>)>> \o Sctp_sendmsg("sock_fd")
sctp_strcli == <<While(OneStream \o Sctp_recvmsg("sock_fd"))>>
sctp_strcli_un == <<While(OneStream \o Sctp_recvmsg("sock_fd"))>>
sctp_print_addresses == <<Maybe(Quit)>>
check_notification(fd) ==
    <<Maybe(<<Obtain("list", "sar")>> \o sctp_print_addresses \o <<Release("sar"), Obtain("list", "sal")>>
            \o sctp_print_addresses \o <<Release("sal")>>)>>
sctp_strcli1 ==
    <<While(OneStream
            \o <<Loop(Sctp_recvmsg("sock_fd")
                      \o <<Either(<<check_notification("sock_fd"), <<Break>>>>)>>)>>)>>
sctp_strcliecho ==
    <<While(<<While(Sctp_sendmsg("sock_fd")), While(Sctp_recvmsg("sock_fd"))>>)>>
sctpclient01 ==
    SctpClient(<<Either(<<sctp_strcli, sctp_strcliecho>>), Close("sock_fd"), Exit>>)
sctpclient02 ==
    SctpClient(<<Either(<<sctp_strcli, sctp_strcliecho>>)>> \o Sctp_sendmsg("sock_fd")
                   \o <<Close("sock_fd"), Exit>>)
sctpclient03 == SctpClient(<<Either(<<sctp_strcli_un, sctp_strcliecho>>), Close("sock_fd"), Exit>>)
sctpclient04 == SctpClient(sctp_strcli1 \o <<close("sock_fd"), Exit>>)

----------------------------------------------------------------------------
\* bcast/ and mcast/: after every line the client collects answers until SIGALRM
\* ends the wait: by interrupting the call, by a jump out of it, or through a pipe.
Interrupted == <<Either(<<<<Break>>, Quit>>)>>
Collect(loop) == While(<<Sendto("sockfd"), Loop(loop)>>)
UntilIntr == <<recvfrom("sockfd", Interrupted)>>
UntilJump == <<Maybe(<<Break>>), Recvfrom("sockfd")>>
Broadcast(more, loop) ==
    <<Obtain("memory", "preply_addr"), Opt("sockfd")>> \o more
        \o <<Signal("SIGALRM"), Collect(loop), Release("preply_addr")>>
dgclibcast1 == Broadcast(<<>>, UntilIntr)
dgclibcast2 == Broadcast(<<>>, UntilIntr)
dgclibcast3 == Broadcast(<<>>, UntilIntr)
dgclibcast4 ==
    Broadcast(<<>>, <<[Watch({"sockfd"}) EXCEPT !.alt = Interrupted], Maybe(Quit), Recvfrom("sockfd")>>)
dgclibcast5 == Broadcast(<<>>, UntilJump)
dgclibcast6 ==
    Broadcast(<<Obtain("file", "pipefd0"), Obtain("file", "pipefd1")>>,
              <<Maybe(<<Write("pipefd1")>>),
                [Watch({"sockfd", "pipefd0"}) EXCEPT !.alt = <<Either(<<<<Continue>>, Quit>>)>>],
                Maybe(<<Recvfrom("sockfd")>>), Maybe(<<Read("pipefd0", <<>>), Break>>)>>)
DgClient(dialog) == <<Usage, Socket("sockfd", "dgram")>> \o dialog \o Quit
b_udpcli01 == DgClient(dgclibcast1)
b_udpcli02 == DgClient(dgclibcast2)
b_udpcli03 == DgClient(dgclibcast3)
b_udpcli04 == DgClient(dgclibcast4)
b_udpcli05 == DgClient(dgclibcast5)
b_udpcli06 == DgClient(dgclibcast6)
Multicast(loop) == <<Obtain("memory", "preply_addr"), Signal("SIGALRM"), Collect(loop)>>
m_dgclibcast1 == Multicast(UntilIntr)
dgclimcast5 == Multicast(UntilJump)
dgclimcast6 == Multicast(UntilJump)
m_udpcli01 == DgClient(m_dgclibcast1)
m_udpcli05 == DgClient(dgclimcast5)
m_udpcli06 ==
    <<Usage>> \o udp_client("sockfd") \o <<Obtain("memory", "cli"), Bind("sockfd")>>
        \o dgclimcast6 \o Quit
DgServer(echo) == <<Socket("sockfd", "dgram"), Bind("sockfd")>> \o echo
m_udpserv01 == <<Socket("sockfd", "dgram"), Bind("sockfd")>> \o mcast_join("sockfd", <<>>) \o dg_echo("sockfd")
recv_all == <<Obtain("memory", "safrom"), Loop(<<Recvfrom("recvfd")>>)>>
send_all == <<Maybe(Quit), Loop(<<Sendto("sendfd")>>)>>
m_main ==
    <<Usage>> \o udp_client("sendfd")
        \o <<Socket("recvfd", "dgram"), Opt("recvfd"), Obtain("memory", "sarecv"), Bind("recvfd")>>
        \o mcast_join("recvfd", Quit) \o <<Opt("sendfd"), Spawn(recv_all)>> \o send_all

----------------------------------------------------------------------------
\* icmpd/: the daemon watches two raw sockets, its listening socket and the
\* connections of its clients; a client passes it a bound UDP descriptor.
readable_listen ==
    <<Accept("listenfd", "connfd"),
      If("c0", {None}, <<Move("connfd", "c0")>>,
         <<If("c1", {None}, <<Move("connfd", "c1")>>, <<close("connfd")>>)>>)>>
ToClients ==
    <<Maybe(Quit),
      Maybe([i \in 1..2 |-> LET c == <<"c0", "c1">>[i] IN If(c, {None}, <<>>, <<Maybe(<<Write(c)>>)>>)])>>
readable_v4 == <<Recvfrom("fd4")>> \o ToClients
readable_v6 == <<Recvfrom("fd6")>> \o ToClients
readable_conn(c) ==
    LET done == <<Close(c), If("recvfd", {None}, <<>>, <<Close("recvfd")>>), Return>>
        failed == <<Write(c)>> \o done
    IN <<Fn(Read_fd(c, "dgram", "recvfd", done, failed)
            \o <<opt("recvfd", failed), Maybe(sock_bind_wild("recvfd", failed)), Write(c),
                 Close("recvfd")>>)>>
icmpd ==
    <<Usage, Socket("fd4", "raw"), Socket("fd6", "raw"), Socket("listenfd", "stream"),
      Bind("listenfd"), Listen("listenfd"),
      Loop(<<Watch({"fd4", "fd6", "listenfd"}),
             Maybe(readable_listen \o <<Maybe(<<Continue>>)>>),
             Maybe(readable_v4 \o <<Maybe(<<Continue>>)>>),
             Maybe(readable_v6 \o <<Maybe(<<Continue>>)>>),
             If("c0", {None}, <<>>, <<Maybe(readable_conn("c0") \o <<Maybe(<<Continue>>)>>)>>),
             If("c1", {None}, <<>>, <<Maybe(readable_conn("c1"))>>)>>)>>
i_dgcli01 ==
    Sock_bind_wild("sockfd") \o <<Socket("icmpfd", "stream"), Connect("icmpfd"), Write_fd("icmpfd"),
      Read("icmpfd", Quit), Maybe(Quit),
      While(<<Sendto("sockfd"), Watch({"sockfd", "icmpfd"}), Maybe(<<Continue>>),
              Maybe(<<Recvfrom("sockfd")>>), Maybe(<<Read("icmpfd", Quit), Maybe(Quit)>>)>>)>>
i_udpcli01 == <<Usage>> \o udp_client("sockfd") \o i_dgcli01 \o Quit

ssntp ==
    <<Usage>> \o udp_client("sockfd") \o <<Obtain("memory", "wild"), Bind("sockfd")>>
        \o Get_ifi_info \o <<While(<<Maybe(mcast_join("sockfd", Quit))>>)>>
        \o <<Obtain("memory", "from"), Loop(<<Recvfrom("sockfd")>>)>>
loop == <<Obtain("memory", "sa"), Loop(<<Recvfrom("sockfd"), Maybe(<<Continue>>)>>)>>
mysdr ==
    <<Usage>> \o udp_client("sockfd") \o <<Opt("sockfd"), Bind("sockfd")>>
        \o mcast_join("sockfd", Quit) \o loop
g_dgcli01 == dg_cli("sockfd")
g_udpcli01 == DgClient(g_dgcli01)
r_dg_echo == dg_echo("sockfd")
r_dg_cli == <<While(<<Signal("SIGALRM"), Loop(<<Sendto("sockfd"), Either(<<Quit, <<Continue>>, <<Recvfrom("sockfd"), Break>>>>)>>)>>)>>
r_udpcli01 == DgClient(r_dg_cli)

----------------------------------------------------------------------------
\* sockopt/, ipopts/ and inetd/.
checkopts == <<While(<<Maybe(<<Either(<<<<Socket("fd", "stream")>>, <<Socket("fd", "seqpacket")>>, Quit>>),
                               opt("fd", <<>>), close("fd")>>)>>), Exit>>
doit(fd) == <<Opt(fd), Opt(fd), Opt(fd), Opt(fd)>>
prdefaults == <<Socket("tcpsock", "stream")>> \o doit("tcpsock") \o <<Socket("udpsock", "dgram")>> \o doit("udpsock") \o Quit
rcvbuf == <<Usage, Socket("sockfd", "stream"), Opt("sockfd"), Opt("sockfd"), Connect("sockfd"), Opt("sockfd"), Opt("sockfd"), Exit>>
rcvbufset ==
    <<Usage, Socket("sockfd", "stream"), Opt("sockfd"), Opt("sockfd"), Opt("sockfd"), Opt("sockfd"),
      Connect("sockfd"), Opt("sockfd"), Opt("sockfd"), Exit>>
sockopt == <<Socket("sockfd", "stream"), Opt("sockfd"), Opt("sockfd"), Opt("sockfd"), Exit>>

\* The source route of the client is built before its socket exists and freed once
\* it is set.
inet_srcrt_init == <<If("ptr", {None}, <<Obtain("memory", "ptr")>>, Quit)>>
inet_srcrt_add == <<Maybe(Quit), Obtain("list", "hop"), Need("hop"), Release("hop")>>
o_tcpcli01 ==
    <<Usage, While(<<Either(<<inet_srcrt_init, Quit>>)>>),
      If("ptr", {None}, <<Maybe(Quit)>>, <<While(inet_srcrt_add)>>), Maybe(Quit)>>
        \o Host_serv
        \o <<Socket("sockfd", "stream"),
             If("ptr", {None}, <<>>, inet_srcrt_add \o <<Opt("sockfd"), Release("ptr")>>),
             Connect("sockfd")>>
        \o str_cli("sockfd") \o Quit
o_tcpserv01 ==
    <<Obtain("memory", "opts"), Socket("listenfd", "stream"), Bind("listenfd"), Listen("listenfd"),
      Signal("SIGCHLD"),
      Loop(<<accept("listenfd", "connfd", <<Either(<<<<Continue>>, Quit>>)>>), Opt("connfd"),
             Fork(<<Close("listenfd")>> \o str_echo("connfd") \o Quit), Close("connfd")>>)>>
dgechoprintroute == <<Opt("sockfd"), Loop(<<Recvfrom("sockfd"), Sendto("sockfd")>>)>>
o_udpcli01 ==
    <<Usage, Maybe(<<Obtain("memory", "ptr"), While(Host_serv \o <<Need("ai")>>)>>)>> \o Host_serv
        \o <<Socket("sockfd", "dgram"),
             If("ptr", {None}, <<>>, <<Opt("sockfd"), Release("ptr")>>)>>
        \o dg_cli("sockfd") \o Quit
o_udpserv01 == DgServer(dgechoprintroute)
d_daytimetcpsrv2 ==
    <<Usage>> \o daemon_init \o tcp_listen("listenfd")
        \o <<Obtain("memory", "cliaddr"),
             Loop(<<Accept("listenfd", "connfd"), Write("connfd"), Close("connfd")>>)>>
d_daytimetcpsrv3 ==
    <<Obtain("memory", "cliaddr"), Opt("stdin"), Write("stdin"), Close("stdin"), Exit>>

Table == [
    sctpserv01 |-> sctpserv01, sctpserv02 |-> sctpserv02, sctpserv03 |-> sctpserv03,
    sctpserv04 |-> sctpserv04, sctpserv05 |-> sctpserv05, sctpserv06 |-> sctpserv06,
    sctpserv07 |-> sctpserv07, sctpserv_fork |-> sctpserv_fork, sctpclient01 |-> sctpclient01,
    sctpclient02 |-> sctpclient02, sctpclient03 |-> sctpclient03, sctpclient04 |-> sctpclient04,
    b_udpcli01 |-> b_udpcli01, b_udpcli02 |-> b_udpcli02, b_udpcli03 |-> b_udpcli03,
    b_udpcli04 |-> b_udpcli04, b_udpcli05 |-> b_udpcli05, b_udpcli06 |-> b_udpcli06,
    m_udpcli01 |-> m_udpcli01, m_udpcli05 |-> m_udpcli05, m_udpcli06 |-> m_udpcli06,
    m_udpserv01 |-> m_udpserv01, m_main |-> m_main, icmpd |-> icmpd, i_udpcli01 |-> i_udpcli01,
    ssntp |-> ssntp, mysdr |-> mysdr, g_udpcli01 |-> g_udpcli01, r_udpcli01 |-> r_udpcli01,
    checkopts |-> checkopts, prdefaults |-> prdefaults, rcvbuf |-> rcvbuf,
    rcvbufset |-> rcvbufset, sockopt |-> sockopt, o_tcpcli01 |-> o_tcpcli01,
    o_tcpserv01 |-> o_tcpserv01, o_udpcli01 |-> o_udpcli01, o_udpserv01 |-> o_udpserv01,
    d_daytimetcpsrv2 |-> d_daytimetcpsrv2, d_daytimetcpsrv3 |-> d_daytimetcpsrv3]
=============================================================================
