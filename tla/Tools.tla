------------------------------- MODULE Tools -------------------------------
(***************************************************************************)
(* The programs of unpv13e that look at the network: sock, ping,           *)
(* traceroute, udpcksum, the routing and key sockets (route, libroute,     *)
(* key), ioctl, the STREAMS programs (streams) and the experiments of      *)
(* debug.                                                                  *)
(***************************************************************************)
EXTENDS Library

\* sock/. The options given decide which of the calls are made.
buffers(fd) ==
    <<If("rbuf", {None}, <<Obtain("memory", "rbuf")>>, <<>>),
      If("wbuf", {None}, <<Obtain("memory", "wbuf")>>, <<>>),
      Maybe(<<Opt(fd), Opt(fd), Maybe(Quit)>>), Maybe(<<Opt(fd), Opt(fd), Maybe(Quit)>>)>>
sroute_set(fd) == <<Opt(fd)>>
sockopts(fd) == <<While(<<Opt(fd), Maybe(Quit)>>), Maybe(sroute_set(fd))>>
join_mcast(fd) == <<Maybe(<<Opt(fd)>>)>>
sroute_doopt == <<Maybe(Quit)>>

\* An interrupted connect is called again, and finds the connection under way or made.
cliopen(fd, kind, binding, connecting) ==
    <<Maybe(Quit), Socket(fd, kind), Maybe(<<Opt(fd)>>), Maybe(<<Opt(fd)>>)>> \o binding
        \o buffers(fd) \o sockopts(fd) \o connecting \o <<Maybe(<<Opt(fd)>>)>> \o sockopts(fd)
Connecting == <<Maybe(<<On("pending", "fd", Quit)>>), Connect("fd")>>

Opened(kind) ==
    <<Maybe(Quit), Socket("sfd", kind), Maybe(<<Opt("sfd")>>), Maybe(<<Opt("sfd")>>), Bind("sfd")>>
        \o join_mcast("sfd") \o buffers("sfd")
servopen_udp == Opened("dgram") \o <<Maybe(<<Maybe(Quit), Connect("sfd")>>)>>
                    \o sockopts("sfd") \o <<Move("sfd", "fd")>>

\* TELL_WAIT installs the handlers the two processes wake each other with. The
\* listening socket stays open beside the connection of a server that does not fork.
TELL_WAIT == <<Maybe(Quit), Signal("SIGUSR1"), Signal("SIGUSR2")>>
servopen_tcp ==
    Opened("stream") \o sockopts("sfd") \o <<listen("sfd", <<>>), Maybe(TELL_WAIT),
      Loop(<<accept("sfd", "fd", Quit),
             Either(<< <<>>,
                       <<Forking(<<close("sfd"), Break>>, Quit), close("fd"), Continue>> >>),
             Break>>)>>
        \o <<Maybe(<<Opt("fd")>>)>> \o buffers("fd") \o sockopts("fd")

\* dowrite: write, writev, or as many writes as there are pieces.
dowrite(fd) == <<Write(fd), Maybe(<<While(<<Write(fd)>>)>>)>>
Peeked(fd, end) == <<Read(fd, end), Maybe(<<Read(fd, end)>>)>>
loop_tcp ==
    <<Loop(<<If("stdin", {"eof"}, <<Watch({"fd"})>>,
                <<Watch({"stdin", "fd"}),
                  Maybe(<<Read("stdin", <<Either(<<<<Shutdown("fd"), Continue>>, <<Break>>>>)>>)>>
                        \o dowrite("fd"))>>),
             Maybe(Peeked("fd", <<Break>>) \o <<Maybe(Quit)>>)>>),
      Close("fd")>>
loop_udp(send, receive) ==
    <<Loop(<<Watch({"stdin", "fd"}), Maybe(<<Read("stdin", <<Break>>)>> \o send),
             Maybe(receive \o <<Maybe(Quit)>>)>>),
      Close("fd")>>
FromPeer == <<Recvfrom("fd"), Maybe(<<Break>>), Maybe(<<Recvfrom("fd"), Maybe(<<Break>>)>>)>>
FromAnyone ==
    <<If("cmptr", {None}, <<Obtain("memory", "cmptr")>>, <<>>), Recvfrom("fd"), Maybe(Quit)>>
sink_tcp == <<Loop(Peeked("fd", <<Break>>)), Close("fd")>>
sink_udp == <<Loop(FromPeer), Close("fd")>>
Tolerated(call) == <<[call EXCEPT !.alt = <<Either(<<Quit, <<Opt("fd")>>>>)>>]>>
source_tcp == <<While(<<Maybe(<<Sendto("fd")>>)>> \o Tolerated(Write("fd"))), Close("fd")>>
source_udp(call) == <<While(Tolerated(call)), Close("fd")>>
main(body) == <<Usage, While(sroute_doopt), Usage>> \o body \o Quit
sock_tcp_client ==
    main(cliopen("fd", "stream", <<Maybe(<<Maybe(Quit), Bind("fd")>>)>>, Connecting)
         \o <<Either(<<source_tcp, loop_tcp>>)>>)
sock_tcp_server == main(servopen_tcp \o <<Either(<<sink_tcp, loop_tcp>>)>>)
UdpClient(connecting) == cliopen("fd", "dgram", <<Maybe(Quit), Bind("fd")>>, connecting)
sock_udp_client ==
    main(<<Either(<<UdpClient(<<Connect("fd")>>)
                        \o <<Either(<<source_udp(Write("fd")), loop_udp(<<Write("fd")>>, FromPeer)>>)>>,
                    UdpClient(<<>>)
                        \o <<Either(<<source_udp(Sendto("fd")),
                                      loop_udp(<<Sendto("fd")>>, <<Recvfrom("fd")>>)>>)>> >>)>>)
sock_udp_server ==
    main(servopen_udp \o <<Either(<<sink_udp, loop_udp(<<Write("fd")>>, FromAnyone),
                                    loop_udp(<<Sendto("fd")>>, FromAnyone)>>)>>)

----------------------------------------------------------------------------
\* ping/: requests leave from the SIGALRM handler, which also runs between any two
\* calls of the receiving loop; an interrupted recvmsg is called again.
init_v6 == <<Maybe(<<opt("sockfd", <<>>)>>), opt("sockfd", <<>>), opt("sockfd", <<>>)>>
send_v4 == <<Sendto("sockfd")>>
send_v6 == <<Sendto("sockfd")>>
ping_sig_alrm == <<Either(<<send_v4, send_v6>>)>>
proc_v4 == <<Maybe(<<Return>>), Need("sarecv")>>
proc_v6 == <<Maybe(<<Return>>), Need("sarecv")>>
readloop ==
    <<Socket("sockfd", "raw"), Maybe(init_v6), opt("sockfd", <<>>)>> \o ping_sig_alrm
        \o <<Loop(<<Maybe(ping_sig_alrm), recvfrom("sockfd", <<Either(<<<<Continue>>, Quit>>)>>),
                    Fn(<<Either(<<proc_v4, proc_v6>>)>>)>>)>>
p_main ==
    <<Usage, Signal("SIGALRM")>> \o Host_serv
        \o <<Maybe(Quit), Obtain("memory", "sarecv")>> \o readloop

\* traceroute/: for each probe the answers of others are skipped until the own one
\* comes, or SIGALRM. The race between the two is in the module AlarmLoop.
Skipping(own) ==
    <<Fn(<<Loop(<<Maybe(<<Return>>),
                  recvfrom("recvfd", <<Either(<<<<Continue>>, Quit>>)>>),
                  Either(<<<<Continue>>, own>>)>>)>>)>>
recv_v4 == Skipping(<<Break>>)
recv_v6 == Skipping(<<Break>>)
traceloop ==
    <<Socket("recvfd", "raw"), Maybe(<<opt("recvfd", <<>>)>>), Socket("sendfd", "dgram"), Bind("sendfd"),
      While(<<Opt("sendfd"),
              While(<<Sendto("sendfd"), Either(<<recv_v4, recv_v6>>), Need("salast")>>)>>)>>
tr_main ==
    <<Usage, Signal("SIGALRM")>> \o Host_serv
        \o <<Maybe(Quit), Obtain("memory", "sarecv"), Obtain("memory", "salast"),
             Obtain("memory", "sabind")>> \o traceloop \o Quit

\* udpcksum/: a query of three is sent after each timeout, by siglongjmp out of the
\* capture; every query allocates its packet, and the second Host_serv replaces the
\* first list.
open_output == <<Socket("rawfd", "raw"), Opt("rawfd")>>
open_pcap == <<Maybe(Quit), Obtain("file", "pd"), Maybe(Quit), Opt("pd")>>
next_pcap == <<Repeat(<<Read("pd", <<Continue>>)>>)>>
udp_check == <<Maybe(Quit)>>
udp_read == next_pcap \o <<Maybe(Quit)>> \o udp_check
udp_write == <<Sendto("rawfd")>>
send_dns_query == <<Obtain("memory", "packet")>> \o udp_write
test_udp ==
    <<Signal("SIGALRM"), Loop(send_dns_query \o <<Either(<<udp_read \o <<Break>>, <<Maybe(Quit)>>>>)>>)>>
cleanup == <<Maybe(<<opt("pd", Quit)>>), Exit>>
udpcksum ==
    <<Usage>> \o Host_serv
        \o <<Either(<<Host_serv,
                      <<Socket("s", "dgram"), Connect("s"), Opt("s"), Maybe(Quit), close("s")>> >>)>>
        \o open_output \o open_pcap
        \o <<Signal("SIGTERM"), Signal("SIGINT"), Signal("SIGHUP")>> \o test_udp \o cleanup

----------------------------------------------------------------------------
\* key/ and route/: sockets that are written and read like files. A request is
\* answered among the messages for everybody else.
Asked(s) == <<Write(s), Repeat(<<Read(s, <<>>)>>)>>
Dialog == <<Obtain("file", "s")>> \o Asked("s") \o <<close("s")>>
sadb_dump == Dialog
sadb_register == Dialog
sadb_add == Dialog
k_dump == <<Usage>> \o sadb_dump
k_register == <<Usage>> \o sadb_register
k_add ==
    <<Obtain("list", "src"), Obtain("list", "dst"), Maybe(Quit), obtain("memory", "keydata", <<>>), Maybe(Quit)>>
        \o sadb_add
getrt == <<Usage, Obtain("file", "sockfd"), Obtain("memory", "buf")>> \o Asked("sockfd") \o Quit

\* libroute/: a table of the kernel in memory of its own, which each function frees
\* on the ways out it thinks of.
net_rt_dump(alt) == <<Maybe(alt), obtain("memory", "dump", alt), Maybe(alt)>>
net_rt_iflist(alt) ==
    <<Maybe(alt), obtain("memory", "iflist", alt), Maybe(<<Release("iflist")>> \o alt)>>
if_indextoname(null) ==
    <<Function({"iflist"}, net_rt_iflist(null \o <<Return>>)
         \o <<While(<<Need("iflist"), Maybe(<<Release("iflist"), Return>>)>>),
              Release("iflist")>> \o null)>>
if_nametoindex(null) ==
    <<Function({"iflist"}, net_rt_iflist(null \o <<Return>>)
         \o <<While(<<Need("iflist"), Maybe(<<Release("iflist"), Return>>)>>),
              Release("iflist")>> \o null)>>
if_nameindex(null) ==
    <<Function({"iflist"}, net_rt_iflist(null \o <<Return>>)
         \o <<obtain("memory", "result", null \o <<Return>>), While(<<Need("iflist"), Need("result")>>),
              Release("iflist")>>)>>
if_freenameindex == <<Release("result")>>
prifname == <<Usage>> \o if_indextoname(Quit) \o Quit
prifindex == <<Usage>> \o if_nametoindex(Quit) \o Quit
prifnameindex ==
    <<Usage>> \o if_nameindex(Quit)
        \o <<While(<<Need("result")>> \o if_nametoindex(Quit) \o <<Maybe(Quit)>>
                   \o if_indextoname(Quit) \o <<Maybe(Quit)>>)>>
        \o if_nametoindex(<<>>) \o <<Maybe(Quit)>> \o if_nametoindex(<<>>) \o <<Maybe(Quit)>>
        \o if_indextoname(<<>>) \o <<Maybe(Quit)>> \o if_indextoname(<<>>) \o <<Maybe(Quit)>>
        \o if_freenameindex \o Quit
pr_rtable == <<Function({"dump"}, net_rt_dump(Quit) \o <<While(<<Need("dump")>>)>>)>>
pr_iflist ==
    <<Function({"iflist"}, net_rt_iflist(Quit) \o <<While(<<Need("iflist"), Maybe(Quit)>>)>>)>>
mynetstat == <<Usage, Maybe(Quit)>> \o pr_rtable \o pr_iflist \o Quit
rt_get_ifi_info ==
    <<Function({"iflist"},
        net_rt_iflist(Quit)
            \o <<While(<<Need("iflist"),
                         Either(<< <<If("ifihead", {None}, <<Obtain("list", "ifihead")>>, <<>>)>>,
                                   <<If("ifihead", {None}, <<>>, <<Need("ifihead")>>)>>, Quit>>)>>)>>),
      If("ifihead", {None}, Quit, <<>>)>>
rt_prifinfo == <<Usage, Maybe(Quit)>> \o rt_get_ifi_info \o <<While(<<Need("ifihead")>>)>> \o free_ifi_info \o Quit
checkudpsum == <<Maybe(Quit), Exit>>

\* ioctl/.
lsif01 == <<Socket("sockfd", "dgram"), Opt("sockfd"), Exit>>
lsif02 == <<Socket("sockfd", "dgram"), Opt("sockfd"), Exit>>
prifinfo == <<Usage, Maybe(Quit)>> \o Get_ifi_info \o <<While(<<Need("ifihead")>>)>> \o free_ifi_info \o Quit
prmac ==
    <<Socket("sockfd", "dgram")>> \o get_ifi_info(Quit)
        \o <<While(<<Need("ifihead"), opt("sockfd", <<Continue>>)>>), Exit>>
ioctl_test1 == <<Socket("sockfd", "dgram"), Opt("sockfd"), opt("sockfd", <<>>), Exit>>

----------------------------------------------------------------------------
\* streams/: TPI messages on a STREAMS device.
tpi_bind(fd) == <<Write(fd), Read(fd, Quit), Maybe(Quit)>>
tpi_connect(fd) == <<Write(fd), Read(fd, Quit), Maybe(Quit), Read(fd, Quit), Maybe(Quit)>>
tpi_read(fd, end) == <<Read(fd, end), Maybe(Quit)>>
tpi_close(fd) == <<Write(fd), Close(fd)>>
tpi_daytime ==
    <<Usage, Obtain("file", "fd")>> \o tpi_bind("fd") \o tpi_connect("fd")
        \o <<Loop(tpi_read("fd", <<Break>>))>> \o tpi_close("fd") \o Quit
Modules(fd) == <<Maybe(Quit), Opt(fd), Obtain("memory", "sl_modlist"), Opt(fd), Exit>>
strlist_sock == <<Usage, Either(<<<<Socket("fd", "stream")>>, <<Socket("fd", "dgram")>>>>)>> \o Modules("fd")
strlist_xti == <<Usage, Obtain("file", "fd")>> \o Modules("fd")

\* net_bind's -1 replaces the descriptor, which the callers do not look at.
Lost == <<Move("fd", "unbound")>>
net_bind == <<Fn(<<write("fd", Lost \o <<Return>>), read("fd", <<>>, Lost \o <<Return>>),
                   Maybe(Lost)>>)>>
net_send == <<write("fd", <<>>)>>
net_recv == <<read("fd", <<>>, <<>>)>>
dg_client ==
    <<Obtain("file", "fd")>> \o net_bind
        \o <<Loop(<<read("stdin", <<Break>>, <<>>)>> \o net_send \o net_recv), close("fd"), Exit>>
dg_server == <<obtain("file", "fd", <<>>)>> \o net_bind \o <<Loop(net_recv \o net_send)>>

\* debug/: a child listens with each backlog in turn while the parent connects until
\* a connect times out; then the parent closes what it has opened (qlen leaves out the
\* first and the last, and both keep everything when no connect timed out). Neither
\* looks for the end of the other's stream.
Handshake(fd) == <<Write(fd), Read(fd, <<>>)>>
do_child(listening) ==
    <<Close("pfd"), Read("cfd", <<>>),
      While(listening \o Handshake("cfd") \o <<Close("listenfd")>>), Exit>>
do_parent(attempt) ==
    <<Close("cfd"), Signal("SIGALRM"), While(Handshake("pfd") \o attempt), Write("pfd"), Exit>>
Experiment(listening, attempt) ==
    <<Usage>> \o Socketpair("pfd", "cfd") \o <<Fork(do_child(listening))>> \o do_parent(attempt)
backlog ==
    Experiment(<<Socket("listenfd", "stream"), Opt("listenfd"), Bind("listenfd"), Listen("listenfd")>>,
               <<Fn(<<Socket("fd1", "stream"), connect("fd1", <<Maybe(Quit), Close("fd1"), Return>>),
                      Socket("fd2", "stream"),
                      connect("fd2", <<Maybe(Quit), Close("fd1"), Close("fd2"), Return>>)>>)>>)
qlen ==
    Experiment(<<Obtain("file", "listenfd"), Maybe(Quit)>>,
               <<Fn(<<Obtain("file", "fd0"), Maybe(<<Maybe(Quit), Return>>),
                      Obtain("file", "fd1"), Maybe(<<Maybe(Quit), Return>>),
                      Obtain("file", "fd2"), Maybe(<<Maybe(Quit), Close("fd1"), Return>>)>>)>>)
db_test01 == <<Usage>> \o tcp_connect("tfd") \o <<write("tfd", <<>>), Exit>>
db_test02 == <<Usage>> \o tcp_connect("fd") \o <<[Watch({"fd"}) EXCEPT !.alt = <<>>], Exit>>
db_test04 ==
    <<Usage, Socket("sockfd", "stream"), Signal("SIGALRM"), Maybe(Quit),
      Maybe(<<On("pending", "sockfd", Quit)>>), Connect("sockfd"), Watch({"sockfd"})>>
        \o str_cli("sockfd") \o Quit

Table == [
    sock_tcp_client |-> sock_tcp_client, sock_tcp_server |-> sock_tcp_server,
    sock_udp_client |-> sock_udp_client, sock_udp_server |-> sock_udp_server,
    ping |-> p_main, traceroute |-> tr_main, udpcksum |-> udpcksum, k_dump |-> k_dump,
    k_register |-> k_register, k_add |-> k_add, getrt |-> getrt, prifname |-> prifname,
    prifindex |-> prifindex, prifnameindex |-> prifnameindex, mynetstat |-> mynetstat,
    rt_prifinfo |-> rt_prifinfo, checkudpsum |-> checkudpsum, lsif01 |-> lsif01, lsif02 |-> lsif02,
    prifinfo |-> prifinfo, prmac |-> prmac, ioctl_test1 |-> ioctl_test1, tpi_daytime |-> tpi_daytime,
    strlist_sock |-> strlist_sock, strlist_xti |-> strlist_xti, dg_client |-> dg_client,
    dg_server |-> dg_server, backlog |-> backlog, qlen |-> qlen, db_test01 |-> db_test01,
    db_test02 |-> db_test02, db_test04 |-> db_test04]
============================================================================
