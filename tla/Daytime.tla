------------------------------ MODULE Daytime ------------------------------
(***************************************************************************)
(* The programs of unpv13e/intro and unpv13e/names: daytime clients and    *)
(* servers by address, by name and by service, and the lookups.            *)
(***************************************************************************)
EXTENDS Library

\* Clients with a numeric address.
ByAddress(more) ==
    <<Usage, Socket("sockfd", "stream"), Usage, Connect("sockfd")>> \o more
        \o <<ReadAll("sockfd", <<Maybe(Quit)>>), Exit>>
daytimetcpcli == ByAddress(<<>>)
daytimetcpcli1 == ByAddress(<<>>)
daytimetcpcli2 == ByAddress(<<>>)
daytimetcpcli3 == ByAddress(<<Opt("sockfd")>>)
daytimetcpcliv6 == ByAddress(<<>>)

\* Servers on a fixed port.
Serve(answer) ==
    <<Loop(<<Accept("listenfd", "connfd")>> \o answer \o <<Close("connfd")>>)>>
OnPort(answer) ==
    <<Socket("listenfd", "stream"), Bind("listenfd"), Listen("listenfd")>> \o Serve(answer)
daytimetcpsrv == OnPort(<<Write("connfd")>>)
daytimetcpsrv1 == OnPort(<<Write("connfd")>>)
daytimetcpsrv2 == OnPort(<<While(<<Write("connfd")>>)>>)
daytimetcpsrv3 == OnPort(<<Write("connfd")>>)
daytimetcpsrvv6 == OnPort(<<Write("connfd")>>)

\* Clients with a host name: each address of the host is tried on a new socket.
n_daytimetcpcli ==
    <<Usage>> \o tcp_connect("sockfd") \o <<Opt("sockfd"), ReadAll("sockfd", <<>>), Exit>>
EachAddress(lookup) ==
    <<Usage>> \o lookup
        \o <<While(<<Socket("sockfd", "stream"), connect("sockfd", <<close("sockfd"), Continue>>),
                     ReadAll("sockfd", <<>>), Exit>>),
             Exit>>

n_daytimetcpcli1 == EachAddress(<<obtain("entry", "hp", <<Maybe(Quit)>>), Obtain("entry", "sp")>>)
n_daytimetcpcli2 == EachAddress(<<Maybe(<<Obtain("entry", "hp")>>), Maybe(<<Obtain("entry", "sp")>>)>>)
n_daytimetcpcli3 ==
    <<Usage, Obtain("entry", "hp"), Obtain("entry", "sp"),
      While(<<Socket("sockfd", "stream"), Maybe(Quit),
              connect("sockfd", <<close("sockfd"), Continue>>), ReadAll("sockfd", <<>>), Exit>>),
      Exit>>

\* Servers through tcp_listen and udp_server.
n_daytimetcpsrv1 == <<Usage>> \o tcp_listen("listenfd") \o Serve(<<Write("connfd")>>)
n_daytimetcpsrv2 == <<Usage>> \o tcp_listen("listenfd") \o Serve(<<Write("connfd")>>)
n_daytimetcpsrv3 ==
    <<Usage>> \o tcp_listen("listenfd") \o <<Obtain("memory", "cliaddr")>>
        \o Serve(<<Opt("connfd"), Write("connfd")>>)
n_daytimetcpsrv4 ==
    <<Usage>> \o tcp_listen("listenfd") \o <<Obtain("memory", "cliaddr")>>
        \o Serve(<<Write("connfd")>>)
daytimeudpcli1 ==
    <<Usage>> \o udp_client("sockfd") \o <<Sendto("sockfd"), Recvfrom("sockfd"), Exit>>
daytimeudpcli2 ==
    <<Usage>> \o udp_connect("sockfd") \o <<Write("sockfd"), Read("sockfd", <<>>), Exit>>
daytimeudpsrv2 == <<Usage>> \o udp_server("sockfd") \o dg_echo("sockfd")
udp_server_reuseaddr(fd) ==
    OverAddresses(<<socket(fd, "dgram", NextAddress), Opt(fd),
                    bind(fd, <<Close(fd)>> \o NextAddress)>>)
daytimeudpsrv3 == <<Usage>> \o udp_server_reuseaddr("sockfd") \o dg_echo("sockfd")
test2 ==
    <<Usage>> \o udp_client("sockfd")
        \o <<Obtain("memory", "sabind"), Bind("sockfd"), Sendto("sockfd"), Recvfrom("sockfd"), Exit>>

\* Lookups: for every argument the entry and, in the second and third, the entry
\* of each of its addresses. The second stores that one over the first.
Lookup(addresses) ==
    <<While(<<obtain("entry", "hptr", <<Continue>>), Need("hptr"), Need("hptr")>> \o addresses), Exit>>
hostent == Lookup(<<Maybe(<<While(<<Need("hptr")>>)>>)>>)
hostent2 ==
    Lookup(<<Maybe(<<While(<<Need("hptr"),
                             obtain("entry", "hptr", <<Continue>>), Need("hptr")>>)>>)>>)
hostent3 == Lookup(<<Maybe(<<While(<<obtain("entry", "hptr2", <<Continue>>), Need("hptr2")>>)>>)>>)
netent == Lookup(<<>>)
test1 ==
    Lookup(<<Need("hptr"), While(<<obtain("entry", "hptr", <<>>), Maybe(<<Need("hptr")>>),
                                   Need("hptr")>>)>>)
myaddrs1(alt) == <<Either(<<<<obtain("entry", "hptr", alt)>>, alt>>)>>
prmyaddrs1 == myaddrs1(Quit) \o <<While(<<Need("hptr")>>), Exit>>

Table == [
    daytimetcpcli |-> daytimetcpcli, daytimetcpcli1 |-> daytimetcpcli1,
    daytimetcpcli2 |-> daytimetcpcli2, daytimetcpcli3 |-> daytimetcpcli3,
    daytimetcpcliv6 |-> daytimetcpcliv6, daytimetcpsrv |-> daytimetcpsrv,
    daytimetcpsrv1 |-> daytimetcpsrv1, daytimetcpsrv2 |-> daytimetcpsrv2,
    daytimetcpsrv3 |-> daytimetcpsrv3, daytimetcpsrvv6 |-> daytimetcpsrvv6,
    n_daytimetcpcli |-> n_daytimetcpcli, n_daytimetcpcli1 |-> n_daytimetcpcli1,
    n_daytimetcpcli2 |-> n_daytimetcpcli2, n_daytimetcpcli3 |-> n_daytimetcpcli3,
    n_daytimetcpsrv1 |-> n_daytimetcpsrv1, n_daytimetcpsrv2 |-> n_daytimetcpsrv2,
    n_daytimetcpsrv3 |-> n_daytimetcpsrv3, n_daytimetcpsrv4 |-> n_daytimetcpsrv4,
    daytimeudpcli1 |-> daytimeudpcli1, daytimeudpcli2 |-> daytimeudpcli2,
    daytimeudpsrv2 |-> daytimeudpsrv2, daytimeudpsrv3 |-> daytimeudpsrv3, test2 |-> test2,
    hostent |-> hostent, hostent2 |-> hostent2, hostent3 |-> hostent3, netent |-> netent,
    test1 |-> test1, prmyaddrs1 |-> prmyaddrs1]
============================================================================
