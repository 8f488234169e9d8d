------------------------------ MODULE Library ------------------------------
(***************************************************************************)
(* The functions of unpv13e/lib that work on descriptors, as the steps     *)
(* they insert into the program that calls them. fd is the caller's        *)
(* variable for the descriptor.                                            *)
(***************************************************************************)
EXTENDS Calls

\* A wrong number of arguments ends every program before its first call.
Usage == Maybe(Quit)

\* do ... while ((res = res->ai_next) != NULL): the next address of the list, or
\* err_sys after the last one.
NextAddress == <<Either(<<<<Continue>>, Quit>>)>>
OverAddresses(body) ==
    <<Obtain("list", "res"), Loop(body \o <<Break>>), Release("res")>>

tcp_connect(fd) ==
    OverAddresses(<<socket(fd, "stream", NextAddress),
                    connect(fd, <<Close(fd)>> \o NextAddress)>>)


tcp_listen(fd) ==
    <<Obtain("list", "res"),
      Loop(<<socket(fd, "stream", NextAddress), Opt(fd),
             bind(fd, <<Close(fd)>> \o NextAddress), Break>>),
      Listen(fd), Release("res")>>

udp_client(fd) ==
    <<Obtain("list", "res"), Loop(<<socket(fd, "dgram", NextAddress), Break>>),
      Obtain("memory", "saptr"), Release("res")>>

udp_connect(fd) ==
    OverAddresses(<<socket(fd, "dgram", NextAddress),
                    connect(fd, <<Close(fd)>> \o NextAddress)>>)

udp_server(fd) ==
    OverAddresses(<<socket(fd, "dgram", NextAddress),
                    bind(fd, <<Close(fd)>> \o NextAddress)>>)

Host_serv == <<Obtain("list", "ai")>>

\* Options of multicast sockets. The interface may be unknown, or the address of
\* a wrong size or family, before the option is set.
SetGroup(fd, alt) == <<Either(<<alt, <<opt(fd, alt)>>>>)>>
mcast_join(fd, alt) == SetGroup(fd, alt)
mcast_join_source_group(fd, alt) == SetGroup(fd, alt)
mcast_block_source(fd, alt) == SetGroup(fd, alt)
mcast_unblock_source(fd, alt) == SetGroup(fd, alt)
mcast_leave(fd, alt) == SetGroup(fd, alt)
mcast_leave_source_group(fd, alt) == SetGroup(fd, alt)

\* These ask the socket for its family first.
sockfd_to_family(fd, alt) == <<opt(fd, alt)>>
OfFamily(fd, alt) == sockfd_to_family(fd, alt) \o SetGroup(fd, alt)
mcast_set_loop(fd, alt) == OfFamily(fd, alt)
mcast_set_ttl(fd, alt) == OfFamily(fd, alt)
mcast_set_if(fd, alt) == OfFamily(fd, alt)
mcast_get_loop(fd, alt) == OfFamily(fd, alt)
mcast_get_ttl(fd, alt) == OfFamily(fd, alt)
mcast_get_if(fd, alt) == OfFamily(fd, alt)

\* The interfaces: the buffer grows until SIOCGIFCONF returns the same length
\* twice. The socket of the ioctls is not closed: it is lost when the function returns.
get_ifi_info(alt) ==
    <<Function({"ififd", "buf"},
        <<Socket("ififd", "dgram"),
          Loop(<<Obtain("memory", "buf"),
                 opt("ififd", <<Maybe(Quit)>>), Maybe(<<Break>>), Release("buf")>>),
          While(<<Maybe(<<Continue>>), Opt("ififd"), Maybe(<<Continue>>),
                  If("ifihead", {None}, <<Obtain("list", "ifihead")>>, <<Maybe(Quit)>>),
                  While(<<Opt("ififd")>>)>>),
          Release("buf")>>),
      If("ifihead", {None}, alt, <<>>)>>
Get_ifi_info == get_ifi_info(Quit)
free_ifi_info == <<If("ifihead", {None}, <<>>, <<Release("ifihead")>>)>>

sock_bind_wild(fd, alt) == <<Either(<<alt, <<bind(fd, alt), opt(fd, alt)>>>>)>>
Sock_bind_wild(fd) == sock_bind_wild(fd, Quit)

\* A descriptor in the control data of a message: foreign control data ends the
\* process, and none at all is the caller's to notice.
read_fd(fd, kind, new, end, none, alt) ==
    <<read(fd, end, alt), Either(<<<<obtain(kind, new, Quit)>>, Quit, none>>)>>
Read_fd(fd, kind, new, end, none) == read_fd(fd, kind, new, end, none, Quit)
Write_fd(fd) == Write(fd)

\* Two forks, of which the parents leave; then every descriptor is closed and
\* /dev/null takes the first three.
daemon_init ==
    <<Maybe(Quit), Fn(<<Maybe(<<Return>>), Signal("SIGHUP"), Maybe(Quit), Release("stdin"),
                        obtain("file", "stdin", <<>>), obtain("file", "stdout", <<>>),
                        obtain("file", "stderr", <<>>)>>)>>

\* What to do when it returns -1 is the caller's alt. Only two of the four ways to fail
\* have closed the socket, which a caller cannot tell apart; the one there is exits.
connect_nonb(fd, alt) ==
    <<Fn(<<Opt(fd), Opt(fd),
           Either(<< <<connect(fd, alt \o <<Return>>)>>,
                     <<On("pending", fd, alt \o <<Return>>), Watch({fd}),
                       Maybe(<<close(fd)>> \o alt \o <<Return>>),
                       opt(fd, alt \o <<Return>>),
                       connect(fd, <<Opt(fd), close(fd)>> \o alt \o <<Return>>)>> >>),
           Opt(fd)>>)>>

\* connect under an alarm: SIGALRM makes it fail with EINTR.
connect_timeo(fd, alt) == <<Signal("SIGALRM"), connect(fd, <<close(fd)>> \o alt)>>

readable_timeo(fd, alt) == [op |-> "watch", fds |-> {fd}, alt |-> alt]
Readable_timeo(fd) == readable_timeo(fd, Quit)

\* read until the end of the stream; EINTR starts over, another error ends.
str_echo(fd) ==
    <<Loop(<<read(fd, <<Break>>, <<Either(<<<<Continue>>, Quit>>)>>), Write(fd)>>)>>

str_cli(fd) == <<While(<<Write(fd), Read(fd, Quit)>>)>>
dg_echo(fd) == <<Loop(<<Recvfrom(fd), Sendto(fd)>>)>>
dg_cli(fd) == <<While(<<Sendto(fd), Recvfrom(fd)>>)>>

\* A read of the server's answer by a client that may have sent all its input: the
\* end of the stream is expected only then.
FromServer == <<Read("sockfd", <<If("sockfd", {"halfeof"}, <<Break>>, Quit)>>)>>

\* while ((n = read(...)) > 0) body, then err_sys if n < 0, or with Read, which
\* does not return on an error.
ReadAll(fd, body) == Loop(<<Read(fd, <<Break>>)>> \o body)
============================================================================
