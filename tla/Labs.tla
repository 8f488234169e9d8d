-------------------------------- MODULE Labs -------------------------------
(***************************************************************************)
(* The small course programs beside the server and the game: lab6 (in src/ *)
(* and in unpv13e), lab3, lab4, and the first attempts at lab3, tcp_client *)
(* and tcp_server. Most of them ignore what their calls return.            *)
(***************************************************************************)
EXTENDS Library

\* lab6: the IPv4 addresses of a host, then its IPv6 ones, each list freed after it
\* was printed; a lookup that fails ends the program.
Lookup == <<Obtain("list", "results"), While(<<Need("results")>>), Release("results")>>
lab6 == <<Usage>> \o Lookup \o Lookup \o Quit

\* lab3: a datagram server that answers lines of its user with a turn of the client
\* between them, and the client, a process per port.
dg_server ==
    <<recvfrom("sockfd", <<>>),
      Loop(<<Read("stdin", <<Break>>), sendto("sockfd", <<>>), recvfrom("sockfd", <<>>)>>),
      sendto("sockfd", <<>>)>>
lab3_server ==
    <<socket("sockfd", "dgram", <<>>), Bind("sockfd")>> \o dg_server \o <<close("sockfd"), Exit>>

str_client ==
    <<Loop(<<write("sockfd", <<>>), Watch({"sockfd"}),
             Maybe(<<read("sockfd", <<>>, <<>>), Maybe(<<Break>>)>>)>>)>>
\* The handler for SIGCHLD counts the children that ended and does not wait for them.
lab3_client ==
    <<Signal("count"),
      Loop(<<read("stdin", <<>>, <<>>),
             Maybe(<<Forking(<<socket("sockfd", "stream", <<>>), connect("sockfd", <<>>)>>
                                 \o str_client \o <<close("sockfd"), Exit>>, <<>>)>>)>>)>>

\* lab4: a thread per sum, each with a structure of its own, which main frees after
\* it has joined the thread.
lab4 ==
    <<While(<<obtain("entry", "adders", Quit), Thread({}, <<Need("adders")>>), Maybe(Quit)>>),
      If("adders", {"entry"}, <<Need("adders"), Release("adders")>>, <<>>), Exit>>

\* The condition of tcp_client assigns the result of the comparison to sock.
tcp_client == <<Socket("sock", "stream"), Loop(<<read("stdin", <<>>, <<>>)>>)>>

tcp_server ==
    <<Socket("sock", "stream"), Bind("sock"), Listen("sock"),
      Loop(<<accept("sock", "client_connection", <<>>),
             Loop(<<obtain("memory", "str", <<>>)>>
                  \o <<Read("client_connection", <<Break>>), Watch({"stdin"}),
                       Either(<< <<read("stdin", <<>>, <<>>), write("client_connection", <<>>)>>,
                                 <<write("client_connection", <<>>), close("sock"),
                                   close("client_connection"), Exit>>,
                                 <<>> >>)>>)>>)>>

Table == [
    lab6 |-> lab6, lab3_server |-> lab3_server, lab3_client |-> lab3_client,
    lab4 |-> lab4, tcp_client |-> tcp_client, tcp_server |-> tcp_server]
============================================================================
