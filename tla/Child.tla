------------------------------- MODULE Child -------------------------------
(***************************************************************************)
(* What read_data and write_data share: the state of a forked child (the   *)
(* locals of the handler it runs, its bound socket and its stdio stream),  *)
(* the files of the working directory and the datagrams in flight.         *)
(* ReadData and WriteData add the handlers.                                *)
(***************************************************************************)
EXTENDS Tftp

CONSTANTS
    Child,      \* the forked children
    Port,       \* the ports children are bound to (their TIDs)
    Peer,       \* the addresses of the other ends
    Name,       \* file names
    InitFiles,  \* the possible contents of the directory at the request
    Stray,      \* the packets the other ends may send unasked
    Timely      \* TRUE: the network delivers or loses a datagram within the
                \* 1 s receive timeout and never duplicates one; FALSE: any
                \* datagram may also be late, duplicated and reordered

ASSUME ChildAssumption ==
    /\ Timely \in BOOLEAN
    /\ Port \cap Peer = {}
    /\ Stray \subseteq Packet
    /\ \A f \in InitFiles : /\ DOMAIN f \subseteq Name
                            /\ \A n \in DOMAIN f : f[n] \in Seq(Byte)

VARIABLES
    net,        \* datagrams in flight; for ~Timely, every datagram ever sent
    files,      \* contents of the files that exist
    pc,         \* where a child is
    port,       \* the port child_sock is bound to
    peer,       \* *child_client / *sock_info, overwritten by every recvfrom
    name,       \* the file named in the request
    block,      \* block
    timeouts,   \* no_data / timeout
    last,       \* the packet kept for retransmission: new_buffer / last_packet
    pos,        \* offset of the stream in the file
    buf,        \* bytes held in the stream's buffer
    quiet       \* history: timeouts that expired since a datagram arrived

childVars == <<net, files, pc, port, peer, name, block, timeouts, last, pos,
               buf, quiet>>

Stopped == {"exited", "timedout", "crashed"}

Dgram(src, dst, pkt) == [src |-> src, dst |-> dst, pkt |-> pkt]

Datagram == [src : Port \cup Peer, dst : Port \cup Peer, pkt : Packet]

\* recvfrom returns d: any datagram for the socket's port, from anyone.
Arrives(c, d) == d \in net /\ d.dst = port[c]

\* SO_RCVTIMEO expires. On a timely network it does so only when nothing that
\* the child sent, or is being sent, is still under way.
Silence(c) == Timely => \A d \in net : port[c] \notin {d.src, d.dst}

\* The datagrams of in are taken from the network and those of out are sent. A
\* network that is not timely keeps what it delivered: it may come again.
Exchange(in, out) == net' = (IF Timely THEN net \ in ELSE net) \cup out

\* Anyone sends any of the packets in Stray to a child.
SendStray == \E c \in Child, p \in Peer, k \in Stray :
                 Exchange({}, {Dgram(p, port[c], k)})

\* A forked child whose socket is bound, about to run a handler. The children
\* have different ports: bind refuses one that is in use.
ChildInit(at) ==
    /\ net = {}
    /\ files \in InitFiles
    /\ pc = [c \in Child |-> at]
    /\ port \in [Child -> Port]
    /\ \A c, d \in Child : port[c] = port[d] => c = d
    /\ peer \in [Child -> Peer]
    /\ name \in [Child -> Name]
    /\ block = [c \in Child |-> 0]
    /\ timeouts = [c \in Child |-> 0]
    /\ last = [c \in Child |-> Ack(0)]
    /\ pos = [c \in Child |-> 0]
    /\ buf = [c \in Child |-> <<>>]
    /\ quiet = [c \in Child |-> 0]

ChildTypeOK ==
    /\ net \subseteq Datagram
    /\ DOMAIN files \subseteq Name
    /\ \A n \in DOMAIN files : files[n] \in Seq(Byte)
    /\ port \in [Child -> Port]
    /\ peer \in [Child -> Peer]
    /\ name \in [Child -> Name]
    /\ block \in [Child -> Nat]
    /\ timeouts \in [Child -> 0..MaxTimeouts]
    /\ last \in [Child -> Packet]
    /\ pos \in [Child -> Nat]
    /\ buf \in [Child -> Seq(Byte)]
    /\ quiet \in [Child -> 0..MaxTimeouts]

\* The children own different ports, and nothing is sent from one to another.
Sockets ==
    /\ \A c, e \in Child : port[c] = port[e] => c = e
    /\ \A d \in net : d.dst \in Port => d.src \in Peer

\* A child disconnects only when nothing arrived for MaxTimeouts timeouts in a
\* row, the "10 second timeout" of the README and of the comment on no_data.
DisconnectAfterSilence ==
    \A c \in Child : pc[c] = "timedout" => quiet[c] = MaxTimeouts
============================================================================
