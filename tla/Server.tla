------------------------------ MODULE Server ------------------------------
(***************************************************************************)
(* main of server.c: the parent receives requests on one socket, forks a   *)
(* child for each and counts tid_selection down; a child binds a socket of *)
(* its own and runs read_data or write_data. The children of all requests  *)
(* work on one directory.                                                  *)
(***************************************************************************)
EXTENDS Child, FiniteSets

CONSTANTS
    ReadAhead, Nul, Unwritable, Blend, NegativeLen, MaxBlocks,
    PortMod,     \* number of ports: 2^16
    Ranges,      \* the pairs <<argv[1], argv[2]>> the server may be started with
    Ops,         \* opcodes of the requests clients send
    MaxRequests, \* bound: different requests under way
    MinTid       \* bound: tid_selection is counted down to it

ASSUME ServerAssumption ==
    /\ PortMod \in Nat \ {0}
    /\ Ranges \subseteq Nat \X Nat
    /\ Port = 0..(PortMod - 1)
    /\ MaxRequests \in Nat /\ MinTid \in Int
    /\ ReadAhead \in Nat /\ ReadAhead >= Segment
    /\ Nul \in Byte /\ Unwritable \subseteq Name
    /\ NegativeLen \in BOOLEAN /\ MaxBlocks \in Nat

ASSUME BlendAssumption ==
    /\ Blend \in [Peer \X Peer -> SUBSET Peer]
    /\ \A a, b \in Peer : b \in Blend[a, b] /\ Blend[a, a] = {a}

VARIABLES
    done,        \* read_data's done
    listen,      \* the port sock is bound to
    tid,         \* tid_selection
    parent,      \* "boot", "listening" or "gone"
    buffer,      \* the request in the parent's buffer
    op,          \* the opcode a child inherited
    inbox,       \* the requests under way to the server: each may arrive at any
                 \* time, more than once, or never
    snap,        \* history: the file as it was when read_data opened it
    got,         \* history: what write_data took from the packets
    owner,       \* history: the child that last opened a file for writing
    spoiled      \* history: children whose file was not theirs alone

R == INSTANCE ReadData
W == INSTANCE WriteData

mainVars == <<listen, tid, parent, buffer, op, inbox>>
history == <<snap, got, owner, spoiled>>
vars == <<childVars, done, mainVars, history>>

Empty == [op |-> 0, name |-> ""]      \* calloc'ed buffer, no request received
Datagrams == [src : Peer, req : [op : Ops, name : Name] \cup {Empty}]

\* Arguments, socket and bind of the parent; each failure ends the program.
Boot ==
    /\ parent = "boot"
    /\ \E ok \in BOOLEAN : parent' = IF ok THEN "listening" ELSE "gone"
    /\ UNCHANGED <<childVars, done, listen, tid, buffer, op, inbox, history>>

Unborn == {c \in Child : pc[c] = "unborn"}

\* Defect: the parent keeps using one port.
KeepsPort(d) ==
    LET now == IF d.req = Empty THEN buffer ELSE d.req
    IN  /\ parent = "listening" /\ tid > MinTid
        /\ buffer' = now
        /\ \E c \in Unborn : /\ pc' = [pc EXCEPT ![c] = "forked"]
                             /\ op' = [op EXCEPT ![c] = now.op]
                             /\ name' = [name EXCEPT ![c] = now.name]
                             /\ peer' = [peer EXCEPT ![c] = d.src]
                             /\ port' = [port EXCEPT ![c] = tid % PortMod]
        /\ UNCHANGED <<net, files, block, timeouts, last, pos, buf, quiet, done,
                       listen, tid, parent, inbox, history>>

\* One turn of the parent's loop. An empty datagram leaves the request of an
\* earlier one in the buffer. The child inherits buffer, client and
\* tid_selection; the port it will ask for is htons of the last. fork may fail,
\* and will in the end, children not being waited for: the request is dropped,
\* and its port with it.
Receive(d) ==
    LET now == IF d.req = Empty THEN buffer ELSE d.req
    IN  /\ parent = "listening" /\ tid > MinTid
        /\ buffer' = now
        /\ \/ \E c \in Unborn : /\ pc' = [pc EXCEPT ![c] = "forked"]
                                /\ op' = [op EXCEPT ![c] = now.op]
                                /\ name' = [name EXCEPT ![c] = now.name]
                                /\ peer' = [peer EXCEPT ![c] = d.src]
                                /\ port' = [port EXCEPT ![c] = tid % PortMod]
           \/ UNCHANGED <<pc, op, name, peer, port>>
        /\ tid' = tid - 1
        /\ UNCHANGED <<net, files, block, timeouts, last, pos, buf, quiet, done,
                       listen, parent, inbox, history>>

\* The ports that are taken: the parent's and those of the children that run.
Bound == {c \in Child : pc[c] \in {"rrq", "readwait", "wrq", "writewait", "closing"}}
Taken == {listen} \cup {port[c] : c \in Bound}

\* The child's socket, if it gets one: bind fails on a port that is taken, and a
\* port of 0 is replaced by any free one. The opcode then picks the handler; with
\* any other opcode the child closes its socket and exits.
BindChild(c) ==
    /\ pc[c] = "forked"
    /\ \/ pc' = [pc EXCEPT ![c] = "exited"] /\ UNCHANGED port
       \/ /\ port[c] \in Taken \ {0}
          /\ pc' = [pc EXCEPT ![c] = "unbound"]
          /\ UNCHANGED port
       \/ \E p \in (IF port[c] = 0 THEN Port \ {0} ELSE {port[c]}) \ Taken :
              /\ port' = [port EXCEPT ![c] = p]
              /\ pc' = [pc EXCEPT ![c] = CASE op[c] = 1 -> "rrq"
                                           [] op[c] = 2 -> "wrq"
                                           [] OTHER -> "exited"]
    /\ UNCHANGED <<net, files, peer, name, block, timeouts, last, pos, buf, quiet,
                   done, mainVars, history>>

Readers(n) == {c \in Child : name[c] = n /\ pc[c] = "readwait"}
Writers(n) == {c \in Child : name[c] = n /\ pc[c] \in {"writewait", "closing"}}

\* A child runs read_data.
Read(c) ==
    /\ R!ReadStep(c)
    /\ LET opens == pc[c] = "rrq" /\ pc'[c] = "readwait"
       IN  /\ snap' = IF opens THEN [snap EXCEPT ![c] = files[name[c]]] ELSE snap
           /\ spoiled' = IF opens /\ Writers(name[c]) # {} THEN spoiled \cup {c}
                         ELSE spoiled
    /\ UNCHANGED <<mainVars, got, owner>>

\* fopen(file, "w") of a child spoils the file for those who use it.
OpenForWriting(c) ==
    LET n == name[c]
    IN  /\ W!Start(c)
        /\ IF n \in Unwritable THEN UNCHANGED <<owner, spoiled>>
           ELSE /\ owner' = [owner EXCEPT ![n] = {c}]
                /\ spoiled' = spoiled \cup Readers(n) \cup Writers(n)
                                      \cup {e \in {c} : Writers(n) # {}}
        /\ UNCHANGED <<snap, got>>

\* A child runs write_data.
Write(c) ==
    /\ \/ OpenForWriting(c)
       \/ \E d \in net : /\ W!Stored(c, d)
                         /\ got' = [got EXCEPT ![c] = @ \o W!CString(d.pkt.data)]
                         /\ UNCHANGED <<snap, owner, spoiled>>
       \/ /\ \/ \E d \in net : W!Crashed(c, d) \/ W!Mistaken(c, d)
             \/ W!WriteTimeout(c)
             \/ W!Close(c)
          /\ UNCHANGED history
    /\ UNCHANGED <<done, mainVars>>

\* Anyone sends a packet to the socket of a child.
Stranger(c, p, k) ==
    /\ c \in Bound
    /\ Exchange({}, {Dgram(p, port[c], k)})
    /\ UNCHANGED <<files, pc, port, peer, name, block, timeouts, last, pos, buf,
                   quiet, done, mainVars, history>>

Step(c) == BindChild(c) \/ Read(c) \/ Write(c)

Init ==
    /\ net = {} /\ files \in InitFiles
    /\ \E r \in Ranges : listen = r[1] /\ tid = r[2]
    /\ pc = [c \in Child |-> "unborn"]
    /\ port = [c \in Child |-> listen]      \* the socket a child inherits
    /\ peer \in {[c \in Child |-> p] : p \in {CHOOSE p \in Peer : TRUE}}
    /\ name = [c \in Child |-> ""] /\ op = [c \in Child |-> 0]
    /\ block = [c \in Child |-> 0] /\ timeouts = [c \in Child |-> 0]
    /\ last = [c \in Child |-> Ack(0)] /\ done = [c \in Child |-> FALSE]
    /\ pos = [c \in Child |-> 0] /\ buf = [c \in Child |-> <<>>]
    /\ quiet = [c \in Child |-> 0]
    /\ parent = "boot" /\ buffer = Empty
    /\ inbox \in {s \in SUBSET Datagrams : Cardinality(s) <= MaxRequests}
    /\ snap = [c \in Child |-> <<>>] /\ got = [c \in Child |-> <<>>]
    /\ owner = [n \in Name |-> {}] /\ spoiled = {}

Next ==
    \/ Boot
    \/ \E d \in inbox : Receive(d)
    \/ \E c \in Child : Step(c)
    \/ \E c \in Child, p \in Peer, k \in Stray : Stranger(c, p, k)

\* Every child is scheduled, and its receives end within a second.
Spec == Init /\ [][Next]_vars /\ \A c \in Child : WF_vars(Step(c))

----------------------------------------------------------------------------
\* A child that was alone with its file from fopen on, as read_data takes for
\* granted, sends the file as it was then: the segment it would resend is the
\* block-1st of that snapshot, and it exits only after a short one. Nothing the
\* other children do, to other files or later, shows.
UndisturbedDownload ==
    \A c \in Child \ spoiled :
        op[c] = 1 /\ block[c] > 0 =>
            /\ last[c] = Data(block[c] - 1, R!Seg(snap[c], block[c] - 1))
            /\ pc[c] = "exited" => Len(last[c].data) < Segment

\* Once the last child that opened a file for writing has ended, having found no
\* other upload of it under way, the file holds what that child took from its
\* packets: neither the children before it nor downloads leave a trace.
UndisturbedUpload ==
    \A n \in Name : \A c \in Child \ spoiled :
        owner[n] = {c} /\ pc[c] \in Stopped => files[n] = got[c]

\* Until tid_selection has come down to the parent's port no child fails to bind
\* and no two children share a port: "use the next highest port".
DistinctPorts ==
    tid >= listen =>
        \A c \in Child : /\ pc[c] # "unbound"
                         /\ \A e \in Child \ {c} :
                                pc[c] # "unborn" /\ pc[e] # "unborn" =>
                                    port[c] # port[e]

\* Every child the parent forks ends, whatever the other children do to its file, if
\* full DATA packets stop coming: no more than MaxBlocks datagrams reach an upload.
\* (Each one sets timeout back to 0, so that an upload has no end of its own.)
ChildrenEnd ==
    \A c \in Child : (pc[c] = "forked") ~> (pc[c] \in Stopped \cup {"unbound"})

----------------------------------------------------------------------------
\* The types of the variables that the properties above speak of.
ServerTypes ==
    /\ pc \in [Child -> {"unborn", "forked", "unbound", "rrq", "readwait", "wrq", "writewait",
                         "closing"} \cup Stopped]
    /\ port \in [Child -> Int] /\ tid \in Int /\ listen \in Nat
    /\ op \in [Child -> Ops \cup {0}] /\ name \in [Child -> Name \cup {""}]
    /\ buffer.op \in Ops \cup {0} /\ buffer.name \in Name \cup {""} /\ inbox \subseteq Datagrams
    /\ \A d \in net : d.pkt \in Packet
    /\ \A n \in DOMAIN files : files[n] \in Seq(Byte)
    /\ block \in [Child -> Nat] /\ last \in [Child -> Packet]
    /\ pos \in [Child -> Nat] /\ buf \in [Child -> Seq(Byte)] /\ done \in [Child -> BOOLEAN]
    /\ snap \in [Child -> Seq(Byte)] /\ got \in [Child -> Seq(Byte)]
    /\ owner \in [Name -> SUBSET Child] /\ spoiled \subseteq Child

\* A child runs the handler its opcode calls for, on a file that is there (none is ever
\* removed) unless fopen failed, and starts from scratch.
Handlers ==
    \A c \in Child :
        /\ pc[c] \in {"unborn", "forked", "unbound", "rrq", "wrq"} =>
               block[c] = 0 /\ pos[c] = 0 /\ buf[c] = <<>> /\ got[c] = <<>>
        /\ pc[c] \in {"rrq", "readwait"} => op[c] = 1
        /\ pc[c] \in {"wrq", "writewait", "closing"} => op[c] = 2
        /\ pc[c] = "readwait" => block[c] > 0 /\ name[c] \in DOMAIN files
        /\ pc[c] \in {"writewait", "closing"} /\ name[c] \notin Unwritable =>
               name[c] \in DOMAIN files

\* A reader that was left alone stands at a segment of the file as it found it: nobody
\* can write to that file, and the stream, the packet kept for a resend and done agree.
AtSnapshot(c) ==
    /\ block[c] >= 2
    /\ last[c] = Data(block[c] - 1, R!Seg(snap[c], block[c] - 1))
    /\ R!Off(block[c] - 1) <= Len(snap[c])
    /\ done[c] <=> Len(snap[c]) < R!Off(block[c])
    /\ pc[c] = "exited" => done[c]
    /\ pc[c] = "readwait" =>
           /\ files[name[c]] = snap[c]
           /\ name[c] \notin Unwritable => Writers(name[c]) = {}
           /\ pos[c] <= Len(snap[c])
           /\ \E t \in 0..pos[c] : /\ buf[c] = SubSeq(snap[c], t + 1, pos[c])
                                   /\ ~done[c] => t = R!Off(block[c])
Downloading == \A c \in Child \ spoiled : op[c] = 1 /\ block[c] > 0 => AtSnapshot(c)

\* The last child that opened a file for writing, if it found no other upload of it under
\* way, is the only one that can write to it: the file and the stream's buffer hold what
\* it took, and the stream is at the end of the file.
HoldsAll(n, c) ==
    /\ name[c] = n /\ n \notin Unwritable /\ n \in DOMAIN files
    /\ pc[c] \in {"writewait", "closing"} \cup Stopped
    /\ Writers(n) \subseteq {c}
    /\ got[c] = files[n] \o buf[c]
    /\ Len(files[n]) = pos[c]
    /\ pc[c] \in Stopped => buf[c] = <<>>
Uploading == \A n \in Name : \A c \in Child \ spoiled : owner[n] = {c} => HoldsAll(n, c)

\* The inductive invariant behind UndisturbedDownload and UndisturbedUpload.
ServerInv == ServerTypes /\ Handlers /\ Downloading /\ Uploading

\* While the range lasts, the ports handed out lie between tid_selection and its start.
PortsHandedOut ==
    tid >= listen =>
        \A c \in Child : pc[c] # "unborn" => port[c] \in (tid + 1)..(PortMod - 1)
============================================================================
