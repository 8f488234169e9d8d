------------------------------- MODULE Calls -------------------------------
(***************************************************************************)
(* Programs as the calls they make on descriptors, locks, lists and        *)
(* memory, in the order of the source and with what each does when a call  *)
(* fails. The tables of programs (Daytime, Echo, Advanced, Messages,       *)
(* Servers, Tools) are written with the constructors below; CallRun        *)
(* executes them against the kernel's rules, Legal, After and Failed.      *)
(***************************************************************************)
EXTENDS Integers, Sequences, FiniteSets

\* A step: operation op on resource fd, which may create resource new; alt is
\* what the program does when the call fails and end what it does when a read
\* finds the end of the stream, before it goes on with the steps that follow.
Step(op, fd, new, alt, end) == [op |-> op, fd |-> fd, new |-> new, alt |-> alt, end |-> end]
On(op, fd, alt) == Step(op, fd, fd, alt, <<>>)

\* Control: exit; one of several continuations; a loop that only break leaves;
\* break and continue; a function with the resources only its own variables refer
\* to, and its early return; fork of a child that ends, and of one that serves for
\* ever; a thread that takes over the resources own.
Exit == [op |-> "exit"]
Either(bodies) == [op |-> "either", of |-> bodies]
Maybe(body) == Either(<<body, <<>>>>)
Loop(body) == [op |-> "loop", body |-> body]
Break == [op |-> "break"]
Continue == [op |-> "continue"]
Function(own, body) == [op |-> "fn", own |-> own, body |-> body]
Fn(body) == Function({}, body)
Return == [op |-> "return"]
Forking(body, alt) == [op |-> "fork", body |-> body, alt |-> alt, ends |-> TRUE]
Spawn(body) == [op |-> "fork", body |-> body, alt |-> <<Exit>>, ends |-> FALSE]
Thread(own, body) == [op |-> "thread", own |-> own, body |-> body]
While(body) == Loop(<<Either(<<body, <<Break>>>>)>>)
Repeat(body) == Loop(body \o <<Maybe(<<Break>>)>>)
Quit == <<Exit>>

\* What a program remembers of its descriptors: the branch taken when r is in one
\* of the states S, and a descriptor stored in another variable.
If(r, S, yes, no) == [op |-> "if", fd |-> r, in |-> S, yes |-> yes, no |-> no]
Move(r, to) == [op |-> "move", fd |-> r, new |-> to]

\* Handlers, and waiting for a child. "SIGCHLD" stands for a handler that calls waitpid
\* until no ended child is left, "SIGCHLD wait" for one that calls wait once.
Signal(sig) == [op |-> "signal", sig |-> sig]
Wait == [op |-> "wait"]

\* The wrappers of wrapsock.c, wrapunix.c, wraplib.c, wrapstdio.c and
\* wrappthread.c: the call, and err_sys when it fails. The lower-case forms are
\* the bare calls, with the caller's own treatment of failure.
W(op, fd) == On(op, fd, Quit)
socket(fd, kind, alt) == On(kind, fd, alt)
Socket(fd, kind) == socket(fd, kind, Quit)
bind(fd, alt) == On("bind", fd, alt)
Bind(fd) == bind(fd, Quit)
connect(fd, alt) == On("connect", fd, alt)
Connect(fd) == connect(fd, Quit)
listen(fd, alt) == On("listen", fd, alt)
Listen(fd) == listen(fd, Quit)
accept(fd, new, alt) == Step("accept", fd, new, alt, <<>>)
Accept(fd, new) == accept(fd, new, Quit)
close(fd) == On("close", fd, <<>>)
Close(fd) == W("close", fd)
Shutdown(fd) == W("shutdown", fd)
read(fd, end, alt) == Step("read", fd, fd, alt, end)
Read(fd, end) == read(fd, end, Quit)
write(fd, alt) == On("write", fd, alt)
Write(fd) == write(fd, Quit)
sendto(fd, alt) == On("sendto", fd, alt)
Sendto(fd) == sendto(fd, Quit)
recvfrom(fd, alt) == On("recvfrom", fd, alt)
Recvfrom(fd) == recvfrom(fd, Quit)
Fork(body) == Forking(body, Quit)

\* Calls that only need the descriptor open: options, flags, ioctls, names.
opt(fd, alt) == On("opt", fd, alt)
Opt(fd) == opt(fd, Quit)

\* select or poll on several descriptors, and the continuation of each that may
\* turn out ready.
Watch(fds) == [op |-> "watch", fds |-> fds, alt |-> Quit]
Select(fds, bodies) == <<Watch(fds)>> \o [i \in DOMAIN bodies |-> Maybe(bodies[i])]

\* Lists, memory, streams and locks are resources as well.
obtain(kind, r, alt) == On(kind, r, alt)
Obtain(kind, r) == obtain(kind, r, Quit)
Release(r) == On("close", r, <<>>)
Socketpair(a, b) == <<Obtain("connected", a), Obtain("connected", b)>>
Lock(m) == W("lock", m)
Unlock(m) == W("unlock", m)
Need(r) == On("use", r, <<>>)

----------------------------------------------------------------------------
\* The kernel's rules: the states a resource can be in,
None == "none"
Sockets == {"stream", "dgram", "raw", "seqpacket"}
Streams == {"connected", "half", "eof", "halfeof"}
Datagrams == {"dgram", "dgbound", "dgconn", "raw"}
Messages == {"seqpacket", "seqbound", "seqlisten"}
Held == {"list", "memory", "file", "timer", "map"}
Open == Sockets \cup Streams \cup Datagrams \cup Messages \cup Held
            \cup {"bound", "listening", "connecting", "failed", "entry"}
Creates == Sockets \cup Held \cup {"connected", "lock", "unlock"}

\* the ones in which a call can succeed,
Legal(op) ==
    CASE op \in Creates \ {"unlock"} -> {None}
      [] op = "entry" -> {None, "entry"}
      [] op = "unlock" -> {"lock"}
      [] op = "wait" -> {"lock"}
      [] op = "bind" -> Sockets
      [] op = "listen" -> {"stream", "bound", "seqbound"}
      [] op = "accept" -> {"listening", "seqlisten"}
      [] op = "connect" -> {"stream", "bound", "seqpacket", "connecting"} \cup Datagrams
      [] op = "pending" -> {"stream", "bound"}
      [] op = "read" -> {"connected", "half", "file"} \cup Datagrams
      [] op = "write" -> {"connected", "eof", "file", "dgconn"}
      [] op = "shutdown" -> Streams
      [] op = "sendto" -> {"connected", "eof"} \cup Datagrams \cup Messages
      [] op = "recvfrom" -> {"connected", "half"} \cup Datagrams \cup Messages
      [] op \in {"opt", "close", "use"} -> Open

\* the one a successful call leaves,
After(op, st) ==
    CASE op \in (Creates \cup {"entry"}) \ {"unlock"} -> op
      [] op \in {"unlock", "close"} -> None
      [] op = "bind" -> CASE st = "stream" -> "bound" [] st = "dgram" -> "dgbound"
                          [] st = "seqpacket" -> "seqbound" [] OTHER -> st
      [] op = "listen" -> IF st = "seqbound" THEN "seqlisten" ELSE "listening"
      [] op = "connect" -> IF st \in Datagrams THEN "dgconn" ELSE "connected"
      [] op = "pending" -> "connecting"
      [] op = "shutdown" -> IF st \in {"eof", "halfeof"} THEN "halfeof" ELSE "half"
      [] OTHER -> st

\* and the one a failed call leaves: a stream socket whose connect failed is good
\* for close only, and close releases the descriptor whatever it returns.
Failed(op, st) ==
    CASE op = "connect" /\ st \notin Datagrams -> "failed"
      [] op \in {"close", "entry"} -> None
      [] OTHER -> st

\* The state of a stream whose end a read has found.
Ended(st) == IF st = "half" THEN "halfeof" ELSE "eof"
============================================================================
