----------------------------- MODULE ReadData -----------------------------
(***************************************************************************)
(* read_data of server.c: a child answers a read request by sending the    *)
(* file one segment at a time, waiting for a datagram after each.          *)
(***************************************************************************)
EXTENDS Child

CONSTANT ReadAhead    \* bytes stdio asks the file for when its buffer runs short

ASSUME ReadDataAssumption == ReadAhead \in Nat /\ ReadAhead >= Segment

VARIABLE done     \* done: the segment in new_buffer was a short one

vars == <<childVars, done>>

Least(a, b) == IF a <= b THEN a ELSE b

\* Defect: a byte is skipped at every refill.
SkipsByte(c) == LET f == files[name[c]]
                IN  SubSeq(f, pos[c] + 2, Least(pos[c] + ReadAhead, Len(f)))

\* The next ReadAhead bytes of the file behind the stream, fewer at its end.
Fill(c) == LET f == files[name[c]]
           IN  SubSeq(f, pos[c] + 1, Least(pos[c] + ReadAhead, Len(f)))

\* Defect: a full buffer is handed out twice.
RepeatsBuffer(c) == IF Len(buf[c]) < Segment THEN Fill(c) ELSE buf[c]

\* fread refills its buffer only when that holds less than it was asked for.
Refilled(c) == IF Len(buf[c]) < Segment THEN Fill(c) ELSE <<>>

\* What fread can hand out: what the stream held, then what it fetched.
Available(c) == buf[c] \o Refilled(c)

\* Defect: the last full segment of a file is taken for a short one.
NothingLeft(got, avail) == Len(avail) = Len(got)

\* if (num_get < 512) {done = 1;}
EndOfFile(got, avail) == Len(got) < Segment

\* The body of the while loop up to the wait: fread, header, sendto, block++.
\* in: the datagram that ended the previous wait; to: where the segment goes.
SendBlock(c, b, in, to) ==
    LET avail == Available(c)
        num_get == Least(Segment, Len(avail))
        chunk == SubSeq(avail, 1, num_get)
    IN  /\ last' = [last EXCEPT ![c] = Data(b, chunk)]
        /\ pos' = [pos EXCEPT ![c] = @ + Len(Refilled(c))]
        /\ buf' = [buf EXCEPT ![c] = SubSeq(avail, num_get + 1, Len(avail))]
        /\ done' = [done EXCEPT ![c] = EndOfFile(chunk, avail)]
        /\ block' = [block EXCEPT ![c] = b + 1]
        /\ Exchange(in, {Dgram(port[c], to, Data(b, chunk))})

\* fopen fails: one ERROR packet, code 1, and the child is over.
NoSuchFile(c) ==
    /\ pc[c] = "rrq"
    /\ name[c] \notin DOMAIN files
    /\ Exchange({}, {Dgram(port[c], peer[c], Err(1))})
    /\ pc' = [pc EXCEPT ![c] = "exited"]
    /\ UNCHANGED <<files, port, peer, name, block, timeouts, last, pos, buf,
                   quiet, done>>

\* fopen succeeds: the first segment goes out as block 1.
FirstBlock(c) ==
    /\ pc[c] = "rrq"
    /\ name[c] \in DOMAIN files
    /\ SendBlock(c, 1, {}, peer[c])
    /\ pc' = [pc EXCEPT ![c] = "readwait"]
    /\ UNCHANGED <<files, port, peer, name, timeouts, quiet>>

\* recvfrom returns a datagram, whatever it holds and whoever sent it. Its
\* sender becomes the client. Either the short segment was out already and the
\* child exits, or the next segment is sent.
Answered(c, d) ==
    /\ pc[c] = "readwait"
    /\ Arrives(c, d)
    /\ peer' = [peer EXCEPT ![c] = d.src]
    /\ quiet' = [quiet EXCEPT ![c] = 0]
    /\ \/ /\ done[c]
          /\ pc' = [pc EXCEPT ![c] = "exited"]
          /\ Exchange({d}, {})
          /\ UNCHANGED <<block, last, pos, buf, done>>
       \/ /\ ~done[c]
          /\ SendBlock(c, block[c], {d}, d.src)
          /\ UNCHANGED pc
    /\ UNCHANGED <<files, port, name, timeouts>>

\* Defect: timeouts are not counted.
UncountedTimeout(c) ==
    /\ pc[c] = "readwait"
    /\ Silence(c)
    /\ Exchange({}, {Dgram(port[c], peer[c], last[c])})
    /\ UNCHANGED <<files, pc, port, peer, name, block, timeouts, last, pos,
                   buf, quiet, done>>

\* Defect: a timeout is taken for an answer.
AdvancesOnTimeout(c) ==
    /\ pc[c] = "readwait"
    /\ Silence(c)
    /\ ~done[c]
    /\ SendBlock(c, block[c], {}, peer[c])
    /\ UNCHANGED <<files, pc, port, peer, name, timeouts, quiet>>

\* Defect: nothing is sent again.
NoResend(c) ==
    /\ pc[c] = "readwait"
    /\ Silence(c)
    /\ timeouts' = [timeouts EXCEPT ![c] = @ + 1]
    /\ quiet' = [quiet EXCEPT ![c] = @ + 1]
    /\ pc' = [pc EXCEPT ![c] = IF timeouts'[c] = MaxTimeouts
                               THEN "timedout" ELSE @]
    /\ UNCHANGED <<net, files, port, peer, name, block, last, pos, buf, done>>

\* recvfrom times out: the packet is sent again, and the 10th timeout of the
\* transfer ends it (no_data is never reset).
ReadTimeout(c) ==
    /\ pc[c] = "readwait"
    /\ Silence(c)
    /\ timeouts' = [timeouts EXCEPT ![c] = @ + 1]
    /\ quiet' = [quiet EXCEPT ![c] = @ + 1]
    /\ Exchange({}, {Dgram(port[c], peer[c], last[c])})
    /\ pc' = [pc EXCEPT ![c] = IF timeouts'[c] = MaxTimeouts
                               THEN "timedout" ELSE @]
    /\ UNCHANGED <<files, port, peer, name, block, last, pos, buf, done>>

ReadStep(c) ==
    \/ NoSuchFile(c)
    \/ FirstBlock(c)
    \/ \E d \in net : Answered(c, d)
    \/ ReadTimeout(c)

Inject ==
    /\ SendStray
    /\ UNCHANGED <<files, pc, port, peer, name, block, timeouts, last, pos,
                   buf, quiet, done>>

Init == /\ ChildInit("rrq")
        /\ done = [c \in Child |-> FALSE]

Next == Inject \/ \E c \in Child : ReadStep(c)

Spec == Init /\ [][Next]_vars

\* A child keeps running: the kernel schedules it, and its receive ends with a
\* datagram or after a second.
FairSpec == Spec /\ \A c \in Child : WF_vars(ReadStep(c))

----------------------------------------------------------------------------
\* Every variable holds a value of its type; block numbers on the wire fit in
\* the 16 bits that htons leaves of the int block.
TypeOK ==
    /\ ChildTypeOK
    /\ pc \in [Child -> {"rrq", "readwait"} \cup Stopped]
    /\ done \in [Child -> BOOLEAN]

\* The offset at which segment i of a file starts, and the segment itself.
Off(i) == (i - 1) * Segment
Seg(f, i) == SubSeq(f, Off(i) + 1, Least(Off(i + 1), Len(f)))

\* Every DATA packet a child has put on the network carries, under block number
\* i modulo 2^16, exactly segment i of the requested file, for a segment the
\* child has reached: neither the header, nor fread's read-ahead, nor a resend
\* after any number of stray datagrams shifts, repeats or skips a byte.
SegmentsExact ==
    \A c \in Child : \A d \in net :
        d.src = port[c] /\ d.pkt.op = 3 =>
            /\ name[c] \in DOMAIN files
            /\ \E i \in 1..(block[c] - 1) :
                   d.pkt = Data(i, Seg(files[name[c]], i))

\* A child that ends without giving up has sent the whole file, the last segment
\* being a short one (an empty one when the length is a multiple of 512: the
\* corner case of cornercase.txt), or has reported that there is no file.
CompleteOnExit ==
    \A c \in Child : pc[c] = "exited" =>
        \/ name[c] \notin DOMAIN files
        \/ LET size == Len(files[name[c]])
           IN  /\ Off(block[c] - 1) <= size
               /\ size < Off(block[c])

\* Where a child stands that has sent at least one segment: the stream is inside
\* the file, its buffer holds the bytes from some offset up to the stream's, the
\* packet kept for a resend is the last segment sent, done says whether that
\* segment was short, and if it was not the buffer starts with the next one.
AtSegment(c) ==
    LET f == files[name[c]]
    IN  /\ name[c] \in DOMAIN files
        /\ block[c] >= 2
        /\ pos[c] <= Len(f)
        /\ \E t \in 0..pos[c] : /\ buf[c] = SubSeq(f, t + 1, pos[c])
                                /\ ~done[c] => t = Off(block[c])
        /\ last[c] = Data(block[c] - 1, Seg(f, block[c] - 1))
        /\ Off(block[c] - 1) <= Len(f)
        /\ done[c] <=> Len(f) < Off(block[c])

\* Before its handler runs a child has sent nothing and read nothing; from the
\* first segment on, read_data's block counter, its stream and the packet it
\* would resend stay at the same place in the file, whatever arrived.
StreamInStep ==
    \A c \in Child :
        /\ pc[c] = "rrq" => block[c] = 0 /\ pos[c] = 0 /\ buf[c] = <<>>
        /\ pc[c] \in {"readwait", "timedout"} => AtSegment(c)
        /\ pc[c] = "exited" =>
               name[c] \notin DOMAIN files \/ (AtSegment(c) /\ done[c])

\* no_data counts every timeout, so it has not reached its limit while read_data
\* runs and is never behind the timeouts since the last datagram.
Counts ==
    \A c \in Child :
        /\ quiet[c] <= timeouts[c]
        /\ pc[c] \in {"rrq", "readwait"} => timeouts[c] < MaxTimeouts

\* The inductive invariant that the proofs of the properties above rest on.
ReadInv == TypeOK /\ Sockets /\ Counts /\ StreamInStep /\ SegmentsExact

\* Whatever arrives on its socket, a child serving a read request ends: every
\* wait ends with a datagram, which takes it one segment further into a finite
\* file, or with one of at most 10 timeouts.
Terminates == \A c \in Child : <>(pc[c] \in Stopped)
============================================================================
