---------------------------- MODULE ServerProofs ----------------------------
(***************************************************************************)
(* Proofs about server.c as a whole, for any number of children on one     *)
(* directory and any network. The turns of read_data and write_data are    *)
(* those of ReadDataProofs and WriteDataProofs.                            *)
(***************************************************************************)
EXTENDS Server, SequenceTheorems, TLAPS

RP == INSTANCE ReadDataProofs
WP == INSTANCE WriteDataProofs

\* The assumptions of the handlers' modules.
LEMMA Assumptions == Stray \subseteq RP!Packet /\ Stray \subseteq WP!Packet
BY ChildAssumption, Zenon DEF Packet, RP!Packet, WP!Packet

\* A piece of a sequence of bytes is a sequence of bytes of the expected length.
LEMMA Piece ==
  ASSUME NEW f \in Seq(Byte), NEW i \in Nat, NEW j \in Nat,
         i <= j, j <= Len(f)
  PROVE  /\ SubSeq(f, i + 1, j) \in Seq(Byte)
         /\ Len(SubSeq(f, i + 1, j)) = j - i
BY WP!Piece, TftpAssumption, ChildAssumption, ServerAssumption, BlendAssumption, Assumptions,
   Zenon

\* What is added to what a stream holds follows what is in its file.
LEMMA Together ==
  ASSUME NEW f \in Seq(Byte), NEW g \in Seq(Byte), NEW h \in Seq(Byte)
  PROVE  f \o (g \o h) = (f \o g) \o h
BY ConcatAssociative

\* Block numbers fit on the wire, and packets are packets.
LEMMA Packets ==
  ASSUME NEW b \in Nat, NEW s \in Seq(Byte)
  PROVE  Data(b, s) \in Packet /\ Ack(b) \in Packet /\ Err(b) \in Packet
<1>1. /\ WP!Data(b, s) \in WP!Packet /\ WP!Ack(b) \in WP!Packet
      /\ WP!Err(b) \in WP!Packet
  BY WP!Packets, TftpAssumption, ChildAssumption, ServerAssumption, BlendAssumption,
     Assumptions, Zenon
<1> QED
  BY <1>1, Zenon DEF Data, Ack, Err, Packet, Htons, WP!Data, WP!Ack, WP!Err, WP!Packet,
     WP!Htons

\* Where segments start.
LEMMA Offsets ==
  ASSUME NEW b \in Nat, b >= 1
  PROVE  R!Off(b) \in Nat /\ R!Off(b + 1) = R!Off(b) + Segment
BY RP!Offsets, TftpAssumption, ChildAssumption, ServerAssumption, Assumptions, Zenon
   DEF R!Off, RP!Off

\* What a turn of read_data's loop does when its stream stands at segment b of f, which
\* starts at offset t: the segment goes out, and the stream's buffer holds the file from
\* an offset u on, the end of that segment, up to the stream's new offset q.
SegmentSent(c, b, f, t) ==
    \E q \in Nat, u \in Nat :
        /\ u <= q /\ q <= Len(f)
        /\ t + Segment <= Len(f) => u = t + Segment
        /\ last' = [last EXCEPT ![c] = Data(b, R!Seg(f, b))]
        /\ pos' = [pos EXCEPT ![c] = q]
        /\ buf' = [buf EXCEPT ![c] = SubSeq(f, u + 1, q)]
        /\ done' = [done EXCEPT ![c] = Len(f) < t + Segment]
        /\ block' = [block EXCEPT ![c] = b + 1]

\* One turn of read_data's loop, from a stream that stands at segment b of a file f that
\* nobody has changed: segment b goes out, and the stream stands at the next.
LEMMA SendsSegment ==
  ASSUME NEW c \in Child, NEW b \in Nat, b >= 1, NEW in, NEW to,
         NEW f \in Seq(Byte), f = files[name[c]], NEW p \in Nat, p = pos[c],
         NEW t \in Nat, t = R!Off(b), t <= p, p <= Len(f),
         buf[c] = SubSeq(f, t + 1, p), R!SendBlock(c, b, in, to)
  PROVE  SegmentSent(c, b, f, t)
<1>1. RP!SendBlock(c, b, in, to)
  BY Zenon DEF RP!SendBlock, R!SendBlock, R!Available, RP!Available, R!Refilled, RP!Refilled,
     R!Fill, RP!Fill, R!Least, RP!Least, R!Data, RP!Data, R!EndOfFile, RP!EndOfFile,
     R!Dgram, RP!Dgram, R!Exchange, RP!Exchange, R!Htons, RP!Htons
<1>2. t = RP!Off(b)
  BY Zenon DEF R!Off, RP!Off
<1>3. RP!SegmentSent(c, b, in, to, f, t)
  BY <1>1, <1>2, RP!SendsSegment, TftpAssumption, ChildAssumption, ServerAssumption,
     Assumptions, Zenon
<1>4. RP!Data(b, RP!Seg(f, b)) = Data(b, R!Seg(f, b))
  BY Zenon DEF RP!Data, Data, RP!Htons, Htons, RP!Seg, R!Seg, RP!Off, R!Off, RP!Least, R!Least
<1> QED
  BY <1>3, <1>4, Zenon DEF RP!SegmentSent, SegmentSent

\* One turn of read_data's loop, whatever has become of the file: bytes go out, in a DATA
\* packet.
LEMMA SendsBytes ==
  ASSUME ServerTypes, NEW c \in Child, name[c] \in DOMAIN files,
         NEW b \in Nat, NEW in, NEW to, R!SendBlock(c, b, in, to)
  PROVE  /\ last' \in [Child -> Packet] /\ pos' \in [Child -> Nat]
         /\ buf' \in [Child -> Seq(Byte)] /\ done' \in [Child -> BOOLEAN]
         /\ block' \in [Child -> Nat] /\ block'[c] = b + 1
         /\ \A d \in net' : d.pkt \in Packet
         /\ \A e \in Child : e # c =>
                /\ last'[e] = last[e] /\ pos'[e] = pos[e] /\ buf'[e] = buf[e]
                /\ done'[e] = done[e] /\ block'[e] = block[e]
<1>1. Segment \in Nat \ {0} /\ ReadAhead \in Nat
  BY TftpAssumption, ServerAssumption
<1>2. PICK f \in Seq(Byte), p \in Nat, h \in Seq(Byte) :
         f = files[name[c]] /\ p = pos[c] /\ h = buf[c]
  BY Zenon DEF ServerTypes
<1>3. PICK r : r = R!Refilled(c)
  OBVIOUS
<1>4. r \in Seq(Byte) /\ Len(r) \in Nat
  <2>1. SubSeq(f, p + 1, R!Least(p + ReadAhead, Len(f))) \in Seq(Byte)
    <3>1. Len(f) \in Nat /\ \A i \in 1..Len(f) : f[i] \in Byte
      BY ElementOfSeq, LenProperties
    <3>2. R!Least(p + ReadAhead, Len(f)) \in 0..Len(f)
      BY <1>1, <3>1 DEF R!Least
    <3> QED
      BY <1>1, <3>1, <3>2, SubSeqProperties, SMT
  <2>2. r = <<>> \/ r = SubSeq(f, p + 1, R!Least(p + ReadAhead, Len(f)))
    BY <1>2, <1>3, Zenon DEF R!Refilled, R!Fill
  <2>3. <<>> \in Seq(Byte)
    OBVIOUS
  <2>4. r \in Seq(Byte)
    BY <2>1, <2>2, <2>3, Zenon
  <2> QED
    BY <2>4, LenProperties
<1>5. PICK a \in Seq(Byte) : a = h \o r
  BY <1>4, ConcatProperties, Zenon
<1>6. a = R!Available(c)
  BY <1>2, <1>3, <1>5, Zenon DEF R!Available
<1>7. PICK n \in Nat : n = R!Least(Segment, Len(a)) /\ n <= Len(a) /\ Len(a) \in Nat
  BY <1>1, LenProperties DEF R!Least
<1>8. PICK chunk \in Seq(Byte), rest \in Seq(Byte) :
         chunk = SubSeq(a, 1, n) /\ rest = SubSeq(a, n + 1, Len(a))
  <2>1. 0 \in Nat /\ 0 <= n /\ 0 + 1 = 1 /\ Len(a) <= Len(a)
    BY <1>7
  <2> QED
    BY <1>7, <2>1, Piece, Zenon
<1>9. PICK k \in Packet : k = Data(b, chunk)
  BY Packets, Zenon
<1>10. R!Data(b, chunk) = k
  BY <1>9, Zenon DEF R!Data, Data, R!Htons, Htons
<1>11. PICK m \in Nat : m = p + Len(r)
  BY <1>4
<1>12. PICK e1 \in BOOLEAN : e1 = R!EndOfFile(chunk, a)
  <2>1. (Len(chunk) < Segment) \in BOOLEAN
    OBVIOUS
  <2> QED
    BY <2>1, Zenon DEF R!EndOfFile
<1>13. /\ last' = [last EXCEPT ![c] = k] /\ pos' = [pos EXCEPT ![c] = m]
       /\ buf' = [buf EXCEPT ![c] = rest] /\ done' = [done EXCEPT ![c] = e1]
       /\ block' = [block EXCEPT ![c] = b + 1]
       /\ R!Exchange(in, {R!Dgram(port[c], to, k)})
  BY <1>2, <1>3, <1>6, <1>7, <1>8, <1>10, <1>11, <1>12, Zenon DEF R!SendBlock
<1>14. \A d \in net' : d.pkt \in Packet
  <2>1. R!Dgram(port[c], to, k).pkt = k
    BY DEF R!Dgram
  <2>2. net' \subseteq net \cup {R!Dgram(port[c], to, k)}
    BY <1>13, Zenon DEF R!Exchange
  <2> QED
    BY <2>1, <2>2, Zenon DEF ServerTypes
<1>15. b + 1 \in Nat
  OBVIOUS
<1> QED
  BY <1>13, <1>14, <1>15, Zenon DEF ServerTypes

----------------------------------------------------------------------------
\* A reader that a step does not concern stays where it is, if its file does too.
LEMMA ReaderUnconcerned ==
  ASSUME NEW e \in Child, AtSnapshot(e), NEW n, n = name[e],
         block'[e] = block[e], last'[e] = last[e], snap'[e] = snap[e], done'[e] = done[e],
         pos'[e] = pos[e], buf'[e] = buf[e], name'[e] = name[e], pc'[e] = pc[e],
         pc[e] = "readwait" => /\ files'[n] = files[n]
                               /\ n \notin Unwritable => Writers(n)' = {}
  PROVE  AtSnapshot(e)'
<1>1. /\ block'[e] >= 2
      /\ last'[e] = Data(block'[e] - 1, R!Seg(snap'[e], block'[e] - 1))
      /\ R!Off(block'[e] - 1) <= Len(snap'[e])
      /\ done'[e] <=> Len(snap'[e]) < R!Off(block'[e])
      /\ pc'[e] = "exited" => done'[e]
  BY Zenon DEF AtSnapshot
<1>2. pc'[e] = "readwait" =>
         /\ files'[name'[e]] = snap'[e]
         /\ pos'[e] <= Len(snap'[e])
         /\ \E t \in 0..pos'[e] : /\ buf'[e] = SubSeq(snap'[e], t + 1, pos'[e])
                                  /\ ~done'[e] => t = R!Off(block'[e])
  BY Zenon DEF AtSnapshot
<1>3. pc'[e] = "readwait" /\ name'[e] \notin Unwritable => Writers(name[e])' = {}
  BY Zenon DEF Writers
<1> QED
  BY <1>1, <1>2, <1>3, Zenon DEF AtSnapshot

\* The same for the child that holds a file.
LEMMA HolderUnconcerned ==
  ASSUME NEW n, NEW e \in Child, HoldsAll(n, e),
         name'[e] = name[e], pc'[e] = pc[e], n \in DOMAIN files', files'[n] = files[n],
         Writers(n)' \subseteq {e}, got'[e] = got[e], buf'[e] = buf[e], pos'[e] = pos[e]
  PROVE  HoldsAll(n, e)'
BY Zenon DEF HoldsAll

\* A child that is forked, or binds its socket, touches no file and no stream.
LEMMA StartsUp ==
  ASSUME ServerInv, ServerTypes',
         files' = files, block' = block, last' = last, pos' = pos, buf' = buf, done' = done,
         snap' = snap, got' = got, owner' = owner, spoiled' = spoiled,
         \A e \in Child :
             \/ pc'[e] = pc[e] /\ op'[e] = op[e] /\ name'[e] = name[e]
             \/ /\ pc[e] \in {"unborn", "forked"}
                /\ pc'[e] \in {"forked", "unbound", "rrq", "wrq", "exited"}
                /\ pc'[e] = "rrq" => op'[e] = 1
                /\ pc'[e] = "wrq" => op'[e] = 2
  PROVE  ServerInv'
<1>1. ServerTypes /\ Handlers /\ Downloading /\ Uploading
  BY DEF ServerInv
<1>2. Handlers'
  <2> SUFFICES ASSUME NEW e \in Child
               PROVE  /\ pc'[e] \in {"unborn", "forked", "unbound", "rrq", "wrq"} =>
                             block'[e] = 0 /\ pos'[e] = 0 /\ buf'[e] = <<>> /\ got'[e] = <<>>
                      /\ pc'[e] \in {"rrq", "readwait"} => op'[e] = 1
                      /\ pc'[e] \in {"wrq", "writewait", "closing"} => op'[e] = 2
                      /\ pc'[e] = "readwait" => block'[e] > 0 /\ name'[e] \in DOMAIN files'
                      /\ pc'[e] \in {"writewait", "closing"} /\ name'[e] \notin Unwritable =>
                             name'[e] \in DOMAIN files'
    BY Zenon DEF Handlers
  <2>1. CASE pc'[e] = pc[e] /\ op'[e] = op[e] /\ name'[e] = name[e]
    BY <1>1, <2>1, Zenon DEF Handlers
  <2>2. CASE /\ pc[e] \in {"unborn", "forked"}
             /\ pc'[e] \in {"forked", "unbound", "rrq", "wrq", "exited"}
             /\ pc'[e] = "rrq" => op'[e] = 1
             /\ pc'[e] = "wrq" => op'[e] = 2
    <3>1. /\ pc[e] \in {"unborn", "forked", "unbound", "rrq", "wrq"}
          /\ pc'[e] # "readwait" /\ pc'[e] # "writewait" /\ pc'[e] # "closing"
      BY <2>2
    <3>2. block[e] = 0 /\ pos[e] = 0 /\ buf[e] = <<>> /\ got[e] = <<>>
      BY <1>1, <3>1, Zenon DEF Handlers
    <3> QED
      BY <2>2, <3>1, <3>2, Zenon
  <2> QED
    BY <2>1, <2>2, Zenon
<1>3. \A n : Writers(n)' \subseteq Writers(n)
  <2> SUFFICES ASSUME NEW n, NEW e \in Child, name'[e] = n, pc'[e] \in {"writewait", "closing"}
               PROVE  name[e] = n /\ pc[e] \in {"writewait", "closing"}
    BY Zenon DEF Writers
  <2>1. pc'[e] \notin {"forked", "unbound", "rrq", "wrq", "exited"}
    OBVIOUS
  <2> QED
    BY <2>1, Zenon
<1>4. Downloading'
  <2> SUFFICES ASSUME NEW e \in Child, e \notin spoiled, op'[e] = 1, block[e] > 0
               PROVE  AtSnapshot(e)'
    BY Zenon DEF Downloading
  <2>1. pc'[e] = pc[e] /\ op'[e] = op[e] /\ name'[e] = name[e]
    <3>1. ASSUME pc[e] \in {"unborn", "forked"} PROVE FALSE
      <4>1. block[e] = 0
        BY <1>1, <3>1, Zenon DEF Handlers
      <4> QED
        BY <4>1
    <3> QED
      BY <3>1, Zenon
  <2>2. AtSnapshot(e)
    BY <1>1, <2>1, Zenon DEF Downloading
  <2>3. PICK n : n = name[e]
    OBVIOUS
  <2>4. pc[e] = "readwait" /\ n \notin Unwritable => Writers(n)' = {}
    BY <1>3, <2>2, <2>3, Zenon DEF AtSnapshot
  <2> QED
    BY <2>1, <2>2, <2>3, <2>4, ReaderUnconcerned, Zenon
<1>5. Uploading'
  <2> SUFFICES ASSUME NEW n \in Name, NEW e \in Child, e \notin spoiled, owner[n] = {e}
               PROVE  HoldsAll(n, e)'
    BY Zenon DEF Uploading
  <2>1. HoldsAll(n, e)
    BY <1>1, Zenon DEF Uploading
  <2>2. pc[e] \notin {"unborn", "forked"}
    BY <2>1 DEF HoldsAll, Stopped
  <2>3. Writers(n)' \subseteq {e} /\ n \in DOMAIN files'
    BY <1>3, <2>1, Zenon DEF HoldsAll
  <2> QED
    BY <2>1, <2>2, <2>3, HolderUnconcerned, Zenon
<1> QED
  BY <1>2, <1>4, <1>5, Zenon DEF ServerInv

\* The directory is as it was found and no child has been forked.
LEMMA InitServerInv == Init => ServerInv
<1> SUFFICES ASSUME Init PROVE ServerInv
  OBVIOUS
<1>1. /\ Ranges \subseteq Nat \X Nat /\ Ack(0) \in Packet
      /\ \A n \in DOMAIN files : files[n] \in Seq(Byte)
  <2>1. <<>> \in Seq(Byte) /\ 0 \in Nat
    OBVIOUS
  <2>2. Ack(0) \in Packet
    BY <2>1, Packets, Zenon
  <2> QED
    BY <2>2, ServerAssumption, ChildAssumption, Zenon DEF Init
<1>2. tid \in Int /\ listen \in Nat /\ listen \in Int
  <2>1. PICK r \in Ranges : listen = r[1] /\ tid = r[2]
    BY Zenon DEF Init
  <2> QED
    BY <1>1, <2>1
<1>3. \A c \in Child : /\ pc[c] = "unborn" /\ block[c] = 0 /\ pos[c] = 0
                       /\ buf[c] = <<>> /\ got[c] = <<>>
  BY Zenon DEF Init
<1>4. ServerTypes
  <2>1. /\ pc \in [Child -> {"unborn", "forked", "unbound", "rrq", "readwait", "wrq",
                             "writewait", "closing"} \cup Stopped]
        /\ port \in [Child -> Int] /\ op \in [Child -> Ops \cup {0}]
        /\ name \in [Child -> Name \cup {""}]
    BY <1>2, Zenon DEF Init
  <2>2. buffer.op \in Ops \cup {0} /\ buffer.name \in Name \cup {""} /\ inbox \subseteq Datagrams
    <3>1. Empty.op = 0 /\ Empty.name = ""
      BY DEF Empty
    <3> QED
      BY <3>1, Zenon DEF Init
  <2>3. /\ block \in [Child -> Nat] /\ last \in [Child -> Packet] /\ pos \in [Child -> Nat]
        /\ buf \in [Child -> Seq(Byte)] /\ snap \in [Child -> Seq(Byte)]
        /\ got \in [Child -> Seq(Byte)]
    <3>1. <<>> \in Seq(Byte) /\ 0 \in Nat
      OBVIOUS
    <3> QED
      BY <1>1, <3>1, Zenon DEF Init
  <2>4. done \in [Child -> BOOLEAN] /\ owner \in [Name -> SUBSET Child] /\ spoiled \subseteq Child
    BY Zenon DEF Init
  <2>5. \A d \in net : d.pkt \in Packet
    BY Zenon DEF Init
  <2> QED
    BY <1>1, <1>2, <2>1, <2>2, <2>3, <2>4, <2>5, Zenon DEF ServerTypes
<1>5. Handlers
  <2>1. \A c \in Child : pc[c] \notin {"rrq", "readwait", "wrq", "writewait", "closing"}
    BY <1>3
  <2> QED
    BY <1>3, <2>1 DEF Handlers
<1>6. Downloading
  BY <1>3 DEF Downloading
<1>7. Uploading
  BY DEF Init, Uploading
<1> QED
  BY <1>4, <1>5, <1>6, <1>7, Zenon DEF ServerInv

\* The parent boots, and strangers send.
LEMMA OutsideKeeps ==
  ASSUME ServerInv,
         \/ Boot
         \/ \E c \in Child, p \in Peer, k \in Stray : Stranger(c, p, k)
         \/ UNCHANGED vars
  PROVE  ServerInv'
<1>1. ServerTypes
  BY DEF ServerInv
<1>2. /\ files' = files /\ block' = block /\ last' = last /\ pos' = pos /\ buf' = buf
      /\ done' = done /\ snap' = snap /\ got' = got /\ owner' = owner /\ spoiled' = spoiled
      /\ pc' = pc /\ op' = op /\ name' = name /\ port' = port
      /\ tid' = tid /\ listen' = listen /\ buffer' = buffer /\ inbox' = inbox
  BY DEF Boot, Stranger, vars, childVars, mainVars, history
<1>3. \A d \in net' : d.pkt \in Packet
  <2>1. CASE Boot \/ UNCHANGED vars
    <3>1. net' = net
      BY <2>1 DEF Boot, vars, childVars
    <3> QED
      BY <1>1, <3>1, Zenon DEF ServerTypes
  <2>2. ASSUME NEW c \in Child, NEW p \in Peer, NEW k \in Stray, Stranger(c, p, k)
        PROVE  \A d \in net' : d.pkt \in Packet
    <3>1. net' \subseteq net \cup {Dgram(p, port[c], k)}
      BY <2>2, Zenon DEF Stranger, Exchange
    <3>2. Dgram(p, port[c], k).pkt \in Packet
      BY ChildAssumption DEF Dgram
    <3> QED
      BY <1>1, <3>1, <3>2, Zenon DEF ServerTypes
  <2> QED
    BY <2>1, <2>2, Zenon
<1>4. ServerTypes'
  BY <1>1, <1>2, <1>3, Zenon DEF ServerTypes
<1> QED
  BY <1>2, <1>4, StartsUp, Zenon

\* A request: at most a child that has done nothing yet is forked.
LEMMA ReceiveKeeps ==
  ASSUME ServerInv, NEW d \in inbox, Receive(d)
  PROVE  ServerInv'
<1>1. ServerTypes
  BY DEF ServerInv
<1>2. /\ files' = files /\ block' = block /\ last' = last /\ pos' = pos /\ buf' = buf
      /\ done' = done /\ snap' = snap /\ got' = got /\ owner' = owner /\ spoiled' = spoiled
      /\ net' = net /\ tid' = tid - 1 /\ listen' = listen /\ inbox' = inbox
  BY DEF Receive, history
<1>3. PICK now : now = IF d.req = Empty THEN buffer ELSE d.req
  OBVIOUS
<1>4. now.op \in Ops \cup {0} /\ now.name \in Name \cup {""}
  <2>1. d.req = Empty \/ d.req \in [op : Ops, name : Name]
    BY <1>1 DEF ServerTypes, Datagrams
  <2>2. CASE d.req = Empty
    BY <1>1, <1>3, <2>2, Zenon DEF ServerTypes
  <2>3. CASE d.req # Empty /\ d.req \in [op : Ops, name : Name]
    <3>1. now = d.req
      BY <1>3, <2>3, Zenon
    <3> QED
      BY <2>3, <3>1
  <2> QED
    BY <2>1, <2>2, <2>3
<1>5. buffer' = now
  BY <1>3, Zenon DEF Receive
<1>6. tid' \in Int /\ tid % PortMod \in Int
  <2>1. tid \in Int /\ PortMod \in Nat \ {0}
    BY <1>1, ServerAssumption, Zenon DEF ServerTypes
  <2> QED
    BY <1>2, <2>1
<1>7. CASE pc' = pc /\ op' = op /\ name' = name /\ port' = port
  <2>1. ServerTypes'
    BY <1>1, <1>2, <1>4, <1>5, <1>6, <1>7, Zenon DEF ServerTypes
  <2> QED
    BY <1>2, <1>7, <2>1, StartsUp, Zenon
<1>8. ASSUME NEW c \in Unborn, pc' = [pc EXCEPT ![c] = "forked"],
             op' = [op EXCEPT ![c] = now.op], name' = [name EXCEPT ![c] = now.name],
             port' = [port EXCEPT ![c] = tid % PortMod]
      PROVE  ServerInv'
  <2>1. c \in Child /\ pc[c] = "unborn"
    BY Zenon DEF Unborn
  <2>2. /\ pc' \in [Child -> {"unborn", "forked", "unbound", "rrq", "readwait", "wrq",
                              "writewait", "closing"} \cup Stopped]
        /\ op' \in [Child -> Ops \cup {0}] /\ name' \in [Child -> Name \cup {""}]
        /\ port' \in [Child -> Int]
    BY <1>1, <1>4, <1>6, <1>8, <2>1, Zenon DEF ServerTypes
  <2>3. ServerTypes'
    BY <1>1, <1>2, <1>4, <1>5, <1>6, <2>2, Zenon DEF ServerTypes
  <2>4. \A e \in Child : e # c => pc'[e] = pc[e] /\ op'[e] = op[e] /\ name'[e] = name[e]
    BY <1>1, <1>8, <2>1, Zenon DEF ServerTypes
  <2>5. /\ pc[c] \in {"unborn", "forked"} /\ pc'[c] # "rrq" /\ pc'[c] # "wrq"
        /\ pc'[c] \in {"forked", "unbound", "rrq", "wrq", "exited"}
    BY <1>1, <1>8, <2>1 DEF ServerTypes
  <2> QED
    BY <1>2, <2>3, <2>4, <2>5, StartsUp, Zenon
<1> QED
  BY <1>3, <1>7, <1>8, Zenon DEF Receive

\* bind, and the choice of the handler.
LEMMA BindKeeps ==
  ASSUME ServerInv, NEW c \in Child, BindChild(c)
  PROVE  ServerInv'
<1>1. ServerTypes
  BY DEF ServerInv
<1>2. /\ files' = files /\ block' = block /\ last' = last /\ pos' = pos /\ buf' = buf
      /\ done' = done /\ snap' = snap /\ got' = got /\ owner' = owner /\ spoiled' = spoiled
      /\ net' = net /\ tid' = tid /\ listen' = listen /\ inbox' = inbox
      /\ buffer' = buffer /\ op' = op /\ name' = name /\ pc[c] = "forked"
  BY DEF BindChild, mainVars, history
<1>3. \E at \in {"unbound", "rrq", "wrq", "exited"} :
         /\ pc' = [pc EXCEPT ![c] = at]
         /\ at = "rrq" => op[c] = 1
         /\ at = "wrq" => op[c] = 2
  <2>1. CASE pc' = [pc EXCEPT ![c] = "unbound"] \/ pc' = [pc EXCEPT ![c] = "exited"]
    BY <2>1
  <2>2. CASE pc' = [pc EXCEPT ![c] = CASE op[c] = 1 -> "rrq"
                                       [] op[c] = 2 -> "wrq"
                                       [] OTHER -> "exited"]
    <3>1. CASE op[c] = 1
      BY <2>2, <3>1
    <3>2. CASE op[c] = 2
      BY <2>2, <3>2
    <3>3. CASE op[c] # 1 /\ op[c] # 2
      BY <2>2, <3>3
    <3> QED
      BY <3>1, <3>2, <3>3
  <2> QED
    BY <2>1, <2>2, Zenon DEF BindChild
<1>4. port' \in [Child -> Int]
  <2>1. CASE port' = port
    BY <1>1, <2>1, Zenon DEF ServerTypes
  <2>2. ASSUME NEW p \in IF port[c] = 0 THEN Port \ {0} ELSE {port[c]},
               port' = [port EXCEPT ![c] = p]
        PROVE  port' \in [Child -> Int]
    <3>1. p \in Int
      <4>1. port[c] \in Int /\ PortMod \in Nat /\ Port = 0..(PortMod - 1)
        BY <1>1, ServerAssumption, Zenon DEF ServerTypes
      <4>2. Port \subseteq Int
        BY <4>1
      <4> QED
        BY <4>1, <4>2, Zenon
    <3> QED
      BY <1>1, <2>2, <3>1, Zenon DEF ServerTypes
  <2> QED
    BY <2>1, <2>2, Zenon DEF BindChild
<1>5. PICK at \in {"unbound", "rrq", "wrq", "exited"} :
         /\ pc' = [pc EXCEPT ![c] = at]
         /\ at = "rrq" => op[c] = 1
         /\ at = "wrq" => op[c] = 2
  BY <1>3
<1>6. pc' \in [Child -> {"unborn", "forked", "unbound", "rrq", "readwait", "wrq",
                         "writewait", "closing"} \cup Stopped]
  <2>1. at \in {"unborn", "forked", "unbound", "rrq", "readwait", "wrq", "writewait",
                "closing"} \cup Stopped
    BY DEF Stopped
  <2> QED
    BY <1>1, <1>5, <2>1, Zenon DEF ServerTypes
<1>7. ServerTypes'
  BY <1>1, <1>2, <1>4, <1>6, Zenon DEF ServerTypes
<1>8. \A e \in Child : (e # c => pc'[e] = pc[e]) /\ (e = c => pc'[e] = at)
  BY <1>1, <1>5, Zenon DEF ServerTypes
<1>9. pc[c] \in {"unborn", "forked"} /\ at \in {"forked", "unbound", "rrq", "wrq", "exited"}
  BY <1>2
<1> QED
  BY <1>2, <1>5, <1>7, <1>8, <1>9, StartsUp, Zenon

----------------------------------------------------------------------------
\* A step of read_data leaves all other children and all files alone.
LEMMA ReaderSteps ==
  ASSUME ServerInv, ServerTypes', NEW c \in Child,
         files' = files, name' = name, op' = op, owner' = owner, got' = got,
         spoiled \subseteq spoiled',
         \A e \in Child : e # c =>
             /\ pc'[e] = pc[e] /\ block'[e] = block[e] /\ last'[e] = last[e]
             /\ snap'[e] = snap[e] /\ done'[e] = done[e] /\ pos'[e] = pos[e]
             /\ buf'[e] = buf[e],
         pc[c] \in {"rrq", "readwait"}, pc'[c] \in {"readwait", "exited", "timedout"},
         pc'[c] = "readwait" => block'[c] > 0 /\ name[c] \in DOMAIN files,
         c \notin spoiled' /\ block'[c] > 0 => AtSnapshot(c)'
  PROVE  ServerInv'
<1>1. ServerTypes /\ Handlers /\ Downloading /\ Uploading
  BY DEF ServerInv
<1>2. /\ op[c] = 1 /\ pc[c] \notin {"writewait", "closing"}
      /\ pc'[c] \notin {"unborn", "forked", "unbound", "rrq", "wrq"}
      /\ pc'[c] \notin {"wrq", "writewait", "closing"}
  BY <1>1 DEF Handlers
<1>3. Handlers'
  <2> SUFFICES ASSUME NEW e \in Child
               PROVE  /\ pc'[e] \in {"unborn", "forked", "unbound", "rrq", "wrq"} =>
                             block'[e] = 0 /\ pos'[e] = 0 /\ buf'[e] = <<>> /\ got'[e] = <<>>
                      /\ pc'[e] \in {"rrq", "readwait"} => op'[e] = 1
                      /\ pc'[e] \in {"wrq", "writewait", "closing"} => op'[e] = 2
                      /\ pc'[e] = "readwait" => block'[e] > 0 /\ name'[e] \in DOMAIN files'
                      /\ pc'[e] \in {"writewait", "closing"} /\ name'[e] \notin Unwritable =>
                             name'[e] \in DOMAIN files'
    BY Zenon DEF Handlers
  <2>1. CASE e # c
    BY <1>1, <2>1, Zenon DEF Handlers
  <2>2. CASE e = c
    BY <1>2, <2>2, Zenon
  <2> QED
    BY <2>1, <2>2
<1>4. \A n : Writers(n)' = Writers(n)
  <2>1. \A e \in Child : pc'[e] \in {"writewait", "closing"} <=> pc[e] \in {"writewait", "closing"}
    BY <1>2, Zenon
  <2> QED
    BY <2>1, Zenon DEF Writers
<1>5. Downloading'
  <2> SUFFICES ASSUME NEW e \in Child, e \notin spoiled', op[e] = 1, block'[e] > 0
               PROVE  AtSnapshot(e)'
    BY Zenon DEF Downloading
  <2>1. CASE e = c
    BY <2>1, Zenon
  <2>2. CASE e # c
    <3>1. AtSnapshot(e)
      BY <1>1, <2>2, Zenon DEF Downloading
    <3>2. PICK n : n = name[e]
      OBVIOUS
    <3>3. pc[e] = "readwait" /\ n \notin Unwritable => Writers(n)' = {}
      BY <1>4, <3>1, <3>2, Zenon DEF AtSnapshot
    <3> QED
      BY <2>2, <3>1, <3>2, <3>3, ReaderUnconcerned, Zenon
  <2> QED
    BY <2>1, <2>2
<1>6. Uploading'
  <2> SUFFICES ASSUME NEW n \in Name, NEW e \in Child, e \notin spoiled', owner[n] = {e}
               PROVE  HoldsAll(n, e)'
    BY Zenon DEF Uploading
  <2>1. HoldsAll(n, e)
    BY <1>1, Zenon DEF Uploading
  <2>2. e # c
    BY <2>1 DEF HoldsAll, Stopped
  <2>3. Writers(n)' \subseteq {e} /\ n \in DOMAIN files'
    BY <1>4, <2>1, Zenon DEF HoldsAll
  <2> QED
    BY <2>1, <2>2, <2>3, HolderUnconcerned, Zenon
<1> QED
  BY <1>3, <1>5, <1>6, Zenon DEF ServerInv

\* read_data sends a segment of a file f that is the one it found.
LEMMA AdvancesAlone ==
  ASSUME ServerTypes, NEW c \in Child, NEW b \in Nat, b >= 1, NEW in, NEW to,
         R!SendBlock(c, b, in, to), NEW n, n = name[c],
         NEW f \in Seq(Byte), f = files[n], NEW p \in Nat, p = pos[c],
         NEW t \in Nat, t = R!Off(b), t <= p, p <= Len(f), buf[c] = SubSeq(f, t + 1, p),
         files' = files, name' = name, snap'[c] = f, pc'[c] = "readwait",
         n \notin Unwritable => Writers(n)' = {}
  PROVE  AtSnapshot(c)'
<1>1. SegmentSent(c, b, f, t)
  <2>1. f = files[name[c]]
    OBVIOUS
  <2> QED
    BY <2>1, SendsSegment, Zenon
<1>2. PICK q \in Nat, u \in Nat :
         /\ u <= q /\ q <= Len(f)
         /\ t + Segment <= Len(f) => u = t + Segment
         /\ last' = [last EXCEPT ![c] = Data(b, R!Seg(f, b))]
         /\ pos' = [pos EXCEPT ![c] = q]
         /\ buf' = [buf EXCEPT ![c] = SubSeq(f, u + 1, q)]
         /\ done' = [done EXCEPT ![c] = Len(f) < t + Segment]
         /\ block' = [block EXCEPT ![c] = b + 1]
  BY <1>1, Zenon DEF SegmentSent
<1>3. /\ last'[c] = Data(b, R!Seg(f, b)) /\ pos'[c] = q /\ buf'[c] = SubSeq(f, u + 1, q)
      /\ done'[c] = (Len(f) < t + Segment) /\ block'[c] = b + 1
  BY <1>2, Zenon DEF ServerTypes
<1>4. R!Off(b + 1) = t + Segment
  BY Offsets, Zenon
<1>5. Len(f) \in Nat /\ Segment \in Nat
  BY TftpAssumption, LenProperties
<1>6. PICK b1 : b1 = b + 1
  OBVIOUS
<1>7. b1 >= 2 /\ b1 - 1 = b
  BY <1>6
<1>8. u \in 0..q /\ t <= Len(f) /\ (~(Len(f) < t + Segment) => u = t + Segment)
  BY <1>2, <1>5
<1>9. /\ block'[c] >= 2
      /\ last'[c] = Data(block'[c] - 1, R!Seg(snap'[c], block'[c] - 1))
      /\ R!Off(block'[c] - 1) <= Len(snap'[c])
      /\ done'[c] <=> Len(snap'[c]) < R!Off(block'[c])
  BY <1>3, <1>4, <1>6, <1>7, <1>8, Zenon
<1>10. \E s \in 0..pos'[c] : /\ buf'[c] = SubSeq(snap'[c], s + 1, pos'[c])
                             /\ ~done'[c] => s = R!Off(block'[c])
  <2>1. u \in 0..pos'[c] /\ buf'[c] = SubSeq(snap'[c], u + 1, pos'[c])
    BY <1>3, <1>8, Zenon
  <2>2. ~done'[c] => u = R!Off(block'[c])
    BY <1>3, <1>4, <1>8, Zenon
  <2> QED
    BY <2>1, <2>2, Zenon
<1>11. files'[name'[c]] = snap'[c] /\ pos'[c] <= Len(snap'[c])
  BY <1>2, <1>3, Zenon
<1>12. name'[c] \notin Unwritable => Writers(name[c])' = {}
  BY Zenon DEF Writers
<1>13. /\ block'[c] >= 2
       /\ last'[c] = Data(block'[c] - 1, R!Seg(snap'[c], block'[c] - 1))
       /\ R!Off(block'[c] - 1) <= Len(snap'[c])
       /\ done'[c] <=> Len(snap'[c]) < R!Off(block'[c])
       /\ pc'[c] = "exited" => done'[c]
  <2>1. pc'[c] # "exited"
    OBVIOUS
  <2> QED
    BY <1>9, <2>1, Zenon
<1>14. pc'[c] = "readwait" =>
         /\ files'[name'[c]] = snap'[c]
         /\ pos'[c] <= Len(snap'[c])
         /\ \E s \in 0..pos'[c] : /\ buf'[c] = SubSeq(snap'[c], s + 1, pos'[c])
                                  /\ ~done'[c] => s = R!Off(block'[c])
  BY <1>10, <1>11
<1>15. pc'[c] = "readwait" /\ name'[c] \notin Unwritable => Writers(name[c])' = {}
  BY <1>12, Zenon
<1> QED
  BY <1>13, <1>14, <1>15, Zenon DEF AtSnapshot

\* read_data ends: the packet it sent last and done stay as they were.
LEMMA ReaderEnds ==
  ASSUME NEW e \in Child, AtSnapshot(e),
         block'[e] = block[e], last'[e] = last[e], snap'[e] = snap[e], done'[e] = done[e],
         pc'[e] # "readwait", pc'[e] = "exited" => done[e]
  PROVE  AtSnapshot(e)'
BY Zenon DEF AtSnapshot

\* fopen fails.
LEMMA NoSuchFileKeeps ==
  ASSUME ServerInv, NEW c \in Child, Read(c), R!NoSuchFile(c)
  PROVE  ServerInv'
<1>1. ServerTypes /\ Handlers
  BY DEF ServerInv
<1>2. /\ pc[c] = "rrq" /\ pc' = [pc EXCEPT ![c] = "exited"]
      /\ R!Exchange({}, {R!Dgram(port[c], peer[c], R!Err(1))})
      /\ files' = files /\ port' = port /\ name' = name /\ block' = block /\ last' = last
      /\ pos' = pos /\ buf' = buf /\ done' = done
  BY DEF R!NoSuchFile
<1>3. \A e \in Child : (e # c => pc'[e] = pc[e]) /\ (e = c => pc'[e] = "exited")
  BY <1>1, <1>2, Zenon DEF ServerTypes
<1>4. pc'[c] # "readwait"
  BY <1>3
<1>5. /\ snap' = snap /\ spoiled' = spoiled /\ got' = got /\ owner' = owner
      /\ tid' = tid /\ listen' = listen /\ buffer' = buffer /\ op' = op /\ inbox' = inbox
  BY <1>4, Zenon DEF Read, mainVars
<1>6. ServerTypes'
  <2>1. R!Dgram(port[c], peer[c], R!Err(1)).pkt = Err(1)
    BY DEF R!Dgram, R!Err, Err, R!Htons, Htons
  <2>2. Err(1) \in Packet
    <3>1. <<>> \in Seq(Byte) /\ 1 \in Nat
      OBVIOUS
    <3> QED
      BY <3>1, Packets, Zenon
  <2>3. net' \subseteq net \cup {R!Dgram(port[c], peer[c], R!Err(1))}
    BY <1>2, Zenon DEF R!Exchange
  <2>4. \A d \in net' : d.pkt \in Packet
    BY <1>1, <2>1, <2>2, <2>3, Zenon DEF ServerTypes
  <2>5. pc' \in [Child -> {"unborn", "forked", "unbound", "rrq", "readwait", "wrq",
                           "writewait", "closing"} \cup Stopped]
    <3>1. "exited" \in Stopped
      BY DEF Stopped
    <3> QED
      BY <1>1, <1>2, <3>1, Zenon DEF ServerTypes
  <2> QED
    BY <1>1, <1>2, <1>5, <2>4, <2>5, Zenon DEF ServerTypes
<1>7. ~(block'[c] > 0)
  <2>1. pc[c] \in {"unborn", "forked", "unbound", "rrq", "wrq"}
    BY <1>2
  <2>2. block'[c] = 0
    BY <1>1, <1>2, <2>1, Zenon DEF Handlers
  <2> QED
    BY <2>2
<1>8. pc[c] \in {"rrq", "readwait"} /\ pc'[c] \in {"readwait", "exited", "timedout"}
  BY <1>2, <1>3
<1> QED
  BY <1>2, <1>3, <1>4, <1>5, <1>6, <1>7, <1>8, ReaderSteps, Zenon

\* fopen succeeds: the child takes the file as it finds it.
LEMMA FirstBlockKeeps ==
  ASSUME ServerInv, NEW c \in Child, Read(c), R!FirstBlock(c)
  PROVE  ServerInv'
<1>1. ServerTypes /\ Handlers
  BY DEF ServerInv
<1>2. /\ pc[c] = "rrq" /\ pc' = [pc EXCEPT ![c] = "readwait"] /\ name[c] \in DOMAIN files
      /\ R!SendBlock(c, 1, {}, peer[c])
      /\ files' = files /\ port' = port /\ name' = name
  BY DEF R!FirstBlock
<1>3. \A e \in Child : (e # c => pc'[e] = pc[e]) /\ (e = c => pc'[e] = "readwait")
  BY <1>1, <1>2, Zenon DEF ServerTypes
<1>4. PICK n : n = name[c] /\ n \in DOMAIN files
  BY <1>2, Zenon
<1>f. PICK f \in Seq(Byte) : f = files[n]
  BY <1>1, <1>4, Zenon DEF ServerTypes
<1>5. /\ snap' = [snap EXCEPT ![c] = f] /\ got' = got /\ owner' = owner
      /\ spoiled' = IF Writers(n) # {} THEN spoiled \cup {c} ELSE spoiled
      /\ tid' = tid /\ listen' = listen /\ buffer' = buffer /\ op' = op /\ inbox' = inbox
  BY <1>2, <1>3, <1>4, <1>f, Zenon DEF Read, mainVars
<1>6. /\ spoiled \subseteq spoiled' /\ spoiled' \subseteq Child
      /\ (Writers(n) # {} => c \in spoiled')
  BY <1>1, <1>5, Zenon DEF ServerTypes
<1>7. 1 \in Nat /\ 1 >= 1 /\ 1 + 1 > 0 /\ 0 \in Nat /\ 0 <= 0 /\ 0 + 1 = 1
  OBVIOUS
<1>8. /\ last' \in [Child -> Packet] /\ pos' \in [Child -> Nat]
      /\ buf' \in [Child -> Seq(Byte)] /\ done' \in [Child -> BOOLEAN]
      /\ block' \in [Child -> Nat] /\ block'[c] > 0
      /\ \A d \in net' : d.pkt \in Packet
      /\ \A e \in Child : e # c =>
             /\ last'[e] = last[e] /\ pos'[e] = pos[e] /\ buf'[e] = buf[e]
             /\ done'[e] = done[e] /\ block'[e] = block[e]
  BY <1>1, <1>2, <1>7, SendsBytes, Zenon
<1>9. ServerTypes'
  <2>1. pc' \in [Child -> {"unborn", "forked", "unbound", "rrq", "readwait", "wrq",
                           "writewait", "closing"} \cup Stopped]
    BY <1>1, <1>2, Zenon DEF ServerTypes
  <2>2. snap' \in [Child -> Seq(Byte)]
    BY <1>1, <1>5, Zenon DEF ServerTypes
  <2> QED
    BY <1>1, <1>2, <1>5, <1>6, <1>8, <2>1, <2>2, Zenon DEF ServerTypes
<1>10. \A e \in Child : e # c => snap'[e] = snap[e]
  BY <1>1, <1>5, Zenon DEF ServerTypes
<1>11. ASSUME c \notin spoiled' PROVE AtSnapshot(c)'
  <2>1. Writers(n) = {}
    BY <1>6, <1>11, Zenon
  <2>2. Writers(n)' = {}
    <3>1. \A e \in Child :
             pc'[e] \in {"writewait", "closing"} => pc[e] \in {"writewait", "closing"}
      BY <1>3
    <3> QED
      BY <1>2, <2>1, <3>1, Zenon DEF Writers
  <2>3. snap'[c] = f /\ pc'[c] = "readwait"
    BY <1>1, <1>3, <1>5, Zenon DEF ServerTypes
  <2>4. pos[c] = 0 /\ buf[c] = <<>>
    <3>1. pc[c] \in {"unborn", "forked", "unbound", "rrq", "wrq"}
      BY <1>2
    <3> QED
      BY <1>1, <3>1, Zenon DEF Handlers
  <2>5. R!Off(1) = 0 /\ Len(f) \in Nat /\ 0 <= Len(f)
    <3>1. Len(f) \in Nat /\ Segment \in Nat
      BY TftpAssumption, LenProperties
    <3> QED
      BY <3>1 DEF R!Off
  <2>6. SubSeq(f, 0 + 1, 0) = <<>>
    BY <1>7
  <2> QED
    BY <1>1, <1>2, <1>4, <1>f, <1>7, <2>2, <2>3, <2>4, <2>5, <2>6, AdvancesAlone, Zenon
<1>12. pc[c] \in {"rrq", "readwait"} /\ pc'[c] \in {"readwait", "exited", "timedout"}
  BY <1>2, <1>3
<1> QED
  BY <1>2, <1>3, <1>5, <1>6, <1>8, <1>9, <1>10, <1>11, <1>12, ReaderSteps, Zenon

\* A datagram comes after a full segment: the next one goes out.
LEMMA NextBlockKeeps ==
  ASSUME ServerInv, NEW c \in Child, Read(c), NEW in, NEW to, pc[c] = "readwait", ~done[c],
         R!SendBlock(c, block[c], in, to), pc' = pc, files' = files, port' = port, name' = name
  PROVE  ServerInv'
<1>1. ServerTypes /\ Handlers /\ Downloading
  BY DEF ServerInv
<1>2. pc[c] # "rrq" /\ pc[c] \in {"rrq", "readwait"} /\ pc'[c] \in {"readwait", "exited", "timedout"}
  OBVIOUS
<1>3. /\ snap' = snap /\ spoiled' = spoiled /\ got' = got /\ owner' = owner
      /\ tid' = tid /\ listen' = listen /\ buffer' = buffer /\ op' = op /\ inbox' = inbox
  BY <1>2, Zenon DEF Read, mainVars
<1>4. PICK n : n = name[c] /\ n \in DOMAIN files
  BY <1>1, Zenon DEF Handlers
<1>5. PICK b \in Nat : b = block[c]
  BY <1>1, Zenon DEF ServerTypes
<1>6. b + 1 > 0
  OBVIOUS
<1>7. /\ last' \in [Child -> Packet] /\ pos' \in [Child -> Nat]
      /\ buf' \in [Child -> Seq(Byte)] /\ done' \in [Child -> BOOLEAN]
      /\ block' \in [Child -> Nat] /\ block'[c] > 0
      /\ \A d \in net' : d.pkt \in Packet
      /\ \A e \in Child : e # c =>
             /\ last'[e] = last[e] /\ pos'[e] = pos[e] /\ buf'[e] = buf[e]
             /\ done'[e] = done[e] /\ block'[e] = block[e]
  BY <1>1, <1>4, <1>5, <1>6, SendsBytes, Zenon
<1>8. ServerTypes'
  BY <1>1, <1>3, <1>7, Zenon DEF ServerTypes
<1>9. ASSUME c \notin spoiled PROVE AtSnapshot(c)'
  <2>1. AtSnapshot(c)
    <3>1. op[c] = 1 /\ block[c] > 0
      BY <1>1, <1>2, Zenon DEF Handlers
    <3> QED
      BY <1>1, <1>9, <3>1, Zenon DEF Downloading
  <2>2. PICK f \in Seq(Byte), p \in Nat : f = snap[c] /\ p = pos[c]
    BY <1>1, Zenon DEF ServerTypes
  <2>3. PICK t \in 0..p : buf[c] = SubSeq(f, t + 1, p) /\ t = R!Off(b)
    BY <1>5, <2>1, <2>2, Zenon DEF AtSnapshot
  <2>4. f = files[n] /\ p <= Len(f) /\ b >= 2
    BY <1>4, <1>5, <2>1, <2>2, Zenon DEF AtSnapshot
  <2>5. t \in Nat /\ t <= p /\ b >= 1
    BY <2>3, <2>4
  <2>6. n \notin Unwritable => Writers(n)' = {}
    BY <1>4, <2>1, Zenon DEF AtSnapshot, Writers
  <2>7. snap'[c] = f /\ pc'[c] = "readwait"
    BY <1>3, <2>2, Zenon
  <2> QED
    BY <1>1, <1>4, <1>5, <2>2, <2>3, <2>4, <2>5, <2>6, <2>7, AdvancesAlone, Zenon
<1> QED
  BY <1>2, <1>3, <1>4, <1>7, <1>8, <1>9, ReaderSteps, Zenon

\* recvfrom returns after the short segment, or times out: nothing is read from the file.
LEMMA ReaderWaits ==
  ASSUME ServerInv, NEW c \in Child, Read(c), pc[c] = "readwait",
         NEW at \in {"readwait", "exited", "timedout"}, pc' = [pc EXCEPT ![c] = at],
         at = "exited" => done[c], \A d \in net' : d.pkt \in Packet,
         files' = files, port' = port, name' = name, block' = block, last' = last,
         pos' = pos, buf' = buf, done' = done
  PROVE  ServerInv'
<1>1. ServerTypes /\ Handlers /\ Downloading
  BY DEF ServerInv
<1>2. pc[c] # "rrq" /\ pc[c] \in {"rrq", "readwait"}
  OBVIOUS
<1>3. /\ snap' = snap /\ spoiled' = spoiled /\ got' = got /\ owner' = owner
      /\ tid' = tid /\ listen' = listen /\ buffer' = buffer /\ op' = op /\ inbox' = inbox
  BY <1>2, Zenon DEF Read, mainVars
<1>4. \A e \in Child : (e # c => pc'[e] = pc[e]) /\ (e = c => pc'[e] = at)
  BY <1>1, Zenon DEF ServerTypes
<1>5. ServerTypes'
  <2>1. at \in {"unborn", "forked", "unbound", "rrq", "readwait", "wrq", "writewait",
                "closing"} \cup Stopped
    BY DEF Stopped
  <2>2. pc' \in [Child -> {"unborn", "forked", "unbound", "rrq", "readwait", "wrq",
                           "writewait", "closing"} \cup Stopped]
    BY <1>1, <2>1, Zenon DEF ServerTypes
  <2> QED
    BY <1>1, <1>3, <2>2, Zenon DEF ServerTypes
<1>6. block[c] > 0 /\ name[c] \in DOMAIN files /\ op[c] = 1
  BY <1>1, <1>2, Zenon DEF Handlers
<1>7. ASSUME c \notin spoiled PROVE AtSnapshot(c)'
  <2>1. AtSnapshot(c)
    BY <1>1, <1>6, <1>7, Zenon DEF Downloading
  <2>2. CASE at = "readwait"
    <3>1. PICK n : n = name[c]
      OBVIOUS
    <3>2. pc' = pc
      BY <1>1, <2>2, Zenon DEF ServerTypes
    <3>3. n \notin Unwritable => Writers(n)' = {}
      BY <2>1, <3>1, <3>2, Zenon DEF AtSnapshot, Writers
    <3> QED
      BY <1>3, <2>1, <3>1, <3>2, <3>3, ReaderUnconcerned, Zenon
  <2>3. CASE at # "readwait"
    BY <1>3, <1>4, <2>1, <2>3, ReaderEnds, Zenon
  <2> QED
    BY <2>2, <2>3
<1> QED
  BY <1>2, <1>3, <1>4, <1>5, <1>6, <1>7, ReaderSteps, Zenon

\* read_data keeps the invariant.
LEMMA ReadKeeps ==
  ASSUME ServerInv, NEW c \in Child, Read(c)
  PROVE  ServerInv'
<1>1. ServerTypes
  BY DEF ServerInv
<1>2. CASE R!NoSuchFile(c)
  BY <1>2, NoSuchFileKeeps, Zenon
<1>3. CASE R!FirstBlock(c)
  BY <1>3, FirstBlockKeeps, Zenon
<1>4. ASSUME NEW d \in net, R!Answered(c, d) PROVE ServerInv'
  <2>1. /\ pc[c] = "readwait" /\ files' = files /\ port' = port /\ name' = name
        /\ \/ /\ done[c] /\ pc' = [pc EXCEPT ![c] = "exited"] /\ R!Exchange({d}, {})
              /\ block' = block /\ last' = last /\ pos' = pos /\ buf' = buf /\ done' = done
           \/ /\ ~done[c] /\ R!SendBlock(c, block[c], {d}, d.src) /\ pc' = pc
    BY <1>4 DEF R!Answered
  <2>2. CASE ~done[c]
    BY <2>1, <2>2, NextBlockKeeps, Zenon
  <2>3. CASE done[c]
    <3>1. net' \subseteq net
      BY <2>1, <2>3, Zenon DEF R!Exchange
    <3>2. \A k \in net' : k.pkt \in Packet
      BY <1>1, <3>1, Zenon DEF ServerTypes
    <3>3. "exited" \in {"readwait", "exited", "timedout"}
      OBVIOUS
    <3> QED
      BY <2>1, <2>3, <3>2, <3>3, ReaderWaits, Zenon
  <2> QED
    BY <2>2, <2>3
<1>5. CASE R!ReadTimeout(c)
  <2>1. /\ pc[c] = "readwait" /\ files' = files /\ port' = port /\ name' = name
        /\ block' = block /\ last' = last /\ pos' = pos /\ buf' = buf /\ done' = done
        /\ R!Exchange({}, {R!Dgram(port[c], peer[c], last[c])})
        /\ pc' = [pc EXCEPT ![c] = IF timeouts'[c] = MaxTimeouts THEN "timedout" ELSE @]
    BY <1>5 DEF R!ReadTimeout
  <2>2. PICK at \in {"readwait", "exited", "timedout"} :
           at # "exited" /\ pc' = [pc EXCEPT ![c] = at]
    <3>1. CASE timeouts'[c] = MaxTimeouts
      <4>1. pc' = [pc EXCEPT ![c] = "timedout"]
        BY <2>1, <3>1, Zenon
      <4> QED
        BY <4>1
    <3>2. CASE timeouts'[c] # MaxTimeouts
      <4>1. pc' = [pc EXCEPT ![c] = "readwait"]
        BY <2>1, <3>2, Zenon
      <4> QED
        BY <4>1
    <3> QED
      BY <3>1, <3>2
  <2>3. \A d \in net' : d.pkt \in Packet
    <3>1. R!Dgram(port[c], peer[c], last[c]).pkt = last[c] /\ last[c] \in Packet
      BY <1>1 DEF R!Dgram, ServerTypes
    <3>2. net' \subseteq net \cup {R!Dgram(port[c], peer[c], last[c])}
      BY <2>1, Zenon DEF R!Exchange
    <3> QED
      BY <1>1, <3>1, <3>2, Zenon DEF ServerTypes
  <2> QED
    BY <2>1, <2>2, <2>3, ReaderWaits, Zenon
<1> QED
  BY <1>2, <1>3, <1>4, <1>5, Zenon DEF Read, R!ReadStep

----------------------------------------------------------------------------
\* What fprintf takes, and what stdio writes, are bytes.
LEMMA StoresBytes ==
  /\ \A s \in Seq(Byte) : W!CString(s) \in Seq(Byte)
  /\ \A f, s \in Seq(Byte) : \A at \in Nat : W!WriteAt(f, at, s) \in Seq(Byte)
<1>1. ASSUME NEW s \in Seq(Byte) PROVE W!CString(s) \in Seq(Byte)
  <2>1. WP!CString(s) \in Seq(Byte)
    BY WP!CStringBytes, TftpAssumption, ChildAssumption, ServerAssumption, BlendAssumption,
       Assumptions, Zenon
  <2> QED
    BY <2>1, Zenon DEF WP!CString, W!CString
<1>2. ASSUME NEW f \in Seq(Byte), NEW s \in Seq(Byte), NEW at \in Nat
      PROVE  W!WriteAt(f, at, s) \in Seq(Byte)
  <2>1. WP!WriteAt(f, at, s) \in Seq(Byte)
    BY WP!WriteAtBytes, TftpAssumption, ChildAssumption, ServerAssumption, BlendAssumption,
       Assumptions, Zenon
  <2> QED
    BY <2>1, Zenon DEF WP!WriteAt, W!WriteAt
<1> QED
  BY <1>1, <1>2, Zenon

\* A stream at the end of its file passes on any part of what it holds.
LEMMA Appends ==
  ASSUME NEW f \in Seq(Byte), NEW held \in Seq(Byte), NEW k \in 0..Len(held)
  PROVE  /\ W!WriteAt(f, Len(f), SubSeq(held, 1, k)) \o SubSeq(held, k + 1, Len(held))
               = f \o held
         /\ Len(W!WriteAt(f, Len(f), SubSeq(held, 1, k))) = Len(f) + k
         /\ k = Len(held) => SubSeq(held, k + 1, Len(held)) = <<>>
<1>1. /\ WP!WriteAt(f, Len(f), SubSeq(held, 1, k)) \o SubSeq(held, k + 1, Len(held))
            = f \o held
      /\ Len(WP!WriteAt(f, Len(f), SubSeq(held, 1, k))) = Len(f) + k
      /\ k = Len(held) => SubSeq(held, k + 1, Len(held)) = <<>>
  BY WP!Appended, TftpAssumption, ChildAssumption, ServerAssumption, BlendAssumption,
     Assumptions, Zenon
<1>2. WP!WriteAt(f, Len(f), SubSeq(held, 1, k)) = W!WriteAt(f, Len(f), SubSeq(held, 1, k))
  BY Zenon DEF WP!WriteAt, W!WriteAt
<1> QED
  BY <1>1, <1>2, Zenon

\* What a flush does, wherever in its file the stream is: only that file changes.
OnlyItsFile(c, n) ==
    /\ DOMAIN files' = DOMAIN files
    /\ \A m \in DOMAIN files : files'[m] \in Seq(Byte)
    /\ \A m \in DOMAIN files : m # n => files'[m] = files[m]
    /\ n \in Unwritable => files' = files
    /\ pos' \in [Child -> Nat] /\ buf' \in [Child -> Seq(Byte)]
    /\ \A e \in Child : e # c => pos'[e] = pos[e] /\ buf'[e] = buf[e]

LEMMA Flushed ==
  ASSUME ServerTypes, NEW c \in Child, NEW n, n = name[c],
         n \notin Unwritable => n \in DOMAIN files,
         NEW held \in Seq(Byte), NEW k \in 0..Len(held), W!Flush(c, held, k)
  PROVE  OnlyItsFile(c, n)
<1>1. k \in Nat /\ k <= Len(held) /\ Len(held) \in Nat /\ 0 \in Nat /\ 0 <= k /\ 0 + 1 = 1
      /\ Len(held) <= Len(held)
  BY LenProperties
<1>2. PICK u \in Seq(Byte), v \in Seq(Byte) :
         u = SubSeq(held, 1, k) /\ v = SubSeq(held, k + 1, Len(held))
  <2>1. SubSeq(held, 0 + 1, k) \in Seq(Byte) /\ SubSeq(held, k + 1, Len(held)) \in Seq(Byte)
    BY <1>1, Piece, Zenon
  <2> QED
    BY <1>1, <2>1, Zenon
<1>3. PICK p \in Nat, q \in Nat : p = pos[c] /\ q = pos[c] + k
  <2>1. pos[c] \in Nat
    BY Zenon DEF ServerTypes
  <2> QED
    BY <1>1, <2>1
<1>4. /\ n \in Unwritable => files' = files
      /\ n \notin Unwritable => files' = W!WithFile(n, W!WriteAt(files[n], p, u))
      /\ pos' = [pos EXCEPT ![c] = q] /\ buf' = [buf EXCEPT ![c] = v]
  BY <1>2, <1>3, Zenon DEF W!Flush
<1>5. /\ pos' \in [Child -> Nat] /\ buf' \in [Child -> Seq(Byte)]
      /\ \A e \in Child : e # c => pos'[e] = pos[e] /\ buf'[e] = buf[e]
  BY <1>4, Zenon DEF ServerTypes
<1>6. CASE n \in Unwritable
  BY <1>4, <1>5, <1>6, Zenon DEF ServerTypes, OnlyItsFile
<1>7. CASE n \notin Unwritable
  <2>1. n \in DOMAIN files /\ files[n] \in Seq(Byte)
    BY <1>7, Zenon DEF ServerTypes
  <2>2. PICK g \in Seq(Byte) : g = W!WriteAt(files[n], p, u)
    BY <2>1, StoresBytes, Zenon
  <2>3. files' = [m \in DOMAIN files \cup {n} |-> IF m = n THEN g ELSE files[m]]
    BY <1>4, <1>7, <2>2, Zenon DEF W!WithFile
  <2>4. DOMAIN files' = DOMAIN files
    BY <2>1, <2>3, Zenon
  <2>5. files'[n] = g /\ \A m \in DOMAIN files : m # n => files'[m] = files[m]
    BY <2>1, <2>3, Zenon
  <2>6. \A m \in DOMAIN files : files'[m] \in Seq(Byte)
    BY <2>5, Zenon DEF ServerTypes
  <2> QED
    BY <1>5, <1>7, <2>4, <2>5, <2>6, Zenon DEF OnlyItsFile
<1> QED
  BY <1>6, <1>7

\* A flush at the end of the file: file and stream together hold what they were to.
AllHeld(c, n, held, k) ==
    /\ files'[n] \o buf'[c] = files[n] \o held
    /\ Len(files'[n]) = pos'[c]
    /\ k = Len(held) => buf'[c] = <<>>

LEMMA FlushedAtEnd ==
  ASSUME ServerTypes, NEW c \in Child, NEW n, n = name[c], n \notin Unwritable,
         n \in DOMAIN files, Len(files[n]) = pos[c],
         NEW held \in Seq(Byte), NEW k \in 0..Len(held), W!Flush(c, held, k)
  PROVE  AllHeld(c, n, held, k)
<1>1. PICK f \in Seq(Byte) : f = files[n] /\ Len(f) = pos[c]
  BY Zenon DEF ServerTypes
<1>2. PICK g, v : /\ g = W!WriteAt(f, Len(f), SubSeq(held, 1, k))
                  /\ v = SubSeq(held, k + 1, Len(held))
  OBVIOUS
<1>s. g \o v = f \o held /\ Len(g) = Len(f) + k /\ (k = Len(held) => v = <<>>)
  BY <1>2, Appends, Zenon
<1>3. /\ files' = W!WithFile(n, g)
      /\ pos' = [pos EXCEPT ![c] = pos[c] + k] /\ buf' = [buf EXCEPT ![c] = v]
  BY <1>1, <1>2, Zenon DEF W!Flush
<1>4. files'[n] = g
  BY <1>3, Zenon DEF W!WithFile
<1>5. pos'[c] = Len(f) + k /\ buf'[c] = v
  BY <1>1, <1>3, Zenon DEF ServerTypes
<1> QED
  BY <1>1, <1>s, <1>4, <1>5, Zenon DEF AllHeld

\* block++ and the ACK.
LEMMA Acknowledged ==
  ASSUME ServerTypes, NEW c \in Child, NEW in, NEW to, W!Acknowledge(c, in, to)
  PROVE  /\ block' \in [Child -> Nat] /\ last' \in [Child -> Packet]
         /\ \A d \in net' : d.pkt \in Packet
         /\ \A e \in Child : e # c => block'[e] = block[e] /\ last'[e] = last[e]
<1>1. PICK b \in Nat : b = block[c] + 1
  <2>1. block[c] \in Nat
    BY Zenon DEF ServerTypes
  <2> QED
    BY <2>1
<1>2. PICK k \in Packet : k = Ack(b)
  <2>1. <<>> \in Seq(Byte)
    OBVIOUS
  <2> QED
    BY <2>1, Packets, Zenon
<1>3. W!Ack(b) = k
  BY <1>2, Zenon DEF W!Ack, Ack, W!Htons, Htons
<1>4. /\ block' = [block EXCEPT ![c] = b] /\ last' = [last EXCEPT ![c] = k]
      /\ W!Exchange(in, {W!Dgram(port[c], to, k)})
  BY <1>1, <1>3, Zenon DEF W!Acknowledge
<1>5. \A d \in net' : d.pkt \in Packet
  <2>1. W!Dgram(port[c], to, k).pkt = k
    BY DEF W!Dgram
  <2>2. net' \subseteq net \cup {W!Dgram(port[c], to, k)}
    BY <1>4, Zenon DEF W!Exchange
  <2> QED
    BY <2>1, <2>2, Zenon DEF ServerTypes
<1> QED
  BY <1>4, <1>5, Zenon DEF ServerTypes

----------------------------------------------------------------------------
\* A step of write_data changes no other child and no file but its own, which nobody
\* reads who was left alone with it; what it does for the owner of that file is a
\* hypothesis.
LEMMA WriterSteps ==
  ASSUME ServerInv, ServerTypes', NEW c \in Child, NEW n, n = name[c],
         name' = name, op' = op, done' = done, snap' = snap, spoiled \subseteq spoiled',
         \A e \in Child : e # c =>
             /\ pc'[e] = pc[e] /\ block'[e] = block[e] /\ last'[e] = last[e]
             /\ pos'[e] = pos[e] /\ buf'[e] = buf[e] /\ got'[e] = got[e],
         pc[c] \in {"wrq", "writewait", "closing"},
         pc'[c] \in {"writewait", "closing"} \cup Stopped,
         DOMAIN files \subseteq DOMAIN files',
         \A m \in DOMAIN files : m # n => files'[m] = files[m],
         n \in Unwritable => files' = files,
         pc'[c] \in {"writewait", "closing"} /\ n \notin Unwritable => n \in DOMAIN files',
         pc[c] = "wrq" /\ n \notin Unwritable => Readers(n) \subseteq spoiled',
         \A m \in Name : m # n \/ n \in Unwritable => owner'[m] = owner[m],
         \A e \in Child : e \notin spoiled' /\ n \in Name /\ n \notin Unwritable
                              /\ owner'[n] = {e} => HoldsAll(n, e)'
  PROVE  ServerInv'
<1>1. ServerTypes /\ Handlers /\ Downloading /\ Uploading
  BY DEF ServerInv
<1>2. /\ op[c] = 2 /\ 2 # 1 /\ pc'[c] \notin {"unborn", "forked", "unbound", "rrq", "wrq"}
      /\ pc'[c] \notin {"rrq", "readwait"} /\ pc'[c] # "readwait"
  BY <1>1 DEF Handlers, Stopped
<1>3. Handlers'
  <2> SUFFICES ASSUME NEW e \in Child
               PROVE  /\ pc'[e] \in {"unborn", "forked", "unbound", "rrq", "wrq"} =>
                             block'[e] = 0 /\ pos'[e] = 0 /\ buf'[e] = <<>> /\ got'[e] = <<>>
                      /\ pc'[e] \in {"rrq", "readwait"} => op'[e] = 1
                      /\ pc'[e] \in {"wrq", "writewait", "closing"} => op'[e] = 2
                      /\ pc'[e] = "readwait" => block'[e] > 0 /\ name'[e] \in DOMAIN files'
                      /\ pc'[e] \in {"writewait", "closing"} /\ name'[e] \notin Unwritable =>
                             name'[e] \in DOMAIN files'
    BY Zenon DEF Handlers
  <2>1. CASE e # c
    BY <1>1, <2>1, Zenon DEF Handlers
  <2>2. CASE e = c
    BY <1>2, <2>2, Zenon
  <2> QED
    BY <2>1, <2>2
<1>4. \A m : m # n => Writers(m)' = Writers(m)
  BY Zenon DEF Writers
<1>5. Downloading'
  <2> SUFFICES ASSUME NEW e \in Child, e \notin spoiled', op[e] = 1, block'[e] > 0
               PROVE  AtSnapshot(e)'
    BY Zenon DEF Downloading
  <2>1. e # c
    BY <1>2, Zenon
  <2>2. AtSnapshot(e)
    BY <1>1, <2>1, Zenon DEF Downloading
  <2>3. PICK m : m = name[e]
    OBVIOUS
  <2>4. ASSUME pc[e] = "readwait"
        PROVE  files'[m] = files[m] /\ (m \notin Unwritable => Writers(m)' = {})
    <3>1. m \in DOMAIN files /\ (m \notin Unwritable => Writers(m) = {})
      BY <1>1, <2>2, <2>3, <2>4, Zenon DEF Handlers, AtSnapshot
    <3>2. CASE m # n
      BY <1>4, <3>1, <3>2, Zenon
    <3>3. CASE m = n /\ n \in Unwritable
      BY <3>3, Zenon
    <3>4. CASE m = n /\ n \notin Unwritable
      <4>1. pc[c] \notin {"writewait", "closing"}
        BY <3>1, <3>4, Zenon DEF Writers
      <4>2. pc[c] = "wrq"
        BY <4>1
      <4>3. e \in Readers(n)
        BY <2>3, <2>4, <3>4, Zenon DEF Readers
      <4> QED
        BY <3>4, <4>2, <4>3, Zenon
    <3> QED
      BY <3>2, <3>3, <3>4, Zenon
  <2> QED
    BY <2>1, <2>2, <2>3, <2>4, ReaderUnconcerned, Zenon
<1>6. Uploading'
  <2> SUFFICES ASSUME NEW m \in Name, NEW e \in Child, e \notin spoiled', owner'[m] = {e}
               PROVE  HoldsAll(m, e)'
    BY Zenon DEF Uploading
  <2>1. CASE m = n /\ n \notin Unwritable
    BY <2>1, Zenon
  <2>2. CASE m # n \/ n \in Unwritable
    <3>1. HoldsAll(m, e)
      BY <1>1, <2>2, Zenon DEF Uploading
    <3>2. m # n /\ e # c /\ m \in DOMAIN files
      <4>1. name[e] = m /\ m \notin Unwritable /\ m \in DOMAIN files
        BY <3>1, Zenon DEF HoldsAll
      <4> QED
        BY <2>2, <4>1
    <3>3. Writers(m)' \subseteq {e}
      <4>1. Writers(m) \subseteq {e}
        BY <3>1, Zenon DEF HoldsAll
      <4>2. Writers(m)' = Writers(m)
        BY <1>4, <3>2, Zenon
      <4> QED
        BY <4>1, <4>2, Zenon
    <3>4. m \in DOMAIN files' /\ files'[m] = files[m]
      BY <3>2, Zenon
    <3> QED
      BY <3>1, <3>2, <3>3, <3>4, HolderUnconcerned, Zenon
  <2> QED
    BY <2>1, <2>2, Zenon
<1> QED
  BY <1>3, <1>5, <1>6, Zenon DEF ServerInv

\* A child that has opened its file goes on. If some child still holds all of the file
\* then it is this one, and file and stream together hold what it took.
LEMMA WriterGoesOn ==
  ASSUME ServerInv, ServerTypes', NEW c \in Child, NEW n, n = name[c],
         name' = name, op' = op, done' = done, snap' = snap, spoiled' = spoiled, owner' = owner,
         \A e \in Child : e # c =>
             /\ pc'[e] = pc[e] /\ block'[e] = block[e] /\ last'[e] = last[e]
             /\ pos'[e] = pos[e] /\ buf'[e] = buf[e] /\ got'[e] = got[e],
         pc[c] \in {"writewait", "closing"},
         pc'[c] \in {"writewait", "closing"} \cup Stopped,
         DOMAIN files' = DOMAIN files,
         \A m \in DOMAIN files : m # n => files'[m] = files[m],
         n \in Unwritable => files' = files,
         n \notin Unwritable /\ n \in DOMAIN files
             /\ got[c] = files[n] \o buf[c] /\ Len(files[n]) = pos[c] =>
                 /\ got'[c] = files'[n] \o buf'[c] /\ Len(files'[n]) = pos'[c]
                 /\ pc'[c] \in Stopped => buf'[c] = <<>>
  PROVE  ServerInv'
<1>1. Handlers /\ Uploading
  BY DEF ServerInv
<1>2. pc[c] # "wrq" /\ pc[c] \in {"wrq", "writewait", "closing"}
  OBVIOUS
<1>3. n \notin Unwritable => n \in DOMAIN files
  BY <1>1, Zenon DEF Handlers
<1>4. ASSUME NEW e \in Child, e \notin spoiled', n \in Name, n \notin Unwritable, owner'[n] = {e}
      PROVE  HoldsAll(n, e)'
  <2>1. HoldsAll(n, e)
    BY <1>1, <1>4, Zenon DEF Uploading
  <2>2. c \in Writers(n)
    BY Zenon DEF Writers
  <2>3. e = c
    BY <2>1, <2>2, Zenon DEF HoldsAll
  <2>4. Writers(n)' \subseteq {c}
    <3>1. Writers(n) \subseteq {c}
      BY <2>1, <2>3, Zenon DEF HoldsAll
    <3>2. \A x \in Child : x \in Writers(n)' => x \in Writers(n)
      BY <2>2, Zenon DEF Writers
    <3>3. Writers(n)' \subseteq Child
      BY Zenon DEF Writers
    <3> QED
      BY <3>1, <3>2, <3>3, Zenon
  <2>5. /\ got'[c] = files'[n] \o buf'[c] /\ Len(files'[n]) = pos'[c]
        /\ pc'[c] \in Stopped => buf'[c] = <<>>
    BY <1>3, <1>4, <2>1, <2>3, Zenon DEF HoldsAll
  <2>6. n \in DOMAIN files' /\ name'[c] = n
    BY <1>3, <1>4, Zenon
  <2>7. HoldsAll(n, c)'
    BY <1>4, <2>4, <2>5, <2>6, Zenon DEF HoldsAll
  <2> QED
    BY <2>3, <2>7, Zenon
<1> QED
  BY <1>2, <1>3, <1>4, WriterSteps, Zenon

----------------------------------------------------------------------------
\* fopen(file, "w"): the child becomes the owner of an empty file.
LEMMA OpenKeeps ==
  ASSUME ServerInv, NEW c \in Child, OpenForWriting(c), done' = done, UNCHANGED mainVars
  PROVE  ServerInv'
<1>1. ServerTypes /\ Handlers
  BY DEF ServerInv
<1>2. PICK n : n = name[c]
  OBVIOUS
<1>3. /\ pc[c] = "wrq" /\ pc' = [pc EXCEPT ![c] = "writewait"]
      /\ last' = [last EXCEPT ![c] = W!Ack(0)]
      /\ W!Exchange({}, {W!Dgram(port[c], peer[c], W!Ack(0))})
      /\ port' = port /\ name' = name /\ block' = block /\ pos' = pos /\ buf' = buf
      /\ snap' = snap /\ got' = got
  BY DEF OpenForWriting, W!Start
<1>4. tid' = tid /\ listen' = listen /\ buffer' = buffer /\ op' = op /\ inbox' = inbox
  BY DEF mainVars
<1>5. /\ n \in Unwritable => files' = files /\ owner' = owner /\ spoiled' = spoiled
      /\ n \notin Unwritable =>
             /\ files' = W!WithFile(n, <<>>) /\ owner' = [owner EXCEPT ![n] = {c}]
             /\ spoiled' = spoiled \cup Readers(n) \cup Writers(n)
                                   \cup {e \in {c} : Writers(n) # {}}
  <2>1. CASE n \in Unwritable
    BY <1>2, <2>1, Zenon DEF OpenForWriting, W!Start
  <2>2. CASE n \notin Unwritable
    BY <1>2, <2>2, Zenon DEF OpenForWriting, W!Start
  <2> QED
    BY <2>1, <2>2, Zenon
<1>6. PICK k \in Packet : k = W!Ack(0)
  <2>1. <<>> \in Seq(Byte) /\ 0 \in Nat
    OBVIOUS
  <2>2. Ack(0) \in Packet
    BY <2>1, Packets, Zenon
  <2> QED
    BY <2>2, Zenon DEF W!Ack, Ack, W!Htons, Htons
<1>7. \A d \in net' : d.pkt \in Packet
  <2>1. W!Dgram(port[c], peer[c], k).pkt = k
    BY DEF W!Dgram
  <2>2. net' \subseteq net \cup {W!Dgram(port[c], peer[c], k)}
    BY <1>3, <1>6, Zenon DEF W!Exchange
  <2> QED
    BY <1>1, <2>1, <2>2, Zenon DEF ServerTypes
<1>8. /\ DOMAIN files \subseteq DOMAIN files'
      /\ \A m \in DOMAIN files' : files'[m] \in Seq(Byte)
      /\ \A m \in DOMAIN files : m # n => files'[m] = files[m]
      /\ n \notin Unwritable => n \in DOMAIN files' /\ files'[n] = <<>>
  <2>1. CASE n \in Unwritable
    BY <1>1, <1>5, <2>1, Zenon DEF ServerTypes
  <2>2. CASE n \notin Unwritable
    <3>1. files' = [m \in DOMAIN files \cup {n} |-> IF m = n THEN <<>> ELSE files[m]]
      BY <1>5, <2>2, Zenon DEF W!WithFile
    <3>2. <<>> \in Seq(Byte)
      OBVIOUS
    <3>3. DOMAIN files' = DOMAIN files \cup {n} /\ files'[n] = <<>>
      BY <3>1, Zenon
    <3>4. \A m \in DOMAIN files : m # n => files'[m] = files[m]
      BY <3>1, Zenon
    <3> QED
      BY <1>1, <3>2, <3>3, <3>4, Zenon DEF ServerTypes
  <2> QED
    BY <2>1, <2>2, Zenon
<1>9. spoiled \subseteq spoiled' /\ spoiled' \subseteq Child
  <2>1. Readers(n) \subseteq Child /\ Writers(n) \subseteq Child /\ spoiled \subseteq Child
    BY <1>1, Zenon DEF Readers, Writers, ServerTypes
  <2> QED
    BY <1>5, <2>1, Zenon
<1>10. owner' \in [Name -> SUBSET Child] /\ \A m \in Name : m # n => owner'[m] = owner[m]
  <2>1. {c} \in SUBSET Child
    OBVIOUS
  <2> QED
    BY <1>1, <1>5, <2>1, Zenon DEF ServerTypes
<1>11. ServerTypes'
  <2>1. /\ pc' \in [Child -> {"unborn", "forked", "unbound", "rrq", "readwait", "wrq",
                              "writewait", "closing"} \cup Stopped]
        /\ last' \in [Child -> Packet]
    BY <1>1, <1>3, <1>6, Zenon DEF ServerTypes
  <2> QED
    BY <1>1, <1>3, <1>4, <1>7, <1>8, <1>9, <1>10, <2>1, Zenon DEF ServerTypes
<1>12. \A e \in Child : /\ e # c => pc'[e] = pc[e] /\ last'[e] = last[e]
                        /\ e = c => pc'[e] = "writewait"
  BY <1>1, <1>3, Zenon DEF ServerTypes
<1>13. ASSUME NEW e \in Child, e \notin spoiled', n \in Name, n \notin Unwritable,
              owner'[n] = {e}
       PROVE  HoldsAll(n, e)'
  <2>1. e = c
    <3>1. owner'[n] = {c}
      BY <1>1, <1>5, <1>13, Zenon DEF ServerTypes
    <3> QED
      BY <1>13, <3>1, Zenon
  <2>2. Writers(n) = {}
    BY <1>5, <1>13, <2>1, Zenon
  <2>3. Writers(n)' \subseteq {c}
    BY <1>3, <1>12, <2>2, Zenon DEF Writers
  <2>4. pos[c] = 0 /\ buf[c] = <<>> /\ got[c] = <<>>
    <3>1. pc[c] \in {"unborn", "forked", "unbound", "rrq", "wrq"}
      BY <1>3
    <3> QED
      BY <1>1, <3>1, Zenon DEF Handlers
  <2>5. <<>> \o <<>> = <<>> /\ Len(<<>>) = 0
    OBVIOUS
  <2>6. got'[c] = files'[n] \o buf'[c] /\ Len(files'[n]) = pos'[c]
    BY <1>3, <1>8, <1>13, <2>4, <2>5, Zenon
  <2>7. pc'[c] \in {"writewait", "closing"} \cup Stopped /\ pc'[c] \notin Stopped
    BY <1>12 DEF Stopped
  <2>8. name'[c] = n /\ n \in DOMAIN files'
    BY <1>2, <1>3, <1>8, <1>13, Zenon
  <2>9. HoldsAll(n, c)'
    BY <1>13, <2>3, <2>6, <2>7, <2>8, Zenon DEF HoldsAll
  <2> QED
    BY <2>1, <2>9, Zenon
<1>14. n \notin Unwritable => Readers(n) \subseteq spoiled'
  BY <1>5, Zenon
<1>15. \A m \in Name : m # n \/ n \in Unwritable => owner'[m] = owner[m]
  BY <1>5, <1>10, Zenon
<1>16. /\ pc[c] \in {"wrq", "writewait", "closing"}
       /\ pc'[c] \in {"writewait", "closing"} \cup Stopped
  BY <1>3, <1>12
<1> QED
  BY <1>2, <1>3, <1>4, <1>5, <1>8, <1>9, <1>11, <1>12, <1>13, <1>14, <1>15, <1>16, WriterSteps,
     Zenon

\* A datagram is stored: what was taken from it is in the file or the stream.
LEMMA StoredKeeps ==
  ASSUME ServerInv, NEW c \in Child, NEW d \in net, W!Stored(c, d),
         got' = [got EXCEPT ![c] = @ \o W!CString(d.pkt.data)],
         snap' = snap, owner' = owner, spoiled' = spoiled, done' = done, UNCHANGED mainVars
  PROVE  ServerInv'
<1>1. ServerTypes /\ Handlers
  BY DEF ServerInv
<1>2. PICK n : n = name[c]
  OBVIOUS
<1>3. PICK s \in Seq(Byte) : s = W!CString(d.pkt.data)
  <2>1. d.pkt \in Packet
    BY <1>1, Zenon DEF ServerTypes
  <2>2. d.pkt.data \in Seq(Byte)
    BY <2>1 DEF Packet
  <2> QED
    BY <2>2, StoresBytes, Zenon
<1>4. PICK h \in Seq(Byte), g \in Seq(Byte) : h = buf[c] /\ g = got[c]
  BY <1>1, Zenon DEF ServerTypes
<1>5. PICK held \in Seq(Byte) : held = h \o s
  BY ConcatProperties, Zenon
<1>6. PICK from \in Peer, k \in 0..Len(held) :
         /\ W!Returned(c, d, from) /\ W!Flush(c, held, k)
         /\ W!Acknowledge(c, {d}, from) /\ W!Continue(c, d.pkt.data)
  BY <1>3, <1>4, <1>5, Zenon DEF W!Stored
<1>7. pc[c] = "writewait" /\ port' = port /\ name' = name
  BY <1>6 DEF W!Returned
<1>8. tid' = tid /\ listen' = listen /\ buffer' = buffer /\ op' = op /\ inbox' = inbox
  BY DEF mainVars
<1>9. pc[c] \in {"writewait", "closing"}
  BY <1>7
<1>10. n \notin Unwritable => n \in DOMAIN files
  BY <1>1, <1>2, <1>9, Zenon DEF Handlers
<1>11. /\ DOMAIN files' = DOMAIN files
       /\ \A m \in DOMAIN files : files'[m] \in Seq(Byte)
       /\ \A m \in DOMAIN files : m # n => files'[m] = files[m]
       /\ n \in Unwritable => files' = files
       /\ pos' \in [Child -> Nat] /\ buf' \in [Child -> Seq(Byte)]
       /\ \A e \in Child : e # c => pos'[e] = pos[e] /\ buf'[e] = buf[e]
  <2>1. OnlyItsFile(c, n)
    BY <1>1, <1>2, <1>6, <1>10, Flushed, Zenon
  <2> QED
    BY <2>1, Zenon DEF OnlyItsFile
<1>12. /\ block' \in [Child -> Nat] /\ last' \in [Child -> Packet]
       /\ \A x \in net' : x.pkt \in Packet
       /\ \A e \in Child : e # c => block'[e] = block[e] /\ last'[e] = last[e]
  BY <1>1, <1>6, Acknowledged, Zenon
<1>13. PICK at \in {"writewait", "closing"} : pc' = [pc EXCEPT ![c] = at]
  <2>1. CASE Len(d.pkt.data) < Segment
    <3>1. pc' = [pc EXCEPT ![c] = "closing"]
      BY <1>6, <2>1, Zenon DEF W!Continue
    <3> QED
      BY <3>1
  <2>2. CASE ~(Len(d.pkt.data) < Segment)
    <3>1. pc' = [pc EXCEPT ![c] = "writewait"]
      BY <1>6, <1>7, <2>2, Zenon DEF W!Continue
    <3> QED
      BY <3>1
  <2> QED
    BY <2>1, <2>2
<1>14. \A e \in Child : (e # c => pc'[e] = pc[e]) /\ (e = c => pc'[e] = at)
  BY <1>1, <1>13, Zenon DEF ServerTypes
<1>15. g \o s \in Seq(Byte)
  BY ConcatProperties, Zenon
<1>16. /\ got' \in [Child -> Seq(Byte)] /\ got'[c] = g \o s
       /\ \A e \in Child : e # c => got'[e] = got[e]
  BY <1>1, <1>3, <1>4, <1>15, Zenon DEF ServerTypes
<1>17. ServerTypes'
  <2>1. at \in {"unborn", "forked", "unbound", "rrq", "readwait", "wrq", "writewait",
                "closing"} \cup Stopped
    OBVIOUS
  <2>2. pc' \in [Child -> {"unborn", "forked", "unbound", "rrq", "readwait", "wrq",
                           "writewait", "closing"} \cup Stopped]
    BY <1>1, <1>13, <2>1, Zenon DEF ServerTypes
  <2> QED
    BY <1>1, <1>7, <1>8, <1>11, <1>12, <1>16, <2>2, Zenon DEF ServerTypes
<1>18. pc'[c] \in {"writewait", "closing"} \cup Stopped /\ pc'[c] \notin Stopped
  BY <1>14 DEF Stopped
<1>19. ASSUME n \notin Unwritable, n \in DOMAIN files,
              got[c] = files[n] \o buf[c], Len(files[n]) = pos[c]
       PROVE  got'[c] = files'[n] \o buf'[c] /\ Len(files'[n]) = pos'[c]
  <2>1. PICK f \in Seq(Byte) : f = files[n]
    BY <1>1, <1>19, Zenon DEF ServerTypes
  <2>2. files'[n] \o buf'[c] = f \o held /\ Len(files'[n]) = pos'[c]
    <3>1. AllHeld(c, n, held, k)
      BY <1>1, <1>2, <1>6, <1>19, FlushedAtEnd, Zenon
    <3> QED
      BY <2>1, <3>1, Zenon DEF AllHeld
  <2>3. (f \o h) \o s = f \o (h \o s)
    BY Together, Zenon
  <2> QED
    BY <1>4, <1>5, <1>16, <1>19, <2>1, <2>2, <2>3, Zenon
<1>20. n \notin Unwritable /\ n \in DOMAIN files
          /\ got[c] = files[n] \o buf[c] /\ Len(files[n]) = pos[c] =>
              /\ got'[c] = files'[n] \o buf'[c] /\ Len(files'[n]) = pos'[c]
              /\ pc'[c] \in Stopped => buf'[c] = <<>>
  BY <1>18, <1>19, Zenon
<1>21. \A e \in Child : e # c =>
          /\ pc'[e] = pc[e] /\ block'[e] = block[e] /\ last'[e] = last[e]
          /\ pos'[e] = pos[e] /\ buf'[e] = buf[e] /\ got'[e] = got[e]
  BY <1>11, <1>12, <1>14, <1>16, Zenon
<1> QED
  BY <1>2, <1>7, <1>8, <1>9, <1>11, <1>17, <1>18, <1>20, <1>21, WriterGoesOn, ZenonT(60)

\* fclose: what the stream still held is in the file.
LEMMA FcloseKeeps ==
  ASSUME ServerInv, NEW c \in Child, NEW how \in {"exited", "timedout"}, W!Fclose(c, how),
         pc[c] \in {"writewait", "closing"}, net' = net, port' = port, name' = name,
         block' = block, last' = last, UNCHANGED history, done' = done, UNCHANGED mainVars
  PROVE  ServerInv'
<1>1. ServerTypes /\ Handlers
  BY DEF ServerInv
<1>2. PICK n : n = name[c]
  OBVIOUS
<1>3. PICK h \in Seq(Byte), k \in 0..Len(buf[c]) : h = buf[c] /\ k = Len(h)
  <2>1. PICK h \in Seq(Byte) : h = buf[c]
    BY <1>1, Zenon DEF ServerTypes
  <2>2. Len(h) \in 0..Len(h)
    BY LenProperties
  <2> QED
    BY <2>1, <2>2, Zenon
<1>4. W!Flush(c, h, k) /\ k \in 0..Len(h)
  BY <1>3, Zenon DEF W!Fclose
<1>5. PICK at \in Stopped : pc' = [pc EXCEPT ![c] = at]
  <2>1. how \in Stopped /\ "crashed" \in Stopped
    BY DEF Stopped
  <2>2. pc' = [pc EXCEPT ![c] = IF name[c] \in Unwritable THEN "crashed" ELSE how]
    BY Zenon DEF W!Fclose
  <2>3. CASE name[c] \in Unwritable
    BY <2>1, <2>2, <2>3, Zenon
  <2>4. CASE name[c] \notin Unwritable
    BY <2>1, <2>2, <2>4, Zenon
  <2> QED
    BY <2>3, <2>4
<1>6. /\ snap' = snap /\ got' = got /\ owner' = owner /\ spoiled' = spoiled
      /\ tid' = tid /\ listen' = listen /\ buffer' = buffer /\ op' = op /\ inbox' = inbox
  BY DEF mainVars, history
<1>7. n \notin Unwritable => n \in DOMAIN files
  BY <1>1, <1>2, Zenon DEF Handlers
<1>8. /\ DOMAIN files' = DOMAIN files
      /\ \A m \in DOMAIN files : files'[m] \in Seq(Byte)
      /\ \A m \in DOMAIN files : m # n => files'[m] = files[m]
      /\ n \in Unwritable => files' = files
      /\ pos' \in [Child -> Nat] /\ buf' \in [Child -> Seq(Byte)]
      /\ \A e \in Child : e # c => pos'[e] = pos[e] /\ buf'[e] = buf[e]
  <2>1. OnlyItsFile(c, n)
    BY <1>1, <1>2, <1>4, <1>7, Flushed, Zenon
  <2> QED
    BY <2>1, Zenon DEF OnlyItsFile
<1>9. \A e \in Child : (e # c => pc'[e] = pc[e]) /\ (e = c => pc'[e] = at)
  BY <1>1, <1>5, Zenon DEF ServerTypes
<1>10. ServerTypes'
  <2>1. pc' \in [Child -> {"unborn", "forked", "unbound", "rrq", "readwait", "wrq",
                           "writewait", "closing"} \cup Stopped]
    BY <1>1, <1>5, Zenon DEF ServerTypes
  <2> QED
    BY <1>1, <1>6, <1>8, <2>1, Zenon DEF ServerTypes
<1>11. pc'[c] \in {"writewait", "closing"} \cup Stopped
  BY <1>9, Zenon
<1>12. ASSUME n \notin Unwritable, n \in DOMAIN files,
              got[c] = files[n] \o buf[c], Len(files[n]) = pos[c]
       PROVE  /\ got'[c] = files'[n] \o buf'[c] /\ Len(files'[n]) = pos'[c]
              /\ buf'[c] = <<>>
  <2>1. /\ files'[n] \o buf'[c] = files[n] \o h /\ Len(files'[n]) = pos'[c]
        /\ buf'[c] = <<>>
    <3>1. AllHeld(c, n, h, k)
      BY <1>1, <1>2, <1>4, <1>12, FlushedAtEnd, Zenon
    <3> QED
      BY <1>3, <3>1, Zenon DEF AllHeld
  <2> QED
    BY <1>3, <1>6, <1>12, <2>1, Zenon
<1> QED
  BY <1>2, <1>6, <1>8, <1>9, <1>10, <1>11, <1>12, WriterGoesOn, Zenon

\* Steps of write_data that leave the stream alone.
LEMMA WriterWaits ==
  ASSUME ServerInv, NEW c \in Child, pc[c] = "writewait",
         NEW at \in {"writewait", "closing", "crashed"}, pc' = [pc EXCEPT ![c] = at],
         at = "crashed" => name[c] \in Unwritable,
         \A d \in net' : d.pkt \in Packet,
         block' \in [Child -> Nat], last' \in [Child -> Packet],
         \A e \in Child : e # c => block'[e] = block[e] /\ last'[e] = last[e],
         files' = files, port' = port, name' = name, pos' = pos, buf' = buf,
         UNCHANGED history, done' = done, UNCHANGED mainVars
  PROVE  ServerInv'
<1>1. ServerTypes /\ Handlers
  BY DEF ServerInv
<1>2. PICK n : n = name[c]
  OBVIOUS
<1>3. /\ snap' = snap /\ got' = got /\ owner' = owner /\ spoiled' = spoiled
      /\ tid' = tid /\ listen' = listen /\ buffer' = buffer /\ op' = op /\ inbox' = inbox
  BY DEF mainVars, history
<1>4. \A e \in Child : (e # c => pc'[e] = pc[e]) /\ (e = c => pc'[e] = at)
  BY <1>1, Zenon DEF ServerTypes
<1>5. ServerTypes'
  <2>1. at \in {"unborn", "forked", "unbound", "rrq", "readwait", "wrq", "writewait",
                "closing"} \cup Stopped
    BY DEF Stopped
  <2>2. pc' \in [Child -> {"unborn", "forked", "unbound", "rrq", "readwait", "wrq",
                           "writewait", "closing"} \cup Stopped]
    BY <1>1, <2>1, Zenon DEF ServerTypes
  <2> QED
    BY <1>1, <1>3, <2>2, Zenon DEF ServerTypes
<1>6. /\ pc[c] \in {"writewait", "closing"}
      /\ pc'[c] \in {"writewait", "closing"} \cup Stopped
      /\ pc'[c] \in Stopped => at = "crashed"
  BY <1>4 DEF Stopped
<1>7. n \notin Unwritable => pc'[c] \notin Stopped
  BY <1>2, <1>6, Zenon
<1> QED
  BY <1>2, <1>3, <1>4, <1>5, <1>6, <1>7, WriterGoesOn, Zenon

\* write_data keeps the invariant.
LEMMA WriteKeeps ==
  ASSUME ServerInv, NEW c \in Child, Write(c)
  PROVE  ServerInv'
<1>1. ServerTypes
  BY DEF ServerInv
<1>2. done' = done /\ UNCHANGED mainVars
  BY DEF Write
<1>3. CASE OpenForWriting(c)
  BY <1>2, <1>3, OpenKeeps, Zenon
<1>4. ASSUME NEW d \in net, W!Stored(c, d),
             got' = [got EXCEPT ![c] = @ \o W!CString(d.pkt.data)],
             UNCHANGED <<snap, owner, spoiled>>
      PROVE  ServerInv'
  <2>1. snap' = snap /\ owner' = owner /\ spoiled' = spoiled
    BY <1>4
  <2> QED
    BY <1>2, <1>4, <2>1, StoredKeeps, Zenon
<1>5. ASSUME NEW d \in net, W!Crashed(c, d), UNCHANGED history PROVE ServerInv'
  <2>1. /\ pc[c] = "writewait" /\ name[c] \in Unwritable
        /\ pc' = [pc EXCEPT ![c] = "crashed"] /\ W!Exchange({d}, {})
        /\ files' = files /\ port' = port /\ name' = name /\ block' = block /\ last' = last
        /\ pos' = pos /\ buf' = buf
    BY <1>5 DEF W!Crashed, W!Returned
  <2>2. net' \subseteq net
    BY <2>1, Zenon DEF W!Exchange
  <2>3. \A x \in net' : x.pkt \in Packet
    BY <1>1, <2>2, Zenon DEF ServerTypes
  <2>4. "crashed" \in {"writewait", "closing", "crashed"}
    OBVIOUS
  <2>5. block' \in [Child -> Nat] /\ last' \in [Child -> Packet]
    BY <1>1, <2>1, Zenon DEF ServerTypes
  <2> QED
    BY <1>2, <1>5, <2>1, <2>3, <2>4, <2>5, WriterWaits, Zenon
<1>6. ASSUME NEW d \in net, W!Mistaken(c, d), UNCHANGED history PROVE ServerInv'
  <2>1. /\ pc[c] = "writewait" /\ pc' = [pc EXCEPT ![c] = "closing"]
        /\ W!Acknowledge(c, {d}, peer[c])
        /\ files' = files /\ port' = port /\ name' = name /\ pos' = pos /\ buf' = buf
    BY <1>6 DEF W!Mistaken
  <2>2. /\ block' \in [Child -> Nat] /\ last' \in [Child -> Packet]
        /\ \A x \in net' : x.pkt \in Packet
        /\ \A e \in Child : e # c => block'[e] = block[e] /\ last'[e] = last[e]
    BY <1>1, <2>1, Acknowledged, Zenon
  <2>3. "closing" \in {"writewait", "closing", "crashed"} /\ "closing" # "crashed"
    OBVIOUS
  <2> QED
    BY <1>2, <1>6, <2>1, <2>2, <2>3, WriterWaits, Zenon
<1>7. ASSUME W!WriteTimeout(c), UNCHANGED history PROVE ServerInv'
  <2>1. /\ pc[c] = "writewait" /\ port' = port /\ name' = name /\ block' = block /\ last' = last
        /\ \/ W!Fclose(c, "timedout") /\ net' = net
           \/ /\ W!Exchange({}, {W!Dgram(port[c], peer[c], last[c])})
              /\ files' = files /\ pc' = pc /\ pos' = pos /\ buf' = buf
    BY <1>7 DEF W!WriteTimeout
  <2>2. CASE W!Fclose(c, "timedout") /\ net' = net
    <3>1. "timedout" \in {"exited", "timedout"} /\ pc[c] \in {"writewait", "closing"}
      BY <2>1
    <3> QED
      BY <1>2, <1>7, <2>1, <2>2, <3>1, FcloseKeeps, Zenon
  <2>3. CASE /\ W!Exchange({}, {W!Dgram(port[c], peer[c], last[c])})
             /\ files' = files /\ pc' = pc /\ pos' = pos /\ buf' = buf
    <3>1. W!Dgram(port[c], peer[c], last[c]).pkt = last[c] /\ last[c] \in Packet
      BY <1>1 DEF W!Dgram, ServerTypes
    <3>2. net' \subseteq net \cup {W!Dgram(port[c], peer[c], last[c])}
      BY <2>3, Zenon DEF W!Exchange
    <3>3. \A x \in net' : x.pkt \in Packet
      BY <1>1, <3>1, <3>2, Zenon DEF ServerTypes
    <3>4. pc' = [pc EXCEPT ![c] = "writewait"]
      BY <1>1, <2>1, <2>3 DEF ServerTypes
    <3>5. "writewait" \in {"writewait", "closing", "crashed"} /\ "writewait" # "crashed"
      OBVIOUS
    <3>6. block' \in [Child -> Nat] /\ last' \in [Child -> Packet]
      BY <1>1, <2>1, Zenon DEF ServerTypes
    <3> QED
      BY <1>2, <1>7, <2>1, <2>3, <3>3, <3>4, <3>5, <3>6, WriterWaits, Zenon
  <2> QED
    BY <2>1, <2>2, <2>3, Zenon
<1>8. ASSUME W!Close(c), UNCHANGED history PROVE ServerInv'
  <2>1. /\ pc[c] = "closing" /\ W!Fclose(c, "exited")
        /\ net' = net /\ port' = port /\ name' = name /\ block' = block /\ last' = last
    BY <1>8 DEF W!Close
  <2>2. "exited" \in {"exited", "timedout"} /\ pc[c] \in {"writewait", "closing"}
    BY <2>1
  <2> QED
    BY <1>2, <1>8, <2>1, <2>2, FcloseKeeps, Zenon
<1> QED
  BY <1>3, <1>4, <1>5, <1>6, <1>7, <1>8, Zenon DEF Write

----------------------------------------------------------------------------
\* The invariant of the whole server: children that were left alone with their files stand
\* where the snapshot or the packets they took say, whatever the others do.
THEOREM ServerInvariant == Spec => []ServerInv
<1>1. ServerInv /\ [Next]_vars => ServerInv'
  <2> SUFFICES ASSUME ServerInv, [Next]_vars PROVE ServerInv'
    OBVIOUS
  <2>1. ASSUME NEW d \in inbox, Receive(d) PROVE ServerInv'
    BY <2>1, ReceiveKeeps, Zenon
  <2>2. ASSUME NEW c \in Child, Step(c) PROVE ServerInv'
    BY <2>2, BindKeeps, ReadKeeps, WriteKeeps, Zenon DEF Step
  <2>3. CASE \/ Boot
             \/ \E c \in Child, p \in Peer, k \in Stray : Stranger(c, p, k)
             \/ UNCHANGED vars
    BY <2>3, OutsideKeeps, Zenon
  <2> QED
    BY <2>1, <2>2, <2>3, Zenon DEF Next
<1> QED
  BY <1>1, InitServerInv, PTL DEF Spec

\* read_data serves every child that was alone with its file the file as it was at fopen,
\* segment by segment up to a short one, for any number of children, requests and
\* strangers.
THEOREM DownloadsUndisturbed == Spec => []UndisturbedDownload
<1>1. ServerInv => UndisturbedDownload
  <2> SUFFICES ASSUME ServerInv, NEW c \in Child, c \notin spoiled, op[c] = 1, block[c] > 0
               PROVE  /\ last[c] = Data(block[c] - 1, R!Seg(snap[c], block[c] - 1))
                      /\ pc[c] = "exited" => Len(last[c].data) < Segment
    BY Zenon DEF UndisturbedDownload
  <2>1. AtSnapshot(c) /\ ServerTypes
    BY Zenon DEF ServerInv, Downloading
  <2>2. last[c] = Data(block[c] - 1, R!Seg(snap[c], block[c] - 1))
    BY <2>1, Zenon DEF AtSnapshot
  <2>3. ASSUME pc[c] = "exited" PROVE Len(last[c].data) < Segment
    <3>1. PICK f \in Seq(Byte) : f = snap[c] /\ Len(f) \in Nat
      BY <2>1, LenProperties, Zenon DEF ServerTypes
    <3>2. PICK b \in Nat : b >= 1 /\ b = block[c] - 1 /\ b + 1 = block[c]
      <4>1. block[c] \in Nat /\ block[c] >= 2
        BY <2>1, Zenon DEF AtSnapshot, ServerTypes
      <4> QED
        BY <4>1
    <3>3. PICK t \in Nat : t = R!Off(b) /\ R!Off(b + 1) = t + Segment
      BY <3>2, Offsets, Zenon
    <3>4. t <= Len(f) /\ Len(f) < t + Segment
      BY <2>1, <2>3, <3>1, <3>2, <3>3, Zenon DEF AtSnapshot
    <3>5. Segment \in Nat
      BY TftpAssumption
    <3>6. R!Least(t + Segment, Len(f)) = Len(f) /\ Len(f) <= Len(f)
      BY <3>1, <3>4, <3>5 DEF R!Least
    <3>7. R!Seg(f, b) = SubSeq(f, t + 1, Len(f))
      BY <3>3, <3>6, Zenon DEF R!Seg
    <3>8. Len(R!Seg(f, b)) = Len(f) - t
      <4>1. Len(SubSeq(f, t + 1, Len(f))) = Len(f) - t
        BY <3>1, <3>4, <3>6, Piece, Zenon
      <4> QED
        BY <3>7, <4>1, Zenon
    <3>9. last[c].data = R!Seg(f, b)
      <4>1. last[c] = Data(b, R!Seg(f, b))
        BY <2>2, <3>1, <3>2, Zenon
      <4> QED
        BY <4>1 DEF Data
    <3>10. Len(f) - t < Segment
      BY <3>1, <3>4, <3>5
    <3> QED
      BY <3>8, <3>9, <3>10, Zenon
  <2> QED
    BY <2>2, <2>3, Zenon
<1> QED
  BY <1>1, ServerInvariant, PTL

\* The file of a finished upload that found no other under way holds what write_data took
\* from its packets, for any number of children, requests and strangers.
THEOREM UploadsUndisturbed == Spec => []UndisturbedUpload
<1>1. ServerInv => UndisturbedUpload
  <2> SUFFICES ASSUME ServerInv, NEW n \in Name, NEW c \in Child, c \notin spoiled,
                      owner[n] = {c}, pc[c] \in Stopped
               PROVE  files[n] = got[c]
    BY Zenon DEF UndisturbedUpload
  <2>1. HoldsAll(n, c) /\ ServerTypes
    BY Zenon DEF ServerInv, Uploading
  <2>2. got[c] = files[n] \o <<>> /\ n \in DOMAIN files
    BY <2>1, Zenon DEF HoldsAll
  <2>3. files[n] \in Seq(Byte)
    BY <2>1, <2>2, Zenon DEF ServerTypes
  <2> QED
    BY <2>2, <2>3, ConcatEmptySeq, Zenon
<1> QED
  BY <1>1, ServerInvariant, PTL

----------------------------------------------------------------------------
\* tid_selection starts at a port.
RangeFits == \A r \in Ranges : r[2] \in Port

\* The inductive invariant behind DistinctPorts.
PortsInv == tid < PortMod /\ PortsHandedOut /\ DistinctPorts

\* Steps that hand out no port.
LEMMA PortsStay ==
  ASSUME PortsInv, port' = port, tid' = tid, listen' = listen,
         \A c \in Child : pc'[c] = pc[c] \/ (pc[c] # "unborn" /\ pc'[c] # "unbound")
  PROVE  PortsInv'
<1>1. \A c \in Child : pc'[c] # "unborn" => pc[c] # "unborn"
  OBVIOUS
<1>2. (tid < PortMod /\ PortsHandedOut)'
  BY <1>1, Zenon DEF PortsInv, PortsHandedOut
<1>3. DistinctPorts'
  BY <1>1, Zenon DEF PortsInv, DistinctPorts
<1> QED
  BY <1>2, <1>3, Zenon DEF PortsInv

\* A request: the child that is forked gets tid_selection, which is then counted down.
LEMMA ReceiveHandsOut ==
  ASSUME ServerTypes, PortsInv, NEW d, Receive(d)
  PROVE  PortsInv'
<1>1. tid \in Int /\ listen \in Nat /\ port \in [Child -> Int] /\ PortMod \in Nat
  BY ServerAssumption, Zenon DEF ServerTypes
<1>2. tid' = tid - 1 /\ listen' = listen /\ tid < PortMod
  BY DEF Receive, PortsInv
<1>3. tid' < PortMod
  BY <1>1, <1>2
<1>4. CASE ~(tid' >= listen')
  BY <1>3, <1>4, Zenon DEF PortsInv, PortsHandedOut, DistinctPorts
<1>5. CASE tid' >= listen'
  <2>1. /\ tid >= listen /\ tid % PortMod = tid /\ tid' + 1 = tid
        /\ tid \in tid..(PortMod - 1) /\ (tid + 1)..(PortMod - 1) \subseteq tid..(PortMod - 1)
        /\ \A p \in (tid + 1)..(PortMod - 1) : p # tid
    BY <1>1, <1>2, <1>5
  <2>2. \A c \in Child : pc[c] # "unborn" => port[c] \in (tid + 1)..(PortMod - 1)
    BY <2>1, Zenon DEF PortsInv, PortsHandedOut
  <2>3. \A c \in Child :
           /\ pc[c] # "unbound"
           /\ \A e \in Child \ {c} :
                  pc[c] # "unborn" /\ pc[e] # "unborn" => port[c] # port[e]
    BY <2>1, Zenon DEF PortsInv, DistinctPorts
  <2>4. CASE pc' = pc /\ port' = port
    <3>1. PortsHandedOut'
      BY <2>1, <2>2, <2>4, Zenon DEF PortsHandedOut
    <3>2. DistinctPorts'
      BY <2>3, <2>4, Zenon DEF DistinctPorts
    <3> QED
      BY <1>3, <3>1, <3>2, Zenon DEF PortsInv
  <2>5. ASSUME NEW c \in Unborn, pc' = [pc EXCEPT ![c] = "forked"],
               port' = [port EXCEPT ![c] = tid % PortMod]
        PROVE  PortsInv'
    <3>1. c \in Child /\ pc[c] = "unborn"
      BY Zenon DEF Unborn
    <3>2. /\ pc'[c] = "forked" /\ port'[c] = tid
          /\ \A e \in Child : e # c => pc'[e] = pc[e] /\ port'[e] = port[e]
      BY <2>1, <2>5, <3>1, Zenon DEF ServerTypes
    <3>3. PortsHandedOut'
      <4>1. \A e \in Child : pc'[e] # "unborn" => port'[e] \in tid..(PortMod - 1)
        BY <2>1, <2>2, <3>2, Zenon
      <4> QED
        BY <2>1, <4>1, Zenon DEF PortsHandedOut
    <3>4. DistinctPorts'
      <4>1. \A e \in Child : pc'[e] # "unbound"
        BY <2>3, <3>2
      <4>2. \A e \in Child : e # c /\ pc'[e] # "unborn" => port'[e] # tid
        BY <2>1, <2>2, <3>2, Zenon
      <4>3. \A e \in Child : \A x \in Child \ {e} :
               pc'[e] # "unborn" /\ pc'[x] # "unborn" => port'[e] # port'[x]
        BY <2>3, <3>2, <4>2, Zenon
      <4> QED
        BY <4>1, <4>3, Zenon DEF DistinctPorts
    <3> QED
      BY <1>3, <3>3, <3>4, Zenon DEF PortsInv
  <2> QED
    BY <2>4, <2>5, Zenon DEF Receive
<1> QED
  BY <1>4, <1>5

\* While the range lasts bind finds the port free, and it is not 0.
LEMMA BindsItsPort ==
  ASSUME ServerTypes, PortsInv, NEW c \in Child, BindChild(c)
  PROVE  PortsInv'
<1>1. tid \in Int /\ listen \in Nat /\ port \in [Child -> Int] /\ PortMod \in Nat
  BY ServerAssumption, Zenon DEF ServerTypes
<1>2. tid' = tid /\ listen' = listen /\ pc[c] = "forked" /\ tid < PortMod
  BY DEF BindChild, mainVars, PortsInv
<1>3. CASE ~(tid >= listen)
  BY <1>2, <1>3, Zenon DEF PortsInv, PortsHandedOut, DistinctPorts
<1>4. CASE tid >= listen
  <2>1. port[c] \in (tid + 1)..(PortMod - 1)
    BY <1>2, <1>4 DEF PortsInv, PortsHandedOut
  <2>2. port[c] # 0 /\ port[c] # listen
    BY <1>1, <1>4, <2>1
  <2>3. \A e \in Bound : port[e] # port[c]
    <3>1. \A e \in Bound : e \in Child /\ pc[e] # "unborn" /\ e # c
      BY <1>2 DEF Bound
    <3>2. \A e \in Child \ {c} : pc[e] # "unborn" => port[c] # port[e]
      BY <1>2, <1>4 DEF PortsInv, DistinctPorts
    <3> QED
      BY <3>1, <3>2, Zenon
  <2>4. port[c] \notin Taken
    BY <2>2, <2>3, Zenon DEF Taken
  <2>5. PICK p \in {port[c]} :
           /\ port' = port \/ port' = [port EXCEPT ![c] = p]
           /\ \/ pc' = [pc EXCEPT ![c] = "exited"]
              \/ pc' = [pc EXCEPT ![c] = CASE op[c] = 1 -> "rrq"
                                           [] op[c] = 2 -> "wrq"
                                           [] OTHER -> "exited"]
    BY <2>2, <2>4, Zenon DEF BindChild
  <2>6. port' = port
    BY <1>1, <2>5, Zenon
  <2>7. /\ \A e \in Child : e # c => pc'[e] = pc[e]
        /\ pc'[c] # "unbound"
    <3>1. pc \in [Child -> {"unborn", "forked", "unbound", "rrq", "readwait", "wrq",
                            "writewait", "closing"} \cup Stopped]
      BY Zenon DEF ServerTypes
    <3>2. pc' = [pc EXCEPT ![c] = "rrq"] \/ pc' = [pc EXCEPT ![c] = "wrq"]
             \/ pc' = [pc EXCEPT ![c] = "exited"]
      <4>1. CASE op[c] = 1
        BY <2>5, <4>1
      <4>2. CASE op[c] = 2
        BY <2>5, <4>2
      <4>3. CASE op[c] # 1 /\ op[c] # 2
        BY <2>5, <4>3
      <4> QED
        BY <4>1, <4>2, <4>3
    <3> QED
      BY <3>1, <3>2
  <2>8. \A e \in Child : pc'[e] = pc[e] \/ (pc[e] # "unborn" /\ pc'[e] # "unbound")
    BY <1>2, <2>7
  <2> QED
    BY <1>2, <2>6, <2>8, PortsStay, Zenon
<1> QED
  BY <1>3, <1>4

\* The handlers leave the ports alone, and only move a child that has been forked on.
LEMMA HandlersKeepPorts ==
  ASSUME ServerTypes, PortsInv, NEW c \in Child, Read(c) \/ Write(c)
  PROVE  PortsInv'
<1>1. tid' = tid /\ listen' = listen
  BY DEF Read, Write, mainVars
<1> DEFINE Moves == /\ port' = port /\ pc[c] # "unborn"
                    /\ \E at : at # "unbound" /\ pc' = [pc EXCEPT ![c] = at]
<1>2. ASSUME Read(c) PROVE Moves
  <2>1. CASE R!NoSuchFile(c)
    <3>1. /\ port' = port /\ pc[c] = "rrq" /\ pc' = [pc EXCEPT ![c] = "exited"]
          /\ "exited" # "unbound" /\ "rrq" # "unborn"
      BY <2>1 DEF R!NoSuchFile
    <3> QED
      BY <3>1, Zenon
  <2>2. CASE R!FirstBlock(c)
    <3>1. /\ port' = port /\ pc[c] = "rrq" /\ pc' = [pc EXCEPT ![c] = "readwait"]
          /\ "readwait" # "unbound" /\ "rrq" # "unborn"
      BY <2>2 DEF R!FirstBlock
    <3> QED
      BY <3>1, Zenon
  <2>3. ASSUME NEW d \in net, R!Answered(c, d) PROVE Moves
    <3>1. /\ port' = port /\ pc[c] = "readwait" /\ "exited" # "unbound"
          /\ "readwait" # "unbound" /\ "readwait" # "unborn"
          /\ pc' = [pc EXCEPT ![c] = "exited"] \/ pc' = pc
      BY <2>3 DEF R!Answered
    <3>2. pc = [pc EXCEPT ![c] = pc[c]]
      BY Zenon DEF ServerTypes
    <3> QED
      BY <3>1, <3>2, Zenon
  <2>4. CASE R!ReadTimeout(c)
    <3>1. /\ port' = port /\ pc[c] = "readwait" /\ "timedout" # "unbound"
          /\ "readwait" # "unbound" /\ "readwait" # "unborn"
          /\ pc' = [pc EXCEPT ![c] = IF timeouts'[c] = MaxTimeouts THEN "timedout" ELSE @]
      BY <2>4 DEF R!ReadTimeout
    <3>2. CASE timeouts'[c] = MaxTimeouts
      BY <3>1, <3>2, Zenon
    <3>3. CASE timeouts'[c] # MaxTimeouts
      BY <3>1, <3>3, Zenon
    <3> QED
      BY <3>2, <3>3
  <2> QED
    BY <1>2, <2>1, <2>2, <2>3, <2>4, Zenon DEF Read, R!ReadStep
<1>3. ASSUME NEW how, how # "unbound", W!Fclose(c, how), port' = port, pc[c] # "unborn"
      PROVE  Moves
  <2>1. pc' = [pc EXCEPT ![c] = IF name[c] \in Unwritable THEN "crashed" ELSE how]
    BY <1>3, Zenon DEF W!Fclose
  <2>2. "crashed" # "unbound"
    OBVIOUS
  <2>3. CASE name[c] \in Unwritable
    BY <1>3, <2>1, <2>2, <2>3, Zenon
  <2>4. CASE name[c] \notin Unwritable
    BY <1>3, <2>1, <2>4, Zenon
  <2> QED
    BY <2>3, <2>4
<1>4. ASSUME Write(c) PROVE Moves
  <2>0. /\ "writewait" # "unborn" /\ "wrq" # "unborn" /\ "closing" # "unborn"
        /\ "writewait" # "unbound" /\ "closing" # "unbound" /\ "crashed" # "unbound"
        /\ "exited" # "unbound" /\ "timedout" # "unbound"
    OBVIOUS
  <2>1. CASE OpenForWriting(c)
    <3>1. port' = port /\ pc[c] = "wrq" /\ pc' = [pc EXCEPT ![c] = "writewait"]
      BY <2>1 DEF OpenForWriting, W!Start
    <3> QED
      BY <2>0, <3>1, Zenon
  <2>2. ASSUME NEW d \in net, W!Stored(c, d) PROVE Moves
    <3>1. PICK from \in Peer : W!Returned(c, d, from) /\ W!Continue(c, d.pkt.data)
      BY <2>2, Zenon DEF W!Stored
    <3>2. W!Returned(c, d, from) => port' = port /\ pc[c] = "writewait"
      BY DEF W!Returned
    <3>3. CASE Len(d.pkt.data) < Segment
      BY <2>0, <3>1, <3>2, <3>3, Zenon DEF W!Continue
    <3>4. CASE ~(Len(d.pkt.data) < Segment)
      BY <2>0, <3>1, <3>2, <3>4, Zenon DEF W!Continue
    <3> QED
      BY <3>3, <3>4
  <2>3. ASSUME NEW d \in net, W!Crashed(c, d) PROVE Moves
    <3>1. PICK from \in Peer : W!Returned(c, d, from)
      BY <2>3, Zenon DEF W!Crashed
    <3>2. W!Returned(c, d, from) => port' = port /\ pc[c] = "writewait"
      BY DEF W!Returned
    <3> QED
      BY <2>0, <2>3, <3>1, <3>2, Zenon DEF W!Crashed
  <2>4. ASSUME NEW d \in net, W!Mistaken(c, d) PROVE Moves
    <3>1. port' = port /\ pc[c] = "writewait" /\ pc' = [pc EXCEPT ![c] = "closing"]
      BY <2>4 DEF W!Mistaken
    <3> QED
      BY <2>0, <3>1, Zenon
  <2>5. CASE W!WriteTimeout(c)
    <3>1. port' = port /\ pc[c] = "writewait" /\ (W!Fclose(c, "timedout") \/ pc' = pc)
      BY <2>5 DEF W!WriteTimeout
    <3>2. pc = [pc EXCEPT ![c] = pc[c]]
      BY Zenon DEF ServerTypes
    <3>3. CASE W!Fclose(c, "timedout")
      BY <1>3, <2>0, <3>1, <3>3, Zenon
    <3>4. CASE pc' = pc
      BY <2>0, <3>1, <3>2, <3>4, Zenon
    <3> QED
      BY <3>1, <3>3, <3>4
  <2>6. CASE W!Close(c)
    <3>1. port' = port /\ pc[c] = "closing" /\ W!Fclose(c, "exited")
      BY <2>6 DEF W!Close
    <3> QED
      BY <1>3, <2>0, <3>1, Zenon
  <2> QED
    BY <1>4, <2>1, <2>2, <2>3, <2>4, <2>5, <2>6, Zenon DEF Write
<1>5. Moves
  BY <1>2, <1>4, Zenon
<1>6. \A e \in Child : pc'[e] = pc[e] \/ (pc[e] # "unborn" /\ pc'[e] # "unbound")
  BY <1>5, Zenon DEF ServerTypes
<1> QED
  BY <1>1, <1>5, <1>6, PortsStay, Zenon

\* While the port range lasts every child binds the port it was given and no two children
\* have the same one, for any number of children and requests, if the range ends at a port.
THEOREM PortsDistinct == RangeFits => (Spec => []DistinctPorts)
<1> SUFFICES ASSUME RangeFits PROVE Spec => []DistinctPorts
  OBVIOUS
<1>1. Init => PortsInv
  <2> SUFFICES ASSUME Init PROVE PortsInv
    OBVIOUS
  <2>1. PICK r \in Ranges : tid = r[2]
    BY Zenon DEF Init
  <2>2. PortMod \in Nat /\ Port = 0..(PortMod - 1) /\ tid \in Port
    BY <2>1, ServerAssumption, Zenon DEF RangeFits
  <2>3. tid < PortMod
    BY <2>2
  <2>4. \A c \in Child : pc[c] = "unborn" /\ pc[c] # "unbound"
    BY DEF Init
  <2> QED
    BY <2>3, <2>4, Zenon DEF PortsInv, PortsHandedOut, DistinctPorts
<1>2. ServerInv /\ PortsInv /\ [Next]_vars => PortsInv'
  <2> SUFFICES ASSUME ServerInv, PortsInv, [Next]_vars PROVE PortsInv'
    OBVIOUS
  <2>1. ServerTypes
    BY DEF ServerInv
  <2>2. ASSUME NEW d \in inbox, Receive(d) PROVE PortsInv'
    BY <2>1, <2>2, ReceiveHandsOut, Zenon
  <2>3. ASSUME NEW c \in Child, Step(c) PROVE PortsInv'
    BY <2>1, <2>3, BindsItsPort, HandlersKeepPorts, Zenon DEF Step
  <2>4. CASE \/ Boot
             \/ \E c \in Child, p \in Peer, k \in Stray : Stranger(c, p, k)
             \/ UNCHANGED vars
    <3>1. pc' = pc /\ port' = port /\ tid' = tid /\ listen' = listen
      BY <2>4 DEF Boot, Stranger, vars, childVars, mainVars
    <3> QED
      BY <3>1, PortsStay, Zenon
  <2> QED
    BY <2>2, <2>3, <2>4, Zenon DEF Next
<1>3. PortsInv => DistinctPorts
  BY DEF PortsInv
<1> QED
  BY <1>1, <1>2, <1>3, ServerInvariant, PTL DEF Spec
============================================================================
