------------------------ MODULE WriteSessionProofs ------------------------
(***************************************************************************)
(* An upload stores the client's file, block by block, for files of any    *)
(* length, any segment size, any number of lost datagrams and any width of *)
(* the block numbers that tells a block from the next.                     *)
(***************************************************************************)
EXTENDS WriteSession, WriteDataProofs

\* One child serves the upload.
LEMMA OnlyServer == Server \in Child /\ \A c \in Child : c = Server
BY WriteSessionAssumption DEF Server

\* What the proofs below use of the state of the child and the client.
LEMMA AtServer ==
    ASSUME Deliverable, UploadInv
    PROVE  /\ Server \in Child /\ block[Server] \in Nat
           /\ port[Server] \in Port /\ port[Server] # Client
           /\ Segment \in Nat /\ Segment > 0
           /\ source \in Seq(Byte) /\ Len(source) \in Nat
           /\ name[Server] \notin Unwritable
           /\ buf[Server] \in Seq(Byte)
           /\ pc \in [Child -> {"wrq", "writewait", "closing"} \cup Stopped]
           /\ peer \in [Child -> Peer] /\ block \in [Child -> Nat]
           /\ last \in [Child -> Packet]
<1>1. /\ port \in [Child -> Port] /\ block \in [Child -> Nat]
      /\ buf \in [Child -> Seq(Byte)]
      /\ peer \in [Child -> Peer] /\ last \in [Child -> Packet]
      /\ pc \in [Child -> {"wrq", "writewait", "closing"} \cup Stopped]
  BY Zenon DEF UploadInv, WriteInv, TypeOK, ChildTypeOK
<1>2. Client \notin Port /\ Sources \subseteq Seq(Byte)
  BY WriteSessionAssumption, ChildAssumption
<1>3. Segment \in Nat /\ Segment > 0
  BY TftpAssumption
<1>4. source \in Seq(Byte)
  BY <1>2, Zenon DEF UploadInv, BlocksInStep
<1>5. Len(source) \in Nat
  BY <1>4, LenProperties
<1>6. name[Server] \notin Unwritable
  BY Zenon DEF Deliverable
<1> QED
  BY <1>1, <1>2, <1>3, <1>4, <1>5, <1>6, OnlyServer, Zenon

\* The child is alone with its file, so its stream is at the end of it.
LEMMA AtEnd ==
    ASSUME Deliverable, UploadInv, pc[Server] # "wrq"
    PROVE  /\ name[Server] \in DOMAIN files
           /\ files[name[Server]] \in Seq(Byte)
           /\ pos[Server] = Len(files[name[Server]])
<1>1. name[Server] \in DOMAIN files /\ pos[Server] = Len(files[name[Server]])
  BY OnlyServer, AtServer, Zenon DEF UploadInv, WriteInv, StreamAtEnd
<1>2. files[name[Server]] \in Seq(Byte)
  BY <1>1, Zenon DEF UploadInv, WriteInv, TypeOK, ChildTypeOK
<1> QED
  BY <1>1, <1>2

\* However much of it stdio passes on, file and stream together hold what they
\* held and what was added to the stream.
LEMMA FlushAppends ==
    ASSUME Deliverable, UploadInv, pc[Server] # "wrq", NEW held \in Seq(Byte),
           NEW k \in 0..Len(held), Flush(Server, held, k), name' = name
    PROVE  /\ files'[name'[Server]] \o buf'[Server] = files[name[Server]] \o held
           /\ k = Len(held) => buf'[Server] = <<>>
<1>1. PICK f \in Seq(Byte) : /\ f = files[name[Server]] /\ pos[Server] = Len(f)
                             /\ name[Server] \in DOMAIN files
  BY AtEnd, Zenon
<1>2. PICK g, v : /\ g = WriteAt(f, Len(f), SubSeq(held, 1, k))
                  /\ v = SubSeq(held, k + 1, Len(held))
  OBVIOUS
<1>3. v \in Seq(Byte) /\ g \o v = f \o held /\ (k = Len(held) => v = <<>>)
  BY <1>2, Appended, Zenon
<1>4. files' = WithFile(name[Server], g)
  BY <1>1, <1>2, AtServer, Zenon DEF Flush
<1>5. files'[name[Server]] = g
  BY <1>4, Zenon DEF WithFile
<1>6. buf'[Server] = v
  <2>1. buf \in [Child -> Seq(Byte)] /\ Server \in Child
    BY OnlyServer DEF UploadInv, WriteInv, TypeOK, ChildTypeOK
  <2>2. buf' = [buf EXCEPT ![Server] = v]
    BY <1>2, Zenon DEF Flush
  <2> QED
    BY <2>1, <2>2, Zenon
<1> QED
  BY <1>1, <1>3, <1>5, <1>6, Zenon

\* The block after the first b full ones: it continues what they hold, it is
\* short when the file ends in it, and fprintf takes all of it.
LEMMA BlockFollows ==
    ASSUME Deliverable, UploadInv, NEW b \in Nat, b * Segment <= Len(source)
    PROVE  /\ Block(b + 1) \in Seq(Byte)
           /\ CString(Block(b + 1)) = Block(b + 1)
           /\ Beginning(b) \o Block(b + 1) = Beginning(b + 1)
           /\ Len(Beginning(b)) = b * Segment
           /\ (b + 1) * Segment = b * Segment + Segment
           /\ Len(Block(b + 1)) < Segment <=> Len(source) < (b + 1) * Segment
<1>1. /\ Segment \in Nat /\ Segment > 0
      /\ source \in Seq(Byte) /\ Len(source) \in Nat
  BY AtServer, Zenon
<1>2. PICK p \in Nat : p = b * Segment
  BY <1>1
<1>3. PICK q \in Nat :
          /\ q = IF (b + 1) * Segment <= Len(source) THEN (b + 1) * Segment
                 ELSE Len(source)
          /\ (b + 1) * Segment = p + Segment
          /\ p <= Len(source)
          /\ p <= q /\ q <= Len(source)
          /\ q - p < Segment <=> Len(source) < (b + 1) * Segment
  <2>1. (b + 1) * Segment = p + Segment
    BY <1>1, <1>2
  <2> QED
    BY <1>1, <1>2, <2>1
<1>4. Block(b + 1) = SubSeq(source, p + 1, q) /\ Beginning(b + 1) = SubSeq(source, 1, q)
  <2>1. (b + 1) - 1 = b
    OBVIOUS
  <2> QED
    BY <1>2, <1>3, <2>1, Zenon DEF Block, Beginning
<1>5. Beginning(b) = SubSeq(source, 1, p)
  BY <1>2, Zenon DEF Beginning
<1>6. /\ SubSeq(source, p + 1, q) \in Seq(Byte)
      /\ Len(SubSeq(source, p + 1, q)) = q - p
  BY <1>1, <1>3, Piece, Zenon
<1>7. Len(Beginning(b)) = p
  <2>1. 0 + 1 = 1 /\ 0 <= p /\ 0 \in Nat /\ p - 0 = p
    BY <1>3
  <2>2. Len(SubSeq(source, 0 + 1, p)) = p - 0
    BY <1>1, <1>3, <2>1, Piece, Zenon
  <2> QED
    BY <1>5, <2>1, <2>2, Zenon
<1>8. Beginning(b) \o Block(b + 1) = Beginning(b + 1)
  <2>1. /\ 1 \in 1..(Len(source) + 1) /\ p \in (1 - 1)..Len(source)
        /\ q \in p..Len(source)
    BY <1>1, <1>3
  <2>2. SubSeq(source, 1, p) \o SubSeq(source, p + 1, q) = SubSeq(source, 1, q)
    BY <1>1, <2>1, ConcatAdjacentSubSeq
  <2> QED
    BY <1>4, <1>5, <2>2, Zenon
<1>9. CString(Block(b + 1)) = Block(b + 1)
  <2>1. PICK g : g = SubSeq(source, p + 1, q)
    OBVIOUS
  <2>2. \A i \in 1..(q - p) : g[i] = source[p + i] /\ p + i \in 1..Len(source)
    <3>1. \A i \in (p + 1)..q : source[i] \in Byte
      BY <1>1, <1>3, ElementOfSeq
    <3>2. \A i \in 1..(q - (p + 1) + 1) : g[i] = source[(p + 1) + i - 1]
      BY <2>1, <3>1, SubSeqProperties
    <3> QED
      BY <1>1, <1>3, <3>2
  <2>3. \A i \in 1..Len(source) : source[i] # Nul
    BY Zenon DEF Deliverable, UploadInv, BlocksInStep
  <2>4. {i \in 1..Len(g) : g[i] = Nul} = {}
    BY <1>6, <2>1, <2>2, <2>3, Zenon
  <2> QED
    BY <1>4, <2>1, <2>4, Zenon DEF CString
<1> QED
  BY <1>2, <1>3, <1>4, <1>6, <1>7, <1>8, <1>9, Zenon

----------------------------------------------------------------------------
\* The child sends an ACK when nothing else is under way, or takes all there is.
LEMMA ServerSends ==
    ASSUME Deliverable, UploadInv, NEW k,
           \A d \in net' : d = Dgram(port[Server], Client, k),
           port' = port, peer'[Server] = Client, pc'[Server] # "wrq",
           last'[Server] = k, k = Ack(block'[Server])
    PROVE  OneInFlight'
<1>1. PICK x : x = Dgram(port[Server], Client, k)
  OBVIOUS
<1>2. x.src = port[Server] /\ x.dst = Client /\ x.pkt = k
  BY <1>1 DEF Dgram
<1> QED
  BY <1>1, <1>2, Zenon DEF OneInFlight

\* fopen and ACK 0.
LEMMA StartKeeps ==
    ASSUME Deliverable, UploadInv, Start(Server), UNCHANGED clientVars
    PROVE  UploadInv'
<1>1. /\ pc[Server] = "wrq"
      /\ files' = IF name[Server] \in Unwritable THEN files
                  ELSE WithFile(name[Server], <<>>)
      /\ last' = [last EXCEPT ![Server] = Ack(0)]
      /\ Exchange({}, {Dgram(port[Server], peer[Server], Ack(0))})
      /\ pc' = [pc EXCEPT ![Server] = "writewait"]
      /\ port' = port /\ peer' = peer /\ name' = name /\ block' = block
      /\ buf' = buf
  BY Zenon DEF Start
<1>2. WriteInv /\ OneInFlight /\ BlocksInStep /\ BlocksHeld
  BY Zenon DEF UploadInv
<1>3. WriteInv'
  BY <1>2, OnlyServer, StartKeepsWriteInv, Zenon
<1>4. /\ net = {} /\ peer[Server] = Client /\ block[Server] = 0 /\ sent = 0
      /\ cstate = "open" /\ block[Server] * Segment <= Len(source)
  BY <1>1, <1>2 DEF OneInFlight, BlocksInStep
<1>5. pc'[Server] = "writewait" /\ last'[Server] = Ack(0)
  BY <1>1, AtServer, Zenon
<1>6. OneInFlight'
  <2>1. net' = {Dgram(port[Server], Client, Ack(0))}
    BY <1>1, <1>4, Zenon DEF Exchange
  <2>2. \A d \in net' : d = Dgram(port[Server], Client, Ack(0))
    BY <2>1, Zenon
  <2>3. pc'[Server] # "wrq"
    BY <1>5
  <2> QED
    BY <1>1, <1>4, <1>5, <2>2, <2>3, ServerSends, Zenon
<1>7. source' = source /\ sent' = sent /\ cstate' = cstate
  BY DEF clientVars
<1>8. BlocksInStep'
  BY <1>1, <1>2, <1>4, <1>5, <1>7 DEF BlocksInStep
<1>9. BlocksHeld'
  <2>1. Uploaded = <<>> /\ buf[Server] = <<>>
    BY <1>1, <1>2, OnlyServer, Zenon DEF Uploaded, WriteInv, Opened
  <2>2. files'[name[Server]] = <<>>
    BY <1>1, AtServer, Zenon DEF WithFile
  <2>3. <<>> \o <<>> = <<>>
    OBVIOUS
  <2>4. "writewait" # "wrq" /\ "writewait" # "exited"
    OBVIOUS
  <2>5. Uploaded' = <<>>
    BY <1>1, <1>5, <2>1, <2>2, <2>3, <2>4, Zenon DEF Uploaded
  <2>6. Beginning(block[Server])' = Beginning(block[Server])
    BY <1>1, <1>7, Zenon DEF Beginning
  <2> QED
    BY <1>2, <1>5, <2>1, <2>4, <2>5, <2>6, Zenon DEF BlocksHeld
<1> QED
  BY <1>3, <1>6, <1>8, <1>9, Zenon DEF UploadInv

\* A datagram for the child is the only one under way, and the next block.
LEMMA NextArrives ==
    ASSUME Deliverable, UploadInv, NEW d \in net, d.dst = port[Server]
    PROVE  /\ net = {d} /\ d.src = Client /\ sent = block[Server] + 1
           /\ d.pkt.data = Block(block[Server] + 1)
<1>1. OneInFlight /\ port[Server] # Client
  BY AtServer, Zenon DEF UploadInv
<1>2. /\ d.src = Client /\ d.pkt = Data(sent, Block(sent))
      /\ sent = block[Server] + 1 /\ \A e \in net : e = d
  BY <1>1, Zenon DEF OneInFlight
<1>3. d.pkt.data = Block(sent)
  BY <1>2 DEF Data
<1> QED
  BY <1>2, <1>3, Zenon

\* What storing a block comes to: the child holds one block more, and closes the
\* file when the block was a short one.
StoredNext ==
    /\ pc[Server] = "writewait"
    /\ block[Server] * Segment <= Len(source)
    /\ Len(Uploaded) = block[Server] * Segment
    /\ (block[Server] + 1) * Segment = block[Server] * Segment + Segment
    /\ Uploaded' = Beginning(block[Server] + 1)
    /\ sent = block[Server] + 1
    /\ block'[Server] = block[Server] + 1
    /\ pc'[Server] = IF Len(source) < (block[Server] + 1) * Segment
                     THEN "closing" ELSE "writewait"
    /\ peer'[Server] = Client /\ port' = port
    /\ last'[Server] = Ack(block[Server] + 1)
    /\ net' = {Dgram(port[Server], Client, Ack(block[Server] + 1))}

\* The next block arrives.
LEMMA StoresNext ==
    ASSUME Deliverable, UploadInv, NEW d \in net, Stored(Server, d)
    PROVE  StoredNext
<1>1. PICK b \in Nat : b = block[Server]
  BY AtServer
<1>2. PICK held : held = buf[Server] \o CString(d.pkt.data)
  OBVIOUS
<1>3. PICK from \in Peer, k \in 0..Len(held) :
          /\ Returned(Server, d, from)
          /\ Flush(Server, held, k)
          /\ Acknowledge(Server, {d}, from)
          /\ Continue(Server, d.pkt.data)
  BY <1>2, Zenon DEF Stored
<1>4. /\ pc[Server] = "writewait" /\ d.dst = port[Server]
      /\ from \in (IF block[Server] = 0 THEN Blend[peer[Server], d.src] ELSE {d.src})
      /\ peer' = [peer EXCEPT ![Server] = from]
      /\ port' = port /\ name' = name
  BY <1>3, Zenon DEF Returned, Arrives
<1>5. /\ net = {d} /\ d.src = Client /\ sent = b + 1
      /\ d.pkt.data = Block(b + 1)
  BY <1>1, <1>4, NextArrives, Zenon
<1>6. OneInFlight /\ BlocksInStep /\ BlocksHeld
  BY Zenon DEF UploadInv
<1>7. from = Client
  <2>1. Blend[Client, Client] = {Client}
    BY WriteDataAssumption, WriteSessionAssumption, Zenon
  <2>2. peer[Server] = Client
    BY <1>6 DEF OneInFlight
  <2> QED
    BY <1>4, <1>5, <2>1, <2>2, Zenon
<1>8. b * Segment <= Len(source)
  BY <1>1, <1>4, <1>6 DEF BlocksInStep
<1>9. /\ Block(b + 1) \in Seq(Byte)
      /\ CString(Block(b + 1)) = Block(b + 1)
      /\ Beginning(b) \o Block(b + 1) = Beginning(b + 1)
      /\ Len(Beginning(b)) = b * Segment
      /\ (b + 1) * Segment = b * Segment + Segment
      /\ Len(Block(b + 1)) < Segment <=> Len(source) < (b + 1) * Segment
  BY <1>1, <1>8, BlockFollows
<1>10. /\ block' = [block EXCEPT ![Server] = b + 1]
       /\ last' = [last EXCEPT ![Server] = Ack(b + 1)]
       /\ net' = {Dgram(port[Server], Client, Ack(b + 1))}
  <2>1. /\ block' = [block EXCEPT ![Server] = block[Server] + 1]
        /\ last' = [last EXCEPT ![Server] = Ack(block[Server] + 1)]
        /\ Exchange({d}, {Dgram(port[Server], from, Ack(block[Server] + 1))})
    BY <1>3, Zenon DEF Acknowledge
  <2>2. (IF Timely THEN net \ {d} ELSE net) = {}
    BY <1>5, Zenon DEF Deliverable
  <2> QED
    BY <1>1, <1>7, <2>1, <2>2, Zenon DEF Exchange
<1>11. /\ block'[Server] = b + 1 /\ last'[Server] = Ack(b + 1)
       /\ peer'[Server] = Client
  BY <1>4, <1>7, <1>10, AtServer, Zenon
<1>12. pc'[Server] = IF Len(source) < (b + 1) * Segment THEN "closing" ELSE "writewait"
  <2>1. pc' = [pc EXCEPT ![Server] = IF Len(Block(b + 1)) < Segment THEN "closing"
                                     ELSE pc[Server]]
    BY <1>3, <1>5, Zenon DEF Continue
  <2> QED
    BY <1>4, <1>9, <2>1, AtServer, Zenon
<1>13. held = buf[Server] \o Block(b + 1) /\ held \in Seq(Byte)
  <2>1. held = buf[Server] \o Block(b + 1)
    BY <1>2, <1>5, <1>9, Zenon
  <2> QED
    BY <1>9, <2>1, AtServer, ConcatProperties
<1>14. Uploaded = Beginning(b)
  BY <1>1, <1>6, Zenon DEF BlocksHeld
<1>15. Uploaded' = Beginning(b + 1)
  <2>1. pc[Server] # "wrq" /\ pc'[Server] # "wrq"
    BY <1>4, <1>12
  <2>2. files'[name'[Server]] \o buf'[Server] = files[name[Server]] \o held
    BY <1>3, <1>4, <1>13, <2>1, FlushAppends, Zenon
  <2>3. files[name[Server]] \o held = (files[name[Server]] \o buf[Server]) \o Block(b + 1)
    <3>1. files[name[Server]] \in Seq(Byte) /\ buf[Server] \in Seq(Byte)
      BY <2>1, AtEnd, AtServer, Zenon
    <3>2. PICK f \in Seq(Byte), g \in Seq(Byte), h \in Seq(Byte) :
              f = files[name[Server]] /\ g = buf[Server] /\ h = Block(b + 1)
      BY <1>9, <3>1, Zenon
    <3>3. f \o (g \o h) = (f \o g) \o h
      BY Together, Zenon
    <3> QED
      BY <1>13, <3>2, <3>3, Zenon
  <2>4. files[name[Server]] \o buf[Server] = Beginning(b)
    BY <1>14, <2>1, Zenon DEF Uploaded
  <2> QED
    BY <1>9, <2>1, <2>2, <2>3, <2>4, Zenon DEF Uploaded
<1> QED
  BY <1>1, <1>4, <1>5, <1>8, <1>9, <1>10, <1>11, <1>12, <1>14, <1>15, Zenon DEF StoredNext

\* A block is stored and acknowledged.
LEMMA StoredKeeps ==
    ASSUME Deliverable, UploadInv, NEW d \in net, Stored(Server, d),
           UNCHANGED clientVars
    PROVE  UploadInv'
<1>1. StoredNext
  BY StoresNext, Zenon
<1>2. WriteInv /\ OneInFlight /\ BlocksInStep /\ BlocksHeld
  BY Zenon DEF UploadInv
<1>3. WriteInv'
  BY <1>2, OnlyServer, StoredKeepsWriteInv, Zenon
<1>4. PICK b \in Nat : b = block[Server]
  BY AtServer
<1>5. /\ b * Segment <= Len(source) /\ sent = b + 1 /\ block'[Server] = b + 1
      /\ pc'[Server] = IF Len(source) < (b + 1) * Segment
                       THEN "closing" ELSE "writewait"
      /\ pc[Server] = "writewait"
  BY <1>1, <1>4, Zenon DEF StoredNext
<1>6. pc'[Server] # "wrq" /\ pc'[Server] # "exited"
  BY <1>5
<1>7. source' = source /\ sent' = sent /\ cstate' = cstate
  BY DEF clientVars
<1>8. OneInFlight'
  <2>1. \A e \in net' : e = Dgram(port[Server], Client, Ack(block[Server] + 1))
    BY <1>1, Zenon DEF StoredNext
  <2> QED
    BY <1>1, <1>6, <2>1, ServerSends, Zenon DEF StoredNext
<1>9. BlocksInStep'
  <2>1. Segment \in Nat /\ Len(source) \in Nat
    BY AtServer, Zenon
  <2>2. cstate = "open" /\ source \in Sources /\ sent \in Nat
    BY <1>2, <1>5 DEF BlocksInStep
  <2>3. (b + 1) - 1 = b /\ b + 1 >= 1
    OBVIOUS
  <2>4. PICK n \in Nat : n = (b + 1) * Segment
    BY <2>1
  <2>5. CASE Len(source) < (b + 1) * Segment
    <3>1. pc'[Server] = "closing"
      BY <1>5, <2>5
    <3> QED
      BY <1>5, <1>7, <2>2, <2>3, <2>5, <3>1 DEF BlocksInStep
  <2>6. CASE ~(Len(source) < (b + 1) * Segment)
    <3>1. pc'[Server] = "writewait" /\ (b + 1) * Segment <= Len(source)
      BY <1>5, <2>1, <2>4, <2>6
    <3> QED
      BY <1>5, <1>7, <2>2, <3>1 DEF BlocksInStep
  <2> QED
    BY <2>5, <2>6
<1>10. BlocksHeld'
  <2>1. Beginning(block[Server])' = Beginning(block[Server] + 1)
    BY <1>1, <1>7, Zenon DEF Beginning, StoredNext
  <2> QED
    BY <1>1, <1>6, <2>1, Zenon DEF BlocksHeld, StoredNext
<1> QED
  BY <1>3, <1>8, <1>9, <1>10, Zenon DEF UploadInv

\* fclose: the file then holds what file and stream held together.
LEMMA ClosesFile ==
    ASSUME Deliverable, UploadInv, pc[Server] # "wrq",
           NEW how \in {"exited", "timedout"}, Fclose(Server, how), name' = name
    PROVE  /\ pc'[Server] = how /\ Uploaded' = Uploaded /\ buf'[Server] = <<>>
<1>1. PICK held, k : /\ held \in Seq(Byte) /\ k \in 0..Len(held)
                      /\ held = buf[Server] /\ k = Len(held)
  <2>1. buf[Server] \in Seq(Byte)
    BY AtServer, Zenon
  <2>2. Len(buf[Server]) \in 0..Len(buf[Server])
    BY <2>1, LenProperties
  <2> QED
    BY <2>1, <2>2, Zenon
<1>2. Flush(Server, held, k)
  BY <1>1, Zenon DEF Fclose
<1>3. /\ files'[name'[Server]] \o buf'[Server] = files[name[Server]] \o held
      /\ buf'[Server] = <<>>
  BY <1>1, <1>2, FlushAppends, Zenon
<1>4. pc'[Server] = how
  BY AtServer, Zenon DEF Fclose
<1>5. how # "wrq"
  OBVIOUS
<1> QED
  BY <1>1, <1>3, <1>4, <1>5, Zenon DEF Uploaded

\* The same blocks as before are under way and held.
LEMMA SameBlocks ==
    ASSUME Deliverable, UploadInv, source' = source, block' = block
    PROVE  Beginning(block[Server])' = Beginning(block[Server])
BY Zenon DEF Beginning

\* The loop is over.
LEMMA CloseKeeps ==
    ASSUME Deliverable, UploadInv, Close(Server), UNCHANGED clientVars
    PROVE  UploadInv' /\ Uploaded' = Uploaded /\ pc'[Server] = "exited"
<1>1. /\ pc[Server] = "closing" /\ Fclose(Server, "exited")
      /\ net' = net /\ port' = port /\ peer' = peer /\ name' = name
      /\ block' = block /\ last' = last
  BY Zenon DEF Close
<1>2. WriteInv /\ OneInFlight /\ BlocksInStep /\ BlocksHeld
  BY Zenon DEF UploadInv
<1>3. WriteInv'
  BY <1>2, OnlyServer, CloseKeepsWriteInv, Zenon
<1>4. pc[Server] # "wrq" /\ "exited" # "wrq"
  BY <1>1
<1>5. pc'[Server] = "exited" /\ Uploaded' = Uploaded /\ buf'[Server] = <<>>
  BY <1>1, <1>4, ClosesFile, Zenon
<1>6. source' = source /\ sent' = sent /\ cstate' = cstate
  BY DEF clientVars
<1>7. OneInFlight'
  <2>1. Block(sent)' = Block(sent)
    BY <1>6, Zenon DEF Block
  <2> QED
    BY <1>1, <1>2, <1>4, <1>5, <1>6, <2>1, Zenon DEF OneInFlight
<1>8. BlocksInStep'
  BY <1>1, <1>2, <1>5, <1>6 DEF BlocksInStep
<1>9. BlocksHeld'
  BY <1>1, <1>2, <1>5, <1>6, SameBlocks, Zenon DEF BlocksHeld
<1> QED
  BY <1>3, <1>5, <1>7, <1>8, <1>9, Zenon DEF UploadInv

\* A receive times out.
LEMMA WriteTimeoutKeeps ==
    ASSUME Deliverable, UploadInv, WriteTimeout(Server), UNCHANGED clientVars
    PROVE  /\ UploadInv' /\ Uploaded' = Uploaded
           /\ pc[Server] = "writewait" /\ pc'[Server] \in {"writewait", "timedout"}
<1>1. /\ pc[Server] = "writewait" /\ Silence(Server)
      /\ \/ Fclose(Server, "timedout") /\ net' = net
         \/ /\ Exchange({}, {Dgram(port[Server], peer[Server], last[Server])})
            /\ files' = files /\ pc' = pc /\ buf' = buf
      /\ port' = port /\ peer' = peer /\ name' = name
      /\ block' = block /\ last' = last
  BY Zenon DEF WriteTimeout
<1>2. WriteInv /\ OneInFlight /\ BlocksInStep /\ BlocksHeld
  BY Zenon DEF UploadInv
<1>3. WriteInv'
  BY <1>2, OnlyServer, WriteTimeoutKeepsWriteInv, Zenon
<1>4. pc[Server] # "wrq" /\ "timedout" # "wrq" /\ "timedout" # "exited"
  BY <1>1
<1>5. net = {}
  <2>1. \A d \in net : port[Server] \notin {d.src, d.dst}
    BY <1>1, Zenon DEF Deliverable, Silence
  <2> QED
    BY <1>2, <2>1, Zenon DEF OneInFlight
<1>6. /\ pc'[Server] \in {"writewait", "timedout"} /\ Uploaded' = Uploaded
      /\ \A d \in net' : d = Dgram(port[Server], Client, last[Server])
  <2>1. CASE Fclose(Server, "timedout") /\ net' = net
    BY <1>1, <1>4, <1>5, <2>1, ClosesFile, Zenon
  <2>2. CASE /\ Exchange({}, {Dgram(port[Server], peer[Server], last[Server])})
             /\ files' = files /\ pc' = pc /\ buf' = buf
    <3>1. net' = {Dgram(port[Server], Client, last[Server])}
      BY <1>2, <1>5, <2>2, Zenon DEF Exchange, OneInFlight
    <3>2. Uploaded' = Uploaded
      BY <1>1, <2>2, Zenon DEF Uploaded
    <3> QED
      BY <1>1, <2>2, <3>1, <3>2, Zenon
  <2> QED
    BY <1>1, <2>1, <2>2
<1>7. source' = source /\ sent' = sent /\ cstate' = cstate
  BY DEF clientVars
<1>8. OneInFlight'
  <2>1. pc'[Server] # "wrq"
    BY <1>6
  <2>2. last[Server] = Ack(block[Server]) /\ peer[Server] = Client
    BY <1>2, Zenon DEF OneInFlight
  <2> QED
    BY <1>1, <1>6, <2>1, <2>2, ServerSends, Zenon
<1>9. BlocksInStep'
  BY <1>1, <1>2, <1>6, <1>7 DEF BlocksInStep
<1>10. BlocksHeld'
  <2>1. pc'[Server] # "exited"
    BY <1>6
  <2> QED
    BY <1>1, <1>2, <1>6, <1>7, <2>1, SameBlocks, Zenon DEF BlocksHeld
<1> QED
  BY <1>1, <1>3, <1>6, <1>8, <1>9, <1>10, Zenon DEF UploadInv

\* Datagrams that get lost, or that come from outside, change nothing for the
\* children.
LEMMA OutsideKeepsWriteInv ==
    ASSUME WriteInv, net' \subseteq Datagram,
           \A d \in net' : d \in net \/ d.src \in Peer,
           UNCHANGED <<files, pc, port, peer, name, block, timeouts, last, pos,
                       buf, quiet>>
    PROVE  WriteInv'
<1>1. TypeOK /\ ChildTypeOK /\ Sockets /\ SilenceCounted
  BY Zenon DEF WriteInv, TypeOK
<1>2. StreamsKept
  BY StreamsUntouched, Zenon
<1>3. TypeOK' /\ SilenceCounted' /\ Sockets'
  BY <1>1, Zenon DEF TypeOK, ChildTypeOK, SilenceCounted, Sockets
<1> QED
  BY <1>2, <1>3, Zenon DEF WriteInv, StreamsKept

\* Nothing changes but that fewer datagrams are under way.
LEMMA FewerKeeps ==
    ASSUME Deliverable, UploadInv, net' \subseteq net,
           UNCHANGED <<files, pc, port, peer, name, block, timeouts, last, pos,
                       buf, quiet>>,
           source' = source, sent' = sent,
           \/ cstate' = cstate
           \/ cstate' = "done" /\ pc[Server] \in {"closing", "exited"}
    PROVE  UploadInv' /\ Uploaded' = Uploaded
<1>1. /\ files' = files /\ pc' = pc /\ port' = port /\ peer' = peer
      /\ name' = name /\ block' = block /\ last' = last /\ buf' = buf
  OBVIOUS
<1>2. WriteInv /\ OneInFlight /\ BlocksInStep /\ BlocksHeld
  BY Zenon DEF UploadInv
<1>3. WriteInv'
  <2>1. net' \subseteq Datagram
    BY <1>2, Zenon DEF WriteInv, TypeOK, ChildTypeOK
  <2> QED
    BY <1>2, <2>1, OutsideKeepsWriteInv, Zenon
<1>4. OneInFlight'
  <2>1. Block(sent)' = Block(sent)
    BY Zenon DEF Block
  <2> QED
    BY <1>1, <1>2, <2>1, Zenon DEF OneInFlight
<1>5. BlocksInStep'
  BY <1>1, <1>2 DEF BlocksInStep
<1>6. Uploaded' = Uploaded
  BY <1>1, Zenon DEF Uploaded
<1>7. BlocksHeld'
  BY <1>1, <1>2, <1>6, SameBlocks, Zenon DEF BlocksHeld
<1> QED
  BY <1>3, <1>4, <1>5, <1>6, <1>7, Zenon DEF UploadInv

\* The client sends the block after the one acknowledged.
LEMMA OffersKeeps ==
    ASSUME Deliverable, UploadInv, pc[Server] \in {"writewait", "timedout"},
           UNCHANGED <<files, pc, port, peer, name, block, timeouts, last, pos,
                       buf, quiet>>,
           source' = source, cstate' = cstate,
           NEW b \in Nat, b = block[Server], sent' = b + 1,
           \A d \in net' : d = Dgram(Client, port[Server], Data(b + 1, Block(b + 1)))
    PROVE  UploadInv' /\ Uploaded' = Uploaded
<1>1. /\ files' = files /\ pc' = pc /\ port' = port /\ peer' = peer
      /\ name' = name /\ block' = block /\ last' = last /\ buf' = buf
  OBVIOUS
<1>2. WriteInv /\ OneInFlight /\ BlocksInStep /\ BlocksHeld
  BY Zenon DEF UploadInv
<1>3. PICK x : x = Dgram(Client, port[Server], Data(b + 1, Block(b + 1)))
  OBVIOUS
<1>4. /\ x.src = Client /\ x.dst = port[Server]
      /\ x.pkt = Data(b + 1, Block(b + 1)) /\ x \in Datagram
  <2>1. b * Segment <= Len(source)
    BY <1>2 DEF BlocksInStep
  <2>2. Block(b + 1) \in Seq(Byte)
    BY <2>1, BlockFollows, Zenon
  <2>3. Data(b + 1, Block(b + 1)) \in Packet
    <3>1. b + 1 \in Nat
      OBVIOUS
    <3> QED
      BY <2>2, <3>1, Packets, Zenon
  <2>4. port[Server] \in Port /\ Client \in Peer
    BY AtServer, WriteSessionAssumption, Zenon
  <2> QED
    BY <1>3, <2>3, <2>4 DEF Dgram, Datagram
<1>5. WriteInv'
  <2>1. net' \subseteq Datagram /\ \A d \in net' : d.src \in Peer
    BY <1>3, <1>4, WriteSessionAssumption, Zenon
  <2> QED
    BY <1>2, <2>1, OutsideKeepsWriteInv, Zenon
<1>6. OneInFlight'
  <2>1. Block(sent)' = Block(b + 1)
    BY Zenon DEF Block
  <2>2. pc'[Server] # "wrq"
    BY <1>1
  <2>3. peer[Server] = Client /\ last[Server] = Ack(block[Server])
    BY <1>2, Zenon DEF OneInFlight
  <2> QED
    BY <1>1, <1>3, <1>4, <2>1, <2>2, <2>3, Zenon DEF OneInFlight
<1>7. BlocksInStep'
  BY <1>1, <1>2 DEF BlocksInStep
<1>8. Uploaded' = Uploaded
  BY <1>1, Zenon DEF Uploaded
<1>9. BlocksHeld'
  BY <1>1, <1>2, <1>8, SameBlocks, Zenon DEF BlocksHeld
<1> QED
  BY <1>5, <1>6, <1>7, <1>8, <1>9, Zenon DEF UploadInv

\* ACKs of two blocks in a row differ.
LEMMA AcksDiffer ==
    ASSUME Deliverable, NEW n \in Nat
    PROVE  Ack(n) # Ack(n + 1)
<1>1. Htons(n) # Htons(n + 1)
  BY HtonsDiffers DEF Deliverable
<1> QED
  BY <1>1 DEF Ack

\* The client was short of something exactly when the child was not.
LEMMA LastIsLast ==
    ASSUME Deliverable, UploadInv, sent = block[Server], pc[Server] # "wrq"
    PROVE  LastSent <=> pc[Server] \in {"closing", "exited"}
<1>1. PICK b \in Nat : b = block[Server]
  BY AtServer
<1>2. BlocksInStep /\ Segment \in Nat /\ Len(source) \in Nat
  BY AtServer, Zenon DEF UploadInv
<1>3. CASE b = 0
  <2>1. ~LastSent
    BY <1>1, <1>3 DEF LastSent
  <2>2. pc[Server] \notin {"closing", "exited"}
    BY <1>1, <1>2, <1>3 DEF BlocksInStep
  <2> QED
    BY <2>1, <2>2
<1>4. CASE b > 0
  <2>1. PICK a \in Nat : b = a + 1
    <3>1. b - 1 \in Nat /\ b = (b - 1) + 1
      BY <1>4
    <3> QED
      BY <3>1
  <2>2. PICK m \in Nat, n \in Nat : m = a * Segment /\ n = b * Segment /\ n = m + Segment
    BY <1>2, <2>1
  <2>3. (b - 1) = a
    BY <2>1
  <2>4. a * Segment <= Len(source)
    <3>1. pc[Server] \in {"writewait", "timedout"} => n <= Len(source)
      BY <1>1, <1>2, <2>2 DEF BlocksInStep
    <3>2. pc[Server] \in {"closing", "exited"} => m <= Len(source)
      BY <1>1, <1>2, <2>2, <2>3 DEF BlocksInStep
    <3> QED
      BY <1>2, <2>2, <3>1, <3>2 DEF BlocksInStep
  <2>5. Len(Block(b)) < Segment <=> Len(source) < b * Segment
    BY <2>1, <2>4, BlockFollows, Zenon
  <2>6. LastSent <=> Len(source) < n
    BY <1>1, <1>4, <2>2, <2>5 DEF LastSent
  <2> QED
    BY <1>1, <1>2, <2>2, <2>6 DEF BlocksInStep
<1> QED
  BY <1>3, <1>4

\* The client takes an ACK: it is done, or it sends the block that follows.
LEMMA ClientKeeps ==
    ASSUME Deliverable, UploadInv, ClientStep
    PROVE  UploadInv' /\ Uploaded' = Uploaded /\ pc' = pc /\ source' = source
<1>1. PICK d \in net : d.dst = Client /\ (NextBlock(d) \/ RepeatBlock(d))
  BY Zenon DEF ClientStep
<1>2. /\ UNCHANGED <<files, pc, port, peer, name, block, timeouts, last, pos,
                     buf, quiet>>
      /\ pc' = pc /\ source' = source
  BY DEF ClientStep
<1>3. PICK b \in Nat : b = block[Server]
  BY AtServer
<1>4. OneInFlight /\ BlocksInStep
  BY Zenon DEF UploadInv
<1>5. /\ d.src = port[Server] /\ d.pkt = Ack(b) /\ \A e \in net : e = d
      /\ pc[Server] # "wrq"
  BY <1>1, <1>3, <1>4, AtServer, Zenon DEF OneInFlight
<1>6. sent \in {b, b + 1} /\ sent \in Nat
  BY <1>3, <1>4 DEF BlocksInStep
<1>7. Ack(b) # Ack(b + 1)
  BY AcksDiffer, Zenon
<1>8. ASSUME NEW x, Exchange({d}, {x}) PROVE \A e \in net' : e = x
  BY <1>5, <1>8, Zenon DEF Exchange, Deliverable
<1>9. CASE NextBlock(d)
  <2>1. sent = b
    BY <1>5, <1>6, <1>7, <1>9, Zenon DEF NextBlock
  <2>2. LastSent <=> pc[Server] \in {"closing", "exited"}
    BY <1>3, <1>5, <2>1, LastIsLast, Zenon
  <2>3. CASE LastSent
    <3>1. cstate' = "done" /\ Exchange({d}, {}) /\ sent' = sent
      BY <1>9, <2>3, Zenon DEF NextBlock
    <3>2. net' \subseteq net
      BY <3>1 DEF Exchange
    <3> QED
      BY <1>2, <2>2, <2>3, <3>1, <3>2, FewerKeeps, Zenon
  <2>4. CASE ~LastSent
    <3>1. /\ sent' = b + 1 /\ cstate' = cstate
          /\ Exchange({d}, {Dgram(Client, port[Server], Data(b + 1, Block(b + 1)))})
      BY <1>5, <1>9, <2>1, <2>4, Zenon DEF NextBlock
    <3>2. \A e \in net' : e = Dgram(Client, port[Server], Data(b + 1, Block(b + 1)))
      BY <1>8, <3>1, Zenon
    <3>3. pc[Server] \in {"writewait", "timedout"}
      BY <1>4, <1>5, <2>2, <2>4 DEF BlocksInStep
    <3> QED
      BY <1>2, <1>3, <3>1, <3>2, <3>3, OffersKeeps, Zenon
  <2> QED
    BY <2>3, <2>4
<1>10. CASE RepeatBlock(d)
  <2>1. /\ sent > 0 /\ d.pkt = Ack(sent - 1)
        /\ Exchange({d}, {Dgram(Client, port[Server], Data(sent, Block(sent)))})
        /\ sent' = sent /\ cstate' = cstate
    BY <1>5, <1>10, Zenon DEF RepeatBlock
  <2>2. sent = b + 1
    <3> SUFFICES ASSUME sent = b PROVE FALSE
      BY <1>6, Zenon
    <3>1. sent - 1 \in Nat /\ (sent - 1) + 1 = b
      BY <1>6, <2>1
    <3>2. Ack(sent - 1) # Ack((sent - 1) + 1)
      BY <3>1, AcksDiffer, Zenon
    <3> QED
      BY <1>5, <2>1, <3>1, <3>2, Zenon
  <2>3. \A e \in net' : e = Dgram(Client, port[Server], Data(b + 1, Block(b + 1)))
    BY <1>8, <2>1, <2>2, Zenon
  <2>4. pc[Server] \in {"writewait", "timedout"}
    <3>1. sent # b
      BY <2>2
    <3> QED
      BY <1>3, <1>4, <1>5, <3>1 DEF BlocksInStep
  <2> QED
    BY <1>2, <1>3, <2>1, <2>2, <2>3, <2>4, OffersKeeps, Zenon
<1> QED
  BY <1>1, <1>2, <1>9, <1>10

\* The network loses a datagram.
LEMMA LoseKeeps ==
    ASSUME Deliverable, UploadInv, Lose
    PROVE  UploadInv' /\ Uploaded' = Uploaded /\ pc' = pc /\ source' = source
<1>1. /\ UNCHANGED <<files, pc, port, peer, name, block, timeouts, last, pos,
                     buf, quiet>>
      /\ pc' = pc /\ source' = source /\ sent' = sent /\ cstate' = cstate
  BY DEF Lose, clientVars
<1>2. net' \subseteq net
  BY DEF Lose
<1> QED
  BY <1>1, <1>2, FewerKeeps, Zenon

\* Nothing happens.
LEMMA StutterKeeps ==
    ASSUME Deliverable, UploadInv, UNCHANGED sessionVars
    PROVE  UploadInv' /\ Uploaded' = Uploaded /\ pc' = pc /\ source' = source
<1>1. /\ UNCHANGED <<files, pc, port, peer, name, block, timeouts, last, pos,
                     buf, quiet>>
      /\ net' = net
      /\ pc' = pc /\ source' = source /\ sent' = sent /\ cstate' = cstate
  BY DEF sessionVars, vars, childVars, clientVars
<1>2. net' \subseteq net
  BY <1>1
<1> QED
  BY <1>1, <1>2, FewerKeeps, Zenon

\* The child does something: it opens the file, stores a block, closes the file or
\* hears nothing. It neither crashes nor gives up at its first datagram.
LEMMA ServeSteps ==
    ASSUME Deliverable, UploadInv, NEW c \in Child, Serve(c)
    PROVE  /\ UNCHANGED clientVars
           /\ \/ Start(Server) \/ WriteTimeout(Server) \/ Close(Server)
              \/ \E d \in net : Stored(Server, d)
<1>1. WriteStep(Server) /\ UNCHANGED clientVars
  BY OnlyServer, Zenon DEF Serve
<1>2. name[Server] \notin Unwritable /\ ~NegativeLen
  BY AtServer, Zenon DEF Deliverable
<1> QED
  BY <1>1, <1>2, Zenon DEF WriteStep, Crashed, Mistaken

\* At first nothing is under way and nothing is stored.
LEMMA InitUploadInv ==
    ASSUME Deliverable, SessionInit PROVE UploadInv
<1>1. /\ Init /\ net = {} /\ pc = [c \in Child |-> "wrq"]
      /\ block = [c \in Child |-> 0]
      /\ last = [c \in Child |-> Ack(0)]
      /\ \A c \in Child : peer[c] = Client
      /\ source \in Sources /\ sent = 0 /\ cstate = "open"
  BY DEF SessionInit, Init, ChildInit
<1>2. WriteInv
  BY <1>1, InitWriteInv
<1>3. pc[Server] = "wrq" /\ block[Server] = 0 /\ last[Server] = Ack(0)
  BY <1>1, OnlyServer, Zenon
<1>4. OneInFlight
  BY <1>1, <1>3, OnlyServer, Zenon DEF OneInFlight
<1>5. Len(source) \in Nat /\ Segment \in Nat
  BY <1>1, WriteSessionAssumption, LenProperties, TftpAssumption
<1>6. 0 * Segment = 0 /\ 0 <= Len(source)
  BY <1>5
<1>7. BlocksInStep
  BY <1>1, <1>3, <1>6 DEF BlocksInStep
<1>8. BlocksHeld
  <2>1. SubSeq(source, 1, 0) = <<>>
    BY SubSeqEmpty
  <2>2. Beginning(0) = SubSeq(source, 1, 0)
    BY <1>6, Zenon DEF Beginning
  <2>3. "wrq" # "exited"
    OBVIOUS
  <2> QED
    BY <1>3, <2>1, <2>2, <2>3, Zenon DEF BlocksHeld, Uploaded
<1> QED
  BY <1>2, <1>4, <1>7, <1>8, Zenon DEF UploadInv

\* Whatever happens next, the upload stays in step.
LEMMA StepKeeps ==
    ASSUME Deliverable, UploadInv, [SessionNext]_sessionVars
    PROVE  UploadInv'
<1>1. ASSUME NEW c \in Child, Serve(c) PROVE UploadInv'
  BY <1>1, ServeSteps, StartKeeps, StoredKeeps, CloseKeeps, WriteTimeoutKeeps, Zenon
<1> QED
  BY <1>1, ClientKeeps, LoseKeeps, StutterKeeps, Zenon DEF SessionNext

\* An upload stays in step for ever: at most one datagram is under way, the client
\* is at the block the child acknowledged or at the next, and the child's file and
\* stream hold exactly the blocks it acknowledged.
THEOREM UploadInvariant ==
    ASSUME Deliverable PROVE SessionSpec => []UploadInv
<1>1. SessionInit => UploadInv
  BY InitUploadInv
<1>2. UploadInv /\ [SessionNext]_sessionVars => UploadInv'
  BY StepKeeps
<1> QED
  BY <1>1, <1>2, PTL DEF SessionSpec

\* Blocks that the client saw acknowledged are in the server's hands, whatever
\* blocks and ACKs were lost.
THEOREM AcknowledgedIsHeld ==
    ASSUME Deliverable PROVE SessionSpec => []AckedIsHeld
<1>1. UploadInv => AckedIsHeld
  <2> SUFFICES ASSUME UploadInv PROVE AckedIsHeld
    OBVIOUS
  <2>1. PICK b \in Nat : b = block[Server]
    BY AtServer
  <2>2. BlocksInStep /\ Segment \in Nat /\ Len(source) \in Nat
    BY AtServer, Zenon DEF UploadInv
  <2>3. PICK n \in Nat : /\ n = (IF b * Segment <= Len(source) THEN b * Segment
                                 ELSE Len(source))
                         /\ n <= Len(source) /\ Len(Uploaded) = n
    <3>1. PICK n \in Nat : /\ n = (IF b * Segment <= Len(source) THEN b * Segment
                                   ELSE Len(source))
                           /\ n <= Len(source)
      BY <2>2
    <3>2. Uploaded = SubSeq(source, 1, n)
      BY <2>1, <3>1, Zenon DEF UploadInv, BlocksHeld, Beginning
    <3>3. 0 + 1 = 1 /\ n - 0 = n /\ 0 <= n /\ 0 \in Nat
      OBVIOUS
    <3>4. Len(SubSeq(source, 0 + 1, n)) = n - 0
      BY <3>1, <3>3, AtServer, Piece, Zenon
    <3> QED
      BY <3>1, <3>2, <3>3, <3>4, Zenon
  <2>4. PICK m \in Nat : m = b * Segment
    BY <2>2
  <2>5. CASE cstate = "done"
    <3>1. Len(source) < m
      BY <2>1, <2>2, <2>4, <2>5 DEF BlocksInStep
    <3> QED
      BY <2>2, <2>3, <2>4, <2>5, <3>1 DEF AckedIsHeld
  <2>6. CASE cstate # "done" /\ sent = 0
    BY <2>3, <2>6 DEF AckedIsHeld
  <2>7. CASE cstate # "done" /\ sent # 0
    <3>1. (sent - 1) * Segment <= Len(Uploaded)
      <4>1. CASE sent = b + 1
        <5>1. m <= Len(source)
          BY <2>1, <2>2, <2>4, <4>1 DEF BlocksInStep
        <5>2. sent - 1 = b /\ n = m
          BY <2>3, <2>4, <4>1, <5>1
        <5> QED
          BY <2>3, <2>4, <5>2
      <4>2. CASE sent = b
        <5>1. PICK a \in Nat : b = a + 1 /\ b - 1 = a
          <6>1. b - 1 \in Nat /\ b = (b - 1) + 1
            BY <2>7, <4>2
          <6> QED
            BY <6>1
        <5>2. PICK l \in Nat : l = a * Segment /\ m = l + Segment
          BY <2>2, <2>4, <5>1
        <5>3. l <= Len(source)
          BY <2>1, <2>2, <2>4, <5>1, <5>2 DEF BlocksInStep
        <5> QED
          BY <2>2, <2>3, <2>4, <4>2, <5>1, <5>2, <5>3
      <4> QED
        BY <2>1, <2>2, <4>1, <4>2 DEF BlocksInStep
    <3> QED
      BY <2>2, <2>3, <2>7, <3>1 DEF AckedIsHeld, BlocksInStep
  <2> QED
    BY <2>5, <2>6, <2>7
<1> QED
  BY <1>1, UploadInvariant, PTL

\* When the child has ended an upload, the file is the client's to the last byte.
THEOREM UploadsExactly ==
    ASSUME Deliverable PROVE SessionSpec => []UploadExact
<1>1. UploadInv => UploadExact
  <2> SUFFICES ASSUME UploadInv, pc[Server] = "exited"
               PROVE  files[name[Server]] = source
    BY DEF UploadExact
  <2>1. /\ source \in Seq(Byte) /\ Len(source) \in Nat
        /\ block[Server] \in Nat /\ Segment \in Nat
    BY AtServer, Zenon
  <2>2. PICK m \in Nat : m = block[Server] * Segment
    BY <2>1
  <2>3. ~(m <= Len(source))
    BY <2>1, <2>2 DEF UploadInv, BlocksInStep
  <2>4. Uploaded = SubSeq(source, 1, Len(source))
    BY <2>2, <2>3, Zenon DEF UploadInv, BlocksHeld, Beginning
  <2>5. Uploaded = source
    BY <2>1, <2>4, SubSeqFull, Zenon
  <2>6. pc[Server] # "wrq" /\ buf[Server] = <<>>
    BY DEF UploadInv, BlocksHeld
  <2>7. files[name[Server]] \in Seq(Byte)
    BY <2>6, AtEnd, Zenon
  <2>8. files[name[Server]] \o <<>> = files[name[Server]]
    BY <2>7, ConcatEmptySeq, Zenon
  <2> QED
    BY <2>5, <2>6, <2>8, Zenon DEF Uploaded
<1> QED
  BY <1>1, UploadInvariant, PTL

\* What write_data holds grows by one block of the client's file at a time, and it
\* ends the transfer when a short block has followed all full ones: every step of
\* an upload is a step of FileCopy or leaves its state alone.
THEOREM UploadCopiesFile ==
    ASSUME Deliverable PROVE SessionSpec => RefinesFileCopy
<1>1. SessionInit => Copying!Init
  <2> SUFFICES ASSUME SessionInit PROVE Copying!Init
    OBVIOUS
  <2>1. pc[Server] = "wrq"
    BY OnlyServer DEF SessionInit, Init, ChildInit
  <2> QED
    BY <2>1 DEF Copying!Init, Uploaded
<1>2. UploadInv /\ [SessionNext]_sessionVars => [Copying!Deliver]_Copying!copyVars
  <2> SUFFICES ASSUME UploadInv, [SessionNext]_sessionVars
               PROVE  Copying!Deliver \/ UNCHANGED Copying!copyVars
    OBVIOUS
  <2>1. ASSUME source' = source, Uploaded' = Uploaded,
               (pc'[Server] \in {"closing", "exited"})
                 = (pc[Server] \in {"closing", "exited"})
        PROVE  UNCHANGED Copying!copyVars
    BY <2>1, Zenon DEF Copying!copyVars
  <2>2. ASSUME NEW d \in net, Stored(Server, d), UNCHANGED clientVars
        PROVE  Copying!Deliver
    <3>1. StoredNext
      BY <2>2, StoresNext, Zenon
    <3>2. source' = source
      BY <2>2 DEF clientVars
    <3>3. PICK n \in Nat : n = (block[Server] + 1) * Segment /\ Len(source) \in Nat
      BY AtServer
    <3>4. /\ Len(Uploaded) + Segment = n
          /\ Uploaded' = SubSeq(source, 1, IF n <= Len(source) THEN n ELSE Len(source))
          /\ pc[Server] = "writewait"
          /\ pc'[Server] = IF Len(source) < n THEN "closing" ELSE "writewait"
      BY <3>1, <3>3, Zenon DEF StoredNext, Beginning
    <3>5. pc[Server] \notin {"closing", "exited"}
      BY <3>4
    <3>6. (pc'[Server] \in {"closing", "exited"}) = (n > Len(source))
      BY <3>3, <3>4
    <3> QED
      BY <3>2, <3>4, <3>5, <3>6, Zenon DEF Copying!Deliver
  <2>3. ASSUME NEW c \in Child, Serve(c)
        PROVE  Copying!Deliver \/ UNCHANGED Copying!copyVars
    <3>1. UNCHANGED clientVars /\ source' = source
      BY <2>3, ServeSteps DEF clientVars
    <3>2. CASE Start(Server)
      <4>1. pc[Server] = "wrq" /\ pc'[Server] = "writewait"
        BY <3>2, AtServer, Zenon DEF Start
      <4>2. Uploaded' = Uploaded
        <5>1. UploadInv' /\ block' = block
          BY <3>1, <3>2, StartKeeps DEF Start
        <5>2. Beginning(block[Server])' = Beginning(block[Server])
          BY <3>1, <5>1, SameBlocks, Zenon
        <5> QED
          BY <5>1, <5>2, Zenon DEF UploadInv, BlocksHeld
      <4> QED
        BY <2>1, <3>1, <4>1, <4>2
    <3>3. CASE WriteTimeout(Server)
      <4>1. /\ Uploaded' = Uploaded /\ pc[Server] = "writewait"
            /\ pc'[Server] \in {"writewait", "timedout"}
        BY <3>1, <3>3, WriteTimeoutKeeps
      <4> QED
        BY <2>1, <3>1, <4>1
    <3>4. CASE Close(Server)
      <4>1. Uploaded' = Uploaded /\ pc[Server] = "closing" /\ pc'[Server] = "exited"
        BY <3>1, <3>4, CloseKeeps DEF Close
      <4> QED
        BY <2>1, <3>1, <4>1
    <3> QED
      BY <2>2, <2>3, <3>1, <3>2, <3>3, <3>4, ServeSteps, Zenon
  <2>4. CASE ClientStep \/ Lose \/ UNCHANGED sessionVars
    <3>1. Uploaded' = Uploaded /\ pc' = pc /\ source' = source
      BY <2>4, ClientKeeps, LoseKeeps, StutterKeeps
    <3> QED
      BY <2>1, <3>1, Zenon
  <2> QED
    BY <2>3, <2>4, Zenon DEF SessionNext
<1> QED
  BY <1>1, <1>2, UploadInvariant, PTL DEF SessionSpec, RefinesFileCopy, Copying!Spec
============================================================================
