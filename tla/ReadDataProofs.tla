-------------------------- MODULE ReadDataProofs --------------------------
(***************************************************************************)
(* read_data sends the file exactly, for any number of children, files of  *)
(* any length, any segment size, read-ahead, block-number width and number *)
(* of timeouts, and any datagrams arriving in any order.                   *)
(***************************************************************************)
EXTENDS ReadData, SequenceTheorems, TLAPS

\* A piece of a sequence of bytes is a sequence of bytes of the expected length.
LEMMA Piece ==
    ASSUME NEW f \in Seq(Byte), NEW i \in Nat, NEW j \in Nat,
           i <= j, j <= Len(f)
    PROVE  /\ SubSeq(f, i + 1, j) \in Seq(Byte)
           /\ Len(SubSeq(f, i + 1, j)) = j - i
<1>1. Len(f) \in Nat /\ \A k \in (i + 1)..j : f[k] \in Byte
  BY ElementOfSeq, LenProperties
<1> QED
  BY <1>1, SubSeqProperties, SMT

\* Block numbers fit on the wire, and packets are packets.
LEMMA Packets ==
    ASSUME NEW b \in Nat, NEW s \in Seq(Byte)
    PROVE  Data(b, s) \in Packet /\ Ack(b) \in Packet /\ Err(b) \in Packet
<1>1. Htons(b) \in 0..(BlockMod - 1)
  BY TftpAssumption DEF Htons
<1>2. <<>> \in Seq(Byte)
  OBVIOUS
<1> QED
  BY <1>1, <1>2 DEF Data, Ack, Err, Packet

\* Block numbers on the wire tell a segment from the next.
LEMMA HtonsDiffers ==
    ASSUME NEW n \in Nat, BlockMod > 1
    PROVE  Htons(n) # Htons(n + 1)
<1>1. BlockMod \in Nat /\ BlockMod > 1
  BY TftpAssumption
<1> SUFFICES ASSUME n % BlockMod = (n + 1) % BlockMod PROVE FALSE
  BY DEF Htons
<1>2. PICK r \in Int, p \in Int, q \in Int :
          n = BlockMod * q + r /\ n + 1 = BlockMod * p + r
  <2>1. n = BlockMod * (n \div BlockMod) + (n % BlockMod)
    BY <1>1
  <2>2. n + 1 = BlockMod * ((n + 1) \div BlockMod) + ((n + 1) % BlockMod)
    BY <1>1
  <2>3. n \div BlockMod \in Int /\ (n + 1) \div BlockMod \in Int /\ n % BlockMod \in Int
    BY <1>1
  <2> QED
    BY <2>1, <2>2, <2>3, Zenon
<1>3. PICK t \in Int : t = p - q
  OBVIOUS
<1>4. BlockMod * t = 1
  BY <1>1, <1>2, <1>3
<1>5. CASE t >= 1
  BY <1>1, <1>4, <1>5
<1>6. CASE t <= 0
  BY <1>1, <1>4, <1>6
<1> QED
  BY <1>5, <1>6

\* A piece of a piece is a piece of the whole.
LEMMA PieceOfPiece ==
    ASSUME NEW f \in Seq(Byte), NEW t \in Nat, NEW p \in Nat, NEW i \in Nat,
           NEW j \in Nat, p <= Len(f), i <= j, t + j <= p
    PROVE  SubSeq(SubSeq(f, t + 1, p), i + 1, j) = SubSeq(f, t + i + 1, t + j)
<1> DEFINE g == SubSeq(f, t + 1, p)
<1>1. Len(f) \in Nat
  BY LenProperties
<1>2. CASE i = j
  BY <1>1, <1>2, SubSeqEmpty, SMT
<1>3. CASE i < j
  <2>1. /\ t + 1 \in 1..Len(f)
        /\ p \in 1..Len(f)
        /\ i + 1 \in 1..(p - (t + 1) + 1)
        /\ j \in 1..(p - (t + 1) + 1)
    BY <1>1, <1>3
  <2>2. SubSeq(g, i + 1, j) = SubSeq(f, (t + 1) + (i + 1) - 1, (t + 1) + j - 1)
    BY <2>1, SubSeqOfSubSeq
  <2> QED
    BY <2>2, SMT
<1> QED
  BY <1>2, <1>3

\* Cutting a segment off the m bytes of a file that follow offset t, which reach
\* its end unless they fill the segment.
LEMMA CutSegment ==
    ASSUME NEW f \in Seq(Byte), NEW t \in Nat, NEW m \in Nat,
           t + m <= Len(f), m < Segment => t + m = Len(f)
    PROVE  \E n \in Nat :
               /\ n = Least(Segment, m)
               /\ t + n \in Nat /\ t <= t + n /\ t + n <= t + m
               /\ t + n <= Len(f) /\ t + n = Least(t + Segment, Len(f))
               /\ t + Segment <= Len(f) => t + n = t + Segment
               /\ (n < Segment) = (Len(f) < t + Segment)
               /\ SubSeq(SubSeq(f, t + 1, t + m), 1, n) = SubSeq(f, t + 1, t + n)
               /\ SubSeq(SubSeq(f, t + 1, t + m), n + 1, m)
                    = SubSeq(f, t + n + 1, t + m)
               /\ Len(SubSeq(f, t + 1, t + n)) = n
<1>1. Segment \in Nat /\ Len(f) \in Nat
  BY TftpAssumption, LenProperties
<1>2. PICK n \in Nat : n = Least(Segment, m) /\ n <= m /\ n <= Segment
  BY <1>1 DEF Least
<1>3. /\ t + n \in Nat /\ t <= t + n /\ t + n <= t + m
      /\ t + n <= Len(f) /\ t + n = Least(t + Segment, Len(f))
      /\ t + Segment <= Len(f) => t + n = t + Segment
      /\ (n < Segment) = (Len(f) < t + Segment)
  BY <1>1, <1>2 DEF Least
<1>4. SubSeq(SubSeq(f, t + 1, t + m), 1, n) = SubSeq(f, t + 1, t + n)
  <2>1. SubSeq(SubSeq(f, t + 1, t + m), 0 + 1, n) = SubSeq(f, t + 0 + 1, t + n)
    BY <1>2, PieceOfPiece
  <2>2. 0 + 1 = 1 /\ t + 0 + 1 = t + 1
    OBVIOUS
  <2> QED
    BY <2>1, <2>2, Zenon
<1>5. SubSeq(SubSeq(f, t + 1, t + m), n + 1, m) = SubSeq(f, t + n + 1, t + m)
  <2>1. t + m \in Nat /\ t + m <= t + m
    OBVIOUS
  <2> QED
    BY <1>2, <2>1, PieceOfPiece, SMTT(60)
<1>6. Len(SubSeq(f, t + 1, t + n)) = n
  <2>1. t + n \in Nat /\ t <= t + n /\ t + n <= Len(f) /\ (t + n) - t = n
    BY <1>1, <1>2
  <2>2. Len(SubSeq(f, t + 1, t + n)) = (t + n) - t
    BY <2>1, Piece
  <2> QED
    BY <2>1, <2>2, Zenon
<1> QED
  BY <1>2, <1>3, <1>4, <1>5, <1>6, Zenon

\* A stream's buffer with the file's bytes t+1..p, followed by its bytes p+1..q.
LEMMA Joined ==
    ASSUME NEW f \in Seq(Byte), NEW t \in Nat, NEW p \in Nat, NEW q \in Nat,
           t <= p, p <= q, q <= Len(f)
    PROVE  \E m \in Nat :
               /\ q = t + m
               /\ p + Len(SubSeq(f, p + 1, q)) = t + m
               /\ SubSeq(f, t + 1, p) \o SubSeq(f, p + 1, q)
                    = SubSeq(f, t + 1, t + m)
               /\ Len(SubSeq(f, t + 1, t + m)) = m
<1>1. Len(f) \in Nat
  BY LenProperties
<1>2. PICK m \in Nat : q = t + m
  <2>1. q - t \in Nat /\ q = t + (q - t)
    OBVIOUS
  <2> QED
    BY <2>1
<1>3. Len(SubSeq(f, p + 1, q)) = q - p
  BY Piece
<1>4. SubSeq(f, t + 1, p) \o SubSeq(f, p + 1, q) = SubSeq(f, t + 1, q)
  <2>1. /\ t + 1 \in 1..(Len(f) + 1)
        /\ p \in ((t + 1) - 1)..Len(f)
        /\ q \in p..Len(f)
    BY <1>1
  <2> QED
    BY <2>1, ConcatAdjacentSubSeq
<1>5. Len(SubSeq(f, t + 1, q)) = q - t
  <2>1. t <= q
    OBVIOUS
  <2> QED
    BY <2>1, Piece
<1>6. p + (q - p) = t + m /\ q - t = m
  BY <1>2
<1> QED
  BY <1>2, <1>3, <1>4, <1>5, <1>6, Zenon

\* One fread: a stream at offset p whose buffer holds the file's bytes t+1..p
\* fetches its bytes up to an offset q, and then the bytes t+1..q at hand reach
\* the end of the file unless they fill a segment.
LEMMA Fetched ==
    ASSUME NEW f \in Seq(Byte), NEW t \in Nat, NEW p \in Nat,
           t <= p, p <= Len(f)
    PROVE  \E q \in Nat :
               /\ p <= q /\ q <= Len(f)
               /\ q - t < Segment => q = Len(f)
               /\ (IF Len(SubSeq(f, t + 1, p)) < Segment
                   THEN SubSeq(f, p + 1, Least(p + ReadAhead, Len(f)))
                   ELSE <<>>) = SubSeq(f, p + 1, q)
<1>0. Segment \in Nat /\ ReadAhead \in Nat /\ Segment <= ReadAhead
  BY TftpAssumption, ReadDataAssumption
<1>1. Len(f) \in Nat
  BY LenProperties
<1>2. Len(SubSeq(f, t + 1, p)) = p - t
  BY Piece
<1>3. CASE p - t < Segment
  <2> DEFINE q == Least(p + ReadAhead, Len(f))
  <2>1. q \in Nat /\ p <= q /\ q <= Len(f) /\ (q - t < Segment => q = Len(f))
    BY <1>0, <1>1, <1>3 DEF Least
  <2> HIDE DEF q
  <2> QED
    BY <1>2, <1>3, <2>1, Zenon DEF q
<1>4. CASE ~(p - t < Segment)
  <2>1. SubSeq(f, p + 1, p) = <<>>
    BY SubSeqEmpty
  <2>2. p <= p
    OBVIOUS
  <2> QED
    BY <1>2, <1>4, <2>1, <2>2, Zenon
<1> QED
  BY <1>3, <1>4

\* One turn of the loop on a stream at offset p whose buffer starts at offset t
\* of file f: it fetches r, so that a is at hand, m bytes; the n bytes handed out
\* are the file from t on, up to a whole segment or the end, and the buffer keeps
\* what follows.
ReadTurn(f, t, p, r, a, n, m) ==
    /\ n \in Nat /\ m \in Nat
    /\ r = (IF Len(SubSeq(f, t + 1, p)) < Segment
            THEN SubSeq(f, p + 1, Least(p + ReadAhead, Len(f)))
            ELSE <<>>)
    /\ a = SubSeq(f, t + 1, p) \o r
    /\ n = Least(Segment, Len(a))
    /\ t + n \in Nat /\ t <= t + n /\ t + n <= t + m
    /\ t + n <= Len(f) /\ t + n = Least(t + Segment, Len(f))
    /\ t + Segment <= Len(f) => t + n = t + Segment
    /\ t + m \in Nat /\ t + m <= Len(f) /\ p + Len(r) = t + m
    /\ (Len(SubSeq(a, 1, n)) < Segment) = (Len(f) < t + Segment)
    /\ SubSeq(a, 1, n) = SubSeq(f, t + 1, t + n)
    /\ SubSeq(a, n + 1, Len(a)) = SubSeq(f, t + n + 1, t + m)

\* Every turn is like that.
LEMMA OneRead ==
    ASSUME NEW f \in Seq(Byte), NEW t \in Nat, NEW p \in Nat,
           t <= p, p <= Len(f)
    PROVE  \E r, a, n, m : ReadTurn(f, t, p, r, a, n, m)
<1>1. PICK q \in Nat :
          /\ p <= q /\ q <= Len(f)
          /\ q - t < Segment => q = Len(f)
          /\ (IF Len(SubSeq(f, t + 1, p)) < Segment
              THEN SubSeq(f, p + 1, Least(p + ReadAhead, Len(f)))
              ELSE <<>>) = SubSeq(f, p + 1, q)
  BY Fetched, Zenon
<1>2. PICK m \in Nat :
          /\ q = t + m
          /\ p + Len(SubSeq(f, p + 1, q)) = t + m
          /\ SubSeq(f, t + 1, p) \o SubSeq(f, p + 1, q)
               = SubSeq(f, t + 1, t + m)
          /\ Len(SubSeq(f, t + 1, t + m)) = m
  BY <1>1, Joined, Zenon
<1>3. q - t = m
  BY <1>2
<1>4. t + m \in Nat /\ t + m <= Len(f) /\ (m < Segment => t + m = Len(f))
  BY <1>1, <1>2, <1>3, Zenon
<1>5. PICK n \in Nat :
          /\ n = Least(Segment, m)
          /\ t + n \in Nat /\ t <= t + n /\ t + n <= t + m
          /\ t + n <= Len(f) /\ t + n = Least(t + Segment, Len(f))
          /\ t + Segment <= Len(f) => t + n = t + Segment
          /\ (n < Segment) = (Len(f) < t + Segment)
          /\ SubSeq(SubSeq(f, t + 1, t + m), 1, n) = SubSeq(f, t + 1, t + n)
          /\ SubSeq(SubSeq(f, t + 1, t + m), n + 1, m)
               = SubSeq(f, t + n + 1, t + m)
          /\ Len(SubSeq(f, t + 1, t + n)) = n
  BY <1>4, CutSegment, Zenon
<1>6. PICK r, a : /\ r = SubSeq(f, p + 1, q) /\ a = SubSeq(f, t + 1, t + m)
  OBVIOUS
<1>7. ReadTurn(f, t, p, r, a, n, m)
  BY <1>1, <1>2, <1>4, <1>5, <1>6, Zenon DEF ReadTurn
<1> QED
  BY <1>7, Zenon

\* Segments follow one another.
LEMMA Offsets ==
    ASSUME NEW b \in Nat, b >= 1
    PROVE  Off(b) \in Nat /\ Off(b + 1) = Off(b) + Segment
<1>1. Segment \in Nat
  BY TftpAssumption
<1>2. PICK k \in Nat : b = k + 1
  <2>1. b - 1 \in Nat /\ b = (b - 1) + 1
    OBVIOUS
  <2> QED
    BY <2>1
<1>3. b - 1 = k /\ (b + 1) - 1 = k + 1
  BY <1>2
<1>4. k * Segment \in Nat /\ (k + 1) * Segment = k * Segment + Segment
  BY <1>1
<1> QED
  BY <1>3, <1>4, Zenon DEF Off

\* What one turn of read_data's loop sends and leaves behind: segment b of f,
\* which starts at offset t, went out, and the buffer holds the file from an
\* offset u on, the end of that segment, up to the stream's new offset q.
SegmentSent(c, b, in, to, f, t) ==
    \E q \in Nat, u \in Nat :
        /\ u <= q /\ q <= Len(f)
        /\ Seg(f, b) \in Seq(Byte)
        /\ SubSeq(f, u + 1, q) \in Seq(Byte)
        /\ t + Segment <= Len(f) => u = t + Segment
        /\ last' = [last EXCEPT ![c] = Data(b, Seg(f, b))]
        /\ pos' = [pos EXCEPT ![c] = q]
        /\ buf' = [buf EXCEPT ![c] = SubSeq(f, u + 1, q)]
        /\ done' = [done EXCEPT ![c] = Len(f) < t + Segment]
        /\ block' = [block EXCEPT ![c] = b + 1]
        /\ Exchange(in, {Dgram(port[c], to, Data(b, Seg(f, b)))})

\* One turn of read_data's loop, from a stream that stands at segment b.
LEMMA SendsSegment ==
    ASSUME NEW c \in Child, NEW b \in Nat, b >= 1, NEW in, NEW to,
           NEW f \in Seq(Byte), f = files[name[c]],
           NEW p \in Nat, p = pos[c],
           NEW t \in Nat, t = Off(b), t <= p, p <= Len(f),
           buf[c] = SubSeq(f, t + 1, p),
           SendBlock(c, b, in, to)
    PROVE  SegmentSent(c, b, in, to, f, t)
<1>1. PICK r, a, n, m : ReadTurn(f, t, p, r, a, n, m)
  BY OneRead, Zenon
<1>2. /\ n \in Nat /\ m \in Nat
      /\ t + n \in Nat /\ t <= t + n /\ t + n <= t + m
      /\ t + n <= Len(f) /\ t + n = Least(t + Segment, Len(f))
      /\ t + Segment <= Len(f) => t + n = t + Segment
      /\ n = Least(Segment, Len(a))
      /\ t + m \in Nat /\ t + m <= Len(f) /\ p + Len(r) = t + m
      /\ (Len(SubSeq(a, 1, n)) < Segment) = (Len(f) < t + Segment)
      /\ SubSeq(a, 1, n) = SubSeq(f, t + 1, t + n)
      /\ SubSeq(a, n + 1, Len(a)) = SubSeq(f, t + n + 1, t + m)
  BY <1>1, Zenon DEF ReadTurn
<1>3. r = Refilled(c) /\ a = Available(c)
  BY <1>1, Zenon DEF ReadTurn, Refilled, Available, Fill
<1>4. /\ last' = [last EXCEPT ![c] = Data(b, SubSeq(a, 1, n))]
      /\ pos' = [pos EXCEPT ![c] = pos[c] + Len(r)]
      /\ buf' = [buf EXCEPT ![c] = SubSeq(a, n + 1, Len(a))]
      /\ done' = [done EXCEPT ![c] = Len(SubSeq(a, 1, n)) < Segment]
      /\ block' = [block EXCEPT ![c] = b + 1]
      /\ Exchange(in, {Dgram(port[c], to, Data(b, SubSeq(a, 1, n)))})
  BY <1>2, <1>3, Zenon DEF SendBlock, EndOfFile
<1>5. Seg(f, b) = SubSeq(f, t + 1, t + n)
  BY <1>2, Offsets, Zenon DEF Seg
<1>6. SubSeq(f, t + 1, t + n) \in Seq(Byte)
  BY <1>2, Piece, Zenon
<1>7. SubSeq(f, t + n + 1, t + m) \in Seq(Byte)
  BY <1>2, Piece, Zenon
<1>8. /\ last' = [last EXCEPT ![c] = Data(b, Seg(f, b))]
      /\ Exchange(in, {Dgram(port[c], to, Data(b, Seg(f, b)))})
      /\ pos' = [pos EXCEPT ![c] = t + m]
      /\ buf' = [buf EXCEPT ![c] = SubSeq(f, t + n + 1, t + m)]
      /\ done' = [done EXCEPT ![c] = Len(f) < t + Segment]
  BY <1>2, <1>4, <1>5, Zenon
<1>9. PICK q \in Nat, u \in Nat : q = t + m /\ u = t + n
  BY <1>2, Zenon
<1>10. /\ u <= q /\ q <= Len(f)
       /\ Seg(f, b) \in Seq(Byte)
       /\ SubSeq(f, u + 1, q) \in Seq(Byte)
       /\ t + Segment <= Len(f) => u = t + Segment
       /\ last' = [last EXCEPT ![c] = Data(b, Seg(f, b))]
       /\ pos' = [pos EXCEPT ![c] = q]
       /\ buf' = [buf EXCEPT ![c] = SubSeq(f, u + 1, q)]
       /\ done' = [done EXCEPT ![c] = Len(f) < t + Segment]
       /\ block' = [block EXCEPT ![c] = b + 1]
       /\ Exchange(in, {Dgram(port[c], to, Data(b, Seg(f, b)))})
  BY <1>2, <1>4, <1>5, <1>6, <1>7, <1>8, <1>9, Zenon
<1> QED
  BY <1>10, Zenon DEF SegmentSent

\* What one sendto of child c does to the network: packet k, a segment the child
\* has reached or no DATA at all, goes to a client.
LEMMA Sends ==
    ASSUME TypeOK, Sockets, SegmentsExact,
           NEW c \in Child, NEW in, NEW to \in Peer, NEW k \in Packet,
           Exchange(in, {Dgram(port[c], to, k)}),
           UNCHANGED <<files, port, name>>,
           block' \in [Child -> Nat],
           \A e \in Child : block[e] <= block'[e],
           k.op = 3 =>
               /\ name[c] \in DOMAIN files
               /\ \E i \in 1..(block'[c] - 1) :
                      k = Data(i, Seg(files[name[c]], i))
    PROVE  net' \subseteq Datagram /\ Sockets' /\ SegmentsExact'
<1>1. PICK d : d = Dgram(port[c], to, k)
  OBVIOUS
<1>2. net' \subseteq net \cup {d}
  BY <1>1, Zenon DEF Exchange
<1>3. port[c] \in Port /\ net \subseteq Datagram /\ block \in [Child -> Nat]
  BY DEF TypeOK, ChildTypeOK
<1>4. d.src = port[c] /\ d.dst = to /\ d.pkt = k /\ d \in Datagram
  BY <1>1, <1>3 DEF Dgram, Datagram
<1>5. to \notin Port
  BY ChildAssumption
<1>6. net' \subseteq Datagram
  BY <1>2, <1>3, <1>4, Zenon
<1>7. Sockets'
  BY <1>2, <1>4, <1>5, Zenon DEF Sockets
<1>8. SegmentsExact'
  <2> SUFFICES ASSUME NEW e \in Child, NEW x \in net',
                      x.src = port[e], x.pkt.op = 3
               PROVE  /\ name[e] \in DOMAIN files
                      /\ \E i \in 1..(block'[e] - 1) :
                             x.pkt = Data(i, Seg(files[name[e]], i))
    BY Zenon DEF SegmentsExact
  <2>1. CASE x \in net
    <3>1. /\ name[e] \in DOMAIN files
          /\ \E i \in 1..(block[e] - 1) :
                 x.pkt = Data(i, Seg(files[name[e]], i))
      BY <2>1, Zenon DEF SegmentsExact
    <3>2. block[e] <= block'[e] /\ block[e] \in Nat /\ block'[e] \in Nat
      BY <1>3
    <3>3. 1..(block[e] - 1) \subseteq 1..(block'[e] - 1)
      BY <3>2
    <3> QED
      BY <3>1, <3>3, Zenon
  <2>2. CASE x = d
    <3>1. e = c
      BY <1>4, <2>2, Zenon DEF Sockets
    <3> QED
      BY <1>4, <2>2, <3>1, Zenon
  <2> QED
    BY <1>2, <2>1, <2>2, Zenon
<1> QED
  BY <1>6, <1>7, <1>8

\* A child that is not involved in a step stays where it is.
LEMMA Uninvolved ==
    ASSUME StreamInStep, NEW e \in Child,
           UNCHANGED <<files, name>>,
           pc'[e] = pc[e], block'[e] = block[e], pos'[e] = pos[e],
           buf'[e] = buf[e], last'[e] = last[e], done'[e] = done[e]
    PROVE  /\ pc'[e] = "rrq" => block'[e] = 0 /\ pos'[e] = 0 /\ buf'[e] = <<>>
           /\ pc'[e] \in {"readwait", "timedout"} => AtSegment(e)'
           /\ pc'[e] = "exited" =>
                  name'[e] \notin DOMAIN files' \/ (AtSegment(e)' /\ done'[e])
<1>1. AtSegment(e)' <=> AtSegment(e)
  BY Zenon DEF AtSegment
<1> QED
  BY <1>1, Zenon DEF StreamInStep

\* The stream of child c is about to hand out segment b of its file.
StandsAt(c, b) ==
    LET f == files[name[c]]
    IN  /\ name[c] \in DOMAIN files
        /\ Off(b) <= pos[c] /\ pos[c] <= Len(f)
        /\ buf[c] = SubSeq(f, Off(b) + 1, pos[c])

\* What a step that sends a segment of child c makes true.
SegmentDone(c) ==
    /\ AtSegment(c)'
    /\ net' \subseteq Datagram /\ Sockets' /\ SegmentsExact'
    /\ last' \in [Child -> Packet] /\ pos' \in [Child -> Nat]
    /\ buf' \in [Child -> Seq(Byte)] /\ block' \in [Child -> Nat]
    /\ done' \in [Child -> BOOLEAN]
    /\ \A e \in Child : e # c =>
           /\ block'[e] = block[e] /\ pos'[e] = pos[e] /\ buf'[e] = buf[e]
           /\ last'[e] = last[e] /\ done'[e] = done[e]

\* A turn of the loop sends the segment the child stands at and leaves it right
\* behind: what FirstBlock and Answered share.
LEMMA NextSegment ==
    ASSUME ReadInv, NEW c \in Child, NEW b \in Nat, b >= 1, block[c] <= b,
           StandsAt(c, b),
           NEW in, NEW to \in Peer, SendBlock(c, b, in, to),
           UNCHANGED <<files, port, name>>
    PROVE  SegmentDone(c)
<1>1. /\ last \in [Child -> Packet] /\ pos \in [Child -> Nat]
      /\ buf \in [Child -> Seq(Byte)] /\ block \in [Child -> Nat]
      /\ done \in [Child -> BOOLEAN]
      /\ name[c] \in DOMAIN files /\ files[name[c]] \in Seq(Byte)
  BY Zenon DEF ReadInv, TypeOK, ChildTypeOK, StandsAt
<1>2. Off(b) \in Nat /\ Off(b + 1) = Off(b) + Segment
  BY Offsets
<1>3. PICK f \in Seq(Byte), p \in Nat, t \in Nat :
          /\ f = files[name[c]] /\ p = pos[c] /\ t = Off(b)
          /\ t <= p /\ p <= Len(f) /\ buf[c] = SubSeq(f, t + 1, p)
  BY <1>1, <1>2, Zenon DEF StandsAt
<1>4. PICK q \in Nat, u \in Nat :
          /\ u <= q /\ q <= Len(f)
          /\ Seg(f, b) \in Seq(Byte)
          /\ SubSeq(f, u + 1, q) \in Seq(Byte)
          /\ t + Segment <= Len(f) => u = t + Segment
          /\ last' = [last EXCEPT ![c] = Data(b, Seg(f, b))]
          /\ pos' = [pos EXCEPT ![c] = q]
          /\ buf' = [buf EXCEPT ![c] = SubSeq(f, u + 1, q)]
          /\ done' = [done EXCEPT ![c] = Len(f) < t + Segment]
          /\ block' = [block EXCEPT ![c] = b + 1]
          /\ Exchange(in, {Dgram(port[c], to, Data(b, Seg(f, b)))})
  <2>1. SegmentSent(c, b, in, to, f, t)
    BY <1>3, SendsSegment, Zenon
  <2> QED
    BY <2>1, Zenon DEF SegmentSent
<1>5. PICK k \in Packet, g \in BOOLEAN, h \in Seq(Byte), b1 \in Nat :
          /\ k = Data(b, Seg(f, b)) /\ g = (Len(f) < t + Segment)
          /\ h = SubSeq(f, u + 1, q) /\ b1 = b + 1
  <2>1. b + 1 \in Nat /\ (Len(f) < t + Segment) \in BOOLEAN
    OBVIOUS
  <2> QED
    BY <1>4, <2>1, Packets, Zenon
<1>6. /\ last' = [last EXCEPT ![c] = k] /\ pos' = [pos EXCEPT ![c] = q]
      /\ buf' = [buf EXCEPT ![c] = h] /\ done' = [done EXCEPT ![c] = g]
      /\ block' = [block EXCEPT ![c] = b1]
      /\ Exchange(in, {Dgram(port[c], to, k)})
  BY <1>4, <1>5, Zenon
<1>7. /\ last' \in [Child -> Packet] /\ pos' \in [Child -> Nat]
      /\ buf' \in [Child -> Seq(Byte)] /\ block' \in [Child -> Nat]
      /\ done' \in [Child -> BOOLEAN]
  BY <1>1, <1>6, Zenon
<1>8. /\ last'[c] = k /\ pos'[c] = q /\ buf'[c] = h /\ done'[c] = g
      /\ block'[c] = b1
      /\ \A e \in Child : e # c =>
             /\ block'[e] = block[e] /\ pos'[e] = pos[e]
             /\ buf'[e] = buf[e] /\ last'[e] = last[e]
             /\ done'[e] = done[e]
  BY <1>1, <1>6, Zenon
<1>9. /\ b1 - 1 = b /\ b1 >= 2 /\ b \in 1..(b1 - 1)
       /\ \A e \in Child : block[e] <= block'[e]
  <2>1. b1 - 1 = b /\ b1 >= 2 /\ b \in 1..(b1 - 1) /\ block[c] <= b1
    BY <1>1, <1>5
  <2>2. \A n \in Nat : n <= n
    OBVIOUS
  <2>3. ASSUME NEW e \in Child
        PROVE  block[e] <= block'[e]
    BY <1>1, <1>8, <2>1, <2>2, Zenon
  <2> QED
    BY <2>1, <2>3
<1>10. net' \subseteq Datagram /\ Sockets' /\ SegmentsExact'
  <2>1. /\ name[c] \in DOMAIN files
        /\ \E i \in 1..(block'[c] - 1) : k = Data(i, Seg(files[name[c]], i))
    BY <1>3, <1>1, <1>5, <1>8, <1>9, Zenon
  <2>2. TypeOK /\ Sockets /\ SegmentsExact
    BY DEF ReadInv
  <2> QED
    BY <1>6, <1>7, <1>9, <2>1, <2>2, Sends, Zenon
<1>11. AtSegment(c)'
  <2>1. /\ Len(f) \in Nat /\ t <= Len(f) /\ u \in 0..q
        /\ ~(Len(f) < t + Segment) => t + Segment <= Len(f)
    <3>1. Len(f) \in Nat /\ Segment \in Nat
      BY LenProperties, TftpAssumption
    <3>2. u \in 0..q
      BY <1>4
    <3>3. t <= Len(f) /\ (~(Len(f) < t + Segment) => t + Segment <= Len(f))
      BY <1>3, <3>1
    <3> QED
      BY <3>1, <3>2, <3>3
  <2>2. Off(b1) = t + Segment
    BY <1>3, <1>2, <1>5, Zenon
  <2>3. ~g => u = Off(b1)
    BY <1>4, <1>5, <2>1, <2>2, Zenon
  <2>4. g <=> Len(f) < Off(b1)
    BY <1>5, <2>2, Zenon
  <2>5. k = Data(b1 - 1, Seg(f, b1 - 1)) /\ Off(b1 - 1) <= Len(f)
    BY <1>3, <1>5, <1>9, <2>1, Zenon
  <2>6. f = files'[name'[c]] /\ name'[c] \in DOMAIN files'
    BY <1>3, <1>1, Zenon
  <2> QED
    BY <1>4, <1>5, <1>8, <1>9, <2>1, <2>3, <2>4, <2>5, <2>6, Zenon
       DEF AtSegment
<1> QED
  BY <1>7, <1>8, <1>10, <1>11, Zenon DEF SegmentDone

----------------------------------------------------------------------------
\* A child about to run read_data is in step: it has sent and read nothing.
LEMMA InitReadInv == Init => ReadInv
<1> SUFFICES ASSUME Init PROVE ReadInv
  OBVIOUS
<1> USE DEF Init, ChildInit
<1>1. TypeOK
  <2>1. Ack(0) \in Packet /\ <<>> \in Seq(Byte)
    <3>1. <<>> \in Seq(Byte) /\ 0 \in Nat
      OBVIOUS
    <3> QED
      BY <3>1, Packets, Zenon
  <2>2. 0 \in 0..MaxTimeouts
    BY TftpAssumption
  <2>3. DOMAIN files \subseteq Name /\ \A n \in DOMAIN files : files[n] \in Seq(Byte)
    BY ChildAssumption
  <2> QED
    BY <2>1, <2>2, <2>3 DEF TypeOK, ChildTypeOK
<1>2. Sockets /\ SegmentsExact
  BY DEF Sockets, SegmentsExact
<1>3. Counts
  BY TftpAssumption DEF Counts
<1>4. StreamInStep
  BY DEF StreamInStep
<1> QED
  BY <1>1, <1>2, <1>3, <1>4 DEF ReadInv

\* fopen fails.
LEMMA NoSuchFileKeepsReadInv ==
    ASSUME ReadInv, NEW c \in Child, NoSuchFile(c)
    PROVE  ReadInv'
<1>1. /\ pc[c] = "rrq" /\ name[c] \notin DOMAIN files
      /\ Exchange({}, {Dgram(port[c], peer[c], Err(1))})
      /\ pc' = [pc EXCEPT ![c] = "exited"]
      /\ UNCHANGED <<files, port, peer, name, block, timeouts, last, pos, buf,
                     quiet, done>>
  BY DEF NoSuchFile
<1>2. TypeOK /\ Sockets /\ Counts /\ StreamInStep /\ SegmentsExact
  BY DEF ReadInv
<1>3. peer[c] \in Peer /\ block \in [Child -> Nat]
      /\ pc \in [Child -> {"rrq", "readwait"} \cup Stopped]
  BY <1>2 DEF TypeOK, ChildTypeOK
<1>4. Err(1) \in Packet /\ Err(1).op # 3
  <2>1. <<>> \in Seq(Byte) /\ 1 \in Nat /\ Err(1).op # 3
    BY DEF Err
  <2> QED
    BY <2>1, Packets, Zenon
<1>5. net' \subseteq Datagram /\ Sockets' /\ SegmentsExact'
  <2>1. block' \in [Child -> Nat] /\ \A e \in Child : block[e] <= block'[e]
    BY <1>1, <1>3
  <2> QED
    BY <1>1, <1>2, <1>3, <1>4, <2>1, Sends, Zenon
<1>6. TypeOK'
  BY <1>1, <1>2, <1>3, <1>5, Zenon DEF TypeOK, ChildTypeOK, Stopped
<1>7. pc'[c] = "exited" /\ \A e \in Child : e # c => pc'[e] = pc[e]
  BY <1>1, <1>3, Zenon
<1>8. Counts'
  BY <1>1, <1>2, <1>7 DEF Counts
<1>9. StreamInStep'
  <2> SUFFICES ASSUME NEW e \in Child
               PROVE  /\ pc'[e] = "rrq" =>
                             block'[e] = 0 /\ pos'[e] = 0 /\ buf'[e] = <<>>
                      /\ pc'[e] \in {"readwait", "timedout"} => AtSegment(e)'
                      /\ pc'[e] = "exited" =>
                          \/ name'[e] \notin DOMAIN files'
                          \/ AtSegment(e)' /\ done'[e]
    BY Zenon DEF StreamInStep
  <2>1. CASE e = c
    BY <1>1, <1>7, <2>1, Zenon
  <2>2. CASE e # c
    BY <1>1, <1>2, <1>7, <2>2, Uninvolved, Zenon
  <2> QED
    BY <2>1, <2>2
<1> QED
  BY <1>5, <1>6, <1>8, <1>9 DEF ReadInv

\* The first segment is sent.
LEMMA FirstBlockKeepsReadInv ==
    ASSUME ReadInv, NEW c \in Child, FirstBlock(c)
    PROVE  ReadInv'
<1>1. /\ pc[c] = "rrq" /\ name[c] \in DOMAIN files
      /\ SendBlock(c, 1, {}, peer[c])
      /\ pc' = [pc EXCEPT ![c] = "readwait"]
      /\ UNCHANGED <<files, port, peer, name, timeouts, quiet>>
  BY DEF FirstBlock
<1>2. TypeOK /\ Counts /\ StreamInStep
  BY DEF ReadInv
<1>3. /\ peer[c] \in Peer /\ files[name[c]] \in Seq(Byte)
      /\ pc \in [Child -> {"rrq", "readwait"} \cup Stopped]
  BY <1>1, <1>2 DEF TypeOK, ChildTypeOK
<1>4. block[c] = 0 /\ pos[c] = 0 /\ buf[c] = <<>>
  BY <1>1, <1>2, Zenon DEF StreamInStep
<1>5. SegmentDone(c)
  <2>1. Off(1) = 0
    BY TftpAssumption DEF Off
  <2>2. 0 <= Len(files[name[c]]) /\ SubSeq(files[name[c]], 0 + 1, 0) = <<>>
    BY <1>3, LenProperties, SubSeqEmpty
  <2>3. StandsAt(c, 1)
    <3>1. 0 <= 0
      OBVIOUS
    <3> QED
      BY <1>1, <1>4, <2>1, <2>2, <3>1, Zenon DEF StandsAt
  <2>4. 1 \in Nat /\ 1 >= 1 /\ block[c] <= 1
    BY <1>4
  <2> QED
    BY <1>1, <1>3, <2>3, <2>4, NextSegment, Zenon
<1>6. pc'[c] = "readwait" /\ \A e \in Child : e # c => pc'[e] = pc[e]
  BY <1>1, <1>3, Zenon
<1>7. TypeOK'
  <2>1. pc' \in [Child -> {"rrq", "readwait"} \cup Stopped]
    BY <1>1, <1>3
  <2> QED
    BY <1>1, <1>2, <1>5, <2>1, Zenon DEF TypeOK, ChildTypeOK, SegmentDone
<1>8. Counts'
  BY <1>1, <1>2, <1>6 DEF Counts
<1>9. StreamInStep'
  <2> SUFFICES ASSUME NEW e \in Child
               PROVE  /\ pc'[e] = "rrq" =>
                             block'[e] = 0 /\ pos'[e] = 0 /\ buf'[e] = <<>>
                      /\ pc'[e] \in {"readwait", "timedout"} => AtSegment(e)'
                      /\ pc'[e] = "exited" =>
                          \/ name'[e] \notin DOMAIN files'
                          \/ AtSegment(e)' /\ done'[e]
    BY Zenon DEF StreamInStep
  <2>1. CASE e = c
    BY <1>5, <1>6, <2>1 DEF SegmentDone
  <2>2. CASE e # c
    BY <1>1, <1>2, <1>5, <1>6, <2>2, Uninvolved, Zenon DEF SegmentDone
  <2> QED
    BY <2>1, <2>2
<1> QED
  BY <1>5, <1>7, <1>8, <1>9 DEF ReadInv, SegmentDone

\* A datagram arrives.
LEMMA AnsweredKeepsReadInv ==
    ASSUME ReadInv, NEW c \in Child, NEW d \in net, Answered(c, d)
    PROVE  ReadInv'
<1>1. /\ pc[c] = "readwait" /\ d.dst = port[c]
      /\ peer' = [peer EXCEPT ![c] = d.src]
      /\ quiet' = [quiet EXCEPT ![c] = 0]
      /\ UNCHANGED <<files, port, name, timeouts>>
  BY DEF Answered, Arrives
<1>2. TypeOK /\ Sockets /\ Counts /\ StreamInStep /\ SegmentsExact
  BY DEF ReadInv
<1>3. /\ peer \in [Child -> Peer] /\ port[c] \in Port
      /\ quiet \in [Child -> 0..MaxTimeouts] /\ block \in [Child -> Nat]
      /\ pos \in [Child -> Nat] /\ timeouts \in [Child -> 0..MaxTimeouts]
      /\ pc \in [Child -> {"rrq", "readwait"} \cup Stopped]
  BY <1>2 DEF TypeOK, ChildTypeOK
<1>4. d.src \in Peer
  BY <1>1, <1>2, <1>3, Zenon DEF Sockets
<1>5. peer' \in [Child -> Peer]
  BY <1>1, <1>3, <1>4, Zenon
<1>6. /\ quiet' \in [Child -> 0..MaxTimeouts]
      /\ \A e \in Child : quiet'[e] <= timeouts[e]
  <2>1. 0 \in 0..MaxTimeouts /\ timeouts[c] \in Nat
    BY <1>3, TftpAssumption
  <2>2. quiet' \in [Child -> 0..MaxTimeouts]
    BY <1>1, <1>3, <2>1, Zenon
  <2>3. \A e \in Child : quiet'[e] = 0 \/ quiet'[e] = quiet[e]
    BY <1>1, <1>3, Zenon
  <2> QED
    BY <1>2, <1>3, <2>2, <2>3 DEF Counts
<1>7. AtSegment(c)
  BY <1>1, <1>2, Zenon DEF StreamInStep
<1>8. CASE /\ done[c]
           /\ pc' = [pc EXCEPT ![c] = "exited"]
           /\ Exchange({d}, {})
           /\ UNCHANGED <<block, last, pos, buf, done>>
  <2>1. net' \subseteq net
    BY <1>8 DEF Exchange
  <2>2. pc'[c] = "exited" /\ \A e \in Child : e # c => pc'[e] = pc[e]
    BY <1>3, <1>8, Zenon
  <2>3. TypeOK'
    BY <1>1, <1>2, <1>3, <1>5, <1>6, <1>8, <2>1, Zenon
       DEF TypeOK, ChildTypeOK, Stopped
  <2>4. Sockets' /\ SegmentsExact'
    BY <1>1, <1>2, <1>8, <2>1, Zenon DEF Sockets, SegmentsExact
  <2>5. Counts'
    BY <1>1, <1>2, <1>6, <2>2 DEF Counts
  <2>6. StreamInStep'
    <3>1. AtSegment(c)' /\ done'[c]
      BY <1>1, <1>7, <1>8, Zenon DEF AtSegment
    <3>2. ASSUME NEW e \in Child, e # c
          PROVE  /\ pc'[e] = "rrq" =>
                        block'[e] = 0 /\ pos'[e] = 0 /\ buf'[e] = <<>>
                 /\ pc'[e] \in {"readwait", "timedout"} => AtSegment(e)'
                 /\ pc'[e] = "exited" =>
                        name'[e] \notin DOMAIN files' \/ (AtSegment(e)' /\ done'[e])
      BY <1>1, <1>2, <1>8, <2>2, <3>2, Uninvolved, Zenon
    <3> QED
      BY <2>2, <3>1, <3>2 DEF StreamInStep
  <2> QED
    BY <2>3, <2>4, <2>5, <2>6 DEF ReadInv
<1>9. CASE /\ ~done[c]
           /\ SendBlock(c, block[c], {d}, d.src)
           /\ UNCHANGED pc
  <2>1. SegmentDone(c)
    <3>1. StandsAt(c, block[c])
      <4>1. PICK t \in 0..pos[c] :
                /\ buf[c] = SubSeq(files[name[c]], t + 1, pos[c])
                /\ t = Off(block[c])
        BY <1>7, <1>9, Zenon DEF AtSegment
      <4>2. t <= pos[c]
        BY <1>3
      <4> QED
        BY <1>7, <4>1, <4>2, Zenon DEF AtSegment, StandsAt
    <3>2. block[c] \in Nat /\ block[c] >= 1 /\ block[c] <= block[c]
      BY <1>3, <1>7 DEF AtSegment
    <3> QED
      BY <1>1, <1>4, <1>9, <3>1, <3>2, NextSegment, Zenon
  <2>2. TypeOK'
    BY <1>1, <1>2, <1>5, <1>6, <1>9, <2>1, Zenon
       DEF TypeOK, ChildTypeOK, SegmentDone
  <2>3. Counts'
    BY <1>1, <1>2, <1>6, <1>9, Zenon DEF Counts
  <2>4. StreamInStep'
    <3>1. ASSUME NEW e \in Child, e # c
          PROVE  /\ pc'[e] = "rrq" =>
                        block'[e] = 0 /\ pos'[e] = 0 /\ buf'[e] = <<>>
                 /\ pc'[e] \in {"readwait", "timedout"} => AtSegment(e)'
                 /\ pc'[e] = "exited" =>
                        name'[e] \notin DOMAIN files' \/ (AtSegment(e)' /\ done'[e])
      BY <1>1, <1>2, <1>9, <2>1, <3>1, Uninvolved, Zenon DEF SegmentDone
    <3>2. AtSegment(c)' /\ pc'[c] = "readwait"
      BY <1>1, <1>9, <2>1 DEF SegmentDone
    <3> QED
      BY <3>1, <3>2 DEF StreamInStep
  <2> QED
    BY <2>1, <2>2, <2>3, <2>4 DEF ReadInv, SegmentDone
<1> QED
  BY <1>8, <1>9, Zenon DEF Answered

\* A receive times out.
LEMMA ReadTimeoutKeepsReadInv ==
    ASSUME ReadInv, NEW c \in Child, ReadTimeout(c)
    PROVE  ReadInv'
<1>1. /\ pc[c] = "readwait"
      /\ timeouts' = [timeouts EXCEPT ![c] = timeouts[c] + 1]
      /\ quiet' = [quiet EXCEPT ![c] = quiet[c] + 1]
      /\ Exchange({}, {Dgram(port[c], peer[c], last[c])})
      /\ pc' = [pc EXCEPT ![c] = IF timeouts'[c] = MaxTimeouts
                                 THEN "timedout" ELSE pc[c]]
      /\ UNCHANGED <<files, port, peer, name, block, last, pos, buf, done>>
  BY DEF ReadTimeout
<1>2. TypeOK /\ Sockets /\ Counts /\ StreamInStep /\ SegmentsExact
  BY DEF ReadInv
<1>3. /\ timeouts \in [Child -> 0..MaxTimeouts] /\ MaxTimeouts \in Nat
      /\ quiet \in [Child -> 0..MaxTimeouts]
      /\ peer[c] \in Peer /\ last[c] \in Packet /\ block \in [Child -> Nat]
      /\ pc \in [Child -> {"rrq", "readwait"} \cup Stopped]
  BY <1>2, TftpAssumption DEF TypeOK, ChildTypeOK
<1>4. AtSegment(c)
  BY <1>1, <1>2, Zenon DEF StreamInStep
<1>5. /\ timeouts' \in [Child -> 0..MaxTimeouts]
      /\ quiet' \in [Child -> 0..MaxTimeouts]
      /\ \A e \in Child : quiet'[e] <= timeouts'[e]
  <2>1. timeouts[c] < MaxTimeouts /\ \A e \in Child : quiet[e] <= timeouts[e]
    BY <1>1, <1>2 DEF Counts
  <2> QED
    BY <1>1, <1>3, <2>1
<1>6. /\ \/ timeouts'[c] < MaxTimeouts /\ pc'[c] = "readwait"
         \/ pc'[c] = "timedout"
      /\ \A e \in Child : e # c => pc'[e] = pc[e] /\ timeouts'[e] = timeouts[e]
  BY <1>1, <1>3, <1>5
<1>7. net' \subseteq Datagram /\ Sockets' /\ SegmentsExact'
  <2>1. block' \in [Child -> Nat] /\ \A e \in Child : block[e] <= block'[e]
    BY <1>1, <1>3
  <2>2. /\ name[c] \in DOMAIN files
        /\ \E i \in 1..(block'[c] - 1) :
               last[c] = Data(i, Seg(files[name[c]], i))
    <3>1. PICK i \in 1..(block[c] - 1) : i = block[c] - 1
      BY <1>3, <1>4 DEF AtSegment
    <3> QED
      BY <1>1, <1>4, <3>1, Zenon DEF AtSegment
  <2> QED
    BY <1>1, <1>2, <1>3, <2>1, <2>2, Sends, Zenon
<1>8. TypeOK'
  <2>1. pc' \in [Child -> {"rrq", "readwait"} \cup Stopped]
    BY <1>1, <1>3 DEF Stopped
  <2> QED
    BY <1>1, <1>2, <1>5, <1>7, <2>1, Zenon DEF TypeOK, ChildTypeOK
<1>9. Counts'
  BY <1>2, <1>5, <1>6 DEF Counts
<1>10. StreamInStep'
  <2>1. AtSegment(c)'
    BY <1>1, <1>4, Zenon DEF AtSegment
  <2>2. ASSUME NEW e \in Child, e # c
        PROVE  /\ pc'[e] = "rrq" =>
                      block'[e] = 0 /\ pos'[e] = 0 /\ buf'[e] = <<>>
               /\ pc'[e] \in {"readwait", "timedout"} => AtSegment(e)'
               /\ pc'[e] = "exited" =>
                      name'[e] \notin DOMAIN files' \/ (AtSegment(e)' /\ done'[e])
    BY <1>1, <1>2, <1>6, <2>2, Uninvolved, Zenon
  <2> QED
    BY <1>6, <2>1, <2>2 DEF StreamInStep
<1> QED
  BY <1>7, <1>8, <1>9, <1>10 DEF ReadInv

\* Datagrams that get lost, or that come from outside, change nothing for the
\* children.
LEMMA OutsideKeepsReadInv ==
    ASSUME ReadInv, NEW x \in Datagram, x.src \in Peer,
           net' \subseteq net \cup {x},
           UNCHANGED <<files, pc, port, peer, name, block, timeouts, last, pos,
                       buf, quiet, done>>
    PROVE  ReadInv'
<1>1. TypeOK /\ Sockets /\ Counts /\ StreamInStep /\ SegmentsExact
  BY DEF ReadInv
<1>2. TypeOK' /\ Sockets'
  BY <1>1, Zenon DEF TypeOK, ChildTypeOK, Sockets
<1>3. SegmentsExact'
  <2>1. \A e \in Child : x.src # port[e]
    BY <1>1, ChildAssumption, Zenon DEF TypeOK, ChildTypeOK
  <2> QED
    BY <1>1, <2>1, Zenon DEF SegmentsExact
<1>4. Counts' /\ StreamInStep'
  BY <1>1, Zenon DEF Counts, StreamInStep, AtSegment
<1> QED
  BY <1>2, <1>3, <1>4 DEF ReadInv

\* Anyone sends a packet to a child.
LEMMA InjectKeepsReadInv ==
    ASSUME ReadInv, Inject
    PROVE  ReadInv'
<1>1. PICK c \in Child, p \in Peer, k \in Stray :
          Exchange({}, {Dgram(p, port[c], k)})
  BY DEF Inject, SendStray
<1>2. PICK d : d = Dgram(p, port[c], k)
  OBVIOUS
<1>3. net' \subseteq net \cup {d}
  BY <1>1, <1>2, Zenon DEF Exchange
<1>4. port[c] \in Port /\ k \in Packet
  BY ChildAssumption DEF ReadInv, TypeOK, ChildTypeOK
<1>5. d.src = p /\ d \in Datagram
  BY <1>2, <1>4 DEF Dgram, Datagram
<1> QED
  BY <1>3, <1>5, OutsideKeepsReadInv, Zenon DEF Inject

\* The block counter, the stream and the packets in flight of every child that
\* runs read_data stay in step for ever.
THEOREM ReadInvariant == Spec => []ReadInv
<1>1. Init => ReadInv
  BY InitReadInv
<1>2. ReadInv /\ [Next]_vars => ReadInv'
  <2> SUFFICES ASSUME ReadInv, [Next]_vars PROVE ReadInv'
    OBVIOUS
  <2>1. CASE Inject
    BY <2>1, InjectKeepsReadInv
  <2>2. ASSUME NEW c \in Child, ReadStep(c)
        PROVE  ReadInv'
    BY <2>2, NoSuchFileKeepsReadInv, FirstBlockKeepsReadInv,
       AnsweredKeepsReadInv, ReadTimeoutKeepsReadInv, Zenon DEF ReadStep
  <2>3. CASE UNCHANGED vars
    BY <2>3, Zenon DEF vars, childVars, ReadInv, TypeOK, ChildTypeOK, Sockets,
       Counts, StreamInStep, AtSegment, SegmentsExact
  <2> QED
    BY <2>1, <2>2, <2>3, Zenon DEF Next
<1> QED
  BY <1>1, <1>2, PTL DEF Spec

\* Every variable of a child keeps its type, and every block number that
\* read_data puts on the wire fits in the two bytes htons leaves of its counter.
THEOREM TypeCorrect == Spec => []TypeOK
<1>1. ReadInv => TypeOK
  BY DEF ReadInv
<1> QED
  BY <1>1, ReadInvariant, PTL

\* The block counter, the stream and the packet kept for a resend stay at the
\* same place in the file, whatever datagrams arrive in whatever order.
THEOREM ReadsInStep == Spec => []StreamInStep
<1>1. ReadInv => StreamInStep
  BY DEF ReadInv
<1> QED
  BY <1>1, ReadInvariant, PTL

\* read_data never sends a byte of the file under a wrong block number: every
\* DATA packet in flight is the segment its block number names.
THEOREM ReadsExactly == Spec => []SegmentsExact
<1>1. ReadInv => SegmentsExact
  BY DEF ReadInv
<1> QED
  BY <1>1, ReadInvariant, PTL

\* A child that ends without giving up has sent its file to the last byte, with
\* the short segment that tells the client so.
THEOREM ReadsToTheEnd == Spec => []CompleteOnExit
<1>1. ReadInv => CompleteOnExit
  <2> SUFFICES ASSUME ReadInv, NEW c \in Child, pc[c] = "exited",
                      name[c] \in DOMAIN files
               PROVE  LET size == Len(files[name[c]])
                      IN  Off(block[c] - 1) <= size /\ size < Off(block[c])
    BY Zenon DEF CompleteOnExit
  <2>1. AtSegment(c) /\ done[c]
    BY Zenon DEF ReadInv, StreamInStep
  <2> QED
    BY <2>1, Zenon DEF AtSegment
<1> QED
  BY <1>1, ReadInvariant, PTL
============================================================================
