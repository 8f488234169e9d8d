-------------------------- MODULE WriteDataProofs --------------------------
(***************************************************************************)
(* write_data stores at the end of its file and gives up only after a full *)
(* run of silence, for any number of children, any packets from anyone, in *)
(* any order, and any number of timeouts.                                  *)
(***************************************************************************)
EXTENDS WriteData, SequenceTheorems, WellFoundedInduction, TLAPS

\* A piece of a sequence of bytes is a sequence of bytes of the expected length.
LEMMA Piece ==
    ASSUME NEW f \in Seq(Byte), NEW i \in Nat, NEW j \in Nat,
           i <= j, j <= Len(f)
    PROVE  /\ SubSeq(f, i + 1, j) \in Seq(Byte)
           /\ Len(SubSeq(f, i + 1, j)) = j - i
<1>1. Len(f) \in Nat /\ \A k \in (i + 1)..j : f[k] \in Byte
  BY ElementOfSeq, LenProperties
<1> QED
  BY <1>1, SubSeqProperties, SMT

\* What is added to what a stream holds follows what is in its file.
LEMMA Together ==
    ASSUME NEW f \in Seq(Byte), NEW g \in Seq(Byte), NEW h \in Seq(Byte)
    PROVE  f \o (g \o h) = (f \o g) \o h
BY ConcatAssociative

\* Block numbers fit on the wire, and packets are packets.
LEMMA Packets ==
    ASSUME NEW b \in Nat, NEW s \in Seq(Byte)
    PROVE  Data(b, s) \in Packet /\ Ack(b) \in Packet /\ Err(b) \in Packet
<1>1. Htons(b) \in 0..(BlockMod - 1)
  BY TftpAssumption DEF Htons
<1>2. <<>> \in Seq(Byte)
  OBVIOUS
<1> QED
  BY <1>1, <1>2 DEF Data, Ack, Err, Packet

\* sendto on the socket of a child: the packet is a datagram to a client, and
\* still nothing is on its way from one child to another.
LEMMA ChildSends ==
    ASSUME ChildTypeOK, Sockets, NEW c \in Child, NEW in, NEW to \in Peer,
           NEW k \in Packet, Exchange(in, {Dgram(port[c], to, k)}),
           UNCHANGED port
    PROVE  net' \subseteq Datagram /\ Sockets'
<1>1. PICK d : d = Dgram(port[c], to, k)
  OBVIOUS
<1>2. net' \subseteq net \cup {d}
  BY <1>1, Zenon DEF Exchange
<1>3. port[c] \in Port /\ net \subseteq Datagram /\ to \notin Port
  BY ChildAssumption DEF ChildTypeOK
<1>4. d.dst = to /\ d \in Datagram
  BY <1>1, <1>3 DEF Dgram, Datagram
<1> QED
  BY <1>2, <1>3, <1>4, Zenon DEF Sockets

\* recvfrom that is not answered: fewer datagrams are in flight, or the same.
LEMMA ChildTakes ==
    ASSUME ChildTypeOK, Sockets, NEW in, Exchange(in, {}), UNCHANGED port
    PROVE  net' \subseteq Datagram /\ Sockets'
<1>1. net' \subseteq net
  BY DEF Exchange
<1> QED
  BY <1>1, Zenon DEF Sockets, ChildTypeOK

\* A packet from outside: its sender is a peer and not a child.
LEMMA StraySent ==
    ASSUME ChildTypeOK, Sockets, SendStray, UNCHANGED port
    PROVE  net' \subseteq Datagram /\ Sockets'
<1>1. PICK c \in Child, p \in Peer, k \in Stray :
          Exchange({}, {Dgram(p, port[c], k)})
  BY DEF SendStray
<1>2. PICK d : d = Dgram(p, port[c], k)
  OBVIOUS
<1>3. net' \subseteq net \cup {d}
  BY <1>1, <1>2, Zenon DEF Exchange
<1>4. port[c] \in Port /\ net \subseteq Datagram /\ k \in Packet
  BY ChildAssumption DEF ChildTypeOK
<1>5. d.src = p /\ d \in Datagram
  BY <1>2, <1>4 DEF Dgram, Datagram
<1> QED
  BY <1>3, <1>4, <1>5, Zenon DEF Sockets

\* Whoever a child hears from is a peer.
LEMMA SenderIsPeer ==
    ASSUME ChildTypeOK, Sockets, NEW c \in Child, NEW d, Arrives(c, d)
    PROVE  d \in Datagram /\ d.src \in Peer /\ d.pkt \in Packet
                          /\ d.pkt.data \in Seq(Byte)
<1>1. d \in net /\ d.dst = port[c] /\ port[c] \in Port /\ net \subseteq Datagram
  BY DEF Arrives, ChildTypeOK
<1>2. d \in Datagram /\ d.src \in Peer
  BY <1>1, Zenon DEF Sockets
<1>3. d.pkt \in Packet /\ d.pkt.data \in Seq(Byte)
  BY <1>2 DEF Datagram, Packet
<1> QED
  BY <1>2, <1>3

\* Block numbers on the wire tell a segment from the next.
LEMMA HtonsDiffers ==
    ASSUME NEW n \in Nat, BlockMod > 1
    PROVE  Htons(n) # Htons(n + 1)
<1>1. BlockMod \in Nat /\ BlockMod > 1
  BY TftpAssumption
<1> SUFFICES ASSUME n % BlockMod = (n + 1) % BlockMod PROVE FALSE
  BY DEF Htons
<1>2. PICK r \in Int, p \in Int, q \in Int :
          n = BlockMod * q + r /\ n + 1 = BlockMod * p + r
  <2>1. n = BlockMod * (n \div BlockMod) + (n % BlockMod)
    BY <1>1
  <2>2. n + 1 = BlockMod * ((n + 1) \div BlockMod) + ((n + 1) % BlockMod)
    BY <1>1
  <2>3. n \div BlockMod \in Int /\ (n + 1) \div BlockMod \in Int /\ n % BlockMod \in Int
    BY <1>1
  <2> QED
    BY <2>1, <2>2, <2>3, Zenon
<1>3. PICK t \in Int : t = p - q
  OBVIOUS
<1>4. BlockMod * t = 1
  BY <1>1, <1>2, <1>3
<1>5. CASE t >= 1
  BY <1>1, <1>4, <1>5
<1>6. CASE t <= 0
  BY <1>1, <1>4, <1>6
<1> QED
  BY <1>5, <1>6

\* A set of numbers that is not empty has a least element.
LEMMA LeastOf ==
    ASSUME NEW S, S \subseteq Nat, S # {}
    PROVE  \E i \in S : \A j \in S : i <= j
<1>1. PICK i \in S : \A j \in S : ~(<<j, i>> \in OpToRel(<, Nat))
  BY NatLessThanWellFounded, WFMin, Zenon
<1>2. ASSUME NEW j \in S
      PROVE  i <= j
  <2>1. i \in Nat /\ j \in Nat
    OBVIOUS
  <2>2. ~(j < i)
    BY <1>1, <2>1 DEF OpToRel
  <2> QED
    BY <2>1, <2>2
<1> QED
  BY <1>2

\* What fprintf takes of the bytes of a packet are bytes, up to all of them.
LEMMA CStringBytes ==
    ASSUME NEW bytes \in Seq(Byte)
    PROVE  CString(bytes) \in Seq(Byte)
<1> DEFINE nuls == {i \in 1..Len(bytes) : bytes[i] = Nul}
<1>1. CASE nuls = {}
  BY <1>1 DEF CString
<1>2. CASE nuls # {}
  <2>1. Len(bytes) \in Nat
    BY LenProperties
  <2>2. nuls \subseteq Nat
    BY <2>1
  <2>3. \E i \in nuls : \A j \in nuls : i <= j
    BY <1>2, <2>2, LeastOf, Zenon
  <2>4. PICK m \in nuls : m = CHOOSE i \in nuls : \A j \in nuls : i <= j
    BY <2>3, Zenon
  <2>5. m \in 1..Len(bytes)
    OBVIOUS
  <2> HIDE DEF nuls
  <2>6. CString(bytes) = SubSeq(bytes, 1, m - 1)
    BY <1>2, <2>4, Zenon DEF CString, nuls
  <2>7. SubSeq(bytes, 0 + 1, m - 1) \in Seq(Byte)
    <3>1. m - 1 \in Nat /\ 0 <= m - 1 /\ m - 1 <= Len(bytes) /\ 0 \in Nat
      BY <2>1, <2>5
    <3> QED
      BY <3>1, Piece, Zenon
  <2>8. 0 + 1 = 1
    OBVIOUS
  <2> QED
    BY <2>6, <2>7, <2>8, Zenon
<1> QED
  BY <1>1, <1>2

\* Writing to a file yields a file; at its end it adds to the length.
LEMMA WriteAtBytes ==
    ASSUME NEW f \in Seq(Byte), NEW at \in Nat, NEW bytes \in Seq(Byte)
    PROVE  /\ WriteAt(f, at, bytes) \in Seq(Byte)
           /\ Len(f) = at => Len(WriteAt(f, at, bytes)) = at + Len(bytes)
<1>0. Nul \in Byte
  BY WriteDataAssumption, Zenon
<1>1. Len(f) \in Nat /\ Len(bytes) \in Nat /\ Nul \in Byte
  BY <1>0, LenProperties
<1>2. CASE bytes = <<>>
  <2>1. Len(bytes) = 0
    BY <1>2
  <2> QED
    BY <1>1, <1>2, <2>1 DEF WriteAt
<1>3. CASE bytes # <<>>
  <2>1. PICK end \in Nat : end = at + Len(bytes)
    BY <1>1
  <2>2. PICK n \in Nat : /\ n = (IF Len(f) > end THEN Len(f) ELSE end)
                         /\ Len(f) = at => n = end
    BY <1>1, <2>1
  <2> DEFINE g == [i \in 1..n |-> IF i \in (at + 1)..end THEN bytes[i - at]
                                  ELSE IF i <= Len(f) THEN f[i] ELSE Nul]
  <2>3. WriteAt(f, at, bytes) = g
    BY <1>3, <2>1, <2>2, Zenon DEF WriteAt
  <2>4. ASSUME NEW i \in 1..n
        PROVE  (IF i \in (at + 1)..end THEN bytes[i - at]
                ELSE IF i <= Len(f) THEN f[i] ELSE Nul) \in Byte
    <3>1. i \in (at + 1)..end => i - at \in 1..Len(bytes)
      BY <1>1, <2>1
    <3>2. i <= Len(f) => i \in 1..Len(f)
      BY <1>1
    <3> QED
      BY <1>1, <3>1, <3>2, ElementOfSeq
  <2>5. g \in [1..n -> Byte]
    BY <2>4
  <2>6. g \in Seq(Byte) /\ Len(g) = n
    <3> HIDE DEF g
    <3> QED
      BY <2>5
  <2> QED
    BY <2>1, <2>2, <2>3, <2>6, Zenon
<1> QED
  BY <1>2, <1>3

\* Writing at the end of a file appends.
LEMMA WriteAtEnd ==
    ASSUME NEW f \in Seq(Byte), NEW bytes \in Seq(Byte)
    PROVE  WriteAt(f, Len(f), bytes) = f \o bytes
<1>1. Len(f) \in Nat /\ Len(bytes) \in Nat
  BY LenProperties
<1>2. CASE bytes = <<>>
  BY <1>2, ConcatEmptySeq, Zenon DEF WriteAt
<1>3. CASE bytes # <<>>
  <2>1. PICK m \in Nat, n \in Nat : m = Len(f) /\ n = m + Len(bytes)
    BY <1>1
  <2>2. n = IF m > n THEN m ELSE n
    BY <1>1, <2>1
  <2>3. WriteAt(f, Len(f), bytes)
          = [i \in 1..n |-> IF i \in (m + 1)..n THEN bytes[i - m]
                            ELSE IF i <= m THEN f[i] ELSE Nul]
    BY <1>3, <2>1, <2>2, Zenon DEF WriteAt
  <2>4. /\ f \o bytes \in Seq(Byte) /\ Len(f \o bytes) = n
        /\ \A i \in 1..n : (f \o bytes)[i] = IF i <= m THEN f[i] ELSE bytes[i - m]
    BY <2>1, ConcatProperties, Zenon
  <2>5. \A i \in 1..n : (f \o bytes)[i] = IF i \in (m + 1)..n THEN bytes[i - m]
                                          ELSE IF i <= m THEN f[i] ELSE Nul
    <3>1. \A i \in 1..n : (i <= m) <=> ~(i \in (m + 1)..n)
      OBVIOUS
    <3> QED
      BY <2>4, <3>1, Zenon
  <2>6. f \o bytes \in [1..n -> Byte]
    BY <2>4, LenProperties, Zenon
  <2> QED
    BY <2>3, <2>5, <2>6, Zenon
<1> QED
  BY <1>2, <1>3

\* However much of what it holds a stream at the end of its file passes on, file and
\* stream together hold the same.
LEMMA Appended ==
    ASSUME NEW f \in Seq(Byte), NEW held \in Seq(Byte), NEW k \in 0..Len(held)
    PROVE  /\ WriteAt(f, Len(f), SubSeq(held, 1, k)) \in Seq(Byte)
           /\ SubSeq(held, k + 1, Len(held)) \in Seq(Byte)
           /\ WriteAt(f, Len(f), SubSeq(held, 1, k)) \o SubSeq(held, k + 1, Len(held))
                 = f \o held
           /\ Len(WriteAt(f, Len(f), SubSeq(held, 1, k))) = Len(f) + k
           /\ k = Len(held) => SubSeq(held, k + 1, Len(held)) = <<>>
<1>1. k \in Nat /\ k <= Len(held) /\ Len(held) \in Nat
  BY LenProperties
<1>2. PICK u \in Seq(Byte) : u = SubSeq(held, 1, k) /\ Len(u) = k
  <2>1. 0 + 1 = 1 /\ 0 <= k /\ 0 \in Nat /\ k - 0 = k
    BY <1>1
  <2>2. SubSeq(held, 0 + 1, k) \in Seq(Byte) /\ Len(SubSeq(held, 0 + 1, k)) = k - 0
    BY <1>1, <2>1, Piece, Zenon
  <2> QED
    BY <2>1, <2>2, Zenon
<1>3. PICK v \in Seq(Byte) : v = SubSeq(held, k + 1, Len(held))
  <2>1. Len(held) <= Len(held)
    BY <1>1
  <2> QED
    BY <1>1, <2>1, Piece, Zenon
<1>4. PICK g : g = WriteAt(f, Len(f), SubSeq(held, 1, k)) /\ g = f \o u
  BY <1>2, WriteAtEnd, Zenon
<1>5. g \in Seq(Byte) /\ Len(g) = Len(f) + k
  BY <1>2, <1>4, ConcatProperties, Zenon
<1>6. u \o v = held
  <2>1. /\ 1 \in 1..(Len(held) + 1) /\ k \in (1 - 1)..Len(held)
        /\ Len(held) \in k..Len(held)
    BY <1>1
  <2>2. SubSeq(held, 1, k) \o SubSeq(held, k + 1, Len(held)) = SubSeq(held, 1, Len(held))
    BY <2>1, ConcatAdjacentSubSeq
  <2> QED
    BY <1>2, <1>3, <2>2, SubSeqFull, Zenon
<1>7. (f \o u) \o v = f \o held
  BY <1>6, Together, Zenon
<1>8. k = Len(held) => v = <<>>
  <2>1. Len(held) < Len(held) + 1 /\ Len(held) + 1 \in Int /\ Len(held) \in Int
    BY <1>1
  <2> QED
    BY <1>3, <2>1, SubSeqEmpty, Zenon
<1> QED
  BY <1>3, <1>4, <1>5, <1>7, <1>8, Zenon

\* What Flush leaves in the directory: the stream's file is written to at the
\* stream's offset, the others stay.
LEMMA FlushedFile ==
    ASSUME WriteInv, NEW c \in Child, pc[c] # "wrq",
           NEW held \in Seq(Byte), NEW k \in 0..Len(held), Flush(c, held, k)
    PROVE  /\ DOMAIN files' = DOMAIN files
           /\ \A n \in DOMAIN files : files'[n] \in Seq(Byte)
           /\ \A n \in DOMAIN files : n # name[c] => files'[n] = files[n]
           /\ name[c] \notin Unwritable /\ Len(files[name[c]]) = pos[c]
                 => Len(files'[name[c]]) = pos[c] + k
<1>1. /\ files' = IF name[c] \in Unwritable THEN files
                  ELSE WithFile(name[c], WriteAt(files[name[c]], pos[c],
                                                 SubSeq(held, 1, k)))
  BY Zenon DEF Flush
<1>2. /\ \A n \in DOMAIN files : files[n] \in Seq(Byte)
      /\ pos[c] \in Nat
      /\ name[c] \notin Unwritable => name[c] \in DOMAIN files
  BY DEF WriteInv, TypeOK, ChildTypeOK, Opened
<1>3. CASE name[c] \in Unwritable
  BY <1>1, <1>2, <1>3, Zenon
<1>4. CASE name[c] \notin Unwritable
  <2>1. SubSeq(held, 1, k) \in Seq(Byte) /\ Len(SubSeq(held, 1, k)) = k
    <3>1. k \in Nat /\ 0 \in Nat /\ 0 <= k /\ k <= Len(held) /\ 0 + 1 = 1 /\ k - 0 = k
      BY LenProperties
    <3>2. SubSeq(held, 0 + 1, k) \in Seq(Byte) /\ Len(SubSeq(held, 0 + 1, k)) = k - 0
      BY <3>1, Piece, Zenon
    <3> QED
      BY <3>1, <3>2, Zenon
  <2>2. PICK g : g = WriteAt(files[name[c]], pos[c], SubSeq(held, 1, k))
    OBVIOUS
  <2>3. /\ g \in Seq(Byte)
        /\ Len(files[name[c]]) = pos[c] => Len(g) = pos[c] + k
    <3>1. files[name[c]] \in Seq(Byte)
      BY <1>2, <1>4, Zenon
    <3>2. /\ g \in Seq(Byte)
          /\ Len(files[name[c]]) = pos[c] => Len(g) = pos[c] + Len(SubSeq(held, 1, k))
      BY <1>2, <2>1, <2>2, <3>1, WriteAtBytes, Zenon
    <3> QED
      BY <2>1, <3>2, Zenon
  <2>4. files' = [m \in DOMAIN files \cup {name[c]} |->
                     IF m = name[c] THEN g ELSE files[m]]
    BY <1>1, <1>4, <2>2, Zenon DEF WithFile
  <2>5. DOMAIN files' = DOMAIN files
    BY <1>2, <1>4, <2>4, Zenon
  <2>6. /\ files'[name[c]] = g
        /\ \A n \in DOMAIN files : n # name[c] => files'[n] = files[n]
    BY <2>4, Zenon
  <2> QED
    BY <1>2, <1>4, <2>3, <2>5, <2>6, Zenon
<1> QED
  BY <1>3, <1>4

\* What the streams and files look like after a child that has opened its file
\* has passed some of what its stream held on to it.
StreamsKept ==
    /\ DOMAIN files' \subseteq Name
    /\ \A n \in DOMAIN files' : files'[n] \in Seq(Byte)
    /\ pos' \in [Child -> Nat] /\ buf' \in [Child -> Seq(Byte)]
    /\ Opened' /\ StreamAtEnd'

\* A flush writes at the end of the child's own file and disturbs no other.
LEMMA FlushKeepsStreams ==
    ASSUME WriteInv, NEW c \in Child, pc[c] # "wrq", pc'[c] # "wrq",
           \A e \in Child : e # c => pc'[e] = pc[e],
           NEW held \in Seq(Byte), NEW k \in 0..Len(held), Flush(c, held, k),
           UNCHANGED name
    PROVE  StreamsKept
<1>1. /\ DOMAIN files \subseteq Name /\ pos \in [Child -> Nat]
      /\ buf \in [Child -> Seq(Byte)] /\ Opened /\ StreamAtEnd
  BY Zenon DEF WriteInv, TypeOK, ChildTypeOK
<1>2. /\ DOMAIN files' = DOMAIN files
      /\ \A n \in DOMAIN files : files'[n] \in Seq(Byte)
      /\ \A n \in DOMAIN files : n # name[c] => files'[n] = files[n]
      /\ name[c] \notin Unwritable /\ Len(files[name[c]]) = pos[c]
            => Len(files'[name[c]]) = pos[c] + k
  BY FlushedFile, Zenon
<1>3. PICK p \in Nat, b \in Seq(Byte) :
          /\ p = pos[c] + k /\ pos' = [pos EXCEPT ![c] = p]
          /\ buf' = [buf EXCEPT ![c] = b]
  <2>1. k \in Nat /\ k <= Len(held) /\ Len(held) \in Nat /\ Len(held) <= Len(held)
    BY LenProperties
  <2>2. SubSeq(held, k + 1, Len(held)) \in Seq(Byte)
    BY <2>1, Piece, Zenon
  <2>3. pos[c] + k \in Nat
    BY <1>1, <2>1
  <2> QED
    BY <2>2, <2>3, Zenon DEF Flush
<1>4. /\ pos' \in [Child -> Nat] /\ buf' \in [Child -> Seq(Byte)]
      /\ pos'[c] = pos[c] + k
      /\ \A e \in Child : e # c => pos'[e] = pos[e] /\ buf'[e] = buf[e]
  BY <1>1, <1>3, Zenon
<1>5. Opened'
  BY <1>1, <1>2, <1>4, Zenon DEF Opened
<1>6. StreamAtEnd'
  <2> SUFFICES ASSUME NEW e \in Child, pc'[e] # "wrq", name[e] \notin Unwritable,
                      \A x \in Child \ {e} : name[x] = name[e] => pc'[x] = "wrq"
               PROVE  name[e] \in DOMAIN files' /\ Len(files'[name[e]]) = pos'[e]
    BY Zenon DEF StreamAtEnd
  <2>1. \A x \in Child \ {e} : name[x] = name[e] => pc[x] = "wrq"
    BY Zenon
  <2>2. pc[e] # "wrq"
    BY Zenon
  <2>3. name[e] \in DOMAIN files /\ Len(files[name[e]]) = pos[e]
    BY <1>1, <2>1, <2>2, Zenon DEF StreamAtEnd
  <2>4. CASE e = c
    BY <1>2, <1>4, <2>3, <2>4, Zenon
  <2>5. CASE e # c
    <3>1. name[e] # name[c]
      BY <2>5, Zenon
    <3> QED
      BY <1>2, <1>4, <2>3, <2>5, <3>1, Zenon
  <2> QED
    BY <2>4, <2>5
<1> QED
  BY <1>1, <1>2, <1>4, <1>5, <1>6, Zenon DEF StreamsKept

----------------------------------------------------------------------------
\* A child about to run write_data has nothing open and counted no timeout.
LEMMA InitWriteInv == Init => WriteInv
<1> SUFFICES ASSUME Init PROVE WriteInv
  OBVIOUS
<1> USE DEF Init, ChildInit
<1>1. TypeOK
  <2>1. Ack(0) \in Packet /\ <<>> \in Seq(Byte)
    <3>1. <<>> \in Seq(Byte) /\ 0 \in Nat
      OBVIOUS
    <3> QED
      BY <3>1, Packets, Zenon
  <2>2. 0 \in 0..MaxTimeouts
    BY TftpAssumption
  <2>3. DOMAIN files \subseteq Name /\ \A n \in DOMAIN files : files[n] \in Seq(Byte)
    BY ChildAssumption
  <2> QED
    BY <2>1, <2>2, <2>3 DEF TypeOK, ChildTypeOK
<1>2. Sockets /\ Opened /\ StreamAtEnd
  BY DEF Sockets, Opened, StreamAtEnd
<1>3. SilenceCounted
  BY TftpAssumption DEF SilenceCounted
<1> QED
  BY <1>1, <1>2, <1>3 DEF WriteInv

\* fopen(file, "w") and ACK 0: the file is empty and the stream at its start;
\* another child that has it open is no longer alone with it.
LEMMA StartKeepsWriteInv ==
    ASSUME WriteInv, NEW c \in Child, Start(c)
    PROVE  WriteInv'
<1>1. /\ pc[c] = "wrq"
      /\ files' = IF name[c] \in Unwritable THEN files ELSE WithFile(name[c], <<>>)
      /\ last' = [last EXCEPT ![c] = Ack(0)]
      /\ Exchange({}, {Dgram(port[c], peer[c], Ack(0))})
      /\ pc' = [pc EXCEPT ![c] = "writewait"]
      /\ UNCHANGED <<port, peer, name, block, timeouts, pos, buf, quiet>>
  BY Zenon DEF Start
<1>2. /\ TypeOK /\ ChildTypeOK /\ Sockets /\ SilenceCounted /\ Opened /\ StreamAtEnd
  BY Zenon DEF WriteInv, TypeOK
<1>3. /\ peer[c] \in Peer /\ name[c] \in Name /\ DOMAIN files \subseteq Name
      /\ \A n \in DOMAIN files : files[n] \in Seq(Byte)
      /\ last \in [Child -> Packet]
      /\ pc \in [Child -> {"wrq", "writewait", "closing"} \cup Stopped]
  BY <1>2 DEF TypeOK, ChildTypeOK
<1>4. Ack(0) \in Packet /\ <<>> \in Seq(Byte) /\ Len(<<>>) = 0
  <2>1. <<>> \in Seq(Byte) /\ 0 \in Nat /\ Len(<<>>) = 0
    OBVIOUS
  <2> QED
    BY <2>1, Packets, Zenon
<1>5. net' \subseteq Datagram /\ Sockets'
  BY <1>1, <1>2, <1>3, <1>4, ChildSends, Zenon
<1>6. /\ pc'[c] = "writewait" /\ \A e \in Child : e # c => pc'[e] = pc[e]
      /\ pc' \in [Child -> {"wrq", "writewait", "closing"} \cup Stopped]
  BY <1>1, <1>3, Zenon
<1>7. /\ DOMAIN files' \subseteq Name /\ DOMAIN files \subseteq DOMAIN files'
      /\ \A n \in DOMAIN files' : files'[n] \in Seq(Byte)
      /\ name[c] \notin Unwritable =>
             name[c] \in DOMAIN files' /\ files'[name[c]] = <<>>
      /\ \A n \in DOMAIN files : n # name[c] => files'[n] = files[n]
  <2>1. CASE name[c] \in Unwritable
    BY <1>1, <1>3, <2>1, Zenon
  <2>2. CASE name[c] \notin Unwritable
    <3>1. files' = [m \in DOMAIN files \cup {name[c]} |->
                       IF m = name[c] THEN <<>> ELSE files[m]]
      BY <1>1, <2>2, Zenon DEF WithFile
    <3>2. DOMAIN files' = DOMAIN files \cup {name[c]}
      BY <3>1, Zenon
    <3>3. files'[name[c]] = <<>> /\ \A n \in DOMAIN files : n # name[c] => files'[n] = files[n]
      BY <3>1, Zenon
    <3> QED
      BY <1>3, <1>4, <2>2, <3>2, <3>3, Zenon
  <2> QED
    BY <2>1, <2>2
<1>8. TypeOK'
  <2>1. last' \in [Child -> Packet]
    BY <1>1, <1>3, <1>4, Zenon
  <2> QED
    BY <1>1, <1>2, <1>5, <1>6, <1>7, <2>1, Zenon DEF TypeOK, ChildTypeOK
<1>9. Opened'
  BY <1>1, <1>2, <1>6, <1>7, Zenon DEF Opened
<1>10. SilenceCounted'
  BY <1>1, <1>2, <1>6 DEF SilenceCounted
<1>11. StreamAtEnd'
  <2> SUFFICES ASSUME NEW e \in Child, pc'[e] # "wrq", name[e] \notin Unwritable,
                      \A x \in Child \ {e} : name[x] = name[e] => pc'[x] = "wrq"
               PROVE  name[e] \in DOMAIN files' /\ Len(files'[name[e]]) = pos[e]
    BY <1>1, Zenon DEF StreamAtEnd
  <2>1. CASE e = c
    BY <1>1, <1>2, <1>4, <1>7, <2>1, Zenon DEF Opened
  <2>2. CASE e # c
    <3>1. name[e] # name[c] /\ pc[e] # "wrq"
      BY <1>6, <2>2, Zenon
    <3>2. \A x \in Child \ {e} : name[x] = name[e] => pc[x] = "wrq"
      BY <1>1, <1>6, Zenon
    <3> QED
      BY <1>2, <1>7, <3>1, <3>2, Zenon DEF StreamAtEnd
  <2> QED
    BY <2>1, <2>2
<1> QED
  BY <1>5, <1>8, <1>9, <1>10, <1>11, Zenon DEF WriteInv

\* What recvfrom's return does to a child: the count of timeouts starts again and
\* the sender, or what is made of its address, becomes the client.
LEMMA ReturnedKeepsTypes ==
    ASSUME WriteInv, NEW c \in Child, NEW d, NEW from \in Peer, Returned(c, d, from)
    PROVE  /\ pc[c] = "writewait" /\ Arrives(c, d) /\ UNCHANGED <<port, name>>
           /\ peer' \in [Child -> Peer]
           /\ timeouts' \in [Child -> 0..MaxTimeouts]
           /\ quiet' \in [Child -> 0..MaxTimeouts]
           /\ timeouts'[c] = 0 /\ quiet'[c] = 0
           /\ \A e \in Child : e # c => timeouts'[e] = timeouts[e] /\ quiet'[e] = quiet[e]
<1>1. /\ pc[c] = "writewait" /\ Arrives(c, d) /\ UNCHANGED <<port, name>>
      /\ peer' = [peer EXCEPT ![c] = from]
      /\ timeouts' = [timeouts EXCEPT ![c] = 0]
      /\ quiet' = [quiet EXCEPT ![c] = 0]
  BY Zenon DEF Returned
<1>2. /\ peer \in [Child -> Peer]
      /\ timeouts \in [Child -> 0..MaxTimeouts]
      /\ quiet \in [Child -> 0..MaxTimeouts]
  BY Zenon DEF WriteInv, TypeOK, ChildTypeOK
<1>3. 0 \in 0..MaxTimeouts
  BY TftpAssumption
<1> QED
  BY <1>1, <1>2, <1>3, Zenon

\* A child whose count of timeouts starts again, and which runs or has crashed.
LEMMA CountsAgain ==
    ASSUME SilenceCounted, NEW c \in Child,
           timeouts'[c] = 0, quiet'[c] = 0, pc'[c] # "timedout",
           \A e \in Child : e # c => /\ timeouts'[e] = timeouts[e]
                                    /\ quiet'[e] = quiet[e] /\ pc'[e] = pc[e]
    PROVE  SilenceCounted'
<1>1. 0 < MaxTimeouts
  BY TftpAssumption
<1> QED
  BY <1>1, Zenon DEF SilenceCounted

\* block++ and the ACK.
LEMMA AcknowledgeKeeps ==
    ASSUME WriteInv, NEW c \in Child, NEW in, NEW to \in Peer,
           Acknowledge(c, in, to), UNCHANGED port
    PROVE  /\ block' \in [Child -> Nat] /\ last' \in [Child -> Packet]
           /\ net' \subseteq Datagram /\ Sockets'
<1>1. /\ ChildTypeOK /\ Sockets /\ block \in [Child -> Nat] /\ last \in [Child -> Packet]
  BY Zenon DEF WriteInv, TypeOK, ChildTypeOK
<1>2. PICK n \in Nat, k \in Packet : n = block[c] + 1 /\ k = Ack(block[c] + 1)
  <2>1. block[c] + 1 \in Nat /\ <<>> \in Seq(Byte)
    BY <1>1
  <2> QED
    BY <2>1, Packets, Zenon
<1>3. /\ block' = [block EXCEPT ![c] = n] /\ last' = [last EXCEPT ![c] = k]
      /\ Exchange(in, {Dgram(port[c], to, k)})
  BY <1>2, Zenon DEF Acknowledge
<1>4. net' \subseteq Datagram /\ Sockets'
  BY <1>1, <1>3, ChildSends, Zenon
<1> QED
  BY <1>1, <1>3, <1>4, Zenon

\* A packet is stored and acknowledged.
LEMMA StoredKeepsWriteInv ==
    ASSUME WriteInv, NEW c \in Child, NEW d \in net, Stored(c, d)
    PROVE  WriteInv'
<1>1. PICK held : held = buf[c] \o CString(d.pkt.data)
  OBVIOUS
<1>2. PICK from \in Peer :
          /\ Returned(c, d, from)
          /\ \E k \in 0..Len(held) : Flush(c, held, k)
          /\ Acknowledge(c, {d}, from)
          /\ Continue(c, d.pkt.data)
  BY <1>1, Zenon DEF Stored
<1>3. PICK k \in 0..Len(held) : Flush(c, held, k)
  BY <1>2
<1>4. /\ ChildTypeOK /\ Sockets /\ SilenceCounted /\ buf[c] \in Seq(Byte)
      /\ pc \in [Child -> {"wrq", "writewait", "closing"} \cup Stopped]
  BY Zenon DEF WriteInv, TypeOK, ChildTypeOK
<1>5. /\ pc[c] = "writewait" /\ Arrives(c, d) /\ UNCHANGED <<port, name>>
      /\ peer' \in [Child -> Peer]
      /\ timeouts' \in [Child -> 0..MaxTimeouts]
      /\ quiet' \in [Child -> 0..MaxTimeouts]
      /\ timeouts'[c] = 0 /\ quiet'[c] = 0
      /\ \A e \in Child : e # c => timeouts'[e] = timeouts[e] /\ quiet'[e] = quiet[e]
  BY <1>2, ReturnedKeepsTypes, Zenon
<1>6. held \in Seq(Byte)
  <2>1. d.pkt.data \in Seq(Byte)
    BY <1>4, <1>5, SenderIsPeer, Zenon
  <2>2. CString(d.pkt.data) \in Seq(Byte)
    BY <2>1, CStringBytes, Zenon
  <2> QED
    BY <1>1, <1>4, <2>2, ConcatProperties, Zenon
<1>7. PICK to \in {"writewait", "closing"} : pc' = [pc EXCEPT ![c] = to]
  BY <1>2, <1>5, Zenon DEF Continue
<1>8. /\ pc'[c] = to /\ \A e \in Child : e # c => pc'[e] = pc[e]
      /\ pc' \in [Child -> {"wrq", "writewait", "closing"} \cup Stopped]
  BY <1>4, <1>7, Zenon
<1>9. /\ block' \in [Child -> Nat] /\ last' \in [Child -> Packet]
      /\ net' \subseteq Datagram /\ Sockets'
  BY <1>2, <1>5, AcknowledgeKeeps, Zenon
<1>10. pc[c] # "wrq" /\ pc'[c] # "wrq" /\ pc'[c] # "timedout"
  BY <1>5, <1>8
<1>11. StreamsKept
  BY <1>3, <1>5, <1>6, <1>8, <1>10, FlushKeepsStreams, Zenon
<1>12. SilenceCounted'
  BY <1>4, <1>5, <1>8, <1>10, CountsAgain, Zenon
<1>13. TypeOK'
  <2>1. port' \in [Child -> Port] /\ name' \in [Child -> Name]
    BY <1>4, <1>5, Zenon DEF ChildTypeOK
  <2> QED
    BY <1>5, <1>8, <1>9, <1>11, <2>1, Zenon DEF TypeOK, ChildTypeOK, StreamsKept
<1> QED
  BY <1>9, <1>11, <1>12, <1>13, Zenon DEF WriteInv, StreamsKept

\* The streams of a step that writes nothing and after which a child that had
\* opened its file still has.
LEMMA StreamsUntouched ==
    ASSUME WriteInv, UNCHANGED <<files, name, pos, buf>>,
           \A e \in Child : (pc'[e] = "wrq") <=> (pc[e] = "wrq")
    PROVE  StreamsKept
<1>1. ChildTypeOK /\ Opened /\ StreamAtEnd
  BY Zenon DEF WriteInv, TypeOK
<1>2. Opened'
  BY <1>1, Zenon DEF Opened
<1>3. StreamAtEnd'
  BY <1>1, Zenon DEF StreamAtEnd
<1> QED
  BY <1>1, <1>2, <1>3, Zenon DEF StreamsKept, ChildTypeOK

\* fprintf on a NULL stream.
LEMMA CrashedKeepsWriteInv ==
    ASSUME WriteInv, NEW c \in Child, NEW d \in net, Crashed(c, d)
    PROVE  WriteInv'
<1>1. PICK from \in Peer : Returned(c, d, from)
  BY Zenon DEF Crashed
<1>2. /\ pc' = [pc EXCEPT ![c] = "crashed"] /\ Exchange({d}, {})
      /\ UNCHANGED <<files, block, last, pos, buf>>
  BY Zenon DEF Crashed
<1>3. /\ ChildTypeOK /\ Sockets /\ SilenceCounted
      /\ pc \in [Child -> {"wrq", "writewait", "closing"} \cup Stopped]
  BY Zenon DEF WriteInv, TypeOK
<1>4. /\ pc[c] = "writewait" /\ UNCHANGED <<port, name>>
      /\ peer' \in [Child -> Peer]
      /\ timeouts' \in [Child -> 0..MaxTimeouts]
      /\ quiet' \in [Child -> 0..MaxTimeouts]
      /\ timeouts'[c] = 0 /\ quiet'[c] = 0
      /\ \A e \in Child : e # c => timeouts'[e] = timeouts[e] /\ quiet'[e] = quiet[e]
  BY <1>1, ReturnedKeepsTypes, Zenon
<1>5. /\ pc'[c] = "crashed" /\ \A e \in Child : e # c => pc'[e] = pc[e]
      /\ pc' \in [Child -> {"wrq", "writewait", "closing"} \cup Stopped]
  BY <1>2, <1>3, Zenon DEF Stopped
<1>6. net' \subseteq Datagram /\ Sockets'
  BY <1>2, <1>3, <1>4, ChildTakes, Zenon
<1>7. StreamsKept
  <2>1. \A e \in Child : (pc'[e] = "wrq") <=> (pc[e] = "wrq")
    BY <1>4, <1>5
  <2> QED
    BY <1>2, <1>4, <2>1, StreamsUntouched, Zenon
<1>8. SilenceCounted'
  BY <1>3, <1>4, <1>5, CountsAgain, Zenon
<1>9. TypeOK'
  BY <1>2, <1>3, <1>4, <1>5, <1>6, <1>7, Zenon DEF TypeOK, ChildTypeOK, StreamsKept
<1> QED
  BY <1>6, <1>7, <1>8, <1>9, Zenon DEF WriteInv, StreamsKept

\* recvfrom fails with EINVAL and the loop ends.
LEMMA MistakenKeepsWriteInv ==
    ASSUME WriteInv, NEW c \in Child, NEW d \in net, Mistaken(c, d)
    PROVE  WriteInv'
<1>1. /\ pc[c] = "writewait"
      /\ timeouts' = [timeouts EXCEPT ![c] = 0]
      /\ quiet' = [quiet EXCEPT ![c] = 0]
      /\ Acknowledge(c, {d}, peer[c])
      /\ pc' = [pc EXCEPT ![c] = "closing"]
      /\ UNCHANGED <<files, port, peer, name, pos, buf>>
  BY Zenon DEF Mistaken
<1>2. /\ ChildTypeOK /\ Sockets /\ SilenceCounted /\ peer[c] \in Peer
      /\ timeouts \in [Child -> 0..MaxTimeouts]
      /\ quiet \in [Child -> 0..MaxTimeouts]
      /\ pc \in [Child -> {"wrq", "writewait", "closing"} \cup Stopped]
  BY Zenon DEF WriteInv, TypeOK, ChildTypeOK
<1>3. /\ pc'[c] = "closing" /\ \A e \in Child : e # c => pc'[e] = pc[e]
      /\ pc' \in [Child -> {"wrq", "writewait", "closing"} \cup Stopped]
  BY <1>1, <1>2, Zenon
<1>4. /\ timeouts' \in [Child -> 0..MaxTimeouts]
      /\ quiet' \in [Child -> 0..MaxTimeouts]
      /\ timeouts'[c] = 0 /\ quiet'[c] = 0
      /\ \A e \in Child : e # c => timeouts'[e] = timeouts[e] /\ quiet'[e] = quiet[e]
  <2>1. 0 \in 0..MaxTimeouts
    BY TftpAssumption
  <2> QED
    BY <1>1, <1>2, <2>1, Zenon
<1>5. /\ block' \in [Child -> Nat] /\ last' \in [Child -> Packet]
      /\ net' \subseteq Datagram /\ Sockets'
  BY <1>1, <1>2, AcknowledgeKeeps, Zenon
<1>6. StreamsKept
  <2>1. \A e \in Child : (pc'[e] = "wrq") <=> (pc[e] = "wrq")
    BY <1>1, <1>3
  <2> QED
    BY <1>1, <2>1, StreamsUntouched, Zenon
<1>7. SilenceCounted'
  BY <1>2, <1>3, <1>4, CountsAgain, Zenon
<1>8. TypeOK'
  BY <1>1, <1>2, <1>3, <1>4, <1>5, <1>6, Zenon DEF TypeOK, ChildTypeOK, StreamsKept
<1> QED
  BY <1>5, <1>6, <1>7, <1>8, Zenon DEF WriteInv, StreamsKept

\* fclose of a child that runs: its stream is written out and it stops.
LEMMA FcloseKeepsStreams ==
    ASSUME WriteInv, NEW c \in Child, pc[c] # "wrq", NEW how \in Stopped,
           Fclose(c, how), UNCHANGED name
    PROVE  /\ StreamsKept
           /\ pc'[c] \in {how, "crashed"} /\ \A e \in Child : e # c => pc'[e] = pc[e]
           /\ pc' \in [Child -> {"wrq", "writewait", "closing"} \cup Stopped]
<1>1. PICK to \in {how, "crashed"} : pc' = [pc EXCEPT ![c] = to]
  BY Zenon DEF Fclose
<1>2. to \in Stopped /\ to # "wrq"
  BY DEF Stopped
<1>3. /\ pc \in [Child -> {"wrq", "writewait", "closing"} \cup Stopped]
      /\ buf[c] \in Seq(Byte)
  BY Zenon DEF WriteInv, TypeOK, ChildTypeOK
<1>4. /\ pc'[c] = to /\ \A e \in Child : e # c => pc'[e] = pc[e]
      /\ pc' \in [Child -> {"wrq", "writewait", "closing"} \cup Stopped]
  BY <1>1, <1>2, <1>3, Zenon
<1>5. Len(buf[c]) \in 0..Len(buf[c]) /\ Flush(c, buf[c], Len(buf[c]))
  <2>1. Len(buf[c]) \in Nat
    BY <1>3, LenProperties
  <2> QED
    BY <2>1 DEF Fclose
<1>6. StreamsKept
  BY <1>2, <1>3, <1>4, <1>5, FlushKeepsStreams, Zenon
<1> QED
  BY <1>4, <1>6, Zenon

\* The loop is over.
LEMMA CloseKeepsWriteInv ==
    ASSUME WriteInv, NEW c \in Child, Close(c)
    PROVE  WriteInv'
<1>1. /\ pc[c] = "closing" /\ Fclose(c, "exited")
      /\ UNCHANGED <<net, port, peer, name, block, timeouts, last, quiet>>
  BY Zenon DEF Close
<1>2. ChildTypeOK /\ Sockets /\ SilenceCounted
  BY Zenon DEF WriteInv, TypeOK
<1>3. pc[c] # "wrq" /\ "exited" \in Stopped
  BY <1>1 DEF Stopped
<1>4. /\ StreamsKept
      /\ pc'[c] \in {"exited", "crashed"} /\ \A e \in Child : e # c => pc'[e] = pc[e]
      /\ pc' \in [Child -> {"wrq", "writewait", "closing"} \cup Stopped]
  BY <1>1, <1>3, FcloseKeepsStreams, Zenon
<1>5. SilenceCounted'
  BY <1>1, <1>2, <1>4 DEF SilenceCounted
<1>6. TypeOK' /\ Sockets'
  BY <1>1, <1>2, <1>4, Zenon DEF TypeOK, ChildTypeOK, StreamsKept, Sockets
<1> QED
  BY <1>4, <1>5, <1>6, Zenon DEF WriteInv, StreamsKept

\* recvfrom times out.
LEMMA WriteTimeoutKeepsWriteInv ==
    ASSUME WriteInv, NEW c \in Child, WriteTimeout(c)
    PROVE  WriteInv'
<1>1. /\ pc[c] = "writewait"
      /\ timeouts' = [timeouts EXCEPT ![c] = timeouts[c] + 1]
      /\ quiet' = [quiet EXCEPT ![c] = quiet[c] + 1]
      /\ UNCHANGED <<port, peer, name, block, last>>
  BY Zenon DEF WriteTimeout
<1>2. /\ ChildTypeOK /\ Sockets /\ SilenceCounted /\ peer[c] \in Peer
      /\ last[c] \in Packet
      /\ timeouts \in [Child -> 0..MaxTimeouts]
      /\ quiet \in [Child -> 0..MaxTimeouts]
      /\ pc \in [Child -> {"wrq", "writewait", "closing"} \cup Stopped]
  BY Zenon DEF WriteInv, TypeOK, ChildTypeOK
<1>3. timeouts[c] = quiet[c] /\ timeouts[c] < MaxTimeouts
  BY <1>1, <1>2 DEF SilenceCounted
<1>4. PICK n \in 0..MaxTimeouts : n = timeouts[c] + 1 /\ n = quiet[c] + 1
  <2>1. MaxTimeouts \in Nat /\ timeouts[c] \in 0..MaxTimeouts
    BY <1>2, TftpAssumption
  <2> QED
    BY <1>3, <2>1
<1>5. /\ timeouts' \in [Child -> 0..MaxTimeouts]
      /\ quiet' \in [Child -> 0..MaxTimeouts]
      /\ timeouts'[c] = n /\ quiet'[c] = n
      /\ \A e \in Child : e # c => timeouts'[e] = timeouts[e] /\ quiet'[e] = quiet[e]
  BY <1>1, <1>2, <1>4, Zenon
<1>6. CASE /\ timeouts'[c] >= MaxTimeouts
           /\ Fclose(c, "timedout")
           /\ UNCHANGED net
  <2>1. pc[c] # "wrq" /\ "timedout" \in Stopped /\ n = MaxTimeouts
    <3>1. n >= MaxTimeouts /\ MaxTimeouts \in Nat
      BY <1>5, <1>6, TftpAssumption
    <3> QED
      BY <1>1, <3>1 DEF Stopped
  <2>2. /\ StreamsKept
        /\ pc'[c] \in {"timedout", "crashed"}
        /\ \A e \in Child : e # c => pc'[e] = pc[e]
        /\ pc' \in [Child -> {"wrq", "writewait", "closing"} \cup Stopped]
    BY <1>1, <1>6, <2>1, FcloseKeepsStreams, Zenon
  <2>3. SilenceCounted'
    BY <1>2, <1>5, <2>1, <2>2 DEF SilenceCounted
  <2>4. TypeOK' /\ Sockets'
    BY <1>1, <1>2, <1>5, <1>6, <2>2, Zenon DEF TypeOK, ChildTypeOK, StreamsKept, Sockets
  <2> QED
    BY <2>2, <2>3, <2>4, Zenon DEF WriteInv, StreamsKept
<1>7. CASE /\ timeouts'[c] < MaxTimeouts
           /\ Exchange({}, {Dgram(port[c], peer[c], last[c])})
           /\ UNCHANGED <<files, pc, pos, buf>>
  <2>1. net' \subseteq Datagram /\ Sockets'
    BY <1>1, <1>2, <1>7, ChildSends, Zenon
  <2>2. StreamsKept
    BY <1>1, <1>7, StreamsUntouched, Zenon
  <2>3. SilenceCounted'
    BY <1>1, <1>2, <1>5, <1>7 DEF SilenceCounted
  <2>4. TypeOK'
    BY <1>1, <1>2, <1>5, <1>7, <2>1, <2>2, Zenon DEF TypeOK, ChildTypeOK, StreamsKept
  <2> QED
    BY <2>1, <2>2, <2>3, <2>4, Zenon DEF WriteInv, StreamsKept
<1> QED
  BY <1>6, <1>7, Zenon DEF WriteTimeout

\* Anyone sends a packet to a child.
LEMMA InjectKeepsWriteInv ==
    ASSUME WriteInv, Inject
    PROVE  WriteInv'
<1>1. /\ SendStray
      /\ UNCHANGED <<files, pc, port, peer, name, block, timeouts, last, pos,
                     buf, quiet>>
  BY Zenon DEF Inject
<1>2. ChildTypeOK /\ TypeOK /\ Sockets /\ SilenceCounted
  BY Zenon DEF WriteInv, TypeOK
<1>3. net' \subseteq Datagram /\ Sockets'
  BY <1>1, <1>2, StraySent, Zenon
<1>4. StreamsKept
  BY <1>1, StreamsUntouched, Zenon
<1>5. TypeOK' /\ SilenceCounted'
  BY <1>1, <1>2, <1>3, Zenon DEF TypeOK, ChildTypeOK, SilenceCounted
<1> QED
  BY <1>3, <1>4, <1>5, Zenon DEF WriteInv, StreamsKept

\* The files, the streams and the count of timeouts of every child that runs
\* write_data agree for ever.
THEOREM WriteInvariant == Spec => []WriteInv
<1>1. Init => WriteInv
  BY InitWriteInv
<1>2. WriteInv /\ [Next]_vars => WriteInv'
  <2> SUFFICES ASSUME WriteInv, [Next]_vars PROVE WriteInv'
    OBVIOUS
  <2>1. CASE Inject
    BY <2>1, InjectKeepsWriteInv
  <2>2. ASSUME NEW c \in Child, WriteStep(c)
        PROVE  WriteInv'
    BY <2>2, StartKeepsWriteInv, StoredKeepsWriteInv, CrashedKeepsWriteInv,
       MistakenKeepsWriteInv, WriteTimeoutKeepsWriteInv, CloseKeepsWriteInv, Zenon
       DEF WriteStep
  <2>3. CASE UNCHANGED vars
    <3>1. UNCHANGED childVars
      BY <2>3 DEF vars
    <3> QED
      BY <3>1, Zenon DEF childVars, WriteInv, TypeOK, ChildTypeOK, Sockets,
         SilenceCounted, Opened, StreamAtEnd
  <2> QED
    BY <2>1, <2>2, <2>3, Zenon DEF Next
<1> QED
  BY <1>1, <1>2, PTL DEF Spec

\* Every variable of a child keeps its type, the files stay sequences of bytes
\* whatever is written where, and timeout stays within its limit.
THEOREM WriteTypeCorrect == Spec => []TypeOK
<1>1. WriteInv => TypeOK
  BY DEF WriteInv
<1> QED
  BY <1>1, WriteInvariant, PTL

\* write_data disconnects only when MaxTimeouts timeouts have expired with no
\* datagram between them.
THEOREM GivesUpAfterSilence == Spec => []DisconnectAfterSilence
<1>1. WriteInv => DisconnectAfterSilence
  BY DEF WriteInv, SilenceCounted, DisconnectAfterSilence
<1> QED
  BY <1>1, WriteInvariant, PTL

\* A child that no other child disturbs appends what it stores to what it stored.
THEOREM WritesAtEnd == Spec => []StreamAtEnd
<1>1. WriteInv => StreamAtEnd
  BY DEF WriteInv
<1> QED
  BY <1>1, WriteInvariant, PTL
============================================================================
