------------------------ MODULE ReadSessionProofs ------------------------
(***************************************************************************)
(* A download is a copy of the file, segment by segment, for files of any  *)
(* length, any number of children serving the same request, any segment    *)
(* size, any number of lost datagrams and any width of the block numbers   *)
(* that tells a segment from the next.                                     *)
(***************************************************************************)
EXTENDS ReadSession, ReadDataProofs

\* The client is not a child, and the children's ports are told apart.
LEMMA Ends ==
    ASSUME SessionInv
    PROVE  /\ \A c \in Child : port[c] \in Port /\ port[c] # Client /\ port[c] # None
           /\ \A c, e \in Child : port[c] = port[e] => c = e
<1>1. port \in [Child -> Port] /\ Sockets
  BY Zenon DEF SessionInv, ReadInv, TypeOK, ChildTypeOK
<1>2. Client \notin Port /\ None \notin Port
  BY ReadSessionAssumption, ChildAssumption
<1> QED
  BY <1>1, <1>2, Zenon DEF Sockets

\* The wires of two children have nothing in common.
LEMMA WiresApart ==
    ASSUME SessionInv, NEW c \in Child, NEW e \in Child, e # c
    PROVE  Wire(e) \cap Wire(c) = {}
<1> SUFFICES ASSUME NEW d \in Wire(e), d \in Wire(c) PROVE FALSE
  OBVIOUS
<1>1. port[e] # port[c] /\ port[e] # Client /\ port[c] # Client
  BY Ends, Zenon
<1>2. PICK f \in Child : \/ d.src = port[f] /\ d.dst = Client
                         \/ d.src = Client /\ d.dst = port[f]
  BY Zenon DEF SessionInv, OneInFlight, Wire
<1> QED
  BY <1>1, <1>2, Zenon DEF Wire

\* What the client and the child it deals with must agree on after child c sent.
Agreeable(c) ==
    /\ tid = None => block'[c] <= 2
    /\ port[c] = tid /\ cstate # "failed" =>
          /\ name[c] \in DOMAIN files
          /\ block'[c] \in {expect, expect + 1}
          /\ cstate = "done" => block'[c] = expect
          /\ pc'[c] = "exited" => cstate = "done"

\* A child that has nothing under way, or takes all there is, sends a packet.
LEMMA ChildSendsOne ==
    ASSUME SessionInv, NEW c \in Child, NEW k,
           net' = (net \ Wire(c)) \cup {Dgram(port[c], Client, k)},
           port' = port, files' = files, name' = name, UNCHANGED clientVars,
           \A e \in Child : peer'[e] = Client,
           \A e \in Child : e # c => pc'[e] = pc[e] /\ block'[e] = block[e],
           pc'[c] # "rrq", k = Latest(c)',
           name[c] \in DOMAIN files => block'[c] >= 2, Agreeable(c)
    PROVE  OneInFlight' /\ InAgreement'
<1>1. PICK x :
          /\ x.src = port[c] /\ x.dst = Client /\ x.pkt = k
          /\ net' = (net \ Wire(c)) \cup {x}
          /\ \A d \in Wire(c)' : d = x
          /\ \A e \in Child : e # c => Wire(e)' = Wire(e)
  <2>1. PICK x : x = Dgram(port[c], Client, k)
    OBVIOUS
  <2>2. x.src = port[c] /\ x.dst = Client /\ x.pkt = k
    BY <2>1 DEF Dgram
  <2>3. net' = (net \ Wire(c)) \cup {x}
    BY <2>1, Zenon
  <2>4. \A d \in Wire(c)' : d = x
    BY <2>3, Zenon DEF Wire
  <2>5. ASSUME NEW e \in Child, e # c
        PROVE  Wire(e)' = Wire(e)
    <3>1. port[e] # port[c] /\ port[e] # Client
      BY <2>5, Ends, Zenon
    <3>2. x \notin Wire(e)'
      BY <2>2, <3>1, Zenon DEF Wire
    <3>3. Wire(e) \cap Wire(c) = {}
      BY <2>5, WiresApart, Zenon
    <3> QED
      BY <2>3, <3>2, <3>3, Zenon DEF Wire
  <2> QED
    BY <2>2, <2>3, <2>4, <2>5, Zenon
<1>2. OneInFlight
  BY DEF SessionInv
<1>3. OneInFlight'
  <2>1. \A e, f \in Child : peer'[e] = Client /\ name'[e] = name'[f]
    BY <1>2, Zenon DEF OneInFlight
  <2>2. \A d \in net' : \E e \in Child : \/ d.src = port'[e] /\ d.dst = Client
                                         \/ d.src = Client /\ d.dst = port'[e]
    BY <1>1, <1>2, Zenon DEF OneInFlight
  <2>3. ASSUME NEW e \in Child
        PROVE  /\ pc'[e] = "rrq" => Wire(e)' = {}
               /\ \A d, f \in Wire(e)' : d = f
               /\ \A d \in Wire(e)' : d.src = port'[e] =>
                     /\ d.pkt = Latest(e)'
                     /\ name'[e] \in DOMAIN files' => block'[e] >= 2
    <3>1. CASE e = c
      BY <1>1, <3>1, Zenon
    <3>2. CASE e # c
      <4>1. Latest(e)' = Latest(e)
        BY <3>2, Zenon DEF Latest
      <4>2. /\ Wire(e)' = Wire(e) /\ pc'[e] = pc[e] /\ block'[e] = block[e]
            /\ port'[e] = port[e] /\ name'[e] = name[e] /\ files' = files
        BY <1>1, <3>2, Zenon
      <4>3. /\ pc[e] = "rrq" => Wire(e) = {}
            /\ \A d, f \in Wire(e) : d = f
            /\ \A d \in Wire(e) : d.src = port[e] =>
                  /\ d.pkt = Latest(e)
                  /\ name[e] \in DOMAIN files => block[e] >= 2
        BY <1>2, Zenon DEF OneInFlight
      <4> QED
        BY <4>1, <4>2, <4>3, Zenon
    <3> QED
      BY <3>1, <3>2
  <2> QED
    BY <2>1, <2>2, <2>3, Zenon DEF OneInFlight
<1>4. InAgreement'
  <2>1. InAgreement
    BY DEF SessionInv
  <2>2. ASSUME NEW e \in Child, NEW d \in net', d.dst = port[e]
        PROVE  d \in net /\ e # c
    <3>1. port[e] # Client
      BY Ends, Zenon
    <3>2. d \in net /\ d \notin Wire(c)
      BY <1>1, <2>2, <3>1, Zenon
    <3> QED
      BY <2>2, <3>2, Zenon DEF Wire
  <2>3. tid' = tid /\ cstate' = cstate /\ expect' = expect
    BY DEF clientVars
  <2>4. ASSUME NEW e \in Child
        PROVE  /\ tid' = None => block'[e] <= 2 /\ \A d \in net' : d.dst # port'[e]
               /\ port'[e] = tid' /\ cstate' # "failed" =>
                     /\ name'[e] \in DOMAIN files'
                     /\ pc'[e] # "rrq"
                     /\ block'[e] \in {expect', expect' + 1}
                     /\ cstate' = "done" => block'[e] = expect'
                     /\ \A d \in net' : d.dst = port'[e] => block'[e] = expect'
                     /\ pc'[e] = "exited" => cstate' = "done"
    <3>1. CASE e = c
      BY <2>2, <2>3, <3>1, Zenon DEF Agreeable
    <3>2. CASE e # c
      BY <2>1, <2>2, <2>3, <3>2, Zenon DEF InAgreement
    <3> QED
      BY <3>1, <3>2
  <2> QED
    BY <2>4, Zenon DEF InAgreement
<1> QED
  BY <1>3, <1>4

\* The client is where it was.
LEMMA ClientUntouched ==
    ASSUME ClientInStep, port' = port, files' = files, name' = name,
           UNCHANGED clientVars
    PROVE  ClientInStep'
<1>1. Source' = Source
  BY SMT DEF Source
<1>2. copy' = copy /\ tid' = tid /\ cstate' = cstate /\ expect' = expect
  BY DEF clientVars
<1> QED
  BY <1>1, <1>2, Zenon DEF ClientInStep

\* Datagrams are taken from the wires and none is sent: a child may exit when the
\* client it deals with has the whole file.
LEMMA FewerInFlight ==
    ASSUME SessionInv, net' \subseteq net,
           port' = port, files' = files, name' = name, block' = block,
           UNCHANGED clientVars,
           \A e \in Child : peer'[e] = Client,
           \A e \in Child :
               \/ pc'[e] = pc[e]
               \/ /\ pc'[e] = "exited" /\ pc[e] # "rrq"
                  /\ port[e] = tid /\ cstate # "failed" => cstate = "done"
    PROVE  OneInFlight' /\ InAgreement' /\ ClientInStep'
<1>1. tid' = tid /\ cstate' = cstate /\ expect' = expect
  BY DEF clientVars
<1>2. OneInFlight /\ InAgreement /\ ClientInStep
  BY DEF SessionInv
<1>3. \A e \in Child : Wire(e)' \subseteq Wire(e) /\ (pc'[e] = "rrq" => pc[e] = "rrq")
  <2>1. \A e \in Child : Wire(e)' \subseteq Wire(e)
    BY Zenon DEF Wire
  <2>2. "exited" # "rrq"
    OBVIOUS
  <2> QED
    BY <2>1, <2>2, Zenon
<1>4. OneInFlight'
  <2>1. \A e \in Child : Latest(e)' = Latest(e)
    BY Zenon DEF Latest
  <2>2. \A e, f \in Child : peer'[e] = Client /\ name'[e] = name'[f]
    BY <1>2, Zenon DEF OneInFlight
  <2>3. \A d \in net' : \E e \in Child : \/ d.src = port'[e] /\ d.dst = Client
                                         \/ d.src = Client /\ d.dst = port'[e]
    BY <1>2, Zenon DEF OneInFlight
  <2>4. ASSUME NEW e \in Child
        PROVE  /\ pc'[e] = "rrq" => Wire(e)' = {}
               /\ \A d, f \in Wire(e)' : d = f
               /\ \A d \in Wire(e)' : d.src = port'[e] =>
                     /\ d.pkt = Latest(e)'
                     /\ name'[e] \in DOMAIN files' => block'[e] >= 2
    <3>1. /\ pc[e] = "rrq" => Wire(e) = {}
          /\ \A d, f \in Wire(e) : d = f
          /\ \A d \in Wire(e) : d.src = port[e] =>
                /\ d.pkt = Latest(e)
                /\ name[e] \in DOMAIN files => block[e] >= 2
      BY <1>2, Zenon DEF OneInFlight
    <3>2. Wire(e)' \subseteq Wire(e) /\ (pc'[e] = "rrq" => pc[e] = "rrq")
      BY <1>3, Zenon
    <3> QED
      BY <2>1, <3>1, <3>2, Zenon
  <2> QED
    BY <2>2, <2>3, <2>4, Zenon DEF OneInFlight
<1>5. InAgreement'
  <2>1. \A e \in Child : pc'[e] = "rrq" => pc[e] = "rrq"
    BY <1>3
  <2> QED
    BY <1>1, <1>2, <2>1, Zenon DEF InAgreement
<1>6. ClientInStep'
  BY <1>2, ClientUntouched, Zenon
<1> QED
  BY <1>4, <1>5, <1>6

\* All the children serve the same file.
LEMMA SourceServed ==
    ASSUME SessionInv, NEW c \in Child, name[c] \in DOMAIN files
    PROVE  Source = files[name[c]] /\ Source \in Seq(Byte) /\ Len(Source) \in Nat
<1>1. (CHOOSE e \in Child : TRUE) \in Child
  OBVIOUS
<1>2. name[CHOOSE e \in Child : TRUE] = name[c]
  BY <1>1, Zenon DEF SessionInv, OneInFlight
<1>3. files[name[c]] \in Seq(Byte)
  BY Zenon DEF SessionInv, ReadInv, TypeOK, ChildTypeOK
<1>4. Source = files[name[c]]
  BY <1>2, SMT DEF Source
<1> QED
  BY <1>3, <1>4, LenProperties

\* What the fields of a child's state are, and the client it serves.
LEMMA ChildAt ==
    ASSUME SessionInv, NEW c \in Child
    PROVE  /\ peer[c] = Client /\ block[c] \in Nat
           /\ pc \in [Child -> {"rrq", "readwait"} \cup Stopped]
           /\ peer \in [Child -> Peer] /\ block \in [Child -> Nat]
           /\ last \in [Child -> Packet]
BY Zenon DEF SessionInv, ReadInv, TypeOK, ChildTypeOK, OneInFlight

\* A child without a file reports it.
LEMMA NoSuchFileKeeps ==
    ASSUME SessionInv, NEW c \in Child, NoSuchFile(c), UNCHANGED clientVars
    PROVE  SessionInv'
<1>1. /\ pc[c] = "rrq" /\ name[c] \notin DOMAIN files
      /\ Exchange({}, {Dgram(port[c], peer[c], Err(1))})
      /\ pc' = [pc EXCEPT ![c] = "exited"]
      /\ port' = port /\ files' = files /\ name' = name /\ block' = block
      /\ peer' = peer
  BY DEF NoSuchFile
<1>2. ReadInv /\ OneInFlight /\ ClientInStep /\ InAgreement
  BY DEF SessionInv
<1>3. ReadInv'
  BY <1>2, NoSuchFileKeepsReadInv
<1>4. net' = (net \ Wire(c)) \cup {Dgram(port[c], Client, Err(1))}
  <2>1. Wire(c) = {}
    BY <1>1, <1>2, Zenon DEF OneInFlight
  <2>2. net' = net \cup {Dgram(port[c], Client, Err(1))}
    BY <1>1, NetworkAssumption, ChildAt DEF Exchange
  <2> QED
    BY <2>1, <2>2
<1>5. pc'[c] = "exited" /\ \A e \in Child : e # c => pc'[e] = pc[e]
  BY <1>1, ChildAt, Zenon
<1>6. Latest(c)' = Err(1)
  BY <1>1, Zenon DEF Latest
<1>7. Agreeable(c)
  BY <1>1, <1>2, Zenon DEF InAgreement, Agreeable
<1>8. \A e \in Child : peer'[e] = Client
  BY <1>1, ChildAt, Zenon
<1>9. OneInFlight' /\ InAgreement'
  BY <1>1, <1>4, <1>5, <1>6, <1>7, <1>8, ChildSendsOne
<1>10. ClientInStep'
  BY <1>1, <1>2, ClientUntouched, Zenon
<1> QED
  BY <1>3, <1>9, <1>10 DEF SessionInv

\* What one turn of read_data's loop sends and keeps for a resend.
LEMMA OneSegment ==
    ASSUME NEW c \in Child, NEW b, NEW in, NEW to, SendBlock(c, b, in, to)
    PROVE  \E k : /\ last' = [last EXCEPT ![c] = k]
                  /\ block' = [block EXCEPT ![c] = b + 1]
                  /\ Exchange(in, {Dgram(port[c], to, k)})
BY Zenon DEF SendBlock

\* The file exists: its first segment goes out.
LEMMA FirstBlockKeeps ==
    ASSUME SessionInv, NEW c \in Child, FirstBlock(c), UNCHANGED clientVars
    PROVE  SessionInv'
<1>1. /\ pc[c] = "rrq" /\ name[c] \in DOMAIN files
      /\ SendBlock(c, 1, {}, peer[c])
      /\ pc' = [pc EXCEPT ![c] = "readwait"]
      /\ port' = port /\ files' = files /\ name' = name /\ peer' = peer
  BY DEF FirstBlock
<1>2. ReadInv /\ OneInFlight /\ ClientInStep /\ InAgreement
  BY DEF SessionInv
<1>3. ReadInv'
  BY <1>2, FirstBlockKeepsReadInv
<1>4. PICK k : /\ last' = [last EXCEPT ![c] = k]
               /\ block' = [block EXCEPT ![c] = 1 + 1]
               /\ Exchange({}, {Dgram(port[c], peer[c], k)})
  BY <1>1, OneSegment, Zenon
<1>5. net' = (net \ Wire(c)) \cup {Dgram(port[c], Client, k)}
  <2>1. Wire(c) = {}
    BY <1>1, <1>2, Zenon DEF OneInFlight
  <2>2. net' = net \cup {Dgram(port[c], Client, k)}
    BY <1>4, NetworkAssumption, ChildAt DEF Exchange
  <2> QED
    BY <2>1, <2>2
<1>6. /\ pc'[c] = "readwait" /\ block'[c] = 2 /\ last'[c] = k
      /\ \A e \in Child : e # c => pc'[e] = pc[e] /\ block'[e] = block[e]
  BY <1>1, <1>4, ChildAt
<1>7. Latest(c)' = k
  <2>1. AtSegment(c)'
    BY <1>3, <1>6, Zenon DEF ReadInv, StreamInStep
  <2> QED
    BY <1>1, <1>6, <2>1, Zenon DEF Latest, AtSegment
<1>8. Agreeable(c)
  BY <1>1, <1>2, <1>6 DEF InAgreement, Agreeable
<1>9. \A e \in Child : peer'[e] = Client
  BY <1>1, ChildAt, Zenon
<1>10. OneInFlight' /\ InAgreement'
  BY <1>1, <1>5, <1>6, <1>7, <1>8, <1>9, ChildSendsOne
<1>11. ClientInStep'
  BY <1>1, <1>2, ClientUntouched, Zenon
<1> QED
  BY <1>3, <1>10, <1>11 DEF SessionInv

\* A receive times out: on a timely network nothing is under way any more.
LEMMA ReadTimeoutKeeps ==
    ASSUME SessionInv, NEW c \in Child, ReadTimeout(c), UNCHANGED clientVars
    PROVE  SessionInv'
<1>1. /\ pc[c] = "readwait" /\ Silence(c)
      /\ Exchange({}, {Dgram(port[c], peer[c], last[c])})
      /\ pc' = [pc EXCEPT ![c] = IF timeouts'[c] = MaxTimeouts
                                 THEN "timedout" ELSE pc[c]]
      /\ port' = port /\ files' = files /\ name' = name /\ peer' = peer
      /\ block' = block
  BY DEF ReadTimeout
<1>2. ReadInv /\ OneInFlight /\ ClientInStep /\ InAgreement
  BY DEF SessionInv
<1>3. ReadInv'
  BY <1>2, ReadTimeoutKeepsReadInv
<1>4. net' = (net \ Wire(c)) \cup {Dgram(port[c], Client, last[c])}
  <2>1. Wire(c) = {}
    BY <1>1, NetworkAssumption, Zenon DEF Silence, Wire
  <2>2. net' = net \cup {Dgram(port[c], Client, last[c])}
    BY <1>1, NetworkAssumption, ChildAt DEF Exchange
  <2> QED
    BY <2>1, <2>2
<1>5. /\ pc'[c] \in {"readwait", "timedout"}
      /\ \A e \in Child : e # c => pc'[e] = pc[e]
  BY <1>1, ChildAt
<1>6. Latest(c)' = last[c] /\ block[c] >= 2
  <2>1. AtSegment(c)
    BY <1>1, <1>2, Zenon DEF ReadInv, StreamInStep
  <2> QED
    BY <1>1, <2>1, Zenon DEF Latest, AtSegment
<1>7. Agreeable(c)
  BY <1>1, <1>2, <1>5 DEF InAgreement, Agreeable
<1>8. \A e \in Child : peer'[e] = Client
  BY <1>1, ChildAt, Zenon
<1>9. pc'[c] # "rrq"
  BY <1>5
<1>10. OneInFlight' /\ InAgreement'
  BY <1>1, <1>4, <1>5, <1>6, <1>7, <1>8, <1>9, ChildSendsOne
<1>11. ClientInStep'
  BY <1>1, <1>2, ClientUntouched, Zenon
<1> QED
  BY <1>3, <1>10, <1>11 DEF SessionInv

\* A datagram arrives at a child: it comes from the client, it is the only one
\* under way, and it answers the last segment.
LEMMA AnswerArrives ==
    ASSUME SessionInv, NEW c \in Child, NEW d \in net, d.dst = port[c]
    PROVE  /\ d.src = Client /\ Wire(c) = {d} /\ tid # None
           /\ port[c] = tid /\ cstate # "failed" => block[c] = expect
<1>1. OneInFlight /\ InAgreement
  BY DEF SessionInv
<1>2. port[c] # Client
  BY Ends, Zenon
<1>3. d.src = Client
  BY <1>1, <1>2, Zenon DEF OneInFlight
<1>4. d \in Wire(c) /\ \A e, f \in Wire(c) : e = f
  BY <1>1, Zenon DEF OneInFlight, Wire
<1>5. Wire(c) = {d}
  BY <1>4, Zenon
<1>6. tid # None /\ (port[c] = tid /\ cstate # "failed" => block[c] = expect)
  BY <1>1, Zenon DEF InAgreement
<1> QED
  BY <1>3, <1>5, <1>6

\* A datagram arrives at a child that waits for one.
LEMMA AnsweredKeeps ==
    ASSUME SessionInv, NEW c \in Child, NEW d \in net, Answered(c, d),
           UNCHANGED clientVars
    PROVE  SessionInv'
<1>1. /\ pc[c] = "readwait" /\ d.dst = port[c]
      /\ peer' = [peer EXCEPT ![c] = d.src]
      /\ port' = port /\ files' = files /\ name' = name
  BY DEF Answered, Arrives
<1>2. ReadInv /\ OneInFlight /\ ClientInStep /\ InAgreement
  BY DEF SessionInv
<1>3. ReadInv'
  BY <1>2, AnsweredKeepsReadInv
<1>4. /\ d.src = Client /\ Wire(c) = {d} /\ tid # None
      /\ port[c] = tid /\ cstate # "failed" => block[c] = expect
  BY <1>1, AnswerArrives, Zenon
<1>5. AtSegment(c)
  BY <1>1, <1>2, Zenon DEF ReadInv, StreamInStep
<1>6. name[c] \in DOMAIN files /\ block[c] >= 2 /\ Source = files[name[c]]
  BY <1>5, SourceServed, Zenon DEF AtSegment
<1>7. \A e \in Child : peer'[e] = Client
  BY <1>1, <1>4, ChildAt, Zenon
<1>8. port[c] = tid /\ cstate # "failed" => (cstate = "done" <=> done[c])
  <2>1. done[c] <=> Len(Source) < Off(block[c])
    BY <1>5, <1>6, Zenon DEF AtSegment
  <2> QED
    BY <1>2, <1>4, <2>1, Zenon DEF ClientInStep
<1>9. CASE /\ done[c]
           /\ pc' = [pc EXCEPT ![c] = "exited"]
           /\ Exchange({d}, {})
           /\ UNCHANGED <<block, last, pos, buf, done>>
  <2>1. net' \subseteq net /\ block' = block
    BY <1>9 DEF Exchange
  <2>2. pc[c] # "rrq"
    BY <1>1
  <2>3. \A e \in Child :
            \/ pc'[e] = pc[e]
            \/ /\ pc'[e] = "exited" /\ pc[e] # "rrq"
               /\ port[e] = tid /\ cstate # "failed" => cstate = "done"
    BY <1>8, <1>9, <2>2, ChildAt, Zenon
  <2>4. OneInFlight' /\ InAgreement' /\ ClientInStep'
    BY <1>1, <1>7, <2>1, <2>3, FewerInFlight, Zenon
  <2> QED
    BY <1>3, <2>4 DEF SessionInv
<1>10. CASE /\ ~done[c]
            /\ SendBlock(c, block[c], {d}, d.src)
            /\ UNCHANGED pc
  <2>1. PICK k : /\ last' = [last EXCEPT ![c] = k]
                 /\ block' = [block EXCEPT ![c] = block[c] + 1]
                 /\ Exchange({d}, {Dgram(port[c], d.src, k)})
    BY <1>10, OneSegment, Zenon
  <2>2. net' = (net \ Wire(c)) \cup {Dgram(port[c], Client, k)}
    BY <1>4, <2>1, NetworkAssumption, Zenon DEF Exchange
  <2>3. /\ pc'[c] = "readwait" /\ block'[c] = block[c] + 1 /\ last'[c] = k
        /\ \A e \in Child : e # c => pc'[e] = pc[e] /\ block'[e] = block[e]
    BY <1>1, <1>10, <2>1, ChildAt, Zenon
  <2>4. Latest(c)' = k
    <3>1. AtSegment(c)'
      BY <1>3, <2>3, Zenon DEF ReadInv, StreamInStep
    <3> QED
      BY <1>1, <1>6, <2>3, <3>1, Zenon DEF Latest, AtSegment
  <2>5. Agreeable(c)
    BY <1>4, <1>6, <1>8, <1>10, <2>3 DEF Agreeable
  <2>6. pc'[c] # "rrq" /\ block'[c] >= 2
    BY <1>6, <2>3, ChildAt
  <2>7. OneInFlight' /\ InAgreement'
    BY <1>1, <1>7, <2>2, <2>3, <2>4, <2>5, <2>6, ChildSendsOne
  <2>8. ClientInStep'
    BY <1>1, <1>2, ClientUntouched, Zenon
  <2> QED
    BY <1>3, <2>7, <2>8 DEF SessionInv
<1> QED
  BY <1>9, <1>10, Zenon DEF Answered

\* Fewer datagrams in flight change nothing for the children.
LEMMA LossKeepsReadInv ==
    ASSUME SessionInv, net' \subseteq net,
           UNCHANGED <<files, pc, port, peer, name, block, timeouts, last, pos,
                       buf, quiet, done>>
    PROVE  ReadInv'
<1>1. TypeOK /\ Sockets /\ Counts /\ StreamInStep /\ SegmentsExact
  BY DEF SessionInv, ReadInv
<1>2. TypeOK' /\ Sockets'
  BY <1>1, Zenon DEF TypeOK, ChildTypeOK, Sockets
<1>3. SegmentsExact'
  BY <1>1, Zenon DEF SegmentsExact
<1>4. Counts' /\ StreamInStep'
  BY <1>1, Zenon DEF Counts, StreamInStep, AtSegment
<1> QED
  BY <1>2, <1>3, <1>4 DEF ReadInv

\* The network loses a datagram.
LEMMA LoseKeeps ==
    ASSUME SessionInv, Lose
    PROVE  SessionInv'
<1>1. /\ port' = port /\ files' = files /\ name' = name /\ block' = block
      /\ pc' = pc /\ peer' = peer /\ UNCHANGED clientVars
      /\ UNCHANGED <<files, pc, port, peer, name, block, timeouts, last, pos,
                     buf, quiet, done>>
  BY DEF Lose
<1>2. PICK d \in net : net' = net \ {d}
  BY DEF Lose
<1>3. ReadInv'
  BY <1>1, <1>2, LossKeepsReadInv
<1>4. \A e \in Child : peer'[e] = Client
  BY <1>1, ChildAt, Zenon
<1>5. net' \subseteq net
  BY <1>2
<1>6. OneInFlight' /\ InAgreement' /\ ClientInStep'
  BY <1>1, <1>4, <1>5, FewerInFlight, Zenon
<1> QED
  BY <1>3, <1>6 DEF SessionInv

\* A datagram reaches the client: it is what a child sent last, and nothing else
\* is under way between the two.
LEMMA FromChild ==
    ASSUME SessionInv, NEW d \in net, d.dst = Client
    PROVE  \E c \in Child :
               /\ d.src = port[c] /\ Wire(c) = {d} /\ pc[c] # "rrq"
               /\ d.pkt = Latest(c)
               /\ name[c] \in DOMAIN files => block[c] >= 2
<1>1. OneInFlight
  BY DEF SessionInv
<1>2. PICK c \in Child : d.src = port[c]
  BY <1>1, Ends, Zenon DEF OneInFlight
<1>3. d \in Wire(c) /\ \A e, f \in Wire(c) : e = f
  BY <1>1, <1>2, Zenon DEF OneInFlight, Wire
<1>4. Wire(c) = {d}
  BY <1>3, Zenon
<1>5. pc[c] # "rrq" /\ d.pkt = Latest(c) /\ (name[c] \in DOMAIN files => block[c] >= 2)
  BY <1>1, <1>2, <1>3, Zenon DEF OneInFlight
<1> QED
  BY <1>2, <1>4, <1>5

\* The client's DATA packets are segments, its ERROR packets say "no file".
LEMMA WhatWasSent ==
    ASSUME NEW c \in Child
    PROVE  /\ Latest(c).op = 3 =>
                 /\ name[c] \in DOMAIN files
                 /\ Latest(c).block = Htons(block[c] - 1)
                 /\ Latest(c).data = Seg(files[name[c]], block[c] - 1)
           /\ Latest(c).op = 5 => name[c] \notin DOMAIN files
BY DEF Latest, Data, Err

\* The client answers the only datagram between it and child c, or takes it
\* without an answer: the children notice nothing.
LEMMA ClientAnswers ==
    ASSUME SessionInv, NEW c \in Child, NEW d \in net, Wire(c) = {d},
           d.src = port[c], d.dst = Client, pc[c] # "rrq",
           NEW x, x \in Datagram, x.src = Client, x.dst = port[c],
           net' = (net \ {d}) \cup {x} \/ net' = net \ {d},
           UNCHANGED <<files, pc, port, peer, name, block, timeouts, last, pos,
                       buf, quiet, done>>
    PROVE  /\ ReadInv' /\ OneInFlight'
           /\ \A e \in Child : e # c =>
                  \A y \in net' : y.dst = port[e] => y \in net
<1>1. /\ port' = port /\ files' = files /\ name' = name /\ block' = block
      /\ pc' = pc /\ peer' = peer
  OBVIOUS
<1>2. ReadInv /\ OneInFlight
  BY DEF SessionInv
<1>3. net' \subseteq net \cup {x} /\ d \notin net' \ {x}
  BY Zenon
<1>4. ReadInv'
  BY <1>2, <1>3, ReadSessionAssumption, OutsideKeepsReadInv, Zenon
<1>5. \A e \in Child : port[e] # Client /\ (e # c => port[e] # port[c])
  BY Ends, Zenon
<1>6. \A e \in Child : Latest(e)' = Latest(e)
  BY <1>1, Zenon DEF Latest
<1>7. \A e, f \in Child : peer'[e] = Client /\ name'[e] = name'[f]
  BY <1>1, <1>2, Zenon DEF OneInFlight
<1>8. \A y \in net' : \E e \in Child : \/ y.src = port'[e] /\ y.dst = Client
                                       \/ y.src = Client /\ y.dst = port'[e]
  <2>1. \A y \in net : \E e \in Child : \/ y.src = port[e] /\ y.dst = Client
                                        \/ y.src = Client /\ y.dst = port[e]
    BY <1>2, Zenon DEF OneInFlight
  <2>2. ASSUME NEW y \in net'
        PROVE  \E e \in Child : \/ y.src = port[e] /\ y.dst = Client
                                \/ y.src = Client /\ y.dst = port[e]
    <3>1. CASE y \in net
      BY <2>1, <3>1, Zenon
    <3>2. CASE y = x
      BY <3>2, Zenon
    <3> QED
      BY <1>3, <3>1, <3>2, Zenon
  <2> QED
    BY <1>1, <2>2, Zenon
<1>9. ASSUME NEW e \in Child
      PROVE  /\ pc'[e] = "rrq" => Wire(e)' = {}
             /\ \A y, z \in Wire(e)' : y = z
             /\ \A y \in Wire(e)' : y.src = port'[e] =>
                   /\ y.pkt = Latest(e)'
                   /\ name'[e] \in DOMAIN files' => block'[e] >= 2
  <2>1. CASE e = c
    <3>1. \A y \in Wire(c)' : y = x
      BY <1>1, <1>3, Zenon DEF Wire
    <3> QED
      BY <1>1, <1>5, <2>1, <3>1, Zenon
  <2>2. CASE e # c
    <3>1. Wire(e)' \subseteq Wire(e)
      BY <1>1, <1>3, <1>5, <2>2, Zenon DEF Wire
    <3>2. /\ pc[e] = "rrq" => Wire(e) = {}
          /\ \A y, z \in Wire(e) : y = z
          /\ \A y \in Wire(e) : y.src = port[e] =>
                /\ y.pkt = Latest(e)
                /\ name[e] \in DOMAIN files => block[e] >= 2
      BY <1>2, Zenon DEF OneInFlight
    <3> QED
      BY <1>1, <1>6, <3>1, <3>2, Zenon
  <2> QED
    BY <2>1, <2>2
<1>10. OneInFlight'
  BY <1>7, <1>8, <1>9, Zenon DEF OneInFlight
<1>11. \A e \in Child : e # c => \A y \in net' : y.dst = port[e] => y \in net
  BY <1>3, <1>5, Zenon
<1> QED
  BY <1>4, <1>10, <1>11

\* The packets the client answers with.
LEMMA Answers ==
    ASSUME NEW b \in Nat
    PROVE  Ack(b) \in Packet /\ Err(b) \in Packet
<1>1. <<>> \in Seq(Byte)
  OBVIOUS
<1> QED
  BY <1>1, Packets, Zenon

\* An answer of the client is a datagram.
LEMMA ClientDatagram ==
    ASSUME SessionInv, NEW c \in Child, NEW k \in Packet
    PROVE  \E x \in Datagram : /\ x = Dgram(Client, port[c], k)
                               /\ x.src = Client /\ x.dst = port[c]
<1>1. port[c] \in Port /\ Client \in Peer
  BY Ends, ReadSessionAssumption, Zenon
<1>2. PICK x : x = Dgram(Client, port[c], k)
  OBVIOUS
<1>3. x \in Datagram /\ x.src = Client /\ x.dst = port[c]
  BY <1>1, <1>2 DEF Dgram, Datagram
<1> QED
  BY <1>2, <1>3

\* A packet from a child the client does not deal with.
LEMMA RejectTidKeeps ==
    ASSUME SessionInv, NEW d \in net, RejectTid(d),
           UNCHANGED <<files, pc, port, peer, name, block, timeouts, last, pos,
                       buf, quiet, done>>
    PROVE  SessionInv'
<1>1. /\ d.dst = Client /\ tid # None /\ tid # d.src
      /\ net' = (net \ {d}) \cup {Dgram(Client, d.src, Err(5))}
      /\ UNCHANGED clientVars
  BY NetworkAssumption, Zenon DEF RejectTid, Receives, KnownTid, Reply, Exchange
<1>2. PICK c \in Child : /\ d.src = port[c] /\ Wire(c) = {d} /\ pc[c] # "rrq"
  BY <1>1, FromChild, Zenon
<1>3. PICK x \in Datagram : /\ x = Dgram(Client, port[c], Err(5))
                            /\ x.src = Client /\ x.dst = port[c]
  <2>1. Err(5) \in Packet
    BY Answers
  <2> QED
    BY <2>1, ClientDatagram, Zenon
<1>4. net' = (net \ {d}) \cup {x}
  BY <1>1, <1>2, <1>3, Zenon
<1>5. /\ ReadInv' /\ OneInFlight'
      /\ \A e \in Child : e # c =>
             \A y \in net' : y.dst = port[e] => y \in net
  BY <1>1, <1>2, <1>3, <1>4, ClientAnswers
<1>6. /\ port' = port /\ files' = files /\ name' = name /\ block' = block
      /\ pc' = pc
  OBVIOUS
<1>7. ClientInStep'
  BY <1>1, <1>6, ClientUntouched, Zenon DEF SessionInv
<1>8. InAgreement'
  <2>1. tid' = tid /\ cstate' = cstate /\ expect' = expect
    BY <1>1 DEF clientVars
  <2>2. InAgreement
    BY DEF SessionInv
  <2> QED
    BY <1>1, <1>2, <1>5, <1>6, <2>1, <2>2, Zenon DEF InAgreement
<1> QED
  BY <1>5, <1>7, <1>8 DEF SessionInv

\* An ERROR packet.
LEMMA TakeErrorKeeps ==
    ASSUME SessionInv, NEW d \in net, TakeError(d),
           UNCHANGED <<files, pc, port, peer, name, block, timeouts, last, pos,
                       buf, quiet, done>>
    PROVE  SessionInv'
<1>1. /\ d.dst = Client /\ d.pkt.op = 5 /\ net' = net \ {d}
      /\ cstate = "open" /\ cstate' = "failed" /\ tid' = d.src
      /\ copy' = copy /\ expect' = expect
  BY NetworkAssumption DEF TakeError, Receives, Exchange
<1>2. PICK c \in Child : /\ d.src = port[c] /\ Wire(c) = {d} /\ pc[c] # "rrq"
                         /\ d.pkt = Latest(c)
  BY <1>1, FromChild, Zenon
<1>3. name[c] \notin DOMAIN files
  BY <1>1, <1>2, WhatWasSent, Zenon
<1>4. PICK x \in Datagram : x.src = Client /\ x.dst = port[c]
  <2>1. Err(5) \in Packet
    BY Answers
  <2> QED
    BY <2>1, ClientDatagram, Zenon
<1>5. ReadInv' /\ OneInFlight'
  BY <1>1, <1>2, <1>4, ClientAnswers
<1>6. /\ port' = port /\ files' = files /\ name' = name /\ block' = block
      /\ pc' = pc
  OBVIOUS
<1>7. port[c] # None
  BY Ends, Zenon
<1>8. ClientInStep'
  <2>1. Source' = Source
    BY <1>6, SMT DEF Source
  <2>2. \A e \in Child : name[e] \notin DOMAIN files
    BY <1>3, Zenon DEF SessionInv, OneInFlight
  <2>3. "failed" # "done" /\ "failed" # "open" /\ "open" # "done"
    OBVIOUS
  <2> QED
    BY <1>1, <1>2, <1>6, <1>7, <2>1, <2>2, <2>3, Zenon DEF ClientInStep, SessionInv
<1>9. InAgreement'
  BY <1>1, <1>2, <1>6, <1>7, Zenon DEF InAgreement
<1> QED
  BY <1>5, <1>8, <1>9 DEF SessionInv

\* The segment before, again.
LEMMA TakeDuplicateKeeps ==
    ASSUME SessionInv, NEW d \in net, TakeDuplicate(d),
           UNCHANGED <<files, pc, port, peer, name, block, timeouts, last, pos,
                       buf, quiet, done>>
    PROVE  SessionInv'
<1>1. /\ d.dst = Client /\ tid = d.src
      /\ d.pkt.op = 3 /\ d.pkt.block = Htons(expect - 1)
      /\ net' = (net \ {d}) \cup {Dgram(Client, d.src, Ack(expect - 1))}
      /\ UNCHANGED clientVars
  BY NetworkAssumption, Zenon DEF TakeDuplicate, Receives, Reply, Exchange
<1>2. PICK c \in Child : /\ d.src = port[c] /\ Wire(c) = {d} /\ pc[c] # "rrq"
                         /\ d.pkt = Latest(c)
  BY <1>1, FromChild, Zenon
<1>3. expect \in Nat /\ expect - 1 \in Nat /\ block[c] \in Nat
  BY ChildAt DEF SessionInv, ClientInStep
<1>4. PICK x \in Datagram : /\ x = Dgram(Client, port[c], Ack(expect - 1))
                            /\ x.src = Client /\ x.dst = port[c]
  <2>1. Ack(expect - 1) \in Packet
    BY <1>3, Answers
  <2> QED
    BY <2>1, ClientDatagram, Zenon
<1>5. net' = (net \ {d}) \cup {x}
  BY <1>1, <1>2, <1>4, Zenon
<1>6. /\ ReadInv' /\ OneInFlight'
      /\ \A e \in Child : e # c =>
             \A y \in net' : y.dst = port[e] => y \in net
  BY <1>1, <1>2, <1>4, <1>5, ClientAnswers
<1>7. /\ port' = port /\ files' = files /\ name' = name /\ block' = block
      /\ pc' = pc
  OBVIOUS
<1>8. ClientInStep'
  BY <1>1, <1>7, ClientUntouched, Zenon DEF SessionInv
<1>9. block[c] = expect
  <2>1. name[c] \in DOMAIN files /\ Htons(block[c] - 1) = Htons(expect - 1)
    BY <1>1, <1>2, WhatWasSent, Zenon
  <2>2. cstate # "failed" /\ block[c] \in {expect, expect + 1}
    BY <1>1, <1>2, <2>1, Zenon DEF SessionInv, ClientInStep, InAgreement
  <2>3. Htons(expect - 1) # Htons((expect - 1) + 1)
    BY <1>3, NetworkAssumption, HtonsDiffers
  <2>4. (expect - 1) + 1 = (expect + 1) - 1
    BY <1>3
  <2> QED
    BY <2>1, <2>2, <2>3, <2>4, Zenon
<1>10. InAgreement'
  <2>1. tid' = tid /\ cstate' = cstate /\ expect' = expect
    BY <1>1 DEF clientVars
  <2>2. InAgreement
    BY DEF SessionInv
  <2>3. tid # None /\ \A e \in Child : port[e] = tid => e = c
    BY <1>1, <1>2, Ends, Zenon
  <2> QED
    BY <1>7, <1>9, <2>1, <2>2, <2>3, Zenon DEF InAgreement
<1> QED
  BY <1>6, <1>8, <1>10 DEF SessionInv

\* The client's next segment: a child that has sent segment expect, and what the
\* client holds once it has appended that segment.
NextTaken(c, d) ==
    /\ d.src = port[c] /\ Wire(c) = {d} /\ pc[c] # "rrq"
    /\ name[c] \in DOMAIN files
    /\ block[c] = expect + 1
    /\ Off(expect) \in Nat /\ Off(expect) <= Len(Source)
    /\ Off(expect + 1) = Off(expect) + Segment
    /\ Len(copy) = Off(expect)
    /\ copy' = SubSeq(Source, 1, Least(Off(expect + 1), Len(Source)))
    /\ Len(d.pkt.data) < Segment <=> Len(Source) < Off(expect + 1)

\* A DATA packet that carries the expected number holds the expected segment.
LEMMA TakesNext ==
    ASSUME SessionInv, NEW d \in net, TakeData(d)
    PROVE  \E c \in Child : NextTaken(c, d)
<1>1. /\ d.dst = Client /\ tid \in {None, d.src}
      /\ d.pkt.op = 3 /\ d.pkt.block = Htons(expect)
      /\ cstate = "open" /\ copy' = copy \o d.pkt.data
  BY DEF TakeData, Receives, KnownTid
<1>2. PICK c \in Child : /\ d.src = port[c] /\ Wire(c) = {d} /\ pc[c] # "rrq"
                         /\ d.pkt = Latest(c)
                         /\ name[c] \in DOMAIN files => block[c] >= 2
  BY <1>1, FromChild, Zenon
<1>3. /\ name[c] \in DOMAIN files
      /\ d.pkt.block = Htons(block[c] - 1)
      /\ d.pkt.data = Seg(files[name[c]], block[c] - 1)
  BY <1>1, <1>2, WhatWasSent, Zenon
<1>4. /\ expect \in Nat /\ expect >= 1 /\ block[c] \in Nat
      /\ copy = SubSeq(Source, 1, Least(Off(expect), Len(Source)))
      /\ cstate = "done" <=> Len(Source) < Off(expect)
      /\ tid = None => expect = 1
  BY ChildAt DEF SessionInv, ClientInStep
<1>5. Source = files[name[c]] /\ Source \in Seq(Byte) /\ Len(Source) \in Nat
  BY <1>3, SourceServed, Zenon
<1>6. block[c] = expect + 1
  <2>1. CASE tid = None
    <3>1. block[c] <= 2 /\ block[c] >= 2 /\ expect = 1
      BY <1>2, <1>3, <1>4, <2>1, Zenon DEF SessionInv, InAgreement
    <3> QED
      BY <1>4, <3>1
  <2>2. CASE tid = port[c]
    <3>1. block[c] \in {expect, expect + 1}
      BY <1>1, <2>2 DEF SessionInv, InAgreement
    <3>2. expect - 1 \in Nat /\ (expect - 1) + 1 = expect
      BY <1>4
    <3>3. Htons(expect - 1) # Htons(expect)
      BY <3>2, NetworkAssumption, HtonsDiffers
    <3> QED
      BY <1>1, <1>3, <3>1, <3>3, Zenon
  <2> QED
    BY <1>1, <1>2, <2>1, <2>2, Zenon
<1>7. Off(expect) \in Nat /\ Off(expect + 1) = Off(expect) + Segment
  BY <1>4, Offsets
<1>8. Segment \in Nat \ {0}
  BY TftpAssumption
<1>9. PICK p \in Nat, q \in Nat :
          /\ p = Off(expect) /\ q = Least(Off(expect + 1), Len(Source))
          /\ p <= q /\ q <= Len(Source) /\ p <= Len(Source)
          /\ q - p < Segment <=> Len(Source) < Off(expect + 1)
  <2>1. ~(Len(Source) < Off(expect))
    BY <1>1, <1>4
  <2> QED
    BY <1>5, <1>7, <1>8, <2>1 DEF Least
<1>10. copy = SubSeq(Source, 1, p)
  <2>1. Least(Off(expect), Len(Source)) = p
    BY <1>9 DEF Least
  <2> QED
    BY <1>4, <2>1, Zenon
<1>11. d.pkt.data = SubSeq(Source, p + 1, q)
  <2>1. block[c] - 1 = expect
    BY <1>4, <1>6
  <2> QED
    BY <1>3, <1>5, <1>9, <2>1, Zenon DEF Seg
<1>12. Len(d.pkt.data) = q - p
  BY <1>5, <1>9, <1>11, Piece
<1>13. Len(copy) = p
  <2>1. 0 <= p /\ 0 + 1 = 1 /\ p - 0 = p /\ 0 \in Nat
    OBVIOUS
  <2>2. Len(SubSeq(Source, 0 + 1, p)) = p - 0
    BY <1>5, <1>9, <2>1, Piece
  <2> QED
    BY <1>10, <2>1, <2>2, Zenon
<1>14. copy' = SubSeq(Source, 1, q)
  <2>1. /\ 1 \in 1..(Len(Source) + 1)
        /\ p \in (1 - 1)..Len(Source)
        /\ q \in p..Len(Source)
    BY <1>5, <1>9
  <2>2. SubSeq(Source, 1, p) \o SubSeq(Source, p + 1, q) = SubSeq(Source, 1, q)
    BY <1>5, <2>1, ConcatAdjacentSubSeq
  <2> QED
    BY <1>1, <1>10, <1>11, <2>2, Zenon
<1>15. NextTaken(c, d)
  BY <1>2, <1>3, <1>6, <1>7, <1>9, <1>12, <1>13, <1>14, Zenon DEF NextTaken
<1> QED
  BY <1>15

\* The next segment.
LEMMA TakeDataKeeps ==
    ASSUME SessionInv, NEW d \in net, TakeData(d),
           UNCHANGED <<files, pc, port, peer, name, block, timeouts, last, pos,
                       buf, quiet, done>>
    PROVE  SessionInv'
<1>1. /\ d.dst = Client /\ cstate = "open"
      /\ net' = (net \ {d}) \cup {Dgram(Client, d.src, Ack(expect))}
      /\ expect' = expect + 1 /\ tid' = d.src
      /\ cstate' = IF Len(d.pkt.data) < Segment THEN "done" ELSE cstate
  BY NetworkAssumption, Zenon DEF TakeData, Receives, Reply, Exchange
<1>2. PICK c \in Child : NextTaken(c, d)
  BY TakesNext, Zenon
<1>3. /\ d.src = port[c] /\ Wire(c) = {d} /\ pc[c] # "rrq"
      /\ name[c] \in DOMAIN files
      /\ block[c] = expect + 1
      /\ copy' = SubSeq(Source, 1, Least(Off(expect + 1), Len(Source)))
      /\ Len(d.pkt.data) < Segment <=> Len(Source) < Off(expect + 1)
  BY <1>2, Zenon DEF NextTaken
<1>4. expect \in Nat /\ expect + 1 \in Nat \ {0}
  BY DEF SessionInv, ClientInStep
<1>5. PICK x \in Datagram : /\ x = Dgram(Client, port[c], Ack(expect))
                            /\ x.src = Client /\ x.dst = port[c]
  <2>1. Ack(expect) \in Packet
    BY <1>4, Answers
  <2> QED
    BY <2>1, ClientDatagram, Zenon
<1>6. net' = (net \ {d}) \cup {x}
  BY <1>1, <1>3, <1>5, Zenon
<1>7. /\ ReadInv' /\ OneInFlight'
      /\ \A e \in Child : e # c =>
             \A y \in net' : y.dst = port[e] => y \in net
  BY <1>1, <1>3, <1>5, <1>6, ClientAnswers
<1>8. /\ port' = port /\ files' = files /\ name' = name /\ block' = block
      /\ pc' = pc
  OBVIOUS
<1>9. Source' = Source
  BY <1>8, SMT DEF Source
<1>10. /\ cstate' \in {"open", "done"}
       /\ cstate' = "done" <=> Len(Source) < Off(expect + 1)
  BY <1>1, <1>3
<1>11. cstate' # "failed" /\ port[c] # None
  BY <1>10, Ends
<1>12. ClientInStep'
  BY <1>1, <1>3, <1>4, <1>8, <1>9, <1>10, <1>11 DEF ClientInStep
<1>13. InAgreement'
  <2>1. \A e \in Child : port[e] = tid' => e = c
    BY <1>1, <1>3, Ends, Zenon
  <2>2. pc[c] = "exited" => cstate' = "done"
    <3>1. pc[c] = "exited" => Len(files[name[c]]) < Off(block[c])
      BY <1>3, Zenon DEF SessionInv, ReadInv, StreamInStep, AtSegment
    <3> QED
      BY <1>3, <1>10, <3>1, SourceServed, Zenon
  <2> QED
    BY <1>1, <1>3, <1>8, <1>11, <2>1, <2>2, Zenon DEF InAgreement
<1> QED
  BY <1>7, <1>12, <1>13 DEF SessionInv

\* At first nothing is under way and the client has nothing.
LEMMA InitSessionInv ==
    ASSUME SessionInit PROVE SessionInv
<1>1. /\ net = {} /\ pc = [c \in Child |-> "rrq"] /\ block = [c \in Child |-> 0]
      /\ copy = <<>> /\ expect = 1 /\ tid = None /\ cstate = "open"
      /\ \A c, e \in Child : peer[c] = Client /\ name[c] = name[e]
  BY DEF SessionInit, Init, ChildInit
<1>2. ReadInv
  BY InitReadInv DEF SessionInit
<1>3. OneInFlight
  BY <1>1, Zenon DEF OneInFlight, Wire
<1>4. ClientInStep
  <2>1. Off(1) = 0
    BY TftpAssumption DEF Off
  <2>2. Source \in Seq(Byte) /\ Len(Source) \in Nat
    <3>1. Source = <<>> \/ \E n \in DOMAIN files : Source = files[n]
      <4>1. PICK n : n = name[CHOOSE c \in Child : TRUE]
        OBVIOUS
      <4>2. Source = IF n \in DOMAIN files THEN files[n] ELSE <<>>
        BY <4>1, SMT DEF Source
      <4> QED
        BY <4>2, Zenon
    <3>2. \A n \in DOMAIN files : files[n] \in Seq(Byte)
      BY <1>2 DEF ReadInv, TypeOK, ChildTypeOK
    <3>3. <<>> \in Seq(Byte)
      OBVIOUS
    <3>4. Source \in Seq(Byte)
      BY <3>1, <3>2, <3>3, Zenon
    <3> QED
      BY <3>4, LenProperties
  <2>3. Least(0, Len(Source)) = 0 /\ ~(Len(Source) < 0)
    BY <2>2 DEF Least
  <2>4. SubSeq(Source, 1, 0) = <<>>
    BY <2>2, SubSeqEmpty
  <2> QED
    BY <1>1, <2>1, <2>3, <2>4 DEF ClientInStep
<1>5. InAgreement
  <2>1. \A c \in Child : block[c] <= 2
    BY <1>1
  <2>2. \A c \in Child : port[c] # None
    BY <1>2, ReadSessionAssumption, Zenon DEF ReadInv, TypeOK, ChildTypeOK
  <2> QED
    BY <1>1, <2>1, <2>2, Zenon DEF InAgreement
<1> QED
  BY <1>2, <1>3, <1>4, <1>5 DEF SessionInv

\* Nothing happens.
LEMMA StutterKeeps ==
    ASSUME SessionInv, UNCHANGED sessionVars
    PROVE  SessionInv'
<1>1. UNCHANGED vars /\ UNCHANGED clientVars
  BY DEF sessionVars
<1>2. /\ UNCHANGED <<files, pc, port, peer, name, block, timeouts, last, pos,
                     buf, quiet, done>>
      /\ net' = net
      /\ port' = port /\ files' = files /\ name' = name /\ block' = block
      /\ pc' = pc /\ peer' = peer
  BY <1>1 DEF vars, childVars
<1>3. ReadInv'
  BY <1>2, LossKeepsReadInv
<1>4. \A e \in Child : peer'[e] = Client
  BY <1>2, ChildAt, Zenon
<1>5. OneInFlight' /\ InAgreement' /\ ClientInStep'
  BY <1>1, <1>2, <1>4, FewerInFlight, Zenon
<1> QED
  BY <1>3, <1>5 DEF SessionInv

\* Whatever happens next, the session stays in step.
LEMMA StepKeeps ==
    ASSUME SessionInv, [SessionNext]_sessionVars
    PROVE  SessionInv'
<1>1. ASSUME ClientStep PROVE SessionInv'
  <2>1. UNCHANGED <<files, pc, port, peer, name, block, timeouts, last, pos,
                    buf, quiet, done>>
    BY <1>1 DEF ClientStep
  <2> QED
    BY <1>1, <2>1, TakeDataKeeps, TakeDuplicateKeeps, RejectTidKeeps,
       TakeErrorKeeps, Zenon DEF ClientStep
<1>2. ASSUME NEW c \in Child, Serve(c) PROVE SessionInv'
  <2>1. ReadStep(c) /\ UNCHANGED clientVars
    BY <1>2 DEF Serve
  <2> QED
    BY <2>1, NoSuchFileKeeps, FirstBlockKeeps, AnsweredKeeps, ReadTimeoutKeeps,
       Zenon DEF ReadStep
<1> QED
  BY <1>1, <1>2, LoseKeeps, StutterKeeps, Zenon DEF SessionNext

\* A download stays in step for ever: stop and wait with one datagram under way,
\* the client a prefix of the file ahead, the child at the segment the client
\* waits for or at the one before.
THEOREM SessionInvariant == SessionSpec => []SessionInv
<1>1. SessionInit => SessionInv
  BY InitSessionInv
<1>2. SessionInv /\ [SessionNext]_sessionVars => SessionInv'
  BY StepKeeps
<1> QED
  BY <1>1, <1>2, PTL DEF SessionSpec

\* The child and the client mean the same segment although block numbers on the
\* wire wrap, for files of any length and any number of losses.
THEOREM StaysInLockstep == SessionSpec => []Lockstep
<1>1. SessionInv => Lockstep
  <2> SUFFICES ASSUME SessionInv, NEW c \in Child, port[c] = tid,
                      cstate # "failed"
               PROVE  block[c] - 1 \in {expect - 1, expect}
    BY DEF Lockstep
  <2>1. block[c] \in {expect, expect + 1} /\ expect \in Nat
    BY DEF SessionInv, InAgreement, ClientInStep
  <2> QED
    BY <2>1
<1> QED
  BY <1>1, SessionInvariant, PTL

\* A child that exits has been answered to its last segment by a client that has
\* the whole file.
THEOREM ExitsWhenDelivered == SessionSpec => []ExitMeansDelivered
<1>1. SessionInv => ExitMeansDelivered
  <2> SUFFICES ASSUME SessionInv, NEW c \in Child, pc[c] = "exited",
                      port[c] = tid, name[c] \in DOMAIN files
               PROVE  cstate = "done"
    BY DEF ExitMeansDelivered
  <2> QED
    BY Zenon DEF SessionInv, InAgreement, ClientInStep
<1> QED
  BY <1>1, SessionInvariant, PTL

\* What the client holds grows by one segment of the file at a time, and it takes
\* the transfer for complete when a short segment has followed all full ones:
\* every step of a download is a step of FileCopy or leaves its state alone.
THEOREM DownloadCopiesFile == SessionSpec => RefinesFileCopy
<1>1. SessionInit => Copying!Init
  BY DEF SessionInit, Copying!Init
<1>2. SessionInv /\ [SessionNext]_sessionVars
        => [Copying!Deliver]_Copying!copyVars
  <2> SUFFICES ASSUME SessionInv, [SessionNext]_sessionVars
               PROVE  Copying!Deliver \/ UNCHANGED Copying!copyVars
    OBVIOUS
  <2>1. ASSUME files' = files, name' = name PROVE Source' = Source
    BY <2>1, SMT DEF Source
  <2>2. ASSUME NEW d \in net, TakeData(d), files' = files, name' = name
        PROVE  Copying!Deliver
    <3>1. /\ cstate = "open"
          /\ cstate' = IF Len(d.pkt.data) < Segment THEN "done" ELSE cstate
      BY <2>2 DEF TakeData
    <3>2. PICK c \in Child : NextTaken(c, d)
      BY <2>2, TakesNext, Zenon
    <3>3. /\ Len(copy) + Segment = Off(expect + 1)
          /\ copy' = SubSeq(Source, 1, Least(Off(expect + 1), Len(Source)))
          /\ Len(d.pkt.data) < Segment <=> Len(Source) < Off(expect + 1)
          /\ name[c] \in DOMAIN files
          /\ Off(expect + 1) = Off(expect) + Segment /\ Off(expect) \in Nat
      BY <3>2, Zenon DEF NextTaken
    <3>4. Len(Source) \in Nat /\ Segment \in Nat
      BY <3>3, SourceServed, TftpAssumption
    <3>5. (cstate' = "done") = (Off(expect + 1) > Len(Source))
      BY <3>1, <3>3, <3>4
    <3> QED
      BY <2>1, <2>2, <3>1, <3>3, <3>5 DEF Copying!Deliver, Least
  <2>3. ASSUME files' = files, name' = name, copy' = copy,
               (cstate' = "done") = (cstate = "done")
        PROVE  UNCHANGED Copying!copyVars
    BY <2>1, <2>3, Zenon DEF Copying!copyVars
  <2>4. CASE ClientStep
    <3>1. PICK d \in net : \/ TakeData(d) \/ TakeDuplicate(d)
                           \/ RejectTid(d) \/ TakeError(d)
      BY <2>4 DEF ClientStep
    <3>2. files' = files /\ name' = name
      BY <2>4 DEF ClientStep
    <3>3. CASE TakeData(d)
      BY <2>2, <3>2, <3>3
    <3>4. CASE ~TakeData(d)
      <4>1. copy' = copy /\ (cstate' = "done") = (cstate = "done")
        BY <3>1, <3>4 DEF TakeDuplicate, RejectTid, TakeError, clientVars
      <4> QED
        BY <2>3, <3>2, <4>1
    <3> QED
      BY <3>3, <3>4
  <2>5. CASE ~ClientStep
    <3>1. files' = files /\ name' = name /\ copy' = copy /\ cstate' = cstate
      BY <2>5 DEF SessionNext, Lose, Serve, ReadStep, NoSuchFile, FirstBlock,
         Answered, ReadTimeout, clientVars, sessionVars, vars, childVars
    <3> QED
      BY <2>3, <3>1
  <2> QED
    BY <2>4, <2>5
<1> QED
  BY <1>1, <1>2, SessionInvariant, PTL DEF SessionSpec, RefinesFileCopy, Copying!Spec
============================================================================
