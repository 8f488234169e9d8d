-------------------------- MODULE GuessWordProofs --------------------------
(***************************************************************************)
(* Proofs about the word-guessing game for any number of clients and slots,*)
(* any dictionary and any lines the users type.                            *)
(***************************************************************************)
EXTENDS GuessWord, FiniteSetTheorems, TLAPS

\* Min finds the first of the slots or descriptors it is asked for.
LEMMA MinFound ==
  ASSUME NEW S, S \subseteq Nat, S # {}
  PROVE  Min(S) \in S
<1>1. \E x \in S : \A y \in S : ~(<<y, x>> \in OpToRel(<, Nat))
  BY NatLessThanWellFounded, WFMin, Zenon
<1>2. PICK x \in S : \A y \in S : ~(<<y, x>> \in OpToRel(<, Nat))
  BY <1>1
<1>3. ASSUME NEW y \in S PROVE x <= y
  <2>1. x \in Nat /\ y \in Nat
    OBVIOUS
  <2>2. ~(y < x)
    BY <1>2, <2>1 DEF OpToRel
  <2> QED
    BY <2>1, <2>2
<1> QED
  BY <1>3 DEF Min

\* The slots are counted.
LEMMA SlotsCounted ==
  ASSUME NEW S, S \subseteq Slot
  PROVE  /\ IsFiniteSet(S)
         /\ Cardinality(S) \in 0..NSlots
         /\ Cardinality(S) < NSlots => Slot \ S # {}
<1>1. NSlots \in Nat \ {0}
  BY GuessAssumption
<1>2. IsFiniteSet(Slot) /\ Cardinality(Slot) = NSlots
  BY <1>1, FS_Interval, SMT DEF Slot
<1>3. IsFiniteSet(S) /\ Cardinality(S) <= Cardinality(Slot)
  BY <1>2, FS_Subset, Zenon
<1>4. Cardinality(S) \in Nat
  BY <1>3, FS_CardinalityType, Zenon
<1>5. ASSUME Cardinality(S) < NSlots, Slot \ S = {}
      PROVE  FALSE
  <2>1. S = Slot
    BY <1>5, Zenon
  <2> QED
    BY <2>1, <1>1, <1>2, <1>5, SMT
<1> QED
  BY <1>1, <1>2, <1>3, <1>4, <1>5, SMT

\* The socket of a new client: with no username awaited, a descriptor is free.
LEMMA DescriptorFree ==
  ASSUME TableTypes, SlotTable, NoneLeaked, pc \in {"select", "accept", "slots"}
  PROVE  Min({g \in Fd : ~Open(g)}) \in {g \in Fd : ~Open(g)}
<1> DEFINE free == {g \in Fd : ~Open(g)}
<1>1. NSlots \in Nat \ {0}
  BY GuessAssumption
<1>2. SUFFICES free # {}
  <2>1. free \subseteq Nat
    BY <1>1, SMT DEF Fd
  <2> HIDE DEF free
  <2>2. Min(free) \in free
    BY <1>2, <2>1, MinFound, Zenon
  <2> QED
    BY <2>2 DEF free
<1>3. SUFFICES ASSUME \A f \in Fd : Open(f) PROVE FALSE
  BY Zenon DEF free
<1>4. pc \notin {"crashed", "killed"} /\ pc # "name"
  OBVIOUS
<1>5. \A f \in Fd : \E a \in Occupied : player_fds[a] = f
  BY <1>3, <1>4, Zenon DEF NoneLeaked
<1> DEFINE holder == [f \in Fd |-> CHOOSE a \in Occupied : player_fds[a] = f]
<1>6. \A f \in Fd : holder[f] \in Occupied /\ player_fds[holder[f]] = f
  BY <1>5, Zenon
<1>7. holder \in [Fd -> Occupied]
  BY <1>6, Zenon
<1> HIDE DEF holder
<1>8. Occupied \subseteq Slot
  BY Zenon DEF Occupied
<1>9. IsFiniteSet(Occupied) /\ Cardinality(Occupied) \in 0..NSlots
  BY <1>8, SlotsCounted, Zenon
<1>10. IsFiniteSet(Fd) /\ Cardinality(Fd) = NSlots + 1
  BY <1>1, FS_Interval, SMT DEF Fd
<1>11. Cardinality(Occupied) < Cardinality(Fd)
  BY <1>1, <1>9, <1>10, SMT
<1>12. \E f, g \in Fd : f # g /\ holder[f] = holder[g]
  BY <1>7, <1>9, <1>10, <1>11, FS_PigeonHole, Zenon
<1> QED
  BY <1>6, <1>12, Zenon

\* buffer[strlen(buffer) - 1] = '\0' leaves a string.
LEMMA ChopIsString ==
  ASSUME NEW line \in Lines \cup {<<>>}
  PROVE  Chop(line) \in Seq(Int)
<1>1. CASE line = <<>>
  BY <1>1 DEF Chop
<1>2. CASE line \in Lines
  <2>1. line \in Seq(Int) /\ line # <<>>
    BY <1>2, GuessAssumption, Zenon
  <2> QED
    BY <2>1 DEF Chop
<1> QED
  BY <1>1, <1>2

\* Every word get_secret can return is a string.
LEMMA DicIsStrings == dic \subseteq Seq(Int)
<1> SUFFICES ASSUME NEW line \in Dictionary PROVE get_secret(line) \in Seq(Int)
  BY Zenon DEF dic
<1>1. line \in Seq(Int)
  BY GuessAssumption, Zenon
<1>2. PICK ends : ends = {i \in 1..Len(line) : line[i] < Zero}
  OBVIOUS
<1>3. CASE ends = {}
  BY <1>1, <1>2, <1>3 DEF get_secret
<1>4. CASE ends # {}
  <2>1. ends \subseteq 1..Len(line) /\ ends \subseteq Nat
    BY <1>1, <1>2
  <2>2. Min(ends) \in 1..Len(line)
    BY <1>4, <2>1, MinFound, Zenon
  <2>3. SubSeq(line, 1, Min(ends) - 1) \in Seq(Int)
    BY <1>1, <2>2
  <2> QED
    BY <1>2, <1>4, <2>3 DEF get_secret
<1> QED
  BY <1>3, <1>4

----------------------------------------------------------------------------
\* Initially no slot is taken and no descriptor is open.
LEMMA GuessInit == Init => GuessInv
<1> SUFFICES ASSUME Init PROVE GuessInv
  OBVIOUS
<1>1. NSlots \in Nat \ {0} /\ NClients \in Nat \ {0}
  BY GuessAssumption
<1>2. TableTypes
  <2>1. secret \in Seq(Int)
    BY DicIsStrings, Zenon DEF Init
  <2> QED
    BY <1>1, <2>1, SMT DEF Init, TableTypes
<1>3. Occupied = {} /\ Named = {}
  BY DEF Init, Occupied, Named
<1>4. SlotTable
  <2>1. Cardinality(Occupied) = 0
    BY <1>3, FS_EmptySet, Zenon
  <2>2. \A a \in Slot : slot_available[a] <=> player_fds[a] = -1
    BY Zenon DEF Init
  <2>3. player_count = Cardinality(Occupied) + IF pc = "name" THEN 1 ELSE 0
    BY <2>1, SMT DEF Init
  <2> QED
    BY <1>3, <2>2, <2>3, Zenon DEF SlotTable
<1>5. NoneLeaked
  <2>1. player_count <= NSlots
    BY <1>1, SMT DEF Init
  <2>2. \A f \in Fd : ~Open(f)
    BY <1>1, SMT DEF Init, Open, Fd, Listen
  <2>3. pc # "name"
    BY DEF Init
  <2> QED
    BY <2>1, <2>2, <2>3, Zenon DEF NoneLeaked
<1>6. UniqueNames /\ KnowsLength
  BY <1>3, Zenon DEF UniqueNames, KnowsLength
<1> QED
  BY <1>2, <1>4, <1>5, <1>6, Zenon DEF GuessInv

----------------------------------------------------------------------------
\* Steps that leave the table, the descriptors and the word alone: what clients do,
\* select, the end of the loop, guesses that are not the word and the search for
\* another username.
LEMMA TableLeft ==
  ASSUME GuessInv,
         player_fds' = player_fds, slot_available' = slot_available,
         has_username' = has_username, usernames' = usernames,
         player_count' = player_count, connfd' = connfd, conn' = conn,
         secret' = secret, told' = told, backlog' \in Seq(Client),
         \/ pc' = pc
         \/ /\ pc \in {"select", "accept", "slots"}
            /\ pc' \in {"select", "accept", "slots", "hung", "crashed", "killed"}
         \/ pc = "name" /\ pc' = "crashed"
  PROVE  GuessInv'
<1>1. TableTypes'
  BY DEF GuessInv, TableTypes
<1>2. Occupied' = Occupied /\ Named' = Named
  BY DEF Occupied, Named
<1>3. \A f : Open(f)' <=> Open(f)
  BY DEF Open
<1>4. \/ pc' = pc
      \/ pc \notin {"name", "crashed", "killed"} /\ pc' # "name"
      \/ pc = "name" /\ pc' = "crashed"
  OBVIOUS
<1>5. pc \in {"crashed", "killed"} => pc' \in {"crashed", "killed"}
  BY <1>4, Zenon
<1>6. SlotTable'
  BY <1>2, <1>3, <1>4, <1>5, Zenon DEF GuessInv, SlotTable
<1>7. NoneLeaked'
  BY <1>2, <1>3, <1>4, <1>5, Zenon DEF GuessInv, NoneLeaked
<1>8. UniqueNames' /\ KnowsLength'
  BY <1>2, <1>4, <1>5, Zenon DEF GuessInv, UniqueNames, KnowsLength
<1> QED
  BY <1>1, <1>6, <1>7, <1>8, Zenon DEF GuessInv

\* accept: the new client is counted and its descriptor open, but in no slot yet.
LEMMA AcceptKeeps == GuessInv /\ Accept => GuessInv'
<1> SUFFICES ASSUME GuessInv, Accept PROVE GuessInv'
  OBVIOUS
<1>a. PICK c : c = Head(backlog)
  OBVIOUS
<1>b. PICK f : f = Min({g \in Fd : ~Open(g)})
  OBVIOUS
<1>1. /\ TableTypes /\ SlotTable /\ NoneLeaked /\ UniqueNames /\ KnowsLength
      /\ pc = "accept" /\ pc \notin {"crashed", "killed"} /\ pc # "name"
  BY DEF GuessInv, Accept
<1>2. c \in Client /\ backlog' \in Seq(Client)
  BY <1>1, <1>a DEF Accept, TableTypes
<1>3. /\ player_fds' = player_fds /\ slot_available' = slot_available
      /\ has_username' = has_username /\ usernames' = usernames
      /\ secret' = secret /\ told' = told
  BY DEF Accept
<1>4. CASE player_count >= NSlots /\ pc' = "select"
           /\ player_count' = player_count /\ connfd' = connfd /\ conn' = conn
  BY <1>1, <1>2, <1>3, <1>4, TableLeft, Zenon
<1>5. CASE player_count < NSlots /\ player_count' = player_count + 1
           /\ connfd' = f /\ conn' = [conn EXCEPT ![f] = c] /\ pc' = "name"
  <2>1. NSlots \in Nat \ {0} /\ NoClient \notin Nat
    BY GuessAssumption
  <2>2. f \in Fd /\ ~Open(f)
    BY <1>1, <1>b, DescriptorFree, Zenon
  <2>3. f # Listen /\ f # -1 /\ Listen \notin Fd /\ -1 \notin Fd
    BY <2>1, <2>2, SMT DEF Fd, Listen
  <2>4. c # NoClient
    BY <1>2, <2>1, SMT DEF Client
  <2>5. TableTypes'
    BY <1>1, <1>2, <1>3, <1>5, <2>2 DEF TableTypes
  <2>6. Occupied' = Occupied /\ Named' = Named
    BY <1>3 DEF Occupied, Named
  <2>7. \A g \in Fd : (Open(g)' <=> g = f \/ Open(g)) /\ (g # f => conn'[g] = conn[g])
    BY <1>1, <1>5, <2>2, <2>3, <2>4, Zenon DEF Open, TableTypes
  <2>8. \A a \in Occupied : player_fds[a] \in Fd /\ Open(player_fds[a])
    <3>1. \A a \in Occupied : Open(player_fds[a]) /\ player_fds[a] # -1
      BY <1>1, Zenon DEF SlotTable, Occupied
    <3> QED
      BY <1>1, <3>1, Zenon DEF TableTypes, Occupied
  <2>9. SlotTable'
    <3>1. player_count = Cardinality(Occupied)
      <4>1. Cardinality(Occupied) \in 0..NSlots
        BY SlotsCounted, Zenon DEF Occupied
      <4> QED
        BY <1>1, <2>1, <4>1, SMT DEF SlotTable
    <3>2. player_count' = Cardinality(Occupied') + IF pc' = "name" THEN 1 ELSE 0
      BY <1>5, <2>6, <3>1
    <3>3. \A a \in Occupied : Open(player_fds[a])'
      BY <1>3, <2>7, <2>8, Zenon
    <3> QED
      BY <1>1, <1>3, <2>6, <3>2, <3>3, Zenon DEF SlotTable
  <2>10. NoneLeaked'
    <3>1. player_count' <= NSlots
      BY <1>1, <1>5, <2>1, SMT DEF TableTypes
    <3>2. f # Listen /\ Open(f)'
      BY <2>2, <2>3, <2>7, Zenon
    <3>3. ASSUME NEW a \in Slot PROVE player_fds[a] # f
      <4>1. CASE a \in Occupied
        BY <4>1, <2>2, <2>8, Zenon
      <4>2. CASE a \notin Occupied
        BY <4>2, <1>1, <2>3, Zenon DEF SlotTable, Occupied
      <4> QED
        BY <4>1, <4>2
    <3>4. \A g \in Fd : Open(g)' => (\E a \in Occupied : player_fds[a] = g) \/ g = f
      BY <1>1, <2>7, Zenon DEF NoneLeaked
    <3> QED
      BY <1>3, <1>5, <2>6, <3>1, <3>2, <3>3, <3>4, Zenon DEF NoneLeaked
  <2>11. UniqueNames'
    BY <1>1, <1>3, <2>6, Zenon DEF UniqueNames
  <2>12. KnowsLength'
    <3>1. \A a \in Named : a \in Occupied
      BY <1>1, Zenon DEF SlotTable
    <3>2. \A a \in Named : conn'[player_fds[a]] = conn[player_fds[a]]
      BY <2>2, <2>7, <2>8, <3>1, Zenon
    <3> QED
      BY <1>1, <1>3, <2>6, <3>2, Zenon DEF KnowsLength
  <2> QED
    BY <2>5, <2>9, <2>10, <2>11, <2>12, Zenon DEF GuessInv
<1> QED
  BY <1>a, <1>b, <1>4, <1>5, Zenon DEF Accept

\* A new player takes the slot a, with the username name when it joins.
LEMMA WelcomeKeeps == GuessInv /\ Welcome => GuessInv'
<1> SUFFICES ASSUME GuessInv, Welcome PROVE GuessInv'
  OBVIOUS
<1>1. /\ TableTypes /\ SlotTable /\ NoneLeaked /\ UniqueNames /\ KnowsLength
      /\ pc = "name" /\ pc \notin {"crashed", "killed"} /\ pc # "killed"
  BY DEF GuessInv, Welcome
<1>2. /\ player_count' = player_count /\ connfd' = connfd /\ conn' = conn
      /\ backlog' = backlog /\ secret' = secret
  BY DEF Welcome
<1>3. backlog' \in Seq(Client)
  BY <1>1, <1>2, Zenon DEF TableTypes
<1>4. CASE pc' = "crashed" /\ player_fds' = player_fds /\ slot_available' = slot_available
           /\ has_username' = has_username /\ usernames' = usernames /\ told' = told
  BY <1>1, <1>2, <1>3, <1>4, TableLeft, Zenon
<1>5. ASSUME NEW line \in Lines \cup {<<>>}, NEW a, a = Min(Slot \ Occupied),
             NEW c, c = conn[connfd], NEW joins, joins = ~NameUsed(Chop(line)),
             slot_available' = [slot_available EXCEPT ![a] = FALSE],
             player_fds' = [player_fds EXCEPT ![a] = connfd],
             has_username' = [has_username EXCEPT ![a] = joins],
             joins => usernames' = [usernames EXCEPT ![a] = Chop(line)],
             ~joins => usernames' = usernames,
             told' = IF joins THEN [told EXCEPT ![c] = Len(secret)] ELSE told,
             pc' \in {"slots", "killed"}
      PROVE  GuessInv'
  <2>1. NSlots \in Nat \ {0} /\ NoClient \notin Nat
    BY GuessAssumption
  <2>2. Occupied \subseteq Slot
    BY Zenon DEF Occupied
  <2>3. Cardinality(Occupied) \in 0..NSlots /\ IsFiniteSet(Occupied)
    BY <2>2, SlotsCounted, Zenon
  <2>4. player_count = Cardinality(Occupied) + 1 /\ player_count <= NSlots
    BY <1>1, Zenon DEF SlotTable, NoneLeaked
  <2>5. a \in Slot /\ a \notin Occupied
    <3>1. Slot \ Occupied \subseteq Nat
      BY <2>1, SMT DEF Slot
    <3>2. Cardinality(Occupied) < NSlots
      BY <2>1, <2>3, <2>4, SMT
    <3>3. Slot \ Occupied # {}
      BY <2>2, <3>2, SlotsCounted, Zenon
    <3>4. Min(Slot \ Occupied) \in Slot \ Occupied
      BY <3>1, <3>3, MinFound, Zenon
    <3> QED
      BY <3>4, <1>5, Zenon
  <2>6. connfd \in Fd /\ connfd # Listen /\ connfd # -1 /\ conn[connfd] # NoClient
    <3>1. connfd # Listen /\ Open(connfd)
      BY <1>1, Zenon DEF NoneLeaked
    <3>2. connfd \in Fd
      BY <1>1, <3>1, Zenon DEF TableTypes
    <3>3. connfd # -1
      BY <2>1, <3>2, SMT DEF Fd
    <3> QED
      BY <3>1, <3>2, <3>3, Zenon DEF Open
  <2>7. c \in Client
    BY <1>1, <1>5, <2>6, Zenon DEF TableTypes
  <2>8. Chop(line) \in Seq(Int) /\ joins \in BOOLEAN
    BY <1>5, ChopIsString, Zenon DEF NameUsed
  <2>9. TableTypes'
    <3>1. player_fds' \in [Slot -> Fd \cup {-1}] /\ conn' \in [Fd -> Client \cup {NoClient}]
      BY <1>1, <1>2, <1>5, <2>5, <2>6, Zenon DEF TableTypes
    <3>2. slot_available' \in [Slot -> BOOLEAN] /\ has_username' \in [Slot -> BOOLEAN]
      BY <1>1, <1>5, <2>5, <2>8, Zenon DEF TableTypes
    <3>3. usernames' \in [Slot -> Seq(Int) \cup {Null}]
      <4>1. CASE joins
        BY <4>1, <1>1, <1>5, <2>5, <2>8, Zenon DEF TableTypes
      <4>2. CASE ~joins
        BY <4>2, <1>1, <1>5, Zenon DEF TableTypes
      <4> QED
        BY <4>1, <4>2
    <3>4. told' \in [Client -> Nat] /\ secret' \in Seq(Int)
      <4>1. Len(secret) \in Nat /\ secret' \in Seq(Int)
        BY <1>1, <1>2 DEF TableTypes
      <4> QED
        BY <1>1, <1>5, <2>7, <4>1, Zenon DEF TableTypes
    <3>5. pc' \in {"select", "accept", "name", "slots", "hung", "crashed", "killed"}
      BY <1>5
    <3> QED
      BY <1>1, <1>2, <1>3, <3>1, <3>2, <3>3, <3>4, <3>5, Zenon DEF TableTypes
  <2>10. \A b \in Slot : /\ b = a => /\ ~slot_available'[b] /\ player_fds'[b] = connfd
                                     /\ has_username'[b] = joins
                         /\ b # a => /\ slot_available'[b] = slot_available[b]
                                     /\ player_fds'[b] = player_fds[b]
                                     /\ has_username'[b] = has_username[b]
                                     /\ usernames'[b] = usernames[b]
    BY <1>1, <1>5, <2>5, Zenon DEF TableTypes
  <2>11. Occupied' = Occupied \cup {a}
    BY <2>5, <2>10, Zenon DEF Occupied
  <2>12. \A b \in Named' : b \in Slot /\ (b = a => joins) /\ (b # a => b \in Named)
    BY <2>10, Zenon DEF Named
  <2>13. Named \subseteq Occupied
    BY <1>1, Zenon DEF SlotTable
  <2>14. \A f : Open(f)' <=> Open(f)
    BY <1>2, Zenon DEF Open
  <2>15. \A b \in Slot : player_fds[b] # connfd
    BY <1>1, Zenon DEF NoneLeaked
  <2>16. pc' # "name"
    BY <1>5
  <2>17. SlotTable'
    <3>1. Cardinality(Occupied') = Cardinality(Occupied) + 1
      BY <2>3, <2>5, <2>11, FS_AddElement, Zenon
    <3>2. player_count' = Cardinality(Occupied') + IF pc' = "name" THEN 1 ELSE 0
      BY <1>2, <2>3, <2>4, <2>16, <3>1
    <3>3. \A b \in Slot : slot_available'[b] <=> player_fds'[b] = -1
      BY <1>1, <2>6, <2>10, Zenon DEF SlotTable
    <3>4. \A b, d \in Occupied' : player_fds'[b] = player_fds'[d] => b = d
      <4>1. \A b, d \in Occupied : player_fds[b] = player_fds[d] => b = d
        BY <1>1, Zenon DEF SlotTable
      <4>2. \A b \in Occupied : b \in Slot /\ b # a /\ player_fds'[b] = player_fds[b]
        BY <2>2, <2>5, <2>10, Zenon
      <4>3. player_fds'[a] = connfd
        BY <2>5, <2>10, Zenon
      <4>4. SUFFICES ASSUME NEW b \in Occupied \cup {a}, NEW d \in Occupied \cup {a},
                            player_fds'[b] = player_fds'[d]
                     PROVE  b = d
        BY <2>11, Zenon
      <4>5. CASE b \in Occupied /\ d \in Occupied
        BY <4>1, <4>2, <4>4, <4>5, Zenon
      <4>6. CASE b = a /\ d \in Occupied
        BY <2>15, <4>2, <4>3, <4>4, <4>6, Zenon
      <4>7. CASE d = a /\ b \in Occupied
        BY <2>15, <4>2, <4>3, <4>4, <4>7, Zenon
      <4> QED
        BY <4>4, <4>5, <4>6, <4>7, Zenon
    <3>5. \A b \in Occupied' : Open(player_fds[b])'
      <4>1. Open(connfd)
        BY <1>1, Zenon DEF NoneLeaked
      <4>2. \A b \in Occupied : Open(player_fds[b])
        BY <1>1, Zenon DEF SlotTable
      <4>3. \A b \in Occupied' : player_fds'[b] = connfd \/ (b \in Occupied /\ player_fds'[b] = player_fds[b])
        BY <2>2, <2>5, <2>10, <2>11, Zenon
      <4> QED
        BY <1>2, <4>1, <4>2, <4>3, Zenon DEF Open
    <3>6. Named' \subseteq Occupied'
      BY <2>11, <2>12, <2>13, Zenon
    <3> QED
      BY <3>2, <3>3, <3>4, <3>5, <3>6, Zenon DEF SlotTable
  <2>18. NoneLeaked'
    <3>1. player_count' <= NSlots
      BY <1>2, <2>4, Zenon
    <3>2. ASSUME NEW f \in Fd, Open(f) PROVE \E b \in Occupied' : player_fds'[b] = f
      <4>1. CASE \E b \in Occupied : player_fds[b] = f
        BY <4>1, <2>2, <2>5, <2>10, <2>11, Zenon
      <4>2. CASE f = connfd
        BY <4>2, <2>5, <2>10, <2>11, Zenon
      <4> QED
        BY <1>1, <3>2, <4>1, <4>2, Zenon DEF NoneLeaked
    <3> QED
      BY <1>2, <2>14, <2>16, <3>1, <3>2, Zenon DEF NoneLeaked
  <2>19. UniqueNames'
    <3>1. joins => usernames'[a] = Chop(line)
      BY <1>1, <1>5, <2>5, Zenon DEF TableTypes
    <3>2. joins => \A b \in Named : usernames[b] # Chop(line)
      BY <1>5, <2>13, Zenon DEF NameUsed
    <3>3. \A b \in Named : \A d \in Named : usernames[b] = usernames[d] => b = d
      BY <1>1, Zenon DEF UniqueNames
    <3>4. \A b \in Named' : b # a => b \in Named /\ usernames'[b] = usernames[b]
      BY <2>10, <2>12, Zenon
    <3>5. SUFFICES ASSUME NEW b \in Named', NEW d \in Named', usernames'[b] = usernames'[d]
                   PROVE  b = d
      BY Zenon DEF UniqueNames
    <3>6. CASE b = a /\ d # a
      BY <2>12, <3>1, <3>2, <3>4, <3>5, <3>6, Zenon
    <3>7. CASE d = a /\ b # a
      BY <2>12, <3>1, <3>2, <3>4, <3>5, <3>7, Zenon
    <3>8. CASE b # a /\ d # a
      BY <3>3, <3>4, <3>5, <3>8, Zenon
    <3> QED
      BY <3>6, <3>7, <3>8, Zenon
  <2>20. KnowsLength'
    <3>1. \A b \in Named : told[conn[player_fds[b]]] = Len(secret)
      BY <1>1, Zenon DEF KnowsLength
    <3>2. \A e \in Client : told[e] = Len(secret) \/ (joins /\ e = c) => told'[e] = Len(secret)
      BY <1>1, <1>5, <2>7, Zenon DEF TableTypes
    <3>3. \A b \in Named : conn[player_fds[b]] \in Client
      <4>1. \A b \in Named : player_fds[b] \in Fd /\ Open(player_fds[b]) /\ player_fds[b] # Listen
        <5>1. \A b \in Named : b \in Slot /\ player_fds[b] # -1 /\ Open(player_fds[b])
          BY <1>1, Zenon DEF SlotTable, Occupied
        <5>2. Listen \notin Fd
          BY SMT DEF Fd, Listen
        <5> QED
          BY <1>1, <5>1, <5>2, Zenon DEF TableTypes
      <4>2. \A b \in Named : conn[player_fds[b]] # NoClient
        BY <4>1, Zenon DEF Open
      <4>3. conn \in [Fd -> Client \cup {NoClient}]
        BY <1>1, Zenon DEF TableTypes
      <4> QED
        BY <4>1, <4>2, <4>3, Zenon
    <3>4. \A b \in Named' : told'[conn[player_fds'[b]]] = Len(secret)
      BY <1>5, <2>7, <2>10, <2>12, <3>1, <3>2, <3>3, Zenon
    <3> QED
      BY <1>2, <3>4, Zenon DEF KnowsLength
  <2> QED
    BY <2>9, <2>17, <2>18, <2>19, <2>20, Zenon DEF GuessInv
<1>6. PICK a, c : a = Min(Slot \ Occupied) /\ c = conn[connfd]
  OBVIOUS
<1>7. PICK line \in Lines \cup {<<>>} :
         \/ /\ pc' = "crashed"
            /\ player_fds' = player_fds /\ slot_available' = slot_available
            /\ has_username' = has_username /\ usernames' = usernames /\ told' = told
         \/ /\ slot_available' = [slot_available EXCEPT ![a] = FALSE]
            /\ player_fds' = [player_fds EXCEPT ![a] = connfd]
            /\ has_username' = [has_username EXCEPT ![a] = ~NameUsed(Chop(line))]
            /\ ~NameUsed(Chop(line)) => usernames' = [usernames EXCEPT ![a] = Chop(line)]
            /\ NameUsed(Chop(line)) => usernames' = usernames
            /\ told' = IF ~NameUsed(Chop(line)) THEN [told EXCEPT ![c] = Len(secret)] ELSE told
            /\ pc' \in {"slots", "killed"}
  BY <1>6, Zenon DEF Welcome
<1>8. PICK joins : joins = ~NameUsed(Chop(line))
  BY Zenon
<1>9. CASE pc' = "crashed"
  <2>1. pc' \notin {"slots", "killed"}
    BY <1>9
  <2> QED
    BY <1>4, <1>7, <1>9, <2>1, Zenon
<1>10. CASE pc' # "crashed"
  <2>1. has_username' = [has_username EXCEPT ![a] = joins]
    BY <1>7, <1>8, <1>10, Zenon
  <2>2. /\ joins => usernames' = [usernames EXCEPT ![a] = Chop(line)]
        /\ ~joins => usernames' = usernames
    BY <1>7, <1>8, <1>10, Zenon
  <2>3. /\ slot_available' = [slot_available EXCEPT ![a] = FALSE]
        /\ player_fds' = [player_fds EXCEPT ![a] = connfd]
        /\ pc' \in {"slots", "killed"}
    BY <1>7, <1>10, Zenon
  <2>4. told' = IF joins THEN [told EXCEPT ![c] = Len(secret)] ELSE told
    BY <1>7, <1>8, <1>10, Zenon
  <2> QED
    BY <1>5, <1>6, <1>8, <2>1, <2>2, <2>3, <2>4, Zenon
<1> QED
  BY <1>9, <1>10

----------------------------------------------------------------------------
\* The slots that are taken belong to descriptors with a client behind them.
LEMMA PlayersConnected ==
  ASSUME TableTypes, SlotTable, pc \notin {"crashed", "killed"}
  PROVE  /\ \A b \in Occupied : b \in Slot /\ player_fds[b] \in Fd
                                /\ conn[player_fds[b]] \in Client
         /\ Named \subseteq Occupied
<1>1. \A b \in Occupied : b \in Slot /\ player_fds[b] # -1 /\ Open(player_fds[b])
  BY Zenon DEF SlotTable, Occupied
<1>2. Listen \notin Fd
  BY SMT DEF Fd, Listen
<1>3. \A b \in Occupied : player_fds[b] \in Fd
  BY <1>1, Zenon DEF TableTypes
<1>4. \A b \in Occupied : conn[player_fds[b]] # NoClient
  BY <1>1, <1>2, <1>3, Zenon DEF Open
<1> QED
  BY <1>1, <1>3, <1>4, Zenon DEF TableTypes, SlotTable

\* Players leave their slots, and their descriptors are closed: those who disconnect,
\* and all that have a username when the game is over.
LEMMA PlayersLeave ==
  ASSUME GuessInv, pc = "slots", NEW L \in SUBSET Occupied,
         conn' = [f \in Fd |-> IF f \in {player_fds[b] : b \in L} THEN NoClient ELSE conn[f]],
         player_fds' = [b \in Slot |-> IF b \in L THEN -1 ELSE player_fds[b]],
         slot_available' = [b \in Slot |-> IF b \in L THEN TRUE ELSE slot_available[b]],
         has_username' = [b \in Slot |-> IF b \in L THEN FALSE ELSE has_username[b]],
         usernames' = usernames, player_count' = player_count - Cardinality(L),
         connfd' = connfd, backlog' = backlog,
         told' = told, secret' \in Seq(Int), secret' = secret \/ Named \subseteq L,
         pc' = pc \/ pc' = "killed"
  PROVE  GuessInv'
<1>1. /\ TableTypes /\ SlotTable /\ NoneLeaked /\ UniqueNames /\ KnowsLength
      /\ pc \notin {"crashed", "killed"} /\ pc # "name" /\ pc' # "name"
  BY DEF GuessInv
<1>2. NSlots \in Nat \ {0} /\ Listen \notin Fd
  BY GuessAssumption, SMT DEF Fd, Listen
<1>3. /\ \A b \in Occupied : b \in Slot /\ player_fds[b] \in Fd
      /\ Named \subseteq Occupied /\ Occupied \subseteq Slot
  BY <1>1, PlayersConnected, Zenon
<1>4. \A b, d \in Occupied : player_fds[b] = player_fds[d] => b = d
  BY <1>1, Zenon DEF SlotTable
<1>5. \A b \in Slot : /\ b \in L => /\ player_fds'[b] = -1 /\ slot_available'[b]
                                    /\ ~has_username'[b]
                      /\ b \notin L => /\ player_fds'[b] = player_fds[b]
                                       /\ slot_available'[b] = slot_available[b]
                                       /\ has_username'[b] = has_username[b]
  BY Zenon
<1>6. Occupied' = Occupied \ L
  BY <1>3, <1>5, Zenon DEF Occupied
<1>7. Named' = Named \ L
  BY <1>5, Zenon DEF Named
<1>8. \A b \in Occupied \ L : conn'[player_fds[b]] = conn[player_fds[b]]
  <2>1. \A b \in Occupied \ L : player_fds[b] \notin {player_fds[d] : d \in L}
    BY <1>4, Zenon
  <2> QED
    BY <1>3, <2>1, Zenon
<1>9. \A f \in Fd : conn'[f] # NoClient => conn[f] # NoClient /\ \A b \in L : player_fds[b] # f
  BY Zenon
<1>10. TableTypes'
  <2>1. conn' \in [Fd -> Client \cup {NoClient}] /\ player_fds' \in [Slot -> Fd \cup {-1}]
    BY <1>1, SMT DEF TableTypes
  <2>2. slot_available' \in [Slot -> BOOLEAN] /\ has_username' \in [Slot -> BOOLEAN]
    BY <1>1, Zenon DEF TableTypes
  <2>3. player_count' \in Int
    <3>1. Cardinality(L) \in 0..NSlots
      BY <1>3, SlotsCounted, Zenon
    <3> QED
      BY <1>1, <1>2, <3>1, SMT DEF TableTypes
  <2>4. pc' \in {"select", "accept", "name", "slots", "hung", "crashed", "killed"}
    OBVIOUS
  <2> QED
    BY <1>1, <2>1, <2>2, <2>3, <2>4, Zenon DEF TableTypes
<1>11. player_count' = Cardinality(Occupied') /\ player_count' <= NSlots
  <2>1. /\ IsFiniteSet(Occupied) /\ Cardinality(Occupied) \in 0..NSlots
        /\ Cardinality(L) \in 0..NSlots /\ Cardinality(Occupied \ L) \in 0..NSlots
    BY <1>3, SlotsCounted, Zenon
  <2>2. Cardinality(Occupied \ L) = Cardinality(Occupied) - Cardinality(Occupied \cap L)
    BY <2>1, FS_Difference, Zenon
  <2>3. Occupied \cap L = L
    BY Zenon
  <2>4. player_count = Cardinality(Occupied)
    BY <1>1, <1>2, <2>1, SMT DEF SlotTable
  <2>5. Cardinality(Occupied') = Cardinality(Occupied) - Cardinality(L)
    BY <1>6, <2>2, <2>3, Zenon
  <2> QED
    BY <1>2, <2>1, <2>4, <2>5, SMT
<1>12. SlotTable'
  <2>1. \A b \in Slot : slot_available'[b] <=> player_fds'[b] = -1
    BY <1>1, <1>5, Zenon DEF SlotTable
  <2>2. \A b, d \in Occupied' : player_fds'[b] = player_fds'[d] => b = d
    BY <1>3, <1>4, <1>5, <1>6, Zenon
  <2>3. \A b \in Occupied' : Open(player_fds[b])'
    <3>1. \A b \in Occupied : Open(player_fds[b])
      BY <1>1, Zenon DEF SlotTable
    <3> QED
      BY <1>2, <1>3, <1>5, <1>6, <1>8, <3>1, Zenon DEF Open
  <2>4. Named' \subseteq Occupied'
    BY <1>3, <1>6, <1>7, Zenon
  <2>5. player_count' = Cardinality(Occupied') + IF pc' = "name" THEN 1 ELSE 0
    <3>1. Cardinality(Occupied') \in 0..NSlots
      BY <1>3, <1>6, SlotsCounted, Zenon
    <3> QED
      BY <1>1, <1>2, <1>11, <3>1, SMT
  <2> QED
    BY <2>1, <2>2, <2>3, <2>4, <2>5, Zenon DEF SlotTable
<1>13. NoneLeaked'
  <2>1. ASSUME NEW f \in Fd, Open(f)' PROVE \E b \in Occupied' : player_fds'[b] = f
    <3>1. conn'[f] # NoClient
      BY <1>2, <2>1, Zenon DEF Open
    <3>2. Open(f) /\ \A b \in L : player_fds[b] # f
      BY <1>2, <1>9, <3>1, Zenon DEF Open
    <3>3. PICK b \in Occupied : player_fds[b] = f
      BY <1>1, <3>2, Zenon DEF NoneLeaked
    <3> QED
      BY <1>3, <1>5, <1>6, <3>2, <3>3, Zenon
  <2> QED
    BY <1>1, <1>11, <2>1, Zenon DEF NoneLeaked
<1>14. UniqueNames'
  BY <1>1, <1>7, Zenon DEF UniqueNames
<1>15. KnowsLength'
  <2>1. \A b \in Named \ L : player_fds'[b] = player_fds[b] /\ conn'[player_fds[b]] = conn[player_fds[b]]
    BY <1>3, <1>5, <1>8, Zenon
  <2>2. ASSUME NEW b \in Named' PROVE told'[conn'[player_fds'[b]]] = Len(secret')
    <3>1. b \in Named /\ b \in Named \ L
      BY <1>7, Zenon
    <3>2. secret' = secret
      BY <3>1, Zenon
    <3>3. told[conn[player_fds[b]]] = Len(secret)
      BY <1>1, <3>1, Zenon DEF KnowsLength
    <3> QED
      BY <2>1, <3>1, <3>2, <3>3, Zenon
  <2> QED
    BY <2>2, Zenon DEF KnowsLength
<1> QED
  BY <1>10, <1>12, <1>13, <1>14, <1>15, Zenon DEF GuessInv

\* A player disconnects.
LEMMA DisconnectKeeps ==
  ASSUME GuessInv, pc = "slots", NEW a \in Occupied, Disconnect(a),
         connfd' = connfd, backlog' = backlog
  PROVE  GuessInv'
<1>1. TableTypes /\ SlotTable /\ KnowsLength /\ pc \notin {"crashed", "killed"} /\ pc # "killed"
  BY DEF GuessInv
<1>2. a \in Slot /\ Named \subseteq Occupied
  BY <1>1, PlayersConnected, Zenon
<1>3. PICK L : L = {a}
  OBVIOUS
<1>4. L \in SUBSET Occupied
  BY <1>3, Zenon
<1>5. Cardinality(L) = 1
  BY <1>3, FS_Singleton, Zenon
<1>6. conn' = [f \in Fd |-> IF f \in {player_fds[b] : b \in L} THEN NoClient ELSE conn[f]]
  <2>1. {player_fds[b] : b \in L} = {player_fds[a]}
    BY <1>3, Zenon
  <2> QED
    BY <2>1, Zenon DEF Disconnect, Close
<1>7. player_fds' = [b \in Slot |-> IF b \in L THEN -1 ELSE player_fds[b]]
  BY <1>1, <1>2, <1>3 DEF Disconnect, TableTypes
<1>8. slot_available' = [b \in Slot |-> IF b \in L THEN TRUE ELSE slot_available[b]]
  BY <1>1, <1>2, <1>3, Zenon DEF Disconnect, TableTypes
<1>9. has_username' = [b \in Slot |-> IF b \in L THEN FALSE ELSE has_username[b]]
  BY <1>1, <1>2, <1>3, Zenon DEF Disconnect, TableTypes
<1>10. /\ usernames' = usernames /\ player_count' = player_count - 1
       /\ secret' = secret /\ told' = told /\ pc' = pc
  BY DEF Disconnect
<1>11. secret' \in Seq(Int)
  BY <1>1, <1>10, Zenon DEF TableTypes
<1>12. player_count' = player_count - Cardinality(L)
  BY <1>5, <1>10, Zenon
<1> QED
  BY <1>4, <1>6, <1>7, <1>8, <1>9, <1>10, <1>11, <1>12, PlayersLeave, Zenon

\* The word was guessed: everybody with a username hears of it and leaves.
LEMMA GameOverKeeps ==
  ASSUME GuessInv, pc = "slots", NEW a, NEW guess, GameOver(a, guess),
         connfd' = connfd, backlog' = backlog
  PROVE  GuessInv'
<1>1. TableTypes /\ SlotTable /\ KnowsLength /\ pc \notin {"crashed", "killed"}
  BY DEF GuessInv
<1>2. PICK L : L = Named
  OBVIOUS
<1>3. L \in SUBSET Occupied
  BY <1>1, <1>2, PlayersConnected, Zenon
<1>4. conn' = [f \in Fd |-> IF f \in {player_fds[b] : b \in L} THEN NoClient ELSE conn[f]]
  BY <1>2, Zenon DEF GameOver, Close
<1>5. player_fds' = [b \in Slot |-> IF b \in L THEN -1 ELSE player_fds[b]]
  BY <1>2, Zenon DEF GameOver
<1>6. slot_available' = [b \in Slot |-> IF b \in L THEN TRUE ELSE slot_available[b]]
  <2>1. slot_available' = [b \in Slot |-> slot_available[b] \/ b \in L]
    BY <1>2, Zenon DEF GameOver
  <2>2. \A b \in Slot : slot_available[b] \in BOOLEAN
    BY <1>1, Zenon DEF TableTypes
  <2> QED
    BY <2>1, <2>2, Zenon
<1>7. has_username' = [b \in Slot |-> IF b \in L THEN FALSE ELSE has_username[b]]
  <2>1. has_username' = [b \in Slot |-> FALSE]
    BY Zenon DEF GameOver
  <2>2. \A b \in Slot : b \notin L => has_username[b] = FALSE
    BY <1>1, <1>2, Zenon DEF TableTypes, Named
  <2> QED
    BY <2>1, <2>2, Zenon
<1>8. usernames' = usernames /\ player_count' = player_count - Cardinality(L)
  BY <1>2, Zenon DEF GameOver
<1>9. /\ told' = told /\ secret' \in Seq(Int) /\ Named \subseteq L
      /\ pc' = pc \/ pc' = "killed"
  BY <1>2, DicIsStrings, Zenon DEF GameOver, Broadcast
<1> QED
  BY <1>3, <1>4, <1>5, <1>6, <1>7, <1>8, <1>9, PlayersLeave, Zenon

\* One turn of the loop over the slots.
LEMMA ServeKeeps == GuessInv /\ Serve => GuessInv'
<1> SUFFICES ASSUME GuessInv, Serve PROVE GuessInv'
  OBVIOUS
<1>1. /\ TableTypes /\ pc = "slots"
      /\ connfd' = connfd /\ backlog' = backlog /\ backlog' \in Seq(Client)
  BY DEF GuessInv, TableTypes, Serve
<1>2. PICK a : a = Min(Due)
  OBVIOUS
<1>3. a \in Occupied
  <2>1. Due \subseteq Nat
    <3>1. NSlots \in Nat
      BY GuessAssumption
    <3> QED
      BY <3>1, SMT DEF Due, Occupied, Slot
  <2>2. Min(Due) \in Due
    BY <2>1, MinFound, Zenon DEF Serve
  <2> QED
    BY <1>2, <2>2, Zenon DEF Due
<1>4. PICK line \in Lines \cup {<<>>} :
         \/ Disconnect(a)
         \/ BadLength(a, Chop(line))
         \/ NiceTry(a, Chop(line))
         \/ GameOver(a, Chop(line))
         \/ Rename(a, Chop(line))
  BY <1>2, Zenon DEF Serve
<1>5. CASE Disconnect(a)
  BY <1>1, <1>3, <1>5, DisconnectKeeps, Zenon
<1>6. CASE BadLength(a, Chop(line))
  <2>1. /\ player_fds' = player_fds /\ slot_available' = slot_available
        /\ has_username' = has_username /\ usernames' = usernames
        /\ player_count' = player_count /\ conn' = conn /\ secret' = secret /\ told' = told
        /\ pc' \in {"slots", "killed"}
    BY <1>1, <1>6 DEF BadLength, table
  <2> QED
    BY <1>1, <2>1, TableLeft
<1>7. CASE NiceTry(a, Chop(line))
  <2>1. /\ player_fds' = player_fds /\ slot_available' = slot_available
        /\ has_username' = has_username /\ usernames' = usernames
        /\ player_count' = player_count /\ conn' = conn /\ secret' = secret /\ told' = told
        /\ pc' \in {"slots", "killed"}
    BY <1>1, <1>7 DEF NiceTry, Broadcast, table
  <2> QED
    BY <1>1, <2>1, TableLeft
<1>8. CASE GameOver(a, Chop(line))
  BY <1>1, <1>8, GameOverKeeps, Zenon
<1>9. CASE Rename(a, Chop(line))
  <2>1. /\ player_fds' = player_fds /\ slot_available' = slot_available
        /\ has_username' = has_username /\ usernames' = usernames
        /\ player_count' = player_count /\ conn' = conn /\ secret' = secret /\ told' = told
        /\ pc' \in {"slots", "hung", "crashed", "killed"}
    BY <1>1, <1>9 DEF Rename, table
  <2> QED
    BY <1>1, <2>1, TableLeft
<1> QED
  BY <1>4, <1>5, <1>6, <1>7, <1>8, <1>9

\* What the server does outside these, and what the clients do, leaves the table alone.
LEMMA OthersKeep ==
  ASSUME GuessInv,
         \/ Select \/ EndOfSlots
         \/ \E c \in Client : Connect(c) \/ User(c)
         \/ UNCHANGED vars
  PROVE  GuessInv'
<1>1. TableTypes
  BY DEF GuessInv
<1>2. CASE Select
  <2>1. /\ player_fds' = player_fds /\ slot_available' = slot_available
        /\ has_username' = has_username /\ usernames' = usernames
        /\ player_count' = player_count /\ connfd' = connfd /\ conn' = conn
        /\ secret' = secret /\ told' = told /\ backlog' = backlog
        /\ pc = "select" /\ pc' \in {"accept", "slots"}
    BY <1>2 DEF Select, table, kernel
  <2> QED
    BY <1>1, <2>1, TableLeft DEF TableTypes
<1>3. CASE EndOfSlots
  <2>1. /\ player_fds' = player_fds /\ slot_available' = slot_available
        /\ has_username' = has_username /\ usernames' = usernames
        /\ player_count' = player_count /\ connfd' = connfd /\ conn' = conn
        /\ secret' = secret /\ told' = told /\ backlog' = backlog
        /\ pc = "slots" /\ pc' = "select"
    BY <1>3 DEF EndOfSlots, table, kernel
  <2> QED
    BY <1>1, <2>1, TableLeft DEF TableTypes
<1>4. ASSUME NEW c \in Client, Connect(c) PROVE GuessInv'
  <2>1. /\ player_fds' = player_fds /\ slot_available' = slot_available
        /\ has_username' = has_username /\ usernames' = usernames
        /\ player_count' = player_count /\ connfd' = connfd /\ conn' = conn
        /\ secret' = secret /\ told' = told /\ pc' = pc
        /\ backlog' \in Seq(Client)
    BY <1>1, <1>4 DEF Connect, server, table, TableTypes
  <2> QED
    BY <2>1, TableLeft, Zenon
<1>5. CASE (\E c \in Client : User(c)) \/ UNCHANGED vars
  <2>1. /\ player_fds' = player_fds /\ slot_available' = slot_available
        /\ has_username' = has_username /\ usernames' = usernames
        /\ player_count' = player_count /\ connfd' = connfd /\ conn' = conn
        /\ secret' = secret /\ told' = told /\ pc' = pc /\ backlog' = backlog
    BY <1>5 DEF User, Type, Quit, vars, server, table, kernel
  <2> QED
    BY <1>1, <2>1, TableLeft DEF TableTypes
<1> QED
  BY <1>2, <1>3, <1>4, <1>5

----------------------------------------------------------------------------
\* The inductive invariant: the slot table, the open descriptors, the usernames and the
\* lengths told stay consistent through every interleaving of the server with its clients.
THEOREM GuessInvariant == Spec => []GuessInv
<1>1. GuessInv /\ [Next]_vars => GuessInv'
  <2> SUFFICES ASSUME GuessInv, [Next]_vars PROVE GuessInv'
    OBVIOUS
  <2>1. CASE Accept
    BY <2>1, AcceptKeeps
  <2>2. CASE Welcome
    BY <2>2, WelcomeKeeps
  <2>3. CASE Serve
    BY <2>3, ServeKeeps
  <2>4. CASE \/ Select \/ EndOfSlots
             \/ \E c \in Client : Connect(c) \/ User(c)
             \/ UNCHANGED vars
    BY <2>4, OthersKeep
  <2> QED
    BY <2>1, <2>2, <2>3, <2>4, Zenon DEF Next, Main
<1> QED
  BY <1>1, GuessInit, PTL DEF Spec

\* SlotTable: the four arrays and player_count of hw2_server.c agree, for any number of
\* slots and clients.
THEOREM TableConsistent == Spec => []SlotTable
<1>1. GuessInv => SlotTable
  BY DEF GuessInv
<1> QED
  BY <1>1, GuessInvariant, PTL

\* UniqueNames: no two players play under one username.
THEOREM NamesUnique == Spec => []UniqueNames
<1>1. GuessInv => UniqueNames
  BY DEF GuessInv
<1> QED
  BY <1>1, GuessInvariant, PTL

\* KnowsLength: what a player was told of the word when it joined is true of the word it
\* is guessing, whatever words the server chooses.
THEOREM LengthKnown == Spec => []KnowsLength
<1>1. GuessInv => KnowsLength
  BY DEF GuessInv
<1> QED
  BY <1>1, GuessInvariant, PTL

----------------------------------------------------------------------------
\* A message to the clients P leaves each of them that still plays something to answer.
LEMMA SendTurns ==
  ASSUME ClientTypes, NEW P \in SUBSET Client, NEW n \in Nat \ {0}, Send(P, n)
  PROVE  /\ unread' \in [Client -> Nat]
         /\ \A c \in P : cstate[c] = "playing" => unread'[c] # 0
         /\ \A c \in Client \ P : unread'[c] = unread[c]
<1>1. unread \in [Client -> Nat]
  BY DEF ClientTypes
<1>2. unread' = [c \in Client |-> IF c \in P /\ cstate[c] = "playing"
                                   THEN unread[c] + n ELSE unread[c]]
  BY DEF Send
<1> QED
  BY <1>1, <1>2

\* Steps that connect only clients of P, and read only what clients of P have sent:
\* each of P has then something to answer, or the server has gone.
LEMMA TurnsKept ==
  ASSUME ClientTypes, NoMutualWait, conn \in [Fd -> Client \cup {NoClient}],
         pc \notin {"hung", "crashed", "killed"}, NEW P \in SUBSET Client,
         unread' \in [Client -> Nat], sent' \in [Client -> Seq(Lines)],
         cstate' \in [Client -> {"idle", "playing", "quit", "dropped"}],
         \A c \in Client : cstate'[c] # cstate[c] => cstate'[c] = "dropped",
         \A f \in Fd : \/ conn'[f] \in {conn[f], NoClient}
                       \/ conn'[f] \in P /\ cstate[conn'[f]] # "idle",
         backlog \in Seq(Client), backlog' = backlog \/ (backlog # <<>> /\ backlog' = Tail(backlog)),
         \/ pc' \in {"hung", "crashed", "killed"}
         \/ /\ \A c \in P : cstate[c] = "playing" => unread'[c] # 0
            /\ \A c \in Client \ P : unread'[c] = unread[c] /\ sent'[c] = sent[c]
  PROVE  WaitInv'
<1>1. \A k \in 1..Len(backlog') : cstate'[backlog'[k]] # "idle"
  <2>1. \A k \in 1..Len(backlog) : backlog[k] \in Client /\ cstate[backlog[k]] # "idle"
    BY DEF ClientTypes
  <2>2. \A k \in 1..Len(backlog) : cstate'[backlog[k]] # "idle"
    BY <2>1, Zenon
  <2>3. CASE backlog' = backlog
    BY <2>2, <2>3, Zenon
  <2>4. CASE backlog # <<>> /\ backlog' = Tail(backlog)
    <3>1. ASSUME NEW k \in 1..Len(backlog') PROVE cstate'[backlog'[k]] # "idle"
      <4>1. k + 1 \in 1..Len(backlog) /\ backlog'[k] = backlog[k + 1]
        BY <2>4
      <4>2. cstate'[backlog[k + 1]] # "idle"
        BY <2>2, <4>1, Zenon
      <4> QED
        BY <4>1, <4>2, Zenon
    <3> QED
      BY <3>1, Zenon
  <2> QED
    BY <2>3, <2>4
<1>2. \A f \in Fd : conn'[f] # NoClient => conn'[f] \in Client /\ cstate[conn'[f]] # "idle"
                                         /\ (conn'[f] \in P \/ conn'[f] = conn[f])
  <2>1. \A f \in Fd : conn[f] # NoClient => conn[f] \in Client /\ cstate[conn[f]] # "idle"
    BY Zenon DEF ClientTypes
  <2> QED
    BY <2>1, Zenon
<1>3. ClientTypes'
  <2>1. \A f \in Fd : conn'[f] # NoClient => cstate'[conn'[f]] # "idle"
    BY <1>2, Zenon
  <2> QED
    BY <1>1, <2>1, Zenon DEF ClientTypes
<1>4. ASSUME NEW f \in Fd, conn'[f] # NoClient, pc' \notin {"hung", "crashed", "killed"}
      PROVE  ~Waiting(conn[f])'
  <2>1. PICK c \in Client : c = conn'[f] /\ (c \in P \/ c = conn[f])
    BY <1>2, <1>4, Zenon
  <2>2. SUFFICES ASSUME cstate'[c] = "playing" PROVE unread'[c] # 0 \/ sent'[c] # <<>>
    BY <2>1, Zenon DEF Waiting
  <2>3. cstate[c] = "playing"
    BY <2>2, Zenon
  <2>4. CASE c \in P
    BY <1>4, <2>3, <2>4, Zenon
  <2>5. CASE c \notin P
    <3>1. c = conn[f] /\ c # NoClient
      BY <1>4, <2>1, <2>5, Zenon
    <3>2. ~Waiting(c)
      BY <3>1, Zenon DEF NoMutualWait, Open
    <3> QED
      BY <1>4, <2>3, <2>5, <3>2, Zenon DEF Waiting
  <2> QED
    BY <2>4, <2>5
<1>5. Listen \notin Fd
  BY GuessAssumption, SMT DEF Fd, Listen
<1>6. \A f \in Fd : Open(f)' => conn'[f] # NoClient
  BY <1>5, Zenon DEF Open
<1>7. NoMutualWait'
  BY <1>4, <1>6, Zenon DEF NoMutualWait
<1> QED
  BY <1>3, <1>7 DEF WaitInv

\* accept: the client that is let in is prompted; one too many is closed.
LEMMA AcceptTurns == GuessInv /\ WaitInv /\ Accept => WaitInv'
<1> SUFFICES ASSUME GuessInv, WaitInv, Accept PROVE WaitInv'
  OBVIOUS
<1>a. PICK c : c = Head(backlog)
  OBVIOUS
<1>b. PICK f : f = Min({g \in Fd : ~Open(g)})
  OBVIOUS
<1>1. /\ TableTypes /\ ClientTypes /\ NoMutualWait /\ pc = "accept"
      /\ backlog # <<>> /\ backlog' = Tail(backlog) /\ sent' = sent
  BY DEF GuessInv, WaitInv, Accept
<1>2. conn \in [Fd -> Client \cup {NoClient}] /\ backlog \in Seq(Client)
  BY <1>1 DEF TableTypes
<1>3. c \in Client /\ cstate[c] # "idle"
  <2>1. c = backlog[1] /\ 1 \in 1..Len(backlog) /\ c \in Client
    BY <1>a, <1>1, <1>2
  <2> QED
    BY <1>1, <2>1, Zenon DEF ClientTypes
<1>4. /\ sent' \in [Client -> Seq(Lines)] /\ unread \in [Client -> Nat]
      /\ cstate \in [Client -> {"idle", "playing", "quit", "dropped"}]
  BY <1>1, Zenon DEF ClientTypes
<1>5. CASE /\ cstate' = [cstate EXCEPT ![c] = IF @ = "playing" THEN "dropped" ELSE @]
           /\ conn' = conn /\ unread' = unread
  <2>1. /\ cstate' \in [Client -> {"idle", "playing", "quit", "dropped"}]
        /\ \A e \in Client : cstate'[e] # cstate[e] => cstate'[e] = "dropped"
    BY <1>3, <1>4, <1>5
  <2>2. PICK P \in SUBSET Client : P = {}
    OBVIOUS
  <2> QED
    BY <1>1, <1>2, <1>4, <1>5, <2>1, <2>2, TurnsKept
<1>6. CASE conn' = [conn EXCEPT ![f] = c] /\ Prompt(c) /\ cstate' = cstate
  <2>1. PICK P \in SUBSET Client : P = {c}
    BY <1>3
  <2>2. Send(P, 1)
    BY <1>6, <2>1 DEF Prompt
  <2>3. /\ unread' \in [Client -> Nat]
        /\ \A e \in P : cstate[e] = "playing" => unread'[e] # 0
        /\ \A e \in Client \ P : unread'[e] = unread[e]
    BY <1>1, <2>2, SendTurns
  <2>4. \A g \in Fd : \/ conn'[g] \in {conn[g], NoClient}
                      \/ conn'[g] \in P /\ cstate[conn'[g]] # "idle"
    BY <1>2, <1>3, <1>6, <2>1, Zenon
  <2> QED
    BY <1>1, <1>2, <1>4, <1>6, <2>3, <2>4, TurnsKept
<1> QED
  BY <1>a, <1>b, <1>5, <1>6, Zenon DEF Accept

\* A read takes lines of one client only.
LEMMA LostTurns ==
  ASSUME ClientTypes, NEW f, conn[f] \in Client, NEW line, Lost(f, line)
  PROVE  /\ sent' \in [Client -> Seq(Lines)]
         /\ \A e \in Client \ {conn[f]} : sent'[e] = sent[e]
<1>1. sent \in [Client -> Seq(Lines)]
  BY DEF ClientTypes
<1>2. PICK c \in Client : c = conn[f]
  OBVIOUS
<1>3. CASE sent' = sent
  BY <1>1, <1>3
<1>4. ASSUME NEW k \in 1..Len(sent[c]),
             sent' = [sent EXCEPT ![c] = SubSeq(sent[c], k + 1, Len(sent[c]))]
      PROVE  /\ sent' \in [Client -> Seq(Lines)]
             /\ \A e \in Client \ {c} : sent'[e] = sent[e]
  <2>1. sent[c] \in Seq(Lines)
    BY <1>1
  <2>2. SubSeq(sent[c], k + 1, Len(sent[c])) \in Seq(Lines)
    BY <2>1
  <2> QED
    BY <1>1, <1>4, <2>2
<1>5. sent' = sent \/ \E k \in 1..Len(sent[c]) :
                         sent' = [sent EXCEPT ![c] = SubSeq(sent[c], k + 1, Len(sent[c]))]
  <2>1. CASE sent' = sent
    BY <2>1
  <2>2. CASE sent' # sent
    <3> DEFINE taken == [k \in 1..Len(sent[c]) |-> SubSeq(sent[c], k + 1, Len(sent[c]))]
    <3>1. \E k \in DOMAIN taken : sent' = [sent EXCEPT ![c] = taken[k]]
      BY <1>2, <2>2, Zenon DEF Lost
    <3>2. DOMAIN taken = 1..Len(sent[c])
      BY Zenon
    <3>3. \A k \in 1..Len(sent[c]) : taken[k] = SubSeq(sent[c], k + 1, Len(sent[c]))
      BY Zenon
    <3> HIDE DEF taken
    <3>4. PICK k \in 1..Len(sent[c]) : sent' = [sent EXCEPT ![c] = taken[k]]
      BY <3>1, <3>2, Zenon
    <3>5. taken[k] = SubSeq(sent[c], k + 1, Len(sent[c]))
      BY <3>3, Zenon
    <3> QED
      BY <3>4, <3>5, Zenon
  <2> QED
    BY <2>1, <2>2
<1> QED
  BY <1>2, <1>3, <1>4, <1>5, Zenon

\* Closing descriptors connects nobody.
LEMMA CloseTurns ==
  ASSUME ClientTypes, conn \in [Fd -> Client \cup {NoClient}], NEW S, Close(S)
  PROVE  /\ \A g \in Fd : conn'[g] \in {conn[g], NoClient}
         /\ cstate' \in [Client -> {"idle", "playing", "quit", "dropped"}]
         /\ \A e \in Client : cstate'[e] # cstate[e] => cstate'[e] = "dropped"
<1>1. cstate \in [Client -> {"idle", "playing", "quit", "dropped"}]
  BY DEF ClientTypes
<1>2. \A g \in Fd : conn'[g] \in {conn[g], NoClient}
  BY Zenon DEF Close
<1>3. cstate' = [c \in Client |-> IF \E f \in S : conn[f] = c /\ cstate[c] = "playing"
                                  THEN "dropped" ELSE cstate[c]]
  BY Zenon DEF Close
<1>4. \A e \in Client : cstate'[e] = "dropped" \/ cstate'[e] = cstate[e]
  BY <1>3, Zenon
<1>5. \A e \in Client : cstate'[e] \in {"idle", "playing", "quit", "dropped"}
  BY <1>1, <1>4
<1> QED
  BY <1>2, <1>3, <1>4, <1>5, Zenon

\* The line of the new client is answered, with the start of the game or with a request
\* for another name.
LEMMA WelcomeTurns == GuessInv /\ WaitInv /\ Welcome => WaitInv'
<1> SUFFICES ASSUME GuessInv, WaitInv, Welcome PROVE WaitInv'
  OBVIOUS
<1>1. /\ TableTypes /\ NoneLeaked /\ ClientTypes /\ NoMutualWait /\ pc = "name"
      /\ conn' = conn /\ backlog' = backlog /\ cstate' = cstate
  BY DEF GuessInv, WaitInv, Welcome
<1>2. /\ conn \in [Fd -> Client \cup {NoClient}] /\ backlog \in Seq(Client)
      /\ cstate' \in [Client -> {"idle", "playing", "quit", "dropped"}]
      /\ unread \in [Client -> Nat]
  BY <1>1, Zenon DEF TableTypes, ClientTypes
<1>3. PICK c \in Client : c = conn[connfd]
  <2>1. connfd # Listen /\ Open(connfd)
    BY <1>1, Zenon DEF NoneLeaked
  <2>2. connfd \in Fd
    BY <1>1, <2>1, Zenon DEF TableTypes
  <2> QED
    BY <1>2, <2>1, <2>2, Zenon DEF Open
<1>4. PICK line \in Lines \cup {<<>>} :
         /\ Lost(connfd, line)
         /\ \/ pc' = "crashed" /\ unread' = unread
            \/ Send({c}, IF ~NameUsed(Chop(line)) THEN 2 ELSE 1)
  BY <1>3, Zenon DEF Welcome
<1>5. sent' \in [Client -> Seq(Lines)] /\ \A e \in Client \ {c} : sent'[e] = sent[e]
  BY <1>1, <1>3, <1>4, LostTurns
<1>6. PICK P \in SUBSET Client : P = {c}
  BY <1>3
<1>7. CASE pc' = "crashed" /\ unread' = unread
  BY <1>1, <1>2, <1>5, <1>6, <1>7, TurnsKept
<1>8. CASE Send({c}, IF ~NameUsed(Chop(line)) THEN 2 ELSE 1)
  <2>1. PICK n \in Nat \ {0} : n = IF ~NameUsed(Chop(line)) THEN 2 ELSE 1
    OBVIOUS
  <2>2. Send(P, n)
    BY <1>6, <1>8, <2>1
  <2>3. /\ unread' \in [Client -> Nat]
        /\ \A e \in P : cstate[e] = "playing" => unread'[e] # 0
        /\ \A e \in Client \ P : unread'[e] = unread[e]
    BY <1>1, <2>2, SendTurns
  <2> QED
    BY <1>1, <1>2, <1>5, <1>6, <2>3, TurnsKept
<1> QED
  BY <1>4, <1>7, <1>8

\* Every line the server reads in its loop over the slots is answered, unless it ends the
\* game for its sender, or ends the server.
LEMMA ServeTurns == GuessInv /\ WaitInv /\ Serve => WaitInv'
<1> SUFFICES ASSUME GuessInv, WaitInv, Serve PROVE WaitInv'
  OBVIOUS
<1>1. /\ TableTypes /\ SlotTable /\ ClientTypes /\ NoMutualWait /\ pc = "slots"
      /\ backlog' = backlog
  BY DEF GuessInv, WaitInv, Serve
<1>2. /\ conn \in [Fd -> Client \cup {NoClient}] /\ backlog \in Seq(Client)
      /\ cstate \in [Client -> {"idle", "playing", "quit", "dropped"}]
      /\ unread \in [Client -> Nat] /\ sent \in [Client -> Seq(Lines)]
  BY <1>1, Zenon DEF TableTypes, ClientTypes
<1>3. PICK a : a = Min(Due)
  OBVIOUS
<1>4. a \in Occupied
  <2>1. Due \subseteq Nat
    <3>1. NSlots \in Nat
      BY GuessAssumption
    <3> QED
      BY <3>1, SMT DEF Due, Occupied, Slot
  <2>2. Min(Due) \in Due
    BY <2>1, MinFound, Zenon DEF Serve
  <2> QED
    BY <1>3, <2>2, Zenon DEF Due
<1>5. PICK c \in Client : c = conn[player_fds[a]]
  <2>1. pc \notin {"crashed", "killed"}
    BY <1>1
  <2> QED
    BY <1>1, <1>4, <2>1, PlayersConnected, Zenon
<1>6. PICK line \in Lines \cup {<<>>} :
         \/ Disconnect(a)
         \/ /\ Lost(player_fds[a], line)
            /\ \/ BadLength(a, Chop(line))
               \/ has_username[a] /\ NiceTry(a, Chop(line))
               \/ has_username[a] /\ GameOver(a, Chop(line))
               \/ Rename(a, Chop(line))
  BY <1>3, Zenon DEF Serve
<1>7. CASE Disconnect(a)
  <2>1. Close({player_fds[a]}) /\ sent' = sent /\ unread' = unread
    BY <1>7 DEF Disconnect
  <2>2. PICK P \in SUBSET Client : P = {}
    OBVIOUS
  <2>3. /\ \A g \in Fd : conn'[g] \in {conn[g], NoClient}
        /\ cstate' \in [Client -> {"idle", "playing", "quit", "dropped"}]
        /\ \A e \in Client : cstate'[e] # cstate[e] => cstate'[e] = "dropped"
    BY <1>1, <1>2, <2>1, CloseTurns
  <2> QED
    BY <1>1, <1>2, <2>1, <2>2, <2>3, TurnsKept
<1>8. CASE ~Disconnect(a)
  <2>1. sent' \in [Client -> Seq(Lines)] /\ \A e \in Client \ {c} : sent'[e] = sent[e]
    BY <1>1, <1>5, <1>6, <1>8, LostTurns
  <2>2. ASSUME NEW P \in SUBSET Client, c \in P, Send(P, 1),
               \A g \in Fd : conn'[g] \in {conn[g], NoClient},
               cstate' \in [Client -> {"idle", "playing", "quit", "dropped"}],
               \A e \in Client : cstate'[e] # cstate[e] => cstate'[e] = "dropped"
        PROVE  WaitInv'
    <3>1. 1 \in Nat \ {0}
      OBVIOUS
    <3>2. /\ unread' \in [Client -> Nat]
          /\ \A e \in P : cstate[e] = "playing" => unread'[e] # 0
          /\ \A e \in Client \ P : unread'[e] = unread[e]
      BY <1>1, <2>2, <3>1, SendTurns
    <3>3. \A e \in Client \ P : unread'[e] = unread[e] /\ sent'[e] = sent[e]
      BY <2>1, <2>2, <3>2, Zenon
    <3>4. pc \notin {"hung", "crashed", "killed"}
      BY <1>1
    <3> QED
      BY <1>1, <1>2, <2>1, <2>2, <3>2, <3>3, <3>4, TurnsKept, Zenon
  <2>3. PICK one \in SUBSET Client : one = {c}
    BY <1>5
  <2>4. CASE BadLength(a, Chop(line))
    <3>1. Send(one, 1) /\ conn' = conn /\ cstate' = cstate
      BY <1>5, <2>3, <2>4, Zenon DEF BadLength
    <3> QED
      BY <1>2, <2>2, <2>3, <3>1, Zenon
  <2>5. CASE Rename(a, Chop(line))
    <3>1. conn' = conn /\ cstate' = cstate
      BY <2>5, Zenon DEF Rename
    <3>2. CASE Send({c}, 1)
      BY <1>2, <2>2, <2>3, <3>1, <3>2, Zenon
    <3>3. CASE pc' \in {"hung", "crashed"} /\ unread' = unread
      BY <1>1, <1>2, <2>1, <2>3, <3>1, <3>3, TurnsKept
    <3> QED
      BY <1>5, <2>5, <3>2, <3>3, Zenon DEF Rename
  <2>6. has_username[a] => Audience \in SUBSET Client /\ c \in Audience
    <3>1. pc \notin {"crashed", "killed"} /\ a \in Slot
      BY <1>1, <1>4 DEF Occupied
    <3>2. \A b \in Named : conn[player_fds[b]] \in Client
      BY <1>1, <3>1, PlayersConnected, Zenon
    <3> QED
      BY <1>5, <3>1, <3>2, Zenon DEF Audience, Named
  <2>7. CASE has_username[a] /\ NiceTry(a, Chop(line))
    <3>1. Send(Audience, 1) /\ conn' = conn /\ cstate' = cstate
      BY <2>7, Zenon DEF NiceTry, Broadcast
    <3> QED
      BY <1>2, <2>2, <2>6, <2>7, <3>1, Zenon
  <2>8. CASE has_username[a] /\ GameOver(a, Chop(line))
    <3>1. Send(Audience, 1) /\ Close({player_fds[b] : b \in Named})
      BY <2>8, Zenon DEF GameOver, Broadcast
    <3>2. /\ \A g \in Fd : conn'[g] \in {conn[g], NoClient}
          /\ cstate' \in [Client -> {"idle", "playing", "quit", "dropped"}]
          /\ \A e \in Client : cstate'[e] # cstate[e] => cstate'[e] = "dropped"
      BY <1>1, <1>2, <3>1, CloseTurns
    <3> QED
      BY <2>2, <2>6, <2>8, <3>1, <3>2, Zenon
  <2> QED
    BY <1>6, <1>8, <2>4, <2>5, <2>7, <2>8, Zenon
<1> QED
  BY <1>7, <1>8

LEMMA WaitInit == Init => WaitInv
<1> SUFFICES ASSUME Init PROVE WaitInv
  OBVIOUS
<1>1. /\ sent = [c \in Client |-> <<>>] /\ unread = [c \in Client |-> 0]
      /\ cstate = [c \in Client |-> "idle"] /\ backlog = <<>>
      /\ conn = [f \in Fd |-> NoClient]
  BY DEF Init
<1>2. ClientTypes
  BY <1>1 DEF ClientTypes
<1>3. Listen \notin Fd
  BY GuessAssumption, SMT DEF Fd, Listen
<1>4. \A f \in Fd : ~Open(f)
  BY <1>1, <1>3, Zenon DEF Open
<1> QED
  BY <1>2, <1>4, Zenon DEF WaitInv, NoMutualWait

\* A client that connects is not let in yet; one that types has its line on the way; one
\* that quits waits for nothing.
LEMMA ClientTurns ==
  ASSUME GuessInv, WaitInv, NEW c \in Client, Connect(c) \/ User(c)
  PROVE  WaitInv'
<1>1. /\ ClientTypes /\ NoMutualWait /\ conn' = conn /\ pc' = pc /\ backlog \in Seq(Client)
  BY Zenon DEF GuessInv, TableTypes, WaitInv, Connect, User, Type, Quit, server
<1>2. /\ sent \in [Client -> Seq(Lines)] /\ unread \in [Client -> Nat]
      /\ cstate \in [Client -> {"idle", "playing", "quit", "dropped"}]
      /\ \A k \in 1..Len(backlog) : backlog[k] \in Client /\ cstate[backlog[k]] # "idle"
      /\ \A f \in Fd : conn[f] # NoClient => cstate[conn[f]] # "idle"
      /\ conn \in [Fd -> Client \cup {NoClient}]
  BY <1>1 DEF ClientTypes, GuessInv, TableTypes
<1>3. Listen \notin Fd
  BY GuessAssumption, SMT DEF Fd, Listen
<1>4. ASSUME \A e \in Client : cstate[e] # "idle" /\ ~Waiting(e) => ~Waiting(e)'
      PROVE  NoMutualWait'
  <2>1. \A f \in Fd : Open(f)' => Open(f) /\ conn[f] \in Client /\ cstate[conn[f]] # "idle"
    BY <1>1, <1>2, <1>3, Zenon DEF Open
  <2>2. ASSUME NEW f \in Fd, Open(f)', pc' \notin {"hung", "crashed", "killed"}
        PROVE  ~Waiting(conn[f])'
    <3>1. PICK e \in Client : e = conn[f] /\ cstate[e] # "idle"
      BY <2>1, <2>2, Zenon
    <3>2. ~Waiting(e)
      BY <1>1, <2>1, <2>2, <3>1, Zenon DEF NoMutualWait
    <3>3. ~Waiting(e)'
      BY <1>4, <3>1, <3>2, Zenon
    <3> QED
      BY <1>1, <3>1, <3>3, Zenon DEF Waiting
  <2> QED
    BY <2>2, Zenon DEF NoMutualWait
<1>5. CASE Connect(c)
  <2>1. /\ cstate[c] = "idle" /\ cstate' = [cstate EXCEPT ![c] = "playing"]
        /\ backlog' = Append(backlog, c) /\ sent' = sent /\ unread' = unread
    BY <1>5 DEF Connect
  <2>2. \A e \in Client : cstate'[e] = IF e = c THEN "playing" ELSE cstate[e]
    BY <1>2, <2>1
  <2>3. \A k \in 1..Len(backlog') : backlog'[k] = c \/ (k \in 1..Len(backlog) /\ backlog'[k] = backlog[k])
    BY <1>1, <2>1
  <2>4. \A k \in 1..Len(backlog') : cstate'[backlog'[k]] # "idle"
    BY <1>2, <2>2, <2>3
  <2>5. \A f \in Fd : conn'[f] # NoClient => cstate'[conn'[f]] # "idle"
    BY <1>1, <1>2, <2>2
  <2>6. ClientTypes'
    BY <1>2, <2>1, <2>4, <2>5 DEF ClientTypes
  <2>7. \A e \in Client : cstate[e] # "idle" /\ ~Waiting(e) => ~Waiting(e)'
    BY <2>1, <2>2 DEF Waiting
  <2> QED
    BY <1>4, <2>6, <2>7 DEF WaitInv
<1>6. ASSUME NEW line \in Lines, Type(c, line) PROVE WaitInv'
  <2>1. /\ cstate' = cstate /\ backlog' = backlog
        /\ sent' = [sent EXCEPT ![c] = Append(@, line)]
    BY <1>6 DEF Type
  <2>2. PICK k \in 1..unread[c] : unread' = [unread EXCEPT ![c] = @ - k]
    BY <1>6 DEF Type
  <2>3. unread' \in [Client -> Nat] /\ \A e \in Client \ {c} : unread'[e] = unread[e]
    BY <1>2, <2>2
  <2>4. /\ sent' \in [Client -> Seq(Lines)] /\ sent'[c] # <<>>
        /\ \A e \in Client \ {c} : sent'[e] = sent[e]
    <3>1. PICK q \in Seq(Lines) : q = sent[c]
      BY <1>2
    <3>2. Append(q, line) \in Seq(Lines) /\ Append(q, line) # <<>>
      BY <1>6
    <3>3. PICK r \in Seq(Lines) : r = Append(q, line) /\ r # <<>>
      BY <3>2
    <3>4. sent' = [sent EXCEPT ![c] = r]
      BY <2>1, <3>1, <3>3, Zenon
    <3> QED
      BY <1>2, <3>3, <3>4, Zenon
  <2>5. ClientTypes'
    BY <1>1, <1>2, <2>1, <2>3, <2>4 DEF ClientTypes
  <2>6. \A e \in Client : cstate[e] # "idle" /\ ~Waiting(e) => ~Waiting(e)'
    BY <2>1, <2>3, <2>4 DEF Waiting
  <2> QED
    BY <1>4, <2>5, <2>6 DEF WaitInv
<1>7. CASE Quit(c)
  <2>1. /\ cstate' = [cstate EXCEPT ![c] = "quit"]
        /\ backlog' = backlog /\ sent' = sent /\ unread' = unread
    BY <1>7 DEF Quit
  <2>2. \A e \in Client : cstate'[e] = IF e = c THEN "quit" ELSE cstate[e]
    BY <1>2, <2>1
  <2>3. ClientTypes'
    BY <1>1, <1>2, <2>1, <2>2 DEF ClientTypes
  <2>4. \A e \in Client : cstate[e] # "idle" /\ ~Waiting(e) => ~Waiting(e)'
    BY <2>1, <2>2 DEF Waiting
  <2> QED
    BY <1>4, <2>3, <2>4 DEF WaitInv
<1> QED
  BY <1>5, <1>6, <1>7 DEF User

\* select and the end of the loop over the slots read and send nothing.
LEMMA OthersTurns ==
  ASSUME GuessInv, WaitInv, Select \/ EndOfSlots
  PROVE  WaitInv'
<1>1. /\ TableTypes /\ ClientTypes /\ NoMutualWait /\ conn' = conn /\ backlog' = backlog
      /\ cstate' = cstate /\ sent' = sent /\ unread' = unread
      /\ pc \notin {"hung", "crashed", "killed"}
  BY DEF GuessInv, WaitInv, Select, EndOfSlots, kernel
<1>2. PICK P \in SUBSET Client : P = {}
  OBVIOUS
<1> QED
  BY <1>1, <1>2, TurnsKept DEF TableTypes, ClientTypes

\* NoMutualWait: the server and a client never wait for each other's next message, however
\* the messages, the lines, the closes and the stale bits of the fd_set interleave.
THEOREM TurnsTaken == Spec => []NoMutualWait
<1>1. GuessInv /\ WaitInv /\ [Next]_vars => WaitInv'
  <2> SUFFICES ASSUME GuessInv, WaitInv, [Next]_vars PROVE WaitInv'
    OBVIOUS
  <2>1. CASE Accept
    BY <2>1, AcceptTurns
  <2>2. CASE Welcome
    BY <2>2, WelcomeTurns
  <2>3. CASE Serve
    BY <2>3, ServeTurns
  <2>4. CASE Select \/ EndOfSlots
    BY <2>4, OthersTurns
  <2>5. CASE \E c \in Client : Connect(c) \/ User(c)
    BY <2>5, ClientTurns
  <2>6. CASE UNCHANGED vars
    BY <2>6 DEF vars, server, kernel, WaitInv, ClientTypes, NoMutualWait, Open, Waiting
  <2> QED
    BY <2>1, <2>2, <2>3, <2>4, <2>5, <2>6, Zenon DEF Next, Main
<1>2. WaitInv => NoMutualWait
  BY DEF WaitInv
<1> QED
  BY <1>1, <1>2, WaitInit, GuessInvariant, PTL DEF Spec
============================================================================
