------------------------- MODULE ConcurrencyProofs -------------------------
(***************************************************************************)
(* The concurrent designs of the book for any number of calls, datagrams,  *)
(* children, threads and connections, and rings of any size: what the      *)
(* three invariants of MCConcurrency say is proved from one inductive      *)
(* invariant for each component.                                           *)
(***************************************************************************)
EXTENDS MCConcurrency, SequenceTheorems, FiniteSetTheorems, WellFoundedInduction, TLAPS

----------------------------------------------------------------------------
\* The remainder is the only one: what is left of a number after whole rings.
LEMMA Remainder ==
    ASSUME NEW M \in Nat \ {0}, NEW q \in Int, NEW r \in 0..(M - 1)
    PROVE  (M * q + r) % M = r
<1>1. M \in Int /\ M > 0 /\ r \in Int /\ M * q + r \in Int
    OBVIOUS
<1>2. PICK a \in Int : a = M * q + r
    BY <1>1
<1>3. PICK p \in Int, s \in 0..(M - 1) : a = M * p + s /\ s = a % M
    <2>1. a = M * (a \div M) + (a % M) /\ a \div M \in Int /\ a % M \in 0..(M - 1)
        BY <1>1
    <2> QED
        BY <2>1, Zenon
<1>4. PICK t \in Int : t = p - q
    OBVIOUS
<1>5. M * t = r - s
    BY <1>1, <1>2, <1>3, <1>4
<1>6. CASE t >= 1
    <2>1. M * t >= M
        BY ONLY <1>1, <1>6, M \in Int, t \in Int
    <2> QED
        BY <1>1, <1>3, <1>5, <2>1
<1>7. CASE t <= -1
    <2>1. M * t <= -M
        BY ONLY <1>1, <1>7, M \in Int, t \in Int
    <2> QED
        BY <1>1, <1>3, <1>5, <2>1
<1>8. CASE t = 0
    <2>1. r = s
        BY <1>1, <1>5, <1>8
    <2> QED
        BY <1>2, <1>3, <2>1, Zenon
<1> QED
    BY <1>6, <1>7, <1>8

\* Indices of a ring: a sum or a difference of two of them wraps at most once.
Wrapped(a, M) == IF a < 0 THEN a + M ELSE IF a < M THEN a ELSE a - M
LEMMA Wraps ==
    ASSUME NEW M \in Nat \ {0}, NEW a \in (1 - M)..(2 * M - 1)
    PROVE  a % M = Wrapped(a, M)
<1>1. CASE a < 0
    <2>1. (M * (-1) + (a + M)) % M = a + M
        BY <1>1, Remainder
    <2>2. M * (-1) + (a + M) = a
        OBVIOUS
    <2> QED
        BY <1>1, <2>1, <2>2 DEF Wrapped
<1>2. CASE a >= 0 /\ a < M
    <2>1. (M * 0 + a) % M = a
        BY <1>2, Remainder
    <2>2. M * 0 + a = a
        OBVIOUS
    <2> QED
        BY <1>2, <2>1, <2>2 DEF Wrapped
<1>3. CASE a >= M
    <2>1. (M * 1 + (a - M)) % M = a - M
        BY <1>3, Remainder
    <2>2. M * 1 + (a - M) = a
        OBVIOUS
    <2> QED
        BY <1>3, <2>1, <2>2 DEF Wrapped
<1> QED
    BY <1>1, <1>2, <1>3 DEF Wrapped

----------------------------------------------------------------------------
\* rtt/dg_send_recv.c.
LEMMA RttInitial == Rtt!Init => Rtt!RttInv
BY DEF Rtt!Init, Rtt!RttInv, Rtt!ReturnsClean

LEMMA RttStep == Rtt!RttInv /\ Rtt!Next => Rtt!RttInv'
<1> SUFFICES ASSUME Rtt!RttInv, Rtt!Next PROVE Rtt!RttInv'
    OBVIOUS
<1> USE DEF Rtt!RttInv, Rtt!ReturnsClean
<1>1. CASE Rtt!dg_send_recv
    BY <1>1 DEF Rtt!dg_send_recv
<1>2. CASE Rtt!Sendmsg
    BY <1>2 DEF Rtt!Sendmsg
<1>3. CASE Rtt!Arm
    BY <1>3 DEF Rtt!Arm
<1>4. CASE Rtt!Recvmsg
    BY <1>4 DEF Rtt!Recvmsg
<1>5. CASE Rtt!Stop
    BY <1>5 DEF Rtt!Stop
<1>6. CASE Rtt!sig_alrm
    BY <1>6 DEF Rtt!sig_alrm
<1>7. CASE Rtt!Reply
    BY <1>7 DEF Rtt!Reply
<1> QED
    BY <1>1, <1>2, <1>3, <1>4, <1>5, <1>6, <1>7 DEF Rtt!Next


----------------------------------------------------------------------------
\* sigio/dgecho01.c: the slots of the ring are what Wraps says of their indices.
LEMMA Slots ==
    ASSUME Sigio!RingType, NEW k \in 0..QSIZE
    PROVE  /\ Sigio!Slot(k) = IF x7 + k < QSIZE THEN x7 + k ELSE x7 + k - QSIZE
           /\ Sigio!Slot(k) \in 0..(QSIZE - 1)
<1>1. QSIZE \in Nat \ {0} /\ x7 \in 0..(QSIZE - 1)
    BY ConcurrencyAssumption DEF Sigio!RingType
<1>2. x7 + k \in (1 - QSIZE)..(2 * QSIZE - 1)
    BY <1>1
<1>3. (x7 + k) % QSIZE = IF x7 + k < QSIZE THEN x7 + k ELSE x7 + k - QSIZE
    <2>1. (x7 + k) % QSIZE = Wrapped(x7 + k, QSIZE)
        BY <1>1, <1>2, Wraps, Zenon
    <2> QED
        BY <1>1, <2>1 DEF Wrapped
<1> QED
    BY <1>1, <1>3 DEF Sigio!Slot

LEMMA RingInitial == Sigio!Init => Sigio!RingInv
<1> SUFFICES ASSUME Sigio!Init PROVE Sigio!RingInv
    OBVIOUS
<1>1. Sigio!RingType
    BY ConcurrencyAssumption DEF Sigio!Init, Sigio!RingType
<1>2. Sigio!Slot(0) = 0
    BY <1>1, Slots, ConcurrencyAssumption DEF Sigio!Init
<1> QED
    BY <1>1, <1>2 DEF Sigio!Init, Sigio!RingInv, Sigio!RingHolds, Sigio!Agree, Sigio!Done

\* What neither reads nor sends a datagram keeps the ring.
LEMMA RingKept ==
    ASSUME Sigio!RingInv, UNCHANGED <<x6, x7, x8, x9, x10, x11>>,
           x4' \in Seq(Nat), x5' \in Nat, x1 # "gone",
           (x1 = "sent") <=> (x1' = "sent"),
           x1' = "send" => x9 > 0
    PROVE  Sigio!RingInv'
<1>1. Sigio!RingType'
    BY DEF Sigio!RingInv, Sigio!RingType
<1>2. /\ x6' = x6 /\ x7' = x7 /\ x8' = x8 /\ x9' = x9 /\ x10' = x10 /\ x11' = x11
      /\ Sigio!Done' = Sigio!Done
    BY DEF Sigio!Done
<1> QED
    BY <1>1, <1>2 DEF Sigio!RingInv, Sigio!RingHolds, Sigio!Agree, Sigio!Slot

\* The handler's Store fills the slot after the last one in use.
LEMMA RingStores ==
    ASSUME Sigio!RingInv, x1 # "gone", x9 < QSIZE, x4 # <<>>, Sigio!Store,
           x1' = x1, x5' = x5, x7' = x7, x11' = x11
    PROVE  Sigio!RingInv'
<1>1. Sigio!RingType /\ Sigio!RingHolds /\ Sigio!Agree
    BY DEF Sigio!RingInv
<1>2. QSIZE \in Nat \ {0}
    BY ConcurrencyAssumption
<1>3. PICK d \in Nat : d = Head(x4)
    BY <1>1 DEF Sigio!RingType
<1>4. /\ x6' = [x6 EXCEPT ![x8] = d] /\ x10' = Append(x10, d) /\ x4' = Tail(x4)
      /\ x9' = x9 + 1 /\ x8' = (x8 + 1) % QSIZE
    BY <1>3 DEF Sigio!Store
<1>5. /\ x4 \in Seq(Nat) /\ x5 \in Nat /\ x10 \in Seq(Nat) /\ x11 \in Seq(Nat)
      /\ x6 \in [0..(QSIZE - 1) -> Nat] /\ x7 \in 0..(QSIZE - 1) /\ x9 \in 0..QSIZE
    BY <1>1 DEF Sigio!RingType
<1>6. Sigio!RingType'
    <2>1. x4' \in Seq(Nat) /\ x10' \in Seq(Nat)
        BY <1>3, <1>4, <1>5
    <2>2. x6' \in [0..(QSIZE - 1) -> Nat]
        BY <1>4, <1>5
    <2>3. x9' \in 0..QSIZE
        BY <1>2, <1>4, <1>5
    <2> QED
        BY <1>5, <2>1, <2>2, <2>3 DEF Sigio!RingType
<1>7. /\ x8 \in 0..(QSIZE - 1)
      /\ x8 = IF x7 + x9 < QSIZE THEN x7 + x9 ELSE x7 + x9 - QSIZE
    BY <1>1, <1>5, Slots DEF Sigio!RingHolds
<1>8. \A k \in 0..QSIZE : Sigio!Slot(k)' = Sigio!Slot(k)
    BY DEF Sigio!Slot
<1>9. x8' = Sigio!Slot(x9 + 1)
    <2>1. x8 + 1 \in (1 - QSIZE)..(2 * QSIZE - 1)
        BY <1>2, <1>7
    <2>2. x8' = Wrapped(x8 + 1, QSIZE)
        BY <1>2, <1>4, <2>1, Wraps, Zenon
    <2>3. x9 + 1 \in 0..QSIZE
        BY <1>2, <1>5
    <2>4. Sigio!Slot(x9 + 1) = IF x7 + (x9 + 1) < QSIZE THEN x7 + (x9 + 1)
                               ELSE x7 + (x9 + 1) - QSIZE
        BY <1>1, <2>3, Slots
    <2> QED
        BY <1>2, <1>5, <1>7, <2>2, <2>4 DEF Wrapped
<1>10. PICK n \in Int : n >= 0 /\ n = Sigio!Done /\ n = Sigio!Done' /\ Len(x10) = n + x9
    <2>1. Sigio!Done \in Int
        BY <1>5 DEF Sigio!Done
    <2>2. Sigio!Done' = Sigio!Done
        BY DEF Sigio!Done
    <2> QED
        BY <1>1, <2>1, <2>2, Zenon DEF Sigio!RingHolds
<1>11. Len(x10) \in Nat /\ Len(x10') = Len(x10) + 1 /\ x10'[Len(x10) + 1] = d
       /\ \A j \in 1..Len(x10) : x10'[j] = x10[j]
    BY <1>3, <1>4, <1>5
<1>12. Sigio!RingHolds'
    <2>1. x8' = Sigio!Slot(x9)' /\ (x1' \in {"send", "sent"} => x9' > 0)
        BY <1>4, <1>5, <1>9 DEF Sigio!Slot
    <2>2. Len(x10') = n + x9'
        BY <1>4, <1>5, <1>10, <1>11
    <2>3. ASSUME NEW k \in 0..x9
          PROVE  x6'[Sigio!Slot(k)] = x10'[n + k + 1]
        <3> k \in 0..QSIZE
            BY <1>2, <1>5
        <3>1. /\ Sigio!Slot(k) \in 0..(QSIZE - 1)
              /\ Sigio!Slot(k) = IF x7 + k < QSIZE THEN x7 + k ELSE x7 + k - QSIZE
            BY <1>1, Slots
        <3>2. CASE k = x9
            <4>1. Sigio!Slot(k) = x8
                BY <1>1, <3>2 DEF Sigio!RingHolds
            <4>2. n + k + 1 = Len(x10) + 1
                BY <1>10, <3>2
            <4> QED
                BY <1>4, <1>5, <1>7, <1>11, <4>1, <4>2
        <3>3. CASE k < x9
            <4>1. Sigio!Slot(k) # x8
                BY <1>2, <1>5, <1>7, <3>1, <3>3
            <4>2. x6'[Sigio!Slot(k)] = x6[Sigio!Slot(k)]
                BY <1>4, <1>5, <3>1, <4>1
            <4>3. k \in 0..(x9 - 1) /\ n + k + 1 \in 1..Len(x10)
                <5>1. x9 \in Int /\ k \in Int /\ 0 <= k
                    BY <1>2, <1>5
                <5>2. Len(x10) = n + x9 /\ n >= 0
                    BY <1>10
                <5> QED
                    BY <3>3, <5>1, <5>2
            <4>4. x6[Sigio!Slot(k)] = x10[n + k + 1]
                BY <1>1, <1>10, <4>3 DEF Sigio!RingHolds
            <4> QED
                BY <1>11, <4>2, <4>3, <4>4
        <3> QED
            BY <1>5, <3>2, <3>3
    <2>4. x9' - 1 = x9 /\ x9 \in 0..QSIZE
        BY <1>4, <1>5
    <2>5. \A k \in 0..(x9' - 1) : x6'[Sigio!Slot(k)'] = x10'[n + k + 1]
        BY <1>2, <1>8, <2>3, <2>4
    <2> QED
        BY <1>4, <1>10, <2>1, <2>2, <2>5 DEF Sigio!RingHolds
<1>13. Sigio!Agree'
    BY <1>1, <1>5, <1>11 DEF Sigio!Agree
<1> QED
    BY <1>6, <1>12, <1>13 DEF Sigio!RingInv

\* The main loop's Sendto sends the first datagram of the ring, and Sent drops it.
LEMMA RingSends ==
    ASSUME Sigio!RingInv, x1 = "send", x1' = "sent", x11' = Append(x11, x6[x7]),
           x4' = x4, x5' = x5, x6' = x6, x7' = x7, x8' = x8, x9' = x9, x10' = x10
    PROVE  Sigio!RingInv'
<1>1. Sigio!RingType /\ Sigio!RingHolds /\ Sigio!Agree
    BY DEF Sigio!RingInv
<1>2. QSIZE \in Nat \ {0}
    BY ConcurrencyAssumption
<1>3. /\ x10 \in Seq(Nat) /\ x11 \in Seq(Nat) /\ x6 \in [0..(QSIZE - 1) -> Nat]
      /\ x7 \in 0..(QSIZE - 1) /\ x9 \in 0..QSIZE /\ x9 > 0
    BY <1>1 DEF Sigio!RingType, Sigio!RingHolds
<1>4. PICK d \in Nat : d = x6[x7]
    BY <1>3
<1>5. /\ Len(x11) \in Nat /\ x11' \in Seq(Nat) /\ Len(x11') = Len(x11) + 1
      /\ x11'[Len(x11) + 1] = d /\ \A j \in 1..Len(x11) : x11'[j] = x11[j]
    BY <1>3, <1>4
<1>6. Sigio!Done = Len(x11) /\ Sigio!Done' = Len(x11)
    BY <1>5 DEF Sigio!Done
<1>7. d = x10[Len(x11) + 1]
    <2>1. 0 \in 0..(x9 - 1)
        BY <1>2, <1>3
    <2>2. x6[Sigio!Slot(0)] = x10[Sigio!Done + 0 + 1]
        BY <1>1, <2>1 DEF Sigio!RingHolds
    <2>3. Sigio!Slot(0) = x7
        <3>1. 0 \in 0..QSIZE
            BY <1>2
        <3>2. Sigio!Slot(0) = IF x7 + 0 < QSIZE THEN x7 + 0 ELSE x7 + 0 - QSIZE
            BY <1>1, <3>1, Slots
        <3> QED
            BY <1>2, <1>3, <3>2
    <2>4. Sigio!Done + 0 + 1 = Len(x11) + 1
        BY <1>5, <1>6
    <2> QED
        BY <1>4, <2>2, <2>3, <2>4
<1>8. Sigio!RingType'
    BY <1>1, <1>5 DEF Sigio!RingType
<1>9. Len(x10) = Len(x11) + x9
    BY <1>1, <1>6 DEF Sigio!RingHolds
<1>10. Sigio!Agree'
    <2>1. Len(x11') <= Len(x10)
        BY <1>2, <1>3, <1>5, <1>9
    <2>2. \A j \in 1..Len(x11') : x11'[j] = x10[j]
        BY <1>1, <1>5, <1>7 DEF Sigio!Agree
    <2> QED
        BY <2>1, <2>2 DEF Sigio!Agree
<1>11. Sigio!RingHolds'
    BY <1>1, <1>3, <1>6 DEF Sigio!RingHolds, Sigio!Slot
<1> QED
    BY <1>8, <1>10, <1>11 DEF Sigio!RingInv

LEMMA RingDrops ==
    ASSUME Sigio!RingInv, x1 = "sent", x1' = "test",
           x7' = (x7 + 1) % QSIZE, x9' = x9 - 1,
           x4' = x4, x5' = x5, x6' = x6, x8' = x8, x10' = x10, x11' = x11
    PROVE  Sigio!RingInv'
<1>1. Sigio!RingType /\ Sigio!RingHolds /\ Sigio!Agree
    BY DEF Sigio!RingInv
<1>2. QSIZE \in Nat \ {0}
    BY ConcurrencyAssumption
<1>3. /\ x11 \in Seq(Nat) /\ Len(x11) \in Nat
      /\ x7 \in 0..(QSIZE - 1) /\ x9 \in 0..QSIZE /\ x9 > 0
    BY <1>1 DEF Sigio!RingType, Sigio!RingHolds
<1>4. x7' \in 0..(QSIZE - 1) /\ x7' = IF x7 + 1 < QSIZE THEN x7 + 1 ELSE x7 + 1 - QSIZE
    <2>1. 1 \in 0..QSIZE /\ x7' = Sigio!Slot(1)
        BY <1>2 DEF Sigio!Slot
    <2> QED
        BY <1>1, <2>1, Slots
<1>5. Sigio!RingType'
    <2>1. x9' \in 0..QSIZE
        BY <1>2, <1>3
    <2> QED
        BY <1>1, <1>4, <2>1 DEF Sigio!RingType
<1>6. ASSUME NEW k \in 0..(x9 - 1)
      PROVE  Sigio!Slot(k)' = Sigio!Slot(k + 1)
    <2>1. k \in 0..QSIZE /\ k + 1 \in 0..QSIZE
        BY <1>2, <1>3
    <2>2. Sigio!Slot(k)' = (x7' + k) % QSIZE
        BY DEF Sigio!Slot
    <2>3. x7' + k \in (1 - QSIZE)..(2 * QSIZE - 1)
        BY <1>2, <1>3, <1>4
    <2>4. (x7' + k) % QSIZE = Wrapped(x7' + k, QSIZE)
        BY <1>2, <2>3, Wraps, Zenon
    <2>5. Sigio!Slot(k + 1) = IF x7 + (k + 1) < QSIZE THEN x7 + (k + 1)
                              ELSE x7 + (k + 1) - QSIZE
        BY <1>1, <2>1, Slots
    <2> QED
        BY <1>2, <1>3, <1>4, <2>1, <2>2, <2>4, <2>5 DEF Wrapped
<1>7. PICK n \in Nat : n = Len(x11)
    BY <1>3
<1>8. Sigio!Done = n - 1 /\ Sigio!Done' = n
    BY <1>3, <1>7 DEF Sigio!Done
<1>9. Sigio!RingHolds'
    <2>1. x8' = Sigio!Slot(x9)'
        <3>1. x9 - 1 \in 0..(x9 - 1)
            BY <1>2, <1>3
        <3>2. (x7' + (x9 - 1)) % QSIZE = (x7 + ((x9 - 1) + 1)) % QSIZE
            BY <1>6, <3>1 DEF Sigio!Slot
        <3>3. (x9 - 1) + 1 = x9
            BY <1>2, <1>3
        <3>4. x8 = (x7 + x9) % QSIZE
            BY <1>1 DEF Sigio!RingHolds, Sigio!Slot
        <3> QED
            BY <3>2, <3>3, <3>4 DEF Sigio!Slot
    <2>2. Sigio!Done' >= 0 /\ Len(x10') = Sigio!Done' + x9'
        BY <1>1, <1>2, <1>3, <1>8 DEF Sigio!RingHolds
    <2>3. ASSUME NEW k \in 0..(x9' - 1)
          PROVE  x6'[Sigio!Slot(k)'] = x10'[Sigio!Done' + k + 1]
        <3>1. k \in 0..(x9 - 1) /\ k + 1 \in 0..(x9 - 1)
            BY <1>2, <1>3
        <3>2. x6[Sigio!Slot(k + 1)] = x10[(n - 1) + (k + 1) + 1]
            BY <1>1, <1>8, <3>1 DEF Sigio!RingHolds
        <3>3. (n - 1) + (k + 1) + 1 = n + k + 1
            BY <3>1
        <3> QED
            BY <1>6, <1>8, <3>1, <3>2, <3>3
    <2> QED
        BY <2>1, <2>2, <2>3 DEF Sigio!RingHolds
<1>10. Sigio!Agree'
    BY <1>1 DEF Sigio!Agree
<1> QED
    BY <1>5, <1>9, <1>10 DEF Sigio!RingInv

\* Once the server has ended, what was echoed still agrees with what was read.
LEMMA RingEnds ==
    ASSUME Sigio!RingInv, x1' = "gone", UNCHANGED <<x4, x5, x6, x7, x8, x9, x10, x11>>
    PROVE  Sigio!RingInv'
BY DEF Sigio!RingInv, Sigio!RingType, Sigio!Agree

LEMMA RingStep == Sigio!RingInv /\ Sigio!Next => Sigio!RingInv'
<1> SUFFICES ASSUME Sigio!RingInv, Sigio!Next PROVE Sigio!RingInv'
    OBVIOUS
<1>1. x4 \in Seq(Nat) /\ x5 \in Nat /\ x9 \in 0..QSIZE /\ QSIZE \in Nat
    BY ConcurrencyAssumption DEF Sigio!RingInv, Sigio!RingType
<1>2. CASE Sigio!Arrive
    <2>1. x4' \in Seq(Nat) /\ x5' \in Nat
        BY <1>1, <1>2 DEF Sigio!Arrive
    <2>2. x1 # "gone" /\ x1' = x1 /\ UNCHANGED <<x6, x7, x8, x9, x10, x11>>
        BY <1>2 DEF Sigio!Arrive, Sigio!ring
    <2>3. x1' = "send" => x9 > 0
        BY <2>2 DEF Sigio!RingInv, Sigio!RingHolds
    <2> QED
        BY <2>1, <2>2, <2>3, RingKept
<1>3. CASE Sigio!SetUp
    <2>1. x1 \in {"async", "nbio", "mask"} /\ x1' \in {"nbio", "mask", "test"}
        BY <1>3 DEF Sigio!SetUp, Sigio!Main
    <2>2. x4' = x4 /\ x5' = x5 /\ UNCHANGED <<x6, x7, x8, x9, x10, x11>>
        BY <1>3 DEF Sigio!SetUp, Sigio!ring
    <2> QED
        BY <1>1, <2>1, <2>2, RingKept
<1>4. CASE Sigio!Test
    <2>1. x1 = "test" /\ x1' \in {"suspend", "send"} /\ (x1' = "send" => x9 # 0)
        BY <1>4 DEF Sigio!Test, Sigio!Main
    <2>2. x4' = x4 /\ x5' = x5 /\ UNCHANGED <<x6, x7, x8, x9, x10, x11>>
        BY <1>4 DEF Sigio!Test, Sigio!ring
    <2>3. x1' = "send" => x9 > 0
        BY <1>1, <2>1
    <2> QED
        BY <1>1, <2>1, <2>2, <2>3, RingKept
<1>5. CASE Sigio!Sendto
    <2>1. /\ x4' = x4 /\ x5' = x5 /\ x6' = x6 /\ x7' = x7 /\ x8' = x8
          /\ x9' = x9 /\ x10' = x10 /\ x1 = "send"
          /\ \/ x1' = "sent" /\ x11' = Append(x11, x6[x7])
             \/ x1' = "gone" /\ x11' = x11
        BY <1>5 DEF Sigio!Sendto, Sigio!Main, Sigio!ring
    <2> QED
        BY <2>1, RingSends, RingEnds
<1>6. CASE Sigio!Sent
    BY <1>6, RingDrops DEF Sigio!Sent, Sigio!Main
<1>7. CASE Sigio!Deliver
    <2>1. x1 # "gone" /\ x1' = x1 /\ x4' = x4 /\ x5' = x5
          /\ UNCHANGED <<x6, x7, x8, x9, x10, x11>>
        BY <1>7 DEF Sigio!Deliver, Sigio!ring
    <2>2. x1' = "send" => x9 > 0
        BY <2>1 DEF Sigio!RingInv, Sigio!RingHolds
    <2> QED
        BY <1>1, <2>1, <2>2, RingKept
<1>8. CASE Sigio!sig_io
    <2>1. x1 # "gone" /\ x5' = x5 /\ x7' = x7 /\ x11' = x11
        BY <1>8 DEF Sigio!sig_io
    <2>2. CASE x1' = "gone" /\ UNCHANGED <<x2, x4, x6, x8, x9, x10>>
        BY <2>1, <2>2, RingEnds
    <2>3. CASE ~Sigio!Overflow /\ x4 # <<>> /\ Sigio!Store /\ x1' = x1
        <3>1. x9 < QSIZE
            BY <1>1, <2>3 DEF Sigio!Overflow
        <3> QED
            BY <2>1, <2>3, <3>1, RingStores
    <2>4. CASE Sigio!Return /\ UNCHANGED <<x4, x6, x8, x9, x10>>
        <3>1. x1' = (IF x1 = "suspend" THEN "test" ELSE x1)
              /\ x4' = x4 /\ UNCHANGED <<x6, x7, x8, x9, x10, x11>>
            BY <2>1, <2>4 DEF Sigio!Return
        <3>2. x1' = "send" => x9 > 0
            BY <2>1, <3>1 DEF Sigio!RingInv, Sigio!RingHolds
        <3> QED
            BY <1>1, <2>1, <3>1, <3>2, RingKept
    <2> QED
        BY <1>8, <2>2, <2>3, <2>4 DEF Sigio!sig_io
<1> QED
    BY <1>2, <1>3, <1>4, <1>5, <1>6, <1>7, <1>8 DEF Sigio!Next, Sigio!Server

LEMMA RingInOrder == Sigio!RingInv => Sigio!EchoesInOrder
<1> SUFFICES ASSUME Sigio!RingInv PROVE Sigio!EchoesInOrder
    OBVIOUS
<1>1. /\ x10 \in Seq(Nat) /\ x11 \in Seq(Nat) /\ Len(x11) \in Nat
      /\ Len(x11) <= Len(x10) /\ \A k \in 1..Len(x11) : x11[k] = x10[k]
    BY DEF Sigio!RingInv, Sigio!RingType, Sigio!Agree
<1>2. SubSeq(x11, 1, Len(x11)) = SubSeq(x10, 1, Len(x11))
    BY <1>1
<1> QED
    BY <1>1, <1>2 DEF Sigio!EchoesInOrder, Sigio!IsPrefix

----------------------------------------------------------------------------
\* server/serv08.c: how many descriptors the ring holds, and where.
LEMMA Held ==
    ASSUME Serv08!PoolType
    PROVE  /\ Serv08!Waits \in 0..(MAXNCLI - 1)
           /\ Serv08!Waits = IF x7 >= x6 THEN x7 - x6 ELSE x7 - x6 + MAXNCLI
<1>1. MAXNCLI \in Nat \ {0} /\ x6 \in 0..(MAXNCLI - 1) /\ x7 \in 0..(MAXNCLI - 1)
    BY ConcurrencyAssumption DEF Serv08!PoolType
<1>2. x7 - x6 \in (1 - MAXNCLI)..(2 * MAXNCLI - 1)
    BY <1>1
<1>3. (x7 - x6) % MAXNCLI = Wrapped(x7 - x6, MAXNCLI)
    BY <1>1, <1>2, Wraps, Zenon
<1> QED
    BY <1>1, <1>3 DEF Serv08!Waits, Wrapped

LEMMA Places ==
    ASSUME Serv08!PoolType, NEW k \in 1..MAXNCLI
    PROVE  /\ (x6 + k - 1) % MAXNCLI \in 0..(MAXNCLI - 1)
           /\ (x6 + k - 1) % MAXNCLI =
                  IF x6 + k - 1 < MAXNCLI THEN x6 + k - 1 ELSE x6 + k - 1 - MAXNCLI
<1>1. MAXNCLI \in Nat \ {0} /\ x6 \in 0..(MAXNCLI - 1)
    BY ConcurrencyAssumption DEF Serv08!PoolType
<1>2. x6 + k - 1 \in (1 - MAXNCLI)..(2 * MAXNCLI - 1)
    BY <1>1
<1>3. (x6 + k - 1) % MAXNCLI = Wrapped(x6 + k - 1, MAXNCLI)
    BY <1>1, <1>2, Wraps, Zenon
<1> QED
    BY <1>1, <1>3 DEF Wrapped

LEMMA PoolInitial == Serv08!Init => Serv08!PoolInv
<1> SUFFICES ASSUME Serv08!Init PROVE Serv08!PoolInv
    OBVIOUS
<1>1. Serv08!PoolType
    BY ConcurrencyAssumption DEF Serv08!Init, Serv08!PoolType
<1>2. Serv08!Waits = 0
    BY <1>1, Held DEF Serv08!Init
<1>3. Serv08!Taken = 0
    BY <1>2 DEF Serv08!Taken, Serv08!Init
<1>4. \A c \in Serv08!Conns : x10[c] = IF c <= 0 THEN 1 ELSE 0
    BY ConcurrencyAssumption DEF Serv08!Init, Serv08!Conns
<1> QED
    BY <1>1, <1>2, <1>3, <1>4 DEF Serv08!Init, Serv08!PoolInv, Serv08!PoolOrder

\* What leaves the ring and the counts alone keeps their order.
LEMMA PoolKept ==
    ASSUME Serv08!PoolInv, Serv08!PoolType', UNCHANGED <<x2, x4, x5, x6, x7, x10>>,
           x1' = "gone" \/ x1 = x1'
    PROVE  Serv08!PoolInv'
<1>1. CASE x1' = "gone"
    BY <1>1 DEF Serv08!PoolInv
<1>2. CASE x1' # "gone"
    <2>1. x1' = x1 /\ x2' = x2 /\ x4' = x4 /\ x5' = x5 /\ x6' = x6 /\ x7' = x7 /\ x10' = x10
        BY <1>2
    <2>2. Serv08!Waits' = Serv08!Waits /\ Serv08!Taken' = Serv08!Taken
        BY <2>1 DEF Serv08!Waits, Serv08!Taken
    <2> QED
        BY <1>2, <2>1, <2>2 DEF Serv08!PoolInv, Serv08!PoolOrder
<1> QED
    BY <1>1, <1>2

\* Accept: the connection accepted is the next one to go into the ring.
LEMMA PoolAccepts == Serv08!PoolInv /\ Serv08!Accept => Serv08!PoolInv'
<1> SUFFICES ASSUME Serv08!PoolInv, Serv08!Accept PROVE Serv08!PoolInv'
    OBVIOUS
<1>1. /\ x1 = "accept" /\ x4 < x3
      /\ x3' = x3 /\ x5' = x5 /\ x6' = x6 /\ x7' = x7 /\ x8' = x8 /\ x10' = x10
      /\ \/ x4' = x4 + 1 /\ x2' = x4 + 1 /\ x1' = "put"
         \/ x1' = "gone" /\ x4' = x4 /\ x2' = x2
    BY DEF Serv08!Accept
<1>2. Serv08!PoolType /\ Serv08!PoolOrder
    BY <1>1 DEF Serv08!PoolInv
<1>3. x4 \in Nat /\ x3 \in Nat
    BY <1>2, ConcurrencyAssumption DEF Serv08!PoolType
<1>4. Serv08!PoolType'
    BY <1>1, <1>2, <1>3, ConcurrencyAssumption DEF Serv08!PoolType
<1>5. CASE x1' = "gone"
    BY <1>4, <1>5 DEF Serv08!PoolInv
<1>6. CASE x4' = x4 + 1 /\ x2' = x4 + 1 /\ x1' = "put"
    <2>1. Serv08!Waits' = Serv08!Waits /\ Serv08!Waits \in Int
        <3>1. Serv08!Waits \in 0..(MAXNCLI - 1)
            BY <1>2, Held
        <3> QED
            BY <1>1, <3>1 DEF Serv08!Waits
    <2>2. Serv08!Taken' = Serv08!Taken
        BY <1>1, <1>3, <1>6, <2>1 DEF Serv08!Taken
    <2> QED
        BY <1>1, <1>2, <1>4, <1>6, <2>1, <2>2 DEF Serv08!PoolInv, Serv08!PoolOrder
<1> QED
    BY <1>1, <1>5, <1>6

\* Put: the accepted descriptor becomes the last one in the ring.
LEMMA PoolPuts == Serv08!PoolInv /\ Serv08!Put => Serv08!PoolInv'
<1> SUFFICES ASSUME Serv08!PoolInv, Serv08!Put PROVE Serv08!PoolInv'
    OBVIOUS
<1> MAXNCLI \in Nat \ {0}
    BY ConcurrencyAssumption
<1>1. /\ x1 = "put" /\ x5' = [x5 EXCEPT ![x7] = x2] /\ x7' = (x7 + 1) % MAXNCLI
      /\ x2' = x2 /\ x3' = x3 /\ x4' = x4 /\ x6' = x6 /\ x10' = x10
    BY DEF Serv08!Put
<1>2. Serv08!PoolType /\ Serv08!PoolOrder
    BY <1>1 DEF Serv08!PoolInv
<1>3. /\ x3 \in Nat /\ x4 \in Nat /\ x2 \in Nat /\ x5 \in [0..(MAXNCLI - 1) -> Nat]
      /\ x6 \in 0..(MAXNCLI - 1) /\ x7 \in 0..(MAXNCLI - 1)
    BY <1>2, ConcurrencyAssumption DEF Serv08!PoolType
<1>4. x7' \in 0..(MAXNCLI - 1) /\ x7' = IF x7 + 1 < MAXNCLI THEN x7 + 1 ELSE x7 + 1 - MAXNCLI
    <2>1. x7 + 1 \in (1 - MAXNCLI)..(2 * MAXNCLI - 1)
        BY <1>3
    <2>2. x7' = Wrapped(x7 + 1, MAXNCLI)
        BY <1>1, <2>1, Wraps, Zenon
    <2> QED
        BY <1>3, <2>2 DEF Wrapped
<1>5. x8' \in [Serv08!Threads -> {"lock", "waiting", "web"}]
    <2>1. x8 \in [Serv08!Threads -> {"lock", "waiting", "web"}]
        BY <1>2 DEF Serv08!PoolType
    <2>2. x8' = x8 \/ \E t \in Serv08!Waiting : x8' = [x8 EXCEPT ![t] = "lock"]
        BY DEF Serv08!Put, Serv08!Signal
    <2> QED
        BY <2>1, <2>2
<1>6. Serv08!PoolType'
    <2>1. x5' \in [0..(MAXNCLI - 1) -> Nat]
        BY <1>1, <1>3
    <2> QED
        BY <1>1, <1>2, <1>4, <1>5, <2>1 DEF Serv08!PoolType
<1>7. CASE x1' = "gone"
    BY <1>6, <1>7 DEF Serv08!PoolInv
<1>8. CASE x1' = "accept" /\ x7' # x6
    <2>1. PICK q \in 0..(MAXNCLI - 1) : q = Serv08!Waits
        BY <1>2, Held
    <2>2. q = IF x7 >= x6 THEN x7 - x6 ELSE x7 - x6 + MAXNCLI
        BY <1>2, <2>1, Held
    <2>3. Serv08!Waits' = IF x7' >= x6' THEN x7' - x6' ELSE x7' - x6' + MAXNCLI
        <3>1. x7' - x6' \in (1 - MAXNCLI)..(2 * MAXNCLI - 1)
            BY <1>1, <1>3, <1>4
        <3>2. (x7' - x6') % MAXNCLI = Wrapped(x7' - x6', MAXNCLI)
            BY <3>1, Wraps, Zenon
        <3> QED
            BY <1>1, <1>3, <1>4, <3>2 DEF Serv08!Waits, Wrapped
    <2>4. Serv08!Waits' = q + 1 /\ q + 1 < MAXNCLI
        BY <1>1, <1>3, <1>4, <1>8, <2>2, <2>3
    <2>5. PICK n \in Int : n = Serv08!Taken /\ n = x4 - q - 1
        BY <1>1, <1>3, <2>1 DEF Serv08!Taken
    <2>6. Serv08!Taken' = n
        BY <1>1, <1>3, <1>8, <2>4, <2>5 DEF Serv08!Taken
    <2>7. ASSUME NEW k \in 1..(q + 1)
          PROVE  x5'[(x6 + k - 1) % MAXNCLI] = n + k
        <3>1. k \in 1..MAXNCLI
            BY <2>4
        <3>2. PICK p \in 0..(MAXNCLI - 1) : p = (x6 + k - 1) % MAXNCLI
            BY <1>2, <3>1, Places
        <3>3. p = IF x6 + k - 1 < MAXNCLI THEN x6 + k - 1 ELSE x6 + k - 1 - MAXNCLI
            BY <1>2, <3>1, <3>2, Places
        <3>4. CASE k = q + 1
            <4>1. p = x7
                BY <1>3, <2>2, <3>3, <3>4
            <4>2. x2 = x4 /\ x4 = n + k
                BY <1>1, <1>2, <1>3, <2>5, <3>4 DEF Serv08!PoolOrder
            <4> QED
                BY <1>1, <1>3, <3>2, <4>1, <4>2
        <3>5. CASE k # q + 1
            <4>1. k \in 1..q
                BY <3>5
            <4>2. p # x7
                BY <1>3, <2>2, <2>4, <3>3, <4>1
            <4>3. x5[p] = n + k
                BY <1>2, <2>1, <2>5, <3>2, <4>1 DEF Serv08!PoolOrder
            <4> QED
                BY <1>1, <1>3, <3>2, <4>2, <4>3
        <3> QED
            BY <3>4, <3>5
    <2>8. \A k \in 1..Serv08!Waits' : x5'[(x6' + k - 1) % MAXNCLI] = Serv08!Taken' + k
        BY <1>1, <2>4, <2>6, <2>7
    <2>9. \A c \in Serv08!Conns : x10'[c] = IF c <= Serv08!Taken' THEN 1 ELSE 0
        BY <1>1, <1>2, <2>5, <2>6 DEF Serv08!PoolOrder
    <2>10. Serv08!Taken' >= 0
        BY <1>2, <2>5, <2>6 DEF Serv08!PoolOrder
    <2> QED
        BY <1>6, <1>8, <2>8, <2>9, <2>10 DEF Serv08!PoolInv, Serv08!PoolOrder
<1> QED
    BY <1>1, <1>7, <1>8 DEF Serv08!Put, Serv08!Full

\* thread_main takes the first descriptor of the ring, which no thread has had.
LEMMA PoolTakes ==
    ASSUME Serv08!PoolInv, x1 # "gone", x6 # x7, Serv08!PoolType',
           x10' = [x10 EXCEPT ![x5[x6]] = @ + 1], x6' = (x6 + 1) % MAXNCLI,
           x1' = x1, x2' = x2, x3' = x3, x4' = x4, x5' = x5, x7' = x7
    PROVE  Serv08!PoolInv'
<1> MAXNCLI \in Nat \ {0}
    BY ConcurrencyAssumption
<1>1. Serv08!PoolType /\ Serv08!PoolOrder
    BY DEF Serv08!PoolInv
<1>2. /\ x4 \in Nat /\ x4 <= MaxConns /\ x5 \in [0..(MAXNCLI - 1) -> Nat]
      /\ x6 \in 0..(MAXNCLI - 1) /\ x7 \in 0..(MAXNCLI - 1) /\ MaxConns \in Nat
      /\ x10 \in [1..MaxConns -> Nat]
    BY <1>1, ConcurrencyAssumption DEF Serv08!PoolType, Serv08!Conns
<1>3. x6' \in 0..(MAXNCLI - 1) /\ x6' = IF x6 + 1 < MAXNCLI THEN x6 + 1 ELSE x6 + 1 - MAXNCLI
    <2>1. x6 + 1 \in (1 - MAXNCLI)..(2 * MAXNCLI - 1)
        BY <1>2
    <2>2. x6' = Wrapped(x6 + 1, MAXNCLI)
        BY <2>1, Wraps, Zenon
    <2> QED
        BY <1>2, <2>2 DEF Wrapped
<1>4. PICK q \in 0..(MAXNCLI - 1) : q = Serv08!Waits
    BY <1>1, Held
<1>5. q = (IF x7 >= x6 THEN x7 - x6 ELSE x7 - x6 + MAXNCLI) /\ q > 0
    BY <1>1, <1>2, <1>4, Held
<1>6. Serv08!Waits' = q - 1
    <2>1. x7 - x6' \in (1 - MAXNCLI)..(2 * MAXNCLI - 1)
        BY <1>2, <1>3
    <2>2. (x7 - x6') % MAXNCLI = Wrapped(x7 - x6', MAXNCLI)
        BY <2>1, Wraps, Zenon
    <2>3. Serv08!Waits' = Wrapped(x7 - x6', MAXNCLI)
        BY <2>2 DEF Serv08!Waits
    <2> QED
        BY <1>2, <1>3, <1>5, <2>3 DEF Wrapped
<1>7. PICK n \in Nat : n = Serv08!Taken /\ n + q <= x4
    <2>1. Serv08!Taken >= 0
        BY <1>1 DEF Serv08!PoolOrder
    <2>2. Serv08!Taken = x4 - q - (IF x1 = "put" THEN 1 ELSE 0)
        BY <1>4 DEF Serv08!Taken
    <2>3. Serv08!Taken \in Nat /\ Serv08!Taken + q <= x4
        BY <1>2, <1>4, <2>1, <2>2
    <2> QED
        BY <2>3, Zenon
<1>8. Serv08!Taken' = n + 1
    BY <1>2, <1>4, <1>6, <1>7 DEF Serv08!Taken
<1>9. ASSUME NEW k \in 1..q
      PROVE  x5[(x6 + k - 1) % MAXNCLI] = n + k
    BY <1>1, <1>4, <1>7 DEF Serv08!PoolOrder
<1>10. x5[x6] = n + 1 /\ n + 1 \in 1..MaxConns
    <2>1. 1 \in 1..q /\ 1 \in 1..MAXNCLI
        BY <1>4, <1>5
    <2>2. (x6 + 1 - 1) % MAXNCLI =
              IF x6 + 1 - 1 < MAXNCLI THEN x6 + 1 - 1 ELSE x6 + 1 - 1 - MAXNCLI
        BY <1>1, <2>1, Places
    <2>3. (x6 + 1 - 1) % MAXNCLI = x6
        BY <1>2, <2>2
    <2>4. x5[(x6 + 1 - 1) % MAXNCLI] = n + 1
        BY <1>9, <2>1
    <2>5. n + 1 \in 1..MaxConns
        BY <1>2, <1>4, <1>5, <1>7
    <2> QED
        BY <2>3, <2>4, <2>5
<1>11. ASSUME NEW k \in 1..(q - 1)
       PROVE  x5[(x6' + k - 1) % MAXNCLI] = n + 1 + k
    <2>1. k + 1 \in 1..q /\ k + 1 \in 1..MAXNCLI /\ n + (k + 1) = n + 1 + k
        BY <1>4
    <2>2. x6' + k - 1 \in (1 - MAXNCLI)..(2 * MAXNCLI - 1)
        BY <1>3, <1>4
    <2>3. (x6' + k - 1) % MAXNCLI = Wrapped(x6' + k - 1, MAXNCLI)
        BY <2>2, Wraps, Zenon
    <2>4. (x6 + (k + 1) - 1) % MAXNCLI =
              IF x6 + (k + 1) - 1 < MAXNCLI THEN x6 + (k + 1) - 1
              ELSE x6 + (k + 1) - 1 - MAXNCLI
        BY <1>1, <2>1, Places
    <2>5. (x6' + k - 1) % MAXNCLI = (x6 + (k + 1) - 1) % MAXNCLI
        BY <1>2, <1>3, <1>4, <2>3, <2>4 DEF Wrapped
    <2> QED
        BY <1>9, <2>1, <2>5
<1>12. ASSUME NEW c \in 1..MaxConns
       PROVE  x10'[c] = IF c <= n + 1 THEN 1 ELSE 0
    <2>1. x10[c] = IF c <= n THEN 1 ELSE 0
        BY <1>1, <1>7 DEF Serv08!PoolOrder, Serv08!Conns
    <2>2. x10'[c] = IF c = n + 1 THEN x10[c] + 1 ELSE x10[c]
        BY <1>2, <1>10
    <2> QED
        BY <1>2, <2>1, <2>2
<1>13. Serv08!PoolOrder'
    <2>1. \A k \in 1..Serv08!Waits' : x5'[(x6' + k - 1) % MAXNCLI] = Serv08!Taken' + k
        BY <1>6, <1>8, <1>11
    <2>2. \A c \in Serv08!Conns : x10'[c] = IF c <= Serv08!Taken' THEN 1 ELSE 0
        BY <1>8, <1>12 DEF Serv08!Conns
    <2>3. Serv08!Taken' >= 0 /\ (x1' = "put" => x2' = x4')
        BY <1>1, <1>8 DEF Serv08!PoolOrder
    <2> QED
        BY <2>1, <2>2, <2>3 DEF Serv08!PoolOrder
<1> QED
    BY <1>13 DEF Serv08!PoolInv

LEMMA PoolStep == Serv08!PoolInv /\ Serv08!Next => Serv08!PoolInv'
<1> SUFFICES ASSUME Serv08!PoolInv, Serv08!Next PROVE Serv08!PoolInv'
    OBVIOUS
<1>1. Serv08!PoolType /\ MAXNCLI \in Nat \ {0} /\ MaxConns \in Nat
    BY ConcurrencyAssumption DEF Serv08!PoolInv
<1>2. /\ x3 \in 0..MaxConns /\ x4 \in 0..x3 /\ x2 \in Nat /\ x5 \in [0..(MAXNCLI - 1) -> Nat]
      /\ x6 \in 0..(MAXNCLI - 1) /\ x7 \in 0..(MAXNCLI - 1)
      /\ x8 \in [Serv08!Threads -> {"lock", "waiting", "web"}]
      /\ x10 \in [Serv08!Conns -> Nat]
    BY <1>1 DEF Serv08!PoolType
<1>3. CASE Serv08!Arrive
    <2>1. Serv08!PoolType'
        <3>1. x3' \in 0..MaxConns /\ x4' \in 0..x3'
            BY <1>1, <1>2, <1>3 DEF Serv08!Arrive
        <3> QED
            BY <1>2, <1>3, <3>1 DEF Serv08!Arrive, Serv08!PoolType
    <2> QED
        BY <1>3, <2>1, PoolKept DEF Serv08!Arrive
<1>4. CASE Serv08!Accept
    BY <1>4, PoolAccepts
<1>5. CASE Serv08!Put
    BY <1>5, PoolPuts
<1>6. ASSUME NEW t \in Serv08!Threads, Serv08!Get(t) PROVE Serv08!PoolInv'
    <2>1. /\ x1 # "gone" /\ x1' = x1 /\ x2' = x2 /\ x3' = x3 /\ x4' = x4 /\ x5' = x5
          /\ x7' = x7
        BY <1>6 DEF Serv08!Get
    <2>2. CASE x6 = x7
        <3>1. x8' = [x8 EXCEPT ![t] = "waiting"] /\ x6' = x6 /\ x10' = x10
            BY <1>6, <2>2 DEF Serv08!Get
        <3>2. Serv08!PoolType'
            BY <1>2, <2>1, <3>1 DEF Serv08!PoolType
        <3> QED
            BY <2>1, <3>1, <3>2, PoolKept
    <2>3. CASE x6 # x7
        <3>1. /\ x8' = [x8 EXCEPT ![t] = "web"] /\ x6' = (x6 + 1) % MAXNCLI
              /\ x10' = [x10 EXCEPT ![x5[x6]] = @ + 1]
            BY <1>6, <2>3 DEF Serv08!Get
        <3>2. x8' \in [Serv08!Threads -> {"lock", "waiting", "web"}]
            BY <1>2, <3>1
        <3>3. x6' \in 0..(MAXNCLI - 1)
            BY <1>1, <1>2, <3>1
        <3>4. x10' \in [Serv08!Conns -> Nat]
            <4>1. PICK z : z = x5[x6]
                OBVIOUS
            <4>2. x10' = [c \in Serv08!Conns |-> IF c = z THEN x10[c] + 1 ELSE x10[c]]
                BY <1>2, <3>1, <4>1
            <4> QED
                BY <1>2, <4>2
        <3>5. Serv08!PoolType'
            BY <1>2, <2>1, <3>2, <3>3, <3>4 DEF Serv08!PoolType
        <3> QED
            BY <2>1, <2>3, <3>1, <3>5, PoolTakes
    <2> QED
        BY <2>2, <2>3
<1>7. ASSUME NEW t \in Serv08!Threads, Serv08!Spurious(t) \/ Serv08!web_child(t)
      PROVE  Serv08!PoolInv'
    <2>1. /\ x8' = [x8 EXCEPT ![t] = "lock"] /\ (x1' = x1 \/ x1' = "gone")
          /\ x2' = x2 /\ x3' = x3 /\ x4' = x4 /\ x5' = x5 /\ x6' = x6 /\ x7' = x7 /\ x10' = x10
        BY <1>7 DEF Serv08!Spurious, Serv08!web_child
    <2>2. Serv08!PoolType'
        BY <1>2, <2>1 DEF Serv08!PoolType
    <2> QED
        BY <2>1, <2>2, PoolKept
<1> QED
    BY <1>3, <1>4, <1>5, <1>6, <1>7 DEF Serv08!Next

\* The components count with the same operator as the theorems about finite sets.
LEMMA SameCount ==
    ASSUME NEW S
    PROVE  Serv08!Cardinality(S) = Cardinality(S) /\ Serv05!Cardinality(S) = Cardinality(S)
BY Zenon DEF Serv08!Cardinality, Serv05!Cardinality, Cardinality

LEMMA PoolCounts == Serv08!PoolInv => Serv08!OneThreadEach
<1> SUFFICES ASSUME Serv08!PoolInv, x1 # "gone"
             PROVE  /\ \A c \in Serv08!Conns : x10[c] <= 1
                    /\ \A k \in DOMAIN Serv08!Queued : x10[Serv08!Queued[k]] = 0
                    /\ x4 = Cardinality({c \in Serv08!Conns : x10[c] = 1})
                                + Len(Serv08!Queued) + (IF x1 = "put" THEN 1 ELSE 0)
    BY SameCount, Zenon DEF Serv08!OneThreadEach
<1>1. Serv08!PoolType /\ Serv08!PoolOrder /\ MAXNCLI \in Nat \ {0} /\ MaxConns \in Nat
    BY ConcurrencyAssumption DEF Serv08!PoolInv
<1>2. PICK q \in Nat : q = Serv08!Waits
    BY <1>1, Held
<1>3. x4 \in Nat /\ x4 <= MaxConns
    BY <1>1 DEF Serv08!PoolType
<1>4. PICK n \in Nat : n = Serv08!Taken /\ n + q <= MaxConns
                       /\ x4 = n + q + (IF x1 = "put" THEN 1 ELSE 0)
    BY <1>1, <1>2, <1>3 DEF Serv08!Taken, Serv08!PoolOrder
<1>5. \A c \in 1..MaxConns : x10[c] = IF c <= n THEN 1 ELSE 0
    BY <1>1, <1>4 DEF Serv08!PoolOrder, Serv08!Conns
<1>6. /\ DOMAIN Serv08!Queued = 1..q /\ Len(Serv08!Queued) = q
      /\ \A k \in 1..q : Serv08!Queued[k] = n + k
    <2>1. Serv08!Queued = [k \in 1..q |-> x5[(x6 + k - 1) % MAXNCLI]]
        BY <1>2 DEF Serv08!Queued, Serv08!Waits
    <2>2. \A k \in 1..q : x5[(x6 + k - 1) % MAXNCLI] = n + k
        BY <1>1, <1>2, <1>4 DEF Serv08!PoolOrder
    <2> QED
        BY <2>1, <2>2
<1>7. Cardinality({c \in Serv08!Conns : x10[c] = 1}) = n
    <2>1. {c \in Serv08!Conns : x10[c] = 1} = 1..n
        BY <1>1, <1>4, <1>5 DEF Serv08!Conns
    <2>2. Cardinality(1..n) = n
        BY FS_Interval
    <2> QED
        BY <2>1, <2>2
<1>8. ASSUME NEW k \in 1..q PROVE x10[n + k] = 0
    <2>1. n + k \in 1..MaxConns /\ ~(n + k <= n)
        BY <1>1, <1>4
    <2> QED
        BY <1>5, <2>1
<1> QED
    BY <1>4, <1>5, <1>6, <1>7, <1>8 DEF Serv08!Conns

----------------------------------------------------------------------------
\* server/serv05.c: the parent's search for a child finds one if one is free.
LEMMA LeastIsMember ==
    ASSUME NEW S \in SUBSET Nat, S # {}
    PROVE  Serv05!Min(S) \in S
<1>1. PICK R : R = {ss \in Nat \X Nat : ss[1] < ss[2]}
    OBVIOUS
<1>2. IsWellFoundedOn(R, Nat)
    <2>1. R = OpToRel(<, Nat)
        BY <1>1, Zenon DEF OpToRel
    <2> QED
        BY <2>1, NatLessThanWellFounded, Zenon
<1>3. PICK x \in S : \A y \in S : ~(<<y, x>> \in R)
    BY <1>2, WFMin, Zenon
<1>4. \A y \in S : x <= y
    <2> SUFFICES ASSUME NEW y \in S PROVE x <= y
        OBVIOUS
    <2>1. <<y, x>> \notin R /\ x \in Nat /\ y \in Nat
        BY <1>3
    <2> QED
        BY <1>1, <2>1
<1> QED
    BY <1>4, Zenon DEF Serv05!Min

LEMMA FreeIsFinite ==
    /\ Serv05!Children = 1..NChildren /\ NChildren \in Nat
    /\ IsFiniteSet(Serv05!Free) /\ Serv05!Free \subseteq 1..NChildren
    /\ Cardinality(Serv05!Free) \in Nat
<1>1. Serv05!Children = 1..NChildren /\ NChildren \in Nat
    BY ConcurrencyAssumption DEF Serv05!Children
<1>2. Serv05!Free \in SUBSET (1..NChildren)
    BY <1>1 DEF Serv05!Free
<1>3. IsFiniteSet(1..NChildren)
    BY <1>1, FS_Interval
<1>4. IsFiniteSet(Serv05!Free)
    BY <1>2, <1>3, FS_Subset
<1> QED
    BY <1>1, <1>2, <1>4, FS_CardinalityType

LEMMA PassInitial == Serv05!Init => Serv05!PassInv
<1> SUFFICES ASSUME Serv05!Init PROVE Serv05!PassInv
    OBVIOUS
<1>1. Serv05!PassType
    BY ConcurrencyAssumption DEF Serv05!Init, Serv05!PassType
<1>2. Serv05!Free = 1..NChildren
    BY FreeIsFinite DEF Serv05!Init, Serv05!Free
<1>3. Cardinality(Serv05!Free) = NChildren
    <2>1. Cardinality(1..NChildren) = IF 1 > NChildren THEN 0 ELSE NChildren - 1 + 1
        BY FreeIsFinite, FS_Interval
    <2> QED
        BY <1>2, <2>1, FreeIsFinite
<1>4. Serv05!Books
    <2>1. x3 = Serv05!Cardinality(Serv05!Free) /\ x1 # "accept" /\ x3 \in Nat
        BY <1>3, SameCount, FreeIsFinite DEF Serv05!Init
    <2>2. \A i \in Serv05!Children : Serv05!Stage(i)
        BY DEF Serv05!Init, Serv05!Stage
    <2> QED
        BY <2>1, <2>2 DEF Serv05!Books, Serv05!Surplus
<1>5. Serv05!Numbers
    <2>1. Serv05!Left = 0 /\ x5 = <<>>
        <3>1. x5 = <<>> /\ x6 = 0
            BY DEF Serv05!Init
        <3>2. Len(x5) = 0
            BY <3>1
        <3>3. 0 - 0 = 0
            OBVIOUS
        <3> QED
            BY <3>1, <3>2, <3>3, Zenon DEF Serv05!Left
    <2>2. /\ \A c \in Serv05!Conns : x12[c] = 0
          /\ \A i \in Serv05!Children : x8[i] = <<>>
        BY DEF Serv05!Init
    <2> QED
        BY <2>1, <2>2 DEF Serv05!Numbers
<1> QED
    BY <1>1, <1>4, <1>5 DEF Serv05!PassInv

\* The parts of the invariant a step leaves alone.
LEMMA BooksKept ==
    ASSUME Serv05!Books, UNCHANGED <<x3, x4, x8, x9, x10>>,
           x1' = "accept" => Serv05!Free # {}, x1 = "died" => x1' = "died"
    PROVE  Serv05!Books'
<1>1. x3' = x3 /\ x4' = x4 /\ x8' = x8 /\ x9' = x9 /\ x10' = x10
    OBVIOUS
<1>2. Serv05!Free' = Serv05!Free
    BY <1>1 DEF Serv05!Free
<1>3. \A i \in Serv05!Children : Serv05!Stage(i)'
    BY <1>1 DEF Serv05!Books, Serv05!Stage, Serv05!Dead
<1>4. Serv05!Surplus'
    BY <1>1, <1>2 DEF Serv05!Books, Serv05!Surplus, Serv05!Dead
<1> QED
    BY <1>1, <1>2, <1>3, <1>4 DEF Serv05!Books

LEMMA NumbersKept ==
    ASSUME Serv05!Numbers, UNCHANGED <<x5, x6, x8, x12>>
    PROVE  Serv05!Numbers'
BY DEF Serv05!Numbers, Serv05!Left

\* A client arrives at the end of the backlog, or leaves its front.
LEMMA BacklogGrows ==
    ASSUME Serv05!PassType, Serv05!Numbers, x6' = x6 + 1, x5' = Append(x5, x6 + 1),
           UNCHANGED <<x8, x12>>
    PROVE  Serv05!Numbers'
<1>1. x6 \in Nat /\ x5 \in Seq(Nat) /\ Len(x5) \in Nat
    BY ConcurrencyAssumption DEF Serv05!PassType
<1>2. /\ x5' \in Seq(Nat) /\ Len(x5') = Len(x5) + 1 /\ x5'[Len(x5) + 1] = x6 + 1
      /\ \A k \in 1..Len(x5) : x5'[k] = x5[k]
    BY <1>1
<1>3. PICK n \in Int : n = Serv05!Left /\ n = x6 - Len(x5) /\ n = Serv05!Left'
    <2>1. x6 - Len(x5) \in Int /\ x6' - Len(x5') = x6 - Len(x5)
        BY <1>1, <1>2
    <2> QED
        BY <2>1, Zenon DEF Serv05!Left
<1>4. \A k \in 1..Len(x5') : x5'[k] = n + k
    <2>1. \A k \in 1..Len(x5) : x5[k] = n + k
        BY <1>3 DEF Serv05!Numbers
    <2> QED
        BY <1>1, <1>2, <1>3, <2>1
<1> QED
    BY <1>3, <1>4 DEF Serv05!Numbers

LEMMA BacklogShrinks ==
    ASSUME Serv05!PassType, Serv05!Numbers, x5 # <<>>, x5' = Tail(x5), x6' = x6
    PROVE  /\ Serv05!Left \in Nat /\ Head(x5) = Serv05!Left + 1 /\ Head(x5) \in 1..MaxConns
           /\ x5' \in Seq(Nat) /\ Serv05!Left' = Serv05!Left + 1
           /\ \A k \in 1..Len(x5') : x5'[k] = Serv05!Left' + k
<1>1. x6 \in 0..MaxConns /\ MaxConns \in Nat /\ x5 \in Seq(Nat) /\ Len(x5) \in Nat /\ Len(x5) > 0
    BY ConcurrencyAssumption DEF Serv05!PassType
<1>2. /\ x5' \in Seq(Nat) /\ Len(x5') = Len(x5) - 1
      /\ \A k \in 1..Len(x5') : x5'[k] = x5[k + 1]
    BY <1>1
<1>3. PICK n \in Nat : n = Serv05!Left /\ n = x6 - Len(x5)
    BY <1>1 DEF Serv05!Left, Serv05!Numbers
<1>4. Serv05!Left' = n + 1
    BY <1>1, <1>2, <1>3 DEF Serv05!Left
<1>5. \A k \in 1..Len(x5) : x5[k] = n + k
    BY <1>3 DEF Serv05!Numbers
<1>6. Head(x5) = n + 1
    BY <1>1, <1>5
<1>7. \A k \in 1..Len(x5') : x5'[k] = (n + 1) + k
    BY <1>1, <1>2, <1>5
<1> QED
    BY <1>1, <1>2, <1>3, <1>4, <1>6, <1>7

\* A connection that leaves the front of the backlog without being given to a child.
LEMMA BacklogPassed ==
    ASSUME Serv05!PassType, Serv05!Numbers, x5 # <<>>, x5' = Tail(x5), x6' = x6,
           x8' = x8, x12' = x12
    PROVE  Serv05!Numbers'
<1>1. PICK n \in Nat : n = Serv05!Left /\ n + 1 = Serv05!Left'
    BY BacklogShrinks
<1>2. \A c \in Serv05!Conns : c > n + 1 => x12'[c] = 0
    <2>1. \A c \in Serv05!Conns : c > n => x12[c] = 0
        BY <1>1 DEF Serv05!Numbers
    <2>2. \A c \in Serv05!Conns : c > n + 1 => c > n
        BY ConcurrencyAssumption DEF Serv05!Conns
    <2> QED
        BY <2>1, <2>2
<1>3. \A i \in Serv05!Children :
          x8'[i] # <<>> => x8'[i][1] \in 1..(n + 1) /\ x12'[x8'[i][1]] = 0
    <2>1. \A i \in Serv05!Children : x8[i] # <<>> => x8[i][1] \in 1..n /\ x12[x8[i][1]] = 0
        BY <1>1 DEF Serv05!Numbers
    <2>2. 1..n \subseteq 1..(n + 1)
        OBVIOUS
    <2> QED
        BY <2>1, <2>2
<1>4. \A i, j \in Serv05!Children :
          i # j /\ x8'[i] # <<>> /\ x8'[j] # <<>> => x8'[i][1] # x8'[j][1]
    BY DEF Serv05!Numbers
<1>5. Serv05!Left' >= 0 /\ \A k \in 1..Len(x5') : x5'[k] = Serv05!Left' + k
    BY <1>1, BacklogShrinks
<1> QED
    BY <1>1, <1>2, <1>3, <1>4, <1>5 DEF Serv05!Numbers

\* Select: the listening socket is in the set only while a child is free.
LEMMA PassSelects == Serv05!PassInv /\ Serv05!Select => Serv05!PassInv'
<1> SUFFICES ASSUME Serv05!PassInv, Serv05!Select PROVE Serv05!PassInv'
    OBVIOUS
<1>1. /\ x2' = Serv05!Listening \cup Serv05!Readable
      /\ x1' = IF 0 \in x2' THEN "accept" ELSE "scan"
      /\ x1 = "select" /\ UNCHANGED <<x3, x4, x5, x6, x8, x9, x10, x12>>
    BY DEF Serv05!Select
<1>2. Serv05!PassType /\ Serv05!Books /\ Serv05!Numbers
    BY DEF Serv05!PassInv
<1>3. Serv05!Readable \subseteq 1..NChildren
    BY FreeIsFinite DEF Serv05!Readable
<1>4. x2' \subseteq 0..NChildren
    BY <1>1, <1>3, FreeIsFinite DEF Serv05!Listening
<1>5. Serv05!PassType'
    BY <1>1, <1>2, <1>4 DEF Serv05!PassType
<1>6. x1' = "accept" => Serv05!Free # {}
    <2> SUFFICES ASSUME x1' = "accept", Serv05!Free = {} PROVE FALSE
        OBVIOUS
    <2>1. 0 \in Serv05!Listening
        BY <1>1, <1>3
    <2>2. x3 > 0
        BY <2>1 DEF Serv05!Listening
    <2>3. Serv05!Cardinality(Serv05!Free) = 0
        BY SameCount, FS_EmptySet
    <2>4. PICK i \in Serv05!Children : x4[i] = 0
        BY <1>1, <1>2, <2>2, <2>3 DEF Serv05!Books, Serv05!Surplus
    <2> QED
        BY <2>4 DEF Serv05!Free
<1>7. Serv05!Books'
    BY <1>1, <1>2, <1>6, BooksKept
<1>8. Serv05!Numbers'
    BY <1>1, <1>2, NumbersKept
<1> QED
    BY <1>5, <1>7, <1>8 DEF Serv05!PassInv

\* Accept gives a connection to a living free child, which is waiting in Read_fd.
LEMMA PassGives ==
    ASSUME Serv05!PassInv, NEW i \in Serv05!Free, ~Serv05!Dead(i), NEW h, h = Head(x5),
           x1 = "accept", x5 # <<>>, x5' = Tail(x5), x1' \in {"select", "scan"},
           x4' = [x4 EXCEPT ![i] = 1], x3' = x3 - 1, x8' = [x8 EXCEPT ![i] = Append(@, h)],
           x2' = x2, x6' = x6, x9' = x9, x10' = x10, x12' = x12
    PROVE  Serv05!PassInv'
<1>1. Serv05!PassType /\ Serv05!Books /\ Serv05!Numbers
    BY DEF Serv05!PassInv
<1>2. i \in Serv05!Children /\ x4[i] = 0
    BY DEF Serv05!Free
<1>3. x8[i] = <<>> /\ x9[i] = 0 /\ x10[i] = "read"
    BY <1>1, <1>2 DEF Serv05!Books, Serv05!Stage
<1>4. /\ h = Serv05!Left + 1 /\ h \in 1..MaxConns /\ x5' \in Seq(Nat)
      /\ Serv05!Left \in Nat /\ Serv05!Left' = Serv05!Left + 1
      /\ \A k \in 1..Len(x5') : x5'[k] = Serv05!Left' + k
    BY <1>1, BacklogShrinks
<1>5. /\ x4 \in [Serv05!Children -> {0, 1}] /\ x8 \in [Serv05!Children -> Seq(Nat)]
    BY <1>1 DEF Serv05!PassType
<1>6. x8' = [x8 EXCEPT ![i] = <<h>>]
    <2>1. Append(x8[i], h) = <<h>>
        BY <1>3, <1>4
    <2> QED
        BY <1>5, <2>1
<1>7. Serv05!PassType'
    <2>1. x4' \in [Serv05!Children -> {0, 1}]
        BY <1>5
    <2>2. <<h>> \in Seq(Nat)
        BY <1>4, ConcurrencyAssumption
    <2>3. x8' \in [Serv05!Children -> Seq(Nat)]
        BY <1>5, <1>6, <2>2
    <2> QED
        BY <1>1, <1>4, <2>1, <2>3 DEF Serv05!PassType
<1>8. Serv05!Books'
    <2>1. Serv05!Free' = Serv05!Free \ {i}
        BY <1>2, <1>5 DEF Serv05!Free
    <2>2. Cardinality(Serv05!Free \ {i}) = Cardinality(Serv05!Free) - 1
        BY <1>2, FreeIsFinite, FS_RemoveElement
    <2>3. x3' >= Serv05!Cardinality(Serv05!Free)' /\ Serv05!Surplus'
        <3>1. PICK n \in Nat : n = Cardinality(Serv05!Free) /\ n = Serv05!Cardinality(Serv05!Free)
            BY FreeIsFinite, SameCount
        <3>2. Serv05!Cardinality(Serv05!Free)' = n - 1
            BY <2>1, <2>2, <3>1, SameCount
        <3>3. x3 \in Int /\ x3 >= n
            BY <1>1, <3>1 DEF Serv05!Books, Serv05!PassType
        <3>4. ASSUME x3 > n
              PROVE  \E j \in Serv05!Children : Serv05!Dead(j)' /\ x4'[j] = 0
            <4>1. PICK j \in Serv05!Children : Serv05!Dead(j) /\ x4[j] = 0
                BY <1>1, <3>1, <3>4 DEF Serv05!Books, Serv05!Surplus
            <4>2. j # i
                BY <4>1
            <4> QED
                BY <1>5, <4>1, <4>2 DEF Serv05!Dead
        <3> QED
            BY <3>2, <3>3, <3>4 DEF Serv05!Surplus
    <2>4. ASSUME NEW j \in Serv05!Children PROVE Serv05!Stage(j)'
        <3>1. CASE j = i
            <4>1. x4'[j] = 1 /\ x8'[j] = <<h>> /\ x9'[j] = 0 /\ x10'[j] = "read"
                BY <1>3, <1>5, <1>6, <3>1
            <4>2. Len(<<h>>) = 1
                OBVIOUS
            <4> QED
                BY <4>1, <4>2 DEF Serv05!Stage
        <3>2. CASE j # i
            <4>1. x4'[j] = x4[j] /\ x8'[j] = x8[j] /\ x9'[j] = x9[j] /\ x10'[j] = x10[j]
                BY <1>5, <1>6, <3>2
            <4>2. Serv05!Stage(j)
                BY <1>1 DEF Serv05!Books
            <4> QED
                BY <4>1, <4>2 DEF Serv05!Stage, Serv05!Dead
        <3> QED
            BY <3>1, <3>2
    <2> QED
        BY <2>3, <2>4 DEF Serv05!Books
<1>9. Serv05!Numbers'
    <2>1. PICK n \in Nat : n = Serv05!Left /\ Serv05!Left' = n + 1 /\ h = n + 1
        BY <1>4
    <2>2. \A c \in Serv05!Conns : c > n => x12[c] = 0
        BY <1>1, <2>1 DEF Serv05!Numbers
    <2>3. \A c \in Serv05!Conns : c > n + 1 => x12'[c] = 0
        BY <2>1, <2>2, ConcurrencyAssumption DEF Serv05!Conns
    <2>4. \A j \in Serv05!Children : x8[j] # <<>> => x8[j][1] \in 1..n /\ x12[x8[j][1]] = 0
        BY <1>1, <2>1 DEF Serv05!Numbers
    <2>5. x12[h] = 0
        BY <1>4, <2>1, <2>2, ConcurrencyAssumption DEF Serv05!Conns
    <2>6. \A j \in Serv05!Children : x8'[j] = IF j = i THEN <<h>> ELSE x8[j]
        BY <1>5, <1>6
    <2>7. <<h>>[1] = h /\ <<h>> # <<>>
        OBVIOUS
    <2>8. ASSUME NEW j \in Serv05!Children, x8'[j] # <<>>
          PROVE  x8'[j][1] \in 1..(n + 1) /\ x12'[x8'[j][1]] = 0
        <3>1. CASE j = i
            <4>1. x8'[j][1] = h
                BY <2>6, <2>7, <3>1, Zenon
            <4>2. h \in 1..(n + 1)
                BY <2>1
            <4> QED
                BY <2>5, <4>1, <4>2, Zenon
        <3>2. CASE j # i
            BY <2>1, <2>4, <2>6, <2>8, <3>2
        <3> QED
            BY <3>1, <3>2
    <2>9. ASSUME NEW j \in Serv05!Children, NEW k \in Serv05!Children, j # k,
                 x8'[j] # <<>>, x8'[k] # <<>>
          PROVE  x8'[j][1] # x8'[k][1]
        <3>1. CASE j = i
            <4>1. x8'[j][1] = n + 1 /\ x8'[k] = x8[k]
                BY <2>1, <2>6, <2>7, <2>9, <3>1, Zenon
            <4> QED
                BY <2>1, <2>4, <2>9, <4>1
        <3>2. CASE k = i
            <4>1. x8'[k][1] = n + 1 /\ x8'[j] = x8[j]
                BY <2>1, <2>6, <2>7, <2>9, <3>2, Zenon
            <4> QED
                BY <2>1, <2>4, <2>9, <4>1
        <3>3. CASE j # i /\ k # i
            BY <1>1, <2>6, <2>9, <3>3 DEF Serv05!Numbers
        <3> QED
            BY <3>1, <3>2, <3>3
    <2>10. Serv05!Left' >= 0 /\ \A k \in 1..Len(x5') : x5'[k] = Serv05!Left' + k
        BY <1>4, <2>1
    <2> QED
        BY <2>1, <2>3, <2>8, <2>9, <2>10 DEF Serv05!Numbers
<1> QED
    BY <1>7, <1>8, <1>9 DEF Serv05!PassInv

\* Accept gives a connection to a dead child, marked free by the last bytes it wrote.
LEMMA PassGivesDead ==
    ASSUME Serv05!PassInv, NEW i \in Serv05!Free, Serv05!Dead(i),
           x5 # <<>>, x5' = Tail(x5), x1' = "died",
           x4' = [x4 EXCEPT ![i] = 1], x3' = x3 - 1, x8' = x8,
           x2' = x2, x6' = x6, x9' = x9, x10' = x10, x12' = x12
    PROVE  Serv05!PassInv'
<1>1. Serv05!PassType /\ Serv05!Books /\ Serv05!Numbers
    BY DEF Serv05!PassInv
<1>2. i \in Serv05!Children /\ x4 \in [Serv05!Children -> {0, 1}] /\ x3 \in Int
    BY <1>1 DEF Serv05!Free, Serv05!PassType
<1>3. Serv05!PassType'
    <2>1. x5' \in Seq(Nat)
        BY <1>1, BacklogShrinks
    <2>2. x4' \in [Serv05!Children -> {0, 1}] /\ x3' \in Int
        BY <1>2
    <2> QED
        BY <1>1, <2>1, <2>2 DEF Serv05!PassType
<1>4. x3' >= Serv05!Cardinality(Serv05!Free)'
    <2>1. Serv05!Free' = Serv05!Free \ {i}
        BY <1>2 DEF Serv05!Free
    <2>2. Cardinality(Serv05!Free \ {i}) = Cardinality(Serv05!Free) - 1
        BY FreeIsFinite, FS_RemoveElement
    <2>3. x3 >= Cardinality(Serv05!Free) /\ Cardinality(Serv05!Free) \in Nat
        BY <1>1, SameCount, FreeIsFinite DEF Serv05!Books
    <2> QED
        BY <1>2, <2>1, <2>2, <2>3, SameCount
<1>5. ASSUME NEW j \in Serv05!Children PROVE Serv05!Stage(j)'
    <2>1. Serv05!Stage(j)
        BY <1>1 DEF Serv05!Books
    <2>2. CASE j = i
        BY <2>1, <2>2 DEF Serv05!Stage, Serv05!Dead
    <2>3. CASE j # i
        <3>1. x4'[j] = x4[j]
            BY <1>2, <2>3
        <3> QED
            BY <2>1, <3>1 DEF Serv05!Stage, Serv05!Dead
    <2> QED
        BY <2>2, <2>3
<1>6. Serv05!Books'
    BY <1>2, <1>4, <1>5 DEF Serv05!Books, Serv05!Surplus, Serv05!Dead
<1>7. Serv05!Numbers'
    BY <1>1, BacklogPassed
<1> QED
    BY <1>3, <1>6, <1>7 DEF Serv05!PassInv

\* Accept fails, or finds a free child.
LEMMA PassAccepts == Serv05!PassInv /\ Serv05!Accept => Serv05!PassInv'
<1> SUFFICES ASSUME Serv05!PassInv, Serv05!Accept PROVE Serv05!PassInv'
    OBVIOUS
<1>1. Serv05!PassType /\ Serv05!Books /\ Serv05!Numbers
    BY DEF Serv05!PassInv
<1>2. /\ x1 = "accept" /\ x5 # <<>> /\ x6' = x6
      /\ x2' = x2 /\ x9' = x9 /\ x10' = x10 /\ x12' = x12
    BY DEF Serv05!Accept
<1>3. Serv05!Free # {} /\ Serv05!Free \in SUBSET Nat
    BY <1>1, <1>2, FreeIsFinite DEF Serv05!Books
<1>4. PICK i : i = Serv05!Min(Serv05!Free)
    OBVIOUS
<1>5. i \in Serv05!Free
    BY <1>3, <1>4, LeastIsMember
<1>6. \/ x1' = "died" /\ x5' = x5 /\ x3' = x3 /\ x4' = x4 /\ x8' = x8
      \/ /\ x5' = Tail(x5) /\ x4' = [x4 EXCEPT ![i] = 1] /\ x3' = x3 - 1
         /\ IF x10[i] = "dead" THEN x1' = "died" /\ x8' = x8
            ELSE /\ x1' = IF x2 = {0} THEN "select" ELSE "scan"
                 /\ x8' = [x8 EXCEPT ![i] = Append(@, Head(x5))]
    BY <1>3, <1>4, Zenon DEF Serv05!Accept, Serv05!Free
<1>7. CASE x1' = "died" /\ x5' = x5 /\ x3' = x3 /\ x4' = x4 /\ x8' = x8
    <2>1. Serv05!PassType'
        BY <1>1, <1>2, <1>7 DEF Serv05!PassType
    <2>2. Serv05!Books'
        BY <1>1, <1>2, <1>7, BooksKept
    <2>3. Serv05!Numbers'
        BY <1>1, <1>2, <1>7, NumbersKept
    <2> QED
        BY <2>1, <2>2, <2>3 DEF Serv05!PassInv
<1>8. CASE /\ x5' = Tail(x5) /\ x4' = [x4 EXCEPT ![i] = 1] /\ x3' = x3 - 1
           /\ x10[i] = "dead" /\ x1' = "died" /\ x8' = x8
    BY <1>2, <1>5, <1>8, PassGivesDead DEF Serv05!Dead
<1>9. CASE /\ x5' = Tail(x5) /\ x4' = [x4 EXCEPT ![i] = 1] /\ x3' = x3 - 1
           /\ x10[i] # "dead" /\ x1' \in {"select", "scan"}
           /\ x8' = [x8 EXCEPT ![i] = Append(@, Head(x5))]
    BY <1>2, <1>5, <1>9, PassGives DEF Serv05!Dead
<1> QED
    BY <1>6, <1>7, <1>8, <1>9

\* Scan: the children whose byte is read were busy, or have died, and become free.
LEMMA PassScans == Serv05!PassInv /\ Serv05!Scan => Serv05!PassInv'
<1> SUFFICES ASSUME Serv05!PassInv, Serv05!Scan PROVE Serv05!PassInv'
    OBVIOUS
<1>1. Serv05!PassType /\ Serv05!Books /\ Serv05!Numbers
    BY DEF Serv05!PassInv
<1>2. PICK told : told = {i \in x2 \ {0} : x9[i] > 0}
    OBVIOUS
<1>3. /\ x1 = "scan" /\ x1' \in {"select", "died"}
      /\ x9' = [i \in Serv05!Children |-> IF i \in told THEN x9[i] - 1 ELSE x9[i]]
      /\ x4' = [i \in Serv05!Children |-> IF i \in told THEN 0 ELSE x4[i]]
      /\ x3' = x3 + Serv05!Cardinality(told)
      /\ x2' = x2 /\ x5' = x5 /\ x6' = x6 /\ x8' = x8 /\ x10' = x10 /\ x12' = x12
    BY <1>2 DEF Serv05!Scan
<1>4. /\ x2 \subseteq 0..NChildren /\ x4 \in [Serv05!Children -> {0, 1}]
      /\ x9 \in [Serv05!Children -> Nat] /\ x3 \in Int
    BY <1>1 DEF Serv05!PassType
<1>5. told \in SUBSET (1..NChildren) /\ told \in SUBSET Serv05!Children
    <2> SUFFICES ASSUME NEW i \in told PROVE i \in 1..NChildren
        BY FreeIsFinite
    <2>1. i \in 0..NChildren /\ i # 0
        BY <1>2, <1>4
    <2> QED
        BY <2>1, FreeIsFinite
<1>6. ASSUME NEW i \in told
      PROVE  /\ x8[i] = <<>> /\ x9[i] > 0
             /\ x10[i] = "dead" \/ (x9[i] = 1 /\ x4[i] = 1 /\ x10[i] = "read")
    <2>1. i \in Serv05!Children /\ x9[i] > 0 /\ x9[i] \in Nat
        BY <1>2, <1>4, <1>5
    <2>2. Serv05!Stage(i)
        BY <1>1, <2>1 DEF Serv05!Books
    <2> QED
        BY <2>1, <2>2 DEF Serv05!Stage, Serv05!Dead
<1>7. IsFiniteSet(told) /\ Cardinality(told) \in Nat
    <2>1. IsFiniteSet(1..NChildren)
        BY FreeIsFinite, FS_Interval
    <2>2. IsFiniteSet(told)
        BY <1>5, <2>1, FS_Subset
    <2> QED
        BY <2>2, FS_CardinalityType
<1>8. Serv05!PassType'
    <2>1. x9' \in [Serv05!Children -> Nat]
        BY <1>3, <1>4, <1>6
    <2>2. x4' \in [Serv05!Children -> {0, 1}]
        BY <1>3, <1>4
    <2>3. x3' \in Int
        BY <1>3, <1>4, <1>7, SameCount
    <2> QED
        BY <1>1, <1>3, <2>1, <2>2, <2>3 DEF Serv05!PassType
<1>9. Serv05!Books'
    <2>1. Serv05!Free' = Serv05!Free \cup told
        BY <1>3, <1>5 DEF Serv05!Free
    <2>2. PICK f \in Nat : f = Cardinality(Serv05!Free) /\ f = Serv05!Cardinality(Serv05!Free)
        BY FreeIsFinite, SameCount
    <2>3. PICK t \in Nat : t = Cardinality(told) /\ x3' = x3 + t
        BY <1>3, <1>7, SameCount
    <2>4. PICK b \in Nat : b = Cardinality(Serv05!Free \cap told)
        <3>1. IsFiniteSet(Serv05!Free \cap told)
            BY FreeIsFinite, FS_Intersection
        <3> QED
            BY <3>1, FS_CardinalityType
    <2>5. Serv05!Cardinality(Serv05!Free)' = f + t - b
        <3>1. Cardinality(Serv05!Free \cup told) = f + t - b
            BY <1>7, <2>2, <2>3, <2>4, FreeIsFinite, FS_Union
        <3>2. Serv05!Cardinality(Serv05!Free \cup told) = Cardinality(Serv05!Free \cup told)
            BY SameCount
        <3> QED
            BY <2>1, <3>1, <3>2
    <2>6. x3 >= f
        BY <1>1, <2>2 DEF Serv05!Books
    <2>7. x3' >= Serv05!Cardinality(Serv05!Free)'
        BY <1>4, <2>3, <2>5, <2>6
    <2>8. ASSUME x3' > f + t - b
          PROVE  \E j \in Serv05!Children : Serv05!Dead(j)' /\ x4'[j] = 0
        <3>1. CASE Serv05!Free \cap told = {}
            <4>1. b = 0
                BY <2>4, <3>1, FS_EmptySet
            <4>2. x3 > f
                BY <1>4, <2>3, <2>8, <4>1
            <4>3. PICK j \in Serv05!Children : Serv05!Dead(j) /\ x4[j] = 0
                BY <1>1, <1>3, <2>2, <4>2 DEF Serv05!Books, Serv05!Surplus
            <4> QED
                BY <1>3, <4>3 DEF Serv05!Dead
        <3>2. CASE Serv05!Free \cap told # {}
            <4>1. PICK j : j \in Serv05!Free /\ j \in told
                BY <3>2
            <4>2. j \in Serv05!Children /\ x10[j] = "dead"
                BY <1>6, <4>1 DEF Serv05!Free
            <4> QED
                BY <1>3, <4>1, <4>2 DEF Serv05!Dead
        <3> QED
            BY <3>1, <3>2
    <2>9. Serv05!Surplus'
        BY <2>5, <2>8 DEF Serv05!Surplus
    <2>10. ASSUME NEW j \in Serv05!Children PROVE Serv05!Stage(j)'
        <3>1. Serv05!Stage(j)
            BY <1>1 DEF Serv05!Books
        <3>2. CASE j \in told
            <4>1. x9'[j] = x9[j] - 1 /\ x4'[j] = 0 /\ x8'[j] = <<>> /\ x10'[j] = x10[j]
                BY <1>3, <1>6, <3>2
            <4>2. CASE x10[j] = "dead"
                BY <4>1, <4>2 DEF Serv05!Stage, Serv05!Dead
            <4>3. CASE x9[j] = 1 /\ x10[j] = "read"
                <5>1. x9'[j] = 0
                    BY <4>1, <4>3
                <5> QED
                    BY <4>1, <4>3, <5>1 DEF Serv05!Stage
            <4> QED
                BY <1>6, <3>2, <4>2, <4>3
        <3>3. CASE j \notin told
            <4>1. x9'[j] = x9[j] /\ x4'[j] = x4[j]
                BY <1>3, <3>3
            <4> QED
                BY <1>3, <3>1, <4>1 DEF Serv05!Stage, Serv05!Dead
        <3> QED
            BY <3>2, <3>3
    <2> QED
        BY <1>3, <2>7, <2>9, <2>10 DEF Serv05!Books
<1>10. Serv05!Numbers'
    BY <1>1, <1>3, NumbersKept
<1> QED
    BY <1>8, <1>9, <1>10 DEF Serv05!PassInv

\* A child's step changes its own stage and leaves the parent's books alone.
LEMMA OwnStage ==
    ASSUME Serv05!Books, NEW i \in Serv05!Children, Serv05!Stage(i)', ~Serv05!Dead(i),
           x1' = x1, x3' = x3, x4' = x4,
           \A j \in Serv05!Children :
               j # i => x8'[j] = x8[j] /\ x9'[j] = x9[j] /\ x10'[j] = x10[j]
    PROVE  Serv05!Books'
<1>1. ASSUME NEW j \in Serv05!Children PROVE Serv05!Stage(j)'
    <2>1. Serv05!Stage(j)
        BY DEF Serv05!Books
    <2>2. CASE j = i
        BY <2>2
    <2>3. CASE j # i
        <3>1. x8'[j] = x8[j] /\ x9'[j] = x9[j] /\ x10'[j] = x10[j]
            BY <2>3
        <3> QED
            BY <2>1, <3>1 DEF Serv05!Stage, Serv05!Dead
    <2> QED
        BY <2>2, <2>3
<1>2. Serv05!Free' = Serv05!Free
    BY DEF Serv05!Free
<1>3. \A j \in Serv05!Children : Serv05!Dead(j) => Serv05!Dead(j)'
    BY DEF Serv05!Dead
<1>4. Serv05!Surplus'
    BY <1>2, <1>3 DEF Serv05!Books, Serv05!Surplus
<1> QED
    BY <1>1, <1>2, <1>4 DEF Serv05!Books

\* Read_fd: the connection leaves the pipe and is given out for the first time.
LEMMA PassReads ==
    ASSUME Serv05!PassInv, NEW i \in Serv05!Children, Serv05!Read_fd(i)
    PROVE  Serv05!PassInv'
<1>1. Serv05!PassType /\ Serv05!Books /\ Serv05!Numbers
    BY DEF Serv05!PassInv
<1>2. PICK h : h = Head(x8[i])
    OBVIOUS
<1>3. /\ x10[i] = "read" /\ x8[i] # <<>> /\ x8' = [x8 EXCEPT ![i] = Tail(@)]
      /\ x12' = [x12 EXCEPT ![h] = @ + 1] /\ x10' = [x10 EXCEPT ![i] = "web"]
      /\ x1' = x1 /\ x2' = x2 /\ x3' = x3 /\ x4' = x4 /\ x5' = x5 /\ x6' = x6 /\ x9' = x9
    BY <1>2 DEF Serv05!Read_fd
<1>4. /\ x8 \in [Serv05!Children -> Seq(Nat)] /\ x12 \in [Serv05!Conns -> {0, 1}]
      /\ x10 \in [Serv05!Children -> {"read", "web", "tell", "dead"}]
      /\ x6 \in 0..MaxConns /\ x5 \in Seq(Nat) /\ MaxConns \in Nat
      /\ Serv05!Conns = 1..MaxConns
    BY <1>1, ConcurrencyAssumption DEF Serv05!PassType, Serv05!Conns
<1>5. Len(x8[i]) = 1 /\ x9[i] = 0 /\ x4[i] = 1
    <2>1. Serv05!Stage(i)
        BY <1>1 DEF Serv05!Books
    <2> QED
        BY <1>3, <2>1 DEF Serv05!Stage, Serv05!Dead
<1>6. h = x8[i][1] /\ Tail(x8[i]) = <<>>
    <2>1. x8[i] \in Seq(Nat)
        BY <1>4
    <2>2. h = x8[i][1]
        BY <1>2, <1>3, <2>1
    <2>3. Tail(x8[i]) \in Seq(Nat) /\ Len(Tail(x8[i])) = 0
        BY <1>3, <1>5, <2>1
    <2>4. Tail(x8[i]) = <<>>
        BY <2>3, EmptySeq
    <2> QED
        BY <2>2, <2>4
<1>7. PICK n \in Nat : n = Serv05!Left /\ n <= MaxConns /\ n = Serv05!Left'
    <2>1. Len(x5) \in Nat
        BY <1>4
    <2>2. Serv05!Left = x6 - Len(x5) /\ Serv05!Left >= 0 /\ Serv05!Left' = Serv05!Left
        BY <1>1, <1>3 DEF Serv05!Left, Serv05!Numbers
    <2>3. Serv05!Left \in Nat /\ Serv05!Left <= MaxConns
        BY <1>4, <2>1, <2>2
    <2> QED
        BY <2>2, <2>3, Zenon
<1>8. h \in 1..n /\ h \in Serv05!Conns /\ x12[h] = 0
    <2>1. h \in 1..n /\ x12[h] = 0
        BY <1>1, <1>3, <1>6, <1>7 DEF Serv05!Numbers
    <2> QED
        BY <1>4, <1>7, <2>1
<1>9. x8' = [x8 EXCEPT ![i] = <<>>] /\ x12' = [x12 EXCEPT ![h] = 1]
    <2>1. x12[h] + 1 = 1
        BY <1>8
    <2> QED
        BY <1>3, <1>4, <1>6, <1>8, <2>1
<1>10. Serv05!PassType'
    <2>1. x8' \in [Serv05!Children -> Seq(Nat)]
        BY <1>4, <1>9
    <2>2. x12' \in [Serv05!Conns -> {0, 1}]
        BY <1>4, <1>9
    <2>3. x10' \in [Serv05!Children -> {"read", "web", "tell", "dead"}]
        BY <1>3, <1>4
    <2> QED
        BY <1>1, <1>3, <2>1, <2>2, <2>3 DEF Serv05!PassType
<1>11. Serv05!Books'
    <2>1. x8'[i] = <<>> /\ x10'[i] = "web" /\ x9'[i] = 0 /\ x4'[i] = 1
        BY <1>3, <1>4, <1>5, <1>9
    <2>2. Serv05!Stage(i)'
        BY <2>1 DEF Serv05!Stage
    <2>3. \A j \in Serv05!Children :
              j # i => x8'[j] = x8[j] /\ x9'[j] = x9[j] /\ x10'[j] = x10[j]
        BY <1>3, <1>4, <1>9
    <2> QED
        BY <1>1, <1>3, <2>2, <2>3, OwnStage DEF Serv05!Dead
<1>12. Serv05!Numbers'
    <2>1. \A c \in Serv05!Conns : c > n => x12'[c] = 0
        <3>1. \A c \in Serv05!Conns : c > n => x12[c] = 0
            BY <1>1, <1>7 DEF Serv05!Numbers
        <3>2. \A c \in Serv05!Conns : c > n => c # h
            BY <1>4, <1>7, <1>8
        <3> QED
            BY <1>4, <1>9, <3>1, <3>2
    <2>2. \A j \in Serv05!Children : x8'[j] = IF j = i THEN <<>> ELSE x8[j]
        BY <1>4, <1>9
    <2>3. ASSUME NEW j \in Serv05!Children, x8'[j] # <<>>
          PROVE  x8'[j][1] \in 1..n /\ x12'[x8'[j][1]] = 0
        <3>1. j # i /\ x8'[j] = x8[j]
            BY <2>2, <2>3
        <3>2. x8[j][1] \in 1..n /\ x12[x8[j][1]] = 0 /\ x8[j][1] # h
            BY <1>1, <1>3, <1>6, <1>7, <2>3, <3>1 DEF Serv05!Numbers
        <3>3. x8[j][1] \in Serv05!Conns
            BY <1>4, <1>7, <3>2
        <3> QED
            BY <1>4, <1>9, <3>1, <3>2, <3>3
    <2>4. ASSUME NEW j \in Serv05!Children, NEW k \in Serv05!Children, j # k,
                 x8'[j] # <<>>, x8'[k] # <<>>
          PROVE  x8'[j][1] # x8'[k][1]
        <3>1. x8'[j] = x8[j] /\ x8'[k] = x8[k]
            BY <2>2, <2>4
        <3> QED
            BY <1>1, <2>4, <3>1 DEF Serv05!Numbers
    <2>5. Serv05!Left' >= 0 /\ \A k \in 1..Len(x5') : x5'[k] = Serv05!Left' + k
        BY <1>1, <1>3, <1>7 DEF Serv05!Numbers
    <2> QED
        BY <1>7, <2>1, <2>3, <2>4, <2>5 DEF Serv05!Numbers
<1> QED
    BY <1>10, <1>11, <1>12 DEF Serv05!PassInv

LEMMA PassStep == Serv05!PassInv /\ Serv05!Next => Serv05!PassInv'
<1> SUFFICES ASSUME Serv05!PassInv, Serv05!Next PROVE Serv05!PassInv'
    OBVIOUS
<1>1. Serv05!PassType /\ Serv05!Books /\ Serv05!Numbers
    BY DEF Serv05!PassInv
<1>2. x1 = "accept" => Serv05!Free # {}
    BY <1>1 DEF Serv05!Books
<1>3. CASE Serv05!Arrive
    <2>1. /\ x6 < MaxConns /\ x6' = x6 + 1 /\ x5' = Append(x5, x6 + 1) /\ x1' = x1
          /\ x2' = x2 /\ x3' = x3 /\ x4' = x4 /\ x8' = x8 /\ x9' = x9 /\ x10' = x10 /\ x12' = x12
        BY <1>3 DEF Serv05!Arrive
    <2>2. x5 \in Seq(Nat) /\ x6 \in 0..MaxConns /\ MaxConns \in Nat
        BY <1>1, ConcurrencyAssumption DEF Serv05!PassType
    <2>3. x6' \in 0..MaxConns
        BY <2>1, <2>2
    <2>4. x5' \in Seq(Nat)
        BY <2>1, <2>2
    <2>5. Serv05!PassType'
        BY <1>1, <2>1, <2>3, <2>4 DEF Serv05!PassType
    <2>6. Serv05!Books'
        BY <1>1, <1>2, <2>1, BooksKept
    <2>7. Serv05!Numbers'
        BY <1>1, <2>1, BacklogGrows
    <2> QED
        BY <2>5, <2>6, <2>7 DEF Serv05!PassInv
<1>4. CASE Serv05!Abort
    <2>1. /\ x5 # <<>> /\ x5' = Tail(x5) /\ x6' = x6 /\ x1' = x1
          /\ x2' = x2 /\ x3' = x3 /\ x4' = x4 /\ x8' = x8 /\ x9' = x9 /\ x10' = x10 /\ x12' = x12
        BY <1>4 DEF Serv05!Abort
    <2>2. /\ Serv05!Left \in Nat /\ x5' \in Seq(Nat) /\ Serv05!Left' = Serv05!Left + 1
          /\ \A k \in 1..Len(x5') : x5'[k] = Serv05!Left' + k
        BY <1>1, <2>1, BacklogShrinks
    <2>3. Serv05!PassType'
        BY <1>1, <2>1, <2>2 DEF Serv05!PassType
    <2>4. Serv05!Books'
        BY <1>1, <1>2, <2>1, BooksKept
    <2>6. Serv05!Numbers'
        BY <1>1, <2>1, BacklogPassed
    <2> QED
        BY <2>3, <2>4, <2>6 DEF Serv05!PassInv
<1>5. CASE Serv05!Select
    BY <1>5, PassSelects
<1>6. CASE Serv05!Accept
    BY <1>6, PassAccepts
<1>7. CASE Serv05!Scan
    BY <1>7, PassScans
<1>8. ASSUME NEW i \in Serv05!Children, Serv05!Read_fd(i) PROVE Serv05!PassInv'
    BY <1>8, PassReads
<1>9. ASSUME NEW i \in Serv05!Children, Serv05!web_child(i) \/ Serv05!Write(i)
      PROVE  Serv05!PassInv'
    <2>1. /\ x1' = x1 /\ x2' = x2 /\ x3' = x3 /\ x4' = x4 /\ x5' = x5 /\ x6' = x6
          /\ x8' = x8 /\ x12' = x12
        BY <1>9 DEF Serv05!web_child, Serv05!Write
    <2>2. PICK m \in Nat, to \in {"tell", "dead", "read"} :
              /\ x9' = [x9 EXCEPT ![i] = @ + m] /\ x10' = [x10 EXCEPT ![i] = to]
              /\ \/ x10[i] = "web" /\ to = "tell" /\ m = 0
                 \/ x10[i] = "web" /\ to = "dead"
                 \/ x10[i] = "tell" /\ to = "read" /\ m = 1
        <3>1. x9 \in [Serv05!Children -> Nat] /\ {0, MsgLen} \subseteq Nat
            BY <1>1, ConcurrencyAssumption DEF Serv05!PassType
        <3>2. x9 = [x9 EXCEPT ![i] = @ + 0]
            BY <3>1
        <3> QED
            BY <1>9, <3>1, <3>2 DEF Serv05!web_child, Serv05!Write
    <2>3. /\ x9 \in [Serv05!Children -> Nat]
          /\ x10 \in [Serv05!Children -> {"read", "web", "tell", "dead"}]
        BY <1>1 DEF Serv05!PassType
    <2>4. x4[i] = 1 /\ x8[i] = <<>> /\ x9[i] = 0 /\ ~Serv05!Dead(i)
        <3>1. Serv05!Stage(i)
            BY <1>1 DEF Serv05!Books
        <3>2. x10[i] \in {"web", "tell"}
            BY <2>2
        <3> QED
            BY <3>1, <3>2 DEF Serv05!Stage, Serv05!Dead
    <2>5. /\ \A j \in Serv05!Children : j # i => x9'[j] = x9[j] /\ x10'[j] = x10[j]
          /\ x9'[i] = m /\ x10'[i] = to
          /\ x9' \in [Serv05!Children -> Nat]
          /\ x10' \in [Serv05!Children -> {"read", "web", "tell", "dead"}]
        BY <2>2, <2>3, <2>4
    <2>6. Serv05!Stage(i)'
        BY <2>1, <2>2, <2>4, <2>5 DEF Serv05!Stage, Serv05!Dead
    <2>7. Serv05!Books'
        BY <1>1, <2>1, <2>4, <2>5, <2>6, OwnStage
    <2>8. Serv05!PassType'
        BY <1>1, <2>1, <2>5 DEF Serv05!PassType
    <2>9. Serv05!Numbers'
        BY <1>1, <2>1, NumbersKept
    <2> QED
        BY <2>7, <2>8, <2>9 DEF Serv05!PassInv
<1> QED
    BY <1>3, <1>4, <1>5, <1>6, <1>7, <1>8, <1>9 DEF Serv05!Next, Serv05!Parent, Serv05!Child

LEMMA PassCounts == Serv05!PassInv => Serv05!OneChildEach
<1> SUFFICES ASSUME Serv05!PassInv PROVE Serv05!OneChildEach
    OBVIOUS
<1>1. Serv05!PassType /\ Serv05!Books
    BY DEF Serv05!PassInv
<1>2. \A c \in Serv05!Conns : x12[c] <= 1
    <2>1. x12 \in [Serv05!Conns -> {0, 1}]
        BY <1>1 DEF Serv05!PassType
    <2> QED
        BY <2>1
<1>3. x1 # "none"
    BY <1>1 DEF Serv05!PassType
<1>4. \A i \in Serv05!Children :
          x4[i] = 0 /\ ~Serv05!Dead(i) => x8[i] = <<>> /\ x9[i] = 0 /\ x10[i] = "read"
    BY <1>1 DEF Serv05!Books, Serv05!Stage
<1>5. /\ x3 >= Serv05!Cardinality(Serv05!Free)
      /\ x3 > Serv05!Cardinality(Serv05!Free) => \E i \in Serv05!Children : Serv05!Dead(i)
    BY <1>1 DEF Serv05!Books, Serv05!Surplus
<1> QED
    BY <1>2, <1>3, <1>4, <1>5 DEF Serv05!OneChildEach

----------------------------------------------------------------------------
\* The invariants of the components together are an invariant of the composition:
\* a step belongs to the component that runs.
THEOREM ConcurrencyInvariant == Spec => []ConcurrencyInv
<1>1. Init => ConcurrencyInv
    BY RttInitial, RingInitial, PassInitial, PoolInitial DEF Init, ConcurrencyInv
<1>2. ConcurrencyInv /\ [Next]_vars => ConcurrencyInv'
    <2> SUFFICES ASSUME ConcurrencyInv, [Next]_vars PROVE ConcurrencyInv'
        OBVIOUS
    <2> USE DEF ConcurrencyInv
    <2>1. CASE RttRest /\ Rtt!Next
        BY <2>1, RttStep DEF RttRest, Only
    <2>2. CASE Only("sigio") /\ Sigio!Next
        BY <2>2, RingStep DEF Only
    <2>3. CASE AlarmRest /\ Alarm!Next
        BY <2>3 DEF AlarmRest, Only
    <2>4. CASE Only("serv05") /\ Serv05!Next
        BY <2>4, PassStep DEF Only
    <2>5. CASE Serv08Rest /\ Serv08!Next
        BY <2>5, PoolStep DEF Serv08Rest, Only
    <2>6. CASE WebRest /\ Web!Next
        BY <2>6 DEF WebRest, Only
    <2>7. CASE UNCHANGED vars
        <3>1. /\ part' = part /\ x1' = x1 /\ x2' = x2 /\ x3' = x3 /\ x4' = x4 /\ x5' = x5
              /\ x6' = x6 /\ x7' = x7 /\ x8' = x8 /\ x9' = x9 /\ x10' = x10 /\ x11' = x11
              /\ x12' = x12
            BY <2>7 DEF vars
        <3>2. part = "rtt" => Rtt!RttInv'
            BY <3>1 DEF Rtt!RttInv, Rtt!ReturnsClean
        <3>3. part = "sigio" => Sigio!RingInv'
            BY <3>1 DEF Sigio!RingInv, Sigio!RingType, Sigio!RingHolds, Sigio!Agree,
                        Sigio!Done, Sigio!Slot
        <3>4. part = "serv05" => Serv05!PassInv'
            BY <3>1 DEF Serv05!PassInv, Serv05!PassType, Serv05!Books, Serv05!Numbers,
                        Serv05!Free, Serv05!Stage, Serv05!Surplus, Serv05!Dead, Serv05!Left
        <3>5. part = "serv08" => Serv08!PoolInv'
            BY <3>1 DEF Serv08!PoolInv, Serv08!PoolType, Serv08!PoolOrder,
                        Serv08!Taken, Serv08!Waits
        <3> QED
            BY <3>1, <3>2, <3>3, <3>4, <3>5
    <2> QED
        BY <2>1, <2>2, <2>3, <2>4, <2>5, <2>6, <2>7 DEF Next
<1> QED
    BY <1>1, <1>2, PTL DEF Spec

\* ReturnsClean: dg_send_recv returns the reply to its own request, with no alarm left
\* running, however late or often the network delivers datagrams.
THEOREM CallsReturnClean == Spec => []ReturnsClean
<1>1. ConcurrencyInv => ReturnsClean
    BY DEF ConcurrencyInv, ReturnsClean, Rtt!RttInv
<1> QED
    BY <1>1, ConcurrencyInvariant, PTL

\* EchoesInOrder: the signal-driven server echoes what it read, in order and unaltered,
\* for a ring of any size, whenever SIGIO interrupts the main loop.
THEOREM DatagramsInOrder == Spec => []EchoesInOrder
<1>1. ConcurrencyInv => EchoesInOrder
    BY RingInOrder DEF ConcurrencyInv, EchoesInOrder
<1> QED
    BY <1>1, ConcurrencyInvariant, PTL

\* ServedOnce: with any number of children, threads and connections, serv05.c and
\* serv08.c give every connection to at most one of them, and the books they keep about
\* the children and threads that live are right, whatever a child's last message does.
THEOREM ConnectionsServedOnce == Spec => []ServedOnce
<1>1. ConcurrencyInv => ServedOnce
    BY PassCounts, PoolCounts DEF ConcurrencyInv, ServedOnce
<1> QED
    BY <1>1, ConcurrencyInvariant, PTL
============================================================================
