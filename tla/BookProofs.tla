----------------------------- MODULE BookProofs ----------------------------
(***************************************************************************)
(* The sequential code: inet_ntop and inet_pton on addresses of any eight  *)
(* words, and getaddrinfo for hosts with any number of addresses. What the *)
(* invariants of MCBook say about the first two is proved from one         *)
(* inductive invariant, which follows the scan for the longest run of      *)
(* zeros, the tokens written and the tokens read back; what they say about *)
(* the third from one that follows the list the searches build, and from   *)
(* lemmas on FlattenSeq, through which ga_port and the reference result    *)
(* are defined.                                                            *)
(***************************************************************************)
EXTENDS MCBook, SequenceTheorems, WellFoundedInduction, TLAPS

\* The run that is taken when the words scanned so far end it.
RunEnded == IF cur.base = -1 THEN best ELSE A!Longer

\* Runs in front of the current one, and parts of it: a run of zeros that ends before
\* word i does not reach over the word in front of the current run.
LEMMA RunSides ==
    ASSUME NEW c \in 0..7, c > 0 => words[c - 1] # 0,
           NEW b \in 0..7, NEW l \in 1..8, A!ZeroRun(b, l)
    PROVE  b + l <= c \/ b >= c
<1> SUFFICES ASSUME b + l > c, b < c PROVE FALSE
    OBVIOUS
<1>1. c - 1 \in b..(b + l - 1) /\ c > 0
    OBVIOUS
<1> QED
    BY <1>1 DEF A!ZeroRun

\* inet_ntop6: with the current run ended at word i, the longer of it and the best one
\* is the first of the longest runs of zeros among the words before i.
LEMMA EndsRun ==
    ASSUME phase = "scan", A!ScanInv
    PROVE  A!BestRun(RunEnded, 1, i) /\ A!FirstLongest(RunEnded, 1, i)
<1>1. /\ i \in 0..8 /\ A!CurInv
      /\ A!BestRun(best, 1, A!Start) /\ A!FirstLongest(best, 1, A!Start)
    BY DEF A!ScanInv
<1>2. CASE cur = A!NoRun
    <2>1. cur.base = -1
        BY <1>2 DEF A!NoRun
    <2>2. A!Start = i /\ RunEnded = best
        BY <2>1 DEF A!Start, RunEnded
    <2> QED
        BY <1>1, <2>2
<1>3. CASE cur # A!NoRun
    <2>1. PICK c \in 0..7 : /\ c < i /\ cur = A!Run(c, i - c) /\ A!ZeroRun(c, i - c)
                            /\ c > 0 => words[c - 1] # 0
        BY <1>1, <1>3 DEF A!CurInv, A!Range08
    <2>2. cur.base = c /\ cur.len = i - c /\ c # -1 /\ i - c \in 1..8
        BY <1>1, <2>1 DEF A!Run
    <2>3. A!Start = c
        BY <2>2 DEF A!Start
    <2>4. A!BestRun(cur, 1, i)
        BY <1>1, <2>1, <2>2 DEF A!BestRun, A!Range08
    <2>5. CASE best = A!NoRun
        <3>1. best.base = -1 /\ best.len = 0
            BY <2>5 DEF A!NoRun
        <3>2. RunEnded = cur
            BY <2>2, <3>1 DEF RunEnded, A!Longer
        <3>3. ASSUME NEW b \in 0..7, NEW l \in 1..8, b + l <= i, A!ZeroRun(b, l)
              PROVE  cur.base # -1 /\ l <= cur.len /\ (l = cur.len => cur.base <= b)
            <4>1. ~(b + l <= c)
                BY <1>1, <2>3, <3>1, <3>3 DEF A!FirstLongest, A!Range08
            <4>2. b >= c
                BY <2>1, <3>3, <4>1, RunSides
            <4> QED
                BY <1>1, <2>2, <3>3, <4>2
        <3>4. A!FirstLongest(cur, 1, i)
            BY <3>3 DEF A!FirstLongest, A!Range08
        <3> QED
            BY <2>4, <3>2, <3>4
    <2>6. CASE best # A!NoRun
        <3>1. PICK d \in 0..7, m \in 1..8 :
                 best = A!Run(d, m) /\ d + m <= c /\ A!ZeroRun(d, m)
            BY <1>1, <2>3, <2>6 DEF A!BestRun, A!Range08
        <3>2. best.base = d /\ best.len = m /\ d # -1
            BY <3>1 DEF A!Run
        <3>3. RunEnded = IF i - c > m THEN cur ELSE best
            BY <2>2, <3>2 DEF RunEnded, A!Longer
        <3>4. ASSUME NEW b \in 0..7, NEW l \in 1..8, b + l <= i, A!ZeroRun(b, l)
              PROVE  \/ b + l <= c /\ l <= m /\ (l = m => d <= b)
                     \/ b >= c /\ l <= i - c
            <4>1. b + l <= c => l <= m /\ (l = m => d <= b)
                BY <1>1, <2>3, <3>2, <3>4 DEF A!FirstLongest, A!Range08
            <4>2. b + l <= c \/ b >= c
                BY <2>1, <3>4, RunSides
            <4> QED
                BY <1>1, <2>1, <3>4, <4>1, <4>2
        <3>5. CASE i - c > m
            <4>1. ASSUME NEW b \in 0..7, NEW l \in 1..8, b + l <= i, A!ZeroRun(b, l)
                  PROVE  cur.base # -1 /\ l <= cur.len /\ (l = cur.len => cur.base <= b)
                BY <1>1, <2>1, <2>2, <3>1, <3>4, <3>5, <4>1
            <4>2. A!FirstLongest(cur, 1, i)
                BY <4>1 DEF A!FirstLongest, A!Range08
            <4> QED
                BY <2>4, <3>3, <3>5, <4>2
        <3>6. CASE ~(i - c > m)
            <4>1. ASSUME NEW b \in 0..7, NEW l \in 1..8, b + l <= i, A!ZeroRun(b, l)
                  PROVE  best.base # -1 /\ l <= best.len /\ (l = best.len => best.base <= b)
                BY <1>1, <2>1, <3>1, <3>2, <3>4, <3>6, <4>1
            <4>2. A!FirstLongest(best, 1, i)
                BY <4>1 DEF A!FirstLongest, A!Range08
            <4>3. A!BestRun(best, 1, i)
                BY <1>1, <2>1, <3>1 DEF A!BestRun, A!Range08
            <4> QED
                BY <3>3, <3>6, <4>2, <4>3
        <3> QED
            BY <3>5, <3>6
    <2> QED
        BY <2>5, <2>6
<1> QED
    BY <1>2, <1>3

\* Nothing is added to the runs by a word that is not zero.
LEMMA PastNonzero ==
    ASSUME i \in 0..7, words[i] # 0, NEW r, A!BestRun(r, 1, i), A!FirstLongest(r, 1, i)
    PROVE  A!BestRun(r, 1, i + 1) /\ A!FirstLongest(r, 1, i + 1)
<1>1. A!BestRun(r, 1, i + 1)
    BY DEF A!BestRun, A!Range08
<1>2. ASSUME NEW b \in 0..7, NEW l \in 1..8, b + l <= i + 1, A!ZeroRun(b, l)
      PROVE  r.base # -1 /\ l <= r.len /\ (l = r.len => r.base <= b)
    <2>1. i \notin b..(b + l - 1)
        BY <1>2 DEF A!ZeroRun
    <2>2. b + l <= i
        BY <1>2, <2>1
    <2> QED
        BY <1>2, <2>2 DEF A!FirstLongest, A!Range08
<1> QED
    BY <1>1, <1>2 DEF A!FirstLongest, A!Range08

\* The runs of zeros stay where they are: the address does not change.
LEMMA RunsKept ==
    ASSUME words' = words, NEW r, NEW least, NEW end
    PROVE  /\ \A b, l : A!ZeroRun(b, l)' <=> A!ZeroRun(b, l)
           /\ A!BestRun(r, least, end) => A!BestRun(r, least, end)'
           /\ A!FirstLongest(r, least, end) => A!FirstLongest(r, least, end)'
<1>1. \A b, l : A!ZeroRun(b, l)' <=> A!ZeroRun(b, l)
    BY Zenon DEF A!ZeroRun
<1> QED
    BY <1>1, Zenon DEF A!BestRun, A!FirstLongest

LEMMA ScanKeeps ==
    ASSUME A!AddressInv, A!Scan
    PROVE  A!ScanInv'
<1>1. /\ phase = "scan" /\ i \in 0..7 /\ i' = i + 1 /\ phase' = "scan" /\ words' = words
      /\ A!ScanInv
    BY DEF A!AddressInv, A!Scan, A!ScanInv
<1>2. /\ A!CurInv /\ A!BestRun(best, 1, A!Start) /\ A!FirstLongest(best, 1, A!Start)
    BY <1>1 DEF A!ScanInv
<1>3. CASE words[i] = 0
    <2>1. best' = best
        BY <1>3 DEF A!Scan
    <2>2. \E c \in 0..7 : /\ c <= i /\ cur' = A!Run(c, i + 1 - c) /\ A!ZeroRun(c, i + 1 - c)
                          /\ c > 0 => words[c - 1] # 0
                          /\ A!Start = c
        <3>1. CASE cur = A!NoRun
            <4>1. cur.base = -1
                BY <3>1 DEF A!NoRun
            <4>2. cur' = A!Run(i, 1) /\ A!Start = i
                BY <1>3, <4>1 DEF A!Scan, A!Run, A!Start
            <4>3. i > 0 => words[i - 1] # 0
                <5>1. \A b \in A!Range08 : b < i => A!Run(b, i - b).base # -1
                    BY <1>1 DEF A!Run, A!Range08
                <5> QED
                    BY <1>2, <4>1, <5>1 DEF A!CurInv
            <4>4. A!ZeroRun(i, 1) /\ i + 1 - i = 1
                BY <1>1, <1>3 DEF A!ZeroRun
            <4> QED
                BY <1>1, <4>2, <4>3, <4>4
        <3>2. CASE cur # A!NoRun
            <4>1. PICK c \in 0..7 : /\ c < i /\ cur = A!Run(c, i - c) /\ A!ZeroRun(c, i - c)
                                    /\ c > 0 => words[c - 1] # 0
                BY <1>2, <3>2 DEF A!CurInv, A!Range08
            <4>2. cur.base = c /\ c # -1
                BY <4>1 DEF A!Run
            <4>3. cur' = A!Run(c, i + 1 - c)
                <5>1. cur' = [cur EXCEPT !.len = @ + 1]
                    BY <1>3, <4>2 DEF A!Scan
                <5>2. (i - c) + 1 = i + 1 - c
                    BY <1>1
                <5> QED
                    BY <4>1, <5>1, <5>2 DEF A!Run
            <4>4. A!ZeroRun(c, i + 1 - c)
                BY <1>1, <1>3, <4>1 DEF A!ZeroRun
            <4> QED
                BY <1>1, <4>1, <4>2, <4>3, <4>4 DEF A!Start
        <3> QED
            BY <3>1, <3>2
    <2>3. PICK c \in 0..7 : /\ c <= i /\ cur' = A!Run(c, i + 1 - c) /\ A!ZeroRun(c, i + 1 - c)
                            /\ c > 0 => words[c - 1] # 0
                            /\ A!Start = c
        BY <2>2
    <2>4. A!CurInv'
        <3>1. PICK m : m = i + 1 - c
            OBVIOUS
        <3>2. c < i' /\ i' - c = m /\ cur' = A!Run(c, m) /\ A!ZeroRun(c, m)'
            BY <1>1, <2>3, <3>1, RunsKept
        <3>3. A!ZeroRun(c, i - c)'
            BY <3>2 DEF A!ZeroRun
        <3>4. A!Run(c, i - c)' = A!Run(c, m)
            BY <3>2 DEF A!Run
        <3> QED
            BY <1>1, <2>3, <3>2, <3>3, <3>4 DEF A!CurInv, A!Range08
    <2>5. A!Start' = c
        <3>1. cur'.base = c /\ c # -1
            BY <2>3 DEF A!Run
        <3> QED
            BY <3>1 DEF A!Start
    <2>6. A!BestRun(best, 1, c)' /\ A!FirstLongest(best, 1, c)'
        BY <1>1, <1>2, <2>1, <2>3, RunsKept, Zenon DEF A!BestRun, A!FirstLongest
    <2> QED
        BY <1>1, <2>4, <2>5, <2>6 DEF A!ScanInv
<1>4. CASE words[i] # 0
    <2>1. best' = RunEnded /\ cur' = A!NoRun
        BY <1>4 DEF A!Scan, RunEnded
    <2>2. PICK r, h : r = RunEnded /\ h = i + 1
        OBVIOUS
    <2>3. A!BestRun(r, 1, h) /\ A!FirstLongest(r, 1, h)
        BY <1>1, <1>4, <2>2, EndsRun, PastNonzero
    <2>4. A!CurInv'
        <3>1. words'[i' - 1] # 0
            BY <1>1, <1>4
        <3> QED
            BY <2>1, <3>1 DEF A!CurInv, A!NoRun
    <2>5. A!Start' = h
        BY <1>1, <2>1, <2>2 DEF A!Start, A!NoRun
    <2>6. A!BestRun(best, 1, h)' /\ A!FirstLongest(best, 1, h)'
        BY <1>1, <2>1, <2>2, <2>3, RunsKept, Zenon DEF A!BestRun, A!FirstLongest
    <2> QED
        BY <1>1, <2>4, <2>5, <2>6 DEF A!ScanInv
<1> QED
    BY <1>3, <1>4

\* A run of one word is dropped; the longest of at least two is kept.
LEMMA ScannedKeeps ==
    ASSUME A!AddressInv, A!Scanned
    PROVE  A!BestInv'
<1>1. phase = "scan" /\ i = 8 /\ phase' = "format" /\ words' = words /\ A!ScanInv
    BY DEF A!AddressInv, A!Scanned
<1>2. PICK r : r = RunEnded
    OBVIOUS
<1>3. best' = IF r.base # -1 /\ r.len < 2 THEN A!NoRun ELSE r
    BY <1>2 DEF A!Scanned, RunEnded
<1>4. A!BestRun(r, 1, 8) /\ A!FirstLongest(r, 1, 8)
    BY <1>1, <1>2, EndsRun
<1>5. A!BestRun(best', 2, 8) /\ A!FirstLongest(best', 2, 8)
    <2>1. CASE r.base # -1 /\ r.len < 2
        <3>1. best' = A!NoRun
            BY <1>3, <2>1
        <3>2. r # A!NoRun
            BY <2>1 DEF A!NoRun
        <3>3. r.len = 1
            BY <1>4, <2>1, <3>2 DEF A!BestRun, A!Run
        <3> QED
            BY <1>4, <3>1, <3>3 DEF A!BestRun, A!FirstLongest, A!Range08
    <2>2. CASE ~(r.base # -1 /\ r.len < 2)
        <3>1. best' = r
            BY <1>3, <2>2
        <3>2. A!BestRun(r, 2, 8)
            <4>1. CASE r = A!NoRun
                BY <4>1 DEF A!BestRun
            <4>2. CASE r # A!NoRun
                <5>1. PICK b \in A!Range08, l \in 1..8 :
                          r = A!Run(b, l) /\ b + l <= 8 /\ A!ZeroRun(b, l)
                    BY <1>4, <4>2 DEF A!BestRun
                <5>2. r.base = b /\ r.len = l /\ b # -1
                    BY <5>1 DEF A!Run, A!Range08
                <5> QED
                    BY <2>2, <5>1, <5>2 DEF A!BestRun
            <4> QED
                BY <4>1, <4>2
        <3>3. A!FirstLongest(r, 2, 8)
            BY <1>4 DEF A!FirstLongest, A!Range08
        <3> QED
            BY <3>1, <3>2, <3>3
    <2> QED
        BY <2>1, <2>2
<1> QED
    BY <1>1, <1>5, RunsKept, Zenon DEF A!BestInv, A!BestRun, A!FirstLongest

----------------------------------------------------------------------------
\* Where the gap and the dotted end are.
LEMMA Layout ==
    ASSUME A!BestRun(best, 2, 8)
    PROVE  /\ A!Gap \in 0..8 /\ A!After \in 0..8 /\ A!End \in 7..8
           /\ A!Gap = 8 <=> best.base = -1
           /\ A!Gap < 8 => best.base = A!Gap /\ best.len = A!After - A!Gap
           /\ A!Gap < 8 => A!Gap + 2 <= A!After /\ A!ZeroRun(A!Gap, A!After - A!Gap)
           /\ A!Gap = 8 => A!After = 8
           /\ A!Second = IF A!Gap = 0 THEN 2 ELSE 2 * A!Gap + 1
           /\ A!Ipv4 => A!Gap = 0 /\ A!After \in 5..6 /\ A!End = 7
           /\ ~A!Ipv4 => A!End = 8
<1>1. CASE best = A!NoRun
    <2>1. best.base = -1
        BY <1>1 DEF A!NoRun
    <2>2. ~A!Ipv4 /\ A!Gap = 8 /\ A!After = 8
        BY <2>1 DEF A!Ipv4, A!Gap, A!After
    <2> QED
        BY <2>1, <2>2 DEF A!End, A!Second
<1>2. CASE best # A!NoRun
    <2>1. PICK b \in 0..7, l \in 1..8 :
              best = A!Run(b, l) /\ 2 <= l /\ b + l <= 8 /\ A!ZeroRun(b, l)
        BY <1>2 DEF A!BestRun, A!Range08
    <2>2. best.base = b /\ best.len = l /\ b # -1
        BY <2>1 DEF A!Run
    <2>3. A!Gap = b /\ A!After = b + l /\ A!After - A!Gap = l
        BY <2>2 DEF A!Gap, A!After
    <2>4. A!Ipv4 => b = 0 /\ l \in 5..6
        BY <2>2 DEF A!Ipv4
    <2> QED
        BY <2>1, <2>2, <2>3, <2>4 DEF A!End, A!Second
<1> QED
    BY <1>1, <1>2

\* Tokens are told apart by their kinds.
LEMMA Kinds ==
    /\ A!Colon.kind = "colon"
    /\ \A v : A!Hex(v).kind = "hex" /\ A!Hex(v).w = v /\ A!Hex(v) # A!Colon
    /\ \A v, w : /\ A!Dotted(v, w).kind = "dotted" /\ A!Dotted(v, w).w = <<v, w>>
                 /\ A!Dotted(v, w) # A!Colon
<1>1. A!Colon.kind = "colon"
    BY DEF A!Colon
<1>2. ASSUME NEW v PROVE A!Hex(v).kind = "hex" /\ A!Hex(v).w = v
    BY DEF A!Hex
<1>3. ASSUME NEW v, NEW w PROVE A!Dotted(v, w).kind = "dotted" /\ A!Dotted(v, w).w = <<v, w>>
    BY DEF A!Dotted
<1>4. "hex" # "colon" /\ "dotted" # "colon"
    OBVIOUS
<1> QED
    BY <1>1, <1>2, <1>3, <1>4, Zenon

\* Every word has a token, and every token written is one.
LEMMA TokenTypes ==
    ASSUME words \in [A!Range08 -> Words]
    PROVE  /\ A!Colon \in A!Tokens
           /\ \A k \in 0..7 : words[k] \in Words /\ A!Hex(words[k]) \in A!Tokens
                              /\ A!Token(k) \in A!Tokens
<1>1. \A k \in 0..7 : words[k] \in Words
    BY DEF A!Range08
<1>2. A!Colon \in A!Tokens /\ \A w \in Words : A!Hex(w) \in A!Tokens
    BY DEF A!Tokens
<1>3. \A v, w \in Words : A!Dotted(v, w) \in A!Tokens
    BY DEF A!Tokens
<1>4. 6 \in 0..7 /\ 7 \in 0..7
    OBVIOUS
<1> QED
    BY <1>1, <1>2, <1>3, <1>4, Zenon DEF A!Token

\* What is added to a text leaves what it held in its place.
LEMMA AddOne ==
    ASSUME NEW T, NEW s \in Seq(T), NEW c \in T, NEW t, t = s \o <<c>>, NEW N, N = Len(s)
    PROVE  /\ t \in Seq(T) /\ Len(t) = N + 1
           /\ \A p \in 1..N : t[p] = s[p]
           /\ t[N + 1] = c
OBVIOUS
LEMMA AddTwo ==
    ASSUME NEW T, NEW s \in Seq(T), NEW c \in T, NEW d \in T, NEW t, t = s \o <<c, d>>,
           NEW N, N = Len(s)
    PROVE  /\ t \in Seq(T) /\ Len(t) = N + 2
           /\ \A p \in 1..N : t[p] = s[p]
           /\ t[N + 1] = c /\ t[N + 2] = d
OBVIOUS

\* The layout of the text is settled once the words have been scanned.
LEMMA LayoutKept ==
    ASSUME best' = best, words' = words
    PROVE  /\ A!Gap' = A!Gap /\ A!After' = A!After /\ A!Second' = A!Second
           /\ A!End' = A!End /\ (A!Ipv4' <=> A!Ipv4)
           /\ \A k : A!Trail(k)' = A!Trail(k) /\ A!Token(k)' = A!Token(k)
           /\ \A m : A!Width(m)' = A!Width(m)
<1>1. A!Gap' = A!Gap /\ A!After' = A!After /\ (A!Ipv4' <=> A!Ipv4)
    BY DEF A!Gap, A!After, A!Ipv4
<1>2. A!Second' = A!Second /\ A!End' = A!End
    BY <1>1 DEF A!Second, A!End
<1>3. \A k : A!Trail(k)' = A!Trail(k)
    BY <1>1, <1>2, Zenon DEF A!Trail
<1>4. \A k : A!Token(k)' = A!Token(k)
    BY <1>1, Zenon DEF A!Token, A!Dotted, A!Hex
<1>5. \A m : A!Width(m)' = A!Width(m)
    BY <1>1, <1>2, Zenon DEF A!Width
<1> QED
    BY <1>1, <1>2, <1>3, <1>4, <1>5

\* What one step of inet_ntop6 adds to the text.
LEMMA FormatAdds ==
    ASSUME A!BestRun(best, 2, 8), A!Format, i \in 0..7, A!Ipv4 => i # 7
    PROVE  /\ i < A!Gap => text' = text \o (IF i = 0 THEN <<A!Hex(words[i])>>
                                            ELSE <<A!Colon, A!Hex(words[i])>>)
           /\ i = A!Gap => text' = text \o <<A!Colon>>
           /\ A!Gap < i /\ i < A!After => text' = text \o <<>>
           /\ A!After <= i => text' = text \o <<A!Colon, A!Token(i)>>
           /\ i' = IF A!Ipv4 /\ i = 6 THEN 8 ELSE i + 1
<1>1. text' = text \o
          IF A!InRun THEN (IF i = best.base THEN <<A!Colon>> ELSE <<>>)
          ELSE (IF i # 0 THEN <<A!Colon>> ELSE <<>>)
                  \o (IF A!AsIpv4 THEN <<A!Dotted(words[6], words[7])>>
                      ELSE <<A!Hex(words[i])>>)
    BY DEF A!Format
<1>2. i' = IF ~A!InRun /\ A!AsIpv4 THEN 8 ELSE i + 1
    BY DEF A!Format
<1>3. A!InRun <=> A!Gap <= i /\ i < A!After
    BY Layout DEF A!InRun
<1>4. A!AsIpv4 <=> A!Ipv4 /\ i = 6
    BY DEF A!AsIpv4, A!Ipv4
<1>5. A!Ipv4 => A!After <= 6
    BY Layout
<1>6. ASSUME NEW c, NEW d PROVE <<c>> \o <<d>> = <<c, d>> /\ <<>> \o <<d>> = <<d>>
    <2>1. <<c>> \in Seq({c, d}) /\ <<d>> \in Seq({c, d}) /\ <<c, d>> \in Seq({c, d})
        OBVIOUS
    <2>2. /\ <<c>> \o <<d>> \in Seq({c, d}) /\ Len(<<c>> \o <<d>>) = 2
          /\ (<<c>> \o <<d>>)[1] = c /\ (<<c>> \o <<d>>)[2] = d
        BY <2>1
    <2>3. <<c>> \o <<d>> = <<c, d>>
        <3>1. Len(<<c, d>>) = 2 /\ <<c, d>>[1] = c /\ <<c, d>>[2] = d
            OBVIOUS
        <3>2. \A p \in 1..2 : (<<c>> \o <<d>>)[p] = <<c, d>>[p]
            <4>1. \A p \in 1..2 : p = 1 \/ p = 2
                OBVIOUS
            <4> QED
                BY <2>2, <3>1, <4>1, Zenon
        <3> QED
            BY <2>1, <2>2, <3>1, <3>2, SeqEqual, Zenon
    <2>4. <<>> \o <<d>> = <<d>>
        BY <2>1, ConcatEmptySeq
    <2> QED
        BY <2>3, <2>4
<1>7. i < A!Gap => ~A!InRun /\ ~A!AsIpv4
    BY <1>3, <1>4, Layout
<1>8. i < A!Gap => text' = text \o (IF i = 0 THEN <<A!Hex(words[i])>>
                                    ELSE <<A!Colon, A!Hex(words[i])>>)
    BY <1>1, <1>6, <1>7, Zenon
<1>9. i = A!Gap => A!InRun /\ i = best.base
    BY <1>3, Layout
<1>10. A!Gap < i /\ i < A!After => A!InRun /\ i # best.base
    BY <1>3, Layout
<1>11. A!After <= i => ~A!InRun /\ i # 0
    BY <1>3, Layout
<1>12. A!Token(i) = IF A!AsIpv4 THEN A!Dotted(words[6], words[7]) ELSE A!Hex(words[i])
    BY <1>4, Zenon DEF A!Token
<1>13. A!After <= i => text' = text \o <<A!Colon, A!Token(i)>>
    BY <1>1, <1>6, <1>11, <1>12, Zenon
<1>14. A!Ipv4 /\ i = 6 => ~A!InRun
    BY <1>3, <1>5, Layout
<1>15. i = A!Gap => text' = text \o <<A!Colon>>
    BY <1>1, <1>9, Zenon
<1>16. A!Gap < i /\ i < A!After => text' = text \o <<>>
    BY <1>1, <1>10, Zenon
<1>17. i' = IF A!Ipv4 /\ i = 6 THEN 8 ELSE i + 1
    BY <1>2, <1>4, <1>14, Zenon
<1> QED
    BY <1>8, <1>13, <1>15, <1>16, <1>17, Zenon

\* Each step of inet_ntop6 writes what stands for its word: the text of the words
\* before i becomes that of the words up to i.
LEMMA FormatWrites ==
    ASSUME A!BestRun(best, 2, 8), words \in [A!Range08 -> Words], A!Format, i \in 0..7,
           A!Ipv4 => i # 7, text \in Seq(A!Tokens), Len(text) = A!Width(i), A!Written(i),
           NEW m, m = i + 1
    PROVE  text' \in Seq(A!Tokens) /\ Len(text') = A!Width(m) /\ A!Written(m)'
<1>1. best' = best /\ words' = words
    BY DEF A!Format
<1>2. PICK g, a, z : g = A!Gap /\ a = A!After /\ z = A!Second
    OBVIOUS
<1>3. /\ g \in 0..8 /\ a \in 0..8 /\ z = (IF g = 0 THEN 2 ELSE 2 * g + 1)
      /\ (g < 8 => g + 2 <= a) /\ (g = 8 => a = 8)
    BY <1>2, Layout
<1>4. /\ A!Gap' = g /\ A!After' = a /\ A!Second' = z
      /\ \A k : A!Token(k)' = A!Token(k)
      /\ \A k : A!Trail(k) = z + 2 * (k - a) + 1
      /\ \A k : A!Trail(k)' = z + 2 * (k - a) + 1
    <2>1. \A k : A!Trail(k) = z + 2 * (k - a) + 1
        BY <1>2, Zenon DEF A!Trail
    <2> QED
        BY <1>1, <1>2, <2>1, LayoutKept, Zenon
<1>5. /\ \A k \in 0..7 : k < g /\ k < i => text[2 * k + 1] = A!Hex(words[k])
      /\ \A k \in 0..7 : 0 < k /\ k < g /\ k < i => text[2 * k] = A!Colon
      /\ g < i => text[z - 1] = A!Colon
      /\ \A k \in 0..7 : a <= k /\ k < i =>
            /\ text[z + 2 * (k - a)] = A!Colon
            /\ text[z + 2 * (k - a) + 1] = A!Token(k)
    <2> QED
        <3>1. /\ \A k \in 0..7 : k < A!Gap /\ k < i => text[2 * k + 1] = A!Hex(words[k])
              /\ \A k \in 0..7 : 0 < k /\ k < A!Gap /\ k < i => text[2 * k] = A!Colon
              /\ A!Gap < i => text[A!Second - 1] = A!Colon
              /\ \A k \in 0..7 : A!After <= k /\ k < i =>
                    text[A!Trail(k) - 1] = A!Colon /\ text[A!Trail(k)] = A!Token(k)
            BY DEF A!Written, A!Range08
        <3>2. \A k \in 0..7 : /\ A!Trail(k) - 1 = z + 2 * (k - a)
                              /\ A!Trail(k) = z + 2 * (k - a) + 1
            BY <1>3, <1>4
        <3> QED
            BY <1>2, <3>1, <3>2, Zenon
<1>6. PICK N \in Nat : N = Len(text)
    OBVIOUS
<1>7. N = IF i <= g THEN (IF i = 0 THEN 0 ELSE 2 * i - 1)
          ELSE IF i <= a THEN z - 1 ELSE z - 1 + 2 * (i - a)
    BY <1>2, <1>6, Zenon DEF A!Width
<1>8. A!Width(m) = IF m <= g THEN (IF m = 0 THEN 0 ELSE 2 * m - 1)
                   ELSE IF m <= a THEN z - 1 ELSE z - 1 + 2 * (m - a)
    BY <1>2, Zenon DEF A!Width
<1>9. SUFFICES
        /\ text' \in Seq(A!Tokens) /\ Len(text') = A!Width(m)
        /\ \A k \in 0..7 : k < g /\ k < m => text'[2 * k + 1] = A!Hex(words[k])
        /\ \A k \in 0..7 : 0 < k /\ k < g /\ k < m => text'[2 * k] = A!Colon
        /\ g < m => text'[z - 1] = A!Colon
        /\ \A k \in 0..7 : a <= k /\ k < m =>
              /\ text'[z + 2 * (k - a)] = A!Colon
              /\ text'[z + 2 * (k - a) + 1] = A!Token(k)
    <2>2. \A v : A!Hex(v)' = A!Hex(v)
        BY DEF A!Hex
    <2>3. A!Colon' = A!Colon
        BY DEF A!Colon
    <2> QED
        <3>1. ASSUME NEW k \in 0..7
              PROVE  /\ A!Trail(k)' - 1 = z + 2 * (k - a)
                     /\ A!Trail(k)' = z + 2 * (k - a) + 1
            <4>1. PICK t : t = A!Trail(k)' /\ t = z + 2 * (k - a) + 1
                BY <1>4, Zenon
            <4>2. t - 1 = z + 2 * (k - a)
                BY <1>3, <4>1
            <4> QED
                BY <4>1, <4>2, Zenon
        <3>2. /\ \A k \in 0..7 : k < A!Gap' /\ k < m => text'[2 * k + 1] = A!Hex(words[k])
              /\ \A k \in 0..7 : 0 < k /\ k < A!Gap' /\ k < m => text'[2 * k] = A!Colon
              /\ A!Gap' < m => text'[A!Second' - 1] = A!Colon
              /\ \A k \in 0..7 : A!After' <= k /\ k < m =>
                    text'[A!Trail(k)' - 1] = A!Colon /\ text'[A!Trail(k)'] = A!Token(k)'
            BY <1>4, <1>9, <3>1, Zenon
        <3>3. A!Written(m)'
            BY <1>1, <3>2, <2>2, <2>3 DEF A!Written, A!Range08
        <3> QED
            BY <1>9, <3>3
<1>10. CASE i < g
    <2>1. /\ text' \in Seq(A!Tokens) /\ Len(text') = 2 * i + 1
          /\ \A p \in 1..N : text'[p] = text[p]
          /\ text'[2 * i + 1] = A!Hex(words[i])
          /\ i > 0 => text'[2 * i] = A!Colon
        <3>1. /\ A!Colon \in A!Tokens /\ A!Hex(words[i]) \in A!Tokens
            BY TokenTypes
        <3>2. CASE i = 0
            <4>1. N = 0 /\ N + 1 = 2 * i + 1
                BY <1>3, <1>7, <1>10, <3>2
            <4>2. text' = text \o <<A!Hex(words[i])>>
                BY <1>2, <1>10, <3>2, FormatAdds
            <4>3. /\ text' \in Seq(A!Tokens) /\ Len(text') = N + 1
                  /\ \A p \in 1..N : text'[p] = text[p]
                  /\ text'[N + 1] = A!Hex(words[i])
                BY <1>6, <3>1, <4>2, AddOne
            <4>4. ~(i > 0)
                BY <3>2
            <4> QED
                BY <4>1, <4>3, <4>4, Zenon
        <3>3. CASE i # 0
            <4>1. N + 2 = 2 * i + 1 /\ N + 1 = 2 * i
                BY <1>3, <1>7, <1>10, <3>3
            <4>2. text' = text \o <<A!Colon, A!Hex(words[i])>>
                BY <1>2, <1>10, <3>3, FormatAdds
            <4>3. /\ text' \in Seq(A!Tokens) /\ Len(text') = N + 2
                  /\ \A p \in 1..N : text'[p] = text[p]
                  /\ text'[N + 1] = A!Colon /\ text'[N + 2] = A!Hex(words[i])
                BY <1>6, <3>1, <4>2, AddTwo
            <4> QED
                BY <4>1, <4>3, Zenon
        <3> QED
            BY <3>2, <3>3
    <2>2. Len(text') = A!Width(m)
        BY <1>3, <1>8, <1>10, <2>1
    <2>3. ASSUME NEW k \in 0..7, k < g, k < m
          PROVE  text'[2 * k + 1] = A!Hex(words[k])
        <3>1. CASE k = i
            BY <2>1, <3>1
        <3>2. CASE k # i
            <4>1. k < i /\ 2 * k + 1 \in 1..N
                BY <1>3, <1>7, <1>10, <2>3, <3>2
            <4> QED
                BY <1>5, <2>1, <2>3, <4>1, Zenon
        <3> QED
            BY <3>1, <3>2
    <2>4. ASSUME NEW k \in 0..7, 0 < k, k < g, k < m
          PROVE  text'[2 * k] = A!Colon
        <3>1. CASE k = i
            BY <2>1, <2>4, <3>1
        <3>2. CASE k # i
            <4>1. k < i /\ 2 * k \in 1..N
                BY <1>3, <1>7, <1>10, <2>4, <3>2
            <4> QED
                BY <1>5, <2>1, <2>4, <4>1, Zenon
        <3> QED
            BY <3>1, <3>2
    <2>5. ~(g < m) /\ \A k \in 0..7 : ~(a <= k /\ k < m)
        BY <1>3, <1>10
    <2> QED
        BY <2>1, <2>2, <2>3, <2>4, <2>5
<1>11. CASE i = g
    <2>1. /\ text' \in Seq(A!Tokens) /\ Len(text') = N + 1
          /\ \A p \in 1..N : text'[p] = text[p]
          /\ text'[N + 1] = A!Colon
        <3>1. text' = text \o <<A!Colon>>
            BY <1>2, <1>11, FormatAdds
        <3> QED
            BY <1>6, <3>1, AddOne, TokenTypes
    <2>2. N + 1 = z - 1 /\ A!Width(m) = z - 1
        BY <1>3, <1>7, <1>8, <1>11
    <2>3. ASSUME NEW k \in 0..7, k < g
          PROVE  text'[2 * k + 1] = A!Hex(words[k]) /\ (0 < k => text'[2 * k] = A!Colon)
        <3>1. k < i /\ 2 * k + 1 \in 1..N /\ (0 < k => 2 * k \in 1..N)
            BY <1>3, <1>7, <1>11, <2>3
        <3> QED
            BY <1>5, <2>1, <2>3, <3>1, Zenon
    <2>4. \A k \in 0..7 : ~(a <= k /\ k < m)
        BY <1>3, <1>11
    <2> QED
        BY <2>1, <2>2, <2>3, <2>4
<1>12. CASE g < i /\ i < a
    <2>1. text' = text
        BY <1>2, <1>12, FormatAdds, ConcatEmptySeq
    <2>2. A!Width(m) = N
        BY <1>3, <1>7, <1>8, <1>12
    <2>3. \A k \in 0..7 : ~(a <= k /\ k < m) /\ (k < g => k < i)
        BY <1>3, <1>12
    <2> QED
        BY <1>5, <1>6, <1>12, <2>1, <2>2, <2>3
<1>13. CASE a <= i
    <2>1. g < 8 /\ g < i
        BY <1>3, <1>13
    <2>2. /\ text' \in Seq(A!Tokens) /\ Len(text') = N + 2
          /\ \A p \in 1..N : text'[p] = text[p]
          /\ text'[N + 1] = A!Colon /\ text'[N + 2] = A!Token(i)
        <3>1. text' = text \o <<A!Colon, A!Token(i)>>
            BY <1>2, <1>13, FormatAdds
        <3>2. A!Colon \in A!Tokens /\ A!Token(i) \in A!Tokens
            BY TokenTypes
        <3> QED
            BY <1>6, <3>1, <3>2, AddTwo
    <2>3. /\ N = z - 1 + 2 * (i - a) /\ A!Width(m) = N + 2
          /\ N + 1 = z + 2 * (i - a) /\ N + 2 = z + 2 * (i - a) + 1
        BY <1>3, <1>7, <1>8, <1>13, <2>1
    <2>4. ASSUME NEW k \in 0..7, k < g
          PROVE  text'[2 * k + 1] = A!Hex(words[k]) /\ (0 < k => text'[2 * k] = A!Colon)
        <3>1. k < i /\ 2 * k + 1 \in 1..N /\ (0 < k => 2 * k \in 1..N)
            BY <1>3, <1>13, <2>1, <2>3, <2>4
        <3> QED
            BY <1>5, <2>2, <2>4, <3>1, Zenon
    <2>5. text'[z - 1] = A!Colon
        <3>1. z - 1 \in 1..N
            BY <1>3, <1>13, <2>3
        <3> QED
            BY <1>5, <2>1, <2>2, <3>1, Zenon
    <2>6. ASSUME NEW k \in 0..7, a <= k, k < m
          PROVE  /\ text'[z + 2 * (k - a)] = A!Colon
                 /\ text'[z + 2 * (k - a) + 1] = A!Token(k)
        <3>1. CASE k = i
            BY <2>2, <2>3, <3>1, Zenon
        <3>2. CASE k # i
            <4>1. k < i /\ z + 2 * (k - a) \in 1..N /\ z + 2 * (k - a) + 1 \in 1..N
                BY <1>3, <1>13, <2>3, <2>6, <3>2
            <4> QED
                BY <1>5, <2>2, <2>6, <4>1, Zenon
        <3> QED
            BY <3>1, <3>2
    <2> QED
        BY <2>2, <2>3, <2>4, <2>5, <2>6
<1> QED
    BY <1>3, <1>10, <1>11, <1>12, <1>13

\* Nothing is written before the first word.
LEMMA ScannedFormats ==
    ASSUME A!AddressInv, A!Scanned
    PROVE  A!FormatInv'
<1>1. /\ phase' = "format" /\ i' = 0 /\ words' = words /\ text' = <<>> /\ out' = <<>>
      /\ val' = <<>> /\ colonp' = -1
    BY DEF A!AddressInv, A!Scanned
<1>2. A!BestRun(best, 2, 8)'
    BY <1>1, ScannedKeeps DEF A!BestInv
<1>3. A!Gap' \in 0..8 /\ A!After' \in 0..8 /\ A!Handled' = 0
    <2>1. A!Gap' \in 0..8 /\ A!After' \in 0..8
        BY <1>2 DEF A!BestRun, A!NoRun, A!Run, A!Range08, A!Gap, A!After
    <2> QED
        BY <1>1, <2>1 DEF A!Handled
<1>4. A!Width(0)' = 0
    BY <1>3 DEF A!Width
<1>5. A!Written(0)'
    BY <1>3 DEF A!Written, A!Range08
<1>6. text' \in Seq(A!Tokens)' /\ Len(text') = 0
    BY <1>1
<1> QED
    BY <1>1, <1>3, <1>4, <1>5, <1>6 DEF A!FormatInv

LEMMA FormatKeeps ==
    ASSUME A!AddressInv, A!Format
    PROVE  A!FormatInv'
<1>1. /\ phase = "format" /\ phase' = "format" /\ i \in 0..7 /\ words' = words
      /\ best' = best /\ out' = out /\ val' = val /\ colonp' = colonp
      /\ words \in [A!Range08 -> Words] /\ A!BestRun(best, 2, 8)
      /\ (A!Ipv4 => i # 7) /\ text \in Seq(A!Tokens)
      /\ Len(text) = A!Width(A!Handled) /\ A!Written(A!Handled)
      /\ out = <<>> /\ val = <<>> /\ colonp = -1
    BY DEF A!AddressInv, A!Format, A!FormatInv, A!BestInv
<1>2. PICK m : m = i + 1
    OBVIOUS
<1>3. A!Handled = i
    BY <1>1 DEF A!Handled
<1>4. text' \in Seq(A!Tokens) /\ Len(text') = A!Width(m) /\ A!Written(m)'
    BY <1>1, <1>2, <1>3, FormatWrites
<1>5. i' = IF A!Ipv4 /\ i = 6 THEN 8 ELSE i + 1
    BY <1>1, FormatAdds
<1>6. A!End' = A!End /\ (A!Ipv4' <=> A!Ipv4) /\ A!Width(m)' = A!Width(m)
    BY <1>1, LayoutKept
<1>7. i' \in 0..8 /\ (A!Ipv4' => i' # 7) /\ A!Handled' = m
    <2>1. (A!Ipv4 => A!End = 7) /\ (~A!Ipv4 => A!End = 8)
        BY <1>1, Layout
    <2>2. A!Handled' = IF i' < 8 THEN i' ELSE A!End
        BY <1>6, Zenon DEF A!Handled
    <2>3. CASE A!Ipv4
        <3>1. i # 7 /\ A!End = 7
            BY <1>1, <2>1, <2>3, Zenon
        <3>2. CASE i = 6
            <4>1. i' = 8
                BY <1>5, <2>3, <3>2, Zenon
            <4> QED
                BY <1>2, <2>2, <3>1, <3>2, <4>1
        <3>3. CASE i # 6
            <4>1. i' = i + 1
                BY <1>5, <3>3, Zenon
            <4> QED
                BY <1>1, <1>2, <2>2, <3>1, <3>3, <4>1
        <3> QED
            BY <3>2, <3>3
    <2>4. CASE ~A!Ipv4
        <3>1. i' = i + 1 /\ A!End = 8 /\ ~A!Ipv4'
            BY <1>5, <1>6, <2>1, <2>4, Zenon
        <3> QED
            BY <1>1, <1>2, <2>2, <3>1
    <2> QED
        BY <2>3, <2>4
<1>8. A!Tokens' = A!Tokens
    BY DEF A!Tokens, A!Colon, A!Hex, A!Dotted
<1> QED
    BY <1>1, <1>4, <1>6, <1>7, <1>8, Zenon DEF A!FormatInv

\* The text as a whole: what Written says of all words, with the two colons of the gap.
LEMMA FormattedText ==
    ASSUME A!AddressInv, A!Formatted
    PROVE  /\ text' \in Seq(A!Tokens) /\ A!Written(A!End)'
           /\ A!Gap < 8 => text'[A!Second] = A!Colon /\ text'[A!Second - 1] = A!Colon
           /\ A!Gap > 0 => text'[1] = A!Hex(words[0])
           /\ Len(text') = IF A!After = 8 /\ A!Gap < 8 THEN A!Second ELSE A!Width(A!End)
<1>1. /\ phase = "format" /\ i = 8 /\ words' = words /\ best' = best
      /\ words \in [A!Range08 -> Words] /\ A!BestRun(best, 2, 8)
      /\ text \in Seq(A!Tokens)
      /\ Len(text) = A!Width(A!Handled) /\ A!Written(A!Handled)
    BY DEF A!AddressInv, A!Formatted, A!FormatInv, A!BestInv
<1>2. PICK g, a, z, e : g = A!Gap /\ a = A!After /\ z = A!Second /\ e = A!End
    OBVIOUS
<1>3. /\ g \in 0..8 /\ a \in 0..8 /\ z = (IF g = 0 THEN 2 ELSE 2 * g + 1)
      /\ (g < 8 => g + 2 <= a) /\ (g = 8 => a = 8) /\ e \in 7..8 /\ (e = 7 => a \in 5..6)
    BY <1>1, <1>2, Layout
<1>4. A!Handled = e
    BY <1>1, <1>2 DEF A!Handled
<1>5. text' = IF g < 8 /\ a = 8 THEN text \o <<A!Colon>> ELSE text
    <2>1. text' = text \o (IF best.base # -1 /\ best.base + best.len = 8
                           THEN <<A!Colon>> ELSE <<>>)
        BY DEF A!Formatted
    <2>2. (best.base # -1 /\ best.base + best.len = 8) <=> (g < 8 /\ a = 8)
        BY <1>1, <1>2, <1>3, Layout
    <2>3. text \o <<>> = text
        BY <1>1, ConcatEmptySeq
    <2> QED
        BY <2>1, <2>2, <2>3, Zenon
<1>6. \A k \in 0..7 : A!Trail(k) - 1 = z + 2 * (k - a) /\ A!Trail(k) = z + 2 * (k - a) + 1
    BY <1>2, <1>3 DEF A!Trail
<1>7. PICK N \in Nat : N = Len(text)
    BY <1>1
<1>8. N = IF e <= g THEN (IF e = 0 THEN 0 ELSE 2 * e - 1)
          ELSE IF e <= a THEN z - 1 ELSE z - 1 + 2 * (e - a)
    BY <1>1, <1>2, <1>4, <1>7, Zenon DEF A!Width
<1>9. /\ \A k \in 0..7 : k < A!Gap /\ k < e => text[2 * k + 1] = A!Hex(words[k])
      /\ \A k \in 0..7 : 0 < k /\ k < A!Gap /\ k < e => text[2 * k] = A!Colon
      /\ A!Gap < e => text[A!Second - 1] = A!Colon
      /\ \A k \in 0..7 : A!After <= k /\ k < e =>
            text[A!Trail(k) - 1] = A!Colon /\ text[A!Trail(k)] = A!Token(k)
    BY <1>1, <1>4 DEF A!Written, A!Range08
<1>10. /\ text' \in Seq(A!Tokens) /\ \A p \in 1..N : text'[p] = text[p]
       /\ Len(text') = IF g < 8 /\ a = 8 THEN N + 1 ELSE N
       /\ g < 8 /\ a = 8 => text'[N + 1] = A!Colon
    <2>1. CASE g < 8 /\ a = 8
        <3>1. text' = text \o <<A!Colon>> /\ A!Colon \in A!Tokens
            BY <1>1, <1>5, <2>1, TokenTypes
        <3> QED
            BY <1>1, <1>7, <2>1, <3>1, AddOne
    <2>2. CASE ~(g < 8 /\ a = 8)
        BY <1>1, <1>5, <1>7, <2>2
    <2> QED
        BY <2>1, <2>2
<1>11. g < 8 => z - 1 \in 1..N /\ g < e
    BY <1>3, <1>8
<1>12. g < 8 => text'[z - 1] = A!Colon
    BY <1>2, <1>9, <1>10, <1>11, Zenon
<1>13. ASSUME g < 8
       PROVE  text'[z] = A!Colon
    <2>1. CASE a = 8
        <3>1. N + 1 = z
            BY <1>3, <1>8, <1>13, <2>1
        <3> QED
            BY <1>10, <1>13, <2>1, <3>1, Zenon
    <2>2. CASE a # 8
        <3>1. a \in 0..7 /\ a <= a /\ a < e /\ z \in 1..N /\ z + 2 * (a - a) = z
            BY <1>3, <1>8, <1>13, <2>2
        <3>2. A!Trail(a) - 1 = z
            BY <1>6, <3>1, Zenon
        <3> QED
            BY <1>2, <1>9, <1>10, <3>1, <3>2, Zenon
    <2> QED
        BY <2>1, <2>2
<1>14. Len(text') = IF A!After = 8 /\ A!Gap < 8 THEN A!Second ELSE A!Width(A!End)
    <2>1. g < 8 /\ a = 8 => N + 1 = z
        BY <1>3, <1>8
    <2>2. N = A!Width(A!End)
        BY <1>1, <1>2, <1>4, <1>7
    <2> QED
        BY <1>2, <1>10, <2>1, <2>2, Zenon
<1>15. ASSUME NEW k \in 0..7, k < g, k < e
       PROVE  text'[2 * k + 1] = A!Hex(words[k]) /\ (0 < k => text'[2 * k] = A!Colon)
    <2>1. 2 * k + 1 \in 1..N /\ (0 < k => 2 * k \in 1..N)
        BY <1>3, <1>8, <1>15
    <2> QED
        BY <1>2, <1>9, <1>10, <1>15, <2>1, Zenon
<1>16. ASSUME NEW k \in 0..7, a <= k, k < e
       PROVE  text'[A!Trail(k) - 1] = A!Colon /\ text'[A!Trail(k)] = A!Token(k)
    <2>1. A!Trail(k) - 1 \in 1..N /\ A!Trail(k) \in 1..N
        BY <1>3, <1>6, <1>8, <1>16
    <2> QED
        BY <1>2, <1>9, <1>10, <1>16, <2>1, Zenon
<1>17. A!Written(A!End)'
    <2>1. /\ A!Gap' = g /\ A!After' = a /\ A!Second' = z /\ A!End' = e
          /\ \A k : A!Trail(k)' = A!Trail(k) /\ A!Token(k)' = A!Token(k)
        BY <1>1, <1>2, LayoutKept, Zenon
    <2>2. (\A v : A!Hex(v)' = A!Hex(v)) /\ A!Colon' = A!Colon
        BY DEF A!Hex, A!Colon
    <2>3. g < e => text'[z - 1] = A!Colon
        BY <1>3, <1>12
    <2> QED
        BY <1>1, <1>15, <1>16, <2>1, <2>2, <2>3, Zenon DEF A!Written, A!Range08
<1>18. g > 0 => text'[1] = A!Hex(words[0])
    <2>1. 0 \in 0..7 /\ 0 < e /\ 2 * 0 + 1 = 1 /\ (g > 0 => 0 < g)
        BY <1>3
    <2> QED
        BY <1>15, <2>1, Zenon
<1> QED
    BY <1>2, <1>10, <1>12, <1>13, <1>14, <1>17, <1>18, Zenon

\* inet_pton6 starts at the first word, or past the first of two colons.
LEMMA FormattedKeeps ==
    ASSUME A!AddressInv, A!Formatted
    PROVE  phase' = "parse" /\ A!TextInv' /\ A!ParseInv'
<1>1. /\ words' = words /\ best' = best /\ out' = <<>> /\ val' = <<>> /\ colonp' = -1
      /\ A!BestRun(best, 2, 8)
    BY DEF A!AddressInv, A!Formatted, A!FormatInv, A!BestInv
<1>2. /\ i' = IF text'[1] = A!Colon THEN 2 ELSE 1
      /\ phase' = IF text'[1] = A!Colon /\ text'[2] # A!Colon THEN "done" ELSE "parse"
    BY DEF A!Formatted
<1>3. /\ A!Gap' = A!Gap /\ A!After' = A!After /\ A!Second' = A!Second /\ A!End' = A!End
      /\ \A m : A!Width(m)' = A!Width(m)
    BY <1>1, LayoutKept
<1>4. A!Gap \in 0..8 /\ A!Second = IF A!Gap = 0 THEN 2 ELSE 2 * A!Gap + 1
    BY <1>1, Layout
<1>5. A!Tokens' = A!Tokens /\ A!Colon' = A!Colon
    BY DEF A!Tokens, A!Colon, A!Hex, A!Dotted
<1>6. A!TextInv'
    BY <1>3, <1>5, FormattedText, Zenon DEF A!TextInv
<1>7. out' \in Seq(Words) /\ val' \in Seq(Words) /\ Len(out') = 0
    BY <1>1
<1>8. A!Before(0)'
    BY <1>7 DEF A!Before, A!Range08
<1>9. CASE A!Gap = 0
    <2>1. A!Second = 2 /\ A!Second - 1 = 1 /\ A!Gap < 8
        BY <1>4, <1>9
    <2>2. text'[1] = A!Colon /\ text'[2] = A!Colon
        BY <2>1, FormattedText, Zenon
    <2>3. i' = 2 /\ phase' = "parse"
        BY <1>2, <2>2, Zenon
    <2>4. A!AtSecond'
        <3>1. A!Before(A!Gap)'
            BY <1>3, <1>8, <1>9 DEF A!Before
        <3> QED
            BY <1>1, <1>3, <2>1, <2>3, <3>1, Zenon DEF A!AtSecond
    <2> QED
        BY <1>6, <1>7, <2>3, <2>4, Zenon DEF A!ParseInv
<1>10. CASE A!Gap # 0
    <2>1. text'[1] # A!Colon
        BY <1>4, <1>10, FormattedText, Kinds
    <2>2. i' = 1 /\ phase' = "parse"
        BY <1>2, <2>1, Zenon
    <2>3. A!AtWord(0)'
        <3>1. 1 = 2 * 0 + 1 /\ 0 < A!Gap
            BY <1>4, <1>10
        <3> QED
            BY <1>1, <1>3, <1>8, <2>2, <3>1, Zenon DEF A!AtWord
    <2>4. 0 \in A!Range08
        BY DEF A!Range08
    <2> QED
        BY <1>6, <1>7, <2>2, <2>3, <2>4, Zenon DEF A!ParseInv
<1> QED
    BY <1>9, <1>10

----------------------------------------------------------------------------
\* What one step of inet_pton6 does with a token it can accept.
LEMMA ParseDoes ==
    ASSUME A!Parse
    PROVE  /\ text[i].kind = "hex" =>
                 /\ val' = <<text[i].w>> /\ i' = i + 1 /\ phase' = phase /\ out' = out
                 /\ colonp' = colonp
           /\ text[i] = A!Colon /\ val = <<>> /\ colonp = -1 =>
                 /\ colonp' = Len(out) /\ i' = i + 1 /\ phase' = phase /\ out' = out
                 /\ val' = val
           /\ text[i] = A!Colon /\ val # <<>> /\ ~(Len(out) + 1 > 8) =>
                 /\ out' = out \o val /\ val' = <<>> /\ i' = i + 1 /\ phase' = phase
                 /\ colonp' = colonp
           /\ text[i].kind = "dotted" /\ ~(Len(out) + 2 > 8) =>
                 /\ out' = out \o text[i].w /\ val' = <<>> /\ i' = Len(text) + 1
                 /\ phase' = phase /\ colonp' = colonp
           /\ words' = words /\ best' = best /\ text' = text /\ cur' = cur /\ ok' = ok
           /\ phase = "parse" /\ i <= Len(text)
<1>1. PICK t : t = text[i]
    OBVIOUS
<1>2. "hex" # "colon" /\ "dotted" # "colon" /\ "hex" # "dotted" /\ A!Colon.kind = "colon"
    BY Kinds
<1>3. CASE t.kind = "hex"
    BY <1>1, <1>2, <1>3 DEF A!Parse
<1>4. CASE t = A!Colon /\ val = <<>>
    BY <1>1, <1>2, <1>4 DEF A!Parse
<1>5. CASE t = A!Colon /\ val # <<>>
    BY <1>1, <1>2, <1>5 DEF A!Parse
<1>6. CASE t.kind = "dotted"
    BY <1>1, <1>2, <1>6 DEF A!Parse
<1>7. CASE ~(t.kind = "hex") /\ t # A!Colon /\ ~(t.kind = "dotted")
    BY <1>1, <1>7 DEF A!Parse
<1> QED
    BY <1>3, <1>4, <1>5, <1>6, <1>7

\* One more word, in front of the gap or behind it.
LEMMA BeforeNext ==
    ASSUME NEW k \in 0..7, A!Before(k), out \in Seq(Words), words \in [A!Range08 -> Words],
           out' = out \o <<words[k]>>, words' = words, NEW m, m = k + 1
    PROVE  A!Before(m)' /\ out' \in Seq(Words)
<1>1. words[k] \in Words /\ Len(out) = k /\ \A j \in 0..7 : j < k => out[j + 1] = words[j]
    BY DEF A!Range08, A!Before
<1>2. /\ out' \in Seq(Words) /\ Len(out') = k + 1
      /\ \A p \in 1..k : out'[p] = out[p]
      /\ out'[k + 1] = words[k]
    BY <1>1, AddOne
<1>3. ASSUME NEW j \in 0..7, j < m PROVE out'[j + 1] = words[j]
    <2>1. CASE j = k
        BY <1>2, <2>1
    <2>2. CASE j # k
        <3>1. j < k /\ j + 1 \in 1..k
            BY <1>3, <2>2
        <3> QED
            BY <1>1, <1>2, <3>1, Zenon
    <2> QED
        BY <2>1, <2>2
<1> QED
    BY <1>2, <1>3 DEF A!Before, A!Range08

LEMMA AroundNext ==
    ASSUME NEW k \in 0..7, A!Around(k), out \in Seq(Words), words \in [A!Range08 -> Words],
           A!BestRun(best, 2, 8), A!After <= k,
           out' = out \o <<words[k]>>, words' = words, best' = best, colonp' = colonp,
           NEW m, m = k + 1
    PROVE  A!Around(m)' /\ out' \in Seq(Words)
<1>1. PICK g, a : g = A!Gap /\ a = A!After
    OBVIOUS
<1>2. g \in 0..8 /\ a \in 0..8 /\ A!Gap' = g /\ A!After' = a
    BY <1>1, Layout, LayoutKept
<1>3. /\ words[k] \in Words /\ Len(out) = g + (k - a) /\ colonp = g /\ g < 8
      /\ \A j \in 0..7 : j < g => out[j + 1] = words[j]
      /\ \A j \in 0..7 : a <= j /\ j < k => out[g + (j - a) + 1] = words[j]
    BY <1>1 DEF A!Range08, A!Around
<1>4. PICK N : N = g + (k - a)
    OBVIOUS
<1>5. /\ out' \in Seq(Words) /\ Len(out') = N + 1
      /\ \A p \in 1..N : out'[p] = out[p]
      /\ out'[N + 1] = words[k]
    BY <1>3, <1>4, AddOne
<1>6. Len(out') = g + (m - a)
    <2>1. N + 1 = g + (m - a)
        BY <1>2, <1>4
    <2> QED
        BY <1>5, <2>1, Zenon
<1>7. ASSUME NEW j \in 0..7, j < g PROVE out'[j + 1] = words[j]
    <2>1. j + 1 \in 1..N
        BY <1>1, <1>2, <1>4, <1>7
    <2> QED
        BY <1>3, <1>5, <1>7, <2>1, Zenon
<1>8. ASSUME NEW j \in 0..7, a <= j, j < m PROVE out'[g + (j - a) + 1] = words[j]
    <2>1. CASE j = k
        BY <1>4, <1>5, <2>1
    <2>2. CASE j # k
        <3>1. j < k /\ g + (j - a) + 1 \in 1..N
            BY <1>2, <1>4, <1>8, <2>2
        <3> QED
            BY <1>3, <1>5, <1>8, <3>1, Zenon
    <2> QED
        BY <2>1, <2>2
<1> QED
    BY <1>2, <1>3, <1>5, <1>6, <1>7, <1>8 DEF A!Around, A!Range08

\* The same words, and the tokens they are read from.
LEMMA ReadKept ==
    ASSUME out' = out, words' = words
    PROVE  /\ \A k : A!Before(k) => A!Before(k)'
           /\ best' = best /\ colonp' = colonp => \A k : A!Around(k) => A!Around(k)'
<1>1. \A k : A!Before(k) => A!Before(k)'
    BY DEF A!Before
<1>2. ASSUME best' = best, colonp' = colonp, NEW k, A!Around(k)
      PROVE  A!Around(k)'
    <2>1. A!Gap' = A!Gap /\ A!After' = A!After
        BY <1>2, LayoutKept
    <2> QED
        BY <1>2, <2>1 DEF A!Around
<1> QED
    BY <1>1, <1>2

LEMMA TextKept ==
    ASSUME A!TextInv, phase = "parse", text' = text, words' = words, best' = best
    PROVE  A!TextInv'
<1>1. /\ A!Gap' = A!Gap /\ A!After' = A!After /\ A!Second' = A!Second /\ A!End' = A!End
      /\ \A k : A!Trail(k)' = A!Trail(k) /\ A!Token(k)' = A!Token(k)
      /\ \A m : A!Width(m)' = A!Width(m)
    BY LayoutKept
<1>2. A!Tokens' = A!Tokens /\ A!Colon' = A!Colon /\ \A v : A!Hex(v)' = A!Hex(v)
    BY DEF A!Tokens, A!Colon, A!Hex, A!Dotted
<1>3. A!Written(A!End) => A!Written(A!End)'
    BY <1>1, <1>2, Zenon DEF A!Written
<1> QED
    BY <1>1, <1>2, <1>3, Zenon DEF A!TextInv

\* The tokens inet_pton6 meets: where each of them stands.
LEMMA TokensAt ==
    ASSUME A!BestRun(best, 2, 8), A!TextInv, phase = "parse"
    PROVE  /\ \A k \in 0..7 : k < A!Gap => text[2 * k + 1] = A!Hex(words[k])
           /\ \A k \in 0..7 : 0 < k /\ k < A!Gap => text[2 * k] = A!Colon
           /\ A!Gap < 8 => text[A!Second - 1] = A!Colon /\ text[A!Second] = A!Colon
           /\ \A k \in 0..7 : A!After <= k /\ k < A!End =>
                 text[A!Trail(k) - 1] = A!Colon /\ text[A!Trail(k)] = A!Token(k)
           /\ Len(text) = IF A!Gap = 8 THEN 15
                          ELSE IF A!After = 8 THEN A!Second
                          ELSE A!Second - 1 + 2 * (A!End - A!After)
<1>1. PICK g, a, e : g = A!Gap /\ a = A!After /\ e = A!End
    OBVIOUS
<1>2. /\ g \in 0..8 /\ a \in 0..8 /\ e \in 7..8 /\ (g < 8 => g + 2 <= a) /\ (g = 8 => a = 8)
      /\ (e = 7 => g = 0 /\ a \in 5..6)
    BY <1>1, Layout
<1>3. /\ \A k \in 0..7 : k < g /\ k < e => text[2 * k + 1] = A!Hex(words[k])
      /\ \A k \in 0..7 : 0 < k /\ k < g /\ k < e => text[2 * k] = A!Colon
      /\ g < e => text[A!Second - 1] = A!Colon
      /\ \A k \in 0..7 : a <= k /\ k < e =>
            text[A!Trail(k) - 1] = A!Colon /\ text[A!Trail(k)] = A!Token(k)
      /\ g < 8 => text[A!Second] = A!Colon
      /\ Len(text) = IF a = 8 /\ g < 8 THEN A!Second ELSE A!Width(e)
    BY <1>1, Zenon DEF A!TextInv, A!Written, A!Range08
<1>4. (\A k \in 0..7 : k < g => k < e) /\ (g < 8 => g < e)
    BY <1>2
<1>5. PICK V : V = A!Width(e)
    OBVIOUS
<1>6. V = IF e <= g THEN (IF e = 0 THEN 0 ELSE 2 * e - 1)
          ELSE IF e <= a THEN A!Second - 1 ELSE A!Second - 1 + 2 * (e - a)
    BY <1>1, <1>5, Zenon DEF A!Width
<1>7. /\ g = 8 => V = 15
      /\ g < 8 /\ a # 8 => V = A!Second - 1 + 2 * (e - a)
      /\ ~(g = 8) <=> g < 8
    BY <1>2, <1>6
<1>8. Len(text) = IF g = 8 THEN 15 ELSE IF a = 8 THEN A!Second
                  ELSE A!Second - 1 + 2 * (e - a)
    BY <1>3, <1>5, <1>7, Zenon
<1> QED
    BY <1>1, <1>3, <1>4, <1>8, Zenon

\* Reading a word in front of the gap, and the colon behind it.
LEMMA ParseBefore ==
    ASSUME A!AddressInv, A!Parse, NEW k \in 0..7, A!AtWord(k) \/ A!PastWord(k)
    PROVE  phase' = "parse" /\ A!TextInv' /\ A!ParseInv'
<1>1. /\ phase = "parse" /\ words' = words /\ best' = best /\ text' = text
      /\ i <= Len(text) /\ words \in [A!Range08 -> Words] /\ A!BestRun(best, 2, 8)
      /\ A!TextInv /\ out \in Seq(Words) /\ k < A!Gap /\ A!Before(k) /\ colonp = -1
      /\ words[k] \in Words
    BY ParseDoes DEF A!AddressInv, A!BestInv, A!ParseInv, A!AtWord, A!PastWord, A!Range08
<1>2. A!TextInv'
    BY <1>1, TextKept
<1>3. PICK g : g = A!Gap
    OBVIOUS
<1>4. g \in 0..8 /\ A!Gap' = g /\ A!Second' = A!Second
    BY <1>1, <1>3, Layout, LayoutKept
<1>5. CASE A!AtWord(k)
    <2>1. i = 2 * k + 1 /\ i + 1 = 2 * k + 2
        BY <1>5 DEF A!AtWord
    <2>2. text[i] = A!Hex(words[k])
        BY <1>1, <2>1, TokensAt, Zenon
    <2>3. text[i].kind = "hex" /\ text[i].w = words[k]
        BY <2>2, Kinds, Zenon
    <2>4. /\ val' = <<words[k]>> /\ i' = i + 1 /\ phase' = phase /\ out' = out
          /\ colonp' = colonp
        BY <2>3, ParseDoes, Zenon
    <2>5. A!Before(k)'
        BY <1>1, <2>4, ReadKept, Zenon
    <2>6. A!PastWord(k)'
        BY <1>1, <1>3, <1>4, <2>1, <2>4, <2>5, Zenon DEF A!PastWord
    <2>7. out' \in Seq(Words) /\ val' \in Seq(Words)
        BY <1>1, <2>4
    <2> QED
        BY <1>1, <1>2, <2>4, <2>6, <2>7, Zenon DEF A!ParseInv, A!Range08
<1>6. CASE A!PastWord(k)
    <2>1. i = 2 * k + 2 /\ val = <<words[k]>> /\ val # <<>> /\ Len(out) = k
        BY <1>6 DEF A!PastWord, A!Before
    <2>2. ~(Len(out) + 1 > 8)
        BY <2>1
    <2>3. ASSUME text[i] = A!Colon
          PROVE  /\ out' = out \o <<words[k]>> /\ val' = <<>> /\ i' = i + 1
                 /\ phase' = phase /\ colonp' = colonp
        BY <2>1, <2>2, <2>3, ParseDoes, Zenon
    <2>4. PICK m : m = k + 1
        OBVIOUS
    <2>5. CASE m < g
        <3>1. m \in 0..7 /\ 0 < m /\ i = 2 * m /\ i + 1 = 2 * m + 1
            BY <1>4, <2>1, <2>4, <2>5
        <3>2. text[i] = A!Colon
            BY <1>1, <1>3, <2>5, <3>1, TokensAt, Zenon
        <3>3. A!Before(m)' /\ out' \in Seq(Words)
            BY <1>1, <2>3, <2>4, <3>2, BeforeNext
        <3>4. A!AtWord(m)'
            BY <1>1, <1>4, <2>3, <2>5, <3>1, <3>2, <3>3, Zenon DEF A!AtWord
        <3>5. val' \in Seq(Words)
            BY <2>3, <3>2
        <3> QED
            BY <1>1, <1>2, <2>3, <3>1, <3>2, <3>3, <3>4, <3>5, Zenon DEF A!ParseInv, A!Range08
    <2>6. CASE ~(m < g)
        <3>1. m = g
            BY <1>1, <1>3, <1>4, <2>4, <2>6
        <3>2. g < 8
            <4>1. ASSUME g = 8 PROVE FALSE
                <5>1. Len(text) = 15
                    BY <1>1, <1>3, <4>1, TokensAt
                <5> QED
                    BY <1>1, <2>1, <2>4, <3>1, <4>1, <5>1
            <4> QED
                BY <1>4, <4>1
        <3>3. A!Second - 1 = i /\ i + 1 = A!Second
            <4>1. A!Second = 2 * g + 1
                BY <1>1, <1>3, <1>4, <2>4, <3>1, Layout
            <4> QED
                BY <1>4, <2>1, <2>4, <3>1, <4>1
        <3>4. text[i] = A!Colon
            BY <1>1, <1>3, <3>2, <3>3, TokensAt, Zenon
        <3>5. A!Before(m)' /\ out' \in Seq(Words)
            BY <1>1, <2>3, <2>4, <3>4, BeforeNext
        <3>6. A!AtSecond'
            <4>1. A!Before(A!Gap)'
                BY <1>4, <3>1, <3>5 DEF A!Before
            <4> QED
                BY <1>1, <1>4, <2>3, <3>2, <3>3, <3>4, <4>1, Zenon DEF A!AtSecond
        <3>7. val' \in Seq(Words)
            BY <2>3, <3>4
        <3> QED
            BY <1>1, <1>2, <2>3, <3>4, <3>5, <3>6, <3>7, Zenon DEF A!ParseInv
    <2> QED
        BY <2>5, <2>6
<1> QED
    BY <1>5, <1>6

\* The second colon of the gap: its place among the words is remembered.
LEMMA ParseGap ==
    ASSUME A!AddressInv, A!Parse, A!AtSecond
    PROVE  phase' = "parse" /\ A!TextInv' /\ A!ParseInv'
<1>1. /\ phase = "parse" /\ words' = words /\ best' = best /\ text' = text
      /\ A!BestRun(best, 2, 8) /\ A!TextInv /\ out \in Seq(Words)
      /\ i = A!Second /\ A!Gap < 8 /\ A!Before(A!Gap) /\ val = <<>> /\ colonp = -1
    BY ParseDoes DEF A!AddressInv, A!BestInv, A!ParseInv, A!AtSecond
<1>2. A!TextInv'
    BY <1>1, TextKept
<1>3. PICK g, a : g = A!Gap /\ a = A!After
    OBVIOUS
<1>4. /\ g \in 0..8 /\ a \in 0..8 /\ A!Gap' = g /\ A!After' = a /\ A!Second' = A!Second
      /\ A!End' = A!End /\ (a < A!End \/ a = 8) /\ A!Second \in Nat
      /\ A!Trail(a)' = A!Trail(a)
    BY <1>1, <1>3, Layout, LayoutKept
<1>5. text[i] = A!Colon
    BY <1>1, TokensAt, Zenon
<1>6. /\ colonp' = Len(out) /\ i' = i + 1 /\ phase' = phase /\ out' = out /\ val' = val
    BY <1>1, <1>5, ParseDoes, Zenon
<1>7. Len(out) = g /\ \A j \in 0..7 : j < g => out[j + 1] = words[j]
    BY <1>1, <1>3 DEF A!Before, A!Range08
<1>8. A!Around(a)'
    <2>1. Len(out') = g + (a - a) /\ \A j \in 0..7 : ~(a <= j /\ j < a)
        BY <1>4, <1>6, <1>7
    <2> QED
        BY <1>1, <1>3, <1>4, <1>6, <1>7, <2>1 DEF A!Around, A!Range08
<1>9. i' = A!Trail(a)'
    <2>1. A!Trail(a) = A!Second + 2 * (a - a) + 1
        BY <1>3, Zenon DEF A!Trail
    <2>2. A!Second + 2 * (a - a) + 1 = A!Second + 1
        BY <1>4
    <2> QED
        BY <1>1, <1>4, <1>6, <2>1, <2>2, Zenon
<1>10. A!AtTrail(a)'
    <2>1. a >= a
        BY <1>4
    <2> QED
        BY <1>1, <1>4, <1>6, <1>8, <1>9, <2>1, Zenon DEF A!AtTrail
<1>11. out' \in Seq(Words) /\ val' \in Seq(Words)
    BY <1>1, <1>6
<1> QED
    BY <1>1, <1>2, <1>4, <1>6, <1>10, <1>11, Zenon DEF A!ParseInv

\* Reading a word behind the gap, the dotted end, and the colon between two words.
LEMMA ParseAfter ==
    ASSUME A!AddressInv, A!Parse, NEW k \in 0..8, A!AtTrail(k) \/ A!PastTrail(k)
    PROVE  phase' = "parse" /\ A!TextInv' /\ A!ParseInv'
<1>1. /\ phase = "parse" /\ words' = words /\ best' = best /\ text' = text
      /\ i <= Len(text) /\ words \in [A!Range08 -> Words] /\ A!BestRun(best, 2, 8)
      /\ A!TextInv /\ out \in Seq(Words) /\ A!After <= k /\ A!Around(k)
    BY ParseDoes DEF A!AddressInv, A!BestInv, A!ParseInv, A!AtTrail, A!PastTrail
<1>2. A!TextInv'
    BY <1>1, TextKept
<1>3. PICK g, a, e, z : g = A!Gap /\ a = A!After /\ e = A!End /\ z = A!Second
    OBVIOUS
<1>4. /\ g \in 0..7 /\ a \in 0..8 /\ e \in 7..8 /\ g + 2 <= a /\ z \in Nat
      /\ (A!Ipv4 => g = 0 /\ a \in 5..6 /\ e = 7) /\ (~A!Ipv4 => e = 8)
    <2>1. g < 8
        BY <1>1, <1>3 DEF A!Around
    <2> QED
        BY <1>1, <1>3, <2>1, Layout
<1>5. /\ A!Gap' = g /\ A!After' = a /\ A!Second' = z /\ A!End' = e /\ (A!Ipv4' <=> A!Ipv4)
      /\ \A j : A!Trail(j)' = A!Trail(j)
    BY <1>1, <1>3, LayoutKept
<1>6. \A j \in 0..8 : A!Trail(j) = z + 2 * (j - a) + 1
    BY <1>3 DEF A!Trail
<1>7. Len(text) = IF a = 8 THEN z ELSE z - 1 + 2 * (e - a)
    <2>1. ~(g = 8)
        BY <1>4
    <2> QED
        BY <1>1, <1>3, <2>1, TokensAt, Zenon
<1>8. Len(out) = g + (k - a) /\ colonp = g
    BY <1>1, <1>3 DEF A!Around
<1>9. i \in {A!Trail(k), A!Trail(k) + 1}
    BY DEF A!AtTrail, A!PastTrail
<1>10. k < e
    <2>1. CASE A!PastTrail(k)
        BY <1>3, <2>1 DEF A!PastTrail
    <2>2. CASE A!AtTrail(k) /\ ~(k < e)
        <3>1. a = 8 /\ k = 8 /\ i = A!Trail(k)
            BY <1>1, <1>3, <2>2 DEF A!AtTrail
        <3>2. A!Trail(k) = z + 1
            BY <1>4, <1>6, <3>1
        <3> QED
            BY <1>1, <1>4, <1>7, <3>1, <3>2
    <2> QED
        BY <2>1, <2>2
<1>11. k \in 0..7 /\ words[k] \in Words
    BY <1>1, <1>4, <1>10 DEF A!Range08
<1>12. text[A!Trail(k)] = A!Token(k)
    BY <1>1, <1>3, <1>10, <1>11, TokensAt, Zenon
<1>13. CASE A!AtTrail(k) /\ A!Ipv4 /\ k = 6
    <2>1. i = A!Trail(k) /\ val = <<>>
        BY <1>13 DEF A!AtTrail
    <2>2. text[i] = A!Dotted(words[6], words[7])
        BY <1>12, <1>13, <2>1, Zenon DEF A!Token
    <2>3. text[i].kind = "dotted" /\ text[i].w = <<words[6], words[7]>>
        BY <2>2 DEF A!Dotted
    <2>4. ~(Len(out) + 2 > 8) /\ g = 0 /\ a \in 5..6 /\ Len(out) = 6 - a
        BY <1>4, <1>8, <1>13
    <2>5. /\ out' = out \o <<words[6], words[7]>> /\ val' = <<>> /\ i' = Len(text) + 1
          /\ phase' = phase /\ colonp' = colonp
        BY <2>3, <2>4, ParseDoes, Zenon
    <2>6. words[6] \in Words /\ words[7] \in Words
        BY <1>1 DEF A!Range08
    <2>7. PICK N : N = 6 - a
        OBVIOUS
    <2>8. /\ out' \in Seq(Words) /\ Len(out') = N + 2
          /\ \A p \in 1..N : out'[p] = out[p]
          /\ out'[N + 1] = words[6] /\ out'[N + 2] = words[7]
        BY <1>1, <2>4, <2>5, <2>6, <2>7, AddTwo
    <2>9. \A j \in 0..7 : a <= j /\ j < 6 => out[g + (j - a) + 1] = words[j]
        BY <1>1, <1>3, <1>13 DEF A!Around, A!Range08
    <2>10. ASSUME NEW j \in 0..7, a <= j
           PROVE  out'[g + (j - a) + 1] = words[j]
        <3>1. CASE j = 7
            <4>1. g + (j - a) + 1 = N + 2
                BY <2>4, <2>7, <3>1
            <4> QED
                BY <2>8, <3>1, <4>1, Zenon
        <3>2. CASE j = 6
            <4>1. g + (j - a) + 1 = N + 1
                BY <2>4, <2>7, <3>2
            <4> QED
                BY <2>8, <3>2, <4>1, Zenon
        <3>3. CASE j < 6
            <4>1. g + (j - a) + 1 \in 1..N
                BY <2>4, <2>7, <2>10, <3>3
            <4> QED
                BY <2>8, <2>9, <2>10, <3>3, <4>1, Zenon
        <3> QED
            BY <3>1, <3>2, <3>3
    <2>11. A!Around(8)'
        <3>1. Len(out') = g + (8 - a) /\ g < 8 /\ \A j \in 0..7 : ~(j < g)
            <4>1. N + 2 = g + (8 - a)
                BY <2>4, <2>7
            <4> QED
                BY <2>4, <2>8, <4>1
        <3> QED
            BY <1>1, <1>5, <1>8, <2>5, <2>10, <3>1 DEF A!Around, A!Range08
    <2>12. A!PastDotted'
        BY <1>1, <1>5, <1>13, <2>5, <2>11, Zenon DEF A!PastDotted
    <2>13. val' \in Seq(Words)
        BY <2>5
    <2> QED
        BY <1>1, <1>2, <2>5, <2>8, <2>12, <2>13, Zenon DEF A!ParseInv
<1>14. CASE A!AtTrail(k) /\ ~(A!Ipv4 /\ k = 6)
    <2>1. i = A!Trail(k)
        BY <1>14 DEF A!AtTrail
    <2>2. text[i] = A!Hex(words[k])
        BY <1>12, <1>14, <2>1, Zenon DEF A!Token
    <2>3. text[i].kind = "hex" /\ text[i].w = words[k]
        BY <2>2, Kinds, Zenon
    <2>4. /\ val' = <<words[k]>> /\ i' = i + 1 /\ phase' = phase /\ out' = out
          /\ colonp' = colonp
        BY <2>3, ParseDoes, Zenon
    <2>5. A!Around(k)'
        BY <1>1, <2>4, ReadKept, Zenon
    <2>6. A!PastTrail(k)'
        <3>1. k >= a /\ (A!Ipv4' /\ k = 6 <=> A!Ipv4 /\ k = 6)
            BY <1>1, <1>3, <1>4, <1>5
        <3> QED
            BY <1>1, <1>5, <1>10, <1>14, <2>1, <2>4, <2>5, <3>1, Zenon DEF A!PastTrail
    <2>7. out' \in Seq(Words) /\ val' \in Seq(Words)
        BY <1>1, <1>11, <2>4
    <2> QED
        BY <1>1, <1>2, <2>4, <2>6, <2>7, Zenon DEF A!ParseInv
<1>15. CASE A!PastTrail(k)
    <2>1. i = A!Trail(k) + 1 /\ val = <<words[k]>> /\ val # <<>>
        BY <1>15 DEF A!PastTrail
    <2>2. PICK m : m = k + 1
        OBVIOUS
    <2>3. m \in 0..7 /\ m < e /\ i = z + 2 * (m - a) /\ A!Trail(m) - 1 = i /\ i + 1 = A!Trail(m)
        <3>1. A!Trail(k) = z + 2 * (k - a) + 1
            BY <1>6
        <3>2. i = z + 2 * (m - a)
            BY <1>4, <1>11, <2>1, <2>2, <3>1
        <3>3. m < e
            BY <1>1, <1>3, <1>4, <1>7, <1>10, <2>2, <3>2
        <3>4. m \in 0..7
            BY <1>4, <2>2, <3>3
        <3>5. A!Trail(m) = z + 2 * (m - a) + 1
            BY <1>6, <3>4
        <3> QED
            BY <1>4, <3>2, <3>3, <3>4, <3>5
    <2>4. text[i] = A!Colon
        <3>1. A!After <= m
            BY <1>1, <1>3, <1>4, <2>2
        <3> QED
            BY <1>1, <1>3, <2>3, <3>1, TokensAt, Zenon
    <2>5. ~(Len(out) + 1 > 8)
        BY <1>1, <1>3, <1>4, <1>8, <1>11
    <2>6. /\ out' = out \o <<words[k]>> /\ val' = <<>> /\ i' = i + 1
          /\ phase' = phase /\ colonp' = colonp
        BY <2>1, <2>4, <2>5, ParseDoes, Zenon
    <2>7. A!Around(m)' /\ out' \in Seq(Words)
        BY <1>1, <1>11, <2>2, <2>6, AroundNext
    <2>8. A!AtTrail(m)'
        <3>1. m >= a
            BY <1>1, <1>3, <1>4, <2>2
        <3> QED
            BY <1>1, <1>5, <2>3, <2>6, <2>7, <3>1, Zenon DEF A!AtTrail
    <2>9. val' \in Seq(Words) /\ m \in 0..8
        BY <2>3, <2>6
    <2> QED
        BY <1>1, <1>2, <2>6, <2>7, <2>8, <2>9, Zenon DEF A!ParseInv
<1> QED
    BY <1>13, <1>14, <1>15, Zenon

\* No text inet_ntop6 writes is rejected, and the reading goes on as it should.
LEMMA ParseKeeps ==
    ASSUME A!AddressInv, A!Parse
    PROVE  phase' = "parse" /\ A!TextInv' /\ A!ParseInv'
<1>1. /\ phase = "parse" /\ i <= Len(text) /\ A!ParseInv /\ A!TextInv
    BY ParseDoes DEF A!AddressInv
<1>2. ~A!PastDotted
    <2>1. Len(text) \in Nat
        BY <1>1 DEF A!TextInv
    <2> QED
        BY <1>1, <2>1 DEF A!PastDotted
<1>3. \/ \E k \in 0..7 : A!AtWord(k) \/ A!PastWord(k)
      \/ A!AtSecond
      \/ \E k \in 0..8 : A!AtTrail(k) \/ A!PastTrail(k)
    BY <1>1, <1>2, Zenon DEF A!ParseInv, A!Range08
<1> QED
    BY <1>3, ParseBefore, ParseGap, ParseAfter, Zenon

\* The eight words: what was read around the gap, with zeros in it.
LEMMA Refilled ==
    ASSUME NEW w \in Seq(Words), words \in [A!Range08 -> Words],
           NEW g \in 0..7, NEW a \in 0..8, g + 2 <= a, Len(w) = g + (8 - a),
           A!ZeroRun(g, a - g), colonp = g,
           \A j \in 0..7 : j < g => w[j + 1] = words[j],
           \A j \in 0..7 : a <= j => w[g + (j - a) + 1] = words[j]
    PROVE  Len(A!Shifted(w)) = 8 /\ \A j \in 0..7 : A!Shifted(w)[j + 1] = words[j]
<1>1. PICK L \in 0..8 : L = Len(w) /\ L = g + (8 - a)
    OBVIOUS
<1>2. PICK T : T = Words \cup {0}
    OBVIOUS
<1>3. PICK u : u = SubSeq(w, 1, g)
    OBVIOUS
<1>4. PICK y : y = SubSeq(w, g + 1, L)
    OBVIOUS
<1>5. PICK z : z = [k \in 1..(8 - L) |-> 0]
    OBVIOUS
<1>6. A!Shifted(w) = (u \o z) \o y
    <2>1. colonp # -1
        OBVIOUS
    <2>2. A!Shifted(w) = SubSeq(w, 1, colonp) \o [k \in 1..(8 - Len(w)) |-> 0]
                            \o SubSeq(w, colonp + 1, Len(w))
        BY <2>1, Zenon DEF A!Shifted
    <2>3. colonp = g /\ Len(w) = L
        BY <1>1
    <2> QED
        BY <1>3, <1>4, <1>5, <2>2, <2>3, Zenon
<1>7. w \in Seq(T)
    BY <1>2
<1>8. /\ u \in Seq(T) /\ Len(u) = g /\ \A p \in 1..g : u[p] = w[p]
    <2>1. 1 \in Int /\ g \in Int /\ \A p \in 1..g : w[p] \in T
        BY <1>1, <1>7
    <2> QED
        BY <1>1, <1>3, <1>7, <2>1
<1>9. /\ y \in Seq(T) /\ Len(y) = L - g /\ \A p \in 1..(L - g) : y[p] = w[g + p]
    <2>1. L - g \in 0..8 /\ \A p \in (g + 1)..L : w[p] \in T
        BY <1>1, <1>7
    <2> QED
        BY <1>1, <1>4, <1>7, <2>1
<1>10. /\ z \in Seq(T) /\ Len(z) = a - g /\ \A p \in 1..(a - g) : z[p] = 0
    <2>1. 8 - L = a - g /\ a - g \in Nat /\ 0 \in T
        BY <1>1, <1>2
    <2>2. z \in [1..(a - g) -> T] /\ \A p \in 1..(a - g) : z[p] = 0
        BY <1>5, <2>1
    <2> QED
        BY <2>1, <2>2
<1>11. PICK v : v = u \o z
    OBVIOUS
<1>12. /\ v \in Seq(T) /\ Len(v) = a
       /\ \A p \in 1..g : v[p] = u[p]
       /\ \A p \in 1..(a - g) : v[g + p] = z[p]
    BY <1>8, <1>10, <1>11
<1>13. PICK r : r = v \o y
    OBVIOUS
<1>14. /\ r \in Seq(T) /\ Len(r) = 8
       /\ \A p \in 1..a : r[p] = v[p]
       /\ \A p \in 1..(L - g) : r[a + p] = y[p]
    <2>1. Len(v) + Len(y) = 8 /\ Len(v) = a
        BY <1>1, <1>9, <1>12
    <2>2. /\ r \in Seq(T) /\ Len(r) = 8
          /\ \A p \in 1..8 : r[p] = IF p <= a THEN v[p] ELSE y[p - a]
        <3>1. /\ v \o y \in Seq(T) /\ Len(v \o y) = Len(v) + Len(y)
              /\ \A p \in 1..(Len(v) + Len(y)) :
                    (v \o y)[p] = IF p <= Len(v) THEN v[p] ELSE y[p - Len(v)]
            BY <1>9, <1>12, ConcatProperties
        <3> QED
            BY <1>13, <2>1, <3>1
    <2>3. \A p \in 1..a : p \in 1..8 /\ p <= a
        OBVIOUS
    <2>4. \A p \in 1..(L - g) : a + p \in 1..8 /\ ~(a + p <= a) /\ (a + p) - a = p
        BY <1>1
    <2> QED
        BY <2>2, <2>3, <2>4, Zenon
<1>15. ASSUME NEW j \in 0..7
       PROVE  r[j + 1] = words[j]
    <2>0. PICK q : q = j + 1
        OBVIOUS
    <2>1. CASE j < g
        <3>1. q \in 1..g /\ q \in 1..a
            BY <2>0, <2>1
        <3>2. r[q] = v[q] /\ v[q] = u[q] /\ u[q] = w[q]
            BY <1>8, <1>12, <1>14, <3>1, Zenon
        <3>3. w[q] = words[j]
            BY <2>0, <2>1, Zenon
        <3> QED
            BY <2>0, <3>2, <3>3, Zenon
    <2>2. CASE g <= j /\ j < a
        <3>1. PICK p \in 1..(a - g) : p = q - g
            BY <2>0, <2>2
        <3>2. q \in 1..a /\ g + p = q /\ j \in g..(g + (a - g) - 1)
            BY <2>0, <2>2, <3>1
        <3>3. words[j] = 0
            BY <3>2, Zenon DEF A!ZeroRun
        <3>4. r[q] = v[q] /\ v[g + p] = z[p] /\ z[p] = 0
            BY <1>10, <1>12, <1>14, <3>1, <3>2, Zenon
        <3> QED
            BY <2>0, <3>2, <3>3, <3>4, Zenon
    <2>3. CASE a <= j
        <3>1. PICK p \in 1..(L - g) : p = q - a
            BY <1>1, <2>0, <2>3
        <3>2. a + p = q /\ g + p = g + (j - a) + 1
            BY <2>0, <3>1
        <3>3. r[a + p] = y[p] /\ y[p] = w[g + p]
            BY <1>9, <1>14, <3>1, Zenon
        <3>4. w[g + (j - a) + 1] = words[j]
            BY <2>3, Zenon
        <3> QED
            BY <2>0, <3>2, <3>3, <3>4, Zenon
    <2> QED
        BY <2>1, <2>2, <2>3
<1> QED
    BY <1>6, <1>11, <1>13, <1>14, <1>15, Zenon

\* At the end of the text every word has been read but those of the gap.
LEMMA ReadToEnd ==
    ASSUME A!AddressInv, phase = "parse", i > Len(text)
    PROVE  \/ /\ A!Gap = 8 /\ colonp = -1 /\ out \o val \in Seq(Words) /\ Len(out \o val) = 8
              /\ \A j \in 0..7 : (out \o val)[j + 1] = words[j]
           \/ /\ A!Gap < 8 /\ colonp = A!Gap /\ out \o val \in Seq(Words)
              /\ Len(out \o val) = A!Gap + (8 - A!After)
              /\ \A j \in 0..7 : j < A!Gap => (out \o val)[j + 1] = words[j]
              /\ \A j \in 0..7 :
                    A!After <= j => (out \o val)[A!Gap + (j - A!After) + 1] = words[j]
<1>1. /\ words \in [A!Range08 -> Words] /\ A!BestRun(best, 2, 8) /\ A!TextInv /\ A!ParseInv
      /\ out \in Seq(Words) /\ val \in Seq(Words)
    BY DEF A!AddressInv, A!BestInv, A!ParseInv
<1>2. PICK g, a, e, z : g = A!Gap /\ a = A!After /\ e = A!End /\ z = A!Second
    OBVIOUS
<1>3. /\ g \in 0..8 /\ a \in 0..8 /\ e \in 7..8 /\ (g < 8 => g + 2 <= a) /\ (g = 8 => a = 8)
      /\ z = (IF g = 0 THEN 2 ELSE 2 * g + 1)
      /\ (e = 7 => g = 0 /\ a \in 5..6)
      /\ (A!Ipv4 => e = 7) /\ (~A!Ipv4 => e = 8)
    BY <1>1, <1>2, Layout
<1>4. Len(text) = IF g = 8 THEN 15 ELSE IF a = 8 THEN z ELSE z - 1 + 2 * (e - a)
    BY <1>1, <1>2, TokensAt, Zenon
<1>5. \A j \in 0..8 : A!Trail(j) = z + 2 * (j - a) + 1
    BY <1>2 DEF A!Trail
<1>6. ASSUME NEW k \in 0..7, A!AtWord(k) PROVE FALSE
    <2>1. i = 2 * k + 1 /\ k < g
        BY <1>2, <1>6 DEF A!AtWord
    <2> QED
        BY <1>3, <1>4, <2>1
<1>7. ~A!AtSecond
    <2> SUFFICES ASSUME A!AtSecond PROVE FALSE
        OBVIOUS
    <2>1. i = z /\ g < 8
        BY <1>2 DEF A!AtSecond
    <2> QED
        BY <1>3, <1>4, <2>1
<1>8. ASSUME NEW k \in 0..7, A!PastWord(k)
      PROVE  /\ g = 8 /\ colonp = -1 /\ out \o val \in Seq(Words) /\ Len(out \o val) = 8
             /\ \A j \in 0..7 : (out \o val)[j + 1] = words[j]
    <2>1. i = 2 * k + 2 /\ k < g /\ colonp = -1 /\ val = <<words[k]>> /\ A!Before(k)
        BY <1>2, <1>8 DEF A!PastWord
    <2>2. k = 7 /\ g = 8
        BY <1>3, <1>4, <2>1
    <2>3. Len(out) = 7 /\ words[7] \in Words /\ \A j \in 0..7 : j < 7 => out[j + 1] = words[j]
        BY <1>1, <2>1, <2>2 DEF A!Before, A!Range08
    <2>4. PICK w : w = out \o val
        OBVIOUS
    <2>5. /\ w \in Seq(Words) /\ Len(w) = 8
          /\ \A p \in 1..7 : w[p] = out[p]
          /\ w[8] = words[7]
        <3>1. w = out \o <<words[7]>>
            BY <2>1, <2>2, <2>4, Zenon
        <3>2. PICK N : N = 7 /\ N = Len(out) /\ N + 1 = 8
            BY <2>3
        <3>3. words[7] \in Words /\ N = Len(out)
            BY <2>3, <3>2
        <3>4. /\ w \in Seq(Words) /\ Len(w) = N + 1
              /\ \A p \in 1..N : w[p] = out[p]
              /\ w[N + 1] = words[7]
            BY <1>1, <3>1, <3>3, AddOne
        <3> QED
            BY <3>2, <3>4, Zenon
    <2>6. ASSUME NEW j \in 0..7 PROVE w[j + 1] = words[j]
        <3>1. CASE j = 7
            BY <2>5, <3>1
        <3>2. CASE j < 7
            <4>1. j + 1 \in 1..7
                BY <3>2
            <4> QED
                BY <2>3, <2>5, <3>2, <4>1, Zenon
        <3> QED
            BY <3>1, <3>2
    <2> QED
        BY <2>1, <2>2, <2>4, <2>5, <2>6
<1>9. ASSUME A!Around(8), val = <<>>
      PROVE  /\ g < 8 /\ colonp = g /\ out \o val \in Seq(Words)
             /\ Len(out \o val) = g + (8 - a)
             /\ \A j \in 0..7 : j < g => (out \o val)[j + 1] = words[j]
             /\ \A j \in 0..7 : a <= j => (out \o val)[g + (j - a) + 1] = words[j]
    <2>1. out \o val = out
        BY <1>1, <1>9, ConcatEmptySeq, Zenon
    <2>2. \A j \in 0..7 : j < 8
        OBVIOUS
    <2>3. /\ Len(out) = g + (8 - a) /\ colonp = g /\ g < 8
          /\ \A j \in 0..7 : j < g => out[j + 1] = words[j]
          /\ \A j \in 0..7 : a <= j /\ j < 8 => out[g + (j - a) + 1] = words[j]
        BY <1>2, <1>9, Zenon DEF A!Around, A!Range08
    <2> QED
        BY <1>1, <2>1, <2>2, <2>3, Zenon
<1>10. ASSUME NEW k \in 0..8, A!AtTrail(k) PROVE A!Around(8) /\ val = <<>>
    <2>1. /\ i = A!Trail(k) /\ k >= a /\ (k < e \/ a = 8) /\ A!Around(k) /\ val = <<>>
        BY <1>2, <1>10 DEF A!AtTrail
    <2>2. g < 8
        BY <1>2, <2>1 DEF A!Around
    <2>3. i = z + 2 * (k - a) + 1
        BY <1>5, <2>1
    <2>4. k = 8
        BY <1>3, <1>4, <2>1, <2>2, <2>3
    <2> QED
        BY <2>1, <2>4
<1>11. ASSUME NEW k \in 0..8, A!PastTrail(k)
       PROVE  /\ g < 8 /\ colonp = g /\ out \o val \in Seq(Words)
              /\ Len(out \o val) = g + (8 - a)
              /\ \A j \in 0..7 : j < g => (out \o val)[j + 1] = words[j]
              /\ \A j \in 0..7 : a <= j => (out \o val)[g + (j - a) + 1] = words[j]
    <2>1. /\ i = A!Trail(k) + 1 /\ k >= a /\ k < e /\ ~(A!Ipv4 /\ k = 6) /\ A!Around(k)
          /\ val = <<words[k]>>
        BY <1>2, <1>11 DEF A!PastTrail
    <2>2. /\ Len(out) = g + (k - a) /\ colonp = g /\ g < 8
          /\ \A j \in 0..7 : j < g => out[j + 1] = words[j]
          /\ \A j \in 0..7 : a <= j /\ j < k => out[g + (j - a) + 1] = words[j]
        BY <1>2, <2>1, Zenon DEF A!Around, A!Range08
    <2>3. k = 7 /\ e = 8
        <3>1. i = z + 2 * (k - a) + 2
            <4>1. A!Trail(k) = z + 2 * (k - a) + 1
                BY <1>5
            <4> QED
                BY <1>3, <2>1, <4>1
        <3>2. k = e - 1
            BY <1>3, <1>4, <2>1, <2>2, <3>1
        <3>3. e # 7
            BY <1>3, <2>1, <3>2
        <3> QED
            BY <1>3, <3>2, <3>3
    <2>4. PICK N, w : N = g + (7 - a) /\ w = out \o val
        OBVIOUS
    <2>5. /\ w \in Seq(Words) /\ Len(w) = N + 1
          /\ \A p \in 1..N : w[p] = out[p]
          /\ w[N + 1] = words[7]
        <3>1. w = out \o <<words[7]>> /\ Len(out) = N
            BY <2>1, <2>2, <2>3, <2>4, Zenon
        <3>2. words[7] \in Words
            BY <1>1 DEF A!Range08
        <3> QED
            BY <1>1, <3>1, <3>2, AddOne
    <2>6. a <= 7 /\ N + 1 = g + (8 - a)
        BY <1>3, <2>1, <2>3, <2>4
    <2>7. ASSUME NEW j \in 0..7, j < g PROVE w[j + 1] = words[j]
        <3>1. j + 1 \in 1..N
            BY <1>3, <2>4, <2>6, <2>7
        <3> QED
            BY <2>2, <2>5, <2>7, <3>1, Zenon
    <2>8. ASSUME NEW j \in 0..7, a <= j PROVE w[g + (j - a) + 1] = words[j]
        <3>1. CASE j = 7
            BY <2>4, <2>5, <3>1, Zenon
        <3>2. CASE j # 7
            <4>1. j < k /\ g + (j - a) + 1 \in 1..N
                BY <1>3, <2>3, <2>4, <2>8, <3>2
            <4> QED
                BY <2>2, <2>5, <2>8, <4>1, Zenon
        <3> QED
            BY <3>1, <3>2
    <2> QED
        BY <2>2, <2>4, <2>5, <2>6, <2>7, <2>8, Zenon
<1>12. CASE \E k \in 0..7 : A!AtWord(k) \/ A!PastWord(k)
    BY <1>2, <1>6, <1>8, <1>12, Zenon
<1>13. CASE A!PastDotted
    BY <1>2, <1>9, <1>13, Zenon DEF A!PastDotted
<1>14. CASE \E k \in 0..8 : A!AtTrail(k) \/ A!PastTrail(k)
    BY <1>2, <1>9, <1>10, <1>11, <1>14, Zenon
<1> QED
    BY <1>1, <1>7, <1>12, <1>13, <1>14, Zenon DEF A!ParseInv, A!Range08

\* What inet_pton6 returns.
LEMMA ParsedKeeps ==
    ASSUME A!AddressInv, A!Parsed
    PROVE  phase' = "done" /\ A!RoundTrip'
<1>1. /\ phase = "parse" /\ i > Len(text) /\ phase' = "done" /\ words' = words
      /\ words \in [A!Range08 -> Words] /\ A!BestRun(best, 2, 8)
    BY DEF A!AddressInv, A!Parsed, A!BestInv
<1>2. PICK w : w = out \o val
    OBVIOUS
<1>3. IF Len(w) > 8 THEN out' = out /\ ok' = ok
      ELSE out' = A!Shifted(w) /\ ok' = (Len(A!Shifted(w)) = 8)
    BY <1>2 DEF A!Parsed
<1>4. PICK g, a : g = A!Gap /\ a = A!After
    OBVIOUS
<1>5. /\ g \in 0..8 /\ a \in 0..8
      /\ (g < 8 => g + 2 <= a /\ A!ZeroRun(g, a - g)) /\ (g = 8 => a = 8)
    BY <1>1, <1>4, Layout, Zenon
<1>6. \/ /\ g = 8 /\ colonp = -1 /\ w \in Seq(Words) /\ Len(w) = 8
         /\ \A j \in 0..7 : w[j + 1] = words[j]
      \/ /\ g < 8 /\ colonp = g /\ w \in Seq(Words)
         /\ Len(w) = g + (8 - a)
         /\ \A j \in 0..7 : j < g => w[j + 1] = words[j]
         /\ \A j \in 0..7 : a <= j => w[g + (j - a) + 1] = words[j]
    BY <1>1, <1>2, <1>4, ReadToEnd, Zenon
<1>7. /\ ~(Len(w) > 8) /\ Len(A!Shifted(w)) = 8
      /\ \A j \in 0..7 : A!Shifted(w)[j + 1] = words[j]
    <2>1. CASE /\ g = 8 /\ colonp = -1 /\ w \in Seq(Words) /\ Len(w) = 8
               /\ \A j \in 0..7 : w[j + 1] = words[j]
        <3>1. A!Shifted(w) = w
            BY <2>1, Zenon DEF A!Shifted
        <3>2. ~(8 > 8)
            OBVIOUS
        <3> QED
            BY <2>1, <3>1, <3>2, Zenon
    <2>2. CASE /\ g < 8 /\ colonp = g /\ w \in Seq(Words)
               /\ Len(w) = g + (8 - a)
               /\ \A j \in 0..7 : j < g => w[j + 1] = words[j]
               /\ \A j \in 0..7 : a <= j => w[g + (j - a) + 1] = words[j]
        <3>1. g \in 0..7 /\ g + 2 <= a /\ A!ZeroRun(g, a - g) /\ ~(Len(w) > 8)
            BY <1>5, <2>2
        <3>2. Len(A!Shifted(w)) = 8 /\ \A j \in 0..7 : A!Shifted(w)[j + 1] = words[j]
            BY <1>1, <1>5, <2>2, <3>1, Refilled
        <3> QED
            BY <3>1, <3>2
    <2> QED
        BY <1>6, <2>1, <2>2, Zenon
<1>8. out' = A!Shifted(w) /\ ok'
    BY <1>3, <1>7, Zenon
<1>9. \A j \in 0..7 : out'[j + 1] = words'[j]
    BY <1>1, <1>7, <1>8, Zenon
<1> QED
    BY <1>1, <1>8, <1>9, Zenon DEF A!RoundTrip, A!Range08

----------------------------------------------------------------------------
\* The longest run stays the one that was found.
LEMMA BestKept ==
    ASSUME A!BestInv, phase # "scan", best' = best, words' = words
    PROVE  A!BestInv'
BY RunsKept, Zenon DEF A!BestInv, A!BestRun, A!FirstLongest

LEMMA AddressInit ==
    ASSUME A!Init
    PROVE  A!AddressInv
<1>1. /\ phase = "scan" /\ words \in [A!Range08 -> Words] /\ i = 0 /\ cur = A!NoRun
      /\ best = A!NoRun /\ text = <<>> /\ out = <<>> /\ val = <<>> /\ colonp = -1
    BY DEF A!Init
<1>2. A!Start = 0
    BY <1>1 DEF A!Start, A!NoRun
<1>3. A!CurInv
    BY <1>1 DEF A!CurInv
<1>4. A!BestRun(best, 1, 0) /\ A!FirstLongest(best, 1, 0)
    BY <1>1 DEF A!BestRun, A!FirstLongest, A!Range08
<1>5. A!ScanInv
    BY <1>1, <1>2, <1>3, <1>4 DEF A!ScanInv
<1>6. phase # "format" /\ phase # "parse" /\ phase # "done"
    BY <1>1
<1> QED
    BY <1>1, <1>5, <1>6, Zenon DEF A!AddressInv, A!BestInv, A!FormatInv, A!TextInv, A!ParseInv,
       A!RoundTrip

\* Each step of inet_ntop6 and inet_pton6 keeps the inductive invariant.
LEMMA AddressNext ==
    ASSUME A!AddressInv, A!Next
    PROVE  A!AddressInv'
<1>0. /\ "scan" # "format" /\ "scan" # "parse" /\ "scan" # "done"
      /\ "format" # "parse" /\ "format" # "done" /\ "parse" # "done"
    OBVIOUS
<1>1. A!BestInv /\ words \in [A!Range08 -> Words]
    BY DEF A!AddressInv
<1>2. words' = words
    BY DEF A!Next, A!Scan, A!Scanned, A!Format, A!Formatted, A!Parse, A!Parsed
<1>3. A!Range08' = A!Range08
    BY DEF A!Range08
<1>4. CASE A!Scan
    <2>1. /\ phase' = "scan" /\ text' = <<>> /\ out' = <<>> /\ val' = <<>> /\ colonp' = -1
        BY <1>4 DEF A!Scan, A!AddressInv
    <2> QED
        BY <1>0, <1>1, <1>2, <1>3, <1>4, <2>1, ScanKeeps, Zenon
           DEF A!AddressInv, A!BestInv, A!FormatInv, A!TextInv, A!ParseInv, A!RoundTrip
<1>5. CASE A!Scanned
    <2>1. phase' = "format"
        BY <1>5 DEF A!Scanned
    <2> QED
        BY <1>0, <1>1, <1>2, <1>3, <1>5, <2>1, ScannedKeeps, ScannedFormats, Zenon
           DEF A!AddressInv, A!ScanInv, A!TextInv, A!ParseInv, A!RoundTrip
<1>6. CASE A!Format
    <2>1. phase = "format" /\ phase' = "format" /\ best' = best
        BY <1>6 DEF A!Format
    <2>2. A!BestInv'
        BY <1>0, <1>1, <1>2, <2>1, BestKept
    <2> QED
        BY <1>0, <1>1, <1>2, <1>3, <1>6, <2>1, <2>2, FormatKeeps, Zenon
           DEF A!AddressInv, A!ScanInv, A!TextInv, A!ParseInv, A!RoundTrip
<1>7. CASE A!Formatted
    <2>1. phase = "format" /\ best' = best
        BY <1>7 DEF A!Formatted
    <2>2. A!BestInv'
        BY <1>0, <1>1, <1>2, <2>1, BestKept
    <2> QED
        BY <1>0, <1>1, <1>2, <1>3, <1>7, <2>2, FormattedKeeps, Zenon
           DEF A!AddressInv, A!ScanInv, A!FormatInv, A!RoundTrip
<1>8. CASE A!Parse
    <2>1. phase = "parse" /\ best' = best
        BY <1>8, ParseDoes
    <2>2. A!BestInv'
        BY <1>0, <1>1, <1>2, <2>1, BestKept
    <2> QED
        BY <1>0, <1>1, <1>2, <1>3, <1>8, <2>2, ParseKeeps, Zenon
           DEF A!AddressInv, A!ScanInv, A!FormatInv, A!RoundTrip
<1>9. CASE A!Parsed
    <2>1. phase = "parse" /\ best' = best
        BY <1>9 DEF A!Parsed
    <2>2. A!BestInv'
        BY <1>0, <1>1, <1>2, <2>1, BestKept
    <2> QED
        BY <1>0, <1>1, <1>2, <1>3, <1>9, <2>2, ParsedKeeps, Zenon
           DEF A!AddressInv, A!ScanInv, A!FormatInv, A!TextInv, A!ParseInv
<1> QED
    BY <1>4, <1>5, <1>6, <1>7, <1>8, <1>9 DEF A!Next

\* The runs of MCBook: the address text is not in use, or its invariant holds.
AddressesInv == phase = "unused" \/ A!AddressInv

\* inet_ntop6 and inet_pton6 on every address of eight words, whatever set the words
\* are taken from: the inductive invariant of the scan, the text and the reading.
THEOREM AddressInvariant == MCSpec => []AddressesInv
<1>1. MCInit => AddressesInv
    BY AddressInit, Zenon DEF MCInit, NoAddress, AddressesInv
<1>2. AddressesInv /\ [MCNext]_<<vars, gaiVars, textVars>> => AddressesInv'
    <2> SUFFICES ASSUME AddressesInv, [MCNext]_<<vars, gaiVars, textVars>>
                 PROVE  AddressesInv'
        OBVIOUS
    <2>1. CASE phase # "unused" /\ A!Next
        BY <2>1, AddressNext DEF AddressesInv
    <2>2. CASE textVars' = textVars
        <3>1. /\ phase' = phase /\ words' = words /\ i' = i /\ cur' = cur /\ best' = best
              /\ text' = text /\ out' = out /\ val' = val /\ colonp' = colonp /\ ok' = ok
            BY <2>2 DEF textVars
        <3>2. CASE phase = "unused"
            BY <3>1, <3>2 DEF AddressesInv
        <3>3. CASE A!AddressInv
            <4>1. A!AddressInv'
                BY <3>1, <3>3
                   DEF A!AddressInv, A!ScanInv, A!BestInv, A!FormatInv, A!TextInv, A!ParseInv,
                       A!RoundTrip, A!CurInv, A!BestRun, A!FirstLongest, A!ZeroRun, A!Start,
                       A!Written, A!Width, A!Handled, A!Gap, A!After, A!End, A!Ipv4, A!Second,
                       A!Trail, A!Token, A!Before, A!Around, A!AtWord, A!PastWord, A!AtSecond,
                       A!AtTrail, A!PastTrail, A!PastDotted
            <4> QED
                BY <4>1 DEF AddressesInv
        <3> QED
            BY <3>2, <3>3 DEF AddressesInv
    <2> QED
        BY <2>1, <2>2 DEF MCNext
<1> QED
    BY <1>1, <1>2, PTL DEF MCSpec

\* RoundTrip: every address inet_ntop writes is one inet_pton accepts, and reads back as
\* the same eight words.
THEOREM AddressesReadBack == MCSpec => []RoundTrip
<1>1. AddressesInv => RoundTrip
    BY DEF AddressesInv, A!AddressInv, RoundTrip, A!RoundTrip
<1> QED
    BY <1>1, AddressInvariant, PTL

\* LongestZeros: "::" stands for the longest run of zero words, the first of them if
\* there are several, and is absent only when there is none of two words or more.
THEOREM GapIsLongest == MCSpec => []LongestZeros
<1>1. ASSUME AddressesInv PROVE LongestZeros
    <2>1. SUFFICES ASSUME phase \in {"format", "parse", "done"}
                   PROVE  /\ best.base # -1 => A!ZeroRun(best.base, best.len) /\ best.len >= 2
                          /\ \A b \in A!Range08 : \A l \in 2..(8 - b) :
                                A!ZeroRun(b, l) => /\ best.base # -1 /\ l <= best.len
                                                   /\ (l = best.len => best.base <= b)
        BY Zenon DEF LongestZeros, A!LongestZeros
    <2>2. A!BestRun(best, 2, 8) /\ A!FirstLongest(best, 2, 8)
        BY <1>1, <2>1 DEF AddressesInv, A!AddressInv, A!BestInv
    <2>3. best.base # -1 => A!ZeroRun(best.base, best.len) /\ best.len >= 2
        <3>1. SUFFICES ASSUME best # A!NoRun
                       PROVE  A!ZeroRun(best.base, best.len) /\ best.len >= 2
            BY DEF A!NoRun
        <3>2. PICK b \in 0..7, l \in 1..8 :
                  best = A!Run(b, l) /\ 2 <= l /\ b + l <= 8 /\ A!ZeroRun(b, l)
            BY <2>2, <3>1 DEF A!BestRun, A!Range08
        <3>3. best.base = b /\ best.len = l
            BY <3>2 DEF A!Run
        <3> QED
            BY <3>2, <3>3
    <2>4. ASSUME NEW b \in A!Range08, NEW l \in 2..(8 - b), A!ZeroRun(b, l)
          PROVE  best.base # -1 /\ l <= best.len /\ (l = best.len => best.base <= b)
        <3>1. b \in 0..7
            BY DEF A!Range08
        <3>2. l \in 1..8 /\ 2 <= l /\ b + l <= 8
            BY <3>1
        <3> QED
            BY <2>2, <2>4, <3>2, Zenon DEF A!FirstLongest
    <2> QED
        BY <2>3, <2>4
<1> QED
    BY <1>1, AddressInvariant, PTL

----------------------------------------------------------------------------
\* getaddrinfo, for hosts with any number of addresses.

\* A set of numbers that is not empty has a least element.
LEMMA LeastOf ==
    ASSUME NEW S, S \subseteq Nat, S # {}
    PROVE  \E b \in S : \A j \in S : b <= j
<1>1. PICK b \in S : \A j \in S : ~(<<j, b>> \in OpToRel(<, Nat))
  BY NatLessThanWellFounded, WFMin, Zenon
<1>2. ASSUME NEW j \in S
      PROVE  b <= j
  <2>1. b \in Nat /\ j \in Nat
    OBVIOUS
  <2>2. ~(j < b)
    BY <1>1, <2>1 DEF OpToRel
  <2> QED
    BY <2>1, <2>2
<1> QED
  BY <1>2

\* g[k] is the first k sequences of s, one after the other.
Steps(s, N, g) == g = [k \in 1..N |-> IF k = 1 THEN s[k] ELSE g[k - 1] \o s[k]]

\* FlattenSeq, for the partial results of its recursion: they are determined.
LEMMA Flattens ==
    ASSUME NEW s, NEW N \in Nat, N # 0, Len(s) = N, NEW g, Steps(s, N, g)
    PROVE  G!FlattenSeq(s) = g[N]
<1>1. PICK h : /\ h = [k \in 1..N |-> IF k = 1 THEN s[k] ELSE h[k - 1] \o s[k]]
               /\ G!FlattenSeq(s) = h[N]
    <2>1. Len(s) # 0
        OBVIOUS
    <2>2. G!FlattenSeq(s)
          = (CHOOSE f : f = [k \in 1..Len(s) |-> IF k = 1 THEN s[k]
                                                 ELSE f[k - 1] \o s[k]])[Len(s)]
        BY <2>1, Zenon DEF G!FlattenSeq
    <2>3. PICK h : h = CHOOSE f : f = [k \in 1..Len(s) |-> IF k = 1 THEN s[k] ELSE f[k - 1] \o s[k]]
        OBVIOUS
    <2>4. h = [k \in 1..Len(s) |-> IF k = 1 THEN s[k] ELSE h[k - 1] \o s[k]]
        <3>1. \E f : f = [k \in 1..Len(s) |-> IF k = 1 THEN s[k] ELSE f[k - 1] \o s[k]]
            BY Zenon DEF Steps
        <3> QED
            BY <2>3, <3>1, Zenon
    <2>5. h = [k \in 1..N |-> IF k = 1 THEN s[k] ELSE h[k - 1] \o s[k]]
        BY <2>4
    <2>6. G!FlattenSeq(s) = h[N]
        BY <2>2, <2>3
    <2> QED
        BY <2>5, <2>6
<1>3. g = [k \in 1..N |-> IF k = 1 THEN s[k] ELSE g[k - 1] \o s[k]]
    BY Zenon DEF Steps
<1>2. ASSUME h[N] # g[N] PROVE FALSE
    <2>1. PICK D : D = {k \in 1..N : h[k] # g[k]}
        OBVIOUS
    <2>2. D \subseteq Nat /\ D # {}
        <3>1. N \in 1..N /\ 1..N \subseteq Nat
            OBVIOUS
        <3> QED
            BY <1>2, <2>1, <3>1, Zenon
    <2>3. PICK k \in D : \A j \in D : k <= j
        BY <2>2, LeastOf
    <2>4. k \in 1..N /\ h[k] # g[k]
        BY <2>1
    <2>5. k # 1
        <3>1. 1 \in 1..N
            OBVIOUS
        <3>2. h[1] = s[1] /\ g[1] = s[1]
            BY <1>1, <1>3, <3>1, Zenon
        <3> QED
            BY <2>4, <3>2
    <2>6. PICK m \in 1..N : m = k - 1 /\ m \notin D
        BY <2>3, <2>4, <2>5
    <2>7. h[m] = g[m]
        BY <2>1, <2>6, Zenon
    <2>8. h[k] = h[k - 1] \o s[k] /\ g[k] = g[k - 1] \o s[k]
        BY <1>1, <1>3, <2>4, <2>5, Zenon
    <2> QED
        BY <2>4, <2>6, <2>7, <2>8, Zenon
<1> QED
    BY <1>1, <1>2

\* FlattenSeq is the last of its partial results.
LEMMA FlattenSteps ==
    ASSUME NEW s, NEW N \in Nat, N # 0, Len(s) = N
    PROVE  \E g : Steps(s, N, g) /\ G!FlattenSeq(s) = g[N]
<1>0. PICK D : D = {m \in 1..N : \A g : ~Steps(s, m, g)}
    OBVIOUS
<1>5. /\ D \subseteq 1..N
      /\ \A m \in 1..N : m \in D <=> \A g : ~Steps(s, m, g)
    BY <1>0, Zenon
<1>1. ASSUME D # {} PROVE FALSE
    <2>1. D \subseteq Nat
        BY <1>5
    <2>2. PICK m \in D : \A j \in D : m <= j
        BY <1>1, <2>1, LeastOf
    <2>3. m \in 1..N
        BY <1>5
    <2>4. CASE m = 1
        <3>1. PICK g : g = [k \in 1..1 |-> s[1]]
            OBVIOUS
        <3>2. Steps(s, 1, g)
            BY <3>1 DEF Steps
        <3> QED
            BY <1>5, <2>3, <2>4, <3>2, Zenon
    <2>5. CASE m # 1
        <3>1. PICK p \in 1..N : p = m - 1 /\ p \notin D
            BY <2>2, <2>3, <2>5
        <3>2. PICK g : Steps(s, p, g)
            BY <1>5, <3>1, Zenon
        <3>3. PICK h : h = [k \in 1..m |-> IF k = m THEN g[p] \o s[m] ELSE g[k]]
            OBVIOUS
        <3>4. ASSUME NEW k \in 1..m
              PROVE  h[k] = IF k = 1 THEN s[k] ELSE h[k - 1] \o s[k]
            <4>1. CASE k = m
                <5>1. k - 1 = p /\ p \in 1..m /\ p # m /\ k # 1
                    BY <2>3, <2>5, <3>1, <4>1
                <5>2. h[p] = g[p] /\ h[k] = g[p] \o s[m]
                    BY <3>3, <4>1, <5>1, Zenon
                <5> QED
                    BY <4>1, <5>1, <5>2
            <4>2. CASE k # m
                <5>1. k \in 1..p
                    BY <2>3, <3>1, <4>2
                <5>2. h[k] = g[k]
                    BY <3>3, <4>2, Zenon
                <5>3. g[k] = IF k = 1 THEN s[k] ELSE g[k - 1] \o s[k]
                    BY <3>2, <5>1, Zenon DEF Steps
                <5>4. CASE k = 1
                    BY <5>2, <5>3, <5>4
                <5>5. CASE k # 1
                    <6>1. k - 1 \in 1..m /\ k - 1 # m
                        BY <5>1, <5>5, <3>1, <2>3
                    <6>2. h[k - 1] = g[k - 1]
                        BY <3>3, <6>1, Zenon
                    <6> QED
                        BY <5>2, <5>3, <5>5, <6>2
                <5> QED
                    BY <5>4, <5>5
            <4> QED
                BY <4>1, <4>2
        <3>5. Steps(s, m, h)
            <4>1. h = [k \in 1..m |-> h[k]]
                BY <3>3
            <4> QED
                BY <4>1, <3>4, Zenon DEF Steps
        <3> QED
            BY <1>5, <2>3, <3>5, Zenon
    <2> QED
        BY <2>4, <2>5
<1>2. N \in 1..N
    OBVIOUS
<1>3. PICK g : Steps(s, N, g)
    BY <1>1, <1>2, <1>5, Zenon
<1>4. G!FlattenSeq(s) = g[N]
    BY <1>3, Flattens, Zenon
<1> QED
    BY <1>3, <1>4

\* One entry for each: the entries themselves.
Singles(N, f, s) == s = [k \in 1..N |-> <<f[k]>>] /\ f = [k \in 1..N |-> f[k]]

LEMMA FlattenOne ==
    ASSUME NEW N \in Nat, NEW f, NEW s, Singles(N, f, s)
    PROVE  G!FlattenSeq(s) = f
<1>0. s = [k \in 1..N |-> <<f[k]>>] /\ f = [k \in 1..N |-> f[k]]
    BY Zenon DEF Singles
<1>1. Len(s) = N
    BY <1>0
<1>2. CASE N = 0
    <2>1. G!FlattenSeq(s) = s
        BY <1>1, <1>2, Zenon DEF G!FlattenSeq
    <2>2. s = f
        BY <1>0, <1>2
    <2> QED
        BY <1>0, <2>1, <2>2
<1>3. CASE N # 0
    <2>1. PICK g : g = [k \in 1..N |-> [p \in 1..k |-> f[p]]]
        OBVIOUS
    <2>2. ASSUME NEW k \in 1..N
          PROVE  g[k] = IF k = 1 THEN s[k] ELSE g[k - 1] \o s[k]
        <3>1. s[k] = <<f[k]>> /\ g[k] = [p \in 1..k |-> f[p]]
            BY <1>0, <2>1
        <3>2. CASE k = 1
            <4>1. [p \in 1..1 |-> f[p]] = <<f[1]>>
                OBVIOUS
            <4> QED
                BY <3>1, <3>2, <4>1
        <3>3. CASE k # 1
            <4>1. PICK m \in 1..N : m = k - 1
                BY <3>3
            <4>2. g[m] = [p \in 1..m |-> f[p]]
                BY <2>1
            <4>3. PICK u : u = [p \in 1..m |-> f[p]]
                OBVIOUS
            <4>5. PICK S : \A p \in 1..N : f[p] \in S
                <5>1. \A p \in 1..N : f[p] \in {f[b] : b \in 1..N}
                    OBVIOUS
                <5> QED
                    BY <5>1, Zenon
            <4>4. u \in Seq(S) /\ Len(u) = m /\ <<f[k]>> \in Seq(S) /\ Len(<<f[k]>>) = 1
                <5>1. \A p \in 1..m : f[p] \in S
                    BY <4>1, <4>5
                <5>2. m \in Nat /\ f[k] \in S
                    BY <4>5
                <5>3. u \in [1..m -> S]
                    BY <4>3, <5>1
                <5>4. u \in Seq(S) /\ Len(u) = m
                    BY <5>2, <5>3
                <5> QED
                    BY <5>2, <5>4
            <4>6. u \o <<f[k]>> = [p \in 1..k |-> f[p]]
                <5>1. u \o <<f[k]>> = [p \in 1..(m + 1) |-> IF p <= m THEN u[p] ELSE <<f[k]>>[p - m]]
                    BY <4>4
                <5> QED
                    BY <4>1, <4>3, <5>1
            <4> QED
                BY <3>1, <3>3, <4>1, <4>2, <4>3, <4>6
        <3> QED
            BY <3>2, <3>3
    <2>3. Steps(s, N, g)
        <3>1. g = [k \in 1..N |-> g[k]]
            BY <2>1
        <3> QED
            BY <2>2, <3>1, Zenon DEF Steps
    <2>4. G!FlattenSeq(s) = g[N]
        BY <1>1, <1>3, <2>3, Flattens, Zenon
    <2>5. g[N] = f
        <3>1. g[N] = [p \in 1..N |-> f[p]]
            BY <1>3, <2>1
        <3> QED
            BY <1>0, <3>1, Zenon
    <2> QED
        BY <1>0, <2>4, <2>5
<1> QED
    BY <1>2, <1>3

\* Nothing for each: nothing at all.
LEMMA FlattenNone ==
    ASSUME NEW N \in Nat
    PROVE  G!FlattenSeq([k \in 1..N |-> <<>>]) = <<>>
<1>0. PICK s : s = [k \in 1..N |-> <<>>]
    OBVIOUS
<1>1. Len(s) = N
    BY <1>0
<1>2. CASE N = 0
    <2>1. G!FlattenSeq(s) = s
        BY <1>1, <1>2, Zenon DEF G!FlattenSeq
    <2>2. s = <<>>
        BY <1>0, <1>2
    <2> QED
        BY <1>0, <2>1, <2>2
<1>3. CASE N # 0
    <2>2. ASSUME NEW k \in 1..N
          PROVE  s[k] = IF k = 1 THEN s[k] ELSE s[k - 1] \o s[k]
        <3>1. CASE k # 1
            <4>1. s[k] = <<>> /\ s[k - 1] = <<>>
                BY <1>0, <3>1
            <4>2. <<>> \o <<>> = <<>>
                OBVIOUS
            <4> QED
                BY <3>1, <4>1, <4>2
        <3> QED
            BY <3>1
    <2>3. Steps(s, N, s)
        <3>1. s = [k \in 1..N |-> s[k]]
            BY <1>0
        <3> QED
            BY <2>2, <3>1, Zenon DEF Steps
    <2>4. G!FlattenSeq(s) = s[N]
        BY <1>1, <1>3, <2>3, Flattens, Zenon
    <2>5. s[N] = <<>>
        BY <1>0, <1>3
    <2> QED
        BY <1>0, <2>4, <2>5
<1> QED
    BY <1>2, <1>3

\* What ResultExact compares of a list of addrinfo structures.
Triples(l) == [k \in DOMAIN l |-> <<l[k].family, l[k].addr, l[k].type>>]

\* The comparison of two lists, one after the other.
LEMMA TriplesJoin ==
    ASSUME NEW S, NEW a \in Seq(S), NEW b \in Seq(S)
    PROVE  Triples(a \o b) = Triples(a) \o Triples(b)
<1>1. PICK R : R = {<<e.family, e.addr, e.type>> : e \in S}
    OBVIOUS
<1>2. ASSUME NEW c \in Seq(S)
      PROVE  /\ Triples(c) \in Seq(R) /\ Len(Triples(c)) = Len(c)
             /\ \A k \in 1..Len(c) : Triples(c)[k] = <<c[k].family, c[k].addr, c[k].type>>
    <2>1. DOMAIN c = 1..Len(c) /\ Len(c) \in Nat /\ \A k \in 1..Len(c) : c[k] \in S
        OBVIOUS
    <2>2. Triples(c) = [k \in 1..Len(c) |-> <<c[k].family, c[k].addr, c[k].type>>]
        BY <2>1 DEF Triples
    <2>3. \A k \in 1..Len(c) : <<c[k].family, c[k].addr, c[k].type>> \in R
        BY <1>1, <2>1, Zenon
    <2>4. \A k \in 1..Len(c) : Triples(c)[k] = <<c[k].family, c[k].addr, c[k].type>>
        BY <2>2, Zenon
    <2>5. Triples(c) \in [1..Len(c) -> R]
        BY <2>2, <2>3, Zenon
    <2> QED
        BY <2>1, <2>4, <2>5
<1>0. PICK p \in Nat, q \in Nat : p = Len(a) /\ q = Len(b)
    OBVIOUS
<1>3. a \o b \in Seq(S) /\ Len(a \o b) = p + q
    BY <1>0
<1>4. PICK f, g, h : f = Triples(a) /\ g = Triples(b) /\ h = Triples(a \o b)
    OBVIOUS
<1>5. /\ f \in Seq(R) /\ Len(f) = p /\ g \in Seq(R) /\ Len(g) = q
      /\ h \in Seq(R) /\ Len(h) = p + q
    BY <1>0, <1>2, <1>3, <1>4, Zenon
<1>6. ASSUME NEW k \in 1..(p + q)
      PROVE  h[k] = (f \o g)[k]
    <2>2. k \in 1..Len(a \o b)
        BY <1>3
    <2>3. PICK e : e = (a \o b)[k] /\ h[k] = <<e.family, e.addr, e.type>>
        BY <1>2, <1>3, <1>4, <2>2, Zenon
    <2>4. CASE k <= p
        <3>1. k \in 1..p /\ (a \o b)[k] = a[k] /\ (f \o g)[k] = f[k]
            BY <1>0, <1>5, <2>4
        <3>2. f[k] = <<a[k].family, a[k].addr, a[k].type>>
            BY <1>0, <1>2, <1>4, <3>1, Zenon
        <3> QED
            BY <2>3, <3>1, <3>2, Zenon
    <2>5. CASE k > p
        <3>1. PICK m \in 1..q : m = k - p
            BY <2>5
        <3>2. (a \o b)[k] = b[m] /\ (f \o g)[k] = g[m]
            BY <1>0, <1>5, <2>5, <3>1
        <3>3. g[m] = <<b[m].family, b[m].addr, b[m].type>>
            BY <1>0, <1>2, <1>4, Zenon
        <3> QED
            BY <2>3, <3>2, <3>3, Zenon
    <2>6. k <= p \/ k > p
        OBVIOUS
    <2> QED
        BY <2>4, <2>5, <2>6, Zenon
<1>7. h = f \o g
    <2>1. f \o g \in Seq(R) /\ Len(f \o g) = p + q
        <3>1. f \in Seq(R) /\ g \in Seq(R) /\ Len(f) = p /\ Len(g) = q
            BY <1>5
        <3> QED
            BY <3>1, ConcatProperties
    <2> QED
        BY <1>5, <1>6, <2>1, SeqEqual
<1> QED
    BY <1>4, <1>7

\* Nothing is lost and nothing moves when the comparison is made entry by entry.
LEMMA FlattenTriples ==
    ASSUME NEW N \in Nat, NEW S, NEW s \in [1..N -> Seq(S)]
    PROVE  Triples(G!FlattenSeq(s)) = G!FlattenSeq([k \in 1..N |-> Triples(s[k])])
<1>1. PICK u : u = [k \in 1..N |-> Triples(s[k])]
    OBVIOUS
<1>2. Len(s) = N /\ Len(u) = N
    BY <1>1
<1>3. CASE N = 0
    <2>1. G!FlattenSeq(s) = s /\ G!FlattenSeq(u) = u
        BY <1>2, <1>3, Zenon DEF G!FlattenSeq
    <2>2. DOMAIN s = {} /\ DOMAIN u = {}
        BY <1>1, <1>3
    <2>3. Triples(s) = u
        BY <1>1, <2>2 DEF Triples
    <2> QED
        BY <1>1, <2>1, <2>3
<1>4. CASE N # 0
    <2>1. PICK g : Steps(s, N, g) /\ G!FlattenSeq(s) = g[N]
        BY <1>2, <1>4, FlattenSteps, Zenon
    <2>2. PICK h : Steps(u, N, h) /\ G!FlattenSeq(u) = h[N]
        BY <1>2, <1>4, FlattenSteps, Zenon
    <2>3. PICK D : D = {k \in 1..N : ~(g[k] \in Seq(S) /\ Triples(g[k]) = h[k])}
        OBVIOUS
    <2>4. /\ D \subseteq 1..N
          /\ \A k \in 1..N : k \in D <=> ~(g[k] \in Seq(S) /\ Triples(g[k]) = h[k])
        BY <2>3, Zenon
    <2>5. ASSUME D # {} PROVE FALSE
        <3>1. D \subseteq Nat
            BY <2>4
        <3>2. PICK k \in D : \A j \in D : k <= j
            BY <2>5, <3>1, LeastOf
        <3>3. k \in 1..N
            BY <2>4
        <3>4. s[k] \in Seq(S) /\ u[k] = Triples(s[k])
            BY <1>1, <3>3
        <3>5. CASE k = 1
            <4>1. g[k] = s[k] /\ h[k] = u[k]
                BY <2>1, <2>2, <3>3, <3>5, Zenon DEF Steps
            <4> QED
                BY <2>4, <3>3, <3>4, <4>1, Zenon
        <3>6. CASE k # 1
            <4>1. PICK m \in 1..N : m = k - 1 /\ m \notin D
                BY <3>2, <3>3, <3>6
            <4>2. g[m] \in Seq(S) /\ Triples(g[m]) = h[m]
                BY <2>4, <4>1, Zenon
            <4>3. g[k] = g[m] \o s[k] /\ h[k] = h[m] \o u[k]
                BY <2>1, <2>2, <3>3, <3>6, <4>1, Zenon DEF Steps
            <4>4. g[m] \o s[k] \in Seq(S)
                BY <3>4, <4>2
            <4>5. Triples(g[m] \o s[k]) = Triples(g[m]) \o Triples(s[k])
                BY <3>4, <4>2, TriplesJoin, Zenon
            <4>6. g[k] \in Seq(S) /\ Triples(g[k]) = h[k]
                BY <3>4, <4>2, <4>3, <4>4, <4>5, Zenon
            <4> QED
                BY <2>4, <3>3, <4>6, Zenon
        <3> QED
            BY <3>5, <3>6
    <2>6. N \in 1..N
        BY <1>4
    <2>7. Triples(g[N]) = h[N]
        BY <2>4, <2>5, <2>6, Zenon
    <2> QED
        BY <1>1, <2>1, <2>2, <2>7
<1> QED
    BY <1>3, <1>4

\* One addrinfo structure.
Rec(f, a, t, c, p) == [family |-> f, addr |-> a, type |-> t, clone |-> c, port |-> p]

\* The entries of the addresses <<x[k], y[k]>>: with one kind of socket, with two, and
\* what the comparison sees of them.
Listed(N, x, y, t, c, p, l) == l = [k \in 1..N |-> Rec(x[k], y[k], t, c, p)]
NoClone == FALSE
Cloned(c) == c
Doubled(N, x, y, q, c, t, s) ==
    s = [k \in 1..N |-> <<Rec(x[k], y[k], q, c, q), Rec(x[k], y[k], t, NoClone, t)>>]
Hosts(N, x, y) == G!Addresses = [k \in 1..N |-> <<x[k], y[k]>>]
Named(N, x, y, t, w) == w = [k \in 1..N |-> <<x[k], y[k], t>>]
NamedTwice(N, x, y, q, t, s) == s = [k \in 1..N |-> <<<<x[k], y[k], q>>, <<x[k], y[k], t>>>>]

WithPort(e, t) == [e EXCEPT !.type = t, !.port = t]
WithClone(e, v) == [e EXCEPT !.clone = v]

\* What ga_port and ga_clone set in one structure.
LEMMA RecSet ==
    ASSUME NEW f, NEW a, NEW q, NEW c, NEW p, NEW t
    PROVE  /\ WithPort(Rec(f, a, q, c, p), t) = Rec(f, a, t, c, t)
           /\ WithClone(Rec(f, a, q, c, p), t) = Rec(f, a, q, t, p)
<1>0. PICK e : e = Rec(f, a, q, c, p)
    OBVIOUS
<1>1. PICK d : d = [e EXCEPT !.type = t]
    OBVIOUS
<1>2. d = Rec(f, a, t, c, p)
    BY <1>0, <1>1 DEF Rec
<1>3. [d EXCEPT !.port = t] = Rec(f, a, t, c, t)
    BY <1>2 DEF Rec
<1>4. WithPort(e, t) = [d EXCEPT !.port = t]
    BY <1>1 DEF WithPort
<1>5. WithClone(e, t) = Rec(f, a, q, t, p)
    BY <1>0 DEF WithClone, Rec
<1> QED
    BY <1>0, <1>3, <1>4, <1>5

\* ga_port, when no entry has another kind of socket yet.
LEMMA PortFirst ==
    ASSUME NEW N \in Nat, NEW x, NEW y, NEW t, NEW c, NEW q, NEW l,
           (q = "any" /\ c) \/ (q = t /\ ~c), Listed(N, x, y, q, c, 0, l)
    PROVE  Listed(N, x, y, t, c, t, G!ga_port(l, t))
<1>0. l = [k \in 1..N |-> Rec(x[k], y[k], q, c, 0)]
    BY Zenon DEF Listed
<1>1. PICK r : r = [k \in 1..N |-> Rec(x[k], y[k], t, c, t)]
    OBVIOUS
<1>2. DOMAIN l = 1..N
    BY <1>0, Zenon
<1>3. ASSUME NEW k \in 1..N
      PROVE  (LET withPort(e) == [e EXCEPT !.type = t, !.port = t]
                  ga_clone(e) == <<e, [withPort(e) EXCEPT !.clone = FALSE]>>
                  e == l[k]
              IN CASE e.clone /\ e.type # "any" -> ga_clone(e)
                   [] e.clone /\ e.type = "any" -> <<withPort(e)>>
                   [] ~e.clone /\ e.type # t -> <<e>>
                   [] OTHER -> <<withPort(e)>>) = <<r[k]>>
    <2>1. PICK e : e = l[k]
        OBVIOUS
    <2>2. e = Rec(x[k], y[k], q, c, 0)
        BY <1>0, <2>1, Zenon
    <2>3. [e EXCEPT !.type = t, !.port = t] = r[k]
        <3>1. r[k] = Rec(x[k], y[k], t, c, t)
            BY <1>1, Zenon
        <3>2. WithPort(e, t) = r[k]
            BY <2>2, <3>1, RecSet
        <3> QED
            BY <3>2, Zenon DEF WithPort
    <2>6. e.clone = c /\ e.type = q
        BY <2>2 DEF Rec
    <2>4. CASE q = "any" /\ c
        <3>1. e.clone /\ e.type = "any"
            BY <2>4, <2>6, Zenon
        <3> QED
            BY <2>1, <2>3, <3>1
    <2>5. CASE q = t /\ ~c
        <3>1. ~e.clone /\ e.type = t
            BY <2>5, <2>6, Zenon
        <3> QED
            BY <2>1, <2>3, <3>1
    <2> QED
        BY <2>4, <2>5
<1>4. PICK s : s = [k \in 1..N |-> <<r[k]>>]
    OBVIOUS
<1>5. G!ga_port(l, t) = G!FlattenSeq(s)
    BY <1>2, <1>3, <1>4, Zenon DEF G!ga_port
<1>6. Singles(N, r, s)
    BY <1>1, <1>4 DEF Singles
<1>7. G!FlattenSeq(s) = r
    BY <1>6, FlattenOne, Zenon
<1> QED
    BY <1>1, <1>5, <1>7, Zenon DEF Listed

\* ga_port, when every entry has one already: each is copied.
LEMMA PortSecond ==
    ASSUME NEW N \in Nat, NEW x, NEW y, NEW t, NEW q, q # "any", NEW c, NEW l,
           Listed(N, x, y, q, c, q, l), NEW s, Doubled(N, x, y, q, c, t, s)
    PROVE  Cloned(c) => G!ga_port(l, t) = G!FlattenSeq(s)
<1>0. l = [k \in 1..N |-> Rec(x[k], y[k], q, c, q)]
    BY Zenon DEF Listed
<1>1. ASSUME NEW k \in 1..N
      PROVE  WithClone(WithPort(l[k], t), NoClone) = Rec(x[k], y[k], t, NoClone, t)
    <2>1. l[k] = Rec(x[k], y[k], q, c, q)
        BY <1>0, Zenon
    <2>2. WithPort(Rec(x[k], y[k], q, c, q), t) = Rec(x[k], y[k], t, c, t)
        BY RecSet
    <2>3. WithClone(Rec(x[k], y[k], t, c, t), NoClone) = Rec(x[k], y[k], t, NoClone, t)
        BY RecSet
    <2> QED
        BY <2>1, <2>2, <2>3, Zenon
<1> SUFFICES ASSUME c
             PROVE  G!ga_port(l, t) = G!FlattenSeq(s)
    BY Zenon DEF Cloned
<1>2. DOMAIN l = 1..N
    BY <1>0, Zenon
<1>3. ASSUME NEW k \in 1..N
      PROVE  (LET withPort(e) == [e EXCEPT !.type = t, !.port = t]
                  ga_clone(e) == <<e, [withPort(e) EXCEPT !.clone = FALSE]>>
                  e == l[k]
              IN CASE e.clone /\ e.type # "any" -> ga_clone(e)
                   [] e.clone /\ e.type = "any" -> <<withPort(e)>>
                   [] ~e.clone /\ e.type # t -> <<e>>
                   [] OTHER -> <<withPort(e)>>)
             = <<Rec(x[k], y[k], q, c, q), Rec(x[k], y[k], t, NoClone, t)>>
    <2>1. PICK e : e = l[k]
        OBVIOUS
    <2>2. e = Rec(x[k], y[k], q, c, q) /\ e.clone = c /\ e.type = q
        <3>1. e = Rec(x[k], y[k], q, c, q)
            BY <1>0, <2>1, Zenon
        <3> QED
            BY <3>1 DEF Rec
    <2>3. [[e EXCEPT !.type = t, !.port = t] EXCEPT !.clone = FALSE] = Rec(x[k], y[k], t, NoClone, t)
        BY <1>1, <2>1, Zenon DEF WithPort, WithClone, NoClone
    <2>4. e.clone /\ e.type # "any"
        BY <2>2, Zenon
    <2> QED
        BY <2>1, <2>2, <2>3, <2>4, Zenon
<1> QED
    BY <1>2, <1>3, Zenon DEF G!ga_port, Doubled

\* Two sequences, one after the other.
Follows(p, q, a, b, f) ==
    \E N \in Nat : \E S :
        /\ N = p + q /\ a \in [1..p -> S] /\ b \in [1..q -> S] /\ f \in [1..N -> S]
        /\ \A k \in 1..p : f[k] = a[k]
        /\ \A k \in 1..q : f[p + k] = b[k]

LEMMA Joined ==
    ASSUME NEW p \in Nat, NEW q \in Nat, NEW a, NEW b, NEW f, Follows(p, q, a, b, f)
    PROVE  a \o b = f
<1>0. PICK N \in Nat : \E S :
          /\ N = p + q /\ a \in [1..p -> S] /\ b \in [1..q -> S] /\ f \in [1..N -> S]
          /\ \A k \in 1..p : f[k] = a[k]
          /\ \A k \in 1..q : f[p + k] = b[k]
    BY Zenon DEF Follows
<1>5. PICK S :
          /\ N = p + q /\ a \in [1..p -> S] /\ b \in [1..q -> S] /\ f \in [1..N -> S]
          /\ \A k \in 1..p : f[k] = a[k]
          /\ \A k \in 1..q : f[p + k] = b[k]
    BY <1>0, Zenon
<1>6. N = p + q /\ a \in [1..p -> S] /\ b \in [1..q -> S] /\ f \in [1..N -> S]
    BY <1>5
<1>1. /\ a \in Seq(S) /\ Len(a) = p /\ b \in Seq(S) /\ Len(b) = q
      /\ f \in Seq(S) /\ Len(f) = p + q
    <2>1. a \in Seq(S) /\ Len(a) = p
        BY <1>6
    <2>2. b \in Seq(S) /\ Len(b) = q
        BY <1>6
    <2>3. f \in Seq(S) /\ Len(f) = N
        BY <1>6
    <2> QED
        BY <1>6, <2>1, <2>2, <2>3
<1>2. a \o b \in Seq(S) /\ Len(a \o b) = p + q
    BY <1>1
<1>4. ASSUME NEW k \in 1..N
      PROVE  (a \o b)[k] = f[k]
    <2>1. CASE k <= p
        <3>1. k \in 1..p /\ (a \o b)[k] = a[k]
            BY <1>1, <2>1
        <3> QED
            BY <1>5, <3>1, Zenon
    <2>2. CASE k > p
        <3>1. PICK m \in 1..q : m = k - p
            BY <1>6, <2>2
        <3>2. (a \o b)[k] = b[m] /\ p + m = k
            BY <1>1, <2>2, <3>1
        <3>3. f[p + m] = b[m]
            BY <1>5, Zenon
        <3> QED
            BY <3>2, <3>3, Zenon
    <2>3. k <= p \/ k > p
        BY <1>6
    <2> QED
        BY <1>6, <2>1, <2>2, <2>3, Zenon
<1> QED
    BY <1>1, <1>2, <1>4, <1>6, SeqEqual

\* The addresses of the host, and the entries made for them.
LEMMA AllOf ==
    ASSUME NEW p \in Nat, NEW q \in Nat, p = G!Count("inet6"), q = G!Count("inet"),
           NEW c, c = (ask.type = "any")
    PROVE  \E N \in Nat : \E x, y :
               N = p + q /\ Listed(N, x, y, ask.type, c, 0, G!All) /\ Hosts(N, x, y)
<1>1. PICK N \in Nat : N = p + q
    OBVIOUS
<1>2. PICK x : x = [k \in 1..N |-> IF k <= p THEN "inet6" ELSE "inet"]
    OBVIOUS
<1>3. PICK y : y = [k \in 1..N |-> IF k <= p THEN k ELSE k - p]
    OBVIOUS
<1>4. /\ \A k \in 1..p : k \in 1..N /\ x[k] = "inet6" /\ y[k] = k
      /\ \A k \in 1..q : p + k \in 1..N /\ x[p + k] = "inet" /\ y[p + k] = k
    <2>1. ASSUME NEW k \in 1..p PROVE k \in 1..N /\ x[k] = "inet6" /\ y[k] = k
        <3>1. k \in 1..N /\ k <= p
            BY <1>1
        <3> QED
            BY <1>2, <1>3, <3>1
    <2>2. ASSUME NEW k \in 1..q PROVE p + k \in 1..N /\ x[p + k] = "inet" /\ y[p + k] = k
        <3>1. PICK m \in 1..N : m = p + k /\ ~(m <= p) /\ m - p = k
            BY <1>1
        <3> QED
            BY <1>2, <1>3, <3>1
    <2> QED
        BY <2>1, <2>2
<1>5. ASSUME NEW f, NEW a
      PROVE  G!Entry(f, a) = Rec(f, a, ask.type, c, 0)
    BY Zenon DEF G!Entry, Rec
<1>6. G!All = [k \in 1..N |-> Rec(x[k], y[k], ask.type, c, 0)]
    <2>1. PICK a : a = [k \in 1..p |-> Rec("inet6", k, ask.type, c, 0)]
        OBVIOUS
    <2>2. PICK b : b = [k \in 1..q |-> Rec("inet", k, ask.type, c, 0)]
        OBVIOUS
    <2>3. PICK f : f = [k \in 1..N |-> Rec(x[k], y[k], ask.type, c, 0)]
        OBVIOUS
    <2>4. G!Entries("inet6", G!Count("inet6")) = a /\ G!Entries("inet", G!Count("inet")) = b
        BY <1>5, <2>1, <2>2, Zenon DEF G!Entries
    <2>5. G!All = a \o b
        BY <2>4, Zenon DEF G!All
    <2>6. PICK S : \A k \in 1..N : f[k] \in S
        <3>1. \A k \in 1..N : f[k] \in {f[m] : m \in 1..N}
            OBVIOUS
        <3> QED
            BY <3>1, Zenon
    <2>7. /\ \A k \in 1..p : f[k] = a[k] /\ a[k] \in S
          /\ \A k \in 1..q : f[p + k] = b[k] /\ b[k] \in S
        <3>1. ASSUME NEW k \in 1..p PROVE f[k] = a[k] /\ a[k] \in S
            <4>1. f[k] = Rec("inet6", k, ask.type, c, 0)
                BY <1>4, <2>3, Zenon
            <4>2. a[k] = Rec("inet6", k, ask.type, c, 0)
                BY <2>1, Zenon
            <4> QED
                BY <1>4, <2>6, <4>1, <4>2, Zenon
        <3>2. ASSUME NEW k \in 1..q PROVE f[p + k] = b[k] /\ b[k] \in S
            <4>0. PICK m \in 1..N : m = p + k /\ x[m] = "inet" /\ y[m] = k
                BY <1>4, Zenon
            <4>3. f[m] = Rec(x[m], y[m], ask.type, c, 0)
                BY <2>3, Zenon
            <4>1. f[p + k] = Rec("inet", k, ask.type, c, 0)
                BY <4>0, <4>3, Zenon
            <4>2. b[k] = Rec("inet", k, ask.type, c, 0)
                BY <2>2, Zenon
            <4>4. f[m] \in S /\ f[m] = f[p + k]
                BY <2>6, <4>0, Zenon
            <4> QED
                BY <4>1, <4>2, <4>4, Zenon
        <3> QED
            BY <3>1, <3>2, Zenon
    <2>8. a \in [1..p -> S] /\ b \in [1..q -> S]
        <3>1. a = [k \in 1..p |-> a[k]] /\ b = [k \in 1..q |-> b[k]]
            BY <2>1, <2>2, Zenon
        <3> QED
            BY <2>7, <3>1, Zenon
    <2>9. f \in [1..N -> S]
        <3>1. f = [k \in 1..N |-> f[k]]
            BY <2>3, Zenon
        <3> QED
            BY <2>6, <3>1, Zenon
    <2>10. a \o b = f
        <3>1. Follows(p, q, a, b, f)
            BY <1>1, <2>7, <2>8, <2>9, Zenon DEF Follows
        <3> QED
            BY <3>1, Joined
    <2> QED
        BY <2>3, <2>5, <2>10
<1>7. G!Addresses = [k \in 1..N |-> <<x[k], y[k]>>]
    <2>1. PICK a : a = [k \in 1..p |-> <<"inet6", k>>]
        OBVIOUS
    <2>2. PICK b : b = [k \in 1..q |-> <<"inet", k>>]
        OBVIOUS
    <2>3. PICK f : f = [k \in 1..N |-> <<x[k], y[k]>>]
        OBVIOUS
    <2>5. G!Addresses = a \o b
        BY <2>1, <2>2, Zenon DEF G!Addresses
    <2>6. PICK S : \A k \in 1..N : f[k] \in S
        <3>1. \A k \in 1..N : f[k] \in {f[m] : m \in 1..N}
            OBVIOUS
        <3> QED
            BY <3>1, Zenon
    <2>7. /\ \A k \in 1..p : f[k] = a[k] /\ a[k] \in S
          /\ \A k \in 1..q : f[p + k] = b[k] /\ b[k] \in S
        <3>1. ASSUME NEW k \in 1..p PROVE f[k] = a[k] /\ a[k] \in S
            <4>1. f[k] = <<"inet6", k>>
                BY <1>4, <2>3, Zenon
            <4>2. a[k] = <<"inet6", k>>
                BY <2>1, Zenon
            <4> QED
                BY <1>4, <2>6, <4>1, <4>2, Zenon
        <3>2. ASSUME NEW k \in 1..q PROVE f[p + k] = b[k] /\ b[k] \in S
            <4>0. PICK m \in 1..N : m = p + k /\ x[m] = "inet" /\ y[m] = k
                BY <1>4, Zenon
            <4>3. f[m] = <<x[m], y[m]>>
                BY <2>3, Zenon
            <4>1. f[p + k] = <<"inet", k>>
                BY <4>0, <4>3, Zenon
            <4>2. b[k] = <<"inet", k>>
                BY <2>2, Zenon
            <4>4. f[m] \in S /\ f[m] = f[p + k]
                BY <2>6, <4>0, Zenon
            <4> QED
                BY <4>1, <4>2, <4>4, Zenon
        <3> QED
            BY <3>1, <3>2, Zenon
    <2>8. a \in [1..p -> S] /\ b \in [1..q -> S]
        <3>1. a = [k \in 1..p |-> a[k]] /\ b = [k \in 1..q |-> b[k]]
            BY <2>1, <2>2, Zenon
        <3> QED
            BY <2>7, <3>1, Zenon
    <2>9. f \in [1..N -> S]
        <3>1. f = [k \in 1..N |-> f[k]]
            BY <2>3, Zenon
        <3> QED
            BY <2>6, <3>1, Zenon
    <2>10. a \o b = f
        <3>1. Follows(p, q, a, b, f)
            BY <1>1, <2>7, <2>8, <2>9, Zenon DEF Follows
        <3> QED
            BY <3>1, Joined
    <2> QED
        BY <2>3, <2>5, <2>10
<1> QED
    BY <1>1, <1>6, <1>7, Zenon DEF Listed, Hosts

\* The entries as the comparison sees them.
LEMMA TriplesOf ==
    ASSUME NEW N, NEW x, NEW y, NEW t, NEW c, NEW p, NEW l, Listed(N, x, y, t, c, p, l)
    PROVE  Named(N, x, y, t, Triples(l))
<1>1. l = [k \in 1..N |-> Rec(x[k], y[k], t, c, p)]
    BY Zenon DEF Listed
<1>2. ASSUME NEW k \in 1..N
      PROVE  <<l[k].family, l[k].addr, l[k].type>> = <<x[k], y[k], t>>
    <2>1. l[k] = Rec(x[k], y[k], t, c, p)
        BY <1>1, Zenon
    <2>2. l[k].family = x[k] /\ l[k].addr = y[k] /\ l[k].type = t
        BY <2>1 DEF Rec
    <2> QED
        BY <2>2, Zenon
<1>3. DOMAIN l = 1..N
    BY <1>1, Zenon
<1> QED
    BY <1>2, <1>3, Zenon DEF Triples, Named

\* The same for an entry and the copy of it.
LEMMA TriplesOfTwo ==
    ASSUME NEW f, NEW a, NEW q, NEW c, NEW t, NEW z
    PROVE  Triples(<<Rec(f, a, q, c, q), Rec(f, a, t, z, t)>>) = <<<<f, a, q>>, <<f, a, t>>>>
<1>1. PICK d : d = Rec(f, a, q, c, q)
    OBVIOUS
<1>2. PICK e : e = Rec(f, a, t, z, t)
    OBVIOUS
<1>3. d.family = f /\ d.addr = a /\ d.type = q /\ e.family = f /\ e.addr = a /\ e.type = t
    BY <1>1, <1>2 DEF Rec
<1>4. PICK b : b = <<<<f, a, q>>, <<f, a, t>>>>
    OBVIOUS
<1>5. PICK l : l = <<d, e>>
    OBVIOUS
<1>6. DOMAIN l = 1..2 /\ l[1] = d /\ l[2] = e
    BY <1>5
<1>7. DOMAIN b = 1..2 /\ b = [k \in 1..2 |-> b[k]] /\ b[1] = <<f, a, q>> /\ b[2] = <<f, a, t>>
    BY <1>4
<1>8. ASSUME NEW k \in 1..2
      PROVE  <<l[k].family, l[k].addr, l[k].type>> = b[k]
    <2>1. k = 1 \/ k = 2
        OBVIOUS
    <2> QED
        BY <1>3, <1>6, <1>7, <2>1, Zenon
<1>9. Triples(l) = b
    BY <1>6, <1>7, <1>8, Zenon DEF Triples
<1> QED
    BY <1>1, <1>2, <1>4, <1>5, <1>9, Zenon

\* What is wanted of a host with these addresses, by the kinds of socket offered.
LEMMA WantedOne ==
    ASSUME NEW N \in Nat, NEW x, NEW y, NEW t,
           Hosts(N, x, y), G!Offered = <<t>>
    PROVE  Named(N, x, y, t, G!Wanted)
<1>0. G!Addresses = [k \in 1..N |-> <<x[k], y[k]>>]
    BY Zenon DEF Hosts
<1>1. PICK f : f = [k \in 1..N |-> <<x[k], y[k], t>>]
    OBVIOUS
<1>2. PICK s : s = [k \in 1..N |-> <<f[k]>>]
    OBVIOUS
<1>3. Singles(N, f, s)
    BY <1>1, <1>2 DEF Singles
<1>4. ASSUME NEW k \in 1..N
      PROVE  [m \in DOMAIN G!Offered |-> <<G!Addresses[k][1], G!Addresses[k][2], G!Offered[m]>>]
             = <<f[k]>>
    <2>1. G!Addresses[k][1] = x[k] /\ G!Addresses[k][2] = y[k] /\ f[k] = <<x[k], y[k], t>>
        BY <1>0, <1>1
    <2>2. DOMAIN G!Offered = 1..1 /\ G!Offered[1] = t
        OBVIOUS
    <2>3. [m \in 1..1 |-> <<x[k], y[k], G!Offered[m]>>] = <<<<x[k], y[k], t>>>>
        BY <2>2
    <2> QED
        BY <2>1, <2>2, <2>3, Zenon
<1>5. DOMAIN G!Addresses = 1..N
    BY <1>0, Zenon
<1>6. G!Wanted = G!FlattenSeq(s)
    BY <1>2, <1>4, <1>5, Zenon DEF G!Wanted
<1> QED
    BY <1>1, <1>3, <1>6, FlattenOne, Zenon DEF Named

\* Two kinds: each address twice.
LEMMA WantedTwo ==
    ASSUME NEW N \in Nat, NEW x, NEW y, NEW t, NEW q,
           Hosts(N, x, y), G!Offered = <<q, t>>, NEW s, NamedTwice(N, x, y, q, t, s)
    PROVE  G!Wanted = G!FlattenSeq(s)
<1>0. G!Addresses = [k \in 1..N |-> <<x[k], y[k]>>]
    BY Zenon DEF Hosts
<1>4. ASSUME NEW k \in 1..N
      PROVE  [m \in DOMAIN G!Offered |-> <<G!Addresses[k][1], G!Addresses[k][2], G!Offered[m]>>]
             = <<<<x[k], y[k], q>>, <<x[k], y[k], t>>>>
    <2>1. G!Addresses[k][1] = x[k] /\ G!Addresses[k][2] = y[k]
        BY <1>0
    <2>2. DOMAIN G!Offered = 1..2 /\ G!Offered[1] = q /\ G!Offered[2] = t
        OBVIOUS
    <2>3. [m \in 1..2 |-> <<x[k], y[k], G!Offered[m]>>] = <<<<x[k], y[k], q>>, <<x[k], y[k], t>>>>
        BY <2>2
    <2> QED
        BY <2>1, <2>2, <2>3, Zenon
<1>5. DOMAIN G!Addresses = 1..N
    BY <1>0, Zenon
<1> QED
    BY <1>4, <1>5, Zenon DEF G!Wanted, NamedTwice

\* No address or no kind: nothing.
LEMMA WantedNone ==
    ASSUME NEW N \in Nat, NEW x, NEW y,
           Hosts(N, x, y), N = 0 \/ G!Offered = <<>>
    PROVE  G!Wanted = <<>>
<1>0. G!Addresses = [k \in 1..N |-> <<x[k], y[k]>>]
    BY Zenon DEF Hosts
<1>1. DOMAIN G!Addresses = 1..N
    BY <1>0, Zenon
<1>2. ASSUME NEW k \in 1..N
      PROVE  [m \in DOMAIN G!Offered |-> <<G!Addresses[k][1], G!Addresses[k][2], G!Offered[m]>>]
             = <<>>
    <2>1. G!Offered = <<>>
        OBVIOUS
    <2>2. DOMAIN G!Offered = {}
        BY <2>1
    <2>3. [m \in {} |-> <<G!Addresses[k][1], G!Addresses[k][2], G!Offered[m]>>] = <<>>
        OBVIOUS
    <2> QED
        BY <2>2, <2>3, Zenon
<1>3. G!Wanted = G!FlattenSeq([k \in 1..N |-> <<>>])
    BY <1>1, <1>2, Zenon DEF G!Wanted
<1> QED
    BY <1>3, FlattenNone

\* The kinds of socket ga_serv goes through are the ones the service is known for.
LEMMA Offers ==
    ASSUME ask \in G!Questions
    PROVE  /\ ask.serv = "null" => G!Offered = <<ask.type>>
           /\ ask.serv # "null" => G!Offered = G!Kinds
           /\ \/ G!Kinds = <<>>
              \/ \E t : G!Kinds = <<t>> /\ t # "any" /\ ask.type \in {"any", t}
              \/ G!Kinds = <<"stream", "dgram">> /\ ask.type = "any"
<1>1. PICK q, t : q = ask.serv /\ t = ask.type
    OBVIOUS
<1>2. /\ q \in {"null", "port", "tcp", "udp", "both", "unknown"}
      /\ t \in {"any", "stream", "dgram", "raw", "odd"}
    BY <1>1 DEF G!Questions, G!Types
<1>3. q = "null" => G!Offered = <<ask.type>>
    BY <1>1 DEF G!Offered
<1>4. /\ <<>> \o <<>> = <<>> /\ <<"stream">> \o <<>> = <<"stream">>
      /\ <<>> \o <<"dgram">> = <<"dgram">> /\ <<"stream">> \o <<"dgram">> = <<"stream", "dgram">>
    <2>0. PICK a, b, S : a = "stream" /\ b = "dgram" /\ S = {a, b}
        OBVIOUS
    <2>1. <<>> \in Seq(S) /\ <<a>> \in Seq(S) /\ <<b>> \in Seq(S)
        BY <2>0
    <2>2. <<>> \o <<>> = <<>> /\ <<a>> \o <<>> = <<a>>
        BY <2>1, ConcatEmptySeq
    <2>3. <<>> \o <<b>> = <<b>>
        BY <2>1, ConcatEmptySeq
    <2>4. <<a>> \o <<b>> = <<a, b>>
        <3>1. PICK d, e : d = <<a>> /\ e = <<a, b>>
            OBVIOUS
        <3>2. /\ d \in Seq(S) /\ Len(d) = 1 /\ d[1] = a
              /\ e \in Seq(S) /\ Len(e) = 2 /\ e[1] = a /\ e[2] = b
            BY <2>0, <3>1
        <3>3. d \o <<b>> = e
            <4>1. PICK l : l = d \o <<b>>
                OBVIOUS
            <4>2. l \in Seq(S) /\ Len(l) = 2 /\ l[1] = a /\ l[2] = b
                BY <2>0, <3>2, <4>1
            <4> QED
                BY <3>2, <4>1, <4>2, SeqEqual
        <3> QED
            BY <3>1, <3>3, Zenon
    <2> QED
        BY <2>0, <2>2, <2>3, <2>4, Zenon
<1>5. CASE t \in {"raw", "odd"}
    <2>1. G!Kinds = IF q = "port" THEN <<t>> ELSE <<>>
        BY <1>1, <1>2, <1>4, <1>5 DEF G!Kinds
    <2>2. q # "null" => G!Offered = IF q = "port" THEN <<t>> ELSE <<>>
        BY <1>1, <1>5 DEF G!Offered
    <2> QED
        BY <1>1, <1>3, <1>5, <2>1, <2>2
<1>6. CASE t \in {"stream", "dgram"}
    <2>1. /\ t = "stream" => G!Kinds = IF q \in {"port", "both", "tcp"} THEN <<"stream">> ELSE <<>>
          /\ t = "dgram" => G!Kinds = IF q \in {"port", "both", "udp"} THEN <<"dgram">> ELSE <<>>
        BY <1>1, <1>2, <1>4, <1>6 DEF G!Kinds
    <2>2. /\ t = "stream" /\ q # "null" =>
                 G!Offered = IF q \in {"port", "both", "tcp"} THEN <<"stream">> ELSE <<>>
          /\ t = "dgram" /\ q # "null" =>
                 G!Offered = IF q \in {"port", "both", "udp"} THEN <<"dgram">> ELSE <<>>
        BY <1>1, <1>2, <1>4, <1>6 DEF G!Offered
    <2> QED
        BY <1>1, <1>3, <1>6, <2>1, <2>2
<1>7. CASE t = "any"
    <2>1. G!Kinds = CASE q \in {"port", "both"} -> <<"stream", "dgram">>
                      [] q = "tcp" -> <<"stream">>
                      [] q = "udp" -> <<"dgram">>
                      [] OTHER -> <<>>
        BY <1>1, <1>2, <1>4, <1>7 DEF G!Kinds
    <2>2. q # "null" =>
              G!Offered = CASE q \in {"port", "both"} -> <<"stream", "dgram">>
                            [] q = "tcp" -> <<"stream">>
                            [] q = "udp" -> <<"dgram">>
                            [] OTHER -> <<>>
        BY <1>1, <1>2, <1>4, <1>7 DEF G!Offered
    <2> QED
        BY <1>1, <1>2, <1>3, <1>7, <2>1, <2>2
<1> QED
    BY <1>2, <1>5, <1>6, <1>7

\* The number of addresses of a family.
LEMMA Counts ==
    ASSUME dns \in [G!Families -> Nat]
    PROVE  G!Count("inet6") \in Nat /\ G!Count("inet") \in Nat
<1>1. dns["inet6"] \in Nat /\ dns["inet"] \in Nat
    BY DEF G!Families
<1> QED
    BY <1>1 DEF G!Count

\* getaddrinfo returns what is wanted: with no service, the list of the searches; with
\* one, that list as ga_serv leaves it.
LEMMA Exact ==
    ASSUME ask \in G!Questions, dns \in [G!Families -> Nat]
    PROVE  /\ ask.serv = "null" => Triples(G!All) = G!Wanted
           /\ ask.serv # "null" /\ G!Kinds # <<>> => Triples(G!ga_serv(G!All)) = G!Wanted
           /\ ask.serv # "null" /\ G!Kinds = <<>> => G!Wanted = <<>>
<1>1. PICK c : c = (ask.type = "any")
    OBVIOUS
<1>0. PICK N \in Nat : \E x, y : Listed(N, x, y, ask.type, c, 0, G!All) /\ Hosts(N, x, y)
    <2>1. PICK p \in Nat, q \in Nat : p = G!Count("inet6") /\ q = G!Count("inet")
        BY Counts
    <2> QED
        BY <1>1, <2>1, AllOf, Zenon
<1>2. PICK x, y : Listed(N, x, y, ask.type, c, 0, G!All) /\ Hosts(N, x, y)
    BY <1>0, Zenon
<1>3. CASE ask.serv = "null"
    <2>1. G!Offered = <<ask.type>>
        BY <1>3, Offers
    <2>2. Named(N, x, y, ask.type, G!Wanted)
        BY <1>2, <2>1, WantedOne, Zenon
    <2>3. Named(N, x, y, ask.type, Triples(G!All))
        BY <1>2, TriplesOf, Zenon
    <2> QED
        BY <1>3, <2>2, <2>3, Zenon DEF Named
<1>4. CASE ask.serv # "null" /\ G!Kinds = <<>>
    <2>1. G!Offered = <<>>
        BY <1>4, Offers
    <2> QED
        BY <1>2, <1>4, <2>1, WantedNone, Zenon
<1>5. ASSUME ask.serv # "null", NEW t, G!Kinds = <<t>>, t # "any", ask.type \in {"any", t}
      PROVE  Triples(G!ga_serv(G!All)) = G!Wanted
    <2>1. G!Offered = <<t>>
        BY <1>5, Offers
    <2>2. Named(N, x, y, t, G!Wanted)
        BY <1>2, <2>1, WantedOne, Zenon
    <2>3. G!ga_serv(G!All) = G!ga_port(G!All, t)
        <3>1. Len(G!Kinds) = 1 /\ G!Kinds[1] = t
            BY <1>5
        <3> QED
            BY <3>1 DEF G!ga_serv
    <2>4. (ask.type = "any" /\ c) \/ (ask.type = t /\ ~c)
        BY <1>1, <1>5, Zenon
    <2>5. Listed(N, x, y, t, c, t, G!ga_port(G!All, t))
        BY <1>2, <2>4, PortFirst, Zenon
    <2>6. Named(N, x, y, t, Triples(G!ga_port(G!All, t)))
        BY <2>5, TriplesOf, Zenon
    <2> QED
        BY <2>2, <2>3, <2>6, Zenon DEF Named
<1>6. ASSUME ask.serv # "null", G!Kinds = <<"stream", "dgram">>, ask.type = "any"
      PROVE  Triples(G!ga_serv(G!All)) = G!Wanted
    <2>0. PICK q, t : q = "stream" /\ t = "dgram"
        OBVIOUS
    <2>1. G!Offered = <<q, t>>
        BY <1>6, <2>0, Offers
    <2>2. PICK w : NamedTwice(N, x, y, q, t, w)
        BY Zenon DEF NamedTwice
    <2>13. G!Wanted = G!FlattenSeq(w)
        BY <1>2, <2>1, <2>2, WantedTwo, Zenon
    <2>3. G!ga_serv(G!All) = G!ga_port(G!ga_port(G!All, q), t)
        <3>1. Len(G!Kinds) = 2 /\ G!Kinds[1] = q /\ G!Kinds[2] = t
            BY <1>6, <2>0
        <3> QED
            BY <3>1 DEF G!ga_serv
    <2>4. c /\ ask.type = "any" /\ q # "any"
        BY <1>1, <1>6, <2>0
    <2>14. (ask.type = "any" /\ c) \/ (ask.type = q /\ ~c)
        BY <2>4, Zenon
    <2>5. Listed(N, x, y, q, c, q, G!ga_port(G!All, q))
        BY <1>2, <2>14, PortFirst, Zenon
    <2>6. PICK s : Doubled(N, x, y, q, c, t, s)
        BY Zenon DEF Doubled
    <2>7. s = [k \in 1..N |-> <<Rec(x[k], y[k], q, c, q), Rec(x[k], y[k], t, NoClone, t)>>]
        BY <2>6, Zenon DEF Doubled
    <2>8. G!ga_port(G!ga_port(G!All, q), t) = G!FlattenSeq(s)
        <3>1. q # "any"
            BY <2>4
        <3>2. PICK l : l = G!ga_port(G!All, q) /\ Listed(N, x, y, q, c, q, l)
            BY <2>5, Zenon
        <3>3. Listed(N, x, y, q, c, q, l) /\ Doubled(N, x, y, q, c, t, s)
            BY <2>6, <3>2, Zenon
        <3>4. Cloned(c) => G!ga_port(l, t) = G!FlattenSeq(s)
            BY <3>1, <3>3, PortSecond
        <3> QED
            BY <2>4, <3>2, <3>4, Zenon DEF Cloned
    <2>9. PICK S : s \in [1..N -> Seq(S)]
        <3>1. PICK S : S = UNION {{s[m][1], s[m][2]} : m \in 1..N}
            OBVIOUS
        <3>2. ASSUME NEW k \in 1..N PROVE s[k] \in Seq(S)
            <4>1. PICK d, e : s[k] = <<d, e>>
                BY <2>7, Zenon
            <4>2. d \in {s[k][1], s[k][2]} /\ e \in {s[k][1], s[k][2]}
                BY <4>1
            <4>3. d \in S /\ e \in S
                BY <3>1, <4>2, Zenon
            <4> QED
                BY <4>1, <4>3
        <3>3. s = [k \in 1..N |-> s[k]]
            BY <2>7, Zenon
        <3> QED
            BY <3>2, <3>3, Zenon
    <2>10. Triples(G!FlattenSeq(s)) = G!FlattenSeq([k \in 1..N |-> Triples(s[k])])
        BY <2>9, FlattenTriples, Zenon
    <2>11. ASSUME NEW k \in 1..N
           PROVE  Triples(s[k]) = <<<<x[k], y[k], q>>, <<x[k], y[k], t>>>>
        <3>1. s[k] = <<Rec(x[k], y[k], q, c, q), Rec(x[k], y[k], t, NoClone, t)>>
            BY <2>7, Zenon
        <3>2. Triples(<<Rec(x[k], y[k], q, c, q), Rec(x[k], y[k], t, NoClone, t)>>)
              = <<<<x[k], y[k], q>>, <<x[k], y[k], t>>>>
            BY TriplesOfTwo, Zenon
        <3> QED
            BY <3>1, <3>2, Zenon
    <2>12. [k \in 1..N |-> Triples(s[k])] = w
        BY <2>2, <2>11, Zenon DEF NamedTwice
    <2> QED
        BY <2>3, <2>8, <2>10, <2>12, <2>13, Zenon
<1> QED
    BY <1>3, <1>4, <1>5, <1>6, Offers

\* A family with no entry adds nothing.
LEMMA Empty ==
    /\ \A f : G!Entries(f, 0) = <<>>
    /\ \A f, m : m \in Nat => /\ <<>> \o G!Entries(f, m) = G!Entries(f, m)
                              /\ G!Entries(f, m) \o <<>> = G!Entries(f, m)
                              /\ (G!Entries(f, m) = <<>> => m = 0)
<1>1. ASSUME NEW f PROVE G!Entries(f, 0) = <<>>
    BY DEF G!Entries
<1>2. ASSUME NEW f, NEW m \in Nat
      PROVE  /\ <<>> \o G!Entries(f, m) = G!Entries(f, m)
             /\ G!Entries(f, m) \o <<>> = G!Entries(f, m)
             /\ (G!Entries(f, m) = <<>> => m = 0)
    <2>1. PICK a : a = G!Entries(f, m)
        OBVIOUS
    <2>2. a = [k \in 1..m |-> a[k]]
        BY <2>1, Zenon DEF G!Entries
    <2>3. PICK S : S = {a[k] : k \in 1..m}
        OBVIOUS
    <2>4. \A k \in 1..m : a[k] \in S
        BY <2>3, Zenon
    <2>5. a \in [1..m -> S]
        BY <2>2, <2>4, Zenon
    <2>6. a \in Seq(S) /\ Len(a) = m
        BY <2>5
    <2>7. <<>> \o a = a /\ a \o <<>> = a
        BY <2>6, ConcatEmptySeq
    <2>8. a = <<>> => m = 0
        BY <2>6
    <2> QED
        BY <2>1, <2>7, <2>8, Zenon
<1> QED
    BY <1>1, <1>2, Zenon

\* ga_nsearch: what each search looks up, and for which family.
LEMMA Search ==
    ASSUME ask.family \in G!Families \cup {"unspec"}
    PROVE  /\ Len(G!ga_nsearch) = IF ask.family = "unspec" THEN 2 ELSE 1
           /\ \A m \in 1..Len(G!ga_nsearch) :
                 \E f \in G!Families :
                     /\ G!ga_nsearch[m].host = G!HostOf(f) /\ G!ga_nsearch[m].family = f
                     /\ IF ask.family = "unspec" THEN f = (IF m = 1 THEN "inet6" ELSE "inet")
                        ELSE f = ask.family
<1>1. PICK a, b, c : /\ a = [host |-> G!HostOf("inet6"), family |-> "inet6"]
                     /\ b = [host |-> G!HostOf("inet"), family |-> "inet"]
                     /\ c = [host |-> G!HostOf(ask.family), family |-> ask.family]
    OBVIOUS
<1>2. /\ a.host = G!HostOf("inet6") /\ a.family = "inet6"
      /\ b.host = G!HostOf("inet") /\ b.family = "inet"
      /\ c.host = G!HostOf(ask.family) /\ c.family = ask.family
    BY <1>1
<1>3. G!ga_nsearch = IF ask.family = "unspec" THEN <<a, b>> ELSE <<c>>
    <2>1. ask.family = "unspec" \/ ask.family \in G!Families
        OBVIOUS
    <2> QED
        BY <1>1, <2>1, Zenon DEF G!ga_nsearch
<1>4. ask.family \in {"inet", "inet6", "unspec"}
    BY DEF G!Families
<1>5. CASE ask.family = "unspec"
    <2>1. Len(G!ga_nsearch) = 2 /\ G!ga_nsearch[1] = a /\ G!ga_nsearch[2] = b
        BY <1>3, <1>5
    <2>2. ASSUME NEW m \in 1..2
          PROVE  \E f \in G!Families :
                     /\ G!ga_nsearch[m].host = G!HostOf(f) /\ G!ga_nsearch[m].family = f
                     /\ f = (IF m = 1 THEN "inet6" ELSE "inet")
        <3>1. m = 1 \/ m = 2
            OBVIOUS
        <3>2. "inet6" \in G!Families /\ "inet" \in G!Families
            BY DEF G!Families
        <3>3. CASE m = 1
            BY <1>2, <2>1, <3>2, <3>3, Zenon
        <3>4. CASE m = 2
            <4>1. m # 1
                BY <3>4
            <4> QED
                BY <1>2, <2>1, <3>2, <3>4, <4>1, Zenon
        <3> QED
            BY <3>1, <3>3, <3>4, Zenon
    <2> QED
        BY <1>5, <2>1, <2>2, Zenon
<1>6. CASE ask.family # "unspec"
    <2>1. Len(G!ga_nsearch) = 1 /\ G!ga_nsearch[1] = c
        BY <1>3, <1>6
    <2>2. ASSUME NEW m \in 1..1
          PROVE  \E f \in G!Families :
                     /\ G!ga_nsearch[m].host = G!HostOf(f) /\ G!ga_nsearch[m].family = f
                     /\ f = ask.family
        <3>1. m = 1
            OBVIOUS
        <3>2. ask.family \in G!Families
            BY <1>4, <1>6 DEF G!Families
        <3> QED
            BY <1>2, <2>1, <3>1, <3>2, Zenon
    <2> QED
        BY <1>6, <2>1, <2>2, Zenon
<1> QED
    BY <1>5, <1>6, Zenon

\* A search adds the entries of its family to the ones before it, and the last one
\* completes them.
LEMMA FoundNext ==
    ASSUME ask.family \in G!Families \cup {"unspec"}, dns \in [G!Families -> Nat],
           NEW m \in 1..Len(G!ga_nsearch), NEW f, f = G!ga_nsearch[m].family
    PROVE  G!Found(m + 1) = G!Found(m) \o G!Entries(f, G!Count(f))
<1>0. PICK p \in Nat, q \in Nat : p = G!Count("inet6") /\ q = G!Count("inet")
    BY Counts
<1>1. /\ Len(G!ga_nsearch) = IF ask.family = "unspec" THEN 2 ELSE 1
      /\ IF ask.family = "unspec" THEN f = (IF m = 1 THEN "inet6" ELSE "inet")
         ELSE f = ask.family /\ f \in G!Families
    <2>1. Len(G!ga_nsearch) = IF ask.family = "unspec" THEN 2 ELSE 1
        BY Search
    <2>2. PICK g \in G!Families :
              /\ G!ga_nsearch[m].family = g
              /\ IF ask.family = "unspec" THEN g = (IF m = 1 THEN "inet6" ELSE "inet")
                 ELSE g = ask.family
        BY Search
    <2> QED
        BY <2>1, <2>2
<1>2. G!Found(1) = <<>>
    BY DEF G!Found
<1>3. CASE ask.family = "unspec"
    <2>1. G!Found(2) = G!Entries("inet6", G!Count("inet6")) /\ G!Found(3) = G!All
        BY <1>3 DEF G!Found
    <2>2. m = 1 \/ m = 2
        BY <1>1, <1>3
    <2>3. CASE m = 1
        <3>1. f = "inet6" /\ m + 1 = 2
            BY <1>1, <1>3, <2>3
        <3>2. <<>> \o G!Entries("inet6", p) = G!Entries("inet6", p)
            BY Empty, Zenon
        <3> QED
            BY <1>0, <1>2, <2>1, <2>3, <3>1, <3>2, Zenon
    <2>4. CASE m = 2
        <3>1. f = "inet" /\ m + 1 = 3
            BY <1>1, <1>3, <2>4
        <3> QED
            BY <2>1, <2>4, <3>1, Zenon DEF G!All
    <2> QED
        BY <2>2, <2>3, <2>4
<1>4. CASE ask.family # "unspec"
    <2>1. m = 1 /\ m + 1 = 2 /\ f = ask.family
        BY <1>1, <1>4
    <2>2. G!Found(2) = G!All
        BY <1>4 DEF G!Found
    <2>3. f = "inet" \/ f = "inet6"
        BY <1>1, <1>4 DEF G!Families
    <2>4. G!All = G!Entries(f, G!Count(f))
        <3>1. CASE f = "inet"
            <4>1. p = 0
                BY <1>0, <1>4, <2>1, <3>1 DEF G!Count
            <4>2. G!Entries("inet6", p) = <<>> /\ <<>> \o G!Entries("inet", q) = G!Entries("inet", q)
                BY <4>1, Empty, Zenon
            <4> QED
                BY <1>0, <3>1, <4>2, Zenon DEF G!All
        <3>2. CASE f = "inet6"
            <4>1. q = 0
                BY <1>0, <1>4, <2>1, <3>2 DEF G!Count
            <4>2. G!Entries("inet", q) = <<>> /\ G!Entries("inet6", p) \o <<>> = G!Entries("inet6", p)
                BY <4>1, Empty, Zenon
            <4> QED
                BY <1>0, <3>2, <4>2, Zenon DEF G!All
        <3> QED
            BY <2>3, <3>1, <3>2
    <2>5. G!Found(m + 1) = G!Entries(f, G!Count(f)) /\ G!Found(m) = <<>>
        BY <1>2, <2>1, <2>2, <2>4, Zenon
    <2>6. <<>> \o G!Entries(f, G!Count(f)) = G!Entries(f, G!Count(f))
        <3>1. G!Count(f) \in Nat
            BY <2>3, Counts
        <3> QED
            BY <3>1, Empty, Zenon
    <2> QED
        BY <2>5, <2>6, Zenon
<1> QED
    BY <1>3, <1>4

\* The entries found so far are a sequence.
LEMMA FoundSeq ==
    ASSUME ask \in G!Questions, dns \in [G!Families -> Nat], NEW m
    PROVE  \E S : G!Found(m) \in Seq(S)
<1>0. PICK p \in Nat, q \in Nat : p = G!Count("inet6") /\ q = G!Count("inet")
    BY Counts
<1>1. PICK a, b : a = G!Entries("inet6", p) /\ b = G!Entries("inet", q)
    OBVIOUS
<1>2. a = [k \in 1..p |-> a[k]] /\ b = [k \in 1..q |-> b[k]]
    BY <1>1, Zenon DEF G!Entries
<1>3. PICK S : S = {a[k] : k \in 1..p} \cup {b[k] : k \in 1..q}
    OBVIOUS
<1>4. (\A k \in 1..p : a[k] \in S) /\ (\A k \in 1..q : b[k] \in S)
    BY <1>3, Zenon
<1>5. a \in [1..p -> S] /\ b \in [1..q -> S]
    BY <1>2, <1>4, Zenon
<1>6. a \in Seq(S) /\ b \in Seq(S)
    BY <1>5
<1>7. <<>> \in Seq(S) /\ a \o b \in Seq(S)
    BY <1>6
<1>8. G!All = a \o b
    BY <1>0, <1>1, Zenon DEF G!All
<1>9. G!Found(m) = <<>> \/ G!Found(m) = a \/ G!Found(m) = a \o b
    BY <1>0, <1>1, <1>8, Zenon DEF G!Found
<1> QED
    BY <1>6, <1>7, <1>9, Zenon

\* What a search of a numeric host and of a name can find.
LEMMA NumericCount ==
    ASSUME ask \in G!Questions, ask.host # "local",
           NEW f \in G!Families, NEW h, h = G!HostOf(f), ask.family \in {"unspec", f},
           h \in {"v4", "v6"}
    PROVE  /\ ask.family \in {"unspec", G!FamilyOf(h)} =>
                 G!Count(f) = IF f = G!FamilyOf(h) THEN 1 ELSE 0
           /\ ask.family \notin {"unspec", G!FamilyOf(h)} =>
                 G!Count("inet") = 0 /\ G!Count("inet6") = 0
<1>1. f = "inet" \/ f = "inet6"
    BY DEF G!Families
<1>2. ask.host \in {"null", "v4", "v6", "name"}
    BY DEF G!Questions
<1>3. CASE ask.host = "null"
    <2>1. f = G!FamilyOf(h) /\ ~(~ask.passive /\ f = "inet")
        BY <1>1, <1>3 DEF G!HostOf, G!FamilyOf
    <2>2. G!Count(f) = 1
        BY <1>3, <2>1 DEF G!Count
    <2> QED
        BY <2>1, <2>2
<1>4. CASE ask.host # "null"
    <2>1. h = ask.host /\ ask.host \in {"v4", "v6"}
        BY <1>4 DEF G!HostOf
    <2>2. G!Count(f) = IF f = G!FamilyOf(h) THEN 1 ELSE 0
        BY <2>1 DEF G!Count
    <2>3. ask.family \notin {"unspec", G!FamilyOf(h)} => G!Count("inet") = 0 /\ G!Count("inet6") = 0
        BY <2>1 DEF G!Count
    <2> QED
        BY <2>2, <2>3
<1> QED
    BY <1>3, <1>4

\* A search by name finds all the name has.
LEMMA NameCount ==
    ASSUME ask \in G!Questions, ask.host # "local",
           NEW f \in G!Families, G!HostOf(f) = "name", ask.family \in {"unspec", f}
    PROVE  G!Count(f) = dns[f]
<1>1. f = "inet" \/ f = "inet6"
    BY DEF G!Families
<1>2. CASE ask.host = "null"
    <2>1. ~ask.passive /\ f = "inet"
        BY <1>1, <1>2 DEF G!HostOf
    <2> QED
        BY <1>2, <2>1 DEF G!Count
<1>3. CASE ask.host # "null"
    <2>1. ask.host = "name"
        BY <1>3 DEF G!HostOf
    <2> QED
        BY <2>1 DEF G!Count
<1> QED
    BY <1>2, <1>3

\* Without an address nothing is wanted.
LEMMA NoHost ==
    ASSUME dns \in [G!Families -> Nat]
    PROVE  /\ G!Count("inet") = 0 /\ G!Count("inet6") = 0 => G!Wanted = <<>>
           /\ G!All = <<>> => G!Wanted = <<>>
<1>0. PICK p \in Nat, q \in Nat : p = G!Count("inet6") /\ q = G!Count("inet")
    BY Counts
<1>1. PICK c : c = (ask.type = "any")
    OBVIOUS
<1>6. PICK N \in Nat : \E x, y :
          N = p + q /\ Listed(N, x, y, ask.type, c, 0, G!All) /\ Hosts(N, x, y)
    BY <1>0, <1>1, AllOf, Zenon
<1>2. PICK x, y : N = p + q /\ Listed(N, x, y, ask.type, c, 0, G!All) /\ Hosts(N, x, y)
    BY <1>6, Zenon
<1>3. N = 0 => G!Wanted = <<>>
    BY <1>2, WantedNone, Zenon
<1>4. G!All = <<>> => N = 0
    <2>1. DOMAIN G!All = 1..N
        BY <1>2, Zenon DEF Listed
    <2>2. G!All = <<>> => DOMAIN G!All = {}
        OBVIOUS
    <2>3. 1..N = {} => N = 0
        OBVIOUS
    <2> QED
        BY <2>1, <2>2, <2>3
<1>5. p = 0 /\ q = 0 => N = 0
    BY <1>2
<1> QED
    BY <1>0, <1>3, <1>4, <1>5, Zenon

\* Nothing a call looks up changes while it runs.
LEMMA AskKept ==
    ASSUME ask' = ask, dns' = dns
    PROVE  /\ G!Wanted' = G!Wanted /\ G!Nothing' = G!Nothing /\ G!All' = G!All /\ G!Proper' = G!Proper
           /\ G!ga_nsearch' = G!ga_nsearch
           /\ G!Entries("inet6", G!Count("inet6"))' = G!Entries("inet6", G!Count("inet6"))
<1>1. \A f : G!Count(f)' = G!Count(f)
    BY DEF G!Count
<1>2. G!Addresses' = G!Addresses /\ G!Offered' = G!Offered
    BY DEF G!Addresses, G!Offered, G!Count
<1>3. G!Wanted' = G!Wanted
    BY DEF G!Wanted, G!FlattenSeq, G!Addresses, G!Offered, G!Count, G!FamilyOf
<1>4. G!Proper' = G!Proper
    BY DEF G!Proper
<1> QED
    <2>1. G!Entries("inet6", G!Count("inet6"))' = G!Entries("inet6", G!Count("inet6"))
        BY <1>1, Zenon DEF G!Entries, G!Entry
    <2>2. G!Entries("inet", G!Count("inet"))' = G!Entries("inet", G!Count("inet"))
        BY <1>1, Zenon DEF G!Entries, G!Entry
    <2>3. G!All' = G!All
        BY <2>1, <2>2, Zenon DEF G!All
    <2>4. G!ga_nsearch' = G!ga_nsearch
        BY Zenon DEF G!ga_nsearch, G!HostOf
    <2>5. G!Nothing' = G!Nothing
        BY <1>3, <1>4, Zenon DEF G!Nothing
    <2> QED
        BY <1>3, <1>4, <2>1, <2>3, <2>4, <2>5

\* The invariant after a step of a call, by where it has come to.
LEMMA GaiStep ==
    ASSUME ask \in G!Questions, dns \in [G!Families -> Nat], ask' = ask, dns' = dns, NEW m, n' = m,
           \/ /\ at' = "search" /\ rc' = G!Ok /\ ask.host # "local"
              /\ ask.family \in G!Families \cup {"unspec"}
              /\ m \in 1..(Len(G!ga_nsearch) + 1) /\ list' = G!Found(m)
           \/ at' \in {"canon", "serv"} /\ rc' = G!Ok /\ ask.host # "local" /\ list' = G!All
           \/ at' = "unix" /\ ask.host = "local"
           \/ at' = "quit"
           \/ at' = "bad" /\ rc' # G!Ok /\ (rc' # "EAI_MEMORY" => G!Nothing)
           \/ /\ at' = "done"
              /\ ask.host # "local" =>
                    /\ rc' = G!Ok => Triples(list') = G!Wanted
                    /\ rc' \notin {G!Ok, "EAI_MEMORY"} => G!Nothing
    PROVE  G!GaiInv'
<1>1. /\ G!Wanted' = G!Wanted /\ G!Nothing' = G!Nothing /\ G!All' = G!All /\ G!Proper' = G!Proper
      /\ G!ga_nsearch' = G!ga_nsearch
      /\ G!Entries("inet6", G!Count("inet6"))' = G!Entries("inet6", G!Count("inet6"))
    BY AskKept
<1>2. ask' \in G!Questions /\ dns' \in [G!Families -> Nat]
    OBVIOUS
<1>3. at' \in {"search", "canon", "serv", "unix", "bad", "done", "quit"}
    OBVIOUS
<1>4. at' = "check" => n' = 1 /\ list' = <<>> /\ rc' = G!Ok
    BY <1>3
<1>5. at' \in {"canon", "serv"} => rc' = G!Ok /\ ask'.host # "local" /\ list' = G!All'
    BY <1>1
<1>6. at' = "unix" => ask'.host = "local"
    OBVIOUS
<1>7. at' = "bad" => rc' # G!Ok /\ (rc' # "EAI_MEMORY" => G!Nothing')
    BY <1>1
<1>8. G!SearchInv'
    <2>1. SUFFICES ASSUME at' = "search" PROVE G!SearchInv'
        BY DEF G!SearchInv
    <2>2. /\ rc' = G!Ok /\ ask.host # "local" /\ ask.family \in G!Families \cup {"unspec"}
          /\ m \in 1..(Len(G!ga_nsearch) + 1) /\ list' = G!Found(m)
        BY <2>1
    <2>3. G!Found(m) = IF m = 1 THEN <<>>
                       ELSE IF ask.family = "unspec" /\ m = 2
                            THEN G!Entries("inet6", G!Count("inet6")) ELSE G!All
        BY Zenon DEF G!Found
    <2>4. list' = IF n' = 1 THEN <<>>
                  ELSE IF ask'.family = "unspec" /\ n' = 2
                       THEN G!Entries("inet6", G!Count("inet6"))' ELSE G!All'
        BY <1>1, <2>2, <2>3, Zenon
    <2>5. n' \in 1..(Len(G!ga_nsearch') + 1) /\ ask'.host # "local"
          /\ ask'.family \in G!Families \cup {"unspec"}
        BY <1>1, <2>2, Zenon
    <2> QED
        BY <2>2, <2>4, <2>5, Zenon DEF G!SearchInv, G!Found
<1>9. G!ResultExact'
    <2>1. SUFFICES ASSUME at' = "done", ask.host # "local" PROVE G!ResultExact'
        BY DEF G!ResultExact
    <2>2. /\ rc' = G!Ok => Triples(list') = G!Wanted
          /\ rc' \notin {G!Ok, "EAI_MEMORY"} => G!Nothing
        BY <2>1
    <2>3. rc' = G!Ok =>
              [k \in DOMAIN list' |-> <<list'[k].family, list'[k].addr, list'[k].type>>] = G!Wanted'
        BY <1>1, <2>2, Zenon DEF Triples
    <2>4. rc' \notin {G!Ok, "EAI_MEMORY"} =>
              G!Wanted' = <<>> \/ ~G!Proper'
        BY <1>1, <2>2 DEF G!Nothing
    <2> QED
        BY <2>3, <2>4, Zenon DEF G!ResultExact
<1> QED
    BY <1>2, <1>3, <1>4, <1>5, <1>6, <1>7, <1>8, <1>9, Zenon DEF G!GaiInv

\* Before a call has checked its arguments.
LEMMA GaiInitial ==
    ASSUME G!Init
    PROVE  G!GaiInv
<1>1. /\ ask \in G!Questions /\ dns \in [G!Families -> 0..MaxAddrs]
      /\ at = "check" /\ n = 1 /\ list = <<>> /\ rc = G!Ok
    BY DEF G!Init
<1>2. dns \in [G!Families -> Nat]
    BY <1>1
<1>3. G!SearchInv /\ G!ResultExact
    BY <1>1 DEF G!SearchInv, G!ResultExact
<1> QED
    BY <1>1, <1>2, <1>3 DEF G!GaiInv

\* ga_echeck, and the choice of ga_unix.
LEMMA CheckKeeps ==
    ASSUME G!GaiInv, G!Check
    PROVE  G!GaiInv'
<1>1. /\ ask \in G!Questions /\ dns \in [G!Families -> Nat]
      /\ at = "check" /\ n = 1 /\ list = <<>> /\ rc = G!Ok
    BY DEF G!GaiInv, G!Check
<1>2. ask' = ask /\ dns' = dns /\ n' = 1 /\ list' = <<>>
    BY <1>1 DEF G!Check
<1>3. ask.family \in {"inet", "inet6", "unspec", "local", "other"}
    BY <1>1 DEF G!Questions, G!Families
<1>4. CASE G!ga_echeck # G!Ok
    <2>1. at' = "bad" /\ rc' = G!ga_echeck
        BY <1>4 DEF G!Check, G!Error
    <2>2. G!Nothing
        <3>1. CASE ~G!Proper
            BY <3>1 DEF G!Nothing
        <3>2. CASE G!Proper
            <4>1. ask.family \in {"local", "other"}
                BY <1>1, <1>3, <1>4, <3>2 DEF G!Proper, G!ga_echeck, G!TypesOf, G!Types, G!Questions
            <4>2. G!Count("inet") = 0 /\ G!Count("inet6") = 0
                BY <4>1 DEF G!Count
            <4> QED
                BY <1>1, <4>2, NoHost DEF G!Nothing
        <3> QED
            BY <3>1, <3>2
    <2> QED
        BY <1>1, <1>2, <1>4, <2>1, <2>2, GaiStep
<1>5. CASE G!ga_echeck = G!Ok /\ ask.host = "local"
    <2>1. at' = "unix"
        BY <1>1, <1>5 DEF G!Check
    <2> QED
        BY <1>1, <1>2, <1>5, <2>1, GaiStep
<1>6. CASE G!ga_echeck = G!Ok /\ ask.host # "local" /\ G!ga_nsearch = <<>>
    <2>1. at' = "quit"
        BY <1>1, <1>6 DEF G!Check
    <2> QED
        BY <1>1, <1>2, <2>1, GaiStep
<1>7. CASE G!ga_echeck = G!Ok /\ ask.host # "local" /\ G!ga_nsearch # <<>>
    <2>1. rc' = G!Ok /\ at' = "search"
        BY <1>1, <1>7 DEF G!Check
    <2>2. ask.family \in G!Families \cup {"unspec"}
        BY <1>7 DEF G!ga_nsearch
    <2>3. 1 \in 1..(Len(G!ga_nsearch) + 1)
        BY <2>2, Search
    <2>4. G!Found(1) = <<>>
        BY DEF G!Found
    <2> QED
        BY <1>1, <1>2, <1>7, <2>1, <2>2, <2>3, <2>4, GaiStep
<1> QED
    BY <1>4, <1>5, <1>6, <1>7

\* What the searches know of the search under way.
LEMMA SearchingAt ==
    ASSUME G!GaiInv, G!Searching
    PROVE  /\ ask \in G!Questions /\ dns \in [G!Families -> Nat]
           /\ at = "search" /\ rc = G!Ok /\ ask.host # "local"
           /\ ask.family \in G!Families \cup {"unspec"}
           /\ Len(G!ga_nsearch) \in Nat /\ n \in 1..Len(G!ga_nsearch) /\ list = G!Found(n)
           /\ \E f \in G!Families :
                 /\ G!ga_nsearch[n].host = G!HostOf(f) /\ G!ga_nsearch[n].family = f
                 /\ ask.family \in {"unspec", f}
<1>1. /\ ask \in G!Questions /\ dns \in [G!Families -> Nat] /\ at = "search"
      /\ rc = G!Ok /\ ask.host # "local" /\ ask.family \in G!Families \cup {"unspec"}
      /\ n \in 1..(Len(G!ga_nsearch) + 1) /\ list = G!Found(n) /\ n <= Len(G!ga_nsearch)
    BY DEF G!GaiInv, G!SearchInv, G!Searching
<1>2. Len(G!ga_nsearch) \in Nat
    BY <1>1, Search
<1>3. n \in 1..Len(G!ga_nsearch)
    BY <1>1, <1>2
<1>4. \E f \in G!Families :
          /\ G!ga_nsearch[n].host = G!HostOf(f) /\ G!ga_nsearch[n].family = f
          /\ ask.family \in {"unspec", f}
    BY <1>1, <1>3, Search
<1> QED
    BY <1>1, <1>2, <1>3, <1>4

\* A host written as an address.
LEMMA NumericKeeps ==
    ASSUME G!GaiInv, G!Numeric
    PROVE  G!GaiInv'
<1>1. /\ ask \in G!Questions /\ dns \in [G!Families -> Nat]
      /\ at = "search" /\ rc = G!Ok /\ ask.host # "local"
      /\ ask.family \in G!Families \cup {"unspec"}
      /\ Len(G!ga_nsearch) \in Nat /\ n \in 1..Len(G!ga_nsearch) /\ list = G!Found(n)
    BY SearchingAt DEF G!Numeric
<1>2. PICK f \in G!Families :
          /\ G!ga_nsearch[n].host = G!HostOf(f) /\ G!ga_nsearch[n].family = f
          /\ ask.family \in {"unspec", f}
    BY SearchingAt DEF G!Numeric
<1>3. PICK h, g : h = G!HostOf(f) /\ g = G!FamilyOf(h)
    OBVIOUS
<1>4. /\ h \in {"v4", "v6"} /\ ask' = ask /\ dns' = dns
      /\ IF ask.family \notin {"unspec", g}
         THEN at' = "bad" /\ rc' = "EAI_ADDRFAMILY" /\ n' = n
         ELSE \/ /\ list' = IF f = g THEN Append(list, G!Entry(g, 1)) ELSE list
                 /\ n' = n + 1 /\ at' = at /\ rc' = rc
              \/ at' = "bad" /\ rc' = "EAI_MEMORY" /\ n' = n
    BY <1>2, <1>3 DEF G!Numeric, G!Error, G!ga_aistruct
<1>5. /\ ask.family \in {"unspec", g} => G!Count(f) = IF f = g THEN 1 ELSE 0
      /\ ask.family \notin {"unspec", g} => G!Count("inet") = 0 /\ G!Count("inet6") = 0
    BY <1>1, <1>2, <1>3, <1>4, NumericCount
<1>6. CASE ask.family \notin {"unspec", g}
    <2>1. G!Nothing
        BY <1>1, <1>5, <1>6, NoHost DEF G!Nothing
    <2>2. at' = "bad" /\ rc' # G!Ok
        BY <1>4, <1>6 DEF G!Ok
    <2> QED
        BY <1>1, <1>4, <2>1, <2>2, GaiStep
<1>7. CASE at' = "bad" /\ rc' = "EAI_MEMORY"
    <2>1. rc' # G!Ok
        BY <1>7 DEF G!Ok
    <2> QED
        BY <1>1, <1>4, <1>7, <2>1, GaiStep
<1>8. CASE /\ ask.family \in {"unspec", g}
           /\ list' = IF f = g THEN Append(list, G!Entry(g, 1)) ELSE list
           /\ n' = n + 1 /\ at' = at /\ rc' = rc
    <2>1. PICK p \in 1..Len(G!ga_nsearch) : p = n
        BY <1>1
    <2>2. G!Found(p + 1) = G!Found(p) \o G!Entries(f, G!Count(f))
        BY <1>1, <1>2, <2>1, FoundNext
    <2>3. PICK m : m = p + 1
        OBVIOUS
    <2>4. list' = G!Found(p) \o G!Entries(f, G!Count(f))
        <3>1. PICK a : a = G!Found(p) /\ list = a
            BY <1>1, <2>1
        <3>2. \E S : a \in Seq(S)
            BY <1>1, <3>1, <2>1, FoundSeq
        <3>3. CASE f = g
            <4>1. G!Entries(f, G!Count(f)) = <<G!Entry(g, 1)>>
                <5>1. G!Count(f) = 1
                    BY <1>5, <1>8, <3>3
                <5>2. [k \in 1..1 |-> G!Entry(f, k)] = <<G!Entry(f, 1)>>
                    OBVIOUS
                <5> QED
                    BY <3>3, <5>1, <5>2, Zenon DEF G!Entries
            <4>2. PICK e : e = G!Entry(g, 1)
                OBVIOUS
            <4>3. Append(a, e) = a \o <<e>>
                BY <3>2, AppendIsConcat
            <4> QED
                BY <1>8, <3>1, <3>3, <4>1, <4>2, <4>3
        <3>4. CASE f # g
            <4>1. G!Entries(f, G!Count(f)) = <<>>
                BY <1>5, <1>8, <3>4, Empty
            <4>2. a \o <<>> = a
                BY <3>2, ConcatEmptySeq
            <4> QED
                BY <1>8, <3>1, <3>4, <4>1, <4>2
        <3> QED
            BY <3>3, <3>4
    <2>5. m \in 1..(Len(G!ga_nsearch) + 1) /\ n' = m /\ list' = G!Found(m)
        <3>1. m \in 1..(Len(G!ga_nsearch) + 1)
            BY <1>1, <2>1, <2>3
        <3>2. n' = m
            BY <1>8, <2>1, <2>3
        <3> QED
            BY <2>2, <2>3, <2>4, <3>1, <3>2, Zenon
    <2>6. at' = "search" /\ rc' = G!Ok
        BY <1>1, <1>8
    <2> QED
        BY <1>1, <1>4, <2>5, <2>6, GaiStep
<1> QED
    BY <1>4, <1>6, <1>7, <1>8

\* A host given by name.
LEMMA ResolveKeeps ==
    ASSUME G!GaiInv, G!Resolve
    PROVE  G!GaiInv'
<1>1. /\ ask \in G!Questions /\ dns \in [G!Families -> Nat]
      /\ at = "search" /\ rc = G!Ok /\ ask.host # "local"
      /\ ask.family \in G!Families \cup {"unspec"}
      /\ Len(G!ga_nsearch) \in Nat /\ n \in 1..Len(G!ga_nsearch) /\ list = G!Found(n)
    BY SearchingAt DEF G!Resolve
<1>2. PICK f \in G!Families :
          /\ G!ga_nsearch[n].host = G!HostOf(f) /\ G!ga_nsearch[n].family = f
          /\ ask.family \in {"unspec", f}
    BY SearchingAt DEF G!Resolve
<1>3. /\ G!HostOf(f) = "name" /\ ask' = ask /\ dns' = dns
      /\ IF dns[f] = 0
         THEN /\ list' = list
              /\ IF Len(G!ga_nsearch) = 2 THEN n' = n + 1 /\ at' = at /\ rc' = rc
                 ELSE at' = "bad" /\ rc' \in G!LookupErrors /\ n' = n
         ELSE \/ list' = list \o G!Entries(f, dns[f]) /\ n' = n + 1 /\ at' = at /\ rc' = rc
              \/ at' = "bad" /\ rc' = "EAI_MEMORY" /\ n' = n
    BY <1>2 DEF G!Resolve, G!Error
<1>4. G!Count(f) = dns[f]
    BY <1>1, <1>2, <1>3, NameCount
<1>5. CASE at' = "bad" /\ rc' = "EAI_MEMORY" /\ n' = n
    <2>1. rc' # G!Ok
        BY <1>5 DEF G!Ok
    <2> QED
        BY <1>1, <1>3, <1>5, <2>1, GaiStep
<1>6. CASE dns[f] = 0 /\ Len(G!ga_nsearch) # 2
    <2>1. ask.family # "unspec" /\ ask.family = f
        BY <1>1, <1>2, <1>6, Search
    <2>2. G!Count("inet") = 0 /\ G!Count("inet6") = 0
        <3>1. f = "inet" \/ f = "inet6"
            BY DEF G!Families
        <3> QED
            BY <1>4, <1>6, <2>1, <3>1 DEF G!Count
    <2>3. G!Nothing
        BY <1>1, <2>2, NoHost DEF G!Nothing
    <2>4. at' = "bad" /\ rc' # G!Ok /\ n' = n
        BY <1>3, <1>6 DEF G!Ok, G!LookupErrors
    <2> QED
        BY <1>1, <1>3, <2>3, <2>4, GaiStep
<1>7. CASE /\ n' = n + 1 /\ at' = at /\ rc' = rc
           /\ \/ dns[f] = 0 /\ list' = list
              \/ list' = list \o G!Entries(f, dns[f])
    <2>1. PICK p \in 1..Len(G!ga_nsearch) : p = n
        BY <1>1
    <2>2. G!Found(p + 1) = G!Found(p) \o G!Entries(f, G!Count(f))
        BY <1>1, <1>2, <2>1, FoundNext
    <2>3. PICK m : m = p + 1
        OBVIOUS
    <2>4. list' = G!Found(p) \o G!Entries(f, G!Count(f))
        <3>1. PICK a : a = G!Found(p) /\ list = a
            BY <1>1, <2>1
        <3>2. CASE dns[f] = 0 /\ list' = list
            <4>1. G!Entries(f, G!Count(f)) = <<>>
                BY <1>4, <3>2, Empty
            <4>2. a \o <<>> = a
                BY <1>1, <3>1, FoundSeq, ConcatEmptySeq
            <4> QED
                BY <3>1, <3>2, <4>1, <4>2
        <3>3. CASE list' = list \o G!Entries(f, dns[f])
            BY <1>4, <3>1, <3>3
        <3> QED
            BY <1>7, <3>2, <3>3
    <2>5. m \in 1..(Len(G!ga_nsearch) + 1) /\ n' = m /\ list' = G!Found(m)
        <3>1. m \in 1..(Len(G!ga_nsearch) + 1)
            BY <1>1, <2>1, <2>3
        <3>2. n' = m
            BY <1>7, <2>1, <2>3
        <3> QED
            BY <2>2, <2>3, <2>4, <3>1, <3>2, Zenon
    <2>6. at' = "search" /\ rc' = G!Ok
        BY <1>1, <1>7
    <2> QED
        BY <1>1, <1>3, <2>5, <2>6, GaiStep
<1> QED
    BY <1>3, <1>5, <1>6, <1>7

\* The end of the searches.
LEMMA SearchedKeeps ==
    ASSUME G!GaiInv, G!Searched
    PROVE  G!GaiInv'
<1>1. /\ ask \in G!Questions /\ dns \in [G!Families -> Nat]
      /\ at = "search" /\ rc = G!Ok /\ ask.host # "local"
      /\ ask.family \in G!Families \cup {"unspec"}
      /\ n \in 1..(Len(G!ga_nsearch) + 1) /\ list = G!Found(n) /\ n > Len(G!ga_nsearch)
      /\ ask' = ask /\ dns' = dns /\ n' = n /\ list' = list
    BY DEF G!GaiInv, G!SearchInv, G!Searched
<1>2. list = G!All
    <2>1. Len(G!ga_nsearch) = IF ask.family = "unspec" THEN 2 ELSE 1
        BY <1>1, Search
    <2>2. n = IF ask.family = "unspec" THEN 3 ELSE 2
        BY <1>1, <2>1
    <2>3. G!Found(n) = G!All
        BY <2>2 DEF G!Found
    <2> QED
        BY <1>1, <2>3
<1>3. CASE list = <<>>
    <2>1. at' = "bad" /\ rc' # G!Ok
        BY <1>3 DEF G!Searched, G!Error, G!Ok
    <2>2. G!Nothing
        BY <1>1, <1>2, <1>3, NoHost DEF G!Nothing
    <2> QED
        BY <1>1, <2>1, <2>2, GaiStep
<1>4. CASE list # <<>>
    <2>1. at' = "canon" /\ rc' = G!Ok
        BY <1>1, <1>4 DEF G!Searched
    <2> QED
        BY <1>1, <1>2, <2>1, GaiStep
<1> QED
    BY <1>3, <1>4

\* The canonical name changes no address.
LEMMA CanonicalKeeps ==
    ASSUME G!GaiInv, G!Canonical
    PROVE  G!GaiInv'
<1>1. /\ ask \in G!Questions /\ dns \in [G!Families -> Nat]
      /\ rc = G!Ok /\ ask.host # "local" /\ list = G!All
      /\ ask' = ask /\ dns' = dns /\ n' = n /\ list' = list
    BY DEF G!GaiInv, G!Canonical
<1>2. \/ at' = "serv" /\ rc' = rc
      \/ at' = "bad" /\ rc' = "EAI_MEMORY" /\ rc' # G!Ok
    BY DEF G!Canonical, G!Error, G!Ok
<1> QED
    BY <1>1, <1>2, GaiStep

\* ga_serv: the step that makes the list what is wanted.
LEMMA ServiceKeeps ==
    ASSUME G!GaiInv, G!Service
    PROVE  G!GaiInv'
<1>1. /\ ask \in G!Questions /\ dns \in [G!Families -> Nat]
      /\ rc = G!Ok /\ ask.host # "local" /\ list = G!All
      /\ ask' = ask /\ dns' = dns /\ n' = n
    BY DEF G!GaiInv, G!Service
<1>2. CASE ask.serv = "null"
    <2>1. at' = "done" /\ rc' = G!Ok /\ list' = G!All
        BY <1>1, <1>2 DEF G!Service
    <2>2. Triples(list') = G!Wanted
        BY <1>1, <1>2, <2>1, Exact
    <2> QED
        BY <1>1, <2>1, <2>2, GaiStep
<1>3. CASE ask.serv # "null" /\ G!Kinds = <<>>
    <2>1. at' = "bad" /\ rc' # G!Ok
        BY <1>3 DEF G!Service, G!Error, G!Ok
    <2>2. G!Nothing
        BY <1>1, <1>3, Exact DEF G!Nothing
    <2> QED
        BY <1>1, <2>1, <2>2, GaiStep
<1>4. CASE ask.serv # "null" /\ G!Kinds # <<>>
    <2>1. \/ at' = "done" /\ rc' = G!Ok /\ list' = G!ga_serv(list)
          \/ at' = "bad" /\ rc' = "EAI_MEMORY" /\ rc' # G!Ok
        BY <1>1, <1>4 DEF G!Service, G!Error, G!Ok
    <2>2. CASE at' = "done" /\ rc' = G!Ok /\ list' = G!ga_serv(list)
        <3>1. Triples(list') = G!Wanted
            BY <1>1, <1>4, <2>2, Exact
        <3> QED
            BY <1>1, <2>2, <3>1, GaiStep
    <2>3. CASE at' = "bad" /\ rc' = "EAI_MEMORY" /\ rc' # G!Ok
        BY <1>1, <2>3, GaiStep
    <2> QED
        BY <2>1, <2>2, <2>3
<1> QED
    BY <1>2, <1>3, <1>4

\* ga_unix answers on its own.
LEMMA UnixKeeps ==
    ASSUME G!GaiInv, G!ga_unix
    PROVE  G!GaiInv'
<1>1. /\ ask \in G!Questions /\ dns \in [G!Families -> Nat] /\ ask.host = "local"
      /\ ask' = ask /\ dns' = dns /\ n' = n /\ at' = "done"
    BY DEF G!GaiInv, G!ga_unix
<1> QED
    BY <1>1, GaiStep

\* The error exit.
LEMMA FreeKeeps ==
    ASSUME G!GaiInv, G!freeaddrinfo
    PROVE  G!GaiInv'
<1>1. /\ ask \in G!Questions /\ dns \in [G!Families -> Nat]
      /\ rc # G!Ok /\ (rc # "EAI_MEMORY" => G!Nothing)
      /\ ask' = ask /\ dns' = dns /\ n' = n /\ at' = "done" /\ rc' = rc
    BY DEF G!GaiInv, G!freeaddrinfo
<1> QED
    BY <1>1, GaiStep

\* Every step of a call keeps the invariant.
LEMMA GaiNext ==
    ASSUME G!GaiInv, G!Next
    PROVE  G!GaiInv'
    BY CheckKeeps, NumericKeeps, ResolveKeeps, SearchedKeeps, CanonicalKeeps, ServiceKeeps,
       UnixKeeps, FreeKeeps DEF G!Next

\* A step that does not run the resolver.
LEMMA GaiStutter ==
    ASSUME G!GaiInv, UNCHANGED gaiVars
    PROVE  G!GaiInv'
<1>1. /\ ask' = ask /\ dns' = dns /\ at' = at /\ n' = n /\ list' = list /\ rc' = rc
    BY DEF gaiVars
<1>2. /\ G!Wanted' = G!Wanted /\ G!Nothing' = G!Nothing /\ G!All' = G!All /\ G!Proper' = G!Proper
      /\ G!ga_nsearch' = G!ga_nsearch
      /\ G!Entries("inet6", G!Count("inet6"))' = G!Entries("inet6", G!Count("inet6"))
    BY <1>1, AskKept
<1>3. G!SearchInv'
    BY <1>1, <1>2, Zenon DEF G!GaiInv, G!SearchInv, G!Found
<1>4. G!ResultExact'
    BY <1>1, <1>2, Zenon DEF G!GaiInv, G!ResultExact
<1> QED
    BY <1>1, <1>2, <1>3, <1>4, Zenon DEF G!GaiInv

\* The resolver of MCBook, when it is the component that runs.
ResolverInv == at = "unused" \/ G!GaiInv

\* The invariant of the resolver, for answers of any length and lookups that fail.
THEOREM ResolverInvariant == MCSpec => []ResolverInv
<1>1. MCInit => ResolverInv
    BY GaiInitial DEF MCInit, NoQuestion, ResolverInv
<1>2. ResolverInv /\ [MCNext]_<<vars, gaiVars, textVars>> => ResolverInv'
    <2> SUFFICES ASSUME ResolverInv, [MCNext]_<<vars, gaiVars, textVars>>
                 PROVE  ResolverInv'
        OBVIOUS
    <2>1. (at # "unused" /\ G!Next) \/ UNCHANGED gaiVars
        BY DEF MCNext
    <2>2. CASE at # "unused" /\ G!Next
        BY <2>2, GaiNext DEF ResolverInv
    <2>3. CASE UNCHANGED gaiVars
        <3>1. at' = at
            BY <2>3 DEF gaiVars
        <3> QED
            BY <2>3, <3>1, GaiStutter DEF ResolverInv
    <2> QED
        BY <2>1, <2>2, <2>3
<1> QED
    BY <1>1, <1>2, PTL DEF MCSpec

\* ResultExact: a call of getaddrinfo that succeeds returns each address the lookups
\* answer with exactly once for every kind of socket its service is known for, in order,
\* and no other, also when one of two lookups fails; one that fails for another reason
\* than memory was asked a wrong question or had nothing to return.
THEOREM ResolverExact == MCSpec => []ResultExact
<1>1. ResolverInv => ResultExact
    BY DEF ResolverInv, G!GaiInv, ResultExact, G!ResultExact
<1> QED
    BY <1>1, ResolverInvariant, PTL
============================================================================
