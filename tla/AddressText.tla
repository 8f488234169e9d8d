---------------------------- MODULE AddressText ----------------------------
(***************************************************************************)
(* inet_ntop6 and inet_pton6 of unpv13e/libfree, which the library is      *)
(* built with: an IPv6 address of eight words is written as text and the   *)
(* text is read back. The text is a sequence of tokens: Colon, the hex     *)
(* digits of a word, or the dotted form of the last two.                   *)
(***************************************************************************)
EXTENDS Integers, Sequences

CONSTANT Words        \* the values of a word that are tried, 0 and 65535 among them

VARIABLES
    phase,    \* "scan", "format", "parse" or "done"
    words,    \* the address
    i,        \* the next word, or the next token
    cur,      \* the run of zeros being scanned and the longest one before it,
    best,     \* [base, len], base -1 for none
    text,     \* the tokens written
    out,      \* the words read back, tmp[] up to tp
    val,      \* the word being read, <<>> when no digit was seen
    colonp,   \* where "::" stood in out, -1 for nowhere
    ok        \* what inet_pton returns

vars == <<phase, words, i, cur, best, text, out, val, colonp, ok>>

NoRun == [base |-> -1, len |-> 0]
Colon == [kind |-> "colon"]
Hex(w) == [kind |-> "hex", w |-> w]
Dotted(hi, lo) == [kind |-> "dotted", w |-> <<hi, lo>>]
Range08 == 0..7

Init ==
    /\ phase = "scan" /\ words \in [Range08 -> Words] /\ i = 0
    /\ cur = NoRun /\ best = NoRun /\ text = <<>>
    /\ out = <<>> /\ val = <<>> /\ colonp = -1 /\ ok = FALSE

\* Defect: the last of several longest runs wins.
LastLonger == IF best.base = -1 \/ cur.len >= best.len THEN cur ELSE best
Longer == IF best.base = -1 \/ cur.len > best.len THEN cur ELSE best

Scan ==
    /\ phase = "scan" /\ i < 8
    /\ i' = i + 1
    /\ IF words[i] = 0
       THEN /\ cur' = IF cur.base = -1 THEN [base |-> i, len |-> 1] ELSE [cur EXCEPT !.len = @ + 1]
            /\ best' = best
       ELSE /\ best' = IF cur.base = -1 THEN best ELSE Longer
            /\ cur' = NoRun
    /\ UNCHANGED <<phase, words, text, out, val, colonp, ok>>

\* A run of one zero is written as "0".
Scanned ==
    /\ phase = "scan" /\ i = 8
    /\ LET b == IF cur.base = -1 THEN best ELSE Longer
       IN best' = IF b.base # -1 /\ b.len < 2 THEN NoRun ELSE b
    /\ phase' = "format" /\ i' = 0
    /\ UNCHANGED <<words, cur, text, out, val, colonp, ok>>

InRun == best.base # -1 /\ i >= best.base /\ i < best.base + best.len
AsIpv4 == i = 6 /\ best.base = 0 /\ (best.len = 6 \/ (best.len = 5 /\ words[5] = 65535))

Format ==
    /\ phase = "format" /\ i < 8
    /\ text' = text \o
          IF InRun THEN (IF i = best.base THEN <<Colon>> ELSE <<>>)
          ELSE (IF i # 0 THEN <<Colon>> ELSE <<>>)
                  \o (IF AsIpv4 THEN <<Dotted(words[6], words[7])>> ELSE <<Hex(words[i])>>)
    /\ i' = IF ~InRun /\ AsIpv4 THEN 8 ELSE i + 1
    /\ UNCHANGED <<phase, words, cur, best, out, val, colonp, ok>>

\* The run may reach the last word. Reading starts past the first of two colons.
Formatted ==
    /\ phase = "format" /\ i = 8
    /\ LET t == text \o (IF best.base # -1 /\ best.base + best.len = 8 THEN <<Colon>> ELSE <<>>)
           wrong == t[1] = Colon /\ t[2] # Colon
       IN /\ text' = t
          /\ i' = IF t[1] = Colon THEN 2 ELSE 1
          /\ phase' = IF wrong THEN "done" ELSE "parse"
    /\ UNCHANGED <<words, cur, best, out, val, colonp, ok>>

----------------------------------------------------------------------------
Reject == phase' = "done" /\ UNCHANGED <<i, out, val, colonp>>

Parse ==
    /\ phase = "parse" /\ i <= Len(text)
    /\ LET t == text[i]
       IN CASE t.kind = "hex" ->
                   val' = <<t.w>> /\ i' = i + 1 /\ UNCHANGED <<phase, out, colonp>>
            [] t = Colon /\ val = <<>> ->
                   IF colonp # -1 THEN Reject
                   ELSE colonp' = Len(out) /\ i' = i + 1 /\ UNCHANGED <<phase, out, val>>
            [] t = Colon /\ val # <<>> ->
                   IF Len(out) + 1 > 8 THEN Reject
                   ELSE out' = out \o val /\ val' = <<>> /\ i' = i + 1 /\ UNCHANGED <<phase, colonp>>
            [] t.kind = "dotted" ->
                   IF Len(out) + 2 > 8 THEN Reject
                   ELSE out' = out \o t.w /\ val' = <<>> /\ i' = Len(text) + 1
                            /\ UNCHANGED <<phase, colonp>>
    /\ UNCHANGED <<words, cur, best, text, ok>>

\* Defect: the words after "::" keep their places.
Unshifted(w) == w \o [k \in 1..(8 - Len(w)) |-> 0]
\* The words after "::" are moved to the end of the address.
Shifted(w) ==
    IF colonp = -1 THEN w
    ELSE SubSeq(w, 1, colonp) \o [k \in 1..(8 - Len(w)) |-> 0] \o SubSeq(w, colonp + 1, Len(w))

Parsed ==
    /\ phase = "parse" /\ i > Len(text)
    /\ LET w == out \o val
       IN IF Len(w) > 8 THEN UNCHANGED <<out, ok>>
          ELSE out' = Shifted(w) /\ ok' = (Len(Shifted(w)) = 8)
    /\ phase' = "done"
    /\ UNCHANGED <<words, i, cur, best, text, val, colonp>>

Next == Scan \/ Scanned \/ Format \/ Formatted \/ Parse \/ Parsed
Spec == Init /\ [][Next]_vars

----------------------------------------------------------------------------
\* Every address inet_ntop writes is one inet_pton accepts, and reads back as the
\* same eight words, wherever the zeros are and whether or not the end is dotted.
RoundTrip == phase = "done" => ok /\ \A k \in Range08 : out[k + 1] = words[k]

ZeroRun(b, l) == \A k \in b..(b + l - 1) : words[k] = 0

\* "::" stands for the longest run of at least two zero words, the first of them if
\* there are several, and is absent only when there is none.
LongestZeros ==
    phase \in {"format", "parse", "done"} =>
        /\ best.base # -1 => ZeroRun(best.base, best.len) /\ best.len >= 2
        /\ \A b \in Range08 : \A l \in 2..(8 - b) :
              ZeroRun(b, l) => /\ best.base # -1 /\ l <= best.len
                               /\ (l = best.len => best.base <= b)
----------------------------------------------------------------------------
\* The inductive invariant. While the words are scanned, cur is the run that reaches
\* the word before i and best the first of the longest ones that end before it.
Run(b, l) == [base |-> b, len |-> l]
Start == IF cur.base = -1 THEN i ELSE cur.base
CurInv ==
    \/ cur = NoRun /\ (i > 0 => words[i - 1] # 0)
    \/ \E b \in Range08 : /\ b < i /\ cur = Run(b, i - b) /\ ZeroRun(b, i - b)
                          /\ b > 0 => words[b - 1] # 0
BestRun(r, least, end) ==
    \/ r = NoRun
    \/ \E b \in Range08, l \in 1..8 :
          r = Run(b, l) /\ least <= l /\ b + l <= end /\ ZeroRun(b, l)
FirstLongest(r, least, end) ==
    \A b \in Range08, l \in 1..8 :
        least <= l /\ b + l <= end /\ ZeroRun(b, l)
            => r.base # -1 /\ l <= r.len /\ (l = r.len => r.base <= b)
ScanInv ==
    phase = "scan" =>
        /\ i \in 0..8 /\ CurInv /\ BestRun(best, 1, Start) /\ FirstLongest(best, 1, Start)
BestInv ==
    phase # "scan" => BestRun(best, 2, 8) /\ FirstLongest(best, 2, 8)

\* Where the tokens stand: the words before the gap at odd places, the second colon of
\* the gap, and after it a colon and a token for each word (one for the last two
\* if they are dotted).
Gap == IF best.base = -1 THEN 8 ELSE best.base
After == IF best.base = -1 THEN 8 ELSE best.base + best.len
Ipv4 == best.base = 0 /\ (best.len = 6 \/ (best.len = 5 /\ words[5] = 65535))
End == IF Ipv4 THEN 7 ELSE 8
Second == IF Gap = 0 THEN 2 ELSE 2 * Gap + 1
Trail(k) == Second + 2 * (k - After) + 1
Token(k) == IF Ipv4 /\ k = 6 THEN Dotted(words[6], words[7]) ELSE Hex(words[k])
Tokens == {Colon} \cup {Hex(w) : w \in Words} \cup {Dotted(v, w) : v, w \in Words}

\* The text of the words before m.
Width(m) ==
    IF m <= Gap THEN (IF m = 0 THEN 0 ELSE 2 * m - 1)
    ELSE IF m <= After THEN Second - 1 ELSE Second - 1 + 2 * (m - After)
Written(m) ==
    /\ \A k \in Range08 : k < Gap /\ k < m => text[2 * k + 1] = Hex(words[k])
    /\ \A k \in Range08 : 0 < k /\ k < Gap /\ k < m => text[2 * k] = Colon
    /\ Gap < m => text[Second - 1] = Colon
    /\ \A k \in Range08 : After <= k /\ k < m =>
          text[Trail(k) - 1] = Colon /\ text[Trail(k)] = Token(k)
Handled == IF i < 8 THEN i ELSE End
FormatInv ==
    phase = "format" =>
        /\ i \in 0..8 /\ (Ipv4 => i # 7)
        /\ text \in Seq(Tokens) /\ Len(text) = Width(Handled) /\ Written(Handled)
        /\ out = <<>> /\ val = <<>> /\ colonp = -1
TextInv ==
    phase = "parse" =>
        /\ text \in Seq(Tokens) /\ Written(End)
        /\ Gap < 8 => text[Second] = Colon
        /\ Len(text) = IF After = 8 /\ Gap < 8 THEN Second ELSE Width(End)

\* The words read: all before k, but for those of the gap once it is passed.
Before(k) == Len(out) = k /\ \A j \in Range08 : j < k => out[j + 1] = words[j]
Around(k) ==
    /\ Len(out) = Gap + (k - After) /\ colonp = Gap /\ Gap < 8
    /\ \A j \in Range08 : j < Gap => out[j + 1] = words[j]
    /\ \A j \in Range08 : After <= j /\ j < k => out[Gap + (j - After) + 1] = words[j]
AtWord(k) == i = 2 * k + 1 /\ k < Gap /\ Before(k) /\ val = <<>> /\ colonp = -1
PastWord(k) == i = 2 * k + 2 /\ k < Gap /\ Before(k) /\ val = <<words[k]>> /\ colonp = -1
AtSecond == i = Second /\ Gap < 8 /\ Before(Gap) /\ val = <<>> /\ colonp = -1
AtTrail(k) == i = Trail(k) /\ k >= After /\ (k < End \/ After = 8) /\ Around(k) /\ val = <<>>
PastTrail(k) ==
    /\ i = Trail(k) + 1 /\ k >= After /\ k < End /\ ~(Ipv4 /\ k = 6)
    /\ Around(k) /\ val = <<words[k]>>
PastDotted == Ipv4 /\ i = Len(text) + 1 /\ Around(8) /\ val = <<>>
ParseInv ==
    phase = "parse" =>
        /\ out \in Seq(Words) /\ val \in Seq(Words)
        /\ \/ \E k \in Range08 : AtWord(k) \/ PastWord(k)
           \/ AtSecond
           \/ \E k \in 0..8 : AtTrail(k) \/ PastTrail(k)
           \/ PastDotted

AddressInv ==
    /\ phase \in {"scan", "format", "parse", "done"} /\ words \in [Range08 -> Words]
    /\ phase = "scan" => text = <<>> /\ out = <<>> /\ val = <<>> /\ colonp = -1
    /\ ScanInv /\ BestInv /\ FormatInv /\ TextInv /\ ParseInv /\ RoundTrip
============================================================================
