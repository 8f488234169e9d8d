------------------------------- MODULE MCBook ------------------------------
(***************************************************************************)
(* The sequential code: every program of the tables, one at a time, or     *)
(* else the resolver, or else the text form of addresses. The components   *)
(* share no state; "unused" marks the ones that do not run.                *)
(***************************************************************************)
EXTENDS CallRun

CONSTANTS MaxAddrs, Words

VARIABLES
    ask, dns, at, n, list, canon, rc, lost,                           \* GetAddrInfo
    phase, words, i, cur, best, text, out, val, colonp, ok            \* AddressText

T1 == INSTANCE Daytime
T2 == INSTANCE Echo
T3 == INSTANCE Advanced
T4 == INSTANCE Messages
T5 == INSTANCE Servers
T6 == INSTANCE Tools
T7 == INSTANCE Labs
G == INSTANCE GetAddrInfo
A == INSTANCE AddressText

MCPrograms ==
    [daytime |-> T1!Table, echo |-> T2!Table, advanced |-> T3!Table,
     messages |-> T4!Table, servers |-> T5!Table, tools |-> T6!Table,
     labs |-> T7!Table]

NoProgram ==
    /\ prog = <<"", "">> /\ todo = <<>> /\ held = <<>> /\ who = "gone"
    /\ spare = {} /\ caught = {} /\ kids = 0
NoQuestion ==
    /\ ask = 0 /\ dns = 0 /\ at = "unused" /\ n = 0 /\ list = 0 /\ canon = 0 /\ rc = 0 /\ lost = {}
NoAddress ==
    /\ phase = "unused" /\ words = 0 /\ i = 0 /\ cur = 0 /\ best = 0 /\ text = 0
    /\ out = 0 /\ val = 0 /\ colonp = 0 /\ ok = 0

gaiVars == <<ask, dns, at, n, list, canon, rc, lost>>
textVars == <<phase, words, i, cur, best, text, out, val, colonp, ok>>

MCInit ==
    \/ Init /\ NoQuestion /\ NoAddress
    \/ NoProgram /\ G!Init /\ NoAddress
    \/ NoProgram /\ NoQuestion /\ A!Init

MCNext ==
    \/ at = "unused" /\ phase = "unused" /\ Next /\ UNCHANGED <<gaiVars, textVars>>
    \/ at # "unused" /\ G!Next /\ UNCHANGED <<vars, textVars>>
    \/ phase # "unused" /\ A!Next /\ UNCHANGED <<vars, gaiVars>>

MCSpec == MCInit /\ [][MCNext]_<<vars, gaiVars, textVars>>

----------------------------------------------------------------------------
\* libgai/getaddrinfo.c: a call that succeeds returns each address the lookups answer
\* with exactly once for every kind of socket its service is known for, and no other; of
\* two lookups one may have failed, which is not reported. A call that fails for another
\* reason than memory was asked a wrong question or had nothing to return.
ResultExact == G!ResultExact

\* libfree/inet_ntop.c and libfree/inet_pton.c: every address inet_ntop writes is one
\* inet_pton accepts, and reads back as the same eight words.
RoundTrip == A!RoundTrip

\* libfree/inet_ntop.c: "::" stands for the longest run of zero words, the first of
\* them if there are several.
LongestZeros == A!LongestZeros
============================================================================
