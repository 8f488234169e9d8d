---------------------------- MODULE GetAddrInfo ----------------------------
(***************************************************************************)
(* One call of getaddrinfo, as unpv13e/libgai implements it: the question  *)
(* is checked, every name to search is looked up, the answers become a     *)
(* list of addrinfo structures, and the service gives each its port, with  *)
(* a copy of it for every other kind of socket. A lookup may fail for any  *)
(* of the resolver's reasons, and an allocation at any of these steps.     *)
(***************************************************************************)
EXTENDS Integers, Sequences, SequencesExt, FiniteSets

CONSTANT MaxAddrs      \* bound: addresses in one answer

VARIABLES
    ask,      \* the arguments and the hints
    dns,      \* the answer to a lookup in each family: how many addresses, 0 for a failure
    at,       \* "check", "search", "canon", "serv", "unix", "bad", "done"; "quit"
    n,        \* the search under way
    list,     \* the list under aihead
    canon,    \* the canonical name: "none", "held" by canon, or "on" the list
    rc,       \* 0, or the error
    lost      \* what is still allocated and no longer reachable

vars == <<ask, dns, at, n, list, canon, rc, lost>>

Families == {"inet", "inet6"}
Ok == "0"

Types == {"any", "stream", "dgram", "raw", "odd"}
TypesOf(family) ==
    CASE family = "unspec" -> Types
      [] family = "local" -> {"any", "stream", "dgram"}
      [] OTHER -> Types \ {"odd"}

\* host: none, an address of either family, a name, or "/local" with a path for its
\* service, whatever serv is; serv: none, a number, or a name known for tcp, udp,
\* both or neither; unknown: a flag bit nobody knows.
Questions ==
    [host : {"null", "v4", "v6", "name", "local"}, serv : {"null", "port", "tcp", "udp", "both", "unknown"},
     family : Families \cup {"unspec", "local", "other"}, type : Types,
     passive : BOOLEAN, canonname : BOOLEAN, unknown : BOOLEAN]

Init ==
    /\ ask \in Questions /\ dns \in [Families -> 0..MaxAddrs]
    /\ at = "check" /\ n = 1 /\ list = <<>> /\ canon = "none" /\ rc = Ok /\ lost = {}

Error(e) == at' = "bad" /\ rc' = e

----------------------------------------------------------------------------
ga_echeck ==
    IF ask.unknown THEN "EAI_BADFLAGS"
    ELSE IF ask.host = "null" /\ ask.serv = "null" THEN "EAI_NONAME"
    ELSE IF ask.family = "other" THEN "EAI_FAMILY"
    ELSE IF ask.type \notin TypesOf(ask.family) THEN "EAI_SOCKTYPE" ELSE Ok

\* What to look up: the wildcard or the loopback addresses when there is no host,
\* and for both families, IPv6 first, when none was asked for.
HostOf(f) ==
    CASE ask.host # "null" -> ask.host
      [] ask.host = "null" /\ ask.passive -> (IF f = "inet" THEN "v4" ELSE "v6")
      [] OTHER -> (IF f = "inet" THEN "name" ELSE "v6")
ga_nsearch ==
    LET one(f) == [host |-> HostOf(f), family |-> f]
    IN IF ask.family = "unspec" THEN <<one("inet6"), one("inet")>>
       ELSE IF ask.family \in Families THEN <<one(ask.family)>> ELSE <<>>

\* With nothing to look up, ga_nsearch ends the process.
Check ==
    /\ at = "check"
    /\ IF ga_echeck # Ok THEN Error(ga_echeck)
       ELSE /\ at' = IF ask.host = "local" THEN "unix" ELSE IF ga_nsearch = <<>> THEN "quit" ELSE "search"
            /\ UNCHANGED rc
    /\ UNCHANGED <<ask, dns, n, list, canon, lost>>

FamilyOf(host) == IF host = "v4" THEN "inet" ELSE "inet6"
Entry(f, k) == [family |-> f, addr |-> k, type |-> ask.type, clone |-> ask.type = "any", port |-> 0]
ga_aistruct(l, f, k) == Append(l, Entry(f, k))
Entries(f, count) == [k \in 1..count |-> Entry(f, k)]
Searching == at = "search" /\ n <= Len(ga_nsearch)

\* A host written as an address matches one family only.
Numeric ==
    /\ Searching
    /\ LET s == ga_nsearch[n] IN
       /\ s.host \in {"v4", "v6"}
       /\ LET f == FamilyOf(s.host) IN
          IF ask.family \notin {"unspec", f} THEN Error("EAI_ADDRFAMILY") /\ UNCHANGED <<n, list>>
          ELSE \/ /\ list' = IF s.family = f THEN ga_aistruct(list, f, 1) ELSE list
                  /\ n' = n + 1 /\ UNCHANGED <<at, rc>>
               \/ s.family = f /\ Error("EAI_MEMORY") /\ UNCHANGED <<n, list>>
    /\ UNCHANGED <<ask, dns, canon, lost>>

\* A name. A lookup that fails is an error only when it is the one search, and so is
\* an answer of another family. The first answer gives the canonical name, which canon
\* holds until the list is complete.
WantsCanon == ask.host # "null" /\ ask.canonname
LookupErrors == {"EAI_NONAME", "EAI_AGAIN", "EAI_FAIL", "EAI_NODATA", "EAI_ADDRFAMILY"}
Resolve ==
    /\ Searching /\ ga_nsearch[n].host = "name"
    /\ LET f == ga_nsearch[n].family
           named == IF WantsCanon /\ canon = "none" THEN "held" ELSE canon
       IN IF dns[f] = 0
          THEN /\ IF Len(ga_nsearch) = 2 THEN n' = n + 1 /\ UNCHANGED <<at, rc>>
                  ELSE (\E e \in LookupErrors : Error(e)) /\ UNCHANGED n
               /\ UNCHANGED <<list, canon>>
          ELSE \/ /\ list' = list \o Entries(f, dns[f]) /\ canon' = named
                  /\ n' = n + 1 /\ UNCHANGED <<at, rc>>
               \/ /\ \E k \in 0..(dns[f] - 1) : list' = list \o Entries(f, k)
                  /\ canon' = named /\ Error("EAI_MEMORY") /\ UNCHANGED n
               \/ /\ named # canon /\ Error("EAI_MEMORY") /\ UNCHANGED <<n, list, canon>>
    /\ UNCHANGED <<ask, dns, lost>>

Searched ==
    /\ at = "search" /\ n > Len(ga_nsearch)
    /\ IF list = <<>> THEN Error("EAI_NONAME") ELSE at' = "canon" /\ UNCHANGED rc
    /\ UNCHANGED <<ask, dns, n, list, canon, lost>>

Canonical ==
    /\ at = "canon"
    /\ \/ at' = "serv" /\ canon' = (IF WantsCanon THEN "on" ELSE canon) /\ UNCHANGED rc
       \/ WantsCanon /\ canon = "none" /\ Error("EAI_MEMORY") /\ UNCHANGED canon
    /\ UNCHANGED <<ask, dns, n, list, lost>>

----------------------------------------------------------------------------
\* The entries of one kind of socket get the port; an entry of any kind becomes one
\* of this kind, or is copied when it already has another.
ga_port(l, type) ==
    LET withPort(e) == [e EXCEPT !.type = type, !.port = type]
        ga_clone(e) == <<e, [withPort(e) EXCEPT !.clone = FALSE]>>
    IN FlattenSeq([k \in DOMAIN l |->
           LET e == l[k]
           IN CASE e.clone /\ e.type # "any" -> ga_clone(e)
                [] e.clone /\ e.type = "any" -> <<withPort(e)>>
                [] ~e.clone /\ e.type # type -> <<e>>
                [] OTHER -> <<withPort(e)>>])

\* Defect: a number is a port of TCP when no kind was asked for.
OnlyStream ==
    LET kind(t) == IF /\ ask.type \in {"any", t}
                      /\ ask.serv \in {"both", IF t = "stream" THEN "tcp" ELSE "udp"}
                   THEN <<t>> ELSE <<>>
    IN IF ask.serv = "port" THEN <<IF ask.type = "any" THEN "stream" ELSE ask.type>>
       ELSE kind("stream") \o kind("dgram")

\* The kinds of socket ga_serv passes to ga_port.
Kinds ==
    LET kind(t) == IF /\ ask.type \in {"any", t}
                      /\ ask.serv \in {"port", "both", IF t = "stream" THEN "tcp" ELSE "udp"}
                   THEN <<t>> ELSE <<>>
    IN IF ask.serv = "port" /\ ask.type # "any" THEN <<ask.type>>
       ELSE kind("stream") \o kind("dgram")

ga_serv(l) ==
    IF Len(Kinds) = 1 THEN ga_port(l, Kinds[1]) ELSE ga_port(ga_port(l, Kinds[1]), Kinds[2])

Service ==
    /\ at = "serv"
    /\ IF ask.serv = "null" THEN at' = "done" /\ UNCHANGED <<rc, list>>
       ELSE IF Kinds = <<>>
            THEN Error(IF ask.type = "any" THEN "EAI_NONAME" ELSE "EAI_SERVICE") /\ UNCHANGED list
            ELSE \/ list' = ga_serv(list) /\ at' = "done" /\ UNCHANGED rc
                 \/ Len(Kinds) = 2 /\ Error("EAI_MEMORY") /\ UNCHANGED list
    /\ UNCHANGED <<ask, dns, n, canon, lost>>

\* "/local" and a path: its own list, which a failure leaves behind, be it of memory,
\* of uname, or a path that does not fit, noticed after its entry was linked.
ga_unix ==
    /\ at = "unix" /\ at' = "done"
    /\ LET kinds == IF ask.type = "any" THEN <<"stream", "dgram">> ELSE <<ask.type>>
           made == [k \in DOMAIN kinds |-> [Entry("local", 1) EXCEPT !.type = kinds[k], !.clone = FALSE]]
       IN \/ /\ ask.family \notin {"unspec", "local"} /\ rc' = "EAI_ADDRFAMILY"
             /\ UNCHANGED <<list, canon, lost>>
          \/ /\ ask.family \in {"unspec", "local"}
             /\ \/ /\ list' = made /\ canon' = (IF ask.canonname THEN "on" ELSE canon)
                   /\ UNCHANGED <<rc, lost>>
                \/ /\ \/ rc' = "EAI_MEMORY" /\ lost' \in {{}, {"list"}}
                      \/ rc' = "EAI_SERVICE" /\ lost' = {"list"}
                      \/ ask.canonname /\ rc' = "EAI_SYSTEM" /\ lost' = {"list"}
                   /\ UNCHANGED <<list, canon>>
    /\ UNCHANGED <<ask, dns, n>>

\* bad: the list and the name on it are freed; a name still held by canon is not.
freeaddrinfo ==
    /\ at = "bad" /\ at' = "done"
    /\ list' = <<>> /\ canon' = "none"
    /\ lost' = IF canon = "held" THEN {"canon"} ELSE lost
    /\ UNCHANGED <<ask, dns, n, rc>>

Next == Check \/ Numeric \/ Resolve \/ Searched \/ Canonical \/ Service \/ ga_unix \/ freeaddrinfo
Spec == Init /\ [][Next]_vars

----------------------------------------------------------------------------
\* What the question asks for: every address the lookups answer with, with every kind of
\* socket it is offered for, in the order of the searches and for each address stream
\* first. A lookup that fails adds nothing.
Count(f) ==
    LET named == ask.host = "name" \/ (ask.host = "null" /\ ~ask.passive /\ f = "inet")
        fits == ask.host \in {"name", "null"} \/ FamilyOf(ask.host) = f
    IN IF ask.family \notin {"unspec", f} \/ ~fits THEN 0
       ELSE IF named THEN dns[f] ELSE 1
Addresses == [k \in 1..Count("inet6") |-> <<"inet6", k>>] \o [k \in 1..Count("inet") |-> <<"inet", k>>]
Offered ==
    LET known(t) == ask.serv \in {"port", "both", IF t = "stream" THEN "tcp" ELSE "udp"}
        offer(t) == IF ask.type \in {"any", t} /\ known(t) THEN <<t>> ELSE <<>>
    IN CASE ask.serv = "null" -> <<ask.type>>
         [] ask.serv # "null" /\ ask.type \in {"raw", "odd"} ->
               IF ask.serv = "port" THEN <<ask.type>> ELSE <<>>
         [] OTHER -> offer("stream") \o offer("dgram")
Wanted ==
    FlattenSeq([a \in DOMAIN Addresses |->
        [t \in DOMAIN Offered |-> <<Addresses[a][1], Addresses[a][2], Offered[t]>>]])

\* A question with nothing wrong in it: known flags, a host or a service, and a kind of
\* socket that the family has.
Proper ==
    /\ ~ask.unknown /\ (ask.host # "null" \/ ask.serv # "null")
    /\ (ask.type = "odd" => ask.family = "unspec")

\* A call that succeeds returns each address the lookups answer with exactly once for
\* every kind of socket its service is known for, and no other. A call that fails for
\* another reason than memory was asked a wrong question or had nothing to return.
ResultExact ==
    (at = "done" /\ ask.host # "local") =>
        /\ rc = Ok => [k \in DOMAIN list |-> <<list[k].family, list[k].addr, list[k].type>>] = Wanted
        /\ rc \notin {Ok, "EAI_MEMORY"} => Wanted = <<>> \/ ~Proper

----------------------------------------------------------------------------
\* The inductive invariant: the list holds the entries of the searches made so far, and
\* a call that failed for another reason than memory had nothing to return.
All == Entries("inet6", Count("inet6")) \o Entries("inet", Count("inet"))
Found(m) ==
    IF m = 1 THEN <<>>
    ELSE IF ask.family = "unspec" /\ m = 2 THEN Entries("inet6", Count("inet6")) ELSE All
SearchInv ==
    at = "search" =>
        /\ rc = Ok /\ ask.host # "local" /\ ask.family \in Families \cup {"unspec"}
        /\ n \in 1..(Len(ga_nsearch) + 1) /\ list = Found(n)
Nothing == Wanted = <<>> \/ ~Proper
GaiInv ==
    /\ ask \in Questions /\ dns \in [Families -> Nat]
    /\ at \in {"check", "search", "canon", "serv", "unix", "bad", "done", "quit"}
    /\ at = "check" => n = 1 /\ list = <<>> /\ rc = Ok
    /\ SearchInv
    /\ at \in {"canon", "serv"} => rc = Ok /\ ask.host # "local" /\ list = All
    /\ at = "unix" => ask.host = "local"
    /\ at = "bad" => rc # Ok /\ (rc # "EAI_MEMORY" => Nothing)
    /\ ResultExact
============================================================================
