----------------------------- MODULE AlarmLoop -----------------------------
(***************************************************************************)
(* Programs that collect replies until SIGALRM: the broadcast clients      *)
(* unpv13e/bcast/dgclibcast1 to 6, and recv_v4 and recv_v6 of traceroute.  *)
(* They differ in where the signal may be delivered and in what its        *)
(* handler does, so each way of waiting is a row of the table Ways.        *)
(***************************************************************************)
EXTENDS Integers

CONSTANT MaxReplies      \* bound: replies that arrive

VARIABLES
    way,       \* the program
    at,        \* "line" between rounds; "top" of the loop, "call" just before the
               \* blocking call, "wait" inside it, "back" just after it
    alarm,     \* "off", "running" or "pending"
    note,      \* what the handler has left: gotalarm, or the byte in the pipe
    replies,   \* replies in the receive buffer
    more       \* replies still to come

vars == <<way, at, alarm, note, replies, more>>

\* open: where the program stands when SIGALRM can be delivered; in: what delivery
\* does to a program inside the blocking call: "leave" the loop or go to the "top" of
\* it; out: the same to a program outside it, "stay" when the handler just returns;
\* note: the handler leaves a note, which the program looks at "top" of the loop, or
\* which "wakes" the blocking call.
Anywhere == {"top", "call", "wait", "back"}
Ways ==
    [dgclibcast1 |-> [open |-> Anywhere, in |-> "leave", out |-> "stay", note |-> "none"],
     dgclibcast3 |-> [open |-> {"call", "wait", "back"}, in |-> "leave", out |-> "stay", note |-> "none"],
     dgclibcast4 |-> [open |-> {"wait"}, in |-> "leave", out |-> "stay", note |-> "none"],
     dgclibcast5 |-> [open |-> Anywhere, in |-> "leave", out |-> "leave", note |-> "none"],
     dgclibcast6 |-> [open |-> Anywhere, in |-> "top", out |-> "stay", note |-> "wakes"],
     traceroute |-> [open |-> Anywhere, in |-> "top", out |-> "stay", note |-> "top"]]
my == Ways[way]

Init ==
    /\ way \in DOMAIN Ways /\ at = "line" /\ alarm = "off" /\ note = FALSE
    /\ replies = 0 /\ more = MaxReplies

\* The line is sent and the alarm set.
Start ==
    /\ at = "line" /\ at' = "top" /\ alarm' = "running" /\ note' = FALSE
    /\ UNCHANGED <<way, replies, more>>

\* traceroute gives up when gotalarm is set.
Top ==
    /\ at = "top"
    /\ at' = IF my.note = "top" /\ note THEN "line" ELSE "call"
    /\ UNCHANGED <<way, alarm, note, replies, more>>

Enter ==
    /\ at = "call" /\ at' = "wait"
    /\ UNCHANGED <<way, alarm, note, replies, more>>

\* Defect: the pipe is not given to select again.
Forgotten == FALSE
\* select finds the byte in the pipe.
Woken == my.note = "wakes" /\ note

\* The call returns: a reply is read if there is one, and the pipe after it.
Returns ==
    /\ at = "wait" /\ (replies > 0 \/ Woken)
    /\ replies' = IF replies > 0 THEN replies - 1 ELSE replies
    /\ at' = IF Woken THEN "line" ELSE "back"
    /\ note' = (note /\ ~Woken)
    /\ UNCHANGED <<way, alarm, more>>

\* The reply is printed and the loop goes on; traceroute stops the alarm when the
\* reply is the one to its probe.
Back ==
    /\ at = "back"
    /\ \/ at' = "top" /\ UNCHANGED alarm
       \/ way = "traceroute" /\ at' = "line" /\ alarm' = "off"
    /\ UNCHANGED <<way, note, replies, more>>

----------------------------------------------------------------------------
Expire ==
    /\ alarm = "running" /\ alarm' = "pending"
    /\ UNCHANGED <<way, at, note, replies, more>>

\* recvfrom_alarm, and sig_alrm of traceroute.
recvfrom_alarm ==
    /\ alarm = "pending" /\ at \in my.open
    /\ LET does == IF at = "wait" THEN my.in ELSE my.out
       IN at' = CASE does = "leave" -> "line" [] does = "top" -> "top" [] does = "stay" -> at
    /\ alarm' = "off" /\ note' = (my.note # "none")
    /\ UNCHANGED <<way, replies, more>>

Arrive ==
    /\ more > 0 /\ more' = more - 1 /\ replies' = replies + 1
    /\ UNCHANGED <<way, at, alarm, note>>

Client == Top \/ Enter \/ Returns \/ Back
Next == Start \/ Client \/ Expire \/ recvfrom_alarm \/ Arrive

----------------------------------------------------------------------------
\* The ways in which a SIGALRM delivered just before the blocking call is lost.
Racy == {"dgclibcast1", "dgclibcast3", "traceroute"}

InRound == at # "line" /\ way \notin Racy
============================================================================
