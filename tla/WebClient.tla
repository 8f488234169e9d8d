----------------------------- MODULE WebClient -----------------------------
(***************************************************************************)
(* web01.c and web03.c of unpv13e/threads: a thread fetches each file, at  *)
(* most maxnconn of them at a time. web01 joins whichever thread ends;     *)
(* web03 waits for ndone, protected by ndone_mutex, and joins every thread *)
(* whose file is marked F_DONE.                                            *)
(***************************************************************************)
EXTENDS Integers, FiniteSets, FiniteSetsExt

CONSTANTS
    NFiles,      \* nfiles
    Runs         \* [program, maxnconn] that are run

Files == 1..NFiles

VARIABLES
    run,           \* the program and its first argument
    main,          \* "create", "join" or "wait", "scan", "exit"
    fptr,          \* the file web03's main thread looks at while it scans
    nconn, nlefttoconn, nlefttoread,
    f_flags,       \* "0", "F_CONNECTING", "F_READING", "F_DONE", "F_JOINED"
    ndone,
    thread         \* of each file: "none", "connect", "read", "count", "ended"

vars == <<run, main, fptr, nconn, nlefttoconn, nlefttoread, f_flags, ndone, thread>>

Init ==
    /\ run \in Runs /\ main = "create" /\ fptr = 1
    /\ nconn = 0 /\ nlefttoconn = NFiles /\ nlefttoread = NFiles /\ ndone = 0
    /\ f_flags = [f \in Files |-> "0"] /\ thread = [f \in Files |-> "none"]

\* A thread for the next file as long as there may be one more connection.
Create ==
    /\ main = "create"
    /\ IF nlefttoread = 0
       THEN main' = "exit" /\ UNCHANGED <<nconn, nlefttoconn, f_flags, thread>>
       ELSE IF nconn < run.maxnconn /\ nlefttoconn > 0
       THEN LET f == Min({g \in Files : f_flags[g] = "0"})
            IN /\ f_flags' = [f_flags EXCEPT ![f] = "F_CONNECTING"]
               /\ thread' = [thread EXCEPT ![f] = "connect"]
               /\ nconn' = nconn + 1 /\ nlefttoconn' = nlefttoconn - 1 /\ UNCHANGED main
       ELSE /\ main' = IF run.program = "web01" THEN "join" ELSE "wait"
            /\ UNCHANGED <<nconn, nlefttoconn, f_flags, thread>>
    /\ UNCHANGED <<run, fptr, nlefttoread, ndone>>

Joined(f) ==
    /\ f_flags' = [f_flags EXCEPT ![f] = IF run.program = "web01" THEN @ ELSE "F_JOINED"]
    /\ thread' = [thread EXCEPT ![f] = "none"]
    /\ nconn' = nconn - 1 /\ nlefttoread' = nlefttoread - 1

thr_join ==
    /\ main = "join" /\ main' = "create"
    /\ \E f \in Files : thread[f] = "ended" /\ Joined(f)
    /\ UNCHANGED <<run, fptr, nlefttoconn, ndone>>

\* The main thread has ndone_mutex while it scans, and gives it up in Pthread_cond_wait.
Holds == main = "scan"

Wait ==
    /\ main = "wait" /\ ndone > 0 /\ main' = "scan" /\ fptr' = 1
    /\ UNCHANGED <<run, nconn, nlefttoconn, nlefttoread, f_flags, ndone, thread>>

\* Pthread_join waits for the thread with the mutex held.
Scan ==
    /\ main = "scan"
    /\ IF f_flags[fptr] = "F_DONE"
       THEN thread[fptr] = "ended" /\ Joined(fptr) /\ ndone' = ndone - 1
       ELSE UNCHANGED <<nconn, nlefttoread, f_flags, ndone, thread>>
    /\ IF fptr = NFiles THEN main' = "create" /\ UNCHANGED fptr
       ELSE fptr' = fptr + 1 /\ UNCHANGED main
    /\ UNCHANGED <<run, nlefttoconn>>

----------------------------------------------------------------------------
\* do_get_read: the request is written, the reply read to its end and the file marked;
\* a thread of web03 is then counted.
Step(f, from, to) == thread[f] = from /\ thread' = [thread EXCEPT ![f] = to]

write_get_cmd(f) ==
    /\ Step(f, "connect", "read") /\ f_flags' = [f_flags EXCEPT ![f] = "F_READING"]
    /\ UNCHANGED <<run, main, fptr, nconn, nlefttoconn, nlefttoread, ndone>>

Done(f) ==
    /\ Step(f, "read", IF run.program = "web01" THEN "ended" ELSE "count")
    /\ f_flags' = [f_flags EXCEPT ![f] = "F_DONE"]
    /\ UNCHANGED <<run, main, fptr, nconn, nlefttoconn, nlefttoread, ndone>>

\* Defect: the thread ends without being counted.
Uncounted(f) ==
    /\ Step(f, "count", "ended") /\ ~Holds
    /\ UNCHANGED <<run, main, fptr, nconn, nlefttoconn, nlefttoread, f_flags, ndone>>
Count(f) ==
    /\ Step(f, "count", "ended") /\ ~Holds /\ ndone' = ndone + 1
    /\ UNCHANGED <<run, main, fptr, nconn, nlefttoconn, nlefttoread, f_flags>>

Main == Create \/ thr_join \/ Wait \/ Scan
do_get_read(f) == write_get_cmd(f) \/ Done(f) \/ Count(f)
Next == Main \/ \E f \in Files : do_get_read(f)

Spec == Init /\ [][Next]_vars /\ WF_vars(Main) /\ \A f \in Files : WF_vars(do_get_read(f))

----------------------------------------------------------------------------
Exited == main = "exit"

\* The program fetches every file and exits: the main thread waits for no thread that
\* waits for it.
AllFetched == <>Exited
============================================================================
