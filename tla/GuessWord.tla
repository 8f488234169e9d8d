----------------------------- MODULE GuessWord -----------------------------
(***************************************************************************)
(* The word-guessing game: hw2_server.c, one process that multiplexes its  *)
(* players with select, and hw2_client.c at the other ends. A descriptor   *)
(* of the server is a number; the listening socket is the lowest one.      *)
(***************************************************************************)
EXTENDS Integers, Sequences, FiniteSets, FiniteSetsExt

CONSTANTS
    NClients,    \* processes running hw2_client.c
    NSlots,      \* player slots: 5
    Dictionary,  \* lines of the dictionary file, each a sequence of characters
    Lines,       \* lines a user types, each ending with a newline
    Zero,        \* characters below '0' end a dictionary word
    ToLower,     \* tolower
    NoClient,    \* nobody
    Null,        \* a username that was never set
    MaxLines,    \* bound: lines the users type
    MaxQuits     \* bound: users who leave before that

ASSUME GuessAssumption ==
    /\ {NSlots, NClients} \subseteq Nat \ {0} /\ {MaxLines, MaxQuits} \subseteq Nat
    /\ NoClient \notin Nat /\ Null \notin Seq(Int)
    /\ Dictionary # {} /\ Dictionary \subseteq Seq(Int)
    /\ \A l \in Lines : l \in Seq(Int) /\ l # <<>>

Client == 1..NClients
Slot == 1..NSlots
Listen == 0
Fd == 1..(NSlots + 1)

VARIABLES
    pc, at,           \* where the server is, and the slot its for loop is at
    fds,              \* the fd_set handed to select and left by it
    player_fds, slot_available, has_username, usernames, player_count, secret,
    connfd,           \* the connection whose username is awaited
    conn,             \* kernel: the client behind a descriptor
    backlog,          \* kernel: connections not yet accepted
    sent,             \* kernel: lines a client sent and the server has not read
    unread,           \* kernel: messages a client has not read
    cstate,           \* "idle", "playing", "quit", or "dropped" by the server
    reset,            \* clients that quit and have been sent to since
    typed,            \* lines the users have typed
    told              \* history: the length of the word a client was told when it joined

table == <<player_fds, slot_available, has_username, usernames, player_count>>
server == <<pc, at, fds, table, secret, connfd>>
kernel == <<conn, backlog, sent, unread, cstate, reset, typed>>
vars == <<server, kernel, told>>

----------------------------------------------------------------------------
\* Same(x, y): the characters are equal for tolower.
Same(x, y) == ToLower[x] = ToLower[y]

\* word_match: letters in place, and letters that can be matched one by one with
\* a letter of the secret that is not yet used; -1 for another length.
word_match(word, guess) ==
    LET n == Len(word)
        used[i \in 0..n] ==
            IF i = 0 THEN {}
            ELSE LET free == {j \in 1..n : Same(guess[i], word[j])
                                           /\ j \notin used[i - 1]}
                 IN  used[i - 1] \cup (IF free = {} THEN {} ELSE {Min(free)})
    IN  IF Len(guess) # n THEN [correct |-> -1, place |-> -1]
        ELSE [correct |-> Cardinality(used[n]),
              place |-> Cardinality({i \in 1..n : Same(word[i], guess[i])})]

\* get_secret: a random line of the dictionary up to its first character below
\* '0', the newline in any case.
get_secret(line) ==
    LET ends == {i \in 1..Len(line) : line[i] < Zero}
    IN  IF ends = {} THEN line ELSE SubSeq(line, 1, Min(ends) - 1)

\* dic_init: the words the server may choose.
dic == {get_secret(line) : line \in Dictionary}

\* buffer[strlen(buffer) - 1] = '\0' on what read left in the buffer.
Chop(line) == IF line = <<>> THEN <<>> ELSE SubSeq(line, 1, Len(line) - 1)

----------------------------------------------------------------------------
Open(f) == IF f = Listen THEN TRUE ELSE conn[f] # NoClient
Readable(f) == IF f = Listen THEN backlog # <<>>
               ELSE sent[conn[f]] # <<>> \/ cstate[conn[f]] = "quit"

\* The server sends n messages to each of cs. A client that quit answers the
\* first with a reset, and a send after the reset has arrived kills the server.
Send(cs, n) ==
    /\ unread' = [c \in Client |-> IF c \in cs /\ cstate[c] = "playing"
                                   THEN unread[c] + n ELSE unread[c]]
    /\ reset' = reset \cup {c \in cs : cstate[c] = "quit"}
Killing(cs, n) == \E c \in cs : cstate[c] = "quit" /\ (c \in reset \/ n > 1)

\* The server closes the descriptors of fs.
Close(fs) ==
    /\ conn' = [f \in Fd |-> IF f \in fs THEN NoClient ELSE conn[f]]
    /\ cstate' = [c \in Client |-> IF \E f \in fs : conn[f] = c /\ cstate[c] = "playing"
                                   THEN "dropped" ELSE cstate[c]]

\* The fd_set is never cleared: to what the last turn left in it the listening
\* socket and the players are added. A closed descriptor among those below maxfd
\* makes select fail and leave the set as it is, which reads as "all ready".
Select ==
    /\ pc = "select"
    /\ LET players == {player_fds[a] : a \in Slot} \ {-1}
           want == fds \cup players \cup {Listen}
           seen == {f \in want : f <= Max(players \cup {Listen})}
       IN  \/ /\ \E f \in seen : ~Open(f)
              /\ fds' = want /\ pc' = "accept"
           \/ /\ \A f \in seen : Open(f)
              /\ fds' = {f \in seen : Readable(f)} /\ fds' # {}
              /\ pc' = IF Listen \in fds' THEN "accept" ELSE "slots"
    /\ at' = 1
    /\ UNCHANGED <<table, secret, connfd, kernel, told>>

\* Defect: the new client is not asked for a username.
Unprompted(c) == UNCHANGED <<unread, reset>>

\* The new client is asked for a username.
Prompt(c) == Send({c}, 1)

\* accept, which waits for a client: one too many is closed, another is welcomed
\* and counted as a player before it has a slot.
Accept ==
    /\ pc = "accept" /\ backlog # <<>>
    /\ backlog' = Tail(backlog)
    /\ LET c == Head(backlog)
           f == Min({g \in Fd : ~Open(g)})
       IN  \/ /\ player_count >= NSlots
              /\ pc' = "select"
              /\ cstate' = [cstate EXCEPT ![c] = IF @ = "playing" THEN "dropped" ELSE @]
              /\ UNCHANGED <<player_count, connfd, conn, unread, reset>>
           \/ /\ player_count < NSlots
              /\ player_count' = player_count + 1
              /\ connfd' = f
              /\ conn' = [conn EXCEPT ![f] = c]
              /\ Prompt(c)
              /\ pc' = "name"
              /\ UNCHANGED cstate
    /\ UNCHANGED <<at, fds, player_fds, slot_available, has_username, usernames,
                   secret, sent, typed, told>>

\* What a read of a descriptor may return: the end of the stream, or the first of
\* the lines that have come in, with any number of those behind it lost.
Lost(f, line) ==
    LET c == conn[f]
        taken == [k \in 1..Len(sent[c]) |-> SubSeq(sent[c], k + 1, Len(sent[c]))]
    IN  /\ Readable(f)
        /\ \/ sent[c] = <<>> /\ line = <<>> /\ UNCHANGED sent
           \/ /\ sent[c] # <<>> /\ line = Head(sent[c])
              /\ \E k \in DOMAIN taken : sent' = [sent EXCEPT ![c] = taken[k]]

Occupied == {a \in Slot : ~slot_available[a]}
Named == {a \in Slot : has_username[a]}

\* Defect: names are compared with the first slot only.
FirstOnly(name) == 1 \in Occupied /\ usernames[1] = name

\* The username is compared with those of all occupied slots, also of a slot
\* whose player has none yet and which still holds its predecessor's.
NameUsed(name) == \E a \in Occupied : usernames[a] = name

\* strcmp on a slot whose username was never set, before a match ends the search.
NullCompared(name) ==
    \E a \in Occupied : /\ usernames[a] = Null
                        /\ \A b \in Occupied : b < a => usernames[b] # name

\* The username of the new client has come, and it gets the first free slot:
\* with the name, or without one while it looks for another.
Welcome ==
    /\ pc = "name"
    /\ \E line \in Lines \cup {<<>>} :
        LET name == Chop(line)
            a == Min(Slot \ Occupied)
            c == conn[connfd]
            joins == ~NameUsed(name)
            n == IF joins THEN 2 ELSE 1
        IN  /\ Lost(connfd, line)
            /\ \/ /\ NullCompared(name)
                  /\ pc' = "crashed"
                  /\ UNCHANGED <<fds, player_fds, slot_available, has_username,
                                 usernames, unread, reset, told>>
               \/ /\ ~NullCompared(name)
                  /\ slot_available' = [slot_available EXCEPT ![a] = FALSE]
                  /\ player_fds' = [player_fds EXCEPT ![a] = connfd]
                  /\ has_username' = [has_username EXCEPT ![a] = joins]
                  /\ usernames' = IF joins THEN [usernames EXCEPT ![a] = name] ELSE usernames
                  /\ told' = IF joins THEN [told EXCEPT ![c] = Len(secret)] ELSE told
                  /\ fds' = fds \ {connfd}
                  /\ Send({c}, n)
                  /\ \/ pc' = "slots"
                     \/ Killing({c}, n) /\ pc' = "killed"
    /\ UNCHANGED <<at, player_count, secret, connfd, conn, backlog, cstate, typed>>

\* The slots that the for loop still has to look at and finds set in fds.
Due == {a \in Occupied : a >= at /\ player_fds[a] \in fds}

EndOfSlots ==
    /\ pc = "slots" /\ Due = {}
    /\ pc' = "select"
    /\ UNCHANGED <<at, fds, table, secret, connfd, kernel, told>>

\* read returned 0 or an error: the player's data is erased, all but its name.
Disconnect(a) ==
    /\ Close({player_fds[a]})
    /\ player_fds' = [player_fds EXCEPT ![a] = -1]
    /\ slot_available' = [slot_available EXCEPT ![a] = TRUE]
    /\ has_username' = [has_username EXCEPT ![a] = FALSE]
    /\ player_count' = player_count - 1
    /\ UNCHANGED <<pc, usernames, secret, sent, unread, reset, told>>

\* A guess of another length: only the player is told.
BadLength(a, guess) ==
    LET c == conn[player_fds[a]]
    IN  /\ word_match(secret, guess).correct = -1
        /\ Send({c}, 1)
        /\ \/ UNCHANGED pc
           \/ Killing({c}, 1) /\ pc' = "killed"
        /\ UNCHANGED <<table, secret, conn, cstate, told>>

\* A guess is broadcast to all that have a username.
Audience == {conn[player_fds[b]] : b \in Named}

Broadcast ==
    /\ Send(Audience, 1)
    /\ \/ UNCHANGED pc
       \/ Killing(Audience, 1) /\ pc' = "killed"

\* A guess of the right length that is not the word.
NiceTry(a, guess) ==
    /\ word_match(secret, guess).place \in 0..(Len(secret) - 1)
    /\ Broadcast
    /\ UNCHANGED <<table, secret, conn, cstate, told>>

\* Defect: only the player who guessed the word is disconnected.
WinnerOnly(a, guess) ==
    /\ word_match(secret, guess).place = Len(secret)
    /\ Broadcast
    /\ secret' \in dic
    /\ Close({player_fds[a]})
    /\ player_fds' = [player_fds EXCEPT ![a] = -1]
    /\ slot_available' = [slot_available EXCEPT ![a] = TRUE]
    /\ has_username' = [has_username EXCEPT ![a] = FALSE]
    /\ player_count' = player_count - 1
    /\ UNCHANGED <<usernames, told>>

\* Defect: the count of players is not reduced.
KeepsCount(a, guess) ==
    /\ word_match(secret, guess).place = Len(secret)
    /\ Broadcast
    /\ secret' \in dic
    /\ Close({player_fds[b] : b \in Named})
    /\ player_fds' = [b \in Slot |-> IF b \in Named THEN -1 ELSE player_fds[b]]
    /\ slot_available' = [b \in Slot |-> slot_available[b] \/ b \in Named]
    /\ has_username' = [b \in Slot |-> FALSE]
    /\ UNCHANGED <<player_count, usernames, told>>

\* The word: every player with a username is told and disconnected; those still
\* looking for one stay.
GameOver(a, guess) ==
    /\ word_match(secret, guess).place = Len(secret)
    /\ Broadcast
    /\ secret' \in dic
    /\ Close({player_fds[b] : b \in Named})
    /\ player_fds' = [b \in Slot |-> IF b \in Named THEN -1 ELSE player_fds[b]]
    /\ slot_available' = [b \in Slot |-> slot_available[b] \/ b \in Named]
    /\ has_username' = [b \in Slot |-> FALSE]
    /\ player_count' = player_count - Cardinality(Named)
    /\ UNCHANGED <<usernames, told>>

\* A player without a username tries another. The loop over the slots counts a up
\* and not b: it compares with the first slot for ever unless that has the name.
Rename(a, name) ==
    LET c == conn[player_fds[a]]
    IN  /\ \/ /\ 1 \notin Occupied
              /\ pc' = "hung" /\ UNCHANGED <<unread, reset>>
           \/ /\ 1 \in Occupied /\ usernames[1] = Null
              /\ pc' = "crashed" /\ UNCHANGED <<unread, reset>>
           \/ /\ 1 \in Occupied /\ usernames[1] \notin {Null, name}
              /\ pc' = "hung" /\ UNCHANGED <<unread, reset>>
           \/ /\ 1 \in Occupied /\ usernames[1] = name
              /\ Send({c}, 1)
              /\ \/ UNCHANGED pc
                 \/ Killing({c}, 1) /\ pc' = "killed"
        /\ UNCHANGED <<table, secret, conn, cstate, told>>

\* The next slot whose descriptor is set in fds: read, which waits if the bit is
\* a stale one, and what the player's state and line call for.
Serve ==
    /\ pc = "slots" /\ Due # {}
    /\ LET a == Min(Due)
       IN  \E line \in Lines \cup {<<>>} :
               /\ \/ /\ line = <<>> /\ Readable(player_fds[a])
                     /\ sent[conn[player_fds[a]]] = <<>>
                     /\ Disconnect(a)
                  \/ /\ line # <<>> /\ Lost(player_fds[a], line)
                     /\ \/ has_username[a] /\ BadLength(a, Chop(line))
                        \/ has_username[a] /\ NiceTry(a, Chop(line))
                        \/ has_username[a] /\ GameOver(a, Chop(line))
                        \/ ~has_username[a] /\ Rename(a, Chop(line))
               /\ fds' = fds \ {player_fds[a]}
               /\ at' = a + 1
    /\ UNCHANGED <<connfd, backlog, typed>>

----------------------------------------------------------------------------
\* hw2_client.c: connect, then one line of input for every read that returned a
\* message, however many messages the server had sent by then. After the server
\* has closed, read returns 0 and the loop spins. (Clients are numbered as they
\* connect.)
Connect(c) ==
    /\ cstate[c] = "idle" /\ \A b \in Client : b < c => cstate[b] # "idle"
    /\ cstate' = [cstate EXCEPT ![c] = "playing"]
    /\ backlog' = Append(backlog, c)
    /\ UNCHANGED <<server, conn, sent, unread, reset, typed, told>>

Type(c, line) ==
    /\ cstate[c] = "playing" /\ unread[c] > 0 /\ typed < MaxLines
    /\ \E k \in 1..unread[c] : unread' = [unread EXCEPT ![c] = @ - k]
    /\ sent' = [sent EXCEPT ![c] = Append(@, line)]
    /\ typed' = typed + 1
    /\ UNCHANGED <<server, conn, backlog, cstate, reset, told>>

\* The user ends the client.
Quit(c) ==
    /\ cstate[c] = "playing"
    /\ \/ Cardinality({b \in Client : cstate[b] = "quit"}) < MaxQuits
       \/ typed = MaxLines
    /\ cstate' = [cstate EXCEPT ![c] = "quit"]
    /\ UNCHANGED <<server, conn, backlog, sent, unread, reset, typed, told>>

User(c) == (\E line \in Lines : Type(c, line)) \/ Quit(c)

Main == Select \/ Accept \/ Welcome \/ EndOfSlots \/ Serve

Init ==
    /\ pc = "select" /\ at = 1 /\ connfd = Listen
    /\ fds \in SUBSET Fd        \* declared and never cleared
    /\ player_fds = [a \in Slot |-> -1]
    /\ slot_available = [a \in Slot |-> TRUE]
    /\ has_username = [a \in Slot |-> FALSE]
    /\ usernames = [a \in Slot |-> Null]
    /\ player_count = 0 /\ secret \in dic
    /\ conn = [f \in Fd |-> NoClient] /\ backlog = <<>>
    /\ sent = [c \in Client |-> <<>>] /\ unread = [c \in Client |-> 0]
    /\ cstate = [c \in Client |-> "idle"] /\ reset = {}
    /\ typed = 0
    /\ told = [c \in Client |-> 0]

Next ==
    \/ Main
    \/ \E c \in Client : Connect(c) \/ User(c)

Spec == Init /\ [][Next]_vars

----------------------------------------------------------------------------
\* The four arrays and player_count of hw2_server.c agree: a slot is taken
\* exactly when it has a descriptor, no two slots share one, each is connected, a
\* username needs a slot, and player_count is the number of slots taken, plus the
\* client whose username is awaited. So a slot is free whenever a client is let in.
SlotTable ==
    pc \notin {"crashed", "killed"} =>
        /\ \A a \in Slot : slot_available[a] <=> player_fds[a] = -1
        /\ \A a, b \in Occupied : player_fds[a] = player_fds[b] => a = b
        /\ \A a \in Occupied : Open(player_fds[a])
        /\ Named \subseteq Occupied
        /\ player_count = Cardinality(Occupied) + IF pc = "name" THEN 1 ELSE 0

\* No two players play under one username ("check if username is used"), although
\* names are kept after a disconnect and slots are taken without one.
UniqueNames ==
    \A a, b \in Named : usernames[a] = usernames[b] => a = b

\* What a player was told on joining ("The secret word is %lu letter(s).") is true of
\* the word it is guessing: whenever the word changes, nobody goes on playing.
KnowsLength ==
    \A a \in Named : told[conn[player_fds[a]]] = Len(secret)

\* A client waits in read: it has answered every message and its line has been taken.
\* hw2_client.c then reads no input until the server sends something.
Waiting(c) == cstate[c] = "playing" /\ unread[c] = 0 /\ sent[c] = <<>>

\* The blocking reads of hw2_server.c (270, 363) wait for a line of one client. That
\* client is never itself waiting for the server: whoever is connected has a message to
\* answer, or its line is there to be read. (Nothing makes a user answer.)
NoMutualWait ==
    pc \notin {"hung", "crashed", "killed"} =>
        \A f \in Fd : Open(f) => ~Waiting(conn[f])

\* "if the name is not used, join the game": a player looking for another username
\* gets an answer.
RetryAnswered == pc # "hung"

\* The types of the variables that the properties above speak of.
TableTypes ==
    /\ pc \in {"select", "accept", "name", "slots", "hung", "crashed", "killed"}
    /\ player_fds \in [Slot -> Fd \cup {-1}]
    /\ slot_available \in [Slot -> BOOLEAN] /\ has_username \in [Slot -> BOOLEAN]
    /\ usernames \in [Slot -> Seq(Int) \cup {Null}]
    /\ player_count \in Int
    /\ connfd \in Fd \cup {Listen}
    /\ conn \in [Fd -> Client \cup {NoClient}]
    /\ backlog \in Seq(Client)
    /\ secret \in Seq(Int) /\ told \in [Client -> Nat]

\* Every open descriptor is that of a slot or the one whose username is awaited, which
\* no slot has, and there are never more of them than slots: accept finds a free
\* descriptor, and a client that was let in a free slot.
NoneLeaked ==
    pc \notin {"crashed", "killed"} =>
        /\ player_count <= NSlots
        /\ pc = "name" => /\ connfd # Listen /\ Open(connfd)
                          /\ \A a \in Slot : player_fds[a] # connfd
        /\ \A f \in Fd : Open(f) =>
               \/ \E a \in Occupied : player_fds[a] = f
               \/ pc = "name" /\ f = connfd

\* The inductive invariant that the proofs of the properties above rest on.
GuessInv == TableTypes /\ SlotTable /\ NoneLeaked /\ UniqueNames /\ KnowsLength

\* The types of what the kernel keeps for the clients, and that a client has connected
\* before it is in the backlog or behind a descriptor.
ClientTypes ==
    /\ sent \in [Client -> Seq(Lines)] /\ unread \in [Client -> Nat]
    /\ cstate \in [Client -> {"idle", "playing", "quit", "dropped"}]
    /\ \A k \in 1..Len(backlog) : cstate[backlog[k]] # "idle"
    /\ \A f \in Fd : conn[f] # NoClient => cstate[conn[f]] # "idle"

\* What NoMutualWait needs beside GuessInv.
WaitInv == ClientTypes /\ NoMutualWait
============================================================================
