----------------------------- MODULE QMigration -----------------------------
(***************************************************************************)
(* MIGRATE: the keys of each call are sent to another server and deleted   *)
(* here when it has answered.                                              *)
(*                                                                         *)
(* The calls for one destination wait in a queue that a timer goes through *)
(* every 20 ms and that the connection's callbacks change.  The answers    *)
(* have no names: they are counted for the call at the head of the queue.  *)
(*                                                                         *)
(* A call is its client and the one key it moves.  The destination is      *)
(* external: it answers every command, and may refuse to restore a key.    *)
(***************************************************************************)
EXTENDS Integers, Sequences, FiniteSets, SequencesExt

CONSTANTS Calls,      \* calls, each with its client and its key
          Options,    \* what may follow the timeout of each call
          MaxConns,   \* bound: connections
          MaxLeaves,  \* bound: clients that leave
          None        \* no connection

Links == 1..MaxConns

VARIABLES
    items,      \* QMigrationManager::items_, for the destination
    asked,      \* the calls made
    late,       \* the calls whose timeout has passed
    clients,    \* the clients whose connection is up
    conn,       \* a connection's life
    invalid,    \* Socket::invalid_
    known,      \* QMigrationManager::conns_, an entry that may have expired
    pending,    \* QMigrationManager::pendingConnect_
    toDest,     \* commands on their way, by the call they are for
    answers,    \* answers on their way, by the call they are for
    readyRsp,   \* QMigrateClient::readyRsp_
    source,     \* the keys here
    dest,       \* the keys the destination has taken
    refused,    \* the keys it has refused
    told,       \* what each client was told
    misled,     \* history: an answer was counted for another call
    crashed     \* an assertion failed, or the end of items_ was used

queueVars == <<items, asked, late, clients>>
connVars == <<conn, invalid, known, pending>>
wireVars == <<toDest, answers, readyRsp>>
keyVars == <<source, dest, refused>>
vars == <<queueVars, connVars, wireVars, keyVars, told, misled, crashed>>

MigrateStates == {"None", "Processing", "Done"}

TypeOK ==
    /\ \A n \in DOMAIN items :
         items[n] \in [call : Calls, keys : SUBSET Calls, copy : BOOLEAN,
                       state : MigrateStates]
    /\ asked \subseteq Calls /\ late \subseteq asked /\ clients \subseteq Calls
    /\ conn \in [Links -> {"free", "connecting", "new", "up", "gone"}]
    /\ invalid \subseteq Links /\ known \in Links \cup {None} /\ pending \in BOOLEAN
    /\ \A n \in DOMAIN toDest :
         toDest[n] \in [op : {"select", "restore"}, call : Calls]
    /\ answers \in Seq(Calls) /\ readyRsp \in Nat
    /\ source \subseteq Calls /\ dest \subseteq Calls /\ refused \subseteq Calls
    /\ told \in [Calls -> Seq({"OK", "NOKEY", "IOERR"})]
    /\ misled \in BOOLEAN /\ crashed \in BOOLEAN

Init ==
    /\ items = <<>> /\ asked = {} /\ late = {} /\ clients = Calls
    /\ conn = [c \in Links |-> "free"] /\ invalid = {} /\ known = None
    /\ pending = FALSE
    /\ toDest = <<>> /\ answers = <<>> /\ readyRsp = 0
    /\ source = Calls /\ dest = {} /\ refused = {}
    /\ told = [m \in Calls |-> <<>>]
    /\ misled = FALSE /\ crashed = FALSE

\* The clients of calls that are up are told what.
Tell(calls, what) ==
    [m \in Calls |-> IF m \in calls \cap clients THEN Append(told[m], what)
                     ELSE told[m]]

-----------------------------------------------------------------------------
(***************************************************************************)
(* Calls.                                                                  *)
(***************************************************************************)

\* strncasecmp is not zero where the words differ: what is not COPY asks for
\* a copy, and COPY asks to replace, which only the destination sees.
migrate(m) ==
    /\ ~crashed /\ m \in clients \ asked
    /\ \E words \in Options[m] :
         items' = Append(items,
                    [call |-> m, keys |-> {m}, state |-> "None",
                     copy |-> \E i \in DOMAIN words : words[i] # "copy"])
    /\ asked' = asked \cup {m}
    /\ UNCHANGED <<late, clients, connVars, wireVars, keyVars, told, misled, crashed>>

\* The calls in the queue whose end is still open.
Open == {items[n].call : n \in {k \in DOMAIN items : items[k].state # "Done"}}

\* The second of a call's timeout comes.
TimePasses ==
    /\ \E m \in Open \ late : late' = late \cup {m}
    /\ UNCHANGED <<items, asked, clients, connVars, wireVars, keyVars, told, misled,
                   crashed>>

ClientLeaves(m) ==
    /\ m \in clients \cap Open
    /\ Cardinality(Calls \ clients) < MaxLeaves
    /\ clients' = clients \ {m}
    /\ UNCHANGED <<items, asked, late, connVars, wireVars, keyVars, told, misled,
                   crashed>>

\* ProcessItem: a call whose key is not here is done.
Processed(item) ==
    IF item.state # "None" THEN item
    ELSE IF item.keys \subseteq source THEN [item EXCEPT !.state = "Processing"]
    ELSE [item EXCEPT !.keys = {}, !.state = "Done"]

\* The items of a queue that are in a set, as they stand.
Where(queue, some) ==
    LET upTo[n \in 0 .. Len(queue)] ==
            IF n = 0 THEN <<>>
            ELSE IF queue[n] \in some THEN Append(upTo[n - 1], queue[n]) ELSE upTo[n - 1]
    IN  upTo[Len(queue)]

\* What each call sends, a pair after the other.
Commands(sent) ==
    [n \in 1 .. 2 * Len(sent) |-> [op   |-> IF n % 2 = 1 THEN "select" ELSE "restore",
                                  call |-> sent[(n + 1) \div 2].call]]

\* ProcessItem of every call of queue not sent yet, over c.
ProcessItems(queue, c, before) ==
    LET todo == {item \in ToSet(queue) : item.state = "None"}
        sent == {item \in todo : item.keys \subseteq source}
        nokey == {item.call : item \in todo \ sent}
    IN  /\ items' = [n \in DOMAIN queue |-> Processed(queue[n])]
        /\ told' = [m \in Calls |-> IF m \in nokey \cap clients THEN Append(before[m], "NOKEY")
                                    ELSE before[m]]
        /\ toDest' = IF c \in invalid THEN toDest
                     ELSE toDest \o Commands(Where(queue, sent))

\* OnConnectMigrateFail: the calls sent are sent again.
Retried(queue) ==
    [n \in DOMAIN queue |-> IF queue[n].state = "Processing"
                            THEN [queue[n] EXCEPT !.state = "None"] ELSE queue[n]]

\* GetConnection, where there is none: a connect may fail at once.
Connect(queue) ==
    \/ \E c \in Links :
         /\ conn[c] = "free" /\ \A d \in 1..(c - 1) : conn[d] # "free"
         /\ conn' = [conn EXCEPT ![c] = "connecting"]
         /\ pending' = TRUE /\ items' = queue
    \/ items' = Retried(queue) /\ UNCHANGED <<conn, pending>>

\* LoopCheck: the calls done, or past their timeout, go; the new ones are sent
\* over the connection there is, or one is asked for.
LoopCheck ==
    LET kept == Where(items, {item \in ToSet(items) : item.state # "Done"
                                                      /\ item.call \notin late})
        failed == Open \cap late
        some == \E n \in DOMAIN kept : kept[n].state = "None"
        alive == known # None /\ conn[known] # "gone"
    IN  /\ ~crashed /\ items # <<>>
        /\ \/ /\ some /\ alive
              /\ ProcessItems(kept, known, Tell(failed, "IOERR"))
              /\ UNCHANGED <<connVars, answers, readyRsp>>
           \/ /\ some /\ ~alive /\ ~pending
              /\ known' = None /\ Connect(kept)
              /\ told' = Tell(failed, "IOERR")
              /\ UNCHANGED <<invalid, wireVars>>
           \/ /\ ~some \/ (~alive /\ pending)
              /\ known' = IF some THEN None ELSE known
              /\ items' = kept /\ told' = Tell(failed, "IOERR")
              /\ UNCHANGED <<conn, invalid, pending, wireVars>>
        /\ UNCHANGED <<asked, late, clients, keyVars, misled, crashed>>

-----------------------------------------------------------------------------
(***************************************************************************)
(* The connection.                                                         *)
(***************************************************************************)

\* OnConnectMigrateFail, called by a network thread.
OnConnectMigrateFail == pending' = FALSE /\ items' = Retried(items)

ConnectFails(c) ==
    /\ ~crashed /\ conn[c] = "connecting"
    /\ conn' = [conn EXCEPT ![c] = "gone"]
    /\ OnConnectMigrateFail
    /\ UNCHANGED <<asked, late, clients, invalid, known, wireVars, keyVars, told,
                   misled, crashed>>

Connected(c) ==
    /\ ~crashed /\ conn[c] = "connecting"
    /\ conn' = [conn EXCEPT ![c] = "new"]
    /\ UNCHANGED <<queueVars, invalid, known, pending, wireVars, keyVars, told,
                   misled, crashed>>

\* The connection ends, before or after the main thread has seen it.
OnError(c) ==
    /\ ~crashed /\ conn[c] \in {"new", "up"} /\ c \notin invalid
    /\ invalid' = invalid \cup {c}
    /\ OnConnectMigrateFail
    /\ IF c = known THEN toDest' = <<>> /\ answers' = <<>>
       ELSE UNCHANGED <<toDest, answers>>
    /\ UNCHANGED <<asked, late, clients, conn, known, readyRsp, keyVars, told, misled,
                   crashed>>

\* The main thread drops a connection that has ended.
Dropped(c) ==
    /\ conn[c] = "up" /\ c \in invalid
    /\ conn' = [conn EXCEPT ![c] = "gone"]
    /\ UNCHANGED <<queueVars, invalid, known, pending, wireVars, keyVars, told,
                   misled, crashed>>

\* Both OnConnects, called by the main thread, which then looks whether the
\* connection has ended already.
OnConnect(c) ==
    LET queue == [n \in DOMAIN items |-> IF items[n].call \in clients THEN items[n]
                                         ELSE [items[n] EXCEPT !.state = "Done"]]
    IN  /\ ~crashed /\ conn[c] = "new"
        /\ IF known # None \/ ~pending \/ items = <<>>
           THEN /\ crashed' = TRUE
                /\ UNCHANGED <<items, told, conn, known, pending, wireVars>>
           ELSE /\ conn' = [conn EXCEPT ![c] = IF c \in invalid THEN "gone" ELSE "up"]
                /\ known' = c /\ pending' = FALSE /\ readyRsp' = 0
                /\ ProcessItems(queue, c, told)
                /\ UNCHANGED <<answers, crashed>>
        /\ UNCHANGED <<asked, late, clients, invalid, keyVars, misled>>

\* The destination takes the next command, and may refuse a key.
DestAnswers ==
    /\ toDest # <<>>
    /\ answers' = Append(answers, Head(toDest).call)
    /\ toDest' = Tail(toDest)
    /\ IF Head(toDest).op = "restore"
       THEN \/ dest' = dest \cup {Head(toDest).call} /\ UNCHANGED refused
            \/ refused' = refused \cup {Head(toDest).call} /\ UNCHANGED dest
       ELSE UNCHANGED <<dest, refused>>
    /\ UNCHANGED <<queueVars, connVars, readyRsp, source, told, misled, crashed>>

\* Mutant of Completes: SELECT's answer is not waited for.
CompletesEarly(item, n) == Cardinality(item.keys) = n

\* The answers a call waits for: its keys' and SELECT's.
Completes(item, n) == Cardinality(item.keys) + 1 = n

\* QMigrateClient::_HandlePacket.  Whatever the answer says, it is counted for
\* the call at the head.
HandlePacket ==
    /\ ~crashed /\ answers # <<>>
    /\ known # None /\ conn[known] = "up" /\ known \notin invalid
    /\ answers' = Tail(answers)
    /\ \/ /\ items = <<>> /\ crashed' = TRUE
          /\ UNCHANGED <<items, readyRsp, source, told, misled>>
       \/ /\ items # <<>>
          /\ misled' = (misled \/ Head(answers) # items[1].call
                               \/ items[1].state # "Processing")
          /\ \/ /\ Completes(items[1], readyRsp + 1)
                /\ readyRsp' = 0
                /\ told' = Tell({items[1].call}, "OK")
                /\ source' = IF items[1].copy THEN source ELSE source \ items[1].keys
                /\ items' = [items EXCEPT ![1].state = "Done"]
             \/ /\ ~Completes(items[1], readyRsp + 1)
                /\ readyRsp' = readyRsp + 1
                /\ UNCHANGED <<items, source, told>>
          /\ UNCHANGED crashed
    /\ UNCHANGED <<asked, late, clients, connVars, toDest, dest, refused>>

Next ==
    \/ \E m \in Calls : migrate(m) \/ ClientLeaves(m)
    \/ TimePasses \/ LoopCheck \/ DestAnswers \/ HandlePacket
    \/ \E c \in Links : ConnectFails(c) \/ Connected(c) \/ OnError(c) \/ Dropped(c)
                        \/ OnConnect(c)

\* The timer runs and time passes; neither the network nor the destination
\* need do anything.
Timer == LoopCheck \/ TimePasses

Spec == Init /\ [][Next]_vars /\ WF_vars(Timer)

-----------------------------------------------------------------------------
(***************************************************************************)
(* Properties.                                                             *)
(***************************************************************************)

\* A key is deleted here (QMigration.cc:262) only when the destination has answered
\* for it, however often the connection was lost and the call sent again, unless
\* answers were counted for other calls.  So a key is here or there, except one that
\* the destination refused: what the answer says is not looked at, and that key is
\* lost.
KeysAreSentFirst == ~misled => Calls \ (source \cup dest) \subseteq refused

\* A client is told how its call ended, once, unless answers were counted for
\* other calls.
ToldOnce == ~misled => \A m \in Calls : Len(told[m]) <= 1

\* Every client that stays was told, unless the program ended.
AllTold == crashed \/ \A m \in asked \cap clients : told[m] # <<>>
=============================================================================
