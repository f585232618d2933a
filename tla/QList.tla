------------------------------- MODULE QList -------------------------------
(***************************************************************************)
(* Lists and the clients that block on them, in one database: pushes, pops, *)
(* BLPOP, BRPOP, BRPOPLPUSH, RPOPLPUSH, and QStore::BlockedClients.         *)
(*                                                                         *)
(* A push to an empty list serves the clients blocked on its key one after  *)
(* the other (ServeClient).  That loop, part of the push in the code, is    *)
(* unfolded: serving is the key it serves and no other handler runs until   *)
(* it ends.                                                                 *)
(*                                                                         *)
(* An element is its number in the order of the pushes.  replay is the data *)
(* that the commands propagated so far give when they are run again, by the *)
(* AOF loader or by a replica.                                              *)
(*                                                                         *)
(* A client that is blocked sends nothing until it is answered.             *)
(***************************************************************************)
EXTENDS Integers, SequencesExt

CONSTANTS Clients,      \* connections
          Keys,
          Commands,     \* the commands clients send
          MaxPush,      \* bound: elements pushed
          MaxQueue,     \* bound: clients in the queue of a key
          None          \* no key

Ends == {"left", "right"}

CommandSet ==
    [op : {"push"}, key : Keys, end : Ends, n : 1..MaxPush, create : BOOLEAN]
      \cup [op : {"pop"}, key : Keys, end : Ends]
      \cup [op : {"bpop"}, keys : Seq(Keys), end : Ends, timed : BOOLEAN, to : {None}]
      \cup [op : {"brpoplpush"}, keys : Seq(Keys), end : {"right"}, timed : BOOLEAN,
            to : Keys]
      \cup [op : {"rpoplpush"}, key : Keys, to : Keys]
      \cup [op : {"set", "del"}, key : Keys]
      \cup [op : {"flushall"}]

ASSUME CommandsAssumption == Commands \subseteq CommandSet
ASSUME BoundsAssumption == MaxPush \in Nat /\ MaxQueue \in Nat
ASSUME NoneAssumption == None \notin Keys

VARIABLES
    conn,       \* the clients connected
    waiting,    \* QClient::waitingKeys_
    target,     \* QClient::target_
    store,      \* the database
    blocked,    \* BlockedClients::blockedClients_
    serving,    \* the key whose ServeClient loop runs
    crashed,    \* an assertion failed
    replay,     \* the database as replayed from what was propagated
    pushed,     \* history: elements pushed
    taken,      \* history: elements popped or deleted
    forgotten,  \* history: the clients whose wait ResetDb dropped
    outdated,   \* history: an entry was served whose wait had ended
    parted      \* history: LPUSHX found a list which the replay had deleted

clientVars == <<conn, waiting, target>>
vars == <<clientVars, store, blocked, serving, crashed, replay, pushed, taken,
          forgotten, outdated, parted>>

Elements == 1..MaxPush
Value == {v \in [kind : {"none", "list", "string"}, elems : Seq(Elements)] :
            v.kind # "list" => v.elems = <<>>}
Entry == [cli : Clients, timed : BOOLEAN, end : Ends]

List(q) == [kind |-> "list", elems |-> q]
Absent == [kind |-> "none", elems |-> <<>>]
String == [kind |-> "string", elems |-> <<>>]

TypeOK ==
    /\ conn \subseteq Clients
    /\ waiting \in [Clients -> SUBSET Keys]
    /\ target \in [Clients -> Keys \cup {None}]
    /\ store \in [Keys -> Value]
    /\ blocked \in [Keys -> Seq(Entry)]
    /\ serving \in Keys \cup {None}
    /\ crashed \in BOOLEAN
    /\ replay \in [Keys -> Value]
    /\ pushed \in 0..MaxPush
    /\ taken \subseteq Elements
    /\ forgotten \subseteq Clients
    /\ outdated \in BOOLEAN
    /\ parted \in BOOLEAN

Init ==
    /\ conn = Clients
    /\ waiting = [c \in Clients |-> {}]
    /\ target = [c \in Clients |-> None]
    /\ store = [k \in Keys |-> Absent]
    /\ blocked = [k \in Keys |-> <<>>]
    /\ serving = None
    /\ crashed = FALSE
    /\ replay = [k \in Keys |-> Absent]
    /\ pushed = 0
    /\ taken = {}
    /\ forgotten = {}
    /\ outdated = FALSE
    /\ parted = FALSE

-----------------------------------------------------------------------------
(***************************************************************************)
(* What the list commands do to a database m: the master's or a replayed    *)
(* one.                                                                     *)
(***************************************************************************)

Joined(q, es, end) == IF end = "left" THEN Reverse(es) \o q ELSE q \o es
ElementAt(q, end) == IF end = "left" THEN Head(q) ELSE Last(q)
Without(q, end) == IF end = "left" THEN Tail(q) ELSE Front(q)

\* push, which creates a missing list unless it is the push of LPUSHX, RPUSHX.
Refused(m, k, create) ==
    \/ m[k].kind = "string"
    \/ m[k].kind = "none" /\ ~create

Pushed(m, k, es, end, create) ==
    IF Refused(m, k, create) THEN m
    ELSE [m EXCEPT ![k] = List(Joined(@.elems, es, end))]

\* GenericPop deletes a list that it leaves empty; on no list it does nothing.
Popped(m, k, end) ==
    IF m[k].elems = <<>> THEN m
    ELSE LET q == Without(m[k].elems, end)
         IN  [m EXCEPT ![k] = IF q = <<>> THEN Absent ELSE List(q)]

\* Mutant: the element is also left where it was.
MovedLeavesElement(m, k, to) ==
    IF m[k].elems = <<>> \/ m[to].kind = "string" THEN m
    ELSE [m EXCEPT ![to] = List(<<Last(m[k].elems)>> \o @.elems)]

\* RPOPLPUSH: the source stays a list when it loses its last element.
Moved(m, k, to) ==
    IF m[k].elems = <<>> \/ m[to].kind = "string" THEN m
    ELSE LET e == Last(m[k].elems)
             popped == [m EXCEPT ![k] = List(Front(@.elems))]
         IN  [popped EXCEPT ![to] = List(<<e>> \o @.elems)]

-----------------------------------------------------------------------------
(***************************************************************************)
(* Commands that do not block.                                             *)
(***************************************************************************)

Idle == serving = None /\ ~crashed

Free(c) == Idle /\ c \in conn /\ waiting[c] = {}

Numbered(n) == [i \in 1..n |-> pushed + i]

\* LPUSH, RPUSH, LPUSHX, RPUSHX of n elements.  A push to an empty list starts
\* the ServeClient loop.
Push(c, cmd) ==
    /\ cmd.op = "push" /\ Free(c)
    /\ pushed + cmd.n <= MaxPush
    /\ ~Refused(store, cmd.key, cmd.create)
    /\ LET es == Numbered(cmd.n)
       IN  /\ store' = Pushed(store, cmd.key, es, cmd.end, cmd.create)
           /\ replay' = Pushed(replay, cmd.key, es, cmd.end, cmd.create)
    /\ pushed' = pushed + cmd.n
    /\ serving' = IF store[cmd.key].elems = <<>> THEN cmd.key ELSE None
    /\ parted' = (parted \/ Refused(replay, cmd.key, cmd.create))
    /\ UNCHANGED <<clientVars, blocked, crashed, taken, forgotten, outdated>>

\* assert (!list->empty()) of GenericPop and of RPOPLPUSH.
EmptyList(k) == store[k] = List(<<>>)

AssertFails ==
    /\ crashed' = TRUE
    /\ UNCHANGED <<clientVars, store, blocked, serving, replay, pushed, taken,
                   forgotten, outdated, parted>>

Pop(c, cmd) ==
    /\ cmd.op = "pop" /\ Free(c)
    /\ store[cmd.key].kind = "list"
    /\ IF EmptyList(cmd.key) THEN AssertFails
       ELSE /\ store' = Popped(store, cmd.key, cmd.end)
            /\ replay' = Popped(replay, cmd.key, cmd.end)
            /\ taken' = taken \cup {ElementAt(store[cmd.key].elems, cmd.end)}
            /\ UNCHANGED <<clientVars, blocked, serving, crashed, pushed, forgotten,
                           outdated, parted>>

\* RPOPLPUSH serves nobody who waits for its target.
RPopLPush(c, cmd) ==
    /\ cmd.op = "rpoplpush" /\ Free(c)
    /\ store[cmd.key].kind = "list"
    /\ IF EmptyList(cmd.key) THEN AssertFails
       ELSE /\ store' = Moved(store, cmd.key, cmd.to)
            /\ replay' = Moved(replay, cmd.key, cmd.to)
            /\ UNCHANGED <<clientVars, blocked, serving, crashed, pushed, taken,
                           forgotten, outdated, parted>>

\* Mutant: SET changes the type and not the value.
OverwriteKeepsElements(c, cmd) ==
    LET kind == IF cmd.op = "set" THEN "string" ELSE "none"
    IN  /\ cmd.op \in {"set", "del"} /\ Free(c)
        /\ store' = [store EXCEPT ![cmd.key].kind = kind]
        /\ replay' = [replay EXCEPT ![cmd.key].kind = kind]
        /\ UNCHANGED <<clientVars, blocked, serving, crashed, pushed, taken,
                       forgotten, outdated, parted>>

\* SET, which replaces a list, and DEL.
Overwrite(c, cmd) ==
    LET v == IF cmd.op = "set" THEN String ELSE Absent
    IN  /\ cmd.op \in {"set", "del"} /\ Free(c)
        /\ store' = [store EXCEPT ![cmd.key] = v]
        /\ replay' = [replay EXCEPT ![cmd.key] = v]
        /\ taken' = taken \cup ToSet(store[cmd.key].elems)
        /\ UNCHANGED <<clientVars, blocked, serving, crashed, pushed, forgotten,
                       outdated, parted>>

\* ResetDb drops the blocked clients, who are not told.
FlushAll(c, cmd) ==
    /\ cmd.op = "flushall" /\ Free(c)
    /\ store' = [k \in Keys |-> Absent]
    /\ replay' = [k \in Keys |-> Absent]
    /\ blocked' = [k \in Keys |-> <<>>]
    /\ taken' = taken \cup UNION {ToSet(store[k].elems) : k \in Keys}
    /\ forgotten' = forgotten \cup {w \in conn : waiting[w] # {}}
    /\ UNCHANGED <<clientVars, serving, crashed, pushed, outdated, parted>>

-----------------------------------------------------------------------------
(***************************************************************************)
(* Commands that block, and their ends.                                    *)
(***************************************************************************)

Present(cmd) == {i \in DOMAIN cmd.keys : store[cmd.keys[i]].kind # "none"}

\* Mutant: propagated as LPOP whatever the end.
PopNowLeft(c, cmd, k) ==
    IF EmptyList(k) THEN AssertFails
    ELSE /\ store[k].kind = "list"
         /\ store' = Popped(store, k, cmd.end)
         /\ replay' = Popped(replay, k, "left")
         /\ taken' = taken \cup {ElementAt(store[k].elems, cmd.end)}
         /\ UNCHANGED <<clientVars, blocked, serving, crashed, pushed, forgotten,
                        outdated, parted>>

\* The first list named is popped at once; a target gets nothing then.
PopNow(c, cmd, k) ==
    IF EmptyList(k) THEN AssertFails
    ELSE /\ store[k].kind = "list"
         /\ store' = Popped(store, k, cmd.end)
         /\ replay' = Popped(replay, k, cmd.end)
         /\ taken' = taken \cup {ElementAt(store[k].elems, cmd.end)}
         /\ UNCHANGED <<clientVars, blocked, serving, crashed, pushed, forgotten,
                        outdated, parted>>

\* Mutant: only the first key gets an entry.
BlockClientFirstKey(c, cmd) ==
    LET e == [cli |-> c, timed |-> cmd.timed, end |-> cmd.end]
    IN  /\ waiting' = [waiting EXCEPT ![c] = ToSet(cmd.keys)]
        /\ target' = [target EXCEPT ![c] = cmd.to]
        /\ blocked' = [blocked EXCEPT ![cmd.keys[1]] = Append(@, e)]
        /\ UNCHANGED <<conn, store, serving, crashed, replay, pushed, taken,
                       forgotten, outdated, parted>>

BlockClient(c, cmd) ==
    LET e == [cli |-> c, timed |-> cmd.timed, end |-> cmd.end]
    IN  /\ waiting' = [waiting EXCEPT ![c] = ToSet(cmd.keys)]
        /\ target' = [target EXCEPT ![c] = cmd.to]
        /\ blocked' = [k \in Keys |-> IF k \in ToSet(cmd.keys)
                                      THEN Append(blocked[k], e) ELSE blocked[k]]
        /\ UNCHANGED <<conn, store, serving, crashed, replay, pushed, taken,
                       forgotten, outdated, parted>>

\* BLPOP, BRPOP and BRPOPLPUSH.
BlockedPop(c, cmd) ==
    /\ cmd.op \in {"bpop", "brpoplpush"} /\ Free(c)
    /\ cmd.to # None => store[cmd.to].kind # "string"
    /\ IF Present(cmd) = {}
       THEN /\ \A k \in ToSet(cmd.keys) : Len(blocked[k]) < MaxQueue
            /\ BlockClient(c, cmd)
       ELSE PopNow(c, cmd, cmd.keys[Min(Present(cmd))])

Dropped(q, c) == RemoveFirstMatch(q, LAMBDA e : e.cli = c)

\* UnblockClient: one entry of c goes from the queue of each key it waits for.
Unblocked(b, c) ==
    [k \in Keys |-> IF k \in waiting[c] THEN Dropped(b[k], c) ELSE b[k]]

Release(cs) ==
    /\ waiting' = [c \in Clients |-> IF c \in cs THEN {} ELSE waiting[c]]
    /\ target' = [c \in Clients |-> IF c \in cs THEN None ELSE target[c]]
    /\ forgotten' = forgotten \ cs

\* Its assertion, and the wait of c ends.  (k is the key being served.)
UnblockClient(c, k) ==
    /\ crashed' = (\E w \in waiting[c] : blocked[w] = <<>>)
    /\ blocked' = Unblocked(blocked, c)
    /\ Release({c})

\* The client of the first entry has stopped waiting for k, or waits for it
\* again by a later entry.
Outdated(k) ==
    LET c == Head(blocked[k]).cli
    IN  k \notin waiting[c] \/ \E e \in ToSet(Tail(blocked[k])) : e.cli = c

\* The element e goes to the head of the target, if there is one.
Onward(m, to, e) == IF to = None THEN m ELSE Pushed(m, to, <<e>>, "left", TRUE)

\* ServeClient's own pop leaves an empty list in the database.
Served(m, k, end) == [m EXCEPT ![k] = List(Without(@.elems, end))]

\* Serve the first entry: a closed connection's is dropped.  An element that
\* has a target goes to its head, and the client is then answered with it.
\* The entry is served whether or not its client still waits for the key.
ServeNext(k) ==
    LET e == Head(blocked[k])
        to == target[e.cli]
        q == store[k].elems
        wrongTarget == to # None /\ store[to].kind = "string"
    IN  /\ serving = k /\ ~crashed
        /\ q # <<>> /\ blocked[k] # <<>>
        /\ IF e.cli \notin conn
           THEN /\ blocked' = [blocked EXCEPT ![k] = Tail(@)]
                /\ UNCHANGED <<clientVars, store, crashed, replay, taken,
                               forgotten, outdated>>
           ELSE /\ UnblockClient(e.cli, k)
                /\ outdated' = (outdated \/ Outdated(k))
                /\ IF wrongTarget THEN UNCHANGED <<store, replay, taken>>
                   ELSE /\ store' = Served(Onward(store, to, Last(q)), k, e.end)
                        /\ replay' = Popped(Onward(replay, to, Last(q)), k, e.end)
                        /\ taken' = IF to = None THEN taken \cup {ElementAt(q, e.end)}
                                    ELSE taken
                /\ UNCHANGED conn
        /\ UNCHANGED <<serving, pushed, parted>>

\* Mutant: a push serves one client.
ServeDoneEarly(k) ==
    /\ serving = k /\ ~crashed
    /\ serving' = None
    /\ UNCHANGED <<clientVars, store, blocked, crashed, replay, pushed, taken,
                   forgotten, outdated, parted>>

\* The loop ends; a list it emptied stays in the database.
ServeDone(k) ==
    /\ serving = k /\ ~crashed
    /\ store[k].elems = <<>> \/ blocked[k] = <<>>
    /\ serving' = None
    /\ UNCHANGED <<clientVars, store, blocked, crashed, replay, pushed, taken,
                   forgotten, outdated, parted>>

\* The entries past their deadline, as <<key, entry>>.  Each entry has its own:
\* Now is read anew for every key of a command, and a pass ends after 100.
TimedEntries ==
    UNION {{<<k, e>> : e \in {x \in ToSet(blocked[k]) : x.timed}} : k \in Keys}

\* The entries of q that are not in gone, in their order.
Kept(q, gone) ==
    LET kept[n \in 0..Len(q)] ==
          IF n = 0 THEN <<>>
          ELSE IF q[n] \in gone THEN kept[n - 1] ELSE Append(kept[n - 1], q[n])
    IN  kept[Len(q)]

\* Mutant: the client is answered and goes on waiting.
LoopCheckKeepsWaiting(expired) ==
    /\ Idle /\ expired # {}
    /\ blocked' = [k \in Keys |-> Kept(blocked[k], {e \in Entry : <<k, e>> \in expired})]
    /\ UNCHANGED <<clientVars, store, serving, crashed, replay, pushed, taken,
                   forgotten, outdated, parted>>

\* BlockedClients::LoopCheck.  The client of one expired entry stops waiting for
\* all its keys, but only the expired entries go.
LoopCheck(expired) ==
    /\ Idle /\ expired # {}
    /\ blocked' = [k \in Keys |-> Kept(blocked[k], {e \in Entry : <<k, e>> \in expired})]
    /\ Release({c \in conn : \E x \in expired : x[2].cli = c /\ x[1] \in waiting[c]})
    /\ UNCHANGED <<conn, store, serving, crashed, replay, pushed, taken, outdated,
                   parted>>

\* A closed connection's entries stay in the queues.
Disconnect(c) ==
    /\ Idle /\ c \in conn
    /\ conn' = conn \ {c}
    /\ Release({c})
    /\ UNCHANGED <<store, blocked, serving, crashed, replay, pushed, taken, outdated,
                   parted>>

\* A new connection; c stands for it once no queue holds the old one.
Connect(c) ==
    /\ Idle /\ c \notin conn
    /\ \A k \in Keys : \A e \in ToSet(blocked[k]) : e.cli # c
    /\ conn' = conn \cup {c}
    /\ UNCHANGED <<waiting, target, store, blocked, serving, crashed, replay,
                   pushed, taken, forgotten, outdated, parted>>

Execute(c, cmd) ==
    \/ Push(c, cmd)
    \/ Pop(c, cmd)
    \/ RPopLPush(c, cmd)
    \/ Overwrite(c, cmd)
    \/ FlushAll(c, cmd)
    \/ BlockedPop(c, cmd)

Next ==
    \/ \E c \in Clients : \E cmd \in Commands : Execute(c, cmd)
    \/ \E c \in Clients : Disconnect(c) \/ Connect(c)
    \/ \E k \in Keys : ServeNext(k) \/ ServeDone(k)
    \/ \E expired \in SUBSET TimedEntries : LoopCheck(expired)

Spec == Init /\ [][Next]_vars

\* The loop runs to its end within its handler, and the timer that calls
\* LoopCheck runs every 3 ms: every deadline passes.
FairSpec ==
    /\ Spec
    /\ WF_vars(\E k \in Keys : ServeNext(k) \/ ServeDone(k))
    /\ WF_vars(LoopCheck(TimedEntries))

-----------------------------------------------------------------------------
(***************************************************************************)
(* Properties.                                                             *)
(***************************************************************************)

\* The keys that elements reach by a target.
Targets == {cmd.to : cmd \in {x \in Commands : x.op \in {"brpoplpush", "rpoplpush"}}}

HasEntry(c, k) == \E e \in ToSet(blocked[k]) : e.cli = c

\* Who waits for a key has an entry in its queue, through every mix of serves,
\* timeouts and disconnects, unless a FLUSHALL forgot it.  UnblockClient asserts
\* that the queues of the client's keys are not empty.
WaiterIsQueued ==
    \A c \in conn \ forgotten : \A k \in waiting[c] : HasEntry(c, k)

\* Nobody is left waiting beside a list with elements, unless the elements came
\* by a target: the push that filled the list served its queue to the end.
NobodyWaitsBesideAList ==
    Idle => \A c \in conn \ forgotten : \A k \in waiting[c] \ Targets :
                store[k].elems = <<>>

NobodyIsForgotten == WaiterIsQueued /\ NobodyWaitsBesideAList

\* An element is in one place once: in one list, or handed to one client.
\* Serving, moving and popping neither double nor lose it, as long as every
\* entry served is that of a wait that lasts.
Places(e) ==
    UNION {{k} \X {i \in DOMAIN store[k].elems : store[k].elems[i] = e} : k \in Keys}

ElementsAreKept ==
    ~outdated => \A e \in 1..pushed :
        Cardinality(Places(e)) = IF e \in taken THEN 0 ELSE 1

\* What was propagated gives the lists of the master when it is run again,
\* between any two steps of a serve, until an LPUSHX finds an empty list that a
\* serve left behind: the replayed pops have deleted it, and push nothing there.
ReplayGivesTheLists ==
    ~parted =>
        \A k \in Keys : /\ replay[k].elems = store[k].elems
                        /\ (replay[k].kind = "string") = (store[k].kind = "string")

\* A client that blocked with a timeout is answered or gone in the end.
TimedWaitEnds ==
    \A c \in Clients :
        (\E k \in waiting[c] : \E e \in ToSet(blocked[k]) : e.cli = c /\ e.timed)
            ~> waiting[c] = {} \/ c \in forgotten \/ crashed

\* GenericPop, RPOPLPUSH and UnblockClient: assert(!list->empty()) and
\* assert(!clients.empty()).
NoAssertionFails == ~crashed

=============================================================================
