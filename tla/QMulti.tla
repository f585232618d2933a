------------------------------- MODULE QMulti -------------------------------
(***************************************************************************)
(* Transactions: WATCH, UNWATCH, MULTI, EXEC, DISCARD and the commands      *)
(* they guard.                                                              *)
(*                                                                         *)
(* One logic thread handles one packet at a time (QClient::_HandlePacket),  *)
(* so every handler is an action.  EXEC is the exception: its loop over the *)
(* queue is unfolded into one step per queued command (Exec, ExecNext,      *)
(* ExecDone), because the commands of the loop share QStore's current       *)
(* database and each may change it for the next one.                        *)
(*                                                                         *)
(* A key holds a value or does not: store[d] is the set of keys present.    *)
(* QMulti::clients_ maps a key to a list of weak pointers; the order of the *)
(* list and repeated entries make no difference to NotifyDirty, so the list *)
(* is a set.  An entry of a closed connection stays until NotifyDirty       *)
(* finds it dead.                                                           *)
(***************************************************************************)
EXTENDS Integers, Sequences

CONSTANTS Clients,      \* connections (QClient objects)
          Keys,
          Dbs,          \* database numbers; 0 is the one a client starts in
          Commands,     \* the commands clients send
          MaxQueue,     \* bound: commands answered +QUEUED in one MULTI
          None          \* no client

Pairs == Dbs \X Keys

CommandSet ==
    [op : {"set", "rename", "move", "mset"}, key : Keys, to : Keys \cup Dbs]
      \cup [op : {"select"}, to : Dbs]
      \cup [op : {"flushdb", "flushall"}]

ASSUME NoneAssumption == None \notin Clients
ASSUME DbsAssumption == 0 \in Dbs /\ Dbs \subseteq Nat
ASSUME MaxQueueAssumption == MaxQueue \in Nat
ASSUME CommandsAssumption ==
    /\ Commands \subseteq CommandSet
    /\ \A cmd \in Commands :
         /\ cmd.op \in {"rename", "mset"} => cmd.to \in Keys
         /\ cmd.op = "move" => cmd.to \in Dbs

Flags == {"multi", "dirty", "wrongExec"}

VARIABLES
    conn,       \* the connected clients
    db,         \* QClient::db_
    flag,       \* QClient::flag_, the set of its bits
    queueCmds,  \* QClient::queueCmds_
    watchKeys,  \* QClient::watchKeys_, pairs of a database and a key
    clients,    \* QMulti::clients_
    store,      \* QStore::store_
    dbno,       \* QStore::dbno_
    running,    \* the client whose EXEC loop runs, or None
    todo,       \* the commands that loop has left
    \* What follows records history and is read by properties only.
    touched,    \* watched pairs another client named in a write or changed, but for
                \* what RENAME and MOVE put at their target
    acked       \* commands answered +QUEUED since MULTI

session == <<conn, db, flag, queueCmds, watchKeys>>
exec == <<running, todo>>
vars == <<conn, db, flag, queueCmds, watchKeys, clients, store, dbno,
          running, todo, touched, acked>>

TypeOK ==
    /\ conn \subseteq Clients
    /\ db \in [Clients -> Dbs]
    /\ flag \in [Clients -> SUBSET Flags]
    /\ queueCmds \in [Clients -> Seq(Commands)]
    /\ watchKeys \in [Clients -> SUBSET Pairs]
    /\ clients \in [Pairs -> SUBSET Clients]
    /\ store \in [Dbs -> SUBSET Keys]
    /\ dbno \in Dbs
    /\ running \in Clients \cup {None}
    /\ todo \in Seq(Commands)
    /\ touched \in [Clients -> SUBSET Pairs]
    /\ acked \in [Clients -> Seq(Commands)]

Init ==
    /\ conn = Clients
    /\ db = [c \in Clients |-> 0]
    /\ flag = [c \in Clients |-> {}]
    /\ queueCmds = [c \in Clients |-> <<>>]
    /\ watchKeys = [c \in Clients |-> {}]
    /\ clients = [p \in Pairs |-> {}]
    /\ store = [d \in Dbs |-> {}]
    /\ dbno = 0
    /\ running = None
    /\ todo = <<>>
    /\ touched = [c \in Clients |-> {}]
    /\ acked = [c \in Clients |-> <<>>]

-----------------------------------------------------------------------------
(***************************************************************************)
(* Telling the watchers.  n is a record of the two structures NotifyDirty   *)
(* changes, [clients, flag]; cur is QClient::Current().                     *)
(***************************************************************************)

\* Those whom QClient::NotifyDirty reports dirty, and drops from the list.
Hit(n, p, cur) ==
    {c \in n.clients[p] \cap conn :
        c # cur /\ ("dirty" \in n.flag[c] \/ p \in watchKeys[c])}

\* Mutant: the key's whole list goes once somebody on it turned dirty.
NotifyDirtyDropsList(n, p, cur) ==
    [clients |-> [n.clients EXCEPT ![p] = IF Hit(n, p, cur) = {} THEN @ ELSE {}],
     flag |-> [c \in Clients |->
                 IF c \in Hit(n, p, cur) THEN n.flag[c] \cup {"dirty"}
                                         ELSE n.flag[c]]]

NotifyDirty(n, p, cur) ==
    [clients |-> [n.clients EXCEPT ![p] = (@ \cap conn) \ Hit(n, p, cur)],
     flag |-> [c \in Clients |->
                 IF c \in Hit(n, p, cur) THEN n.flag[c] \cup {"dirty"}
                                         ELSE n.flag[c]]]

\* Every live client found in a list of the databases ds.
NotifyDirtyAll(n, ds) ==
    [clients |-> n.clients,
     flag |-> [c \in Clients |->
                 IF \E p \in ds \X Keys : c \in n.clients[p] \cap conn
                 THEN n.flag[c] \cup {"dirty"} ELSE n.flag[c]]]

Notifier == [clients |-> clients, flag |-> flag]

\* The pairs that a step creates or deletes.
Changed == {p \in Pairs : (p[2] \in store[p[1]]) # (p[2] \in store'[p[1]])}

\* The history of a write by cur that names some pairs.  Nobody is told of the pairs
\* targets.
Record(cur, named, targets) ==
    touched' = [c \in Clients |-> IF c = cur THEN touched[c]
                  ELSE touched[c] \cup ((named \cup (Changed \ targets)) \cap watchKeys[c])]

Told(n) == clients' = n.clients /\ flag' = n.flag

\* Propogate of a command whose dirty key is k, in the current database d.
Propogate(cur, d, k, targets) ==
    /\ Told(NotifyDirty(Notifier, <<d, k>>, cur))
    /\ Record(cur, {<<d, k>>}, targets)

-----------------------------------------------------------------------------
(***************************************************************************)
(* The commands.  Each runs in the current database d for client c, and     *)
(* says what becomes of the store, the current database and the watchers.   *)
(***************************************************************************)

Set(c, cmd, d) ==
    /\ cmd.op = "set"
    /\ store' = [store EXCEPT ![d] = @ \cup {cmd.key}]
    /\ Propogate(c, d, cmd.key, {})
    /\ dbno' = d
    /\ UNCHANGED db

\* g_dirtyKeys carries both keys to Propogate.
MSet(c, cmd, d) ==
    LET ps == {<<d, cmd.key>>, <<d, cmd.to>>}
    IN  /\ cmd.op = "mset"
        /\ store' = [store EXCEPT ![d] = @ \cup {cmd.key, cmd.to}]
        /\ Told(NotifyDirty(NotifyDirty(Notifier, <<d, cmd.key>>, c),
                            <<d, cmd.to>>, c))
        /\ Record(c, ps, {})
        /\ dbno' = d
        /\ UNCHANGED db

\* The new name is written but only the old one, params[1], is propagated.
Rename(c, cmd, d) ==
    /\ cmd.op = "rename"
    /\ IF cmd.key \in store[d]
       THEN /\ store' = [store EXCEPT ![d] = (@ \cup {cmd.to}) \ {cmd.key}]
            /\ Propogate(c, d, cmd.key, {<<d, cmd.to>>})
       ELSE UNCHANGED <<store, clients, flag, touched>>
    /\ dbno' = d
    /\ UNCHANGED db

\* When the key is already in the target database, the target stays selected
\* and the propagation takes it for the current one.
Move(c, cmd, d) ==
    LET moved == cmd.key \in store[d] /\ cmd.to # d /\ cmd.key \notin store[cmd.to]
        left == IF cmd.key \in store[d] /\ ~moved THEN cmd.to ELSE d
    IN  /\ cmd.op = "move"
        /\ store' = IF moved
                    THEN [store EXCEPT ![d] = @ \ {cmd.key},
                                       ![cmd.to] = @ \cup {cmd.key}]
                    ELSE store
        /\ Propogate(c, left, cmd.key, {<<cmd.to, cmd.key>>})
        /\ dbno' = left
        /\ UNCHANGED db

Select(c, cmd, d) ==
    /\ cmd.op = "select"
    /\ db' = [db EXCEPT ![c] = cmd.to]
    /\ dbno' = cmd.to
    /\ UNCHANGED <<store, clients, flag, touched>>

FlushDb(c, cmd, d) ==
    /\ cmd.op = "flushdb"
    /\ store' = [store EXCEPT ![d] = {}]
    /\ Told(NotifyDirtyAll(Notifier, {d}))
    /\ Record(None, {d} \X Keys, {})
    /\ dbno' = d
    /\ UNCHANGED db

\* ResetDb runs last and leaves database 0 selected.
FlushAll(c, cmd, d) ==
    /\ cmd.op = "flushall"
    /\ store' = [e \in Dbs |-> {}]
    /\ Told(NotifyDirtyAll(Notifier, Dbs))
    /\ Record(None, Pairs, {})
    /\ dbno' = 0
    /\ UNCHANGED db

Execute(c, cmd, d) ==
    \/ Set(c, cmd, d)
    \/ MSet(c, cmd, d)
    \/ Rename(c, cmd, d)
    \/ Move(c, cmd, d)
    \/ Select(c, cmd, d)
    \/ FlushDb(c, cmd, d)
    \/ FlushAll(c, cmd, d)

-----------------------------------------------------------------------------
(***************************************************************************)
(* The packets of client c.  Each begins by selecting the client's          *)
(* database; none arrives while an EXEC loop runs.                          *)
(***************************************************************************)

InMulti(c) == "multi" \in flag[c]

Packet(c) == c \in conn /\ running = None

\* WATCH of the keys ks.  Inside MULTI it is refused.
Watch(c, ks) ==
    LET new == ({db[c]} \X ks) \ watchKeys[c]
    IN  /\ Packet(c)
        /\ dbno' = db[c]
        /\ IF InMulti(c) THEN UNCHANGED <<watchKeys, clients>>
           ELSE /\ watchKeys' = [watchKeys EXCEPT ![c] = @ \cup new]
                /\ clients' = [p \in Pairs |-> IF p \in new
                                  THEN clients[p] \cup {c} ELSE clients[p]]
        /\ UNCHANGED <<conn, db, flag, queueCmds, store, exec,
                       touched, acked>>

\* The fields of ClearWatch and of ClearMulti.
ClearWatch(c) ==
    /\ watchKeys' = [watchKeys EXCEPT ![c] = {}]
    /\ touched' = [touched EXCEPT ![c] = {}]

ClearMulti(c) ==
    /\ queueCmds' = [queueCmds EXCEPT ![c] = <<>>]
    /\ acked' = [acked EXCEPT ![c] = <<>>]

\* UNWATCH is not queued by MULTI: it takes effect at once.
Unwatch(c) ==
    /\ Packet(c)
    /\ ClearWatch(c)
    /\ flag' = [flag EXCEPT ![c] = @ \ {"dirty"}]
    /\ dbno' = db[c]
    /\ UNCHANGED <<conn, db, queueCmds, clients, store, exec, acked>>

\* Mutant: MULTI starts with a clean set of flags.
MultiForgetsDirty(c) ==
    /\ Packet(c)
    /\ dbno' = db[c]
    /\ ClearMulti(c)
    /\ flag' = [flag EXCEPT ![c] = {"multi"}]
    /\ UNCHANGED <<conn, db, watchKeys, clients, store, exec, touched>>

Multi(c) ==
    /\ Packet(c)
    /\ dbno' = db[c]
    /\ IF InMulti(c) THEN UNCHANGED <<flag, queueCmds, acked>>
       ELSE /\ ClearMulti(c)
            /\ flag' = [flag EXCEPT ![c] = (@ \ {"wrongExec"}) \cup {"multi"}]
    /\ UNCHANGED <<conn, db, watchKeys, clients, store, exec, touched>>

\* ClearMulti and ClearWatch together: DISCARD, and EXEC however it ends.
EndMulti(c) ==
    /\ ClearMulti(c)
    /\ ClearWatch(c)
    /\ flag' = [flag EXCEPT ![c] = {}]

Discard(c) ==
    /\ Packet(c)
    /\ dbno' = db[c]
    /\ IF InMulti(c) THEN EndMulti(c)
       ELSE UNCHANGED <<flag, queueCmds, watchKeys, touched, acked>>
    /\ UNCHANGED <<conn, db, clients, store, exec>>

\* Mutant: a command goes before those already queued.
QueueInFront(c, cmd) ==
    /\ Packet(c) /\ InMulti(c)
    /\ Len(acked[c]) < MaxQueue
    /\ queueCmds' = [queueCmds EXCEPT ![c] =
                       IF "wrongExec" \in flag[c] THEN @ ELSE <<cmd>> \o @]
    /\ acked' = [acked EXCEPT ![c] = Append(@, cmd)]
    /\ dbno' = db[c]
    /\ UNCHANGED <<conn, db, flag, watchKeys, clients, store, exec,
                   touched>>

\* A command inside MULTI: answered +QUEUED, kept unless an earlier one was bad.
Queue(c, cmd) ==
    /\ Packet(c) /\ InMulti(c)
    /\ Len(acked[c]) < MaxQueue
    /\ queueCmds' = [queueCmds EXCEPT ![c] =
                       IF "wrongExec" \in flag[c] THEN @ ELSE Append(@, cmd)]
    /\ acked' = [acked EXCEPT ![c] = Append(@, cmd)]
    /\ dbno' = db[c]
    /\ UNCHANGED <<conn, db, flag, watchKeys, clients, store, exec,
                   touched>>

\* A command inside MULTI with a wrong number of parameters.
QueueFailed(c) ==
    /\ Packet(c) /\ InMulti(c)
    /\ flag' = [flag EXCEPT ![c] = @ \cup {"wrongExec"}]
    /\ dbno' = db[c]
    /\ UNCHANGED <<conn, db, queueCmds, watchKeys, clients, store, exec,
                   touched, acked>>

\* EXEC that does not run the queue: an error or a null array.
ExecRefused(c) ==
    /\ Packet(c) /\ InMulti(c)
    /\ {"wrongExec", "dirty"} \cap flag[c] # {}
    /\ EndMulti(c)
    /\ dbno' = db[c]
    /\ UNCHANGED <<conn, db, clients, store, exec>>

\* Mutant: EXEC without the test of the dirty flag.
ExecThoughDirty(c) ==
    /\ Packet(c) /\ InMulti(c)
    /\ "wrongExec" \notin flag[c]
    /\ running' = c
    /\ todo' = queueCmds[c]
    /\ dbno' = db[c]
    /\ UNCHANGED <<session, clients, store, touched, acked>>

Exec(c) ==
    /\ Packet(c) /\ InMulti(c)
    /\ {"wrongExec", "dirty"} \cap flag[c] = {}
    /\ running' = c
    /\ todo' = queueCmds[c]
    /\ dbno' = db[c]
    /\ UNCHANGED <<session, clients, store, touched, acked>>

ExecNext(c) ==
    /\ running = c /\ todo # <<>>
    /\ Execute(c, Head(todo), dbno)
    /\ todo' = Tail(todo)
    /\ UNCHANGED <<conn, queueCmds, watchKeys, running, acked>>

ExecDone(c) ==
    /\ running = c /\ todo = <<>>
    /\ EndMulti(c)
    /\ running' = None
    /\ UNCHANGED <<conn, db, clients, store, dbno, todo>>

\* A command outside MULTI.
Command(c, cmd) ==
    /\ Packet(c) /\ ~InMulti(c)
    /\ Execute(c, cmd, db[c])
    /\ UNCHANGED <<conn, queueCmds, watchKeys, exec, acked>>

\* The connection closes and its QClient is destroyed: the weak pointers to it
\* stay in the lists.
Disconnect(c) ==
    /\ Packet(c)
    /\ conn' = conn \ {c}
    /\ db' = [db EXCEPT ![c] = 0]
    /\ EndMulti(c)
    /\ UNCHANGED <<clients, store, dbno, exec>>

\* A new connection; c stands for it once no list holds the old one.
Connect(c) ==
    /\ c \notin conn /\ running = None
    /\ \A p \in Pairs : c \notin clients[p]
    /\ conn' = conn \cup {c}
    /\ UNCHANGED <<db, flag, queueCmds, watchKeys, clients, store, dbno, exec,
                   touched, acked>>

Step(c) ==
    \/ \E ks \in (SUBSET Keys) \ {{}} : Watch(c, ks)
    \/ Unwatch(c)
    \/ Multi(c)
    \/ Discard(c)
    \/ \E cmd \in Commands : Queue(c, cmd) \/ Command(c, cmd)
    \/ QueueFailed(c)
    \/ ExecRefused(c) \/ Exec(c) \/ ExecNext(c) \/ ExecDone(c)
    \/ Disconnect(c)
    \/ Connect(c)

Next == \E c \in Clients : Step(c)

Spec == Init /\ [][Next]_vars

-----------------------------------------------------------------------------
(***************************************************************************)
(* Properties.                                                             *)
(***************************************************************************)

\* A client whose watched key another client named in a write, created, deleted or
\* flushed is dirty until its transaction ends: NotifyDirty reaches it whatever it
\* and the others did since WATCH.  The target of RENAME or MOVE is excepted:
\* Propogate names the first parameter only (QStore.cc:898).
TouchedIsDirty ==
    \A c \in Clients : touched[c] # {} => "dirty" \in flag[c]

\* A live client that watches a key and is not dirty is on the key's list, so
\* the next write of the key finds it.  (Stale entries may be on it too.)
WatcherIsListed ==
    \A c \in conn : \A p \in watchKeys[c] :
        c \in clients[p] \/ "dirty" \in flag[c]

\* EXEC begins to run a queue only if since WATCH no other client named a watched
\* key in a write, created, deleted or flushed one, but as the target of RENAME or
\* MOVE, of which nobody is told; and what it runs is what was answered +QUEUED, in
\* that order.
ExecIsSafe ==
    [][\A c \in Clients : running = None /\ running' = c =>
          touched[c] = {} /\ todo' = acked[c]]_vars
=============================================================================
