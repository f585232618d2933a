---------------------------- MODULE QMultiProofs ----------------------------
(***************************************************************************)
(* Proofs about QMulti: no client misses a write that names a key it        *)
(* watches, or creates or deletes one, but at the target of RENAME or MOVE; *)
(* and EXEC runs a queue only when there was no such write, for any number  *)
(* of clients, databases, keys and commands.                               *)
(***************************************************************************)
EXTENDS MCMaster, TLAPS

\* What holds between WATCH and EXEC: a queue without a bad command is what was
\* answered +QUEUED, and a closed connection watches nothing.
QueueIsAcked ==
    \A c \in Clients : "wrongExec" \notin flag[c] => queueCmds[c] = acked[c]

ClosedWatchesNothing ==
    \A c \in Clients \ conn : watchKeys[c] = {} /\ touched[c] = {}

IInv ==
    /\ TypeOK
    /\ TouchedIsDirty
    /\ WatcherIsListed
    /\ QueueIsAcked
    /\ ClosedWatchesNothing

-----------------------------------------------------------------------------
(***************************************************************************)
(* The notifier.                                                           *)
(***************************************************************************)

Notifiers == [clients : [Pairs -> SUBSET Clients], flag : [Clients -> SUBSET Flags]]

\* WatcherIsListed of a notifier.
Listed(n) ==
    \A c \in conn : \A p \in watchKeys[c] :
        c \in n.clients[p] \/ "dirty" \in n.flag[c]

\* From n to m flags are kept, and only dirty is added.
Dirtied(n, m) ==
    \A c \in Clients : n.flag[c] \subseteq m.flag[c]
                       /\ m.flag[c] \subseteq n.flag[c] \cup {"dirty"}

LEMMA CommandFields ==
    ASSUME NEW cmd \in Commands
    PROVE  /\ cmd.op \in {"set", "rename", "move", "mset"} => cmd.key \in Keys
           /\ cmd.op \in {"rename", "mset"} => cmd.to \in Keys
           /\ cmd.op \in {"move", "select"} => cmd.to \in Dbs
BY CommandsAssumption DEF CommandSet

\* One pass of NotifyDirty keeps every watcher listed or dirty, and leaves no
\* watcher of the key clean but the current client.
LEMMA NotifyDirtyReaches ==
    ASSUME NEW n \in Notifiers, NEW p \in Pairs, NEW cur,
           conn \subseteq Clients, Listed(n)
    PROVE  LET m == NotifyDirty(n, p, cur)
           IN  /\ m \in Notifiers
               /\ Listed(m)
               /\ Dirtied(n, m)
               /\ \A c \in conn \ {cur} : p \in watchKeys[c] => "dirty" \in m.flag[c]
<1> DEFINE m == NotifyDirty(n, p, cur)
<1>1. Hit(n, p, cur) \subseteq Clients /\ n.clients[p] \subseteq Clients
  BY DEF Hit, Notifiers
<1>2. m \in Notifiers
  BY <1>1 DEF NotifyDirty, Notifiers, Flags
<1>3. \A c \in Clients : m.flag[c] = IF c \in Hit(n, p, cur)
                                     THEN n.flag[c] \cup {"dirty"} ELSE n.flag[c]
  BY DEF NotifyDirty
<1>4. Dirtied(n, m)
  BY <1>3 DEF Dirtied
<1>5. \A q \in Pairs : m.clients[q] = IF q = p THEN (n.clients[p] \cap conn) \ Hit(n, p, cur)
                                      ELSE n.clients[q]
  BY DEF NotifyDirty, Notifiers
<1>6. Listed(m)
  <2> SUFFICES ASSUME NEW c \in conn, NEW q \in watchKeys[c], "dirty" \notin m.flag[c]
               PROVE  c \in m.clients[q]
    BY DEF Listed
  <2>1. c \in n.clients[q] /\ c \notin Hit(n, p, cur)
    BY <1>3 DEF Listed
  <2>2. CASE q \in Pairs
    BY <2>1, <2>2, <1>5
  <2>3. CASE q \notin Pairs
    <3>1. m.clients[q] = n.clients[q]
      BY <2>3 DEF NotifyDirty
    <3> QED BY <3>1, <2>1
  <2> QED BY <2>2, <2>3
<1>7. ASSUME NEW c \in conn \ {cur}, p \in watchKeys[c]
      PROVE  "dirty" \in m.flag[c]
  <2>1. c \in n.clients[p] \/ "dirty" \in n.flag[c]
    BY <1>7 DEF Listed
  <2>2. CASE "dirty" \in n.flag[c]
    BY <2>2, <1>3
  <2>3. CASE c \in n.clients[p]
    BY <2>3, <1>7, <1>3 DEF Hit
  <2> QED BY <2>1, <2>2, <2>3
<1> QED BY <1>2, <1>4, <1>6, <1>7

\* A flush of the databases ds leaves no watcher of theirs clean.
LEMMA NotifyDirtyAllReaches ==
    ASSUME NEW n \in Notifiers, NEW ds \in SUBSET Dbs,
           conn \subseteq Clients, Listed(n)
    PROVE  LET m == NotifyDirtyAll(n, ds)
           IN  /\ m \in Notifiers
               /\ Listed(m)
               /\ Dirtied(n, m)
               /\ \A c \in conn : \A p \in ds \X Keys :
                     p \in watchKeys[c] => "dirty" \in m.flag[c]
<1> DEFINE m == NotifyDirtyAll(n, ds)
<1>1. m \in Notifiers /\ m.clients = n.clients
  BY DEF NotifyDirtyAll, Notifiers, Flags
<1>2. \A c \in Clients : m.flag[c] =
        IF \E p \in ds \X Keys : c \in n.clients[p] \cap conn
        THEN n.flag[c] \cup {"dirty"} ELSE n.flag[c]
  BY DEF NotifyDirtyAll, Notifiers
<1>3. Dirtied(n, m)
  BY <1>2 DEF Dirtied
<1>4. Listed(m)
  BY <1>1, <1>3 DEF Listed, Dirtied
<1>5. ASSUME NEW c \in conn, NEW p \in ds \X Keys, p \in watchKeys[c]
      PROVE  "dirty" \in m.flag[c]
  BY <1>2, <1>5 DEF Listed
<1> QED BY <1>1, <1>3, <1>4, <1>5

-----------------------------------------------------------------------------
(***************************************************************************)
(* What a command may do to the watchers, whichever command it is.          *)
(***************************************************************************)

WatchersAreTold ==
    /\ Notifier' \in Notifiers
    /\ \A c \in Clients : /\ flag[c] \subseteq flag'[c]
                          /\ flag'[c] \subseteq flag[c] \cup {"dirty"}
    /\ \A c \in conn : \A p \in watchKeys[c] :
          c \in clients'[p] \/ "dirty" \in flag'[c]
    /\ touched' \in [Clients -> SUBSET Pairs]
    /\ \A c \in Clients : touched'[c] # {} => "dirty" \in flag'[c]
    /\ \A c \in Clients \ conn : touched'[c] = {}

LEMMA NotifierIsTyped == IInv => Notifier \in Notifiers /\ Listed(Notifier)
BY DEF IInv, TypeOK, WatcherIsListed, Notifier, Notifiers, Listed

\* A notifier that reaches every other watcher of the named pairs, told
\* together with the history of those pairs, by a command that changes nothing
\* but them and its targets.
LEMMA ToldAndRecorded ==
    ASSUME IInv, NEW m \in Notifiers, NEW cur,
           NEW named \in SUBSET Pairs, NEW targets, Changed \subseteq named \cup targets,
           Told(m), Record(cur, named, targets), Listed(m), Dirtied(Notifier, m),
           \A c \in conn \ {cur} : \A p \in named :
               p \in watchKeys[c] => "dirty" \in m.flag[c]
    PROVE  WatchersAreTold
<1>1. Notifier' = m /\ clients' = m.clients /\ flag' = m.flag
  BY DEF Told, Notifier, Notifiers
<1>2. \A c \in Clients : /\ flag[c] \subseteq flag'[c]
                        /\ flag'[c] \subseteq flag[c] \cup {"dirty"}
  BY <1>1 DEF Dirtied, Notifier
<1>3. \A c \in conn : \A p \in watchKeys[c] :
          c \in clients'[p] \/ "dirty" \in flag'[c]
  BY <1>1 DEF Listed
<1>5. \A c \in Clients : touched'[c] = IF c = cur THEN touched[c]
                             ELSE touched[c] \cup (named \cap watchKeys[c])
  BY DEF Record
<1>4. touched' \in [Clients -> SUBSET Pairs]
  BY DEF Record, IInv, TypeOK
<1>6. ASSUME NEW c \in Clients, touched'[c] # {} PROVE "dirty" \in flag'[c]
  <2>1. CASE touched[c] # {}
    BY <2>1, <1>2 DEF IInv, TouchedIsDirty
  <2>2. CASE touched[c] = {}
    <3>1. c # cur /\ \E p \in named : p \in watchKeys[c]
      BY <2>2, <1>6, <1>5
    <3>2. c \in conn
      BY <3>1 DEF IInv, ClosedWatchesNothing
    <3> QED BY <3>1, <3>2, <1>1
  <2> QED BY <2>1, <2>2
<1>7. \A c \in Clients \ conn : touched'[c] = {}
  BY <1>5 DEF IInv, ClosedWatchesNothing
<1> QED BY <1>1, <1>2, <1>3, <1>4, <1>6, <1>7 DEF WatchersAreTold

LEMMA PropogateTells ==
    ASSUME IInv, NEW cur, NEW d \in Dbs, NEW k \in Keys, NEW targets,
           Propogate(cur, d, k, targets), Changed \subseteq {<<d, k>>} \cup targets
    PROVE  WatchersAreTold
<1> DEFINE p == <<d, k>>
           m == NotifyDirty(Notifier, p, cur)
<1>1. p \in Pairs /\ {p} \in SUBSET Pairs
  BY DEF Pairs
<1>2. conn \subseteq Clients
  BY DEF IInv, TypeOK
<1>3. /\ m \in Notifiers /\ Listed(m) /\ Dirtied(Notifier, m)
      /\ \A c \in conn \ {cur} : p \in watchKeys[c] => "dirty" \in m.flag[c]
  BY <1>1, <1>2, NotifierIsTyped, NotifyDirtyReaches
<1>4. Told(m) /\ Record(cur, {p}, targets)
  BY DEF Propogate
<1>5. Changed \subseteq {p} \cup targets
  OBVIOUS
<1> HIDE DEF m, p
<1> QED BY <1>1, <1>3, <1>4, <1>5, ToldAndRecorded

LEMMA FlushTells ==
    ASSUME IInv, NEW ds \in SUBSET Dbs,
           Told(NotifyDirtyAll(Notifier, ds)), Record(None, ds \X Keys, {}),
           Changed \subseteq ds \X Keys
    PROVE  WatchersAreTold
<1> DEFINE m == NotifyDirtyAll(Notifier, ds)
           named == ds \X Keys
<1>1. conn \subseteq Clients /\ named \in SUBSET Pairs
  BY DEF IInv, TypeOK, Pairs
<1>2. /\ m \in Notifiers /\ Listed(m) /\ Dirtied(Notifier, m)
      /\ \A c \in conn : \A p \in named : p \in watchKeys[c] => "dirty" \in m.flag[c]
  BY <1>1, NotifierIsTyped, NotifyDirtyAllReaches
<1> HIDE DEF m, named
<1> QED BY <1>1, <1>2, ToldAndRecorded DEF m, named

LEMMA MSetTells ==
    ASSUME IInv, NEW c \in Clients, NEW cmd \in Commands, NEW d \in Dbs, MSet(c, cmd, d)
    PROVE  WatchersAreTold
<1> DEFINE p == <<d, cmd.key>>
           q == <<d, cmd.to>>
           n == NotifyDirty(Notifier, p, c)
           m == NotifyDirty(n, q, c)
<1>1. p \in Pairs /\ q \in Pairs /\ {p, q} \in SUBSET Pairs
  BY CommandFields DEF Pairs, MSet
<1>2. conn \subseteq Clients
  BY DEF IInv, TypeOK
<1>3. /\ n \in Notifiers /\ Listed(n) /\ Dirtied(Notifier, n)
      /\ \A x \in conn \ {c} : p \in watchKeys[x] => "dirty" \in n.flag[x]
  BY <1>1, <1>2, NotifierIsTyped, NotifyDirtyReaches
<1> HIDE DEF n
<1>4. /\ m \in Notifiers /\ Listed(m) /\ Dirtied(n, m)
      /\ \A x \in conn \ {c} : q \in watchKeys[x] => "dirty" \in m.flag[x]
  BY <1>1, <1>2, <1>3, NotifyDirtyReaches
<1>5. Told(m) /\ Record(c, {p, q}, {})
  BY DEF MSet, n
<1>8. Changed \subseteq {p, q} \cup {}
  BY DEF MSet, Changed, Pairs, IInv, TypeOK
<1> HIDE DEF m, p, q
<1>6. Dirtied(Notifier, m)
  BY <1>3, <1>4 DEF Dirtied
<1>7. \A x \in conn \ {c} : \A r \in {p, q} : r \in watchKeys[x] => "dirty" \in m.flag[x]
  BY <1>2, <1>3, <1>4 DEF Dirtied
<1> QED BY <1>1, <1>4, <1>5, <1>6, <1>7, <1>8, ToldAndRecorded

LEMMA QuietTells ==
    ASSUME IInv, UNCHANGED <<clients, flag, touched>>
    PROVE  WatchersAreTold
<1>1. Notifier' = Notifier
  BY DEF Notifier
<1> QED BY <1>1, NotifierIsTyped
        DEF IInv, TypeOK, TouchedIsDirty, WatcherIsListed, ClosedWatchesNothing,
            WatchersAreTold

\* Every command keeps the types of what it changes and tells the watchers.
LEMMA ExecuteTells ==
    ASSUME IInv, NEW c \in Clients, NEW cmd \in Commands, NEW d \in Dbs,
           Execute(c, cmd, d)
    PROVE  /\ WatchersAreTold
           /\ store' \in [Dbs -> SUBSET Keys]
           /\ dbno' \in Dbs
           /\ db' \in [Clients -> Dbs]
<1>1. CASE Set(c, cmd, d)
  <2>1. cmd.key \in Keys
    BY <1>1, CommandFields DEF Set
  <2>2. Changed \subseteq {<<d, cmd.key>>} \cup {}
    BY <1>1, <2>1 DEF Set, Changed, Pairs, IInv, TypeOK
  <2>3. WatchersAreTold
    BY <1>1, <2>1, <2>2, PropogateTells DEF Set
  <2> QED BY <1>1, <2>1, <2>3 DEF Set, IInv, TypeOK
<1>2. CASE MSet(c, cmd, d)
  <2>1. cmd.key \in Keys /\ cmd.to \in Keys
    BY <1>2, CommandFields DEF MSet
  <2> QED BY <1>2, <2>1, MSetTells DEF MSet, IInv, TypeOK
<1>3. CASE Rename(c, cmd, d)
  <2>1. cmd.key \in Keys /\ cmd.to \in Keys
    BY <1>3, CommandFields DEF Rename
  <2>2. WatchersAreTold
    <3>1. CASE cmd.key \in store[d]
      <4>1. Changed \subseteq {<<d, cmd.key>>} \cup {<<d, cmd.to>>}
        BY <1>3, <2>1, <3>1 DEF Rename, Changed, Pairs, IInv, TypeOK
      <4>2. Propogate(c, d, cmd.key, {<<d, cmd.to>>})
        BY <1>3, <3>1 DEF Rename
      <4> QED BY <2>1, <4>1, <4>2, PropogateTells
    <3>2. CASE cmd.key \notin store[d]
      BY <1>3, <3>2, QuietTells DEF Rename
    <3> QED BY <3>1, <3>2
  <2>3. store \in [Dbs -> SUBSET Keys]
    BY DEF IInv, TypeOK
  <2>4. (store[d] \cup {cmd.to}) \ {cmd.key} \in SUBSET Keys
    BY <2>1, <2>3
  <2>5. store' \in [Dbs -> SUBSET Keys]
    <3>1. CASE cmd.key \in store[d]
      BY <1>3, <2>3, <2>4, <3>1 DEF Rename
    <3>2. CASE cmd.key \notin store[d]
      BY <1>3, <2>3, <3>2 DEF Rename
    <3> QED BY <3>1, <3>2
  <2> QED BY <1>3, <2>2, <2>5 DEF Rename, IInv, TypeOK
<1>4. CASE Move(c, cmd, d)
  <2> DEFINE moved == cmd.key \in store[d] /\ cmd.to # d /\ cmd.key \notin store[cmd.to]
             left == IF cmd.key \in store[d] /\ ~moved THEN cmd.to ELSE d
  <2>1. cmd.key \in Keys /\ cmd.to \in Dbs /\ left \in Dbs
    BY <1>4, CommandFields DEF Move
  <2>2. Propogate(c, left, cmd.key, {<<cmd.to, cmd.key>>}) /\ dbno' = left
    BY <1>4 DEF Move
  <2>4. Changed \subseteq {<<left, cmd.key>>} \cup {<<cmd.to, cmd.key>>}
    <3>1. CASE moved
      <4>1. store' = [store EXCEPT ![d] = @ \ {cmd.key}, ![cmd.to] = @ \cup {cmd.key}]
        BY <1>4, <3>1 DEF Move
      <4> QED BY <2>1, <3>1, <4>1 DEF Changed, Pairs, IInv, TypeOK
    <3>2. CASE ~moved
      <4>1. store' = store
        BY <1>4, <3>2 DEF Move
      <4> QED BY <4>1 DEF Changed
    <3> QED BY <3>1, <3>2
  <2>3. store' \in [Dbs -> SUBSET Keys] /\ db' \in [Clients -> Dbs]
    BY <1>4, <2>1 DEF Move, IInv, TypeOK
  <2> HIDE DEF left
  <2> QED BY <2>1, <2>2, <2>3, <2>4, PropogateTells
<1>5. CASE Select(c, cmd, d)
  BY <1>5, CommandFields, QuietTells DEF Select, IInv, TypeOK
<1>6. CASE FlushDb(c, cmd, d)
  <2>1. {d} \in SUBSET Dbs
    OBVIOUS
  <2>3. Changed \subseteq {d} \X Keys
    BY <1>6 DEF FlushDb, Changed, Pairs, IInv, TypeOK
  <2>2. WatchersAreTold
    BY <1>6, <2>1, <2>3, FlushTells DEF FlushDb
  <2> QED BY <1>6, <2>2 DEF FlushDb, IInv, TypeOK
<1>7. CASE FlushAll(c, cmd, d)
  <2>2. Changed \subseteq Dbs \X Keys
    BY DEF Changed, Pairs
  <2>1. WatchersAreTold
    BY <1>7, <2>2, FlushTells DEF FlushAll, Pairs
  <2> QED BY <1>7, <2>1, DbsAssumption DEF FlushAll, IInv, TypeOK
<1> QED BY <1>1, <1>2, <1>3, <1>4, <1>5, <1>6, <1>7 DEF Execute

-----------------------------------------------------------------------------
(***************************************************************************)
(* The invariant is inductive.                                             *)
(***************************************************************************)

LEMMA InitIInv == Init => IInv
BY DbsAssumption DEF Init, IInv, TypeOK, TouchedIsDirty, WatcherIsListed, QueueIsAcked,
       ClosedWatchesNothing

\* An executed command, in or out of EXEC, when the rest of the session stays.
LEMMA ExecuteIInv ==
    ASSUME IInv, NEW c \in Clients, NEW cmd \in Commands, NEW d \in Dbs,
           Execute(c, cmd, d), UNCHANGED <<conn, queueCmds, watchKeys, acked>>,
           running' \in Clients \cup {None}, todo' \in Seq(Commands)
    PROVE  IInv'
<1>1. /\ WatchersAreTold
      /\ store' \in [Dbs -> SUBSET Keys] /\ dbno' \in Dbs /\ db' \in [Clients -> Dbs]
  BY ExecuteTells
<1>2. clients' \in [Pairs -> SUBSET Clients] /\ flag' \in [Clients -> SUBSET Flags]
  BY <1>1 DEF WatchersAreTold, Notifier, Notifiers
<1>3. TypeOK'
  BY <1>1, <1>2 DEF WatchersAreTold, IInv, TypeOK
<1>4. TouchedIsDirty' /\ WatcherIsListed' /\ ClosedWatchesNothing'
  BY <1>1 DEF WatchersAreTold, TouchedIsDirty, WatcherIsListed, ClosedWatchesNothing, IInv
<1>5. QueueIsAcked'
  BY <1>1 DEF WatchersAreTold, QueueIsAcked, IInv
<1> QED BY <1>3, <1>4, <1>5 DEF IInv

\* DISCARD, EXEC however it ends, and a closing connection.
LEMMA EndMultiIInv ==
    ASSUME IInv, NEW c \in Clients, EndMulti(c), UNCHANGED <<clients, store>>,
           conn' \in {conn, conn \ {c}}, db' \in [Clients -> Dbs], dbno' \in Dbs,
           running' \in Clients \cup {None}, todo' \in Seq(Commands)
    PROVE  IInv'
<1> USE DEF IInv, EndMulti, ClearMulti, ClearWatch
<1>1. TypeOK'
  <2>1. conn' \subseteq Clients /\ <<>> \in Seq(Commands)
    BY DEF TypeOK
  <2>2. queueCmds' \in [Clients -> Seq(Commands)] /\ acked' \in [Clients -> Seq(Commands)]
    BY <2>1 DEF TypeOK
  <2>3. /\ watchKeys' \in [Clients -> SUBSET Pairs] /\ touched' \in [Clients -> SUBSET Pairs]
        /\ flag' \in [Clients -> SUBSET Flags]
    BY DEF TypeOK
  <2> QED BY <2>1, <2>2, <2>3 DEF TypeOK
<1>2. TouchedIsDirty' /\ WatcherIsListed'
  BY DEF TypeOK, TouchedIsDirty, WatcherIsListed
<1>3. QueueIsAcked' /\ ClosedWatchesNothing'
  BY DEF TypeOK, QueueIsAcked, ClosedWatchesNothing
<1> QED BY <1>1, <1>2, <1>3

LEMMA NextIInv == IInv /\ [Next]_vars => IInv'
<1> SUFFICES ASSUME IInv, [Next]_vars PROVE IInv'
  OBVIOUS
<1> USE DEF IInv
<1>0. CASE UNCHANGED vars
  BY <1>0 DEF vars, TypeOK, TouchedIsDirty, WatcherIsListed, QueueIsAcked, ClosedWatchesNothing
<1>1. ASSUME NEW c \in Clients, NEW ks \in SUBSET Keys, Watch(c, ks) PROVE IInv'
  <2> DEFINE new == ({db[c]} \X ks) \ watchKeys[c]
  <2>1. db[c] \in Dbs /\ new \subseteq Pairs
    BY DEF TypeOK, Pairs
  <2>2. UNCHANGED <<conn, db, flag, queueCmds, store, running, todo, touched, acked>>
        /\ dbno' = db[c]
    BY <1>1 DEF Watch, exec
  <2>3. CASE InMulti(c)
    <3>1. UNCHANGED <<watchKeys, clients>>
      BY <1>1, <2>3 DEF Watch
    <3> QED BY <2>1, <2>2, <3>1
            DEF TypeOK, TouchedIsDirty, WatcherIsListed, QueueIsAcked, ClosedWatchesNothing
  <2>4. CASE ~InMulti(c)
    <3>1. /\ watchKeys' = [watchKeys EXCEPT ![c] = @ \cup new]
          /\ clients' = [p \in Pairs |-> IF p \in new THEN clients[p] \cup {c} ELSE clients[p]]
          /\ c \in conn
      BY <1>1, <2>4 DEF Watch, Packet
    <3> HIDE DEF new
    <3>2. TypeOK'
      BY <2>1, <2>2, <3>1 DEF TypeOK
    <3>3. TouchedIsDirty' /\ QueueIsAcked' /\ ClosedWatchesNothing'
      BY <2>2, <3>1 DEF TypeOK, TouchedIsDirty, QueueIsAcked, ClosedWatchesNothing
    <3>4. WatcherIsListed'
      <4> SUFFICES ASSUME NEW x \in conn, NEW p \in watchKeys'[x]
                   PROVE  x \in clients'[p] \/ "dirty" \in flag[x]
        BY <2>2 DEF WatcherIsListed
      <4>1. p \in Pairs
        BY <3>2, <2>2 DEF TypeOK
      <4>2. p \in watchKeys[x] \/ (x = c /\ p \in new)
        BY <3>1 DEF TypeOK
      <4> QED BY <4>1, <4>2, <3>1 DEF WatcherIsListed
    <3> QED BY <3>2, <3>3, <3>4
  <2> QED BY <2>3, <2>4
<1>2. ASSUME NEW c \in Clients, Unwatch(c) PROVE IInv'
  <2>1. TypeOK'
    BY <1>2 DEF Unwatch, ClearWatch, TypeOK, exec
  <2>2. TouchedIsDirty' /\ WatcherIsListed'
    BY <1>2 DEF Unwatch, ClearWatch, TypeOK, TouchedIsDirty, WatcherIsListed
  <2>3. QueueIsAcked' /\ ClosedWatchesNothing'
    BY <1>2 DEF Unwatch, ClearWatch, TypeOK, QueueIsAcked, ClosedWatchesNothing
  <2> QED BY <2>1, <2>2, <2>3
<1>3. ASSUME NEW c \in Clients, Multi(c) PROVE IInv'
  <2>1. UNCHANGED <<conn, db, watchKeys, clients, store, running, todo, touched>>
        /\ dbno' \in Dbs
    BY <1>3 DEF Multi, exec, TypeOK
  <2>2. CASE InMulti(c)
    BY <1>3, <2>1, <2>2 DEF Multi, TypeOK, TouchedIsDirty, WatcherIsListed, QueueIsAcked,
                            ClosedWatchesNothing
  <2>3. CASE ~InMulti(c)
    <3>1. /\ queueCmds' = [queueCmds EXCEPT ![c] = <<>>]
          /\ acked' = [acked EXCEPT ![c] = <<>>]
          /\ flag' = [flag EXCEPT ![c] = (@ \ {"wrongExec"}) \cup {"multi"}]
      BY <1>3, <2>3 DEF Multi, ClearMulti
    <3>2. queueCmds' \in [Clients -> Seq(Commands)] /\ acked' \in [Clients -> Seq(Commands)]
      BY <3>1 DEF TypeOK
    <3>3. flag' \in [Clients -> SUBSET Flags]
      <4>1. flag \in [Clients -> SUBSET Flags] /\ (flag[c] \ {"wrongExec"}) \cup {"multi"} \in SUBSET Flags
        BY DEF TypeOK, Flags
      <4> QED BY <3>1, <4>1
    <3>4. TypeOK'
      BY <2>1, <3>2, <3>3 DEF TypeOK
    <3>5. \A x \in Clients : "dirty" \in flag'[x] <=> "dirty" \in flag[x]
      BY <3>1 DEF TypeOK
    <3>6. conn \subseteq Clients
      BY DEF TypeOK
    <3>7. TouchedIsDirty' /\ WatcherIsListed' /\ ClosedWatchesNothing'
      BY <2>1, <3>5, <3>6 DEF TouchedIsDirty, WatcherIsListed, ClosedWatchesNothing
    <3>8. QueueIsAcked'
      BY <3>1 DEF TypeOK, QueueIsAcked
    <3> QED BY <3>4, <3>7, <3>8
  <2> QED BY <2>2, <2>3
<1>4. ASSUME NEW c \in Clients, Discard(c) PROVE IInv'
  <2>1. CASE InMulti(c)
    BY <1>4, <2>1, EndMultiIInv DEF Discard, exec, TypeOK
  <2>2. CASE ~InMulti(c)
    BY <1>4, <2>2 DEF Discard, exec, TypeOK, TouchedIsDirty, WatcherIsListed,
                      QueueIsAcked, ClosedWatchesNothing
  <2> QED BY <2>1, <2>2
<1>5. ASSUME NEW c \in Clients, NEW cmd \in Commands, Queue(c, cmd) PROVE IInv'
  <2>1. TypeOK'
    BY <1>5 DEF Queue, exec, TypeOK
  <2>2. TouchedIsDirty' /\ WatcherIsListed' /\ ClosedWatchesNothing'
    BY <1>5 DEF Queue, TouchedIsDirty, WatcherIsListed, ClosedWatchesNothing
  <2>3. QueueIsAcked'
    BY <1>5 DEF Queue, TypeOK, QueueIsAcked
  <2> QED BY <2>1, <2>2, <2>3
<1>6. ASSUME NEW c \in Clients, NEW cmd \in Commands, Command(c, cmd) PROVE IInv'
  <2>1. db[c] \in Dbs
    BY DEF TypeOK
  <2> QED BY <1>6, <2>1, ExecuteIInv DEF Command, exec, TypeOK
<1>7. ASSUME NEW c \in Clients, QueueFailed(c) PROVE IInv'
  <2>1. TypeOK'
    BY <1>7 DEF QueueFailed, exec, TypeOK, Flags
  <2>2. TouchedIsDirty' /\ WatcherIsListed' /\ ClosedWatchesNothing'
    BY <1>7 DEF QueueFailed, TypeOK, TouchedIsDirty, WatcherIsListed, ClosedWatchesNothing
  <2>3. QueueIsAcked'
    BY <1>7 DEF QueueFailed, TypeOK, QueueIsAcked
  <2> QED BY <2>1, <2>2, <2>3
<1>8. ASSUME NEW c \in Clients, ExecRefused(c) PROVE IInv'
  BY <1>8, EndMultiIInv DEF ExecRefused, exec, TypeOK
<1>9. ASSUME NEW c \in Clients, Exec(c) PROVE IInv'
  BY <1>9 DEF Exec, session, TypeOK, TouchedIsDirty, WatcherIsListed, QueueIsAcked,
              ClosedWatchesNothing
<1>10. ASSUME NEW c \in Clients, ExecNext(c) PROVE IInv'
  <2>1. Head(todo) \in Commands /\ Tail(todo) \in Seq(Commands) /\ dbno \in Dbs
    BY <1>10 DEF ExecNext, TypeOK
  <2> QED BY <1>10, <2>1, ExecuteIInv DEF ExecNext, TypeOK
<1>11. ASSUME NEW c \in Clients, ExecDone(c) PROVE IInv'
  BY <1>11, EndMultiIInv DEF ExecDone, TypeOK
<1>12. ASSUME NEW c \in Clients, Disconnect(c) PROVE IInv'
  <2>1. db' \in [Clients -> Dbs]
    BY <1>12, DbsAssumption DEF Disconnect, TypeOK
  <2> QED BY <1>12, <2>1, EndMultiIInv DEF Disconnect, exec, TypeOK
<1>13. ASSUME NEW c \in Clients, Connect(c) PROVE IInv'
  BY <1>13 DEF Connect, exec, TypeOK, TouchedIsDirty, WatcherIsListed, QueueIsAcked,
               ClosedWatchesNothing
<1> QED BY <1>0, <1>1, <1>2, <1>3, <1>4, <1>5, <1>6, <1>7, <1>8, <1>9, <1>10, <1>11,
           <1>12, <1>13 DEF Next, Step

-----------------------------------------------------------------------------
(***************************************************************************)
(* The theorems.                                                           *)
(***************************************************************************)

THEOREM Invariance == Spec => []IInv
BY InitIInv, NextIInv, PTL DEF Spec

\* QMulti's variables keep their types.
THEOREM TypeCorrect == Spec => []TypeOK
<1>1. IInv => TypeOK
  BY DEF IInv
<1> QED BY <1>1, Invariance, PTL

\* NotifyDirty and NotifyDirtyAll miss no client: one whose watched key another
\* client named in a write, created, deleted or flushed is dirty, but for the target
\* of RENAME or MOVE, which Propogate does not name.
THEOREM NoWriteIsMissed == Spec => []TouchedIsDirty
<1>1. IInv => TouchedIsDirty
  BY DEF IInv
<1> QED BY <1>1, Invariance, PTL

\* QMulti::clients_ always holds a live watcher that is not dirty yet.
THEOREM WatchersAreListed == Spec => []WatcherIsListed
<1>1. IInv => WatcherIsListed
  BY DEF IInv
<1> QED BY <1>1, Invariance, PTL

\* QClient::Exec runs its loop only when no other client named a watched key in a
\* write, created, deleted or flushed one, but as the target of RENAME or MOVE, of
\* which it is not told; and over exactly the commands that were answered +QUEUED.
THEOREM ExecRunsOnlyUntouched == Spec => ExecIsSafe
<1> DEFINE Safe == \A c \in Clients : running = None /\ running' = c =>
                      touched[c] = {} /\ todo' = acked[c]
<1>1. IInv /\ [Next]_vars => [Safe]_vars
  <2> SUFFICES ASSUME IInv, Next, NEW c \in Clients, running = None, running' = c
               PROVE  touched[c] = {} /\ todo' = acked[c]
    OBVIOUS
  <2>1. c # None
    BY NoneAssumption
  <2>2. Exec(c)
    <3>1. PICK x \in Clients : Step(x)
      BY DEF Next
    <3>2. Exec(x)
      BY <2>1, <3>1, NoneAssumption
         DEF Step, Watch, Unwatch, Multi, Discard, Queue, Command, QueueFailed, ExecRefused,
             ExecNext, ExecDone, Disconnect, Connect, exec
    <3> QED BY <3>2 DEF Exec
  <2> QED BY <2>2 DEF Exec, IInv, TouchedIsDirty, QueueIsAcked
<1> QED BY <1>1, Invariance, PTL DEF Spec, ExecIsSafe

-----------------------------------------------------------------------------
(***************************************************************************)
(* The savers, beside the transactions: the steps of MCMaster are those of *)
(* QReplication, whose theorem speaks of them.                             *)
(***************************************************************************)
RP == INSTANCE QReplicationProofs

LEMMA SaversBegin == Begins => RP!Init
<1>1. Begins => R!Init
  BY Zenon DEF Begins
<1> QED BY <1>1, Zenon DEF R!Init, RP!Init

LEMMA SaversNext == R!Next => RP!Next
BY DEF R!Next, R!Writes, R!Pids, R!States, R!slaveVars, R!saveVars, R!dataVars, R!childVars,
       R!vars, R!Forked, R!Fork, R!ChildExit, R!Waiting, R!TryBgsave, R!PidAfterTry,
       R!FileContents, R!OnRdbSaveDone, R!Sync, R!Bgsave, R!Save, R!QdbCron, R!BgRewriteAof,
       R!SaveDone, R!RewriteDone, R!UnknownChild, R!CheckChild, R!SendToSlaves, R!Disconnect,
       R!Connect, RP!Next, RP!Writes, RP!Pids, RP!States, RP!slaveVars, RP!saveVars,
       RP!dataVars, RP!childVars, RP!vars, RP!Forked, RP!Fork, RP!ChildExit, RP!Waiting,
       RP!TryBgsave, RP!PidAfterTry, RP!FileContents, RP!OnRdbSaveDone, RP!Sync, RP!Bgsave,
       RP!Save, RP!QdbCron, RP!BgRewriteAof, RP!SaveDone, RP!RewriteDone, RP!UnknownChild,
       RP!CheckChild, RP!SendToSlaves, RP!Disconnect, RP!Connect

LEMMA SaversGo == [Goes]_all => [RP!Next]_RP!vars
<1>1. ASSUME UNCHANGED replicationVars PROVE UNCHANGED RP!vars
  BY <1>1 DEF replicationVars, RP!vars, RP!slaveVars, RP!saveVars, RP!dataVars, RP!childVars
<1>2. Goes => R!Next \/ UNCHANGED replicationVars
  BY Zenon DEF Goes
<1>3. UNCHANGED all => UNCHANGED replicationVars
  BY DEF all
<1> QED BY <1>1, <1>2, <1>3, SaversNext

\* QReplication::SendToSlaves, OnRdbSaveDone and the child reaper: whatever road leads
\* to a saver and whatever fails, an online replica is sent each write at most once
\* and in order, over the file, the buffer and the stream.  Writes made while another
\* replica's save runs are not sent at all, and the theorem does not say they are.
THEOREM SlavesStayInOrder == Master => []SlavesInOrder
<1>1. RP!Spec => []RP!InOrder
  BY RP!StreamsAreInOrder, ReplicationAssumption
<1>2. Master => RP!Spec
  BY SaversBegin, SaversGo, PTL DEF Master, RP!Spec
<1>3. RP!InOrder => SlavesInOrder
  BY DEF SlavesInOrder, R!InOrder, RP!InOrder
<1> QED BY <1>1, <1>2, <1>3, PTL
=============================================================================
