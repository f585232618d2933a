------------------------------ MODULE QLeveldb ------------------------------
(***************************************************************************)
(* One database of a server that keeps its keys in LevelDB (QStore with a   *)
(* backend, QLeveldb): memory is a cache, writes mark keys dirty, a timer   *)
(* dumps some of the dirty keys, and a key that is not in memory is looked  *)
(* up on disk.  LevelDB itself is external: Put and Delete are durable.     *)
(*                                                                         *)
(* A value is the number of elements a command left in it; 0 is no value.   *)
(***************************************************************************)
EXTENDS Naturals, FiniteSets

CONSTANTS
    Keys,
    MaxSync,        \* kMaxSync: keys that one call of DumpToBackends handles
    MaxValue,       \* bound: elements of a value
    MaxTime,        \* bound: the clock
    MaxRestarts     \* bound: restarts of the server

VARIABLES
    cell,       \* per key: [val, deadline, wait], what QStore has of it
    disk,       \* per key: [val, until], what LevelDB has of it
    now,
    restarts,
    undefined,  \* LoopCheck has used an iterator of an element it has erased
    latest,     \* history: [val, until], what the commands have left
    odd,        \* history: keys whose deadline, or absence, is not on disk
    evicted     \* history: keys evicted since they were last written

history == <<latest, odd, evicted>>
vars == <<cell, disk, now, restarts, undefined, history>>

None == 0
Nothing == [val |-> None, until |-> 0]
Copies == [val : 0 .. MaxValue, until : 0 .. MaxTime + 1]
Cells == [val : 0 .. MaxValue, deadline : 0 .. MaxTime + 1,
          wait : {"no", "value", "null"}]     \* in waitSyncKeys_: no, an object, null

Empty == [k \in Keys |-> [val |-> None, deadline |-> 0, wait |-> "no"]]

TypeOK ==
    /\ cell \in [Keys -> Cells] /\ disk \in [Keys -> Copies]
    /\ latest \in [Keys -> Copies] /\ odd \subseteq Keys /\ evicted \subseteq Keys
    /\ now \in 0 .. MaxTime /\ restarts \in 0 .. MaxRestarts
    /\ undefined \in BOOLEAN

Init ==
    /\ cell = Empty
    /\ disk = [k \in Keys |-> Nothing] /\ latest = disk
    /\ now = 1 /\ restarts = 0
    /\ undefined = FALSE /\ odd = {} /\ evicted = {}

Passed(until) == until \in 1 .. now

(***************************************************************************)
(* What QStore's functions make of one key.                                *)
(***************************************************************************)
DeleteKey(c) == [c EXCEPT !.val = None, !.wait = "null"]

ClearExpire(c) ==
    IF c.deadline = 0 THEN c ELSE [DeleteKey(c) EXCEPT !.deadline = 0]

ExpireIfNeed(c) == IF Passed(c.deadline) THEN ClearExpire(c) ELSE c

\* Mutant: a key that waits to be deleted is looked up on disk.
MissesThoughWaiting(k, c) ==
    /\ c.val = None
    /\ disk[k].val # None /\ ~Passed(disk[k].until)

\* A key that is missing in memory, not waiting, is loaded; its lru, which
\* carries the time it has left, is moved from before it is read.
Misses(k, c) ==
    /\ c.val = None /\ c.wait = "no"
    /\ disk[k].val # None /\ ~Passed(disk[k].until)

GetObject(k, c) == IF Misses(k, c) THEN [c EXCEPT !.val = disk[k].val] ELSE c

GetValue(k, c) == GetObject(k, ExpireIfNeed(c))

SetValue(c, v) == [c EXCEPT !.val = v, !.wait = "value"]

\* Mutant: what a command changed in place does not wait to be dumped.
DirtyIfMissing(k, c) ==
    IF GetValue(k, c).val = None THEN [c EXCEPT !.wait = "null"] ELSE c

\* Propogate's, after every command that writes.
AddDirtyKey(k, c) ==
    [GetValue(k, c) EXCEPT !.wait = IF GetValue(k, c).val = None THEN "null" ELSE "value"]

(***************************************************************************)
(* The commands.                                                           *)
(***************************************************************************)
\* What a command that reads k should see, and sees.
Expected(k) == IF Passed(latest[k].until) THEN None ELSE latest[k].val
View(k) == GetValue(k, cell[k]).val

\* The keys that lose their deadline when c is loaded for k.
LosesDeadline(k, c) == IF Misses(k, c) /\ disk[k].until # 0 THEN {k} ELSE {}

Get(k) ==
    /\ cell' = [cell EXCEPT ![k] = GetValue(k, @)]
    /\ odd' = odd \cup LosesDeadline(k, ExpireIfNeed(cell[k]))
    /\ UNCHANGED <<disk, now, restarts, undefined, latest, evicted>>

set(k, v) ==
    /\ cell' = [cell EXCEPT ![k] = AddDirtyKey(k, SetValue(ClearExpire(@), v))]
    /\ latest' = [latest EXCEPT ![k] = [val |-> v, until |-> 0]]
    /\ odd' = odd \ {k} /\ evicted' = evicted \ {k}
    /\ UNCHANGED <<disk, now, restarts, undefined>>

\* A set gets one more member in place, or is made; it keeps its deadline.
sadd(k) ==
    /\ Expected(k) < MaxValue /\ View(k) < MaxValue
    /\ \E c \in {GetValue(k, cell[k])} :
        cell' = [cell EXCEPT ![k] = AddDirtyKey(k,
            IF c.val = None THEN SetValue(c, 1) ELSE [c EXCEPT !.val = @ + 1])]
    /\ latest' = [latest EXCEPT ![k] =
            [val |-> Expected(k) + 1,
             until |-> IF Expected(k) = None THEN 0 ELSE @.until]]
    /\ odd' = odd \cup LosesDeadline(k, ExpireIfNeed(cell[k]))
    /\ UNCHANGED <<disk, now, restarts, undefined, evicted>>

\* A key that is not in memory keeps its deadline.
del(k) ==
    /\ cell' = [cell EXCEPT ![k] = AddDirtyKey(k,
            IF @.val = None THEN DeleteKey(@) ELSE ClearExpire(DeleteKey(@)))]
    /\ latest' = [latest EXCEPT ![k] = Nothing]
    /\ UNCHANGED <<disk, now, restarts, undefined, odd, evicted>>

\* EXPIRE finds a key whose deadline has passed, and is not propagated.
expire(k) ==
    \E c \in {GetObject(k, cell[k])} :
        /\ IF c.val = None
           THEN UNCHANGED <<cell, history>>
           ELSE /\ cell' = [cell EXCEPT ![k] = [c EXCEPT !.deadline = now + 1]]
                /\ latest' = [latest EXCEPT ![k].until = now + 1]
                /\ odd' = IF c.wait = "value" THEN odd ELSE odd \cup {k}
                /\ UNCHANGED evicted
        /\ UNCHANGED <<disk, now, restarts, undefined>>

\* Only memory is cleared, with FLUSHALL the deadlines too: what is dirty is
\* deleted by the next dump, what is not can be loaded again.
flush(all) ==
    /\ cell' = [k \in Keys |-> [cell[k] EXCEPT !.val = None,
                                               !.deadline = IF all THEN 0 ELSE @]]
    /\ latest' = [k \in Keys |-> Nothing]
    /\ odd' = odd \cup {k \in Keys : \/ cell[k].wait = "no" /\ disk[k].val # None
                                     \/ ~all /\ cell[k].deadline # 0}
    /\ UNCHANGED <<disk, now, restarts, undefined, evicted>>

(***************************************************************************)
(* The timers, and a restart.                                              *)
(***************************************************************************)
\* TTL looks for the key before it looks at the deadline.
Dumped(c) == IF c.val = None THEN c ELSE ExpireIfNeed(c)

DumpToBackends ==
    \E ks \in SUBSET {k \in Keys : cell[k].wait # "no"} :
        /\ ks # {}
        /\ \/ Cardinality(ks) = MaxSync
           \/ /\ Cardinality(ks) < MaxSync
              /\ \A k \in Keys \ ks : cell[k].wait = "no"
        /\ disk' = [k \in Keys |->
                IF k \notin ks THEN disk[k]
                ELSE IF Dumped(cell[k]).val = None \/ Dumped(cell[k]).wait = "null"
                     THEN Nothing
                     ELSE [val |-> cell[k].val, until |-> cell[k].deadline]]
        /\ cell' = [k \in Keys |->
                IF k \in ks THEN [Dumped(cell[k]) EXCEPT !.wait = "no"] ELSE cell[k]]
        /\ UNCHANGED <<now, restarts, undefined, history>>

EvictItems(k) ==
    /\ cell[k].val # None
    /\ cell' = [cell EXCEPT ![k] = DeleteKey(@)]
    /\ evicted' = evicted \cup {k}
    /\ UNCHANGED <<disk, now, restarts, undefined, latest, odd>>

\* LoopCheck propagates DEL before it erases: AddDirtyKey finds that the key
\* is due and erases the element that LoopCheck goes on to use.
LoopCheck ==
    /\ \E k \in Keys : Passed(cell[k].deadline)
    /\ undefined' = TRUE
    /\ UNCHANGED <<cell, disk, now, restarts, history>>

Tick ==
    /\ now < MaxTime /\ now' = now + 1
    /\ UNCHANGED <<cell, disk, restarts, undefined, history>>

\* With a backend neither the RDB file nor the append-only file is loaded:
\* what waited is lost, and what is on disk is what there is of it.
Restart ==
    /\ restarts < MaxRestarts /\ restarts' = restarts + 1
    /\ cell' = Empty
    /\ latest' = [k \in Keys |->
            IF cell[k].wait = "no" /\ k \notin odd \cup evicted THEN latest[k] ELSE disk[k]]
    /\ odd' = {} /\ evicted' = {}
    /\ UNCHANGED <<disk, now, undefined>>

Next ==
    /\ ~undefined
    /\ \/ \E k \in Keys : \/ Get(k) \/ sadd(k) \/ del(k) \/ expire(k)
                          \/ \E v \in 1 .. MaxValue : set(k, v)
                          \/ EvictItems(k)
       \/ \E all \in BOOLEAN : flush(all)
       \/ DumpToBackends \/ LoopCheck \/ Tick \/ Restart

Spec == Init /\ [][Next]_vars

(***************************************************************************)
(* Properties                                                              *)
(***************************************************************************)
Sees(k) == View(k) = Expected(k)

\* A command sees what the latest commands have left, from memory or from disk,
\* dumped or not, after a restart too; but for keys that were evicted, and keys
\* whose deadline or whose FLUSHDB never reached the disk.
ReadsTheLatest == undefined \/ \A k \in Keys \ (odd \cup evicted) : Sees(k)

\* qedis.conf:418: "Try use leveldb for real storage, qedis as cache.  The cache
\* algorithm is like linux page cache": what the cache evicts is still stored.
EvictedIsStored == undefined \/ \A k \in evicted \ odd : Sees(k)
=============================================================================
