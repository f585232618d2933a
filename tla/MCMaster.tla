------------------------------ MODULE MCMaster ------------------------------
(***************************************************************************)
(* What a master does for its clients and its replicas: transactions        *)
(* (QMulti), once with the commands that write two keys of one database,    *)
(* once with those that reach a second one and once with queues of two, and *)
(* the savers that feed its replicas (QReplication), by every road that     *)
(* leads to one and with every failure.  One of the four runs, chosen at    *)
(* the start.                                                               *)
(***************************************************************************)
EXTENDS QMulti, TLC

CONSTANTS c1, c2, k1, k2, r1, r2,
          Slaves, Roads, MayFail, MaxWrites, MaxPid     \* of QReplication

ASSUME ReplicationAssumption ==
    /\ MaxWrites \in Nat /\ MaxPid \in Nat /\ None \notin Nat
    /\ Roads \subseteq {"sync", "bgsave", "cron", "rewrite"}
    /\ MayFail \subseteq {"fork", "child"}

TwoClients == {c1, c2}
TwoKeys == {k1, k2}
TwoSlaves == {r1, r2}
Symmetry == Permutations(TwoClients) \cup Permutations(TwoSlaves)

\* Writes in one database: MSET has two dirty keys, RENAME names only its
\* first, FLUSHDB none.
KeyedWrites == {[op |-> "mset", key |-> k1, to |-> k2],
                [op |-> "rename", key |-> k1, to |-> k2],
                [op |-> "flushdb"]}

\* Commands that reach a second database, all about one key.
DbCommands == {[op |-> "set", key |-> k1, to |-> k1],
               [op |-> "move", key |-> k1, to |-> 1],
               [op |-> "select", to |-> 1],
               [op |-> "flushall"]}

\* Two commands whose order a queue must keep.
QueuedCommands == {[op |-> "set", key |-> k1, to |-> k1], [op |-> "flushdb"]}

AllCommands == KeyedWrites \cup DbCommands

VARIABLE part      \* what runs, chosen at the start

K == INSTANCE QMulti WITH Commands <- KeyedWrites
D == INSTANCE QMulti WITH Commands <- DbCommands
Q == INSTANCE QMulti WITH Commands <- QueuedCommands

VARIABLES connected, slaveState, bgsaving, buffer, stream, writes, dirty,
          qdbPid, rewritePid, lastPid, children, rdb, crashed, missed
replicationVars == <<connected, slaveState, bgsaving, buffer, stream, writes,
                     dirty, qdbPid, rewritePid, lastPid, children, rdb,
                     crashed, missed>>
R == INSTANCE QReplication

Begins ==
    /\ part \in {"keys", "dbs", "queue", "savers"} /\ Init
    /\ R!Init /\ (part = "savers" \/ rdb = None)

\* What the parts leave to each other: only one of them fills a queue of MaxQueue.
OneIsQueued == \A c \in Clients : Len(acked'[c]) <= 1

Goes ==
    \/ /\ part = "keys" /\ K!Next
       /\ OneIsQueued
       /\ UNCHANGED <<part, replicationVars>>
    \/ /\ part = "dbs" /\ D!Next
       /\ OneIsQueued
       /\ \A c \in Clients : /\ watchKeys'[c] \subseteq Dbs \X {k1}
                            /\ "wrongExec" \notin flag'[c]
       /\ UNCHANGED <<part, replicationVars>>
    \/ /\ part = "queue" /\ Q!Next
       /\ \A c \in Clients : watchKeys'[c] \subseteq Dbs \X {k1}
       /\ UNCHANGED <<part, replicationVars>>
    \/ /\ part = "savers" /\ R!Next
       /\ UNCHANGED <<part, vars>>

all == <<part, vars, replicationVars>>

Master == Begins /\ [][Goes]_all

\* Whatever road leads to a saver, and whatever fails, a replica that is online is
\* sent each write at most once and in order, over the file, the buffer and the
\* stream.  That no write is left out is not said: SendToSlaves leaves out those made
\* while another replica's save runs (QReplication.cc:157).
SlavesInOrder == R!InOrder
=============================================================================
