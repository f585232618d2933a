---------------------------- MODULE QReplication ----------------------------
(***************************************************************************)
(* The master's side of replication, with the child processes it shares     *)
(* with the other roads to a background save.                               *)
(*                                                                         *)
(* A replica that sends SYNC waits for a background save to start, then for *)
(* its end; it is then sent the RDB file and the writes buffered since the  *)
(* fork, and is online: it is sent every write as it is made.  The savers   *)
(* are forked by SYNC, by BGSAVE and by the cron; BGREWRITEAOF forks a      *)
(* fourth kind of child.  CheckChild reaps them one at a time.              *)
(*                                                                         *)
(* A write is its number, the data set is the number of writes made, and    *)
(* what a replica was sent is a sequence of writes, an RDB file standing    *)
(* for the writes it holds.                                                 *)
(***************************************************************************)
EXTENDS Integers, Sequences, FiniteSets

CONSTANTS Slaves,       \* connections of replicas
          Roads,        \* the children in use: "sync", "bgsave", "cron", "rewrite"
          MayFail,      \* what may fail: "fork", "child"
          MaxWrites,    \* bound: writes
          MaxPid,       \* bound: forks
          None          \* -1: no process, no file

ASSUME BoundsAssumption == MaxWrites \in Nat /\ MaxPid \in Nat
ASSUME RoadsAssumption == Roads \subseteq {"sync", "bgsave", "cron", "rewrite"}
ASSUME MayFailAssumption == MayFail \subseteq {"fork", "child"}
ASSUME NoneAssumption == None \notin Nat

Writes == 1..MaxWrites
Pids == 1..MaxPid
States == {"none", "wait_start", "wait_end", "online"}

VARIABLES
    connected,  \* the replicas whose connection is up
    slaveState, \* QSlaveInfo::state
    bgsaving,   \* QReplication::bgsaving_
    buffer,     \* QReplication::buffer_
    stream,     \* what the connection was sent
    writes,     \* the number of writes made
    dirty,      \* QStore::dirty_
    qdbPid,     \* g_qdbPid
    rewritePid, \* g_rewritePid
    lastPid,    \* the pid of the last fork
    children,   \* the processes forked and not reaped
    rdb,        \* the writes in the RDB file
    crashed,    \* an assertion failed
    missed      \* history: writes made while bgsaving_ and the replica online

slaveVars == <<connected, slaveState, stream>>
saveVars == <<bgsaving, buffer>>
dataVars == <<writes, dirty, missed>>
childVars == <<qdbPid, rewritePid, lastPid, children>>
vars == <<slaveVars, saveVars, dataVars, childVars, rdb, crashed>>

Child == [pid : Pids, rewrite : BOOLEAN, snapshot : 0..MaxWrites,
          status : {"running", "ok", "failed"}]

TypeOK ==
    /\ connected \subseteq Slaves
    /\ slaveState \in [Slaves -> States]
    /\ bgsaving \in BOOLEAN
    /\ buffer \in Seq(Writes)
    /\ stream \in [Slaves -> Seq(Writes)]
    /\ writes \in 0..MaxWrites
    /\ dirty \in 0..MaxWrites
    /\ qdbPid \in Pids \cup {None}
    /\ rewritePid \in Pids \cup {None}
    /\ lastPid \in 0..MaxPid
    /\ children \subseteq Child
    /\ rdb \in 0..MaxWrites \cup {None}
    /\ crashed \in BOOLEAN
    /\ missed \in [Slaves -> SUBSET Writes]

Init ==
    /\ connected = Slaves
    /\ slaveState = [s \in Slaves |-> "none"]
    /\ bgsaving = FALSE
    /\ buffer = <<>>
    /\ stream = [s \in Slaves |-> <<>>]
    /\ writes = 0
    /\ dirty = 0
    /\ qdbPid = None
    /\ rewritePid = None
    /\ lastPid = 0
    /\ children = {}
    /\ rdb \in {None, 0}
    /\ crashed = FALSE
    /\ missed = [s \in Slaves |-> {}]

-----------------------------------------------------------------------------
(***************************************************************************)
(* Processes.                                                              *)
(***************************************************************************)

Forked(rewrite) ==
    [pid |-> lastPid + 1, rewrite |-> rewrite, snapshot |-> writes,
     status |-> "running"]

\* A successful fork, with the children that others has left.
Fork(rewrite, others) ==
    /\ lastPid < MaxPid
    /\ lastPid' = lastPid + 1
    /\ children' = others \cup {Forked(rewrite)}

\* The child ends: a saver renames its file to the RDB file last.
ChildExit(p) ==
    /\ p.status = "running"
    /\ \/ /\ children' = (children \ {p}) \cup {[p EXCEPT !.status = "ok"]}
          /\ rdb' = IF p.rewrite THEN rdb ELSE p.snapshot
       \/ /\ "child" \in MayFail
          /\ children' = (children \ {p}) \cup {[p EXCEPT !.status = "failed"]}
          /\ UNCHANGED rdb
    /\ UNCHANGED <<slaveVars, saveVars, dataVars, qdbPid, rewritePid, lastPid,
                   crashed>>

-----------------------------------------------------------------------------
(***************************************************************************)
(* Background saves for replicas.                                          *)
(***************************************************************************)

Waiting(state, st) == {s \in connected : state[s] = st}

\* TryBgsave, with the replicas in the states of state and the children left
\* in others.  It asks for no other saver's pid.
TryBgsave(state, others) ==
    LET waiting == Waiting(state, "wait_start")
    IN  \/ /\ bgsaving \/ waiting = {}
           /\ slaveState' = state
           /\ children' = others
           /\ UNCHANGED <<connected, stream, saveVars, lastPid>>
        \/ /\ ~bgsaving /\ waiting # {}
           /\ Fork(FALSE, others)
           /\ bgsaving' = TRUE
           /\ buffer' = <<>>
           /\ slaveState' = [s \in Slaves |-> IF s \in waiting THEN "wait_end"
                                              ELSE state[s]]
           /\ UNCHANGED <<connected, stream>>
        \/ /\ ~bgsaving /\ waiting # {} /\ "fork" \in MayFail
           /\ buffer' = <<>>
           /\ connected' = connected \ waiting
           /\ slaveState' = [s \in Slaves |-> IF s \in waiting THEN "none"
                                              ELSE state[s]]
           /\ stream' = [s \in Slaves |-> IF s \in waiting THEN <<>> ELSE stream[s]]
           /\ children' = others
           /\ UNCHANGED <<bgsaving, lastPid>>

\* g_qdbPid after TryBgsave, when it was pid before: the new saver's, whoever
\* else had it.
PidAfterTry(pid) == qdbPid' = IF lastPid' # lastPid THEN lastPid' ELSE pid

FileContents == IF rdb = None THEN <<>> ELSE [i \in 1..rdb |-> i]

\* Mutants of OnRdbSaveDone: the buffer goes out before the file, is not sent,
\* is not cleared, and only the first replica is served.
SendRdb(ready, contents, left) ==
    /\ bgsaving' = FALSE
    /\ slaveState' = [s \in Slaves |-> IF s \in ready THEN "online" ELSE slaveState[s]]
    /\ stream' = [s \in Slaves |-> IF s \in ready THEN contents ELSE stream[s]]
    /\ buffer' = left
    /\ UNCHANGED connected

OnRdbSaveDoneBufferFirst ==
    SendRdb(Waiting(slaveState, "wait_end"), buffer \o FileContents, <<>>)

OnRdbSaveDoneFileOnly ==
    SendRdb(Waiting(slaveState, "wait_end"), FileContents, <<>>)

OnRdbSaveDoneKeepsBuffer ==
    SendRdb(Waiting(slaveState, "wait_end"), FileContents \o buffer, buffer)

OnRdbSaveDoneServesOne ==
    LET ready == Waiting(slaveState, "wait_end")
    IN  IF ready = {} THEN SendRdb({}, <<>>, <<>>)
        ELSE \E s \in ready : SendRdb({s}, FileContents \o buffer, <<>>)

\* OnRdbSaveDone.  A replica is put online before the file is opened, and a
\* file that cannot be opened ends the loop.
OnRdbSaveDone ==
    LET ready == Waiting(slaveState, "wait_end")
    IN  /\ bgsaving' = FALSE
        /\ UNCHANGED connected
        /\ IF rdb # None \/ ready = {}
           THEN /\ slaveState' = [s \in Slaves |-> IF s \in ready THEN "online"
                                                   ELSE slaveState[s]]
                /\ stream' = [s \in Slaves |-> IF s \in ready
                                 THEN FileContents \o buffer ELSE stream[s]]
                /\ buffer' = <<>>
           ELSE /\ \E s \in ready : slaveState' = [slaveState EXCEPT ![s] = "online"]
                /\ UNCHANGED <<stream, buffer>>

Sync(s) ==
    /\ "sync" \in Roads
    /\ ~crashed /\ s \in connected
    /\ slaveState[s] \in {"none", "wait_start"}
    /\ TryBgsave([slaveState EXCEPT ![s] = "wait_start"], children)
    /\ PidAfterTry(qdbPid)
    /\ UNCHANGED <<dataVars, rewritePid, rdb, crashed>>

-----------------------------------------------------------------------------
(***************************************************************************)
(* The other roads to a child.                                             *)
(***************************************************************************)

\* BGSAVE, and a fork that fails changes nothing.
Bgsave ==
    /\ "bgsave" \in Roads /\ ~crashed
    /\ qdbPid = None /\ rewritePid = None
    /\ Fork(FALSE, children)
    /\ qdbPid' = lastPid'
    /\ UNCHANGED <<slaveVars, saveVars, dataVars, rewritePid, rdb, crashed>>

\* SAVE writes the file itself.
Save ==
    /\ "bgsave" \in Roads /\ ~crashed
    /\ qdbPid = None /\ rewritePid = None
    /\ rdb' = writes
    /\ UNCHANGED <<slaveVars, saveVars, dataVars, childVars, crashed>>

\* The server's cron, with a save point of one change; it may run at any time.
QdbCron ==
    /\ "cron" \in Roads /\ ~crashed
    /\ qdbPid = None
    /\ dirty >= 1
    /\ Fork(FALSE, children)
    /\ qdbPid' = lastPid'
    /\ UNCHANGED <<slaveVars, saveVars, dataVars, rewritePid, rdb, crashed>>

BgRewriteAof ==
    /\ "rewrite" \in Roads /\ ~crashed
    /\ rewritePid = None
    /\ Fork(TRUE, children)
    /\ rewritePid' = lastPid'
    /\ UNCHANGED <<slaveVars, saveVars, dataVars, qdbPid, rdb, crashed>>

-----------------------------------------------------------------------------
(***************************************************************************)
(* The end of a child.                                                     *)
(***************************************************************************)

\* SaveDoneHandler, then OnRdbSaveDone or TryBgsave.
SaveDone(p) ==
    /\ p.pid = qdbPid
    /\ dirty' = IF p.status = "ok" THEN 0 ELSE dirty
    /\ IF bgsaving
       THEN /\ OnRdbSaveDone
            /\ children' = children \ {p}
            /\ qdbPid' = None
            /\ UNCHANGED lastPid
       ELSE TryBgsave(slaveState, children \ {p}) /\ PidAfterTry(None)
    /\ UNCHANGED <<rewritePid, crashed>>

RewriteDone(p) ==
    /\ p.pid # qdbPid /\ p.pid = rewritePid
    /\ rewritePid' = None
    /\ children' = children \ {p}
    /\ UNCHANGED <<slaveVars, saveVars, dirty, qdbPid, lastPid, crashed>>

\* assert (!!!"Is there any back process except rdb and aof?")
UnknownChild(p) ==
    /\ p.pid \notin {qdbPid, rewritePid}
    /\ crashed' = TRUE
    /\ children' = children \ {p}
    /\ UNCHANGED <<slaveVars, saveVars, dirty, qdbPid, rewritePid, lastPid>>

CheckChild(p) ==
    /\ ~crashed
    /\ {qdbPid, rewritePid} # {None}
    /\ p.status # "running"
    /\ SaveDone(p) \/ RewriteDone(p) \/ UnknownChild(p)
    /\ UNCHANGED <<writes, missed, rdb>>

-----------------------------------------------------------------------------
(***************************************************************************)
(* Writes and connections.                                                 *)
(***************************************************************************)

\* A client's write, propagated by SendToSlaves.
SendToSlaves ==
    /\ ~crashed /\ writes < MaxWrites
    /\ writes' = writes + 1
    /\ dirty' = dirty + 1
    /\ IF bgsaving
       THEN /\ buffer' = Append(buffer, writes')
            /\ missed' = [s \in Slaves |-> IF s \in Waiting(slaveState, "online")
                            THEN missed[s] \cup {writes'} ELSE missed[s]]
            /\ UNCHANGED stream
       ELSE /\ stream' = [s \in Slaves |-> IF s \in Waiting(slaveState, "online")
                            THEN Append(stream[s], writes') ELSE stream[s]]
            /\ UNCHANGED <<buffer, missed>>
    /\ UNCHANGED <<connected, slaveState, bgsaving, childVars, rdb, crashed>>

\* The connection is lost; slaves_ holds a weak pointer, which locks no more.
Disconnect(s) ==
    /\ ~crashed /\ s \in connected
    /\ connected' = connected \ {s}
    /\ slaveState' = [slaveState EXCEPT ![s] = "none"]
    /\ stream' = [stream EXCEPT ![s] = <<>>]
    /\ missed' = [missed EXCEPT ![s] = {}]
    /\ UNCHANGED <<saveVars, writes, dirty, childVars, rdb, crashed>>

Connect(s) ==
    /\ ~crashed /\ s \notin connected
    /\ connected' = connected \cup {s}
    /\ UNCHANGED <<slaveState, stream, saveVars, dataVars, childVars, rdb, crashed>>

Next ==
    \/ \E s \in Slaves : Sync(s) \/ Disconnect(s) \/ Connect(s)
    \/ SendToSlaves
    \/ Bgsave \/ Save \/ QdbCron \/ BgRewriteAof
    \/ \E p \in children : ChildExit(p) \/ CheckChild(p)

Spec == Init /\ [][Next]_vars

\* The operating system runs every child to its end and the main loop calls
\* CheckChild on every turn, so each is fair.
FairSpec ==
    /\ Spec
    /\ WF_vars(\E p \in children : ChildExit(p))
    /\ WF_vars(\E p \in children : CheckChild(p))

-----------------------------------------------------------------------------
(***************************************************************************)
(* Properties.                                                             *)
(***************************************************************************)

Range(q) == {q[i] : i \in DOMAIN q}

\* A replica is sent each write at most once and in the order of the master,
\* across the file, the buffer and the online stream.
InOrder ==
    \A s \in Slaves : \A i, j \in DOMAIN stream[s] :
        i < j => stream[s][i] < stream[s][j]

\* An online replica was sent every write but those made while it was online
\* and a save for another replica ran: SendToSlaves then only fills the buffer.
MissesOnlyDuringSaves ==
    \A s \in Waiting(slaveState, "online") :
        Range(stream[s]) = (1..writes) \ missed[s]

\* A replica that waits for the end of a save waits for a child that
\* CheckChild will know by its pid.
WaiterHasSaver ==
    ~crashed /\ Waiting(slaveState, "wait_end") # {} =>
        bgsaving /\ \E p \in children : p.pid = qdbPid

\* Between saves the buffer is empty, so no buffered write reaches a replica
\* of a later save.
BufferOnlyWhileSaving == buffer # <<>> => bgsaving

\* A replica that waits for the end of a save comes online or loses its
\* connection: no save ends and leaves a replica behind.
WaiterComesOnline ==
    \A s \in Slaves : slaveState[s] = "wait_end" ~> slaveState[s] # "wait_end"

\* CheckChild's assertion: every child is the RDB saver's or the rewriter's.
EveryChildIsKnown == ~crashed

=============================================================================
