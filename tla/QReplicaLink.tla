---------------------------- MODULE QReplicaLink ----------------------------
(***************************************************************************)
(* The replica's side of replication: the state of the link to the master   *)
(* (QReplication::Cron, slaveof), the connection it runs over               *)
(* (QClient::OnConnect, ProcessMaster) and the callback of a failed one.    *)
(*                                                                         *)
(* The logic thread runs Cron every 1500 ms and handles SLAVEOF, new        *)
(* connections and packets in between.  A connect that ends, or a           *)
(* connection that fails, is seen by a network thread, which calls the      *)
(* callback itself, also while Cron runs: so Cron is two steps, what it     *)
(* reads and sends (CronBegin) and the state it then writes (CronEnd).      *)
(*                                                                         *)
(* The master is external: it answers AUTH and REPLCONF with +OK and SYNC   *)
(* with the size and the body of an RDB file; commands follow.              *)
(***************************************************************************)
EXTENDS Integers, Sequences

CONSTANTS Masters,      \* addresses of servers
          Conns,        \* connections, reused
          UsesAuth,     \* masterauth is configured
          MaxSlaveofs,  \* bound: SLAVEOF commands
          MaxFails,     \* bound: failed connects and connections
          MaxSends,     \* bound: commands propagated by masters
          None          \* no address, no connection

ASSUME NoneAssumption == None \notin Masters /\ None \notin Conns
ASSUME UsesAuthAssumption == UsesAuth \in BOOLEAN
ASSUME BoundsAssumption == {MaxSlaveofs, MaxFails, MaxSends} \subseteq Nat

States == {"none", "connecting", "connected", "wait_auth", "wait_replconf",
           "wait_rdb", "online"}
Messages == {"ok", "size", "body", "command"}

VARIABLES
    addr,       \* masterInfo_.addr
    state,      \* masterInfo_.state
    sizeKnown,  \* masterInfo_.rdbSize is not -1
    master,     \* master_, when it locks
    conn,       \* the connections
    cron,       \* the state Cron will write, or idle
    crashed,    \* an assertion failed
    loaded,     \* history: the master whose RDB file was loaded
    overwritten,\* history: Cron wrote over the state a callback had set
    doubled,    \* history: a late connect to the master gave a second connection
    used        \* the bounds' counters

linkVars == <<addr, state, sizeKnown, master>>
history == <<loaded, overwritten, doubled>>
vars == <<linkVars, conn, cron, crashed, history, used>>

\* phase: connecting, accepted (a new task of the logic thread) or up; bad:
\* Socket::invalid_; flag: ClientFlag_master; callback: it has an onDisconnect_.
Connection ==
    [peer : Masters \cup {None}, phase : {"free", "connecting", "accepted", "up"},
     bad : BOOLEAN, flag : BOOLEAN, auth : BOOLEAN, callback : BOOLEAN,
     syncs : Nat, inbox : Seq(Messages)]

NoConnection == [peer |-> None, phase |-> "free", bad |-> FALSE, flag |-> FALSE,
                 auth |-> FALSE, callback |-> FALSE, syncs |-> 0, inbox |-> <<>>]

TypeOK ==
    /\ addr \in Masters \cup {None}
    /\ state \in States
    /\ sizeKnown \in BOOLEAN
    /\ master \in Conns \cup {None}
    /\ conn \in [Conns -> Connection]
    /\ master # None => conn[master].phase = "up" /\ conn[master].flag
    /\ cron \in States \cup {"idle"}
    /\ crashed \in BOOLEAN
    /\ loaded \in Masters \cup {None}
    /\ overwritten \in BOOLEAN /\ doubled \in BOOLEAN
    /\ used \in [slaveofs : 0..MaxSlaveofs, fails : 0..MaxFails, sends : 0..MaxSends]

Init ==
    /\ addr = None
    /\ state = "none"
    /\ sizeKnown = FALSE
    /\ master = None
    /\ conn = [i \in Conns |-> NoConnection]
    /\ cron = "idle"
    /\ crashed = FALSE
    /\ loaded = None
    /\ overwritten = FALSE /\ doubled = FALSE
    /\ used = [slaveofs |-> 0, fails |-> 0, sends |-> 0]

LogicThread == cron = "idle" /\ ~crashed

-----------------------------------------------------------------------------
(***************************************************************************)
(* SLAVEOF.  The connection to the old master, if any, is left to Cron.     *)
(***************************************************************************)

CountSlaveof ==
    /\ used.slaveofs < MaxSlaveofs
    /\ used' = [used EXCEPT !.slaveofs = @ + 1]

\* Mutant: the state of the old link is taken over.
SlaveOfKeepsState(m) ==
    /\ LogicThread /\ addr # m /\ CountSlaveof
    /\ addr' = m
    /\ UNCHANGED <<state, sizeKnown, master, conn, cron, crashed, history>>

SlaveOf(m) ==
    /\ LogicThread /\ addr # m /\ CountSlaveof
    /\ addr' = m
    /\ state' = "none"
    /\ UNCHANGED <<sizeKnown, master, conn, cron, crashed, history>>

SlaveOfNoOne ==
    /\ LogicThread /\ addr # None /\ CountSlaveof
    /\ addr' = None
    /\ UNCHANGED <<state, sizeKnown, master, conn, cron, crashed, history>>

-----------------------------------------------------------------------------
(***************************************************************************)
(* Cron.                                                                   *)
(***************************************************************************)

\* The connections once m has met OnError, and those once it was sent to.
Broken(m) == IF m = None THEN conn ELSE [conn EXCEPT ![m].bad = TRUE]

Sent(m, answer) ==
    [conn EXCEPT ![m].inbox = IF conn[m].bad THEN @ ELSE @ \o answer]

Synced(m) == [conn EXCEPT ![m].syncs = @ + 1]

WillWrite(s) == cron' = s

\* Mutant: the connection to the previous master is left open.
ConnectLeavesOld ==
    \E i \in Conns :
        /\ conn[i].phase = "free"
        /\ conn' = [conn EXCEPT ![i] = [NoConnection EXCEPT !.peer = addr,
                                          !.phase = "connecting", !.callback = TRUE]]
        /\ WillWrite("connecting")
        /\ UNCHANGED sizeKnown

\* In state none: leave the previous master, start a connect.  The callback of
\* the previous one sets the state it has.
Connect ==
    \E i \in Conns :
        /\ conn[i].phase = "free"
        /\ conn' = [Broken(master) EXCEPT ![i] = [NoConnection EXCEPT !.peer = addr,
                                          !.phase = "connecting", !.callback = TRUE]]
        /\ WillWrite("connecting")
        /\ UNCHANGED sizeKnown

SendAuth ==
    /\ conn' = Sent(master, <<"ok">>)
    /\ WillWrite("wait_auth")
    /\ UNCHANGED sizeKnown

\* REPLCONF is sent once the connection is authenticated; until then Cron warns.
SendReplconf ==
    /\ conn[master].auth
    /\ conn' = Sent(master, <<"ok">>)
    /\ WillWrite("wait_replconf")
    /\ UNCHANGED sizeKnown

\* Mutant: waits for the file before it is asked for.
SendSyncNot ==
    /\ UNCHANGED conn
    /\ sizeKnown' = FALSE
    /\ WillWrite("wait_rdb")

\* SYNC follows REPLCONF by one Cron, whether or not +OK has come.
SendSync ==
    /\ conn' = Synced(master)
    /\ sizeKnown' = FALSE
    /\ WillWrite("wait_rdb")

MasterDown == WillWrite("none") /\ UNCHANGED <<conn, sizeKnown>>

\* addr is cleared: the connection is closed without a callback.
LeaveMaster ==
    /\ conn' = IF master = None THEN conn
               ELSE [conn EXCEPT ![master].bad = TRUE, ![master].callback = FALSE]
    /\ WillWrite("none")
    /\ UNCHANGED sizeKnown

WithMaster ==
    \/ state = "connected" /\ UsesAuth /\ SendAuth
    \/ state = "connected" /\ ~UsesAuth /\ SendReplconf
    \/ state = "wait_auth" /\ SendReplconf
    \/ state = "wait_replconf" /\ SendSync

\* In wait_rdb Cron does not look whether the master is still there.
CronBegin ==
    /\ LogicThread
    /\ \/ addr = None /\ state # "none" /\ LeaveMaster
       \/ addr # None /\ state = "none" /\ Connect
       \/ addr # None /\ master # None /\ WithMaster
       \/ /\ addr # None /\ master = None
          /\ state \in {"connected", "wait_auth", "wait_replconf", "online"}
          /\ MasterDown
    /\ UNCHANGED <<addr, state, master, crashed, history, used>>

CronEnd ==
    /\ cron # "idle" /\ ~crashed
    /\ state' = cron
    /\ cron' = "idle"
    /\ UNCHANGED <<addr, sizeKnown, master, conn, crashed, history, used>>

-----------------------------------------------------------------------------
(***************************************************************************)
(* Network threads, and the logic thread's list of connections.            *)
(***************************************************************************)

\* A connect succeeds: the new socket inherits the callback.
Connected(i) ==
    /\ ~crashed /\ conn[i].phase = "connecting"
    /\ conn' = [conn EXCEPT ![i].phase = "accepted"]
    /\ UNCHANGED <<linkVars, cron, crashed, history, used>>

\* Mutant: nobody is called back.
FailTellsNobody(i) ==
    /\ ~crashed /\ conn[i].phase # "free" /\ ~conn[i].bad
    /\ used.fails < MaxFails
    /\ used' = [used EXCEPT !.fails = @ + 1]
    /\ conn' = [conn EXCEPT ![i] = IF @.phase = "connecting" THEN NoConnection
                                   ELSE [@ EXCEPT !.bad = TRUE]]
    /\ UNCHANGED <<linkVars, cron, crashed, history>>

\* A connect or a connection fails.  The callback sets the state whichever
\* connection it is of.
Fail(i) ==
    /\ ~crashed /\ conn[i].phase # "free" /\ ~conn[i].bad
    /\ used.fails < MaxFails
    /\ used' = [used EXCEPT !.fails = @ + 1]
    /\ conn' = [conn EXCEPT ![i] = IF @.phase = "connecting" THEN NoConnection
                                   ELSE [@ EXCEPT !.bad = TRUE]]
    /\ state' = IF conn[i].callback THEN "none" ELSE state
    /\ overwritten' = (overwritten \/ (conn[i].callback /\ cron # "idle"))
    /\ UNCHANGED <<addr, sizeKnown, master, cron, crashed, loaded, doubled>>

MasterIsUp == \E j \in Conns : conn[j].flag /\ ~conn[j].bad

\* OnConnect of a new task.  One gone bad meanwhile is dropped in the same pass
\* over the connections, so it is nobody's master when Cron looks.
OnConnect(i) ==
    /\ LogicThread /\ conn[i].phase = "accepted"
    /\ conn' = [conn EXCEPT ![i] =
                   IF @.bad THEN NoConnection
                   ELSE [@ EXCEPT !.phase = "up", !.flag = (conn[i].peer = addr),
                                  !.auth = (conn[i].peer = addr /\ ~UsesAuth)]]
    /\ IF conn[i].peer = addr
       THEN /\ state' = "connected"
            /\ master' = IF conn[i].bad THEN None ELSE i
            /\ doubled' = (doubled \/ (state # "connecting" /\ MasterIsUp))
       ELSE UNCHANGED <<state, master, doubled>>
    /\ UNCHANGED <<addr, sizeKnown, cron, crashed, loaded, overwritten, used>>

\* Mutant: the connection is held on to.
DoMsgParseKeepsMaster(i) ==
    /\ LogicThread /\ conn[i].phase = "up" /\ conn[i].bad
    /\ conn' = [conn EXCEPT ![i] = NoConnection]
    /\ UNCHANGED <<linkVars, cron, crashed, history, used>>

\* DoMsgParse drops a bad connection, and master_ locks no more.
DoMsgParse(i) ==
    /\ LogicThread /\ conn[i].phase = "up" /\ conn[i].bad
    /\ conn' = [conn EXCEPT ![i] = NoConnection]
    /\ master' = IF master = i THEN None ELSE master
    /\ UNCHANGED <<addr, state, sizeKnown, cron, crashed, history, used>>

-----------------------------------------------------------------------------
(***************************************************************************)
(* The master's messages.                                                  *)
(***************************************************************************)

\* The master has saved its file, and sends it after what it sent before.
MasterSendsRdb(i) ==
    /\ ~crashed /\ conn[i].phase = "up" /\ ~conn[i].bad
    /\ conn[i].syncs = 1
    /\ conn' = [conn EXCEPT ![i].inbox = @ \o <<"size", "body">>, ![i].syncs = 2]
    /\ UNCHANGED <<linkVars, cron, crashed, history, used>>

MasterSendsCommand(i) ==
    /\ ~crashed /\ conn[i].phase = "up" /\ ~conn[i].bad
    /\ conn[i].syncs = 2 /\ used.sends < MaxSends
    /\ conn' = [conn EXCEPT ![i].inbox = Append(@, "command")]
    /\ used' = [used EXCEPT !.sends = @ + 1]
    /\ UNCHANGED <<linkVars, cron, crashed, history>>

Consume(i, rest) == conn' = [conn EXCEPT ![i].inbox = rest]

AssertFails ==
    /\ crashed' = TRUE
    /\ UNCHANGED <<linkVars, conn, loaded>>

\* wait_rdb: the size, then the body, after which the file is loaded.  Anything
\* before the size is skipped.
RecvRdb(i, m, rest) ==
    /\ Consume(i, rest)
    /\ sizeKnown' = (sizeKnown \/ m = "size")
    /\ IF sizeKnown /\ m = "body"
       THEN state' = "online" /\ loaded' = conn[i].peer
       ELSE UNCHANGED <<state, loaded>>
    /\ UNCHANGED <<addr, master, crashed>>

\* What state wants of a message; assert(!!!"wrong master state") in the others.
Wanted(m) ==
    \/ state \in {"connected", "wait_rdb", "online"}
    \/ state \in {"wait_auth", "wait_replconf"} /\ m = "ok"

\* All that has come before the replica asked for anything is dropped.
ProcessMaster(i, m, rest) ==
    \/ Wanted(m) /\ state = "wait_rdb" /\ RecvRdb(i, m, rest)
    \/ /\ Wanted(m) /\ state # "wait_rdb"
       /\ conn' = [conn EXCEPT ![i].inbox = IF state = "connected" THEN <<>> ELSE rest,
                               ![i].auth = @ \/ state = "wait_auth"]
       /\ UNCHANGED <<linkVars, crashed, loaded>>
    \/ ~Wanted(m) /\ AssertFails

\* A packet is the master's if it comes from the address of the master.  One of
\* a former master is executed as a client's.
HandlePacket(i) ==
    /\ LogicThread
    /\ conn[i].phase = "up" /\ ~conn[i].bad /\ conn[i].inbox # <<>>
    /\ LET m == Head(conn[i].inbox)
           rest == Tail(conn[i].inbox)
       IN  IF conn[i].peer = addr THEN ProcessMaster(i, m, rest)
           ELSE Consume(i, rest) /\ UNCHANGED <<linkVars, crashed, loaded>>
    /\ UNCHANGED <<cron, overwritten, doubled, used>>

Next ==
    \/ \E m \in Masters : SlaveOf(m)
    \/ SlaveOfNoOne
    \/ CronBegin \/ CronEnd
    \/ \E i \in Conns :
         \/ Connected(i) \/ Fail(i) \/ OnConnect(i) \/ DoMsgParse(i)
         \/ MasterSendsRdb(i) \/ MasterSendsCommand(i) \/ HandlePacket(i)

Spec == Init /\ [][Next]_vars

\* Cron runs by a timer; the main loop takes the new connections, drops the bad
\* ones and handles what has come; a connect ends one way or the other, and a
\* master that was asked for its file sends it.
FairSpec ==
    /\ Spec
    /\ WF_vars(CronBegin) /\ WF_vars(CronEnd)
    /\ \A i \in Conns :
         /\ WF_vars(Connected(i))
         /\ WF_vars(OnConnect(i))
         /\ WF_vars(DoMsgParse(i))
         /\ WF_vars(MasterSendsRdb(i))
         /\ WF_vars(HandlePacket(i))

-----------------------------------------------------------------------------
(***************************************************************************)
(* Properties.                                                             *)
(***************************************************************************)

\* An online replica holds the data of the master it is told to follow, however
\* SLAVEOF commands fall among connects, transfers and failures.
OnlineHoldsItsMaster ==
    LogicThread /\ state = "online" /\ addr # None => loaded = addr

\* The link waits for a file only of a living master it has asked for one: in
\* wait_rdb nothing but the callback of that connection would end the wait.
WaitsForAnAskedMaster ==
    LogicThread /\ ~overwritten /\ state = "wait_rdb" /\ addr # None =>
        \E i \in Conns : /\ conn[i].phase = "up" /\ ~conn[i].bad
                         /\ conn[i].peer = addr /\ conn[i].syncs > 0

\* When the replica is online no connection of a former master is left, whose
\* commands would be applied as a master's: unless a connect begun for an older
\* SLAVEOF came through late and gave the link a second connection, which Cron
\* does not know of.
FormerMasterIsCut ==
    LogicThread /\ state = "online" /\ addr # None /\ ~doubled =>
        \A i \in Conns : conn[i].flag /\ ~conn[i].bad => conn[i].peer = addr

\* Once SLAVEOF commands and failures cease, the replica gets online, unless an
\* assertion has failed or Cron has written over the state a callback had set:
\* then the link may stay in connecting or wait_rdb for ever.
LinkComesUp ==
    <>crashed \/ <>overwritten \/ <>[](addr = None) \/ <>[](state = "online")

\* Data never come from the master in a state that expects none, as the
\* assertion of ProcessMaster, "wrong master state", has it.
NoAssertionFails == ~crashed

=============================================================================
