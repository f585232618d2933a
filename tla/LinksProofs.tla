----------------------------- MODULE LinksProofs -----------------------------
(***************************************************************************)
(* Proofs about what speaks to a peer (MCLinks): a replica's link to its    *)
(* master (QReplicaLink), a connection of ananas in its loop (EventLoop),   *)
(* the election of a master over connections to ZooKeeper (Sentinel), and   *)
(* the server's network threads (NetThreads), for any number of masters,    *)
(* connections, nodes, packets and failures.                                *)
(***************************************************************************)
EXTENDS MCLinks, SequenceLemmas

Alive == {"connected", "wait_auth", "wait_replconf", "wait_rdb", "online"}
Waits == {"wait_auth", "wait_replconf", "wait_rdb"}

-----------------------------------------------------------------------------
(***************************************************************************)
(* Types.                                                                  *)
(***************************************************************************)

CronType == cron \in {"idle", "none", "connecting"} \cup Waits

TypeInv == TypeOK /\ CronType

\* Records of connections.
LEMMA ConnectionType ==
    /\ NoConnection \in Connection
    /\ \A c \in Connection :
         /\ [c EXCEPT !.bad = TRUE] \in Connection
         /\ [c EXCEPT !.bad = TRUE, !.callback = FALSE] \in Connection
         /\ [c EXCEPT !.phase = "accepted"] \in Connection
         /\ \A f \in BOOLEAN, a \in BOOLEAN :
               [c EXCEPT !.phase = "up", !.flag = f, !.auth = a] \in Connection
         /\ \A n \in Nat : [c EXCEPT !.syncs = n] \in Connection
         /\ \A q \in Seq(Messages) :
               /\ [c EXCEPT !.inbox = q] \in Connection
               /\ \A n \in Nat : [c EXCEPT !.inbox = q, !.syncs = n] \in Connection
               /\ \A a \in BOOLEAN : [c EXCEPT !.inbox = q, !.auth = a] \in Connection
    /\ \A m \in Masters \cup {None} :
         [NoConnection EXCEPT !.peer = m, !.phase = "connecting", !.callback = TRUE]
             \in Connection
<1>1. <<>> \in Seq(Messages)
  OBVIOUS
<1>2. NoConnection \in Connection
  BY <1>1 DEF NoConnection, Connection
<1> QED BY <1>2 DEF Connection

\* Facts about the helpers of Cron.
LEMMA CronConns ==
    ASSUME TypeInv
    PROVE  /\ Broken(master) \in [Conns -> Connection]
           /\ \A i \in Conns :
                /\ Broken(master)[i] = IF i = master THEN [conn[i] EXCEPT !.bad = TRUE]
                                       ELSE conn[i]
<1>1. CASE master = None
  BY <1>1, NoneAssumption DEF Broken, TypeInv, TypeOK
<1>2. CASE master # None
  <2>1. master \in Conns /\ conn \in [Conns -> Connection]
    BY <1>2 DEF TypeInv, TypeOK
  <2>2. [conn[master] EXCEPT !.bad = TRUE] \in Connection
    BY <2>1, ConnectionType
  <2> QED BY <1>2, <2>1, <2>2 DEF Broken
<1> QED BY <1>1, <1>2

\* Init types.
LEMMA InitType == Init => TypeInv
<1>1. NoConnection \in Connection
  BY ConnectionType
<1>2. Init => conn \in [Conns -> Connection]
  BY <1>1 DEF Init
<1>3. Init => used \in [slaveofs : 0..MaxSlaveofs, fails : 0..MaxFails, sends : 0..MaxSends]
  BY BoundsAssumption DEF Init
<1> QED BY <1>2, <1>3 DEF Init, TypeInv, TypeOK, CronType, States

LEMMA CountSlaveofType ==
    ASSUME TypeInv, CountSlaveof
    PROVE  used' \in [slaveofs : 0..MaxSlaveofs, fails : 0..MaxFails, sends : 0..MaxSends]
BY BoundsAssumption DEF TypeInv, TypeOK, CountSlaveof

LEMMA CountFailType ==
    ASSUME TypeInv, used.fails < MaxFails, used' = [used EXCEPT !.fails = @ + 1]
    PROVE  used' \in [slaveofs : 0..MaxSlaveofs, fails : 0..MaxFails, sends : 0..MaxSends]
BY BoundsAssumption DEF TypeInv, TypeOK

LEMMA CountSendType ==
    ASSUME TypeInv, used.sends < MaxSends, used' = [used EXCEPT !.sends = @ + 1]
    PROVE  used' \in [slaveofs : 0..MaxSlaveofs, fails : 0..MaxFails, sends : 0..MaxSends]
BY BoundsAssumption DEF TypeInv, TypeOK

\* What Cron does to the connections.
LEMMA CronBeginConns ==
    ASSUME TypeInv, CronBegin
    PROVE  /\ conn' \in [Conns -> Connection]
           /\ master # None => conn'[master].phase = "up" /\ conn'[master].flag
           /\ sizeKnown' \in BOOLEAN
           /\ cron' \in {"none", "connecting"} \cup Waits
<1>0. /\ conn \in [Conns -> Connection] /\ sizeKnown \in BOOLEAN
      /\ master # None => master \in Conns /\ conn[master] \in Connection
                         /\ conn[master].phase = "up" /\ conn[master].flag
      /\ addr \in Masters \cup {None}
  BY DEF TypeInv, TypeOK
<1>1. CASE addr = None /\ state # "none" /\ LeaveMaster
  <2>1. CASE master = None
    BY <1>0, <1>1, <2>1 DEF LeaveMaster, WillWrite
  <2>2. CASE master # None
    <3>1. [[conn[master] EXCEPT !.bad = TRUE] EXCEPT !.callback = FALSE] \in Connection
      BY <1>0, <2>2 DEF Connection
    <3>2. conn' = [conn EXCEPT ![master] =
                     [[conn[master] EXCEPT !.bad = TRUE] EXCEPT !.callback = FALSE]]
      BY <1>0, <1>1, <2>2 DEF LeaveMaster, Connection
    <3> QED BY <1>0, <1>1, <2>2, <3>1, <3>2 DEF LeaveMaster, WillWrite
  <2> QED BY <2>1, <2>2
<1>2. CASE addr # None /\ state = "none" /\ Connect
  <2>1. PICK i \in Conns :
          /\ conn[i].phase = "free"
          /\ conn' = [Broken(master) EXCEPT ![i] = [NoConnection EXCEPT !.peer = addr,
                                          !.phase = "connecting", !.callback = TRUE]]
          /\ WillWrite("connecting")
          /\ UNCHANGED sizeKnown
    BY <1>2 DEF Connect
  <2>2. conn' \in [Conns -> Connection]
    BY <1>0, <2>1, CronConns, ConnectionType
  <2>3. master # None => /\ i # master
                         /\ conn'[master] = [conn[master] EXCEPT !.bad = TRUE]
    BY <1>0, <2>1, CronConns
  <2>4. master # None => conn'[master].phase = "up" /\ conn'[master].flag
    BY <1>0, <2>3 DEF Connection
  <2> QED BY <1>0, <2>1, <2>2, <2>4 DEF WillWrite
<1>3. CASE addr # None /\ master # None /\ WithMaster
  <2>1. master \in Conns
    BY <1>0, <1>3
  <2>2. CASE conn' = Sent(master, <<"ok">>)
    <3>1. (conn[master].inbox \o <<"ok">>) \in Seq(Messages)
      <4>1. conn[master].inbox \in Seq(Messages)
        BY <1>0, <1>3 DEF Connection
      <4>2. <<"ok">> \in Seq(Messages)
        BY DEF Messages
      <4> QED BY <4>1, <4>2
    <3>2. conn' = [conn EXCEPT ![master] = [conn[master] EXCEPT !.inbox =
                     IF conn[master].bad THEN @ ELSE @ \o <<"ok">>]]
      BY <1>0, <2>1, <2>2 DEF Sent, Connection
    <3>3. [conn[master] EXCEPT !.inbox =
               IF conn[master].bad THEN @ ELSE @ \o <<"ok">>] \in Connection
      BY <1>0, <1>3, <3>1 DEF Connection
    <3> QED BY <1>0, <1>3, <2>1, <3>2, <3>3
          DEF Connection, WithMaster, SendAuth, SendReplconf, SendSync, WillWrite, Waits
  <2>3. CASE SendSync
    <3>1. conn' = [conn EXCEPT ![master] = [conn[master] EXCEPT !.syncs = @ + 1]]
      BY <1>0, <2>1, <2>3 DEF SendSync, Synced, Connection
    <3>2. [conn[master] EXCEPT !.syncs = @ + 1] \in Connection
      <4>1. conn[master].syncs + 1 \in Nat
        BY <1>0, <1>3 DEF Connection
      <4> QED BY <1>0, <1>3, <4>1, ConnectionType
    <3> QED BY <1>0, <1>3, <2>1, <2>3, <3>1, <3>2 DEF Connection, SendSync, WillWrite, Waits
  <2> QED BY <1>3, <2>2, <2>3 DEF WithMaster, SendAuth, SendReplconf
<1>4. CASE MasterDown
  BY <1>0, <1>4 DEF MasterDown, WillWrite
<1> QED BY <1>1, <1>2, <1>3, <1>4 DEF CronBegin

\* What handling a packet does to the connections.
LEMMA HandlePacketConns ==
    ASSUME TypeInv, NEW i \in Conns, HandlePacket(i)
    PROVE  /\ conn' \in [Conns -> Connection]
           /\ \A j \in Conns :
                /\ conn'[j].phase = conn[j].phase /\ conn'[j].flag = conn[j].flag
                /\ conn'[j].bad = conn[j].bad /\ conn'[j].peer = conn[j].peer
                /\ conn'[j].callback = conn[j].callback /\ conn'[j].syncs = conn[j].syncs
<1>0. conn \in [Conns -> Connection] /\ conn[i].inbox # <<>>
  BY DEF TypeInv, TypeOK, HandlePacket
<1>1. conn[i].inbox \in Seq(Messages)
  BY <1>0 DEF Connection
<1>2. Tail(conn[i].inbox) \in Seq(Messages) /\ <<>> \in Seq(Messages)
  BY <1>0, <1>1
<1>3. \/ UNCHANGED conn
      \/ \E q \in Seq(Messages) : conn' = [conn EXCEPT ![i] = [conn[i] EXCEPT !.inbox = q]]
      \/ \E q \in Seq(Messages), a \in BOOLEAN :
            conn' = [conn EXCEPT ![i] = [conn[i] EXCEPT !.inbox = q, !.auth = a]]
  <2>1. CASE conn[i].peer # addr
    BY <2>1, <1>2 DEF HandlePacket, Consume
  <2>2. CASE conn[i].peer = addr
    <3>1. PICK m : ProcessMaster(i, m, Tail(conn[i].inbox))
      BY <2>2 DEF HandlePacket
    <3>2. CASE RecvRdb(i, m, Tail(conn[i].inbox))
      BY <3>2, <1>2 DEF RecvRdb, Consume
    <3>3. CASE AssertFails
      BY <3>3 DEF AssertFails
    <3>4. CASE conn' = [conn EXCEPT
                   ![i].inbox = IF state = "connected" THEN <<>> ELSE Tail(conn[i].inbox),
                   ![i].auth = @ \/ state = "wait_auth"]
      <4> DEFINE q == IF state = "connected" THEN <<>> ELSE Tail(conn[i].inbox)
                 a == conn[i].auth \/ state = "wait_auth"
      <4>1. q \in Seq(Messages) /\ a \in BOOLEAN
        BY <1>2
      <4>2. conn' = [conn EXCEPT ![i] = [conn[i] EXCEPT !.inbox = q, !.auth = a]]
        BY <3>4, <1>0 DEF Connection
      <4> QED BY <4>1, <4>2
    <3> QED BY <3>1, <3>2, <3>3, <3>4 DEF ProcessMaster
  <2> QED BY <2>1, <2>2
<1>4. CASE UNCHANGED conn
  BY <1>0, <1>4
<1>5. ASSUME NEW q \in Seq(Messages), conn' = [conn EXCEPT ![i] = [conn[i] EXCEPT !.inbox = q]]
      PROVE  /\ conn' \in [Conns -> Connection]
             /\ \A j \in Conns :
                /\ conn'[j].phase = conn[j].phase /\ conn'[j].flag = conn[j].flag
                /\ conn'[j].bad = conn[j].bad /\ conn'[j].peer = conn[j].peer
                /\ conn'[j].callback = conn[j].callback /\ conn'[j].syncs = conn[j].syncs
  <2>1. conn[i] \in Connection /\ [conn[i] EXCEPT !.inbox = q] \in Connection
    BY <1>0, ConnectionType
  <2>2. conn' \in [Conns -> Connection]
    BY <1>0, <1>5, <2>1
  <2>3. \A j \in Conns : conn'[j] = IF j = i THEN [conn[i] EXCEPT !.inbox = q]
                                   ELSE conn[j]
    BY <1>0, <1>5
  <2> QED BY <2>1, <2>2, <2>3 DEF Connection
<1>6. ASSUME NEW q \in Seq(Messages), NEW a \in BOOLEAN,
             conn' = [conn EXCEPT ![i] = [conn[i] EXCEPT !.inbox = q, !.auth = a]]
      PROVE  /\ conn' \in [Conns -> Connection]
             /\ \A j \in Conns :
                /\ conn'[j].phase = conn[j].phase /\ conn'[j].flag = conn[j].flag
                /\ conn'[j].bad = conn[j].bad /\ conn'[j].peer = conn[j].peer
                /\ conn'[j].callback = conn[j].callback /\ conn'[j].syncs = conn[j].syncs
  <2>1. conn[i] \in Connection /\ [conn[i] EXCEPT !.inbox = q, !.auth = a] \in Connection
    BY <1>0, ConnectionType
  <2>2. conn' \in [Conns -> Connection]
    BY <1>0, <1>6, <2>1
  <2>3. \A j \in Conns : conn'[j] = IF j = i THEN [conn[i] EXCEPT !.inbox = q, !.auth = a]
                                   ELSE conn[j]
    BY <1>0, <1>6
  <2> DEFINE c == [conn[i] EXCEPT !.inbox = q, !.auth = a]
  <2>4. /\ c.phase = conn[i].phase /\ c.flag = conn[i].flag /\ c.bad = conn[i].bad
        /\ c.peer = conn[i].peer /\ c.callback = conn[i].callback
        /\ c.syncs = conn[i].syncs
    BY <2>1 DEF Connection
  <2> HIDE DEF c
  <2>5. \A j \in Conns : conn'[j] = IF j = i THEN c ELSE conn[j]
    BY <2>3 DEF c
  <2> QED BY <2>2, <2>4, <2>5
<1> QED BY <1>3, <1>4, <1>5, <1>6

\* Every step keeps the types.
LEMMA StepType ==
    ASSUME TypeInv, [Next]_vars
    PROVE  TypeInv'
<1> USE DEF TypeInv, LogicThread
<1>0. /\ conn \in [Conns -> Connection]
      /\ master # None => master \in Conns /\ conn[master].phase = "up" /\ conn[master].flag
  BY DEF TypeOK
<1>1. ASSUME NEW m \in Masters, SlaveOf(m) PROVE TypeInv'
  <2>1. used' \in [slaveofs : 0..MaxSlaveofs, fails : 0..MaxFails, sends : 0..MaxSends]
    BY <1>1, CountSlaveofType DEF SlaveOf
  <2> QED BY <1>1, <2>1 DEF SlaveOf, TypeOK, CronType, States, history
<1>2. CASE SlaveOfNoOne
  <2>1. used' \in [slaveofs : 0..MaxSlaveofs, fails : 0..MaxFails, sends : 0..MaxSends]
    BY <1>2, CountSlaveofType DEF SlaveOfNoOne
  <2> QED BY <1>2, <2>1 DEF SlaveOfNoOne, TypeOK, CronType, history
<1>3. CASE CronBegin
  <2>1. UNCHANGED <<addr, state, master, crashed, history, used>>
    BY <1>3 DEF CronBegin
  <2> QED BY <1>3, <2>1, CronBeginConns DEF TypeOK, CronType, States, Waits, history
<1>4. CASE CronEnd
  BY <1>4 DEF CronEnd, TypeOK, CronType, States, Waits, history
<1>5. ASSUME NEW i \in Conns, Connected(i) PROVE TypeInv'
  <2>1. conn' = [conn EXCEPT ![i] = [conn[i] EXCEPT !.phase = "accepted"]]
    BY <1>5 DEF Connected
  <2>2. conn' \in [Conns -> Connection]
    BY <1>0, <2>1, ConnectionType
  <2>3. master # None => i # master
    BY <1>0, <1>5 DEF Connected
  <2> QED BY <1>0, <1>5, <2>1, <2>2, <2>3
        DEF Connected, TypeOK, CronType, linkVars, history
<1>6. ASSUME NEW i \in Conns, Fail(i) PROVE TypeInv'
  <2>1. used' \in [slaveofs : 0..MaxSlaveofs, fails : 0..MaxFails, sends : 0..MaxSends]
    BY <1>6, CountFailType DEF Fail
  <2>2. conn' \in [Conns -> Connection]
    BY <1>0, <1>6, ConnectionType DEF Fail
  <2>3. master # None => conn'[master].phase = "up" /\ conn'[master].flag
    BY <1>0, <1>6 DEF Fail, Connection
  <2> QED BY <1>6, <2>1, <2>2, <2>3 DEF Fail, TypeOK, CronType, States
<1>7. ASSUME NEW i \in Conns, OnConnect(i) PROVE TypeInv'
  <2>1. conn' \in [Conns -> Connection]
    <3>1. (conn[i].peer = addr) \in BOOLEAN /\ (conn[i].peer = addr /\ ~UsesAuth) \in BOOLEAN
      OBVIOUS
    <3> QED BY <1>0, <1>7, <3>1, ConnectionType DEF OnConnect
  <2>2. master # None => i # master
    BY <1>0, <1>7 DEF OnConnect
  <2>3. master' # None => conn'[master'].phase = "up" /\ conn'[master'].flag
    BY <1>0, <1>7, <2>2 DEF OnConnect, Connection
  <2>4. /\ doubled' \in BOOLEAN /\ state' \in States /\ master' \in Conns \cup {None}
    BY <1>7 DEF OnConnect, TypeOK, States
  <2> QED BY <1>7, <2>1, <2>3, <2>4 DEF OnConnect, TypeOK, CronType
<1>8. ASSUME NEW i \in Conns, DoMsgParse(i) PROVE TypeInv'
  BY <1>0, <1>8, ConnectionType DEF DoMsgParse, TypeOK, CronType, history
<1>9. ASSUME NEW i \in Conns, MasterSendsRdb(i) PROVE TypeInv'
  <2>1. conn[i].inbox \o <<"size", "body">> \in Seq(Messages)
    <3>1. conn[i].inbox \in Seq(Messages) /\ <<"size", "body">> \in Seq(Messages)
      BY <1>0 DEF Connection, Messages
    <3> QED BY <3>1
  <2>2. conn' = [conn EXCEPT ![i] = [conn[i] EXCEPT
                   !.inbox = conn[i].inbox \o <<"size", "body">>, !.syncs = 2]]
    BY <1>0, <1>9 DEF MasterSendsRdb, Connection
  <2>3. conn' \in [Conns -> Connection]
    BY <1>0, <2>1, <2>2, ConnectionType
  <2>4. master # None => conn'[master].phase = "up" /\ conn'[master].flag
    BY <1>0, <2>2 DEF Connection
  <2> QED BY <1>9, <2>3, <2>4 DEF MasterSendsRdb, TypeOK, CronType, linkVars, history
<1>10. ASSUME NEW i \in Conns, MasterSendsCommand(i) PROVE TypeInv'
  <2>1. Append(conn[i].inbox, "command") \in Seq(Messages)
    BY <1>0 DEF Connection, Messages
  <2>2. conn' = [conn EXCEPT ![i] = [conn[i] EXCEPT !.inbox = Append(conn[i].inbox, "command")]]
    BY <1>0, <1>10 DEF MasterSendsCommand
  <2>3. conn' \in [Conns -> Connection]
    BY <1>0, <2>1, <2>2, ConnectionType
  <2>4. master # None => conn'[master].phase = "up" /\ conn'[master].flag
    BY <1>0, <2>2 DEF Connection
  <2>5. used' \in [slaveofs : 0..MaxSlaveofs, fails : 0..MaxFails, sends : 0..MaxSends]
    BY <1>10, CountSendType DEF MasterSendsCommand
  <2> QED BY <1>10, <2>3, <2>4, <2>5 DEF MasterSendsCommand, TypeOK, CronType, linkVars, history
<1>11. ASSUME NEW i \in Conns, HandlePacket(i) PROVE TypeInv'
  <2>1. /\ conn' \in [Conns -> Connection]
        /\ \A j \in Conns : conn'[j].phase = conn[j].phase /\ conn'[j].flag = conn[j].flag
    BY <1>11, HandlePacketConns
  <2>2. /\ master' = master /\ addr' = addr /\ state' \in States
        /\ sizeKnown' \in BOOLEAN /\ crashed' \in BOOLEAN
        /\ loaded' \in Masters \cup {None}
    BY <1>11, <1>0 DEF HandlePacket, ProcessMaster, RecvRdb, AssertFails, linkVars, TypeOK,
                       States, Connection
  <2> QED BY <1>11, <1>0, <2>1, <2>2 DEF HandlePacket, TypeOK, CronType
<1>12. CASE UNCHANGED vars
  BY <1>12 DEF vars, linkVars, history, TypeOK, CronType
<1> QED BY <1>1, <1>2, <1>3, <1>4, <1>5, <1>6, <1>7, <1>8, <1>9, <1>10, <1>11, <1>12 DEF Next

\* The types are right, whatever the number of masters and connections:
\* connections, link state and what Cron is about to write stay among those the
\* code has, and master_ is a connection that came up with the master's flag.
THEOREM TypeCorrect == Spec => []TypeOK
<1>1. TypeInv /\ [Next]_vars => TypeInv'
  BY StepType
<1>2. TypeInv => TypeOK
  BY DEF TypeInv
<1> QED BY InitType, <1>1, <1>2, PTL DEF Spec

-----------------------------------------------------------------------------
(***************************************************************************)
(* An online replica holds its master's data.                              *)
(***************************************************************************)

FollowsLoaded == state = "online" /\ addr # None => loaded = addr

OnlineInv == TypeInv /\ FollowsLoaded

LEMMA OnlineStep ==
    ASSUME OnlineInv, [Next]_vars
    PROVE  OnlineInv'
<1>1. TypeInv'
  BY StepType DEF OnlineInv
<1> SUFFICES FollowsLoaded'
  BY <1>1 DEF OnlineInv
<1> USE DEF OnlineInv, FollowsLoaded, history
<1>2. ASSUME NEW m \in Masters, SlaveOf(m) PROVE FollowsLoaded'
  BY <1>2 DEF SlaveOf
<1>3. CASE SlaveOfNoOne
  BY <1>3 DEF SlaveOfNoOne
<1>4. CASE CronBegin
  BY <1>4 DEF CronBegin
<1>5. CASE CronEnd
  BY <1>5 DEF CronEnd, TypeInv, CronType, Waits
<1>6. ASSUME NEW i \in Conns, Fail(i) PROVE FollowsLoaded'
  BY <1>6 DEF Fail
<1>7. ASSUME NEW i \in Conns, OnConnect(i) PROVE FollowsLoaded'
  BY <1>7 DEF OnConnect
<1>8. ASSUME NEW i \in Conns, HandlePacket(i) PROVE FollowsLoaded'
  BY <1>8 DEF HandlePacket, ProcessMaster, RecvRdb, AssertFails, linkVars
<1>9. ASSUME NEW i \in Conns,
             \/ Connected(i) \/ DoMsgParse(i) \/ MasterSendsRdb(i) \/ MasterSendsCommand(i)
      PROVE  FollowsLoaded'
  BY <1>9 DEF Connected, DoMsgParse, MasterSendsRdb, MasterSendsCommand, linkVars
<1>10. CASE UNCHANGED vars
  BY <1>10 DEF vars, linkVars
<1> QED BY <1>2, <1>3, <1>4, <1>5, <1>6, <1>7, <1>8, <1>9, <1>10 DEF Next

\* However SLAVEOF commands, connects, transfers and failures interleave, a
\* replica whose link is online has loaded the file of the master it is told to
\* follow: SLAVEOF resets the state, and only the new master's file sets online.
THEOREM OnlineReplicasHoldTheirMaster == Spec => []OnlineHoldsItsMaster
<1>1. Init => OnlineInv
  BY InitType DEF Init, OnlineInv, FollowsLoaded
<1>2. OnlineInv /\ [Next]_vars => OnlineInv'
  BY OnlineStep
<1>3. OnlineInv => OnlineHoldsItsMaster
  BY DEF OnlineInv, FollowsLoaded, OnlineHoldsItsMaster
<1> QED BY <1>1, <1>2, <1>3, PTL DEF Spec

-----------------------------------------------------------------------------
(***************************************************************************)
(* The wait for the file, and the connections of former masters.           *)
(***************************************************************************)

\* A link that is up runs over a connection to the master it follows.
LinkIsToTheMaster ==
    /\ state \in Alive /\ addr # None /\ master # None => conn[master].peer = addr
    /\ cron \in Waits => addr # None /\ master # None /\ conn[master].peer = addr

\* A sound connection has its callback.
SoundHasCallback ==
    \A i \in Conns : conn[i].phase # "free" /\ ~conn[i].bad => conn[i].callback

\* A link that is up has a sound connection: the callback of a failed one would
\* have taken it down.
LinkIsSound ==
    ~overwritten /\ addr # None /\ master # None /\ (state \in Alive \/ cron \in Waits)
        => ~conn[master].bad

\* Who waits for the file has asked for it.
WaitWasAsked ==
    ~overwritten /\ addr # None /\ (state = "wait_rdb" \/ cron = "wait_rdb")
        => master # None /\ conn[master].syncs > 0

\* The only sound connection with the master's flag is master_, and none is while
\* a connect goes on.
OneMaster ==
    ~doubled =>
        /\ \A i \in Conns : conn[i].flag /\ ~conn[i].bad => i = master
        /\ state = "connecting" \/ cron = "connecting" => ~MasterIsUp

LinkParts ==
    /\ LinkIsToTheMaster
    /\ SoundHasCallback
    /\ LinkIsSound
    /\ WaitWasAsked
    /\ OneMaster

LinkInv == TypeInv /\ LinkParts

LEMMA InitLinkInv == Init => LinkInv
<1>1. \A i \in Conns : Init => ~conn[i].flag /\ conn[i].phase = "free"
  BY DEF Init, NoConnection
<1> QED BY <1>1, InitType
      DEF Init, LinkInv, LinkParts, LinkIsToTheMaster, SoundHasCallback, LinkIsSound, WaitWasAsked,
          OneMaster, Alive, Waits, MasterIsUp

\* Steps of SLAVEOF leave the connections alone, and Cron is not under way.
LEMMA SlaveofLinkInv ==
    ASSUME LinkInv, LogicThread, UNCHANGED <<conn, cron, master, overwritten, doubled>>,
           \/ addr' = None /\ state' = state
           \/ state' = "none"
    PROVE  LinkParts'
BY DEF LinkInv, LinkParts, LinkIsToTheMaster, SoundHasCallback, LinkIsSound, WaitWasAsked,
       OneMaster,
       LogicThread, Alive, Waits, MasterIsUp

\* Steps after which every connection is to the same peer and no sounder, with
\* the same flag and callback, and as much asked of it.
Tame ==
    \A j \in Conns :
        /\ conn'[j].peer = conn[j].peer /\ conn'[j].flag = conn[j].flag
        /\ conn'[j].callback = conn[j].callback
        /\ (conn'[j].phase = "free") = (conn[j].phase = "free")
        /\ conn'[j].bad = conn[j].bad
        /\ conn[j].syncs > 0 => conn'[j].syncs > 0

LEMMA TameLinkInv ==
    ASSUME LinkInv, Tame, UNCHANGED <<addr, master, overwritten, doubled>>,
           \/ cron' = cron
           \/ cron = "idle" /\ cron' \in Waits /\ state \in Alive /\ addr # None /\ master # None
              /\ (cron' = "wait_rdb" => conn'[master].syncs > 0)
           \/ cron' \in {"idle", "none"},
           \/ state' = state
           \/ state' = cron
           \/ state = "wait_rdb" /\ state' = "online"
    PROVE  LinkParts'
<1>0. master # None => master \in Conns
  BY DEF LinkInv, LinkParts, TypeInv, TypeOK
<1>1. LinkIsToTheMaster'
  BY <1>0 DEF LinkInv, LinkParts, TypeInv, CronType, LinkIsToTheMaster, Tame, Alive, Waits
<1>2. SoundHasCallback'
  BY DEF LinkInv, LinkParts, SoundHasCallback, Tame
<1>3. LinkIsSound'
  BY <1>0 DEF LinkInv, LinkParts, TypeInv, CronType, LinkIsSound, Tame, Alive, Waits
<1>4. WaitWasAsked'
  BY <1>0 DEF LinkInv, LinkParts, WaitWasAsked, Tame, Waits
<1>5. OneMaster'
  <2>1. MasterIsUp' = MasterIsUp
    BY DEF MasterIsUp, Tame
  <2> QED BY <2>1 DEF LinkInv, LinkParts, OneMaster, Tame, Waits
<1> QED BY <1>1, <1>2, <1>3, <1>4, <1>5 DEF LinkParts

\* Cron keeps the link invariant.
LEMMA CronBeginLinkInv ==
    ASSUME LinkInv, CronBegin
    PROVE  LinkParts'
<1>0. /\ conn \in [Conns -> Connection] /\ cron = "idle"
      /\ master # None => master \in Conns /\ conn[master].phase = "up"
      /\ UNCHANGED <<addr, state, master, overwritten, doubled>>
  BY DEF LinkInv, LinkParts, TypeInv, TypeOK, CronBegin, LogicThread, history
<1>1. CASE addr = None /\ state # "none" /\ LeaveMaster
  <2>1. \A j \in Conns :
          /\ conn'[j].peer = conn[j].peer /\ conn'[j].flag = conn[j].flag
          /\ (conn'[j].phase = "free") = (conn[j].phase = "free")
          /\ IF j = master THEN conn'[j].bad
             ELSE conn'[j].bad = conn[j].bad /\ conn'[j].callback = conn[j].callback
    BY <1>0, <1>1, NoneAssumption DEF LeaveMaster, Connection
  <2>2. cron' = "none"
    BY <1>1 DEF LeaveMaster, WillWrite
  <2>3. SoundHasCallback'
    BY <2>1 DEF LinkInv, LinkParts, SoundHasCallback
  <2>4. OneMaster'
    BY <1>0, <2>1, <2>2 DEF LinkInv, LinkParts, OneMaster, MasterIsUp
  <2> QED BY <1>0, <1>1, <2>2, <2>3, <2>4
        DEF LinkInv, LinkParts, LinkIsToTheMaster, LinkIsSound, WaitWasAsked, Waits
<1>2. CASE addr # None /\ state = "none" /\ Connect
  <2>1. PICK i \in Conns :
          /\ conn[i].phase = "free"
          /\ conn' = [Broken(master) EXCEPT ![i] = [NoConnection EXCEPT !.peer = addr,
                                          !.phase = "connecting", !.callback = TRUE]]
          /\ cron' = "connecting"
    BY <1>2 DEF Connect, WillWrite
  <2>2. \A j \in Conns : j # i =>
          /\ conn'[j].flag = conn[j].flag /\ conn'[j].callback = conn[j].callback
          /\ conn'[j].phase = conn[j].phase
          /\ conn'[j].bad = (conn[j].bad \/ j = master)
    BY <1>0, <2>1, CronConns DEF Connection, LinkInv
  <2>3. conn'[i].callback /\ ~conn'[i].flag
    BY <2>1, CronConns DEF NoConnection, LinkInv
  <2>4. SoundHasCallback'
    BY <2>2, <2>3 DEF LinkInv, LinkParts, SoundHasCallback
  <2>5. OneMaster'
    BY <1>0, <2>2, <2>3 DEF LinkInv, LinkParts, OneMaster, MasterIsUp
  <2> QED BY <1>0, <1>2, <2>1, <2>4, <2>5
        DEF LinkInv, LinkParts, LinkIsToTheMaster, LinkIsSound, WaitWasAsked, Alive, Waits
<1>3. CASE addr # None /\ master # None /\ WithMaster
  <2>1. /\ cron' \in Waits /\ state \in Alive
        /\ \/ conn' = Sent(master, <<"ok">>) /\ cron' # "wait_rdb"
           \/ conn' = Synced(master)
    BY <1>3 DEF WithMaster, SendAuth, SendReplconf, SendSync, WillWrite, Waits, Alive
  <2>2. Tame
    <3>1. CASE conn' = Sent(master, <<"ok">>)
      BY <1>0, <1>3, <3>1 DEF Sent, Tame, Connection
    <3>2. CASE conn' = Synced(master)
      BY <1>0, <1>3, <3>2 DEF Synced, Tame, Connection
    <3> QED BY <2>1, <3>1, <3>2
  <2>3. cron' = "wait_rdb" => conn'[master].syncs > 0
    BY <1>0, <1>3, <2>1 DEF Synced, Connection
  <2> QED BY <1>0, <1>3, <2>1, <2>2, <2>3, TameLinkInv
<1>4. CASE MasterDown
  BY <1>0, <1>4, TameLinkInv DEF MasterDown, WillWrite, Tame
<1> QED BY <1>1, <1>2, <1>3, <1>4 DEF CronBegin

\* A failure keeps it: the callback takes the link down.
LEMMA FailLinkInv ==
    ASSUME LinkInv, NEW i \in Conns, Fail(i)
    PROVE  LinkParts'
<1>0. /\ conn \in [Conns -> Connection]
      /\ master # None => master \in Conns /\ conn[master].phase = "up"
      /\ UNCHANGED <<addr, master, cron, doubled>>
      /\ conn[i].phase # "free" /\ ~conn[i].bad /\ conn[i].callback
  BY DEF LinkInv, LinkParts, TypeInv, TypeOK, Fail, SoundHasCallback
<1>1. state' = "none" /\ overwritten' = (overwritten \/ cron # "idle")
  BY <1>0 DEF Fail
<1>2. \A j \in Conns : j # i => conn'[j] = conn[j]
  BY <1>0 DEF Fail
<1>3. CASE conn[i].phase = "connecting"
  <2>1. conn'[i] = NoConnection /\ i # master
    BY <1>0, <1>3, NoneAssumption DEF Fail
  <2>2. LinkIsToTheMaster'
    BY <1>0, <1>1, <1>2, <2>1 DEF LinkInv, LinkParts, LinkIsToTheMaster, Alive, Waits, NoConnection
  <2>3. SoundHasCallback'
    BY <1>0, <1>1, <1>2, <2>1 DEF LinkInv, LinkParts, SoundHasCallback, NoConnection
  <2>4. LinkIsSound'
    BY <1>0, <1>1, <1>2, <2>1 DEF LinkInv, LinkParts, LinkIsSound, Alive, Waits, NoConnection
  <2>5. WaitWasAsked'
    BY <1>0, <1>1, <1>2, <2>1 DEF LinkInv, LinkParts, WaitWasAsked, Waits, NoConnection
  <2>6. OneMaster'
    BY <1>0, <1>1, <1>2, <2>1 DEF LinkInv, LinkParts, OneMaster, MasterIsUp, NoConnection
  <2> QED BY <2>2, <2>3, <2>4, <2>5, <2>6 DEF LinkParts
<1>4. CASE conn[i].phase # "connecting"
  <2>1. conn'[i] = [conn[i] EXCEPT !.bad = TRUE]
    BY <1>0, <1>4 DEF Fail
  <2>2. /\ conn'[i].peer = conn[i].peer /\ conn'[i].flag = conn[i].flag
        /\ conn'[i].bad /\ conn'[i].syncs = conn[i].syncs
    BY <1>0, <2>1 DEF Connection
  <2>3. LinkIsToTheMaster'
    BY <1>0, <1>1, <1>2, <2>2 DEF LinkInv, LinkParts, LinkIsToTheMaster, Alive
  <2>4. SoundHasCallback'
    BY <1>2, <2>2 DEF LinkInv, LinkParts, SoundHasCallback
  <2>5. LinkIsSound'
    BY <1>0, <1>1 DEF LinkIsSound, Alive, Waits
  <2>6. WaitWasAsked'
    BY <1>0, <1>1 DEF WaitWasAsked
  <2>7. OneMaster'
    BY <1>0, <1>1, <1>2, <2>2 DEF LinkInv, LinkParts, OneMaster, MasterIsUp
  <2> QED BY <2>3, <2>4, <2>5, <2>6, <2>7 DEF LinkParts
<1> QED BY <1>3, <1>4

\* A new connection keeps it: either it is the only one with the flag, or doubled.
LEMMA OnConnectLinkInv ==
    ASSUME LinkInv, NEW i \in Conns, OnConnect(i)
    PROVE  LinkParts'
<1>0. /\ conn \in [Conns -> Connection] /\ cron = "idle" /\ cron' = "idle"
      /\ master # None => master \in Conns /\ conn[master].phase = "up"
      /\ conn[i].phase = "accepted" /\ i # None
      /\ UNCHANGED <<addr, overwritten>>
      /\ \A j \in Conns : j # i => conn'[j] = conn[j]
  BY NoneAssumption DEF LinkInv, LinkParts, TypeInv, TypeOK, OnConnect, LogicThread
<1>1. CASE conn[i].bad
  <2>1. conn'[i] = NoConnection
    BY <1>0, <1>1 DEF OnConnect
  <2>2. SoundHasCallback'
    BY <1>0, <2>1 DEF LinkInv, LinkParts, SoundHasCallback, NoConnection
  <2>3. CASE conn[i].peer = addr
    <3>1. /\ state' = "connected" /\ master' = None
          /\ doubled' = (doubled \/ (state # "connecting" /\ MasterIsUp))
      BY <1>1, <2>3 DEF OnConnect
    <3>2. OneMaster'
      <4>1. MasterIsUp' => MasterIsUp
        BY <1>0, <2>1 DEF MasterIsUp, NoConnection
      <4>2. ~doubled' => ~MasterIsUp
        BY <3>1 DEF LinkInv, LinkParts, OneMaster
      <4> QED BY <3>1, <4>1, <4>2, <1>0 DEF OneMaster, MasterIsUp
    <3> QED BY <1>0, <2>2, <3>1, <3>2
          DEF LinkParts, LinkIsToTheMaster, LinkIsSound, WaitWasAsked, Waits
  <2>4. CASE conn[i].peer # addr
    <3>1. UNCHANGED <<state, master, doubled>> /\ i # master
      BY <1>0, <2>4 DEF OnConnect
    <3>2. LinkIsToTheMaster'
      BY <1>0, <2>1, <3>1 DEF LinkInv, LinkParts, LinkIsToTheMaster, Alive, Waits, NoConnection
    <3>3. LinkIsSound'
      BY <1>0, <2>1, <3>1 DEF LinkInv, LinkParts, LinkIsSound, Alive, Waits, NoConnection
    <3>4. WaitWasAsked'
      BY <1>0, <2>1, <3>1 DEF LinkInv, LinkParts, WaitWasAsked, Waits, NoConnection
    <3>5. OneMaster'
      BY <1>0, <2>1, <3>1 DEF LinkInv, LinkParts, OneMaster, MasterIsUp, NoConnection
    <3> QED BY <2>2, <3>2, <3>3, <3>4, <3>5 DEF LinkParts
  <2> QED BY <2>3, <2>4
<1>2. CASE ~conn[i].bad
  <2>1. /\ conn'[i].peer = conn[i].peer /\ conn'[i].callback = conn[i].callback
        /\ conn'[i].flag = (conn[i].peer = addr) /\ ~conn'[i].bad
    BY <1>0, <1>2 DEF OnConnect, Connection
  <2>2. SoundHasCallback'
    BY <1>0, <1>2, <2>1 DEF LinkInv, LinkParts, SoundHasCallback
  <2>3. CASE conn[i].peer = addr
    <3>1. /\ state' = "connected" /\ master' = i
          /\ doubled' = (doubled \/ (state # "connecting" /\ MasterIsUp))
      BY <1>2, <2>3 DEF OnConnect
    <3>2. OneMaster'
      BY <1>0, <2>1, <3>1 DEF LinkInv, LinkParts, OneMaster, MasterIsUp
    <3> QED BY <1>0, <2>1, <2>2, <2>3, <3>1, <3>2
          DEF LinkParts, LinkIsToTheMaster, LinkIsSound, WaitWasAsked, Waits
  <2>4. CASE conn[i].peer # addr
    <3>1. UNCHANGED <<state, master, doubled>> /\ i # master
      BY <1>0, <2>4 DEF OnConnect
    <3>2. LinkIsToTheMaster'
      BY <1>0, <2>1, <3>1 DEF LinkInv, LinkParts, LinkIsToTheMaster, Alive, Waits
    <3>3. LinkIsSound'
      BY <1>0, <2>1, <3>1 DEF LinkInv, LinkParts, LinkIsSound, Alive, Waits
    <3>4. WaitWasAsked'
      BY <1>0, <2>1, <3>1 DEF LinkInv, LinkParts, WaitWasAsked, Waits
    <3>5. OneMaster'
      BY <1>0, <2>1, <2>4, <3>1 DEF LinkInv, LinkParts, OneMaster, MasterIsUp
    <3> QED BY <2>2, <3>2, <3>3, <3>4, <3>5 DEF LinkParts
  <2> QED BY <2>3, <2>4
<1> QED BY <1>1, <1>2

\* A dropped connection keeps it: who waits has a sound one.
LEMMA RemoveLinkInv ==
    ASSUME LinkInv, NEW i \in Conns, DoMsgParse(i)
    PROVE  LinkParts'
<1>0. /\ conn \in [Conns -> Connection] /\ cron = "idle" /\ cron' = "idle"
      /\ UNCHANGED <<addr, state, overwritten, doubled>>
      /\ conn[i].bad /\ i # None /\ master' = IF master = i THEN None ELSE master
      /\ conn'[i] = NoConnection
      /\ \A j \in Conns : j # i => conn'[j] = conn[j]
      /\ master # None => master \in Conns
  BY NoneAssumption DEF LinkInv, LinkParts, TypeInv, TypeOK, DoMsgParse, LogicThread, history
<1>1. LinkIsToTheMaster'
  BY <1>0 DEF LinkInv, LinkParts, LinkIsToTheMaster, Waits
<1>2. SoundHasCallback'
  BY <1>0 DEF LinkInv, LinkParts, SoundHasCallback, NoConnection
<1>3. LinkIsSound'
  BY <1>0 DEF LinkInv, LinkParts, LinkIsSound, Waits
<1>4. WaitWasAsked'
  BY <1>0 DEF LinkInv, LinkParts, LinkIsSound, WaitWasAsked, Alive
<1>5. OneMaster'
  BY <1>0 DEF LinkInv, LinkParts, OneMaster, MasterIsUp, NoConnection
<1> QED BY <1>1, <1>2, <1>3, <1>4, <1>5 DEF LinkParts

LEMMA LinkStep ==
    ASSUME LinkInv, [Next]_vars
    PROVE  LinkInv'
<1>1. TypeInv'
  BY StepType DEF LinkInv, LinkParts
<1> SUFFICES LinkParts'
  BY <1>1 DEF LinkInv, LinkParts
<1>2. conn \in [Conns -> Connection]
  BY DEF LinkInv, LinkParts, TypeInv, TypeOK
<1>3. ASSUME NEW m \in Masters, SlaveOf(m)
      PROVE  LinkParts'
  BY <1>3, SlaveofLinkInv DEF SlaveOf, history
<1>4. CASE SlaveOfNoOne
  BY <1>4, SlaveofLinkInv DEF SlaveOfNoOne, history
<1>5. CASE CronBegin
  BY <1>5, CronBeginLinkInv
<1>6. CASE CronEnd
  BY <1>6, TameLinkInv DEF CronEnd, Tame, history
<1>7. ASSUME NEW i \in Conns, Connected(i)
      PROVE  LinkParts'
  <2>1. Tame
    BY <1>2, <1>7 DEF Connected, Tame, Connection
  <2> QED BY <1>7, <2>1, TameLinkInv DEF Connected, linkVars, history
<1>8. ASSUME NEW i \in Conns, Fail(i)
      PROVE  LinkParts'
  BY <1>8, FailLinkInv
<1>9. ASSUME NEW i \in Conns, OnConnect(i)
      PROVE  LinkParts'
  BY <1>9, OnConnectLinkInv
<1>10. ASSUME NEW i \in Conns, DoMsgParse(i)
       PROVE  LinkParts'
  BY <1>10, RemoveLinkInv
<1>11. ASSUME NEW i \in Conns, MasterSendsRdb(i) \/ MasterSendsCommand(i)
       PROVE  LinkParts'
  <2>1. Tame
    <3>1. CASE MasterSendsRdb(i)
      BY <1>2, <3>1 DEF MasterSendsRdb, Tame, Connection
    <3>2. CASE MasterSendsCommand(i)
      BY <1>2, <3>2 DEF MasterSendsCommand, Tame, Connection
    <3> QED BY <1>11, <3>1, <3>2
  <2> QED BY <1>11, <2>1, TameLinkInv DEF MasterSendsRdb, MasterSendsCommand, linkVars, history
<1>12. ASSUME NEW i \in Conns, HandlePacket(i)
       PROVE  LinkParts'
  <2>1. Tame
    BY <1>12, HandlePacketConns DEF Tame, LinkInv
  <2>2. /\ UNCHANGED <<addr, master, cron, overwritten, doubled>>
        /\ state' = state \/ (state = "wait_rdb" /\ state' = "online")
    BY <1>12 DEF HandlePacket, ProcessMaster, RecvRdb, AssertFails, linkVars
  <2> QED BY <2>1, <2>2, TameLinkInv
<1>13. CASE UNCHANGED vars
  BY <1>13, TameLinkInv DEF vars, linkVars, history, Tame
<1> QED BY <1>3, <1>4, <1>5, <1>6, <1>7, <1>8, <1>9, <1>10, <1>11, <1>12, <1>13 DEF Next

\* Unless a callback ran while Cron was between its read and its write, a link in
\* wait_rdb has a sound connection to its master over which SYNC was sent.
THEOREM WaitersHaveAskedTheirMaster == Spec => []WaitsForAnAskedMaster
<1>1. LinkInv /\ [Next]_vars => LinkInv'
  BY LinkStep
<1>2. LinkInv => WaitsForAnAskedMaster
  BY DEF LinkInv, LinkParts, TypeInv, TypeOK, LinkIsToTheMaster, LinkIsSound, WaitWasAsked, Alive,
         WaitsForAnAskedMaster
<1> QED BY InitLinkInv, <1>1, <1>2, PTL DEF Spec

\* Unless a late connect gave the link a second connection, an online replica has
\* no sound connection left whose commands count as a master's, but its master's.
THEOREM FormerMastersAreCut == Spec => []FormerMasterIsCut
<1>1. LinkInv /\ [Next]_vars => LinkInv'
  BY LinkStep
<1>2. LinkInv => FormerMasterIsCut
  <2>1. ASSUME LinkInv, LogicThread, state = "online", addr # None, ~doubled,
               NEW i \in Conns, conn[i].flag, ~conn[i].bad
        PROVE  conn[i].peer = addr
    <3>1. i = master /\ master # None
      BY <2>1, NoneAssumption DEF LinkInv, LinkParts, OneMaster
    <3> QED BY <2>1, <3>1 DEF LinkInv, LinkParts, LinkIsToTheMaster, Alive
  <2> QED BY <2>1 DEF FormerMasterIsCut
<1> QED BY InitLinkInv, <1>1, <1>2, PTL DEF Spec

-----------------------------------------------------------------------------
(***************************************************************************)
(* A connection of ananas in its loop.                                     *)
(***************************************************************************)
OpenStates == {"Connected", "CloseWaitWrite", "ActiveClose", "Error"}
ToldIs(newConn, fail, unregistered, disconnect) ==
    /\ eTold["newConn"] = newConn /\ eTold["fail"] = fail
    /\ eTold["unregistered"] = unregistered /\ eTold["disconnect"] = disconnect

\* How far the connection is tells what is registered, and what was told.
Phase ==
    \/ /\ eCstate = "none" /\ eSource = "none" /\ eState = "None"
       /\ ToldIs(0, 0, 0, 0)
    \/ /\ eCstate = "connecting" /\ eSource = "connector" /\ eState = "None"
       /\ ToldIs(0, 0, 0, 0)
    \/ /\ eCstate = "failed" /\ eSource = "none" /\ eState = "None"
       /\ ToldIs(0, 1, 0, 0)
    \/ /\ eCstate = "connected" /\ eSource = "none" /\ eState = "None"
       /\ ToldIs(0, 0, 1, 0)
    \/ /\ eCstate = "connected" /\ eSource = "connection" /\ eState \in OpenStates
       /\ ePeer \in {"open", "fin", "rst"}
       /\ ToldIs(1, 0, 0, 0)
    \/ /\ eCstate = "connected" /\ eSource = "none" /\ eState = "Closed"
       /\ ToldIs(1, 1, 0, 1)

\* The timer is the connector's, and the loop is in a callback of the
\* connection only while that is registered.
LoopInv ==
    /\ Phase
    /\ eTold \in [{"newConn", "fail", "disconnect", "passive", "unregistered"} -> Nat]
    /\ eTimer = FALSE \/ eSource = "connector"
    /\ eAt \in {"poll", "handle"} \/ (eAt \in {"read", "message", "complete"}
                                       /\ eSource = "connection")

\* What was accepted is with the kernel or waits; when the end that the peer chose
\* is told, or is about to be, only what was sent late does.
WireInv ==
    /\ eWire \in Seq(Nat) /\ eSendBuf \in Seq(Nat) /\ eAccepted \in Seq(Nat)
    /\ eUnread \in 0 .. Room
    /\ eWire \o eSendBuf = eAccepted
    /\ eLate \in Nat
    /\ eTold["passive"] = 1 => eState = "Closed" /\ Len(eSendBuf) <= eLate
    /\ eAt = "complete" /\ eState = "CloseWaitWrite" => Len(eSendBuf) <= eLate

LEMMA LoopInit == E!Init => LoopInv
BY DEF E!Init, LoopInv, Phase, ToldIs

LEMMA WireInit == ASSUME Room \in Nat, E!Init PROVE WireInv
<1>1. <<>> \in Seq(Nat) /\ <<>> \o <<>> = <<>>
  BY EmptySeq, ConcatEmptySeq
<1> QED BY <1>1 DEF E!Init, WireInv

\* The end of a registered connection is told, if it is one.
LEMMA EndHandled ==
    ASSUME LoopInv, eSource = "connection", eAt' = "handle",
           UNCHANGED <<eCstate, eTimer, ePeer>>,
           NEW now \in OpenStates \cup {"PassiveClose"}, NEW w,
           E!HandleErrorEvent(now, w)
    PROVE  LoopInv'
BY DEF LoopInv, Phase, ToldIs, OpenStates, E!HandleErrorEvent

\* The state a handler finds.
LEMMA EndMet ==
    ASSUME LoopInv, eAt' = "handle", UNCHANGED <<eCstate, eTimer, ePeer>>,
           NEW w, E!HandleErrorEvent(eState, w)
    PROVE  LoopInv'
<1>1. CASE eSource = "connection"
  BY <1>1, EndHandled DEF LoopInv, Phase, OpenStates
<1>2. CASE eSource # "connection"
  BY <1>2 DEF LoopInv, Phase, ToldIs, E!HandleErrorEvent
<1> QED BY <1>1, <1>2

\* Connecting, from before and in the loop.
LEMMA ConnectStep ==
    ASSUME LoopInv, E!Connect \/ E!ConnectTimer \/ E!ConnectorEvent
    PROVE  LoopInv'
<1>1. CASE E!Connect
  BY <1>1 DEF E!Connect, E!OnSuccess, E!OnFailed, E!Tell, LoopInv, Phase, ToldIs, OpenStates
<1>2. CASE E!ConnectTimer
  BY <1>2 DEF E!ConnectTimer, E!OnFailed, E!Tell, E!conn, LoopInv, Phase, ToldIs
<1>3. CASE E!ConnectorEvent
  BY <1>3 DEF E!ConnectorEvent, E!OnSuccess, E!OnFailed, E!Tell, LoopInv, Phase, ToldIs, OpenStates
<1> QED BY <1>1, <1>2, <1>3

LEMMA LoopKept == ASSUME LoopInv, [E!Next]_E!vars PROVE LoopInv'
<1>1. ASSUME UNCHANGED <<eCstate, eTimer, eState, eSource, eTold>>,
             eAt' \in {eAt, "poll", "handle"},
             ePeer' = ePeer \/ E!PeerAnswers \/ E!PeerEnds
      PROVE  LoopInv'
  BY <1>1 DEF LoopInv, Phase, ToldIs, E!PeerAnswers, E!PeerEnds
<1>2. CASE E!Connect \/ E!ConnectTimer \/ E!ConnectorEvent
  BY <1>2, ConnectStep
<1>3. CASE E!Poll \/ E!EndOfRound
  BY <1>1, <1>3 DEF E!Poll, E!EndOfRound, E!conn
<1>4. CASE E!BeginRead
  <2>1. CASE eState = "Connected"
    BY <1>4, <2>1 DEF E!BeginRead, LoopInv, Phase, ToldIs
  <2>2. CASE eState # "Connected"
    BY <1>4, <2>2, EndMet DEF E!BeginRead, E!Handled
  <2> QED BY <2>1, <2>2
<1>5. CASE E!ReadMessage \/ E!EndMessage
  BY <1>5 DEF E!ReadMessage, E!EndMessage, E!conn, LoopInv, Phase, ToldIs
<1>6. CASE E!ReadEnd
  <2>1. /\ eSource = "connection" /\ ePeer \in {"open", "fin", "rst"}
        /\ eAt' = "handle" /\ UNCHANGED <<eCstate, eTimer, ePeer>>
    BY <1>6 DEF E!ReadEnd, E!Handled, LoopInv, Phase
  <2>2. \/ UNCHANGED <<eSource, eTold, eState>>
        \/ E!HandleErrorEvent("PassiveClose", eWatch)
        \/ E!HandleErrorEvent("CloseWaitWrite", {"write"})
        \/ E!HandleErrorEvent("Error", eWatch)
    BY <1>6, <2>1, Zenon DEF E!ReadEnd
  <2>3. CASE UNCHANGED <<eSource, eTold, eState>>
    BY <1>1, <2>1, <2>3
  <2> QED BY <2>1, <2>2, <2>3, EndHandled DEF OpenStates
<1>7. CASE E!HandleWriteEvent
  <2>1. eAt = "handle" /\ UNCHANGED <<eCstate, eTimer, ePeer>>
    BY <1>7 DEF E!HandleWriteEvent, E!Turn
  <2>2. CASE /\ eState \notin {"Connected", "CloseWaitWrite"}
             /\ E!HandleErrorEvent(eState, eWatch) /\ E!Handled("write")
    BY <2>1, <2>2, EndMet DEF E!Handled
  <2>3. CASE /\ eState \in {"Connected", "CloseWaitWrite"}
             /\ E!HandleErrorEvent("Error", eWatch) /\ E!Handled("write")
    <3>1. eSource = "connection"
      BY <2>3 DEF LoopInv, Phase
    <3> QED BY <2>1, <2>3, <3>1, EndHandled DEF E!Handled, OpenStates
  <2>4. CASE /\ eState \in {"Connected", "CloseWaitWrite"}
             /\ UNCHANGED <<eSource, eTold, eState>>
             /\ eAt' \in {"complete", "handle"}
    BY <2>1, <2>4 DEF LoopInv, Phase, ToldIs
  <2> QED BY <1>7, <2>1, <2>2, <2>3, <2>4 DEF E!HandleWriteEvent, E!Handled
<1>8. CASE E!EndComplete
  <2>1. /\ eSource = "connection" /\ eAt' = "handle"
        /\ UNCHANGED <<eCstate, eTimer, ePeer>>
    BY <1>8 DEF E!EndComplete, E!Handled, LoopInv
  <2> QED BY <1>1, <1>8, <2>1, EndHandled DEF E!EndComplete
<1>9. CASE E!ErrorEvent
  BY <1>9, EndMet DEF E!ErrorEvent, E!Handled
<1>10. CASE E!SendPacket \/ E!SendSlices \/ E!ActiveClose
  <2>1. /\ eSource = "connection" /\ eState' \in {eState, "Error", "ActiveClose"}
        /\ UNCHANGED <<eCstate, eTimer, eSource, eAt, ePeer, eTold>>
    BY <1>10 DEF E!SendPacket, E!SendSlices, E!Accepts, E!ActiveClose, E!MayAct, E!Send
  <2> QED BY <2>1 DEF LoopInv, Phase, ToldIs, OpenStates
<1>11. CASE E!Peer
  BY <1>1, <1>11 DEF E!Peer, E!PeerAnswers, E!PeerSends, E!PeerReads, E!PeerEnds, E!conn
<1>12. CASE UNCHANGED E!vars
  BY <1>1, <1>12 DEF E!vars, E!conn
<1> QED BY <1>2, <1>3, <1>4, <1>5, <1>6, <1>7, <1>8, <1>9, <1>10, <1>11, <1>12
        DEF E!Next, E!LoopStep, E!Application

\* What the kernel takes, and what is left, are what there was.
LEMMA KernelTakes ==
    ASSUME Room \in Nat, WireInv, NEW units \in Seq(Nat), E!ToKernel(units)
    PROVE  /\ eWire' \in Seq(Nat) /\ E!Rest(units) \in Seq(Nat)
           /\ eWire' \o E!Rest(units) = eWire \o units
           /\ eUnread' \in 0 .. Room
           /\ Len(eWire) <= Len(eWire')
<1> DEFINE k == E!Sendable(units)
           first == SubSeq(units, 1, k)
<1>1. /\ Len(units) \in Nat /\ k \in 0 .. Len(units)
      /\ eUnread + k \in 0 .. Room
  <2>1. Len(units) \in Nat
    BY LenProperties
  <2>2. eUnread \in Nat /\ eUnread <= Room
    BY DEF WireInv
  <2> QED BY <2>1, <2>2 DEF E!Sendable
<1>2. eWire' = eWire \o first /\ eUnread' = eUnread + k
  BY DEF E!ToKernel
<1>3. E!Rest(units) = SubSeq(units, k + 1, Len(units))
  BY DEF E!Rest
<1> HIDE DEF k
<1>4. \A i \in 1 .. Len(units) : units[i] \in Nat
  BY ElementOfSeq
<1>5. first \in Seq(Nat) /\ E!Rest(units) \in Seq(Nat)
  <2>1. \A i \in 1 .. k : units[i] \in Nat
    BY <1>1, <1>4
  <2>2. \A i \in k + 1 .. Len(units) : units[i] \in Nat
    BY <1>1, <1>4
  <2>3. first \in Seq(Nat)
    BY <1>1, <2>1, SubSeqProperties
  <2>4. SubSeq(units, k + 1, Len(units)) \in Seq(Nat)
    BY <1>1, <2>2, SubSeqProperties
  <2> QED BY <1>3, <2>3, <2>4
<1>6. first \o E!Rest(units) = units
  <2>1. first \o SubSeq(units, k + 1, Len(units)) = SubSeq(units, 1, Len(units))
    <3> DEFINE m == 1
               n == Len(units)
    <3>1. m \in 1 .. Len(units) + 1 /\ k \in m - 1 .. Len(units) /\ n \in k .. Len(units)
      BY <1>1
    <3> HIDE DEF m, n
    <3>2. SubSeq(units, m, k) \o SubSeq(units, k + 1, n) = SubSeq(units, m, n)
      BY <3>1, ConcatAdjacentSubSeq
    <3> QED BY <3>2 DEF m, n
  <2> QED BY <1>3, <2>1, SubSeqFull
<1>7. eWire \in Seq(Nat)
  BY DEF WireInv
<1> HIDE DEF first
<1>8. (eWire \o first) \o E!Rest(units) = eWire \o (first \o E!Rest(units))
  BY <1>5, <1>7, ConcatAssociative
<1>9. eWire \o first \in Seq(Nat) /\ Len(eWire \o first) = Len(eWire) + Len(first)
  BY <1>5, <1>7, ConcatProperties
<1>10. Len(eWire) <= Len(eWire \o first)
  <2>1. Len(eWire) \in Nat /\ Len(first) \in Nat
    BY <1>5, <1>7, LenProperties
  <2> QED BY <1>9, <2>1
<1> QED BY <1>1, <1>2, <1>5, <1>6, <1>8, <1>9, <1>10

\* A packet that is accepted is sent, or waits behind what waits.
LEMMA PacketSent ==
    ASSUME Room \in Nat, WireInv, NEW packet \in Seq(Nat), E!Send(packet)
    PROVE  /\ eWire' \in Seq(Nat) /\ eSendBuf' \in Seq(Nat) /\ eAccepted' \in Seq(Nat)
           /\ eUnread' \in 0 .. Room
           /\ eWire' \o eSendBuf' = eAccepted'
           /\ eState' \in {eState, "Error"}
           /\ Len(eAccepted) <= Len(eAccepted')
           /\ Len(eSendBuf') - Len(eSendBuf) <= Len(eAccepted') - Len(eAccepted)
<1>1. /\ eWire \in Seq(Nat) /\ eSendBuf \in Seq(Nat) /\ eAccepted \in Seq(Nat)
      /\ eUnread \in 0 .. Room /\ eWire \o eSendBuf = eAccepted
  BY DEF WireInv
<1>2. /\ eAccepted \o packet \in Seq(Nat) /\ eSendBuf \o packet \in Seq(Nat)
      /\ Len(eAccepted \o packet) = Len(eAccepted) + Len(packet)
  BY <1>1, ConcatProperties
<1>3. /\ eWire' \in Seq(Nat) /\ eSendBuf' \in Seq(Nat) /\ eAccepted' \in Seq(Nat)
      /\ eUnread' \in 0 .. Room
      /\ eWire' \o eSendBuf' = eAccepted'
      /\ eState' \in {eState, "Error"}
      /\ eAccepted' \in {eAccepted, eAccepted \o packet}
      /\ Len(eWire) <= Len(eWire')
  <2>1. Len(eWire) \in Nat
    BY <1>1, LenProperties
  <2>2. CASE /\ eSendBuf' = eSendBuf \o packet
             /\ eAccepted' = eAccepted \o packet
             /\ UNCHANGED <<eWatch, eWire, eUnread, eState>>
    <3>1. eWire \in Seq(Nat) /\ eSendBuf \in Seq(Nat)
      BY <1>1
    <3>2. (eWire \o eSendBuf) \o packet = eWire \o (eSendBuf \o packet)
      BY <3>1, ConcatAssociative
    <3> QED BY <1>1, <1>2, <2>1, <2>2, <3>2
  <2>3. CASE eState' = "Error" /\ UNCHANGED <<eSendBuf, eWire, eUnread, eAccepted>>
    BY <1>1, <2>1, <2>3
  <2>4. CASE /\ eSendBuf = <<>> /\ E!ToKernel(packet)
             /\ eSendBuf' = E!Rest(packet)
             /\ eAccepted' = eAccepted \o packet
             /\ UNCHANGED eState
    <3>1. eWire = eAccepted
      BY <1>1, <2>4, ConcatEmptySeq
    <3> QED BY <1>2, <2>4, <3>1, KernelTakes
  <2> QED BY <2>2, <2>3, <2>4 DEF E!Send
<1>4. /\ Len(eAccepted) = Len(eWire) + Len(eSendBuf)
      /\ Len(eAccepted') = Len(eWire') + Len(eSendBuf')
      /\ Len(eAccepted) <= Len(eAccepted')
  <2>1. Len(packet) \in Nat /\ Len(eAccepted) \in Nat
    BY <1>1, LenProperties
  <2>2. Len(eWire \o eSendBuf) = Len(eWire) + Len(eSendBuf)
    BY <1>1, ConcatProperties
  <2>3. Len(eWire' \o eSendBuf') = Len(eWire') + Len(eSendBuf')
    BY <1>3, ConcatProperties
  <2> QED BY <1>1, <1>2, <1>3, <2>1, <2>2, <2>3
<1>5. /\ Len(eWire) \in Nat /\ Len(eSendBuf) \in Nat
      /\ Len(eWire') \in Nat /\ Len(eSendBuf') \in Nat
  BY <1>1, <1>3, LenProperties
<1> QED BY <1>3, <1>4, <1>5

\* An end that the peer chose is told when nothing waits that was not sent late.
LEMMA EndKeepsWire ==
    ASSUME LoopInv, WireInv, eAt' = "handle",
           UNCHANGED <<eSendBuf, eWire, eAccepted, eUnread, eLate>>,
           NEW now, NEW w, E!HandleErrorEvent(now, w),
           eState \in {"None", "Closed"} => now = eState,
           now = "PassiveClose" => Len(eSendBuf) <= eLate
    PROVE  WireInv'
BY DEF LoopInv, WireInv, E!HandleErrorEvent

LEMMA WireKept ==
    ASSUME Room \in Nat, LoopInv, WireInv, [E!Next]_E!vars
    PROVE  WireInv'
<1>1. ASSUME UNCHANGED <<eSendBuf, eWire, eAccepted, eLate>>,
             eUnread' \in 0 .. Room,
             eTold'["passive"] = eTold["passive"],
             eState' = eState \/ (eTold["passive"] # 1 /\ eState' # "CloseWaitWrite"),
             eAt' \in {eAt, "poll", "handle", "read", "message"}
      PROVE  WireInv'
  BY <1>1 DEF WireInv
<1>2. eUnread \in 0 .. Room
  BY DEF WireInv
<1>3. eSource # "none" \/ eState = "None" => eTold["passive"] # 1
  BY DEF LoopInv, Phase, WireInv, OpenStates
<1>4. CASE E!Connect \/ E!ConnectTimer \/ E!ConnectorEvent
  <2>1. /\ UNCHANGED <<eSendBuf, eWire, eAccepted, eUnread, eLate, eAt>>
        /\ eState' \in {eState, "Connected"}
    BY <1>4 DEF E!Connect, E!ConnectTimer, E!ConnectorEvent, E!OnSuccess, E!OnFailed, E!conn
  <2>2. eTold'["passive"] = eTold["passive"]
    BY <1>4 DEF E!Connect, E!ConnectTimer, E!ConnectorEvent, E!OnSuccess, E!OnFailed, E!Tell, LoopInv
  <2>3. eState = "None"
    BY <1>4 DEF E!Connect, E!ConnectTimer, E!ConnectorEvent, LoopInv, Phase
  <2> QED BY <1>1, <1>2, <1>3, <2>1, <2>2, <2>3
<1>5. CASE E!Poll \/ E!EndOfRound \/ E!ReadMessage \/ E!EndMessage
  BY <1>1, <1>2, <1>5 DEF E!Poll, E!EndOfRound, E!ReadMessage, E!EndMessage, E!conn
<1>6. CASE E!BeginRead
  <2>1. UNCHANGED <<eSendBuf, eWire, eAccepted, eUnread, eLate>>
    BY <1>6 DEF E!BeginRead
  <2>2. CASE eState = "Connected"
    BY <1>1, <1>2, <1>6, <2>1, <2>2 DEF E!BeginRead
  <2>3. CASE eState # "Connected"
    <3>1. eState # "PassiveClose"
      BY DEF LoopInv, Phase, OpenStates
    <3> QED BY <1>6, <2>1, <2>3, <3>1, EndKeepsWire DEF E!BeginRead, E!Handled
  <2> QED BY <2>2, <2>3
<1>7. CASE E!ReadEnd
  <2>1. /\ eSource = "connection" /\ ePeer \in {"open", "fin", "rst"}
        /\ eState \notin {"None", "Closed"}
        /\ eAt' = "handle" /\ UNCHANGED <<eSendBuf, eWire, eAccepted, eUnread, eLate>>
    BY <1>7 DEF E!ReadEnd, E!Handled, LoopInv, Phase, OpenStates
  <2>2. \/ UNCHANGED <<eSource, eTold, eState>>
        \/ Len(eSendBuf) <= eLate /\ E!HandleErrorEvent("PassiveClose", eWatch)
        \/ E!HandleErrorEvent("CloseWaitWrite", {"write"})
        \/ E!HandleErrorEvent("Error", eWatch)
    <3>1. eSendBuf = <<>> => Len(eSendBuf) <= eLate
      BY EmptySeq DEF WireInv
    <3> QED BY <1>7, <2>1, <3>1, Zenon DEF E!ReadEnd
  <2>3. CASE UNCHANGED <<eSource, eTold, eState>>
    BY <1>1, <1>2, <2>1, <2>3
  <2> QED BY <2>1, <2>2, <2>3, EndKeepsWire
<1>8. CASE E!HandleWriteEvent
  <2>1. eAt = "handle" /\ eState # "PassiveClose"
    BY <1>8 DEF E!HandleWriteEvent, E!Turn, LoopInv, Phase, OpenStates
  <2>2. CASE /\ E!HandleErrorEvent(eState, eWatch) /\ E!Handled("write")
             /\ UNCHANGED <<eSendBuf, eUnread, eWire, eAccepted, eLate>>
    BY <2>1, <2>2, EndKeepsWire DEF E!Handled
  <2>3. CASE /\ eState \in {"Connected", "CloseWaitWrite"}
             /\ E!HandleErrorEvent("Error", eWatch) /\ E!Handled("write")
             /\ UNCHANGED <<eSendBuf, eUnread, eWire, eAccepted, eLate>>
    BY <2>3, EndKeepsWire DEF E!Handled
  <2>4. CASE /\ eState \in {"Connected", "CloseWaitWrite"}
             /\ E!ToKernel(eSendBuf) /\ eSendBuf' = E!Rest(eSendBuf)
             /\ eAt' = "complete" => eSendBuf' = <<>>
             /\ UNCHANGED <<eTold, eState, eAccepted, eLate>>
    <3>1. eTold["passive"] # 1
      BY <2>4 DEF WireInv
    <3>2. eSendBuf \in Seq(Nat) /\ eWire \o eSendBuf = eAccepted /\ eAccepted \in Seq(Nat)
      BY DEF WireInv
    <3>3. /\ eWire' \in Seq(Nat) /\ eSendBuf' \in Seq(Nat)
          /\ eWire' \o eSendBuf' = eAccepted' /\ eUnread' \in 0 .. Room
      BY <2>4, <3>2, KernelTakes
    <3>4. /\ eLate \in Nat /\ Len(<<>>) = 0
          /\ UNCHANGED <<eTold, eState, eAccepted, eLate>>
          /\ eAt' = "complete" => eSendBuf' = <<>>
      BY <2>4, EmptySeq DEF WireInv
    <3> HIDE <2>4
    <3> QED BY <3>1, <3>2, <3>3, <3>4 DEF WireInv
  <2> QED BY <1>8, <2>2, <2>3, <2>4 DEF E!HandleWriteEvent, E!Handled
<1>9. CASE E!EndComplete
  <2>1. /\ eSource = "connection" /\ eAt = "complete" /\ eAt' = "handle"
        /\ eState \notin {"None", "Closed"}
        /\ UNCHANGED <<eSendBuf, eWire, eAccepted, eUnread, eLate>>
    BY <1>9 DEF E!EndComplete, E!Handled, LoopInv, Phase, OpenStates
  <2>2. CASE eState = "CloseWaitWrite"
    <3>1. Len(eSendBuf) <= eLate
      BY <2>1, <2>2 DEF WireInv
    <3> QED BY <1>9, <2>1, <2>2, <3>1, EndKeepsWire DEF E!EndComplete
  <2>3. CASE eState # "CloseWaitWrite"
    BY <1>1, <1>2, <1>9, <2>1, <2>3 DEF E!EndComplete
  <2> QED BY <2>2, <2>3
<1>10. CASE E!ErrorEvent
  <2>1. eState # "PassiveClose"
    BY DEF LoopInv, Phase, OpenStates
  <2> QED BY <1>10, <2>1, EndKeepsWire DEF E!ErrorEvent, E!Handled
<1>11. CASE E!SendPacket \/ E!SendSlices
  <2>1. /\ eSource = "connection" /\ E!Send(E!Packet) /\ UNCHANGED <<eAt, eTold>>
        /\ eLate' = IF E!ClosesNext THEN eLate + (Len(eAccepted') - Len(eAccepted))
                                   ELSE eLate
    BY <1>11, Zenon DEF E!SendPacket, E!SendSlices, E!Accepts, E!MayAct
  <2>2. E!Packet \in Seq(Nat)
    BY LenProperties DEF E!Packet, WireInv
  <2>3. eTold["passive"] # 1
    BY <1>3, <2>1
  <2>4. /\ eWire' \in Seq(Nat) /\ eSendBuf' \in Seq(Nat) /\ eAccepted' \in Seq(Nat)
        /\ eUnread' \in 0 .. Room /\ eWire' \o eSendBuf' = eAccepted'
        /\ eState' \in {eState, "Error"}
    BY <2>1, <2>2, PacketSent
  <2>5. /\ Len(eSendBuf) \in Nat /\ Len(eSendBuf') \in Nat
        /\ Len(eAccepted) \in Nat /\ Len(eAccepted') \in Nat
        /\ Len(eAccepted) <= Len(eAccepted')
        /\ Len(eSendBuf') - Len(eSendBuf) <= Len(eAccepted') - Len(eAccepted)
    BY <2>1, <2>2, <2>4, PacketSent, LenProperties DEF WireInv
  <2>6. /\ eLate' \in Nat
        /\ eAt' = "complete" /\ eState' = "CloseWaitWrite" => Len(eSendBuf') <= eLate'
    BY <2>1, <2>4, <2>5 DEF WireInv, E!ClosesNext
  <2> QED BY <2>1, <2>3, <2>4, <2>6 DEF WireInv
<1>12. CASE E!ActiveClose
  <2>1. /\ eSource # "none" /\ eState' = "ActiveClose"
        /\ UNCHANGED <<eSendBuf, eWire, eAccepted, eUnread, eLate, eTold, eAt>>
    BY <1>12 DEF E!ActiveClose, E!MayAct
  <2> QED BY <1>1, <1>2, <1>3, <2>1
<1>13. CASE E!Peer
  <2>1. eUnread' \in 0 .. Room
    BY <1>2, <1>13 DEF E!Peer, E!PeerAnswers, E!PeerSends, E!PeerReads, E!PeerEnds, E!conn
  <2> QED BY <1>1, <1>13, <2>1
          DEF E!Peer, E!PeerAnswers, E!PeerSends, E!PeerReads, E!PeerEnds, E!conn
<1>14. CASE UNCHANGED E!vars
  BY <1>1, <1>2, <1>14 DEF E!vars, E!conn
<1> QED BY <1>4, <1>5, <1>6, <1>7, <1>8, <1>9, <1>10, <1>11, <1>12, <1>13, <1>14
        DEF E!Next, E!LoopStep, E!Application

\* The part of what was accepted that the kernel took.
LEMMA WireIsPrefix == LoopInv /\ WireInv => E!SendsInOrder
<1> SUFFICES ASSUME LoopInv, WireInv PROVE E!SendsInOrder
  OBVIOUS
<1>1. /\ eWire \in Seq(Nat) /\ eSendBuf \in Seq(Nat) /\ eAccepted = eWire \o eSendBuf
      /\ eTold["passive"] = 1 => Len(eSendBuf) <= eLate /\ eLate \in Nat
  BY DEF WireInv
<1>2. IsPrefix(eWire, eAccepted)
  <2>1. /\ Len(eWire) \in Nat /\ Len(eSendBuf) \in Nat
        /\ Len(eAccepted) = Len(eWire) + Len(eSendBuf)
    BY <1>1, LenProperties, ConcatProperties
  <2>2. CASE Len(eWire) = 0
    BY <2>1, <2>2, SubSeqEmpty DEF IsPrefix
  <2>3. CASE Len(eWire) # 0
    <3>1. SubSeq(eAccepted, 1, Len(eWire)) = SubSeq(eWire, 1, Len(eWire))
      <4> DEFINE n == Len(eWire)
      <4>1. 1 \in 1 .. Len(eWire) /\ n \in 1 .. Len(eWire)
        BY <2>1, <2>3
      <4>2. eWire \in Seq(Nat) /\ eSendBuf \in Seq(Nat)
        BY <1>1
      <4> HIDE DEF n
      <4>3. SubSeq(eWire \o eSendBuf, 1, n) = SubSeq(eWire, 1, n)
        BY <4>1, <4>2, SubSeqOfConcat1
      <4> QED BY <1>1, <4>3 DEF n
    <3> QED BY <2>1, <3>1 DEF IsPrefix
  <2> QED BY <2>2, <2>3
<1>3. eTold["passive"] = 1 => Len(eWire) >= Len(eAccepted) - eLate
  <2>1. /\ Len(eWire) \in Nat /\ Len(eSendBuf) \in Nat
        /\ Len(eAccepted) = Len(eWire) + Len(eSendBuf)
    BY <1>1, LenProperties, ConcatProperties
  <2> QED BY <1>1, <2>1
<1> QED BY <1>1, <1>2, <1>3 DEF E!SendsInOrder, E!IsPrefix, IsPrefix

\* Whatever handlers send and whenever, with any room in the kernel
\* (Connection::SendPacket, HandleWriteEvent): the kernel has taken, in order, a
\* prefix of what SendPacket accepted, and all of it when the end that the peer
\* chose is told, but for what onWriteComplete sent when the connection was to be
\* closed after it.  And however a connect ends, by its answer, its timer or an
\* error, and whichever events of a round meet the end of the connection, each is
\* told once by each of onDisconnect_ and onConnFail_, which hears of a failed connect
\* or of the end of a connection, never of both (Connector::_OnSuccess, _OnFailed,
\* Connection::HandleErrorEvent).
THEOREM PacketsGoInOrder == Fair => []SendsInOrder
<1>1. Begins => LoopInv /\ WireInv
  <2>1. Begins => E!Init
    BY DEF Begins
  <2> QED BY <2>1, LoopInit, WireInit, PeersAssumption
<1>2. LoopInv /\ WireInv /\ [Goes]_all => (LoopInv /\ WireInv)'
  <2>1. [Goes]_all => [E!Next]_E!vars
    BY DEF Goes, all, eVars, E!vars, E!conn
  <2> QED BY <2>1, LoopKept, WireKept, PeersAssumption
<1>3. LoopInv /\ WireInv => SendsInOrder
  <2>1. LoopInv => E!ToldOnce
    BY DEF LoopInv, Phase, ToldIs, OpenStates, E!ToldOnce
  <2> QED BY <2>1, WireIsPrefix, PeersAssumption DEF SendsInOrder
<1> QED BY <1>1, <1>2, <1>3, PTL DEF Fair

-----------------------------------------------------------------------------
(***************************************************************************)
(* The election.                                                           *)
(***************************************************************************)
\* Children, requests and answers, when k children have been made.
Kids(k) == [seq : 1 .. k, node : Nodes, session : Nat]
Lists(k) == {U \in SUBSET Kids(k) : \A c, d \in U : c.seq = d.seq => c = d}
Request == [op : {"handshake", "exists"}, of : Nat]
              \cup [op : {"create", "children", "data"}]
Answer(k) == [op : {"handshake", "exists", "deleted"}, of : Nat]
              \cup [op : {"create"}, of : 1 .. k]
              \cup [op : {"children"}, of : Lists(k)]
              \cup [op : {"data"}]

Shapes ==
    /\ sLast \in Nat /\ sMade \in Nat
    /\ sTree \in Lists(sLast)
    /\ sServes \in [Nodes -> Nat] /\ sWatched \in [Nodes -> Nat]
    /\ sFile \in [Nodes -> Nat] /\ sSess \in [Nodes -> Nat]
    /\ sSeq \in [Nodes -> 0 .. sLast]
    /\ sSiblings \in [Nodes -> SUBSET Kids(sLast)]
    /\ sState \in [Nodes -> {"none", "handshaking", "connected"}]
    /\ sAsked \in [Nodes -> Seq(Request)]
    /\ sToNode \in [Nodes -> Seq(Answer(sLast))]
    /\ sRole = [n \in Nodes |-> sRole[n]]

\* A connection's first two exchanges are alone on it, and nothing is watched
\* till they end.
Alone(n) ==
    /\ sState[n] = "none" => sAsked[n] = <<>> /\ sToNode[n] = <<>> /\ sWatched[n] = 0
    /\ \A r \in ToSet(sAsked[n]) :
          r.op \in {"handshake", "create"}
            => Tail(sAsked[n]) = <<>> /\ sToNode[n] = <<>> /\ sWatched[n] = 0
    /\ \A a \in ToSet(sToNode[n]) :
          a.op \in {"handshake", "create"}
            => Tail(sToNode[n]) = <<>> /\ sAsked[n] = <<>> /\ sWatched[n] = 0

\* What a list of children lacks was made after all that it has.
ListsAreOld(n) ==
    \A a \in ToSet(sToNode[n]) :
        a.op = "children"
          => \A c \in sTree : c \in a.of \/ \A d \in a.of : d.seq < c.seq

\* Who asks for the set's data, as the master to be, has the lowest node.
DataIsForTheLowest(n) ==
    \A r \in ToSet(sAsked[n]) \cup ToSet(sToNode[n]) :
        r.op = "data" => sSeq[n] # 0 /\ \A c \in sTree : sSeq[n] <= c.seq

MasterStays(n) ==
    sRole[n][1] = "master" => sRole[n][2] \in 0 .. sLast /\ \A c \in sTree : sRole[n][2] <= c.seq

Elected(n) == Alone(n) /\ ListsAreOld(n) /\ DataIsForTheLowest(n) /\ MasterStays(n)

\* Of some children, one is the lowest, and one the highest.
LEMMA LowestIs ==
    ASSUME NEW k \in Nat, NEW U, U \subseteq Kids(k), U # {}
    PROVE  S!Lowest(U) \in U /\ \A d \in U : S!Lowest(U).seq <= d.seq
<1> DEFINE T == {c.seq : c \in U}
<1>1. T \in SUBSET Nat /\ T # {}
  BY DEF Kids
<1>2. PICK m \in T : \A i \in T : m <= i
  BY <1>1, LeastNat
<1>3. PICK c \in U : c.seq = m
  OBVIOUS
<1>4. \A d \in U : c.seq <= d.seq
  BY <1>2, <1>3
<1> QED BY <1>3, <1>4 DEF S!Lowest

LEMMA HighestIs ==
    ASSUME NEW k \in Nat, NEW U, U \subseteq Kids(k), U # {}
    PROVE  S!Highest(U) \in U /\ \A d \in U : d.seq <= S!Highest(U).seq
<1> DEFINE T == {k - c.seq : c \in U}
<1>1. T \in SUBSET Nat /\ T # {}
  BY DEF Kids
<1>2. PICK m \in T : \A i \in T : m <= i
  BY <1>1, LeastNat
<1>3. PICK c \in U : m = k - c.seq
  OBVIOUS
<1>4. ASSUME NEW d \in U PROVE d.seq <= c.seq
  <2>1. d.seq \in 1 .. k /\ c.seq \in 1 .. k
    BY DEF Kids
  <2>2. k - c.seq <= k - d.seq
    BY <1>2, <1>3
  <2> QED BY <2>1, <2>2
<1> QED BY <1>3, <1>4 DEF S!Highest

\* Children that were made stay made.
LEMMA MoreKids ==
    ASSUME NEW k \in Nat
    PROVE  /\ Kids(k) \subseteq Kids(k + 1) /\ Lists(k) \subseteq Lists(k + 1)
           /\ Answer(k) \subseteq Answer(k + 1)
           /\ Seq(Answer(k)) \subseteq Seq(Answer(k + 1))
<1>1. 1 .. k \subseteq 1 .. k + 1
  OBVIOUS
<1>2. Kids(k) \subseteq Kids(k + 1)
  BY <1>1 DEF Kids
<1>3. Lists(k) \subseteq Lists(k + 1)
  BY <1>2 DEF Lists
<1>4. Answer(k) \subseteq Answer(k + 1)
  BY <1>1, <1>3 DEF Answer
<1> QED BY <1>2, <1>3, <1>4

LEMMA ShapesInit == S!Init => Shapes
BY EmptySeq DEF S!Init, Shapes, Lists, S!Zeros

LEMMA ElectedInit == ASSUME S!Init, NEW n \in Nodes PROVE Elected(n)
<1>1. ToSet(<<>>) = {}
  BY EmptySeq, SetOfSeq
<1> QED BY <1>1 DEF S!Init, S!Zeros, Elected, Alone, ListsAreOld, DataIsForTheLowest, MasterStays

\* One more request.
LEMMA Asked ==
    ASSUME Shapes, NEW n \in Nodes, NEW r \in Request, S!Ask(n, r)
    PROVE  /\ sAsked' \in [Nodes -> Seq(Request)]
           /\ ToSet(sAsked'[n]) = ToSet(sAsked[n]) \cup {r}
           /\ sAsked[n] = <<>> => Tail(sAsked'[n]) = <<>>
           /\ \A m \in Nodes \ {n} : sAsked'[m] = sAsked[m]
<1>1. sAsked[n] \in Seq(Request) /\ sAsked'[n] = Append(sAsked[n], r)
  BY DEF Shapes, S!Ask
<1>2. Append(sAsked[n], r) \in Seq(Request) /\ ToSet(Append(sAsked[n], r)) = ToSet(sAsked[n]) \cup {r}
  BY <1>1, AppendSet
<1>3. sAsked[n] = <<>> => Tail(Append(sAsked[n], r)) = <<>>
  BY <1>1
<1> QED BY <1>1, <1>2, <1>3 DEF Shapes, S!Ask

\* One answer less.
LEMMA Taken ==
    ASSUME Shapes, NEW n \in Nodes, sToNode[n] # <<>>, S!Take(n)
    PROVE  /\ sToNode' \in [Nodes -> Seq(Answer(sLast))]
           /\ Head(sToNode[n]) \in Answer(sLast)
           /\ ToSet(sToNode[n]) = {Head(sToNode[n])} \cup ToSet(sToNode'[n])
           /\ sToNode'[n] = Tail(sToNode[n])
           /\ \A m \in Nodes \ {n} : sToNode'[m] = sToNode[m]
<1>1. sToNode[n] \in Seq(Answer(sLast)) /\ sToNode'[n] = Tail(sToNode[n])
  BY DEF Shapes, S!Take
<1>2. /\ Tail(sToNode[n]) \in Seq(Answer(sLast)) /\ Head(sToNode[n]) \in Answer(sLast)
      /\ ToSet(sToNode[n]) = {Head(sToNode[n])} \cup ToSet(Tail(sToNode[n]))
  BY <1>1, EndsSet
<1> QED BY <1>1, <1>2 DEF Shapes, S!Take

Election == Shapes /\ \A n \in Nodes : Elected(n)

\* Children go, or a new one comes after all others: what is on its way stays
\* right.
Grows ==
    \/ sLast' = sLast /\ sTree' \subseteq sTree
    \/ sLast' = sLast + 1 /\ \A c \in sTree' : c \in sTree \/ c.seq = sLast + 1

LEMMA StillRight ==
    ASSUME Shapes, NEW n \in Nodes, Elected(n), Grows
    PROVE  /\ \A a \in ToSet(sToNode[n]) :
                a.op = "children"
                  => \A c \in sTree' : c \in a.of \/ \A d \in a.of : d.seq < c.seq
           /\ \A r \in ToSet(sAsked[n]) \cup ToSet(sToNode[n]) :
                r.op = "data" => sSeq[n] # 0 /\ \A c \in sTree' : sSeq[n] <= c.seq
           /\ sRole[n][1] = "master"
                => sRole[n][2] \in 0 .. sLast' /\ \A c \in sTree' : sRole[n][2] <= c.seq
<1>1. sLast \in Nat /\ sSeq[n] \in 0 .. sLast /\ sToNode[n] \in Seq(Answer(sLast))
  BY DEF Shapes
<1>2. \A c \in sTree' : c \in sTree \/ c.seq = sLast + 1
  BY DEF Grows
<1>3. ASSUME NEW a \in ToSet(sToNode[n]), a.op = "children",
             NEW c \in sTree', c \notin a.of, NEW d \in a.of
      PROVE  d.seq < c.seq
  <2>1. a \in Answer(sLast)
    BY <1>1, SetOfSeq
  <2>2. d.seq \in 1 .. sLast
    BY <1>3, <2>1 DEF Answer, Lists, Kids
  <2>3. CASE c \in sTree
    BY <1>3, <2>3 DEF Elected, ListsAreOld
  <2> QED BY <1>1, <1>2, <2>2, <2>3
<1>4. ASSUME NEW r \in ToSet(sAsked[n]) \cup ToSet(sToNode[n]), r.op = "data"
      PROVE  sSeq[n] # 0 /\ \A c \in sTree' : sSeq[n] <= c.seq
  <2>1. sSeq[n] # 0 /\ \A c \in sTree : sSeq[n] <= c.seq
    BY <1>4 DEF Elected, DataIsForTheLowest
  <2> QED BY <1>1, <1>2, <2>1
<1>5. ASSUME sRole[n][1] = "master"
      PROVE  sRole[n][2] \in 0 .. sLast' /\ \A c \in sTree' : sRole[n][2] <= c.seq
  <2>1. sRole[n][2] \in 0 .. sLast /\ \A c \in sTree : sRole[n][2] <= c.seq
    BY <1>5 DEF Elected, MasterStays
  <2>2. sLast' \in {sLast, sLast + 1}
    BY DEF Grows
  <2> QED BY <1>1, <1>2, <2>1, <2>2
<1> QED BY <1>3, <1>4, <1>5

LEMMA Elsewhere ==
    ASSUME Shapes, NEW n \in Nodes, Elected(n),
           sAsked'[n] = sAsked[n], sToNode'[n] = sToNode[n],
           sWatched'[n] = sWatched[n] \/ sWatched'[n] = 0,
           sSeq'[n] = sSeq[n], sState'[n] = sState[n],
           sRole'[n] = sRole[n] \/ sRole'[n][1] # "master",
           Grows
    PROVE  Elected(n)'
<1>1. Alone(n)'
  BY DEF Elected, Alone
<1>2. ListsAreOld(n)' /\ DataIsForTheLowest(n)' /\ MasterStays(n)'
  BY StillRight DEF ListsAreOld, DataIsForTheLowest, MasterStays
<1> QED BY <1>1, <1>2 DEF Elected

\* The end of a connection.
LEMMA Dropped ==
    ASSUME Election, NEW n \in Nodes, S!Drop(n),
           UNCHANGED <<sTree, sMade, sLast, sFile>>,
           sRole' \in {sRole, [sRole EXCEPT ![n] = <<"none">>]}
    PROVE  Election'
<1>1. Shapes'
  BY EmptySeq DEF Election, Shapes, S!Drop
<1>2. ASSUME NEW m \in Nodes, m # n PROVE Elected(m)'
  <2>1. /\ sAsked'[m] = sAsked[m] /\ sToNode'[m] = sToNode[m] /\ sWatched'[m] = sWatched[m]
        /\ sSeq'[m] = sSeq[m] /\ sState'[m] = sState[m] /\ sRole'[m] = sRole[m]
    BY <1>2 DEF S!Drop, Election, Shapes
  <2> QED BY <2>1, Elsewhere DEF Election, Grows
<1>3. Elected(n)'
  <2>1. /\ sAsked'[n] = <<>> /\ sToNode'[n] = <<>> /\ sWatched'[n] = 0
        /\ sRole'[n] = sRole[n] \/ sRole'[n] = <<"none">>
    BY DEF S!Drop, Election, Shapes
  <2>2. ToSet(<<>>) = {}
    BY EmptySeq, SetOfSeq
  <2>3. Alone(n)' /\ ListsAreOld(n)' /\ DataIsForTheLowest(n)'
    BY <2>1, <2>2 DEF Alone, ListsAreOld, DataIsForTheLowest
  <2>4. MasterStays(n)'
    BY <2>1 DEF MasterStays, Election, Elected
  <2> QED BY <2>3, <2>4 DEF Elected
<1> QED BY <1>1, <1>2, <1>3 DEF Election

LEMMA AbortKept == ASSUME Election, NEW n \in Nodes, S!Abort(n) PROVE Election'
BY Dropped DEF S!Abort

LEMMA EndKept ==
    ASSUME Election, NEW n \in Nodes, S!Disconnect(n) \/ S!Break(n) \/ S!Crash(n)
    PROVE  Election'
BY Dropped DEF S!Disconnect, S!Break, S!Crash

LEMMA OnConnectKept == ASSUME Election, NEW n \in Nodes, S!OnConnect(n) PROVE Election'
<1> DEFINE r == [op |-> "handshake", of |-> sFile[n]]
<1>1. r \in Request /\ S!Ask(n, r)
  BY DEF Election, Shapes, Request, S!OnConnect
<1>2. /\ UNCHANGED <<sTree, sLast, sMade, sToNode, sWatched, sServes, sSeq, sSiblings, sRole>>
      /\ sState[n] = "none"
      /\ sState' = [sState EXCEPT ![n] = "handshaking"]
      /\ sSess' = [sSess EXCEPT ![n] = sFile[n]]
      /\ sFile' = [sFile EXCEPT ![n] = 0]
  BY DEF S!OnConnect, S!zk
<1> HIDE DEF r
<1>3. /\ sAsked' \in [Nodes -> Seq(Request)]
      /\ sAsked[n] = <<>> => Tail(sAsked'[n]) = <<>>
      /\ ToSet(sAsked'[n]) = ToSet(sAsked[n]) \cup {r}
      /\ \A m \in Nodes \ {n} : sAsked'[m] = sAsked[m]
  BY <1>1, Asked DEF Election
<1>4. Shapes'
  BY <1>2, <1>3 DEF Election, Shapes
<1>5. ASSUME NEW m \in Nodes, m # n PROVE Elected(m)'
  <2>1. sAsked'[m] = sAsked[m] /\ sState'[m] = sState[m]
    BY <1>2, <1>3, <1>5 DEF Election, Shapes
  <2> QED BY <1>2, <2>1, Elsewhere DEF Election, Grows
<1>6. Elected(n)'
  <2>1. sAsked[n] = <<>> /\ sToNode[n] = <<>> /\ sWatched[n] = 0 /\ sState'[n] = "handshaking"
    BY <1>2 DEF Election, Elected, Alone, Shapes
  <2>2. ToSet(<<>>) = {}
    BY EmptySeq, SetOfSeq
  <2>3. /\ Tail(sAsked'[n]) = <<>> /\ sToNode'[n] = <<>> /\ sWatched'[n] = 0
        /\ ToSet(sAsked[n]) = {} /\ ToSet(sAsked'[n]) = ToSet(sAsked[n]) \cup {r}
    BY <1>2, <1>3, <2>1, <2>2
  <2>4. r.op = "handshake"
    BY DEF r
  <2>5. Alone(n)' /\ ListsAreOld(n)' /\ DataIsForTheLowest(n)'
    BY <2>1, <2>2, <2>3, <2>4 DEF Alone, ListsAreOld, DataIsForTheLowest
  <2>6. MasterStays(n)'
    BY <1>2 DEF Election, Elected, MasterStays
  <2> QED BY <2>5, <2>6 DEF Elected
<1> QED BY <1>4, <1>5, <1>6 DEF Election

\* What reads an answer of n changes the rest of n alone.
OthersStay(n) ==
    /\ UNCHANGED <<sTree, sLast>>
    /\ sWatched' = sWatched
    /\ \A m \in Nodes \ {n} :
          /\ sAsked'[m] = sAsked[m] /\ sToNode'[m] = sToNode[m] /\ sSeq'[m] = sSeq[m]
          /\ sState'[m] = sState[m] /\ sRole'[m] = sRole[m]

LEMMA OthersKept ==
    ASSUME Election, NEW n \in Nodes, OthersStay(n), NEW m \in Nodes, m # n
    PROVE  Elected(m)'
<1>1. sWatched'[m] = sWatched[m] /\ sLast' = sLast /\ sTree' \subseteq sTree
  BY DEF OthersStay
<1>2. /\ sAsked'[m] = sAsked[m] /\ sToNode'[m] = sToNode[m] /\ sSeq'[m] = sSeq[m]
      /\ sState'[m] = sState[m] /\ sRole'[m] = sRole[m]
  BY DEF OthersStay
<1> QED BY <1>1, <1>2, Elsewhere DEF Election, Grows

\* What n had, it still has, but for the answer read and what is asked now.
LEMMA ReadAndAsked ==
    ASSUME Election, NEW n \in Nodes, NEW op, S!Has(n, op), S!Take(n),
           NEW R \in SUBSET Request,
           \/ R = {} /\ sAsked' = sAsked
           \/ \E r \in Request : R = {r} /\ S!Ask(n, r)
    PROVE  /\ sAsked' \in [Nodes -> Seq(Request)]
           /\ sToNode' \in [Nodes -> Seq(Answer(sLast))]
           /\ ToSet(sAsked'[n]) = ToSet(sAsked[n]) \cup R
           /\ ToSet(sToNode[n]) = {Head(sToNode[n])} \cup ToSet(sToNode'[n])
           /\ Head(sToNode[n]) \in Answer(sLast) /\ Head(sToNode[n]).op = op
           /\ sAsked[n] = <<>> /\ R # {} => Tail(sAsked'[n]) = <<>>
           /\ sToNode'[n] = Tail(sToNode[n])
           /\ \A m \in Nodes \ {n} : sAsked'[m] = sAsked[m] /\ sToNode'[m] = sToNode[m]
<1>1. Shapes /\ sToNode[n] # <<>> /\ Head(sToNode[n]).op = op
  BY DEF Election, S!Has
<1>2. CASE R = {} /\ sAsked' = sAsked
  BY <1>1, <1>2, Taken DEF Shapes
<1>3. CASE \E r \in Request : R = {r} /\ S!Ask(n, r)
  <2>1. PICK r \in Request : R = {r} /\ S!Ask(n, r)
    BY <1>3
  <2>2. /\ sAsked' \in [Nodes -> Seq(Request)]
        /\ ToSet(sAsked'[n]) = ToSet(sAsked[n]) \cup {r}
        /\ sAsked[n] = <<>> => Tail(sAsked'[n]) = <<>>
        /\ \A m \in Nodes \ {n} : sAsked'[m] = sAsked[m]
    BY <1>1, <2>1, Asked
  <2> QED BY <1>1, <2>1, <2>2, Taken
<1> QED BY <1>2, <1>3

\* An answer that begins a connection was alone; any other, and what is asked
\* after it, is not of those.
LEMMA AloneKept ==
    ASSUME Election, NEW n \in Nodes, NEW op, S!Has(n, op), S!Take(n),
           NEW R \in SUBSET Request,
           \/ R = {} /\ sAsked' = sAsked
           \/ \E r \in Request : R = {r} /\ S!Ask(n, r),
           sState'[n] = "connected" \/ sState'[n] = sState[n], sWatched' = sWatched,
           \/ op = "handshake"
           \/ \A r \in R : r.op \notin {"handshake", "create"}
    PROVE  Alone(n)'
<1>1. /\ ToSet(sAsked'[n]) = ToSet(sAsked[n]) \cup R
      /\ ToSet(sToNode[n]) = {Head(sToNode[n])} \cup ToSet(sToNode'[n])
      /\ Head(sToNode[n]).op = op
      /\ sAsked[n] = <<>> /\ R # {} => Tail(sAsked'[n]) = <<>>
      /\ sToNode'[n] = Tail(sToNode[n])
  BY ReadAndAsked
<1>2. sToNode[n] # <<>>
  BY DEF S!Has
<1>3. Alone(n)
  BY DEF Election, Elected
<1>4. sState[n] # "none"
  BY <1>2, <1>3 DEF Alone
<1>5. ToSet(<<>>) = {}
  BY EmptySeq, SetOfSeq
<1>6. CASE op = "handshake"
  <2>1. Tail(sToNode[n]) = <<>> /\ sAsked[n] = <<>> /\ sWatched[n] = 0
    BY <1>1, <1>3, <1>6 DEF Alone
  <2>2. ToSet(sAsked'[n]) = R /\ sToNode'[n] = <<>> /\ sWatched'[n] = 0
    BY <1>1, <1>5, <2>1
  <2> QED BY <1>1, <1>4, <1>5, <2>1, <2>2 DEF Alone
<1>7. CASE \A r \in R : r.op \notin {"handshake", "create"}
  <2>1. sState'[n] # "none"
    BY <1>4
  <2>2. \A r \in ToSet(sAsked'[n]) : r.op \notin {"handshake", "create"}
    BY <1>1, <1>2, <1>3, <1>7 DEF Alone
  <2>3. ASSUME NEW a \in ToSet(sToNode'[n]), a.op \in {"handshake", "create"} PROVE FALSE
    <3>1. Tail(sToNode[n]) = <<>>
      BY <1>1, <1>3, <2>3 DEF Alone
    <3> QED BY <1>1, <1>5, <2>3, <3>1
  <2> QED BY <2>1, <2>2, <2>3 DEF Alone
<1> QED BY <1>6, <1>7

\* What reads an answer, and asks for R: a connection keeps its invariant if the
\* data is asked for by the lowest, and its node changes before it asks for them.
Reads(n, op, R) ==
    /\ S!Has(n, op) /\ S!Take(n)
    /\ R \in SUBSET Request
    /\ \/ R = {} /\ sAsked' = sAsked
       \/ \E r \in Request : R = {r} /\ S!Ask(n, r)
    /\ sState'[n] = "connected" \/ sState'[n] = sState[n]
    /\ op = "handshake" \/ \A r \in R : r.op \notin {"handshake", "create"}
    /\ OthersStay(n)

LEMMA ReadKept ==
    ASSUME Election, NEW n \in Nodes, NEW op, NEW R, Reads(n, op, R),
           Shapes', MasterStays(n)',
           \A r \in R : r.op = "data" => sSeq'[n] # 0 /\ \A c \in sTree : sSeq'[n] <= c.seq,
           \/ sSeq'[n] = sSeq[n]
           \/ \A r \in ToSet(sAsked[n]) \cup ToSet(sToNode[n]) : r.op # "data"
    PROVE  Election'
<1>1. /\ ToSet(sAsked'[n]) = ToSet(sAsked[n]) \cup R
      /\ ToSet(sToNode[n]) = {Head(sToNode[n])} \cup ToSet(sToNode'[n])
  BY ReadAndAsked DEF Reads
<1>2. sTree' = sTree /\ sWatched' = sWatched
  BY DEF Reads, OthersStay
<1>3. ListsAreOld(n)'
  BY <1>1, <1>2 DEF Election, Elected, ListsAreOld
<1>4. DataIsForTheLowest(n)'
  <2> SUFFICES ASSUME NEW r \in ToSet(sAsked'[n]) \cup ToSet(sToNode'[n]), r.op = "data"
               PROVE  sSeq'[n] # 0 /\ \A c \in sTree : sSeq'[n] <= c.seq
    BY <1>2 DEF DataIsForTheLowest
  <2>1. CASE r \in R
    BY <2>1
  <2>2. CASE r \in ToSet(sAsked[n]) \cup ToSet(sToNode[n])
    BY <2>2 DEF Election, Elected, DataIsForTheLowest
  <2> QED BY <1>1, <2>1, <2>2
<1>5. Alone(n)'
  BY <1>2, AloneKept DEF Reads
<1>6. \A m \in Nodes : m # n => Elected(m)'
  BY OthersKept DEF Reads
<1> QED BY <1>3, <1>4, <1>5, <1>6 DEF Election, Elected

LEMMA ProcessHandshakeKept ==
    ASSUME Election, NEW n \in Nodes, S!ProcessHandshake(n) PROVE Election'
<1>1. CASE sSess[n] # 0 /\ sSess[n] # S!Got(n)
  BY <1>1, Dropped DEF S!ProcessHandshake
<1>2. CASE ~(sSess[n] # 0 /\ sSess[n] # S!Got(n))
  <2> DEFINE r == [op |-> IF sSess[n] = 0 THEN "create" ELSE "children"]
  <2>1. /\ S!Has(n, "handshake") /\ S!Take(n) /\ S!Ask(n, r)
        /\ sState' = [sState EXCEPT ![n] = "connected"]
        /\ sSess' = [sSess EXCEPT ![n] = S!Got(n)] /\ sFile' = [sFile EXCEPT ![n] = S!Got(n)]
        /\ UNCHANGED <<sTree, sLive, sMade, sLast, sServes, sWatched, sSeq, sSiblings, sRole>>
    BY <1>2 DEF S!ProcessHandshake, S!zk
  <2>2. r \in Request /\ {r} \in SUBSET Request /\ r.op \in {"create", "children"}
    BY DEF Request
  <2> HIDE DEF r
  <2>3. /\ sAsked' \in [Nodes -> Seq(Request)] /\ sToNode' \in [Nodes -> Seq(Answer(sLast))]
        /\ \A m \in Nodes \ {n} : sAsked'[m] = sAsked[m] /\ sToNode'[m] = sToNode[m]
        /\ Head(sToNode[n]) \in Answer(sLast) /\ Head(sToNode[n]).op = "handshake"
    BY <2>1, <2>2, ReadAndAsked
  <2>4. S!Got(n) \in Nat
    BY <2>3 DEF S!Got, Answer
  <2>5. Shapes'
    BY <2>1, <2>3, <2>4 DEF Election, Shapes
  <2>6. OthersStay(n) /\ sState'[n] = "connected" /\ sSeq'[n] = sSeq[n]
    BY <2>1, <2>3 DEF OthersStay, Election, Shapes
  <2>7. MasterStays(n)'
    BY <2>1 DEF MasterStays, Election, Elected
  <2>8. \A q \in {r} : q.op # "data"
    BY <2>2
  <2>9. Reads(n, "handshake", {r})
    BY <2>1, <2>2, <2>6 DEF Reads
  <2> QED BY <2>5, <2>6, <2>7, <2>8, <2>9, ReadKept
<1> QED BY <1>1, <1>2

LEMMA OnCreatedKept == ASSUME Election, NEW n \in Nodes, S!OnCreated(n) PROVE Election'
<1> DEFINE r == [op |-> "children"]
<1>1. /\ S!Has(n, "create") /\ S!Take(n) /\ S!Ask(n, r)
      /\ sSeq' = [sSeq EXCEPT ![n] = S!Got(n)]
      /\ UNCHANGED <<sTree, sMade, sLast, sServes, sWatched, sState, sSess, sSiblings, sFile, sRole>>
  BY DEF S!OnCreated, S!zk
<1>2. r \in Request /\ {r} \in SUBSET Request /\ r.op = "children"
  BY DEF Request
<1> HIDE DEF r
<1>3. /\ sAsked' \in [Nodes -> Seq(Request)] /\ sToNode' \in [Nodes -> Seq(Answer(sLast))]
      /\ \A m \in Nodes \ {n} : sAsked'[m] = sAsked[m] /\ sToNode'[m] = sToNode[m]
      /\ Head(sToNode[n]) \in Answer(sLast) /\ Head(sToNode[n]).op = "create"
      /\ ToSet(sToNode[n]) = {Head(sToNode[n])} \cup ToSet(sToNode'[n])
      /\ sToNode'[n] = Tail(sToNode[n])
  BY <1>1, <1>2, ReadAndAsked
<1>4. S!Got(n) \in 1 .. sLast
  BY <1>3 DEF S!Got, Answer
<1>5. Shapes'
  <2>1. sSeq \in [Nodes -> 0 .. sLast] /\ S!Got(n) \in 0 .. sLast
    BY <1>4 DEF Election, Shapes
  <2>2. sSeq' \in [Nodes -> 0 .. sLast']
    BY <1>1, <2>1
  <2> QED BY <1>1, <1>3, <2>2 DEF Election, Shapes
<1>6. OthersStay(n) /\ sState'[n] = sState[n]
  BY <1>1, <1>3 DEF OthersStay, Election, Shapes
<1>7. MasterStays(n)'
  BY <1>1 DEF MasterStays, Election, Elected
<1>8. \A q \in ToSet(sAsked[n]) \cup ToSet(sToNode[n]) : q.op # "data"
  <2>1. Tail(sToNode[n]) = <<>> /\ sAsked[n] = <<>>
    BY <1>3 DEF Election, Elected, Alone
  <2>2. ToSet(<<>>) = {}
    BY EmptySeq, SetOfSeq
  <2> QED BY <1>3, <2>1, <2>2
<1>9. \A q \in {r} : q.op \notin {"handshake", "create"} /\ q.op # "data"
  BY <1>2
<1>10. Reads(n, "create", {r})
  BY <1>1, <1>2, <1>6, <1>9 DEF Reads
<1> QED BY <1>5, <1>7, <1>8, <1>9, <1>10, ReadKept

\* The request about the next node below is one ZooKeeper can be asked.
LEMMA ExistsIs ==
    ASSUME NEW n \in Nodes, NEW k \in Nat, NEW children \in SUBSET Kids(k), NEW q,
           S!Below(children, q) # {}, S!Exists(n, children, q)
    PROVE  \E r \in Request : r.op = "exists" /\ S!Ask(n, r)
<1> DEFINE r == [op |-> "exists", of |-> S!Highest(S!Below(children, q)).seq]
<1>1. S!Below(children, q) \subseteq Kids(k)
  BY DEF S!Below
<1>2. S!Highest(S!Below(children, q)) \in Kids(k)
  BY <1>1, HighestIs
<1>3. r \in Request
  BY <1>2 DEF Request, Kids
<1> QED BY <1>3 DEF S!Exists

LEMMA OnChildrenKept == ASSUME Election, NEW n \in Nodes, S!OnChildren(n) PROVE Election'
<1>1. CASE S!Abort(n)
  BY <1>1, AbortKept
<1>2. CASE ~S!Abort(n)
  <2>1. PICK me \in S!Got(n) :
          /\ sSeq[n] # 0 => me.seq = sSeq[n]
          /\ sSiblings' = [sSiblings EXCEPT ![n] = S!Got(n)]
          /\ sSeq' = [sSeq EXCEPT ![n] = me.seq]
          /\ IF me = S!Lowest(S!Got(n)) THEN S!Ask(n, [op |-> "data"])
                                     ELSE S!Exists(n, S!Got(n), me.seq)
          /\ S!Take(n)
    BY <1>2 DEF S!OnChildren
  <2>2. /\ S!Has(n, "children")
        /\ UNCHANGED <<sTree, sLive, sMade, sLast, sServes, sWatched, sAlive, sState, sSess, sFile, sRole>>
    BY <1>2 DEF S!OnChildren, S!zk
  <2>3. Head(sToNode[n]) \in Answer(sLast) /\ Head(sToNode[n]) \in ToSet(sToNode[n])
    <3>1. sToNode[n] # <<>> /\ sToNode[n] \in Seq(Answer(sLast))
      BY <2>2 DEF S!Has, Election, Shapes
    <3> QED BY <3>1, EndsSet
  <2>4. S!Got(n) \in Lists(sLast) /\ S!Got(n) \subseteq Kids(sLast)
    BY <2>2, <2>3 DEF S!Has, S!Got, Answer, Lists
  <2>5. sLast \in Nat /\ me.seq \in 1 .. sLast
    BY <2>1, <2>4 DEF Election, Shapes, Kids
  <2>6. S!Lowest(S!Got(n)) \in S!Got(n) /\ \A d \in S!Got(n) : S!Lowest(S!Got(n)).seq <= d.seq
    BY <2>1, <2>4, <2>5, LowestIs
  <2>7. PICK r \in Request :
          /\ S!Ask(n, r) /\ r.op \in {"data", "exists"}
          /\ r.op = "data" => me = S!Lowest(S!Got(n))
    <3>1. CASE me = S!Lowest(S!Got(n))
      <4>1. [op |-> "data"] \in Request
        BY DEF Request
      <4> QED BY <2>1, <3>1, <4>1
    <3>2. CASE me # S!Lowest(S!Got(n))
      <4>1. S!Lowest(S!Got(n)).seq # me.seq /\ S!Lowest(S!Got(n)).seq <= me.seq
        BY <2>1, <2>4, <2>6, <3>2 DEF Lists
      <4>2. S!Lowest(S!Got(n)).seq \in 1 .. sLast
        BY <2>4, <2>6 DEF Kids
      <4>3. S!Lowest(S!Got(n)) \in S!Below(S!Got(n), me.seq)
        BY <2>5, <2>6, <4>1, <4>2 DEF S!Below
      <4> QED BY <2>1, <2>4, <2>5, <3>2, <4>3, ExistsIs
    <3> QED BY <3>1, <3>2
  <2>8. {r} \in SUBSET Request /\ \A q \in {r} : q.op \notin {"handshake", "create"}
    BY <2>7
  <2>9. /\ sAsked' \in [Nodes -> Seq(Request)] /\ sToNode' \in [Nodes -> Seq(Answer(sLast))]
        /\ \A m \in Nodes \ {n} : sAsked'[m] = sAsked[m] /\ sToNode'[m] = sToNode[m]
    BY <2>1, <2>2, <2>7, <2>8, ReadAndAsked
  <2>10. Shapes'
    <3>1. /\ sSeq \in [Nodes -> 0 .. sLast] /\ me.seq \in 0 .. sLast
          /\ sSiblings \in [Nodes -> SUBSET Kids(sLast)]
      BY <2>5 DEF Election, Shapes
    <3>2. sSeq' \in [Nodes -> 0 .. sLast']
      BY <2>1, <2>2, <3>1
    <3>3. sSiblings' \in [Nodes -> SUBSET Kids(sLast')]
      BY <2>1, <2>2, <2>4, <3>1
    <3> QED BY <2>2, <2>9, <3>2, <3>3 DEF Election, Shapes
  <2>11. OthersStay(n) /\ sState'[n] = sState[n] /\ sSeq'[n] = me.seq
    BY <2>1, <2>2, <2>9 DEF OthersStay, Election, Shapes
  <2>12. MasterStays(n)'
    BY <2>2 DEF MasterStays, Election, Elected
  <2>13. ASSUME NEW q \in {r}, q.op = "data"
         PROVE  sSeq'[n] # 0 /\ \A c \in sTree : sSeq'[n] <= c.seq
    <3>1. me = S!Lowest(S!Got(n))
      BY <2>7, <2>13
    <3>2. ASSUME NEW c \in sTree PROVE me.seq <= c.seq
      <4>1. c \in S!Got(n) \/ me.seq < c.seq
        BY <2>1, <2>2, <2>3 DEF Election, Elected, ListsAreOld, S!Has, S!Got
      <4>2. c.seq \in 1 .. sLast
        BY DEF Election, Shapes, Lists, Kids
      <4> QED BY <2>5, <2>6, <3>1, <4>1, <4>2
    <3> QED BY <2>5, <2>11, <3>2
  <2>14. \/ sSeq'[n] = sSeq[n]
         \/ \A q \in ToSet(sAsked[n]) \cup ToSet(sToNode[n]) : q.op # "data"
    BY <2>1, <2>11 DEF Election, Elected, DataIsForTheLowest
  <2>15. Reads(n, "children", {r})
    BY <2>1, <2>2, <2>7, <2>8, <2>11 DEF Reads
  <2> QED BY <2>10, <2>12, <2>13, <2>14, <2>15, ReadKept
<1> QED BY <1>1, <1>2

LEMMA BecomeKept ==
    ASSUME Election, NEW n \in Nodes, S!OnBecomeMaster(n) \/ S!OnBecomeSlave(n)
    PROVE  Election'
<1>1. PICK op \in {"data", "exists"},
           x \in {<<"master", sSeq[n]>>, <<"slave", S!Lowest(sSiblings[n]).node>>} :
        /\ S!Has(n, op) /\ S!Take(n)
        /\ sRole' = [sRole EXCEPT ![n] = x]
        /\ op = "data" => x = <<"master", sSeq[n]>>
        /\ op = "exists" => x = <<"slave", S!Lowest(sSiblings[n]).node>>
        /\ UNCHANGED <<sTree, sMade, sLast, sServes, sWatched, sAsked, sState, sSess, sSeq, sSiblings, sFile>>
  BY DEF S!OnBecomeMaster, S!OnBecomeSlave, S!zk, S!conn_
<1>2. /\ sToNode' \in [Nodes -> Seq(Answer(sLast))]
      /\ \A m \in Nodes \ {n} : sToNode'[m] = sToNode[m]
      /\ Head(sToNode[n]).op = op
      /\ ToSet(sToNode[n]) = {Head(sToNode[n])} \cup ToSet(sToNode'[n])
  <2> DEFINE R == {}
  <2>1. R \in SUBSET Request /\ R = {} /\ sAsked' = sAsked /\ S!Has(n, op) /\ S!Take(n)
    BY <1>1
  <2> HIDE DEF R
  <2> QED BY <2>1, ReadAndAsked
<1>3. Shapes'
  <2>1. sRole = [m \in Nodes |-> sRole[m]]
    BY DEF Election, Shapes
  <2>2. sRole' = [m \in Nodes |-> sRole'[m]]
    BY <1>1, <2>1
  <2> QED BY <1>1, <1>2, <2>2 DEF Election, Shapes
<1>4. OthersStay(n) /\ sState'[n] = sState[n] /\ sSeq'[n] = sSeq[n] /\ sRole'[n] = x
  <2>1. sRole = [m \in Nodes |-> sRole[m]]
    BY DEF Election, Shapes
  <2>2. sRole'[n] = x /\ \A m \in Nodes \ {n} : sRole'[m] = sRole[m]
    BY <1>1, <2>1
  <2> QED BY <1>1, <1>2, <2>2 DEF OthersStay
<1>5. MasterStays(n)'
  <2>1. CASE op = "data"
    <3>1. \A c \in sTree : sSeq[n] <= c.seq
      BY <1>2, <2>1 DEF Election, Elected, DataIsForTheLowest
    <3>2. sSeq[n] \in 0 .. sLast
      BY DEF Election, Shapes
    <3> QED BY <1>1, <1>4, <2>1, <3>1, <3>2 DEF MasterStays
  <2>2. CASE op = "exists"
    BY <1>1, <1>4, <2>2 DEF MasterStays
  <2> QED BY <2>1, <2>2
<1>6. Reads(n, op, {})
  BY <1>1, <1>4 DEF Reads
<1> QED BY <1>3, <1>4, <1>5, <1>6, ReadKept

LEMMA OnNodeDeleteKept ==
    ASSUME Election, NEW n \in Nodes, S!OnNodeDelete(n) PROVE Election'
<1>1. /\ S!Has(n, "deleted") /\ S!Take(n)
      /\ sSiblings' = [sSiblings EXCEPT ![n] = {c \in @ : c.seq # S!Got(n)}]
      /\ UNCHANGED <<sTree, sMade, sLast, sServes, sWatched, sState, sSess, sSeq, sFile, sRole>>
  BY DEF S!OnNodeDelete, S!zk
<1>2. sSiblings'[n] \in SUBSET Kids(sLast) /\ sLast \in Nat
  BY <1>1 DEF Election, Shapes
<1>3. PICK r \in Request : S!Ask(n, r) /\ r.op \in {"children", "exists"}
  <2>1. CASE S!Below(sSiblings'[n], sSeq[n]) = {}
    <3>1. [op |-> "children"] \in Request
      BY DEF Request
    <3> QED BY <2>1, <3>1 DEF S!OnNodeDelete
  <2>2. CASE S!Below(sSiblings'[n], sSeq[n]) # {}
    BY <1>2, <2>2, ExistsIs DEF S!OnNodeDelete
  <2> QED BY <2>1, <2>2
<1>4. /\ {r} \in SUBSET Request
      /\ \A q \in {r} : q.op \notin {"handshake", "create"} /\ q.op # "data"
  BY <1>3
<1>5. /\ sAsked' \in [Nodes -> Seq(Request)] /\ sToNode' \in [Nodes -> Seq(Answer(sLast))]
      /\ \A m \in Nodes \ {n} : sAsked'[m] = sAsked[m] /\ sToNode'[m] = sToNode[m]
  BY <1>1, <1>3, <1>4, ReadAndAsked
<1>6. Shapes'
  BY <1>1, <1>5 DEF Election, Shapes
<1>7. OthersStay(n) /\ sState'[n] = sState[n] /\ sSeq'[n] = sSeq[n]
  BY <1>1, <1>5 DEF OthersStay, Election, Shapes
<1>8. MasterStays(n)'
  BY <1>1 DEF MasterStays, Election, Elected
<1>9. Reads(n, "deleted", {r})
  BY <1>1, <1>3, <1>4, <1>7 DEF Reads
<1> QED BY <1>4, <1>6, <1>7, <1>8, <1>9, ReadKept

\* ZooKeeper answers a request of n.
LEMMA Answered ==
    ASSUME Election, NEW n \in Nodes, sAsked[n] # <<>>,
           NEW a \in Answer(sLast'), sLast' \in {sLast, sLast + 1},
           sToNode' = [sToNode EXCEPT ![n] = Append(@, a)],
           sAsked' = [sAsked EXCEPT ![n] = Tail(@)]
    PROVE  /\ sAsked' \in [Nodes -> Seq(Request)]
           /\ sToNode' \in [Nodes -> Seq(Answer(sLast'))]
           /\ Head(sAsked[n]) \in Request
           /\ ToSet(sAsked[n]) = {Head(sAsked[n])} \cup ToSet(sAsked'[n])
           /\ ToSet(sToNode'[n]) = ToSet(sToNode[n]) \cup {a}
           /\ sAsked'[n] = Tail(sAsked[n])
           /\ sToNode[n] = <<>> => Tail(sToNode'[n]) = <<>>
           /\ \A m \in Nodes \ {n} : sAsked'[m] = sAsked[m] /\ sToNode'[m] = sToNode[m]
<1>1. /\ sAsked \in [Nodes -> Seq(Request)] /\ sToNode \in [Nodes -> Seq(Answer(sLast))]
      /\ sLast \in Nat
  BY DEF Election, Shapes
<1>2. Seq(Answer(sLast)) \subseteq Seq(Answer(sLast'))
  BY <1>1, MoreKids
<1>3. sAsked[n] \in Seq(Request) /\ sToNode[n] \in Seq(Answer(sLast'))
  BY <1>1, <1>2
<1>4. /\ Tail(sAsked[n]) \in Seq(Request) /\ Head(sAsked[n]) \in Request
      /\ ToSet(sAsked[n]) = {Head(sAsked[n])} \cup ToSet(Tail(sAsked[n]))
  BY <1>3, EndsSet
<1>5. /\ Append(sToNode[n], a) \in Seq(Answer(sLast'))
      /\ ToSet(Append(sToNode[n], a)) = ToSet(sToNode[n]) \cup {a}
  BY <1>3, AppendSet
<1>6. sToNode[n] = <<>> => Tail(Append(sToNode[n], a)) = <<>>
  OBVIOUS
<1>7. sAsked'[n] = Tail(sAsked[n]) /\ sToNode'[n] = Append(sToNode[n], a)
  BY <1>1
<1>8. \A m \in Nodes \ {n} : sAsked'[m] = sAsked[m] /\ sToNode'[m] = sToNode[m]
  BY <1>1
<1>9. sAsked' \in [Nodes -> Seq(Request)]
  BY <1>1, <1>4
<1>10. sToNode' \in [Nodes -> Seq(Answer(sLast'))]
  <2>1. \A m \in Nodes : sToNode[m] \in Seq(Answer(sLast'))
    BY <1>1, <1>2
  <2> HIDE DEF Answer
  <2> QED BY <1>1, <1>5, <2>1
<1> QED BY <1>4, <1>5, <1>6, <1>7, <1>8, <1>9, <1>10

\* A child more, or none.
LEMMA ServeKept == ASSUME Election, NEW n \in Nodes, S!Serve(n) PROVE Election'
<1> DEFINE r == Head(sAsked[n])
<1>1. /\ sAsked[n] # <<>>
      /\ sAsked' = [sAsked EXCEPT ![n] = Tail(@)]
      /\ UNCHANGED <<sState, sSess, sSeq, sSiblings, sFile, sRole>>
  BY DEF S!Serve, S!conn_
<1>2. /\ sLast \in Nat /\ sMade \in Nat /\ sTree \in Lists(sLast)
      /\ sServes \in [Nodes -> Nat] /\ sWatched \in [Nodes -> Nat]
      /\ Alone(n) /\ DataIsForTheLowest(n) /\ r \in Request /\ r \in ToSet(sAsked[n])
  <2>1. sAsked[n] \in Seq(Request)
    BY DEF Election, Shapes
  <2>2. r \in Request /\ r \in ToSet(sAsked[n])
    BY <1>1, <2>1, EndsSet
  <2> HIDE DEF r
  <2> QED BY <2>2 DEF Election, Shapes, Elected
<1>3. PICK a \in Answer(sLast') :
        /\ sToNode' = [sToNode EXCEPT ![n] = Append(@, a)]
        /\ a.op \in {"handshake", "create"} => r.op = a.op
        /\ a.op = "data" => r.op = "data"
        /\ a.op = "children" => a.of = sTree
        /\ r.op \in {"handshake", "create"} => a.op = r.op
        /\ sMade' \in Nat
        /\ sServes' \in [Nodes -> Nat] /\ sWatched' \in [Nodes -> Nat]
        /\ sWatched' = sWatched \/ r.op = "exists"
        /\ \A m \in Nodes \ {n} : sWatched'[m] = sWatched[m]
        /\ \/ sLast' = sLast /\ sTree' = sTree
           \/ /\ sLast' = sLast + 1 /\ r.op = "create"
              /\ sTree' = sTree \cup {[seq |-> sLast + 1, node |-> n, session |-> sServes[n]]}
  <2>1. CASE r.op = "handshake" /\ r.of = 0 /\ sMade < SentinelSessions
    <3>1. /\ sMade' = sMade + 1 /\ sServes' = [sServes EXCEPT ![n] = sMade']
          /\ sToNode' = [sToNode EXCEPT ![n] = Append(@, [op |-> "handshake", of |-> sMade'])]
          /\ UNCHANGED <<sTree, sLast, sWatched>>
      BY <2>1 DEF S!Serve
    <3>2. [op |-> "handshake", of |-> sMade'] \in Answer(sLast')
      BY <1>2, <3>1 DEF Answer
    <3>3. sMade' \in Nat /\ sServes' \in [Nodes -> Nat]
      BY <1>2, <3>1
    <3> QED BY <1>2, <2>1, <3>1, <3>2, <3>3
  <2>2. CASE r.op = "handshake" /\ r.of # 0
    <3>1. PICK id \in Nat :
          /\ sServes' = [sServes EXCEPT ![n] = id]
          /\ sToNode' = [sToNode EXCEPT ![n] = Append(@, [op |-> "handshake", of |-> id])]
          /\ UNCHANGED <<sTree, sMade, sLast, sWatched>>
      <4>1. r.of \in Nat
        BY <1>2, <2>2 DEF Request
      <4> DEFINE k == IF r.of \in sLive THEN r.of ELSE 0
      <4>2. k \in Nat
        BY <4>1
      <4>3. /\ sServes' = [sServes EXCEPT ![n] = k]
            /\ sToNode' = [sToNode EXCEPT ![n] = Append(@, [op |-> "handshake", of |-> k])]
            /\ UNCHANGED <<sTree, sMade, sLast, sWatched>>
        BY <2>2 DEF S!Serve
      <4> HIDE DEF k
      <4> QED BY <4>2, <4>3
    <3>2. [op |-> "handshake", of |-> id] \in Answer(sLast')
      BY DEF Answer
    <3> QED BY <1>2, <2>2, <3>1, <3>2
  <2>3. CASE r.op = "create"
    <3>1. /\ sLast' = sLast + 1
          /\ sTree' = sTree \cup {[seq |-> sLast', node |-> n, session |-> sServes[n]]}
          /\ sToNode' = [sToNode EXCEPT ![n] = Append(@, [op |-> "create", of |-> sLast'])]
          /\ UNCHANGED <<sMade, sServes, sWatched>>
      BY <2>3 DEF S!Serve
    <3>2. [op |-> "create", of |-> sLast'] \in Answer(sLast')
      BY <1>2, <3>1 DEF Answer
    <3> QED BY <1>2, <2>3, <3>1, <3>2
  <2>4. CASE r.op = "children"
    <3>1. /\ sToNode' = [sToNode EXCEPT ![n] = Append(@, [op |-> "children", of |-> sTree])]
          /\ UNCHANGED <<sTree, sMade, sLast, sServes, sWatched>>
      BY <2>4 DEF S!Serve, S!zk
    <3>2. [op |-> "children", of |-> sTree] \in Answer(sLast')
      BY <1>2, <3>1 DEF Answer
    <3> QED BY <1>2, <2>4, <3>1, <3>2
  <2>5. CASE r.op = "data"
    <3>1. /\ sToNode' = [sToNode EXCEPT ![n] = Append(@, r)]
          /\ UNCHANGED <<sTree, sMade, sLast, sServes, sWatched>>
      BY <2>5 DEF S!Serve, S!zk
    <3>2. r \in Answer(sLast')
      BY <1>2, <2>5 DEF Request, Answer
    <3> QED BY <1>2, <2>5, <3>1, <3>2
  <2>6. CASE r.op = "exists"
    <3>1. PICK w \in Nat, o \in {"exists", "deleted"} :
          /\ sWatched' = [sWatched EXCEPT ![n] = w]
          /\ sToNode' = [sToNode EXCEPT ![n] = Append(@, [op |-> o, of |-> r.of])]
          /\ UNCHANGED <<sTree, sMade, sLast, sServes>>
      <4>1. r.of \in Nat
        BY <1>2, <2>6 DEF Request
      <4> QED BY <2>6, <4>1 DEF S!Serve
    <3>2. [op |-> o, of |-> r.of] \in Answer(sLast')
      BY <1>2, <2>6 DEF Request, Answer
    <3> QED BY <1>2, <2>6, <3>1, <3>2
  <2> QED BY <2>1, <2>2, <2>3, <2>4, <2>5, <2>6 DEF S!Serve
<1> HIDE DEF r
<1>4. sLast' \in {sLast, sLast + 1} /\ Grows
  BY <1>3 DEF Grows
<1>5. /\ sAsked' \in [Nodes -> Seq(Request)]
      /\ sToNode' \in [Nodes -> Seq(Answer(sLast'))]
      /\ ToSet(sAsked[n]) = {r} \cup ToSet(sAsked'[n])
      /\ ToSet(sToNode'[n]) = ToSet(sToNode[n]) \cup {a}
      /\ sAsked'[n] = Tail(sAsked[n])
      /\ sToNode[n] = <<>> => Tail(sToNode'[n]) = <<>>
      /\ \A m \in Nodes \ {n} : sAsked'[m] = sAsked[m] /\ sToNode'[m] = sToNode[m]
  BY <1>1, <1>3, <1>4, Answered DEF r
<1>6. Shapes'
  <2>1. sTree' \in Lists(sLast')
    <3>1. Kids(sLast) \subseteq Kids(sLast + 1)
      BY <1>2, MoreKids
    <3>2. [seq |-> sLast + 1, node |-> n, session |-> sServes[n]] \in Kids(sLast + 1)
      BY <1>2 DEF Kids
    <3>3. \A c \in sTree : c.seq # sLast + 1
      BY <1>2 DEF Lists, Kids
    <3> DEFINE e == [seq |-> sLast + 1, node |-> n, session |-> sServes[n]]
    <3>4. sTree \cup {e} \in Lists(sLast + 1)
      <4>1. sTree \cup {e} \subseteq Kids(sLast + 1)
        BY <1>2, <3>1, <3>2 DEF Lists
      <4>2. e.seq = sLast + 1
        OBVIOUS
      <4> HIDE DEF e
      <4> QED BY <1>2, <3>3, <4>1, <4>2 DEF Lists
    <3> HIDE DEF e
    <3> QED BY <1>2, <1>3, <3>4 DEF e
  <2>2. sSeq \in [Nodes -> 0 .. sLast'] /\ sSiblings \in [Nodes -> SUBSET Kids(sLast')]
        /\ sLast' \in Nat
    <3>1. Kids(sLast) \subseteq Kids(sLast') /\ 0 .. sLast \subseteq 0 .. sLast'
      BY <1>2, <1>4, MoreKids
    <3> QED BY <1>2, <1>4, <3>1 DEF Election, Shapes
  <2> QED BY <1>1, <1>3, <1>5, <2>1, <2>2 DEF Election, Shapes
<1>7. ASSUME NEW m \in Nodes, m # n PROVE Elected(m)'
  <2>1. /\ sAsked'[m] = sAsked[m] /\ sToNode'[m] = sToNode[m] /\ sWatched'[m] = sWatched[m]
        /\ sSeq'[m] = sSeq[m] /\ sState'[m] = sState[m] /\ sRole'[m] = sRole[m]
    BY <1>1, <1>3, <1>5, <1>7
  <2> QED BY <1>4, <2>1, Elsewhere DEF Election
<1>8. Elected(n)'
  <2>1. \A q \in ToSet(sToNode[n]) :
            q.op = "children"
              => \A c \in sTree' : c \in q.of \/ \A d \in q.of : d.seq < c.seq
    BY <1>4, StillRight DEF Election
  <2>2. \A q \in ToSet(sAsked[n]) \cup ToSet(sToNode[n]) :
            q.op = "data" => sSeq[n] # 0 /\ \A c \in sTree' : sSeq[n] <= c.seq
    BY <1>4, StillRight DEF Election
  <2>3. MasterStays(n)'
    BY <1>1, <1>4, StillRight DEF Election, MasterStays
  <2>4. ListsAreOld(n)'
    <3>1. a.op = "children" => sTree' = sTree /\ a.of = sTree
      BY <1>3
    <3> QED BY <1>5, <2>1, <3>1 DEF ListsAreOld
  <2>5. DataIsForTheLowest(n)'
    <3>1. \A q \in ToSet(sAsked'[n]) : q \in ToSet(sAsked[n])
      BY <1>5
    <3>2. a.op = "data" => sSeq[n] # 0 /\ \A c \in sTree' : sSeq[n] <= c.seq
      BY <1>2, <1>3, <2>2
    <3> QED BY <1>1, <1>5, <2>2, <3>1, <3>2 DEF DataIsForTheLowest
  <2>6. Alone(n)'
    <3>1. ToSet(<<>>) = {}
      BY EmptySeq, SetOfSeq
    <3>2. sState'[n] # "none"
      BY <1>1, <1>2 DEF Alone
    <3>3. ASSUME NEW q \in ToSet(sAsked'[n]), q.op \in {"handshake", "create"} PROVE FALSE
      BY <1>2, <1>5, <3>1, <3>3 DEF Alone
    <3>4. \A q \in ToSet(sToNode[n]) : q.op \notin {"handshake", "create"}
      BY <1>1, <1>2 DEF Alone
    <3>5. CASE a.op \in {"handshake", "create"}
      <4>1. Tail(sAsked[n]) = <<>> /\ sToNode[n] = <<>> /\ sWatched[n] = 0
        BY <1>2, <1>3, <3>5 DEF Alone
      <4>2. sAsked'[n] = <<>> /\ Tail(sToNode'[n]) = <<>> /\ sWatched'[n] = 0
        BY <1>3, <1>5, <3>5, <4>1
      <4> QED BY <3>2, <3>3, <4>2 DEF Alone
    <3>6. CASE a.op \notin {"handshake", "create"}
      BY <1>5, <3>2, <3>3, <3>4, <3>6 DEF Alone
    <3> QED BY <3>5, <3>6
  <2> QED BY <2>3, <2>4, <2>5, <2>6 DEF Elected
<1> QED BY <1>6, <1>7, <1>8 DEF Election

\* A session ends, and who watches its node is told.
LEMMA ExpireKept == ASSUME Election, NEW s, S!Expire(s) PROVE Election'
<1> DEFINE told(m) == \E c \in sTree \ sTree' : c.seq = sWatched[m]
<1>1. /\ UNCHANGED <<sMade, sLast, sState, sSess, sSeq, sSiblings, sFile, sRole>>
      /\ sTree' \subseteq sTree
      /\ sToNode' = [m \in Nodes |->
                      IF told(m) THEN Append(sToNode[m], [op |-> "deleted", of |-> sWatched[m]])
                                 ELSE sToNode[m]]
      /\ sWatched' = [m \in Nodes |-> IF told(m) \/ sServes[m] = s THEN 0 ELSE sWatched[m]]
      /\ sAsked' = [m \in Nodes |-> IF sServes[m] = s THEN <<>> ELSE sAsked[m]]
      /\ sServes' = [m \in Nodes |-> IF sServes[m] = s THEN 0 ELSE sServes[m]]
  BY DEF S!Expire, S!conn_
<1>2. Grows
  BY <1>1 DEF Grows
<1>3. <<>> \in Seq(Request) /\ ToSet(<<>>) = {}
  BY EmptySeq, SetOfSeq
<1>4. ASSUME NEW m \in Nodes
      PROVE  /\ sToNode'[m] \in Seq(Answer(sLast)) /\ sAsked'[m] \in Seq(Request)
             /\ Elected(m)'
  <2> DEFINE a == [op |-> "deleted", of |-> sWatched[m]]
  <2>1. /\ sToNode[m] \in Seq(Answer(sLast)) /\ sAsked[m] \in Seq(Request)
        /\ sWatched[m] \in Nat /\ a \in Answer(sLast) /\ Elected(m) /\ Shapes
    BY DEF Election, Shapes, Answer
  <2>2. sAsked'[m] = sAsked[m] \/ sAsked'[m] = <<>>
    BY <1>1
  <2>3. sAsked'[m] \in Seq(Request) /\ ToSet(sAsked'[m]) \subseteq ToSet(sAsked[m])
    BY <1>3, <2>1, <2>2
  <2>4. sWatched'[m] \in {0, sWatched[m]}
    BY <1>1
  <2>5. \/ sToNode'[m] = sToNode[m]
        \/ sToNode'[m] = Append(sToNode[m], a) /\ told(m)
    BY <1>1
  <2>6. sToNode'[m] = Append(sToNode[m], a)
          => sToNode'[m] \in Seq(Answer(sLast)) /\ ToSet(sToNode'[m]) = ToSet(sToNode[m]) \cup {a}
    BY <2>1, AppendSet
  <2>7. sToNode'[m] \in Seq(Answer(sLast)) /\ ToSet(sToNode'[m]) \subseteq ToSet(sToNode[m]) \cup {a}
    BY <2>1, <2>5, <2>6
  <2>8. a.op = "deleted"
    OBVIOUS
  <2>9. told(m) => sWatched[m] # 0
    BY DEF Election, Shapes, Lists, Kids
  <2> HIDE DEF a, told
  <2>10. ListsAreOld(m)' /\ DataIsForTheLowest(m)' /\ MasterStays(m)'
    <3>1. /\ \A q \in ToSet(sToNode[m]) :
              q.op = "children"
                => \A c \in sTree' : c \in q.of \/ \A d \in q.of : d.seq < c.seq
          /\ \A r \in ToSet(sAsked[m]) \cup ToSet(sToNode[m]) :
              r.op = "data" => sSeq[m] # 0 /\ \A c \in sTree' : sSeq[m] <= c.seq
          /\ sRole[m][1] = "master"
              => sRole[m][2] \in 0 .. sLast' /\ \A c \in sTree' : sRole[m][2] <= c.seq
      BY <1>2, <2>1, StillRight
    <3>2. ListsAreOld(m)'
      BY <2>7, <2>8, <3>1 DEF ListsAreOld
    <3>3. DataIsForTheLowest(m)'
      BY <1>1, <2>3, <2>7, <2>8, <3>1 DEF DataIsForTheLowest
    <3>4. MasterStays(m)'
      BY <1>1, <3>1 DEF MasterStays
    <3> QED BY <3>2, <3>3, <3>4
  <2>11. Alone(m)'
    <3>1. Alone(m) /\ sState'[m] = sState[m]
      BY <1>1, <2>1 DEF Elected
    <3>2. CASE sToNode'[m] = sToNode[m]
      BY <2>2, <2>3, <2>4, <3>1, <3>2, <1>3 DEF Alone
    <3>3. CASE sToNode'[m] = Append(sToNode[m], a) /\ told(m)
      <4>1. sWatched[m] # 0 /\ ToSet(sToNode'[m]) = ToSet(sToNode[m]) \cup {a}
        BY <2>6, <2>9, <3>3
      <4>2. sState[m] # "none"
        BY <3>1, <4>1 DEF Alone
      <4>3. \A r \in ToSet(sAsked[m]) : r.op \notin {"handshake", "create"}
        BY <3>1, <4>1 DEF Alone
      <4>4. \A q \in ToSet(sToNode[m]) : q.op \notin {"handshake", "create"}
        BY <3>1, <4>1 DEF Alone
      <4> QED BY <2>3, <2>8, <3>1, <4>1, <4>2, <4>3, <4>4 DEF Alone
    <3> QED BY <2>5, <3>2, <3>3
  <2> QED BY <2>3, <2>7, <2>10, <2>11 DEF Elected
<1>5. Shapes'
  <2>1. sTree' \in Lists(sLast) /\ sLast' = sLast
    BY <1>1 DEF Election, Shapes, Lists
  <2>2. sAsked' \in [Nodes -> Seq(Request)]
    BY <1>1, <1>4
  <2>3. sToNode' \in [Nodes -> Seq(Answer(sLast))]
    BY <1>1, <1>4
  <2>4. sServes' \in [Nodes -> Nat] /\ sWatched' \in [Nodes -> Nat]
    BY <1>1 DEF Election, Shapes
  <2> QED BY <1>1, <2>1, <2>2, <2>3, <2>4 DEF Election, Shapes
<1> QED BY <1>4, <1>5 DEF Election

LEMMA OrderKept ==
    ASSUME Election, NEW o \in S!Orders, S!Order(o)
    PROVE  Election'
<1>1. UNCHANGED <<S!zk, sAsked, sToNode, S!conn_, sFile>>
  BY DEF S!Order
<1>2. \/ sRole' = sRole
      \/ o.to \in Nodes /\ sRole' = [sRole EXCEPT ![o.to] = <<"slave", o.from>>]
  BY DEF S!Order, S!Orders
<1>3. sRole = [m \in Nodes |-> sRole[m]]
  BY DEF Election, Shapes
<1>4. /\ sRole' = [m \in Nodes |-> sRole'[m]]
      /\ \A m \in Nodes : sRole'[m] = sRole[m] \/ sRole'[m][1] # "master"
  BY <1>2, <1>3
<1>5. Shapes'
  BY <1>1, <1>4 DEF Election, Shapes, S!zk, S!conn_
<1>6. ASSUME NEW m \in Nodes PROVE Elected(m)'
  BY <1>1, <1>4, Elsewhere DEF Election, Grows, S!zk, S!conn_
<1> QED BY <1>5, <1>6 DEF Election

LEMMA ElectionKept == ASSUME Election, [S!Next]_S!vars PROVE Election'
<1>1. CASE \E n \in Nodes : S!Step(n) \/ S!Break(n) \/ S!Crash(n) \/ S!Restart(n)
  <2>1. PICK n \in Nodes : S!Step(n) \/ S!Break(n) \/ S!Crash(n) \/ S!Restart(n)
    BY <1>1
  <2>2. CASE S!Serve(n) \/ S!OnConnect(n)
    BY <2>2, ServeKept, OnConnectKept
  <2>3. CASE S!Receive(n)
    BY <2>3, ProcessHandshakeKept, OnCreatedKept, OnChildrenKept, BecomeKept,
       OnNodeDeleteKept DEF S!Receive
  <2>4. CASE S!Disconnect(n) \/ S!Break(n) \/ S!Crash(n)
    BY <2>4, EndKept
  <2>5. CASE S!Restart(n)
    <3>1. UNCHANGED <<S!zk, sAsked, sToNode, S!conn_, sFile, sRole>>
      BY <2>5 DEF S!Restart
    <3>2. Shapes'
      BY <3>1 DEF Election, Shapes, S!zk, S!conn_
    <3>3. ASSUME NEW m \in Nodes PROVE Elected(m)'
      BY <3>1, Elsewhere DEF Election, Grows, S!zk, S!conn_
    <3> QED BY <3>2, <3>3 DEF Election
  <2> QED BY <2>1, <2>2, <2>3, <2>4, <2>5 DEF S!Step
<1>2. CASE \E s \in S!Sessions : S!ExpireUnused(s) \/ S!ExpireUsed(s)
  BY <1>2, ExpireKept DEF S!ExpireUnused, S!ExpireUsed
<1>3. CASE \E o \in S!Orders : S!Order(o)
  BY <1>3, OrderKept
<1>4. CASE UNCHANGED S!vars
  <2>1. Shapes'
    BY <1>4 DEF Election, Shapes, S!vars, S!zk, S!conn_
  <2>2. ASSUME NEW m \in Nodes PROVE Elected(m)'
    BY <1>4, Elsewhere DEF Election, Grows, S!vars, S!zk, S!conn_
  <2> QED BY <2>1, <2>2 DEF Election
<1> QED BY <1>1, <1>2, <1>3, <1>4 DEF S!Next

\* Any server that became master (ZookeeperConn::_ProcessResponse,
\* onBecomeMaster_) did so on a node that no other node is below, nor ever comes
\* below, whatever number of servers crash, lose their connections or sessions.
THEOREM NobodyIsBelowTheMaster == Fair => []MasterIsLowest
<1>1. Begins => Election
  BY ShapesInit, ElectedInit DEF Begins, Election
<1>2. Election /\ [Goes]_all => Election'
  <2>1. [Goes]_all => [S!Next]_S!vars
    BY DEF Goes, all, sVars, S!vars, S!zk, S!conn_
  <2> QED BY <2>1, ElectionKept
<1>3. Election => MasterIsLowest
  BY DEF Election, Elected, MasterStays, MasterIsLowest, S!MasterIsLowest
<1> QED BY <1>1, <1>2, <1>3, PTL DEF Fair

\* The same of the election alone (ZookeeperConn), without the bound of the run
\* on its second fault.
THEOREM AnyFaultsLeaveTheLowest == S!Spec => []S!MasterIsLowest
<1>1. S!Init => Election
  BY ShapesInit, ElectedInit DEF Election
<1>2. Election /\ [S!Next]_S!vars => Election'
  BY ElectionKept
<1>3. Election => S!MasterIsLowest
  BY DEF Election, Elected, MasterStays, S!MasterIsLowest
<1> QED BY <1>1, <1>2, <1>3, PTL DEF S!Spec

-----------------------------------------------------------------------------
(***************************************************************************)
(* The server's connection.                                                *)
(***************************************************************************)
\* Where the main thread has it tells which callbacks were called.
NetInv ==
    /\ (nInvalid = FALSE /\ nTold = 0) \/ (nInvalid = TRUE /\ nTold = 1)
    /\ \/ nMain \in {"none", "new"} /\ nConnects = 0 /\ nDisconnects = 0
       \/ nMain = "in" /\ nConnects = 1 /\ nDisconnects = 0
       \/ nMain = "out" /\ nInvalid = TRUE /\ nConnects = 1 /\ nDisconnects = 1

LEMMA NetInit == N!Init => NetInv
BY DEF N!Init, NetInv

\* Whoever finds the end first tells of it.
LEMMA OnErrorOnce ==
    ASSUME NetInv, N!OnError
    PROVE  nInvalid' = TRUE /\ nTold' = 1
BY DEF NetInv, N!OnError

LEMMA NetStep == ASSUME NetInv, [N!Next]_N!vars PROVE NetInv'
<1>1. ASSUME nMain' = nMain, nConnects' = nConnects, nDisconnects' = nDisconnects,
             (nInvalid' = nInvalid /\ nTold' = nTold) \/ N!OnError
      PROVE  NetInv'
  BY <1>1, OnErrorOnce DEF NetInv
<1>2. CASE N!Peer \/ N!PeerReads
  BY <1>1, <1>2 DEF N!Peer, N!PeerReads, N!tables, N!calls
<1>3. CASE N!RecvThread
  <2>1. CASE N!RecvAdds \/ N!RecvDrops
    BY <1>1, <2>1 DEF N!RecvAdds, N!RecvDrops, N!calls
  <2>2. CASE N!RecvReads
    BY <1>1, <2>2 DEF N!RecvReads, N!tables, N!calls
  <2> QED BY <1>3, <2>1, <2>2 DEF N!RecvThread
<1>4. CASE N!SendThread \/ N!OnWritable
  <2>1. CASE N!SendAdds \/ N!SendChecks
    BY <1>1, <2>1 DEF N!SendAdds, N!SendChecks, N!calls
  <2>2. CASE N!Send
    BY <1>1, <2>2 DEF N!Send, N!SendSome, N!tables, N!calls
  <2>3. CASE N!OnWritable
    BY <1>1, <2>3 DEF N!OnWritable, N!SendSome, N!tables, N!calls
  <2> QED BY <1>4, <2>1, <2>2, <2>3 DEF N!SendThread
<1>5. CASE N!AddTask \/ N!MainAdds \/ N!MainDrops
  <2>1. UNCHANGED <<nInvalid, nTold>>
    BY <1>5, Zenon DEF N!AddTask, N!MainAdds, N!MainDrops
  <2>2. CASE N!AddTask \/ N!MainAdds
    BY <2>1, <2>2 DEF N!AddTask, N!MainAdds, N!calls, NetInv
  <2>3. CASE N!MainDrops
    <3>1. nMain = "in" /\ nMain' = "out" /\ nInvalid /\ nDisconnects' = nDisconnects + 1
          /\ nConnects' = nConnects
      BY <2>3, Zenon DEF N!MainDrops
    <3>2. nInvalid = TRUE /\ nTold = 1
      BY <3>1, Zenon DEF NetInv
    <3>3. nConnects = 1 /\ nDisconnects = 0
      BY <3>1, SMT DEF NetInv
    <3> QED BY <2>1, <3>1, <3>2, <3>3 DEF NetInv
  <2> QED BY <1>5, <2>2, <2>3
<1>6. CASE N!Handle
  BY <1>1, <1>6 DEF N!Handle, N!tables, N!calls
<1>7. CASE UNCHANGED N!vars
  BY <1>1, <1>7 DEF N!vars, N!tables, N!calls
<1> QED BY <1>2, <1>3, <1>4, <1>5, <1>6, <1>7 DEF N!Next, N!Main

\* Whichever of the threads meet the end of a connection (Socket::OnError), it is
\* told once, and OnDisconnect is called once, after OnConnect, however many
\* requests there are and however little room.
THEOREM TheEndIsToldOnce == Fair => []EndsOnce
<1>1. Begins => NetInv
  BY NetInit DEF Begins
<1>2. NetInv /\ [Goes]_all => NetInv'
  <2>1. ASSUME UNCHANGED nVars PROVE UNCHANGED N!vars
    BY <2>1 DEF nVars, N!vars, N!units, N!tables, N!polls, N!calls
  <2>2. Goes => N!Next \/ UNCHANGED nVars
    BY Zenon DEF Goes
  <2>3. UNCHANGED all => UNCHANGED nVars
    BY DEF all
  <2> QED BY <2>1, <2>2, <2>3, NetStep
<1>3. NetInv => EndsOnce
  BY DEF NetInv, EndsOnce, N!EndsOnce
<1> QED BY <1>1, <1>2, <1>3, PTL DEF Fair
=============================================================================
