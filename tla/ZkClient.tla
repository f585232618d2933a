------------------------------ MODULE ZkClient ------------------------------
(***************************************************************************)
(* How the proxy learns from ZooKeeper which servers there are              *)
(* (cluster/cluster_conn/zookeeper/ZookeeperContext, qedis_proxy's          *)
(* ZookeeperConn and ClusterManager): a chain of requests after each        *)
(* connect, every node read being watched; any event ends the connection,   *)
(* what was learned is dropped, and the next connection reads it all again. *)
(*                                                                         *)
(* GetServer's hash is a constant, so there is one shard, whose set is      *)
(* known or not.  ZooKeeper is external.                                    *)
(***************************************************************************)
EXTENDS Naturals, Sequences, FiniteSets, SequencesExt, FiniteSetsExt

CONSTANTS
    Sets, Hosts,
    MaxSessions,    \* bound: sessions ZooKeeper gives, MaxFaults + 1
    MaxFaults,      \* bound: lost connections and expired sessions
    MaxChanges      \* bound: changes of what ZooKeeper holds

VARIABLES
    sets,       \* ZooKeeper's tree: the children of /servers,
    holders,    \* those whose data lists the shard,
    hosts,      \* and the children of each
    live, made, \* its sessions, and how many it made
    serves,     \* the session of the connection
    watched,    \* what the connection has read, "root" or a set's part
    asked,      \* requests ZooKeeper has not processed
    toProxy,    \* answers and events on their way, in order
    state,      \* ZookeeperContext::state_, "closing" after ActiveClose
    file, sess, \* the session in the file, and sessionInfo_.sessionId
    stage,      \* the continuation of OnConnect's chain that comes next
    futures,    \* how many futures its WhenAll waits for
    got,        \* the answers they have
    owner,      \* shardingInfo_, of the one shard
    hostInfo,   \* hostInfo_
    exits,      \* timers of handshakes that no answer reached
    exited,     \* ExitApplication was called
    faults, changes

tree == <<sets, holders, hosts>>
zk == <<live, made, serves, watched>>
chain == <<stage, futures, got>>
info == <<owner, hostInfo>>
vars == <<tree, zk, asked, toProxy, state, file, sess, chain, info, exits, exited,
          faults, changes>>

NoSet == "no set"
NoHosts == [s \in Sets |-> {}]
Stages == {"handshake", "register", "sharding", "servers", "done"}

TypeOK ==
    /\ sets \subseteq Sets /\ holders \subseteq sets
    /\ hosts \in [Sets -> SUBSET Hosts] /\ hostInfo \in [Sets -> SUBSET Hosts]
    /\ live \subseteq 1 .. made /\ {made, file, sess, serves} \subseteq 0 .. MaxSessions
    /\ state \in {"none", "handshaking", "connected", "closing"}
    /\ stage \in Stages /\ futures \in Nat /\ Len(got) <= futures
    /\ owner \in Sets \cup {NoSet}
    /\ exits \in Nat /\ exited \in BOOLEAN

Init ==
    /\ sets \in SUBSET Sets /\ holders \in SUBSET sets
    /\ hosts \in {h \in [Sets -> SUBSET Hosts] : \A s \in Sets \ sets : h[s] = {}}
    /\ live = {} /\ made = 0 /\ serves = 0 /\ watched = {}
    /\ asked = <<>> /\ toProxy = <<>> /\ state = "none" /\ file = 0 /\ sess = 0
    /\ stage = "handshake" /\ futures = 0 /\ got = <<>>
    /\ owner = NoSet /\ hostInfo = NoHosts
    /\ exits = 0 /\ exited = FALSE /\ faults = 0 /\ changes = 0

-----------------------------------------------------------------------------
(***************************************************************************)
(* ZooKeeper (external).                                                    *)
(***************************************************************************)
\* The answer to a read, an error if the node is not there.
Read(r) ==
    CASE r.op = "sets" -> [op |-> "sets", of |-> sets]
      [] r.op = "data" /\ r.of \in sets ->
            [op |-> "data", of |-> r.of, holds |-> r.of \in holders]
      [] r.op = "hosts" /\ r.of \in sets ->
            [op |-> "hosts", of |-> r.of, hosts |-> hosts[r.of]]
      [] OTHER -> [op |-> "error"]

Serve ==
    /\ asked # <<>>
    /\ LET r == Head(asked) IN
        \/ /\ r.op = "handshake" /\ r.of = 0 /\ made < MaxSessions
           /\ made' = made + 1 /\ live' = live \cup {made'} /\ serves' = made'
           /\ toProxy' = Append(toProxy, [op |-> "handshake", of |-> made'])
           /\ UNCHANGED watched
        \/ /\ r.op = "handshake" /\ r.of # 0
           /\ serves' = IF r.of \in live THEN r.of ELSE 0
           /\ toProxy' = Append(toProxy, [op |-> "handshake", of |-> serves'])
           /\ UNCHANGED <<live, made, watched>>
        \/ /\ r.op = "create" /\ serves # 0
           /\ toProxy' = Append(toProxy, r)
           /\ UNCHANGED zk
        \/ /\ r.op \in {"sets", "data", "hosts"} /\ serves # 0
           /\ toProxy' = Append(toProxy, Read(r))
           /\ watched' = IF Read(r).op = "error" THEN watched ELSE watched \cup {r}
           /\ UNCHANGED <<live, made, serves>>
    /\ asked' = Tail(asked)
    /\ UNCHANGED <<tree, state, file, sess, chain, info, exits, exited, faults, changes>>

\* What the connection watches changes: it has an event, once.
Event(reads) ==
    /\ toProxy' = IF watched \cap reads = {} THEN toProxy
                  ELSE Append(toProxy, [op |-> "event"])
    /\ watched' = watched \ reads

Reads(s) == {[op |-> "data", of |-> s], [op |-> "hosts", of |-> s]}
Change ==
    /\ changes < MaxChanges
    /\ changes' = changes + 1
    /\ \E s \in Sets :
        \/ /\ s \notin sets
           /\ sets' = sets \cup {s} /\ UNCHANGED <<holders, hosts>>
           /\ Event({[op |-> "sets"]})
        \/ /\ s \in sets /\ hosts[s] = {}
           /\ sets' = sets \ {s} /\ holders' = holders \ {s} /\ UNCHANGED hosts
           /\ Event({[op |-> "sets"]} \cup Reads(s))
        \/ /\ s \in sets
           /\ holders' = SymDiff(holders, {s}) /\ UNCHANGED <<sets, hosts>>
           /\ Event({[op |-> "data", of |-> s]})
        \/ /\ s \in sets
           /\ \E h \in Hosts : hosts' = [hosts EXCEPT ![s] = SymDiff(@, {h})]
           /\ UNCHANGED <<sets, holders>>
           /\ Event({[op |-> "hosts", of |-> s]})
    /\ UNCHANGED <<live, made, serves, asked, state, file, sess, chain, info, exits,
                   exited, faults>>

\* A session ends; ZooKeeper closes its connection if it has one.
Expire ==
    /\ faults < MaxFaults
    /\ faults' = faults + 1
    /\ \E s \in live :
        /\ live' = live \ {s}
        /\ IF serves = s
           THEN serves' = 0 /\ watched' = {} /\ asked' = <<>>
           ELSE UNCHANGED <<serves, watched, asked>>
    /\ UNCHANGED <<tree, made, toProxy, state, file, sess, chain, info, exits, exited, changes>>

-----------------------------------------------------------------------------
(***************************************************************************)
(* The proxy.                                                               *)
(***************************************************************************)
\* DoHandshake; 5 seconds later OnTimeout ends the program, if the root of
\* the chain, the handshake's future, has no value by then.
OnConnect ==
    /\ state = "none" /\ ~exited
    /\ state' = "handshaking"
    /\ sess' = file /\ file' = 0
    /\ asked' = <<[op |-> "handshake", of |-> file]>>
    /\ stage' = "handshake" /\ futures' = 1 /\ got' = <<>>
    /\ exits' = exits + 1
    /\ UNCHANGED <<tree, zk, toProxy, info, exited, faults, changes>>

\* The requests a continuation makes, and the WhenAll of their futures: of
\* no futures, it is ready.
Then(next, requests) ==
    /\ stage' = next
    /\ futures' = Len(requests) /\ got' = <<>>
    /\ asked' = asked \o requests

\* _RegisterAndGetServers: a proxy with a session of its own is registered.
Registration == (IF sess = 0 THEN <<[op |-> "create"]>> ELSE <<>>) \o <<[op |-> "sets"]>>

\* _ProcessHandshake.  After a session that is not the one asked for, the
\* chain goes on with nothing.
OnHandshake(answer) ==
    /\ exits' = exits - 1
    /\ IF sess # 0 /\ sess # answer.of
       THEN /\ state' = "closing" /\ Then("done", <<>>)
            /\ UNCHANGED <<file, sess>>
       ELSE /\ state' = "connected" /\ sess' = answer.of /\ file' = answer.of
            /\ Then("register", Registration)
    /\ UNCHANGED info

\* _GetShardingInfo
OnSets(answers) ==
    LET some == Last(answers).of IN
    /\ \E order \in SetToSeqs(some) :
         Then(IF some = {} THEN "done" ELSE "sharding",
              [i \in DOMAIN order |-> [op |-> "data", of |-> order[i]]])
    /\ UNCHANGED info

\* _ProcessShardingInfo, where a set keeps a shard it was given, and
\* _GetServers
OnSharding(answers) ==
    LET holding == SelectSeq(answers, LAMBDA a : a.holds) IN
    /\ owner' = IF owner = NoSet /\ holding # <<>> THEN holding[1].of ELSE owner
    /\ Then("servers", [i \in DOMAIN answers |-> [op |-> "hosts", of |-> answers[i].of]])
    /\ UNCHANGED hostInfo

\* _ProcessServerInfo, which adds to the servers known
OnServers(answers) ==
    /\ hostInfo' = [s \in Sets |->
          hostInfo[s] \cup UNION {answers[i].hosts : i \in {j \in DOMAIN answers : answers[j].of = s}}]
    /\ Then("done", <<>>)
    /\ UNCHANGED owner

Answered ==
    /\ state \in {"handshaking", "connected"} /\ toProxy # <<>> /\ ~exited
    /\ LET answer == Head(toProxy)
           answers == Append(got, answer)
       IN
        /\ answer.op \notin {"event", "error"}
        /\ IF Len(answers) < futures
           THEN /\ got' = answers
                /\ UNCHANGED <<stage, futures, state, file, sess, asked, info, exits>>
           ELSE \/ stage = "handshake" /\ OnHandshake(answer)
                \/ /\ UNCHANGED <<state, file, sess, exits>>
                   /\ \/ stage = "register" /\ OnSets(answers)
                      \/ stage = "sharding" /\ OnSharding(answers)
                      \/ stage = "servers" /\ OnServers(answers)
    /\ toProxy' = Tail(toProxy)
    /\ UNCHANGED <<tree, zk, exited, faults, changes>>

\* ParseMessage of an event, or of an answer with an error, which is not
\* deserialized: the connection is closed.
Refused ==
    /\ state = "connected" /\ toProxy # <<>> /\ ~exited
    /\ Head(toProxy).op \in {"event", "error"}
    /\ state' = "closing"
    /\ UNCHANGED <<tree, zk, asked, toProxy, file, sess, chain, info, exits, exited,
                   faults, changes>>

Gone ==
    /\ state' = "none" /\ serves' = 0 /\ watched' = {}
    /\ asked' = <<>> /\ toProxy' = <<>>
    /\ UNCHANGED <<tree, live, made, file, sess, chain, exits, exited, changes>>

\* The connection is closing, or ZooKeeper has closed it.
Ended ==
    \/ state = "closing"
    \/ /\ state \in {"handshaking", "connected"} /\ serves = 0 /\ toProxy = <<>>
       /\ asked # <<>> => Head(asked).op # "handshake"

\* Mutant: what was known is kept.
OnDisconnectKeeps == ~exited /\ Ended /\ Gone /\ UNCHANGED <<info, faults>>

\* OnDisconnect; then OnConnFail connects after 2 seconds.
OnDisconnect ==
    /\ ~exited /\ Ended /\ Gone
    /\ owner' = NoSet /\ hostInfo' = NoHosts
    /\ UNCHANGED faults

\* The connection breaks, with what is on it.
Break ==
    /\ state \in {"handshaking", "connected"} /\ ~exited /\ faults < MaxFaults
    /\ faults' = faults + 1
    /\ Gone
    /\ owner' = NoSet /\ hostInfo' = NoHosts

\* OnTimeout: also of a connection that is gone, when another has taken its
\* place.
ExitApplication ==
    /\ exits > 0 /\ ~exited
    /\ exited' = TRUE
    /\ UNCHANGED <<tree, zk, asked, toProxy, state, file, sess, chain, info, exits,
                   faults, changes>>

-----------------------------------------------------------------------------
Next ==
    \/ Serve \/ Change \/ Expire
    \/ OnConnect \/ Answered \/ Refused \/ OnDisconnect \/ Break \/ ExitApplication

\* ZooKeeper answers, and the event loop runs.
Working == Serve \/ OnConnect \/ Answered \/ Refused \/ OnDisconnect
Spec == Init /\ [][Next]_vars /\ WF_vars(Working)

-----------------------------------------------------------------------------
\* The proxy's servers are ZooKeeper's, once nothing changes there: every
\* change that came between two reads, or after them, has been seen.  A
\* program that ended for a timeout is excepted.
KnowsTheServers ==
    /\ IF holders = {} THEN owner = NoSet ELSE owner \in holders
    /\ hostInfo = hosts
LearnsTheServers == <>[](exited \/ KnowsTheServers)
=============================================================================
