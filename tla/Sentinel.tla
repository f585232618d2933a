------------------------------ MODULE Sentinel ------------------------------
(***************************************************************************)
(* A set of servers that elect their master through ZooKeeper              *)
(* (QSentinel: QClusterClient, ZookeeperConn; QedisCore/QSlaveClient).      *)
(*                                                                         *)
(* Every server makes an ephemeral sequential node; the lowest is the       *)
(* master's, every other server watches the node next below its own.        *)
(* ZooKeeper is external: it answers a connection's requests in order, and  *)
(* deletes the nodes of a session that has been silent for too long.        *)
(***************************************************************************)
EXTENDS Naturals, Sequences, FiniteSets, SequencesExt, FiniteSetsExt

CONSTANTS
    Nodes,
    MaxSessions,    \* bound: sessions ZooKeeper gives
    MaxFaults       \* bound: crashes, lost connections, sessions cut off

VARIABLES
    tree,       \* the children of /servers/set-N: [seq, node, session]
    live,       \* ZooKeeper's sessions that have not expired
    made,       \* sessions made so far
    last,       \* the number of the last child made
    serves,     \* the session ZooKeeper serves on each server's connection
    watched,    \* the node each connection watches, 0 for none
    asked,      \* requests ZooKeeper has not processed
    toNode,     \* answers and events on their way, in order
    alive,      \* the servers that run
    state,      \* ZookeeperConn::state_, "none" without a connection
    file,       \* the session in the session file, 0 without a file
    sess,       \* sessionInfo_.sessionId
    seq,        \* seq_, 0 before the server knows its node
    siblings,   \* siblings_
    role,       \* what the server last did: none, master (of which seq), slave
    orders,     \* SLAVEOF commands on their way from a master
    faults,
    misled      \* history: servers that took an older node for their own, or
                \* obeyed a server whose session had ended

zk == <<tree, live, made, last, serves, watched>>
conn_ == <<state, sess, seq, siblings>>
vars == <<zk, asked, toNode, alive, conn_, file, role, orders, faults, misled>>

Sessions == 1 .. MaxSessions
Child == [seq : 1 .. MaxSessions, node : Nodes, session : Sessions]

TypeOK ==
    /\ tree \subseteq Child /\ live \subseteq Sessions /\ {made, last} \subseteq 0 .. MaxSessions
    /\ alive \subseteq Nodes /\ misled \subseteq Nodes /\ faults \in 0 .. MaxFaults
    /\ \A n \in Nodes :
        /\ {serves[n], watched[n], file[n], sess[n], seq[n]} \subseteq 0 .. MaxSessions
        /\ state[n] \in {"none", "handshaking", "connected"}
        /\ siblings[n] \subseteq Child
        /\ role[n][1] \in {"none", "master", "slave"}
    /\ orders \subseteq [from : Nodes, to : Nodes, session : Sessions]

Zeros == [n \in Nodes |-> 0]
Init ==
    /\ tree = {} /\ live = {} /\ made = 0 /\ last = 0
    /\ serves = Zeros /\ watched = Zeros
    /\ asked = [n \in Nodes |-> <<>>] /\ toNode = [n \in Nodes |-> <<>>]
    /\ alive = Nodes /\ state = [n \in Nodes |-> "none"]
    /\ file = Zeros /\ sess = Zeros /\ seq = Zeros
    /\ siblings = [n \in Nodes |-> {}]
    /\ role = [n \in Nodes |-> <<"none">>]
    /\ orders = {} /\ faults = 0 /\ misled = {}

-----------------------------------------------------------------------------
(***************************************************************************)
(* ZooKeeper (external).                                                    *)
(***************************************************************************)
Lowest(children) == CHOOSE c \in children : \A d \in children : c.seq <= d.seq

\* The answer to the oldest request of a connection.
Serve(n) ==
    /\ asked[n] # <<>>
    /\ serves[n] # 0 \/ Head(asked[n]).op = "handshake"
    /\ LET r == Head(asked[n])
           answer(a) == toNode' = [toNode EXCEPT ![n] = Append(@, a)]
       IN
        \/ /\ r.op = "handshake" /\ r.of = 0 /\ made < MaxSessions
           /\ made' = made + 1 /\ live' = live \cup {made'}
           /\ serves' = [serves EXCEPT ![n] = made']
           /\ answer([op |-> "handshake", of |-> made'])
           /\ UNCHANGED <<tree, last, watched>>
        \/ /\ r.op = "handshake" /\ r.of # 0
           /\ LET id == IF r.of \in live THEN r.of ELSE 0 IN
                /\ serves' = [serves EXCEPT ![n] = id]
                /\ answer([op |-> "handshake", of |-> id])
           /\ UNCHANGED <<tree, live, made, last, watched>>
        \/ /\ r.op = "create"
           /\ last' = last + 1
           /\ tree' = tree \cup {[seq |-> last', node |-> n, session |-> serves[n]]}
           /\ answer([op |-> "create", of |-> last'])
           /\ UNCHANGED <<live, made, serves, watched>>
        \/ /\ r.op = "children"
           /\ answer([op |-> "children", of |-> tree])
           /\ UNCHANGED zk
        \/ /\ r.op = "data"
           /\ answer(r)
           /\ UNCHANGED zk
        \/ /\ r.op = "exists"
           /\ LET there == \E c \in tree : c.seq = r.of IN
                /\ watched' = [watched EXCEPT ![n] = IF there THEN r.of ELSE 0]
                /\ answer([op |-> IF there THEN "exists" ELSE "deleted", of |-> r.of])
           /\ UNCHANGED <<tree, live, made, last, serves>>
    /\ asked' = [asked EXCEPT ![n] = Tail(@)]
    /\ UNCHANGED <<alive, conn_, file, role, orders, faults, misled>>

\* A session ends with its nodes; the connections that watch one are told.
Expire(s) ==
    /\ s \in live
    /\ live' = live \ {s}
    /\ tree' = {c \in tree : c.session # s}
    /\ LET told(n) == \E c \in tree \ tree' : c.seq = watched[n] IN
        /\ toNode' = [n \in Nodes |->
                        IF told(n)
                        THEN Append(toNode[n], [op |-> "deleted", of |-> watched[n]])
                        ELSE toNode[n]]
        /\ watched' = [n \in Nodes |->
                        IF told(n) \/ serves[n] = s THEN 0 ELSE watched[n]]
    /\ asked' = [n \in Nodes |-> IF serves[n] = s THEN <<>> ELSE asked[n]]
    /\ serves' = [n \in Nodes |-> IF serves[n] = s THEN 0 ELSE serves[n]]
    /\ UNCHANGED <<made, last, alive, conn_, file, role, orders, misled>>

\* Nobody used the session for 15 seconds.
ExpireUnused(s) == s \notin Range(serves) /\ Expire(s) /\ UNCHANGED faults

\* Its server was cut off for as long; ZooKeeper closes its connection.
ExpireUsed(s) ==
    /\ s \in Range(serves) /\ faults < MaxFaults
    /\ Expire(s)
    /\ faults' = faults + 1

-----------------------------------------------------------------------------
(***************************************************************************)
(* The servers.                                                             *)
(***************************************************************************)
Ask(n, r) == asked' = [asked EXCEPT ![n] = Append(@, r)]

\* The connection is gone, with ZookeeperConn.
Drop(n) ==
    /\ state' = [state EXCEPT ![n] = "none"]
    /\ sess' = [sess EXCEPT ![n] = 0]
    /\ seq' = [seq EXCEPT ![n] = 0]
    /\ siblings' = [siblings EXCEPT ![n] = {}]
    /\ asked' = [asked EXCEPT ![n] = <<>>]
    /\ toNode' = [toNode EXCEPT ![n] = <<>>]
    /\ serves' = [serves EXCEPT ![n] = 0]
    /\ watched' = [watched EXCEPT ![n] = 0]

\* An assertion fails.
Abort(n) ==
    /\ alive' = alive \ {n}
    /\ role' = [role EXCEPT ![n] = <<"none">>]
    /\ Drop(n)
    /\ UNCHANGED <<tree, live, made, last, file, orders, faults, misled>>

\* OnConnect reads the session file, and unlinks it.
OnConnect(n) ==
    /\ n \in alive /\ state[n] = "none"
    /\ state' = [state EXCEPT ![n] = "handshaking"]
    /\ sess' = [sess EXCEPT ![n] = file[n]]
    /\ file' = [file EXCEPT ![n] = 0]
    /\ Ask(n, [op |-> "handshake", of |-> file[n]])
    /\ UNCHANGED <<zk, toNode, alive, seq, siblings, role, orders, faults, misled>>

\* The oldest of the answers and events.
Has(n, op) == n \in alive /\ toNode[n] # <<>> /\ Head(toNode[n]).op = op
Got(n) == Head(toNode[n]).of
Take(n) == toNode' = [toNode EXCEPT ![n] = Tail(@)]

\* Mutant: a server that resumed its session does not ask again.
ProcessHandshakeResumes(n) ==
    /\ Has(n, "handshake")
    /\ IF sess[n] # 0 /\ sess[n] # Got(n)
       THEN /\ Drop(n)
            /\ UNCHANGED <<tree, live, made, last, file>>
       ELSE /\ state' = [state EXCEPT ![n] = "connected"]
            /\ sess' = [sess EXCEPT ![n] = Got(n)]
            /\ file' = [file EXCEPT ![n] = Got(n)]
            /\ IF sess[n] = 0 THEN Ask(n, [op |-> "create"]) ELSE UNCHANGED asked
            /\ Take(n)
            /\ UNCHANGED <<zk, seq, siblings>>
    /\ UNCHANGED <<alive, role, orders, faults, misled>>

\* _ProcessHandshake: a session other than the one in the file closes the
\* connection, and the next one begins without a session.
ProcessHandshake(n) ==
    /\ Has(n, "handshake")
    /\ IF sess[n] # 0 /\ sess[n] # Got(n)
       THEN /\ Drop(n)
            /\ UNCHANGED <<tree, live, made, last, file>>
       ELSE /\ state' = [state EXCEPT ![n] = "connected"]
            /\ sess' = [sess EXCEPT ![n] = Got(n)]
            /\ file' = [file EXCEPT ![n] = Got(n)]
            /\ Ask(n, [op |-> IF sess[n] = 0 THEN "create" ELSE "children"])
            /\ Take(n)
            /\ UNCHANGED <<zk, seq, siblings>>
    /\ UNCHANGED <<alive, role, orders, faults, misled>>

\* _ProcessResponse, of a create
OnCreated(n) ==
    /\ Has(n, "create")
    /\ seq' = [seq EXCEPT ![n] = Got(n)]
    /\ Ask(n, [op |-> "children"])
    /\ Take(n)
    /\ UNCHANGED <<zk, alive, state, sess, siblings, file, role, orders, faults, misled>>

Below(children, q) == {c \in children : c.seq < q}
Highest(children) == CHOOSE c \in children : \A d \in children : d.seq <= c.seq

\* Ask about the node to watch, the next below the server's own.
Exists(n, children, q) ==
    Ask(n, [op |-> "exists", of |-> Highest(Below(children, q)).seq])

\* _ProcessResponse, of the list of children.  A server that resumed its
\* session looks for a node with its address; none, and an assertion fails.
OnChildren(n) ==
    /\ Has(n, "children")
    /\ LET own == IF seq[n] # 0 THEN {c \in Got(n) : c.seq = seq[n]}
                  ELSE {c \in Got(n) : c.node = n}
       IN
        \/ own = {} /\ Abort(n)
        \/ \E me \in own :
            /\ siblings' = [siblings EXCEPT ![n] = Got(n)]
            /\ seq' = [seq EXCEPT ![n] = me.seq]
            /\ misled' = IF me.session = sess[n] THEN misled ELSE misled \cup {n}
            /\ IF me = Lowest(Got(n))
               THEN Ask(n, [op |-> "data"])
               ELSE Exists(n, Got(n), me.seq)
            /\ Take(n)
            /\ UNCHANGED <<zk, alive, state, sess, file, role, orders, faults>>

\* _ProcessResponse, of the set's data: onBecomeMaster_, which connects to
\* the slaves to send them SLAVEOF.
OnBecomeMaster(n) ==
    /\ Has(n, "data")
    /\ role' = [role EXCEPT ![n] = <<"master", seq[n]>>]
    /\ orders' = orders \cup
         {[from |-> n, to |-> c.node, session |-> sess[n]] :
            c \in {d \in siblings[n] : d.seq > seq[n]}}
    /\ Take(n)
    /\ UNCHANGED <<zk, asked, alive, conn_, file, faults, misled>>

\* _ProcessResponse: the node asked about is there, onBecomeSlave_
OnBecomeSlave(n) ==
    /\ Has(n, "exists")
    /\ role' = [role EXCEPT ![n] = <<"slave", Lowest(siblings[n]).node>>]
    /\ Take(n)
    /\ UNCHANGED <<zk, asked, alive, conn_, file, orders, faults, misled>>

\* Mutant: the first node to go makes its watcher ask for the data, lowest
\* or not.
OnNodeDeleteAnyway(n) ==
    /\ Has(n, "deleted")
    /\ siblings' = [siblings EXCEPT ![n] = {c \in @ : c.seq # Got(n)}]
    /\ Ask(n, [op |-> "data"])
    /\ Take(n)
    /\ UNCHANGED <<zk, alive, state, sess, seq, file, role, orders, faults, misled>>

\* _OnNodeDelete, for an event and for an answer that the node is not there.
OnNodeDelete(n) ==
    /\ Has(n, "deleted")
    /\ siblings' = [siblings EXCEPT ![n] = {c \in @ : c.seq # Got(n)}]
    /\ IF Below(siblings'[n], seq[n]) = {}
       THEN Ask(n, [op |-> "children"])
       ELSE Exists(n, siblings'[n], seq[n])
    /\ Take(n)
    /\ UNCHANGED <<zk, alive, state, sess, seq, file, role, orders, faults, misled>>

Receive(n) ==
    \/ ProcessHandshake(n) \/ OnCreated(n) \/ OnChildren(n)
    \/ OnBecomeMaster(n) \/ OnBecomeSlave(n) \/ OnNodeDelete(n)

-----------------------------------------------------------------------------
\* The end of a connection that ZooKeeper closed, after what it had sent.
Disconnect(n) ==
    /\ state[n] # "none" /\ serves[n] = 0
    /\ toNode[n] = <<>>
    /\ asked[n] # <<>> => Head(asked[n]).op # "handshake"
    /\ Drop(n)
    /\ UNCHANGED <<tree, live, made, last, alive, file, role, orders, faults, misled>>

\* A connection breaks, with what is on it.
Break(n) ==
    /\ state[n] # "none" /\ faults < MaxFaults
    /\ faults' = faults + 1
    /\ Drop(n)
    /\ UNCHANGED <<tree, live, made, last, alive, file, role, orders, misled>>

Crash(n) ==
    /\ n \in alive /\ faults < MaxFaults
    /\ faults' = faults + 1
    /\ alive' = alive \ {n}
    /\ role' = [role EXCEPT ![n] = <<"none">>]
    /\ Drop(n)
    /\ UNCHANGED <<tree, live, made, last, file, orders, misled>>

Restart(n) ==
    /\ n \notin alive
    /\ alive' = alive \cup {n}
    /\ UNCHANGED <<zk, asked, toNode, conn_, file, role, orders, faults, misled>>

\* A SLAVEOF arrives (QSlaveClient::OnConnect), or its connect fails.
Order(o) ==
    /\ o \in orders
    /\ orders' = orders \ {o}
    /\ \/ UNCHANGED <<role, misled>>
       \/ /\ o.to \in alive
          /\ role' = [role EXCEPT ![o.to] = <<"slave", o.from>>]
          /\ misled' = IF o.session \in live THEN misled ELSE misled \cup {o.to}
    /\ UNCHANGED <<zk, asked, toNode, alive, conn_, file, faults>>

-----------------------------------------------------------------------------
Orders == [from : Nodes, to : Nodes, session : Sessions]
Step(n) == Serve(n) \/ OnConnect(n) \/ Receive(n) \/ Disconnect(n)

Next ==
    \/ \E n \in Nodes : Step(n) \/ Break(n) \/ Crash(n) \/ Restart(n)
    \/ \E s \in Sessions : ExpireUnused(s) \/ ExpireUsed(s)
    \/ \E o \in Orders : Order(o)

\* Every server that runs connects, again after 2 seconds, and reads what
\* arrives; ZooKeeper answers, and ends the sessions nobody uses.  Nobody
\* need restart a server.
Spec ==
    /\ Init /\ [][Next]_vars
    /\ \A n \in Nodes : WF_vars(Step(n))
    /\ \A s \in Sessions : WF_vars(ExpireUnused(s))

-----------------------------------------------------------------------------
\* A server became master on the lowest node there is: no node below it is
\* left, nor comes back.
MasterIsLowest ==
    \A n \in Nodes : role[n][1] = "master" => \A c \in tree : role[n][2] <= c.seq

\* When the faults end, the owner of the lowest node is and stays the master,
\* unless it took a node that its former session left for its own, or obeyed
\* a SLAVEOF of a server that had lost its session.
LowestLeads ==
    \A c \in tree : (\A d \in tree : c.seq <= d.seq)
        => role[c.node] = <<"master", c.seq>> \/ c.node \in misled
SomebodyLeads == <>[]LowestLeads

\* QSentinel/README.md: a set has one master at most.
AtMostOneMaster ==
    \A n, m \in Nodes : role[n][1] = "master" /\ role[m][1] = "master" => n = m
=============================================================================
