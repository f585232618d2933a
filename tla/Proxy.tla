------------------------------- MODULE Proxy -------------------------------
(***************************************************************************)
(* The proxy of the cluster (cluster/qedis_proxy: ClientManager,            *)
(* ClientConn, QedisManager, QedisConn, Protocol): clients' requests are    *)
(* forwarded over one connection per server, and an answer of the server    *)
(* goes to the oldest request pending there.                                *)
(*                                                                         *)
(* GetServer finds the same server for every key (its hash is a constant),  *)
(* so there is one server; what ClusterManager knows of it comes and goes   *)
(* with ZooKeeper's answers.  A request is its number; its reply is simple  *)
(* (one line) or bulk, and may arrive in two parts.                         *)
(*                                                                         *)
(* A client is the place its connection has in memory: when it has gone,    *)
(* another may come there.  A request keeps a pointer to that place         *)
(* (hostConn_ in ClientConn::OnRecv), whatever becomes of the connection.   *)
(***************************************************************************)
EXTENDS Naturals, Sequences, FiniteSets, SequencesExt

CONSTANTS
    Clients,
    MaxRequests     \* bound: requests in all

VARIABLES
    closed,     \* the clients that have gone
    gone,       \* the requests made on a connection that has gone, not answered then
    requests,   \* the requests handled, each with its client and its kind
    known,      \* whether ClusterManager::GetServer has a server
    link,       \* QedisManager's connection to the server
    waiting,    \* QedisManager::pending_, requests that wait for it
    pending,    \* QedisConn::pending_
    server,     \* requests the server has not answered whole
    half,       \* whether a part of its next reply is in the receive buffer
    split,      \* whether a bulk reply of this connection was taken in parts
    answers,    \* the answers given, in order: to which request, what, and who hears it
    crashed,    \* the program did what C++ leaves undefined, and ended
    \* What follows records history.
    lost,       \* requests pending on a connection that ended
    astray      \* requests answered behind a bulk reply taken in parts, or on a
                \* connection that had gone

link_ == <<link, waiting, pending, server, half, split>>
given == <<answers, crashed, astray>>
vars == <<closed, gone, requests, known, link_, given, lost>>

Kinds == {"simple", "bulk"}
Ids == 1 .. Len(requests)

Init ==
    /\ closed = {} /\ gone = {} /\ requests = <<>> /\ known = FALSE
    /\ link = "none" /\ waiting = <<>> /\ pending = <<>>
    /\ server = <<>> /\ half = FALSE /\ split = FALSE
    /\ answers = <<>> /\ crashed = FALSE
    /\ lost = {} /\ astray = {}

-----------------------------------------------------------------------------
\* The second continuation of OnRecv sends what on the connection of each request.
\* What it does on one that has gone is undefined: nobody hears it, the client that
\* has come in its place does, or the program ends.
Give(ids, what, unsure) ==
    LET dangling == {i \in DOMAIN ids : ids[i] \in gone}
        taken == {i \in dangling : requests[ids[i]].client \notin closed}
        By(i, heard) == IF i \notin dangling THEN "client"
                        ELSE IF i \in heard THEN "other" ELSE "nobody"
    IN  /\ \/ /\ \E heard \in SUBSET taken :
                   answers' = answers \o [i \in DOMAIN ids |->
                                [to |-> ids[i], with |-> what, by |-> By(i, heard)]]
              /\ UNCHANGED crashed
           \/ /\ dangling # {} /\ crashed' = TRUE
              /\ UNCHANGED answers
        /\ astray' = astray \cup (IF unsure THEN Range(ids) ELSE Range(ids) \cap gone)

\* QedisConn::ForwardRequest.  A connection that is being closed refuses the
\* packet, and the promise is kept all the same.
ForwardRequest(ids) ==
    /\ pending' = pending \o ids
    /\ server' = IF link' = "up" THEN server \o ids ELSE server

\* Mutant: the requests that waited are forwarded, the newest first.
OnConnectReversed ==
    /\ link = "connecting"
    /\ link' = "up"
    /\ ForwardRequest(Reverse(waiting))
    /\ waiting' = <<>>
    /\ UNCHANGED <<closed, gone, requests, known, half, split, given, lost>>

\* QedisManager::OnConnect
OnConnect ==
    /\ link = "connecting"
    /\ link' = "up"
    /\ ForwardRequest(waiting)
    /\ waiting' = <<>>
    /\ UNCHANGED <<closed, gone, requests, known, half, split, given, lost>>

\* Every promise that waits gets an exception, which the continuation of OnRecv
\* makes an answer.
FailWaiting ==
    /\ Give(waiting, <<"dead">>, FALSE)
    /\ waiting' = <<>>

\* Mutant: the requests that wait are forgotten.
OnConnFailForgets ==
    /\ link = "connecting"
    /\ link' = "none"
    /\ waiting' = <<>>
    /\ UNCHANGED <<closed, gone, requests, known, pending, server, half, split, given,
                   lost>>

\* QedisManager::OnConnFail, refused or after its second.
OnConnFail ==
    /\ link = "connecting"
    /\ link' = "none"
    /\ FailWaiting
    /\ UNCHANGED <<closed, gone, requests, known, pending, server, half, split, lost>>

\* ClientConn::OnRecv with a whole request.
Command(c, kind) ==
    /\ c \notin closed /\ Len(requests) < MaxRequests
    /\ requests' = Append(requests, [client |-> c, kind |-> kind])
    /\ LET id == Len(requests) + 1
       IN
        \* the proxy's own commands, unknown ones, and no server
        \/ /\ Give(<<id>>, <<"proxy">>, FALSE)
           /\ UNCHANGED link_
        \* GetConnection of a connection, be it closing
        \/ /\ known /\ link \in {"up", "closing"}
           /\ UNCHANGED <<link, waiting, half, split, given>>
           /\ ForwardRequest(<<id>>)
        \* Connect: the first one starts it, and it may end at once
        \/ /\ known /\ link \in {"none", "connecting"}
           /\ waiting' = Append(waiting, id) /\ link' = "connecting"
           /\ UNCHANGED <<pending, server, half, split, given>>
        \/ /\ known /\ link = "none"
           /\ link' = "up" /\ ForwardRequest(<<id>>)
           /\ UNCHANGED <<waiting, half, split, given>>
        \/ /\ known /\ link = "none"
           /\ Give(<<id>>, <<"dead">>, FALSE)
           /\ UNCHANGED link_
    /\ UNCHANGED <<closed, gone, known, lost>>

-----------------------------------------------------------------------------
(***************************************************************************)
(* The server's replies.                                                    *)
(***************************************************************************)
\* QedisConn::OnRecv with what ClientProtocol::Parse took for a reply: the
\* oldest request pending has it; the front of an empty queue is undefined.
GiveToOldest(what) ==
    IF pending = <<>>
    THEN /\ crashed' = TRUE
         /\ UNCHANGED <<pending, answers, astray>>
    ELSE /\ Give(<<Head(pending)>>, what, split')
         /\ pending' = Tail(pending)

Reply ==
    /\ link = "up" /\ server # <<>>
    /\ UNCHANGED split
    /\ GiveToOldest(<<"reply", Head(server)>>)
    /\ server' = Tail(server)
    /\ half' = FALSE
    /\ UNCHANGED <<closed, gone, requests, known, link, waiting, lost>>

\* Parse of a part: a line without its end waits; of a bulk, or of several,
\* the result is ok with no content, and nothing is sent for it, while the part
\* stays in the buffer.
HalfReply ==
    /\ link = "up" /\ server # <<>> /\ ~half
    /\ half' = TRUE
    /\ \/ /\ requests[Head(server)].kind = "simple"
          /\ UNCHANGED <<split, pending, given>>
       \/ /\ requests[Head(server)].kind = "bulk"
          /\ split' = TRUE
          /\ GiveToOldest(<<"nothing">>)
    /\ UNCHANGED <<closed, gone, requests, known, link, waiting, server, lost>>

\* The connection fails, or is closed for a reply that is none.
LinkFails ==
    /\ link = "up"
    /\ link' = "closing"
    /\ UNCHANGED <<closed, gone, requests, known, waiting, pending, server, half, split,
                   given, lost>>

\* Mutant: what is pending stays for the next connection.
OnDisconnectKeeps ==
    /\ link = "closing"
    /\ link' = "none"
    /\ lost' = lost \cup Range(pending)
    /\ server' = <<>> /\ half' = FALSE /\ split' = FALSE
    /\ FailWaiting
    /\ UNCHANGED <<closed, gone, requests, known, pending>>

\* QedisManager::OnDisconnect, then OnConnFail, which is the connect's callback and
\* called for the end of the connection too; QedisConn goes with its promises.
OnDisconnect ==
    /\ link = "closing"
    /\ link' = "none"
    /\ lost' = lost \cup Range(pending)
    /\ pending' = <<>> /\ server' = <<>> /\ half' = FALSE /\ split' = FALSE
    /\ FailWaiting
    /\ UNCHANGED <<closed, gone, requests, known>>

\* ClusterManager learns of the server, and forgets it with its connection.
ClusterChanges ==
    /\ known' = ~known
    /\ UNCHANGED <<closed, gone, requests, link_, given, lost>>

ClientCloses(c) ==
    /\ c \notin closed
    /\ closed' = closed \cup {c}
    /\ gone' = gone \cup {id \in Range(waiting) \cup Range(pending) :
                            requests[id].client = c}
    /\ UNCHANGED <<requests, known, link_, given, lost>>

\* ClientManager::OnNewConnection, at the place of one that has gone.
ClientComes(c) ==
    /\ c \in closed
    /\ closed' = closed \ {c}
    /\ UNCHANGED <<gone, requests, known, link_, given, lost>>

-----------------------------------------------------------------------------
Step ==
    \/ \E c \in Clients :
         \/ \E kind \in Kinds : Command(c, kind)
         \/ ClientCloses(c) \/ ClientComes(c)
    \/ OnConnect \/ OnConnFail \/ Reply \/ HalfReply
    \/ LinkFails \/ OnDisconnect \/ ClusterChanges
Next == ~crashed /\ Step

\* Connects end within a second, a failed connection is dropped, and the
\* server answers.
Answering == ~crashed /\ (OnConnect \/ OnConnFail \/ Reply \/ OnDisconnect)
Spec == Init /\ [][Next]_vars /\ WF_vars(Answering)

-----------------------------------------------------------------------------
Client(id) == requests[id].client

\* No client is given the answer to another request, whatever connects, fails and
\* reconnects between, and those for a client are given in the order of its
\* requests, none twice, the ones the proxy gives of itself aside.  Excepted are the
\* requests answered when a bulk reply of the connection came in parts (each part is
\* taken for a reply, Protocol.cc:298) and those whose client has gone, whose answer
\* another client may hear; the program ends on its own in no other case.
AnswersAreOwn ==
    /\ crashed => astray # {}
    /\ \A i \in DOMAIN answers :
          answers[i].to \in astray
          \/ /\ answers[i].by = "client"
             /\ answers[i].with \in {<<"proxy">>, <<"dead">>, <<"reply", answers[i].to>>}
    /\ \A i, j \in DOMAIN answers :
          /\ i < j /\ Client(answers[i].to) = Client(answers[j].to)
          /\ <<"proxy">> \notin {answers[i].with, answers[j].with}
          => answers[i].to < answers[j].to

\* Every request is answered, unless it was pending on a connection that ended (the
\* promise is destroyed and the client hears nothing), or a part of a bulk reply was
\* taken for its reply, or its client has gone.
AllAnswered ==
    crashed \/ \A id \in Ids : id \in lost \cup astray
                               \/ \E i \in DOMAIN answers : answers[i].to = id
RequestsAreAnswered == <>[]AllAnswered
=============================================================================
