----------------------------- MODULE NetThreads -----------------------------
(***************************************************************************)
(* A connection of the server (QBase: StreamSocket, NetThreadPool,          *)
(* TaskManager, Server, Socket) between the three threads that hold it: the *)
(* receiving thread and the sending thread, each with a poller, and the     *)
(* main thread that handles the requests.  It ends with the first of them   *)
(* to call OnError; each drops it on its own.                               *)
(*                                                                         *)
(* A request and a reply are one unit each; the buffers between the threads *)
(* are in order (RingBuffer, AsyncBuffer).  The kernel and the peer are     *)
(* external.                                                                *)
(***************************************************************************)
EXTENDS Naturals, FiniteSets

CONSTANTS
    Room,       \* units that recvBuf_ holds
    Space,      \* units that the kernel's send buffer holds
    MaxRequests \* bound: requests of the peer

VARIABLES
    asked,      \* requests the peer has sent,
    received,   \* of them in recvBuf_, or before,
    handled,    \* of them handled by the main thread, each with a reply,
    sent,       \* replies given to the kernel,
    got,        \* and those the peer has read
    peer,       \* whether the peer is open, has closed, or is gone
    invalid,    \* Socket::invalid_
    told,       \* calls of onDisconnect_
    recvs, sends, main, \* where each thread has it: nowhere, new, in, out
    reads,      \* whether the receiving thread's poller has it
    writes,     \* whether the sending thread's poller has it
    epollOut,   \* epollOut_
    tried,      \* the sending thread is between Send and Invalid
    connects, disconnects \* calls of OnConnect and OnDisconnect

units == <<asked, received, handled, sent, got>>
tables == <<recvs, sends, main>>
polls == <<reads, writes, epollOut, tried>>
calls == <<connects, disconnects>>
vars == <<units, peer, invalid, told, tables, polls, calls>>

Places == {"none", "new", "in", "out"}
TypeOK ==
    /\ {asked, received, handled, sent, got} \subseteq 0 .. MaxRequests
    /\ received <= asked /\ received - handled <= Room
    /\ sent - got <= Space
    /\ peer \in {"open", "closed", "gone"}
    /\ {invalid, reads, writes, epollOut, tried} \subseteq BOOLEAN
    /\ {recvs, sends, main} \subseteq Places
    /\ {told, connects, disconnects} \subseteq Nat

\* Server::NewConnection has given it to the network threads.
Init ==
    /\ asked = 0 /\ received = 0 /\ handled = 0 /\ sent = 0 /\ got = 0
    /\ peer = "open" /\ invalid = FALSE /\ told = 0
    /\ recvs = "new" /\ sends = "new" /\ main = "none"
    /\ reads = FALSE /\ writes = FALSE /\ epollOut = FALSE /\ tried = FALSE
    /\ connects = 0 /\ disconnects = 0

-----------------------------------------------------------------------------
\* Mutant: the flag is set, without a look at what it was.
OnErrorAgain == invalid' = TRUE /\ told' = told + 1

\* Socket::OnError and StreamSocket::OnError: the first call counts.
OnError ==
    /\ invalid' = TRUE
    /\ told' = IF invalid THEN told ELSE told + 1

\* The peer, and the network.
Peer ==
    /\ \/ /\ peer = "open" /\ asked < MaxRequests
          /\ asked' = asked + 1 /\ UNCHANGED <<got, peer>>
       \/ /\ peer = "open" /\ peer' = "closed" /\ UNCHANGED <<asked, got>>
       \/ /\ peer # "gone" /\ peer' = "gone" /\ UNCHANGED <<asked, got>>
    /\ UNCHANGED <<received, handled, sent, invalid, told, tables, polls, calls>>

PeerReads ==
    /\ peer # "gone" /\ got < sent
    /\ got' = got + 1
    /\ UNCHANGED <<asked, received, handled, sent, peer, invalid, told, tables, polls, calls>>

-----------------------------------------------------------------------------
(***************************************************************************)
(* The receiving thread: RecvThread::Run.                                   *)
(***************************************************************************)
\* _TryAddNewTasks, if it gets the lock.
RecvAdds ==
    /\ recvs = "new"
    /\ recvs' = "in" /\ reads' = TRUE
    /\ UNCHANGED <<units, peer, invalid, told, sends, main, writes, epollOut, tried, calls>>

\* StreamSocket::OnReadable: what there is, as far as recvBuf_ has room; the
\* end, or an error, stops the reading and is told.
RecvReads ==
    /\ recvs = "in" /\ reads
    /\ \/ /\ received < asked /\ received - handled < Room /\ peer # "gone"
          /\ \E n \in received + 1 .. asked :
                /\ n - handled <= Room
                /\ received' = n
          /\ UNCHANGED <<invalid, told, reads>>
       \/ /\ peer = "gone" \/ (peer = "closed" /\ received = asked)
          /\ reads' = FALSE
          /\ OnError
          /\ UNCHANGED received
    /\ UNCHANGED <<asked, handled, sent, got, peer, tables, writes, epollOut, tried, calls>>

\* The look at all sockets, every so many rounds.
RecvDrops ==
    /\ recvs = "in" /\ invalid
    /\ recvs' = "out" /\ reads' = FALSE
    /\ UNCHANGED <<units, peer, invalid, told, sends, main, writes, epollOut, tried, calls>>

-----------------------------------------------------------------------------
(***************************************************************************)
(* The sending thread: SendThread::Run.                                     *)
(***************************************************************************)
SendAdds ==
    /\ sends = "new" /\ ~tried
    /\ sends' = "in" /\ writes' = TRUE
    /\ UNCHANGED <<units, peer, invalid, told, recvs, main, reads, epollOut, tried, calls>>

\* _Send: as much as the kernel takes; what is left waits for it.
SendSome ==
    \/ /\ peer # "gone"
       /\ sent' = IF handled - got <= Space THEN handled ELSE got + Space
       /\ epollOut' = (sent' < handled)
       /\ UNCHANGED <<invalid, told>>
    \/ /\ peer = "gone"
       /\ OnError
       /\ UNCHANGED <<sent, epollOut>>

\* Mutant: the poller is not told to wait for room.
SendWithoutPoll ==
    /\ sends = "in" /\ ~tried
    /\ tried' = TRUE
    /\ IF epollOut \/ sent = handled
       THEN UNCHANGED <<sent, epollOut, invalid, told, writes>>
       ELSE SendSome /\ UNCHANGED writes
    /\ UNCHANGED <<asked, received, handled, got, peer, tables, reads, calls>>

\* StreamSocket::Send, in the loop over the sockets.
Send ==
    /\ sends = "in" /\ ~tried
    /\ tried' = TRUE
    /\ IF epollOut \/ sent = handled
       THEN UNCHANGED <<sent, epollOut, invalid, told, writes>>
       ELSE SendSome /\ writes' = (epollOut' \/ writes)
    /\ UNCHANGED <<asked, received, handled, got, peer, tables, reads, calls>>

\* The rest of that loop: an invalid socket is dropped, with what was
\* written to it since.
SendChecks ==
    /\ sends = "in" /\ tried
    /\ tried' = FALSE
    /\ sends' = IF invalid THEN "out" ELSE sends
    /\ writes' = (~invalid /\ writes)
    /\ UNCHANGED <<units, peer, invalid, told, recvs, main, reads, epollOut, calls>>

\* StreamSocket::OnWritable.  The poller is asked only if some socket waits
\* for room, maybe another one.
OnWritable ==
    /\ sends = "in" /\ ~tried /\ writes
    /\ sent - got < Space \/ peer = "gone"
    /\ IF sent < handled THEN SendSome
       ELSE epollOut' = FALSE /\ UNCHANGED <<sent, invalid, told>>
    /\ writes' = epollOut'
    /\ UNCHANGED <<asked, received, handled, got, peer, tables, reads, tried, calls>>

-----------------------------------------------------------------------------
(***************************************************************************)
(* The main thread: Server::NewConnection, TaskManager::DoMsgParse.         *)
(***************************************************************************)
AddTask ==
    /\ main = "none"
    /\ main' = "new"
    /\ UNCHANGED <<units, peer, invalid, told, recvs, sends, polls, calls>>

MainAdds ==
    /\ main = "new"
    /\ main' = "in" /\ connects' = connects + 1
    /\ UNCHANGED <<units, peer, invalid, told, recvs, sends, polls, disconnects>>

\* StreamSocket::DoMsgParse of a request, which has a reply; and the handler
\* may end the connection.
Handle ==
    /\ main = "in" /\ ~invalid /\ handled < received
    /\ handled' = handled + 1
    /\ \/ UNCHANGED <<invalid, told>>
       \/ OnError
    /\ UNCHANGED <<asked, received, sent, got, peer, tables, polls, calls>>

\* Mutant: a socket that ended before it was added is dropped unseen.
MainDropsUnseen ==
    /\ main \in {"new", "in"} /\ invalid
    /\ main' = "out" /\ disconnects' = disconnects + 1
    /\ UNCHANGED <<units, peer, invalid, told, recvs, sends, polls, connects>>

MainDrops ==
    /\ main = "in" /\ invalid
    /\ main' = "out" /\ disconnects' = disconnects + 1
    /\ UNCHANGED <<units, peer, invalid, told, recvs, sends, polls, connects>>

-----------------------------------------------------------------------------
RecvThread == RecvAdds \/ RecvReads \/ RecvDrops
SendThread == SendAdds \/ Send \/ SendChecks
Main == AddTask \/ MainAdds \/ Handle \/ MainDrops

Next == Peer \/ PeerReads \/ RecvThread \/ SendThread \/ OnWritable \/ Main

\* The threads run; the poller reports a socket that has room, and the peer
\* reads.
Spec ==
    /\ Init /\ [][Next]_vars
    /\ WF_vars(RecvThread) /\ WF_vars(SendThread) /\ WF_vars(Main)
    /\ SF_vars(OnWritable) /\ WF_vars(PeerReads)

-----------------------------------------------------------------------------
\* The end is told once, whichever threads find it; OnDisconnect comes once,
\* after OnConnect, and only of a connection that has ended.
EndsOnce ==
    /\ told = (IF invalid THEN 1 ELSE 0)
    /\ disconnects <= connects /\ connects <= 1
    /\ main = "out" => invalid /\ connects = 1 /\ disconnects = 1

\* Requests are handled and replies arrive, however little room there is,
\* unless the connection ends; and then all three threads drop it.
AllIsThrough ==
    /\ got = asked \/ invalid
    /\ invalid => recvs = "out" /\ sends = "out" /\ main = "out"
GoesThrough == <>[]AllIsThrough
=============================================================================
