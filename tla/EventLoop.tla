----------------------------- MODULE EventLoop -----------------------------
(***************************************************************************)
(* The event loop of ananas (cluster/ananas/net: EventLoop, Epoller,        *)
(* Connector, Connection): one connect and the connection it ends in,       *)
(* beside the other sources of the loop, whose handlers may use the         *)
(* connection too.                                                          *)
(*                                                                         *)
(* A round of the loop takes the events that are ready (Poll) and handles   *)
(* each later, when a handler before it may have sent, closed or met an     *)
(* error.  The application's callbacks are the places where it may act:     *)
(* onMessage ("message"), onWriteComplete ("complete"), other handlers      *)
(* ("handle"), timers and functors ("poll").                                *)
(*                                                                         *)
(* A packet is two units, so that a part of it may be sent; the kernel      *)
(* holds at most Room units the peer has not read.                          *)
(***************************************************************************)
EXTENDS Naturals, Sequences, SequencesExt

CONSTANTS
    Room,       \* units in the kernel's send buffer
    MaxPackets, \* bound: packets the application sends
    MaxGot      \* bound: packets the peer sends

VARIABLES
    cstate,     \* Connector::state_
    timer,      \* whether Connector::timeoutId_ is in timers_
    state,      \* Connection::state_
    source,     \* what eventSourceSet_ has of the two: connector, connection
    watch,      \* the events the poller is asked for
    fired,      \* the events of the round that are still to be handled
    at,         \* where the loop is
    sendBuf,    \* Connection::sendBuf_
    peer,       \* the other side, as the kernel knows it
    unread,     \* units sent that the peer has not read
    got,        \* packets received that the connection has not read
    \* What follows records history.
    sent,       \* the packets the peer has sent
    accepted,   \* units of the packets SendPacket returned true for
    wire,       \* units the kernel took
    late,       \* how many of the accepted units onWriteComplete sent when the
                \* peer had shut its side down
    told        \* the callbacks called, with how often; "passive" is an end
                \* the peer chose

conn == <<state, sendBuf, unread, got, sent, accepted, wire, late>>
vars == <<cstate, timer, source, watch, fired, at, peer, told, conn>>

Init ==
    /\ cstate = "none" /\ timer = FALSE
    /\ state = "None" /\ source = "none"
    /\ watch = {} /\ fired = {} /\ at = "poll"
    /\ sendBuf = <<>> /\ peer = "none" /\ unread = 0 /\ got = 0
    /\ sent = 0 /\ accepted = <<>> /\ wire = <<>> /\ late = 0
    /\ told = [what \in {"newConn", "fail", "disconnect", "passive",
                      "unregistered"} |-> 0]

Tell(what) == told' = [told EXCEPT ![what] = @ + 1]

-----------------------------------------------------------------------------
(***************************************************************************)
(* Connecting.                                                              *)
(***************************************************************************)
\* Connector::_OnSuccess: the connection takes the connector's place, or is
\* dropped when the poller refuses it.  The connector is destroyed, and its
\* timer cancelled, before timers_.Update.
OnSuccess ==
    /\ cstate' = "connected"
    /\ timer' = FALSE
    /\ peer' = "open"
    /\ \/ /\ source' = "connection" /\ watch' = {"read"}
          /\ state' = "Connected"
          /\ Tell("newConn")
       \/ /\ source' = "none" /\ watch' = {}
          /\ Tell("unregistered")
          /\ UNCHANGED state

\* Connector::_OnFailed
OnFailed ==
    /\ cstate' = "failed"
    /\ Tell("fail")
    /\ source' = "none" /\ watch' = {}
    /\ timer' = FALSE

Connect ==
    /\ cstate = "none"
    /\ \/ OnSuccess
       \/ /\ OnFailed
          /\ UNCHANGED <<peer, state>>
       \/ /\ cstate' = "connecting" /\ peer' = "asked"
          /\ source' = "connector" /\ watch' = {"write"}
          /\ timer' = TRUE
          /\ UNCHANGED <<state, told>>
    /\ UNCHANGED <<fired, at, sendBuf, unread, got, sent, accepted, wire, late>>

\* The timer of Connect.
ConnectTimer ==
    /\ at = "poll" /\ timer
    /\ OnFailed
    /\ UNCHANGED <<fired, at, peer, conn>>

\* Connector::HandleWriteEvent and HandleErrorEvent
ConnectorEvent ==
    /\ at = "handle" /\ fired # {} /\ source = "connector"
    /\ IF peer = "refused"
       THEN OnFailed /\ UNCHANGED <<peer, state>>
       ELSE OnSuccess
    /\ fired' = {}
    /\ UNCHANGED <<at, sendBuf, unread, got, sent, accepted, wire, late>>

-----------------------------------------------------------------------------
(***************************************************************************)
(* The loop.                                                                *)
(***************************************************************************)
\* Epoller::Poll: errors are told whether they are asked for or not.
Ready ==
    IF source = "connector"
    THEN IF peer = "asked" THEN {}
         ELSE {"write"} \cup (IF peer = "refused" THEN {"error"} ELSE {})
    ELSE {event \in watch :
            CASE event = "read" -> got > 0 \/ peer \in {"fin", "rst"}
              [] event = "write" -> unread < Room \/ peer = "rst"}
         \cup (IF peer = "rst" THEN {"error"} ELSE {})

Poll ==
    /\ at = "poll" /\ source # "none"
    /\ Ready # {}
    /\ fired' = Ready
    /\ at' = "handle"
    /\ UNCHANGED <<cstate, timer, source, watch, peer, told, conn>>

EndOfRound ==
    /\ at = "handle" /\ fired = {}
    /\ at' = "poll"
    /\ UNCHANGED <<cstate, timer, source, watch, fired, peer, told, conn>>

-----------------------------------------------------------------------------
(***************************************************************************)
(* The connection.                                                          *)
(***************************************************************************)
\* Mutant: HandleErrorEvent does not ask for the state.
HandleErrorEventAlways(now, w) ==
    /\ state' = "Closed"
    /\ told' = [told EXCEPT !["disconnect"] = @ + 1, !["fail"] = @ + 1]
    /\ source' = "none" /\ watch' = {}

\* Connection::HandleErrorEvent, met in state now when the poller is asked
\* for w: it ends a connection that a handler has given up, once.  It calls
\* onDisconnect_ and then onConnFail_, the callback of a failed connect, which the
\* connector has handed on.
HandleErrorEvent(now, w) ==
    IF now \in {"PassiveClose", "ActiveClose", "Error"}
    THEN /\ state' = "Closed"
         /\ told' = [told EXCEPT !["disconnect"] = @ + 1, !["fail"] = @ + 1,
                               !["passive"] = IF now = "PassiveClose" THEN 1 ELSE 0]
         /\ source' = "none" /\ watch' = {}
    ELSE /\ state' = now
         /\ watch' = w
         /\ UNCHANGED <<source, told>>

Handled(event) ==
    /\ fired' = fired \ {event}
    /\ at' = "handle"

\* The events are handled in the order read, write, error.
Turn(event) ==
    /\ at = "handle" /\ cstate = "connected" /\ event \in fired
    /\ event = "write" => "read" \notin fired
    /\ event = "error" => fired = {"error"}

BeginRead ==
    /\ Turn("read")
    /\ IF state = "Connected"
       THEN /\ at' = "read"
            /\ UNCHANGED <<source, watch, fired, told, state>>
       ELSE HandleErrorEvent(state, watch) /\ Handled("read")
    /\ UNCHANGED <<cstate, timer, peer, sendBuf, unread, got, sent, accepted, wire, late>>

\* Connection::HandleReadEvent: readv until there is no more.
ReadMessage ==
    /\ at = "read" /\ got > 0
    /\ got' = got - 1
    /\ at' = "message"
    /\ UNCHANGED <<cstate, timer, source, watch, fired, peer, told,
                   state, sendBuf, unread, sent, accepted, wire, late>>

EndMessage ==
    /\ at = "message"
    /\ at' = "read"
    /\ UNCHANGED <<cstate, timer, source, watch, fired, peer, told, conn>>

\* Mutant: the end of the peer's data ends the connection at once.
ReadEndAtOnce ==
    /\ at = "read" /\ got = 0
    /\ CASE peer = "open" -> UNCHANGED <<source, watch, told, state>>
         [] peer = "fin" -> HandleErrorEvent("PassiveClose", watch)
         [] peer = "rst" -> HandleErrorEvent("Error", watch)
    /\ Handled("read")
    /\ UNCHANGED <<cstate, timer, peer, sendBuf, unread, got, sent, accepted, wire, late>>

ReadEnd ==
    /\ at = "read" /\ got = 0
    /\ CASE peer = "open" -> UNCHANGED <<source, watch, told, state>>
         [] peer = "fin" -> IF sendBuf = <<>>
                            THEN HandleErrorEvent("PassiveClose", watch)
                            ELSE HandleErrorEvent("CloseWaitWrite", {"write"})
         [] peer = "rst" -> HandleErrorEvent("Error", watch)
    /\ Handled("read")
    /\ UNCHANGED <<cstate, timer, peer, sendBuf, unread, got, sent, accepted, wire, late>>

\* WriteV, ConsumeBufferVectors and CollectBuffer: what the kernel has room
\* for is sent, the rest stays.
Sendable(units) ==
    LET room == Room - unread IN IF Len(units) < room THEN Len(units) ELSE room
ToKernel(units) ==
    /\ wire' = wire \o SubSeq(units, 1, Sendable(units))
    /\ unread' = unread + Sendable(units)
Rest(units) == SubSeq(units, Sendable(units) + 1, Len(units))

\* Connection::HandleWriteEvent
HandleWriteEvent ==
    /\ Turn("write")
    /\ \/ /\ state \notin {"Connected", "CloseWaitWrite"}
          /\ HandleErrorEvent(state, watch) /\ Handled("write")
          /\ UNCHANGED <<sendBuf, unread, wire>>
       \/ /\ state \in {"Connected", "CloseWaitWrite"} /\ peer = "rst"
          /\ HandleErrorEvent("Error", watch) /\ Handled("write")
          /\ UNCHANGED <<sendBuf, unread, wire>>
       \/ /\ state \in {"Connected", "CloseWaitWrite"} /\ peer # "rst"
          /\ ToKernel(sendBuf)
          /\ sendBuf' = Rest(sendBuf)
          /\ IF sendBuf' = <<>>
             THEN at' = "complete" /\ watch' = {"read"} /\ UNCHANGED fired
             ELSE Handled("write") /\ UNCHANGED watch
          /\ UNCHANGED <<source, told, state>>
    /\ UNCHANGED <<cstate, timer, peer, got, sent, accepted, late>>

\* After onWriteComplete_.
EndComplete ==
    /\ at = "complete"
    /\ IF state = "CloseWaitWrite"
       THEN HandleErrorEvent("PassiveClose", watch)
       ELSE UNCHANGED <<source, watch, told, state>>
    /\ Handled("write")
    /\ UNCHANGED <<cstate, timer, peer, sendBuf, unread, got, sent, accepted, wire, late>>

ErrorEvent ==
    /\ Turn("error")
    /\ HandleErrorEvent(state, watch) /\ Handled("error")
    /\ UNCHANGED <<cstate, timer, peer, sendBuf, unread, got, sent, accepted, wire, late>>

-----------------------------------------------------------------------------
(***************************************************************************)
(* The application, and the peer.                                           *)
(***************************************************************************)
MayAct == source = "connection" /\ at \in {"poll", "handle", "message", "complete"}

Packet == LET n == Len(accepted) IN <<n + 1, n + 2>>

\* Mutant: a packet is sent though others wait.
SendDirect(packet) ==
    /\ ToKernel(packet)
    /\ sendBuf' = sendBuf \o Rest(packet)
    /\ watch' = IF Rest(packet) = <<>> THEN watch ELSE {"read", "write"}
    /\ accepted' = accepted \o packet
    /\ UNCHANGED state

\* The part of both SendPacket after their checks.
Send(packet) ==
    \/ /\ sendBuf # <<>>
       /\ sendBuf' = sendBuf \o packet
       /\ accepted' = accepted \o packet
       /\ UNCHANGED <<watch, wire, unread, state>>
    \/ /\ sendBuf = <<>> /\ peer = "rst"
       /\ state' = "Error"
       /\ watch' = {"write"}
       /\ UNCHANGED <<sendBuf, wire, unread, accepted>>
    \/ /\ sendBuf = <<>> /\ peer # "rst"
       /\ ToKernel(packet)
       /\ sendBuf' = Rest(packet)
       /\ watch' = IF Rest(packet) = <<>> THEN watch ELSE {"read", "write"}
       /\ accepted' = accepted \o packet
       /\ UNCHANGED state

\* onWriteComplete runs, and HandleWriteEvent closes the connection after it.
ClosesNext == at = "complete" /\ state = "CloseWaitWrite"

Accepts ==
    /\ MayAct
    /\ Len(accepted) < 2 * MaxPackets
    /\ Send(Packet)
    /\ late' = IF ClosesNext THEN late + (Len(accepted') - Len(accepted)) ELSE late
    /\ UNCHANGED <<cstate, timer, source, fired, at, peer, got, sent, told>>

\* What does not fit the kernel is lost when the connection closes next.
SendPacket == state \in {"Connected", "CloseWaitWrite"} /\ Accepts

\* SendPacket(SliceVector) does not ask for the state.
SendSlices == Accepts

\* Mutant: the poller is not asked for the event that ends the connection.
ActiveCloseOnly ==
    /\ MayAct
    /\ state' = "ActiveClose"
    /\ UNCHANGED <<cstate, timer, source, watch, fired, at, peer, told,
                   sendBuf, unread, got, sent, accepted, wire, late>>

ActiveClose ==
    /\ MayAct
    /\ state' = "ActiveClose"
    /\ watch' = {"write"}
    /\ UNCHANGED <<cstate, timer, source, fired, at, peer, told,
                   sendBuf, unread, got, sent, accepted, wire, late>>

PeerAnswers ==
    /\ peer = "asked"
    /\ peer' \in {"open", "refused"}
    /\ UNCHANGED <<cstate, timer, source, watch, fired, at, told, conn>>

PeerSends ==
    /\ peer = "open" /\ sent < MaxGot
    /\ got' = got + 1 /\ sent' = sent + 1
    /\ UNCHANGED <<cstate, timer, source, watch, fired, at, peer, told,
                   state, sendBuf, unread, accepted, wire, late>>

PeerReads ==
    /\ unread > 0 /\ peer \in {"open", "fin"}
    /\ unread' = unread - 1
    /\ UNCHANGED <<cstate, timer, source, watch, fired, at, peer, told,
                   state, sendBuf, got, sent, accepted, wire, late>>

\* The peer shuts its side down, or resets: what it sent may be lost then.
PeerEnds ==
    /\ source # "connector"
    /\ \/ peer = "open" /\ peer' = "fin" /\ UNCHANGED got
       \/ peer \in {"open", "fin"} /\ peer' = "rst" /\ got' \in {0, got}
    /\ UNCHANGED <<cstate, timer, source, watch, fired, at, told,
                   state, sendBuf, unread, sent, accepted, wire, late>>

-----------------------------------------------------------------------------
LoopStep ==
    \/ ConnectTimer \/ ConnectorEvent \/ Poll \/ EndOfRound
    \/ BeginRead \/ ReadMessage \/ EndMessage \/ ReadEnd
    \/ HandleWriteEvent \/ EndComplete \/ ErrorEvent
Application == Connect \/ SendPacket \/ SendSlices \/ ActiveClose
Peer == PeerAnswers \/ PeerSends \/ PeerReads \/ PeerEnds

Next == LoopStep \/ Application \/ Peer
Spec == Init /\ [][Next]_vars /\ WF_vars(LoopStep) /\ WF_vars(PeerReads)

-----------------------------------------------------------------------------
\* Whatever handlers send, wherever in a round, the peer gets what SendPacket
\* accepted, in order; all of it unless the connection failed or was closed
\* from here: a peer that only shut its side down gets the rest.  Excepted is what
\* onWriteComplete sends when that rest is with the kernel: SendPacket accepts it
\* (Connection.cc:310), and HandleWriteEvent closes the connection all the same
\* (Connection.cc:265), be it sent or not.
SendsInOrder ==
    /\ IsPrefix(wire, accepted)
    /\ state \in {"Connected", "CloseWaitWrite"} => wire \o sendBuf = accepted
    /\ told["passive"] = 1 => Len(wire) >= Len(accepted) - late

\* A connection is told of once, and its end once by each of the two callbacks that
\* hear of it: onDisconnect, and the callback of the connect, which is called for
\* a connect that failed or for the end of the connection, and never for both.  So
\* the proxy, which connects again in it, has one connect under way, even if several
\* events of one round met the end.
ToldOnce ==
    /\ told["newConn"] + told["unregistered"] <= 1
    /\ told["disconnect"] <= told["newConn"]
    /\ told["disconnect"] = (IF state = "Closed" THEN 1 ELSE 0)
    /\ told["fail"] = (IF state = "Closed" \/ cstate = "failed" THEN 1 ELSE 0)

\* Whoever connects is told how it ended, unless the poller refused the new
\* connection, and the end of a connection is told of when the peer ended it
\* or the application closed it.
EndsAreTold ==
    /\ cstate # "none" => told["newConn"] + told["fail"] + told["unregistered"] > 0
    /\ state # "None" /\ (peer \in {"fin", "rst"} \/ state = "ActiveClose")
         => told["disconnect"] > 0
EndIsTold == <>[]EndsAreTold
=============================================================================
