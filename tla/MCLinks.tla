------------------------------- MODULE MCLinks -------------------------------
(***************************************************************************)
(* Everything that speaks to a peer over the network: a replica's link to  *)
(* its master (QReplicaLink), the server's network threads, and the        *)
(* cluster's parts, the futures and the event loop the proxy is made of,   *)
(* the proxy itself, the two clients of ZooKeeper, and the migration of    *)
(* keys to another server.  One of them runs, chosen at the start; the     *)
(* others stay as they began.                                              *)
(***************************************************************************)
EXTENDS QReplicaLink

CONSTANTS ma, mb, n1, n2, s1, s2, h1,
          Room, MaxPackets, MaxGot,                   \* of EventLoop
          Nodes, SentinelSessions, SentinelFaults,    \* of Sentinel
          Clients, MaxRequests,                       \* of Proxy
          Calls, Options, MaxConns, MaxLeaves,        \* of QMigration
          ChainLast, ChainInner, ChainSched,          \* of Future
          Members, Needs,
          NetRoom, KernelSpace, NetRequests           \* of NetThreads

ASSUME PeersAssumption ==
    /\ Room \in Nat /\ SentinelSessions \in Nat /\ SentinelFaults \in Nat
    /\ MaxConns \in Nat /\ None \notin Nat
    /\ ChainLast \in Nat \ {0, 1} /\ Needs \in Nat \ {0}
    /\ ChainInner \cup ChainSched \subseteq 1 .. ChainLast - 1

TwoMasters == {ma, mb}
ThreeConns == {1, 2, 3}
TwoNodes == {n1, n2}
TwoSets == {s1, s2}
OneHost == {h1}
TwoOptions == <<{<<"replace">>}, {<<>>}>>

VARIABLE part      \* the component that runs, chosen at the start

\* A chain of futures with a timeout, and WhenN of three.
VARIABLES fProgress, fThen, fOnTimeout, fLock, fTodo, fFunctors, fInner,
          fRan, fTimedOut, fRegistered, fReady, fResults, fCollected,
          fCounted
F == INSTANCE Future WITH Last <- ChainLast, Inner <- ChainInner,
                          Sched <- ChainSched, progress <- fProgress, then <- fThen,
                          onTimeout <- fOnTimeout, lock <- fLock,
                          todo <- fTodo, functors <- fFunctors,
                          inner <- fInner, ran <- fRan,
                          timedOut <- fTimedOut, registered <- fRegistered,
                          ready <- fReady, results <- fResults,
                          collected <- fCollected, counted <- fCounted
fVars == <<fProgress, fThen, fOnTimeout, fLock, fTodo, fFunctors, fInner,
           fRan, fTimedOut, fRegistered, fReady, fResults, fCollected,
           fCounted>>
\* A connection of the proxy's event loop.
VARIABLES eCstate, eTimer, eState, eSource, eWatch, eFired, eAt, eSendBuf,
          ePeer, eUnread, eGot, eSent, eAccepted, eWire, eLate, eTold
E == INSTANCE EventLoop WITH cstate <- eCstate, timer <- eTimer,
                             state <- eState, source <- eSource,
                             watch <- eWatch, fired <- eFired, at <- eAt,
                             sendBuf <- eSendBuf, peer <- ePeer,
                             unread <- eUnread, got <- eGot, sent <- eSent,
                             accepted <- eAccepted, wire <- eWire,
                             late <- eLate, told <- eTold
eVars == <<eCstate, eTimer, eState, eSource, eWatch, eFired, eAt, eSendBuf,
           ePeer, eUnread, eGot, eSent, eAccepted, eWire, eLate, eTold>>

\* The proxy between two clients and a server.
VARIABLES pClosed, pGone, pRequests, pKnown, pLink, pWaiting, pPending, pServer,
          pHalf, pSplit, pAnswers, pCrashed, pLost, pAstray
P == INSTANCE Proxy WITH closed <- pClosed, gone <- pGone,
                         requests <- pRequests, known <- pKnown,
                         link <- pLink, waiting <- pWaiting,
                         pending <- pPending, server <- pServer,
                         half <- pHalf, split <- pSplit, answers <- pAnswers,
                         crashed <- pCrashed, lost <- pLost,
                         astray <- pAstray
pVars == <<pClosed, pGone, pRequests, pKnown, pLink, pWaiting, pPending, pServer,
           pHalf, pSplit, pAnswers, pCrashed, pLost, pAstray>>

\* Two servers of a set, and ZooKeeper.
VARIABLES sTree, sLive, sMade, sLast, sServes, sWatched, sAsked, sToNode,
          sAlive, sState, sFile, sSess, sSeq, sSiblings, sRole, sOrders,
          sFaults, sMisled
S == INSTANCE Sentinel WITH MaxSessions <- SentinelSessions,
                            MaxFaults <- SentinelFaults, tree <- sTree, live <- sLive,
                            made <- sMade, last <- sLast, serves <- sServes,
                            watched <- sWatched, asked <- sAsked,
                            toNode <- sToNode, alive <- sAlive,
                            state <- sState, file <- sFile, sess <- sSess,
                            seq <- sSeq, siblings <- sSiblings,
                            role <- sRole, orders <- sOrders,
                            faults <- sFaults, misled <- sMisled
sVars == <<sTree, sLive, sMade, sLast, sServes, sWatched, sAsked, sToNode,
           sAlive, sState, sFile, sSess, sSeq, sSiblings, sRole, sOrders,
           sFaults, sMisled>>

\* The proxy and ZooKeeper.
VARIABLES zSets, zHolders, zHosts, zLive, zMade, zServes, zWatched, zAsked,
          zToProxy, zState, zFile, zSess, zStage, zFutures, zGot, zOwner,
          zHostInfo, zExits, zExited, zFaults, zChanges
Z == INSTANCE ZkClient WITH Sets <- TwoSets, Hosts <- OneHost,
                            MaxSessions <- 2, MaxFaults <- 1,
                            MaxChanges <- 1, sets <- zSets,
                            holders <- zHolders, hosts <- zHosts,
                            live <- zLive, made <- zMade, serves <- zServes,
                            watched <- zWatched, asked <- zAsked,
                            toProxy <- zToProxy, state <- zState,
                            file <- zFile, sess <- zSess, stage <- zStage,
                            futures <- zFutures, got <- zGot,
                            owner <- zOwner, hostInfo <- zHostInfo,
                            exits <- zExits, exited <- zExited,
                            faults <- zFaults, changes <- zChanges
zVars == <<zSets, zHolders, zHosts, zLive, zMade, zServes, zWatched, zAsked,
           zToProxy, zState, zFile, zSess, zStage, zFutures, zGot, zOwner,
           zHostInfo, zExits, zExited, zFaults, zChanges>>

\* Two calls of MIGRATE to one server.
VARIABLES mItems, mAsked, mLate, mClients, mConn, mInvalid, mKnown, mPending,
          mToDest, mAnswers, mReadyRsp, mSource, mDest, mRefused, mTold,
          mMisled, mCrashed
M == INSTANCE QMigration WITH items <- mItems,
                              asked <- mAsked, late <- mLate,
                              clients <- mClients, conn <- mConn,
                              invalid <- mInvalid, known <- mKnown,
                              pending <- mPending, toDest <- mToDest,
                              answers <- mAnswers, readyRsp <- mReadyRsp,
                              source <- mSource, dest <- mDest,
                              refused <- mRefused, told <- mTold,
                              misled <- mMisled, crashed <- mCrashed
mVars == <<mItems, mAsked, mLate, mClients, mConn, mInvalid, mKnown, mPending,
           mToDest, mAnswers, mReadyRsp, mSource, mDest, mRefused, mTold,
           mMisled, mCrashed>>

\* A connection of the server between the receiving, the sending and the logic thread.
VARIABLES nAsked, nReceived, nHandled, nSent, nGot, nPeer, nInvalid, nTold,
          nRecvs, nSends, nMain, nReads, nWrites, nEpollOut, nTried,
          nConnects, nDisconnects
N == INSTANCE NetThreads WITH Room <- NetRoom, Space <- KernelSpace,
                              MaxRequests <- NetRequests,
                              asked <- nAsked, received <- nReceived,
                              handled <- nHandled, sent <- nSent,
                              got <- nGot, peer <- nPeer,
                              invalid <- nInvalid, told <- nTold,
                              recvs <- nRecvs, sends <- nSends,
                              main <- nMain, reads <- nReads,
                              writes <- nWrites, epollOut <- nEpollOut,
                              tried <- nTried, connects <- nConnects,
                              disconnects <- nDisconnects
nVars == <<nAsked, nReceived, nHandled, nSent, nGot, nPeer, nInvalid, nTold,
           nRecvs, nSends, nMain, nReads, nWrites, nEpollOut, nTried,
           nConnects, nDisconnects>>

all == <<part, vars, fVars, eVars, pVars, sVars, zVars, mVars, nVars>>

Begins ==
    /\ part \in {"link", "chain", "collector", "loop", "proxy", "sentinel", "zk",
                 "migration", "net"}
    /\ Init
    /\ F!Init
    /\ E!Init
    /\ P!Init
    /\ S!Init
    /\ Z!Init /\ (part = "zk" \/ zSets = {})
    /\ M!Init
    /\ N!Init

\* A connect takes the first connection that is free: they are all alike.
TakesTheFirst ==
    \A i, j \in Conns : conn[i].phase = "free" /\ conn'[i].phase # "free" /\ j < i
                         => conn[j].phase # "free"

\* Bound: after the first fault, a server that crashes while no SLAVEOF is on its
\* way.
SecondFaultIsCrash ==
    sFaults = 1 /\ sFaults' = 2 => sOrders = {} /\ \E n \in Nodes : S!Crash(n)

Goes ==
    \/ /\ part = "link" /\ Next /\ TakesTheFirst
       /\ UNCHANGED <<part, fVars, eVars, pVars, sVars, zVars, mVars, nVars>>
    \/ /\ part = "chain" /\ F!ChainNext
       /\ UNCHANGED <<part, vars, eVars, pVars, sVars, zVars, mVars, nVars>>
    \/ /\ part = "collector" /\ F!CollectorNext
       /\ UNCHANGED <<part, vars, eVars, pVars, sVars, zVars, mVars, nVars>>
    \/ /\ part = "loop" /\ E!Next
       /\ UNCHANGED <<part, vars, fVars, pVars, sVars, zVars, mVars, nVars>>
    \/ /\ part = "proxy" /\ P!Next
       /\ UNCHANGED <<part, vars, fVars, eVars, sVars, zVars, mVars, nVars>>
    \/ /\ part = "sentinel" /\ S!Next /\ SecondFaultIsCrash
       /\ UNCHANGED <<part, vars, fVars, eVars, pVars, zVars, mVars, nVars>>
    \/ /\ part = "zk" /\ Z!Next
       /\ UNCHANGED <<part, vars, fVars, eVars, pVars, sVars, mVars, nVars>>
    \/ /\ part = "migration" /\ M!Next
       /\ UNCHANGED <<part, vars, fVars, eVars, pVars, sVars, zVars, nVars>>
    \/ /\ part = "net" /\ N!Next
       /\ UNCHANGED <<part, vars, fVars, eVars, pVars, sVars, zVars, mVars>>

\* The fairness of the components' own specifications, each for its part.
Fair ==
    /\ Begins /\ [][Goes]_all
    /\ WF_vars(part = "link" /\ CronBegin) /\ WF_vars(part = "link" /\ CronEnd)
    /\ \A i \in Conns :
         /\ WF_vars(part = "link" /\ Connected(i))
         /\ WF_vars(part = "link" /\ OnConnect(i))
         /\ WF_vars(part = "link" /\ DoMsgParse(i))
         /\ WF_vars(part = "link" /\ MasterSendsRdb(i))
         /\ WF_vars(part = "link" /\ HandlePacket(i))
    /\ WF_fVars(part = "chain" /\ F!Working)
    /\ WF_eVars(part = "loop" /\ E!LoopStep) /\ WF_eVars(part = "loop" /\ E!PeerReads)
    /\ WF_pVars(part = "proxy" /\ P!Answering)
    /\ \A n \in Nodes : WF_sVars(part = "sentinel" /\ S!Step(n))
    /\ \A s \in 1 .. SentinelSessions : WF_sVars(part = "sentinel" /\ S!ExpireUnused(s))
    /\ WF_zVars(part = "zk" /\ Z!Working)
    /\ WF_mVars(part = "migration" /\ M!Timer)
    /\ WF_nVars(part = "net" /\ N!RecvThread)
    /\ WF_nVars(part = "net" /\ N!SendThread)
    /\ WF_nVars(part = "net" /\ N!Main) /\ WF_nVars(part = "net" /\ N!PeerReads)
    /\ SF_nVars(part = "net" /\ N!OnWritable)

\* Every component's variables keep their types.
AllTypeOK == TypeOK /\ S!TypeOK /\ Z!TypeOK /\ M!TypeOK /\ N!TypeOK

\* A future's callback runs once, and its timeout only without it, and each request
\* of a client of the proxy has the answer to it, which is what the callback of its
\* future gives.  A client of MIGRATE has the answer to its call, and a key is deleted
\* only when the destination has answered for it.  What each excepts is said with it.
AnswersAreOwn ==
    /\ F!NotBoth /\ F!CollectedAreTheFirst /\ P!AnswersAreOwn
    /\ M!KeysAreSentFirst /\ M!ToldOnce

\* A connection's packets reach the peer in order, but for what onWriteComplete sends
\* at its end, and its end is told of once by each of the two callbacks that hear of it.
SendsInOrder == E!SendsInOrder /\ E!ToldOnce

MasterIsLowest == S!MasterIsLowest

\* The end of a connection of the server is told of once, whichever threads find it.
EndsOnce == N!EndsOnce

\* Futures are completed, the ends of connections told of, requests answered, by the
\* proxy and by the server's threads, a set gets a master, the proxy learns of the
\* servers, and MIGRATE answers.
PeersGoOn ==
    <>[](/\ part = "chain" => F!OneHasRun
         /\ E!EndsAreTold
         /\ P!AllAnswered
         /\ part = "sentinel" => S!LowestLeads
         /\ part = "zk" => zExited \/ Z!KnowsTheServers
         /\ M!AllTold
         /\ N!AllIsThrough)
=============================================================================
