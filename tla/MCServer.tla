------------------------------ MODULE MCServer -------------------------------
(***************************************************************************)
(* What the server and the cluster's programs run on: the thread pool, the *)
(* timers, the buffers between threads, the mapped file and the two logs;  *)
(* and QReplication's own savers, for replicas that ask by SYNC.  One of   *)
(* them runs, chosen at the start; the others stay as they began.          *)
(***************************************************************************)
EXTENDS QReplication

CONSTANTS t1, t2, s1, s2

TwoTimers == {t1, t2}
TwoSlaves == {s1, s2}
TwoBytes == {"a", "b"}
Ever == -1     \* a timer without an end

VARIABLE part      \* the component that runs, chosen at the start

\* The thread pool: two rounds, one idle worker, two in a limited round.
VARIABLES hTasks, hMade, hWorker, hWoken, hCurrent, hStops, hShutdown,
          hRounds, hDone
H == INSTANCE ThreadPool WITH Threads <- 1 .. 3, MaxTasks <- 4,
                              MaxIdleThreads <- 1, MaxThreads <- 2,
                              MaxRounds <- 2, tasks <- hTasks, made <- hMade,
                              worker <- hWorker, woken <- hWoken,
                              current <- hCurrent, stops <- hStops,
                              shutdown <- hShutdown, rounds <- hRounds,
                              done <- hDone
hVars == <<hTasks, hMade, hWorker, hWoken, hCurrent, hStops, hShutdown,
           hRounds, hDone>>

\* The wheels of the server's timers, of 2 slots each.
VARIABLES wNow, wLast, wUpdating, wIndex, wPlace, wTimer, wExcused
W == INSTANCE TimerWheel WITH Timers <- TwoTimers, Bits1 <- 1, Bits <- 1,
                              Intervals <- {2, 4}, MaxTime <- 5, now <- wNow,
                              last <- wLast, updating <- wUpdating,
                              index <- wIndex, place <- wPlace,
                              timer <- wTimer, excused <- wExcused
wVars == <<wNow, wLast, wUpdating, wIndex, wPlace, wTimer, wExcused>>

\* The event loop's map of timers.
VARIABLES mClock, mTimers, mFirst, mInterval, mCount, mNow, mIt, mStart,
          mFired, mCancelled
M == INSTANCE TimerMap WITH Timers <- TwoTimers, Durations <- 0 .. 2,
                            Counts <- {1, 2, Ever}, MaxTime <- 3,
                            clock <- mClock, timers <- mTimers,
                            first <- mFirst, interval <- mInterval,
                            count <- mCount, now <- mNow, it <- mIt,
                            start <- mStart, fired <- mFired,
                            cancelled <- mCancelled
mVars == <<mClock, mTimers, mFirst, mInterval, mCount, mNow, mIt, mStart,
           mFired, mCancelled>>

\* The ring between two threads.
VARIABLES bMaxSize, bReadPos, bWritePos, bCells, bWriter, bReader, bGave,
          bGot, bAsserted
B == INSTANCE RingBuffer WITH Sizes <- {2, 3, 4}, Bytes <- TwoBytes,
                              maxSize <- bMaxSize, readPos <- bReadPos,
                              writePos <- bWritePos, cells <- bCells,
                              writer <- bWriter, reader <- bReader,
                              gave <- bGave, got <- bGot,
                              asserted <- bAsserted
bVars == <<bMaxSize, bReadPos, bWritePos, bCells, bWriter, bReader, bGave,
           bGot, bAsserted>>

\* The buffers that grow.
VARIABLES gClass, gMemory, gReadPos, gWritePos, gGave, gGot, gAsserted
G == INSTANCE GrowingBuffer WITH Bytes <- TwoBytes, DefaultSize <- 2,
                                 MaxPiece <- 3, MaxHeld <- 4,
                                 class <- gClass, memory <- gMemory,
                                 readPos <- gReadPos, writePos <- gWritePos,
                                 gave <- gGave, got <- gGot,
                                 asserted <- gAsserted
gVars == <<gClass, gMemory, gReadPos, gWritePos, gGave, gGot, gAsserted>>

\* The file the append-only file and the logs are written to.
VARIABLES oAppend, oDisk, oOpened, oOffset, oSize, oWritten, oCrashed,
          oBlank, oCrashes
O == INSTANCE MappedFile WITH Bytes <- TwoBytes, DefaultSize <- 2,
                              MaxPiece <- 2, MaxBytes <- 4, MaxCrashes <- 2,
                              append <- oAppend, disk <- oDisk,
                              opened <- oOpened, offset <- oOffset,
                              size <- oSize, written <- oWritten,
                              crashed <- oCrashed, blank <- oBlank,
                              crashes <- oCrashes
oVars == <<oAppend, oDisk, oOpened, oOffset, oSize, oWritten, oCrashed,
           oBlank, oCrashes>>

\* The log of the cluster's programs.
VARIABLES lClock, lStamp, lLastSecond, lLastMSecond, lBuffers, lInuse,
          lCarried, lIo, lBatch, lStopped, lShut, lListed, lLate, lLines,
          lFile, lScreen, lAbandoned
L == INSTANCE LineLog WITH Threads <- {"t1", "t2"}, MaxLines <- 2,
                           MaxTime <- 2, clock <- lClock, stamp <- lStamp,
                           lastSecond <- lLastSecond,
                           lastMSecond <- lLastMSecond, buffers <- lBuffers,
                           inuse <- lInuse, carried <- lCarried, io <- lIo,
                           batch <- lBatch, stopped <- lStopped,
                           shut <- lShut, listed <- lListed, late <- lLate,
                           lines <- lLines, file <- lFile, screen <- lScreen,
                           abandoned <- lAbandoned
lVars == <<lClock, lStamp, lLastSecond, lLastMSecond, lBuffers, lInuse,
           lCarried, lIo, lBatch, lStopped, lShut, lListed, lLate, lLines,
           lFile, lScreen, lAbandoned>>

\* The server's log.
VARIABLES kPos, kPipe, kPushing, kSeen, kFiles, kScreen, kAlive, kShutdown,
          kLines
K == INSTANCE ServerLog WITH Loggers <- {"l1", "l2"}, Words <- {1, 2},
                             MaxLine <- 3, MaxFile <- 4, MaxLines <- 2,
                             pos <- kPos, pipe <- kPipe, pushing <- kPushing,
                             seen <- kSeen, files <- kFiles,
                             screen <- kScreen, alive <- kAlive,
                             shutdown <- kShutdown, lines <- kLines
kVars == <<kPos, kPipe, kPushing, kSeen, kFiles, kScreen, kAlive, kShutdown,
           kLines>>

all == <<part, vars, hVars, wVars, mVars, bVars, gVars, oVars, lVars,
         kVars>>

Begins ==
    /\ part \in {"pool", "wheel", "map", "ring", "buffer", "file",
                 "linelog", "log", "savers"}
    /\ Init /\ (part = "savers" \/ rdb = None)
    /\ H!Init
    /\ W!Init
    /\ M!Init
    /\ B!Init /\ (part = "ring" \/ bMaxSize = 2)
    /\ G!Init /\ (part = "buffer" \/ gClass = "vector")
    /\ O!Init /\ (part = "file" \/ oAppend)
    /\ L!Init
    /\ K!Init

Goes ==
    \/ /\ part = "pool" /\ H!Next
       /\ UNCHANGED <<part, vars, wVars, mVars, bVars, gVars, oVars,
                       lVars, kVars>>
    \/ /\ part = "wheel" /\ W!Next
       /\ UNCHANGED <<part, vars, hVars, mVars, bVars, gVars, oVars,
                       lVars, kVars>>
    \/ /\ part = "map" /\ M!Next
       /\ UNCHANGED <<part, vars, hVars, wVars, bVars, gVars, oVars,
                       lVars, kVars>>
    \/ /\ part = "ring" /\ B!Next
       /\ UNCHANGED <<part, vars, hVars, wVars, mVars, gVars, oVars,
                       lVars, kVars>>
    \/ /\ part = "buffer" /\ G!Next
       /\ UNCHANGED <<part, vars, hVars, wVars, mVars, bVars, oVars,
                       lVars, kVars>>
    \/ /\ part = "file" /\ O!Next
       /\ UNCHANGED <<part, vars, hVars, wVars, mVars, bVars, gVars,
                       lVars, kVars>>
    \/ /\ part = "linelog" /\ L!Next
       /\ UNCHANGED <<part, vars, hVars, wVars, mVars, bVars, gVars,
                       oVars, kVars>>
    \/ /\ part = "log" /\ K!Next
       /\ UNCHANGED <<part, vars, hVars, wVars, mVars, bVars, gVars,
                       oVars, lVars>>
    \/ /\ part = "savers" /\ Next
       /\ UNCHANGED <<part, hVars, wVars, mVars, bVars, gVars, oVars,
                       lVars, kVars>>

\* The fairness of the components' own specifications, each for its part.
Fair ==
    /\ Begins /\ [][Goes]_all
    /\ WF_hVars(part = "pool" /\ H!Running)
    /\ \A t \in {"t1", "t2"} : WF_lVars(part = "linelog" /\ L!PushLine(t))
    /\ WF_lVars(part = "linelog" /\ L!IoThread)
    /\ WF_lVars(part = "linelog" /\ L!ShutLoggers)
    /\ WF_vars(part = "savers" /\ \E p \in children : ChildExit(p))
    /\ WF_vars(part = "savers" /\ \E p \in children : CheckChild(p))

\* Every component's variables keep their types.
AllTypeOK ==
    /\ H!TypeOK /\ W!TypeOK /\ M!TypeOK /\ B!TypeOK /\ G!TypeOK
    /\ O!TypeOK /\ L!TypeOK /\ K!TypeOK

\* Timers are called in time, in their order, and none is left behind.
TimersAreOnTime == W!OnTime /\ []W!NoneIsLeft /\ M!FiresInTurn /\ M!NoneIsLeft

\* What goes through a buffer comes out in its order and once: both implement Fifo.
BuffersAreFifos ==
    B!IsAFifo /\ G!IsAFifo /\ []B!AssertsHold /\ []G!AssertsHold

\* What is logged is in the file, whole, in order and once, and so is what is written
\* to a mapped file.
LogsAreWhole == L!LinesComeOut /\ L!StampsGoOn /\ K!LinesAreWhole /\ O!IsTheText

\* Tasks are run, and the threads of the pool and of the log end.
ThreadsGoOn ==
    <>[](/\ H!NothingIsLeft
         /\ lStopped => lIo = "done")
=============================================================================
