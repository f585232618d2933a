------------------------------- MODULE LineLog -------------------------------
(***************************************************************************)
(* The log of ananas: every thread puts its lines into a buffer of its own, *)
(* found by its id under the logger's mutex; one IO thread takes the        *)
(* buffers nobody is using and writes them to the file.  LogManager::Stop   *)
(* ends the IO thread, which waits for the threads that are in a buffer;    *)
(* a line that comes after the logger's shutdown goes to the screen.        *)
(*                                                                         *)
(* A line is its thread, its number and the stamp it carries.  How long     *)
(* the IO thread sleeps, and the threshold that wakes it, are left out: it  *)
(* may look at the buffers at any time.                                    *)
(***************************************************************************)
EXTENDS Integers, Sequences, SequencesExt

CONSTANTS Threads,      \* that log
          MaxLines,     \* bound: lines of a thread
          MaxTime       \* bound: the clock, in units of a thousandth

VARIABLES
    clock,      \* system_clock: a second and a thousandth in it
    stamp,      \* by thread: the time in tmpBuffer_
    lastSecond, \* by thread: lastLogSecond_
    lastMSecond,\* by thread: lastLogMSecond_
    buffers,    \* buffers_: by thread, its lines
    inuse,      \* by thread: BufferInfo::inuse_
    carried,    \* by thread: the line it is putting into its buffer, if any
    io,         \* the IO thread: loop, last (the pass after shutdown_), drain, done
    batch,      \* the IO thread: what Update has taken and not yet written
    stopped,    \* LogManager::shutdown_
    shut,       \* Logger::shutdown_
    listed,     \* the logger is in logs_
    late,       \* by thread: the late lines its tmpBuffer_ still holds
    lines,      \* history: by thread, the lines it flushed
    file,       \* the log file
    screen,     \* what went to the screen
    abandoned   \* history: the IO thread let go of a logger that was not shut

stampVars == <<stamp, lastSecond, lastMSecond>>
ioVars == <<io, batch>>
stopVars == <<stopped, shut, listed>>
logVars == <<clock, stampVars, buffers, inuse, carried, ioVars, stopVars, lines, late,
             file, screen, abandoned>>

Never == [second |-> -1, milli |-> -1]
Second == 2     \* thousandths of a second, scaled down

Before(a, b) == a.second < b.second \/ (a.second = b.second /\ a.milli <= b.milli)

TypeOK ==
    /\ clock \in 0..MaxTime
    /\ \A t \in Threads : /\ stamp[t].second \in -1..MaxTime
                          /\ lastSecond[t] \in -1..MaxTime
                          /\ lastMSecond[t] \in -1..(Second - 1)
                          /\ inuse[t] \in BOOLEAN
                          /\ inuse[t] = (carried[t] # <<>>)
    /\ io \in {"loop", "last", "drain", "done"}
    /\ \A b \in {stopped, shut, listed, abandoned} : b \in BOOLEAN

Init ==
    /\ clock = 0
    /\ stamp = [t \in Threads |-> Never]
    /\ lastSecond = [t \in Threads |-> -1] /\ lastMSecond = [t \in Threads |-> -1]
    /\ buffers = [t \in Threads |-> <<>>]
    /\ inuse = [t \in Threads |-> FALSE]
    /\ carried = [t \in Threads |-> <<>>]
    /\ io = "loop" /\ batch = <<>>
    /\ stopped = FALSE /\ shut = FALSE /\ listed = TRUE
    /\ lines = [t \in Threads |-> <<>>]
    /\ late = [t \in Threads |-> <<>>] /\ file = <<>> /\ screen = <<>>
    /\ abandoned = FALSE

-----------------------------------------------------------------------------
(***************************************************************************)
(* A thread that logs: Flush.                                              *)
(***************************************************************************)

\* Mutant: a new second is only noted.
StampedOnce(t) ==
    LET now == [second |-> clock \div Second, milli |-> clock % Second]
    IN  [stamp |-> IF lastSecond[t] = -1 THEN now ELSE [stamp[t] EXCEPT !.milli = now.milli],
         second |-> now.second, milli |-> now.milli]

\* The time is written into the line's head, which stays from line to line: the
\* whole of it in a new second, or else the thousandths if they are not those
\* written last.
Stamped(t) ==
    LET now == [second |-> clock \div Second, milli |-> clock % Second] IN
    IF now.second # lastSecond[t]
    THEN [stamp |-> now, second |-> now.second, milli |-> lastMSecond[t]]
    ELSE IF now.milli # lastMSecond[t]
    THEN [stamp |-> [stamp[t] EXCEPT !.milli = now.milli], second |-> now.second,
          milli |-> now.milli]
    ELSE [stamp |-> stamp[t], second |-> now.second, milli |-> lastMSecond[t]]

Line(t) == [thread |-> t, n |-> Len(lines[t]) + 1, stamp |-> Stamped(t).stamp]

\* A line of a level the logger does not forbid: into the thread's buffer, which the IO
\* thread leaves alone from now on; or, after the logger's shutdown, to the screen,
\* with the late lines before it, as tmpBuffer_ is not reset then.
Flush(t) ==
    /\ carried[t] = <<>> /\ Len(lines[t]) < MaxLines
    /\ stamp' = [stamp EXCEPT ![t] = Stamped(t).stamp]
    /\ lastSecond' = [lastSecond EXCEPT ![t] = Stamped(t).second]
    /\ lastMSecond' = [lastMSecond EXCEPT ![t] = Stamped(t).milli]
    /\ lines' = [lines EXCEPT ![t] = Append(@, Line(t))]
    /\ IF shut
       THEN /\ late' = [late EXCEPT ![t] = Append(@, Line(t))]
            /\ screen' = screen \o late'[t]
            /\ UNCHANGED <<inuse, carried>>
       ELSE /\ inuse' = [inuse EXCEPT ![t] = TRUE]
            /\ carried' = [carried EXCEPT ![t] = <<Line(t)>>]
            /\ UNCHANGED <<late, screen>>
    /\ UNCHANGED <<clock, buffers, ioVars, stopVars, file, abandoned>>

\* PushData, without the mutex, and the end of use.
PushLine(t) ==
    /\ carried[t] # <<>>
    /\ buffers' = [buffers EXCEPT ![t] = @ \o carried[t]]
    /\ inuse' = [inuse EXCEPT ![t] = FALSE]
    /\ carried' = [carried EXCEPT ![t] = <<>>]
    /\ UNCHANGED <<clock, stampVars, ioVars, stopVars, lines, late, file, screen, abandoned>>

-----------------------------------------------------------------------------
(***************************************************************************)
(* The IO thread: Run and Update.                                          *)
(***************************************************************************)

Idle == {t \in Threads : ~inuse[t]}

\* The lines of some threads, in the order of the map.
LinesOf(some) ==
    LET linesOf[ts \in SUBSET some] ==
            IF ts = {} THEN <<>>
            ELSE LET t == CHOOSE t \in ts : TRUE IN buffers[t] \o linesOf[ts \ {t}]
    IN  linesOf[some]

\* Update, under the logger's mutex: the buffers nobody is in.
Take ==
    /\ batch' = LinesOf(Idle)
    /\ buffers' = [t \in Threads |-> IF t \in Idle THEN <<>> ELSE buffers[t]]

\* A round of Run: whether the manager is shut down is read first.
Round ==
    /\ io = "loop" /\ batch = <<>>
    /\ io' = IF stopped THEN "last" ELSE "loop"
    /\ Take
    /\ UNCHANGED <<clock, stampVars, inuse, carried, stopVars, lines, late, file, screen,
                   abandoned>>

\* Mutant: the logger is let go after one more pass.
DrainOnce ==
    /\ io \in {"last", "drain"} /\ batch = <<>> /\ listed
    /\ Take
    /\ io' = "drain"
    /\ listed' = FALSE
    /\ abandoned' = (abandoned \/ ~shut)
    /\ UNCHANGED <<clock, stampVars, inuse, carried, stopped, shut, lines, late, file,
                   screen>>

\* After the last round, with logsMutex_ held, the logger is updated until nobody is
\* in its buffers, and let go.
Drain ==
    /\ io \in {"last", "drain"} /\ batch = <<>> /\ listed
    /\ Take
    /\ io' = "drain"
    /\ listed' = (\E t \in Threads : inuse[t])
    /\ abandoned' = (abandoned \/ (~listed' /\ ~shut))
    /\ UNCHANGED <<clock, stampVars, inuse, carried, stopped, shut, lines, late, file,
                   screen>>

RunEnds ==
    /\ io \in {"last", "drain"} /\ batch = <<>> /\ ~listed
    /\ io' = "done"
    /\ UNCHANGED <<clock, stampVars, buffers, inuse, carried, batch, stopVars, lines, late, file,
                   screen, abandoned>>

\* _Log: the lines taken go to the file.
WriteLines ==
    /\ batch # <<>>
    /\ file' = file \o batch /\ batch' = <<>>
    /\ UNCHANGED <<clock, stampVars, buffers, inuse, carried, io, stopVars, lines, late, screen,
                   abandoned>>

-----------------------------------------------------------------------------

\* Stop: the manager's flag under its mutex; then, with logsMutex_ held, the shutdown
\* of each logger that is still listed.
Stop ==
    /\ ~stopped /\ stopped' = TRUE
    /\ UNCHANGED <<clock, stampVars, buffers, inuse, carried, ioVars, shut, listed, lines, late,
                   file, screen, abandoned>>

ShutLoggers ==
    /\ stopped /\ listed /\ ~shut /\ io # "drain"
    /\ shut' = TRUE
    /\ UNCHANGED <<clock, stampVars, buffers, inuse, carried, ioVars, stopped, listed,
                   lines, late, file, screen, abandoned>>

Tick ==
    /\ clock < MaxTime /\ clock' = clock + 1
    /\ UNCHANGED <<stampVars, buffers, inuse, carried, ioVars, stopVars, lines, late, file,
                   screen, abandoned>>

IoThread == Round \/ Drain \/ RunEnds \/ WriteLines

Next ==
    \/ \E t \in Threads : Flush(t) \/ PushLine(t)
    \/ IoThread
    \/ Stop \/ ShutLoggers \/ Tick

Spec == Init /\ [][Next]_logVars

\* The threads run.
FairSpec == /\ Spec
            /\ \A t \in Threads : WF_logVars(PushLine(t))
            /\ WF_logVars(IoThread)
            /\ WF_logVars(ShutLoggers)

-----------------------------------------------------------------------------
(***************************************************************************)
(* Properties.                                                             *)
(***************************************************************************)

Of(log, t) == SelectSeq(log, LAMBDA line : line.thread = t)

\* Each thread's lines are on their way in the order it flushed them, none lost and
\* none twice: in the file, then with the IO thread, in the buffer and with the
\* thread; those after the shutdown are on the screen.  When the IO thread is done,
\* nothing is on its way any more, unless it let go of the logger before Stop had
\* shut it.
LinesComeOut ==
    \A t \in Threads :
        /\ lines[t] = Of(file, t) \o Of(batch, t) \o buffers[t] \o carried[t] \o late[t]
        /\ ToSet(late[t]) = ToSet(Of(screen, t))
        /\ io = "done" /\ ~abandoned => buffers[t] = <<>> /\ carried[t] = <<>>

\* In the file, a thread's line is never stamped before the line before it, though its
\* thousandths may be those of an earlier line of that second.
StampsGoOn ==
    \A t \in Threads : LET own == Of(file, t) IN
        \A i, j \in 1..Len(own) : i < j => Before(own[i].stamp, own[j].stamp)

\* The IO thread ends after Stop, and does not wait for ever for a thread that is in a
\* buffer.
LogEnds == <>[](stopped => io = "done")

=============================================================================
