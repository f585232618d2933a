------------------------------ MODULE ServerLog ------------------------------
(***************************************************************************)
(* The log of the server: every thread has a Logger of its own, composes a  *)
(* line in it and puts it into the logger's AsyncBuffer in three pieces:    *)
(* level, length, text.  The log thread goes over the loggers and writes    *)
(* the lines that are there as a whole to the logger's file, which it       *)
(* changes when it might get too long.  StopLog ends it; from then on lines *)
(* go to the screen.                                                       *)
(*                                                                         *)
(* The buffer is taken as the queue that AsyncBuffer shows it to be while   *)
(* it is not overtaken; a reader sees the pieces one by one.  A line is its *)
(* logger, its number and its length in units.                             *)
(***************************************************************************)
EXTENDS Integers, Sequences, SequencesExt

CONSTANTS Loggers,      \* one to a thread
          Words,        \* lengths of what << is given
          MaxLine,      \* MAXLINE_LOG
          MaxFile,      \* DEFAULT_LOGFILESIZE
          MaxLines      \* bound: lines of a logger

VARIABLES
    pos,        \* by logger: pos_, from the prefix on
    pipe,       \* by logger: the pieces in buffer_
    pushing,    \* by logger: the pieces its thread has still to push
    seen,       \* by logger: how many pieces Update has found, 0 outside of it
    files,      \* by logger: its files, each a sequence of lines; the last is open
    screen,     \* what went to the screen
    alive,      \* LogThread: alive, or about to end, or over
    shutdown,   \* shutdown_
    lines       \* history: by logger, the lines it flushed

serverLogVars == <<pos, pipe, pushing, seen, files, screen, alive, shutdown, lines>>

Pieces == {"level", "length", "text"}

TypeOK ==
    /\ pos \in [Loggers -> 0..MaxLine]
    /\ \A l \in Loggers : /\ \A i \in 1..Len(pipe[l]) : pipe[l][i].piece \in Pieces
                          /\ Len(pushing[l]) <= 3
                          /\ seen[l] \in 0..Len(pipe[l])
    /\ alive \in {"loop", "over"} /\ shutdown \in BOOLEAN

Init ==
    /\ pos = [l \in Loggers |-> 0]
    /\ pipe = [l \in Loggers |-> <<>>] /\ pushing = [l \in Loggers |-> <<>>]
    /\ seen = [l \in Loggers |-> 0]
    /\ files = [l \in Loggers |-> <<<<>>>>]
    /\ screen = <<>>
    /\ alive = "loop" /\ shutdown = FALSE
    /\ lines = [l \in Loggers |-> <<>>]

-----------------------------------------------------------------------------
(***************************************************************************)
(* The thread of the logger.                                               *)
(***************************************************************************)

\* operator<<: what does not fit into the line is left out of it.
Put(l, word) ==
    /\ pushing[l] = <<>> /\ Len(lines[l]) < MaxLines
    /\ pos[l] + word < MaxLine
    /\ pos' = [pos EXCEPT ![l] = @ + word]
    /\ UNCHANGED <<pipe, pushing, seen, files, screen, alive, shutdown, lines>>

\* The three pieces of a line.
Record(line) == <<[piece |-> "level", line |-> line], [piece |-> "length", line |-> line],
                  [piece |-> "text", line |-> line]>>

\* Flush; an empty line is none.
Flush(l) ==
    /\ pushing[l] = <<>> /\ pos[l] > 0
    /\ LET line == [logger |-> l, n |-> Len(lines[l]) + 1, size |-> pos[l]] IN
          /\ lines' = [lines EXCEPT ![l] = Append(@, line)]
          /\ IF shutdown
             THEN screen' = Append(screen, line) /\ UNCHANGED pushing
             ELSE pushing' = [pushing EXCEPT ![l] = Record(line)] /\ UNCHANGED screen
    /\ pos' = [pos EXCEPT ![l] = 0]
    /\ UNCHANGED <<pipe, seen, files, alive, shutdown>>

PushPiece(l) ==
    /\ pushing[l] # <<>>
    /\ pipe' = [pipe EXCEPT ![l] = Append(@, Head(pushing[l]))]
    /\ pushing' = [pushing EXCEPT ![l] = Tail(@)]
    /\ UNCHANGED <<pos, seen, files, screen, alive, shutdown, lines>>

-----------------------------------------------------------------------------
(***************************************************************************)
(* The log thread.                                                         *)
(***************************************************************************)

\* Update of a logger finds what is in its buffer.
Look(l) ==
    /\ alive = "loop" /\ seen = [m \in Loggers |-> 0] /\ pipe[l] # <<>>
    /\ seen' = [seen EXCEPT ![l] = Len(pipe[l])]
    /\ UNCHANGED <<pos, pipe, pushing, files, screen, alive, shutdown, lines>>

Total(file) == FoldLeft(LAMBDA sum, line : sum + line.size, 0, file)

\* _WriteLog, with _CheckChangeFile: into a new file if a longest line might not fit.
Written(all, line) ==
    LET open == Last(all)
    IN  IF Total(open) + MaxLine > MaxFile THEN Append(all, <<line>>)
        ELSE Front(all) \o <<Append(open, line)>>

\* Mutant: a line counts as there with its length.
WholeByLength(n) == (n + 1) \div 3

\* How many lines are there as a whole in n pieces.
Whole(n) == n \div 3

\* _Log and Skip: the lines that are there as a whole.
Log(l) ==
    /\ seen[l] > 0
    /\ LET k == Whole(seen[l]) IN
          /\ files' = [files EXCEPT ![l] =
                          FoldLeft(Written, @, [i \in 1..k |-> pipe[l][3 * i - 2].line])]
          /\ pipe' = [pipe EXCEPT ![l] = SubSeq(@, 3 * k + 1, Len(@))]
    /\ seen' = [seen EXCEPT ![l] = 0]
    /\ UNCHANGED <<pos, pushing, screen, alive, shutdown, lines>>

\* StopLog: first shutdown_, then the thread's flag.  What is in the buffers is not
\* written any more.
StopLog ==
    /\ ~shutdown /\ shutdown' = TRUE
    /\ UNCHANGED <<pos, pipe, pushing, seen, files, screen, alive, lines>>

RunEnds ==
    /\ shutdown /\ alive = "loop" /\ seen = [l \in Loggers |-> 0]
    /\ alive' = "over"
    /\ UNCHANGED <<pos, pipe, pushing, seen, files, screen, shutdown, lines>>

Next ==
    \/ \E l \in Loggers : \/ \E word \in Words : Put(l, word)
                          \/ Flush(l) \/ PushPiece(l) \/ Look(l) \/ Log(l)
    \/ StopLog \/ RunEnds

Spec == Init /\ [][Next]_serverLogVars

-----------------------------------------------------------------------------
(***************************************************************************)
(* Properties.                                                             *)
(***************************************************************************)

InFiles(l) == FoldLeft(LAMBDA all, file : all \o file, <<>>, files[l])

\* Wherever the log thread looks, a line's pieces are in the buffer or its line in a
\* file, as a whole and in the order of the lines, and no file gets longer than it
\* may.
LinesAreWhole ==
    \A l \in Loggers :
        /\ LET ahead == pipe[l] \o pushing[l]
           IN  /\ Len(ahead) % 3 = 0
               /\ \A i \in 1..(Len(ahead) \div 3) :
                     SubSeq(ahead, 3 * i - 2, 3 * i) = Record(ahead[3 * i].line)
               /\ lines[l] = InFiles(l)
                             \o [i \in 1..(Len(ahead) \div 3) |-> ahead[3 * i].line]
                             \o SelectSeq(screen, LAMBDA line : line.logger = l)
        /\ \A i \in 1..Len(files[l]) : Total(files[l][i]) <= MaxFile

=============================================================================
