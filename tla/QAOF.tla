-------------------------------- MODULE QAOF --------------------------------
(***************************************************************************)
(* The append-only file: SaveCommand on the logic thread, the AOF thread    *)
(* that writes the file, BGREWRITEAOF and the end of the rewrite, a crash   *)
(* and the load at the next start.                                         *)
(*                                                                         *)
(* A command is written to the buffer in pieces: a head, and a body of one  *)
(* byte or more; SELECT, which goes before it when the database changes, is *)
(* a byte.  Every command writes a key of its own, so that a rewritten file *)
(* is known by how many commands it stands for.                            *)
(*                                                                         *)
(* The file is kept as what QAOFLoader makes of it.  A crash is of the      *)
(* process: what was written to the mapped file stays.                      *)
(*                                                                         *)
(* The buffer between the threads is AsyncBuffer; the controller's own      *)
(* buffer is never written and read at the same time.                      *)
(***************************************************************************)
EXTENDS AsyncBuffer

CONSTANTS Dbs,          \* numbers of databases
          Sizes,        \* lengths of a body
          MaxWrites,    \* bound: commands
          MaxRewrites,  \* bound: rewrites
          MaxCrashes    \* bound: crashes

\* A head tells how long the body is, as the array and bulk lengths do.
ByteSet == [kind : {"select"}, n : Dbs]
             \cup [kind : {"head"}, n : 1..MaxWrites, size : Sizes]
             \cup [kind : {"body"}, n : 1..MaxWrites]
Command == [db : Dbs]

ASSUME DbsAssumption == Dbs \subseteq Nat /\ 0 \in Dbs
ASSUME SizesAssumption == Sizes \subseteq Nat \ {0}
ASSUME BytesAssumption == Bytes = ByteSet
ASSUME BoundsAssumption == {MaxWrites, MaxRewrites, MaxCrashes} \subseteq Nat

VARIABLES
    executed,   \* the write commands executed
    writing,    \* pieces that SaveCommand has still to write
    lastDb,     \* lastDb_, -1 at first
    early,      \* aofBuffer_: its ring and its backup buffer
    thread,     \* the AOF thread: none, drain, loop or done
    alive,      \* AOFThread::alive_
    rewrite,    \* the rewriting child's data, or none
    file,       \* the append-only file
    up,         \* the server runs
    used,       \* the bounds' counters
    gap,        \* history: a rewrite failed after Stop had dropped bytes
    dropped,    \* history: bytes were dropped by the Stop of this rewrite
    misplaced,  \* history: a rewritten file ends in another database than lastDb_,
                \* and no SELECT is to come
    disordered, \* history: some buffer was overtaken
    apart       \* history: the server started from the RDB file, and the file is
                \* not rewritten yet

logicVars == <<executed, writing, lastDb>>
history == <<gap, dropped, misplaced, disordered, apart>>
vars == <<bufferVars, logicVars, early, thread, alive, rewrite, file, up, used, history>>

\* count commands, after which database db is selected; from: lastDb_ at the fork.
Image == [count : 0..MaxWrites, db : Dbs, from : Dbs \cup {-1}]
NoImage == [count |-> 0, db |-> 0, from |-> -1]
NoRewrite == "none"

\* A file as loaded: it begins with the image of the first count commands; then
\* come the commands cmds, and one that misses bytes.  db is selected.
File == [count : 0..MaxWrites, db : Dbs, cmds : Seq([n : 1..MaxWrites, db : Dbs]),
         cmd : 0..MaxWrites, missing : Nat, bad : BOOLEAN]
FileOf(image) == [count |-> image.count, db |-> image.db, cmds |-> <<>>,
                  cmd |-> 0, missing |-> 0, bad |-> FALSE]

TypeOK ==
    /\ BufferTypeOK
    /\ executed \in Seq(Command) /\ Len(executed) <= MaxWrites
    /\ writing \in Seq(Seq(Bytes))
    /\ lastDb \in Dbs \cup {-1}
    /\ early \in [ring : Seq(Bytes), back : Seq(Bytes)]
    /\ thread \in {"none", "drain", "loop", "done"}
    /\ alive \in BOOLEAN
    /\ rewrite \in {[phase |-> NoRewrite, image |-> NoImage]}
                     \cup [phase : {"stopping", "running"}, image : Image]
    /\ file \in File
    /\ up \in BOOLEAN
    /\ used \in [rewrites : 0..MaxRewrites, crashes : 0..MaxCrashes]
    /\ \A h \in {gap, dropped, misplaced, disordered, apart} : h \in BOOLEAN
    /\ alive => thread \in {"drain", "loop"}

NothingRewritten == [phase |-> NoRewrite, image |-> NoImage]
Nothing == [ring |-> <<>>, back |-> <<>>]

Init ==
    /\ NewBuffer
    /\ executed = <<>> /\ writing = <<>> /\ lastDb = -1
    /\ early = Nothing
    /\ thread = "drain" /\ alive = TRUE
    /\ rewrite = NothingRewritten
    /\ file = FileOf(NoImage)
    /\ up = TRUE
    /\ used = [rewrites |-> 0, crashes |-> 0]
    /\ gap = FALSE /\ dropped = FALSE /\ misplaced = FALSE /\ disordered = FALSE
    /\ apart = FALSE

\* The logic thread is between two handlers.
LogicThread == up /\ writing = <<>> /\ rewrite.phase # "stopping"

-----------------------------------------------------------------------------
(***************************************************************************)
(* Propogate and SaveCommand.                                              *)
(***************************************************************************)

Select(d) == IF d = lastDb THEN <<>> ELSE <<<<[kind |-> "select", n |-> d]>>>>

Pieces(d, size) ==
    LET id == Len(executed) + 1
    IN  Select(d) \o <<<<[kind |-> "head", n |-> id, size |-> size]>>,
                       [i \in 1..size |-> [kind |-> "body", n |-> id]]>>

\* A write to aofBuffer_, which nobody reads now.
WriteEarly(b, s) ==
    IF b.back # <<>> \/ Len(b.ring) + Len(s) > Capacity
    THEN [b EXCEPT !.back = @ \o s]
    ELSE [b EXCEPT !.ring = @ \o s]

\* The pieces are written one after the other.
WriteAllEarly(b, pieces) ==
    LET upTo[n \in 0..Len(pieces)] ==
          IF n = 0 THEN b ELSE WriteEarly(upTo[n - 1], pieces[n])
    IN  upTo[Len(pieces)]

SaveCommand(d, size) ==
    /\ LogicThread /\ Len(executed) < MaxWrites
    /\ executed' = Append(executed, [db |-> d])
    /\ lastDb' = d
    /\ IF alive
       THEN writing' = Pieces(d, size) /\ UNCHANGED early
       ELSE early' = WriteAllEarly(early, Pieces(d, size)) /\ UNCHANGED writing
    /\ UNCHANGED <<bufferVars, thread, alive, rewrite, file, up, used, history>>

\* The pieces for the AOF thread's buffer.
WritePiece ==
    /\ up /\ writing # <<>>
    /\ \/ WriteRing(Head(writing)) /\ writing' = Tail(writing)
       \/ LockBack(Head(writing)) /\ UNCHANGED writing
       \/ PushBack /\ writing' = Tail(writing)
    /\ UNCHANGED <<executed, lastDb, early, thread, alive, rewrite, file, up, used, history>>

-----------------------------------------------------------------------------
(***************************************************************************)
(* The AOF thread: Run and Flush.                                          *)
(***************************************************************************)

\* The parser after one more byte.  It wants a head or SELECT, or bytes of a body.
ParseByte(f, b) ==
    IF f.bad THEN f
    ELSE IF f.missing = 0
    THEN CASE b.kind = "select" -> [f EXCEPT !.db = b.n]
           [] b.kind = "head" -> [f EXCEPT !.cmd = b.n, !.missing = b.size]
           [] OTHER -> [f EXCEPT !.bad = TRUE]
    ELSE IF b.kind # "body" \/ b.n # f.cmd THEN [f EXCEPT !.bad = TRUE]
    ELSE [f EXCEPT !.missing = @ - 1,
                   !.cmds = IF f.missing = 1 THEN Append(@, [n |-> f.cmd, db |-> f.db]) ELSE @]

After(f, s) ==
    LET upTo[n \in 0..Len(s)] == IF n = 0 THEN f ELSE ParseByte(upTo[n - 1], s[n])
    IN  upTo[Len(s)]

Logged(s) == file' = After(file, s)

\* QAOFLoader::Load gives no commands at all if the last one is not whole.
Loads == ~file.bad /\ file.missing = 0

\* The commands the file stands for.
Recovered == file.count + Len(file.cmds)

\* Mutant: the controller's buffer is not looked at.
DrainNothing ==
    /\ up /\ thread = "drain"
    /\ thread' = "loop"
    /\ UNCHANGED <<early, file, bufferVars, logicVars, alive, rewrite, up, used, history>>

\* First aofBuffer_, also when the thread has been told to stop.
Drain ==
    /\ up /\ thread = "drain"
    /\ \/ /\ early.ring # <<>>
          /\ Logged(early.ring) /\ early' = [early EXCEPT !.ring = <<>>]
          /\ UNCHANGED thread
       \/ /\ early.ring = <<>> /\ early.back # <<>>
          /\ Logged(early.back) /\ early' = [early EXCEPT !.back = <<>>]
          /\ UNCHANGED thread
       \/ early = Nothing /\ thread' = "loop" /\ UNCHANGED <<early, file>>
    /\ UNCHANGED <<bufferVars, logicVars, alive, rewrite, up, used, history>>

\* Flush, as long as the thread is alive: the data are written before Skip.
Flush ==
    /\ up /\ thread = "loop"
    /\ \/ alive /\ Look /\ UNCHANGED file
       \/ FetchBack /\ UNCHANGED file
       \/ FetchNothing /\ UNCHANGED file
       \/ Skip(seen) /\ Logged(SubSeq(Source, 1, seen))
    /\ disordered' = (disordered \/ overtaken')
    /\ UNCHANGED <<logicVars, early, thread, alive, rewrite, up, used, gap, dropped,
                   misplaced, apart>>

\* The loop ends: what is in the buffer is not written any more.
RunEnds ==
    /\ up /\ thread = "loop" /\ ~alive /\ reader = "idle"
    /\ thread' = "done"
    /\ UNCHANGED <<bufferVars, logicVars, early, alive, rewrite, file, up, used, history>>

-----------------------------------------------------------------------------
(***************************************************************************)
(* Rewrite.                                                                *)
(***************************************************************************)

\* RewriteProcess selects each database that has keys, the last one last.
LastWithKeys ==
    LET dbs == {executed[i].db : i \in DOMAIN executed}
    IN  IF dbs = {} THEN 0 ELSE CHOOSE d \in dbs : \A e \in dbs : e <= d

\* BGREWRITEAOF forks, then tells the AOF thread to stop, and waits for it.
BgRewriteAof ==
    /\ LogicThread /\ rewrite.phase = NoRewrite
    /\ used.rewrites < MaxRewrites
    /\ used' = [used EXCEPT !.rewrites = @ + 1]
    /\ rewrite' = [phase |-> "stopping",
                   image |-> [count |-> Len(executed), db |-> LastWithKeys, from |-> lastDb]]
    /\ alive' = FALSE
    /\ UNCHANGED <<bufferVars, logicVars, early, thread, file, up, history>>

\* Join, and the thread is dropped with its buffer.
StopEnds ==
    /\ up /\ rewrite.phase = "stopping" /\ thread = "done"
    /\ rewrite' = [rewrite EXCEPT !.phase = "running"]
    /\ thread' = "none"
    /\ dropped' = (tmp \o ring \o back # <<>>)
    /\ ring' = <<>> /\ back' = <<>> /\ backBytes' = 0 /\ tmp' = <<>>
    /\ locked' = <<>> /\ reader' = "idle" /\ seen' = 0
    /\ written' = <<>> /\ taken' = <<>> /\ overtaken' = FALSE
    /\ UNCHANGED <<logicVars, early, alive, file, up, used, gap, misplaced, disordered,
                   apart>>

\* The file's end.
Finished(ok) ==
    /\ LogicThread /\ rewrite.phase = "running"
    /\ rewrite' = NothingRewritten
    /\ IF ok
       THEN /\ file' = FileOf(rewrite.image)
            /\ gap' = FALSE
            /\ misplaced' = (rewrite.image.from # -1 /\ rewrite.image.db # rewrite.image.from)
            /\ apart' = FALSE
            /\ UNCHANGED disordered
       ELSE /\ gap' = (gap \/ dropped)
            /\ UNCHANGED <<file, misplaced, disordered, apart>>
    /\ dropped' = FALSE
    /\ UNCHANGED <<bufferVars, logicVars, early, up, used>>

\* Mutant: only a rewrite that went well starts the thread again.
RewriteDoneStartsIfOk(ok) ==
    /\ Finished(ok)
    /\ IF ok THEN thread' = "drain" /\ alive' = TRUE ELSE UNCHANGED <<thread, alive>>

\* Mutant: the file is renamed whatever the child's exit.
RewriteDoneRenames(ok) ==
    /\ LogicThread /\ rewrite.phase = "running"
    /\ rewrite' = NothingRewritten
    /\ file' = FileOf(IF ok THEN rewrite.image ELSE NoImage)
    /\ thread' = "drain" /\ alive' = TRUE
    /\ UNCHANGED <<bufferVars, logicVars, early, up, used, history>>

\* RewriteDoneHandler: the child's exit, seen by CheckChild; rename or unlink.
RewriteDone(ok) ==
    /\ Finished(ok)
    /\ thread' = "drain" /\ alive' = TRUE

-----------------------------------------------------------------------------
(***************************************************************************)
(* A crash, and the next start.                                            *)
(***************************************************************************)

Crash ==
    /\ up /\ used.crashes < MaxCrashes
    /\ used' = [used EXCEPT !.crashes = @ + 1]
    /\ up' = FALSE
    /\ UNCHANGED <<bufferVars, logicVars, early, thread, alive, rewrite, file, history>>

Sound == ~gap /\ ~misplaced /\ ~disordered /\ ~apart

\* A new process: what was in memory is gone.
Started ==
    /\ up' = TRUE
    /\ writing' = <<>> /\ lastDb' = -1
    /\ early' = Nothing
    /\ thread' = "drain" /\ alive' = TRUE
    /\ rewrite' = NothingRewritten
    /\ ring' = <<>> /\ back' = <<>> /\ backBytes' = 0 /\ tmp' = <<>>
    /\ locked' = <<>> /\ reader' = "idle" /\ seen' = 0
    /\ written' = <<>> /\ taken' = <<>> /\ overtaken' = FALSE
    /\ gap' = FALSE /\ dropped' = FALSE /\ misplaced' = FALSE /\ disordered' = FALSE
    /\ UNCHANGED used

\* The commands of the file, and the file with these numbered as the new process knows
\* them.
Replayed ==
    [i \in 1..Recovered |->
        [db |-> IF i <= file.count THEN executed[i].db ELSE file.cmds[i - file.count].db]]
Renumbered ==
    [file EXCEPT !.cmds = [i \in 1..Len(file.cmds) |->
                              [n |-> file.count + i, db |-> file.cmds[i].db]]]

\* The commands of a file that loads are executed, whatever it has gone through, and are
\* the data then.  Bound: no more than MaxWrites.
LoadAof ==
    /\ Loads /\ Recovered <= MaxWrites
    /\ executed' = Replayed
    /\ file' = Renumbered
    /\ apart' = FALSE

\* A file that is empty or whose last command is not whole is not loaded, but the RDB
\* file, which has the data of some time, or there is none: any commands here.  The file
\* is kept, and as what is written behind a part of a command cannot be parsed, nothing
\* of it is read any more.  (SELECT alone loads, which is not told from an empty file.)
LoadRdb ==
    /\ ~Loads \/ Recovered = 0
    /\ \E n \in 0..MaxWrites : executed' \in [1..n -> Command]
    /\ file' = [FileOf(NoImage) EXCEPT !.bad = ~Loads]
    /\ apart' = (~Loads \/ executed' # <<>>)

\* LoadDbFromDisk
Restart ==
    /\ ~up
    /\ Started
    /\ LoadAof \/ LoadRdb

Next ==
    \/ \E d \in Dbs, size \in Sizes : SaveCommand(d, size)
    \/ WritePiece
    \/ Drain \/ Flush \/ RunEnds
    \/ BgRewriteAof \/ StopEnds
    \/ \E ok \in BOOLEAN : RewriteDone(ok)
    \/ Crash \/ Restart

Spec == Init /\ [][Next]_vars

\* The logic thread and the AOF thread run; a rewriting child ends.
AofThread == Drain \/ Flush \/ RunEnds
LogicGoesOn == WritePiece \/ StopEnds \/ \E ok \in BOOLEAN : RewriteDone(ok)

FairSpec == Spec /\ WF_vars(AofThread) /\ WF_vars(LogicGoesOn)

-----------------------------------------------------------------------------
(***************************************************************************)
(* Properties.                                                             *)
(***************************************************************************)

\* At any moment the file stands for the first commands executed, each in its
\* database, but for a last one that is not whole.  Four ways lead out of this: a
\* buffer that was overtaken, a rewrite that fails after Stop dropped bytes, a
\* rewritten file that ends in another database than lastDb_, and a start from the RDB
\* file, since the last command of the file is not whole or the file is empty: the
\* commands of the file are lost, and the new ones go behind them, until a rewrite.
FileIsAPrefix ==
    Sound => /\ ~file.bad
             /\ \A i \in DOMAIN file.cmds :
                   LET n == file.count + i
                   IN  file.cmds[i] = [n |-> n, db |-> executed[n].db]

\* The server, its file and its crashes keep a log: no step makes the file stand for
\* less, a rewritten file replaces it only with all that it held, and after a crash
\* the server has the commands the file stood for if the last one is whole, and starts
\* from the RDB file, whatever that has, if it is not.
Log == INSTANCE DurableLog WITH log <- executed, kept <- Recovered, whole <- Loads,
                                damaged <- ~Sound
KeepsALog == Log!Spec

\* Once no more commands come, and they end by MaxWrites, the file gets to stand
\* for all of them, across rewrites, while the server is up and the file sound: the
\* AOF thread is there again after each rewrite, and forgets neither buffer.
FileCatchesUp == []<>(Recovered = Len(executed) \/ ~up \/ ~Sound)

\* "The AOF or RDB files Qedis makes can also be read by redis": README.zh.md.
FileCanBeRead == ~file.bad

=============================================================================
