----------------------------- MODULE ThreadPool -----------------------------
(***************************************************************************)
(* The thread pools (QBase/Threads/ThreadPool, ananas/net/ThreadPool): a    *)
(* queue of tasks under a mutex, workers that wait for one on a condition   *)
(* variable, and a monitor that once a second pushes a task for each idle   *)
(* worker over a maximum, which ends the worker that takes it.              *)
(*                                                                         *)
(* Each action is what a thread does under the mutex.  Tasks end: one that  *)
(* runs for ever takes its worker away from those behind it.                *)
(***************************************************************************)
EXTENDS Integers, Sequences, FiniteSets, SequencesExt

CONSTANTS
    Threads,        \* bound: workers ever made
    MaxTasks,       \* bound: tasks
    MaxIdleThreads,
    MaxThreads,     \* of ananas' tasks without a result
    MaxRounds       \* bound: rounds of the monitor

VARIABLES
    tasks,      \* tasks_: tasks, and 0 for a stop signal
    made,       \* tasks given to Execute
    worker,     \* what each worker does: new, waits, runs a task, stops, is gone
    woken,      \* the workers waiting that were notified
    current,    \* currentThreads_
    stops,      \* pendingStopSignal_
    shutdown,
    rounds,
    done        \* history: the tasks that ran, in the order they ended

vars == <<tasks, made, worker, woken, current, stops, shutdown, rounds, done>>

Stop == 0
States == {"none", "new", "waits", "runs", "stops", "gone"}
In(some) == {w \in Threads : worker[w].does \in some}
Does(w, what) == [worker EXCEPT ![w] = [does |-> what, task |-> Stop]]
\* waiters_
waiters == Cardinality(In({"waits"}))

TypeOK ==
    /\ tasks \in Seq(0 .. MaxTasks) /\ made \in 0 .. MaxTasks
    /\ worker \in [Threads -> [does : States, task : 0 .. MaxTasks]]
    /\ woken \subseteq In({"waits"})
    /\ {current, stops} \subseteq 0 .. Cardinality(Threads)
    /\ shutdown \in BOOLEAN /\ rounds \in 0 .. MaxRounds
    /\ done \in Seq(1 .. MaxTasks)

Init ==
    /\ tasks = <<>> /\ made = 0
    /\ worker = [w \in Threads |-> [does |-> "none", task |-> Stop]]
    /\ woken = {} /\ current = 0 /\ stops = 0
    /\ shutdown = FALSE /\ rounds = 0 /\ done = <<>>

-----------------------------------------------------------------------------
\* notify_one, n times: workers that wait, if there are any.
Notify(n) ==
    LET idle == In({"waits"}) \ woken IN
    \E some \in SUBSET idle :
        /\ Cardinality(some) = IF n < Cardinality(idle) THEN n ELSE Cardinality(idle)
        /\ woken' = woken \cup some

\* Whether Execute makes a worker.
CreateWorker(limited) ==
    waiters = 0 /\ (limited => current < MaxThreads)

Execute(limited) ==
    /\ made < MaxTasks /\ ~shutdown
    /\ made' = made + 1
    /\ tasks' = Append(tasks, made')
    /\ IF CreateWorker(limited)
       THEN /\ \E w \in In({"none"}) :
                 /\ worker' = Does(w, "new")
            /\ current' = current + 1
            /\ UNCHANGED woken
       ELSE /\ Notify(1)
            /\ UNCHANGED <<worker, current>>
    /\ UNCHANGED <<stops, shutdown, rounds, done>>

\* Mutant: a worker that finds the pool shut down ends.
TakeUnlessShutdown(w) ==
    /\ worker' = IF shutdown THEN Does(w, "gone")
                 ELSE IF tasks # <<>>
                 THEN [worker EXCEPT ![w] = [does |-> "runs", task |-> Head(tasks)]]
                 ELSE Does(w, "waits")
    /\ tasks' = IF ~shutdown /\ tasks # <<>> THEN Tail(tasks) ELSE tasks
    /\ current' = IF shutdown THEN current - 1 ELSE current

\* The predicate of the wait holds, and the worker takes a task or ends; or
\* it waits, again.
Take(w) ==
    IF tasks # <<>>
    THEN /\ worker' = [worker EXCEPT ![w] = [does |-> "runs", task |-> Head(tasks)]]
         /\ tasks' = Tail(tasks)
         /\ UNCHANGED current
    ELSE /\ worker' = Does(w, IF shutdown THEN "gone" ELSE "waits")
         /\ current' = IF shutdown THEN current - 1 ELSE current
         /\ UNCHANGED tasks

\* _WorkerRoutine, to the wait, from the wait, and after its task.
Loop(w) ==
    /\ \/ worker[w].does = "new" /\ UNCHANGED <<woken, done>>
       \/ w \in woken /\ woken' = woken \ {w} /\ UNCHANGED done
       \/ /\ worker[w].does = "runs" /\ worker[w].task # Stop
          /\ done' = Append(done, worker[w].task)
          /\ UNCHANGED woken
    /\ Take(w)
    /\ UNCHANGED <<made, stops, shutdown, rounds>>

\* A stop signal ran: the loop ends, and then, without the mutex, the
\* counters are lowered.
EndOfLoop(w) ==
    /\ worker[w].does = "runs" /\ worker[w].task = Stop
    /\ worker' = Does(w, "gone")
    /\ current' = current - 1
    /\ stops' = stops - 1
    /\ UNCHANGED <<tasks, made, woken, shutdown, rounds, done>>

\* The workers that wait over the maximum, less those that will end.
Excess == 
    IF waiters - stops > MaxIdleThreads THEN waiters - stops - MaxIdleThreads ELSE 0

\* A round of _MonitorRoutine.  By the next one, a second later, the signals
\* have been taken by workers that waited; if tasks that last had come first,
\* waiters_ less the signals would wrap around, and they would have no end.
Monitor ==
    /\ ~shutdown /\ rounds < MaxRounds
    /\ waiters >= stops
    /\ rounds' = rounds + 1
    /\ LET n == Excess IN
        /\ n > 0
        /\ tasks' = tasks \o [i \in 1 .. n |-> Stop]
        /\ stops' = stops + n
        /\ Notify(n)
    /\ UNCHANGED <<made, worker, current, shutdown, done>>

\* JoinAll, to the joins.
JoinAll ==
    /\ ~shutdown /\ shutdown' = TRUE
    /\ woken' = In({"waits"})
    /\ UNCHANGED <<tasks, made, worker, current, stops, rounds, done>>

-----------------------------------------------------------------------------
Next ==
    \/ \E limited \in BOOLEAN : Execute(limited)
    \/ \E w \in Threads : Loop(w) \/ EndOfLoop(w)
    \/ Monitor \/ JoinAll

\* Workers go on when they can.
Running == \E w \in Threads : Loop(w) \/ EndOfLoop(w)
Spec == Init /\ [][Next]_vars /\ WF_vars(Running)

-----------------------------------------------------------------------------
\* Every task that Execute took is run: none is left in the queue when the
\* last workers are told to stop, or the pool is shut down, and none waits
\* for a worker that nobody wakes.  Once the pool is shut down JoinAll's
\* joins end, as every worker does.
NothingIsLeft ==
    /\ \A i \in 1 .. made : \E j \in DOMAIN done : done[j] = i
    /\ shutdown => In({"new", "waits", "runs"}) = {}
TasksRun == <>[]NothingIsLeft
=============================================================================
