------------------------------- MODULE Future -------------------------------
(***************************************************************************)
(* Futures of ananas (cluster/ananas/future/Future.h): a chain of futures   *)
(* 1 .. Last, each made by Then on the one before it, with OnTimeout on the *)
(* last, and collectors (WhenAll, WhenAny, WhenN) over a set of futures.    *)
(*                                                                         *)
(* The value of future 1 is set by a worker thread while main builds the    *)
(* chain; the loop's thread runs the timeout and the callbacks given to a   *)
(* scheduler.  A callback may return another future, whose value is set by  *)
(* a thread of its own: the next future of the chain has its value then.    *)
(*                                                                         *)
(* A value is not modelled, only that it is set; a thread is a stack of     *)
(* what it has still to do, its top last.  An exception is a value here:    *)
(* SetException does with the state what SetValue does.                     *)
(***************************************************************************)
EXTENDS Naturals, Sequences, FiniteSets

CONSTANTS
    Last,       \* the futures of the chain are 1 .. Last
    Inner,      \* the futures whose callback returns another future
    Sched,      \* the futures whose callback is run by a scheduler
    Members,    \* the futures a collector is given
    Needs       \* how many of them it waits for

FutureAssumption ==
    /\ Last \in Nat \ {0, 1}
    /\ Inner \subseteq 1 .. Last - 1 /\ Sched \subseteq 1 .. Last - 1
    /\ Needs \in 1 .. Cardinality(Members)

VARIABLES
    progress,   \* State::progress_ of each future of the chain
    then,       \* the futures whose then_ is set
    onTimeout,  \* the futures whose onTimeout_ is set
    lock,       \* who holds thenLock_ of each future
    todo,       \* the stack of each thread
    functors,   \* the scheduler's callbacks, EventLoop::functors_
    inner,      \* of each in Inner: none, the future returned, then_ set, done
    ran,        \* the callbacks that have run, with how often
    timedOut,   \* how often the callback of OnTimeout has run
    registered, \* the members given the collector's callback
    ready,      \* the members whose value is set
    results,    \* what the collector has, in order
    collected,  \* what its promise was set to, each time
    counted     \* history: the members set after their callback was given

chain == <<progress, then, onTimeout, lock, todo, functors, inner, ran, timedOut>>
collector == <<registered, ready, results, collected, counted>>
vars == <<chain, collector>>

Futures == 1 .. Last
Threads == {"main", "setter", "loop", "inner"}
Free == "nobody"
IsRoot(f) == f \notin onTimeout

\* What the value and the timeout of a whole chain are called in the comment
\* of OnTimeout: the last callback (yy) and zz.
yy == Last - 1

Init ==
    /\ progress = [f \in Futures |-> "none"]
    /\ then = {} /\ onTimeout = {}
    /\ lock = [f \in Futures |-> Free]
    /\ todo = [t \in Threads |->
                CASE t = "main" -> <<<<"build", 1>>>>
                  [] t = "setter" -> <<<<"set", 1>>>>
                  [] OTHER -> <<>>]
    /\ functors = <<>>
    /\ inner = [f \in Inner |-> "none"]
    /\ ran = [f \in 1 .. Last - 1 |-> 0]
    /\ timedOut = 0
    /\ registered = {} /\ ready = {} /\ results = <<>> /\ collected = <<>>
    /\ counted = <<>>

-----------------------------------------------------------------------------
(***************************************************************************)
(* The chain.                                                               *)
(***************************************************************************)
Rest(t) == SubSeq(todo[t], 1, Len(todo[t]) - 1)
Top(t, what) ==
    /\ todo[t] # <<>>
    /\ todo[t][Len(todo[t])][1] = what
Of(t) == todo[t][Len(todo[t])][2]
Continue(t, ops) == todo' = [todo EXCEPT ![t] = Rest(t) \o ops]

\* The callback given to future f is called, here or by the scheduler.
Called(f) == IF f \in Sched THEN "schedule" ELSE "run"

\* Mutant: a value is set though the timeout has taken the root.
SetValueAnyway(t) ==
    /\ Top(t, "set")
    /\ LET f == Of(t) IN
        /\ lock[f] = Free
        /\ progress' = [progress EXCEPT ![f] = "done"]
        /\ lock' = [lock EXCEPT ![f] = t]
        /\ Continue(t, <<<<"unlock", f>>>> \o
               IF f \in then THEN <<<<Called(f), f>>>> ELSE <<>>)
    /\ UNCHANGED <<then, onTimeout, functors, inner, ran, timedOut, collector>>

\* Mutant: a future that is not the root is not set after the timeout passed
\* it, though the timeout may not reach the root.
SetValueOnce(t) ==
    /\ Top(t, "set")
    /\ LET f == Of(t) IN
        /\ lock[f] = Free
        /\ IF progress[f] # "none"
           THEN /\ Continue(t, <<>>)
                /\ UNCHANGED <<progress, lock>>
           ELSE /\ progress' = [progress EXCEPT ![f] = "done"]
                /\ lock' = [lock EXCEPT ![f] = t]
                /\ Continue(t, <<<<"unlock", f>>>> \o
                       IF f \in then THEN <<<<Called(f), f>>>> ELSE <<>>)
    /\ UNCHANGED <<then, onTimeout, functors, inner, ran, timedOut, collector>>

\* Promise::SetValue and SetException: the callback is called under the lock.
SetValue(t) ==
    /\ Top(t, "set")
    /\ LET f == Of(t) IN
        /\ lock[f] = Free
        /\ IF IsRoot(f) /\ progress[f] # "none"
           THEN /\ Continue(t, <<>>)
                /\ UNCHANGED <<progress, lock>>
           ELSE /\ progress' = [progress EXCEPT ![f] = "done"]
                /\ lock' = [lock EXCEPT ![f] = t]
                /\ Continue(t, <<<<"unlock", f>>>> \o
                       IF f \in then THEN <<<<Called(f), f>>>> ELSE <<>>)
    /\ UNCHANGED <<then, onTimeout, functors, inner, ran, timedOut, collector>>

Unlock(t) ==
    /\ Top(t, "unlock")
    /\ lock' = [lock EXCEPT ![Of(t)] = Free]
    /\ Continue(t, <<>>)
    /\ UNCHANGED <<progress, then, onTimeout, functors, inner, ran, timedOut, collector>>

\* Future::Then: of a future that is done the callback is called at once, and
\* the next future is a root of its own.
Then ==
    /\ Top("main", "build")
    /\ LET f == Of("main") IN
        /\ f < Last
        /\ lock[f] = Free
        /\ IF progress[f] = "done"
           THEN /\ Continue("main", <<<<"build", f + 1>>, <<Called(f), f>>>>)
                /\ UNCHANGED <<then, onTimeout>>
           ELSE /\ onTimeout' = onTimeout \cup {f + 1}
                /\ then' = then \cup {f}
                /\ Continue("main", <<<<"build", f + 1>>>>)
    /\ UNCHANGED <<progress, lock, functors, inner, ran, timedOut, collector>>

\* Future::OnTimeout: the scheduler's timer takes the timeout some time later.
OnTimeout ==
    /\ Top("main", "build")
    /\ Of("main") = Last
    /\ Continue("main", <<<<"timer", Last>>>>)
    /\ UNCHANGED <<progress, then, onTimeout, lock, functors, inner, ran, timedOut, collector>>

TimerFires ==
    /\ Top("main", "timer")
    /\ todo["loop"] = <<>>
    /\ todo' = [todo EXCEPT !["main"] = <<>>, !["loop"] = <<<<"timeout", Last>>>>]
    /\ UNCHANGED <<progress, then, onTimeout, lock, functors, inner, ran, timedOut, collector>>

\* The timeout goes from each future to its parent, up to the root; it ends at
\* one that is done.
Timeout ==
    /\ Top("loop", "timeout")
    /\ LET f == Of("loop") IN
        /\ lock[f] = Free
        /\ IF progress[f] # "none"
           THEN Continue("loop", <<>>) /\ UNCHANGED <<progress, timedOut>>
           ELSE /\ progress' = [progress EXCEPT ![f] = "timeout"]
                /\ IF IsRoot(f)
                   THEN Continue("loop", <<>>) /\ timedOut' = timedOut + 1
                   ELSE Continue("loop", <<<<"timeout", f - 1>>>>) /\ UNCHANGED timedOut
    /\ UNCHANGED <<then, onTimeout, lock, functors, inner, ran, collector>>

Schedule(t) ==
    /\ Top(t, "schedule")
    /\ functors' = Append(functors, Of(t))
    /\ Continue(t, <<>>)
    /\ UNCHANGED <<progress, then, onTimeout, lock, inner, ran, timedOut, collector>>

\* EventLoop::Loop calls what was scheduled.
RunFunctor ==
    /\ functors # <<>> /\ todo["loop"] = <<>>
    /\ todo' = [todo EXCEPT !["loop"] = <<<<"run", Head(functors)>>>>]
    /\ functors' = Tail(functors)
    /\ UNCHANGED <<progress, then, onTimeout, lock, inner, ran, timedOut, collector>>

\* The callback of future f, whose value is the next one's.
Run(t) ==
    /\ Top(t, "run")
    /\ LET f == Of(t) IN
        /\ ran' = [ran EXCEPT ![f] = @ + 1]
        /\ IF f \in Inner
           THEN Continue(t, <<<<"join", f>>>>) /\ inner' = [inner EXCEPT ![f] = "returned"]
           ELSE Continue(t, <<<<"set", f + 1>>>>) /\ UNCHANGED inner
    /\ UNCHANGED <<progress, then, onTimeout, lock, functors, timedOut, collector>>

\* The future it returned: done already, or given a callback that sets the
\* next one of the chain.
Join(t) ==
    /\ Top(t, "join")
    /\ LET f == Of(t) IN
        IF inner[f] = "done"
        THEN Continue(t, <<<<"set", f + 1>>>>) /\ UNCHANGED inner
        ELSE Continue(t, <<>>) /\ inner' = [inner EXCEPT ![f] = "joined"]
    /\ UNCHANGED <<progress, then, onTimeout, lock, functors, ran, timedOut, collector>>

SetInner ==
    /\ todo["inner"] = <<>>
    /\ \E f \in Inner :
        /\ inner[f] \in {"returned", "joined"}
        /\ inner' = [inner EXCEPT ![f] = "done"]
        /\ todo' = [todo EXCEPT !["inner"] =
                     IF inner[f] = "joined" THEN <<<<"set", f + 1>>>> ELSE <<>>]
    /\ UNCHANGED <<progress, then, onTimeout, lock, functors, ran, timedOut, collector>>

-----------------------------------------------------------------------------
(***************************************************************************)
(* Collectors.  SetCallback does not ask whether the future is done.        *)
(* WhenAny needs one and WhenAll all; each callback is atomic, by an        *)
(* exchange, a fetch_add or a mutex.                                        *)
(***************************************************************************)
SetCallback ==
    /\ \E m \in Members \ registered :
        registered' = registered \cup {m}
    /\ UNCHANGED <<chain, ready, results, collected, counted>>

\* Mutant: the callbacks do not ask whether enough members have come.
CollectTooMany(m) ==
    /\ results' = Append(results, m)
    /\ collected' = IF Len(results') >= Needs
                    THEN Append(collected, results') ELSE collected

Collect(m) ==
    IF Len(results) = Needs
    THEN UNCHANGED <<results, collected>>
    ELSE /\ results' = Append(results, m)
         /\ collected' = IF Len(results') = Needs
                         THEN Append(collected, results') ELSE collected

MemberIsSet ==
    /\ \E m \in Members \ ready :
        /\ ready' = ready \cup {m}
        /\ IF m \in registered
           THEN Collect(m) /\ counted' = Append(counted, m)
           ELSE UNCHANGED <<results, collected, counted>>
    /\ UNCHANGED <<chain, registered>>

-----------------------------------------------------------------------------
Step(t) == SetValue(t) \/ Unlock(t) \/ Schedule(t) \/ Run(t) \/ Join(t)

ChainNext ==
    \/ \E t \in Threads : Step(t)
    \/ Then \/ OnTimeout \/ TimerFires \/ Timeout \/ RunFunctor \/ SetInner
CollectorNext == SetCallback \/ MemberIsSet

Next == ChainNext \/ CollectorNext

\* Threads run, the loop serves its timers and functors, and whoever made a
\* future sets it.
Working == ChainNext
Spec == Init /\ [][Next]_vars
ChainSpec == Init /\ [][ChainNext]_vars /\ WF_vars(Working)

-----------------------------------------------------------------------------
\* The last callback of a chain and its timeout (yy and zz in the comment of
\* OnTimeout) do not both run, and no callback runs twice, whichever of the
\* value, the continuations and the timeout comes first.  Excepted is a last future
\* that is a root, as Then found yy's value set, when a scheduler runs yy or yy
\* returns a future: the timeout may come before that, and does not hold yy up
\* (Future.h:302, 405, 411, 511).
NotBoth ==
    /\ timedOut + ran[yy] <= 1 \/ (IsRoot(Last) /\ yy \in Inner \cup Sched)
    /\ \A f \in DOMAIN ran : ran[f] <= 1

\* One of them runs in the end, when every future that is waited for is set:
\* a timeout that meets the value on its way to the root does not lose both.
OneHasRun == timedOut + ran[yy] > 0
OneOfThem == <>OneHasRun

\* The promise of WhenAll, WhenAny or WhenN is set once, when as many members
\* as it needs were set after it had asked them, and to the first of these.
CollectedAreTheFirst ==
    collected = IF Len(counted) < Needs THEN <<>>
                ELSE <<SubSeq(counted, 1, Needs)>>

=============================================================================
