------------------------------ MODULE TimerMap ------------------------------
(***************************************************************************)
(* ananas::TimerManager: a multimap from the time a timer is due to the     *)
(* timer.  Update fires what is due, in that order, with the clock read     *)
(* once; a callback may cancel a timer, itself too, or schedule one, while  *)
(* Update holds an iterator into the map.                                  *)
(***************************************************************************)
EXTENDS Integers, Sequences, SequencesExt

CONSTANTS Timers,       \* timer ids; each is scheduled once
          Durations,    \* of ScheduleAfter
          Counts,       \* RepeatCount; kForever among them
          MaxTime       \* bound: the clock

VARIABLES
    clock,      \* steady_clock
    timers,     \* timers_: the ids in the order of the map
    first,      \* id_->first: when it is due, the key in the map
    interval,   \* interval_
    count,      \* count_
    now,        \* the clock Update read, or -1 outside of it
    it,         \* Update's iterator: a timer, or End
    start,      \* history: when it was scheduled, or -1
    fired,      \* history: how many times its callback ran
    cancelled   \* history: Cancel was told it was there

mapVars == <<clock, timers, first, interval, count, now, it, start, fired, cancelled>>

kForever == -1
End == "end"

TypeOK ==
    /\ clock \in 0..MaxTime
    /\ IsInjective(timers) /\ ToSet(timers) \subseteq Timers
    /\ \A t \in Timers : first[t] \in Nat /\ interval[t] \in Nat
    /\ \A t \in Timers : count[t] \in Nat \cup {kForever}
    /\ now \in -1..MaxTime
    /\ it \in ToSet(timers) \cup {End}
    /\ \A i, j \in 1..Len(timers) : i < j => first[timers[i]] <= first[timers[j]]

Init ==
    /\ clock = 0
    /\ timers = <<>>
    /\ first = [t \in Timers |-> 0] /\ interval = [t \in Timers |-> 0]
    /\ count = [t \in Timers |-> 0]
    /\ now = -1 /\ it = End
    /\ start = [t \in Timers |-> -1]
    /\ fired = [t \in Timers |-> 0]
    /\ cancelled = {}

-----------------------------------------------------------------------------

\* insert: behind those with the same key.
Inserted(map, t, at, keys) ==
    LET behind == Cardinality({i \in 1..Len(map) : keys[map[i]] <= at})
    IN  SubSeq(map, 1, behind) \o <<t>> \o SubSeq(map, behind + 1, Len(map))

\* What ScheduleAfter and Cancel change, given as the fields they leave behind.
Now == [timers |-> timers, first |-> first, interval |-> interval, count |-> count,
        start |-> start, cancelled |-> cancelled]

ScheduleAfter(t, duration, repeat) ==
    [Now EXCEPT !.timers = Inserted(timers, t, clock + duration, first),
                !.first[t] = clock + duration,
                !.interval[t] = IF duration > 1 THEN duration ELSE 1,
                !.count[t] = repeat,
                !.start[t] = clock]

\* Cancel: the timer stays in the map, with a count of zero.
Cancel(t) ==
    IF t \in ToSet(timers)
    THEN [Now EXCEPT !.count[t] = 0, !.cancelled = @ \cup {t}]
    ELSE Now

\* What a caller, or a callback, may do with timers.
Calls == {Now}
         \cup {ScheduleAfter(t, d, n) : t \in {u \in Timers : start[u] = -1},
                                        d \in Durations, n \in Counts}
         \cup {Cancel(t) : t \in {u \in Timers : start[u] # -1}}

Call ==
    /\ now = -1
    /\ \E c \in Calls \ {Now} :
          /\ timers' = c.timers /\ first' = c.first /\ interval' = c.interval
          /\ count' = c.count /\ start' = c.start /\ cancelled' = c.cancelled
    /\ UNCHANGED <<clock, now, it, fired>>

\* Update.
UpdateBegins ==
    /\ now = -1 /\ timers # <<>>
    /\ now' = clock /\ it' = Head(timers)
    /\ UNCHANGED <<clock, timers, first, interval, count, start, fired, cancelled>>

Follower(map, t) ==
    LET i == CHOOSE i \in 1..Len(map) : map[i] = t
    IN  IF i = Len(map) THEN End ELSE map[i + 1]

Without(map, t) == SelectSeq(map, LAMBDA u : u # t)

\* Mutant: the iterator goes on from the follower, whatever was put before it.
PutBackBehind(c, next, counts) ==
    LET rest == Without(c.timers, it)
    IN  /\ timers' = IF counts[it] = 0 THEN rest ELSE Inserted(rest, it, next[it], next)
        /\ it' = Follower(c.timers, it)

\* The timer it stands at, after OnTimer with the callback's call c, is taken out of
\* the map; it is put back under its next time unless its count is used up.
PutBack(c, next, counts) ==
    LET rest == Without(c.timers, it)
        follower == Follower(c.timers, it)
        at == next[it]
    IN  IF counts[it] = 0
        THEN timers' = rest /\ it' = follower
        ELSE /\ timers' = Inserted(rest, it, at, next)
             /\ it' = IF follower = End \/ at < next[follower] THEN it ELSE follower

\* OnTimer: count_ goes down before the callback runs.
Left(t) == IF count[t] = kForever THEN kForever ELSE count[t] - 1

\* Mutant: a count of zero is not looked at.
LivesUntilErased(t) == TRUE

Lives(t) == count[t] # 0

Fires ==
    /\ now # -1 /\ it # End /\ first[it] <= now
    /\ IF Lives(it)
       THEN \E c \in Calls :
               LET counts == IF it \in c.cancelled THEN c.count
                             ELSE [c.count EXCEPT ![it] = Left(it)]
                   next == [c.first EXCEPT ![it] = @ + interval[it]]
               IN  /\ fired' = [fired EXCEPT ![it] = @ + 1]
                   /\ first' = next /\ count' = counts
                   /\ interval' = c.interval /\ start' = c.start
                   /\ cancelled' = c.cancelled
                   /\ PutBack(c, next, counts)
       ELSE /\ PutBack(Now, first, count)
            /\ UNCHANGED <<first, interval, count, start, fired, cancelled>>
    /\ UNCHANGED <<clock, now>>

UpdateEnds ==
    /\ now # -1
    /\ it # End => first[it] > now
    /\ now' = -1 /\ it' = End
    /\ UNCHANGED <<clock, timers, first, interval, count, start, fired, cancelled>>

\* Time passes, in a callback too.
Tick ==
    /\ clock < MaxTime /\ clock' = clock + 1
    /\ UNCHANGED <<timers, first, interval, count, now, it, start, fired, cancelled>>

Next == Call \/ UpdateBegins \/ Fires \/ UpdateEnds \/ Tick

Spec == Init /\ [][Next]_mapVars

-----------------------------------------------------------------------------
(***************************************************************************)
(* Properties.                                                             *)
(***************************************************************************)

\* A timer fires when its time has come and no other is due before it, and never
\* after Cancel found it, whoever cancelled it: before Update, in another timer's
\* callback or in its own.
FiresInTurn ==
    [][\A t \in Timers : fired'[t] > fired[t] =>
          /\ first[t] <= clock /\ t \notin cancelled
          /\ \A u \in ToSet(timers) : u \notin cancelled => first[u] >= first[t]]_mapVars

\* When Update is done, nothing is left that was due when it began, though timers
\* are put back and scheduled under its iterator.
NoneIsLeft ==
    [][now # -1 /\ now' = -1 => \A t \in ToSet(timers) : first[t] > now]_mapVars

=============================================================================
