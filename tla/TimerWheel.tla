----------------------------- MODULE TimerWheel -----------------------------
(***************************************************************************)
(* QBase/Timer.cc: the timers of the server, in five wheels.  A timer due   *)
(* soon is in the first wheel, in the list of its millisecond; the lists of *)
(* the others cover 2^(Bits1 + k Bits) milliseconds each, and are emptied   *)
(* into the lower wheels as the time comes near ("cascade").                *)
(*                                                                         *)
(* Intervals are below 2^31 milliseconds: AddTimer takes a longer one for   *)
(* one that is past.  The order of a list, in which the callbacks of one    *)
(* millisecond are called, is left open.                                    *)
(***************************************************************************)
EXTENDS Integers, FiniteSets

CONSTANTS
    Timers,
    Bits1, Bits,    \* LIST1_BITS and LIST_BITS
    Intervals,
    MaxTime         \* bound: milliseconds

VARIABLES
    now,        \* the clock
    last,       \* m_lastCheckTime
    updating,   \* within UpdateTimers
    index,      \* the list of the first wheel that it empties, Size(1) for none
    place,      \* where each timer is: a wheel and a list of it, timers_, nowhere
    timer,      \* its triggerTime_, interval_ and count_
    excused     \* history: timers added late, or to the list that is being
                \* emptied, or whose list was not cascaded in its turn

vars == <<now, last, updating, index, place, timer, excused>>

Wheels == 1 .. 5
Nowhere == <<"nowhere">>
Async == <<"timers_">>
Free == <<"freepool_">>
Unused == [trigger |-> 0, interval |-> 0, count |-> 0]

Size(w) == IF w = 1 THEN 2 ^ Bits1 ELSE 2 ^ Bits
\* Milliseconds of a list of wheel w.
Unit(w) == IF w = 1 THEN 1 ELSE 2 ^ (Bits1 + (w - 2) * Bits)
List(w, time) == <<w, (time \div Unit(w)) % Size(w)>>
Lists == {<<w, i>> : w \in Wheels, i \in 0 .. Size(1) + Size(2)}

TypeOK ==
    /\ now \in 0 .. MaxTime /\ last \in 0 .. MaxTime + 1
    /\ updating \in BOOLEAN /\ index \in 0 .. Size(1)
    /\ \A t \in Timers :
        /\ place[t] \in Lists \cup {Nowhere, Async, Free}
        /\ timer[t].interval \in {0} \cup Intervals /\ timer[t].count \in {-1, 0, 1}
    /\ excused \subseteq Timers

Init ==
    /\ now = 0 /\ last = 0 /\ updating = FALSE /\ index = Size(1)
    /\ place = [t \in Timers |-> Nowhere]
    /\ timer = [t \in Timers |-> Unused]
    /\ excused = {}

-----------------------------------------------------------------------------
\* Mutant: a trigger time one list too far stays in the lower wheel.
AddTimerTooLow(trigger, at) ==
    IF trigger < at THEN List(1, at)
    ELSE LET diff == trigger - at
             w == CHOOSE w \in Wheels :
                    /\ w < 5 => diff <= Unit(w + 1)
                    /\ w > 1 => diff > Unit(w)
         IN List(w, trigger)

\* AddTimer: the list for a trigger time, when "at" is checked next.
AddTimer(trigger, at) ==
    IF trigger < at THEN List(1, at)
    ELSE LET diff == trigger - at
             w == CHOOSE w \in Wheels :
                    /\ w < 5 => diff < Unit(w + 1)
                    /\ w > 1 => diff >= Unit(w)
         IN List(w, trigger)

\* CreateTimer, Init and AsyncAddTimer, of any thread; between two updates
\* or during one is the same.  A count of -1 is for ever.  Each timer is
\* used once.
AsyncAddTimer(t, interval, count) ==
    /\ place[t] = Nowhere /\ ~updating
    /\ timer' = [timer EXCEPT ![t] = [trigger |-> now + interval,
                                      interval |-> interval, count |-> count]]
    /\ place' = [place EXCEPT ![t] = Async]
    /\ UNCHANGED <<now, last, updating, index, excused>>

\* KillTimer, by the thread of the timers, maybe in another's callback; a
\* timer still in timers_, or whose callback it is, is not killed.
KillTimer(t) ==
    /\ place[t] \in Lists
    /\ place' = [place EXCEPT ![t] = Free]
    /\ timer' = [timer EXCEPT ![t] = Unused]
    /\ excused' = excused \ {t}
    /\ UNCHANGED <<now, last, updating, index>>

Elapse ==
    /\ ~updating /\ now < MaxTime
    /\ now' = now + 1
    /\ UNCHANGED <<last, updating, index, place, timer, excused>>

-----------------------------------------------------------------------------
(***************************************************************************)
(* UpdateTimers.                                                            *)
(***************************************************************************)
In(list) == {t \in Timers : place[t] = list}

\* The timers added since, unless another thread has the lock.
Begin ==
    /\ ~updating /\ last <= now
    /\ updating' = TRUE
    /\ \/ UNCHANGED <<place, excused>>
       \/ /\ place' = [t \in Timers |-> IF t \in In(Async)
                                        THEN AddTimer(timer[t].trigger, last)
                                        ELSE place[t]]
          /\ excused' = excused \cup {t \in In(Async) : timer[t].trigger < last}
    /\ UNCHANGED <<now, last, index, timer>>

\* Mutant: every wheel's list but the second's is left as it is.
CascadedSecond ==
    IF last % Size(1) # 0 THEN {} ELSE In(List(2, last))

\* The timers that _Cacsade takes out of the wheels: those of the lowest
\* wheel whose list for this time is not empty.
Cascaded ==
    IF last % Size(1) # 0 THEN {}
    ELSE LET full == {w \in Wheels \ {1} : In(List(w, last)) # {}} IN
         IF full = {} THEN {}
         ELSE In(List(CHOOSE w \in full : \A v \in full : w <= v, last))

\* The timers whose list is entered at this time, while one of a lower wheel
\* is not empty.
Held == {t \in Timers : \E w \in Wheels \ {1} :
            /\ last % Unit(w) = 0 /\ place[t] = List(w, last)
            /\ \E v \in 2 .. w - 1 : In(List(v, last)) # {}}

NextMillisecond ==
    /\ updating /\ last <= now /\ In(<<1, index>>) = {}
    /\ place' = [t \in Timers |-> IF t \in Cascaded THEN AddTimer(timer[t].trigger, last)
                                  ELSE place[t]]
    /\ excused' = excused \cup (Held \ Cascaded)
    /\ index' = last % Size(1)
    /\ last' = last + 1
    /\ UNCHANGED <<now, updating, timer>>

\* The callback of a timer in the list, and the timer goes back to the
\* wheels, or to freepool_ if it had its count of calls.
Call(t) ==
    /\ updating /\ place[t] = <<1, index>>
    /\ IF timer[t].count = 0
       THEN /\ place' = [place EXCEPT ![t] = Free]
            /\ timer' = [timer EXCEPT ![t] = Unused]
            /\ excused' = excused \ {t}
       ELSE /\ timer' = [timer EXCEPT ![t].trigger = @ + timer[t].interval,
                                      ![t].count = IF @ < 0 THEN @ ELSE @ - 1]
            /\ place' = [place EXCEPT ![t] = AddTimer(timer'[t].trigger, last)]
            /\ excused' = IF timer'[t].trigger < last \/ place'[t] = place[t]
                          THEN excused \cup {t} ELSE excused \ {t}
    /\ UNCHANGED <<now, last, updating, index>>

End ==
    /\ updating /\ last > now /\ In(<<1, index>>) = {}
    /\ updating' = FALSE /\ index' = Size(1)
    /\ UNCHANGED <<now, last, place, timer, excused>>

-----------------------------------------------------------------------------
Next ==
    \/ \E t \in Timers, i \in Intervals, c \in {-1, 1} : AsyncAddTimer(t, i, c)
    \/ \E t \in Timers : KillTimer(t) \/ Call(t)
    \/ Elapse \/ Begin \/ NextMillisecond \/ End

Spec == Init /\ [][Next]_vars

-----------------------------------------------------------------------------
\* A callback is called in its millisecond.  Excused are a timer that was
\* added late; one whose list was not cascaded when its time began, as a
\* lower wheel's list was not empty; and one that goes back to the list that
\* is being emptied, as it is due again just a first wheel's time later.
OnTime ==
    [][\A t \in Timers : 
          timer[t] # Unused /\ timer'[t] # Unused /\ timer'[t] # timer[t]
            => timer[t].trigger = last - 1 \/ t \in excused]_vars

\* A timer that nothing excuses is still to come: none is left behind.
NoneIsLeft ==
    \A t \in Timers \ excused :
        place[t] \in Lists /\ timer[t].count # 0 => 
            timer[t].trigger + 1 >= last
=============================================================================
