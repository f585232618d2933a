----------------------------- MODULE PeersProofs ------------------------------
(***************************************************************************)
(* Proofs about whose answer is whose (MCLinks): a chain of futures and     *)
(* WhenN (Future), the proxy between its clients and its servers (Proxy),   *)
(* and MIGRATE between its clients and a server (QMigration), for any       *)
(* numbers of futures, clients, requests, calls and connections.            *)
(***************************************************************************)
EXTENDS MCLinks, SequenceLemmas

-----------------------------------------------------------------------------
(***************************************************************************)
(* Futures.                                                                *)
(***************************************************************************)
\* What a collector has is the first of what was counted, and its promise has it
\* when it is enough.
CollectInv ==
    /\ fCounted \in Seq(Members) /\ fResults \in Seq(Members)
    /\ Len(fResults) = (IF Len(fCounted) < Needs THEN Len(fCounted) ELSE Needs)
    /\ \A i \in 1 .. Len(fResults) : fResults[i] = fCounted[i]
    /\ fCollected = IF Len(fCounted) < Needs THEN <<>> ELSE <<fResults>>

\* The value of a chain is at one place: what some thread has to do last with it, or
\* where it waits: o is what is done next with the value of future f, and a who does it.
ValueOps == {"set", "schedule", "run", "join"}
Places == ValueOps \cup {"called", "joined", "rest", "dead"}
Works == {"build", "timer", "timeout", "unlock", "set", "schedule", "run", "join"}
            \X (1 .. ChainLast)

IsValue(w) == w[1] \in ValueOps
IsSet(o, f, g) == g < f \/ (g = f /\ o \notin {"set", "dead"})
HasRun(o, f, g) == g < f \/ (g = f /\ o \in {"join", "joined"})

\* Main is at b, or past the last future; no other thread builds, the timeout runs on
\* the loop when main has ended, and no other thread has a value to do anything with.
Stacks(b, a, o, f) ==
    /\ fTodo \in [F!Threads -> Seq(Works)]
    /\ \A t \in F!Threads : \A i \in 1 .. Len(fTodo[t]) :
          /\ IsValue(fTodo[t][i]) => t = a /\ i = Len(fTodo[t]) /\ fTodo[t][i] = <<o, f>>
          /\ fTodo[t][i][1] \in {"build", "timer"} => t = "main" /\ i = 1
          /\ fTodo[t][i][1] = "timeout" =>
                t = "loop" /\ Len(fTodo[t]) = 1 /\ fTodo["main"] = <<>> /\ fTimedOut = 0
    /\ o \in ValueOps =>
          a \in F!Threads /\ fTodo[a] # <<>> /\ fTodo[a][Len(fTodo[a])] = <<o, f>>
    /\ IF b = ChainLast + 1 THEN fTodo["main"] \in {<<>>, <<<<"timer", ChainLast>>>>}
       ELSE fTodo["main"] # <<>> /\ fTodo["main"][1] = <<"build", b>>

\* Where the value is tells which futures are set and which callbacks have run.
ValueIs(b, o, f) ==
    /\ b \in 1 .. ChainLast + 1 /\ f \in 1 .. ChainLast /\ o \in Places
    /\ f < b \/ (f = b /\ o \in {"set", "rest", "dead"})
    /\ o \notin {"set", "rest", "dead"} => f < ChainLast
    /\ o \in {"join", "joined"} => f \in ChainInner
    /\ o = "rest" => f \in {b, ChainLast}
    /\ \A g \in 1 .. ChainLast : fProgress[g] = "done" <=> IsSet(o, f, g)
    /\ \A g \in 1 .. ChainLast - 1 : fRan[g] = IF HasRun(o, f, g) THEN 1 ELSE 0
    /\ \A g \in ChainInner :
          fInner[g] \in (IF g < f THEN {"done"}
                         ELSE IF g = f /\ o = "join" THEN {"returned", "done"}
                         ELSE IF g = f /\ o = "joined" THEN {"joined"} ELSE {"none"})
    /\ fFunctors = IF o = "called" THEN <<f>> ELSE <<>>

\* Main has given each future before b its callback, or found it set.
BuiltTo(b) ==
    /\ fThen \subseteq 1 .. ChainLast - 1 /\ fOnTimeout = {g + 1 : g \in fThen}
    /\ \A g \in fThen : g < b
    /\ \A g \in 1 .. ChainLast - 1 : g < b /\ g \notin fThen => fProgress[g] = "done"

\* The timeout goes up when main has ended.  It ends at a root, which is the last
\* future only if its value comes by a scheduler or another future: it is set before
\* main has ended otherwise.
LastIsLate == ChainLast - 1 \in ChainInner \cup ChainSched
TimesOut(b, a, o, f) ==
    /\ \A g \in 1 .. ChainLast :
          fProgress[g] = "timeout" => b = ChainLast + 1 /\ fTodo["main"] = <<>>
    /\ fTimedOut \in {0, 1}
    /\ fTimedOut = 1 =>
          /\ b = ChainLast + 1 /\ fTodo["main"] = <<>>
          /\ \E r \in 1 .. ChainLast :
                /\ r \notin fOnTimeout /\ fProgress[r] = "timeout"
                /\ r = ChainLast => LastIsLate
    /\ b >= ChainLast /\ ChainLast - 1 \notin fThen =>
          \/ LastIsLate \/ fProgress[ChainLast] = "done"
          \/ a = "main" /\ <<o, f>> \in {<<"run", ChainLast - 1>>, <<"set", ChainLast>>}

ChainIs(b, a, o, f) ==
    /\ fProgress \in [1 .. ChainLast -> {"none", "done", "timeout"}]
    /\ fRan \in [1 .. ChainLast - 1 -> Nat] /\ DOMAIN fInner = ChainInner
    /\ Stacks(b, a, o, f) /\ ValueIs(b, o, f) /\ BuiltTo(b) /\ TimesOut(b, a, o, f)

ChainInv ==
    \E b \in 1 .. ChainLast + 1, a \in F!Threads \cup {"nowhere"}, o \in Places,
       f \in 1 .. ChainLast : ChainIs(b, a, o, f)

\* A member is counted for the collector.
LEMMA CollectKept == ASSUME CollectInv, F!CollectorNext PROVE CollectInv'
<1>1. CASE UNCHANGED <<fResults, fCollected, fCounted>>
  BY <1>1 DEF CollectInv
<1>2. CASE \E m \in Members : F!Collect(m) /\ fCounted' = Append(fCounted, m)
  <2>1. PICK m \in Members : F!Collect(m) /\ fCounted' = Append(fCounted, m)
    BY <1>2
  <2> DEFINE n == Len(fCounted)
             k == Len(fResults)
  <2>2. /\ fCounted \in Seq(Members) /\ fResults \in Seq(Members) /\ n \in Nat /\ k \in Nat
        /\ Needs \in Nat \ {0}
    BY PeersAssumption DEF CollectInv
  <2>3. /\ fCounted' \in Seq(Members) /\ Len(fCounted') = n + 1
        /\ \A i \in 1 .. n : fCounted'[i] = fCounted[i]
        /\ fCounted'[n + 1] = m
    BY <2>1, <2>2
  <2>4. CASE k = Needs
    <3>1. UNCHANGED <<fResults, fCollected>> /\ n >= Needs /\ k <= n
      BY <2>1, <2>2, <2>4 DEF F!Collect, CollectInv
    <3>2. \A i \in 1 .. k : fResults[i] = fCounted'[i]
      <4>1. \A i \in 1 .. k : fResults[i] = fCounted[i]
        BY DEF CollectInv
      <4> QED BY <2>2, <2>3, <3>1, <4>1
    <3>3. ~(n < Needs) /\ ~(n + 1 < Needs) /\ fCollected = <<fResults>>
      BY <2>2, <3>1 DEF CollectInv
    <3> HIDE DEF n, k
    <3> QED BY <2>2, <2>3, <2>4, <3>1, <3>2, <3>3 DEF CollectInv, n, k
  <2>5. CASE k # Needs
    <3>1. n < Needs /\ k = n
      BY <2>2, <2>5 DEF CollectInv
    <3>2. /\ fResults' = Append(fResults, m)
          /\ fCollected' = IF Len(fResults') = Needs THEN Append(fCollected, fResults') ELSE fCollected
          /\ fCollected = <<>>
      BY <2>1, <2>5, <3>1, Zenon DEF F!Collect, CollectInv
    <3>3. /\ fResults' \in Seq(Members) /\ Len(fResults') = k + 1
          /\ \A i \in 1 .. k : fResults'[i] = fResults[i]
          /\ fResults'[k + 1] = m
      BY <2>2, <3>2
    <3>4. \A i \in 1 .. Len(fResults') : fResults'[i] = fCounted'[i]
      <4>1. \A i \in 1 .. k : fResults[i] = fCounted[i]
        BY DEF CollectInv
      <4> QED BY <2>2, <2>3, <3>1, <3>3, <4>1
    <3>5. fCollected' = IF Len(fCounted') < Needs THEN <<>> ELSE <<fResults'>>
      BY <2>2, <2>3, <3>1, <3>2, <3>3
    <3>6. Len(fResults') = IF Len(fCounted') < Needs THEN Len(fCounted') ELSE Needs
      BY <2>2, <2>3, <3>1, <3>3
    <3> QED BY <2>3, <3>3, <3>4, <3>5, <3>6 DEF CollectInv
  <2> QED BY <2>4, <2>5
<1> QED BY <1>1, <1>2 DEF F!CollectorNext, F!SetCallback, F!MemberIsSet

LEMMA CollectHolds == CollectInv => F!CollectedAreTheFirst
<1> SUFFICES ASSUME CollectInv, ~(Len(fCounted) < Needs)
             PROVE  fResults = SubSeq(fCounted, 1, Needs)
  BY DEF CollectInv, F!CollectedAreTheFirst
<1> DEFINE w == SubSeq(fCounted, 1, Needs)
<1>1. /\ fCounted \in Seq(Members) /\ fResults \in Seq(Members) /\ Needs \in Nat \ {0}
      /\ Len(fCounted) \in Nat /\ Needs <= Len(fCounted) /\ Len(fResults) = Needs
      /\ \A i \in 1 .. Needs : fResults[i] = fCounted[i]
  BY PeersAssumption DEF CollectInv
<1>2. w \in Seq(Members) /\ Len(w) = Needs /\ \A i \in 1 .. Needs : w[i] = fCounted[i]
  <2>1. 1 \in 1 .. Needs + 1 /\ Needs \in 1 - 1 .. Len(fCounted)
    BY <1>1
  <2> QED BY <1>1, <2>1, SubSeqProperties
<1> HIDE DEF w
<1>3. fResults = w
  BY <1>1, <1>2, SeqEqual
<1> QED BY <1>3 DEF w

\* A stack whose last work is taken, and others put in its place.
Takes(q, ops, r) ==
    /\ Len(q) \in Nat \ {0} /\ q[Len(q)] \in Works
    /\ r \in Seq(Works) /\ Len(ops) \in Nat /\ Len(r) = (Len(q) - 1) + Len(ops)
    /\ \A i \in 1 .. Len(q) - 1 : i \in 1 .. Len(r) /\ r[i] = q[i]
    /\ \A j \in 1 .. Len(ops) : r[(Len(q) - 1) + j] = ops[j]
    /\ \A i \in 1 .. Len(r) :
          i \in 1 .. Len(q) - 1 \/ \E j \in 1 .. Len(ops) : i = (Len(q) - 1) + j

LEMMA StackIs ==
    ASSUME NEW q \in Seq(Works), q # <<>>, NEW ops \in Seq(Works)
    PROVE  Takes(q, ops, SubSeq(q, 1, Len(q) - 1) \o ops)
<1> DEFINE r == SubSeq(q, 1, Len(q) - 1) \o ops
<1> DEFINE front == SubSeq(q, 1, Len(q) - 1)
           n == Len(q) - 1
           m == Len(ops)
<1>1. Len(q) \in Nat \ {0} /\ q[Len(q)] \in Works /\ n \in Nat /\ m \in Nat
  BY EmptySeq
<1>2. front \in Seq(Works) /\ Len(front) = n /\ \A i \in 1 .. n : front[i] = q[i]
  <2>1. front = Front(q)
    BY DEF Front
  <2> HIDE DEF front
  <2> QED BY <2>1, FrontIs
<1>3. r = front \o ops
  OBVIOUS
<1>11. n = Len(q) - 1 /\ m = Len(ops)
  OBVIOUS
<1> HIDE DEF front, n, m, r
<1>4. /\ r \in Seq(Works) /\ Len(r) = n + m
      /\ \A i \in 1 .. n + m : r[i] = IF i <= n THEN front[i] ELSE ops[i - n]
  <2>1. front \in Seq(Works) /\ ops \in Seq(Works)
    BY <1>2
  <2>2. /\ Len(front \o ops) = Len(front) + Len(ops)
        /\ front \o ops \in Seq(Works)
        /\ \A i \in 1 .. Len(front) + Len(ops) :
              (front \o ops)[i] = IF i <= Len(front) THEN front[i] ELSE ops[i - Len(front)]
    BY ONLY <2>1, ConcatProperties
  <2> QED BY <1>2, <1>3, <1>11, <2>2
<1>5. \A i \in 1 .. n : i \in 1 .. Len(r) /\ r[i] = q[i]
  <2> SUFFICES ASSUME NEW i \in 1 .. n PROVE i \in 1 .. Len(r) /\ r[i] = q[i]
    OBVIOUS
  <2>1. i \in 1 .. n + m /\ i <= n
    BY <1>1
  <2>2. r[i] = front[i] /\ front[i] = q[i]
    BY <1>2, <1>4, <2>1
  <2> QED BY <1>4, <2>1, <2>2
<1>6. \A j \in 1 .. m : r[n + j] = ops[j]
  <2> SUFFICES ASSUME NEW j \in 1 .. m PROVE r[n + j] = ops[j]
    OBVIOUS
  <2>1. n + j \in 1 .. n + m /\ ~(n + j <= n) /\ (n + j) - n = j
    BY <1>1
  <2> QED BY <1>4, <2>1
<1>7. ASSUME NEW i \in 1 .. Len(r), i \notin 1 .. n PROVE \E j \in 1 .. m : i = n + j
  <2>1. i - n \in 1 .. m /\ i = n + (i - n)
    BY <1>1, <1>4, <1>7
  <2> QED BY <2>1
<1>8. Takes(q, ops, r)
  BY <1>1, <1>4, <1>5, <1>6, <1>7, <1>11 DEF Takes
<1> QED BY <1>8 DEF r

\* What a thread puts on its stack is to unlock, and then what is done with the value.
PutsOn(ops, p, g) ==
    /\ ops \in Seq(Works)
    /\ \A j \in 1 .. Len(ops) :
          ops[j][1] = "unlock" \/ (j = Len(ops) /\ ops[j] = <<p, g>> /\ p \in ValueOps)
    /\ p \in ValueOps => Len(ops) \in 1 .. Len(ops) /\ ops[Len(ops)] = <<p, g>>

LEMMA OpsAre ==
    ASSUME NEW p, NEW g \in 1 .. ChainLast, NEW h \in 1 .. ChainLast
    PROVE  /\ p \notin ValueOps => PutsOn(<<>>, p, g) /\ PutsOn(<<<<"unlock", h>>>>, p, g)
           /\ p \in ValueOps => PutsOn(<<<<p, g>>>>, p, g)
                                /\ PutsOn(<<<<"unlock", h>>, <<p, g>>>>, p, g)
                                /\ PutsOn(<<<<"unlock", h>>>> \o <<<<p, g>>>>, p, g)
           /\ p \notin ValueOps => PutsOn(<<<<"unlock", h>>>> \o <<>>, p, g)
<1> DEFINE u == <<"unlock", h>>
           v == <<p, g>>
<1>1. u \in Works /\ u[1] = "unlock" /\ (p \in ValueOps => v \in Works)
  BY DEF Works, ValueOps
<1> HIDE DEF u, v
<1>2. ASSUME p \notin ValueOps PROVE PutsOn(<<>>, p, g) /\ PutsOn(<<u>>, p, g)
  BY <1>1, <1>2 DEF PutsOn
<1>3. ASSUME p \in ValueOps PROVE PutsOn(<<v>>, p, g)
  BY <1>1, <1>3 DEF PutsOn, v
<1>4. ASSUME p \in ValueOps PROVE PutsOn(<<u, v>>, p, g)
  <2> DEFINE w == <<u, v>>
  <2>1. w \in Seq(Works) /\ Len(w) = 2 /\ w[1] = u /\ w[2] = v
    BY <1>1, <1>4
  <2> HIDE DEF w
  <2>2. \A j \in 1 .. 2 : j = 1 \/ j = 2
    OBVIOUS
  <2>3. PutsOn(w, p, g)
    BY <1>1, <1>4, <2>1, <2>2 DEF PutsOn, v
  <2> QED BY <2>3 DEF w
<1>5. ASSUME p \in ValueOps PROVE PutsOn(<<u>> \o <<v>>, p, g)
  <2>1. <<u>> \in Seq(Works) /\ v \in Works
    BY <1>1, <1>5
  <2>2. Append(<<u>>, v) = <<u>> \o <<v>>
    BY <2>1, AppendIsConcat
  <2>3. Append(<<u>>, v) = <<u, v>>
    <3> DEFINE x == Append(<<u>>, v)
               y == <<u, v>>
    <3>1. x \in Seq(Works) /\ Len(x) = 2 /\ x[1] = u /\ x[2] = v
      BY <2>1
    <3>2. y \in Seq(Works) /\ Len(y) = 2 /\ y[1] = u /\ y[2] = v
      BY <1>1, <2>1
    <3> HIDE DEF x, y
    <3>3. x = y
      BY <3>1, <3>2, SeqEqual
    <3> QED BY <3>3 DEF x, y
  <2> QED BY <1>4, <1>5, <2>2, <2>3
<1>6. ASSUME p \notin ValueOps PROVE PutsOn(<<u>> \o <<>>, p, g)
  <2>1. <<u>> \in Seq(Works)
    BY <1>1
  <2>2. <<u>> \o <<>> = <<u>>
    BY <2>1
  <2> QED BY <1>2, <1>6, <2>2
<1> QED BY <1>2, <1>3, <1>4, <1>5, <1>6 DEF u, v

\* A thread whose last work is about the value is the one that has it.
LEMMA TopValue ==
    ASSUME NEW b, NEW a, NEW o, NEW f, Stacks(b, a, o, f),
           NEW t \in F!Threads, NEW w \in ValueOps, F!Top(t, w)
    PROVE  /\ t = a /\ w = o /\ F!Of(t) = f /\ fTodo[t] # <<>> /\ fTodo[t] \in Seq(Works)
           /\ fTodo[t][Len(fTodo[t])] = <<o, f>> /\ o \in ValueOps /\ f \in 1 .. ChainLast
<1>1. /\ fTodo[t] \in Seq(Works) /\ fTodo[t] # <<>> /\ Len(fTodo[t]) \in 1 .. Len(fTodo[t])
      /\ fTodo[t][Len(fTodo[t])][1] = w
  <2>1. fTodo[t] \in Seq(Works) /\ fTodo[t] # <<>> /\ fTodo[t][Len(fTodo[t])][1] = w
    BY DEF Stacks, F!Top
  <2>2. Len(fTodo[t]) \in Nat \ {0}
    BY <2>1, EmptySeq
  <2> QED BY <2>1, <2>2
<1>2. IsValue(fTodo[t][Len(fTodo[t])])
  BY <1>1 DEF IsValue
<1>3. t = a /\ fTodo[t][Len(fTodo[t])] = <<o, f>>
  BY <1>1, <1>2 DEF Stacks
<1>4. <<o, f>> \in Works
  BY <1>1, <1>3, ElementOfSeq
<1> QED BY <1>1, <1>3, <1>4 DEF F!Of, Works

\* A thread does its last work, which is about the value or to unlock, and the value
\* goes on with it or leaves the threads.
LEMMA ValueMoves ==
    ASSUME NEW b \in 1 .. ChainLast + 1, NEW a, NEW o, NEW f, Stacks(b, a, o, f),
           NEW t \in F!Threads, fTodo[t] # <<>>,
           NEW e, NEW p, NEW g \in 1 .. ChainLast,
           NEW ops,
           \/ IsValue(fTodo[t][Len(fTodo[t])]) /\ PutsOn(ops, p, g) /\ (p \in ValueOps => e = t)
           \/ fTodo[t][Len(fTodo[t])][1] = "unlock" /\ ops = <<>> /\ e = a /\ p = o /\ g = f,
           F!Continue(t, ops), fTimedOut' = fTimedOut
    PROVE  Stacks(b, e, p, g)'
<1> DEFINE q == fTodo[t]
           n == Len(q)
           top == q[n]
           v == <<p, g>>
           r == SubSeq(q, 1, n - 1) \o ops
<1>1. /\ fTodo \in [F!Threads -> Seq(Works)] /\ q \in Seq(Works) /\ q # <<>>
      /\ fTodo' = [fTodo EXCEPT ![t] = r]
  BY DEF Stacks, F!Continue, F!Rest
<1>2. /\ ops \in Seq(Works)
      /\ \A j \in 1 .. Len(ops) :
            ops[j][1] = "unlock" \/ (j = Len(ops) /\ ops[j] = v /\ p \in ValueOps /\ e = t)
  <2> HIDE DEF q, n, r
  <2>1. CASE PutsOn(ops, p, g) /\ (p \in ValueOps => e = t)
    BY <2>1 DEF PutsOn
  <2>2. CASE ops = <<>>
    BY <2>2
  <2> QED BY <2>1, <2>2
<1>3. /\ n \in Nat \ {0} /\ n \in 1 .. n /\ top \in Works /\ r \in Seq(Works) /\ Len(ops) \in Nat
      /\ Len(r) = (n - 1) + Len(ops)
      /\ \A i \in 1 .. n - 1 : i \in 1 .. Len(r) /\ r[i] = q[i]
      /\ \A j \in 1 .. Len(ops) : r[(n - 1) + j] = ops[j]
      /\ \A i \in 1 .. Len(r) : i \in 1 .. n - 1 \/ \E j \in 1 .. Len(ops) : i = (n - 1) + j
  <2>1. r = SubSeq(q, 1, Len(q) - 1) \o ops
    OBVIOUS
  <2> HIDE DEF q, r
  <2>2. Takes(q, ops, r)
    BY <1>1, <1>2, <2>1, StackIs
  <2> HIDE DEF n
  <2>3. n = Len(q)
    BY DEF n
  <2>4. n \in Nat \ {0} /\ n \in 1 .. n
    BY <2>2, <2>3 DEF Takes
  <2> QED BY <2>2, <2>3, <2>4 DEF Takes
<1> HIDE DEF r, v
<1>5. ASSUME NEW i \in 1 .. Len(r)
      PROVE  \/ i \in 1 .. n - 1 /\ r[i] = q[i]
             \/ r[i][1] = "unlock"
             \/ i = Len(r) /\ r[i] = v /\ p \in ValueOps /\ e = t
  <2>1. CASE i \in 1 .. n - 1
    BY <1>3, <2>1
  <2>2. ASSUME NEW j \in 1 .. Len(ops), i = (n - 1) + j
        PROVE  r[i][1] = "unlock" \/ (i = Len(r) /\ r[i] = v /\ p \in ValueOps /\ e = t)
    BY <1>2, <1>3, <2>2
  <2> QED BY <1>3, <2>1, <2>2
<1>6. top[1] \in ValueOps \cup {"unlock"}
  BY DEF IsValue
<1>7. /\ fTodo' \in [F!Threads -> Seq(Works)] /\ fTodo'[t] = r
      /\ \A x \in F!Threads : x # t => fTodo'[x] = fTodo[x]
  BY <1>1, <1>3
<1>8. t = "main" => b # ChainLast + 1 /\ n - 1 \in Nat \ {0} /\ fTodo["main"][1] = <<"build", b>>
  <2> SUFFICES ASSUME t = "main" PROVE b # ChainLast + 1 /\ n - 1 \in Nat \ {0}
                                       /\ fTodo["main"][1] = <<"build", b>>
    OBVIOUS
  <2>1. b # ChainLast + 1
    <3> SUFFICES ASSUME b = ChainLast + 1 PROVE FALSE
      OBVIOUS
    <3>1. q = <<<<"timer", ChainLast>>>>
      BY <1>1 DEF Stacks
    <3>2. top[1] = "timer"
      BY <3>1
    <3> QED BY <1>6, <3>2 DEF ValueOps
  <2>2. fTodo["main"][1] = <<"build", b>>
    BY <2>1 DEF Stacks
  <2>3. n # 1
    BY <1>6, <2>2 DEF ValueOps
  <2> QED BY <1>3, <2>1, <2>2, <2>3
<1>9. ASSUME NEW x \in F!Threads, NEW i \in 1 .. Len(fTodo'[x])
      PROVE  /\ IsValue(fTodo'[x][i]) => x = e /\ i = Len(fTodo'[x]) /\ fTodo'[x][i] = v
             /\ fTodo'[x][i][1] \in {"build", "timer"} => x = "main" /\ i = 1
             /\ fTodo'[x][i][1] = "timeout" =>
                   x = "loop" /\ Len(fTodo'[x]) = 1 /\ fTodo'["main"] = <<>> /\ fTimedOut' = 0
  <2>1. CASE x # t
    <3>1. fTodo'[x] = fTodo[x] /\ i \in 1 .. Len(fTodo[x])
      BY <1>7, <1>9, <2>1
    <3>2. ASSUME IsValue(fTodo[x][i])
          PROVE  x = e /\ i = Len(fTodo[x]) /\ fTodo[x][i] = v
      <4>1. x = a /\ i = Len(fTodo[x]) /\ fTodo[x][i] = <<o, f>>
        BY <3>1, <3>2 DEF Stacks
      <4>2. ~IsValue(top)
        BY <1>3, <2>1, <4>1 DEF Stacks
      <4>3. e = a /\ p = o /\ g = f
        BY <4>2
      <4> QED BY <4>1, <4>3 DEF v
    <3>3. /\ fTodo[x][i][1] \in {"build", "timer"} => x = "main" /\ i = 1
          /\ fTodo[x][i][1] = "timeout" =>
                x = "loop" /\ Len(fTodo[x]) = 1 /\ fTodo["main"] = <<>> /\ fTimedOut = 0
      BY <3>1 DEF Stacks
    <3>4. fTodo["main"] = <<>> => fTodo'["main"] = <<>>
      BY <1>1, <1>7 DEF F!Threads
    <3> QED BY <3>1, <3>2, <3>3, <3>4
  <2>2. CASE x = t
    <3>1. i \in 1 .. Len(r) /\ fTodo'[x][i] = r[i]
      BY <1>7, <1>9, <2>2
    <3>2. CASE i \in 1 .. n - 1 /\ r[i] = q[i]
      <4>1. i \in 1 .. n /\ i # n
        BY <1>3, <3>2
      <4>2. /\ ~IsValue(q[i])
            /\ q[i][1] \in {"build", "timer"} => t = "main" /\ i = 1
        BY <4>1 DEF Stacks
      <4>3. q[i][1] # "timeout"
        <5>1. q[i][1] = "timeout" => n = 1
          BY <4>1 DEF Stacks
        <5> QED BY <1>3, <3>2, <5>1
      <4> QED BY <2>2, <3>1, <3>2, <4>2, <4>3
    <3>3. CASE r[i][1] = "unlock"
      BY <3>1, <3>3 DEF IsValue, ValueOps
    <3>4. CASE i = Len(r) /\ r[i] = v /\ p \in ValueOps /\ e = t
      <4>1. v[1] \in ValueOps
        BY <3>4 DEF v
      <4> QED BY <1>7, <2>2, <3>1, <3>4, <4>1 DEF IsValue, ValueOps
    <3> QED BY <1>5, <3>1, <3>2, <3>3, <3>4
  <2> QED BY <2>1, <2>2
<1>10. p \in ValueOps => e \in F!Threads /\ fTodo'[e] # <<>> /\ fTodo'[e][Len(fTodo'[e])] = v
  <2> SUFFICES ASSUME p \in ValueOps
               PROVE  e \in F!Threads /\ fTodo'[e] # <<>> /\ fTodo'[e][Len(fTodo'[e])] = v
    OBVIOUS
  <2>1. CASE IsValue(top)
    <3>1. top[1] # "unlock"
      BY <2>1 DEF IsValue, ValueOps
    <3>2. e = t /\ Len(ops) \in 1 .. Len(ops) /\ ops[Len(ops)] = v
      BY <3>1 DEF PutsOn, v
    <3>3. r[Len(r)] = v /\ Len(r) # 0
      BY <1>3, <3>2
    <3>4. r # <<>>
      BY <3>3
    <3> QED BY <1>7, <3>2, <3>3, <3>4
  <2>2. CASE ~IsValue(top)
    <3>1. e = a /\ p = o /\ g = f
      BY <2>2
    <3>2. a \in F!Threads /\ fTodo[a] # <<>> /\ fTodo[a][Len(fTodo[a])] = v
      BY <3>1 DEF Stacks, v
    <3>3. a # t
      <4>1. IsValue(v)
        BY DEF IsValue, v
      <4> QED BY <2>2, <3>2, <4>1
    <3> QED BY <1>7, <3>1, <3>2, <3>3
  <2> QED BY <2>1, <2>2
<1>11. IF b = ChainLast + 1 THEN fTodo'["main"] \in {<<>>, <<<<"timer", ChainLast>>>>}
       ELSE fTodo'["main"] # <<>> /\ fTodo'["main"][1] = <<"build", b>>
  <2>1. CASE t = "main"
    <3>1. n - 1 \in Nat \ {0}
      BY <1>8, <2>1
    <3>2. r[1] = q[1] /\ 1 \in 1 .. Len(r)
      <4>1. \A k \in Nat \ {0} : 1 \in 1 .. k
        BY ONLY TRUE
      <4>2. 1 \in 1 .. n - 1
        BY <3>1, <4>1, Zenon
      <4> QED BY <1>3, <4>2
    <3>3. r # <<>>
      BY <1>3, <3>2
    <3> QED BY <1>7, <1>8, <2>1, <3>2, <3>3
  <2>2. CASE t # "main"
    BY <1>7, <2>2 DEF Stacks, F!Threads
  <2> QED BY <2>1, <2>2
<1> HIDE DEF q, n, top
<1> QED BY <1>7, <1>9, <1>10, <1>11 DEF Stacks, v

\* A step that leaves the timeout and what is built: when the value and what is set are
\* as they should be, so is the whole chain.
LEMMA ValueStep ==
    ASSUME NEW b \in 1 .. ChainLast + 1, NEW a, NEW o, NEW f, ChainIs(b, a, o, f),
           fTodo["main"] = <<>> => fTodo'["main"] = <<>>,
           NEW e, NEW p, NEW g, Stacks(b, e, p, g)', ValueIs(b, p, g)',
           UNCHANGED <<fThen, fOnTimeout, fTimedOut>>,
           fRan' \in [1 .. ChainLast - 1 -> Nat], DOMAIN fInner' = ChainInner,
           fProgress' \in [1 .. ChainLast -> {"none", "done", "timeout"}],
           \A h \in 1 .. ChainLast :
              \/ fProgress'[h] = fProgress[h]
              \/ fProgress'[h] = "done" /\ ~(F!IsRoot(h) /\ fProgress[h] = "timeout"),
           b >= ChainLast /\ ChainLast - 1 \notin fThen /\ ~LastIsLate /\ fProgress'[ChainLast] # "done" =>
              e = "main" /\ <<p, g>> \in {<<"run", ChainLast - 1>>, <<"set", ChainLast>>}
    PROVE  ChainIs(b, e, p, g)'
<1>2. BuiltTo(b)'
  <2>1. \A h \in 1 .. ChainLast : fProgress[h] = "done" => fProgress'[h] = "done"
    OBVIOUS
  <2>2. ChainLast \in Nat \ {0, 1} /\ BuiltTo(b)
    BY PeersAssumption DEF ChainIs
  <2> QED BY <2>1, <2>2 DEF BuiltTo
<1>3. TimesOut(b, e, p, g)'
  <2>1. TimesOut(b, a, o, f) /\ ChainLast \in Nat \ {0, 1}
    BY PeersAssumption DEF ChainIs
  <2>2. \A h \in 1 .. ChainLast : fProgress'[h] = "timeout" =>
           b = ChainLast + 1 /\ fTodo'["main"] = <<>>
    BY <2>1 DEF TimesOut
  <2>3. ASSUME fTimedOut' = 1
        PROVE  /\ b = ChainLast + 1 /\ fTodo'["main"] = <<>>
               /\ \E r \in 1 .. ChainLast :
                     r \notin fOnTimeout' /\ fProgress'[r] = "timeout" /\ (r = ChainLast => LastIsLate)
    <3>1. fTimedOut = 1
      BY <2>3
    <3>2. b = ChainLast + 1 /\ fTodo["main"] = <<>>
      BY <2>1, <3>1 DEF TimesOut
    <3>3. PICK r \in 1 .. ChainLast :
          r \notin fOnTimeout /\ fProgress[r] = "timeout" /\ (r = ChainLast => LastIsLate)
      BY <2>1, <3>1 DEF TimesOut
    <3>4. F!IsRoot(r) /\ r \in 1 .. ChainLast
      BY <2>1, <3>3 DEF F!IsRoot
    <3>5. fProgress'[r] = "timeout"
      BY <3>3, <3>4
    <3> QED BY <3>2, <3>3, <3>5
  <2>4. fTimedOut' \in {0, 1}
    BY <2>1 DEF TimesOut
  <2>5. b >= ChainLast /\ ChainLast - 1 \notin fThen' =>
           \/ LastIsLate \/ fProgress'[ChainLast] = "done"
           \/ e = "main" /\ <<p, g>> \in {<<"run", ChainLast - 1>>, <<"set", ChainLast>>}
    OBVIOUS
  <2> QED BY <2>2, <2>3, <2>4, <2>5 DEF TimesOut
<1> QED BY <1>2, <1>3 DEF ChainIs

LEMMA StepIs ==
    ASSUME NEW b \in 1 .. ChainLast + 1, NEW a, NEW o, NEW f, ChainIs(b, a, o, f),
           NEW t \in F!Threads, fTodo[t] # <<>>, NEW ops \in Seq(Works), F!Continue(t, ops),
           NEW e, NEW p, NEW g, Stacks(b, e, p, g)', ValueIs(b, p, g)',
           UNCHANGED <<fThen, fOnTimeout, fTimedOut>>,
           fRan' \in [1 .. ChainLast - 1 -> Nat], DOMAIN fInner' = ChainInner,
           fProgress' \in [1 .. ChainLast -> {"none", "done", "timeout"}],
           \A h \in 1 .. ChainLast :
              \/ fProgress'[h] = fProgress[h]
              \/ fProgress'[h] = "done" /\ ~(F!IsRoot(h) /\ fProgress[h] = "timeout"),
           b >= ChainLast /\ ChainLast - 1 \notin fThen /\ ~LastIsLate /\ fProgress'[ChainLast] # "done" =>
              e = "main" /\ <<p, g>> \in {<<"run", ChainLast - 1>>, <<"set", ChainLast>>}
    PROVE  ChainIs(b, e, p, g)'
<1>1. fTodo["main"] = <<>> => fTodo'["main"] = <<>>
  <2>1. fTodo' = [fTodo EXCEPT ![t] = F!Rest(t) \o ops] /\ fTodo \in [F!Threads -> Seq(Works)]
    BY DEF F!Continue, ChainIs, Stacks
  <2> QED BY <2>1 DEF F!Threads
<1> QED BY <1>1, ValueStep

\* A thread with a value has it to do; whoever waits for the timeout has ended.
LEMMA ValueAt ==
    ASSUME NEW b, NEW a, NEW o, NEW f, ChainIs(b, a, o, f),
           NEW t \in F!Threads, NEW w \in ValueOps, F!Top(t, w)
    PROVE  /\ t = a /\ w = o /\ F!Of(t) = f /\ fTodo[t] # <<>> /\ IsValue(fTodo[t][Len(fTodo[t])])
           /\ b \in 1 .. ChainLast + 1 /\ f \in 1 .. ChainLast /\ ChainLast \in Nat \ {0, 1}
           /\ Stacks(b, a, o, f) /\ ValueIs(b, o, f) /\ BuiltTo(b) /\ TimesOut(b, a, o, f)
           /\ fProgress \in [1 .. ChainLast -> {"none", "done", "timeout"}]
           /\ fRan \in [1 .. ChainLast - 1 -> Nat] /\ DOMAIN fInner = ChainInner
<1>1. Stacks(b, a, o, f)
  BY DEF ChainIs
<1>2. /\ t = a /\ w = o /\ F!Of(t) = f /\ fTodo[t] # <<>> /\ fTodo[t] \in Seq(Works)
      /\ fTodo[t][Len(fTodo[t])] = <<o, f>> /\ o \in ValueOps /\ f \in 1 .. ChainLast
  BY <1>1, TopValue
<1>3. IsValue(fTodo[t][Len(fTodo[t])])
  BY <1>2 DEF IsValue
<1> QED BY <1>2, <1>3, PeersAssumption DEF ChainIs, ValueIs

LEMMA Unlocks ==
    ASSUME NEW b, NEW a, NEW o, NEW f, ChainIs(b, a, o, f),
           NEW t \in F!Threads, F!Unlock(t)
    PROVE  ChainIs(b, a, o, f)'
<1>1. /\ F!Top(t, "unlock") /\ F!Continue(t, <<>>)
      /\ UNCHANGED <<fProgress, fThen, fOnTimeout, fFunctors, fInner, fRan, fTimedOut>>
  BY DEF F!Unlock
<1>2. /\ b \in 1 .. ChainLast + 1 /\ f \in 1 .. ChainLast /\ ChainLast \in Nat \ {0, 1}
      /\ Stacks(b, a, o, f) /\ ValueIs(b, o, f) /\ TimesOut(b, a, o, f)
      /\ fProgress \in [1 .. ChainLast -> {"none", "done", "timeout"}]
      /\ fRan \in [1 .. ChainLast - 1 -> Nat] /\ DOMAIN fInner = ChainInner
  BY PeersAssumption DEF ChainIs, ValueIs
<1>3. /\ fTodo[t] # <<>> /\ fTodo[t][Len(fTodo[t])][1] = "unlock" /\ <<>> \in Seq(Works)
      /\ fTimedOut' = fTimedOut
  BY <1>1 DEF F!Top
<1>5. Stacks(b, a, o, f)'
  BY <1>1, <1>2, <1>3, ValueMoves
<1>6. ValueIs(b, o, f)'
  BY <1>1, <1>2 DEF ValueIs
<1>7. b >= ChainLast /\ ChainLast - 1 \notin fThen /\ ~LastIsLate /\ fProgress'[ChainLast] # "done" =>
         a = "main" /\ <<o, f>> \in {<<"run", ChainLast - 1>>, <<"set", ChainLast>>}
  BY <1>1, <1>2 DEF TimesOut
<1> QED BY <1>1, <1>2, <1>3, <1>5, <1>6, <1>7, StepIs

LEMMA SetsValue ==
    ASSUME NEW b, NEW a, NEW o, NEW f, ChainIs(b, a, o, f),
           NEW t \in F!Threads, F!SetValue(t)
    PROVE  ChainInv'
<1>1. /\ F!Top(t, "set") /\ "set" \in ValueOps
      /\ UNCHANGED <<fThen, fOnTimeout, fFunctors, fInner, fRan, fTimedOut>>
  BY DEF F!SetValue, ValueOps
<1>2. /\ t = a /\ o = "set" /\ F!Of(t) = f /\ fTodo[t] # <<>> /\ IsValue(fTodo[t][Len(fTodo[t])])
      /\ b \in 1 .. ChainLast + 1 /\ f \in 1 .. ChainLast /\ ChainLast \in Nat \ {0, 1}
      /\ Stacks(b, a, o, f) /\ ValueIs(b, o, f) /\ BuiltTo(b) /\ TimesOut(b, a, o, f)
      /\ fProgress \in [1 .. ChainLast -> {"none", "done", "timeout"}]
      /\ fRan \in [1 .. ChainLast - 1 -> Nat] /\ DOMAIN fInner = ChainInner
  BY <1>1, ValueAt
<1>3. fTimedOut' = fTimedOut
  BY <1>1
<1>4. CASE F!IsRoot(f) /\ fProgress[f] # "none"
  <2>1. F!Continue(t, <<>>) /\ UNCHANGED fProgress
    BY <1>2, <1>4 DEF F!SetValue
  <2>2. PutsOn(<<>>, "dead", f) /\ "dead" \notin ValueOps /\ <<>> \in Seq(Works)
    <3>1. "dead" \notin ValueOps
      BY DEF ValueOps
    <3>2. PutsOn(<<>>, "dead", f)
      BY <1>2, <3>1, OpsAre
    <3> QED BY <3>1, <3>2
  <2>3. Stacks(b, "nowhere", "dead", f)'
    BY <1>2, <1>3, <2>1, <2>2, ValueMoves
  <2>4. ValueIs(b, "dead", f)'
    BY <1>1, <1>2, <2>1 DEF ValueIs, IsSet, HasRun, Places, ValueOps
  <2>5. ~(b >= ChainLast /\ ChainLast - 1 \notin fThen /\ ~LastIsLate /\ fProgress'[ChainLast] # "done")
    <3> SUFFICES ASSUME b >= ChainLast, ChainLast - 1 \notin fThen, ~LastIsLate, fProgress[ChainLast] # "done"
                 PROVE  FALSE
      BY <2>1
    <3>1. a = "main" /\ f = ChainLast
      BY <1>2 DEF TimesOut
    <3>2. fProgress[f] = "timeout"
      BY <1>2, <1>4, <3>1
    <3>3. fTodo["main"] = <<>>
      BY <1>2, <3>2 DEF TimesOut
    <3> QED BY <1>2, <3>1, <3>3
  <2>6. ChainIs(b, "nowhere", "dead", f)'
    BY <1>1, <1>2, <2>1, <2>2, <2>3, <2>4, <2>5, StepIs
  <2> QED BY <1>2, <2>6 DEF ChainInv, Places
<1>5. CASE ~(F!IsRoot(f) /\ fProgress[f] # "none")
  <2> SUFFICES ASSUME NEW p, p = (IF f \in fThen THEN F!Called(f) ELSE "rest"),
                      NEW e, e = (IF f \in fThen THEN t ELSE "nowhere"),
                      NEW ops, ops = <<<<"unlock", f>>>> \o
                                  IF f \in fThen THEN <<<<F!Called(f), f>>>> ELSE <<>>
               PROVE  ChainInv'
    OBVIOUS
  <2>1. /\ F!Continue(t, ops)
        /\ fProgress' = [fProgress EXCEPT ![f] = "done"]
    BY <1>2, <1>5 DEF F!SetValue
  <2>2. PutsOn(ops, p, f) /\ (p \in ValueOps <=> f \in fThen) /\ p \in Places
    <3>1. CASE f \in fThen
      <4>1. p \in ValueOps /\ p = F!Called(f) /\ p \in Places
        BY <3>1 DEF F!Called, ValueOps, Places
      <4>2. ops = <<<<"unlock", f>>>> \o <<<<p, f>>>>
        BY <3>1, <4>1
      <4>3. PutsOn(<<<<"unlock", f>>>> \o <<<<p, f>>>>, p, f)
        BY <1>2, <4>1, OpsAre
      <4> QED BY <3>1, <4>1, <4>2, <4>3
    <3>2. CASE f \notin fThen
      <4>1. p \notin ValueOps /\ p \in Places
        BY <3>2 DEF ValueOps, Places
      <4>2. ops = <<<<"unlock", f>>>> \o <<>>
        BY <3>2
      <4>3. PutsOn(<<<<"unlock", f>>>> \o <<>>, p, f)
        BY <1>2, <4>1, OpsAre
      <4> QED BY <3>2, <4>1, <4>2, <4>3
    <3> QED BY <3>1, <3>2
  <2>3. p \in {"schedule", "run", "rest"} /\ (p = "rest" <=> f \notin fThen)
    BY DEF F!Called
  <2>4. p \in ValueOps => e = t
    BY <2>2
  <2>5. ops \in Seq(Works)
    BY <2>2 DEF PutsOn
  <2>6. e \in F!Threads \cup {"nowhere"}
    OBVIOUS
  <2>7. Stacks(b, e, p, f)'
    BY <1>2, <1>3, <2>1, <2>2, <2>4, ValueMoves
  <2>8. f \in fThen => f < b /\ f < ChainLast
    BY <1>2 DEF BuiltTo
  <2>9. f \notin fThen => f \in {b, ChainLast}
    <3> SUFFICES ASSUME f \notin fThen, f # b, f # ChainLast PROVE FALSE
      OBVIOUS
    <3>1. f < b /\ f \in 1 .. ChainLast - 1
      BY <1>2 DEF ValueIs
    <3>2. fProgress[f] = "done"
      BY <1>2, <3>1 DEF BuiltTo
    <3> QED BY <1>2, <3>2 DEF ValueIs, IsSet
  <2>10. ValueIs(b, p, f)'
    <3>1. \A g \in 1 .. ChainLast : fProgress'[g] = "done" <=> IsSet(p, f, g)
      BY <1>2, <2>1, <2>3 DEF ValueIs, IsSet
    <3>2. \A g \in 1 .. ChainLast - 1 : fRan'[g] = IF HasRun(p, f, g) THEN 1 ELSE 0
      BY <1>1, <1>2, <2>3 DEF ValueIs, HasRun
    <3>3. /\ p \in Places /\ (f < b \/ (f = b /\ p \in {"set", "rest", "dead"}))
          /\ (p \notin {"set", "rest", "dead"} => f < ChainLast)
          /\ p \notin {"join", "joined"} /\ (p = "rest" => f \in {b, ChainLast})
      BY <1>2, <2>2, <2>3, <2>8, <2>9 DEF ValueIs
    <3>4. \A g \in ChainInner :
             fInner'[g] \in (IF g < f THEN {"done"}
                             ELSE IF g = f /\ p = "join" THEN {"returned", "done"}
                             ELSE IF g = f /\ p = "joined" THEN {"joined"} ELSE {"none"})
      BY <1>1, <1>2, <3>3 DEF ValueIs
    <3>5. fFunctors' = IF p = "called" THEN <<f>> ELSE <<>>
      BY <1>1, <1>2, <2>3 DEF ValueIs
    <3>6. b \in 1 .. ChainLast + 1 /\ f \in 1 .. ChainLast /\ (p \in {"join", "joined"} => f \in ChainInner)
      BY <1>2, <3>3
    <3> QED BY <3>1, <3>2, <3>3, <3>4, <3>5, <3>6, Zenon DEF ValueIs
  <2>11. \A h \in 1 .. ChainLast :
            \/ fProgress'[h] = fProgress[h]
            \/ fProgress'[h] = "done" /\ ~(F!IsRoot(h) /\ fProgress[h] = "timeout")
    BY <1>2, <1>5, <2>1
  <2>12. ~(b >= ChainLast /\ ChainLast - 1 \notin fThen /\ ~LastIsLate /\ fProgress'[ChainLast] # "done")
    <3> SUFFICES ASSUME b >= ChainLast, ChainLast - 1 \notin fThen, ~LastIsLate, fProgress'[ChainLast] # "done"
                 PROVE  FALSE
      OBVIOUS
    <3>1. fProgress[ChainLast] # "done"
      BY <1>2, <2>1
    <3>2. f = ChainLast
      BY <1>2, <3>1 DEF TimesOut
    <3> QED BY <1>2, <2>1, <3>2
  <2>13. fProgress' \in [1 .. ChainLast -> {"none", "done", "timeout"}]
    BY <1>2, <2>1
  <2>14. fRan' \in [1 .. ChainLast - 1 -> Nat] /\ DOMAIN fInner' = ChainInner
    BY <1>1, <1>2
  <2>15. ChainIs(b, e, p, f)'
    BY <1>1, <1>2, <2>1, <2>5, <2>7, <2>10, <2>11, <2>12, <2>13, <2>14, StepIs
  <2> QED BY <1>2, <2>2, <2>6, <2>15 DEF ChainInv
<1> QED BY <1>4, <1>5

LEMMA Schedules ==
    ASSUME NEW b, NEW a, NEW o, NEW f, ChainIs(b, a, o, f),
           NEW t \in F!Threads, F!Schedule(t)
    PROVE  ChainIs(b, "nowhere", "called", f)'
<1>1. /\ F!Top(t, "schedule") /\ "schedule" \in ValueOps
      /\ F!Continue(t, <<>>) /\ fFunctors' = Append(fFunctors, F!Of(t))
      /\ UNCHANGED <<fProgress, fThen, fOnTimeout, fInner, fRan, fTimedOut>>
  BY DEF F!Schedule, ValueOps
<1>2. /\ t = a /\ o = "schedule" /\ F!Of(t) = f /\ fTodo[t] # <<>> /\ IsValue(fTodo[t][Len(fTodo[t])])
      /\ b \in 1 .. ChainLast + 1 /\ f \in 1 .. ChainLast /\ ChainLast \in Nat \ {0, 1}
      /\ Stacks(b, a, o, f) /\ ValueIs(b, o, f) /\ BuiltTo(b) /\ TimesOut(b, a, o, f)
      /\ fProgress \in [1 .. ChainLast -> {"none", "done", "timeout"}]
      /\ fRan \in [1 .. ChainLast - 1 -> Nat] /\ DOMAIN fInner = ChainInner
  BY <1>1, ValueAt
<1>3. fTimedOut' = fTimedOut /\ "called" \notin ValueOps /\ <<>> \in Seq(Works)
  BY <1>1 DEF ValueOps
<1>4. PutsOn(<<>>, "called", f)
  BY <1>2, <1>3, OpsAre
<1>5. Stacks(b, "nowhere", "called", f)'
  BY <1>1, <1>2, <1>3, <1>4, ValueMoves
<1>6. ValueIs(b, "called", f)'
  <2>1. \A g \in 1 .. ChainLast : fProgress'[g] = "done" <=> IsSet("called", f, g)
    BY <1>1, <1>2 DEF ValueIs, IsSet
  <2>2. \A g \in 1 .. ChainLast - 1 : fRan'[g] = IF HasRun("called", f, g) THEN 1 ELSE 0
    BY <1>1, <1>2 DEF ValueIs, HasRun
  <2>3. fFunctors' = <<f>>
    BY <1>1, <1>2 DEF ValueIs
  <2>4. \A g \in ChainInner : fInner'[g] \in (IF g < f THEN {"done"} ELSE {"none"})
    BY <1>1, <1>2 DEF ValueIs
  <2>5. f < b /\ f < ChainLast /\ "called" \in Places
    BY <1>2 DEF ValueIs, Places
  <2> QED BY <1>2, <2>1, <2>2, <2>3, <2>4, <2>5 DEF ValueIs
<1>7. ~(b >= ChainLast /\ ChainLast - 1 \notin fThen /\ ~LastIsLate /\ fProgress'[ChainLast] # "done")
  BY <1>1, <1>2 DEF TimesOut
<1> QED BY <1>1, <1>2, <1>3, <1>5, <1>6, <1>7, StepIs

\* The callback of future f has run and given a value: the next future is to be set.
LEMMA SetIsNext ==
    ASSUME NEW b \in 1 .. ChainLast + 1, NEW f \in 1 .. ChainLast, f < b, f < ChainLast,
           \A g \in 1 .. ChainLast : fProgress'[g] = "done" <=> g <= f,
           \A g \in 1 .. ChainLast - 1 : fRan'[g] = IF g <= f THEN 1 ELSE 0,
           \A g \in ChainInner : fInner'[g] = IF g <= f THEN "done" ELSE "none",
           fFunctors' = <<>>
    PROVE  ValueIs(b, "set", f + 1)'
<1>1. ChainLast \in Nat \ {0, 1} /\ ChainInner \subseteq Nat
  BY PeersAssumption
<1>2. "set" \in Places /\ f + 1 \in 1 .. ChainLast /\ (f + 1 < b \/ f + 1 = b)
  BY <1>1 DEF Places, ValueOps
<1>3. \A g \in 1 .. ChainLast : fProgress'[g] = "done" <=> IsSet("set", f + 1, g)
  BY <1>1 DEF IsSet
<1>4. \A g \in 1 .. ChainLast - 1 : fRan'[g] = IF HasRun("set", f + 1, g) THEN 1 ELSE 0
  BY <1>1 DEF HasRun
<1>5. \A g \in ChainInner : fInner'[g] \in (IF g < f + 1 THEN {"done"} ELSE {"none"})
  BY <1>1
<1> QED BY <1>2, <1>3, <1>4, <1>5 DEF ValueIs

\* A callback has run: the next future is to be set, or a future was returned.
LEMMA Runs ==
    ASSUME NEW b, NEW a, NEW o, NEW f, ChainIs(b, a, o, f),
           NEW t \in F!Threads, F!Run(t)
    PROVE  ChainInv'
<1>1. /\ F!Top(t, "run") /\ "run" \in ValueOps
      /\ UNCHANGED <<fProgress, fThen, fOnTimeout, fFunctors, fTimedOut>>
  BY DEF F!Run, ValueOps
<1>2. /\ t = a /\ o = "run" /\ F!Of(t) = f /\ fTodo[t] # <<>> /\ IsValue(fTodo[t][Len(fTodo[t])])
      /\ b \in 1 .. ChainLast + 1 /\ f \in 1 .. ChainLast /\ ChainLast \in Nat \ {0, 1}
      /\ Stacks(b, a, o, f) /\ ValueIs(b, o, f) /\ BuiltTo(b) /\ TimesOut(b, a, o, f)
      /\ fProgress \in [1 .. ChainLast -> {"none", "done", "timeout"}]
      /\ fRan \in [1 .. ChainLast - 1 -> Nat] /\ DOMAIN fInner = ChainInner
  BY <1>1, ValueAt
<1>3. fTimedOut' = fTimedOut
  BY <1>1
<1>4. fRan' = [fRan EXCEPT ![f] = @ + 1] /\ f < b /\ f < ChainLast /\ f + 1 \in 1 .. ChainLast
  <2>1. f < b /\ f < ChainLast
    BY <1>2 DEF ValueIs
  <2> QED BY <1>2, <2>1 DEF F!Run
<1>5. \A g \in 1 .. ChainLast - 1 : fRan'[g] = IF g <= f THEN 1 ELSE 0
  <2>1. \A g \in 1 .. ChainLast - 1 : fRan[g] = IF g < f THEN 1 ELSE 0
    BY <1>2 DEF ValueIs, HasRun
  <2> QED BY <1>2, <1>4, <2>1
<1>6. /\ fRan' \in [1 .. ChainLast - 1 -> Nat]
      /\ \A g \in 1 .. ChainLast : fProgress'[g] = "done" <=> g <= f
      /\ fFunctors' = <<>>
  <2>1. \A g \in 1 .. ChainLast : fProgress[g] = "done" <=> g <= f
    BY <1>2 DEF ValueIs, IsSet
  <2>2. fFunctors = <<>>
    BY <1>2 DEF ValueIs
  <2> QED BY <1>1, <1>2, <1>4, <2>1, <2>2
<1>7. \A g \in ChainInner : fInner[g] \in (IF g < f THEN {"done"} ELSE {"none"})
  BY <1>2 DEF ValueIs
<1>8. CASE f \in ChainInner
  <2>1. F!Continue(t, <<<<"join", f>>>>) /\ fInner' = [fInner EXCEPT ![f] = "returned"]
    BY <1>2, <1>8 DEF F!Run
  <2>2. "join" \in ValueOps /\ "join" \in Places
    BY DEF ValueOps, Places
  <2>3. PutsOn(<<<<"join", f>>>>, "join", f)
    BY <1>2, <2>2, OpsAre
  <2>4. Stacks(b, t, "join", f)' /\ <<<<"join", f>>>> \in Seq(Works)
    <3>1. <<<<"join", f>>>> \in Seq(Works)
      BY <2>3 DEF PutsOn
    <3> QED BY <1>2, <1>3, <2>1, <2>2, <2>3, <3>1, ValueMoves
  <2>5. ValueIs(b, "join", f)'
    <3>1. \A g \in 1 .. ChainLast : fProgress'[g] = "done" <=> IsSet("join", f, g)
      BY <1>2, <1>6 DEF IsSet
    <3>2. \A g \in 1 .. ChainLast - 1 : fRan'[g] = IF HasRun("join", f, g) THEN 1 ELSE 0
      BY <1>2, <1>5 DEF HasRun
    <3>3. \A g \in ChainInner : fInner'[g] \in (IF g < f THEN {"done"}
                                 ELSE IF g = f THEN {"returned", "done"} ELSE {"none"})
      BY <1>2, <1>7, <2>1
    <3> QED BY <1>2, <1>4, <1>6, <1>8, <2>2, <3>1, <3>2, <3>3 DEF ValueIs
  <2>6. ~(b >= ChainLast /\ ChainLast - 1 \notin fThen /\ ~LastIsLate /\ fProgress'[ChainLast] # "done")
    <3>1. f # ChainLast - 1 \/ LastIsLate
      BY <1>2, <1>8, PeersAssumption DEF LastIsLate
    <3> QED BY <1>1, <1>2, <3>1 DEF TimesOut
  <2>7. DOMAIN fInner' = ChainInner
    BY <1>2, <2>1
  <2>8. ChainIs(b, t, "join", f)'
    BY <1>1, <1>2, <1>6, <2>1, <2>4, <2>5, <2>6, <2>7, StepIs
  <2> QED BY <1>2, <2>2, <2>8 DEF ChainInv
<1>9. CASE f \notin ChainInner
  <2>1. F!Continue(t, <<<<"set", f + 1>>>>) /\ fInner' = fInner
    BY <1>2, <1>9 DEF F!Run
  <2>2. "set" \in ValueOps /\ "set" \in Places
    BY DEF ValueOps, Places
  <2>3. PutsOn(<<<<"set", f + 1>>>>, "set", f + 1)
    BY <1>4, <2>2, OpsAre
  <2>4. Stacks(b, t, "set", f + 1)' /\ <<<<"set", f + 1>>>> \in Seq(Works)
    <3>1. <<<<"set", f + 1>>>> \in Seq(Works)
      BY <2>3 DEF PutsOn
    <3> QED BY <1>2, <1>3, <1>4, <2>1, <2>2, <2>3, <3>1, ValueMoves
  <2>5. ValueIs(b, "set", f + 1)'
    <3>1. \A g \in ChainInner : g \in Nat /\ g # f
      BY <1>9, PeersAssumption
    <3>2. \A g \in ChainInner : fInner'[g] = IF g <= f THEN "done" ELSE "none"
      BY <1>2, <1>7, <2>1, <3>1
    <3> QED BY <1>2, <1>4, <1>5, <1>6, <3>2, SetIsNext
  <2>6. b >= ChainLast /\ ChainLast - 1 \notin fThen /\ ~LastIsLate /\ fProgress'[ChainLast] # "done" =>
           t = "main" /\ <<"set", f + 1>> \in {<<"run", ChainLast - 1>>, <<"set", ChainLast>>}
    BY <1>1, <1>2 DEF TimesOut
  <2>7. DOMAIN fInner' = ChainInner
    BY <1>2, <2>1
  <2>8. ChainIs(b, t, "set", f + 1)'
    BY <1>1, <1>2, <1>6, <2>1, <2>4, <2>5, <2>6, <2>7, StepIs
  <2> QED BY <1>2, <1>4, <2>2, <2>8 DEF ChainInv
<1> QED BY <1>8, <1>9

\* The future a callback returned is done, or is waited for.
LEMMA Joins ==
    ASSUME NEW b, NEW a, NEW o, NEW f, ChainIs(b, a, o, f),
           NEW t \in F!Threads, F!Join(t)
    PROVE  ChainInv'
<1>1. /\ F!Top(t, "join") /\ "join" \in ValueOps
      /\ UNCHANGED <<fProgress, fThen, fOnTimeout, fFunctors, fRan, fTimedOut>>
  BY DEF F!Join, ValueOps
<1>2. /\ t = a /\ o = "join" /\ F!Of(t) = f /\ fTodo[t] # <<>> /\ IsValue(fTodo[t][Len(fTodo[t])])
      /\ b \in 1 .. ChainLast + 1 /\ f \in 1 .. ChainLast /\ ChainLast \in Nat \ {0, 1}
      /\ Stacks(b, a, o, f) /\ ValueIs(b, o, f) /\ BuiltTo(b) /\ TimesOut(b, a, o, f)
      /\ fProgress \in [1 .. ChainLast -> {"none", "done", "timeout"}]
      /\ fRan \in [1 .. ChainLast - 1 -> Nat] /\ DOMAIN fInner = ChainInner
  BY <1>1, ValueAt
<1>3. /\ fTimedOut' = fTimedOut /\ fRan' \in [1 .. ChainLast - 1 -> Nat]
      /\ ~(b >= ChainLast /\ ChainLast - 1 \notin fThen /\ ~LastIsLate /\ fProgress'[ChainLast] # "done")
  BY <1>1, <1>2 DEF TimesOut
<1>4. /\ f < b /\ f < ChainLast /\ f + 1 \in 1 .. ChainLast /\ f \in ChainInner
      /\ fFunctors' = <<>>
  <2>1. f < b /\ f < ChainLast /\ f \in ChainInner /\ fFunctors = <<>>
    BY <1>2 DEF ValueIs
  <2> QED BY <1>1, <1>2, <2>1
<1>5. /\ \A g \in 1 .. ChainLast : fProgress'[g] = "done" <=> g <= f
      /\ \A g \in 1 .. ChainLast - 1 : fRan'[g] = IF g <= f THEN 1 ELSE 0
  <2>1. \A g \in 1 .. ChainLast : fProgress[g] = "done" <=> g <= f
    BY <1>2 DEF ValueIs, IsSet
  <2>2. \A g \in 1 .. ChainLast - 1 : fRan[g] = IF g <= f THEN 1 ELSE 0
    BY <1>2 DEF ValueIs, HasRun
  <2> QED BY <1>1, <2>1, <2>2
<1>7. \A g \in ChainInner :
         fInner[g] \in (IF g < f THEN {"done"} ELSE IF g = f THEN {"returned", "done"} ELSE {"none"})
  BY <1>2 DEF ValueIs
<1>8. CASE fInner[f] # "done"
  <2>1. F!Continue(t, <<>>) /\ fInner' = [fInner EXCEPT ![f] = "joined"]
    BY <1>2, <1>8 DEF F!Join
  <2>2. "joined" \notin ValueOps /\ "joined" \in Places /\ <<>> \in Seq(Works)
    BY DEF ValueOps, Places
  <2>3. PutsOn(<<>>, "joined", f)
    BY <1>2, <2>2, OpsAre
  <2>4. Stacks(b, "nowhere", "joined", f)'
    BY <1>2, <1>3, <2>1, <2>2, <2>3, ValueMoves
  <2>5. ValueIs(b, "joined", f)'
    <3>1. \A g \in 1 .. ChainLast : fProgress'[g] = "done" <=> IsSet("joined", f, g)
      BY <1>2, <1>5 DEF IsSet
    <3>2. \A g \in 1 .. ChainLast - 1 : fRan'[g] = IF HasRun("joined", f, g) THEN 1 ELSE 0
      BY <1>2, <1>5 DEF HasRun
    <3>3. \A g \in ChainInner : fInner'[g] \in (IF g < f THEN {"done"}
                                 ELSE IF g = f THEN {"joined"} ELSE {"none"})
      BY <1>2, <1>7, <2>1
    <3> QED BY <1>2, <1>4, <2>2, <3>1, <3>2, <3>3 DEF ValueIs
  <2>6. DOMAIN fInner' = ChainInner
    BY <1>2, <2>1
  <2>7. ChainIs(b, "nowhere", "joined", f)'
    BY <1>1, <1>2, <1>3, <2>1, <2>2, <2>4, <2>5, <2>6, StepIs
  <2> QED BY <1>2, <2>2, <2>7 DEF ChainInv
<1>9. CASE fInner[f] = "done"
  <2>1. F!Continue(t, <<<<"set", f + 1>>>>) /\ fInner' = fInner
    BY <1>2, <1>9 DEF F!Join
  <2>2. "set" \in ValueOps /\ "set" \in Places
    BY DEF ValueOps, Places
  <2>3. PutsOn(<<<<"set", f + 1>>>>, "set", f + 1)
    BY <1>4, <2>2, OpsAre
  <2>4. Stacks(b, t, "set", f + 1)' /\ <<<<"set", f + 1>>>> \in Seq(Works)
    <3>1. <<<<"set", f + 1>>>> \in Seq(Works)
      BY <2>3 DEF PutsOn
    <3> QED BY <1>2, <1>3, <1>4, <2>1, <2>2, <2>3, <3>1, ValueMoves
  <2>5. ValueIs(b, "set", f + 1)'
    <3>1. \A g \in ChainInner : fInner'[g] = IF g <= f THEN "done" ELSE "none"
      BY <1>2, <1>7, <1>9, <2>1, PeersAssumption
    <3> QED BY <1>2, <1>4, <1>5, <3>1, SetIsNext
  <2>6. DOMAIN fInner' = ChainInner
    BY <1>2, <2>1
  <2>7. ChainIs(b, t, "set", f + 1)'
    BY <1>1, <1>2, <1>3, <2>1, <2>4, <2>5, <2>6, StepIs
  <2> QED BY <1>2, <1>4, <2>2, <2>7 DEF ChainInv
<1> QED BY <1>8, <1>9

\* The value comes to a thread of its own that has nothing to do.
LEMMA ValueLands ==
    ASSUME NEW b, NEW a, NEW o, NEW f, Stacks(b, a, o, f), o \notin ValueOps,
           NEW t \in {"loop", "inner"}, fTodo[t] = <<>>,
           NEW p \in ValueOps, NEW g \in 1 .. ChainLast,
           fTodo' = [fTodo EXCEPT ![t] = <<<<p, g>>>>], fTimedOut' = fTimedOut
    PROVE  Stacks(b, t, p, g)' /\ (fTodo["main"] = <<>> => fTodo'["main"] = <<>>)
<1> DEFINE v == <<p, g>>
<1>1. v \in Works /\ v[1] = p /\ t \in F!Threads /\ fTodo \in [F!Threads -> Seq(Works)]
  BY DEF Works, ValueOps, Stacks, F!Threads
<1> HIDE DEF v
<1>2. /\ <<v>> \in Seq(Works) /\ Len(<<v>>) = 1 /\ <<v>>[1] = v /\ <<v>> # <<>>
  BY <1>1
<1> DEFINE r == <<v>>
<1>3. r \in Seq(Works) /\ Len(r) = 1 /\ r[1] = v /\ r # <<>>
  BY <1>2
<1>4. fTodo' = [fTodo EXCEPT ![t] = r]
  BY DEF v
<1> HIDE DEF r
<1>5. /\ fTodo' \in [F!Threads -> Seq(Works)] /\ fTodo'[t] = r
      /\ \A x \in F!Threads : x # t => fTodo'[x] = fTodo[x]
  BY <1>1, <1>3, <1>4
<1>6. fTodo'["main"] = fTodo["main"] /\ "main" \in F!Threads
  BY <1>5 DEF F!Threads
<1>7. ASSUME NEW x \in F!Threads, NEW i \in 1 .. Len(fTodo'[x])
      PROVE  /\ IsValue(fTodo'[x][i]) => x = t /\ i = Len(fTodo'[x]) /\ fTodo'[x][i] = v
             /\ fTodo'[x][i][1] \in {"build", "timer"} => x = "main" /\ i = 1
             /\ fTodo'[x][i][1] = "timeout" =>
                   x = "loop" /\ Len(fTodo'[x]) = 1 /\ fTodo'["main"] = <<>> /\ fTimedOut' = 0
  <2>1. CASE x = t
    <3>1. i = 1 /\ fTodo'[x][i] = v /\ Len(fTodo'[x]) = 1
      BY <1>3, <1>5, <1>7, <2>1
    <3>2. v[1] \notin {"build", "timer", "timeout"}
      BY <1>1 DEF ValueOps
    <3> QED BY <2>1, <3>1, <3>2
  <2>2. CASE x # t
    <3>1. fTodo'[x] = fTodo[x] /\ i \in 1 .. Len(fTodo[x])
      BY <1>5, <1>7, <2>2
    <3>2. IsValue(fTodo[x][i]) => fTodo[x][i] = <<o, f>>
      BY <3>1 DEF Stacks
    <3>3. ~IsValue(fTodo[x][i])
      BY <3>2 DEF IsValue
    <3>4. /\ fTodo[x][i][1] \in {"build", "timer"} => x = "main" /\ i = 1
          /\ fTodo[x][i][1] = "timeout" =>
                x = "loop" /\ Len(fTodo[x]) = 1 /\ fTodo["main"] = <<>> /\ fTimedOut = 0
      BY <3>1 DEF Stacks
    <3> QED BY <1>6, <3>1, <3>3, <3>4
  <2> QED BY <2>1, <2>2
<1>8. t \in F!Threads /\ fTodo'[t] # <<>> /\ fTodo'[t][Len(fTodo'[t])] = v
  BY <1>1, <1>3, <1>5
<1>9. IF b = ChainLast + 1 THEN fTodo'["main"] \in {<<>>, <<<<"timer", ChainLast>>>>}
      ELSE fTodo'["main"] # <<>> /\ fTodo'["main"][1] = <<"build", b>>
  BY <1>6 DEF Stacks
<1> QED BY <1>5, <1>6, <1>7, <1>8, <1>9 DEF Stacks, v

\* The loop calls what was scheduled.
LEMMA FunctorRuns ==
    ASSUME NEW b, NEW a, NEW o, NEW f, ChainIs(b, a, o, f), F!RunFunctor
    PROVE  ChainIs(b, "loop", "run", f)'
<1>1. /\ b \in 1 .. ChainLast + 1 /\ f \in 1 .. ChainLast /\ ChainLast \in Nat \ {0, 1}
      /\ Stacks(b, a, o, f) /\ ValueIs(b, o, f) /\ BuiltTo(b) /\ TimesOut(b, a, o, f)
      /\ fProgress \in [1 .. ChainLast -> {"none", "done", "timeout"}]
      /\ fRan \in [1 .. ChainLast - 1 -> Nat] /\ DOMAIN fInner = ChainInner
  BY PeersAssumption DEF ChainIs, ValueIs
<1>2. fFunctors # <<>> /\ fTodo["loop"] = <<>>
  BY DEF F!RunFunctor
<1>3. o = "called" /\ fFunctors = <<f>> /\ f < b /\ f < ChainLast
  BY <1>1, <1>2 DEF ValueIs
<1>4. Head(fFunctors) = f /\ Tail(fFunctors) = <<>>
  BY <1>1, <1>3
<1>5. /\ fTodo' = [fTodo EXCEPT !["loop"] = <<<<"run", f>>>>] /\ fFunctors' = <<>>
      /\ UNCHANGED <<fProgress, fThen, fOnTimeout, fInner, fRan, fTimedOut>>
  BY <1>4 DEF F!RunFunctor
<1>6. o \notin ValueOps /\ "run" \in ValueOps /\ "run" \in Places /\ fTimedOut' = fTimedOut
  BY <1>3, <1>5 DEF ValueOps, Places
<1>7. Stacks(b, "loop", "run", f)' /\ (fTodo["main"] = <<>> => fTodo'["main"] = <<>>)
  BY <1>1, <1>2, <1>5, <1>6, ValueLands
<1>8. ValueIs(b, "run", f)'
  <2>1. \A g \in 1 .. ChainLast : fProgress'[g] = "done" <=> IsSet("run", f, g)
    BY <1>1, <1>3, <1>5 DEF ValueIs, IsSet
  <2>2. \A g \in 1 .. ChainLast - 1 : fRan'[g] = IF HasRun("run", f, g) THEN 1 ELSE 0
    BY <1>1, <1>3, <1>5 DEF ValueIs, HasRun
  <2>3. \A g \in ChainInner : fInner'[g] \in (IF g < f THEN {"done"} ELSE {"none"})
    BY <1>1, <1>3, <1>5 DEF ValueIs
  <2> QED BY <1>1, <1>3, <1>5, <1>6, <2>1, <2>2, <2>3 DEF ValueIs
<1>9. ~(b >= ChainLast /\ ChainLast - 1 \notin fThen /\ ~LastIsLate /\ fProgress'[ChainLast] # "done")
  BY <1>1, <1>3, <1>5 DEF TimesOut
<1> QED BY <1>1, <1>5, <1>7, <1>8, <1>9, ValueStep

\* The future that a callback returned is set: by then the next future of the chain waits
\* for it, or is still to be told.
LEMMA InnerIsSet ==
    ASSUME NEW b, NEW a, NEW o, NEW f, ChainIs(b, a, o, f), F!SetInner
    PROVE  ChainInv'
<1>1. /\ b \in 1 .. ChainLast + 1 /\ f \in 1 .. ChainLast /\ ChainLast \in Nat \ {0, 1}
      /\ Stacks(b, a, o, f) /\ ValueIs(b, o, f) /\ BuiltTo(b) /\ TimesOut(b, a, o, f)
      /\ fProgress \in [1 .. ChainLast -> {"none", "done", "timeout"}]
      /\ fRan \in [1 .. ChainLast - 1 -> Nat] /\ DOMAIN fInner = ChainInner
  BY PeersAssumption DEF ChainIs, ValueIs
<1>2. PICK g \in ChainInner :
        /\ fInner[g] \in {"returned", "joined"}
        /\ fInner' = [fInner EXCEPT ![g] = "done"]
        /\ fTodo' = [fTodo EXCEPT !["inner"] =
                       IF fInner[g] = "joined" THEN <<<<"set", g + 1>>>> ELSE <<>>]
  BY DEF F!SetInner
<1>3. /\ fTodo["inner"] = <<>> /\ UNCHANGED <<fProgress, fThen, fOnTimeout, fFunctors, fRan, fTimedOut>>
  BY DEF F!SetInner
<1>4. g = f /\ o \in {"join", "joined"} /\ (fInner[f] = "joined" <=> o = "joined")
      /\ f < b /\ f < ChainLast /\ f \in ChainInner /\ f + 1 \in 1 .. ChainLast
  <2>1. fInner[g] \in (IF g < f THEN {"done"}
                       ELSE IF g = f /\ o = "join" THEN {"returned", "done"}
                       ELSE IF g = f /\ o = "joined" THEN {"joined"} ELSE {"none"})
    BY <1>1 DEF ValueIs
  <2>2. g = f /\ o \in {"join", "joined"} /\ (fInner[f] = "joined" <=> o = "joined")
    BY <1>2, <2>1
  <2> QED BY <1>1, <2>2 DEF ValueIs
<1>5. /\ \A h \in 1 .. ChainLast : fProgress'[h] = "done" <=> h <= f
      /\ \A h \in 1 .. ChainLast - 1 : fRan'[h] = IF h <= f THEN 1 ELSE 0
      /\ fFunctors' = <<>>
  <2>1. \A h \in 1 .. ChainLast : fProgress[h] = "done" <=> h <= f
    BY <1>1, <1>4 DEF ValueIs, IsSet
  <2>2. \A h \in 1 .. ChainLast - 1 : fRan[h] = IF h <= f THEN 1 ELSE 0
    BY <1>1, <1>4 DEF ValueIs, HasRun
  <2>3. fFunctors = <<>>
    BY <1>1, <1>4 DEF ValueIs
  <2> QED BY <1>3, <2>1, <2>2, <2>3
<1>6. \A h \in ChainInner : fInner'[h] = IF h <= f THEN "done" ELSE "none"
  <2>1. \A h \in ChainInner : fInner[h] \in (IF h < f THEN {"done"}
                                 ELSE IF h = f /\ o = "join" THEN {"returned", "done"}
                                 ELSE IF h = f /\ o = "joined" THEN {"joined"} ELSE {"none"})
    BY <1>1 DEF ValueIs
  <2> QED BY <1>1, <1>2, <1>4, <2>1, PeersAssumption
<1>7. /\ DOMAIN fInner' = ChainInner /\ fRan' \in [1 .. ChainLast - 1 -> Nat]
      /\ fTimedOut' = fTimedOut /\ fProgress' \in [1 .. ChainLast -> {"none", "done", "timeout"}]
      /\ ~(b >= ChainLast /\ ChainLast - 1 \notin fThen /\ ~LastIsLate /\ fProgress'[ChainLast] # "done")
  <2>1. (f # ChainLast - 1 \/ LastIsLate) /\ f # ChainLast
    BY <1>1, <1>4, PeersAssumption DEF LastIsLate
  <2>2. ~(b >= ChainLast /\ ChainLast - 1 \notin fThen /\ ~LastIsLate /\ fProgress'[ChainLast] # "done")
    BY <1>1, <1>3, <1>4, <2>1 DEF TimesOut
  <2> QED BY <1>1, <1>2, <1>3, <2>2
<1>8. CASE o = "joined"
  <2>1. fTodo' = [fTodo EXCEPT !["inner"] = <<<<"set", f + 1>>>>]
    BY <1>2, <1>4, <1>8
  <2>2. o \notin ValueOps /\ "set" \in ValueOps /\ "set" \in Places /\ "inner" \in F!Threads
    BY <1>8 DEF ValueOps, Places, F!Threads
  <2>3. Stacks(b, "inner", "set", f + 1)' /\ (fTodo["main"] = <<>> => fTodo'["main"] = <<>>)
    BY <1>1, <1>3, <1>4, <1>7, <2>1, <2>2, ValueLands
  <2>4. ValueIs(b, "set", f + 1)'
    BY <1>1, <1>4, <1>5, <1>6, SetIsNext
  <2>5. ChainIs(b, "inner", "set", f + 1)'
    BY <1>1, <1>3, <1>7, <2>3, <2>4, ValueStep
  <2> QED BY <1>1, <1>4, <2>2, <2>5 DEF ChainInv
<1>9. CASE o = "join"
  <2>1. fTodo' = fTodo
    <3>1. fTodo' = [fTodo EXCEPT !["inner"] = <<>>]
      BY <1>2, <1>4, <1>9
    <3> QED BY <1>1, <1>3, <3>1 DEF Stacks, F!Threads
  <2>2. Stacks(b, a, o, f)'
    BY <1>1, <1>3, <2>1 DEF Stacks
  <2>3. ValueIs(b, o, f)'
    <3>1. \A h \in 1 .. ChainLast : fProgress'[h] = "done" <=> IsSet(o, f, h)
      BY <1>1, <1>3 DEF ValueIs
    <3>2. \A h \in 1 .. ChainLast - 1 : fRan'[h] = IF HasRun(o, f, h) THEN 1 ELSE 0
      BY <1>1, <1>3 DEF ValueIs
    <3>3. \A h \in ChainInner : fInner'[h] \in (IF h < f THEN {"done"}
                                 ELSE IF h = f THEN {"returned", "done"} ELSE {"none"})
      BY <1>1, <1>6, PeersAssumption
    <3>4. o \in Places
      BY <1>1 DEF ValueIs
    <3> QED BY <1>1, <1>4, <1>5, <1>9, <3>1, <3>2, <3>3, <3>4 DEF ValueIs
  <2>4. ChainIs(b, a, o, f)'
    BY <1>1, <1>3, <1>7, <2>1, <2>2, <2>3, ValueStep
  <2>5. o \in Places /\ a \in F!Threads
    BY <1>1, <1>9 DEF ValueIs, Stacks, ValueOps
  <2> QED BY <1>1, <2>4, <2>5 DEF ChainInv
<1> QED BY <1>4, <1>8, <1>9

\* When main builds or sets its timer, that is all it has to do, and no thread has begun
\* on the timeout.
LEMMA MainIs ==
    ASSUME NEW b, NEW a, NEW o, NEW f, Stacks(b, a, o, f),
           NEW w \in {"build", "timer"}, F!Top("main", w)
    PROVE  /\ fTodo \in [F!Threads -> Seq(Works)] /\ "main" \in F!Threads
           /\ fTodo["main"] # <<>> /\ Len(fTodo["main"]) = 1 /\ fTodo["main"] \in Seq(Works)
           /\ w = "build" => b # ChainLast + 1 /\ F!Of("main") = b
           /\ w = "timer" => b = ChainLast + 1
           /\ o \in ValueOps => a # "main"
           /\ \A t \in F!Threads : \A i \in 1 .. Len(fTodo[t]) : fTodo[t][i][1] # "timeout"
<1> DEFINE q == fTodo["main"]
           n == Len(q)
<1>1. /\ fTodo \in [F!Threads -> Seq(Works)] /\ "main" \in F!Threads
      /\ q \in Seq(Works) /\ q # <<>> /\ n \in Nat \ {0} /\ n \in 1 .. n /\ q[n][1] = w
  <2>1. /\ fTodo \in [F!Threads -> Seq(Works)] /\ "main" \in F!Threads
        /\ q \in Seq(Works) /\ q # <<>> /\ q[n][1] = w
    BY DEF Stacks, F!Threads, F!Top
  <2>2. n \in Nat \ {0}
    BY <2>1, EmptySeq
  <2> QED BY <2>1, <2>2
<1>2. n = 1
  BY <1>1 DEF Stacks
<1>3. b = ChainLast + 1 => q = <<<<"timer", ChainLast>>>>
  BY <1>1 DEF Stacks
<1>4. b # ChainLast + 1 => q[1] = <<"build", b>>
  BY DEF Stacks
<1>5. /\ w = "build" => b # ChainLast + 1 /\ F!Of("main") = b
      /\ w = "timer" => b = ChainLast + 1
  <2>1. b = ChainLast + 1 => q[1][1] = "timer"
    BY <1>3
  <2>2. b # ChainLast + 1 => q[1][1] = "build" /\ q[1][2] = b
    BY <1>4
  <2> QED BY <1>1, <1>2, <2>1, <2>2 DEF F!Of
<1>6. ASSUME o \in ValueOps, a = "main" PROVE FALSE
  <2>1. q[n] = <<o, f>>
    BY <1>6 DEF Stacks
  <2>2. q[n][1] = o
    BY <2>1
  <2> QED BY <1>1, <1>6, <2>2 DEF ValueOps
<1>7. \A t \in F!Threads : \A i \in 1 .. Len(fTodo[t]) : fTodo[t][i][1] # "timeout"
  BY <1>1 DEF Stacks
<1> QED BY <1>1, <1>2, <1>5, <1>6, <1>7

\* What replaces the only work on a stack is the whole stack.
LEMMA OnlyWork ==
    ASSUME NEW q \in Seq(Works), Len(q) = 1, q # <<>>, NEW ops \in Seq(Works)
    PROVE  SubSeq(q, 1, Len(q) - 1) \o ops = ops
<1> DEFINE r == SubSeq(q, 1, Len(q) - 1) \o ops
<1>1. Takes(q, ops, r)
  BY StackIs
<1> HIDE DEF r
<1>2. r \in Seq(Works) /\ Len(r) = Len(ops) /\ Len(ops) \in Nat
  BY <1>1 DEF Takes
<1>3. \A i \in 1 .. Len(r) : r[i] = ops[i]
  BY <1>1, <1>2 DEF Takes
<1>4. r = ops
  BY <1>2, <1>3, SeqEqual
<1> QED BY <1>4 DEF r

LEMMA StacksAre ==
    ASSUME NEW b, NEW a, NEW o, NEW f, fTodo' \in [F!Threads -> Seq(Works)],
           \A t \in F!Threads : \A i \in 1 .. Len(fTodo'[t]) :
              /\ IsValue(fTodo'[t][i]) => t = a /\ i = Len(fTodo'[t]) /\ fTodo'[t][i] = <<o, f>>
              /\ fTodo'[t][i][1] \in {"build", "timer"} => t = "main" /\ i = 1
              /\ fTodo'[t][i][1] # "timeout",
           o \in ValueOps => a \in F!Threads /\ fTodo'[a] # <<>> /\ fTodo'[a][Len(fTodo'[a])] = <<o, f>>,
           IF b = ChainLast + 1 THEN fTodo'["main"] \in {<<>>, <<<<"timer", ChainLast>>>>}
           ELSE fTodo'["main"] # <<>> /\ fTodo'["main"][1] = <<"build", b>>
    PROVE  Stacks(b, a, o, f)'
  BY DEF Stacks

\* Main goes on to the next future, or to the timer; the value stays where it is.
LEMMA MainGoes ==
    ASSUME NEW b, NEW a, NEW o, NEW f, Stacks(b, a, o, f), F!Top("main", "build"),
           NEW c \in 1 .. ChainLast + 1,
           NEW w \in Works, w = (IF c = ChainLast + 1 THEN <<"timer", ChainLast>> ELSE <<"build", c>>),
           fTodo' = [fTodo EXCEPT !["main"] = <<w>>], fTimedOut' = fTimedOut
    PROVE  Stacks(c, a, o, f)'
<1>1. /\ fTodo \in [F!Threads -> Seq(Works)] /\ "main" \in F!Threads
      /\ (o \in ValueOps => a # "main")
      /\ \A t \in F!Threads : \A i \in 1 .. Len(fTodo[t]) : fTodo[t][i][1] # "timeout"
  BY MainIs
<1>2. w[1] \in {"build", "timer"}
  OBVIOUS
<1> DEFINE r == <<w>>
<1>3. r \in Seq(Works) /\ Len(r) = 1 /\ r[1] = w /\ r # <<>>
  OBVIOUS
<1>4. fTodo' = [fTodo EXCEPT !["main"] = r]
  OBVIOUS
<1>5. c = ChainLast + 1 => r = <<<<"timer", ChainLast>>>>
  OBVIOUS
<1>6. c # ChainLast + 1 => w = <<"build", c>>
  OBVIOUS
<1> HIDE DEF r
<1>7. /\ fTodo' \in [F!Threads -> Seq(Works)] /\ fTodo'["main"] = r
      /\ \A x \in F!Threads : x # "main" => fTodo'[x] = fTodo[x]
  BY <1>1, <1>3, <1>4
<1>8. ASSUME NEW x \in F!Threads, NEW i \in 1 .. Len(fTodo'[x])
      PROVE  /\ IsValue(fTodo'[x][i]) => x = a /\ i = Len(fTodo'[x]) /\ fTodo'[x][i] = <<o, f>>
             /\ fTodo'[x][i][1] \in {"build", "timer"} => x = "main" /\ i = 1
             /\ fTodo'[x][i][1] # "timeout"
  <2>1. CASE x = "main"
    <3>1. i = 1 /\ fTodo'[x][i] = w
      BY <1>3, <1>7, <1>8, <2>1
    <3> QED BY <1>2, <2>1, <3>1 DEF IsValue, ValueOps
  <2>2. CASE x # "main"
    <3>1. fTodo'[x] = fTodo[x] /\ i \in 1 .. Len(fTodo[x])
      BY <1>7, <1>8, <2>2
    <3> QED BY <1>1, <3>1 DEF Stacks
  <2> QED BY <2>1, <2>2
<1>9. ASSUME o \in ValueOps
      PROVE  a \in F!Threads /\ fTodo'[a] # <<>> /\ fTodo'[a][Len(fTodo'[a])] = <<o, f>>
  <2>1. a \in F!Threads /\ fTodo[a] # <<>> /\ fTodo[a][Len(fTodo[a])] = <<o, f>>
    BY <1>9 DEF Stacks
  <2> QED BY <1>1, <1>7, <1>9, <2>1
<1>10. IF c = ChainLast + 1 THEN fTodo'["main"] \in {<<>>, <<<<"timer", ChainLast>>>>}
       ELSE fTodo'["main"] # <<>> /\ fTodo'["main"][1] = <<"build", c>>
  BY <1>3, <1>5, <1>6, <1>7
<1> QED BY <1>7, <1>8, <1>9, <1>10, StacksAre

\* Main calls the callback of a future it finds done.
LEMMA MainCalls ==
    ASSUME NEW b, NEW a, NEW o, NEW f, Stacks(b, a, o, f), F!Top("main", "build"),
           o \notin ValueOps, NEW c \in 1 .. ChainLast,
           NEW p \in ValueOps, NEW g \in 1 .. ChainLast, NEW r,
           r \in Seq(Works), Len(r) = 2, r[1] = <<"build", c>>, r[2] = <<p, g>>,
           fTodo' = [fTodo EXCEPT !["main"] = r], fTimedOut' = fTimedOut
    PROVE  Stacks(c, "main", p, g)'
<1>1. /\ fTodo \in [F!Threads -> Seq(Works)] /\ "main" \in F!Threads
      /\ \A t \in F!Threads : \A i \in 1 .. Len(fTodo[t]) : fTodo[t][i][1] # "timeout"
  BY MainIs
<1>2. /\ fTodo' \in [F!Threads -> Seq(Works)] /\ fTodo'["main"] = r
      /\ \A x \in F!Threads : x # "main" => fTodo'[x] = fTodo[x]
  BY <1>1
<1>3. r[1][1] = "build" /\ r[2][1] = p
  OBVIOUS
<1>4. ASSUME NEW x \in F!Threads, NEW i \in 1 .. Len(fTodo'[x])
      PROVE  /\ IsValue(fTodo'[x][i]) => x = "main" /\ i = Len(fTodo'[x]) /\ fTodo'[x][i] = <<p, g>>
             /\ fTodo'[x][i][1] \in {"build", "timer"} => x = "main" /\ i = 1
             /\ fTodo'[x][i][1] # "timeout"
  <2>1. CASE x = "main"
    <3>1. fTodo'[x] = r /\ (i = 1 \/ i = 2)
      <4>1. fTodo'[x] = r
        BY <1>2, <2>1
      <4>2. i \in 1 .. 2
        BY <4>1
      <4> QED BY <4>1, <4>2
    <3>2. p \notin {"build", "timer", "timeout"} /\ "build" \notin ValueOps
      BY DEF ValueOps
    <3> QED BY <1>3, <2>1, <3>1, <3>2 DEF IsValue
  <2>2. CASE x # "main"
    <3>1. fTodo'[x] = fTodo[x] /\ i \in 1 .. Len(fTodo[x])
      BY <1>2, <1>4, <2>2
    <3>2. IsValue(fTodo[x][i]) => fTodo[x][i] = <<o, f>>
      BY <3>1 DEF Stacks
    <3>3. ~IsValue(fTodo[x][i])
      BY <3>2 DEF IsValue
    <3>4. fTodo[x][i][1] \in {"build", "timer"} => x = "main" /\ i = 1
      BY <3>1 DEF Stacks
    <3> QED BY <1>1, <3>1, <3>3, <3>4
  <2> QED BY <2>1, <2>2
<1>5. "main" \in F!Threads /\ fTodo'["main"] # <<>> /\ fTodo'["main"][Len(fTodo'["main"])] = <<p, g>>
      /\ c # ChainLast + 1 /\ fTodo'["main"][1] = <<"build", c>>
  <2>1. r # <<>>
    OBVIOUS
  <2>2. c # ChainLast + 1
    BY PeersAssumption
  <2> QED BY <1>1, <1>2, <2>1, <2>2
<1> QED BY <1>2, <1>4, <1>5 DEF Stacks

\* Main gives the next future its callback, or calls it where the value is.
LEMMA Builds ==
    ASSUME NEW b, NEW a \in F!Threads \cup {"nowhere"}, NEW o, NEW f,
           ChainIs(b, a, o, f), F!Then
    PROVE  ChainInv'
<1> SUFFICES ASSUME NEW c, c = b + 1 PROVE ChainInv'
  OBVIOUS
<1>1. /\ b \in 1 .. ChainLast + 1 /\ f \in 1 .. ChainLast /\ ChainLast \in Nat \ {0, 1}
      /\ Stacks(b, a, o, f) /\ ValueIs(b, o, f) /\ BuiltTo(b) /\ TimesOut(b, a, o, f)
      /\ fProgress \in [1 .. ChainLast -> {"none", "done", "timeout"}]
      /\ fRan \in [1 .. ChainLast - 1 -> Nat] /\ DOMAIN fInner = ChainInner
  BY PeersAssumption DEF ChainIs, ValueIs
<1>2. F!Top("main", "build") /\ UNCHANGED <<fProgress, fFunctors, fInner, fRan, fTimedOut>>
  BY DEF F!Then
<1>3. /\ fTodo \in [F!Threads -> Seq(Works)]
      /\ fTodo["main"] # <<>> /\ Len(fTodo["main"]) = 1 /\ fTodo["main"] \in Seq(Works)
      /\ F!Of("main") = b /\ (o \in ValueOps => a # "main")
  BY <1>1, <1>2, MainIs
<1>4. b < ChainLast /\ c \in 1 .. ChainLast /\ b \in 1 .. ChainLast - 1
  BY <1>1, <1>3 DEF F!Then
<1>5. /\ \A g \in 1 .. ChainLast : fProgress[g] # "timeout"
      /\ fTimedOut = 0 /\ fTimedOut' = fTimedOut
  BY <1>1, <1>2, <1>4 DEF TimesOut
<1>6. ASSUME NEW ops \in Seq(Works), F!Continue("main", ops)
      PROVE  fTodo' = [fTodo EXCEPT !["main"] = ops]
  BY <1>3, <1>6, OnlyWork DEF F!Continue, F!Rest
<1>7. CASE fProgress[b] = "done"
  <2>1. f = b /\ o = "rest"
    BY <1>1, <1>4, <1>7 DEF ValueIs, IsSet
  <2> SUFFICES ASSUME NEW p, p = F!Called(b) PROVE ChainInv'
    OBVIOUS
  <2>2. p \in {"schedule", "run"} /\ p \in ValueOps /\ p \in Places
    BY DEF F!Called, ValueOps, Places
  <2> DEFINE u == <<"build", c>>
             v == <<p, b>>
  <2>3. u \in Works /\ v \in Works
    BY <1>1, <1>4, <2>2 DEF Works
  <2>4. /\ F!Continue("main", <<u, v>>) /\ UNCHANGED <<fThen, fOnTimeout>>
    BY <1>3, <1>7 DEF F!Then
  <2>5. /\ <<u, v>> \in Seq(Works) /\ Len(<<u, v>>) = 2 /\ <<u, v>>[1] = u /\ <<u, v>>[2] = v
    <3> HIDE DEF u, v
    <3> QED BY <2>3
  <2>6. fTodo' = [fTodo EXCEPT !["main"] = <<u, v>>]
    BY <1>6, <2>4, <2>5
  <2>7. o \notin ValueOps
    BY <2>1 DEF ValueOps
  <2>8. Stacks(c, "main", p, b)'
    <3> DEFINE r == <<u, v>>
    <3>1. /\ r \in Seq(Works) /\ Len(r) = 2 /\ r[1] = <<"build", c>> /\ r[2] = <<p, b>>
          /\ fTodo' = [fTodo EXCEPT !["main"] = r]
      BY <2>5, <2>6
    <3> HIDE DEF r
    <3>2. c \in 1 .. ChainLast /\ b \in 1 .. ChainLast /\ fTimedOut' = fTimedOut
      BY <1>1, <1>4, <1>5
    <3>3. Stacks(b, a, o, f) /\ F!Top("main", "build")
      BY <1>1, <1>2
    <3> QED BY <2>2, <2>7, <3>1, <3>2, <3>3, MainCalls
  <2>9. ValueIs(c, p, b)'
    <3>1. \A g \in 1 .. ChainLast : fProgress'[g] = "done" <=> IsSet(p, b, g)
      BY <1>1, <1>2, <2>1, <2>2 DEF ValueIs, IsSet
    <3>2. \A g \in 1 .. ChainLast - 1 : fRan'[g] = IF HasRun(p, b, g) THEN 1 ELSE 0
      BY <1>1, <1>2, <2>1, <2>2 DEF ValueIs, HasRun
    <3>3. \A g \in ChainInner : fInner'[g] \in (IF g < b THEN {"done"} ELSE {"none"})
      BY <1>1, <1>2, <2>1 DEF ValueIs
    <3>4. fFunctors' = <<>>
      BY <1>1, <1>2, <2>1 DEF ValueIs
    <3>5. c \in 1 .. ChainLast + 1 /\ b \in 1 .. ChainLast /\ b < c
      BY <1>1, <1>4
    <3> HIDE DEF u, v
    <3> QED BY <1>4, <2>2, <3>1, <3>2, <3>3, <3>4, <3>5 DEF ValueIs
  <2>10. BuiltTo(c)'
    BY <1>1, <1>2, <1>4, <1>7, <2>4 DEF BuiltTo
  <2>11. TimesOut(c, "main", p, b)'
    <3>1. c >= ChainLast /\ ~LastIsLate => p = "run" /\ b = ChainLast - 1
      <4>1. c >= ChainLast /\ ~LastIsLate => b \notin ChainSched /\ b = ChainLast - 1
        BY <1>1, <1>4, PeersAssumption DEF LastIsLate
      <4> QED BY <1>1, <1>4, <4>1 DEF F!Called
    <3> QED BY <1>2, <1>5, <3>1 DEF TimesOut
  <2>12. ChainIs(c, "main", p, b)'
    BY <1>1, <1>2, <2>8, <2>9, <2>10, <2>11 DEF ChainIs
  <2>13. "main" \in F!Threads /\ c \in 1 .. ChainLast + 1
    BY <1>1, <1>4 DEF F!Threads
  <2> QED BY <1>1, <2>2, <2>12, <2>13 DEF ChainInv
<1>8. CASE fProgress[b] # "done"
  <2>1. /\ F!Continue("main", <<<<"build", c>>>>)
        /\ fOnTimeout' = fOnTimeout \cup {c} /\ fThen' = fThen \cup {b}
    BY <1>3, <1>8 DEF F!Then
  <2> DEFINE w == <<"build", c>>
  <2>2. w \in Works /\ c \in 1 .. ChainLast + 1 /\ c # ChainLast + 1
    BY <1>1, <1>4 DEF Works
  <2>3. <<w>> \in Seq(Works)
    BY <2>2
  <2>4. fTodo' = [fTodo EXCEPT !["main"] = <<w>>]
    BY <1>6, <2>1, <2>3
  <2>5. Stacks(c, a, o, f)'
    BY <1>1, <1>2, <1>5, <2>2, <2>4, MainGoes
  <2>6. o # "rest" /\ (f < b \/ f = b)
    BY <1>1, <1>4, <1>8 DEF ValueIs, IsSet
  <2>7. ValueIs(c, o, f)'
    <3>1. f < c /\ c \in 1 .. ChainLast + 1
      BY <1>1, <1>4, <2>6
    <3> QED BY <1>1, <1>2, <2>6, <3>1 DEF ValueIs
  <2>8. BuiltTo(c)'
    <3>1. fThen' \subseteq 1 .. ChainLast - 1 /\ \A g \in fThen' : g < c
      <4>1. fThen \subseteq 1 .. ChainLast - 1 /\ \A g \in fThen : g < b
        BY <1>1 DEF BuiltTo
      <4> QED BY <1>1, <1>4, <2>1, <4>1
    <3>2. fOnTimeout' = {g + 1 : g \in fThen'}
      BY <1>1, <2>1 DEF BuiltTo
    <3>3. \A g \in 1 .. ChainLast - 1 : g < c /\ g \notin fThen' => fProgress'[g] = "done"
      BY <1>1, <1>2, <1>4, <2>1 DEF BuiltTo
    <3> QED BY <3>1, <3>2, <3>3 DEF BuiltTo
  <2>9. TimesOut(c, a, o, f)'
    BY <1>1, <1>2, <1>4, <1>5, <2>1 DEF TimesOut
  <2>10. ChainIs(c, a, o, f)'
    BY <1>1, <1>2, <2>5, <2>7, <2>8, <2>9 DEF ChainIs
  <2>11. c \in 1 .. ChainLast + 1 /\ f \in 1 .. ChainLast /\ o \in Places
    BY <1>1, <1>4 DEF ValueIs
  <2> QED BY <2>10, <2>11 DEF ChainInv
<1> QED BY <1>7, <1>8

\* Main has built the chain and asks for the timeout.
LEMMA AsksTimeout ==
    ASSUME NEW b, NEW a \in F!Threads \cup {"nowhere"}, NEW o, NEW f,
           ChainIs(b, a, o, f), F!OnTimeout
    PROVE  ChainInv'
<1>1. /\ b \in 1 .. ChainLast + 1 /\ f \in 1 .. ChainLast /\ ChainLast \in Nat \ {0, 1}
      /\ Stacks(b, a, o, f) /\ ValueIs(b, o, f) /\ BuiltTo(b) /\ TimesOut(b, a, o, f)
      /\ fProgress \in [1 .. ChainLast -> {"none", "done", "timeout"}]
      /\ fRan \in [1 .. ChainLast - 1 -> Nat] /\ DOMAIN fInner = ChainInner
  BY PeersAssumption DEF ChainIs, ValueIs
<1>2. /\ F!Top("main", "build") /\ F!Of("main") = ChainLast
      /\ F!Continue("main", <<<<"timer", ChainLast>>>>)
      /\ UNCHANGED <<fProgress, fThen, fOnTimeout, fFunctors, fInner, fRan, fTimedOut>>
  BY DEF F!OnTimeout
<1>3. /\ fTodo["main"] # <<>> /\ Len(fTodo["main"]) = 1 /\ fTodo["main"] \in Seq(Works)
      /\ b = ChainLast
  BY <1>1, <1>2, MainIs
<1> DEFINE w == <<"timer", ChainLast>>
           c == ChainLast + 1
<1>4. w \in Works /\ c \in 1 .. ChainLast + 1 /\ <<w>> \in Seq(Works) /\ fTimedOut' = fTimedOut
  <2>1. w \in Works
    BY <1>1 DEF Works
  <2> QED BY <1>1, <1>2, <2>1
<1>5. fTodo' = [fTodo EXCEPT !["main"] = <<w>>]
  BY <1>2, <1>3, <1>4, OnlyWork DEF F!Continue, F!Rest
<1>6. Stacks(c, a, o, f)'
  BY <1>1, <1>2, <1>4, <1>5, MainGoes
<1>7. /\ \A g \in 1 .. ChainLast : fProgress[g] # "timeout"
      /\ fTimedOut = 0
  BY <1>1, <1>3 DEF TimesOut
<1>8. ValueIs(c, o, f)'
  <2>1. f < c
    BY <1>1
  <2>2. o = "rest" => f \in {c, ChainLast}
    BY <1>1, <1>3 DEF ValueIs
  <2> QED BY <1>1, <1>2, <1>4, <2>1, <2>2 DEF ValueIs
<1>9. BuiltTo(c)'
  <2>1. fThen' = fThen /\ fProgress' = fProgress /\ fOnTimeout' = fOnTimeout
    BY <1>2
  <2>2. /\ fThen \subseteq 1 .. ChainLast - 1 /\ fOnTimeout = {g + 1 : g \in fThen}
        /\ \A g \in fThen : g < ChainLast
        /\ \A g \in 1 .. ChainLast - 1 : g < ChainLast /\ g \notin fThen => fProgress[g] = "done"
    BY <1>1, <1>3 DEF BuiltTo
  <2>3. \A g \in fThen : g < c
    BY <1>1, <2>2
  <2>4. \A g \in 1 .. ChainLast - 1 : g \notin fThen => fProgress[g] = "done"
    BY <1>1, <2>2
  <2> HIDE DEF c
  <2> QED BY <2>1, <2>2, <2>3, <2>4, Zenon DEF BuiltTo
<1>10. TimesOut(c, a, o, f)'
  BY <1>1, <1>2, <1>3, <1>7 DEF TimesOut
<1>11. ChainIs(c, a, o, f)'
  BY <1>1, <1>2, <1>6, <1>8, <1>9, <1>10 DEF ChainIs
<1>12. o \in Places
  BY <1>1 DEF ValueIs
<1> QED BY <1>1, <1>4, <1>11, <1>12 DEF ChainInv

\* The timer fires: main has ended, and the timeout begins at the last future.
LEMMA Fires ==
    ASSUME NEW b, NEW a \in F!Threads \cup {"nowhere"}, NEW o, NEW f,
           ChainIs(b, a, o, f), F!TimerFires
    PROVE  ChainInv'
<1>1. /\ b \in 1 .. ChainLast + 1 /\ f \in 1 .. ChainLast /\ ChainLast \in Nat \ {0, 1}
      /\ Stacks(b, a, o, f) /\ ValueIs(b, o, f) /\ BuiltTo(b) /\ TimesOut(b, a, o, f)
      /\ fProgress \in [1 .. ChainLast -> {"none", "done", "timeout"}]
      /\ fRan \in [1 .. ChainLast - 1 -> Nat] /\ DOMAIN fInner = ChainInner
  BY PeersAssumption DEF ChainIs, ValueIs
<1> DEFINE w == <<"timeout", ChainLast>>
           r == <<w>>
<1>2. /\ F!Top("main", "timer") /\ fTodo["loop"] = <<>>
      /\ fTodo' = [fTodo EXCEPT !["main"] = <<>>, !["loop"] = r]
      /\ UNCHANGED <<fProgress, fThen, fOnTimeout, fFunctors, fInner, fRan, fTimedOut>>
  BY DEF F!TimerFires
<1>3. /\ fTodo \in [F!Threads -> Seq(Works)] /\ fTodo["main"] # <<>> /\ b = ChainLast + 1
      /\ (o \in ValueOps => a # "main")
      /\ \A t \in F!Threads : \A i \in 1 .. Len(fTodo[t]) : fTodo[t][i][1] # "timeout"
  BY <1>1, <1>2, MainIs
<1>4. fTimedOut = 0 /\ \A g \in 1 .. ChainLast : fProgress[g] # "timeout"
  BY <1>1, <1>3 DEF TimesOut
<1>5. w \in Works /\ w[1] = "timeout"
  BY <1>1 DEF Works
<1>6. r \in Seq(Works) /\ Len(r) = 1 /\ r[1] = w
  <2> HIDE DEF w
  <2> QED BY <1>5
<1> HIDE DEF w, r
<1>7. /\ fTodo' \in [F!Threads -> Seq(Works)] /\ fTodo'["main"] = <<>> /\ fTodo'["loop"] = r
      /\ \A t \in F!Threads : t \notin {"main", "loop"} => fTodo'[t] = fTodo[t]
  BY <1>2, <1>3, <1>6 DEF F!Threads
<1>8. o \in ValueOps => a # "loop"
  BY <1>1, <1>2 DEF Stacks
<1>9. ASSUME NEW t \in F!Threads, NEW i \in 1 .. Len(fTodo'[t])
      PROVE  /\ IsValue(fTodo'[t][i]) => t = a /\ i = Len(fTodo'[t]) /\ fTodo'[t][i] = <<o, f>>
             /\ fTodo'[t][i][1] \in {"build", "timer"} => t = "main" /\ i = 1
             /\ fTodo'[t][i][1] = "timeout" =>
                   t = "loop" /\ Len(fTodo'[t]) = 1 /\ fTodo'["main"] = <<>> /\ fTimedOut' = 0
  <2>1. CASE t = "main"
    BY <1>7, <1>9, <2>1
  <2>2. CASE t = "loop"
    <3>1. i = 1 /\ fTodo'[t][i] = w /\ Len(fTodo'[t]) = 1
      <4>1. fTodo'[t] = r
        BY <1>7, <2>2
      <4>2. i \in 1 .. 1
        BY <1>6, <4>1
      <4> QED BY <1>6, <4>1, <4>2
    <3> QED BY <1>2, <1>4, <1>5, <1>7, <2>2, <3>1 DEF IsValue, ValueOps
  <2>3. CASE t \notin {"main", "loop"}
    <3>1. fTodo'[t] = fTodo[t] /\ i \in 1 .. Len(fTodo[t])
      BY <1>7, <1>9, <2>3
    <3> QED BY <1>1, <1>3, <3>1 DEF Stacks
  <2> QED BY <2>1, <2>2, <2>3
<1>10. Stacks(b, a, o, f)'
  <2>1. o \in ValueOps =>
           a \in F!Threads /\ fTodo'[a] # <<>> /\ fTodo'[a][Len(fTodo'[a])] = <<o, f>>
    <3> SUFFICES ASSUME o \in ValueOps
                 PROVE  a \in F!Threads /\ fTodo'[a] # <<>> /\ fTodo'[a][Len(fTodo'[a])] = <<o, f>>
      OBVIOUS
    <3>1. a \in F!Threads /\ fTodo[a] # <<>> /\ fTodo[a][Len(fTodo[a])] = <<o, f>>
      BY <1>1 DEF Stacks
    <3> QED BY <1>3, <1>7, <1>8, <3>1
  <2> QED BY <1>3, <1>7, <1>9, <2>1 DEF Stacks
<1>11. ValueIs(b, o, f)' /\ BuiltTo(b)'
  BY <1>1, <1>2 DEF ValueIs, BuiltTo
<1>12. TimesOut(b, a, o, f)'
  BY <1>1, <1>2, <1>3, <1>4, <1>7 DEF TimesOut
<1>13. ChainIs(b, a, o, f)'
  BY <1>1, <1>2, <1>10, <1>11, <1>12 DEF ChainIs
<1>14. o \in Places
  BY <1>1 DEF ValueIs
<1> QED BY <1>1, <1>13, <1>14 DEF ChainInv

\* The loop's stack when the timeout goes on, or has ended.
LEMMA TimeoutIs ==
    ASSUME NEW b, NEW a, NEW o, NEW f, Stacks(b, a, o, f), F!Top("loop", "timeout")
    PROVE  /\ fTodo \in [F!Threads -> Seq(Works)] /\ "loop" \in F!Threads /\ fTodo["main"] = <<>>
           /\ fTodo["loop"] # <<>> /\ Len(fTodo["loop"]) = 1 /\ fTodo["loop"] \in Seq(Works)
           /\ F!Of("loop") \in 1 .. ChainLast /\ fTimedOut = 0
           /\ o \in ValueOps => a # "loop" /\ a # "main"
<1> DEFINE q == fTodo["loop"]
           n == Len(q)
<1>1. /\ fTodo \in [F!Threads -> Seq(Works)] /\ "loop" \in F!Threads
      /\ q \in Seq(Works) /\ q # <<>> /\ n \in Nat \ {0} /\ n \in 1 .. n /\ q[n][1] = "timeout"
  <2>1. /\ fTodo \in [F!Threads -> Seq(Works)] /\ "loop" \in F!Threads
        /\ q \in Seq(Works) /\ q # <<>> /\ q[n][1] = "timeout"
    BY DEF Stacks, F!Threads, F!Top
  <2>2. n \in Nat \ {0}
    BY <2>1, EmptySeq
  <2> QED BY <2>1, <2>2
<1>2. n = 1 /\ fTodo["main"] = <<>> /\ fTimedOut = 0
  BY <1>1 DEF Stacks
<1>3. q[n] \in Works
  BY <1>1, ElementOfSeq
<1>4. F!Of("loop") \in 1 .. ChainLast
  BY <1>3 DEF F!Of, Works
<1>5. ASSUME o \in ValueOps PROVE a # "loop" /\ a # "main"
  <2>1. fTodo[a] # <<>> /\ fTodo[a][Len(fTodo[a])] = <<o, f>>
    BY <1>5 DEF Stacks
  <2>2. fTodo[a][Len(fTodo[a])][1] = o /\ o # "timeout"
    BY <1>5, <2>1 DEF ValueOps
  <2> QED BY <1>1, <1>2, <2>1, <2>2
<1> QED BY <1>1, <1>2, <1>4, <1>5

LEMMA TimeoutGoes ==
    ASSUME NEW b, NEW a, NEW o, NEW f, Stacks(b, a, o, f), F!Top("loop", "timeout"),
           NEW ops, F!Continue("loop", ops), fTimedOut' \in {0, 1},
           \/ ops = <<>>
           \/ \E g \in 1 .. ChainLast : ops = <<<<"timeout", g>>>> /\ fTimedOut' = 0
    PROVE  Stacks(b, a, o, f)' /\ fTodo'["main"] = <<>>
<1>1. /\ fTodo \in [F!Threads -> Seq(Works)] /\ "loop" \in F!Threads /\ fTodo["main"] = <<>>
      /\ fTodo["loop"] # <<>> /\ Len(fTodo["loop"]) = 1 /\ fTodo["loop"] \in Seq(Works)
      /\ o \in ValueOps => a # "loop" /\ a # "main"
  BY TimeoutIs
<1>2. /\ ops \in Seq(Works) /\ Len(ops) \in {0, 1}
      /\ Len(ops) = 1 => ops[1][1] = "timeout" /\ fTimedOut' = 0
  <2>1. CASE ops = <<>>
    BY <2>1
  <2>2. ASSUME NEW g \in 1 .. ChainLast, ops = <<<<"timeout", g>>>>, fTimedOut' = 0
        PROVE  ops \in Seq(Works) /\ Len(ops) = 1 /\ ops[1][1] = "timeout"
    <3> DEFINE w == <<"timeout", g>>
    <3>1. w \in Works /\ w[1] = "timeout" /\ ops = <<w>>
      BY <2>2 DEF Works
    <3> HIDE DEF w
    <3> QED BY <3>1
  <2> QED BY <2>1, <2>2
<1>3. fTodo' = [fTodo EXCEPT !["loop"] = ops]
  BY <1>1, <1>2, OnlyWork DEF F!Continue, F!Rest
<1>4. /\ fTodo' \in [F!Threads -> Seq(Works)] /\ fTodo'["loop"] = ops
      /\ \A t \in F!Threads : t # "loop" => fTodo'[t] = fTodo[t]
      /\ fTodo'["main"] = fTodo["main"]
  BY <1>1, <1>2, <1>3 DEF F!Threads
<1>5. ASSUME NEW t \in F!Threads, NEW i \in 1 .. Len(fTodo'[t])
      PROVE  /\ IsValue(fTodo'[t][i]) => t = a /\ i = Len(fTodo'[t]) /\ fTodo'[t][i] = <<o, f>>
             /\ fTodo'[t][i][1] \in {"build", "timer"} => t = "main" /\ i = 1
             /\ fTodo'[t][i][1] = "timeout" =>
                   t = "loop" /\ Len(fTodo'[t]) = 1 /\ fTodo'["main"] = <<>> /\ fTimedOut' = 0
  <2>1. CASE t = "loop"
    <3>1. fTodo'[t] = ops
      BY <1>4, <2>1
    <3>2. i = 1 /\ Len(ops) = 1
      BY <1>2, <1>5, <3>1
    <3> QED BY <1>1, <1>2, <1>4, <2>1, <3>1, <3>2 DEF IsValue, ValueOps
  <2>2. CASE t # "loop"
    <3>1. fTodo'[t] = fTodo[t] /\ i \in 1 .. Len(fTodo[t])
      BY <1>4, <1>5, <2>2
    <3>2. fTodo[t][i][1] # "timeout"
      BY <2>2, <3>1 DEF Stacks
    <3> QED BY <3>1, <3>2 DEF Stacks
  <2> QED BY <2>1, <2>2
<1>6. o \in ValueOps =>
         a \in F!Threads /\ fTodo'[a] # <<>> /\ fTodo'[a][Len(fTodo'[a])] = <<o, f>>
  <2> SUFFICES ASSUME o \in ValueOps
               PROVE  a \in F!Threads /\ fTodo'[a] # <<>> /\ fTodo'[a][Len(fTodo'[a])] = <<o, f>>
    OBVIOUS
  <2>1. a \in F!Threads /\ fTodo[a] # <<>> /\ fTodo[a][Len(fTodo[a])] = <<o, f>>
    BY DEF Stacks
  <2> QED BY <1>1, <1>4, <2>1
<1>7. IF b = ChainLast + 1 THEN fTodo'["main"] \in {<<>>, <<<<"timer", ChainLast>>>>}
      ELSE fTodo'["main"] # <<>> /\ fTodo'["main"][1] = <<"build", b>>
  BY <1>4 DEF Stacks
<1>8. Stacks(b, a, o, f)'
  BY <1>4, <1>5, <1>6, <1>7 DEF Stacks
<1> QED BY <1>1, <1>4, <1>8

\* The timeout comes to a future: it takes one that has no value.
LEMMA TimesOutAt ==
    ASSUME NEW b, NEW a \in F!Threads \cup {"nowhere"}, NEW o, NEW f,
           ChainIs(b, a, o, f), F!Timeout
    PROVE  ChainInv'
<1>1. /\ b \in 1 .. ChainLast + 1 /\ f \in 1 .. ChainLast /\ ChainLast \in Nat \ {0, 1}
      /\ Stacks(b, a, o, f) /\ ValueIs(b, o, f) /\ BuiltTo(b) /\ TimesOut(b, a, o, f)
      /\ fProgress \in [1 .. ChainLast -> {"none", "done", "timeout"}]
      /\ fRan \in [1 .. ChainLast - 1 -> Nat] /\ DOMAIN fInner = ChainInner /\ o \in Places
  BY PeersAssumption DEF ChainIs, ValueIs
<1>2. F!Top("loop", "timeout") /\ UNCHANGED <<fThen, fOnTimeout, fFunctors, fInner, fRan>>
  BY DEF F!Timeout
<1>3. /\ fTodo["main"] = <<>> /\ F!Of("loop") \in 1 .. ChainLast /\ fTimedOut = 0
      /\ "main" \in F!Threads /\ (o \in ValueOps => a # "main") /\ b = ChainLast + 1
  <2>1. /\ fTodo["main"] = <<>> /\ F!Of("loop") \in 1 .. ChainLast /\ fTimedOut = 0
        /\ (o \in ValueOps => a # "main")
    BY <1>1, <1>2, TimeoutIs
  <2> QED BY <1>1, <2>1 DEF Stacks, F!Threads
<1> SUFFICES ASSUME NEW g \in 1 .. ChainLast, g = F!Of("loop") PROVE ChainInv'
  BY <1>3
<1>4. CASE fProgress[g] # "none"
  <2>1. F!Continue("loop", <<>>) /\ UNCHANGED <<fProgress, fTimedOut>>
    BY <1>4 DEF F!Timeout
  <2>2. Stacks(b, a, o, f)' /\ fTodo'["main"] = <<>>
    BY <1>1, <1>2, <1>3, <2>1, TimeoutGoes
  <2>3. ValueIs(b, o, f)'
    BY <1>1, <1>2, <2>1 DEF ValueIs
  <2>4. b >= ChainLast /\ ChainLast - 1 \notin fThen /\ ~LastIsLate /\ fProgress'[ChainLast] # "done" =>
           a = "main" /\ <<o, f>> \in {<<"run", ChainLast - 1>>, <<"set", ChainLast>>}
    BY <1>1, <2>1 DEF TimesOut
  <2>5. ChainIs(b, a, o, f)'
    BY <1>1, <1>2, <2>1, <2>2, <2>3, <2>4, ValueStep
  <2> QED BY <1>1, <2>5 DEF ChainInv
<1>5. CASE fProgress[g] = "none"
  <2>1. fProgress' = [fProgress EXCEPT ![g] = "timeout"]
    BY <1>5 DEF F!Timeout
  <2>2. /\ fProgress' \in [1 .. ChainLast -> {"none", "done", "timeout"}]
        /\ \A h \in 1 .. ChainLast : fProgress'[h] = "done" <=> fProgress[h] = "done"
        /\ fProgress'[g] = "timeout"
    BY <1>1, <1>5, <2>1
  <2>3. ValueIs(b, o, f)'
    <3>1. \A h \in 1 .. ChainLast : fProgress'[h] = "done" <=> IsSet(o, f, h)
      BY <1>1, <2>2 DEF ValueIs
    <3>2. /\ \A h \in 1 .. ChainLast - 1 : fRan'[h] = IF HasRun(o, f, h) THEN 1 ELSE 0
          /\ f < b \/ (f = b /\ o \in {"set", "rest", "dead"})
          /\ o \notin {"set", "rest", "dead"} => f < ChainLast
          /\ o \in {"join", "joined"} => f \in ChainInner
          /\ o = "rest" => f \in {b, ChainLast}
          /\ fFunctors' = IF o = "called" THEN <<f>> ELSE <<>>
      BY <1>1, <1>2 DEF ValueIs
    <3>3. \A h \in ChainInner :
             fInner'[h] \in (IF h < f THEN {"done"}
                             ELSE IF h = f /\ o = "join" THEN {"returned", "done"}
                             ELSE IF h = f /\ o = "joined" THEN {"joined"} ELSE {"none"})
      BY <1>1, <1>2 DEF ValueIs
    <3> QED BY <1>1, <3>1, <3>2, <3>3, Zenon DEF ValueIs
  <2>4. BuiltTo(b)'
    <3>1. /\ fThen' \subseteq 1 .. ChainLast - 1 /\ fOnTimeout' = {h + 1 : h \in fThen'}
          /\ \A h \in fThen' : h < b
      BY <1>1, <1>2 DEF BuiltTo
    <3>2. \A h \in 1 .. ChainLast - 1 : h \in 1 .. ChainLast
      BY <1>1
    <3>3. \A h \in 1 .. ChainLast - 1 : h < b /\ h \notin fThen' => fProgress'[h] = "done"
      BY <1>1, <1>2, <2>2, <3>2 DEF BuiltTo
    <3> QED BY <3>1, <3>3 DEF BuiltTo
  <2>5. ChainLast - 1 \notin fThen => LastIsLate \/ fProgress'[ChainLast] = "done"
    <3> SUFFICES ASSUME ChainLast - 1 \notin fThen, ~LastIsLate PROVE fProgress[ChainLast] = "done"
      BY <1>1, <2>2
    <3>1. b >= ChainLast
      BY <1>1, <1>3
    <3>2. ~(a = "main" /\ <<o, f>> \in {<<"run", ChainLast - 1>>, <<"set", ChainLast>>})
      BY <1>3 DEF ValueOps
    <3> QED BY <1>1, <3>1, <3>2 DEF TimesOut
  <2>6. ASSUME fTodo'["main"] = <<>>, fTimedOut' \in {0, 1},
               fTimedOut' = 1 => g \notin fOnTimeout /\ (g = ChainLast => LastIsLate)
        PROVE  TimesOut(b, a, o, f)'
    BY <1>1, <1>2, <1>3, <2>2, <2>5, <2>6 DEF TimesOut
  <2>7. CASE F!IsRoot(g)
    <3>1. F!Continue("loop", <<>>) /\ fTimedOut' = 1
      BY <1>3, <1>5, <2>7 DEF F!Timeout
    <3>2. Stacks(b, a, o, f)' /\ fTodo'["main"] = <<>>
      BY <1>1, <1>2, <3>1, TimeoutGoes
    <3>3. g \notin fOnTimeout
      BY <2>7 DEF F!IsRoot
    <3>5. g = ChainLast => LastIsLate
      <4> SUFFICES ASSUME g = ChainLast, ~LastIsLate PROVE FALSE
        OBVIOUS
      <4>1. ChainLast - 1 \notin fThen
        BY <1>1, <3>3 DEF BuiltTo
      <4> QED BY <2>2, <2>5, <4>1
    <3>6. ChainIs(b, a, o, f)'
      BY <1>1, <1>2, <2>2, <2>3, <2>4, <2>6, <3>1, <3>2, <3>3, <3>5 DEF ChainIs
    <3> QED BY <1>1, <3>6 DEF ChainInv
  <2>8. CASE ~F!IsRoot(g)
    <3>1. F!Continue("loop", <<<<"timeout", g - 1>>>>) /\ fTimedOut' = 0
      BY <1>3, <1>5, <2>8 DEF F!Timeout
    <3>2. g - 1 \in 1 .. ChainLast
      <4>1. g \in fOnTimeout
        BY <2>8 DEF F!IsRoot
      <4>2. PICK h \in fThen : g = h + 1
        BY <1>1, <4>1 DEF BuiltTo
      <4>3. h \in 1 .. ChainLast - 1
        BY <1>1 DEF BuiltTo
      <4> QED BY <1>1, <4>2, <4>3
    <3>3. Stacks(b, a, o, f)' /\ fTodo'["main"] = <<>>
      BY <1>1, <1>2, <3>1, <3>2, TimeoutGoes
    <3>4. ChainIs(b, a, o, f)'
      BY <1>1, <1>2, <2>2, <2>3, <2>4, <2>6, <3>1, <3>3 DEF ChainIs
    <3> QED BY <1>1, <3>4 DEF ChainInv
  <2> QED BY <2>7, <2>8
<1> QED BY <1>1, <1>4, <1>5

\* No thread has begun: main is to give the first future its callback, and its value is
\* to be set.
LEMMA ChainInit == F!Init => ChainInv
<1> SUFFICES ASSUME F!Init PROVE ChainIs(1, "setter", "set", 1)
  BY PeersAssumption DEF ChainInv, F!Threads, Places, ValueOps
<1>1. ChainLast \in Nat \ {0, 1}
  BY PeersAssumption
<1> DEFINE u == <<"build", 1>>
           v == <<"set", 1>>
<1>2. u \in Works /\ v \in Works /\ u[1] = "build" /\ v[1] = "set" /\ <<>> \in Seq(Works)
  BY <1>1 DEF Works
<1>3. fTodo = [t \in F!Threads |-> CASE t = "main" -> <<u>> [] t = "setter" -> <<v>> [] OTHER -> <<>>]
  BY DEF F!Init
<1> HIDE DEF u, v
<1>4. /\ fTodo \in [F!Threads -> Seq(Works)]
      /\ fTodo["main"] = <<u>> /\ fTodo["setter"] = <<v>>
      /\ \A t \in F!Threads : t \notin {"main", "setter"} => fTodo[t] = <<>>
  BY <1>2, <1>3 DEF F!Threads
<1>5. ASSUME NEW t \in F!Threads, NEW i \in 1 .. Len(fTodo[t])
      PROVE  i = 1 /\ Len(fTodo[t]) = 1
             /\ ((t = "main" /\ fTodo[t][i] = u) \/ (t = "setter" /\ fTodo[t][i] = v))
  <2>1. CASE t = "main"
    <3>1. Len(fTodo[t]) = 1
      BY <1>4, <2>1
    <3>2. i \in 1 .. 1
      BY <3>1
    <3> QED BY <1>4, <2>1, <3>1, <3>2
  <2>2. CASE t = "setter"
    <3>1. Len(fTodo[t]) = 1
      BY <1>4, <2>2
    <3>2. i \in 1 .. 1
      BY <3>1
    <3> QED BY <1>4, <2>2, <3>1, <3>2
  <2>3. CASE t \notin {"main", "setter"}
    <3>1. Len(fTodo[t]) = 0
      BY <1>4, <2>3
    <3>2. i \in 1 .. 0
      BY <3>1
    <3> QED BY <3>2
  <2> QED BY <2>1, <2>2, <2>3
<1>6. Stacks(1, "setter", "set", 1)
  <2>1. fTodo["setter"] # <<>> /\ fTodo["setter"][Len(fTodo["setter"])] = v /\ "setter" \in F!Threads
    BY <1>4 DEF F!Threads
  <2>2. fTodo["main"] # <<>> /\ fTodo["main"][1] = u /\ 1 # ChainLast + 1
    BY <1>1, <1>4
  <2>3. ASSUME NEW t \in F!Threads, NEW i \in 1 .. Len(fTodo[t])
        PROVE  /\ IsValue(fTodo[t][i]) => t = "setter" /\ i = Len(fTodo[t]) /\ fTodo[t][i] = v
               /\ fTodo[t][i][1] \in {"build", "timer"} => t = "main" /\ i = 1
               /\ fTodo[t][i][1] # "timeout"
    BY <1>2, <1>5 DEF IsValue, ValueOps
  <2> QED BY <1>4, <2>1, <2>2, <2>3 DEF Stacks, u, v
<1>7. /\ fProgress = [g \in 1 .. ChainLast |-> "none"] /\ fThen = {} /\ fOnTimeout = {}
      /\ fFunctors = <<>> /\ fInner = [g \in ChainInner |-> "none"]
      /\ fRan = [g \in 1 .. ChainLast - 1 |-> 0] /\ fTimedOut = 0
  BY DEF F!Init, F!Futures
<1>8. ValueIs(1, "set", 1)
  <2>1. \A g \in ChainInner : g \in Nat /\ ~(g < 1)
    BY PeersAssumption
  <2>2. \A g \in ChainInner : fInner[g] = "none"
    BY <1>7
  <2>3. \A g \in 1 .. ChainLast : fProgress[g] = "done" <=> IsSet("set", 1, g)
    BY <1>1, <1>7 DEF IsSet
  <2>4. \A g \in 1 .. ChainLast - 1 : fRan[g] = IF HasRun("set", 1, g) THEN 1 ELSE 0
    BY <1>1, <1>7 DEF HasRun
  <2>5. "set" \in Places /\ 1 \in 1 .. ChainLast + 1 /\ 1 \in 1 .. ChainLast
    BY <1>1 DEF Places, ValueOps
  <2> QED BY <1>7, <2>1, <2>2, <2>3, <2>4, <2>5 DEF ValueIs
<1>9. BuiltTo(1)
  BY <1>1, <1>7 DEF BuiltTo
<1>10. TimesOut(1, "setter", "set", 1)
  BY <1>1, <1>7 DEF TimesOut
<1> QED BY <1>6, <1>7, <1>8, <1>9, <1>10 DEF ChainIs

LEMMA CollectInit == F!Init => CollectInv
<1> SUFFICES ASSUME F!Init PROVE CollectInv
  OBVIOUS
<1>1. fCounted = <<>> /\ fResults = <<>> /\ fCollected = <<>>
  BY DEF F!Init
<1>2. Needs \in Nat \ {0}
  BY PeersAssumption
<1> QED BY <1>1, <1>2 DEF CollectInv

\* Every step of a thread, of main, of the timer and of the loop.
LEMMA ChainKept == ASSUME ChainInv, F!ChainNext PROVE ChainInv'
<1> PICK b \in 1 .. ChainLast + 1, a \in F!Threads \cup {"nowhere"}, o \in Places,
         f \in 1 .. ChainLast : ChainIs(b, a, o, f)
  BY Zenon DEF ChainInv
<1>1. ASSUME NEW t \in F!Threads, F!Step(t) PROVE ChainInv'
  <2>1. CASE F!SetValue(t)
    BY <2>1, SetsValue
  <2>2. CASE F!Unlock(t)
    <3>1. ChainIs(b, a, o, f)'
      BY <2>2, Unlocks
    <3> QED BY <3>1 DEF ChainInv
  <2>3. CASE F!Schedule(t)
    <3>1. ChainIs(b, "nowhere", "called", f)' /\ "called" \in Places
      BY <2>3, Schedules DEF Places
    <3> QED BY <3>1 DEF ChainInv
  <2>4. CASE F!Run(t)
    BY <2>4, Runs
  <2>5. CASE F!Join(t)
    BY <2>5, Joins
  <2> QED BY <1>1, <2>1, <2>2, <2>3, <2>4, <2>5 DEF F!Step
<1>2. CASE F!Then
  BY <1>2, Builds
<1>3. CASE F!OnTimeout
  BY <1>3, AsksTimeout
<1>4. CASE F!TimerFires
  BY <1>4, Fires
<1>5. CASE F!Timeout
  BY <1>5, TimesOutAt
<1>6. CASE F!RunFunctor
  <2>1. ChainIs(b, "loop", "run", f)' /\ "run" \in Places /\ "loop" \in F!Threads
    BY <1>6, FunctorRuns DEF Places, ValueOps, F!Threads
  <2> QED BY <2>1 DEF ChainInv
<1>7. CASE F!SetInner
  BY <1>7, InnerIsSet
<1> QED BY <1>1, <1>2, <1>3, <1>4, <1>5, <1>6, <1>7 DEF F!ChainNext

\* When the timeout has run, a root has no value.  If that is not the last future, the
\* last callback has not run; none runs twice.
LEMMA ChainHolds == ChainInv => F!NotBoth
<1> SUFFICES ASSUME NEW b, NEW a, NEW o, NEW f, ChainIs(b, a, o, f) PROVE F!NotBoth
  BY Zenon DEF ChainInv
<1>1. /\ ChainLast \in Nat \ {0, 1} /\ f \in 1 .. ChainLast
      /\ fRan \in [1 .. ChainLast - 1 -> Nat] /\ fTimedOut \in {0, 1}
      /\ ValueIs(b, o, f) /\ TimesOut(b, a, o, f)
  BY PeersAssumption DEF ChainIs, ValueIs, TimesOut
<1>2. \A g \in 1 .. ChainLast - 1 : fRan[g] = IF HasRun(o, f, g) THEN 1 ELSE 0
  BY <1>1 DEF ValueIs
<1>3. \A g \in DOMAIN fRan : fRan[g] <= 1
  BY <1>1, <1>2
<1>4. F!yy = ChainLast - 1 /\ ChainLast - 1 \in 1 .. ChainLast - 1
  BY <1>1 DEF F!yy
<1> DEFINE excused == F!IsRoot(ChainLast) /\ F!yy \in ChainInner \cup ChainSched
<1>5. fTimedOut = 1 /\ ~excused => fRan[ChainLast - 1] = 0
  <2> SUFFICES ASSUME fTimedOut = 1, ~excused PROVE fRan[ChainLast - 1] = 0
    OBVIOUS
  <2>1. PICK r \in 1 .. ChainLast - 1 : fProgress[r] = "timeout"
    <3>1. PICK r \in 1 .. ChainLast :
          r \notin fOnTimeout /\ fProgress[r] = "timeout" /\ (r = ChainLast => LastIsLate)
      BY <1>1 DEF TimesOut
    <3>2. r # ChainLast
      BY <1>4, <3>1 DEF F!IsRoot, LastIsLate
    <3> QED BY <1>1, <3>1, <3>2
  <2>2. r \in 1 .. ChainLast /\ ~IsSet(o, f, r)
    BY <1>1, <2>1 DEF ValueIs
  <2>3. ~HasRun(o, f, ChainLast - 1)
    BY <1>1, <2>2 DEF IsSet, HasRun
  <2> QED BY <1>2, <1>4, <2>3
<1>6. fTimedOut + fRan[F!yy] <= 1 \/ excused
  <2>1. fRan[ChainLast - 1] \in {0, 1}
    BY <1>2, <1>4
  <2> QED BY <1>1, <1>4, <1>5, <2>1
<1> QED BY <1>3, <1>6 DEF F!NotBoth

\* What a chain is depends on the chain alone.
LEMMA ChainStays ==
    ASSUME ChainInv,
           UNCHANGED <<fProgress, fThen, fOnTimeout, fTodo, fFunctors, fInner, fRan, fTimedOut>>
    PROVE  ChainInv'
<1> PICK b \in 1 .. ChainLast + 1, a \in F!Threads \cup {"nowhere"}, o \in Places,
         f \in 1 .. ChainLast : ChainIs(b, a, o, f)
  BY Zenon DEF ChainInv
<1>1. Stacks(b, a, o, f)' /\ TimesOut(b, a, o, f)'
  BY DEF ChainIs, Stacks, TimesOut
<1>2. ValueIs(b, o, f)' /\ BuiltTo(b)'
  BY DEF ChainIs, ValueIs, BuiltTo
<1>3. ChainIs(b, a, o, f)'
  BY <1>1, <1>2 DEF ChainIs
<1> QED BY <1>3 DEF ChainInv

-----------------------------------------------------------------------------
(***************************************************************************)
(* The proxy.                                                              *)
(***************************************************************************)
Withs == {<<"proxy">>, <<"dead">>, <<"nothing">>} \cup ({"reply"} \X Nat)
Answers == [to : Nat, with : Withs, by : {"client", "other", "nobody"}]
Requests == [client : Clients, kind : P!Kinds]

\* Numbers of requests, none after a later one; and all of the first n.
Rises(q) == \A i, j \in 1 .. Len(q) : i < j => q[i] < q[j]
AmongFirst(q, n) == \A i \in 1 .. Len(q) : q[i] \in 1 .. n

ByProxy(a) == a.with = <<"proxy">>

\* All of q are later than what some answers, but for the proxy's own answers.
Later(q, some) ==
    \A i \in 1 .. Len(some) : ByProxy(some[i]) \/ \A j \in 1 .. Len(q) : some[i].to < q[j]

\* Answers to the first n requests in their order, each the request's own unless that
\* is one of strays.
OwnAnswer(a, n, strays) ==
    /\ a.to \in 1 .. n
    /\ \/ a.to \in strays
       \/ a.by = "client" /\ a.with \in {<<"proxy">>, <<"dead">>, <<"reply", a.to>>}
Own(some, n, strays) ==
    /\ \A i \in 1 .. Len(some) : OwnAnswer(some[i], n, strays)
    /\ \A i, j \in 1 .. Len(some) :
          i < j /\ ~ByProxy(some[i]) /\ ~ByProxy(some[j]) => some[i].to < some[j].to

\* What may wait for the server or be pending there, beside the answers given.
Queue(q, some, n) == q \in Seq(Nat) /\ Rises(q) /\ AmongFirst(q, n) /\ Later(q, some)
Given(some, n, strays) == some \in Seq(Answers) /\ Own(some, n, strays)

\* How far the connection is tells which requests wait for it, which are pending on
\* it, and that the server has these alone to answer, unless a reply came in parts.
LinkHas ==
    \/ pLink = "none" /\ pWaiting = <<>> /\ pPending = <<>> /\ pServer = <<>>
    \/ pLink = "connecting" /\ pPending = <<>> /\ pServer = <<>>
    \/ pLink = "up" /\ pWaiting = <<>> /\ (pSplit \/ pServer = pPending)
    \/ pLink = "closing" /\ pWaiting = <<>>

ProxyInv ==
    /\ pRequests \in Seq(Requests) /\ pServer \in Seq(Nat)
    /\ pSplit \in BOOLEAN /\ pCrashed \in BOOLEAN
    /\ pSplit \/ pCrashed => pAstray # {}
    /\ LinkHas
    /\ Given(pAnswers, Len(pRequests), pAstray)
    /\ Queue(pWaiting, pAnswers, Len(pRequests))
    /\ Queue(pPending, pAnswers, Len(pRequests))

\* A request more: it is later than all others.
LEMMA QueueMore ==
    ASSUME NEW n \in Nat, NEW some, NEW strays, Given(some, n, strays), NEW q, Queue(q, some, n)
    PROVE  /\ Given(some, n + 1, strays) /\ Queue(q, some, n + 1)
           /\ Queue(q \o <<n + 1>>, some, n + 1)
           /\ Queue(<<n + 1>>, some, n + 1)
           /\ Queue(<<>>, some, n)
<1> DEFINE p == q \o <<n + 1>>
<1>1. /\ Len(q) \in Nat /\ p \in Seq(Nat) /\ Len(p) = Len(q) + 1
      /\ \A i \in 1 .. Len(q) + 1 : p[i] = IF i <= Len(q) THEN q[i] ELSE n + 1
      /\ \A i \in 1 .. Len(q) : q[i] \in 1 .. n
  <2>1. <<n + 1>> \in Seq(Nat) /\ Len(<<n + 1>>) = 1 /\ <<n + 1>>[1] = n + 1
    OBVIOUS
  <2>2. q \in Seq(Nat) /\ Len(q) \in Nat
    BY DEF Queue
  <2>3. /\ p \in Seq(Nat) /\ Len(p) = Len(q) + 1
        /\ \A i \in 1 .. Len(q) + 1 :
              p[i] = IF i <= Len(q) THEN q[i] ELSE <<n + 1>>[i - Len(q)]
    BY <2>1, <2>2, ConcatProperties
  <2> HIDE DEF p
  <2>4. ASSUME NEW i \in 1 .. Len(q) + 1, ~(i <= Len(q)) PROVE p[i] = n + 1
    BY <2>1, <2>2, <2>3, <2>4
  <2> QED BY <2>2, <2>3, <2>4 DEF Queue, AmongFirst
<1> HIDE DEF p
<1>2. ASSUME NEW i \in 1 .. Len(some) PROVE some[i].to \in Nat /\ some[i].to < n + 1
  BY DEF Given, Own, OwnAnswer
<1>3. Rises(p) /\ AmongFirst(p, n + 1)
  <2>1. ASSUME NEW i \in 1 .. Len(p), NEW j \in 1 .. Len(p), i < j PROVE p[i] < p[j]
    <3>1. i \in 1 .. Len(q) /\ p[i] = q[i] /\ q[i] \in 1 .. n
      BY <1>1, <2>1
    <3>2. CASE j \in 1 .. Len(q)
      <4>1. p[j] = q[j] /\ q[i] < q[j]
        BY <1>1, <2>1, <3>1, <3>2 DEF Queue, Rises
      <4> QED BY <3>1, <4>1
    <3>3. CASE j \notin 1 .. Len(q)
      BY <1>1, <3>1, <3>3
    <3> QED BY <3>2, <3>3
  <2>2. AmongFirst(p, n + 1)
    BY <1>1 DEF AmongFirst
  <2> QED BY <2>1, <2>2 DEF Rises
<1>4. Later(p, some)
  <2>1. ASSUME NEW i \in 1 .. Len(some), ~ByProxy(some[i]), NEW j \in 1 .. Len(p)
        PROVE  some[i].to < p[j]
    <3>1. CASE j \in 1 .. Len(q)
      <4>1. some[i].to < q[j]
        BY <2>1, <3>1 DEF Queue, Later
      <4>2. p[j] = q[j]
        BY <1>1, <3>1
      <4> QED BY <4>1, <4>2
    <3>2. CASE j \notin 1 .. Len(q)
      BY <1>1, <1>2, <3>2
    <3> QED BY <3>1, <3>2
  <2> QED BY <2>1 DEF Later
<1>5. Given(some, n + 1, strays)
  BY DEF Given, Own, OwnAnswer
<1>6. AmongFirst(q, n + 1)
  BY <1>1 DEF AmongFirst
<1>7. Queue(<<n + 1>>, some, n + 1)
  BY <1>2 DEF Queue, Rises, AmongFirst, Later
<1>8. Queue(<<>>, some, n)
  BY DEF Queue, Rises, AmongFirst, Later
<1> QED BY <1>1, <1>3, <1>4, <1>5, <1>6, <1>7, <1>8 DEF Queue, p

\* The requests of q are answered with the same, in their order, and what is later
\* than they are stays later than what is answered.  Those on a connection that has
\* gone, and all of them if it is unsure whose answer it is, are strays then.
LEMMA Gives ==
    ASSUME NEW n \in Nat, Given(pAnswers, n, pAstray), NEW q, Queue(q, pAnswers, n),
           NEW what \in Withs, NEW unsure \in BOOLEAN, P!Give(q, what, unsure),
           unsure \/ \A i \in 1 .. Len(q) :
                        what \in {<<"proxy">>, <<"dead">>, <<"reply", q[i]>>}
    PROVE  /\ Given(pAnswers', n, pAstray') /\ pAstray \subseteq pAstray'
           /\ pCrashed' = pCrashed \/ (pCrashed' = TRUE /\ pAstray' # {})
           /\ unsure /\ q # <<>> => pAstray' # {}
           /\ \A r : Queue(r, pAnswers, n)
                     /\ (what = <<"proxy">>
                         \/ \A i \in 1 .. Len(q), j \in 1 .. Len(r) : q[i] < r[j])
                     => Queue(r, pAnswers', n)
<1>1. q \in Seq(Nat) /\ Len(q) \in Nat /\ DOMAIN q = 1 .. Len(q)
      /\ \A i \in 1 .. Len(q) : q[i] \in Nat
  BY LenProperties, ElementOfSeq DEF Queue
<1>2. pAstray' = pAstray \cup (IF unsure THEN P!Range(q) ELSE P!Range(q) \cap pGone)
  BY DEF P!Give
<1>3. /\ pAstray \subseteq pAstray'
      /\ \A i \in 1 .. Len(q) : unsure \/ q[i] \in pGone => q[i] \in pAstray'
  BY <1>1, <1>2 DEF P!Range
<1>4. unsure /\ q # <<>> => pAstray' # {}
  <2> SUFFICES ASSUME unsure, q # <<>> PROVE pAstray' # {}
    OBVIOUS
  <2>1. 1 \in 1 .. Len(q)
    BY <1>1, EmptySeq
  <2> QED BY <1>3, <2>1
<1>5. Given(pAnswers, n, pAstray')
  BY <1>3 DEF Given, Own, OwnAnswer
<1>6. CASE UNCHANGED pAnswers /\ pCrashed' = TRUE
           /\ {i \in DOMAIN q : q[i] \in pGone} # {}
  <2>1. pAstray' # {}
    BY <1>1, <1>3, <1>6
  <2> QED BY <1>3, <1>4, <1>5, <1>6, <2>1
<1>7. ASSUME NEW e, pAnswers' = pAnswers \o e, DOMAIN e = DOMAIN q, e = [i \in DOMAIN q |-> e[i]],
             \A i \in DOMAIN q : /\ e[i] \in Answers /\ e[i].to = q[i] /\ e[i].with = what
                                 /\ q[i] \notin pGone => e[i].by = "client"
      PROVE  /\ Given(pAnswers', n, pAstray')
             /\ \A r : Queue(r, pAnswers, n)
                       /\ (what = <<"proxy">>
                           \/ \A i \in 1 .. Len(q), j \in 1 .. Len(r) : q[i] < r[j])
                       => Queue(r, pAnswers', n)
  <2>1. e \in Seq(Answers) /\ Len(e) = Len(q)
    <3>1. e \in [1 .. Len(q) -> Answers]
      BY <1>1, <1>7
    <3>2. e \in Seq(Answers)
      BY <1>1, <3>1
    <3> QED BY <1>1, <3>1, <3>2, LenProperties
  <2> DEFINE some == pAnswers
             both == pAnswers \o e
  <2>2. /\ Len(some) \in Nat /\ both \in Seq(Answers) /\ Len(both) = Len(some) + Len(q)
        /\ \A i \in 1 .. Len(some) + Len(q) :
              both[i] = IF i <= Len(some) THEN some[i] ELSE e[i - Len(some)]
    <3>1. some \in Seq(Answers) /\ Len(some) \in Nat
      BY DEF Given
    <3>2. e \in Seq(Answers)
      BY <2>1
    <3>3. /\ some \o e \in Seq(Answers) /\ Len(some \o e) = Len(some) + Len(e)
          /\ \A i \in 1 .. Len(some) + Len(e) :
                (some \o e)[i] = IF i <= Len(some) THEN some[i] ELSE e[i - Len(some)]
      BY ONLY <3>1, <3>2, ConcatProperties
    <3> QED BY <2>1, <3>1, <3>3
  <2> HIDE DEF both
  <2>3. ASSUME NEW i \in 1 .. Len(both)
        PROVE  \/ i \in 1 .. Len(some) /\ both[i] = some[i]
               \/ \E k \in 1 .. Len(q) : i = Len(some) + k /\ both[i] = e[k]
    <3>1. CASE i <= Len(some)
      BY <2>2, <3>1
    <3>2. CASE ~(i <= Len(some))
      <4> DEFINE k == i - Len(some)
      <4>1. k \in 1 .. Len(q) /\ i = Len(some) + k
        BY <1>1, <2>2, <3>2
      <4>2. both[i] = e[k]
        BY <2>2, <3>2
      <4> HIDE DEF k
      <4> QED BY <4>1, <4>2
    <3> QED BY <3>1, <3>2
  <2>4. ASSUME NEW i \in 1 .. Len(both) PROVE OwnAnswer(both[i], n, pAstray')
    <3>1. CASE i \in 1 .. Len(some) /\ both[i] = some[i]
      BY <1>5, <3>1 DEF Given, Own
    <3>2. ASSUME NEW k \in 1 .. Len(q), both[i] = e[k] PROVE OwnAnswer(both[i], n, pAstray')
      <4>1. q[k] \in 1 .. n
        BY DEF Queue, AmongFirst
      <4>2. /\ e[k].to = q[k] /\ e[k].with = what /\ (q[k] \notin pGone => e[k].by = "client")
            /\ unsure \/ q[k] \in pGone => q[k] \in pAstray'
            /\ unsure \/ what \in {<<"proxy">>, <<"dead">>, <<"reply", q[k]>>}
        BY <1>1, <1>3, <1>7
      <4> QED BY <3>2, <4>1, <4>2 DEF OwnAnswer
    <3> QED BY <2>3, <3>1, <3>2
  <2>5. ASSUME NEW i \in 1 .. Len(both), NEW j \in 1 .. Len(both), i < j,
               ~ByProxy(both[i]), ~ByProxy(both[j])
        PROVE  both[i].to < both[j].to
    <3>1. CASE i \in 1 .. Len(some) /\ both[i] = some[i]
      <4>1. CASE j \in 1 .. Len(some) /\ both[j] = some[j]
        BY <1>5, <2>5, <3>1, <4>1 DEF Given, Own
      <4>2. ASSUME NEW k \in 1 .. Len(q), both[j] = e[k] PROVE both[i].to < both[j].to
        <5>1. some[i].to < q[k]
          BY <2>5, <3>1 DEF Queue, Later
        <5> QED BY <1>1, <1>7, <3>1, <4>2, <5>1
      <4> QED BY <2>3, <4>1, <4>2
    <3>2. ASSUME NEW k \in 1 .. Len(q), i = Len(some) + k, both[i] = e[k]
          PROVE  both[i].to < both[j].to
      <4>1. PICK m \in 1 .. Len(q) : j = Len(some) + m /\ both[j] = e[m]
        <5>1. j \notin 1 .. Len(some)
          BY <2>2, <2>5, <3>2
        <5> QED BY <2>3, <5>1
      <4>2. k < m
        BY <2>2, <2>5, <3>2, <4>1
      <4>3. q[k] < q[m]
        BY <4>2 DEF Queue, Rises
      <4> QED BY <1>1, <1>7, <3>2, <4>1, <4>3
    <3> QED BY <2>3, <3>1, <3>2
  <2>6. Given(both, n, pAstray')
    BY <2>2, <2>4, <2>5 DEF Given, Own
  <2>7. ASSUME NEW r, Queue(r, some, n),
               what = <<"proxy">> \/ \A i \in 1 .. Len(q), j \in 1 .. Len(r) : q[i] < r[j]
        PROVE  Queue(r, both, n)
    <3>1. ASSUME NEW i \in 1 .. Len(both), ~ByProxy(both[i]), NEW j \in 1 .. Len(r)
          PROVE  both[i].to < r[j]
      <4>1. CASE i \in 1 .. Len(some) /\ both[i] = some[i]
        BY <2>7, <3>1, <4>1 DEF Queue, Later
      <4>2. ASSUME NEW k \in 1 .. Len(q), both[i] = e[k] PROVE both[i].to < r[j]
        <5>1. e[k].to = q[k] /\ e[k].with = what
          BY <1>1, <1>7
        <5>2. what # <<"proxy">>
          BY <3>1, <4>2, <5>1 DEF ByProxy
        <5> QED BY <2>7, <4>2, <5>1, <5>2
      <4> QED BY <2>3, <4>1, <4>2
    <3>2. Later(r, both)
      BY <3>1 DEF Later
    <3> QED BY <2>7, <3>2 DEF Queue
  <2>8. pAnswers' = both
    BY <1>7 DEF both
  <2> QED BY <2>6, <2>7, <2>8
<1>8. CASE \E heard \in SUBSET {i \in DOMAIN q : /\ q[i] \in pGone
                                                 /\ pRequests[q[i]].client \notin pClosed} :
               pAnswers' = pAnswers \o [i \in DOMAIN q |->
                   [to |-> q[i], with |-> what,
                    by |-> IF i \notin {k \in DOMAIN q : q[k] \in pGone} THEN "client"
                           ELSE IF i \in heard THEN "other" ELSE "nobody"]]
           /\ UNCHANGED pCrashed
  <2>1. PICK heard : pAnswers' = pAnswers \o [i \in DOMAIN q |->
                         [to |-> q[i], with |-> what,
                          by |-> IF i \notin {k \in DOMAIN q : q[k] \in pGone} THEN "client"
                                 ELSE IF i \in heard THEN "other" ELSE "nobody"]]
    BY <1>8
  <2> DEFINE e == [i \in DOMAIN q |->
                      [to |-> q[i], with |-> what,
                       by |-> IF i \notin {k \in DOMAIN q : q[k] \in pGone} THEN "client"
                              ELSE IF i \in heard THEN "other" ELSE "nobody"]]
  <2>2. \A i \in DOMAIN q : /\ e[i] \in Answers /\ e[i].to = q[i] /\ e[i].with = what
                            /\ q[i] \notin pGone => e[i].by = "client"
    BY <1>1 DEF Answers
  <2>3. pAnswers' = pAnswers \o e /\ DOMAIN e = DOMAIN q /\ e = [i \in DOMAIN q |-> e[i]]
    BY <2>1
  <2> HIDE DEF e
  <2>4. /\ Given(pAnswers', n, pAstray')
        /\ \A r : Queue(r, pAnswers, n)
                  /\ (what = <<"proxy">>
                      \/ \A i \in 1 .. Len(q), j \in 1 .. Len(r) : q[i] < r[j])
                  => Queue(r, pAnswers', n)
    BY <1>7, <2>2, <2>3
  <2> QED BY <1>3, <1>4, <1>8, <2>4
<1> QED BY <1>6, <1>8 DEF P!Give

\* The program ends, or a reply came in parts, only when there are strays.
LEMMA StrayKeeps ==
    ASSUME pCrashed \in BOOLEAN, pSplit \/ pCrashed => pAstray # {}, pAstray \subseteq pAstray',
           pCrashed' = pCrashed \/ (pCrashed' = TRUE /\ pAstray' # {})
    PROVE  pCrashed' \in BOOLEAN /\ (pSplit \/ pCrashed' => pAstray' # {})
<1>1. CASE pCrashed' = pCrashed
  <2>1. pAstray # {} => pAstray' # {}
    OBVIOUS
  <2> QED BY <1>1, <2>1, Zenon
<1>2. CASE pCrashed' = TRUE /\ pAstray' # {}
  BY <1>2
<1> QED BY <1>1, <1>2

\* All that wait for the connection are answered.
LEMMA FailsWaiting ==
    ASSUME ProxyInv, P!FailWaiting
    PROVE  /\ Given(pAnswers', Len(pRequests), pAstray')
           /\ Queue(<<>>, pAnswers', Len(pRequests)) /\ pWaiting' = <<>>
           /\ pCrashed' \in BOOLEAN /\ (pSplit \/ pCrashed' => pAstray' # {})
<1> DEFINE n == Len(pRequests)
<1>1. n \in Nat /\ Given(pAnswers, n, pAstray) /\ Queue(pWaiting, pAnswers, n)
      /\ pCrashed \in BOOLEAN /\ (pSplit \/ pCrashed => pAstray # {})
  BY DEF ProxyInv
<1> HIDE DEF n
<1>2. Queue(<<>>, pAnswers, n)
  BY DEF Queue, Rises, AmongFirst, Later
<1>3. /\ P!Give(pWaiting, <<"dead">>, FALSE) /\ pWaiting' = <<>>
      /\ <<"dead">> \in Withs /\ FALSE \in BOOLEAN
  BY DEF P!FailWaiting, Withs
<1>4. /\ Given(pAnswers', n, pAstray') /\ pAstray \subseteq pAstray'
      /\ pCrashed' = pCrashed \/ (pCrashed' = TRUE /\ pAstray' # {})
      /\ \A r : Queue(r, pAnswers, n)
                /\ (\A i \in 1 .. Len(pWaiting), j \in 1 .. Len(r) : pWaiting[i] < r[j])
                => Queue(r, pAnswers', n)
  BY <1>1, <1>3, Gives
<1>5. Queue(<<>>, pAnswers', n)
  BY <1>2, <1>4
<1>6. pCrashed' \in BOOLEAN /\ (pSplit \/ pCrashed' => pAstray' # {})
  BY <1>1, <1>4, StrayKeeps
<1> QED BY <1>3, <1>4, <1>5, <1>6 DEF n

\* A whole request: the proxy answers it, or refuses it, or it waits or is pending.
LEMMA CommandKeeps ==
    ASSUME ProxyInv, NEW c \in Clients, NEW kind \in P!Kinds, P!Command(c, kind)
    PROVE  ProxyInv'
<1> DEFINE n == Len(pRequests)
           m == n + 1
<1>1. /\ n \in Nat /\ m \in Nat /\ pRequests' \in Seq(Requests) /\ Len(pRequests') = m
      /\ pCrashed \in BOOLEAN /\ pSplit \in BOOLEAN /\ pServer \in Seq(Nat)
      /\ pSplit \/ pCrashed => pAstray # {}
  <2>1. [client |-> c, kind |-> kind] \in Requests
    BY DEF Requests
  <2> QED BY <2>1 DEF ProxyInv, P!Command
<1>2. /\ Given(pAnswers, n, pAstray) /\ Queue(pWaiting, pAnswers, n)
      /\ Queue(pPending, pAnswers, n) /\ LinkHas
  BY DEF ProxyInv
<1> HIDE DEF n
<1>3. /\ Given(pAnswers, m, pAstray)
      /\ Queue(pWaiting, pAnswers, m) /\ Queue(pPending, pAnswers, m)
      /\ Queue(pWaiting \o <<m>>, pAnswers, m)
      /\ Queue(pPending \o <<m>>, pAnswers, m)
      /\ Queue(<<m>>, pAnswers, m)
  BY <1>1, <1>2, QueueMore
<1>4. /\ <<"proxy">> \in Withs /\ <<"dead">> \in Withs /\ FALSE \in BOOLEAN
      /\ pServer \o <<m>> \in Seq(Nat)
  <2>1. <<m>> \in Seq(Nat) /\ pServer \in Seq(Nat)
    BY <1>1
  <2>2. pServer \o <<m>> \in Seq(Nat)
    BY ONLY <2>1, ConcatProperties
  <2> QED BY <2>2 DEF Withs
<1> HIDE DEF m
<1>5. ASSUME P!Give(<<m>>, <<"proxy">>, FALSE), UNCHANGED P!link_ PROVE ProxyInv'
  <2>1. /\ Given(pAnswers', m, pAstray') /\ pAstray \subseteq pAstray'
        /\ pCrashed' = pCrashed \/ (pCrashed' = TRUE /\ pAstray' # {})
        /\ \A r : Queue(r, pAnswers, m) => Queue(r, pAnswers', m)
    BY <1>1, <1>3, <1>4, <1>5, Gives
  <2>2. LinkHas'
    BY <1>2, <1>5 DEF P!link_, LinkHas
  <2>3. UNCHANGED <<pWaiting, pPending, pServer, pSplit>>
    BY <1>5 DEF P!link_
  <2>4. pCrashed' \in BOOLEAN /\ (pSplit \/ pCrashed' => pAstray' # {})
    BY <1>1, <2>1, StrayKeeps
  <2>5. Queue(pWaiting, pAnswers', m) /\ Queue(pPending, pAnswers', m)
    BY <1>3, <2>1
  <2>6. pServer' \in Seq(Nat) /\ pSplit' \in BOOLEAN /\ (pSplit' \/ pCrashed' => pAstray' # {})
        /\ Queue(pWaiting', pAnswers', m) /\ Queue(pPending', pAnswers', m)
    BY <1>1, <2>3, <2>4, <2>5, Zenon
  <2> QED BY <1>1, <2>1, <2>2, <2>4, <2>6, Zenon DEF ProxyInv
<1>6. CASE pLink \in {"up", "closing"} /\ P!ForwardRequest(<<m>>)
           /\ UNCHANGED <<pLink, pWaiting, pSplit, pAnswers, pCrashed, pAstray>>
  <2>1. pPending' = pPending \o <<m>>
        /\ pServer' = IF pLink = "up" THEN pServer \o <<m>> ELSE pServer
    BY <1>6 DEF P!ForwardRequest
  <2>2. LinkHas'
    BY <1>2, <1>6, <2>1 DEF LinkHas
  <2> QED BY <1>1, <1>3, <1>4, <1>6, <2>1, <2>2 DEF ProxyInv
<1>7. CASE pLink \in {"none", "connecting"} /\ pWaiting' = Append(pWaiting, m)
           /\ pLink' = "connecting"
           /\ UNCHANGED <<pPending, pServer, pSplit, pAnswers, pCrashed, pAstray>>
  <2>1. pWaiting' = pWaiting \o <<m>>
    BY <1>1, <1>2, <1>7, AppendIsConcat DEF Queue
  <2>2. LinkHas'
    BY <1>2, <1>7 DEF LinkHas
  <2> QED BY <1>1, <1>3, <1>7, <2>1, <2>2 DEF ProxyInv
<1>8. CASE pLink = "none" /\ pLink' = "up" /\ P!ForwardRequest(<<m>>)
           /\ UNCHANGED <<pWaiting, pSplit, pAnswers, pCrashed, pAstray>>
  <2>1. pPending = <<>> /\ pServer = <<>> /\ pWaiting = <<>>
    BY <1>2, <1>8 DEF LinkHas
  <2>2. pPending' = pPending \o <<m>> /\ pServer' = pServer \o <<m>>
    BY <1>8, <2>1 DEF P!ForwardRequest
  <2>3. LinkHas'
    BY <1>8, <2>1, <2>2 DEF LinkHas
  <2> QED BY <1>1, <1>3, <1>4, <1>8, <2>1, <2>2, <2>3 DEF ProxyInv
<1>9. ASSUME pLink = "none", P!Give(<<m>>, <<"dead">>, FALSE), UNCHANGED P!link_
      PROVE  ProxyInv'
  <2>1. pWaiting = <<>> /\ pPending = <<>>
    BY <1>2, <1>9 DEF LinkHas
  <2>2. /\ Given(pAnswers', m, pAstray') /\ pAstray \subseteq pAstray'
        /\ pCrashed' = pCrashed \/ (pCrashed' = TRUE /\ pAstray' # {})
        /\ \A r : Queue(r, pAnswers, m)
                  /\ (\A i \in 1 .. Len(<<m>>), j \in 1 .. Len(r) : <<m>>[i] < r[j])
                  => Queue(r, pAnswers', m)
    BY <1>1, <1>3, <1>4, <1>9, Gives
  <2>3. Queue(<<>>, pAnswers, m)
    BY <1>3, <2>1
  <2>4. Queue(<<>>, pAnswers', m)
    BY <2>2, <2>3
  <2>5. LinkHas'
    BY <1>2, <1>9 DEF P!link_, LinkHas
  <2>6. UNCHANGED <<pWaiting, pPending, pServer, pSplit>>
    BY <1>9 DEF P!link_
  <2>7. pCrashed' \in BOOLEAN /\ (pSplit \/ pCrashed' => pAstray' # {})
    BY <1>1, <2>2, StrayKeeps
  <2>8. pServer' \in Seq(Nat) /\ pSplit' \in BOOLEAN /\ (pSplit' \/ pCrashed' => pAstray' # {})
        /\ Queue(pWaiting', pAnswers', m) /\ Queue(pPending', pAnswers', m)
    BY <1>1, <2>1, <2>4, <2>6, <2>7, Zenon
  <2> QED BY <1>1, <2>2, <2>5, <2>7, <2>8, Zenon DEF ProxyInv
<1> QED BY <1>5, <1>6, <1>7, <1>8, <1>9 DEF P!Command, P!given, n, m

\* The oldest request pending is answered, with its reply unless one came in parts.
LEMMA OldestIsGiven ==
    ASSUME ProxyInv, pPending # <<>>, NEW what \in Withs, pSplit' \in BOOLEAN,
           P!GiveToOldest(what), pSplit => pSplit',
           pSplit' \/ what = <<"reply", Head(pPending)>>, what # <<"proxy">>,
           pLink = "up", UNCHANGED <<pRequests, pLink, pWaiting>>,
           pServer' \in Seq(Nat), pSplit' \/ pServer' = pPending'
    PROVE  ProxyInv'
<1> DEFINE n == Len(pRequests)
           h == Head(pPending)
           q == Tail(pPending)
           unsure == pSplit'
<1>1. /\ n \in Nat /\ Given(pAnswers, n, pAstray) /\ Queue(pPending, pAnswers, n)
      /\ pPending \in Seq(Nat) /\ Len(pPending) \in Nat \ {0} /\ pWaiting = <<>>
      /\ pCrashed \in BOOLEAN /\ (pSplit \/ pCrashed => pAstray # {})
  <2>1. pPending \in Seq(Nat) /\ Len(pPending) \in Nat \ {0}
    BY EmptySeq DEF ProxyInv, Queue
  <2> QED BY <2>1 DEF ProxyInv, LinkHas
<1>2. P!Give(<<h>>, what, unsure) /\ pPending' = q /\ unsure \in BOOLEAN
  BY DEF P!GiveToOldest
<1>3. h = pPending[1] /\ pPending[1] \in 1 .. n /\ Later(pPending, pAnswers) /\ Rises(pPending)
  BY <1>1 DEF Queue, AmongFirst
<1>4. /\ q \in Seq(Nat) /\ Len(q) = Len(pPending) - 1
      /\ \A i \in 1 .. Len(q) : i + 1 \in 1 .. Len(pPending) /\ q[i] = pPending[i + 1]
  BY <1>1
<1>5. unsure \/ what = <<"reply", h>>
  OBVIOUS
<1> HIDE DEF n, q, h, unsure
<1>6. Queue(<<h>>, pAnswers, n)
  <2>1. <<h>> \in Seq(Nat) /\ Len(<<h>>) = 1 /\ <<h>>[1] = h
    BY <1>1, <1>3
  <2>2. Later(<<h>>, pAnswers)
    BY <1>1, <1>3, <2>1 DEF Later
  <2> QED BY <1>1, <1>3, <2>1, <2>2 DEF Queue, Rises, AmongFirst
<1>7. Queue(q, pAnswers, n) /\ \A j \in 1 .. Len(q) : h < q[j]
  <2>1. ASSUME NEW i \in 1 .. Len(q) PROVE q[i] \in 1 .. n /\ h < q[i]
    <3>1. i + 1 \in 1 .. Len(pPending) /\ q[i] = pPending[i + 1] /\ 1 \in 1 .. Len(pPending)
          /\ 1 < i + 1
      BY <1>1, <1>4
    <3>2. pPending[i + 1] \in 1 .. n
      BY <1>1, <3>1 DEF Queue, AmongFirst
    <3>3. pPending[1] < pPending[i + 1]
      BY <1>3, <3>1 DEF Rises
    <3> QED BY <1>3, <3>1, <3>2, <3>3
  <2>2. ASSUME NEW i \in 1 .. Len(q), NEW j \in 1 .. Len(q), i < j PROVE q[i] < q[j]
    <3>1. /\ i + 1 \in 1 .. Len(pPending) /\ q[i] = pPending[i + 1]
          /\ j + 1 \in 1 .. Len(pPending) /\ q[j] = pPending[j + 1] /\ i + 1 < j + 1
      BY <1>1, <1>4, <2>2
    <3>2. pPending[i + 1] < pPending[j + 1]
      BY <1>3, <3>1 DEF Rises
    <3> QED BY <3>1, <3>2
  <2>3. Later(q, pAnswers)
    BY <1>3, <1>4 DEF Later
  <2>4. Rises(q) /\ AmongFirst(q, n)
    BY <2>1, <2>2 DEF Rises, AmongFirst
  <2> QED BY <1>4, <2>1, <2>3, <2>4 DEF Queue
<1> DEFINE one == <<h>>
<1>one. one # <<>> /\ Len(one) = 1 /\ one[1] = h
  OBVIOUS
<1>own. unsure \/ \A i \in 1 .. Len(one) :
                    what \in {<<"proxy">>, <<"dead">>, <<"reply", one[i]>>}
  BY <1>5, <1>one
<1> HIDE DEF one
<1>8. /\ Given(pAnswers', n, pAstray') /\ pAstray \subseteq pAstray'
      /\ pCrashed' = pCrashed \/ (pCrashed' = TRUE /\ pAstray' # {})
      /\ unsure /\ one # <<>> => pAstray' # {}
      /\ \A r : Queue(r, pAnswers, n)
                /\ (\A i \in 1 .. Len(one), j \in 1 .. Len(r) : one[i] < r[j])
                => Queue(r, pAnswers', n)
  <2>1. P!Give(one, what, unsure) /\ Queue(one, pAnswers, n)
    BY <1>2, <1>6 DEF one
  <2> QED BY <1>1, <1>2, <1>own, <2>1, Gives
<1>9. Queue(q, pAnswers', n)
  <2>1. \A i \in 1 .. Len(one), j \in 1 .. Len(q) : one[i] < q[j]
    BY <1>7, <1>one
  <2> QED BY <1>7, <1>8, <2>1
<1>10. Queue(<<>>, pAnswers', n)
  <2>1. Queue(<<>>, pAnswers, n)
    BY <1>1, QueueMore
  <2> QED BY <1>8, <2>1
<1>11. /\ pCrashed' \in BOOLEAN /\ (unsure \/ pCrashed' => pAstray' # {})
  <2>1. pCrashed' \in BOOLEAN /\ (pSplit \/ pCrashed' => pAstray' # {})
    BY <1>1, <1>8, StrayKeeps
  <2>2. unsure => pAstray' # {}
    BY <1>8, <1>one
  <2> QED BY <2>1, <2>2, Zenon
<1>12. LinkHas'
  BY <1>1 DEF LinkHas
<1> QED BY <1>1, <1>2, <1>8, <1>9, <1>10, <1>11, <1>12 DEF ProxyInv, n, unsure

\* A reply, or a part of one, when nothing is pending: one came in parts before.
LEMMA NothingIsPending ==
    ASSUME ProxyInv, pPending = <<>>, NEW what, P!GiveToOldest(what), pSplit' \in BOOLEAN,
           pLink = "up", UNCHANGED <<pRequests, pLink, pWaiting>>, pSplit => pSplit',
           pServer # <<>>, pServer' \in Seq(Nat)
    PROVE  ProxyInv'
<1>1. pSplit /\ pWaiting = <<>>
  BY DEF ProxyInv, LinkHas
<1>2. pCrashed' = TRUE /\ UNCHANGED <<pPending, pAnswers, pAstray>>
  BY DEF P!GiveToOldest
<1>3. LinkHas'
  BY <1>1 DEF LinkHas
<1> QED BY <1>1, <1>2, <1>3 DEF ProxyInv

LEMMA ReplyKeeps == ASSUME ProxyInv, P!Reply \/ P!HalfReply PROVE ProxyInv'
<1>1. /\ pLink = "up" /\ pServer # <<>> /\ pServer \in Seq(Nat)
      /\ UNCHANGED <<pRequests, pLink, pWaiting>>
      /\ Head(pServer) \in Nat /\ Tail(pServer) \in Seq(Nat)
      /\ pSplit \in BOOLEAN /\ (pSplit \/ pServer = pPending)
  <2>1. pServer \in Seq(Nat) /\ pServer # <<>> /\ pLink = "up"
        /\ pSplit \in BOOLEAN /\ (pSplit \/ pServer = pPending)
    BY DEF ProxyInv, LinkHas, P!Reply, P!HalfReply
  <2>2. UNCHANGED <<pRequests, pLink, pWaiting>>
    BY DEF P!Reply, P!HalfReply
  <2> QED BY <2>1, <2>2, EmptySeq
<1>2. CASE P!Reply
  <2> DEFINE what == <<"reply", Head(pServer)>>
  <2>1. P!GiveToOldest(what) /\ pServer' = Tail(pServer) /\ pSplit' = pSplit
    BY <1>2 DEF P!Reply
  <2>2. /\ what \in Withs /\ what # <<"proxy">>
        /\ pSplit' \/ what = <<"reply", Head(pPending)>>
    BY <1>1, <2>1 DEF Withs
  <2>3. pPending # <<>> => pSplit' \/ pServer' = pPending'
    BY <1>1, <2>1 DEF P!GiveToOldest
  <2> HIDE DEF what
  <2>4. CASE pPending # <<>>
    BY <1>1, <2>1, <2>2, <2>3, <2>4, OldestIsGiven
  <2>5. CASE pPending = <<>>
    BY <1>1, <2>1, <2>5, NothingIsPending
  <2> QED BY <2>4, <2>5
<1>3. CASE P!HalfReply
  <2>1. CASE UNCHANGED <<pSplit, pPending, pAnswers, pCrashed, pAstray>>
    <3>1. UNCHANGED pServer
      BY <1>3 DEF P!HalfReply
    <3> QED BY <1>1, <2>1, <3>1 DEF ProxyInv, LinkHas
  <2>2. CASE pSplit' = TRUE /\ P!GiveToOldest(<<"nothing">>)
    <3> DEFINE what == <<"nothing">>
    <3>1. /\ P!GiveToOldest(what) /\ pServer' = pServer /\ pSplit' = TRUE
          /\ what \in Withs /\ what # <<"proxy">>
      BY <1>3, <2>2 DEF P!HalfReply, Withs
    <3> HIDE DEF what
    <3>2. CASE pPending # <<>>
      BY <1>1, <3>1, <3>2, OldestIsGiven
    <3>3. CASE pPending = <<>>
      BY <1>1, <3>1, <3>3, NothingIsPending
    <3> QED BY <3>2, <3>3
  <2> QED BY <1>3, <2>1, <2>2 DEF P!HalfReply, P!given
<1> QED BY <1>2, <1>3

LEMMA ProxyKept == ASSUME ProxyInv, [P!Next]_pVars PROVE ProxyInv'
<1> DEFINE n == Len(pRequests)
<1>1. /\ n \in Nat /\ Given(pAnswers, n, pAstray)
      /\ pWaiting \in Seq(Nat) /\ pPending \in Seq(Nat)
      /\ Queue(pWaiting, pAnswers, n) /\ Queue(pPending, pAnswers, n)
      /\ Queue(<<>>, pAnswers, n)
  <2>1. /\ n \in Nat /\ Given(pAnswers, n, pAstray)
        /\ Queue(pWaiting, pAnswers, n) /\ Queue(pPending, pAnswers, n)
    BY DEF ProxyInv
  <2> QED BY <2>1, QueueMore DEF Queue
<1> HIDE DEF n
<1>2. CASE P!OnConnect
  <2>1. pLink = "connecting" /\ pPending = <<>> /\ pServer = <<>>
    BY <1>2 DEF ProxyInv, LinkHas, P!OnConnect
  <2>2. /\ pLink' = "up" /\ pWaiting' = <<>> /\ pPending' = pWaiting /\ pServer' = pWaiting
        /\ UNCHANGED <<pRequests, pAnswers, pCrashed, pSplit, pAstray>>
    BY <1>1, <1>2, <2>1 DEF P!OnConnect, P!ForwardRequest, P!given
  <2> QED BY <1>1, <2>2 DEF ProxyInv, LinkHas, n
<1>3. CASE P!OnConnFail
  <2>1. pLink = "connecting" /\ pPending = <<>> /\ pServer = <<>>
    BY <1>3 DEF ProxyInv, LinkHas, P!OnConnFail
  <2>2. /\ pLink' = "none" /\ P!FailWaiting
        /\ UNCHANGED <<pRequests, pPending, pServer, pSplit>>
    BY <1>3 DEF P!OnConnFail
  <2>3. /\ Given(pAnswers', n, pAstray') /\ Queue(<<>>, pAnswers', n) /\ pWaiting' = <<>>
        /\ pCrashed' \in BOOLEAN /\ (pSplit \/ pCrashed' => pAstray' # {})
    BY <2>2, FailsWaiting DEF n
  <2> QED BY <2>1, <2>2, <2>3 DEF ProxyInv, LinkHas, n
<1>5. CASE P!LinkFails
  BY <1>5 DEF P!LinkFails, P!given, ProxyInv, LinkHas
<1>6. CASE P!OnDisconnect
  <2>1. /\ pLink' = "none" /\ P!FailWaiting /\ pPending' = <<>> /\ pServer' = <<>>
        /\ pSplit' = FALSE /\ UNCHANGED pRequests
    BY <1>6 DEF P!OnDisconnect
  <2>2. /\ Given(pAnswers', n, pAstray') /\ Queue(<<>>, pAnswers', n) /\ pWaiting' = <<>>
        /\ pCrashed' \in BOOLEAN /\ (pSplit \/ pCrashed' => pAstray' # {})
    BY <2>1, FailsWaiting DEF n
  <2>3. LinkHas' /\ Queue(pWaiting', pAnswers', n) /\ Queue(pPending', pAnswers', n)
    BY <2>1, <2>2, Zenon DEF LinkHas
  <2>4. pServer' \in Seq(Nat) /\ pSplit' \in BOOLEAN /\ (pSplit' \/ pCrashed' => pAstray' # {})
    <3>1. <<>> \in Seq(Nat) /\ FALSE \in BOOLEAN
      OBVIOUS
    <3> QED BY <2>1, <2>2, <3>1, Zenon
  <2>5. pRequests' \in Seq(Requests) /\ Len(pRequests') = n
    BY <2>1 DEF ProxyInv, n
  <2> QED BY <2>2, <2>3, <2>4, <2>5, Zenon DEF ProxyInv
<1>7. CASE \/ P!ClusterChanges \/ UNCHANGED pVars
           \/ \E c \in Clients : P!ClientCloses(c) \/ P!ClientComes(c)
  <2>1. UNCHANGED <<pRequests, pLink, pWaiting, pPending, pServer, pSplit, pAnswers,
                    pCrashed, pAstray>>
    BY <1>7 DEF P!ClusterChanges, P!ClientCloses, P!ClientComes, P!link_, P!given, pVars
  <2> QED BY <2>1 DEF ProxyInv, LinkHas
<1>8. CASE \E c \in Clients, kind \in P!Kinds : P!Command(c, kind)
  BY <1>8, CommandKeeps
<1> QED BY <1>2, <1>3, <1>5, <1>6, <1>7, <1>8, ReplyKeeps DEF P!Next, P!Step

LEMMA ProxyInit == P!Init => ProxyInv
<1> SUFFICES ASSUME P!Init PROVE ProxyInv
  OBVIOUS
<1>1. /\ pRequests = <<>> /\ pServer = <<>> /\ pWaiting = <<>> /\ pPending = <<>>
      /\ pLink = "none" /\ pAnswers = <<>> /\ pSplit = FALSE /\ pCrashed = FALSE
  BY DEF P!Init
<1>2. Given(<<>>, Len(pRequests), pAstray) /\ Queue(<<>>, <<>>, Len(pRequests))
  BY DEF Given, Own, Queue, Rises, AmongFirst, Later
<1>3. pRequests \in Seq(Requests) /\ pServer \in Seq(Nat)
  BY <1>1
<1> QED BY <1>1, <1>2, <1>3, Zenon DEF ProxyInv, LinkHas

LEMMA ProxyIsOwn == ProxyInv => P!AnswersAreOwn
<1> SUFFICES ASSUME ProxyInv PROVE P!AnswersAreOwn
  OBVIOUS
<1>1. /\ pAnswers \in Seq(Answers) /\ DOMAIN pAnswers = 1 .. Len(pAnswers)
      /\ pCrashed => pAstray # {}
      /\ Own(pAnswers, Len(pRequests), pAstray)
  BY LenProperties DEF ProxyInv, Given
<1> QED BY <1>1 DEF Own, OwnAnswer, ByProxy, P!AnswersAreOwn

-----------------------------------------------------------------------------
(***************************************************************************)
(* The migration of keys.                                                  *)
(***************************************************************************)
Items == [call : Calls, keys : SUBSET Calls, state : M!MigrateStates, copy : BOOLEAN]
Words == {"OK", "NOKEY", "IOERR"}
Orders == [op : {"select", "restore"}, call : Calls]

\* No call is twice in a queue.
EachOnce(q) == \A i, j \in 1 .. Len(q) : q[i].call = q[j].call => i = j

\* A queue of calls made, those that are open with their key.
ItemQueue(q, calls) ==
    /\ q \in Seq(Items) /\ EachOnce(q)
    /\ \A i \in 1 .. Len(q) :
          /\ q[i].call \in calls
          /\ q[i].state # "Done" => q[i].keys = {q[i].call}

\* Whoever was told was told once, and its call is not open any more.
ToldOf(q, told, calls) ==
    \A m \in Calls :
        /\ Len(told[m]) <= 1
        /\ told[m] # <<>> =>
              m \in calls /\ \A i \in 1 .. Len(q) : q[i].call = m => q[i].state = "Done"

\* The connection that is known has been up, and one that is not, or has ended,
\* carries nothing.
KnownIs ==
    /\ mKnown \in M!Links \cup {None} /\ mInvalid \subseteq M!Links
    /\ mKnown # None => \/ mConn[mKnown] = "up"
                        \/ mConn[mKnown] = "gone" /\ mKnown \in mInvalid
    /\ mKnown = None \/ mKnown \in mInvalid => mToDest = <<>> /\ mAnswers = <<>>

\* Commands go in pairs, and an answer to the second of one means that its key is in
\* some; n tells which of the pair is answered next, while the connection is whole.
PairsOf(orders, got, n, some, whole) ==
    /\ n \in {0, 1}
    /\ whole => (Len(got) + Len(orders) + n) % 2 = 0
    /\ \A j \in 1 .. Len(orders) :
          orders[j].op = "restore" <=> (Len(orders) - j) % 2 = 0
    /\ \A i \in 1 .. Len(got) :
          ((Len(got) - i) + Len(orders)) % 2 = 0 => got[i] \in some

Whole == mKnown # None /\ mKnown \notin mInvalid
PairsAre == PairsOf(mToDest, mAnswers, mReadyRsp, mDest \cup mRefused, Whole)

MigrationInv ==
    /\ mMisled \in BOOLEAN /\ mAsked \subseteq Calls
    /\ mConn \in [M!Links -> {"free", "connecting", "new", "up", "gone"}]
    /\ mToDest \in Seq(Orders) /\ mAnswers \in Seq(Calls)
    /\ mTold \in [Calls -> Seq(Words)]
    /\ mSource \subseteq Calls /\ mDest \subseteq Calls /\ mRefused \subseteq Calls
    /\ ItemQueue(mItems, mAsked)
    /\ KnownIs
    /\ ~mMisled => ToldOf(mItems, mTold, mAsked) /\ M!KeysAreSentFirst /\ (~mCrashed => PairsAre)

\* What is in a place of a sequence, a tail, and a sequence with one more.
LEMMA OneMore ==
    ASSUME NEW W, NEW q \in Seq(W), NEW e \in W
    PROVE  /\ Append(q, e) \in Seq(W) /\ Len(Append(q, e)) = Len(q) + 1 /\ Len(q) \in Nat
           /\ \A i \in 1 .. Len(q) : Append(q, e)[i] = q[i]
           /\ Append(q, e)[Len(q) + 1] = e
  OBVIOUS

LEMMA OneLess ==
    ASSUME NEW W, NEW q \in Seq(W), q # <<>>
    PROVE  /\ Len(q) \in Nat \ {0} /\ Head(q) = q[1] /\ q[1] \in W
           /\ Tail(q) \in Seq(W) /\ Len(Tail(q)) = Len(q) - 1
           /\ \A i \in 1 .. Len(q) - 1 : Tail(q)[i] = q[i + 1]
<1>1. Len(q) \in Nat \ {0}
  BY EmptySeq
<1> QED BY <1>1

LEMMA Parity ==
    ASSUME NEW n \in Nat
    PROVE  n % 2 \in {0, 1} /\ (n + 1) % 2 = 1 - (n % 2) /\ (2 * n) % 2 = 0
           /\ \A m \in Nat : (2 * n + m) % 2 = m % 2
  OBVIOUS

\* A queue whose items are the same but for what is done.
LEMMA QueueChanges ==
    ASSUME NEW calls, NEW q, ItemQueue(q, calls), NEW r \in Seq(Items), Len(r) = Len(q),
           \A i \in 1 .. Len(q) :
              /\ r[i].call = q[i].call
              /\ r[i].state # "Done" => q[i].state # "Done" /\ r[i].keys = q[i].keys
    PROVE  /\ ItemQueue(r, calls)
           /\ \A told : ToldOf(q, told, calls) => ToldOf(r, told, calls)
<1>1. EachOnce(r)
  BY DEF ItemQueue, EachOnce
<1>2. \A i \in 1 .. Len(r) :
         r[i].call \in calls /\ (r[i].state # "Done" => r[i].keys = {r[i].call})
  BY DEF ItemQueue
<1>3. ASSUME NEW told, ToldOf(q, told, calls) PROVE ToldOf(r, told, calls)
  BY <1>3 DEF ToldOf
<1> QED BY <1>1, <1>2, <1>3 DEF ItemQueue

\* Where picks items of the queue, no call twice.
WhereSteps(g, q, some) ==
    \A n \in 0 .. Len(q) :
        g[n] = IF n = 0 THEN <<>>
               ELSE IF q[n] \in some THEN Append(g[n - 1], q[n]) ELSE g[n - 1]

LEMMA WhereIsLast ==
    ASSUME NEW q \in Seq(Items), NEW some
    PROVE  \E g : WhereSteps(g, q, some) /\ M!Where(q, some) = g[Len(q)]
<1> DEFINE T == Seq(Items)
           Grow == [x \in T \X Items |-> IF x[2] \in some THEN Append(x[1], x[2]) ELSE x[1]]
           At(g, n) == IF n = 0 THEN <<>>
                       ELSE IF q[n] \in some THEN Append(g[n - 1], q[n]) ELSE g[n - 1]
           g == CHOOSE g : g = [n \in 0 .. Len(q) |-> At(g, n)]
<1>1. ASSUME NEW h \in T, NEW e \in Items
      PROVE  /\ Grow[<<h, e>>] = IF e \in some THEN Append(h, e) ELSE h
             /\ Grow[<<h, e>>] \in T
  OBVIOUS
<1>2. <<>> \in T
  OBVIOUS
<1> HIDE DEF Grow, T
<1>3. PICK h \in [0 .. Len(q) -> T] :
         \A n \in 0 .. Len(q) : h[n] = IF n = 0 THEN <<>> ELSE Grow[<<h[n - 1], q[n]>>]
  <2>1. StepOf(Grow, T, Items)
    BY <1>1, Zenon DEF StepOf
  <2> QED BY <1>2, <2>1, Recursion
<1>4. \A n \in 0 .. Len(q) : h[n] = At(h, n)
  <2> SUFFICES ASSUME NEW n \in 0 .. Len(q), n # 0 PROVE h[n] = At(h, n)
    BY <1>3
  <2>1. n \in 1 .. Len(q) /\ n - 1 \in 0 .. Len(q)
    BY Len(q) \in Nat
  <2>2. h[n - 1] \in T /\ q[n] \in Items
    BY <1>3, <2>1, ElementOfSeq
  <2> QED BY <1>1, <1>3, <2>2
<1>5. h = [n \in 0 .. Len(q) |-> At(h, n)]
  <2> HIDE DEF At
  <2> QED BY <1>3, <1>4
<1>6. g = [n \in 0 .. Len(q) |-> At(g, n)]
  BY <1>5
<1>7. M!Where(q, some) = g[Len(q)]
  BY Zenon DEF M!Where
<1> HIDE DEF g
<1>8. WhereSteps(g, q, some)
  BY <1>6 DEF WhereSteps
<1> QED BY <1>7, <1>8

LEMMA WhereIs ==
    ASSUME NEW q \in Seq(Items), EachOnce(q), NEW some
    PROVE  /\ M!Where(q, some) \in Seq(Items) /\ EachOnce(M!Where(q, some))
           /\ \A i \in 1 .. Len(M!Where(q, some)) :
                 /\ M!Where(q, some)[i] \in some
                 /\ \E j \in 1 .. Len(q) : M!Where(q, some)[i] = q[j]
<1> DEFINE Picks(r, n) ==
               /\ r \in Seq(Items) /\ EachOnce(r)
               /\ \A i \in 1 .. Len(r) : r[i] \in some /\ \E j \in 1 .. n : r[i] = q[j]
<1>1. PICK g : WhereSteps(g, q, some) /\ M!Where(q, some) = g[Len(q)]
  BY WhereIsLast
<1> DEFINE Upto == {n \in Nat : n <= Len(q) => Picks(g[n], n)}
<1>2. 0 \in Upto
  <2>1. 0 \in 0 .. Len(q)
    BY Len(q) \in Nat
  <2>2. g[0] = <<>>
    BY <1>1, <2>1 DEF WhereSteps
  <2>3. Picks(<<>>, 0)
    BY DEF EachOnce
  <2> HIDE DEF Picks
  <2> QED BY <2>2, <2>3
<1>3. ASSUME NEW n \in Nat, n \in Upto PROVE n + 1 \in Upto
  <2> SUFFICES ASSUME n + 1 <= Len(q) PROVE Picks(g[n + 1], n + 1)
    OBVIOUS
  <2> DEFINE r == g[n]
  <2>1. n + 1 \in 1 .. Len(q) /\ n + 1 \in 0 .. Len(q) /\ (n + 1) - 1 = n /\ n + 1 # 0
        /\ Picks(r, n) /\ q[n + 1] \in Items
    <3>1. n + 1 \in 1 .. Len(q) /\ n + 1 \in 0 .. Len(q) /\ (n + 1) - 1 = n /\ n + 1 # 0
          /\ n <= Len(q)
      BY Len(q) \in Nat
    <3> QED BY <1>3, <3>1, ElementOfSeq
  <2>2. g[n + 1] = IF q[n + 1] \in some THEN Append(r, q[n + 1]) ELSE r
    BY <1>1, <2>1 DEF WhereSteps
  <2> HIDE DEF r
  <2>3. CASE q[n + 1] \notin some
    <3>1. \A j \in 1 .. n : j \in 1 .. n + 1
      OBVIOUS
    <3> QED BY <2>1, <2>2, <2>3, <3>1
  <2>4. CASE q[n + 1] \in some
    <3> DEFINE w == Append(r, q[n + 1])
    <3>1. /\ w \in Seq(Items) /\ Len(w) = Len(r) + 1 /\ Len(r) \in Nat
          /\ \A i \in 1 .. Len(r) : w[i] = r[i]
          /\ w[Len(r) + 1] = q[n + 1]
      BY <2>1, OneMore
    <3> HIDE DEF w
    <3>2. ASSUME NEW i \in 1 .. Len(w)
          PROVE  \/ i \in 1 .. Len(r) /\ w[i] = r[i]
                 \/ i = Len(r) + 1 /\ w[i] = q[n + 1]
      BY <3>1
    <3>3. ASSUME NEW i \in 1 .. Len(r) PROVE r[i].call # q[n + 1].call
      <4>1. PICK j \in 1 .. n : r[i] = q[j]
        BY <2>1
      <4>2. j \in 1 .. Len(q) /\ j # n + 1
        BY <2>1, Len(q) \in Nat
      <4> QED BY <2>1, <4>1, <4>2 DEF EachOnce
    <3>4. EachOnce(w)
      <4>1. ASSUME NEW i \in 1 .. Len(w), NEW j \in 1 .. Len(w), w[i].call = w[j].call
            PROVE  i = j
        BY <2>1, <3>2, <3>3, <4>1 DEF EachOnce
      <4> QED BY <4>1 DEF EachOnce
    <3>5. ASSUME NEW i \in 1 .. Len(w)
          PROVE  w[i] \in some /\ \E j \in 1 .. n + 1 : w[i] = q[j]
      <4>1. CASE i \in 1 .. Len(r) /\ w[i] = r[i]
        <5>1. PICK j \in 1 .. n : r[i] = q[j]
          BY <2>1, <4>1
        <5>2. j \in 1 .. n + 1
          OBVIOUS
        <5> QED BY <2>1, <4>1, <5>1, <5>2
      <4>2. CASE w[i] = q[n + 1]
        <5>1. n + 1 \in 1 .. n + 1
          OBVIOUS
        <5> QED BY <2>4, <4>2, <5>1
      <4> QED BY <3>2, <4>1, <4>2
    <3>6. g[n + 1] = w
      BY <2>2, <2>4 DEF w
    <3> QED BY <3>1, <3>4, <3>5, <3>6
  <2> QED BY <2>3, <2>4
<1> HIDE DEF Upto
<1>4. Len(q) \in Upto
  BY <1>2, <1>3, Induct, Len(q) \in Nat
<1>5. Picks(g[Len(q)], Len(q))
  BY <1>4, Len(q) \in Nat DEF Upto
<1> HIDE DEF Picks
<1>6. Picks(M!Where(q, some), Len(q))
  BY <1>1, <1>5
<1> QED BY <1>6, Zenon DEF Picks

\* What is sent for a queue: a pair for each of its calls.
LEMMA CommandsAre ==
    ASSUME NEW w \in Seq(Items)
    PROVE  /\ M!Commands(w) \in Seq(Orders) /\ Len(w) \in Nat
           /\ Len(M!Commands(w)) = 2 * Len(w)
           /\ \A j \in 1 .. 2 * Len(w) :
                 M!Commands(w)[j].op = "restore" <=> (2 * Len(w) - j) % 2 = 0
<1> DEFINE k == 2 * Len(w)
           C(n) == [op |-> IF n % 2 = 1 THEN "select" ELSE "restore",
                    call |-> w[(n + 1) \div 2].call]
           c == [n \in 1 .. k |-> C(n)]
<1>1. k \in Nat /\ Len(w) \in Nat
  BY Len(w) \in Nat
<1>2. ASSUME NEW n \in 1 .. k
      PROVE  C(n) \in Orders /\ (C(n).op = "restore" <=> (k - n) % 2 = 0)
  <2>1. (n + 1) \div 2 \in 1 .. Len(w)
    BY <1>1
  <2>2. w[(n + 1) \div 2] \in Items
    BY <2>1, ElementOfSeq
  <2>3. w[(n + 1) \div 2].call \in Calls
    BY <2>2 DEF Items
  <2>4. n % 2 \in {0, 1} /\ (n % 2 = 1 <=> (k - n) % 2 = 1) /\ (k - n) % 2 \in {0, 1}
    BY <1>1
  <2> QED BY <2>3, <2>4 DEF Orders
<1> HIDE DEF C
<1>3. c \in [1 .. k -> Orders] /\ \A n \in 1 .. k : c[n] = C(n)
  BY <1>2
<1> HIDE DEF k
<1>4. c \in Seq(Orders)
  BY <1>1, <1>3
<1>5. Len(c) = k
  BY <1>1, <1>3, <1>4, LenProperties
<1>6. M!Commands(w) = c
  BY DEF M!Commands, C, k
<1> HIDE DEF c
<1>7. \A n \in 1 .. k : c[n].op = "restore" <=> (k - n) % 2 = 0
  BY <1>2, <1>3
<1> QED BY <1>1, <1>4, <1>5, <1>6, <1>7 DEF k

\* More pairs are sent over a connection that is whole.
LEMMA PairsMore ==
    ASSUME NEW t \in Seq(Orders), NEW got \in Seq(Calls), NEW n, NEW some,
           PairsOf(t, got, n, some, TRUE), NEW w \in Seq(Items)
    PROVE  /\ t \o M!Commands(w) \in Seq(Orders)
           /\ PairsOf(t \o M!Commands(w), got, n, some, TRUE)
<1> DEFINE c == M!Commands(w)
           k == Len(w)
           all_ == t \o c
<1>1. /\ c \in Seq(Orders) /\ k \in Nat /\ Len(c) = 2 * k
      /\ \A j \in 1 .. Len(c) : c[j].op = "restore" <=> (2 * k - j) % 2 = 0
  BY CommandsAre
<1> HIDE DEF c, k
<1>2. /\ all_ \in Seq(Orders) /\ Len(all_) = Len(t) + 2 * k
      /\ Len(t) \in Nat /\ Len(got) \in Nat
      /\ \A j \in 1 .. Len(t) + 2 * k : all_[j] = IF j <= Len(t) THEN t[j] ELSE c[j - Len(t)]
  <2>1. /\ all_ \in Seq(Orders) /\ Len(all_) = Len(t) + Len(c)
        /\ \A j \in 1 .. Len(t) + Len(c) :
              all_[j] = IF j <= Len(t) THEN t[j] ELSE c[j - Len(t)]
    BY ONLY <1>1, ConcatProperties, t \in Seq(Orders)
  <2> HIDE DEF all_
  <2> QED BY <1>1, <2>1, Len(t) \in Nat, Len(got) \in Nat
<1> HIDE DEF all_
<1>3. n \in {0, 1} /\ (Len(got) + Len(all_) + n) % 2 = 0
  <2>1. n \in {0, 1} /\ (Len(got) + Len(t) + n) % 2 = 0
    BY DEF PairsOf
  <2> QED BY <1>1, <1>2, <2>1
<1>4. ASSUME NEW j \in 1 .. Len(all_)
      PROVE  all_[j].op = "restore" <=> (Len(all_) - j) % 2 = 0
  <2>1. CASE j <= Len(t)
    <3>1. t[j].op = "restore" <=> (Len(t) - j) % 2 = 0
      BY <1>2, <2>1 DEF PairsOf
    <3>2. (Len(all_) - j) % 2 = (Len(t) - j) % 2
      BY <1>1, <1>2, <2>1
    <3> QED BY <1>2, <2>1, <3>1, <3>2
  <2>2. CASE ~(j <= Len(t))
    <3> DEFINE i == j - Len(t)
    <3>1. i \in 1 .. Len(c) /\ all_[j] = c[i] /\ Len(all_) - j = 2 * k - i
      BY <1>1, <1>2, <2>2
    <3> QED BY <1>1, <3>1
  <2> QED BY <2>1, <2>2
<1>5. ASSUME NEW i \in 1 .. Len(got), ((Len(got) - i) + Len(all_)) % 2 = 0
      PROVE  got[i] \in some
  <2>1. ((Len(got) - i) + Len(t)) % 2 = 0
    BY <1>1, <1>2, <1>5
  <2> QED BY <2>1 DEF PairsOf
<1> QED BY <1>2, <1>3, <1>4, <1>5 DEF PairsOf, all_, c

\* The destination answers a command.
LEMMA PairsAnswered ==
    ASSUME NEW t \in Seq(Orders), t # <<>>, NEW got \in Seq(Calls), NEW n, NEW some,
           NEW whole, PairsOf(t, got, n, some, whole), NEW more, some \subseteq more,
           Head(t).op = "restore" => Head(t).call \in more
    PROVE  /\ Tail(t) \in Seq(Orders) /\ Append(got, Head(t).call) \in Seq(Calls)
           /\ PairsOf(Tail(t), Append(got, Head(t).call), n, more, whole)
<1> DEFINE r == Tail(t)
           b == Append(got, Head(t).call)
<1>1. /\ Len(t) \in Nat \ {0} /\ Head(t) = t[1] /\ t[1] \in Orders
      /\ r \in Seq(Orders) /\ Len(r) = Len(t) - 1
      /\ \A i \in 1 .. Len(r) : r[i] = t[i + 1]
  BY OneLess
<1>2. Head(t).call \in Calls
  BY <1>1 DEF Orders
<1>3. /\ b \in Seq(Calls) /\ Len(b) = Len(got) + 1 /\ Len(got) \in Nat
      /\ \A i \in 1 .. Len(got) : b[i] = got[i]
      /\ b[Len(got) + 1] = Head(t).call
  BY <1>2, OneMore
<1> HIDE DEF r, b
<1>4. n \in {0, 1} /\ (whole => (Len(b) + Len(r) + n) % 2 = 0)
  <2>1. n \in {0, 1} /\ (whole => (Len(got) + Len(t) + n) % 2 = 0)
    BY DEF PairsOf
  <2>2. Len(b) + Len(r) = Len(got) + Len(t)
    BY <1>1, <1>3
  <2> QED BY <2>1, <2>2
<1>5. ASSUME NEW j \in 1 .. Len(r)
      PROVE  r[j].op = "restore" <=> (Len(r) - j) % 2 = 0
  <2>1. j + 1 \in 1 .. Len(t) /\ r[j] = t[j + 1] /\ Len(t) - (j + 1) = Len(r) - j
    BY <1>1
  <2>2. t[j + 1].op = "restore" <=> (Len(t) - (j + 1)) % 2 = 0
    BY <2>1 DEF PairsOf
  <2> QED BY <2>1, <2>2
<1>6. ASSUME NEW i \in 1 .. Len(b), ((Len(b) - i) + Len(r)) % 2 = 0
      PROVE  b[i] \in more
  <2>1. CASE i \in 1 .. Len(got)
    <3>1. (Len(got) - i) + Len(t) = (Len(b) - i) + Len(r)
      BY <1>1, <1>3
    <3>2. got[i] \in some
      BY <1>6, <2>1, <3>1 DEF PairsOf
    <3> QED BY <1>3, <2>1, <3>2
  <2>2. CASE i = Len(got) + 1
    <3>1. (Len(b) - i) + Len(r) = Len(t) - 1 /\ 1 \in 1 .. Len(t)
      BY <1>1, <1>3, <2>2
    <3>2. t[1].op = "restore" <=> (Len(t) - 1) % 2 = 0
      BY <3>1 DEF PairsOf
    <3> QED BY <1>1, <1>3, <1>6, <2>2, <3>1, <3>2
  <2> QED BY <1>3, <2>1, <2>2
<1> QED BY <1>1, <1>3, <1>4, <1>5, <1>6 DEF PairsOf, r, b

\* The next answer is read: it is the second of its pair when n is 1.
LEMMA PairsRead ==
    ASSUME NEW t \in Seq(Orders), NEW got \in Seq(Calls), got # <<>>, NEW n, NEW some,
           PairsOf(t, got, n, some, TRUE)
    PROVE  /\ Tail(got) \in Seq(Calls) /\ Head(got) \in Calls /\ n \in {0, 1}
           /\ PairsOf(t, Tail(got), 1 - n, some, TRUE)
           /\ n = 1 => Head(got) \in some
<1> DEFINE r == Tail(got)
<1>1. /\ Len(got) \in Nat \ {0} /\ Head(got) = got[1] /\ got[1] \in Calls
      /\ r \in Seq(Calls) /\ Len(r) = Len(got) - 1 /\ Len(t) \in Nat
      /\ \A i \in 1 .. Len(r) : r[i] = got[i + 1]
  BY OneLess
<1> HIDE DEF r
<1>2. n \in {0, 1} /\ (Len(got) + Len(t) + n) % 2 = 0
  BY DEF PairsOf
<1>3. 1 - n \in {0, 1} /\ (Len(r) + Len(t) + (1 - n)) % 2 = 0
  BY <1>1, <1>2
<1>4. ASSUME NEW i \in 1 .. Len(r), ((Len(r) - i) + Len(t)) % 2 = 0
      PROVE  r[i] \in some
  <2>1. i + 1 \in 1 .. Len(got) /\ r[i] = got[i + 1] /\ Len(got) - (i + 1) = Len(r) - i
    BY <1>1
  <2> QED BY <1>4, <2>1 DEF PairsOf
<1>5. PairsOf(t, r, 1 - n, some, TRUE)
  BY <1>3, <1>4 DEF PairsOf
<1>6. ASSUME n = 1 PROVE got[1] \in some
  <2>1. 1 \in 1 .. Len(got) /\ ((Len(got) - 1) + Len(t)) % 2 = 0
    BY <1>1, <1>2, <1>6
  <2> QED BY <2>1 DEF PairsOf
<1> QED BY <1>1, <1>2, <1>5, <1>6 DEF r

\* The calls sent are to be sent again.
LEMMA RetriedKeeps ==
    ASSUME NEW calls, NEW q, ItemQueue(q, calls)
    PROVE  /\ ItemQueue(M!Retried(q), calls)
           /\ \A told : ToldOf(q, told, calls) => ToldOf(M!Retried(q), told, calls)
<1> DEFINE R(i) == IF q[i].state = "Processing" THEN [q[i] EXCEPT !.state = "None"] ELSE q[i]
           r == [i \in 1 .. Len(q) |-> R(i)]
<1>1. q \in Seq(Items) /\ Len(q) \in Nat /\ DOMAIN q = 1 .. Len(q)
      /\ \A i \in 1 .. Len(q) : q[i] \in Items
  BY LenProperties, ElementOfSeq DEF ItemQueue
<1>2. ASSUME NEW i \in 1 .. Len(q)
      PROVE  /\ R(i) \in Items /\ R(i).call = q[i].call
             /\ R(i).state # "Done" => q[i].state # "Done" /\ R(i).keys = q[i].keys
  BY <1>1 DEF Items, M!MigrateStates
<1> HIDE DEF R
<1>3. r \in Seq(Items) /\ Len(r) = Len(q) /\ \A i \in 1 .. Len(q) : r[i] = R(i)
  <2>1. r \in [1 .. Len(q) -> Items] /\ \A i \in 1 .. Len(q) : r[i] = R(i)
    BY <1>2
  <2>2. r \in Seq(Items)
    BY <1>1, <2>1
  <2> QED BY <1>1, <2>1, <2>2, LenProperties
<1>4. M!Retried(q) = r
  BY <1>1 DEF M!Retried, R
<1> HIDE DEF r
<1> QED BY <1>2, <1>3, <1>4, QueueChanges

\* The calls of those who have left are done.
LEMMA LeaversAreDone ==
    ASSUME NEW calls, NEW q, ItemQueue(q, calls), NEW clients, NEW r,
           r = [n \in DOMAIN q |-> IF q[n].call \in clients THEN q[n]
                                   ELSE [q[n] EXCEPT !.state = "Done"]]
    PROVE  /\ ItemQueue(r, calls)
           /\ \A told : ToldOf(q, told, calls) => ToldOf(r, told, calls)
<1> DEFINE R(i) == IF q[i].call \in clients THEN q[i] ELSE [q[i] EXCEPT !.state = "Done"]
<1>1. q \in Seq(Items) /\ Len(q) \in Nat /\ DOMAIN q = 1 .. Len(q)
      /\ \A i \in 1 .. Len(q) : q[i] \in Items
  BY LenProperties, ElementOfSeq DEF ItemQueue
<1>2. ASSUME NEW i \in 1 .. Len(q)
      PROVE  /\ R(i) \in Items /\ R(i).call = q[i].call
             /\ R(i).state # "Done" => q[i].state # "Done" /\ R(i).keys = q[i].keys
  BY <1>1 DEF Items, M!MigrateStates
<1>3. r = [i \in 1 .. Len(q) |-> R(i)]
  BY <1>1
<1> HIDE DEF R
<1>4. r \in Seq(Items) /\ Len(r) = Len(q) /\ \A i \in 1 .. Len(q) : r[i] = R(i)
  <2>1. r \in [1 .. Len(q) -> Items] /\ \A i \in 1 .. Len(q) : r[i] = R(i)
    BY <1>2, <1>3
  <2>2. r \in Seq(Items)
    BY <1>1, <2>1
  <2> QED BY <1>1, <2>1, <2>2, LenProperties
<1> QED BY <1>2, <1>4, QueueChanges

\* ProcessItem of every call of a queue.
LEMMA ProcessKeeps ==
    ASSUME NEW q, ItemQueue(q, mAsked), NEW c, NEW before \in [Calls -> Seq(Words)],
           M!ProcessItems(q, c, before), mAsked \subseteq Calls
    PROVE  /\ ItemQueue(mItems', mAsked) /\ mTold' \in [Calls -> Seq(Words)]
           /\ ToldOf(q, before, mAsked) => ToldOf(mItems', mTold', mAsked)
           /\ \E w \in Seq(Items) :
                 mToDest' = IF c \in mInvalid THEN mToDest ELSE mToDest \o M!Commands(w)
<1> DEFINE todo == {item \in ToSet(q) : item.state = "None"}
           sent == {item \in todo : item.keys \subseteq mSource}
           nokey == {item.call : item \in todo \ sent}
           R(i) == M!Processed(q[i])
<1>1. /\ mItems' = [n \in DOMAIN q |-> R(n)]
      /\ mTold' = [m \in Calls |-> IF m \in nokey \cap mClients THEN Append(before[m], "NOKEY")
                                   ELSE before[m]]
      /\ mToDest' = IF c \in mInvalid THEN mToDest ELSE mToDest \o M!Commands(M!Where(q, sent))
  BY Zenon DEF M!ProcessItems, M!ToSet, ToSet
<1>2. q \in Seq(Items) /\ EachOnce(q) /\ Len(q) \in Nat /\ DOMAIN q = 1 .. Len(q)
      /\ \A i \in 1 .. Len(q) : q[i] \in Items
  BY LenProperties, ElementOfSeq DEF ItemQueue
<1>3. \E w \in Seq(Items) :
         mToDest' = IF c \in mInvalid THEN mToDest ELSE mToDest \o M!Commands(w)
  <2> HIDE DEF sent
  <2>1. M!Where(q, sent) \in Seq(Items)
    BY <1>2, WhereIs
  <2> QED BY <1>1, <2>1
<1>4. ASSUME NEW m \in nokey
      PROVE  \E i \in 1 .. Len(q) : q[i].call = m /\ q[i].state = "None" /\ R(i).state = "Done"
  <2>1. PICK item \in todo \ sent : m = item.call
    BY <1>4
  <2>2. item \in ToSet(q) /\ item.state = "None" /\ ~(item.keys \subseteq mSource)
    BY <2>1
  <2>3. PICK i \in 1 .. Len(q) : item = q[i]
    BY <1>2, <2>2, SetOfSeq
  <2>4. R(i).state = "Done"
    BY <1>2, <2>2, <2>3 DEF M!Processed, Items
  <2> QED BY <2>1, <2>2, <2>3, <2>4
<1> HIDE DEF nokey
<1>5. ASSUME NEW i \in 1 .. Len(q)
      PROVE  /\ R(i) \in Items /\ R(i).call = q[i].call
             /\ R(i).state # "Done" => q[i].state # "Done" /\ R(i).keys = q[i].keys
  BY <1>2 DEF Items, M!MigrateStates, M!Processed
<1> HIDE DEF R
<1>6. /\ mItems' \in Seq(Items) /\ Len(mItems') = Len(q)
      /\ \A i \in 1 .. Len(q) : mItems'[i] = R(i)
  <2>1. mItems' \in [1 .. Len(q) -> Items] /\ \A i \in 1 .. Len(q) : mItems'[i] = R(i)
    BY <1>1, <1>2, <1>5
  <2>2. mItems' \in Seq(Items)
    BY <1>2, <2>1
  <2> QED BY <1>2, <2>1, <2>2, LenProperties
<1>7. /\ ItemQueue(mItems', mAsked)
      /\ \A told : ToldOf(q, told, mAsked) => ToldOf(mItems', told, mAsked)
  BY <1>5, <1>6, QueueChanges
<1>8. ASSUME NEW m \in Calls
      PROVE  /\ mTold'[m] = IF m \in nokey \cap mClients THEN Append(before[m], "NOKEY")
                            ELSE before[m]
             /\ mTold'[m] \in Seq(Words) /\ before[m] \in Seq(Words)
  BY <1>1 DEF Words
<1>9. mTold' \in [Calls -> Seq(Words)]
  BY <1>1, <1>8
<1>10. ASSUME ToldOf(q, before, mAsked) PROVE ToldOf(mItems', mTold', mAsked)
  <2> SUFFICES ASSUME NEW m \in Calls
               PROVE  /\ Len(mTold'[m]) <= 1
                      /\ mTold'[m] # <<>> => /\ m \in mAsked
                                             /\ \A i \in 1 .. Len(mItems') :
                                                   mItems'[i].call = m => mItems'[i].state = "Done"
    BY DEF ToldOf
  <2>1. CASE m \in nokey \cap mClients
    <3>1. PICK i \in 1 .. Len(q) : q[i].call = m /\ q[i].state = "None" /\ R(i).state = "Done"
      BY <1>4, <2>1
    <3>2. before[m] = <<>>
      BY <1>10, <3>1 DEF ToldOf
    <3>3. mTold'[m] = <<"NOKEY">> /\ Len(mTold'[m]) = 1
      <4>1. mTold'[m] = Append(before[m], "NOKEY")
        BY <1>8, <2>1
      <4> QED BY <3>2, <4>1
    <3>4. m \in mAsked
      BY <3>1 DEF ItemQueue
    <3>5. ASSUME NEW j \in 1 .. Len(q), R(j).call = m PROVE R(j).state = "Done"
      <4>1. q[j].call = q[i].call
        BY <1>5, <3>1, <3>5
      <4>2. j = i
        BY <1>2, <4>1 DEF EachOnce
      <4> QED BY <3>1, <4>2
    <3> QED BY <1>6, <3>3, <3>4, <3>5
  <2>2. CASE m \notin nokey \cap mClients
    <3>1. ToldOf(mItems', before, mAsked)
      BY <1>7, <1>10
    <3> QED BY <1>8, <2>2, <3>1 DEF ToldOf
  <2> QED BY <2>1, <2>2
<1> QED BY <1>3, <1>7, <1>9, <1>10

\* The timer goes through the queue: the calls that are done or late go.
LEMMA LoopCheckKeeps == ASSUME MigrationInv, M!LoopCheck PROVE MigrationInv'
<1> DEFINE stay == {item \in ToSet(mItems) : item.state # "Done" /\ item.call \notin mLate}
           kept == M!Where(mItems, stay)
           failed == M!Open \cap mLate
           before == M!Tell(failed, "IOERR")
           alive == mKnown # None /\ mConn[mKnown] # "gone"
<1>1. /\ ~mCrashed
      /\ \/ /\ alive /\ M!ProcessItems(kept, mKnown, before)
            /\ UNCHANGED <<mConn, mInvalid, mKnown, mAnswers, mReadyRsp>>
         \/ /\ ~alive /\ mKnown' = None /\ M!Connect(kept) /\ mTold' = before
            /\ UNCHANGED <<mInvalid, mToDest, mAnswers, mReadyRsp>>
         \/ /\ mKnown' = mKnown \/ (~alive /\ mKnown' = None)
            /\ mItems' = kept /\ mTold' = before
            /\ UNCHANGED <<mConn, mInvalid, mToDest, mAnswers, mReadyRsp>>
      /\ UNCHANGED <<mAsked, mSource, mDest, mRefused, mMisled, mCrashed>>
  <2> DEFINE some == \E n \in DOMAIN kept : kept[n].state = "None"
  <2>1. /\ ~mCrashed
        /\ \/ /\ some /\ alive /\ M!ProcessItems(kept, mKnown, before)
              /\ UNCHANGED <<M!connVars, mAnswers, mReadyRsp>>
           \/ /\ some /\ ~alive /\ ~mPending /\ mKnown' = None /\ M!Connect(kept)
              /\ mTold' = before /\ UNCHANGED <<mInvalid, M!wireVars>>
           \/ /\ ~some \/ (~alive /\ mPending)
              /\ mKnown' = (IF some THEN None ELSE mKnown)
              /\ mItems' = kept /\ mTold' = before
              /\ UNCHANGED <<mConn, mInvalid, mPending, M!wireVars>>
        /\ UNCHANGED <<mAsked, mLate, mClients, M!keyVars, mMisled, mCrashed>>
    BY Zenon DEF M!LoopCheck, M!ToSet, ToSet
  <2> HIDE DEF some, before, kept, alive
  <2> QED BY <2>1 DEF M!connVars, M!wireVars, M!keyVars
<1>2. /\ mItems \in Seq(Items) /\ EachOnce(mItems) /\ Len(mItems) \in Nat
      /\ DOMAIN mItems = 1 .. Len(mItems) /\ ItemQueue(mItems, mAsked) /\ KnownIs
      /\ mTold \in [Calls -> Seq(Words)] /\ mAsked \subseteq Calls
      /\ mAnswers \in Seq(Calls) /\ mToDest \in Seq(Orders)
  BY LenProperties DEF MigrationInv, ItemQueue
<1>3. /\ kept \in Seq(Items) /\ EachOnce(kept)
      /\ \A i \in 1 .. Len(kept) : kept[i] \in stay /\ \E j \in 1 .. Len(mItems) : kept[i] = mItems[j]
  <2> HIDE DEF stay
  <2> QED BY <1>2, WhereIs
<1>4. \A i \in 1 .. Len(kept) : kept[i].state # "Done" /\ kept[i].call \notin mLate
  BY <1>3
<1> HIDE DEF kept, stay
<1>5. ItemQueue(kept, mAsked)
  BY <1>2, <1>3 DEF ItemQueue
<1>6. ASSUME NEW m \in Calls
      PROVE  /\ before[m] = IF m \in failed \cap mClients THEN Append(mTold[m], "IOERR") ELSE mTold[m]
             /\ before[m] \in Seq(Words)
  BY <1>2 DEF M!Tell, Words
<1>7. before \in [Calls -> Seq(Words)]
  BY <1>6 DEF M!Tell
<1>8. ASSUME NEW m \in failed
      PROVE  m \in mLate /\ \E i \in 1 .. Len(mItems) : mItems[i].call = m /\ mItems[i].state # "Done"
  BY <1>2 DEF M!Open
<1> HIDE DEF before, failed
<1>9. ASSUME ToldOf(mItems, mTold, mAsked) PROVE ToldOf(kept, before, mAsked)
  <2> SUFFICES ASSUME NEW m \in Calls
               PROVE  /\ Len(before[m]) <= 1
                      /\ before[m] # <<>> => /\ m \in mAsked
                                             /\ \A i \in 1 .. Len(kept) :
                                                   kept[i].call = m => kept[i].state = "Done"
    BY DEF ToldOf
  <2>1. CASE m \in failed \cap mClients
    <3>1. PICK i \in 1 .. Len(mItems) : mItems[i].call = m /\ mItems[i].state # "Done"
      BY <1>8, <2>1
    <3>2. mTold[m] = <<>>
      BY <1>9, <3>1 DEF ToldOf
    <3>3. before[m] = Append(mTold[m], "IOERR")
      BY <1>6, <2>1
    <3>4. Len(before[m]) = 1
      BY <3>2, <3>3
    <3>5. m \in mAsked
      BY <1>2, <3>1 DEF ItemQueue
    <3>6. \A j \in 1 .. Len(kept) : kept[j].call # m
      BY <1>4, <1>8, <2>1
    <3> QED BY <3>4, <3>5, <3>6
  <2>2. CASE m \notin failed \cap mClients
    <3>1. before[m] = mTold[m]
      BY <1>6, <2>2
    <3>2. ASSUME mTold[m] # <<>>, NEW i \in 1 .. Len(kept), kept[i].call = m
          PROVE  FALSE
      <4>1. PICK j \in 1 .. Len(mItems) : kept[i] = mItems[j]
        BY <1>3
      <4> QED BY <1>4, <1>9, <3>2, <4>1 DEF ToldOf
    <3> QED BY <1>9, <3>1, <3>2 DEF ToldOf
  <2> QED BY <2>1, <2>2
<1>10. \/ /\ ItemQueue(mItems', mAsked) /\ mTold' \in [Calls -> Seq(Words)]
          /\ ToldOf(mItems, mTold, mAsked) => ToldOf(mItems', mTold', mAsked)
  <2>1. CASE M!ProcessItems(kept, mKnown, before)
    BY <1>2, <1>5, <1>7, <1>9, <2>1, ProcessKeeps
  <2>2. CASE mTold' = before /\ mItems' \in {kept, M!Retried(kept)}
    <3>1. /\ ItemQueue(M!Retried(kept), mAsked)
          /\ ToldOf(kept, before, mAsked) => ToldOf(M!Retried(kept), before, mAsked)
      BY <1>5, RetriedKeeps
    <3> QED BY <1>5, <1>7, <1>9, <2>2, <3>1
  <2> QED BY <1>1, <2>1, <2>2, Zenon DEF M!Connect
<1>11. ~alive => mToDest = <<>> /\ mAnswers = <<>>
  BY <1>2 DEF KnownIs
<1>12. /\ mConn' \in [M!Links -> {"free", "connecting", "new", "up", "gone"}]
       /\ mKnown' # None => mConn' = mConn
  BY <1>1 DEF MigrationInv, M!Connect
<1>13. CASE UNCHANGED <<mToDest, mAnswers, mReadyRsp>> /\ (mKnown' = mKnown \/ (~alive /\ mKnown' = None))
  <2>1. KnownIs'
    BY <1>1, <1>2, <1>11, <1>12, <1>13 DEF KnownIs
  <2>2. PairsAre => PairsAre'
    <3> DEFINE d == mDest \cup mRefused
    <3>1. UNCHANGED <<mDest, mRefused, mInvalid>>
      BY <1>1
    <3>2. CASE mKnown' = mKnown
      BY <1>13, <3>1, <3>2 DEF PairsAre, Whole
    <3>3. CASE mKnown' = None
      <4>1. ~Whole' /\ d' = d
        BY <3>1, <3>3 DEF Whole
      <4> QED BY <1>13, <4>1 DEF PairsAre, PairsOf
    <3> QED BY <1>13, <3>2, <3>3
  <2> QED BY <1>1, <1>2, <1>10, <1>12, <1>13, <2>1, <2>2 DEF MigrationInv, M!KeysAreSentFirst
<1>14. CASE /\ alive /\ M!ProcessItems(kept, mKnown, before)
            /\ UNCHANGED <<mConn, mInvalid, mKnown, mAnswers, mReadyRsp>>
  <2>1. PICK w \in Seq(Items) :
           mToDest' = IF mKnown \in mInvalid THEN mToDest ELSE mToDest \o M!Commands(w)
    BY <1>2, <1>5, <1>7, <1>14, ProcessKeeps
  <2>2. CASE mKnown \in mInvalid
    BY <1>13, <1>14, <2>1, <2>2
  <2>3. CASE mKnown \notin mInvalid
    <3>1. mToDest' = mToDest \o M!Commands(w) /\ mToDest' \in Seq(Orders)
      BY <1>2, <2>1, <2>3, CommandsAre, ConcatProperties
    <3>2. KnownIs'
      BY <1>2, <1>14, <2>3 DEF KnownIs
    <3>3. PairsAre => PairsAre'
      <4>1. Whole /\ Whole'
        BY <1>14, <2>3 DEF Whole
      <4>2. mDest' \cup mRefused' = mDest \cup mRefused
        BY <1>1
      <4> DEFINE d == mDest \cup mRefused
      <4>3. ASSUME PairsOf(mToDest, mAnswers, mReadyRsp, d, TRUE)
            PROVE  PairsOf(mToDest \o M!Commands(w), mAnswers, mReadyRsp, d, TRUE)
        <5> HIDE DEF d
        <5> QED BY <1>2, <4>3, PairsMore
      <4>4. Whole = TRUE /\ Whole' = TRUE
        BY <4>1 DEF Whole
      <4> QED BY <1>14, <3>1, <4>2, <4>3, <4>4 DEF PairsAre
    <3> QED BY <1>1, <1>2, <1>10, <1>12, <1>14, <3>1, <3>2, <3>3 DEF MigrationInv, M!KeysAreSentFirst
  <2> QED BY <2>2, <2>3
<1> QED BY <1>1, <1>13, <1>14

\* A client calls MIGRATE.
LEMMA CallKeeps ==
    ASSUME MigrationInv, NEW m \in Calls, M!migrate(m)
    PROVE  MigrationInv'
<1>1. PICK item \in Items :
         /\ item.call = m /\ item.keys = {m} /\ mItems' = Append(mItems, item)
  BY DEF M!migrate, Items, M!MigrateStates
<1>2. /\ m \notin mAsked /\ mAsked' = mAsked \cup {m}
      /\ UNCHANGED <<mConn, mInvalid, mKnown, mToDest, mAnswers, mReadyRsp, mSource, mDest,
                     mRefused, mTold, mMisled, mCrashed>>
  BY DEF M!migrate, M!connVars, M!wireVars, M!keyVars
<1>3. mItems \in Seq(Items) /\ ItemQueue(mItems, mAsked) /\ EachOnce(mItems)
  BY DEF MigrationInv, ItemQueue
<1>4. /\ mItems' \in Seq(Items) /\ Len(mItems') = Len(mItems) + 1 /\ Len(mItems) \in Nat
      /\ \A i \in 1 .. Len(mItems) : mItems'[i] = mItems[i]
      /\ mItems'[Len(mItems) + 1] = item
  BY <1>1, <1>3, OneMore
<1>5. \A i \in 1 .. Len(mItems) : mItems[i].call \in mAsked
  BY <1>3 DEF ItemQueue
<1>6. ASSUME NEW i \in 1 .. Len(mItems')
      PROVE  \/ i \in 1 .. Len(mItems) /\ mItems'[i] = mItems[i]
             \/ i = Len(mItems) + 1 /\ mItems'[i] = item
  BY <1>4
<1>7. EachOnce(mItems')
  <2> SUFFICES ASSUME NEW i \in 1 .. Len(mItems'), NEW j \in 1 .. Len(mItems'),
                      mItems'[i].call = mItems'[j].call
               PROVE  i = j
    BY DEF EachOnce
  <2> QED BY <1>1, <1>2, <1>3, <1>5, <1>6 DEF EachOnce
<1>8. ItemQueue(mItems', mAsked')
  <2> SUFFICES ASSUME NEW i \in 1 .. Len(mItems')
               PROVE  /\ mItems'[i].call \in mAsked'
                      /\ mItems'[i].state # "Done" => mItems'[i].keys = {mItems'[i].call}
    BY <1>4, <1>7 DEF ItemQueue
  <2> QED BY <1>1, <1>2, <1>3, <1>5, <1>6 DEF ItemQueue
<1>9. ASSUME ToldOf(mItems, mTold, mAsked) PROVE ToldOf(mItems', mTold, mAsked')
  <2> SUFFICES ASSUME NEW x \in Calls, mTold[x] # <<>>
               PROVE  /\ x \in mAsked'
                      /\ \A i \in 1 .. Len(mItems') :
                            mItems'[i].call = x => mItems'[i].state = "Done"
    BY <1>9 DEF ToldOf
  <2>1. /\ x \in mAsked
        /\ \A i \in 1 .. Len(mItems) : mItems[i].call = x => mItems[i].state = "Done"
    BY <1>9 DEF ToldOf
  <2> QED BY <1>1, <1>2, <1>6, <2>1
<1>10. KnownIs' /\ (PairsAre => PairsAre')
  <2>1. KnownIs'
    BY <1>2 DEF MigrationInv, KnownIs
  <2>2. Whole' = Whole /\ (mDest \cup mRefused)' = mDest \cup mRefused
    BY <1>2 DEF Whole
  <2>3. PairsAre => PairsAre'
    BY <1>2, <2>2 DEF PairsAre
  <2> QED BY <2>1, <2>3
<1>11. mAsked' \subseteq Calls
  BY <1>2 DEF MigrationInv
<1> QED BY <1>2, <1>8, <1>9, <1>10, <1>11 DEF MigrationInv, M!KeysAreSentFirst

\* An answer is counted for the call at the head.
LEMMA PacketKeeps == ASSUME MigrationInv, M!HandlePacket PROVE MigrationInv'
<1>1. /\ ~mCrashed /\ mAnswers # <<>> /\ Whole /\ mAnswers' = Tail(mAnswers)
      /\ UNCHANGED <<mAsked, mConn, mInvalid, mKnown, mToDest, mDest, mRefused>>
  BY DEF M!HandlePacket, Whole, M!connVars
<1>2. /\ mItems \in Seq(Items) /\ ItemQueue(mItems, mAsked) /\ EachOnce(mItems)
      /\ mToDest \in Seq(Orders) /\ mAnswers \in Seq(Calls) /\ mAnswers' \in Seq(Calls)
      /\ mTold \in [Calls -> Seq(Words)] /\ mSource \subseteq Calls
  <2>1. mAnswers \in Seq(Calls) /\ mAnswers' \in Seq(Calls)
    BY <1>1, OneLess DEF MigrationInv
  <2> QED BY <2>1 DEF MigrationInv, ItemQueue
<1>3. KnownIs'
  BY <1>1 DEF MigrationInv, KnownIs, Whole
<1>4. CASE mItems = <<>> /\ mCrashed' = TRUE /\ UNCHANGED <<mItems, mReadyRsp, mSource, mTold, mMisled>>
  BY <1>1, <1>2, <1>3, <1>4 DEF MigrationInv, M!KeysAreSentFirst
<1>5. CASE mItems # <<>> /\ UNCHANGED mCrashed
  <2> DEFINE head == mItems[1]
             told == head.call
  <2>1. /\ head \in Items /\ 1 \in 1 .. Len(mItems) /\ Len(mItems) \in Nat
        /\ DOMAIN mItems = 1 .. Len(mItems)
    BY <1>2, <1>5, OneLess, LenProperties
  <2>2. /\ mMisled' = (mMisled \/ Head(mAnswers) # head.call \/ head.state # "Processing")
        /\ \/ /\ M!Completes(head, mReadyRsp + 1)
              /\ mReadyRsp' = 0
              /\ mTold' = M!Tell({head.call}, "OK")
              /\ mSource' = IF head.copy THEN mSource ELSE mSource \ head.keys
              /\ mItems' = [mItems EXCEPT ![1].state = "Done"]
           \/ /\ ~M!Completes(head, mReadyRsp + 1)
              /\ mReadyRsp' = mReadyRsp + 1
              /\ UNCHANGED <<mItems, mSource, mTold>>
    BY <1>5, Zenon DEF M!HandlePacket
  <2> HIDE DEF head
  <2>3. mMisled \in BOOLEAN /\ mMisled' \in BOOLEAN /\ (~mMisled' => ~mMisled)
    BY <2>2 DEF MigrationInv
  <2>4. ASSUME ~mMisled'
        PROVE  /\ ~mMisled /\ ToldOf(mItems, mTold, mAsked) /\ M!KeysAreSentFirst
               /\ PairsOf(mToDest, mAnswers, mReadyRsp, mDest \cup mRefused, TRUE)
               /\ Head(mAnswers) = told /\ head.state = "Processing" /\ head.keys = {told}
    <3>1. Whole = TRUE
      BY <1>1 DEF Whole
    <3>2. ~mMisled /\ ToldOf(mItems, mTold, mAsked) /\ M!KeysAreSentFirst /\ PairsAre
      BY <1>1, <2>3, <2>4 DEF MigrationInv
    <3>3. Head(mAnswers) = told /\ head.state = "Processing"
      BY <2>2, <2>4
    <3>4. head.keys = {told}
      BY <1>2, <2>1, <3>3 DEF ItemQueue, head
    <3> QED BY <3>1, <3>2, <3>3, <3>4 DEF PairsAre
  <2>5. ASSUME ~mMisled'
        PROVE  /\ PairsOf(mToDest, Tail(mAnswers), 1 - mReadyRsp, mDest \cup mRefused, TRUE)
               /\ mReadyRsp \in {0, 1}
               /\ mReadyRsp = 1 => told \in mDest \cup mRefused
    <3> DEFINE d == mDest \cup mRefused
    <3>1. PairsOf(mToDest, mAnswers, mReadyRsp, d, TRUE)
      BY <2>4, <2>5
    <3> HIDE DEF d
    <3>2. /\ PairsOf(mToDest, Tail(mAnswers), 1 - mReadyRsp, d, TRUE) /\ mReadyRsp \in {0, 1}
          /\ mReadyRsp = 1 => Head(mAnswers) \in d
      BY <1>1, <1>2, <3>1, PairsRead
    <3> QED BY <2>4, <2>5, <3>2 DEF d
  <2>6. ASSUME ~mMisled' PROVE M!Completes(head, mReadyRsp + 1) <=> mReadyRsp = 1
    <3>1. Cardinality(head.keys) = 1
      BY <2>4, <2>6, FS_Singleton
    <3>2. M!Cardinality(head.keys) = Cardinality(head.keys)
      BY Zenon DEF M!Cardinality, Cardinality
    <3> QED BY <2>5, <2>6, <3>1, <3>2 DEF M!Completes
  <2>7. CASE /\ M!Completes(head, mReadyRsp + 1)
             /\ mReadyRsp' = 0
             /\ mTold' = M!Tell({head.call}, "OK")
             /\ mSource' = IF head.copy THEN mSource ELSE mSource \ head.keys
             /\ mItems' = [mItems EXCEPT ![1].state = "Done"]
    <3>1. /\ mItems' \in Seq(Items) /\ Len(mItems') = Len(mItems)
          /\ mItems'[1].state = "Done" /\ mItems'[1].call = told
          /\ \A i \in 1 .. Len(mItems) :
                mItems'[i].call = mItems[i].call /\ (i # 1 => mItems'[i] = mItems[i])
      <4> DEFINE e == [head EXCEPT !.state = "Done"]
      <4>1. e \in Items /\ e.state = "Done" /\ e.call = told
        BY <2>1 DEF Items, M!MigrateStates
      <4>2. mItems' = [mItems EXCEPT ![1] = e]
        BY <2>7 DEF head
      <4> HIDE DEF e
      <4>3. mItems' \in Seq(Items) /\ Len(mItems') = Len(mItems)
            /\ \A i \in 1 .. Len(mItems) : mItems'[i] = IF i = 1 THEN e ELSE mItems[i]
        BY <1>2, <2>1, <4>1, <4>2
      <4> QED BY <2>1, <4>1, <4>3 DEF head
    <3>2. ItemQueue(mItems', mAsked)
      <4>1. \A i \in 1 .. Len(mItems) :
               mItems'[i].state # "Done" => mItems[i].state # "Done" /\ mItems'[i].keys = mItems[i].keys
        BY <3>1
      <4> QED BY <1>2, <3>1, <4>1, QueueChanges
    <3>3. ASSUME NEW m \in Calls
          PROVE  /\ mTold'[m] = IF m \in {told} \cap mClients THEN Append(mTold[m], "OK") ELSE mTold[m]
                 /\ mTold'[m] \in Seq(Words)
      BY <1>2, <2>7 DEF M!Tell, Words
    <3>4. mTold' \in [Calls -> Seq(Words)]
      BY <2>7, <3>3 DEF M!Tell
    <3>5. ASSUME ~mMisled' PROVE ToldOf(mItems', mTold', mAsked)
      <4> SUFFICES ASSUME NEW m \in Calls
                   PROVE  /\ Len(mTold'[m]) <= 1
                          /\ mTold'[m] # <<>> =>
                                /\ m \in mAsked
                                /\ \A i \in 1 .. Len(mItems') :
                                      mItems'[i].call = m => mItems'[i].state = "Done"
        BY DEF ToldOf
      <4>1. ToldOf(mItems, mTold, mAsked) /\ head.state = "Processing"
        BY <2>4, <3>5
      <4>2. CASE m = told
        <5>1. mTold[m] = <<>> /\ m \in mAsked
          BY <1>2, <2>1, <4>1, <4>2 DEF ToldOf, ItemQueue, head
        <5>2. mTold'[m] = Append(mTold[m], "OK") \/ mTold'[m] = mTold[m]
          BY <3>3
        <5>3. Len(mTold'[m]) <= 1
          <6>1. mTold'[m] = Append(<<>>, "OK") \/ mTold'[m] = <<>>
            BY <5>1, <5>2
          <6> DEFINE w == mTold'[m]
          <6> HIDE DEF w
          <6>2. w = <<"OK">> \/ w = <<>>
            BY <6>1 DEF w
          <6>3. Len(w) <= 1
            <7>1. CASE w = <<"OK">>
              BY <7>1
            <7>2. CASE w = <<>>
              BY <7>2
            <7> QED BY <6>2, <7>1, <7>2
          <6> QED BY <6>3, Zenon DEF w
        <5>4. ASSUME NEW i \in 1 .. Len(mItems'), mItems'[i].call = m
              PROVE  mItems'[i].state = "Done"
          <6>1. mItems[i].call = mItems[1].call /\ i \in 1 .. Len(mItems)
            BY <3>1, <4>2, <5>4 DEF head
          <6>2. i = 1
            BY <1>2, <2>1, <6>1 DEF EachOnce
          <6> QED BY <3>1, <6>2
        <5> QED BY <5>1, <5>3, <5>4
      <4>3. CASE m # told
        <5>1. mTold'[m] = mTold[m]
          BY <3>3, <4>3
        <5>2. ASSUME NEW i \in 1 .. Len(mItems'), mItems'[i].call = m
              PROVE  i \in 1 .. Len(mItems) /\ mItems'[i] = mItems[i]
          BY <3>1, <4>3, <5>2
        <5> QED BY <4>1, <5>1, <5>2 DEF ToldOf
      <4> QED BY <4>2, <4>3
    <3>6. mSource' \subseteq Calls
      BY <1>2, <2>7
    <3>7. ASSUME ~mMisled' PROVE M!KeysAreSentFirst'
      <4>1. told \in mDest \cup mRefused /\ head.keys = {told}
            /\ Calls \ (mSource \cup mDest) \subseteq mRefused
        <5>1. mReadyRsp = 1
          BY <2>6, <2>7, <3>7
        <5>2. told \in mDest \cup mRefused
          BY <2>5, <3>7, <5>1
        <5>3. head.keys = {told} /\ M!KeysAreSentFirst /\ ~mMisled
          BY <2>4, <3>7
        <5> QED BY <5>2, <5>3 DEF M!KeysAreSentFirst
      <4> QED BY <1>1, <2>7, <4>1 DEF M!KeysAreSentFirst
    <3>8. ASSUME ~mMisled' PROVE PairsAre'
      <4>1. Whole' = TRUE /\ 1 - mReadyRsp = 0
        BY <1>1, <2>5, <2>6, <2>7, <3>8 DEF Whole
      <4> QED BY <1>1, <2>5, <2>7, <3>8, <4>1 DEF PairsAre
    <3> QED BY <1>1, <1>2, <1>3, <2>3, <3>2, <3>4, <3>5, <3>6, <3>7, <3>8 DEF MigrationInv
  <2>8. CASE /\ ~M!Completes(head, mReadyRsp + 1)
             /\ mReadyRsp' = mReadyRsp + 1
             /\ UNCHANGED <<mItems, mSource, mTold>>
    <3>1. ASSUME ~mMisled' PROVE PairsAre' /\ M!KeysAreSentFirst' /\ ToldOf(mItems, mTold, mAsked)
      <4>1. Whole' = TRUE /\ 1 - mReadyRsp = mReadyRsp'
        BY <1>1, <2>5, <2>6, <2>8, <3>1 DEF Whole
      <4>2. PairsAre'
        BY <1>1, <2>5, <3>1, <4>1 DEF PairsAre
      <4> QED BY <1>1, <2>4, <2>8, <3>1, <4>2 DEF M!KeysAreSentFirst
    <3> QED BY <1>1, <1>2, <1>3, <2>3, <2>8, <3>1 DEF MigrationInv
  <2> QED BY <2>2, <2>7, <2>8
<1> QED BY <1>4, <1>5 DEF M!HandlePacket

\* The main thread sees the new connection, and sends what waits.
LEMMA ConnectKeeps ==
    ASSUME MigrationInv, NEW c \in M!Links, M!OnConnect(c)
    PROVE  MigrationInv'
<1> DEFINE queue == [n \in DOMAIN mItems |-> IF mItems[n].call \in mClients THEN mItems[n]
                                             ELSE [mItems[n] EXCEPT !.state = "Done"]]
<1>1. /\ ~mCrashed
      /\ \/ mCrashed' = TRUE
            /\ UNCHANGED <<mItems, mTold, mConn, mKnown, mToDest, mAnswers, mReadyRsp>>
         \/ /\ mKnown = None /\ mKnown' = c /\ mReadyRsp' = 0
            /\ mConn' = [mConn EXCEPT ![c] = IF c \in mInvalid THEN "gone" ELSE "up"]
            /\ M!ProcessItems(queue, c, mTold)
            /\ UNCHANGED <<mAnswers, mCrashed>>
      /\ UNCHANGED <<mAsked, mInvalid, mSource, mDest, mRefused, mMisled>>
  <2> HIDE DEF queue
  <2>1. /\ ~mCrashed
        /\ \/ /\ mCrashed' = TRUE
              /\ UNCHANGED <<mItems, mTold, mConn, mKnown, mPending, M!wireVars>>
           \/ /\ ~(mKnown # None \/ ~mPending \/ mItems = <<>>)
              /\ mConn' = [mConn EXCEPT ![c] = IF c \in mInvalid THEN "gone" ELSE "up"]
              /\ mKnown' = c /\ mPending' = FALSE /\ mReadyRsp' = 0
              /\ M!ProcessItems(queue, c, mTold)
              /\ UNCHANGED <<mAnswers, mCrashed>>
        /\ UNCHANGED <<mAsked, mLate, mClients, mInvalid, M!keyVars, mMisled>>
    BY DEF M!OnConnect, queue
  <2> QED BY <2>1 DEF M!wireVars, M!keyVars
<1> HIDE DEF queue
<1>2. /\ ItemQueue(mItems, mAsked) /\ KnownIs /\ mAsked \subseteq Calls
      /\ mTold \in [Calls -> Seq(Words)]
      /\ mAnswers \in Seq(Calls) /\ mToDest \in Seq(Orders)
  BY DEF MigrationInv
<1>3. CASE /\ mCrashed' = TRUE
           /\ UNCHANGED <<mItems, mTold, mConn, mKnown, mToDest, mAnswers, mReadyRsp>>
  <2>1. KnownIs'
    BY <1>1, <1>2, <1>3 DEF KnownIs
  <2> QED BY <1>1, <1>3, <2>1 DEF MigrationInv, M!KeysAreSentFirst
<1>4. CASE /\ mKnown = None /\ mKnown' = c /\ mReadyRsp' = 0
           /\ mConn' = [mConn EXCEPT ![c] = IF c \in mInvalid THEN "gone" ELSE "up"]
           /\ M!ProcessItems(queue, c, mTold)
           /\ UNCHANGED <<mAnswers, mCrashed>>
  <2>1. /\ ItemQueue(queue, mAsked)
        /\ ToldOf(mItems, mTold, mAsked) => ToldOf(queue, mTold, mAsked)
    BY <1>2, LeaversAreDone DEF queue
  <2>2. /\ ItemQueue(mItems', mAsked) /\ mTold' \in [Calls -> Seq(Words)]
        /\ ToldOf(queue, mTold, mAsked) => ToldOf(mItems', mTold', mAsked)
    BY <1>2, <1>4, <2>1, ProcessKeeps
  <2>3. PICK w \in Seq(Items) :
           mToDest' = IF c \in mInvalid THEN mToDest ELSE mToDest \o M!Commands(w)
    BY <1>2, <1>4, <2>1, ProcessKeeps
  <2>4. mToDest = <<>> /\ mAnswers = <<>> /\ c # None
    BY <1>2, <1>4, PeersAssumption DEF KnownIs, M!Links
  <2>5. /\ mConn' \in [M!Links -> {"free", "connecting", "new", "up", "gone"}]
        /\ mConn'[c] = IF c \in mInvalid THEN "gone" ELSE "up"
    BY <1>4 DEF MigrationInv
  <2> DEFINE d == mDest \cup mRefused
  <2>6. CASE c \in mInvalid
    <3>1. mToDest' = <<>> /\ mAnswers' = <<>>
      BY <1>4, <2>3, <2>4, <2>6
    <3>2. KnownIs'
      BY <1>1, <1>2, <1>4, <2>4, <2>5, <2>6, <3>1 DEF KnownIs
    <3>3. ~Whole'
      BY <1>1, <1>4, <2>6 DEF Whole
    <3>4. PairsAre'
      BY <1>4, <3>1, <3>3 DEF PairsAre, PairsOf
    <3> QED BY <1>1, <1>2, <1>4, <2>1, <2>2, <2>5, <3>1, <3>2, <3>4 DEF MigrationInv, M!KeysAreSentFirst
  <2>7. CASE c \notin mInvalid
    <3>1. Whole' = TRUE /\ (mDest \cup mRefused)' = d
      BY <1>1, <1>4, <2>4, <2>7 DEF Whole
    <3>2. PairsOf(<<>>, <<>>, 0, d, TRUE)
      BY DEF PairsOf
    <3> HIDE DEF d
    <3>3. <<>> \in Seq(Orders) /\ <<>> \in Seq(Calls)
      OBVIOUS
    <3>4. /\ <<>> \o M!Commands(w) \in Seq(Orders)
          /\ PairsOf(<<>> \o M!Commands(w), <<>>, 0, d, TRUE)
      BY <3>2, <3>3, PairsMore
    <3>5. mToDest' \in Seq(Orders) /\ PairsAre'
      BY <1>4, <2>3, <2>4, <2>7, <3>1, <3>4 DEF PairsAre
    <3>6. KnownIs'
      BY <1>1, <1>2, <1>4, <2>4, <2>5, <2>7 DEF KnownIs
    <3> QED BY <1>1, <1>2, <1>4, <2>1, <2>2, <2>5, <3>5, <3>6 DEF MigrationInv, M!KeysAreSentFirst
  <2> QED BY <2>6, <2>7
<1> QED BY <1>1, <1>3, <1>4

\* A connection fails or ends; what is on the way over the one that is known is lost.
LEMMA ErrorKeeps ==
    ASSUME MigrationInv, NEW c \in M!Links, M!OnError(c) \/ M!ConnectFails(c)
    PROVE  MigrationInv'
<1>1. /\ mItems' = M!Retried(mItems)
      /\ UNCHANGED <<mAsked, mKnown, mReadyRsp, mSource, mDest, mRefused, mTold, mMisled, mCrashed>>
  BY DEF M!OnError, M!ConnectFails, M!OnConnectMigrateFail, M!keyVars, M!wireVars
<1>2. /\ ItemQueue(mItems', mAsked)
      /\ ToldOf(mItems, mTold, mAsked) => ToldOf(mItems', mTold, mAsked)
  BY <1>1, RetriedKeeps DEF MigrationInv
<1>3. /\ \/ /\ mConn' = mConn /\ mInvalid' = mInvalid \cup {c}
            /\ IF c = mKnown THEN mToDest' = <<>> /\ mAnswers' = <<>>
               ELSE UNCHANGED <<mToDest, mAnswers>>
         \/ /\ mConn[c] = "connecting" /\ mConn' = [mConn EXCEPT ![c] = "gone"]
            /\ UNCHANGED <<mInvalid, mToDest, mAnswers>>
      /\ KnownIs
  BY DEF MigrationInv, M!OnError, M!ConnectFails, M!wireVars
<1>4. CASE mConn' = mConn /\ mInvalid' = mInvalid \cup {c} /\ c = mKnown
           /\ mToDest' = <<>> /\ mAnswers' = <<>>
  <2>1. KnownIs'
    BY <1>1, <1>3, <1>4 DEF KnownIs
  <2>2. ~Whole'
    BY <1>1, <1>4 DEF Whole
  <2>3. PairsAre => PairsAre'
    BY <1>1, <1>4, <2>2 DEF PairsAre, PairsOf
  <2> QED BY <1>1, <1>2, <1>4, <2>1, <2>3 DEF MigrationInv, M!KeysAreSentFirst
<1>5. CASE mConn' = mConn /\ mInvalid' = mInvalid \cup {c} /\ c # mKnown
           /\ UNCHANGED <<mToDest, mAnswers>>
  <2>1. KnownIs'
    BY <1>1, <1>3, <1>5 DEF KnownIs
  <2>2. Whole' = Whole /\ (mDest \cup mRefused)' = mDest \cup mRefused
    BY <1>1, <1>5 DEF Whole
  <2>3. PairsAre => PairsAre'
    BY <1>1, <1>5, <2>2 DEF PairsAre
  <2> QED BY <1>1, <1>2, <1>5, <2>1, <2>3 DEF MigrationInv, M!KeysAreSentFirst
<1>6. CASE mConn[c] = "connecting" /\ mConn' = [mConn EXCEPT ![c] = "gone"]
           /\ UNCHANGED <<mInvalid, mToDest, mAnswers>>
  <2>1. /\ mConn' \in [M!Links -> {"free", "connecting", "new", "up", "gone"}]
        /\ \A d \in M!Links : d # c => mConn'[d] = mConn[d]
    BY <1>6 DEF MigrationInv
  <2>2. KnownIs'
    BY <1>1, <1>3, <1>6, <2>1 DEF KnownIs
  <2>3. Whole' = Whole /\ (mDest \cup mRefused)' = mDest \cup mRefused
    BY <1>1, <1>6 DEF Whole
  <2>4. PairsAre => PairsAre'
    BY <1>1, <1>6, <2>3 DEF PairsAre
  <2> QED BY <1>1, <1>2, <1>6, <2>1, <2>2, <2>4 DEF MigrationInv, M!KeysAreSentFirst
<1> QED BY <1>3, <1>4, <1>5, <1>6

\* The destination takes a key, or refuses it.
LEMMA DestKeeps == ASSUME MigrationInv, M!DestAnswers PROVE MigrationInv'
<1>1. /\ mToDest # <<>> /\ mToDest \in Seq(Orders) /\ mAnswers \in Seq(Calls) /\ KnownIs
      /\ mAnswers' = Append(mAnswers, Head(mToDest).call) /\ mToDest' = Tail(mToDest)
      /\ UNCHANGED <<mItems, mAsked, mConn, mInvalid, mKnown, mReadyRsp, mSource, mTold,
                     mMisled, mCrashed>>
  BY DEF M!DestAnswers, MigrationInv, M!queueVars, M!connVars
<1> DEFINE d == mDest \cup mRefused
           e == mDest' \cup mRefused'
<1>2. Head(mToDest) \in Orders
  BY <1>1, OneLess
<1>3. mDest' \subseteq Calls /\ mRefused' \subseteq Calls /\ d \subseteq e
      /\ (Head(mToDest).op = "restore" => Head(mToDest).call \in e)
  BY <1>2 DEF M!DestAnswers, MigrationInv, Orders
<1>4. KnownIs'
  BY <1>1 DEF KnownIs
<1>5. /\ mToDest' \in Seq(Orders) /\ mAnswers' \in Seq(Calls)
      /\ PairsAre => PairsAre'
  <2>1. mToDest' \in Seq(Orders) /\ mAnswers' \in Seq(Calls)
    BY <1>1, <1>2, OneLess, OneMore DEF Orders
  <2>2. Whole' = Whole
    BY <1>1 DEF Whole
  <2> HIDE DEF d, e
  <2>3. PairsOf(mToDest, mAnswers, mReadyRsp, d, Whole)
        => PairsOf(Tail(mToDest), Append(mAnswers, Head(mToDest).call), mReadyRsp, e, Whole)
    BY <1>1, <1>3, PairsAnswered
  <2> QED BY <1>1, <2>1, <2>2, <2>3 DEF PairsAre, d, e
<1>6. M!KeysAreSentFirst => M!KeysAreSentFirst'
  BY <1>1, <1>3 DEF M!KeysAreSentFirst, MigrationInv
<1> QED BY <1>1, <1>3, <1>4, <1>5, <1>6 DEF MigrationInv

LEMMA MigrationKept == ASSUME MigrationInv, [M!Next]_mVars PROVE MigrationInv'
<1>1. CASE \E c \in M!Links : M!Connected(c) \/ M!Dropped(c)
  <2>1. PICK c \in M!Links : M!Connected(c) \/ M!Dropped(c)
    BY <1>1
  <2>2. /\ UNCHANGED <<mItems, mAsked, mInvalid, mKnown, mToDest, mAnswers, mReadyRsp, mSource,
                       mDest, mRefused, mTold, mMisled, mCrashed>>
        /\ \/ mConn[c] = "connecting" /\ mConn' = [mConn EXCEPT ![c] = "new"]
           \/ mConn[c] = "up" /\ c \in mInvalid /\ mConn' = [mConn EXCEPT ![c] = "gone"]
    BY <2>1 DEF M!Connected, M!Dropped, M!queueVars, M!wireVars, M!keyVars
  <2>3. /\ mConn' \in [M!Links -> {"free", "connecting", "new", "up", "gone"}]
        /\ \A d \in M!Links : d # c => mConn'[d] = mConn[d]
        /\ mConn'[c] \in {"new", "gone"} /\ (mConn'[c] = "gone" => c \in mInvalid)
        /\ mConn'[c] = "new" => mConn[c] = "connecting"
    BY <2>2 DEF MigrationInv
  <2>4. KnownIs'
    BY <2>2, <2>3 DEF MigrationInv, KnownIs
  <2>5. Whole' = Whole /\ (mDest \cup mRefused)' = mDest \cup mRefused
    BY <2>2 DEF Whole
  <2>6. PairsAre => PairsAre'
    BY <2>2, <2>5 DEF PairsAre
  <2> QED BY <2>2, <2>3, <2>4, <2>6 DEF MigrationInv, M!KeysAreSentFirst
<1>2. CASE \/ UNCHANGED mVars \/ M!TimePasses
           \/ \E m \in Calls : M!ClientLeaves(m)
  <2>1. UNCHANGED <<mItems, mAsked, mConn, mInvalid, mKnown, mToDest, mAnswers, mReadyRsp,
                    mSource, mDest, mRefused, mTold, mMisled, mCrashed>>
    BY <1>2 DEF mVars, M!TimePasses, M!ClientLeaves, M!connVars, M!wireVars, M!keyVars
  <2>2. KnownIs'
    BY <2>1 DEF MigrationInv, KnownIs
  <2>3. Whole' = Whole /\ (mDest \cup mRefused)' = mDest \cup mRefused
    BY <2>1 DEF Whole
  <2>4. PairsAre => PairsAre'
    BY <2>1, <2>3 DEF PairsAre
  <2> QED BY <2>1, <2>2, <2>4 DEF MigrationInv, M!KeysAreSentFirst
<1> QED BY <1>1, <1>2, CallKeeps, LoopCheckKeeps, PacketKeeps, ConnectKeeps, ErrorKeeps,
           DestKeeps DEF M!Next

LEMMA MigrationInit == M!Init => MigrationInv
<1> SUFFICES ASSUME M!Init PROVE MigrationInv
  OBVIOUS
<1>1. /\ mItems = <<>> /\ mAsked = {} /\ mInvalid = {} /\ mKnown = None
      /\ mConn = [c \in M!Links |-> "free"]
      /\ mToDest = <<>> /\ mAnswers = <<>> /\ mReadyRsp = 0
      /\ mSource = Calls /\ mDest = {} /\ mRefused = {}
      /\ mTold = [m \in Calls |-> <<>>] /\ mMisled = FALSE /\ mCrashed = FALSE
  BY DEF M!Init
<1>2. ItemQueue(mItems, mAsked) /\ ToldOf(mItems, mTold, mAsked)
  BY <1>1 DEF ItemQueue, EachOnce, ToldOf
<1>3. KnownIs /\ PairsAre /\ M!KeysAreSentFirst
  BY <1>1 DEF KnownIs, PairsAre, PairsOf, Whole, M!KeysAreSentFirst
<1>4. mTold \in [Calls -> Seq(Words)]
  BY <1>1
<1>5. /\ mMisled \in BOOLEAN /\ mAsked \subseteq Calls
      /\ mToDest \in Seq(Orders) /\ mAnswers \in Seq(Calls)
      /\ mSource \subseteq Calls /\ mDest \subseteq Calls /\ mRefused \subseteq Calls
  <2>1. <<>> \in Seq(Orders) /\ <<>> \in Seq(Calls)
    OBVIOUS
  <2> QED BY <1>1, <2>1, Zenon
<1>6. mConn \in [M!Links -> {"free", "connecting", "new", "up", "gone"}]
  BY <1>1
<1> QED BY <1>2, <1>3, <1>4, <1>5, <1>6, Zenon DEF MigrationInv

LEMMA MigrationHolds == MigrationInv => M!KeysAreSentFirst /\ M!ToldOnce
BY DEF MigrationInv, ToldOf, M!KeysAreSentFirst, M!ToldOnce

-----------------------------------------------------------------------------
(***************************************************************************)
(* Futures, the proxy and MIGRATE together.                                 *)
(***************************************************************************)
\* A step of the chain leaves what a collector counts, and the other way round.
LEMMA FutureKept ==
    ASSUME ChainInv, CollectInv, F!ChainNext \/ F!CollectorNext \/ UNCHANGED fVars
    PROVE  ChainInv' /\ CollectInv'
<1>1. CASE F!ChainNext
  <2>1. UNCHANGED <<fResults, fCollected, fCounted>>
    BY <1>1 DEF F!ChainNext, F!Step, F!SetValue, F!Unlock, F!Schedule, F!Run, F!Join, F!Then,
                F!OnTimeout, F!TimerFires, F!Timeout, F!RunFunctor, F!SetInner, F!collector
  <2>2. CollectInv'
    BY <2>1 DEF CollectInv
  <2> QED BY <1>1, <2>2, ChainKept
<1>2. CASE F!CollectorNext
  <2>1. UNCHANGED <<fProgress, fThen, fOnTimeout, fLock, fTodo, fFunctors, fInner, fRan, fTimedOut>>
    BY <1>2 DEF F!CollectorNext, F!SetCallback, F!MemberIsSet, F!chain
  <2>2. ChainInv'
    BY <2>1, ChainStays
  <2> QED BY <1>2, <2>2, CollectKept
<1>3. CASE UNCHANGED fVars
  <2>1. ChainInv'
    BY <1>3, ChainStays DEF fVars
  <2>2. CollectInv'
    BY <1>3 DEF fVars, CollectInv
  <2> QED BY <2>1, <2>2
<1> QED BY <1>1, <1>2, <1>3

\* Whatever requests come and whoever leaves, whatever servers are lost: the last callback
\* of a chain and its timeout do not both run, but for the case NotBoth excepts, and no
\* callback runs twice (Future.h); WhenN gives the first results it counted; each answer
\* of the proxy goes to the client whose request it is the answer to, but for those
\* astray (ClientManager, RedisProxy); MIGRATE tells each client once and deletes a key
\* only when the destination has answered for it (QMigration.cc).
THEOREM AnswersKeepTheirOwners == Fair => []AnswersAreOwn
<1> DEFINE Inv == ChainInv /\ CollectInv /\ ProxyInv /\ MigrationInv
<1>1. Begins => Inv
  BY ChainInit, CollectInit, ProxyInit, MigrationInit DEF Begins
<1>2. Inv /\ [Goes]_all => Inv'
  <2> SUFFICES ASSUME Inv, [Goes]_all PROVE Inv'
    OBVIOUS
  <2>1. F!ChainNext \/ F!CollectorNext \/ UNCHANGED fVars
    BY Zenon DEF Goes, all
  <2>2. [P!Next]_pVars
    BY Zenon DEF Goes, all
  <2>3. [M!Next]_mVars
    BY Zenon DEF Goes, all
  <2>4. ChainInv' /\ CollectInv'
    BY <2>1, FutureKept
  <2>5. ProxyInv' /\ MigrationInv'
    BY <2>2, <2>3, ProxyKept, MigrationKept
  <2> QED BY <2>4, <2>5
<1>3. Inv => AnswersAreOwn
  BY ChainHolds, CollectHolds, ProxyIsOwn, MigrationHolds DEF AnswersAreOwn
<1> HIDE DEF Inv
<1> QED BY <1>1, <1>2, <1>3, PTL DEF Fair
=============================================================================
