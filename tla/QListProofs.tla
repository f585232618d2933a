----------------------------- MODULE QListProofs -----------------------------
(***************************************************************************)
(* What holds of the blocking lists for every set of clients, keys and      *)
(* commands: types, who is queued where, that every element is in one       *)
(* place, and that the commands propagated give the lists again.            *)
(***************************************************************************)
EXTENDS QList, SequenceLemmas, FiniteSetTheorems


-----------------------------------------------------------------------------
(***************************************************************************)
(* The queues of blocked clients.                                          *)
(***************************************************************************)

\* The function that Kept defines exists, and Kept is its last value.
LEMMA KeptRecursion ==
    ASSUME NEW S, NEW q \in Seq(S), NEW gone
    PROVE  \E f : /\ f = [n \in 0..Len(q) |->
                           IF n = 0 THEN <<>>
                           ELSE IF q[n] \in gone THEN f[n - 1]
                                ELSE Append(f[n - 1], q[n])]
                  /\ Kept(q, gone) = f[Len(q)]
<1> DEFINE At(f, n) == IF n = 0 THEN <<>>
                       ELSE IF q[n] \in gone THEN f[n - 1] ELSE Append(f[n - 1], q[n])
           P == {m \in Nat : \E f : f = [n \in 0..m |-> At(f, n)]}
<1>1. 0 \in P
  <2> DEFINE f == [n \in 0..0 |-> <<>>]
  <2>1. f = [n \in 0..0 |-> At(f, n)]
    OBVIOUS
  <2> HIDE DEF f
  <2> QED BY <2>1
<1>2. ASSUME NEW m \in Nat, m \in P PROVE m + 1 \in P
  <2>1. PICK f : f = [n \in 0..m |-> At(f, n)]
    BY <1>2
  <2> DEFINE g == [n \in 0..(m + 1) |-> IF n = m + 1 THEN At(f, n) ELSE f[n]]
  <2>2. ASSUME NEW n \in 0..(m + 1) PROVE g[n] = At(g, n)
    <3>1. CASE n = 0
      BY <2>1, <3>1
    <3>2. CASE n \in 1..m
      <4>1. n \in 0..m /\ n - 1 \in 0..m /\ n # m + 1 /\ n - 1 # m + 1 /\ n # 0
        BY <3>2
      <4>2. g[n] = f[n] /\ g[n - 1] = f[n - 1]
        BY <4>1
      <4>3. f[n] = At(f, n)
        BY <2>1, <4>1
      <4> HIDE DEF g
      <4> QED BY <4>1, <4>2, <4>3
    <3>3. CASE n = m + 1
      <4>1. n - 1 \in 0..m /\ n - 1 # m + 1 /\ n # 0
        BY <3>3
      <4>2. g[n] = At(f, n) /\ g[n - 1] = f[n - 1]
        BY <3>3, <4>1
      <4> HIDE DEF g
      <4> QED BY <4>1, <4>2
    <3> QED BY <3>1, <3>2, <3>3
  <2>3. g = [n \in 0..(m + 1) |-> At(g, n)]
    BY <2>2
  <2> HIDE DEF g
  <2>4. \E h : h = [n \in 0..(m + 1) |-> At(h, n)]
    BY <2>3
  <2> HIDE DEF At
  <2> QED BY <2>4
<1> HIDE DEF P
<1>3. Len(q) \in P
  BY <1>1, <1>2, Induct, Len(q) \in Nat
<1> DEFINE f == CHOOSE f : f = [n \in 0..Len(q) |-> At(f, n)]
<1>4. f = [n \in 0..Len(q) |-> At(f, n)]
  BY <1>3 DEF P
<1>5. Kept(q, gone) = f[Len(q)]
  BY DEF Kept
<1> HIDE DEF f
<1> QED BY <1>4, <1>5

\* Kept keeps what is not gone, and nothing else.
LEMMA KeptSet ==
    ASSUME NEW S, NEW q \in Seq(S), NEW gone
    PROVE  Kept(q, gone) \in Seq(S) /\ ToSet(Kept(q, gone)) = ToSet(q) \ gone
<1>1. PICK f : /\ f = [n \in 0..Len(q) |->
                         IF n = 0 THEN <<>>
                         ELSE IF q[n] \in gone THEN f[n - 1] ELSE Append(f[n - 1], q[n])]
               /\ Kept(q, gone) = f[Len(q)]
  BY KeptRecursion
<1> DEFINE Upto(n) == {q[i] : i \in 1..n}
           P == {n \in Nat : n <= Len(q) =>
                                f[n] \in Seq(S) /\ ToSet(f[n]) = Upto(n) \ gone}
<1>2. 0 \in P
  <2>1. f[0] = <<>>
    BY <1>1
  <2>2. Upto(0) = {}
    OBVIOUS
  <2>3. <<>> \in Seq(S) /\ ToSet(<<>>) = {}
    BY DEF ToSet
  <2> HIDE DEF Upto
  <2> QED BY <2>1, <2>2, <2>3
<1>3. ASSUME NEW n \in Nat, n \in P PROVE n + 1 \in P
  <2> SUFFICES ASSUME n + 1 <= Len(q)
               PROVE  f[n + 1] \in Seq(S) /\ ToSet(f[n + 1]) = Upto(n + 1) \ gone
    OBVIOUS
  <2>1. f[n] \in Seq(S) /\ ToSet(f[n]) = Upto(n) \ gone
    BY <1>3
  <2>2. n + 1 \in 0..Len(q) /\ n + 1 # 0 /\ (n + 1) - 1 = n /\ n + 1 \in 1..Len(q)
    OBVIOUS
  <2>3. f[n + 1] = IF q[n + 1] \in gone THEN f[n] ELSE Append(f[n], q[n + 1])
    BY <1>1, <2>2
  <2>4. Upto(n + 1) = Upto(n) \cup {q[n + 1]}
    <3>1. \A i : i \in 1..(n + 1) <=> i \in 1..n \/ i = n + 1
      OBVIOUS
    <3> QED BY <3>1
  <2>5. q[n + 1] \in S
    BY <2>2, ElementOfSeq
  <2> HIDE DEF Upto
  <2>6. CASE q[n + 1] \in gone
    BY <2>1, <2>3, <2>4, <2>6
  <2>7. CASE q[n + 1] \notin gone
    <3>1. /\ Append(f[n], q[n + 1]) \in Seq(S)
          /\ ToSet(Append(f[n], q[n + 1])) = ToSet(f[n]) \cup {q[n + 1]}
      BY <2>1, <2>5, AppendSet
    <3> QED BY <2>1, <2>3, <2>4, <2>7, <3>1
  <2> QED BY <2>6, <2>7
<1> HIDE DEF P
<1>4. Len(q) \in P
  BY <1>2, <1>3, Induct, Len(q) \in Nat
<1>5. f[Len(q)] \in Seq(S) /\ ToSet(f[Len(q)]) = Upto(Len(q)) \ gone
  BY <1>4 DEF P
<1>6. Upto(Len(q)) = ToSet(q)
  BY DEF ToSet
<1> QED BY <1>1, <1>5, <1>6

\* UnblockClient takes one entry of the client from a queue, if there is one.
LEMMA RemovedSet ==
    ASSUME NEW S, NEW q \in Seq(S), NEW c
    PROVE  /\ Dropped(q, c) \in Seq(S) /\ ToSet(Dropped(q, c)) \subseteq ToSet(q)
           /\ \A e \in ToSet(q) : e.cli # c => e \in ToSet(Dropped(q, c))
<1> DEFINE I == {i \in 1..Len(q) : q[i].cli = c}
           r == Dropped(q, c)
<1>1. CASE I = {}
  <2>1. r = q
    BY <1>1 DEF Dropped, RemoveFirstMatch
  <2> QED BY <2>1
<1>2. CASE I # {}
  <2>1. I \in SUBSET Nat
    OBVIOUS
  <2>2. Min(I) \in I
    BY <1>2, <2>1, MinIsOne
  <2>3. r = RemoveAt(q, Min(I))
    BY <1>2 DEF Dropped, RemoveFirstMatch, SelectInSeq
  <2> HIDE DEF I
  <2>4. r = SubSeq(q, 1, Min(I) - 1) \o SubSeq(q, Min(I) + 1, Len(q))
    BY <2>3 DEF RemoveAt
  <2>5. Min(I) \in 1..Len(q) /\ q[Min(I)].cli = c
    BY <2>2 DEF I
  <2>6. /\ SubSeq(q, 1, Min(I) - 1) \in Seq(S)
        /\ SubSeq(q, Min(I) + 1, Len(q)) \in Seq(S)
        /\ ToSet(q) = ToSet(SubSeq(q, 1, Min(I) - 1)) \cup {q[Min(I)]}
                         \cup ToSet(SubSeq(q, Min(I) + 1, Len(q)))
    BY <2>5, SplitSet
  <2>7. /\ r \in Seq(S)
        /\ ToSet(r) = ToSet(SubSeq(q, 1, Min(I) - 1))
                         \cup ToSet(SubSeq(q, Min(I) + 1, Len(q)))
    <3> DEFINE before == SubSeq(q, 1, Min(I) - 1)
               after == SubSeq(q, Min(I) + 1, Len(q))
    <3>1. before \in Seq(S) /\ after \in Seq(S)
      BY <2>6
    <3> HIDE DEF before, after
    <3>2. before \o after \in Seq(S) /\ ToSet(before \o after) = ToSet(before) \cup ToSet(after)
      BY <3>1, ConcatSet
    <3> HIDE DEF r
    <3> QED BY <2>4, <3>2 DEF before, after
  <2> HIDE DEF r
  <2>8. r \in Seq(S) /\ ToSet(r) \subseteq ToSet(q)
           /\ \A e \in ToSet(q) : e.cli # c => e \in ToSet(r)
    BY <2>5, <2>6, <2>7
  <2> QED BY <2>8 DEF r
<1> QED BY <1>1, <1>2

-----------------------------------------------------------------------------
(***************************************************************************)
(* What the list commands do to a database.                                *)
(***************************************************************************)

\* Of a push: the elements are those of before and the new ones.
LEMMA JoinedSet ==
    ASSUME NEW S, NEW q \in Seq(S), NEW es \in Seq(S), NEW end
    PROVE  /\ Joined(q, es, end) \in Seq(S)
           /\ ToSet(Joined(q, es, end)) = ToSet(q) \cup ToSet(es)
           /\ Once(q) /\ Once(es) /\ ToSet(q) \cap ToSet(es) = {} => Once(Joined(q, es, end))
<1>1. Reverse(es) \in Seq(S) /\ ToSet(Reverse(es)) = ToSet(es)
  BY ReverseSet
<1>2. Once(es) => Once(Reverse(es))
  BY ReverseOnce
<1>3. CASE end = "left"
  <2>1. Joined(q, es, end) = Reverse(es) \o q
    BY <1>3 DEF Joined
  <2>2. /\ Reverse(es) \o q \in Seq(S)
        /\ ToSet(Reverse(es) \o q) = ToSet(q) \cup ToSet(es)
    BY <1>1, ConcatSet
  <2>3. Once(q) /\ Once(es) /\ ToSet(q) \cap ToSet(es) = {} => Once(Reverse(es) \o q)
    BY <1>1, <1>2, ConcatOnce
  <2> QED BY <2>1, <2>2, <2>3
<1>4. CASE end # "left"
  <2>1. Joined(q, es, end) = q \o es
    BY <1>4 DEF Joined
  <2> QED BY <2>1, ConcatSet, ConcatOnce
<1> QED BY <1>3, <1>4

\* Of a pop: the element at the end goes and the others stay.
LEMMA WithoutSet ==
    ASSUME NEW S, NEW q \in Seq(S), q # <<>>, NEW end
    PROVE  /\ Without(q, end) \in Seq(S) /\ ElementAt(q, end) \in S
           /\ ToSet(q) = {ElementAt(q, end)} \cup ToSet(Without(q, end))
           /\ Once(q) => /\ Once(Without(q, end))
                         /\ ElementAt(q, end) \notin ToSet(Without(q, end))
<1>1. CASE end = "left"
  <2>1. Without(q, end) = Tail(q) /\ ElementAt(q, end) = Head(q)
    BY <1>1 DEF Without, ElementAt
  <2> QED BY <2>1, EndsSet, OnceAtTheEnds
<1>2. CASE end # "left"
  <2>1. Without(q, end) = Front(q) /\ ElementAt(q, end) = Last(q)
    BY <1>2 DEF Without, ElementAt
  <2> QED BY <2>1, EndsSet, OnceAtTheEnds
<1> QED BY <1>1, <1>2

\* The values a key has.
LEMMA Values ==
    /\ \A q \in Seq(Elements) : /\ List(q) \in Value
                               /\ List(q).elems = q /\ List(q).kind = "list"
    /\ Absent \in Value /\ Absent.elems = <<>> /\ Absent.kind = "none"
    /\ String \in Value /\ String.elems = <<>> /\ String.kind = "string"
<1>1. ASSUME NEW q \in Seq(Elements)
      PROVE  List(q) \in Value /\ List(q).elems = q /\ List(q).kind = "list"
  BY DEF List, Value
<1>2. Absent \in Value /\ Absent.elems = <<>> /\ Absent.kind = "none"
  BY DEF Absent, Value
<1>3. String \in Value /\ String.elems = <<>> /\ String.kind = "string"
  BY DEF String, Value
<1> QED BY <1>1, <1>2, <1>3

LEMMA ElemsAreASeq ==
    ASSUME NEW m \in [Keys -> Value], NEW k \in Keys
    PROVE  /\ m[k] \in Value /\ m[k].elems \in Seq(Elements)
           /\ m[k].elems # <<>> => m[k].kind = "list"
           /\ m[k].kind \in {"none", "list", "string"}
<1>1. m[k] \in Value
  OBVIOUS
<1> QED BY <1>1 DEF Value

LEMMA PushedType ==
    ASSUME NEW m \in [Keys -> Value], NEW k \in Keys, NEW es \in Seq(Elements),
           NEW end, NEW create
    PROVE  Pushed(m, k, es, end, create) \in [Keys -> Value]
<1>1. Joined(m[k].elems, es, end) \in Seq(Elements)
  BY ElemsAreASeq, JoinedSet
<1>2. List(Joined(m[k].elems, es, end)) \in Value
  BY <1>1, Values
<1> QED BY <1>2 DEF Pushed

LEMMA PoppedType ==
    ASSUME NEW m \in [Keys -> Value], NEW k \in Keys, NEW end
    PROVE  Popped(m, k, end) \in [Keys -> Value]
<1>1. m[k].elems # <<>> => Without(m[k].elems, end) \in Seq(Elements)
  BY ElemsAreASeq, WithoutSet
<1>2. Absent \in Value /\ (m[k].elems # <<>> => List(Without(m[k].elems, end)) \in Value)
  BY <1>1, Values
<1> QED BY <1>2 DEF Popped

\* RPOPLPUSH takes the last element and puts it in front, of what is left if the
\* source is the target too.
LEMMA MovedIs ==
    ASSUME NEW m \in [Keys -> Value], NEW k \in Keys, NEW to \in Keys,
           m[k].elems # <<>>, m[to].kind # "string"
    PROVE  LET rest == Front(m[k].elems)
               moved == <<Last(m[k].elems)>> \o (IF to = k THEN rest ELSE m[to].elems)
           IN  /\ rest \in Seq(Elements) /\ moved \in Seq(Elements)
               /\ Moved(m, k, to) = [x \in Keys |-> IF x = to THEN List(moved)
                                                 ELSE IF x = k THEN List(rest) ELSE m[x]]
<1> DEFINE rest == Front(m[k].elems)
           e == Last(m[k].elems)
           moved == <<e>> \o (IF to = k THEN rest ELSE m[to].elems)
           popped == [m EXCEPT ![k] = List(Front(@.elems))]
<1>1. m[k].elems \in Seq(Elements) /\ m[to].elems \in Seq(Elements)
  BY ElemsAreASeq
<1>2. rest \in Seq(Elements) /\ e \in Elements
  BY <1>1, EndsSet
<1>3. moved \in Seq(Elements)
  <2>1. <<e>> \in Seq(Elements)
    BY <1>2
  <2> QED BY <1>1, <1>2, <2>1, ConcatProperties
<1>4. List(rest).elems = rest
  BY DEF List
<1>5. /\ DOMAIN popped = Keys /\ popped[k] = List(rest)
      /\ \A x \in Keys : x # k => popped[x] = m[x]
  OBVIOUS
<1>6. Moved(m, k, to) = [popped EXCEPT ![to] = List(<<e>> \o popped[to].elems)]
  BY DEF Moved
<1>7. popped[to].elems = IF to = k THEN rest ELSE m[to].elems
  BY <1>4, <1>5
<1>8. Moved(m, k, to) = [popped EXCEPT ![to] = List(moved)]
  BY <1>6, <1>7
<1> HIDE DEF popped, rest, moved, e
<1>9. Moved(m, k, to) = [x \in Keys |-> IF x = to THEN List(moved)
                                        ELSE IF x = k THEN List(rest) ELSE m[x]]
  BY <1>5, <1>8
<1> QED BY <1>2, <1>3, <1>9 DEF rest, moved, e

LEMMA MovedType ==
    ASSUME NEW m \in [Keys -> Value], NEW k \in Keys, NEW to \in Keys
    PROVE  Moved(m, k, to) \in [Keys -> Value]
<1> SUFFICES ASSUME m[k].elems # <<>>, m[to].kind # "string"
             PROVE  Moved(m, k, to) \in [Keys -> Value]
  BY DEF Moved
<1> DEFINE rest == Front(m[k].elems)
           moved == <<Last(m[k].elems)>> \o (IF to = k THEN rest ELSE m[to].elems)
<1>1. /\ rest \in Seq(Elements) /\ moved \in Seq(Elements)
      /\ Moved(m, k, to) = [x \in Keys |-> IF x = to THEN List(moved)
                                           ELSE IF x = k THEN List(rest) ELSE m[x]]
  BY MovedIs
<1> HIDE DEF rest, moved
<1>2. List(rest) \in Value /\ List(moved) \in Value
  BY <1>1, Values
<1> QED BY <1>1, <1>2

\* A served element that goes on to a target is at its head, and stays in the list
\* served until that is popped.
LEMMA OnwardIs ==
    ASSUME NEW m \in [Keys -> Value], NEW to \in Keys \cup {None}, NEW e \in Elements
    PROVE  /\ Onward(m, to, e) \in [Keys -> Value]
           /\ \A x \in Keys : x # to => Onward(m, to, e)[x] = m[x]
           /\ to # None /\ m[to].kind # "string" =>
                /\ <<e>> \o m[to].elems \in Seq(Elements)
                /\ Onward(m, to, e)[to] = List(<<e>> \o m[to].elems)
<1>1. CASE to = None
  BY <1>1 DEF Onward
<1>2. CASE to # None
  <2>1. to \in Keys /\ Onward(m, to, e) = Pushed(m, to, <<e>>, "left", TRUE)
    BY <1>2 DEF Onward
  <2>2. <<e>> \in Seq(Elements) /\ m[to].elems \in Seq(Elements)
    BY <2>1, ElemsAreASeq
  <2>3. Reverse(<<e>>) = <<e>>
    BY DEF Reverse
  <2>4. Joined(m[to].elems, <<e>>, "left") = <<e>> \o m[to].elems
    BY <2>3 DEF Joined
  <2>5. <<e>> \o m[to].elems \in Seq(Elements)
    BY <2>2, ConcatProperties
  <2>6. Onward(m, to, e) = IF m[to].kind = "string" THEN m
                           ELSE [m EXCEPT ![to] = List(<<e>> \o m[to].elems)]
    BY <2>1, <2>4 DEF Pushed, Refused
  <2>7. List(<<e>> \o m[to].elems) \in Value
    BY <2>5, Values
  <2> QED BY <2>1, <2>5, <2>6, <2>7
<1> QED BY <1>1, <1>2

LEMMA OnwardLeavesSome ==
    ASSUME NEW m \in [Keys -> Value], NEW to \in Keys \cup {None}, NEW e \in Elements,
           to # None => m[to].kind # "string",
           NEW k \in Keys, m[k].elems # <<>>
    PROVE  /\ Onward(m, to, e)[k].elems =
                IF k = to THEN <<e>> \o m[k].elems ELSE m[k].elems
           /\ Onward(m, to, e)[k].elems # <<>>
<1>1. CASE k = to
  <2>1. to # None /\ m[to].kind # "string"
    BY <1>1, NoneAssumption
  <2>2. Onward(m, to, e)[k] = List(<<e>> \o m[k].elems)
    BY <1>1, <2>1, OnwardIs
  <2>3. Onward(m, to, e)[k].elems = <<e>> \o m[k].elems
    BY <2>2 DEF List
  <2>4. <<e>> \in Seq(Elements) /\ m[k].elems \in Seq(Elements)
    BY ElemsAreASeq
  <2>5. <<e>> \o m[k].elems # <<>>
    BY <2>4, ConcatEqualIffEmpty
  <2> QED BY <1>1, <2>3, <2>5
<1>2. CASE k # to
  <2>1. Onward(m, to, e)[k] = m[k]
    BY <1>2, OnwardIs
  <2> QED BY <1>2, <2>1
<1> QED BY <1>1, <1>2

LEMMA ServedIs ==
    ASSUME NEW m \in [Keys -> Value], NEW k \in Keys, NEW end, m[k].elems # <<>>
    PROVE  /\ Served(m, k, end) \in [Keys -> Value]
           /\ Served(m, k, end)[k] = List(Without(m[k].elems, end))
           /\ \A x \in Keys : x # k => Served(m, k, end)[x] = m[x]
<1>1. Without(m[k].elems, end) \in Seq(Elements)
  BY ElemsAreASeq, WithoutSet
<1>2. List(Without(m[k].elems, end)) \in Value
  BY <1>1, Values
<1> QED BY <1>2 DEF Served

-----------------------------------------------------------------------------
(***************************************************************************)
(* Types.                                                                  *)
(***************************************************************************)

\* What commands are made of.
LEMMA CommandType ==
    ASSUME NEW cmd \in Commands
    PROVE  /\ cmd.op = "push" => /\ cmd.key \in Keys /\ cmd.end \in Ends
                                 /\ cmd.n \in 1..MaxPush /\ cmd.create \in BOOLEAN
           /\ cmd.op = "pop" => cmd.key \in Keys /\ cmd.end \in Ends
           /\ cmd.op \in {"bpop", "brpoplpush"} =>
                /\ cmd.keys \in Seq(Keys) /\ cmd.end \in Ends /\ cmd.timed \in BOOLEAN
                /\ cmd.to \in Keys \cup {None}
                /\ cmd.to # None => cmd.end = "right"
                /\ cmd.to \in Targets \cup {None}
           /\ cmd.op = "rpoplpush" =>
                cmd.key \in Keys /\ cmd.to \in Keys /\ cmd.to \in Targets
           /\ cmd.op \in {"set", "del"} => cmd.key \in Keys
<1>1. cmd \in CommandSet
  BY CommandsAssumption
<1>2. CASE cmd \in [op : {"push"}, key : Keys, end : Ends, n : 1..MaxPush, create : BOOLEAN]
  BY <1>2
<1>3. CASE cmd \in [op : {"pop"}, key : Keys, end : Ends]
  BY <1>3
<1>4. CASE cmd \in [op : {"bpop"}, keys : Seq(Keys), end : Ends, timed : BOOLEAN, to : {None}]
  BY <1>4
<1>5. CASE cmd \in [op : {"brpoplpush"}, keys : Seq(Keys), end : {"right"},
                    timed : BOOLEAN, to : Keys]
  <2>1. cmd.to \in Targets
    BY <1>5 DEF Targets
  <2> QED BY <1>5, <2>1, NoneAssumption DEF Ends
<1>6. CASE cmd \in [op : {"rpoplpush"}, key : Keys, to : Keys]
  <2>1. cmd.to \in Targets
    BY <1>6 DEF Targets
  <2> QED BY <1>6, <2>1
<1>7. CASE cmd \in [op : {"set", "del"}, key : Keys]
  BY <1>7
<1>8. CASE cmd \in [op : {"flushall"}]
  BY <1>8
<1> QED BY <1>1, <1>2, <1>3, <1>4, <1>5, <1>6, <1>7, <1>8 DEF CommandSet

\* The elements of a push.
LEMMA NumberedType ==
    ASSUME TypeOK, NEW n \in 1..MaxPush, pushed + n <= MaxPush
    PROVE  /\ Numbered(n) \in Seq(Elements) /\ Once(Numbered(n))
           /\ ToSet(Numbered(n)) = (pushed + 1)..(pushed + n)
           /\ pushed + n \in 0..MaxPush
<1>1. pushed \in Nat /\ MaxPush \in Nat
  BY BoundsAssumption DEF TypeOK
<1>2. \A i \in 1..n : pushed + i \in Elements
  BY <1>1 DEF Elements
<1>3. Numbered(n) \in Seq(Elements) /\ Len(Numbered(n)) = n
  BY <1>2 DEF Numbered
<1>4. \A i \in 1..n : Numbered(n)[i] = pushed + i
  BY DEF Numbered
<1>5. Once(Numbered(n))
  BY <1>1, <1>3, <1>4 DEF Once
<1>6. ASSUME NEW x \in ToSet(Numbered(n)) PROVE x \in (pushed + 1)..(pushed + n)
  <2>1. PICK i \in 1..Len(Numbered(n)) : x = Numbered(n)[i]
    BY <1>3, SetOfSeq
  <2> QED BY <1>1, <1>3, <1>4, <2>1
<1>7. ASSUME NEW x \in (pushed + 1)..(pushed + n) PROVE x \in ToSet(Numbered(n))
  <2>1. x - pushed \in 1..n
    BY <1>1
  <2>2. Numbered(n)[x - pushed] = x
    BY <1>1, <1>4, <2>1
  <2> QED BY <1>3, <2>1, <2>2, SetOfSeq
<1>8. pushed + n \in 0..MaxPush
  BY <1>1
<1> QED BY <1>3, <1>5, <1>6, <1>7, <1>8

\* UnblockClient keeps the entries of every other client.
LEMMA UnblockedIs ==
    ASSUME TypeOK, NEW c \in Clients
    PROVE  /\ Unblocked(blocked, c) \in [Keys -> Seq(Entry)]
           /\ \A k \in Keys : \A e \in ToSet(blocked[k]) :
                  e.cli # c => e \in ToSet(Unblocked(blocked, c)[k])
           /\ \A k \in Keys : ToSet(Unblocked(blocked, c)[k]) \subseteq ToSet(blocked[k])
<1> DEFINE new(k) == IF k \in waiting[c] THEN Dropped(blocked[k], c) ELSE blocked[k]
<1>1. ASSUME NEW k \in Keys
      PROVE  /\ new(k) \in Seq(Entry)
             /\ \A e \in ToSet(blocked[k]) : e.cli # c => e \in ToSet(new(k))
             /\ ToSet(new(k)) \subseteq ToSet(blocked[k])
  <2>1. blocked[k] \in Seq(Entry)
    BY DEF TypeOK
  <2>2. CASE k \in waiting[c]
    BY <2>1, <2>2, RemovedSet
  <2>3. CASE k \notin waiting[c]
    BY <2>1, <2>3
  <2> QED BY <2>2, <2>3
<1>2. Unblocked(blocked, c) = [k \in Keys |-> new(k)]
  BY DEF Unblocked
<1> HIDE DEF new
<1> QED BY <1>1, <1>2

\* LoopCheck keeps the entries that have not expired.
LEMMA KeptIs ==
    ASSUME TypeOK, NEW gone, NEW k \in Keys
    PROVE  /\ Kept(blocked[k], gone) \in Seq(Entry)
           /\ ToSet(Kept(blocked[k], gone)) = ToSet(blocked[k]) \ gone
<1>1. blocked[k] \in Seq(Entry)
  BY DEF TypeOK
<1> QED BY <1>1, KeptSet

\* The keys of a command that hold something.
LEMMA PresentIs ==
    ASSUME NEW cmd \in Commands, cmd.op \in {"bpop", "brpoplpush"}, Present(cmd) # {}
    PROVE  cmd.keys[Min(Present(cmd))] \in Keys
<1>1. cmd.keys \in Seq(Keys)
  BY CommandType
<1>2. Present(cmd) \in SUBSET Nat /\ Present(cmd) \subseteq 1..Len(cmd.keys)
  BY <1>1 DEF Present
<1>3. Min(Present(cmd)) \in 1..Len(cmd.keys)
  BY <1>2, MinIsOne
<1> QED BY <1>1, <1>3, ElementOfSeq

\* Parts that steps share: the end of waits, an assertion that fails.
LEMMA ReleaseType ==
    ASSUME TypeOK, NEW cs, Release(cs)
    PROVE  /\ waiting' \in [Clients -> SUBSET Keys]
           /\ target' \in [Clients -> Keys \cup {None}]
           /\ forgotten' \subseteq Clients
  BY DEF TypeOK, Release

LEMMA AssertType ==
    ASSUME TypeOK, AssertFails
    PROVE  TypeOK'
  BY DEF TypeOK, AssertFails, clientVars

LEMMA PushType ==
    ASSUME TypeOK, NEW c \in Clients, NEW cmd \in Commands, Push(c, cmd)
    PROVE  TypeOK'
<1>1. /\ cmd.op = "push" /\ pushed + cmd.n <= MaxPush
      /\ store' = Pushed(store, cmd.key, Numbered(cmd.n), cmd.end, cmd.create)
      /\ replay' = Pushed(replay, cmd.key, Numbered(cmd.n), cmd.end, cmd.create)
      /\ pushed' = pushed + cmd.n
      /\ serving' = IF store[cmd.key].elems = <<>> THEN cmd.key ELSE None
      /\ parted' = (parted \/ Refused(replay, cmd.key, cmd.create))
      /\ UNCHANGED <<conn, waiting, target, blocked, crashed, taken, forgotten, outdated>>
  BY DEF Push, clientVars
<1>2. cmd.key \in Keys /\ cmd.n \in 1..MaxPush
  BY <1>1, CommandType
<1>3. Numbered(cmd.n) \in Seq(Elements) /\ pushed' \in 0..MaxPush
  BY <1>1, <1>2, NumberedType
<1>4. store' \in [Keys -> Value] /\ replay' \in [Keys -> Value]
  BY <1>1, <1>2, <1>3, PushedType DEF TypeOK
<1>5. serving' \in Keys \cup {None} /\ parted' \in BOOLEAN
  BY <1>1, <1>2
<1> QED BY <1>1, <1>3, <1>4, <1>5 DEF TypeOK

LEMMA PopType ==
    ASSUME TypeOK, NEW c \in Clients, NEW cmd \in Commands, Pop(c, cmd)
    PROVE  TypeOK'
<1>1. CASE EmptyList(cmd.key)
  BY <1>1, AssertType DEF Pop
<1>2. CASE ~EmptyList(cmd.key)
  <2>1. /\ cmd.op = "pop" /\ store[cmd.key].kind = "list"
        /\ store' = Popped(store, cmd.key, cmd.end)
        /\ replay' = Popped(replay, cmd.key, cmd.end)
        /\ taken' = taken \cup {ElementAt(store[cmd.key].elems, cmd.end)}
        /\ UNCHANGED <<conn, waiting, target, blocked, serving, crashed, pushed,
                       forgotten, outdated, parted>>
    BY <1>2 DEF Pop, clientVars
  <2>2. cmd.key \in Keys
    BY <2>1, CommandType
  <2>3. store[cmd.key].elems # <<>>
    BY <1>2, <2>1, <2>2, ElemsAreASeq DEF TypeOK, EmptyList, List, Value
  <2>4. ElementAt(store[cmd.key].elems, cmd.end) \in Elements
    BY <2>2, <2>3, ElemsAreASeq, WithoutSet DEF TypeOK
  <2>5. store' \in [Keys -> Value] /\ replay' \in [Keys -> Value]
    BY <2>1, <2>2, PoppedType DEF TypeOK
  <2> QED BY <2>1, <2>4, <2>5 DEF TypeOK
<1> QED BY <1>1, <1>2

LEMMA RPopLPushType ==
    ASSUME TypeOK, NEW c \in Clients, NEW cmd \in Commands, RPopLPush(c, cmd)
    PROVE  TypeOK'
<1>1. CASE EmptyList(cmd.key)
  BY <1>1, AssertType DEF RPopLPush
<1>2. CASE ~EmptyList(cmd.key)
  <2>1. /\ cmd.op = "rpoplpush"
        /\ store' = Moved(store, cmd.key, cmd.to)
        /\ replay' = Moved(replay, cmd.key, cmd.to)
        /\ UNCHANGED <<conn, waiting, target, blocked, serving, crashed, pushed, taken,
                       forgotten, outdated, parted>>
    BY <1>2 DEF RPopLPush, clientVars
  <2>2. cmd.key \in Keys /\ cmd.to \in Keys
    BY <2>1, CommandType
  <2>3. store' \in [Keys -> Value] /\ replay' \in [Keys -> Value]
    BY <2>1, <2>2, MovedType DEF TypeOK
  <2> QED BY <2>1, <2>3 DEF TypeOK
<1> QED BY <1>1, <1>2

\* The elements of a key, and of all.
LEMMA ElemsInElements ==
    ASSUME NEW m \in [Keys -> Value], NEW k \in Keys
    PROVE  ToSet(m[k].elems) \subseteq Elements
  BY ElemsAreASeq, SetOfSeq

LEMMA OverwriteType ==
    ASSUME TypeOK, NEW c \in Clients, NEW cmd \in Commands, Overwrite(c, cmd)
    PROVE  TypeOK'
<1> DEFINE v == IF cmd.op = "set" THEN String ELSE Absent
<1>1. /\ cmd.op \in {"set", "del"}
      /\ store' = [store EXCEPT ![cmd.key] = v]
      /\ replay' = [replay EXCEPT ![cmd.key] = v]
      /\ taken' = taken \cup ToSet(store[cmd.key].elems)
      /\ UNCHANGED <<conn, waiting, target, blocked, serving, crashed, pushed,
                     forgotten, outdated, parted>>
  BY DEF Overwrite, clientVars
<1>2. cmd.key \in Keys
  BY <1>1, CommandType
<1>3. v \in Value
  BY Values
<1>4. ToSet(store[cmd.key].elems) \subseteq Elements
  BY <1>2, ElemsInElements DEF TypeOK
<1> HIDE DEF v
<1> QED BY <1>1, <1>3, <1>4 DEF TypeOK

LEMMA FlushAllType ==
    ASSUME TypeOK, NEW c \in Clients, NEW cmd \in Commands, FlushAll(c, cmd)
    PROVE  TypeOK'
<1>1. /\ store' = [k \in Keys |-> Absent] /\ replay' = [k \in Keys |-> Absent]
      /\ blocked' = [k \in Keys |-> <<>>]
      /\ taken' = taken \cup UNION {ToSet(store[k].elems) : k \in Keys}
      /\ forgotten' = forgotten \cup {w \in conn : waiting[w] # {}}
      /\ UNCHANGED <<conn, waiting, target, serving, crashed, pushed, outdated, parted>>
  BY DEF FlushAll, clientVars
<1>2. store' \in [Keys -> Value] /\ replay' \in [Keys -> Value]
  BY <1>1, Values
<1>3. taken' \subseteq Elements
  <2>1. \A k \in Keys : ToSet(store[k].elems) \subseteq Elements
    BY ElemsInElements DEF TypeOK
  <2> QED BY <1>1, <2>1 DEF TypeOK
<1>4. blocked' \in [Keys -> Seq(Entry)]
  BY <1>1
<1> QED BY <1>1, <1>2, <1>3, <1>4 DEF TypeOK

\* The entry of a client that blocks is appended to the queues of its keys.
LEMMA BlockClientIs ==
    ASSUME TypeOK, NEW c \in Clients, NEW cmd \in Commands,
           cmd.op \in {"bpop", "brpoplpush"}, BlockClient(c, cmd)
    PROVE  /\ ToSet(cmd.keys) \subseteq Keys
           /\ blocked' \in [Keys -> Seq(Entry)]
           /\ \A k \in Keys : ToSet(blocked[k]) \subseteq ToSet(blocked'[k])
           /\ \A k \in Keys : \A e \in ToSet(blocked'[k]) : e \in ToSet(blocked[k]) \/ e.cli = c
           /\ \A k \in ToSet(cmd.keys) :
                \E e \in ToSet(blocked'[k]) : e.cli = c /\ e.end = cmd.end
           /\ waiting' = [waiting EXCEPT ![c] = ToSet(cmd.keys)]
           /\ target' = [target EXCEPT ![c] = cmd.to]
           /\ UNCHANGED <<conn, store, serving, crashed, replay, pushed, taken,
                          forgotten, outdated, parted>>
<1> DEFINE e == [cli |-> c, timed |-> cmd.timed, end |-> cmd.end]
<1>1. /\ waiting' = [waiting EXCEPT ![c] = ToSet(cmd.keys)]
      /\ target' = [target EXCEPT ![c] = cmd.to]
      /\ blocked' = [k \in Keys |-> IF k \in ToSet(cmd.keys)
                                    THEN Append(blocked[k], e) ELSE blocked[k]]
      /\ UNCHANGED <<conn, store, serving, crashed, replay, pushed, taken,
                     forgotten, outdated, parted>>
  BY DEF BlockClient
<1>2. e \in Entry /\ e.cli = c /\ e.end = cmd.end
  BY CommandType DEF Entry
<1>3. ToSet(cmd.keys) \subseteq Keys
  BY CommandType, SetOfSeq
<1> HIDE DEF e
<1>4. ASSUME NEW k \in Keys
      PROVE  /\ Append(blocked[k], e) \in Seq(Entry)
             /\ ToSet(Append(blocked[k], e)) = ToSet(blocked[k]) \cup {e}
  <2>1. blocked[k] \in Seq(Entry)
    BY DEF TypeOK
  <2> QED BY <1>2, <2>1, AppendSet
<1>5. blocked' \in [Keys -> Seq(Entry)]
  BY <1>1, <1>4 DEF TypeOK
<1>6. ASSUME NEW k \in Keys
      PROVE  ToSet(blocked'[k]) = IF k \in ToSet(cmd.keys) THEN ToSet(blocked[k]) \cup {e}
                                  ELSE ToSet(blocked[k])
  BY <1>1, <1>4
<1> QED BY <1>1, <1>2, <1>3, <1>5, <1>6

LEMMA PopNowType ==
    ASSUME TypeOK, NEW c \in Clients, NEW cmd \in Commands, NEW k \in Keys,
           PopNow(c, cmd, k)
    PROVE  TypeOK'
<1>1. CASE EmptyList(k)
  BY <1>1, AssertType DEF PopNow
<1>2. CASE ~EmptyList(k)
  <2>1. /\ store[k].kind = "list"
        /\ store' = Popped(store, k, cmd.end)
        /\ replay' = Popped(replay, k, cmd.end)
        /\ taken' = taken \cup {ElementAt(store[k].elems, cmd.end)}
        /\ UNCHANGED <<conn, waiting, target, blocked, serving, crashed, pushed,
                       forgotten, outdated, parted>>
    BY <1>2 DEF PopNow, clientVars
  <2>2. store[k].elems # <<>>
    BY <1>2, <2>1, ElemsAreASeq DEF TypeOK, EmptyList, List, Value
  <2>3. ElementAt(store[k].elems, cmd.end) \in Elements
    BY <2>2, ElemsAreASeq, WithoutSet DEF TypeOK
  <2>4. store' \in [Keys -> Value] /\ replay' \in [Keys -> Value]
    BY <2>1, PoppedType DEF TypeOK
  <2> QED BY <2>1, <2>3, <2>4 DEF TypeOK
<1> QED BY <1>1, <1>2

LEMMA BlockedPopType ==
    ASSUME TypeOK, NEW c \in Clients, NEW cmd \in Commands, BlockedPop(c, cmd)
    PROVE  TypeOK'
<1>1. cmd.op \in {"bpop", "brpoplpush"}
  BY DEF BlockedPop
<1>2. CASE Present(cmd) = {}
  <2>1. BlockClient(c, cmd)
    BY <1>2 DEF BlockedPop
  <2>2. cmd.to \in Keys \cup {None}
    BY <1>1, CommandType
  <2>3. /\ ToSet(cmd.keys) \subseteq Keys
        /\ blocked' \in [Keys -> Seq(Entry)]
        /\ waiting' = [waiting EXCEPT ![c] = ToSet(cmd.keys)]
        /\ target' = [target EXCEPT ![c] = cmd.to]
        /\ UNCHANGED <<conn, store, serving, crashed, replay, pushed, taken,
                       forgotten, outdated, parted>>
    BY <1>1, <2>1, BlockClientIs
  <2>4. waiting' \in [Clients -> SUBSET Keys] /\ target' \in [Clients -> Keys \cup {None}]
    BY <2>2, <2>3 DEF TypeOK
  <2> QED BY <2>3, <2>4 DEF TypeOK
<1>3. CASE Present(cmd) # {}
  BY <1>1, <1>3, PresentIs, PopNowType DEF BlockedPop
<1> QED BY <1>2, <1>3

\* The two ways the first entry of a queue is served.
ServesLive(k, e, to) ==
    /\ e.cli \in conn /\ UNCHANGED conn
    /\ UnblockClient(e.cli, k)
    /\ outdated' = (outdated \/ Outdated(k))
    /\ \/ UNCHANGED <<store, replay, taken>>
       \/ /\ to # None => store[to].kind # "string"
          /\ store' = Served(Onward(store, to, Last(store[k].elems)), k, e.end)
          /\ replay' = Popped(Onward(replay, to, Last(store[k].elems)), k, e.end)
          /\ taken' = IF to = None THEN taken \cup {ElementAt(store[k].elems, e.end)}
                      ELSE taken

LEMMA ServeCases ==
    ASSUME TypeOK, NEW k \in Keys, ServeNext(k)
    PROVE  LET e == Head(blocked[k])
           IN  /\ serving = k /\ ~crashed /\ UNCHANGED <<serving, pushed, parted>>
               /\ store[k].elems # <<>> /\ blocked[k] # <<>>
               /\ e \in Entry /\ e \in ToSet(blocked[k])
               /\ target[e.cli] \in Keys \cup {None}
               /\ \/ /\ e.cli \notin conn
                     /\ blocked' = [blocked EXCEPT ![k] = Tail(@)]
                     /\ UNCHANGED <<conn, waiting, target, store, crashed, replay, taken,
                                    forgotten, outdated>>
                  \/ ServesLive(k, e, target[e.cli])
<1> DEFINE e == Head(blocked[k])
<1>1. /\ serving = k /\ ~crashed /\ UNCHANGED <<serving, pushed, parted>>
      /\ store[k].elems # <<>> /\ blocked[k] # <<>>
  BY DEF ServeNext
<1>2. blocked[k] \in Seq(Entry)
  BY DEF TypeOK
<1>3. e \in Entry /\ e \in ToSet(blocked[k])
  BY <1>1, <1>2, EndsSet
<1>4. target[e.cli] \in Keys \cup {None}
  BY <1>3 DEF TypeOK, Entry
<1>5. CASE e.cli \notin conn
  BY <1>1, <1>3, <1>4, <1>5 DEF ServeNext, clientVars
<1>6. CASE e.cli \in conn
  <2>1. ServesLive(k, e, target[e.cli])
    BY <1>6 DEF ServeNext, ServesLive
  <2> QED BY <1>1, <1>3, <1>4, <2>1
<1> QED BY <1>5, <1>6

LEMMA ServeNextType ==
    ASSUME TypeOK, NEW k \in Keys, ServeNext(k)
    PROVE  TypeOK'
<1> DEFINE e == Head(blocked[k])
           to == target[e.cli]
           q == store[k].elems
<1>1. /\ UNCHANGED <<serving, pushed, parted>>
      /\ q # <<>> /\ blocked[k] # <<>>
      /\ e \in Entry /\ to \in Keys \cup {None}
  BY ServeCases
<1>2. q \in Seq(Elements) /\ Last(q) \in Elements /\ ElementAt(q, e.end) \in Elements
  <2>1. q \in Seq(Elements)
    BY ElemsAreASeq DEF TypeOK
  <2> HIDE DEF q
  <2> QED BY <1>1, <2>1, EndsSet, WithoutSet
<1>3. CASE /\ blocked' = [blocked EXCEPT ![k] = Tail(@)]
           /\ UNCHANGED <<conn, waiting, target, store, crashed, replay, taken,
                          forgotten, outdated>>
  <2>1. blocked[k] \in Seq(Entry)
    BY DEF TypeOK
  <2>2. Tail(blocked[k]) \in Seq(Entry)
    BY <1>1, <2>1, EndsSet
  <2>3. blocked' \in [Keys -> Seq(Entry)]
    BY <1>3, <2>2 DEF TypeOK
  <2> QED BY <1>1, <1>3, <2>3 DEF TypeOK
<1>4. CASE ServesLive(k, e, to)
  <2> HIDE DEF e, to
  <2>1. e.cli \in Clients
    BY <1>1 DEF Entry
  <2>2. /\ waiting' \in [Clients -> SUBSET Keys] /\ forgotten' \subseteq Clients
        /\ target' \in [Clients -> Keys \cup {None}]
    BY <1>4, ReleaseType DEF ServesLive, UnblockClient
  <2>3. blocked' \in [Keys -> Seq(Entry)]
    BY <1>4, <2>1, UnblockedIs DEF ServesLive, UnblockClient
  <2>4. crashed' \in BOOLEAN /\ outdated' \in BOOLEAN
    BY <1>4 DEF ServesLive, UnblockClient
  <2>5. CASE UNCHANGED <<store, replay, taken>>
    BY <1>1, <1>4, <2>2, <2>3, <2>4, <2>5 DEF ServesLive, TypeOK
  <2>6. CASE /\ to # None => store[to].kind # "string"
             /\ store' = Served(Onward(store, to, Last(q)), k, e.end)
             /\ replay' = Popped(Onward(replay, to, Last(q)), k, e.end)
             /\ taken' = IF to = None THEN taken \cup {ElementAt(q, e.end)} ELSE taken
    <3>1. /\ Onward(store, to, Last(q)) \in [Keys -> Value]
          /\ Onward(store, to, Last(q))[k].elems # <<>>
      <4>1. store \in [Keys -> Value]
        BY DEF TypeOK
      <4>2. Onward(store, to, Last(q)) \in [Keys -> Value]
        BY <1>1, <1>2, <4>1, OnwardIs
      <4> QED BY <1>1, <1>2, <2>6, <4>1, <4>2, OnwardLeavesSome
    <3>2. store' \in [Keys -> Value]
      BY <2>6, <3>1, ServedIs
    <3>3. Onward(replay, to, Last(q)) \in [Keys -> Value]
      BY <1>1, <1>2, OnwardIs DEF TypeOK
    <3>4. replay' \in [Keys -> Value]
      BY <2>6, <3>3, PoppedType
    <3>5. taken' \subseteq Elements
      BY <1>2, <2>6 DEF TypeOK
    <3> QED BY <1>1, <1>4, <2>2, <2>3, <2>4, <3>2, <3>4, <3>5 DEF ServesLive, TypeOK
  <2> QED BY <1>4, <2>5, <2>6 DEF ServesLive, q
<1> QED BY <1>3, <1>4, ServeCases

LEMMA LoopCheckType ==
    ASSUME TypeOK, NEW expired, LoopCheck(expired)
    PROVE  TypeOK'
<1>1. /\ blocked' = [k \in Keys |-> Kept(blocked[k], {e \in Entry : <<k, e>> \in expired})]
      /\ Release({c \in conn : \E x \in expired : x[2].cli = c /\ x[1] \in waiting[c]})
      /\ UNCHANGED <<conn, store, serving, crashed, replay, pushed, taken, outdated, parted>>
  BY DEF LoopCheck
<1>2. \A k \in Keys : Kept(blocked[k], {e \in Entry : <<k, e>> \in expired}) \in Seq(Entry)
  BY KeptIs
<1>3. blocked' \in [Keys -> Seq(Entry)]
  BY <1>1, <1>2
<1> QED BY <1>1, <1>3, ReleaseType DEF TypeOK

\* Every variable keeps its type, whatever the clients send.
THEOREM TypeCorrect == Spec => []TypeOK
<1>1. Init => TypeOK
  <2>1. Absent \in Value
    BY Values
  <2>2. 0 \in 0..MaxPush
    BY BoundsAssumption
  <2> SUFFICES ASSUME Init PROVE TypeOK
    OBVIOUS
  <2>3. store \in [Keys -> Value] /\ replay \in [Keys -> Value]
    BY <2>1 DEF Init
  <2>4. blocked \in [Keys -> Seq(Entry)]
    BY DEF Init
  <2>5. waiting \in [Clients -> SUBSET Keys] /\ target \in [Clients -> Keys \cup {None}]
    BY DEF Init
  <2> QED BY <2>2, <2>3, <2>4, <2>5 DEF Init, TypeOK
<1>2. TypeOK /\ [Next]_vars => TypeOK'
  <2> SUFFICES ASSUME TypeOK, [Next]_vars PROVE TypeOK'
    OBVIOUS
  <2>1. ASSUME NEW c \in Clients, NEW cmd \in Commands, Execute(c, cmd) PROVE TypeOK'
    BY <2>1, PushType, PopType, RPopLPushType, OverwriteType, FlushAllType, BlockedPopType
       DEF Execute
  <2>2. ASSUME NEW c \in Clients, Disconnect(c) PROVE TypeOK'
    BY <2>2, ReleaseType DEF Disconnect, TypeOK
  <2>3. ASSUME NEW c \in Clients, Connect(c) PROVE TypeOK'
    BY <2>3 DEF Connect, TypeOK
  <2>4. ASSUME NEW k \in Keys, ServeNext(k) PROVE TypeOK'
    BY <2>4, ServeNextType
  <2>5. ASSUME NEW k \in Keys, ServeDone(k) PROVE TypeOK'
    BY <2>5 DEF ServeDone, clientVars, TypeOK
  <2>6. ASSUME NEW expired, LoopCheck(expired) PROVE TypeOK'
    BY <2>6, LoopCheckType
  <2>7. CASE UNCHANGED vars
    BY <2>7 DEF vars, clientVars, TypeOK
  <2> QED BY <2>1, <2>2, <2>3, <2>4, <2>5, <2>6, <2>7 DEF Next
<1> QED BY <1>1, <1>2, PTL DEF Spec

-----------------------------------------------------------------------------
(***************************************************************************)
(* Who is queued where.  A client that waits for a key has an entry in its  *)
(* queue, because every step that takes its last entry ends its wait: the   *)
(* entry that UnblockClient takes is of the client it answers, and LoopCheck *)
(* answers a client as soon as one of its entries expires.  Entries outlive *)
(* waits, so the converse does not hold.                                    *)
(***************************************************************************)

\* A closed connection waits for nothing; who was forgotten waits, in no queue.
GoneWaitNot == \A c \in Clients \ conn : waiting[c] = {}

ForgottenAreInNoQueue ==
    /\ forgotten \subseteq conn
    /\ \A c \in forgotten : waiting[c] # {} /\ \A k \in Keys : ~HasEntry(c, k)

\* Of a client that waits with a target one entry takes from the right: it is the
\* one served, if it is its only one.
TargetIsRight ==
    \A c \in conn \ forgotten : \A k \in waiting[c] :
        target[c] # None => \E e \in ToSet(blocked[k]) : e.cli = c /\ e.end = "right"

TargetsAreTargets == \A c \in Clients : target[c] \in Targets \cup {None}

WaitInv ==
    /\ GoneWaitNot
    /\ ForgottenAreInNoQueue
    /\ WaiterIsQueued
    /\ TargetIsRight
    /\ TargetsAreTargets

\* A step that ends the waits of cs and takes entries of cs only, or of closed
\* connections, keeps WaitInv.
LEMMA ReleaseKeepsWaitInv ==
    ASSUME TypeOK, WaitInv, NEW cs \in SUBSET Clients, Release(cs), conn' \subseteq conn,
           conn \ conn' \subseteq cs,
           \A k \in Keys : ToSet(blocked'[k]) \subseteq ToSet(blocked[k]),
           \A k \in Keys : \A e \in ToSet(blocked[k]) :
                 e.cli \in conn /\ k \in waiting[e.cli] /\ e.cli \notin cs
                    => e \in ToSet(blocked'[k])
    PROVE  WaitInv'
<1>1. /\ \A c \in Clients : waiting'[c] = IF c \in cs THEN {} ELSE waiting[c]
      /\ \A c \in Clients : target'[c] = IF c \in cs THEN None ELSE target[c]
      /\ forgotten' = forgotten \ cs
  BY DEF Release
<1>2. \A c \in Clients : waiting[c] \subseteq Keys
  BY DEF TypeOK
<1>3. GoneWaitNot'
  BY <1>1 DEF WaitInv, GoneWaitNot
<1>4. ForgottenAreInNoQueue'
  <2>1. forgotten' \subseteq conn'
    BY <1>1 DEF WaitInv, ForgottenAreInNoQueue
  <2>2. ASSUME NEW c \in forgotten', NEW k \in Keys, NEW e \in ToSet(blocked'[k])
        PROVE  e.cli # c
    <3>1. c \in forgotten /\ c \notin cs /\ c \in Clients /\ e \in ToSet(blocked[k])
      BY <1>1, <2>2 DEF TypeOK
    <3> QED BY <3>1 DEF WaitInv, ForgottenAreInNoQueue, HasEntry
  <2>3. ASSUME NEW c \in forgotten' PROVE waiting'[c] # {}
    <3>1. c \in forgotten /\ c \notin cs /\ c \in Clients
      BY <1>1, <2>3 DEF TypeOK
    <3> QED BY <1>1, <3>1 DEF WaitInv, ForgottenAreInNoQueue
  <2> QED BY <2>1, <2>2, <2>3 DEF ForgottenAreInNoQueue, HasEntry
<1>5. WaiterIsQueued'
  <2> SUFFICES ASSUME NEW c \in conn' \ forgotten', NEW k \in waiting'[c]
               PROVE  \E e \in ToSet(blocked'[k]) : e.cli = c
    BY DEF WaiterIsQueued, HasEntry
  <2>1. c \in Clients /\ c \notin cs /\ c \in conn \ forgotten /\ k \in waiting[c] /\ k \in Keys
    BY <1>1, <1>2 DEF TypeOK
  <2>2. PICK e \in ToSet(blocked[k]) : e.cli = c
    BY <2>1 DEF WaitInv, WaiterIsQueued, HasEntry
  <2> QED BY <2>1, <2>2
<1>6. TargetIsRight'
  <2> SUFFICES ASSUME NEW c \in conn' \ forgotten', NEW k \in waiting'[c], target'[c] # None
               PROVE  \E e \in ToSet(blocked'[k]) : e.cli = c /\ e.end = "right"
    BY DEF TargetIsRight
  <2>1. /\ c \in Clients /\ c \notin cs /\ c \in conn \ forgotten /\ k \in waiting[c] /\ k \in Keys
        /\ target[c] # None
    BY <1>1, <1>2 DEF TypeOK
  <2>2. PICK e \in ToSet(blocked[k]) : e.cli = c /\ e.end = "right"
    BY <2>1 DEF WaitInv, TargetIsRight
  <2> QED BY <2>1, <2>2
<1>7. TargetsAreTargets'
  BY <1>1 DEF WaitInv, TargetsAreTargets
<1> QED BY <1>3, <1>4, <1>5, <1>6, <1>7 DEF WaitInv

LEMMA SameKeepsWaitInv ==
    ASSUME WaitInv, UNCHANGED <<conn, waiting, target, blocked, forgotten>>
    PROVE  WaitInv'
  BY DEF WaitInv, GoneWaitNot, ForgottenAreInNoQueue, WaiterIsQueued, TargetIsRight,
         TargetsAreTargets, HasEntry

LEMMA FlushAllKeepsWaitInv ==
    ASSUME TypeOK, WaitInv, NEW c \in Clients, NEW cmd \in Commands, FlushAll(c, cmd)
    PROVE  WaitInv'
<1>1. /\ \A k \in Keys : blocked'[k] = <<>>
      /\ forgotten' = forgotten \cup {w \in conn : waiting[w] # {}}
      /\ UNCHANGED <<conn, waiting, target>>
  BY DEF FlushAll, clientVars
<1>2. \A k \in Keys : ToSet(blocked'[k]) = {}
  BY <1>1 DEF ToSet
<1>3. GoneWaitNot' /\ TargetsAreTargets'
  BY <1>1 DEF WaitInv, GoneWaitNot, TargetsAreTargets
<1>4. ForgottenAreInNoQueue'
  BY <1>1, <1>2 DEF WaitInv, ForgottenAreInNoQueue, HasEntry
<1>5. WaiterIsQueued' /\ TargetIsRight'
  BY <1>1 DEF WaiterIsQueued, TargetIsRight
<1> QED BY <1>3, <1>4, <1>5 DEF WaitInv

LEMMA BlockClientKeepsWaitInv ==
    ASSUME TypeOK, WaitInv, NEW c \in Clients, NEW cmd \in Commands, Free(c),
           cmd.op \in {"bpop", "brpoplpush"}, BlockClient(c, cmd)
    PROVE  WaitInv'
<1> DEFINE ks == ToSet(cmd.keys)
<1>1. /\ ks \subseteq Keys
      /\ \A k \in Keys : ToSet(blocked[k]) \subseteq ToSet(blocked'[k])
      /\ \A k \in Keys : \A e \in ToSet(blocked'[k]) : e \in ToSet(blocked[k]) \/ e.cli = c
      /\ \A k \in ks : \E e \in ToSet(blocked'[k]) : e.cli = c /\ e.end = cmd.end
      /\ waiting' = [waiting EXCEPT ![c] = ks]
      /\ target' = [target EXCEPT ![c] = cmd.to]
      /\ UNCHANGED <<conn, forgotten>>
  BY BlockClientIs
<1> HIDE DEF ks
<1>2. /\ \A d \in Clients : waiting'[d] = IF d = c THEN ks ELSE waiting[d]
      /\ \A d \in Clients : target'[d] = IF d = c THEN cmd.to ELSE target[d]
      /\ \A d \in Clients : waiting[d] \subseteq Keys
      /\ c \in conn /\ conn \subseteq Clients
  BY <1>1 DEF TypeOK, Free
<1>3. c \notin forgotten
  BY DEF WaitInv, ForgottenAreInNoQueue, Free
<1>4. GoneWaitNot'
  BY <1>1, <1>2 DEF WaitInv, GoneWaitNot
<1>5. ForgottenAreInNoQueue'
  BY <1>1, <1>2, <1>3 DEF WaitInv, ForgottenAreInNoQueue, HasEntry
<1>6. WaiterIsQueued'
  <2> SUFFICES ASSUME NEW d \in conn \ forgotten, NEW k \in waiting'[d]
               PROVE  \E e \in ToSet(blocked'[k]) : e.cli = d
    BY <1>1 DEF WaiterIsQueued, HasEntry
  <2>1. CASE d = c
    BY <1>1, <1>2, <2>1
  <2>2. CASE d # c
    <3>1. k \in waiting[d] /\ k \in Keys
      BY <1>2, <2>2
    <3>2. PICK e \in ToSet(blocked[k]) : e.cli = d
      BY <3>1 DEF WaitInv, WaiterIsQueued, HasEntry
    <3> QED BY <1>1, <3>1, <3>2
  <2> QED BY <2>1, <2>2
<1>7. TargetIsRight'
  <2> SUFFICES ASSUME NEW d \in conn \ forgotten, NEW k \in waiting'[d], target'[d] # None
               PROVE  \E e \in ToSet(blocked'[k]) : e.cli = d /\ e.end = "right"
    BY <1>1 DEF TargetIsRight
  <2>1. CASE d = c
    <3>1. cmd.to # None => cmd.end = "right"
      BY CommandType
    <3> QED BY <1>1, <1>2, <2>1, <3>1
  <2>2. CASE d # c
    <3>1. k \in waiting[d] /\ k \in Keys /\ target[d] # None
      BY <1>2, <2>2
    <3>2. PICK e \in ToSet(blocked[k]) : e.cli = d /\ e.end = "right"
      BY <3>1 DEF WaitInv, TargetIsRight
    <3> QED BY <1>1, <3>1, <3>2
  <2> QED BY <2>1, <2>2
<1>8. TargetsAreTargets'
  <2>1. cmd.to \in Targets \cup {None}
    BY CommandType
  <2> QED BY <1>2, <2>1 DEF WaitInv, TargetsAreTargets
<1> QED BY <1>4, <1>5, <1>6, <1>7, <1>8 DEF WaitInv

LEMMA ServeNextKeepsWaitInv ==
    ASSUME TypeOK, WaitInv, NEW k \in Keys, ServeNext(k)
    PROVE  WaitInv'
<1> DEFINE e == Head(blocked[k])
           to == target[e.cli]
<1>1. blocked[k] # <<>> /\ e \in Entry /\ blocked[k] \in Seq(Entry) /\ e.cli \in Clients
  BY ServeCases DEF TypeOK, Entry
<1>2. CASE /\ e.cli \notin conn
           /\ blocked' = [blocked EXCEPT ![k] = Tail(@)]
           /\ UNCHANGED <<conn, waiting, target, store, crashed, replay, taken,
                          forgotten, outdated>>
  <2>1. ToSet(blocked[k]) = {e} \cup ToSet(Tail(blocked[k]))
    BY <1>1, EndsSet
  <2>2. \A x \in Keys : ToSet(blocked'[x]) = IF x = k THEN ToSet(Tail(blocked[k]))
                                             ELSE ToSet(blocked[x])
    BY <1>2 DEF TypeOK
  <2>3. Release({})
    BY <1>2 DEF Release, TypeOK
  <2>4. \A x \in Keys : ToSet(blocked'[x]) \subseteq ToSet(blocked[x])
    BY <2>1, <2>2
  <2>5. \A x \in Keys : \A f \in ToSet(blocked[x]) :
            f.cli \in conn => f \in ToSet(blocked'[x])
    BY <1>2, <2>1, <2>2
  <2> QED BY <1>2, <2>3, <2>4, <2>5, ReleaseKeepsWaitInv
<1>3. CASE ServesLive(k, e, to)
  <2> HIDE DEF e, to
  <2>1. Release({e.cli}) /\ blocked' = Unblocked(blocked, e.cli) /\ conn' = conn
    BY <1>3 DEF ServesLive, UnblockClient
  <2>2. /\ \A x \in Keys : ToSet(blocked'[x]) \subseteq ToSet(blocked[x])
        /\ \A x \in Keys : \A f \in ToSet(blocked[x]) :
              f.cli # e.cli => f \in ToSet(blocked'[x])
    BY <1>1, <2>1, UnblockedIs
  <2> QED BY <1>1, <2>1, <2>2, ReleaseKeepsWaitInv
<1> QED BY <1>2, <1>3, ServeCases

LEMMA LoopCheckKeepsWaitInv ==
    ASSUME TypeOK, WaitInv, NEW expired \in SUBSET TimedEntries, LoopCheck(expired)
    PROVE  WaitInv'
<1> DEFINE cs == {c \in conn : \E x \in expired : x[2].cli = c /\ x[1] \in waiting[c]}
           gone(k) == {e \in Entry : <<k, e>> \in expired}
<1>1. /\ Release(cs) /\ conn' = conn
      /\ blocked' = [k \in Keys |-> Kept(blocked[k], gone(k))]
  BY DEF LoopCheck
<1>2. \A k \in Keys : ToSet(blocked'[k]) = ToSet(blocked[k]) \ gone(k)
  BY <1>1, KeptIs
<1>3. cs \in SUBSET Clients
  BY DEF TypeOK
<1>4. ASSUME NEW k \in Keys, NEW e \in ToSet(blocked[k]),
             e.cli \in conn, k \in waiting[e.cli], e.cli \notin cs
      PROVE  e \in ToSet(blocked'[k])
  <2>1. <<k, e>> \notin expired
    <3> SUFFICES ASSUME <<k, e>> \in expired PROVE FALSE
      OBVIOUS
    <3>1. <<k, e>>[2].cli = e.cli /\ <<k, e>>[1] \in waiting[e.cli]
      BY <1>4
    <3> QED BY <1>4, <3>1
  <2> QED BY <1>2, <2>1
<1> HIDE DEF cs, gone
<1> QED BY <1>1, <1>2, <1>3, <1>4, ReleaseKeepsWaitInv

-----------------------------------------------------------------------------
(***************************************************************************)
(* Nobody waits beside a list.                                             *)
(***************************************************************************)

\* Outside the loop that serves a key, and beside the targets, nobody waits for a
\* key that has elements.
BesideInv ==
    \A k \in Keys \ Targets :
        k # serving /\ store[k].elems # <<>> /\ ~crashed
            => \A c \in conn \ forgotten : k \notin waiting[c]

QueueInv == WaitInv /\ BesideInv

\* A step after which fewer wait, and no more lists have elements.
LEMMA FewerKeepsBesideInv ==
    ASSUME BesideInv,
           \A k \in Keys \ Targets : k # serving' /\ store'[k].elems # <<>> /\ ~crashed'
                => k # serving /\ store[k].elems # <<>> /\ ~crashed,
           \A c \in conn' \ forgotten' :
                waiting'[c] \subseteq waiting[c] /\ (c \in conn \ forgotten \/ waiting'[c] = {})
    PROVE  BesideInv'
  BY DEF BesideInv

\* What a pop leaves was there before.
LEMMA PopLeavesFewer ==
    ASSUME NEW m \in [Keys -> Value], NEW k \in Keys, NEW end, NEW x \in Keys,
           Popped(m, k, end)[x].elems # <<>>
    PROVE  m[x].elems # <<>>
<1>1. Absent.elems = <<>>
  BY Values
<1> QED BY <1>1 DEF Popped

LEMMA PopNowKeepsQueueInv ==
    ASSUME TypeOK, QueueInv, NEW k \in Keys, NEW end,
           \/ AssertFails
           \/ /\ store' = Popped(store, k, end)
              /\ UNCHANGED <<clientVars, blocked, serving, crashed, forgotten>>
    PROVE  QueueInv'
<1>1. UNCHANGED <<conn, waiting, target, blocked, forgotten, serving>>
  BY DEF AssertFails, clientVars
<1>2. WaitInv'
  BY <1>1, SameKeepsWaitInv DEF QueueInv
<1>3. CASE AssertFails
  BY <1>2, <1>3 DEF QueueInv, BesideInv, AssertFails
<1>4. CASE store' = Popped(store, k, end) /\ UNCHANGED crashed
  <2>1. \A x \in Keys : store'[x].elems # <<>> => store[x].elems # <<>>
    BY <1>4, PopLeavesFewer DEF TypeOK
  <2>2. BesideInv'
    BY <1>1, <1>4, <2>1, FewerKeepsBesideInv DEF QueueInv
  <2> QED BY <1>2, <2>2 DEF QueueInv
<1> QED BY <1>3, <1>4

LEMMA PushKeepsQueueInv ==
    ASSUME TypeOK, QueueInv, NEW c \in Clients, NEW cmd \in Commands, Push(c, cmd)
    PROVE  QueueInv'
<1>1. /\ cmd.op = "push" /\ serving = None
      /\ store' = Pushed(store, cmd.key, Numbered(cmd.n), cmd.end, cmd.create)
      /\ serving' = IF store[cmd.key].elems = <<>> THEN cmd.key ELSE None
      /\ UNCHANGED <<conn, waiting, target, blocked, crashed, forgotten>>
  BY DEF Push, clientVars, Free, Idle
<1>2. \A x \in Keys : x # cmd.key => store'[x] = store[x]
  BY <1>1 DEF Pushed, TypeOK
<1>3. ASSUME NEW x \in Keys, x # serving', store'[x].elems # <<>>
      PROVE  x # serving /\ store[x].elems # <<>>
  BY <1>1, <1>2, <1>3, NoneAssumption
<1>4. BesideInv'
  BY <1>1, <1>3, FewerKeepsBesideInv DEF QueueInv
<1> QED BY <1>1, <1>4, SameKeepsWaitInv DEF QueueInv

LEMMA RPopLPushKeepsQueueInv ==
    ASSUME TypeOK, QueueInv, NEW c \in Clients, NEW cmd \in Commands, RPopLPush(c, cmd)
    PROVE  QueueInv'
<1>1. CASE EmptyList(cmd.key)
  <2>1. UNCHANGED <<conn, waiting, target, blocked, forgotten>> /\ crashed'
    BY <1>1 DEF RPopLPush, AssertFails, clientVars
  <2> QED BY <2>1, SameKeepsWaitInv DEF QueueInv, BesideInv
<1>2. CASE ~EmptyList(cmd.key)
  <2>1. /\ cmd.op = "rpoplpush"
        /\ store' = Moved(store, cmd.key, cmd.to)
        /\ UNCHANGED <<conn, waiting, target, blocked, serving, crashed, forgotten>>
    BY <1>2 DEF RPopLPush, clientVars
  <2>2. cmd.key \in Keys /\ cmd.to \in Keys /\ cmd.to \in Targets
    BY <2>1, CommandType
  <2>3. ASSUME NEW x \in Keys \ Targets, store'[x].elems # <<>>
        PROVE  store[x].elems # <<>>
    <3>1. CASE store[cmd.key].elems = <<>> \/ store[cmd.to].kind = "string"
      BY <2>1, <2>3, <3>1 DEF Moved
    <3>2. CASE store[cmd.key].elems # <<>> /\ store[cmd.to].kind # "string"
      <4>1. x # cmd.key => store'[x] = store[x]
        BY <2>1, <2>2, <3>2 DEF TypeOK, Moved
      <4> QED BY <2>3, <3>2, <4>1
    <3> QED BY <3>1, <3>2
  <2>4. BesideInv'
    BY <2>1, <2>3, FewerKeepsBesideInv DEF QueueInv
  <2> QED BY <2>1, <2>4, SameKeepsWaitInv DEF QueueInv
<1> QED BY <1>1, <1>2

LEMMA OverwriteKeepsQueueInv ==
    ASSUME TypeOK, QueueInv, NEW c \in Clients, NEW cmd \in Commands, Overwrite(c, cmd)
    PROVE  QueueInv'
<1>1. /\ store' = [store EXCEPT ![cmd.key] = IF cmd.op = "set" THEN String ELSE Absent]
      /\ UNCHANGED <<conn, waiting, target, blocked, serving, crashed, forgotten>>
  BY DEF Overwrite, clientVars
<1>2. \A x \in Keys : store'[x].elems # <<>> => store[x].elems # <<>>
  BY <1>1, Values DEF TypeOK
<1>3. BesideInv'
  BY <1>1, <1>2, FewerKeepsBesideInv DEF QueueInv
<1> QED BY <1>1, <1>3, SameKeepsWaitInv DEF QueueInv

LEMMA BlockedPopKeepsQueueInv ==
    ASSUME TypeOK, QueueInv, NEW c \in Clients, NEW cmd \in Commands, BlockedPop(c, cmd)
    PROVE  QueueInv'
<1>1. cmd.op \in {"bpop", "brpoplpush"} /\ Free(c)
  BY DEF BlockedPop
<1>2. CASE Present(cmd) = {}
  <2>1. BlockClient(c, cmd)
    BY <1>2 DEF BlockedPop
  <2>2. WaitInv'
    BY <1>1, <2>1, BlockClientKeepsWaitInv DEF QueueInv
  <2>3. /\ ToSet(cmd.keys) \subseteq Keys
        /\ waiting' = [waiting EXCEPT ![c] = ToSet(cmd.keys)]
        /\ UNCHANGED <<conn, store, serving, crashed, forgotten>>
    BY <1>1, <2>1, BlockClientIs
  <2>4. \A k \in ToSet(cmd.keys) : store[k].elems = <<>>
    <3> SUFFICES ASSUME NEW k \in ToSet(cmd.keys) PROVE store[k].elems = <<>>
      OBVIOUS
    <3>1. PICK i \in DOMAIN cmd.keys : k = cmd.keys[i]
      BY DEF ToSet
    <3>2. store[k].kind = "none" /\ k \in Keys
      BY <1>2, <2>3, <3>1 DEF Present
    <3> QED BY <3>2, ElemsAreASeq DEF TypeOK
  <2>5. BesideInv'
    <3> SUFFICES ASSUME NEW k \in Keys \ Targets, k # serving, store[k].elems # <<>>, ~crashed,
                        NEW d \in conn \ forgotten
                 PROVE  k \notin waiting'[d]
      BY <2>3 DEF BesideInv
    <3>1. k \notin waiting[d] /\ k \notin ToSet(cmd.keys)
      BY <2>4 DEF QueueInv, BesideInv
    <3> QED BY <2>3, <3>1 DEF TypeOK
  <2> QED BY <2>2, <2>5 DEF QueueInv
<1>3. CASE Present(cmd) # {}
  <2> DEFINE k == cmd.keys[Min(Present(cmd))]
  <2>1. k \in Keys /\ PopNow(c, cmd, k)
    BY <1>1, <1>3, PresentIs DEF BlockedPop
  <2> HIDE DEF k
  <2> QED BY <2>1, PopNowKeepsQueueInv DEF PopNow
<1> QED BY <1>2, <1>3

LEMMA ServeNextKeepsQueueInv ==
    ASSUME TypeOK, QueueInv, NEW k \in Keys, ServeNext(k)
    PROVE  QueueInv'
<1> DEFINE e == Head(blocked[k])
           to == target[e.cli]
           q == store[k].elems
<1>1. /\ serving = k /\ ~crashed /\ UNCHANGED serving
      /\ q # <<>> /\ e \in Entry /\ to \in Keys \cup {None}
  BY ServeCases
<1>2. WaitInv'
  BY ServeNextKeepsWaitInv DEF QueueInv
<1>3. CASE UNCHANGED <<conn, waiting, store, forgotten>>
  BY <1>1, <1>2, <1>3 DEF QueueInv, BesideInv
<1>4. CASE ServesLive(k, e, to)
  <2>1. to \in Targets \cup {None} /\ Last(q) \in Elements
    <3>1. e.cli \in Clients
      BY <1>1 DEF Entry
    <3>2. q \in Seq(Elements)
      BY ElemsAreASeq DEF TypeOK
    <3> QED BY <1>1, <3>1, <3>2, EndsSet DEF QueueInv, WaitInv, TargetsAreTargets
  <2> HIDE DEF e, to
  <2>2. Release({e.cli}) /\ UNCHANGED conn
    BY <1>4 DEF ServesLive, UnblockClient
  <2>3. ASSUME NEW c \in conn' \ forgotten'
        PROVE  waiting'[c] \subseteq waiting[c] /\ (c \in conn \ forgotten \/ waiting'[c] = {})
    BY <2>2 DEF Release, TypeOK
  <2>4. ASSUME NEW x \in Keys \ Targets, x # k PROVE store'[x] = store[x]
    <3>1. CASE UNCHANGED store
      BY <3>1
    <3>2. CASE store' = Served(Onward(store, to, Last(q)), k, e.end)
      <4>1. store \in [Keys -> Value]
        BY DEF TypeOK
      <4>2. x \in Keys /\ x # to
        BY <2>1, <2>4, NoneAssumption
      <4>3. ASSUME NEW l \in Elements
            PROVE  /\ Onward(store, to, l) \in [Keys -> Value]
                   /\ Onward(store, to, l)[x] = store[x]
        <5>1. to \in Keys \cup {None}
          BY <1>1
        <5>2. Onward(store, to, l) \in [Keys -> Value]
          BY <4>1, <5>1, OnwardIs
        <5>3. \A y \in Keys : y # to => Onward(store, to, l)[y] = store[y]
          BY <4>1, <5>1, OnwardIs
        <5> QED BY <4>2, <5>2, <5>3
      <4> QED BY <2>1, <2>4, <3>2, <4>2, <4>3 DEF Served
    <3> QED BY <1>4, <3>1, <3>2 DEF ServesLive, q
  <2>5. BesideInv'
    BY <1>1, <2>3, <2>4, FewerKeepsBesideInv DEF QueueInv
  <2> QED BY <1>2, <2>5 DEF QueueInv
<1> QED BY <1>3, <1>4, ServeCases

\* The loop ends when nobody is queued for the key, or its list is empty.
LEMMA ServeDoneKeepsQueueInv ==
    ASSUME TypeOK, QueueInv, NEW k \in Keys, ServeDone(k)
    PROVE  QueueInv'
<1>1. /\ serving = k /\ ~crashed /\ (store[k].elems = <<>> \/ blocked[k] = <<>>)
      /\ serving' = None
      /\ UNCHANGED <<conn, waiting, target, store, blocked, crashed, forgotten>>
  BY DEF ServeDone, clientVars
<1>2. WaitInv'
  BY <1>1, SameKeepsWaitInv DEF QueueInv
<1>3. blocked[k] = <<>> => \A c \in conn \ forgotten : k \notin waiting[c]
  <2>1. blocked[k] = <<>> => ToSet(blocked[k]) = {}
    BY DEF ToSet
  <2> QED BY <2>1 DEF QueueInv, WaitInv, WaiterIsQueued, HasEntry
<1>4. BesideInv'
  BY <1>1, <1>3 DEF QueueInv, BesideInv
<1> QED BY <1>2, <1>4 DEF QueueInv

\* Who waits for a key is in its queue, and no list with elements is kept from it
\* (BlockedClients): WaiterIsQueued and NobodyWaitsBesideAList, whatever the mix of
\* serves, timeouts, closed connections and FLUSHALLs.
LEMMA QueueInvStep == TypeOK /\ QueueInv /\ [Next]_vars => QueueInv'
<1> SUFFICES ASSUME TypeOK, QueueInv, [Next]_vars PROVE QueueInv'
  OBVIOUS
<1>1. ASSUME NEW c \in Clients, NEW cmd \in Commands, Execute(c, cmd) PROVE QueueInv'
  <2>1. CASE Push(c, cmd)
    BY <2>1, PushKeepsQueueInv
  <2>2. CASE Pop(c, cmd)
    <3>1. cmd.key \in Keys
      BY <2>2, CommandType DEF Pop
    <3> QED BY <2>2, <3>1, PopNowKeepsQueueInv DEF Pop
  <2>3. CASE RPopLPush(c, cmd)
    BY <2>3, RPopLPushKeepsQueueInv
  <2>4. CASE Overwrite(c, cmd)
    BY <2>4, OverwriteKeepsQueueInv
  <2>5. CASE FlushAll(c, cmd)
    <3>1. WaitInv'
      BY <2>5, FlushAllKeepsWaitInv DEF QueueInv
    <3>2. \A k \in Keys : store'[k].elems = <<>>
      BY <2>5, Values DEF FlushAll
    <3> QED BY <3>1, <3>2 DEF QueueInv, BesideInv
  <2>6. CASE BlockedPop(c, cmd)
    BY <2>6, BlockedPopKeepsQueueInv
  <2> QED BY <1>1, <2>1, <2>2, <2>3, <2>4, <2>5, <2>6 DEF Execute
<1>2. ASSUME NEW c \in Clients, Disconnect(c) PROVE QueueInv'
  <2>1. /\ conn' = conn \ {c} /\ Release({c})
        /\ UNCHANGED <<store, blocked, serving, crashed>>
    BY <1>2 DEF Disconnect
  <2>2. WaitInv'
    BY <2>1, ReleaseKeepsWaitInv DEF QueueInv
  <2>3. \A d \in conn' \ forgotten' :
            waiting'[d] \subseteq waiting[d] /\ (d \in conn \ forgotten \/ waiting'[d] = {})
    BY <2>1 DEF Release, TypeOK
  <2>4. BesideInv'
    BY <2>1, <2>3, FewerKeepsBesideInv DEF QueueInv
  <2> QED BY <2>2, <2>4 DEF QueueInv
<1>3. ASSUME NEW c \in Clients, Connect(c) PROVE QueueInv'
  <2>1. /\ c \notin conn /\ conn' = conn \cup {c} /\ waiting[c] = {}
        /\ UNCHANGED <<waiting, target, store, blocked, serving, crashed, forgotten>>
    BY <1>3 DEF Connect, QueueInv, WaitInv, GoneWaitNot
  <2>2. GoneWaitNot' /\ ForgottenAreInNoQueue' /\ TargetsAreTargets'
    BY <2>1 DEF QueueInv, WaitInv, GoneWaitNot, ForgottenAreInNoQueue, TargetsAreTargets,
                HasEntry
  <2>3. WaiterIsQueued' /\ TargetIsRight'
    BY <2>1 DEF QueueInv, WaitInv, WaiterIsQueued, TargetIsRight, HasEntry
  <2>4. BesideInv'
    BY <2>1 DEF QueueInv, BesideInv
  <2> QED BY <2>2, <2>3, <2>4 DEF QueueInv, WaitInv
<1>4. ASSUME NEW k \in Keys, ServeNext(k) PROVE QueueInv'
  BY <1>4, ServeNextKeepsQueueInv
<1>5. ASSUME NEW k \in Keys, ServeDone(k) PROVE QueueInv'
  BY <1>5, ServeDoneKeepsQueueInv
<1>6. ASSUME NEW expired \in SUBSET TimedEntries, LoopCheck(expired) PROVE QueueInv'
  <2>1. WaitInv'
    BY <1>6, LoopCheckKeepsWaitInv DEF QueueInv
  <2>2. PICK cs : Release(cs)
    BY <1>6 DEF LoopCheck
  <2>3. UNCHANGED <<conn, store, serving, crashed>>
    BY <1>6 DEF LoopCheck
  <2>4. \A d \in conn' \ forgotten' :
            waiting'[d] \subseteq waiting[d] /\ (d \in conn \ forgotten \/ waiting'[d] = {})
    BY <2>2, <2>3 DEF Release, TypeOK
  <2>5. BesideInv'
    BY <2>3, <2>4, FewerKeepsBesideInv DEF QueueInv
  <2> QED BY <2>1, <2>5 DEF QueueInv
<1>7. CASE UNCHANGED vars
  <2>1. UNCHANGED <<conn, waiting, target, blocked, forgotten, serving, crashed, store>>
    BY <1>7 DEF vars, clientVars
  <2> QED BY <2>1, SameKeepsWaitInv DEF QueueInv, BesideInv
<1> QED BY <1>1, <1>2, <1>3, <1>4, <1>5, <1>6, <1>7 DEF Next

LEMMA InitQueueInv == Init => QueueInv
<1> SUFFICES ASSUME Init PROVE QueueInv
  OBVIOUS
<1>1. /\ conn = Clients /\ forgotten = {}
      /\ \A c \in Clients : waiting[c] = {} /\ target[c] = None
  BY DEF Init
<1> QED BY <1>1 DEF QueueInv, WaitInv, GoneWaitNot, ForgottenAreInNoQueue, WaiterIsQueued,
                   TargetIsRight, TargetsAreTargets, BesideInv

\* No client that waits is forgotten, but by a FLUSHALL (BlockClient, UnblockClient,
\* ServeClient, LoopCheck): it has an entry in the queue of every key it waits for, and
\* when no push is being served none of these keys has elements, unless they came to it
\* as a target.
THEOREM QueuesHoldTheWaiters == Spec => []NobodyIsForgotten
<1>1. Init => QueueInv
  BY InitQueueInv
<1>2. TypeOK /\ QueueInv => NobodyIsForgotten
  <2> SUFFICES ASSUME TypeOK, QueueInv PROVE NobodyIsForgotten
    OBVIOUS
  <2>1. WaiterIsQueued
    BY DEF QueueInv, WaitInv
  <2>2. NobodyWaitsBesideAList
    <3> SUFFICES ASSUME Idle, NEW c \in conn \ forgotten, NEW k \in waiting[c] \ Targets
                 PROVE  store[k].elems = <<>>
      BY DEF NobodyWaitsBesideAList
    <3>1. k \in Keys /\ k # serving /\ ~crashed
      BY NoneAssumption DEF Idle, TypeOK
    <3> QED BY <3>1 DEF QueueInv, BesideInv
  <2> QED BY <2>1, <2>2 DEF NobodyIsForgotten
<1> QED BY <1>1, <1>2, QueueInvStep, TypeCorrect, PTL DEF Spec

-----------------------------------------------------------------------------
(***************************************************************************)
(* What was propagated gives the lists of the master.                      *)
(***************************************************************************)

\* The same lists and the same strings; an empty list counts as none.
Same(m, n) ==
    \A k \in Keys : /\ m[k].elems = n[k].elems
                    /\ (m[k].kind = "string") = (n[k].kind = "string")

\* A change of one key keeps two databases the same.
LEMMA UpdatedSame ==
    ASSUME NEW m \in [Keys -> Value], NEW n \in [Keys -> Value], Same(m, n),
           NEW k \in Keys, NEW v \in Value, NEW w \in Value,
           v.elems = w.elems, (v.kind = "string") = (w.kind = "string")
    PROVE  Same([m EXCEPT ![k] = v], [n EXCEPT ![k] = w])
  BY DEF Same

LEMMA PushedSame ==
    ASSUME NEW m \in [Keys -> Value], NEW n \in [Keys -> Value], Same(m, n),
           NEW k \in Keys, NEW es \in Seq(Elements), NEW end, NEW create,
           Refused(m, k, create) <=> Refused(n, k, create)
    PROVE  Same(Pushed(m, k, es, end, create), Pushed(n, k, es, end, create))
<1> DEFINE v == List(Joined(n[k].elems, es, end))
<1>1. m[k].elems = n[k].elems
  BY DEF Same
<1>2. Joined(n[k].elems, es, end) \in Seq(Elements)
  BY ElemsAreASeq, JoinedSet
<1>3. v \in Value
  BY <1>2, Values
<1>4. /\ Pushed(n, k, es, end, create) = IF Refused(n, k, create) THEN n ELSE [n EXCEPT ![k] = v]
      /\ Pushed(m, k, es, end, create) = IF Refused(m, k, create) THEN m ELSE [m EXCEPT ![k] = v]
  BY <1>1 DEF Pushed
<1> HIDE DEF v
<1>5. Same([m EXCEPT ![k] = v], [n EXCEPT ![k] = v])
  BY <1>3, UpdatedSame
<1> QED BY <1>4, <1>5

\* GenericPop deletes a list that it empties, ServeClient leaves it empty.
LEMMA PoppedSame ==
    ASSUME NEW m \in [Keys -> Value], NEW n \in [Keys -> Value], Same(m, n),
           NEW k \in Keys, NEW end
    PROVE  /\ Same(Popped(m, k, end), Popped(n, k, end))
           /\ n[k].elems # <<>> => Same(Popped(m, k, end), Served(n, k, end))
<1>1. CASE n[k].elems = <<>>
  <2>1. m[k].elems = <<>>
    BY <1>1 DEF Same
  <2> QED BY <1>1, <2>1 DEF Popped
<1>2. CASE n[k].elems # <<>>
  <2> DEFINE q == Without(n[k].elems, end)
             v == IF q = <<>> THEN Absent ELSE List(q)
             w == List(q)
  <2>1. m[k].elems = n[k].elems
    BY DEF Same
  <2>2. q \in Seq(Elements)
    BY <1>2, ElemsAreASeq, WithoutSet
  <2>3. /\ Popped(m, k, end) = [m EXCEPT ![k] = v]
        /\ Popped(n, k, end) = [n EXCEPT ![k] = v]
        /\ Served(n, k, end) = [n EXCEPT ![k] = w]
    BY <1>2, <2>1 DEF Popped, Served
  <2> HIDE DEF q
  <2>4. /\ v \in Value /\ w \in Value
        /\ v.elems = w.elems /\ v.kind # "string" /\ w.kind # "string"
    BY <2>2, Values
  <2> HIDE DEF v, w
  <2>5. /\ Same([m EXCEPT ![k] = v], [n EXCEPT ![k] = v])
        /\ Same([m EXCEPT ![k] = v], [n EXCEPT ![k] = w])
    BY <2>4, UpdatedSame
  <2> QED BY <2>3, <2>5
<1> QED BY <1>1, <1>2

LEMMA OnwardSame ==
    ASSUME NEW m \in [Keys -> Value], NEW n \in [Keys -> Value], Same(m, n),
           NEW to \in Keys \cup {None}, NEW e \in Elements
    PROVE  Same(Onward(m, to, e), Onward(n, to, e))
<1>1. CASE to = None
  BY <1>1 DEF Onward
<1>2. CASE to # None
  <2>1. to \in Keys /\ <<e>> \in Seq(Elements)
    BY <1>2
  <2>2. Refused(m, to, TRUE) <=> Refused(n, to, TRUE)
    BY <2>1 DEF Refused, Same
  <2>3. Same(Pushed(m, to, <<e>>, "left", TRUE), Pushed(n, to, <<e>>, "left", TRUE))
    BY <2>1, <2>2, PushedSame
  <2> QED BY <1>2, <2>3 DEF Onward
<1> QED BY <1>1, <1>2

LEMMA MovedSame ==
    ASSUME NEW m \in [Keys -> Value], NEW n \in [Keys -> Value], Same(m, n),
           NEW k \in Keys, NEW to \in Keys
    PROVE  Same(Moved(m, k, to), Moved(n, k, to))
<1>1. /\ m[k].elems = n[k].elems /\ m[to].elems = n[to].elems
      /\ m[to].kind = "string" <=> n[to].kind = "string"
  BY DEF Same
<1>2. CASE n[k].elems = <<>> \/ n[to].kind = "string"
  BY <1>1, <1>2 DEF Moved
<1>3. CASE ~(n[k].elems = <<>> \/ n[to].kind = "string")
  <2> DEFINE rest == Front(n[k].elems)
             moved == <<Last(n[k].elems)>> \o (IF to = k THEN rest ELSE n[to].elems)
             Put(d) == [x \in Keys |-> IF x = to THEN List(moved)
                                       ELSE IF x = k THEN List(rest) ELSE d[x]]
  <2>1. Moved(n, k, to) = Put(n)
    BY <1>3, MovedIs
  <2>2. Moved(m, k, to) = Put(m)
    BY <1>1, <1>3, MovedIs
  <2> HIDE DEF rest, moved
  <2>3. Same(Put(m), Put(n))
    BY DEF Same
  <2> QED BY <2>1, <2>2, <2>3
<1> QED BY <1>2, <1>3

ReplayInv == parted \/ Same(replay, store)

LEMMA PushKeepsReplayInv ==
    ASSUME TypeOK, ReplayInv, NEW c \in Clients, NEW cmd \in Commands, Push(c, cmd)
    PROVE  ReplayInv'
<1>1. /\ cmd.op = "push" /\ pushed + cmd.n <= MaxPush
      /\ ~Refused(store, cmd.key, cmd.create)
      /\ store' = Pushed(store, cmd.key, Numbered(cmd.n), cmd.end, cmd.create)
      /\ replay' = Pushed(replay, cmd.key, Numbered(cmd.n), cmd.end, cmd.create)
      /\ parted' = (parted \/ Refused(replay, cmd.key, cmd.create))
  BY DEF Push
<1>2. cmd.key \in Keys /\ cmd.n \in 1..MaxPush
  BY <1>1, CommandType
<1>3. Numbered(cmd.n) \in Seq(Elements)
  BY <1>1, <1>2, NumberedType
<1>4. store \in [Keys -> Value] /\ replay \in [Keys -> Value]
  BY DEF TypeOK
<1>5. CASE ~parted'
  <2>1. Same(replay, store) /\ ~Refused(replay, cmd.key, cmd.create)
    BY <1>1, <1>5 DEF ReplayInv
  <2>2. Same(replay', store')
    BY <1>1, <1>2, <1>3, <1>4, <2>1, PushedSame
  <2>3. Same(replay, store)'
    BY <2>2 DEF Same
  <2> QED BY <2>3 DEF ReplayInv
<1> QED BY <1>5 DEF ReplayInv

\* The other commands: each does the same to both.
LEMMA BothKeepReplayInv ==
    ASSUME TypeOK, ReplayInv, parted' = parted, Same(replay, store) => Same(replay', store')
    PROVE  ReplayInv'
<1>1. Same(replay', store') => Same(replay, store)'
  BY DEF Same
<1> QED BY <1>1 DEF ReplayInv

LEMMA PopNowKeepsReplayInv ==
    ASSUME TypeOK, ReplayInv, NEW k \in Keys, NEW end, parted' = parted,
           \/ UNCHANGED <<store, replay>>
           \/ store' = Popped(store, k, end) /\ replay' = Popped(replay, k, end)
    PROVE  ReplayInv'
<1>1. store \in [Keys -> Value] /\ replay \in [Keys -> Value]
  BY DEF TypeOK
<1>2. Same(replay, store) => Same(Popped(replay, k, end), Popped(store, k, end))
  BY <1>1, PoppedSame
<1> QED BY <1>2, BothKeepReplayInv

LEMMA ExecuteKeepsReplayInv ==
    ASSUME TypeOK, ReplayInv, NEW c \in Clients, NEW cmd \in Commands, Execute(c, cmd)
    PROVE  ReplayInv'
<1>1. store \in [Keys -> Value] /\ replay \in [Keys -> Value]
  BY DEF TypeOK
<1>2. CASE Push(c, cmd)
  BY <1>2, PushKeepsReplayInv
<1>3. CASE Pop(c, cmd)
  <2>1. cmd.key \in Keys
    BY <1>3, CommandType DEF Pop
  <2>2. /\ parted' = parted
        /\ \/ UNCHANGED <<store, replay>>
           \/ /\ store' = Popped(store, cmd.key, cmd.end)
              /\ replay' = Popped(replay, cmd.key, cmd.end)
    BY <1>3 DEF Pop, AssertFails
  <2> QED BY <2>1, <2>2, PopNowKeepsReplayInv
<1>4. CASE RPopLPush(c, cmd)
  <2>1. cmd.key \in Keys /\ cmd.to \in Keys
    BY <1>4, CommandType DEF RPopLPush
  <2>2. /\ parted' = parted
        /\ \/ UNCHANGED <<store, replay>>
           \/ /\ store' = Moved(store, cmd.key, cmd.to)
              /\ replay' = Moved(replay, cmd.key, cmd.to)
    BY <1>4 DEF RPopLPush, AssertFails
  <2>3. Same(replay, store) => Same(replay', store')
    BY <1>1, <2>1, <2>2, MovedSame
  <2> QED BY <2>2, <2>3, BothKeepReplayInv
<1>5. CASE Overwrite(c, cmd)
  <2>1. cmd.key \in Keys /\ parted' = parted
    BY <1>5, CommandType DEF Overwrite
  <2>2. PICK v \in {String, Absent} : /\ store' = [store EXCEPT ![cmd.key] = v]
                                      /\ replay' = [replay EXCEPT ![cmd.key] = v]
    BY <1>5 DEF Overwrite
  <2>3. v \in Value
    BY <2>2, Values
  <2>4. Same(replay, store) => Same(replay', store')
    BY <1>1, <2>1, <2>2, <2>3, UpdatedSame
  <2> QED BY <2>1, <2>4, BothKeepReplayInv
<1>6. CASE FlushAll(c, cmd)
  <2>1. parted' = parted /\ store' = replay'
    BY <1>6 DEF FlushAll
  <2> QED BY <2>1, BothKeepReplayInv DEF Same
<1>7. CASE BlockedPop(c, cmd)
  <2>1. CASE BlockClient(c, cmd)
    <3>1. UNCHANGED <<store, replay, parted>>
      BY <2>1 DEF BlockClient
    <3> QED BY <3>1, BothKeepReplayInv
  <2>2. CASE Present(cmd) # {} /\ PopNow(c, cmd, cmd.keys[Min(Present(cmd))])
    <3> DEFINE k == cmd.keys[Min(Present(cmd))]
    <3>1. k \in Keys
      BY <1>7, <2>2, PresentIs DEF BlockedPop
    <3>2. /\ parted' = parted
          /\ \/ UNCHANGED <<store, replay>>
             \/ store' = Popped(store, k, cmd.end) /\ replay' = Popped(replay, k, cmd.end)
      BY <2>2 DEF PopNow, AssertFails
    <3> HIDE DEF k
    <3> QED BY <3>1, <3>2, PopNowKeepsReplayInv
  <2> QED BY <1>7, <2>1, <2>2 DEF BlockedPop
<1> QED BY <1>2, <1>3, <1>4, <1>5, <1>6, <1>7 DEF Execute

LEMMA ServeNextKeepsReplayInv ==
    ASSUME TypeOK, ReplayInv, NEW k \in Keys, ServeNext(k)
    PROVE  ReplayInv'
<1> DEFINE e == Head(blocked[k])
           to == target[e.cli]
           q == store[k].elems
<1>1. store \in [Keys -> Value] /\ replay \in [Keys -> Value]
  BY DEF TypeOK
<1>2. q # <<>> /\ to \in Keys \cup {None} /\ parted' = parted
  BY ServeCases
<1>3. Last(q) \in Elements
  <2>1. q \in Seq(Elements)
    BY <1>1, ElemsAreASeq
  <2> QED BY <1>2, <2>1, EndsSet
<1>4. CASE /\ to # None => store[to].kind # "string"
           /\ store' = Served(Onward(store, to, Last(q)), k, e.end)
           /\ replay' = Popped(Onward(replay, to, Last(q)), k, e.end)
  <2> DEFINE s == Onward(store, to, Last(q))
             r == Onward(replay, to, Last(q))
  <2> HIDE DEF to, e
  <2>1. s[k].elems # <<>>
    <3>1. to # None => store[to].kind # "string"
      BY <1>4
    <3> DEFINE l == Last(q)
    <3>2. l \in Elements
      BY <1>3
    <3> HIDE DEF l
    <3>3. Onward(store, to, l)[k].elems # <<>>
      BY <1>1, <1>2, <3>1, <3>2, OnwardLeavesSome
    <3> QED BY <3>3 DEF l
  <2> HIDE DEF q
  <2>2. s \in [Keys -> Value]
    BY <1>1, <1>2, <1>3, OnwardIs
  <2>3. r \in [Keys -> Value]
    BY <1>1, <1>2, <1>3, OnwardIs
  <2>4. Same(replay, store) => Same(r, s)
    BY <1>1, <1>2, <1>3, OnwardSame
  <2>5. /\ store' = Served(s, k, e.end) /\ replay' = Popped(r, k, e.end)
    BY <1>4
  <2> HIDE DEF s, r
  <2>6. Same(replay, store) => Same(replay', store')
    BY <2>1, <2>2, <2>3, <2>4, <2>5, PoppedSame
  <2> QED BY <1>2, <2>6, BothKeepReplayInv
<1>5. CASE UNCHANGED <<store, replay>>
  BY <1>2, <1>5, BothKeepReplayInv
<1> QED BY <1>4, <1>5, ServeCases DEF ServesLive

\* What the AOF holds and the replicas get gives the master's lists, between any two
\* steps of a serve too, until an LPUSHX finds a list that a serve left empty
\* (ServeClient, and push with its create flag).
THEOREM ReplayIsTheMaster == Spec => []ReplayGivesTheLists
<1>1. Init => ReplayInv
  BY DEF Init, ReplayInv, Same
<1>2. TypeOK /\ ReplayInv /\ [Next]_vars => ReplayInv'
  <2> SUFFICES ASSUME TypeOK, ReplayInv, [Next]_vars PROVE ReplayInv'
    OBVIOUS
  <2>1. ASSUME NEW c \in Clients, NEW cmd \in Commands, Execute(c, cmd) PROVE ReplayInv'
    BY <2>1, ExecuteKeepsReplayInv
  <2>2. ASSUME NEW k \in Keys, ServeNext(k) PROVE ReplayInv'
    BY <2>2, ServeNextKeepsReplayInv
  <2>3. CASE UNCHANGED <<store, replay, parted>>
    BY <2>3, BothKeepReplayInv
  <2>4. ASSUME NEW c \in Clients, Disconnect(c) \/ Connect(c)
        PROVE  UNCHANGED <<store, replay, parted>>
    BY <2>4 DEF Disconnect, Connect
  <2>5. ASSUME NEW k \in Keys, ServeDone(k) PROVE UNCHANGED <<store, replay, parted>>
    BY <2>5 DEF ServeDone
  <2>6. ASSUME NEW expired \in SUBSET TimedEntries, LoopCheck(expired)
        PROVE  UNCHANGED <<store, replay, parted>>
    BY <2>6 DEF LoopCheck
  <2>7. UNCHANGED vars => UNCHANGED <<store, replay, parted>>
    BY DEF vars
  <2> QED BY <2>1, <2>2, <2>3, <2>4, <2>5, <2>6, <2>7 DEF Next
<1>3. ReplayInv => ReplayGivesTheLists
  BY DEF ReplayInv, ReplayGivesTheLists, Same
<1> QED BY <1>1, <1>2, <1>3, TypeCorrect, PTL DEF Spec

-----------------------------------------------------------------------------
(***************************************************************************)
(* Every element is in one place.                                          *)
(***************************************************************************)

\* No element is twice in a list, or in two lists.
Apart(m) ==
    \A k \in Keys : /\ Once(m[k].elems)
                    /\ \A j \in Keys \ {k} : ToSet(m[k].elems) \cap ToSet(m[j].elems) = {}

Holding(m) == UNION {ToSet(m[k].elems) : k \in Keys}

Put(m, k, v) == [m EXCEPT ![k] = v]

\* A change of one list which brings no element that another one has.
LEMMA UpdatedApart ==
    ASSUME NEW m \in [Keys -> Value], Apart(m), NEW k \in Keys, NEW v \in Value, Once(v.elems),
           \A x \in ToSet(v.elems) : x \in ToSet(m[k].elems) \/ x \notin Holding(m)
    PROVE  /\ Put(m, k, v) \in [Keys -> Value] /\ Apart(Put(m, k, v))
           /\ Holding(Put(m, k, v)) = (Holding(m) \ ToSet(m[k].elems)) \cup ToSet(v.elems)
<1> DEFINE new == Put(m, k, v)
<1>1. new \in [Keys -> Value]
  BY DEF Put
<1>2. new[k] = v /\ \A j \in Keys \ {k} : new[j] = m[j]
  BY DEF Put
<1> HIDE DEF new
<1>3. \A j \in Keys \ {k} : ToSet(v.elems) \cap ToSet(m[j].elems) = {}
  <2> SUFFICES ASSUME NEW j \in Keys \ {k}, NEW x \in ToSet(v.elems), x \in ToSet(m[j].elems)
               PROVE  FALSE
    OBVIOUS
  <2>1. x \in Holding(m)
    BY DEF Holding
  <2>2. x \in ToSet(m[k].elems)
    BY <2>1
  <2> QED BY <2>2 DEF Apart
<1>4. Apart(new)
  BY <1>2, <1>3 DEF Apart
<1>5. ASSUME NEW x
      PROVE  x \in Holding(new) <=>
                 x \in (Holding(m) \ ToSet(m[k].elems)) \cup ToSet(v.elems)
  <2>1. x \in Holding(new) <=> x \in ToSet(v.elems) \/ \E j \in Keys \ {k} : x \in ToSet(m[j].elems)
    BY <1>2 DEF Holding
  <2>2. x \in Holding(m) \ ToSet(m[k].elems) <=> \E j \in Keys \ {k} : x \in ToSet(m[j].elems)
    BY DEF Holding, Apart
  <2> QED BY <2>1, <2>2
<1>6. Holding(new) = (Holding(m) \ ToSet(m[k].elems)) \cup ToSet(v.elems)
  BY <1>5
<1> QED BY <1>1, <1>4, <1>6 DEF new

\* A pop takes the element at the end, whether or not it leaves an empty list.
LEMMA PoppedApart ==
    ASSUME NEW m \in [Keys -> Value], Apart(m), NEW k \in Keys, m[k].elems # <<>>, NEW end
    PROVE  LET e == ElementAt(m[k].elems, end)
           IN  /\ e \in Holding(m)
               /\ Apart(Popped(m, k, end)) /\ Holding(Popped(m, k, end)) = Holding(m) \ {e}
               /\ Apart(Served(m, k, end)) /\ Holding(Served(m, k, end)) = Holding(m) \ {e}
<1> DEFINE q == m[k].elems
           e == ElementAt(q, end)
           rest == Without(q, end)
           v == IF rest = <<>> THEN Absent ELSE List(rest)
           w == List(rest)
<1>1. q \in Seq(Elements) /\ Once(q)
  BY ElemsAreASeq DEF Apart
<1>2. /\ rest \in Seq(Elements) /\ ToSet(q) = {e} \cup ToSet(rest)
      /\ Once(rest) /\ e \notin ToSet(rest)
  <2> HIDE DEF q
  <2> QED BY <1>1, WithoutSet DEF q
<1>3. Popped(m, k, end) = Put(m, k, v) /\ Served(m, k, end) = Put(m, k, w)
  BY DEF Popped, Served, Put
<1>4. ToSet(q) \subseteq Holding(m)
  BY DEF Holding
<1> HIDE DEF q, e, rest
<1>5. v \in Value /\ w \in Value /\ v.elems = rest /\ w.elems = rest
  BY <1>2, Values
<1> HIDE DEF v, w
<1>6. \A x \in ToSet(rest) : x \in ToSet(m[k].elems)
  BY <1>2 DEF q
<1>7. /\ Apart(Put(m, k, v))
      /\ Holding(Put(m, k, v)) = (Holding(m) \ ToSet(m[k].elems)) \cup ToSet(rest)
  BY <1>2, <1>5, <1>6, UpdatedApart
<1>8. /\ Apart(Put(m, k, w))
      /\ Holding(Put(m, k, w)) = (Holding(m) \ ToSet(m[k].elems)) \cup ToSet(rest)
  BY <1>2, <1>5, <1>6, UpdatedApart
<1>9. (Holding(m) \ ToSet(m[k].elems)) \cup ToSet(rest) = Holding(m) \ {e}
  BY <1>2, <1>4 DEF q
<1> QED BY <1>2, <1>3, <1>4, <1>7, <1>8, <1>9 DEF e, q

\* RPOPLPUSH loses nothing and doubles nothing, also when a list is rotated.
LEMMA MovedApart ==
    ASSUME NEW m \in [Keys -> Value], Apart(m), NEW k \in Keys, NEW to \in Keys
    PROVE  Apart(Moved(m, k, to)) /\ Holding(Moved(m, k, to)) = Holding(m)
<1> SUFFICES ASSUME m[k].elems # <<>>, m[to].kind # "string"
             PROVE  Apart(Moved(m, k, to)) /\ Holding(Moved(m, k, to)) = Holding(m)
  BY DEF Moved
<1> DEFINE q == m[k].elems
           rest == Front(q)
           e == Last(q)
           popped == Put(m, k, List(rest))
           moved == <<e>> \o popped[to].elems
<1>1. q \in Seq(Elements) /\ Once(q)
  BY ElemsAreASeq DEF Apart
<1>2. /\ rest \in Seq(Elements) /\ ToSet(q) = {e} \cup ToSet(rest) /\ e \in Elements
      /\ Once(rest) /\ e \notin ToSet(rest)
  <2> HIDE DEF q
  <2> QED BY <1>1, EndsSet, OnceAtTheEnds DEF q
<1>3. Moved(m, k, to) = Put(popped, to, List(moved))
  BY DEF Moved, Put
<1>4. ToSet(q) \subseteq Holding(m)
  BY DEF Holding
<1> HIDE DEF rest, e
<1>5. List(rest) \in Value /\ List(rest).elems = rest
  BY <1>2, Values
<1>6. /\ popped \in [Keys -> Value] /\ Apart(popped)
      /\ Holding(popped) = (Holding(m) \ ToSet(m[k].elems)) \cup ToSet(rest)
  <2>1. \A x \in ToSet(rest) : x \in ToSet(m[k].elems)
    BY <1>2 DEF q
  <2> QED BY <1>2, <1>5, <2>1, UpdatedApart
<1>7. Holding(popped) = Holding(m) \ {e} /\ e \in Holding(m)
  BY <1>2, <1>4, <1>6 DEF q
<1> HIDE DEF q, popped
<1>8. popped[to].elems \in Seq(Elements) /\ Once(popped[to].elems)
  BY <1>6, ElemsAreASeq DEF Apart
<1>9. <<e>> \in Seq(Elements) /\ ToSet(<<e>>) = {e} /\ Once(<<e>>)
  BY <1>2 DEF ToSet, Once
<1>10. ToSet(popped[to].elems) \subseteq Holding(popped)
  BY DEF Holding
<1>11. moved \in Seq(Elements) /\ ToSet(moved) = {e} \cup ToSet(popped[to].elems)
  <2> DEFINE p == <<e>>
             r == popped[to].elems
  <2>1. p \in Seq(Elements) /\ r \in Seq(Elements)
    BY <1>8, <1>9
  <2> HIDE DEF p, r
  <2>2. p \o r \in Seq(Elements) /\ ToSet(p \o r) = ToSet(p) \cup ToSet(r)
    BY <2>1, ConcatSet
  <2> QED BY <1>9, <2>2 DEF p, r
<1>12. Once(moved)
  <2>1. ToSet(<<e>>) \cap ToSet(popped[to].elems) = {}
    BY <1>7, <1>9, <1>10
  <2> QED BY <1>8, <1>9, <2>1, ConcatOnce
<1> HIDE DEF moved
<1>13. List(moved) \in Value /\ List(moved).elems = moved
  BY <1>11, Values
<1>14. \A x \in ToSet(moved) : x \in ToSet(popped[to].elems) \/ x \notin Holding(popped)
  BY <1>7, <1>11
<1>15. /\ Apart(Put(popped, to, List(moved)))
       /\ Holding(Put(popped, to, List(moved)))
            = (Holding(popped) \ ToSet(popped[to].elems)) \cup ToSet(moved)
  BY <1>6, <1>12, <1>13, <1>14, UpdatedApart
<1>16. (Holding(popped) \ ToSet(popped[to].elems)) \cup ToSet(moved) = Holding(m)
  BY <1>7, <1>10, <1>11
<1> QED BY <1>3, <1>15, <1>16

\* To serve an element that goes on to a target is to move it there.
LEMMA ServingMoves ==
    ASSUME NEW m \in [Keys -> Value], NEW k \in Keys, NEW to \in Keys,
           m[k].elems # <<>>, m[to].kind # "string"
    PROVE  Served(Onward(m, to, Last(m[k].elems)), k, "right") = Moved(m, k, to)
<1> DEFINE q == m[k].elems
           e == Last(q)
           rest == Front(q)
           moved == <<e>> \o (IF to = k THEN rest ELSE m[to].elems)
           on == Onward(m, to, e)
           served == Served(on, k, "right")
<1>1. q \in Seq(Elements)
  BY ElemsAreASeq
<1>2. e \in Elements /\ rest \in Seq(Elements)
  BY <1>1, EndsSet
<1>3. to \in Keys \cup {None} /\ to # None
  BY NoneAssumption
<1>4. Moved(m, k, to) = [x \in Keys |-> IF x = to THEN List(moved)
                                        ELSE IF x = k THEN List(rest) ELSE m[x]]
  BY MovedIs
<1> HIDE DEF e, moved
<1>5. /\ on \in [Keys -> Value] /\ on[to] = List(<<e>> \o m[to].elems)
      /\ \A x \in Keys : x # to => on[x] = m[x]
  BY <1>2, <1>3, OnwardIs
<1> DEFINE end(x) == IF x = to THEN List(moved) ELSE IF x = k THEN List(rest) ELSE m[x]
<1>6. on[k].elems = (IF k = to THEN <<e>> \o q ELSE q) /\ on[k].elems # <<>>
  BY <1>2, <1>3, OnwardLeavesSome
<1> HIDE DEF on
<1>7. /\ served \in [Keys -> Value] /\ served[k] = List(Without(on[k].elems, "right"))
      /\ \A x \in Keys : x # k => served[x] = on[x]
  <2>1. on \in [Keys -> Value] /\ on[k].elems # <<>>
    BY <1>5, <1>6
  <2> QED BY <2>1, ServedIs
<1>8. Without(on[k].elems, "right") = Front(on[k].elems)
  BY DEF Without
<1>9. CASE k # to
  <2>1. moved = <<e>> \o m[to].elems
    BY <1>9 DEF moved
  <2>2. served[k] = List(rest)
    BY <1>6, <1>7, <1>8, <1>9
  <2>3. served[to] = List(moved)
    BY <1>5, <1>7, <1>9, <2>1
  <2>4. \A x \in Keys : x # k /\ x # to => served[x] = m[x]
    BY <1>5, <1>7
  <2>5. \A x \in Keys : served[x] = end(x)
    BY <1>9, <2>2, <2>3, <2>4
  <2> HIDE DEF served, end
  <2>6. served = [x \in Keys |-> end(x)]
    BY <1>7, <2>5
  <2> QED BY <1>4, <2>6 DEF end, served, on, e
<1>10. CASE k = to
  <2>1. moved = <<e>> \o rest
    BY <1>10 DEF moved
  <2>2. Front(<<e>> \o q) = <<e>> \o rest
    <3> HIDE DEF q
    <3> QED BY <1>1, <1>2, FrontOfCons DEF q
  <2>3. served[to] = List(moved)
    BY <1>6, <1>7, <1>8, <1>10, <2>1, <2>2
  <2>4. \A x \in Keys : x # to => served[x] = m[x]
    BY <1>5, <1>7, <1>10
  <2>5. \A x \in Keys : served[x] = end(x)
    BY <1>10, <2>3, <2>4
  <2> HIDE DEF served, end
  <2>6. served = [x \in Keys |-> end(x)]
    BY <1>7, <2>5
  <2> QED BY <1>4, <2>6 DEF end, served, on, e
<1> QED BY <1>9, <1>10

\* While no outdated entry has been served: nothing is twice, and the lists hold
\* what was pushed and not taken.
KeptInv ==
    ~outdated => /\ Apart(store)
                 /\ Holding(store) = (1..pushed) \ taken
                 /\ taken \subseteq 1..pushed

\* A step that takes some elements from the lists, or none.
LEMMA TakingKeepsKeptInv ==
    ASSUME KeptInv, NEW gone, gone \subseteq Holding(store),
           Apart(store) => Apart(store') /\ Holding(store') = Holding(store) \ gone,
           taken' = taken \cup gone, pushed' = pushed, outdated => outdated'
    PROVE  KeptInv'
<1> SUFFICES ASSUME ~outdated'
             PROVE  /\ Apart(store)' /\ Holding(store)' = (1..pushed') \ taken'
                    /\ taken' \subseteq 1..pushed'
  BY DEF KeptInv
<1>1. Apart(store) /\ Holding(store) = (1..pushed) \ taken /\ taken \subseteq 1..pushed
  BY DEF KeptInv
<1>2. Apart(store') /\ Holding(store') = Holding(store) \ gone
  BY <1>1
<1>3. (Apart(store') <=> Apart(store)') /\ Holding(store') = Holding(store)'
  BY DEF Apart, Holding
<1> QED BY <1>1, <1>2, <1>3

LEMMA MovingKeepsKeptInv ==
    ASSUME KeptInv, Apart(store) => Apart(store') /\ Holding(store') = Holding(store),
           UNCHANGED <<taken, pushed>>, outdated => outdated'
    PROVE  KeptInv'
<1>1. (Apart(store') <=> Apart(store)') /\ Holding(store') = Holding(store)'
  BY DEF Apart, Holding
<1> QED BY <1>1 DEF KeptInv

LEMMA SameKeepsKeptInv ==
    ASSUME KeptInv, UNCHANGED <<store, taken, pushed>>, outdated => outdated'
    PROVE  KeptInv'
<1>1. (Apart(store)' <=> Apart(store)) /\ Holding(store)' = Holding(store)
  BY DEF Apart, Holding
<1> QED BY <1>1 DEF KeptInv

\* The list that a pop takes from is not empty: GenericPop's assertion.
LEMMA NotEmptyIs ==
    ASSUME TypeOK, NEW k \in Keys, store[k].kind = "list", ~EmptyList(k)
    PROVE  store[k].elems # <<>>
<1>1. store[k] \in Value
  BY DEF TypeOK
<1> QED BY <1>1 DEF EmptyList, List, Value

LEMMA PopNowKeepsKeptInv ==
    ASSUME TypeOK, KeptInv, NEW k \in Keys, NEW end, UNCHANGED <<pushed, outdated>>,
           \/ UNCHANGED <<store, taken>>
           \/ /\ store[k].kind = "list" /\ ~EmptyList(k)
              /\ store' = Popped(store, k, end)
              /\ taken' = taken \cup {ElementAt(store[k].elems, end)}
    PROVE  KeptInv'
<1>1. CASE UNCHANGED <<store, taken>>
  BY <1>1, SameKeepsKeptInv
<1>2. CASE /\ store[k].kind = "list" /\ ~EmptyList(k)
           /\ store' = Popped(store, k, end)
           /\ taken' = taken \cup {ElementAt(store[k].elems, end)}
  <2> DEFINE e == ElementAt(store[k].elems, end)
  <2>1. store \in [Keys -> Value] /\ store[k].elems # <<>>
    BY <1>2, NotEmptyIs DEF TypeOK
  <2>2. e \in Holding(store)
    <3>1. store[k].elems \in Seq(Elements)
      BY <2>1, ElemsAreASeq
    <3>2. e \in ToSet(store[k].elems)
      <4> DEFINE q == store[k].elems
      <4>1. q \in Seq(Elements) /\ q # <<>>
        BY <2>1, <3>1
      <4> HIDE DEF q
      <4>2. ToSet(q) = {ElementAt(q, end)} \cup ToSet(Without(q, end))
        BY <4>1, WithoutSet
      <4> QED BY <4>2 DEF q
    <3> QED BY <3>2 DEF Holding
  <2>3. Apart(store) => Apart(store') /\ Holding(store') = Holding(store) \ {e}
    BY <1>2, <2>1, PoppedApart
  <2> HIDE DEF e
  <2>4. taken' = taken \cup {e}
    BY <1>2 DEF e
  <2> QED BY <2>2, <2>3, <2>4, TakingKeepsKeptInv
<1> QED BY <1>1, <1>2

LEMMA PushKeepsKeptInv ==
    ASSUME TypeOK, KeptInv, NEW c \in Clients, NEW cmd \in Commands, Push(c, cmd)
    PROVE  KeptInv'
<1> DEFINE k == cmd.key
           es == Numbered(cmd.n)
           q == Joined(store[k].elems, es, cmd.end)
<1>1. /\ cmd.op = "push" /\ pushed + cmd.n <= MaxPush
      /\ ~Refused(store, cmd.key, cmd.create)
      /\ store' = Pushed(store, cmd.key, es, cmd.end, cmd.create)
      /\ pushed' = pushed + cmd.n /\ UNCHANGED <<taken, outdated>>
  BY DEF Push
<1>2. k \in Keys /\ cmd.n \in 1..MaxPush /\ pushed \in Nat /\ cmd.n \in Nat
  BY <1>1, CommandType, BoundsAssumption DEF TypeOK
<1>3. es \in Seq(Elements) /\ Once(es) /\ ToSet(es) = (pushed + 1)..(pushed + cmd.n)
  BY <1>1, <1>2, NumberedType
<1>4. store \in [Keys -> Value]
  BY DEF TypeOK
<1>5. store[k].elems \in Seq(Elements)
  BY <1>2, <1>4, ElemsAreASeq
<1>6. store' = Put(store, k, List(q))
  BY <1>1 DEF Pushed, Put
<1> HIDE DEF es, k
<1>7. SUFFICES ASSUME ~outdated
               PROVE  /\ Apart(store') /\ Holding(store') = (1..pushed') \ taken
                      /\ taken \subseteq 1..pushed'
  <2>1. (Apart(store') <=> Apart(store)') /\ Holding(store') = Holding(store)'
    BY DEF Apart, Holding
  <2> QED BY <1>1, <2>1 DEF KeptInv
<1>8. Apart(store) /\ Holding(store) = (1..pushed) \ taken /\ taken \subseteq 1..pushed
  BY <1>7 DEF KeptInv
<1>9. ToSet(store[k].elems) \subseteq Holding(store)
  BY <1>2 DEF Holding
<1>10. ToSet(es) \cap Holding(store) = {}
  BY <1>2, <1>3, <1>8
<1>11. /\ q \in Seq(Elements) /\ ToSet(q) = ToSet(store[k].elems) \cup ToSet(es) /\ Once(q)
  <2> DEFINE p == store[k].elems
  <2>1. p \in Seq(Elements) /\ Once(p) /\ ToSet(p) \cap ToSet(es) = {}
    BY <1>2, <1>5, <1>8, <1>9, <1>10 DEF Apart
  <2> HIDE DEF p
  <2>2. /\ Joined(p, es, cmd.end) \in Seq(Elements)
        /\ ToSet(Joined(p, es, cmd.end)) = ToSet(p) \cup ToSet(es)
        /\ Once(p) /\ Once(es) /\ ToSet(p) \cap ToSet(es) = {} => Once(Joined(p, es, cmd.end))
    <3>1. es \in Seq(Elements)
      BY <1>3
    <3> QED BY <2>1, <3>1, JoinedSet
  <2> QED BY <1>3, <2>1, <2>2 DEF p
<1> HIDE DEF q
<1>12. List(q) \in Value /\ List(q).elems = q
  BY <1>11, Values
<1>13. \A x \in ToSet(q) : x \in ToSet(store[k].elems) \/ x \notin Holding(store)
  BY <1>10, <1>11
<1>14. /\ Apart(Put(store, k, List(q)))
       /\ Holding(Put(store, k, List(q))) = (Holding(store) \ ToSet(store[k].elems)) \cup ToSet(q)
  BY <1>2, <1>4, <1>8, <1>11, <1>12, <1>13, UpdatedApart
<1>15. Holding(store') = Holding(store) \cup ToSet(es)
  BY <1>6, <1>9, <1>11, <1>14
<1>16. 1..pushed' = (1..pushed) \cup ToSet(es)
  BY <1>1, <1>2, <1>3
<1>17. taken \cap ToSet(es) = {}
  BY <1>2, <1>3, <1>8
<1> QED BY <1>6, <1>8, <1>14, <1>15, <1>16, <1>17

LEMMA OverwriteKeepsKeptInv ==
    ASSUME TypeOK, KeptInv, NEW c \in Clients, NEW cmd \in Commands, Overwrite(c, cmd)
    PROVE  KeptInv'
<1> DEFINE k == cmd.key
           gone == ToSet(store[k].elems)
<1>1. /\ k \in Keys /\ taken' = taken \cup gone /\ UNCHANGED <<pushed, outdated>>
      /\ store \in [Keys -> Value]
  BY CommandType DEF Overwrite, TypeOK
<1>2. PICK v \in {String, Absent} : store' = Put(store, k, v)
  BY DEF Overwrite, Put
<1> HIDE DEF k
<1>3. v \in Value /\ v.elems = <<>>
  BY <1>2, Values
<1>4. Once(v.elems) /\ ToSet(v.elems) = {}
  BY <1>3 DEF Once, ToSet
<1>5. Apart(store) => /\ Apart(Put(store, k, v))
                      /\ Holding(Put(store, k, v))
                           = (Holding(store) \ ToSet(store[k].elems)) \cup ToSet(v.elems)
  BY <1>1, <1>3, <1>4, UpdatedApart
<1>6. Apart(store) => Apart(store') /\ Holding(store') = Holding(store) \ gone
  BY <1>2, <1>4, <1>5
<1>7. gone \subseteq Holding(store)
  BY <1>1 DEF Holding
<1> QED BY <1>1, <1>6, <1>7, TakingKeepsKeptInv

LEMMA FlushAllKeepsKeptInv ==
    ASSUME TypeOK, KeptInv, NEW c \in Clients, NEW cmd \in Commands, FlushAll(c, cmd)
    PROVE  KeptInv'
<1>1. /\ store' = [k \in Keys |-> Absent] /\ taken' = taken \cup Holding(store)
      /\ UNCHANGED <<pushed, outdated>>
  BY DEF FlushAll, Holding
<1>2. \A k \in Keys : store'[k].elems = <<>>
  BY <1>1, Values
<1>3. \A k \in Keys : Once(store'[k].elems) /\ ToSet(store'[k].elems) = {}
  BY <1>2 DEF Once, ToSet
<1>4. Apart(store') /\ Holding(store') = Holding(store) \ Holding(store)
  BY <1>3 DEF Apart, Holding
<1> QED BY <1>1, <1>4, TakingKeepsKeptInv

LEMMA ExecuteKeepsKeptInv ==
    ASSUME TypeOK, KeptInv, NEW c \in Clients, NEW cmd \in Commands, Execute(c, cmd)
    PROVE  KeptInv'
<1>1. CASE Push(c, cmd)
  BY <1>1, PushKeepsKeptInv
<1>2. CASE Pop(c, cmd)
  <2>1. /\ cmd.key \in Keys /\ UNCHANGED <<pushed, outdated>>
        /\ \/ UNCHANGED <<store, taken>>
           \/ /\ store[cmd.key].kind = "list" /\ ~EmptyList(cmd.key)
              /\ store' = Popped(store, cmd.key, cmd.end)
              /\ taken' = taken \cup {ElementAt(store[cmd.key].elems, cmd.end)}
    BY <1>2, CommandType DEF Pop, AssertFails
  <2> QED BY <2>1, PopNowKeepsKeptInv
<1>3. CASE RPopLPush(c, cmd)
  <2>1. /\ cmd.key \in Keys /\ cmd.to \in Keys /\ store \in [Keys -> Value]
        /\ UNCHANGED <<pushed, outdated, taken>>
        /\ \/ UNCHANGED store
           \/ store' = Moved(store, cmd.key, cmd.to)
    BY <1>3, CommandType DEF RPopLPush, AssertFails, TypeOK
  <2>2. CASE UNCHANGED store
    BY <2>1, <2>2, SameKeepsKeptInv
  <2>3. CASE store' = Moved(store, cmd.key, cmd.to)
    <3> DEFINE k == cmd.key
               to == cmd.to
    <3> HIDE DEF k, to
    <3>1. k \in Keys /\ to \in Keys /\ store' = Moved(store, k, to)
      BY <2>1, <2>3 DEF k, to
    <3>2. Apart(store) => Apart(store') /\ Holding(store') = Holding(store)
      BY <2>1, <3>1, MovedApart
    <3> QED BY <2>1, <3>2, MovingKeepsKeptInv
  <2> QED BY <2>1, <2>2, <2>3
<1>4. CASE Overwrite(c, cmd)
  BY <1>4, OverwriteKeepsKeptInv
<1>5. CASE FlushAll(c, cmd)
  BY <1>5, FlushAllKeepsKeptInv
<1>6. CASE BlockedPop(c, cmd)
  <2>1. CASE BlockClient(c, cmd)
    BY <2>1, SameKeepsKeptInv DEF BlockClient
  <2>2. CASE Present(cmd) # {} /\ PopNow(c, cmd, cmd.keys[Min(Present(cmd))])
    <3> DEFINE k == cmd.keys[Min(Present(cmd))]
    <3>1. k \in Keys
      BY <1>6, <2>2, PresentIs DEF BlockedPop
    <3>2. /\ UNCHANGED <<pushed, outdated>>
          /\ \/ UNCHANGED <<store, taken>>
             \/ /\ store[k].kind = "list" /\ ~EmptyList(k)
                /\ store' = Popped(store, k, cmd.end)
                /\ taken' = taken \cup {ElementAt(store[k].elems, cmd.end)}
      BY <2>2 DEF PopNow, AssertFails
    <3> HIDE DEF k
    <3> QED BY <3>1, <3>2, PopNowKeepsKeptInv
  <2> QED BY <1>6, <2>1, <2>2 DEF BlockedPop
<1> QED BY <1>1, <1>2, <1>3, <1>4, <1>5, <1>6 DEF Execute

\* An element served goes to its client, or to the head of the target: the entry of a
\* wait that has a target takes from the right, as what is pushed to it does.
LEMMA ServeNextKeepsKeptInv ==
    ASSUME TypeOK, QueueInv, KeptInv, NEW k \in Keys, ServeNext(k)
    PROVE  KeptInv'
<1> DEFINE e == Head(blocked[k])
           to == target[e.cli]
           q == store[k].elems
<1>1. /\ store \in [Keys -> Value] /\ q # <<>> /\ blocked[k] # <<>>
      /\ to \in Keys \cup {None} /\ UNCHANGED pushed /\ e \in Entry
      /\ e \in ToSet(blocked[k])
  BY ServeCases DEF TypeOK
<1>2. outdated => outdated'
  BY ServeCases DEF ServesLive
<1>3. CASE UNCHANGED <<store, taken>>
  BY <1>1, <1>2, <1>3, SameKeepsKeptInv
<1>4. CASE /\ e.cli \in conn /\ outdated' = (outdated \/ Outdated(k))
           /\ to # None => store[to].kind # "string"
           /\ store' = Served(Onward(store, to, Last(q)), k, e.end)
           /\ taken' = IF to = None THEN taken \cup {ElementAt(q, e.end)} ELSE taken
  <2>1. SUFFICES ASSUME ~outdated' PROVE KeptInv'
    BY DEF KeptInv
  <2>2. CASE to = None
    <3> DEFINE x == ElementAt(q, e.end)
    <3>1. store' = Served(store, k, e.end) /\ taken' = taken \cup {x}
      BY <1>4, <2>2 DEF Onward
    <3>2. Apart(store) => /\ x \in Holding(store)
                          /\ Apart(store') /\ Holding(store') = Holding(store) \ {x}
      BY <1>1, <3>1, PoppedApart
    <3> HIDE DEF x
    <3>3. Apart(store)
      BY <1>2, <2>1 DEF KeptInv
    <3> QED BY <1>1, <1>2, <3>1, <3>2, <3>3, TakingKeepsKeptInv
  <2>3. CASE to # None
    <3>1. e.end = "right"
      <4>1. blocked[k] \in Seq(Entry)
        BY DEF TypeOK
      <4>2. ToSet(blocked[k]) = {e} \cup ToSet(Tail(blocked[k]))
        BY <1>1, <4>1, EndsSet
      <4>3. k \in waiting[e.cli] /\ \A x \in ToSet(Tail(blocked[k])) : x.cli # e.cli
        BY <1>4, <2>1 DEF Outdated
      <4>4. e.cli \notin forgotten
        BY <1>1 DEF QueueInv, WaitInv, ForgottenAreInNoQueue, HasEntry
      <4>5. PICK x \in ToSet(blocked[k]) : x.cli = e.cli /\ x.end = "right"
        BY <1>4, <2>3, <4>3, <4>4 DEF QueueInv, WaitInv, TargetIsRight
      <4>6. x = e
        BY <4>2, <4>3, <4>5
      <4> QED BY <4>5, <4>6
    <3>2. store' = Served(Onward(store, to, Last(q)), k, "right") /\ taken' = taken
      BY <1>4, <2>3, <3>1
    <3>3. to \in Keys /\ store[to].kind # "string"
      BY <1>1, <1>4, <2>3
    <3> HIDE DEF to
    <3>4. store' = Moved(store, k, to)
      BY <1>1, <3>2, <3>3, ServingMoves
    <3>5. Apart(store) => Apart(store') /\ Holding(store') = Holding(store)
      BY <1>1, <3>3, <3>4, MovedApart
    <3> QED BY <1>1, <1>2, <3>2, <3>5, MovingKeepsKeptInv
  <2> QED BY <2>2, <2>3
<1> QED BY <1>3, <1>4, ServeCases DEF ServesLive

\* The lists and the clients hold every element pushed once (GenericPop, RPOPLPUSH,
\* ServeClient, SET, DEL and FLUSHALL), whatever entries and targets there are, while
\* no outdated entry has been served.
THEOREM ElementsStayInOnePlace == Spec => []ElementsAreKept
<1>1. Init => KeptInv
  <2> SUFFICES ASSUME Init PROVE KeptInv
    OBVIOUS
  <2>1. pushed = 0 /\ taken = {} /\ \A k \in Keys : store[k].elems = <<>>
    BY Values DEF Init
  <2>2. \A k \in Keys : Once(store[k].elems) /\ ToSet(store[k].elems) = {}
    BY <2>1 DEF Once, ToSet
  <2>3. Apart(store) /\ Holding(store) = {}
    BY <2>2 DEF Apart, Holding
  <2> QED BY <2>1, <2>3 DEF KeptInv
<1>2. TypeOK /\ QueueInv /\ KeptInv /\ [Next]_vars => KeptInv'
  <2> SUFFICES ASSUME TypeOK, QueueInv, KeptInv, [Next]_vars PROVE KeptInv'
    OBVIOUS
  <2>1. ASSUME NEW c \in Clients, NEW cmd \in Commands, Execute(c, cmd) PROVE KeptInv'
    BY <2>1, ExecuteKeepsKeptInv
  <2>2. ASSUME NEW k \in Keys, ServeNext(k) PROVE KeptInv'
    BY <2>2, ServeNextKeepsKeptInv
  <2>3. CASE UNCHANGED <<store, taken, pushed, outdated>>
    BY <2>3, SameKeepsKeptInv
  <2>4. ASSUME NEW c \in Clients, Disconnect(c) \/ Connect(c)
        PROVE  UNCHANGED <<store, taken, pushed, outdated>>
    BY <2>4 DEF Disconnect, Connect
  <2>5. ASSUME NEW k \in Keys, ServeDone(k) PROVE UNCHANGED <<store, taken, pushed, outdated>>
    BY <2>5 DEF ServeDone
  <2>6. ASSUME NEW expired \in SUBSET TimedEntries, LoopCheck(expired)
        PROVE  UNCHANGED <<store, taken, pushed, outdated>>
    BY <2>6 DEF LoopCheck
  <2>7. UNCHANGED vars => UNCHANGED <<store, taken, pushed, outdated>>
    BY DEF vars
  <2> QED BY <2>1, <2>2, <2>3, <2>4, <2>5, <2>6, <2>7 DEF Next
<1>3. TypeOK /\ KeptInv => ElementsAreKept
  <2> SUFFICES ASSUME TypeOK, KeptInv, ~outdated, NEW e \in 1..pushed
               PROVE  Cardinality(Places(e)) = IF e \in taken THEN 0 ELSE 1
    BY DEF ElementsAreKept
  <2>1. Apart(store) /\ Holding(store) = (1..pushed) \ taken
    BY DEF KeptInv
  <2>2. \A k \in Keys : store[k].elems \in Seq(Elements)
    BY ElemsAreASeq DEF TypeOK
  <2>3. \A at \in Places(e) : /\ at[1] \in Keys /\ at[2] \in 1..Len(store[at[1]].elems)
                              /\ store[at[1]].elems[at[2]] = e /\ at = <<at[1], at[2]>>
    BY <2>2 DEF Places
  <2>4. \A at \in Places(e) : e \in ToSet(store[at[1]].elems)
    BY <2>2, <2>3, SetOfSeq
  <2>5. CASE e \in taken
    <3>1. Places(e) = {}
      BY <2>1, <2>4, <2>3, <2>5 DEF Holding
    <3> QED BY <2>5, <3>1, FS_EmptySet
  <2>6. CASE e \notin taken
    <3>1. PICK k \in Keys : e \in ToSet(store[k].elems)
      BY <2>1, <2>6 DEF Holding
    <3>2. PICK i \in 1..Len(store[k].elems) : e = store[k].elems[i]
      BY <2>2, <3>1, SetOfSeq
    <3>3. <<k, i>> \in Places(e)
      <4>1. i \in DOMAIN store[k].elems
        BY <2>2, <3>2
      <4> QED BY <3>2, <4>1 DEF Places
    <3>4. ASSUME NEW at \in Places(e) PROVE at = <<k, i>>
      <4>1. at[1] = k
        BY <2>1, <2>3, <2>4, <3>1 DEF Apart
      <4>2. at[2] = i
        BY <2>1, <2>3, <3>2, <4>1 DEF Apart, Once
      <4> QED BY <2>3, <4>1, <4>2
    <3>5. Places(e) = {<<k, i>>}
      BY <3>3, <3>4
    <3> QED BY <2>6, <3>5, FS_Singleton
  <2> QED BY <2>5, <2>6
<1>4. Init => QueueInv
  BY InitQueueInv
<1> QED BY <1>1, <1>2, <1>3, <1>4, QueueInvStep, TypeCorrect, PTL DEF Spec

\* UnblockClient's assert(!clients.empty()) never fails in a serve: no queue of a key
\* that the client served waits for is empty.
THEOREM ServesNeverFail ==
    Spec => [][\A k \in Keys : ServeNext(k) => ~crashed']_vars
<1>1. TypeOK /\ QueueInv /\ [Next]_vars => [\A k \in Keys : ServeNext(k) => ~crashed']_vars
  <2> SUFFICES ASSUME TypeOK, QueueInv, NEW k \in Keys, ServeNext(k)
               PROVE  ~crashed'
    OBVIOUS
  <2> DEFINE c == Head(blocked[k]).cli
  <2>1. /\ ~crashed /\ Head(blocked[k]) \in ToSet(blocked[k])
        /\ \/ UNCHANGED crashed
           \/ c \in conn /\ UnblockClient(c, k)
    BY ServeCases DEF ServesLive
  <2>2. CASE c \in conn /\ UnblockClient(c, k)
    <3>1. c \notin forgotten
      BY <2>1 DEF QueueInv, WaitInv, ForgottenAreInNoQueue, HasEntry
    <3>2. \A w \in waiting[c] : ToSet(blocked[w]) # {}
      BY <2>2, <3>1 DEF QueueInv, WaitInv, WaiterIsQueued, HasEntry
    <3>3. ToSet(<<>>) = {}
      BY DEF ToSet
    <3> QED BY <2>2, <3>2, <3>3 DEF UnblockClient
  <2> QED BY <2>1, <2>2
<1>2. Init => QueueInv
  BY InitQueueInv
<1> QED BY <1>1, <1>2, QueueInvStep, TypeCorrect, PTL DEF Spec
=============================================================================
