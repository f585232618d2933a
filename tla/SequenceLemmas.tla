---------------------------- MODULE SequenceLemmas ----------------------------
(***************************************************************************)
(* Facts about naturals, and about the operators on sequences that the     *)
(* models use, for the proofs of several modules.                          *)
(***************************************************************************)
EXTENDS Integers, SequencesExt, SequenceTheorems, FiniteSetTheorems,
        WellFoundedInduction, TLAPS

\* A set of naturals has a least one.
LEMMA LeastNat ==
    ASSUME NEW T \in SUBSET Nat, T # {}
    PROVE  \E m \in T : \A n \in T : m <= n
<1> DEFINE R == {ss \in Nat \X Nat : ss[1] < ss[2]}
<1>1. IsWellFoundedOn(R, Nat)
  BY NatLessThanWellFounded, Zenon DEF OpToRel
<1> HIDE DEF R
<1>2. PICK m \in T : \A n \in T : <<n, m>> \notin R
  BY <1>1, WFMin
<1>3. ASSUME NEW n \in T PROVE m <= n
  <2>1. <<n, m>> \notin R
    BY <1>2
  <2>2. ~(n < m)
    BY <2>1 DEF R
  <2> QED BY <2>2
<1> QED BY <1>3

\* Induction over the naturals, for a set.
LEMMA Induct ==
    ASSUME NEW P, 0 \in P, \A n \in Nat : n \in P => n + 1 \in P
    PROVE  Nat \subseteq P
<1> SUFFICES ASSUME Nat \ P # {} PROVE FALSE
  OBVIOUS
<1>1. PICK m \in Nat \ P : \A n \in Nat \ P : m <= n
  BY LeastNat
<1>2. m - 1 \in Nat
  BY <1>1
<1>3. m - 1 \in P
  BY <1>1, <1>2
<1> QED BY <1>1, <1>2, <1>3

\* The least of some naturals is one of them.
LEMMA MinIsOne ==
    ASSUME NEW T \in SUBSET Nat, T # {}
    PROVE  Min(T) \in T
  BY LeastNat DEF Min

-----------------------------------------------------------------------------
\* ToSet holds what stands at some index.
LEMMA SetOfSeq ==
    ASSUME NEW S, NEW q \in Seq(S)
    PROVE  /\ \A i \in 1..Len(q) : q[i] \in ToSet(q)
           /\ \A x \in ToSet(q) : \E i \in 1..Len(q) : x = q[i]
           /\ ToSet(q) \subseteq S
           /\ q = <<>> <=> ToSet(q) = {}
<1>1. Len(q) \in Nat /\ DOMAIN q = 1..Len(q) /\ \A i \in 1..Len(q) : q[i] \in S
  BY LenProperties, ElementOfSeq
<1>2. \A i \in 1..Len(q) : q[i] \in ToSet(q)
  BY <1>1 DEF ToSet
<1>3. \A x \in ToSet(q) : \E i \in 1..Len(q) : x = q[i]
  BY <1>1 DEF ToSet
<1>4. q # <<>> => 1 \in 1..Len(q)
  BY EmptySeq
<1>5. q = <<>> => ToSet(q) = {}
  BY DEF ToSet
<1> QED BY <1>1, <1>2, <1>3, <1>4, <1>5

\* The elements of a concatenation.
LEMMA ConcatSet ==
    ASSUME NEW S, NEW p \in Seq(S), NEW q \in Seq(S)
    PROVE  p \o q \in Seq(S) /\ ToSet(p \o q) = ToSet(p) \cup ToSet(q)
<1>1. /\ p \o q \in Seq(S)
      /\ Len(p \o q) = Len(p) + Len(q)
      /\ \A i \in 1..(Len(p) + Len(q)) :
            (p \o q)[i] = IF i <= Len(p) THEN p[i] ELSE q[i - Len(p)]
  BY ConcatProperties
<1>2. ASSUME NEW x \in ToSet(p \o q) PROVE x \in ToSet(p) \cup ToSet(q)
  <2>1. PICK i \in 1..Len(p \o q) : x = (p \o q)[i]
    BY <1>1, SetOfSeq
  <2>2. CASE i <= Len(p)
    <3>1. i \in 1..Len(p) /\ x = p[i]
      BY <1>1, <2>1, <2>2
    <3> QED BY <3>1, SetOfSeq
  <2>3. CASE ~(i <= Len(p))
    <3>1. i - Len(p) \in 1..Len(q) /\ x = q[i - Len(p)]
      BY <1>1, <2>1, <2>3
    <3> QED BY <3>1, SetOfSeq
  <2> QED BY <2>2, <2>3
<1>3. ASSUME NEW x \in ToSet(p) PROVE x \in ToSet(p \o q)
  <2>1. PICK i \in 1..Len(p) : x = p[i]
    BY SetOfSeq
  <2>2. i \in 1..Len(p \o q) /\ x = (p \o q)[i]
    BY <1>1, <2>1
  <2> QED BY <1>1, <2>2, SetOfSeq
<1>4. ASSUME NEW x \in ToSet(q) PROVE x \in ToSet(p \o q)
  <2>1. PICK i \in 1..Len(q) : x = q[i]
    BY SetOfSeq
  <2>2. i + Len(p) \in 1..(Len(p) + Len(q)) /\ ~(i + Len(p) <= Len(p))
    OBVIOUS
  <2>3. (p \o q)[i + Len(p)] = q[(i + Len(p)) - Len(p)]
    BY <1>1, <2>2
  <2>4. x = (p \o q)[i + Len(p)]
    BY <2>1, <2>3
  <2> QED BY <1>1, <2>2, <2>4, SetOfSeq
<1> QED BY <1>1, <1>2, <1>3, <1>4

\* A sequence with one element more.
LEMMA AppendSet ==
    ASSUME NEW S, NEW q \in Seq(S), NEW e \in S
    PROVE  Append(q, e) \in Seq(S) /\ ToSet(Append(q, e)) = ToSet(q) \cup {e}
<1>1. <<e>> \in Seq(S) /\ ToSet(<<e>>) = {e}
  BY DEF ToSet
<1>2. Append(q, e) = q \o <<e>>
  BY AppendIsConcat
<1>3. q \o <<e>> \in Seq(S) /\ ToSet(q \o <<e>>) = ToSet(q) \cup ToSet(<<e>>)
  BY <1>1, ConcatSet
<1> QED BY <1>1, <1>2, <1>3

\* A sequence is what comes before an index, the element at it, and what follows.
LEMMA SplitSet ==
    ASSUME NEW S, NEW q \in Seq(S), NEW i \in 1..Len(q)
    PROVE  /\ SubSeq(q, 1, i - 1) \in Seq(S)
           /\ SubSeq(q, i + 1, Len(q)) \in Seq(S)
           /\ ToSet(q) = ToSet(SubSeq(q, 1, i - 1)) \cup {q[i]}
                            \cup ToSet(SubSeq(q, i + 1, Len(q)))
<1> DEFINE p == SubSeq(q, 1, i - 1)
           r == SubSeq(q, i + 1, Len(q))
<1>1. /\ p \in Seq(S) /\ Len(p) = i - 1
      /\ \A j \in 1..(i - 1) : p[j] = q[j]
  BY SubSeqProperties, i - 1 \in Int
<1>2. /\ r \in Seq(S) /\ Len(r) = Len(q) - i
      /\ \A j \in 1..(Len(q) - i) : r[j] = q[i + j]
  BY SubSeqProperties, i + 1 \in Int, Len(q) \in Int
<1> HIDE DEF p, r
<1>3. ASSUME NEW x \in ToSet(q) PROVE x \in ToSet(p) \cup {q[i]} \cup ToSet(r)
  <2>1. PICK j \in 1..Len(q) : x = q[j]
    BY SetOfSeq
  <2>2. CASE j < i
    <3>1. j \in 1..Len(p) /\ x = p[j]
      BY <1>1, <2>1, <2>2
    <3> QED BY <1>1, <3>1, SetOfSeq
  <2>3. CASE j > i
    <3>1. j - i \in 1..(Len(q) - i)
      BY <2>3
    <3>2. r[j - i] = q[i + (j - i)]
      BY <1>2, <3>1
    <3>3. j - i \in 1..Len(r) /\ x = r[j - i]
      BY <1>2, <2>1, <3>1, <3>2
    <3> QED BY <1>2, <3>3, SetOfSeq
  <2> QED BY <2>1, <2>2, <2>3
<1>4. ASSUME NEW x \in ToSet(p) PROVE x \in ToSet(q)
  <2>1. PICK j \in 1..Len(p) : x = p[j]
    BY <1>1, SetOfSeq
  <2>2. j \in 1..Len(q) /\ x = q[j]
    BY <1>1, <2>1
  <2> QED BY <2>2, SetOfSeq
<1>5. ASSUME NEW x \in ToSet(r) PROVE x \in ToSet(q)
  <2>1. PICK j \in 1..Len(r) : x = r[j]
    BY <1>2, SetOfSeq
  <2>2. i + j \in 1..Len(q) /\ x = q[i + j]
    BY <1>2, <2>1
  <2> QED BY <2>2, SetOfSeq
<1>6. q[i] \in ToSet(q)
  BY SetOfSeq
<1> QED BY <1>1, <1>2, <1>3, <1>4, <1>5, <1>6 DEF p, r

\* The first element and the others; the last element and the others.
LEMMA EndsSet ==
    ASSUME NEW S, NEW q \in Seq(S), q # <<>>
    PROVE  /\ Tail(q) \in Seq(S) /\ Head(q) \in S
           /\ ToSet(q) = {Head(q)} \cup ToSet(Tail(q))
           /\ Front(q) \in Seq(S) /\ Last(q) \in S
           /\ ToSet(q) = {Last(q)} \cup ToSet(Front(q))
<1>1. Len(q) \in Nat \ {0}
  BY EmptySeq
<1>2. /\ Tail(q) = SubSeq(q, 2, Len(q)) /\ Head(q) = q[1]
      /\ Front(q) = SubSeq(q, 1, Len(q) - 1) /\ Last(q) = q[Len(q)]
  BY TailIsSubSeq DEF Front, Last
<1>3. ToSet(SubSeq(q, 1, 0)) = {} /\ ToSet(SubSeq(q, Len(q) + 1, Len(q))) = {}
  <2>1. SubSeq(q, 1, 0) = <<>> /\ SubSeq(q, Len(q) + 1, Len(q)) = <<>>
    BY <1>1, SubSeqEmpty
  <2> QED BY <2>1 DEF ToSet
<1>4. /\ SubSeq(q, 2, Len(q)) \in Seq(S)
      /\ ToSet(q) = ToSet(SubSeq(q, 1, 0)) \cup {q[1]} \cup ToSet(SubSeq(q, 2, Len(q)))
  <2>1. 1 \in 1..Len(q) /\ 1 - 1 = 0 /\ 1 + 1 = 2
    BY <1>1
  <2> QED BY <2>1, SplitSet
<1>5. /\ SubSeq(q, 1, Len(q) - 1) \in Seq(S)
      /\ ToSet(q) = ToSet(SubSeq(q, 1, Len(q) - 1)) \cup {q[Len(q)]}
                       \cup ToSet(SubSeq(q, Len(q) + 1, Len(q)))
  <2>1. Len(q) \in 1..Len(q)
    BY <1>1
  <2> QED BY <2>1, SplitSet
<1>6. q[1] \in S /\ q[Len(q)] \in S
  BY <1>1, ElementOfSeq
<1> QED BY <1>2, <1>3, <1>4, <1>5, <1>6

\* Reversing changes the order only.
LEMMA ReverseSet ==
    ASSUME NEW S, NEW q \in Seq(S)
    PROVE  /\ Reverse(q) \in Seq(S) /\ Len(Reverse(q)) = Len(q)
           /\ \A i \in 1..Len(q) : Reverse(q)[i] = q[(Len(q) - i) + 1]
           /\ ToSet(Reverse(q)) = ToSet(q)
<1>1. Len(q) \in Nat /\ \A i \in 1..Len(q) : (Len(q) - i) + 1 \in 1..Len(q)
  OBVIOUS
<1>2. /\ Reverse(q) \in Seq(S) /\ Len(Reverse(q)) = Len(q)
      /\ \A i \in 1..Len(q) : Reverse(q)[i] = q[(Len(q) - i) + 1]
  BY <1>1, ElementOfSeq DEF Reverse
<1>3. ASSUME NEW x \in ToSet(Reverse(q)) PROVE x \in ToSet(q)
  <2>1. PICK i \in 1..Len(q) : x = Reverse(q)[i]
    BY <1>2, SetOfSeq
  <2>2. (Len(q) - i) + 1 \in 1..Len(q) /\ x = q[(Len(q) - i) + 1]
    BY <1>1, <1>2, <2>1
  <2> QED BY <2>2, SetOfSeq
<1>4. ASSUME NEW x \in ToSet(q) PROVE x \in ToSet(Reverse(q))
  <2>1. PICK i \in 1..Len(q) : x = q[i]
    BY SetOfSeq
  <2>2. Reverse(q)[(Len(q) - i) + 1] = q[(Len(q) - ((Len(q) - i) + 1)) + 1]
    BY <1>1, <1>2
  <2>3. (Len(q) - ((Len(q) - i) + 1)) + 1 = i
    BY <1>1
  <2> QED BY <1>1, <1>2, <2>1, <2>2, <2>3, SetOfSeq
<1> QED BY <1>2, <1>3, <1>4

-----------------------------------------------------------------------------
\* No element of q comes twice.
Once(q) == \A i, j \in 1..Len(q) : q[i] = q[j] => i = j

LEMMA ReverseOnce ==
    ASSUME NEW S, NEW q \in Seq(S), Once(q)
    PROVE  Once(Reverse(q))
<1> SUFFICES ASSUME NEW i \in 1..Len(q), NEW j \in 1..Len(q),
                    Reverse(q)[i] = Reverse(q)[j]
             PROVE  i = j
  BY ReverseSet DEF Once
<1>1. /\ (Len(q) - i) + 1 \in 1..Len(q) /\ (Len(q) - j) + 1 \in 1..Len(q)
      /\ q[(Len(q) - i) + 1] = q[(Len(q) - j) + 1]
  BY ReverseSet
<1>2. (Len(q) - i) + 1 = (Len(q) - j) + 1
  BY <1>1 DEF Once
<1> QED BY <1>2

LEMMA ConcatOnce ==
    ASSUME NEW S, NEW p \in Seq(S), NEW q \in Seq(S), Once(p), Once(q),
           ToSet(p) \cap ToSet(q) = {}
    PROVE  Once(p \o q)
<1>1. /\ Len(p \o q) = Len(p) + Len(q)
      /\ \A i \in 1..(Len(p) + Len(q)) :
            (p \o q)[i] = IF i <= Len(p) THEN p[i] ELSE q[i - Len(p)]
  BY ConcatProperties
<1>2. ASSUME NEW i \in 1..Len(p), NEW j \in 1..Len(q) PROVE p[i] # q[j]
  BY SetOfSeq
<1> SUFFICES ASSUME NEW i \in 1..(Len(p) + Len(q)), NEW j \in 1..(Len(p) + Len(q)),
                    (p \o q)[i] = (p \o q)[j]
             PROVE  i = j
  BY <1>1 DEF Once
<1>3. CASE i <= Len(p) /\ j <= Len(p)
  BY <1>1, <1>3 DEF Once
<1>4. CASE i <= Len(p) /\ ~(j <= Len(p))
  BY <1>1, <1>2, <1>4
<1>5. CASE ~(i <= Len(p)) /\ j <= Len(p)
  BY <1>1, <1>2, <1>5
<1>6. CASE ~(i <= Len(p)) /\ ~(j <= Len(p))
  <2>1. /\ i - Len(p) \in 1..Len(q) /\ j - Len(p) \in 1..Len(q)
        /\ q[i - Len(p)] = q[j - Len(p)]
    BY <1>1, <1>6
  <2>2. i - Len(p) = j - Len(p)
    BY <2>1 DEF Once
  <2> QED BY <2>2
<1> QED BY <1>3, <1>4, <1>5, <1>6

LEMMA OnceAtTheEnds ==
    ASSUME NEW S, NEW q \in Seq(S), q # <<>>, Once(q)
    PROVE  /\ Once(Tail(q)) /\ Head(q) \notin ToSet(Tail(q))
           /\ Once(Front(q)) /\ Last(q) \notin ToSet(Front(q))
<1>1. Len(q) \in Nat \ {0}
  BY EmptySeq
<1>2. /\ Len(Tail(q)) = Len(q) - 1 /\ Head(q) = q[1] /\ Tail(q) \in Seq(S)
      /\ \A i \in 1..(Len(q) - 1) : Tail(q)[i] = q[i + 1]
  BY HeadTailProperties
<1>3. /\ Len(Front(q)) = Len(q) - 1 /\ Last(q) = q[Len(q)] /\ Front(q) \in Seq(S)
      /\ \A i \in 1..(Len(q) - 1) : Front(q)[i] = q[i]
  <2>1. \A i \in 1..(Len(q) - 1) : q[i] \in S
    BY <1>1, ElementOfSeq
  <2> DEFINE n == Len(q) - 1
  <2>2. n \in Nat
    BY <1>1
  <2> HIDE DEF n
  <2>3. /\ SubSeq(q, 1, n) \in Seq(S)
        /\ Len(SubSeq(q, 1, n)) = IF 1 <= n THEN n - 1 + 1 ELSE 0
        /\ \A i \in 1..(n - 1 + 1) : SubSeq(q, 1, n)[i] = q[1 + i - 1]
    BY <2>1, <2>2, SubSeqProperties DEF n
  <2>4. Len(SubSeq(q, 1, n)) = n /\ \A i \in 1..n : SubSeq(q, 1, n)[i] = q[i]
    BY <2>2, <2>3
  <2> QED BY <2>3, <2>4 DEF n, Front, Last
<1>4. Once(Tail(q))
  <2> SUFFICES ASSUME NEW i \in 1..(Len(q) - 1), NEW j \in 1..(Len(q) - 1),
                      Tail(q)[i] = Tail(q)[j]
               PROVE  i = j
    BY <1>2 DEF Once
  <2>1. i + 1 \in 1..Len(q) /\ j + 1 \in 1..Len(q) /\ q[i + 1] = q[j + 1]
    BY <1>2
  <2>2. i + 1 = j + 1
    BY <2>1 DEF Once
  <2> QED BY <2>2
<1>5. Head(q) \notin ToSet(Tail(q))
  <2> SUFFICES ASSUME Head(q) \in ToSet(Tail(q)) PROVE FALSE
    OBVIOUS
  <2> DEFINE t == Tail(q)
  <2>0. t \in Seq(S)
    BY <1>2
  <2> HIDE DEF t
  <2>1. PICK i \in 1..Len(t) : Head(q) = t[i]
    BY <2>0, SetOfSeq DEF t
  <2>2. i + 1 \in 1..Len(q) /\ 1 \in 1..Len(q) /\ q[i + 1] = q[1]
    BY <1>1, <1>2, <2>1 DEF t
  <2>3. i + 1 = 1
    BY <2>2 DEF Once
  <2> QED BY <2>3
<1>6. Once(Front(q))
  BY <1>3 DEF Once
<1>7. Last(q) \notin ToSet(Front(q))
  <2> SUFFICES ASSUME Last(q) \in ToSet(Front(q)) PROVE FALSE
    OBVIOUS
  <2>1. PICK i \in 1..Len(Front(q)) : Last(q) = Front(q)[i]
    BY <1>3, SetOfSeq
  <2>2. i \in 1..Len(q) /\ Len(q) \in 1..Len(q) /\ q[i] = q[Len(q)]
    BY <1>1, <1>3, <2>1
  <2>3. i = Len(q)
    BY <2>2 DEF Once
  <2> QED BY <1>1, <1>3, <2>3
<1> QED BY <1>4, <1>5, <1>6, <1>7

LEMMA FrontIs ==
    ASSUME NEW S, NEW q \in Seq(S), q # <<>>
    PROVE  /\ Front(q) \in Seq(S) /\ Len(Front(q)) = Len(q) - 1
           /\ \A i \in 1..(Len(q) - 1) : Front(q)[i] = q[i]
<1>1. Len(q) \in Nat \ {0} /\ Front(q) = SubSeq(q, 1, Len(q) - 1)
  BY EmptySeq DEF Front
<1>2. \A i \in 1..(Len(q) - 1) : q[i] \in S
  BY <1>1, ElementOfSeq
<1> DEFINE n == Len(q) - 1
           f == SubSeq(q, 1, n)
<1>3. n \in Int /\ n >= 0 /\ (n - 1) + 1 = n
  BY <1>1
<1> HIDE DEF n
<1>4. /\ f \in Seq(S) /\ Len(f) = IF 1 <= n THEN (n - 1) + 1 ELSE 0
      /\ \A i \in 1..((n - 1) + 1) : f[i] = q[(1 + i) - 1]
  BY <1>2, <1>3, SubSeqProperties DEF n
<1> HIDE DEF f
<1>5. Len(f) = n /\ \A i \in 1..n : f[i] = q[i]
  BY <1>3, <1>4
<1> QED BY <1>1, <1>4, <1>5 DEF f, n

LEMMA FrontOfCons ==
    ASSUME NEW S, NEW q \in Seq(S), q # <<>>, NEW e \in S
    PROVE  Front(<<e>> \o q) = <<e>> \o Front(q)
<1> DEFINE p == <<e>> \o q
           n == Len(q)
<1>1. n \in Nat \ {0} /\ <<e>> \in Seq(S) /\ Len(<<e>>) = 1
  BY EmptySeq
<1>2. /\ p \in Seq(S) /\ Len(p) = n + 1
      /\ \A i \in 1..(n + 1) : p[i] = IF i = 1 THEN e ELSE q[i - 1]
  <2>1. /\ p \in Seq(S) /\ Len(p) = Len(<<e>>) + Len(q)
        /\ \A i \in 1..(Len(<<e>>) + Len(q)) :
              p[i] = IF i <= Len(<<e>>) THEN <<e>>[i] ELSE q[i - Len(<<e>>)]
    BY <1>1, ConcatProperties
  <2> QED BY <1>1, <2>1
<1> HIDE DEF p
<1>3. /\ Front(p) \in Seq(S) /\ Len(Front(p)) = n
      /\ \A i \in 1..n : Front(p)[i] = p[i]
  <2>1. p # <<>>
    BY <1>1, <1>2
  <2> QED BY <1>1, <1>2, <2>1, FrontIs
<1>4. /\ Front(q) \in Seq(S) /\ Len(Front(q)) = n - 1
      /\ \A i \in 1..(n - 1) : Front(q)[i] = q[i]
  BY FrontIs
<1>5. /\ <<e>> \o Front(q) \in Seq(S) /\ Len(<<e>> \o Front(q)) = n
      /\ \A i \in 1..n : (<<e>> \o Front(q))[i] = IF i = 1 THEN e ELSE q[i - 1]
  <2> DEFINE f == Front(q)
  <2> HIDE DEF f
  <2>1. /\ <<e>> \o f \in Seq(S) /\ Len(<<e>> \o f) = Len(<<e>>) + Len(f)
        /\ \A i \in 1..(Len(<<e>>) + Len(f)) :
              (<<e>> \o f)[i] = IF i <= Len(<<e>>) THEN <<e>>[i] ELSE f[i - Len(<<e>>)]
    BY <1>1, <1>4, ConcatProperties DEF f
  <2> QED BY <1>1, <1>4, <2>1 DEF f
<1>6. n \in Nat
  BY <1>1
<1> DEFINE f == Front(p)
           g == <<e>> \o Front(q)
<1> HIDE DEF n, f, g
<1>7. f \in Seq(S) /\ g \in Seq(S) /\ Len(f) = n /\ Len(g) = n
  BY <1>3, <1>5 DEF f, g
<1>8. ASSUME NEW i \in 1..n PROVE f[i] = g[i]
  <2>1. i \in 1..(n + 1)
    BY <1>6
  <2>2. p[i] = IF i = 1 THEN e ELSE q[i - 1]
    BY <1>2, <2>1
  <2>3. f[i] = p[i]
    BY <1>3 DEF f
  <2>4. g[i] = IF i = 1 THEN e ELSE q[i - 1]
    BY <1>5 DEF g
  <2> QED BY <2>2, <2>3, <2>4
<1>9. f = g
  <2>1. Len(f) = Len(g) /\ \A i \in 1..Len(f) : f[i] = g[i]
    BY <1>7, <1>8
  <2> QED BY <1>7, <2>1, SeqEqual
<1> QED BY <1>9 DEF f, g, p

-----------------------------------------------------------------------------
\* F goes from an element of S, by an element of B, to an element of S.
StepOf(F, S, B) == \A x \in S, b \in B : F[<<x, b>>] \in S

\* A recursive function over a sequence is what its definition says.
LEMMA Recursion ==
    ASSUME NEW S, NEW B, NEW a \in S, NEW q \in Seq(B),
           NEW F, StepOf(F, S, B)
    PROVE  \E f \in [0..Len(q) -> S] :
              \A n \in 0..Len(q) : f[n] = IF n = 0 THEN a ELSE F[<<f[n - 1], q[n]>>]
<1> DEFINE At(f, n) == IF n = 0 THEN a ELSE F[<<f[n - 1], q[n]>>]
           Follows(f, m) == f \in [0..m -> S] /\ \A n \in 0..m : f[n] = At(f, n)
           P == {m \in Nat : m <= Len(q) => \E f : Follows(f, m)}
<1>1. 0 \in P
  <2> DEFINE f == [n \in 0..0 |-> a]
  <2>1. Follows(f, 0)
    OBVIOUS
  <2> HIDE DEF f, Follows
  <2> QED BY <2>1
<1>2. ASSUME NEW m \in Nat, m \in P PROVE m + 1 \in P
  <2> HIDE DEF Follows
  <2> SUFFICES ASSUME m + 1 <= Len(q)
               PROVE  \E f : Follows(f, m + 1)
    OBVIOUS
  <2>1. PICK f : Follows(f, m)
    <3>1. m <= Len(q)
      BY Len(q) \in Nat
    <3> QED BY <1>2, <3>1
  <2>2. f \in [0..m -> S] /\ \A n \in 0..m : f[n] = At(f, n)
    BY <2>1 DEF Follows
  <2> DEFINE x == F[<<f[m], q[m + 1]>>]
             g == [n \in 0..(m + 1) |-> IF n = m + 1 THEN x ELSE f[n]]
  <2>3. x \in S
    <3>1. m + 1 \in 1..Len(q) /\ m \in 0..m
      BY Len(q) \in Nat
    <3>2. f[m] \in S /\ q[m + 1] \in B
      BY <2>2, <3>1, ElementOfSeq
    <3> QED BY <3>2 DEF StepOf
  <2> HIDE DEF x, At
  <2>4. \A n \in 0..m : n \in 0..(m + 1) /\ n # m + 1
    OBVIOUS
  <2>5. g \in [0..(m + 1) -> S] /\ g[m + 1] = x /\ \A n \in 0..m : g[n] = f[n]
    <3>1. \A n \in 0..(m + 1) : n # m + 1 => n \in 0..m
      OBVIOUS
    <3>2. m + 1 \in 0..(m + 1)
      OBVIOUS
    <3> QED BY <2>2, <2>3, <2>4, <3>1, <3>2
  <2> HIDE DEF g
  <2>6. ASSUME NEW n \in 0..(m + 1) PROVE g[n] = At(g, n)
    <3>1. CASE n = 0
      <4>1. 0 \in 0..m
        OBVIOUS
      <4>2. g[0] = At(f, 0)
        BY <2>2, <2>5, <4>1
      <4> QED BY <3>1, <4>2 DEF At
    <3>2. CASE n \in 1..m
      <4>1. n \in 0..m /\ n - 1 \in 0..m /\ n # 0
        BY <3>2
      <4>2. g[n] = f[n] /\ g[n - 1] = f[n - 1]
        BY <2>5, <4>1
      <4>3. f[n] = At(f, n)
        BY <2>2, <4>1
      <4> QED BY <4>1, <4>2, <4>3 DEF At
    <3>3. CASE n = m + 1
      <4>1. m + 1 # 0 /\ (m + 1) - 1 = m /\ m \in 0..m
        OBVIOUS
      <4>2. g[m] = f[m]
        BY <2>5, <4>1
      <4> QED BY <2>5, <3>3, <4>1, <4>2 DEF At, x
    <3> QED BY <3>1, <3>2, <3>3
  <2>7. Follows(g, m + 1)
    BY <2>5, <2>6 DEF Follows
  <2> QED BY <2>7
<1> HIDE DEF P
<1>3. Len(q) \in P
  BY <1>1, <1>2, Induct, Len(q) \in Nat
<1> QED BY <1>3 DEF P

=============================================================================
