---------------------------- MODULE QStoreProofs ----------------------------
(***************************************************************************)
(* What holds of one database for every set of keys, members and contents: *)
(* types, that what is propagated makes the same data elsewhere, that      *)
(* watchers are told, and that a deadline goes with its key; and, with     *)
(* LevelDB behind it, that a key reads as it was last written.             *)
(***************************************************************************)
EXTENDS MCQStore, TLAPS

-----------------------------------------------------------------------------
(***************************************************************************)
(* Values.                                                                 *)
(***************************************************************************)
Types == {"string", "set", "hash", "zset"}

\* What a value of a type may hold.
Holds(type, v) ==
    \/ type = "string" /\ \E n \in Contents : v = Str(n).v
    \/ type = "set" /\ v \in Partial(Members, {0})
    \/ type = "hash" /\ v \in Partial(Fields, Given)
    \/ type = "zset" /\ v \in Partial(Members, 0 .. MaxInt)

\* A partial function is a function on a part of the set.
LEMMA PartialIs ==
    ASSUME NEW S, NEW R, NEW v
    PROVE  v \in Partial(S, R) <=> /\ v = [m \in DOMAIN v |-> v[m]]
                                   /\ DOMAIN v \subseteq S
                                   /\ \A m \in DOMAIN v : v[m] \in R
BY DEF Partial

\* The two fields of a value.
LEMMA ValueFields ==
    ASSUME NEW t, NEW v
    PROVE  Value(t, v).type = t /\ Value(t, v).v = v
BY DEF Value

\* The values are those that hold what their type may hold, and none.
LEMMA ValuesAre ==
    ASSUME NEW x \in Values
    PROVE  \/ x = Absent /\ x.type = "none"
           \/ /\ x.type \in Types /\ x # Absent
              /\ Holds(x.type, x.v) /\ x = Value(x.type, x.v)
<1>1. \A t, v : Value(t, v).type = t /\ Value(t, v).v = v
  BY DEF Value
<1>2. CASE x = Absent
  BY <1>1, <1>2 DEF Absent
<1>3. CASE \E t \in Types : \E v : x = Value(t, v) /\ Holds(t, v)
  <2>1. PICK t, v : t \in Types /\ x = Value(t, v) /\ Holds(t, v)
    BY <1>3
  <2>2. x.type = t /\ x.v = v /\ t # "none"
    BY <2>1, <1>1 DEF Types
  <2>3. x # Absent
    BY <2>2, <1>1 DEF Absent
  <2> QED BY <2>1, <2>2, <2>3
<1>4. x = Absent \/ \E t \in Types : \E v : x = Value(t, v) /\ Holds(t, v)
  <2>1. CASE \E n \in Contents : x = Str(n)
    <3>1. PICK n \in Contents : x = Str(n)
      BY <2>1
    <3>2. x = Value("string", Str(n).v)
      BY <3>1, <1>1 DEF Str
    <3>3. Holds("string", Str(n).v)
      BY DEF Holds
    <3> QED BY <3>2, <3>3 DEF Types
  <2>2. CASE \E v \in Partial(Members, {0}) : x = Value("set", v)
    BY <2>2 DEF Types, Holds
  <2>3. CASE \E v \in Partial(Fields, Given) : x = Value("hash", v)
    BY <2>3 DEF Types, Holds
  <2>4. CASE \E v \in Partial(Members, 0 .. MaxInt) : x = Value("zset", v)
    BY <2>4 DEF Types, Holds
  <2> QED BY <2>1, <2>2, <2>3, <2>4 DEF Values
<1> QED BY <1>2, <1>3, <1>4

LEMMA HoldingIsValue ==
    ASSUME NEW t \in Types, NEW v, Holds(t, v)
    PROVE  Value(t, v) \in Values /\ Value(t, v) # Absent
BY DEF Values, Value, Absent, Str, Types, Holds

LEMMA StrIsValue ==
    ASSUME NEW n \in Contents
    PROVE  Str(n) \in Values /\ Str(n) # Absent /\ Str(n).type = "string"
BY DEF Values, Value, Absent, Str

LEMMA StringIsStr ==
    ASSUME NEW x \in Values, x.type = "string"
    PROVE  \E n \in Contents : x = Str(n)
<1>1. x = Value("string", x.v) /\ Holds("string", x.v)
  BY ValuesAre
<1>2. PICK n \in Contents : x.v = Str(n).v
  BY <1>1 DEF Holds
<1>3. x = Str(n)
  BY <1>1, <1>2, ValueFields DEF Str
<1> QED BY <1>3

\* Strings are told apart by their contents.
LEMMA StrIsInjective ==
    ASSUME NEW m, NEW n
    PROVE  /\ Str(m) = Str(n) => m = n
           /\ Str(m).v = Str(n).v => m = n
           /\ Str(m).v[Whole] = m
<1>1. Str(m).v = [w \in {Whole} |-> m] /\ Str(n).v = [w \in {Whole} |-> n]
  BY DEF Str, Value
<1>2. Str(m).v[Whole] = m /\ Str(n).v[Whole] = n
  BY <1>1
<1> QED BY <1>2

LEMMA ContentsAre ==
    /\ Contents = 0 .. (MaxInt + 3) /\ 0 .. MaxInt \subseteq Given
    /\ Digits \in Contents /\ Fraction \in Given /\ Text \in Given
    /\ 0 \in Given /\ 1 \in Given /\ 0 \in 0 .. MaxInt
    /\ Given \subseteq Contents /\ Raw \subseteq Contents
    /\ Inputs \subseteq Contents /\ Inputs \subseteq Given
    /\ Digits # Text /\ Fraction # Text /\ Digits # 1 /\ Text # 1
    /\ Digits > MaxInt /\ ~(1 > MaxInt)
BY MaxIntAssumption, InputsAssumption
   DEF Contents, Given, Raw, Digits, Fraction, Text

\* What a number of the width wraps to is one.
LEMMA WrapFits ==
    ASSUME NEW n \in Int
    PROVE  Wrap(n) \in 0 .. MaxInt
BY MaxIntAssumption DEF Wrap

\* The contents a command makes of others.
LEMMA EmptyHolds == ASSUME NEW t \in Types \ {"string"} PROVE Holds(t, Empty)
<1>1. \A S, R : Empty \in Partial(S, R)
  BY DEF Empty, Partial
<1> QED BY <1>1 DEF Holds, Types

LEMMA WithIsPartial ==
    ASSUME NEW A, NEW R, NEW v \in Partial(A, R), NEW S \in SUBSET A,
           NEW n \in R
    PROVE  With(v, S, n) \in Partial(A, R)
<1> DEFINE w == With(v, S, n)
<1>1. /\ DOMAIN w = DOMAIN v \cup S /\ w = [m \in DOMAIN w |-> w[m]]
      /\ \A m \in DOMAIN w : w[m] = IF m \in S THEN n ELSE v[m]
  BY DEF With
<1>2. DOMAIN v \subseteq A /\ \A m \in DOMAIN v : v[m] \in R
  BY PartialIs
<1> HIDE DEF w
<1>3. w \in [DOMAIN w -> R] /\ DOMAIN w \in SUBSET A
  BY <1>1, <1>2
<1>4. w \in Partial(A, R)
  BY <1>3 DEF Partial
<1> QED BY <1>4 DEF w

LEMMA WithoutIsPartial ==
    ASSUME NEW A, NEW R, NEW v \in Partial(A, R), NEW S
    PROVE  Without(v, S) \in Partial(A, R)
<1> DEFINE w == Without(v, S)
<1>1. /\ DOMAIN w = DOMAIN v \ S /\ w = [m \in DOMAIN w |-> w[m]]
      /\ \A m \in DOMAIN w : w[m] = v[m]
  BY DEF Without
<1>2. DOMAIN v \subseteq A /\ \A m \in DOMAIN v : v[m] \in R
  BY PartialIs
<1> HIDE DEF w
<1>3. w \in [DOMAIN w -> R] /\ DOMAIN w \in SUBSET A
  BY <1>1, <1>2
<1>4. w \in Partial(A, R)
  BY <1>3 DEF Partial
<1> QED BY <1>4 DEF w

\* Values that are shown alike are the same value, or two strings.
LEMMA ShownAlike ==
    ASSUME NEW x \in Values, NEW y \in Values, Shown(x) = Shown(y)
    PROVE  /\ x.type = y.type
           /\ x.type # "string" => x = y
           /\ x = Absent <=> y = Absent
           /\ x = Str(Text) <=> y = Str(Text)
           /\ \A n \in Contents \ {Digits, 1} : x = Str(n) <=> y = Str(n)
<1>1. /\ Str(Digits).type = "string" /\ Str(1).type = "string"
      /\ Str(Digits) # Absent /\ Str(1) # Absent
  BY StrIsValue, ContentsAre
<1>2. \A n \in Contents \ {Digits, 1} : Str(n) # Str(Digits) /\ Str(n) # Str(1)
  BY StrIsInjective
<1>3. Text \in Contents \ {Digits, 1}
  BY ContentsAre
<1> QED BY <1>1, <1>2, <1>3 DEF Shown

-----------------------------------------------------------------------------
(***************************************************************************)
(* What QStore's methods make of a store.                                  *)
(***************************************************************************)
\* A deadline that has passed is a deadline.
Stores == {d \in [val : [Keys -> Values], dl : SUBSET Keys, due : SUBSET Keys,
                  dirty : SUBSET Keys, lost : SUBSET Keys, ok : BOOLEAN] :
             d.due \subseteq d.dl}

\* f is d with x as the value of k, and b for what the handler returns.
Edits(d, f, k, x, b) ==
    /\ f \in Stores
    /\ f.dl = d.dl /\ f.due = d.due /\ f.dirty = d.dirty /\ f.lost = d.lost
    /\ f.ok = b
    /\ f.val[k] = x /\ \A j \in Keys \ {k} : f.val[j] = d.val[j]

\* f is d without the deadline of k, and without k if it had one.
Clears(d, f, k) ==
    /\ f \in Stores
    /\ f.dl = d.dl \ {k} /\ f.due = d.due \ {k} /\ f.dirty = d.dirty
    /\ f.ok = d.ok
    /\ f.val[k] = IF k \in d.dl THEN Absent ELSE d.val[k]
    /\ \A j \in Keys \ {k} : f.val[j] = d.val[j]

\* f is what a lookup of k leaves of d.
Looks(d, f, k) ==
    /\ f \in Stores
    /\ f.due = d.due \ {k} /\ f.dirty = d.dirty /\ f.ok = d.ok
    /\ d.lost \subseteq f.lost /\ f.lost \subseteq d.lost \cup {k}
    /\ k \in d.due => /\ f.dl = d.dl \ {k} /\ f.val[k] = Absent
                      /\ d.val[k] # Absent => k \in f.lost
    /\ k \notin d.due => f = d
    /\ \A j \in Keys \ {k} : f.val[j] = d.val[j]

LEMMA StoreFields ==
    ASSUME NEW d \in Stores
    PROVE  /\ d.val \in [Keys -> Values] /\ \A k \in Keys : d.val[k] \in Values
           /\ d.dl \in SUBSET Keys /\ d.due \in SUBSET d.dl
           /\ d.dirty \in SUBSET Keys /\ d.lost \in SUBSET Keys
           /\ d.ok \in BOOLEAN
BY DEF Stores

LEMMA AbsentIsValue == Absent \in Values
BY DEF Values

LEMMA SetValueEdits ==
    ASSUME NEW d \in Stores, NEW k \in Keys, NEW x \in Values
    PROVE  Edits(d, SetValue(d, k, x), k, x, d.ok)
BY DEF SetValue, Edits, Stores

LEMMA DeleteKeyEdits ==
    ASSUME NEW d \in Stores, NEW k \in Keys
    PROVE  Edits(d, DeleteKey(d, k), k, Absent, d.ok)
BY SetValueEdits, AbsentIsValue DEF DeleteKey

LEMMA PutEdits ==
    ASSUME NEW d \in Stores, NEW k \in Keys, NEW v,
           d.val[k].type \in Types, Holds(d.val[k].type, v)
    PROVE  Edits(d, Put(d, k, v), k, Value(d.val[k].type, v), d.ok)
<1>1. PICK t, w : t \in Types /\ d.val[k] = Value(t, w) /\ d.val[k].type = t
  <2>1. d.val[k] \in Values
    BY StoreFields
  <2> DEFINE x == d.val[k]
  <2> HIDE DEF x
  <2>2. x = Value(x.type, x.v) \/ x.type = "none"
    BY <2>1, ValuesAre DEF x
  <2>3. x = Value(x.type, x.v) /\ x.type \in Types
    BY <2>2 DEF x, Types
  <2> QED BY <2>3 DEF x
<1>2. Put(d, k, v) = [d EXCEPT !.val[k].v = v]
  BY DEF Put
<1>3. [d.val[k] EXCEPT !.v = v] = Value(t, v)
  BY <1>1 DEF Value
<1>4. Value(t, v) \in Values
  BY <1>1, HoldingIsValue
<1> DEFINE f == Put(d, k, v)
<1>5. /\ f.val = [d.val EXCEPT ![k] = Value(t, v)]
      /\ f.dl = d.dl /\ f.due = d.due /\ f.dirty = d.dirty /\ f.lost = d.lost
      /\ f.ok = d.ok
      /\ f = [val |-> f.val, dl |-> d.dl, due |-> d.due, dirty |-> d.dirty,
              lost |-> d.lost, ok |-> d.ok]
  BY <1>2, <1>3 DEF Stores
<1> HIDE DEF f
<1>6. f.val \in [Keys -> Values] /\ f.val[k] = Value(t, v)
      /\ \A j \in Keys \ {k} : f.val[j] = d.val[j]
  BY <1>4, <1>5, StoreFields
<1>7. f \in Stores
  BY <1>5, <1>6 DEF Stores
<1>8. Edits(d, f, k, Value(t, v), d.ok)
  BY <1>5, <1>6, <1>7 DEF Edits
<1> QED BY <1>1, <1>8 DEF f

LEMMA FailEdits ==
    ASSUME NEW d \in Stores, NEW k \in Keys
    PROVE  Edits(d, Fail(d), k, d.val[k], FALSE)
BY DEF Fail, Edits, Stores

LEMMA SelfEdits ==
    ASSUME NEW d \in Stores, NEW k \in Keys
    PROVE  Edits(d, d, k, d.val[k], d.ok)
BY DEF Edits

LEMMA EditsTwice ==
    ASSUME NEW d \in Stores, NEW e, NEW f, NEW k \in Keys, NEW x, NEW y,
           NEW a, NEW b, Edits(d, e, k, x, a), Edits(e, f, k, y, b)
    PROVE  Edits(d, f, k, y, b)
BY DEF Edits

LEMMA ClearExpireClears ==
    ASSUME NEW d \in Stores, NEW k \in Keys
    PROVE  Clears(d, ClearExpire(d, k), k) /\ ClearExpire(d, k).lost = d.lost
<1> DEFINE e == DeleteKey(d, k)
           f == [e EXCEPT !.dl = @ \ {k}, !.due = @ \ {k}]
<1>1. Edits(d, e, k, Absent, d.ok)
  BY DeleteKeyEdits
<1> HIDE DEF e
<1>2. /\ f.val = e.val /\ f.dl = e.dl \ {k} /\ f.due = e.due \ {k}
      /\ f.dirty = e.dirty /\ f.lost = e.lost /\ f.ok = e.ok /\ f \in Stores
  BY <1>1 DEF Edits, Stores
<1>3. ClearExpire(d, k) = IF k \in d.dl THEN f ELSE d
  BY DEF ClearExpire, e
<1> HIDE DEF f
<1>4. CASE k \in d.dl
  BY <1>1, <1>2, <1>3, <1>4 DEF Edits, Clears
<1>5. CASE k \notin d.dl
  BY <1>3, <1>5, StoreFields DEF Clears
<1> QED BY <1>4, <1>5

LEMMA ExpireIfNeedLooks ==
    ASSUME NEW d \in Stores, NEW k \in Keys
    PROVE  Looks(d, ExpireIfNeed(d, k), k)
<1> DEFINE e == ClearExpire(d, k)
           f == [e EXCEPT !.lost = IF Has(d, k) THEN @ \cup {k} ELSE @]
<1>1. Clears(d, e, k) /\ e.lost = d.lost /\ e \in Stores
  BY ClearExpireClears DEF Clears
<1> HIDE DEF e
<1>2. /\ f.val = e.val /\ f.dl = e.dl /\ f.due = e.due
      /\ f.dirty = e.dirty /\ f.ok = e.ok /\ f \in Stores
      /\ f.lost = IF d.val[k] # Absent THEN e.lost \cup {k} ELSE e.lost
  BY <1>1 DEF Stores, Has
<1>3. ExpireIfNeed(d, k) = IF k \in d.due THEN f ELSE d
  BY DEF ExpireIfNeed, e
<1> HIDE DEF f
<1>4. CASE k \in d.due
  <2>1. k \in d.dl
    BY <1>4, StoreFields
  <2> QED BY <1>1, <1>2, <1>3, <1>4, <2>1 DEF Clears, Looks
<1>5. CASE k \notin d.due
  BY <1>3, <1>5, StoreFields DEF Looks
<1> QED BY <1>4, <1>5

-----------------------------------------------------------------------------
(***************************************************************************)
(* What is required of a handler: where it may change a store, and that on  *)
(* a store that shows the same it makes one that shows the same.            *)
(***************************************************************************)
\* f is d with changes to keys of S, those found past their deadline aside,
\* and no deadline has lost its key, but for keys of O.
Works(d, f, S, O) ==
    /\ f \in Stores /\ d.lost \subseteq f.lost
    /\ \A j \in Keys : f.val[j] # d.val[j] => j \in S \cup f.lost
    /\ \A j \in f.dl : f.val[j] = Absent =>
          j \in O \/ (j \in d.dl /\ d.val[j] = Absent)

Agree(d, c) == \A j \in Keys : Shown(c.val[j]) = Shown(d.val[j])

\* If the handler succeeds and has met no deadline that has passed.
Follows(d, f, c, g) ==
    f.ok /\ f.lost = {} /\ Agree(d, c) => g \in Stores /\ Agree(f, g)

\* d is the server's store, and f what the handler makes of it; c, where no
\* deadline passes, and g are the copy's.
Runs(d, f, c, g, S, O) ==
    /\ Works(d, f, S, O) /\ f.dirty = d.dirty
    /\ Follows(d, f, c, g)

LEMMA WorksTwice ==
    ASSUME NEW d \in Stores, NEW e, NEW f, NEW S, NEW O,
           Works(d, e, S, O), Works(e, f, S, O)
    PROVE  Works(d, f, S, O)
BY DEF Works

LEMMA WorksMore ==
    ASSUME NEW d, NEW f, NEW S, NEW T, NEW O, NEW P,
           Works(d, f, T, P), T \subseteq S, P \subseteq O
    PROVE  Works(d, f, S, O)
BY DEF Works

LEMMA LookWorks ==
    ASSUME NEW d \in Stores, NEW e, NEW k \in Keys, Looks(d, e, k),
           NEW S, NEW O
    PROVE  Works(d, e, S, O)
<1>1. CASE k \in d.due
  <2>1. /\ e \in Stores /\ e.dl = d.dl \ {k} /\ e.val[k] = Absent
        /\ d.val[k] # Absent => k \in e.lost
        /\ d.lost \subseteq e.lost
        /\ \A j \in Keys \ {k} : e.val[j] = d.val[j]
    BY <1>1 DEF Looks
  <2>2. e.dl \subseteq Keys
    BY <2>1, StoreFields
  <2> QED BY <2>1, <2>2 DEF Works
<1>2. CASE k \notin d.due
  BY <1>2 DEF Looks, Works
<1> QED BY <1>1, <1>2

LEMMA EditWorks ==
    ASSUME NEW d \in Stores, NEW f, NEW k \in Keys, NEW x, NEW b,
           Edits(d, f, k, x, b), NEW S, k \in S, NEW O,
           x = Absent => k \in O \/ d.val[k] = Absent
    PROVE  Works(d, f, S, O)
<1>1. f \in Stores /\ f.dl = d.dl /\ f.dl \subseteq Keys
  BY StoreFields DEF Edits
<1> QED BY <1>1 DEF Edits, Works

\* A lookup that met no deadline has changed nothing.
LEMMA LookShows ==
    ASSUME NEW d \in Stores, NEW e, NEW k \in Keys, Looks(d, e, k),
           k \in d.due => k \notin e.lost
    PROVE  \A j \in Keys : e.val[j] = d.val[j]
<1>1. CASE k \in d.due
  BY <1>1 DEF Looks
<1>2. CASE k \notin d.due
  BY <1>2 DEF Looks
<1> QED BY <1>1, <1>2

LEMMA LookEditWorks ==
    ASSUME NEW d \in Stores, NEW k \in Keys, NEW e, Looks(d, e, k),
           NEW f, NEW x, NEW a, Edits(e, f, k, x, a), NEW O,
           x = Absent => k \in O \/ e.val[k] = Absent
    PROVE  Works(d, f, {k}, O) /\ f.dirty = d.dirty
<1>1. Works(d, e, {k}, O)
  BY LookWorks
<1>2. Works(e, f, {k}, O)
  BY EditWorks DEF Looks
<1>3. Works(d, f, {k}, O)
  BY <1>1, <1>2, WorksTwice
<1> QED BY <1>3 DEF Edits, Looks

\* A handler that looks a key up and changes its value.
LEMMA EditRuns ==
    ASSUME NEW d \in Stores, NEW c \in Stores, c.due = {}, NEW k \in Keys,
           NEW e, NEW h, Looks(d, e, k), Looks(c, h, k),
           NEW f, NEW x, NEW a, Edits(e, f, k, x, a),
           NEW g, NEW y, NEW b, Edits(h, g, k, y, b), NEW O,
           x = Absent => k \in O \/ e.val[k] = Absent,
           a /\ Shown(h.val[k]) = Shown(e.val[k]) => Shown(y) = Shown(x)
    PROVE  Runs(d, f, c, g, {k}, O)
<1>3. Works(d, f, {k}, O) /\ f.dirty = d.dirty
  BY LookEditWorks
<1>4. g \in Stores
  BY DEF Edits
<1>5. ASSUME f.ok, f.lost = {}, Agree(d, c) PROVE Agree(f, g)
  <2>1. e.lost = {} /\ a
    BY <1>5 DEF Edits
  <2>2. \A j \in Keys : e.val[j] = d.val[j]
    BY <2>1, LookShows
  <2>3. h = c
    BY DEF Looks
  <2>4. Shown(h.val[k]) = Shown(e.val[k])
    BY <1>5, <2>2, <2>3 DEF Agree
  <2>5. Shown(g.val[k]) = Shown(f.val[k])
    BY <2>1, <2>4 DEF Edits
  <2>6. ASSUME NEW j \in Keys \ {k} PROVE Shown(g.val[j]) = Shown(f.val[j])
    <3>1. g.val[j] = c.val[j] /\ f.val[j] = d.val[j]
      BY <2>2, <2>3 DEF Edits
    <3> QED BY <1>5, <3>1 DEF Agree
  <2> QED BY <2>5, <2>6 DEF Agree
<1> QED BY <1>3, <1>4, <1>5 DEF Runs, Follows

\* The same, when on equal values it makes equal ones, and no string is changed.
LEMMA ExactEditRuns ==
    ASSUME NEW d \in Stores, NEW c \in Stores, c.due = {}, NEW k \in Keys,
           NEW e, NEW h, Looks(d, e, k), Looks(c, h, k),
           NEW f, NEW x, NEW a, Edits(e, f, k, x, a),
           NEW g, NEW y, NEW b, Edits(h, g, k, y, b), NEW O,
           x = Absent => k \in O \/ e.val[k] = Absent,
           a => e.val[k].type # "string",
           a /\ e.val[k] = h.val[k] => x = y
    PROVE  Runs(d, f, c, g, {k}, O)
<1>1. ASSUME a, Shown(h.val[k]) = Shown(e.val[k]) PROVE Shown(y) = Shown(x)
  <2>1. h.val[k] \in Values /\ e.val[k] \in Values
    BY StoreFields DEF Looks
  <2> DEFINE v == e.val[k]
             w == h.val[k]
  <2> HIDE DEF v, w
  <2>2. v = w
    BY <1>1, <2>1, ShownAlike DEF v, w
  <2> QED BY <1>1, <2>2 DEF v, w
<1> QED BY <1>1, EditRuns

-----------------------------------------------------------------------------
(***************************************************************************)
(* Handlers that look one key up and change its value if the type is right. *)
(***************************************************************************)
At(d, k) == ExpireIfNeed(d, k).val[k]

\* GET_OR_SET_SET, ...: the types it takes, and what it begins with.
Fits(x, type) == x.type = type \/ x = Absent
Content(x) == IF x = Absent THEN Empty ELSE x.v
Started(e, k, type) ==
    IF e.val[k].type = type THEN e ELSE SetValue(e, k, Value(type, Empty))

\* If fits, x is the new value, and else the handler fails.
Touches(d, f, k, fits, x) ==
    IF fits THEN Edits(ExpireIfNeed(d, k), f, k, x, f.ok)
            ELSE f = Fail(ExpireIfNeed(d, k))

LEMMA LookupIsStore ==
    ASSUME NEW d \in Stores, NEW k \in Keys
    PROVE  ExpireIfNeed(d, k) \in Stores /\ At(d, k) \in Values
<1>1. ExpireIfNeed(d, k) \in Stores
  BY ExpireIfNeedLooks DEF Looks
<1> QED BY <1>1, StoreFields DEF At

LEMMA TouchRuns ==
    ASSUME NEW d \in Stores, NEW c \in Stores, c.due = {}, NEW k \in Keys,
           NEW f, NEW p, NEW x, Touches(d, f, k, p, x),
           NEW g, NEW q, NEW y, Touches(c, g, k, q, y), NEW O,
           p => At(d, k).type # "string" /\ (x = Absent => k \in O),
           p /\ At(d, k) = At(c, k) => x = y /\ q
    PROVE  Runs(d, f, c, g, {k}, O)
<1> DEFINE e == ExpireIfNeed(d, k)
           h == ExpireIfNeed(c, k)
           x1 == IF p THEN x ELSE e.val[k]
           y1 == IF q THEN y ELSE h.val[k]
<1>1. Looks(d, e, k) /\ Looks(c, h, k) /\ e \in Stores /\ h \in Stores
  BY ExpireIfNeedLooks, LookupIsStore
<1>2. At(d, k) = e.val[k] /\ At(c, k) = h.val[k]
  BY DEF At
<1>3. /\ IF p THEN Edits(e, f, k, x, f.ok) ELSE f = Fail(e)
      /\ IF q THEN Edits(h, g, k, y, g.ok) ELSE g = Fail(h)
  BY DEF Touches
<1> HIDE DEF e, h
<1>4. Edits(e, f, k, x1, f.ok) /\ (f.ok => p)
  <2>1. CASE p
    BY <1>3, <2>1
  <2>2. CASE ~p
    <3>1. Edits(e, f, k, e.val[k], FALSE)
      BY <1>1, <1>3, <2>2, FailEdits
    <3>2. f.ok = FALSE
      BY <3>1 DEF Edits
    <3> QED BY <2>2, <3>1, <3>2
  <2> QED BY <2>1, <2>2
<1>5. Edits(h, g, k, y1, g.ok)
  <2>1. CASE q
    BY <1>3, <2>1
  <2>2. CASE ~q
    <3>1. Edits(h, g, k, h.val[k], FALSE)
      BY <1>1, <1>3, <2>2, FailEdits
    <3>2. g.ok = FALSE
      BY <3>1 DEF Edits
    <3> QED BY <2>2, <3>1, <3>2
  <2> QED BY <2>1, <2>2
<1>6. x1 = Absent => k \in O \/ e.val[k] = Absent
  OBVIOUS
<1>7. f.ok => e.val[k].type # "string"
  BY <1>2, <1>4
<1>8. f.ok /\ e.val[k] = h.val[k] => x1 = y1
  BY <1>2, <1>4
<1> HIDE DEF x1, y1
<1> QED BY <1>1, <1>4, <1>5, <1>6, <1>7, <1>8, ExactEditRuns

\* A key that is not there becomes an empty value.
LEMMA StartedEdits ==
    ASSUME NEW e \in Stores, NEW k \in Keys, NEW type \in Types \ {"string"},
           Fits(e.val[k], type)
    PROVE  /\ Edits(e, Started(e, k, type), k,
                    Value(type, Content(e.val[k])), e.ok)
           /\ Holds(type, Content(e.val[k]))
<1> DEFINE v == e.val[k]
<1>1. v \in Values
  BY StoreFields
<1> HIDE DEF v
<1>2. CASE v = Absent
  <2>1. v.type # type
    BY <1>2 DEF Absent, Value, Types
  <2> DEFINE z == Value(type, Empty)
  <2>2. Holds(type, Empty) /\ z \in Values
    BY EmptyHolds, HoldingIsValue
  <2> HIDE DEF z
  <2>3. Edits(e, SetValue(e, k, z), k, z, e.ok)
    BY <2>2, SetValueEdits
  <2>4. Started(e, k, type) = SetValue(e, k, z)
    BY <2>1 DEF Started, v, z
  <2>5. Content(v) = Empty
    BY <1>2 DEF Content
  <2> QED BY <2>2, <2>3, <2>4, <2>5 DEF v, z
<1>3. CASE v # Absent
  <2>1. v.type = type
    BY <1>3 DEF Fits, v
  <2>2. v = Value(type, v.v) /\ Holds(type, v.v)
    BY <1>1, <1>3, <2>1, ValuesAre
  <2>3. Started(e, k, type) = e /\ Content(v) = v.v
    BY <1>3, <2>1 DEF Started, Content, v
  <2> QED BY <2>2, <2>3, SelfEdits DEF v
<1> QED BY <1>2, <1>3

LEMMA StartedHas ==
    ASSUME NEW e \in Stores, NEW k \in Keys, NEW type \in Types \ {"string"},
           Fits(e.val[k], type)
    PROVE  /\ Started(e, k, type) \in Stores
           /\ Started(e, k, type).val[k] = Value(type, Content(e.val[k]))
           /\ Started(e, k, type).val[k].v = Content(e.val[k])
           /\ Started(e, k, type).ok = e.ok
BY StartedEdits, ValueFields DEF Edits

LEMMA PutOnStarted ==
    ASSUME NEW e \in Stores, NEW k \in Keys, NEW type \in Types \ {"string"},
           Fits(e.val[k], type), NEW w, Holds(type, w)
    PROVE  /\ Edits(e, Put(Started(e, k, type), k, w), k, Value(type, w), e.ok)
           /\ Put(Started(e, k, type), k, w).ok = e.ok
<1> DEFINE s == Started(e, k, type)
           z == Value(type, Content(e.val[k]))
           f == Put(s, k, w)
<1>1. Edits(e, s, k, z, e.ok) /\ z.type = type /\ type \in Types
  BY StartedEdits, ValueFields
<1> HIDE DEF s, z
<1>2. s \in Stores /\ s.val[k].type = type /\ s.ok = e.ok
  BY <1>1 DEF Edits
<1>3. Edits(s, f, k, Value(type, w), e.ok)
  BY <1>1, <1>2, PutEdits
<1> HIDE DEF f
<1>4. Edits(e, f, k, Value(type, w), e.ok)
  BY <1>1, <1>3, EditsTwice
<1>5. f.ok = e.ok
  BY <1>4 DEF Edits
<1> QED BY <1>4, <1>5 DEF f, s

\* The handlers that change a value that is there.
LEMMA PutOnThere ==
    ASSUME NEW e \in Stores, NEW k \in Keys, NEW type \in Types,
           e.val[k].type = type, NEW w, Holds(type, w)
    PROVE  Edits(e, Put(e, k, w), k, Value(type, w), Put(e, k, w).ok)
<1> DEFINE f == Put(e, k, w)
<1>1. Edits(e, f, k, Value(type, w), e.ok)
  BY PutEdits
<1> HIDE DEF f
<1>2. f.ok = e.ok
  BY <1>1 DEF Edits
<1> QED BY <1>1, <1>2 DEF f

\* What Drop leaves of a value.
Dropped(x, S) ==
    IF DOMAIN x.v \subseteq S THEN Absent ELSE Value(x.type, Without(x.v, S))

LEMMA WithoutHolds ==
    ASSUME NEW type \in Types \ {"string"}, NEW v, Holds(type, v), NEW S
    PROVE  Holds(type, Without(v, S))
BY WithoutIsPartial DEF Holds, Types

LEMMA DropEdits ==
    ASSUME NEW e \in Stores, NEW k \in Keys, NEW type \in Types \ {"string"},
           e.val[k].type = type, NEW S
    PROVE  Edits(e, Drop(e, k, S), k, Dropped(e.val[k], S), Drop(e, k, S).ok)
<1> DEFINE v == e.val[k]
           w == Without(v.v, S)
<1>1. v \in Values /\ v.type \in Types /\ v.type # "none"
  BY StoreFields DEF Types
<1>2. Holds(type, v.v)
  BY <1>1, ValuesAre
<1>3. Holds(type, w)
  BY <1>2, WithoutHolds
<1>4. CASE DOMAIN v.v \subseteq S
  <2>1. Drop(e, k, S) = DeleteKey(e, k) /\ Dropped(v, S) = Absent
    BY <1>4 DEF Drop, Dropped, MembersOf
  <2>2. Edits(e, DeleteKey(e, k), k, Absent, e.ok)
    BY DeleteKeyEdits
  <2>3. DeleteKey(e, k).ok = e.ok
    BY <2>2 DEF Edits
  <2> QED BY <2>1, <2>2, <2>3
<1>5. CASE ~(DOMAIN v.v \subseteq S)
  <2>1. Drop(e, k, S) = Put(e, k, w) /\ Dropped(v, S) = Value(type, w)
    BY <1>5 DEF Drop, Dropped, MembersOf
  <2> HIDE DEF w
  <2>2. Edits(e, Put(e, k, w), k, Value(type, w), Put(e, k, w).ok)
    BY <1>3, PutOnThere
  <2> QED BY <2>1, <2>2
<1> QED BY <1>4, <1>5

LEMMA UpdateRuns ==
    ASSUME NEW d \in Stores, NEW c \in Stores, c.due = {}, NEW k \in Keys,
           NEW type \in Types \ {"string"}, NEW f, NEW w, NEW g, NEW z,
           Touches(d, f, k, Fits(At(d, k), type), Value(type, w)),
           Touches(c, g, k, Fits(At(c, k), type), Value(type, z)),
           At(d, k) = At(c, k) => w = z
    PROVE  Runs(d, f, c, g, {k}, {})
<1> DEFINE x == Value(type, w)
           y == Value(type, z)
           p == Fits(At(d, k), type)
           q == Fits(At(c, k), type)
<1>1. p => At(d, k).type # "string" /\ (x = Absent => k \in {})
  BY ValueFields DEF Fits, Absent, Types
<1>2. At(d, k) = At(c, k) => x = y /\ (p <=> q)
  OBVIOUS
<1>3. Touches(d, f, k, p, x) /\ Touches(c, g, k, q, y)
  OBVIOUS
<1> HIDE DEF x, y, p, q
<1> QED BY <1>1, <1>2, <1>3, TouchRuns

LEMMA ChangeRuns ==
    ASSUME NEW d \in Stores, NEW c \in Stores, c.due = {}, NEW k \in Keys,
           NEW type \in Types \ {"string"}, NEW f, NEW x, NEW g, NEW y, NEW O,
           Touches(d, f, k, At(d, k).type = type, x),
           Touches(c, g, k, At(c, k).type = type, y),
           At(d, k).type = type /\ x = Absent => k \in O,
           At(d, k) = At(c, k) => x = y
    PROVE  Runs(d, f, c, g, {k}, O)
<1> DEFINE p == At(d, k).type = type
           q == At(c, k).type = type
<1>1. p => At(d, k).type # "string" /\ (x = Absent => k \in O)
  BY DEF Types
<1>2. At(d, k) = At(c, k) => x = y /\ (p <=> q)
  OBVIOUS
<1>3. Touches(d, f, k, p, x) /\ Touches(c, g, k, q, y)
  OBVIOUS
<1> HIDE DEF p, q
<1> QED BY <1>1, <1>2, <1>3, TouchRuns

\* The value a handler finds, in the words of its definition.
LEMMA Found ==
    ASSUME NEW d \in Stores, NEW k \in Keys
    PROVE  LET e == ExpireIfNeed(d, k) IN
           /\ e \in Stores /\ e.val[k] \in Values /\ At(d, k) = e.val[k]
           /\ Has(e, k) <=> e.val[k] # Absent
           /\ e.val[k].type # "none" => e.val[k] # Absent
           /\ e.val[k].type = "none" <=> e.val[k] = Absent
<1> DEFINE e == ExpireIfNeed(d, k)
           v == e.val[k]
<1>1. e \in Stores /\ v \in Values /\ At(d, k) = v
  BY LookupIsStore DEF At
<1>2. v.type = "none" <=> v = Absent
  <2> HIDE DEF v
  <2> QED BY <1>1, ValuesAre DEF Types, Absent, Value
<1> QED BY <1>1, <1>2 DEF Has

\* What a handler that has begun with an empty value may end with.
Outcome(s, f, k, start, w) ==
    \/ f = Put(s, k, w) \/ f = Fail(Put(s, k, w))
    \/ w = start /\ (f = s \/ f = Fail(s))

LEMMA OutcomeEdits ==
    ASSUME NEW e \in Stores, NEW k \in Keys, NEW type \in Types \ {"string"},
           Fits(e.val[k], type), NEW w, Holds(type, w), NEW f,
           Outcome(Started(e, k, type), f, k, Content(e.val[k]), w)
    PROVE  Edits(e, f, k, Value(type, w), f.ok)
<1> DEFINE s == Started(e, k, type)
           z == Value(type, w)
           p == Put(s, k, w)
<1>1. Edits(e, p, k, z, e.ok) /\ p \in Stores
  <2>1. Edits(e, p, k, z, e.ok)
    BY PutOnStarted
  <2> QED BY <2>1 DEF Edits
<1>2. w = Content(e.val[k]) => Edits(e, s, k, z, e.ok) /\ s \in Stores
  BY StartedEdits DEF Edits
<1>3. \/ f \in {p, Fail(p)}
      \/ w = Content(e.val[k]) /\ f \in {s, Fail(s)}
  BY DEF Outcome
<1> HIDE DEF s, z, p
<1>4. ASSUME NEW g \in Stores, Edits(e, g, k, z, e.ok)
      PROVE  Edits(e, g, k, z, g.ok) /\ Edits(e, Fail(g), k, z, Fail(g).ok)
  <2>1. g.ok = e.ok /\ g.val[k] = z
    BY <1>4 DEF Edits
  <2> DEFINE h == Fail(g)
  <2>2. Edits(g, h, k, g.val[k], FALSE)
    BY FailEdits
  <2> HIDE DEF h
  <2>3. Edits(e, h, k, g.val[k], FALSE) /\ h.ok = FALSE
    BY <1>4, <2>2, EditsTwice DEF Edits
  <2> QED BY <1>4, <2>1, <2>3 DEF h
<1> QED BY <1>1, <1>2, <1>3, <1>4 DEF z

LEMMA UpdateTouches ==
    ASSUME NEW r \in Stores, NEW k \in Keys, NEW type \in Types \ {"string"},
           NEW f, NEW w,
           Fits(At(r, k), type) =>
             /\ Holds(type, w)
             /\ Outcome(Started(ExpireIfNeed(r, k), k, type), f, k,
                        Content(At(r, k)), w),
           ~Fits(At(r, k), type) => f = Fail(ExpireIfNeed(r, k))
    PROVE  Touches(r, f, k, Fits(At(r, k), type), Value(type, w))
<1> DEFINE e == ExpireIfNeed(r, k)
<1>1. e \in Stores /\ At(r, k) = e.val[k]
  BY LookupIsStore DEF At
<1> HIDE DEF e
<1>2. Fits(e.val[k], type) => Edits(e, f, k, Value(type, w), f.ok)
  BY <1>1, OutcomeEdits DEF e
<1> QED BY <1>1, <1>2 DEF Touches, e

LEMMA Starts ==
    ASSUME NEW r \in Stores, NEW k \in Keys, NEW type \in Types \ {"string"},
           Fits(At(r, k), type)
    PROVE  /\ Started(ExpireIfNeed(r, k), k, type).val[k].v = Content(At(r, k))
           /\ Holds(type, Content(At(r, k)))
<1> DEFINE e == ExpireIfNeed(r, k)
<1>1. e \in Stores /\ At(r, k) = e.val[k]
  BY LookupIsStore DEF At
<1> HIDE DEF e
<1> QED BY <1>1, StartedHas, StartedEdits DEF e

LEMMA SAddRuns ==
    ASSUME NEW d \in Stores, NEW c \in Stores, c.due = {}, NEW k \in Keys,
           NEW S \in SUBSET Members
    PROVE  Runs(d, SAdd(d, k, S), c, SAdd(c, k, S), {k}, {})
<1> DEFINE C(r) == SAdd(r, k, S)
           W(r) == With(Content(At(r, k)), S, 0)
<1>1. ASSUME NEW r \in Stores
      PROVE  Touches(r, C(r), k, Fits(At(r, k), "set"), Value("set", W(r)))
  <2> DEFINE e == ExpireIfNeed(r, k)
             s == Started(e, k, "set")
  <2>1. C(r) = IF Fits(At(r, k), "set")
               THEN Put(s, k, With(s.val[k].v, S, 0))
               ELSE Fail(e)
    BY Found DEF SAdd, Update, Started, Fits, Has, At
  <2>2. ASSUME Fits(At(r, k), "set")
        PROVE  /\ s.val[k].v = Content(At(r, k)) /\ Holds("set", W(r))
               /\ Outcome(s, C(r), k, Content(At(r, k)), W(r))
    <3>1. s.val[k].v = Content(At(r, k)) /\ Holds("set", Content(At(r, k)))
      BY <2>2, Starts DEF Types
    <3>2. Holds("set", W(r))
      BY <3>1, WithIsPartial DEF Holds
    <3> HIDE DEF s, e, C
    <3> QED BY <2>1, <2>2, <3>1, <3>2 DEF Outcome
  <2> HIDE DEF C, W
  <2> QED BY <2>1, <2>2, UpdateTouches DEF Types
<1>2. /\ Touches(d, C(d), k, Fits(At(d, k), "set"), Value("set", W(d)))
      /\ Touches(c, C(c), k, Fits(At(c, k), "set"), Value("set", W(c)))
      /\ At(d, k) = At(c, k) => W(d) = W(c)
      /\ "set" \in Types \ {"string"}
  BY <1>1 DEF Types
<1> HIDE DEF C, W
<1>3. Runs(d, C(d), c, C(c), {k}, {})
  BY <1>2, UpdateRuns
<1> QED BY <1>3 DEF C

LEMMA HSetRuns ==
    ASSUME NEW d \in Stores, NEW c \in Stores, c.due = {}, NEW k \in Keys,
           NEW F \in SUBSET Fields, NEW n \in Inputs
    PROVE  Runs(d, HSet(d, k, F, n), c, HSet(c, k, F, n), {k}, {})
<1> DEFINE C(r) == HSet(r, k, F, n)
           W(r) == With(Content(At(r, k)), F, n)
<1>1. ASSUME NEW r \in Stores
      PROVE  Touches(r, C(r), k, Fits(At(r, k), "hash"), Value("hash", W(r)))
  <2> DEFINE e == ExpireIfNeed(r, k)
             s == Started(e, k, "hash")
  <2>1. C(r) = IF Fits(At(r, k), "hash")
               THEN Put(s, k, With(s.val[k].v, F, n))
               ELSE Fail(e)
    BY Found DEF HSet, Update, Started, Fits, Has, At
  <2>2. ASSUME Fits(At(r, k), "hash")
        PROVE  /\ s.val[k].v = Content(At(r, k)) /\ Holds("hash", W(r))
               /\ Outcome(s, C(r), k, Content(At(r, k)), W(r))
    <3>1. s.val[k].v = Content(At(r, k)) /\ Holds("hash", Content(At(r, k)))
      BY <2>2, Starts DEF Types
    <3>2. Holds("hash", W(r))
      BY <3>1, WithIsPartial, ContentsAre DEF Holds
    <3> HIDE DEF s, e, C
    <3> QED BY <2>1, <2>2, <3>1, <3>2 DEF Outcome
  <2> HIDE DEF C, W
  <2> QED BY <2>1, <2>2, UpdateTouches DEF Types
<1>2. /\ Touches(d, C(d), k, Fits(At(d, k), "hash"), Value("hash", W(d)))
      /\ Touches(c, C(c), k, Fits(At(c, k), "hash"), Value("hash", W(c)))
      /\ At(d, k) = At(c, k) => W(d) = W(c)
      /\ "hash" \in Types \ {"string"}
  BY <1>1 DEF Types
<1> HIDE DEF C, W
<1>3. Runs(d, C(d), c, C(c), {k}, {})
  BY <1>2, UpdateRuns
<1> QED BY <1>3 DEF C

LEMMA HSetNxRuns ==
    ASSUME NEW d \in Stores, NEW c \in Stores, c.due = {}, NEW k \in Keys,
           NEW f \in Fields, NEW n \in Inputs
    PROVE  Runs(d, HSetNx(d, k, f, n), c, HSetNx(c, k, f, n), {k}, {})
<1> DEFINE C(r) == HSetNx(r, k, f, n)
           W(r) == IF f \in DOMAIN Content(At(r, k)) THEN Content(At(r, k))
                   ELSE With(Content(At(r, k)), {f}, n)
<1>1. ASSUME NEW r \in Stores
      PROVE  Touches(r, C(r), k, Fits(At(r, k), "hash"), Value("hash", W(r)))
  <2> DEFINE e == ExpireIfNeed(r, k)
             s == Started(e, k, "hash")
  <2>1. C(r) = IF Fits(At(r, k), "hash")
               THEN IF f \in DOMAIN s.val[k].v THEN s
                    ELSE Put(s, k, With(s.val[k].v, {f}, n))
               ELSE Fail(e)
    BY Found DEF HSetNx, Update, Started, Fits, Has, MembersOf, At
  <2>2. ASSUME Fits(At(r, k), "hash")
        PROVE  /\ s.val[k].v = Content(At(r, k)) /\ Holds("hash", W(r))
               /\ Outcome(s, C(r), k, Content(At(r, k)), W(r))
    <3>1. s.val[k].v = Content(At(r, k)) /\ Holds("hash", Content(At(r, k)))
      BY <2>2, Starts DEF Types
    <3>2. Holds("hash", W(r))
      BY <3>1, WithIsPartial, ContentsAre DEF Holds
    <3> HIDE DEF s, e, C
    <3> QED BY <2>1, <2>2, <3>1, <3>2 DEF Outcome
  <2> HIDE DEF C, W
  <2> QED BY <2>1, <2>2, UpdateTouches DEF Types
<1>2. /\ Touches(d, C(d), k, Fits(At(d, k), "hash"), Value("hash", W(d)))
      /\ Touches(c, C(c), k, Fits(At(c, k), "hash"), Value("hash", W(c)))
      /\ At(d, k) = At(c, k) => W(d) = W(c)
      /\ "hash" \in Types \ {"string"}
  BY <1>1 DEF Types
<1> HIDE DEF C, W
<1>3. Runs(d, C(d), c, C(c), {k}, {})
  BY <1>2, UpdateRuns
<1> QED BY <1>3 DEF C

LEMMA HIncrByFloatRuns ==
    ASSUME NEW d \in Stores, NEW c \in Stores, c.due = {}, NEW k \in Keys,
           NEW f \in Fields
    PROVE  Runs(d, HIncrByFloat(d, k, f), c, HIncrByFloat(c, k, f), {k}, {})
<1> DEFINE C(r) == HIncrByFloat(r, k, f)
           W(r) == IF /\ f \in DOMAIN Content(At(r, k))
                      /\ Content(At(r, k))[f] = Text
                   THEN Content(At(r, k))
                   ELSE With(Content(At(r, k)), {f}, Fraction)
<1>1. ASSUME NEW r \in Stores
      PROVE  Touches(r, C(r), k, Fits(At(r, k), "hash"), Value("hash", W(r)))
  <2> DEFINE e == ExpireIfNeed(r, k)
             s == Started(e, k, "hash")
  <2>1. C(r) = IF Fits(At(r, k), "hash")
               THEN IF f \in DOMAIN s.val[k].v /\ s.val[k].v[f] = Text THEN Fail(s)
                    ELSE Put(s, k, With(s.val[k].v, {f}, Fraction))
               ELSE Fail(e)
    BY Found DEF HIncrByFloat, Update, Started, Fits, Has, MembersOf, At
  <2>2. ASSUME Fits(At(r, k), "hash")
        PROVE  /\ s.val[k].v = Content(At(r, k)) /\ Holds("hash", W(r))
               /\ Outcome(s, C(r), k, Content(At(r, k)), W(r))
    <3>1. s.val[k].v = Content(At(r, k)) /\ Holds("hash", Content(At(r, k)))
      BY <2>2, Starts DEF Types
    <3>2. Holds("hash", W(r))
      BY <3>1, WithIsPartial, ContentsAre DEF Holds
    <3> HIDE DEF s, e, C
    <3> QED BY <2>1, <2>2, <3>1, <3>2 DEF Outcome
  <2> HIDE DEF C, W
  <2> QED BY <2>1, <2>2, UpdateTouches DEF Types
<1>2. /\ Touches(d, C(d), k, Fits(At(d, k), "hash"), Value("hash", W(d)))
      /\ Touches(c, C(c), k, Fits(At(c, k), "hash"), Value("hash", W(c)))
      /\ At(d, k) = At(c, k) => W(d) = W(c)
      /\ "hash" \in Types \ {"string"}
  BY <1>1 DEF Types
<1> HIDE DEF C, W
<1>3. Runs(d, C(d), c, C(c), {k}, {})
  BY <1>2, UpdateRuns
<1> QED BY <1>3 DEF C

LEMMA ZAddRuns ==
    ASSUME NEW d \in Stores, NEW c \in Stores, c.due = {}, NEW k \in Keys,
           NEW S \in SUBSET Members, NEW n \in 0 .. MaxInt, NEW nan \in BOOLEAN
    PROVE  Runs(d, ZAdd(d, k, S, n, nan), c, ZAdd(c, k, S, n, nan), {k}, {})
<1> DEFINE C(r) == ZAdd(r, k, S, n, nan)
           W(r) == With(Content(At(r, k)), S \ DOMAIN Content(At(r, k)), n)
<1>1. ASSUME NEW r \in Stores
      PROVE  Touches(r, C(r), k, Fits(At(r, k), "zset"), Value("zset", W(r)))
  <2> DEFINE e == ExpireIfNeed(r, k)
             s == Started(e, k, "zset")
  <2>1. C(r) = IF Fits(At(r, k), "zset")
               THEN LET z == Put(s, k, With(s.val[k].v, S \ DOMAIN s.val[k].v, n))
                    IN  IF nan THEN Fail(z) ELSE z
               ELSE Fail(e)
    BY Found DEF ZAdd, Update, Started, Fits, Has, MembersOf, At
  <2>2. ASSUME Fits(At(r, k), "zset")
        PROVE  /\ s.val[k].v = Content(At(r, k)) /\ Holds("zset", W(r))
               /\ Outcome(s, C(r), k, Content(At(r, k)), W(r))
    <3>1. s.val[k].v = Content(At(r, k)) /\ Holds("zset", Content(At(r, k)))
      BY <2>2, Starts DEF Types
    <3>2. Holds("zset", W(r))
      BY <3>1, WithIsPartial DEF Holds
    <3> HIDE DEF s, e, C
    <3> QED BY <2>1, <2>2, <3>1, <3>2 DEF Outcome
  <2> HIDE DEF C, W
  <2> QED BY <2>1, <2>2, UpdateTouches DEF Types
<1>2. /\ Touches(d, C(d), k, Fits(At(d, k), "zset"), Value("zset", W(d)))
      /\ Touches(c, C(c), k, Fits(At(c, k), "zset"), Value("zset", W(c)))
      /\ At(d, k) = At(c, k) => W(d) = W(c)
      /\ "zset" \in Types \ {"string"}
  BY <1>1 DEF Types
<1> HIDE DEF C, W
<1>3. Runs(d, C(d), c, C(c), {k}, {})
  BY <1>2, UpdateRuns
<1> QED BY <1>3 DEF C

\* The number a field or a member begins with.
Number(v, m) == IF m \in DOMAIN v THEN v[m] ELSE 0

LEMMA NumberOf ==
    ASSUME NEW A, NEW R \in SUBSET Nat, NEW v \in Partial(A, R), NEW m, 0 \in R
    PROVE  Number(v, m) \in R
BY PartialIs DEF Number

LEMMA HIncrByRuns ==
    ASSUME NEW d \in Stores, NEW c \in Stores, c.due = {}, NEW k \in Keys,
           NEW f \in Fields, NEW delta \in {-1, 1}
    PROVE  Runs(d, HIncrBy(d, k, f, delta), c, HIncrBy(c, k, f, delta), {k}, {})
<1> DEFINE C(r) == HIncrBy(r, k, f, delta)
           V(r) == Content(At(r, k))
           W(r) == IF Number(V(r), f) > MaxInt THEN V(r)
                   ELSE With(V(r), {f}, Wrap(Number(V(r), f) + delta))
<1>1. ASSUME NEW r \in Stores
      PROVE  Touches(r, C(r), k, Fits(At(r, k), "hash"), Value("hash", W(r)))
  <2> DEFINE e == ExpireIfNeed(r, k)
             s == Started(e, k, "hash")
  <2>1. C(r) = IF Fits(At(r, k), "hash")
               THEN LET n == Number(s.val[k].v, f)
                    IN  IF n > MaxInt THEN Fail(s)
                        ELSE Put(s, k, With(s.val[k].v, {f}, Wrap(n + delta)))
               ELSE Fail(e)
    BY Found DEF HIncrBy, Update, Started, Fits, Has, MembersOf, At, Number
  <2>2. ASSUME Fits(At(r, k), "hash")
        PROVE  /\ s.val[k].v = V(r) /\ Holds("hash", W(r))
               /\ Outcome(s, C(r), k, V(r), W(r))
    <3>1. s.val[k].v = V(r) /\ Holds("hash", V(r))
      BY <2>2, Starts DEF Types
    <3>2. V(r) \in Partial(Fields, Given)
      BY <3>1 DEF Holds
    <3>3. Given \in SUBSET Nat /\ 0 \in Given /\ 0 .. MaxInt \subseteq Given
      BY ContentsAre, MaxIntAssumption
    <3> DEFINE v == V(r)
               n == Number(v, f)
    <3> HIDE DEF v
    <3>4. n \in Given
      BY <3>2, <3>3, NumberOf DEF v
    <3> HIDE DEF n
    <3>5. Wrap(n + delta) \in Given
      BY <3>3, <3>4, WrapFits
    <3>6. With(v, {f}, Wrap(n + delta)) \in Partial(Fields, Given)
      BY <3>2, <3>5, WithIsPartial DEF v
    <3>7. W(r) = IF n > MaxInt THEN v ELSE With(v, {f}, Wrap(n + delta))
      BY DEF n, v
    <3>8. Holds("hash", W(r))
      BY <3>1, <3>6, <3>7 DEF Holds, v
    <3>9. C(r) = IF n > MaxInt THEN Fail(s)
                 ELSE Put(s, k, With(v, {f}, Wrap(n + delta)))
      BY <2>1, <2>2, <3>1 DEF n, v
    <3> HIDE DEF s, C, W
    <3>10. Outcome(s, C(r), k, v, W(r))
      BY <3>7, <3>9 DEF Outcome
    <3> QED BY <3>1, <3>8, <3>10 DEF v
  <2> HIDE DEF C, W
  <2> QED BY <2>1, <2>2, UpdateTouches DEF Types
<1>2. /\ Touches(d, C(d), k, Fits(At(d, k), "hash"), Value("hash", W(d)))
      /\ Touches(c, C(c), k, Fits(At(c, k), "hash"), Value("hash", W(c)))
      /\ At(d, k) = At(c, k) => W(d) = W(c)
      /\ "hash" \in Types \ {"string"}
  BY <1>1 DEF Types
<1> HIDE DEF C, W
<1>3. Runs(d, C(d), c, C(c), {k}, {})
  BY <1>2, UpdateRuns
<1> QED BY <1>3 DEF C

LEMMA ZIncrByRuns ==
    ASSUME NEW d \in Stores, NEW c \in Stores, c.due = {}, NEW k \in Keys,
           NEW m \in Members, NEW nan \in BOOLEAN
    PROVE  Runs(d, ZIncrBy(d, k, m, 1, nan), c, ZIncrBy(c, k, m, 1, nan), {k}, {})
<1> DEFINE C(r) == ZIncrBy(r, k, m, 1, nan)
           V(r) == Content(At(r, k))
           Top(n) == IF n <= MaxInt THEN n ELSE MaxInt
           W(r) == IF nan THEN V(r)
                   ELSE With(V(r), {m}, Top(Number(V(r), m) + 1))
<1>1. ASSUME NEW r \in Stores
      PROVE  Touches(r, C(r), k, Fits(At(r, k), "zset"), Value("zset", W(r)))
  <2> DEFINE e == ExpireIfNeed(r, k)
             s == Started(e, k, "zset")
  <2>1. C(r) = IF Fits(At(r, k), "zset")
               THEN IF nan THEN Fail(s)
                    ELSE Put(s, k, With(s.val[k].v, {m},
                                        Top(Number(s.val[k].v, m) + 1)))
               ELSE Fail(e)
    BY Found DEF ZIncrBy, Update, Started, Fits, Has, MembersOf, At, Number
  <2>2. ASSUME Fits(At(r, k), "zset")
        PROVE  /\ s.val[k].v = V(r) /\ Holds("zset", W(r))
               /\ Outcome(s, C(r), k, V(r), W(r))
    <3>1. s.val[k].v = V(r) /\ Holds("zset", V(r))
      BY <2>2, Starts DEF Types
    <3>2. V(r) \in Partial(Members, 0 .. MaxInt)
      BY <3>1 DEF Holds
    <3>3. 0 .. MaxInt \in SUBSET Nat /\ 0 \in 0 .. MaxInt
      BY MaxIntAssumption
    <3> DEFINE v == V(r)
               n == Number(v, m)
               t == Top(n + 1)
    <3> HIDE DEF v
    <3>4. n \in 0 .. MaxInt
      BY <3>2, <3>3, NumberOf DEF v
    <3> HIDE DEF n
    <3>5. t \in 0 .. MaxInt
      BY <3>4, MaxIntAssumption
    <3> HIDE DEF t
    <3>6. With(v, {m}, t) \in Partial(Members, 0 .. MaxInt)
      BY <3>2, <3>5, WithIsPartial DEF v
    <3>7. W(r) = IF nan THEN v ELSE With(v, {m}, t)
      BY DEF t, n, v
    <3>8. Holds("zset", W(r))
      BY <3>1, <3>6, <3>7 DEF Holds, v
    <3>9. C(r) = IF nan THEN Fail(s) ELSE Put(s, k, With(v, {m}, t))
      BY <2>1, <2>2, <3>1 DEF t, n, v
    <3> HIDE DEF s, C, W
    <3>10. Outcome(s, C(r), k, v, W(r))
      BY <3>7, <3>9 DEF Outcome
    <3> QED BY <3>1, <3>8, <3>10 DEF v
  <2> HIDE DEF C, W
  <2> QED BY <2>1, <2>2, UpdateTouches DEF Types
<1>2. /\ Touches(d, C(d), k, Fits(At(d, k), "zset"), Value("zset", W(d)))
      /\ Touches(c, C(c), k, Fits(At(c, k), "zset"), Value("zset", W(c)))
      /\ At(d, k) = At(c, k) => W(d) = W(c)
      /\ "zset" \in Types \ {"string"}
  BY <1>1 DEF Types
<1> HIDE DEF C, W
<1>3. Runs(d, C(d), c, C(c), {k}, {})
  BY <1>2, UpdateRuns
<1> QED BY <1>3 DEF C

\* What is left of a value is none only if the handler may delete the key.
LEMMA SRemRuns ==
    ASSUME NEW d \in Stores, NEW c \in Stores, c.due = {}, NEW k \in Keys, NEW S
    PROVE  Runs(d, SRem(d, k, S), c, SRem(c, k, S), {k}, {k})
<1> DEFINE C(r) == SRem(r, k, S)
           X(r) == Dropped(At(r, k), S)
<1>1. ASSUME NEW r \in Stores
      PROVE  Touches(r, C(r), k, At(r, k).type = "set", X(r))
  <2> DEFINE e == ExpireIfNeed(r, k)
  <2>1. C(r) = IF At(r, k).type = "set" THEN Drop(e, k, S) ELSE Fail(e)
    BY DEF SRem, Change, At
  <2>2. e \in Stores /\ At(r, k) = e.val[k]
    BY LookupIsStore DEF At
  <2> HIDE DEF e
  <2>3. e.val[k].type = "set" => Edits(e, Drop(e, k, S), k,
                                       Dropped(e.val[k], S), Drop(e, k, S).ok)
    BY <2>2, DropEdits DEF Types
  <2> QED BY <2>1, <2>2, <2>3 DEF Touches, e
<1>2. /\ Touches(d, C(d), k, At(d, k).type = "set", X(d))
      /\ Touches(c, C(c), k, At(c, k).type = "set", X(c))
      /\ At(d, k) = At(c, k) => X(d) = X(c)
      /\ "set" \in Types \ {"string"}
  BY <1>1 DEF Types
<1> HIDE DEF C, X
<1>3. Runs(d, C(d), c, C(c), {k}, {k})
  BY <1>2, ChangeRuns
<1> QED BY <1>3 DEF C

\* What is propagated of an SPOP is an SREM of the member, or in an EXEC an
\* SPOP again.
LEMMA SPopRuns ==
    ASSUME NEW d \in Stores, NEW c \in Stores, c.due = {}, NEW k \in Keys, NEW m
    PROVE  /\ Runs(d, SPop(d, k, m), c, SRem(c, k, {m}), {k}, {k})
           /\ Runs(d, SPop(d, k, m), c, SPop(c, k, m), {k}, {k})
<1> DEFINE C(r) == SPop(r, k, m)
           B(r) == SRem(r, k, {m})
           X(r) == Dropped(At(r, k), {m})
           P(r) == At(r, k).type = "set" /\ DOMAIN At(r, k).v # {}
           Q(r) == At(r, k).type = "set"
<1>1. ASSUME NEW r \in Stores
      PROVE  Touches(r, C(r), k, P(r), X(r)) /\ Touches(r, B(r), k, Q(r), X(r))
  <2> DEFINE e == ExpireIfNeed(r, k)
             f == Drop(e, k, {m})
  <2>1. /\ C(r) = IF P(r) THEN f ELSE Fail(e)
        /\ B(r) = IF Q(r) THEN f ELSE Fail(e)
    BY DEF SPop, SRem, Change, MembersOf, At
  <2>2. e \in Stores /\ At(r, k) = e.val[k]
    BY LookupIsStore DEF At
  <2> HIDE DEF e
  <2>3. e.val[k].type = "set" => Edits(e, f, k, Dropped(e.val[k], {m}), f.ok)
    BY <2>2, DropEdits DEF Types
  <2> HIDE DEF f
  <2> QED BY <2>1, <2>2, <2>3 DEF Touches, e
<1>2. /\ Touches(d, C(d), k, P(d), X(d))
      /\ Touches(c, C(c), k, P(c), X(c)) /\ Touches(c, B(c), k, Q(c), X(c))
  BY <1>1
<1>3. /\ P(d) => At(d, k).type # "string" /\ (X(d) = Absent => k \in {k})
      /\ P(d) /\ At(d, k) = At(c, k) => X(d) = X(c) /\ P(c) /\ Q(c)
  OBVIOUS
<1> DEFINE pd == P(d)
           pc == P(c)
           qc == Q(c)
<1> HIDE DEF C, B, X, pd, pc, qc
<1>4. Runs(d, C(d), c, C(c), {k}, {k})
  <2>1. Touches(d, C(d), k, pd, X(d)) /\ Touches(c, C(c), k, pc, X(c))
    BY <1>2 DEF pd, pc
  <2>2. /\ pd => At(d, k).type # "string" /\ (X(d) = Absent => k \in {k})
        /\ pd /\ At(d, k) = At(c, k) => X(d) = X(c) /\ pc
    BY <1>3 DEF pd, pc
  <2> QED BY <2>1, <2>2, TouchRuns
<1>5. Runs(d, C(d), c, B(c), {k}, {k})
  <2>1. Touches(d, C(d), k, pd, X(d)) /\ Touches(c, B(c), k, qc, X(c))
    BY <1>2 DEF pd, qc
  <2>2. /\ pd => At(d, k).type # "string" /\ (X(d) = Absent => k \in {k})
        /\ pd /\ At(d, k) = At(c, k) => X(d) = X(c) /\ qc
    BY <1>3 DEF pd, qc
  <2> QED BY <2>1, <2>2, TouchRuns
<1> QED BY <1>4, <1>5 DEF C, B

\* HDEL and ZREM leave an empty value.
LEMMA TakenRuns ==
    ASSUME NEW d \in Stores, NEW c \in Stores, c.due = {}, NEW k \in Keys,
           NEW type \in {"hash", "zset"}, NEW S, NEW f, NEW g,
           f = IF At(d, k).type = type
               THEN Put(ExpireIfNeed(d, k), k, Without(At(d, k).v, S))
               ELSE Fail(ExpireIfNeed(d, k)),
           g = IF At(c, k).type = type
               THEN Put(ExpireIfNeed(c, k), k, Without(At(c, k).v, S))
               ELSE Fail(ExpireIfNeed(c, k))
    PROVE  Runs(d, f, c, g, {k}, {})
<1> DEFINE X(r) == Value(type, Without(At(r, k).v, S))
<1>1. ASSUME NEW r \in Stores, NEW h,
             h = IF At(r, k).type = type
                 THEN Put(ExpireIfNeed(r, k), k, Without(At(r, k).v, S))
                 ELSE Fail(ExpireIfNeed(r, k))
      PROVE  Touches(r, h, k, At(r, k).type = type, X(r))
  <2> DEFINE e == ExpireIfNeed(r, k)
             v == e.val[k]
             w == Without(v.v, S)
  <2>1. e \in Stores /\ At(r, k) = v /\ v \in Values
    BY LookupIsStore DEF At
  <2>2. h = IF v.type = type THEN Put(e, k, w) ELSE Fail(e)
    BY <1>1, <2>1
  <2> HIDE DEF e
  <2>3. CASE v.type = type
    <3>1. type \in Types /\ v # Absent /\ type # "string"
      BY <2>3, ValueFields DEF Types, Absent
    <3>2. Holds(type, v.v)
      BY <2>1, <2>3, <3>1, ValuesAre
    <3>3. Holds(type, w)
      BY <3>1, <3>2, WithoutHolds
    <3> HIDE DEF w
    <3>4. Edits(e, Put(e, k, w), k, Value(type, w), Put(e, k, w).ok)
      BY <2>1, <2>3, <3>1, <3>3, PutOnThere
    <3> QED BY <2>1, <2>2, <2>3, <3>4 DEF Touches, e, w
  <2>4. CASE v.type # type
    BY <2>1, <2>2, <2>4 DEF Touches, e
  <2> QED BY <2>3, <2>4
<1>2. /\ Touches(d, f, k, At(d, k).type = type, X(d))
      /\ Touches(c, g, k, At(c, k).type = type, X(c))
  BY <1>1
<1>3. X(d) # Absent
  BY ValueFields DEF Absent
<1>4. /\ At(d, k).type = type /\ X(d) = Absent => k \in {}
      /\ At(d, k) = At(c, k) => X(d) = X(c)
      /\ type \in Types \ {"string"}
  BY <1>3 DEF Types
<1> DEFINE x == X(d)
           y == X(c)
<1> HIDE DEF x, y
<1>5. /\ Touches(d, f, k, At(d, k).type = type, x)
      /\ Touches(c, g, k, At(c, k).type = type, y)
      /\ At(d, k).type = type /\ x = Absent => k \in {}
      /\ At(d, k) = At(c, k) => x = y
  BY <1>2, <1>4 DEF x, y
<1> QED BY ONLY <1>4, <1>5, ChangeRuns, c.due = {}, d \in Stores, c \in Stores,
                k \in Keys

LEMMA HDelRuns ==
    ASSUME NEW d \in Stores, NEW c \in Stores, c.due = {}, NEW k \in Keys, NEW F
    PROVE  Runs(d, HDel(d, k, F), c, HDel(c, k, F), {k}, {})
<1> DEFINE f == HDel(d, k, F)
           g == HDel(c, k, F)
<1>1. /\ f = IF At(d, k).type = "hash"
             THEN Put(ExpireIfNeed(d, k), k, Without(At(d, k).v, F))
             ELSE Fail(ExpireIfNeed(d, k))
      /\ g = IF At(c, k).type = "hash"
             THEN Put(ExpireIfNeed(c, k), k, Without(At(c, k).v, F))
             ELSE Fail(ExpireIfNeed(c, k))
  BY DEF HDel, Change, At
<1> HIDE DEF f, g
<1>2. Runs(d, f, c, g, {k}, {})
  BY <1>1, TakenRuns
<1> QED BY <1>2 DEF f, g

LEMMA ZRemRuns ==
    ASSUME NEW d \in Stores, NEW c \in Stores, c.due = {}, NEW k \in Keys, NEW S
    PROVE  Runs(d, ZRem(d, k, S), c, ZRem(c, k, S), {k}, {})
<1> DEFINE f == ZRem(d, k, S)
           g == ZRem(c, k, S)
<1>1. /\ f = IF At(d, k).type = "zset"
             THEN Put(ExpireIfNeed(d, k), k, Without(At(d, k).v, S))
             ELSE Fail(ExpireIfNeed(d, k))
      /\ g = IF At(c, k).type = "zset"
             THEN Put(ExpireIfNeed(c, k), k, Without(At(c, k).v, S))
             ELSE Fail(ExpireIfNeed(c, k))
  BY DEF ZRem, Change, At
<1> HIDE DEF f, g
<1>2. Runs(d, f, c, g, {k}, {})
  BY <1>1, TakenRuns
<1> QED BY <1>2 DEF f, g

\* The members of a sorted set that are in a range of ranks or of scores.
InRange(v, by, lo, hi) ==
    {m \in DOMAIN v : (IF by = "rank" THEN Rank(v, m) ELSE v[m]) \in lo .. hi}

LEMMA ZRemRangeRuns ==
    ASSUME NEW d \in Stores, NEW c \in Stores, c.due = {}, NEW k \in Keys,
           NEW by, NEW lo, NEW hi
    PROVE  Runs(d, ZRemRange(d, k, by, lo, hi), c, ZRemRange(c, k, by, lo, hi),
                {k}, {k})
<1> DEFINE C(r) == ZRemRange(r, k, by, lo, hi)
           S(r) == InRange(At(r, k).v, by, lo, hi)
           X(r) == IF S(r) = {} THEN At(r, k) ELSE Dropped(At(r, k), S(r))
<1>1. ASSUME NEW r \in Stores
      PROVE  Touches(r, C(r), k, At(r, k).type = "zset", X(r))
  <2> DEFINE e == ExpireIfNeed(r, k)
             T == InRange(e.val[k].v, by, lo, hi)
  <2>1. C(r) = IF At(r, k).type = "zset"
               THEN IF T = {} THEN e ELSE Drop(e, k, T) ELSE Fail(e)
    BY DEF ZRemRange, Change, At, InRange
  <2>2. e \in Stores /\ At(r, k) = e.val[k] /\ S(r) = T
    BY LookupIsStore DEF At
  <2> HIDE DEF e, T
  <2>3. e.val[k].type = "zset" => Edits(e, Drop(e, k, T), k,
                                        Dropped(e.val[k], T), Drop(e, k, T).ok)
    BY <2>2, DropEdits DEF Types
  <2>4. Edits(e, e, k, e.val[k], e.ok)
    BY <2>2, SelfEdits
  <2> HIDE DEF C, S
  <2> QED BY <2>1, <2>2, <2>3, <2>4 DEF Touches, e
<1>2. /\ Touches(d, C(d), k, At(d, k).type = "zset", X(d))
      /\ Touches(c, C(c), k, At(c, k).type = "zset", X(c))
      /\ At(d, k) = At(c, k) => X(d) = X(c)
      /\ "zset" \in Types \ {"string"}
  BY <1>1 DEF Types
<1> HIDE DEF C, X
<1>3. Runs(d, C(d), c, C(c), {k}, {k})
  BY <1>2, ChangeRuns
<1> QED BY <1>3 DEF C

-----------------------------------------------------------------------------
(***************************************************************************)
(* Handlers of two keys.                                                   *)
(***************************************************************************)
\* A lookup on a copy, where no deadline passes, changes nothing.
LEMMA CopyLooks ==
    ASSUME NEW c \in Stores, c.due = {}, NEW k \in Keys
    PROVE  ExpireIfNeed(c, k) = c
BY DEF ExpireIfNeed

LEMMA SMoveRuns ==
    ASSUME NEW d \in Stores, NEW c \in Stores, c.due = {}, d.ok,
           NEW src \in Keys, NEW dst \in Keys, NEW m \in Members
    PROVE  Runs(d, SMove(d, src, dst, m), c, SMove(c, src, dst, m), {src, dst}, {})
<1> DEFINE S == {src, dst}
           E(r) == ExpireIfNeed(r, src)
           w(r) == Without(At(r, src).v, {m})
           P(r) == Put(E(r), src, w(r))
           C(r) == SMove(r, src, dst, m)
           Moves(r) == At(r, src).type = "set" /\ m \in DOMAIN At(r, src).v
<1>1. ASSUME NEW r \in Stores
      PROVE  /\ E(r) \in Stores /\ Looks(r, E(r), src) /\ At(r, src) = E(r).val[src]
             /\ C(r) = IF Moves(r) THEN SAdd(P(r), dst, {m})
                       ELSE IF At(r, src).type = "set" THEN E(r) ELSE Fail(E(r))
             /\ Moves(r) => Edits(E(r), P(r), src, Value("set", w(r)), E(r).ok)
  <2>1. E(r) \in Stores /\ Looks(r, E(r), src) /\ At(r, src) = E(r).val[src]
    BY LookupIsStore, ExpireIfNeedLooks DEF At
  <2>2. C(r) = IF Moves(r) THEN SAdd(P(r), dst, {m})
               ELSE IF At(r, src).type = "set" THEN E(r) ELSE Fail(E(r))
    BY DEF SMove, Change, MembersOf, At
  <2>3. ASSUME Moves(r)
        PROVE  Edits(E(r), P(r), src, Value("set", w(r)), E(r).ok)
    <3> DEFINE e == E(r)
               u == w(r)
    <3> HIDE DEF e, u
    <3>1. e \in Stores /\ e.val[src].type = "set" /\ "set" \in Types \ {"string"}
      BY <2>1, <2>3 DEF Types, e
    <3>2. Holds("set", At(r, src).v)
      BY <2>1, <2>3, <3>1, ValuesAre, LookupIsStore DEF Absent, Value, Types
    <3>3. Holds("set", u)
      BY <3>1, <3>2, WithoutHolds DEF u
    <3>4. Edits(e, Put(e, src, u), src, Value("set", u), e.ok)
      BY <3>1, <3>3, PutEdits
    <3> QED BY <3>4 DEF e, u
  <2> QED BY <2>1, <2>2, <2>3
<1> HIDE DEF C
<1>2. ASSUME NEW r \in Stores, Moves(r)
      PROVE  P(r) \in Stores /\ Works(r, P(r), S, {}) /\ P(r).dirty = r.dirty
  <2> DEFINE e == E(r)
             p == P(r)
             z == Value("set", w(r))
  <2>1. /\ e \in Stores /\ Looks(r, e, src) /\ Edits(e, p, src, z, e.ok)
        /\ z # Absent
    BY <1>1, <1>2, ValueFields DEF Absent
  <2> HIDE DEF e, p, z
  <2>2. Works(r, e, S, {})
    BY <2>1, LookWorks
  <2>3. Works(e, p, S, {})
    BY <2>1, EditWorks
  <2>4. Works(r, p, S, {})
    BY <2>2, <2>3, WorksTwice
  <2> QED BY <2>1, <2>4 DEF Edits, Looks, p
<1>3. ASSUME NEW r \in Stores
      PROVE  Works(r, C(r), S, {}) /\ C(r).dirty = r.dirty /\ C(r) \in Stores
  <2>1. CASE Moves(r)
    <3> DEFINE p == P(r)
               f == SAdd(p, dst, {m})
    <3>1. p \in Stores /\ Works(r, p, S, {}) /\ p.dirty = r.dirty
      BY <1>2, <2>1
    <3> HIDE DEF p
    <3>2. Runs(p, f, c, SAdd(c, dst, {m}), {dst}, {})
      BY <3>1, SAddRuns
    <3> HIDE DEF f
    <3>3. Works(p, f, S, {}) /\ f.dirty = p.dirty
      BY <3>2, WorksMore DEF Runs
    <3>4. Works(r, f, S, {})
      BY <3>1, <3>3, WorksTwice
    <3>5. C(r) = f
      BY <1>1, <2>1 DEF f, p
    <3> QED BY <3>1, <3>3, <3>4, <3>5 DEF Works
  <2>2. CASE ~Moves(r)
    <3> DEFINE e == E(r)
               f == Fail(e)
    <3>1. e \in Stores /\ Looks(r, e, src) /\ C(r) \in {e, f}
      BY <1>1, <2>2
    <3> HIDE DEF e
    <3>2. Edits(e, f, src, e.val[src], FALSE)
      BY <3>1, FailEdits
    <3> HIDE DEF f
    <3>3. Works(r, e, S, {}) /\ Works(e, f, S, {})
      BY <3>1, <3>2, LookWorks, EditWorks
    <3>4. Works(r, f, S, {})
      BY <3>3, WorksTwice
    <3>5. f.dirty = r.dirty /\ e.dirty = r.dirty
      BY <3>1, <3>2 DEF Edits, Looks
    <3> QED BY <3>1, <3>3, <3>4, <3>5 DEF Works
  <2> QED BY <2>1, <2>2
<1>4. ASSUME C(d).ok, C(d).lost = {}, Agree(d, c) PROVE Agree(C(d), C(c))
  <2> DEFINE e == E(d)
             v == At(d, src)
             p == P(d)
             q == P(c)
  <2>1. E(c) = c /\ c.val[src] = At(c, src)
    BY CopyLooks DEF At
  <2>2. ASSUME e.lost = {}
        PROVE  (\A j \in Keys : e.val[j] = d.val[j])
               /\ (v.type = "set" => At(c, src) = v)
    <3>1. \A j \in Keys : e.val[j] = d.val[j]
      <4>1. Looks(d, e, src) /\ e.lost = {}
        BY <1>1, <2>2
      <4> HIDE DEF e
      <4> QED BY <4>1, LookShows
    <3>2. Shown(At(c, src)) = Shown(v)
      BY <1>1, <1>4, <2>1, <3>1 DEF Agree
    <3>3. At(c, src) \in Values /\ v \in Values
      BY LookupIsStore
    <3> DEFINE x == At(c, src)
    <3> HIDE DEF x, v
    <3>4. v.type = "set" => x = v
      BY <3>2, <3>3, ShownAlike DEF x
    <3> QED BY <3>1, <3>4 DEF x
  <2>3. CASE Moves(d)
    <3> DEFINE f == SAdd(p, dst, {m})
               g == SAdd(q, dst, {m})
    <3>1. C(d) = f /\ p \in Stores
      BY <1>1, <1>2, <2>3
    <3>2. p.lost \subseteq f.lost
      <4> HIDE DEF p
      <4>1. Runs(p, f, c, SAdd(c, dst, {m}), {dst}, {})
        BY <3>1, SAddRuns
      <4> HIDE DEF f
      <4> QED BY <4>1 DEF Runs, Works
    <3>3. Edits(e, p, src, Value("set", w(d)), e.ok)
      BY <1>1, <2>3
    <3>4. e.lost = {}
      <4> HIDE DEF e, p, f
      <4> QED BY <1>4, <3>1, <3>2, <3>3 DEF Edits
    <3>5. At(c, src) = v /\ Moves(c) /\ w(c) = w(d)
      BY <2>2, <2>3, <3>4
    <3>6. /\ C(c) = g /\ q \in Stores
          /\ Edits(c, q, src, Value("set", w(d)), c.ok)
      BY <1>1, <1>2, <2>1, <3>5
    <3>7. Agree(p, q)
      <4>1. \A j \in Keys : e.val[j] = d.val[j]
        BY <2>2, <3>4
      <4> HIDE DEF e, p, q
      <4>2. ASSUME NEW j \in Keys PROVE Shown(q.val[j]) = Shown(p.val[j])
        BY <1>4, <3>3, <3>6, <4>1 DEF Agree, Edits
      <4> QED BY <4>2 DEF Agree
    <3>8. q.due = {}
      BY <3>6 DEF Edits
    <3> HIDE DEF p, q
    <3>9. Runs(p, f, q, g, {dst}, {})
      BY <3>1, <3>6, <3>8, SAddRuns
    <3> HIDE DEF f, g
    <3> QED BY <1>4, <3>1, <3>6, <3>7, <3>9 DEF Runs, Follows
  <2>4. CASE ~Moves(d)
    <3>1. C(d) = e /\ v.type = "set"
      <4>1. C(d) \in {e, Fail(e)} /\ (v.type # "set" => C(d) = Fail(e))
        BY <1>1, <2>4
      <4>2. e \in Stores
        BY <1>1
      <4> HIDE DEF e
      <4>3. Fail(e).ok = FALSE
        BY <4>2, FailEdits DEF Edits
      <4> QED BY <1>4, <4>1, <4>3
    <3>2. At(c, src) = v /\ C(c) = c
      BY <1>1, <1>4, <2>1, <2>2, <2>4, <3>1
    <3>3. \A j \in Keys : e.val[j] = d.val[j]
      BY <1>4, <2>2, <3>1
    <3> QED BY <1>4, <3>1, <3>2, <3>3 DEF Agree
  <2> QED BY <2>3, <2>4
<1>5. Runs(d, C(d), c, C(c), S, {})
  BY <1>3, <1>4 DEF Runs, Follows
<1> QED BY <1>5 DEF C

-----------------------------------------------------------------------------
(***************************************************************************)
(* Strings.                                                                *)
(***************************************************************************)
\* f is d with x, a value, for k, whatever k and its deadline were.
Overwrites(d, f, k, x) ==
    /\ f \in Stores /\ f.dirty = d.dirty /\ f.lost = d.lost
    /\ f.dl \subseteq d.dl \cup {k}
    /\ f.val[k] = x /\ \A j \in Keys \ {k} : f.val[j] = d.val[j]

LEMMA OverwriteRuns ==
    ASSUME NEW d \in Stores, NEW c \in Stores, NEW k \in Keys, NEW f, NEW g,
           NEW x, x # Absent, Overwrites(d, f, k, x), Overwrites(c, g, k, x)
    PROVE  Runs(d, f, c, g, {k}, {})
<1>1. f.dl \subseteq Keys
  BY StoreFields DEF Overwrites
<1>2. Works(d, f, {k}, {}) /\ f.dirty = d.dirty
  BY <1>1 DEF Overwrites, Works
<1>3. Agree(d, c) => Agree(f, g)
  BY DEF Overwrites, Agree
<1> QED BY <1>2, <1>3 DEF Runs, Follows, Overwrites

LEMMA SetOverwrites ==
    ASSUME NEW d \in Stores, NEW k \in Keys, NEW n \in Contents
    PROVE  Overwrites(d, Set(d, k, n), k, Str(n)) /\ Set(d, k, n).ok = d.ok
<1> DEFINE e == ClearExpire(d, k)
           x == Str(n)
           f == SetValue(e, k, x)
<1>1. Clears(d, e, k) /\ e.lost = d.lost /\ e \in Stores /\ x \in Values
  BY ClearExpireClears, StrIsValue DEF Clears
<1>2. Set(d, k, n) = f
  BY DEF Set
<1> HIDE DEF e, x
<1>3. Edits(e, f, k, x, e.ok)
  BY <1>1, SetValueEdits
<1> HIDE DEF f
<1>4. Overwrites(d, f, k, x) /\ f.ok = d.ok
  BY <1>1, <1>3 DEF Clears, Edits, Overwrites
<1> QED BY <1>2, <1>4 DEF x

LEMMA SetRuns ==
    ASSUME NEW d \in Stores, NEW c \in Stores, NEW k \in Keys, NEW n \in Contents
    PROVE  Runs(d, Set(d, k, n), c, Set(c, k, n), {k}, {})
<1> DEFINE f == Set(d, k, n)
           g == Set(c, k, n)
           x == Str(n)
<1>1. Overwrites(d, f, k, x) /\ Overwrites(c, g, k, x) /\ x # Absent
  BY SetOverwrites, StrIsValue
<1> HIDE DEF f, g, x
<1>2. Runs(d, f, c, g, {k}, {})
  BY <1>1, OverwriteRuns
<1> QED BY <1>2 DEF f, g

LEMMA SetExRuns ==
    ASSUME NEW d \in Stores, NEW c \in Stores, NEW k \in Keys,
           NEW n \in Contents, NEW past \in BOOLEAN
    PROVE  Runs(d, SetEx(d, k, n, past), c, SetEx(c, k, n, past), {k}, {})
<1> DEFINE C(r) == SetEx(r, k, n, past)
           x == Str(n)
<1>1. ASSUME NEW r \in Stores PROVE Overwrites(r, C(r), k, x)
  <2> DEFINE e == SetValue(r, k, x)
             f == SetExpire(e, k, past)
  <2>1. Edits(r, e, k, x, r.ok) /\ e \in Stores
    <3>1. x \in Values
      BY StrIsValue
    <3>2. Edits(r, e, k, x, r.ok)
      BY <3>1, SetValueEdits
    <3> QED BY <3>2 DEF Edits
  <2>2. C(r) = f
    BY DEF SetEx
  <2> HIDE DEF e, x, C
  <2>3. /\ f \in Stores /\ f.dl = e.dl \cup {k} /\ f.val = e.val
        /\ f.dirty = e.dirty /\ f.lost = e.lost
    BY <2>1 DEF SetExpire, Stores
  <2> HIDE DEF f
  <2> QED BY <2>1, <2>2, <2>3 DEF Edits, Overwrites
<1>2. Overwrites(d, C(d), k, x) /\ Overwrites(c, C(c), k, x) /\ x # Absent
  BY <1>1, StrIsValue
<1> HIDE DEF C, x
<1>3. Runs(d, C(d), c, C(c), {k}, {})
  BY <1>2, OverwriteRuns
<1> QED BY <1>3 DEF C

LEMMA SetNxRuns ==
    ASSUME NEW d \in Stores, NEW c \in Stores, c.due = {}, NEW k \in Keys,
           NEW n \in Contents
    PROVE  Runs(d, SetNx(d, k, n), c, SetNx(c, k, n), {k}, {})
<1> DEFINE e == ExpireIfNeed(d, k)
           s == Set(e, k, n)
           t == Set(c, k, n)
           f == SetNx(d, k, n)
           g == SetNx(c, k, n)
<1>1. /\ Looks(d, e, k) /\ e \in Stores
      /\ f = IF Has(e, k) THEN e ELSE s
      /\ g = IF Has(c, k) THEN c ELSE t
  BY ExpireIfNeedLooks, LookupIsStore, CopyLooks DEF SetNx
<1> HIDE DEF e, f, g
<1>2. Runs(e, s, c, t, {k}, {}) /\ s.lost = e.lost
  BY <1>1, SetRuns, SetOverwrites DEF Overwrites
<1> HIDE DEF s, t
<1>3. Works(d, e, {k}, {}) /\ e.dirty = d.dirty
  BY <1>1, LookWorks DEF Looks
<1>4. Works(d, s, {k}, {}) /\ s.dirty = d.dirty
  BY <1>1, <1>2, <1>3, WorksTwice DEF Runs
<1>5. ASSUME f.ok, f.lost = {}, Agree(d, c) PROVE g \in Stores /\ Agree(f, g)
  <2>1. e.lost = {}
    BY <1>1, <1>2, <1>5
  <2>2. \A j \in Keys : e.val[j] = d.val[j]
    BY <1>1, <2>1, LookShows
  <2>3. Agree(e, c)
    BY <1>5, <2>2 DEF Agree
  <2>4. Has(e, k) <=> Has(c, k)
    <3>1. Shown(e.val[k]) = Shown(c.val[k]) /\ e.val[k] \in Values
          /\ c.val[k] \in Values
      BY <1>1, <2>3, StoreFields DEF Agree
    <3> DEFINE v == e.val[k]
               w == c.val[k]
    <3> HIDE DEF v, w
    <3>2. v = Absent <=> w = Absent
      BY <3>1, ShownAlike DEF v, w
    <3> QED BY <3>2 DEF Has, v, w
  <2> QED BY <1>1, <1>2, <1>5, <2>3, <2>4 DEF Runs, Follows
<1>6. Runs(d, f, c, g, {k}, {})
  BY <1>1, <1>3, <1>4, <1>5 DEF Runs, Follows
<1> QED BY <1>6 DEF f, g

\* GETSET, APPEND and SETRANGE.
LEMMA EditStringRuns ==
    ASSUME NEW d \in Stores, NEW c \in Stores, c.due = {}, NEW k \in Keys,
           NEW n \in Contents
    PROVE  Runs(d, Edit(d, k, n), c, Edit(c, k, n), {k}, {})
<1> DEFINE C(r) == Edit(r, k, n)
           X(r) == IF Fits(At(r, k), "string") THEN Str(n) ELSE At(r, k)
<1>1. ASSUME NEW r \in Stores
      PROVE  /\ Edits(ExpireIfNeed(r, k), C(r), k, X(r), C(r).ok)
             /\ C(r).ok => Fits(At(r, k), "string")
  <2> DEFINE e == ExpireIfNeed(r, k)
             v == e.val[k]
             s == SetValue(e, k, Value("string", Empty))
             f == SetValue(s, k, Str(n))
             g == SetValue(e, k, Str(n))
             h == Fail(e)
  <2>1. /\ e \in Stores /\ At(r, k) = v
        /\ C(r) = IF Fits(v, "string")
                  THEN IF v.type = "string" THEN g ELSE f
                  ELSE h
    <3>1. /\ e \in Stores /\ At(r, k) = v /\ (Has(e, k) <=> v # Absent)
          /\ v.type = "none" <=> v = Absent
      BY Found
    <3>2. C(r) = CASE v.type = "string" -> g [] ~Has(e, k) -> f [] OTHER -> h
      BY DEF Edit, Update
    <3> HIDE DEF e, f, g, h
    <3> QED BY <3>1, <3>2 DEF Fits
  <2> HIDE DEF C, e
  <2>2. Str(n) \in Values
    BY StrIsValue
  <2>3. Edits(e, g, k, Str(n), e.ok)
    BY <2>1, <2>2, SetValueEdits
  <2>4. Edits(e, f, k, Str(n), e.ok)
    BY <2>1, <2>2 DEF SetValue, Edits, Stores
  <2>5. Edits(e, h, k, v, FALSE)
    BY <2>1, FailEdits
  <2>6. g.ok = e.ok /\ f.ok = e.ok /\ h.ok = FALSE
    BY <2>3, <2>4, <2>5 DEF Edits
  <2> HIDE DEF f, g, h
  <2> QED BY <2>1, <2>3, <2>4, <2>5, <2>6 DEF e
<1> DEFINE e == ExpireIfNeed(d, k)
           h == ExpireIfNeed(c, k)
           f == C(d)
           g == C(c)
           x == X(d)
           y == X(c)
<1>2. /\ Edits(e, f, k, x, f.ok) /\ Edits(h, g, k, y, g.ok)
      /\ Looks(d, e, k) /\ Looks(c, h, k)
  BY <1>1, ExpireIfNeedLooks
<1>3. x = Absent => e.val[k] = Absent
  BY StrIsValue DEF At
<1>4. ASSUME f.ok, Shown(h.val[k]) = Shown(e.val[k]) PROVE Shown(y) = Shown(x)
  <2> DEFINE v == At(d, k)
             w == At(c, k)
  <2>1. /\ v \in Values /\ w \in Values /\ Shown(v) = Shown(w)
        /\ Fits(v, "string")
    BY <1>1, <1>4, LookupIsStore DEF At
  <2>2. x = IF Fits(v, "string") THEN Str(n) ELSE v
    OBVIOUS
  <2>3. y = IF Fits(w, "string") THEN Str(n) ELSE w
    OBVIOUS
  <2> HIDE DEF v, w, x, y
  <2>4. Fits(w, "string")
    BY <2>1, ShownAlike DEF Fits
  <2> QED BY <2>1, <2>2, <2>3, <2>4
<1> HIDE DEF e, h, f, g, x, y
<1>5. Runs(d, f, c, g, {k}, {})
  BY <1>2, <1>3, <1>4, EditRuns
<1> QED BY <1>5 DEF f, g

\* SETBIT and the INCRs: a key that is not there becomes a string first.
Created(e, k, n) == IF Has(e, k) THEN e ELSE SetValue(e, k, Str(n))
OrStr(v, n) == IF v = Absent THEN Str(n) ELSE v

LEMMA CreatedEdits ==
    ASSUME NEW e \in Stores, NEW k \in Keys, NEW n \in Contents
    PROVE  /\ Edits(e, Created(e, k, n), k, OrStr(e.val[k], n), e.ok)
           /\ Created(e, k, n) \in Stores
           /\ OrStr(e.val[k], n) \in Values /\ OrStr(e.val[k], n) # Absent
<1> DEFINE x == Str(n)
           s == SetValue(e, k, x)
<1>1. x \in Values /\ x # Absent
  BY StrIsValue
<1> HIDE DEF x
<1>2. Edits(e, s, k, x, e.ok)
  BY <1>1, SetValueEdits
<1>3. Edits(e, e, k, e.val[k], e.ok) /\ e.val[k] \in Values
  BY SelfEdits, StoreFields
<1>4. Created(e, k, n) = IF e.val[k] # Absent THEN e ELSE s
  BY DEF Created, Has, x
<1>5. OrStr(e.val[k], n) = IF e.val[k] = Absent THEN x ELSE e.val[k]
  BY DEF OrStr, x
<1> HIDE DEF s
<1> QED BY <1>1, <1>2, <1>3, <1>4, <1>5 DEF Edits

\* On values that are shown alike what is created is shown alike.
LEMMA OrStrShown ==
    ASSUME NEW v \in Values, NEW w \in Values, Shown(v) = Shown(w), NEW n
    PROVE  Shown(OrStr(v, n)) = Shown(OrStr(w, n))
BY ShownAlike DEF OrStr

\* What a handler that has created a string may end with.
LEMMA CreatedOutcome ==
    ASSUME NEW e \in Stores, NEW k \in Keys, NEW n \in Contents,
           NEW m \in Contents, NEW f, NEW x,
           \/ f \in {Created(e, k, n), Fail(Created(e, k, n))}
              /\ x = OrStr(e.val[k], n)
           \/ f = SetValue(Created(e, k, n), k, Str(m)) /\ x = Str(m)
    PROVE  Edits(e, f, k, x, f.ok) /\ x # Absent
<1> DEFINE s == Created(e, k, n)
           v == OrStr(e.val[k], n)
           y == Str(m)
           g == SetValue(s, k, y)
           h == Fail(s)
<1>1. Edits(e, s, k, v, e.ok) /\ s \in Stores /\ v # Absent
  BY CreatedEdits
<1>2. y \in Values /\ y # Absent
  BY StrIsValue
<1>3. (f \in {s, h} /\ x = v) \/ (f = g /\ x = y)
  OBVIOUS
<1> HIDE DEF s, v, y
<1>4. Edits(s, g, k, y, s.ok) /\ Edits(s, h, k, s.val[k], FALSE)
  BY <1>1, <1>2, SetValueEdits, FailEdits
<1> HIDE DEF g, h
<1>5. s.val[k] = v /\ s.ok = e.ok /\ g.ok = e.ok /\ h.ok = FALSE
  BY <1>1, <1>4 DEF Edits
<1>6. Edits(e, g, k, y, e.ok) /\ Edits(e, h, k, v, FALSE)
  <2>1. Edits(s, g, k, y, e.ok) /\ Edits(s, h, k, v, FALSE)
    BY <1>4, <1>5
  <2>2. Edits(e, g, k, y, e.ok)
    BY ONLY <1>1, <2>1, EditsTwice, e \in Stores, k \in Keys
  <2>3. Edits(e, h, k, v, FALSE)
    BY ONLY <1>1, <2>1, EditsTwice, e \in Stores, k \in Keys
  <2> QED BY <2>2, <2>3
<1> QED BY <1>1, <1>2, <1>3, <1>5, <1>6

LEMMA SetBitRuns ==
    ASSUME NEW d \in Stores, NEW c \in Stores, c.due = {}, NEW k \in Keys,
           NEW n \in Contents, NEW offset \in {"nan", "beyond", "within"}
    PROVE  Runs(d, SetBit(d, k, n, offset), c, SetBit(c, k, n, offset), {k}, {})
<1> DEFINE C(r) == SetBit(r, k, n, offset)
           V(r) == OrStr(At(r, k), Text)
           X(r) == IF V(r).type = "string" /\ offset = "within" THEN Str(n)
                   ELSE V(r)
<1>1. ASSUME NEW r \in Stores
      PROVE  Edits(ExpireIfNeed(r, k), C(r), k, X(r), C(r).ok) /\ X(r) # Absent
  <2> DEFINE e == ExpireIfNeed(r, k)
             s == Created(e, k, Text)
             v == V(r)
             f == C(r)
             x == X(r)
  <2>1. e \in Stores /\ e.val[k] = At(r, k)
    BY LookupIsStore DEF At
  <2>2. f = IF s.val[k].type # "string" \/ offset = "nan" THEN Fail(s)
            ELSE IF offset = "beyond" THEN s ELSE SetValue(s, k, Str(n))
    BY DEF SetBit, Created
  <2>3. s.val[k] = v
    <3> HIDE DEF e
    <3>1. Edits(e, s, k, OrStr(e.val[k], Text), e.ok)
      BY <2>1, CreatedEdits, ContentsAre
    <3> QED BY <2>1, <3>1 DEF Edits
  <2>4. x = IF v.type = "string" /\ offset = "within" THEN Str(n) ELSE v
    OBVIOUS
  <2> HIDE DEF f, x
  <2>5. \/ f \in {s, Fail(s)} /\ x = OrStr(e.val[k], Text)
        \/ f = SetValue(s, k, Str(n)) /\ x = Str(n)
    <3> HIDE DEF s, e
    <3> QED BY <2>1, <2>2, <2>3, <2>4
  <2> HIDE DEF e
  <2>6. Edits(e, f, k, x, f.ok) /\ x # Absent
    BY <2>1, <2>5, CreatedOutcome, ContentsAre
  <2> QED BY <2>6 DEF e, f, x
<1> DEFINE e == ExpireIfNeed(d, k)
           h == ExpireIfNeed(c, k)
           f == C(d)
           g == C(c)
           x == X(d)
           y == X(c)
<1>2. /\ Edits(e, f, k, x, f.ok) /\ Edits(h, g, k, y, g.ok) /\ x # Absent
      /\ Looks(d, e, k) /\ Looks(c, h, k)
  BY <1>1, ExpireIfNeedLooks
<1>3. ASSUME Shown(h.val[k]) = Shown(e.val[k]) PROVE Shown(y) = Shown(x)
  <2>1. At(c, k) \in Values /\ At(d, k) \in Values /\ Shown(At(c, k)) = Shown(At(d, k))
    BY <1>3, LookupIsStore DEF At
  <2> DEFINE v == V(d)
             w == V(c)
  <2>2. v \in Values /\ w \in Values
    BY <2>1, StrIsValue, ContentsAre DEF OrStr
  <2>3. Shown(v) = Shown(w)
    BY <2>1, OrStrShown
  <2>4. /\ x = IF v.type = "string" /\ offset = "within" THEN Str(n) ELSE v
        /\ y = IF w.type = "string" /\ offset = "within" THEN Str(n) ELSE w
    OBVIOUS
  <2> HIDE DEF v, w, x, y
  <2>5. v.type = w.type
    BY <2>2, <2>3, ShownAlike
  <2> QED BY <2>3, <2>4, <2>5
<1> HIDE DEF e, h, f, g, x, y
<1>4. Runs(d, f, c, g, {k}, {})
  BY <1>2, <1>3, EditRuns
<1> QED BY <1>4 DEF f, g

LEMMA IncrByFloatRuns ==
    ASSUME NEW d \in Stores, NEW c \in Stores, c.due = {}, NEW k \in Keys,
           NEW n \in Contents
    PROVE  Runs(d, IncrByFloat(d, k, n), c, IncrByFloat(c, k, n), {k}, {})
<1> DEFINE C(r) == IncrByFloat(r, k, n)
           V(r) == OrStr(At(r, k), 0)
           Fit(v) == ~(v.type # "string" \/ v.v = Str(Text).v)
           X(r) == IF Fit(V(r)) THEN Str(n) ELSE V(r)
<1>1. ASSUME NEW r \in Stores
      PROVE  /\ Edits(ExpireIfNeed(r, k), C(r), k, X(r), C(r).ok)
             /\ X(r) # Absent /\ (C(r).ok => Fit(V(r)))
  <2> DEFINE e == ExpireIfNeed(r, k)
             s == Created(e, k, 0)
             v == V(r)
             f == C(r)
             x == X(r)
  <2>1. e \in Stores /\ e.val[k] = At(r, k) /\ 0 \in Contents
    BY LookupIsStore, ContentsAre DEF At
  <2>2. f = IF ~Fit(s.val[k]) THEN Fail(s) ELSE SetValue(s, k, Str(n))
    BY DEF IncrByFloat, Created
  <2>3. s.val[k] = v /\ s \in Stores
    <3> HIDE DEF e
    <3>1. Edits(e, s, k, OrStr(e.val[k], 0), e.ok)
      BY <2>1, CreatedEdits
    <3> QED BY <2>1, <3>1 DEF Edits
  <2>4. x = IF Fit(v) THEN Str(n) ELSE v
    OBVIOUS
  <2> HIDE DEF f, x
  <2>5. /\ \/ f \in {s, Fail(s)} /\ x = OrStr(e.val[k], 0)
           \/ f = SetValue(s, k, Str(n)) /\ x = Str(n)
        /\ Fit(v) \/ f = Fail(s)
    <3> HIDE DEF s, e, Fit
    <3> QED BY <2>1, <2>2, <2>3, <2>4
  <2>6. Fail(s).ok = FALSE
    <3> HIDE DEF s
    <3> QED BY <2>3, FailEdits DEF Edits
  <2> HIDE DEF e
  <2>7. Edits(e, f, k, x, f.ok) /\ x # Absent
    BY <2>1, <2>5, CreatedOutcome
  <2> QED BY <2>5, <2>6, <2>7 DEF e, f, x
<1> DEFINE e == ExpireIfNeed(d, k)
           h == ExpireIfNeed(c, k)
           f == C(d)
           g == C(c)
           x == X(d)
           y == X(c)
<1>2. /\ Edits(e, f, k, x, f.ok) /\ Edits(h, g, k, y, g.ok) /\ x # Absent
      /\ Looks(d, e, k) /\ Looks(c, h, k) /\ (f.ok => Fit(V(d)))
  BY <1>1, ExpireIfNeedLooks
<1>3. ASSUME f.ok, Shown(h.val[k]) = Shown(e.val[k]) PROVE Shown(y) = Shown(x)
  <2>1. At(c, k) \in Values /\ At(d, k) \in Values /\ Shown(At(c, k)) = Shown(At(d, k))
    BY <1>3, LookupIsStore DEF At
  <2> DEFINE v == V(d)
             w == V(c)
  <2>2. v \in Values /\ w \in Values
    BY <2>1, StrIsValue, ContentsAre DEF OrStr
  <2>3. Shown(v) = Shown(w)
    BY <2>1, OrStrShown
  <2>4. Fit(v)
    BY <1>2, <1>3
  <2>5. x = Str(n) /\ y = IF Fit(w) THEN Str(n) ELSE w
    BY <2>4
  <2> HIDE DEF v, w, x, y
  <2>6. Fit(w)
    <3>1. v.type = w.type /\ (v = Str(Text) <=> w = Str(Text))
      BY <2>2, <2>3, ShownAlike
    <3>2. PICK a \in Contents : w = Str(a)
      BY <2>2, <2>4, <3>1, StringIsStr
    <3>3. PICK b \in Contents : v = Str(b)
      BY <2>2, <2>4, StringIsStr
    <3>4. b # Text
      BY <2>4, <3>3
    <3>5. a # Text
      BY <3>1, <3>2, <3>3, <3>4, StrIsInjective
    <3> QED BY <2>4, <3>1, <3>2, <3>5, StrIsInjective
  <2> QED BY <2>5, <2>6
<1> HIDE DEF e, h, f, g, x, y
<1>4. Runs(d, f, c, g, {k}, {})
  BY <1>2, <1>3, EditRuns
<1> QED BY <1>4 DEF f, g

\* INCR and its like read how the string is encoded, which is not shown.
LEMMA IncrByRuns ==
    ASSUME NEW d \in Stores, NEW c \in Stores, c.due = {}, NEW k \in Keys,
           NEW delta \in {-1, 1}
    PROVE  /\ Works(d, IncrBy(d, k, delta), {k}, {})
           /\ IncrBy(d, k, delta).dirty = d.dirty
           /\ (d.val[k] = Str(Digits) <=> c.val[k] = Str(Digits)) =>
                Follows(d, IncrBy(d, k, delta), c, IncrBy(c, k, delta))
<1> DEFINE C(r) == IncrBy(r, k, delta)
           V(r) == OrStr(At(r, k), 0)
           Sum(v) == Wrap(v.v[Whole] + delta)
           Counts(v) == v.type = "string" /\ ~(v.v[Whole] > MaxInt)
           X(r) == IF Counts(V(r)) THEN Str(Sum(V(r))) ELSE V(r)
<1>1. ASSUME NEW r \in Stores
      PROVE  Edits(ExpireIfNeed(r, k), C(r), k, X(r), C(r).ok) /\ X(r) # Absent
  <2> DEFINE e == ExpireIfNeed(r, k)
             s == Created(e, k, 0)
             v == V(r)
             f == C(r)
             x == X(r)
             t == Sum(v)
  <2>1. e \in Stores /\ e.val[k] = At(r, k) /\ 0 \in Contents
    BY LookupIsStore, ContentsAre DEF At
  <2>2. f = IF s.val[k].type # "string" THEN Fail(s)
            ELSE IF s.val[k].v[Whole] > MaxInt THEN s
            ELSE SetValue(s, k, Str(Wrap(s.val[k].v[Whole] + delta)))
    BY DEF IncrBy, Created
  <2>3. s.val[k] = v /\ v \in Values
    <3> HIDE DEF e
    <3>1. Edits(e, s, k, OrStr(e.val[k], 0), e.ok) /\ OrStr(e.val[k], 0) \in Values
      BY <2>1, CreatedEdits
    <3> QED BY <2>1, <3>1 DEF Edits
  <2>4. x = IF Counts(v) THEN Str(t) ELSE v
    OBVIOUS
  <2>5. Counts(v) => t \in Contents
    <3> HIDE DEF v
    <3>1. ASSUME Counts(v) PROVE t \in Contents
      <4>1. PICK a \in Contents : v = Str(a)
        BY <2>3, <3>1, StringIsStr
      <4>2. v.v[Whole] = a
        BY <4>1, StrIsInjective
      <4>3. a \in Nat
        BY ContentsAre, MaxIntAssumption
      <4>4. a + delta \in Int /\ t = Wrap(a + delta)
        BY <4>2, <4>3
      <4> HIDE DEF t
      <4>5. t \in 0 .. MaxInt
        BY <4>4, WrapFits
      <4> QED BY <4>5, ContentsAre
    <3> QED BY <3>1
  <2> HIDE DEF f, x
  <2>6. IF Counts(v) THEN f = SetValue(s, k, Str(t)) /\ x = Str(t)
                     ELSE f \in {s, Fail(s)} /\ x = OrStr(e.val[k], 0)
    <3> HIDE DEF s, e
    <3> QED BY <2>1, <2>2, <2>3, <2>4
  <2> DEFINE m == IF Counts(v) THEN t ELSE 0
  <2>7. /\ m \in Contents
        /\ \/ f \in {s, Fail(s)} /\ x = OrStr(e.val[k], 0)
           \/ f = SetValue(s, k, Str(m)) /\ x = Str(m)
    <3> HIDE DEF s, e, t, v, Counts
    <3> QED BY <2>1, <2>5, <2>6
  <2> HIDE DEF e, m
  <2>8. Edits(e, f, k, x, f.ok) /\ x # Absent
    BY <2>1, <2>7, CreatedOutcome
  <2> QED BY <2>8 DEF e, f, x
<1> DEFINE e == ExpireIfNeed(d, k)
           h == ExpireIfNeed(c, k)
           f == C(d)
           g == C(c)
           x == X(d)
           y == X(c)
<1>2. /\ Edits(e, f, k, x, f.ok) /\ Edits(h, g, k, y, g.ok) /\ x # Absent
      /\ Looks(d, e, k) /\ Looks(c, h, k)
  BY <1>1, ExpireIfNeedLooks
<1>3. ASSUME d.val[k] = Str(Digits) <=> c.val[k] = Str(Digits),
             Shown(h.val[k]) = Shown(e.val[k])
      PROVE  x = y
  <2>1. h = c /\ c.val[k] \in Values /\ e.val[k] \in Values
    BY <1>2, StoreFields DEF Looks
  <2>2. e.val[k] = Absent \/ e.val[k] = d.val[k]
    BY <1>2 DEF Looks
  <2>3. e.val[k] = c.val[k]
    <3> DEFINE v == e.val[k]
               w == c.val[k]
    <3>1. v \in Values /\ w \in Values /\ Shown(v) = Shown(w)
      BY <1>3, <2>1
    <3>2. v = Absent \/ (v = Str(Digits) <=> w = Str(Digits))
      BY <1>3, <2>2
    <3> HIDE DEF v, w
    <3>3. v = Absent <=> w = Absent
      BY <3>1, ShownAlike
    <3>4. v = w
      BY <3>1, <3>2, <3>3 DEF Shown
    <3> QED BY <3>4 DEF v, w
  <2>4. At(d, k) = At(c, k)
    BY <2>1, <2>3 DEF At
  <2> QED BY <2>4
<1> HIDE DEF e, h, f, g, x, y
<1>4. Works(d, f, {k}, {}) /\ f.dirty = d.dirty
  BY <1>2, LookEditWorks
<1>5. ASSUME d.val[k] = Str(Digits) <=> c.val[k] = Str(Digits)
      PROVE  Follows(d, f, c, g)
  <2>1. f.ok /\ Shown(h.val[k]) = Shown(e.val[k]) => Shown(y) = Shown(x)
    BY <1>3, <1>5
  <2>2. Runs(d, f, c, g, {k}, {})
    BY <1>2, <2>1, EditRuns
  <2> QED BY <2>2 DEF Runs
<1> QED BY <1>4, <1>5 DEF f, g

\* The last of several lookups that has met no deadline has changed nothing.
LEMMA BitOpRuns ==
    ASSUME NEW d \in Stores, NEW c \in Stores, c.due = {}, NEW dst \in Keys,
           NEW k1 \in Keys, NEW k2 \in Keys, NEW n \in Contents
    PROVE  Runs(d, BitOp(d, dst, k1, k2, n), c, BitOp(c, dst, k1, k2, n), {dst}, {})
<1> DEFINE e1 == ExpireIfNeed(d, k1)
           e2 == ExpireIfNeed(e1, k2)
           x == Str(n)
           f == SetValue(e2, dst, x)
           g == SetValue(c, dst, x)
<1>1. Looks(d, e1, k1) /\ e1 \in Stores
  BY ExpireIfNeedLooks, LookupIsStore
<1>2. BitOp(d, dst, k1, k2, n) = f /\ BitOp(c, dst, k1, k2, n) = g
  BY CopyLooks DEF BitOp
<1> HIDE DEF e1
<1>3. Looks(e1, e2, k2) /\ e2 \in Stores
  BY <1>1, ExpireIfNeedLooks, LookupIsStore
<1>4. x \in Values /\ x # Absent
  BY StrIsValue
<1> HIDE DEF e2, x
<1>5. Edits(e2, f, dst, x, e2.ok) /\ Edits(c, g, dst, x, c.ok)
  BY <1>3, <1>4, SetValueEdits
<1> HIDE DEF f, g
<1>6. Works(d, f, {dst}, {})
  <2>1. Works(d, e1, {dst}, {})
    BY <1>1, LookWorks
  <2>2. Works(e1, e2, {dst}, {})
    BY <1>1, <1>3, LookWorks
  <2>3. Works(e2, f, {dst}, {})
    BY <1>3, <1>4, <1>5, EditWorks
  <2>4. Works(d, e2, {dst}, {})
    BY <2>1, <2>2, WorksTwice
  <2> QED BY <2>3, <2>4, WorksTwice
<1>7. ASSUME f.lost = {}, Agree(d, c) PROVE Agree(f, g)
  <2>1. e1.lost = {} /\ e2.lost = {}
    BY <1>3, <1>5, <1>7 DEF Edits, Looks
  <2>2. \A j \in Keys : e1.val[j] = d.val[j]
    BY <1>1, <2>1, LookShows
  <2>3. \A j \in Keys : e2.val[j] = e1.val[j]
    BY <1>1, <1>3, <2>1, LookShows
  <2> QED BY <1>5, <1>7, <2>2, <2>3 DEF Edits, Agree
<1>8. f.dirty = d.dirty /\ g \in Stores
  BY <1>1, <1>3, <1>5 DEF Edits, Looks
<1>9. Runs(d, f, c, g, {dst}, {})
  BY <1>6, <1>7, <1>8 DEF Runs, Follows
<1> QED BY <1>2, <1>9

-----------------------------------------------------------------------------
(***************************************************************************)
(* MSET and MSETNX, which name the keys they change.                        *)
(***************************************************************************)
Sets(d, f, K, x) ==
    /\ f \in Stores /\ f.lost = d.lost /\ f.ok = d.ok
    /\ f.dirty = d.dirty \cup K /\ f.dl = d.dl \ K
    /\ \A j \in Keys : f.val[j] = IF j \in K THEN x ELSE d.val[j]

LEMMA MSetSets ==
    ASSUME NEW d \in Stores, NEW K \in SUBSET Keys, NEW n \in Contents
    PROVE  Sets(d, MSet(d, K, n), K, Str(n))
<1> DEFINE x == Str(n)
           v == [j \in Keys |-> IF j \in K THEN x ELSE d.val[j]]
           f == MSet(d, K, n)
<1>1. x \in Values
  BY StrIsValue
<1>2. f = [d EXCEPT !.val = v, !.dl = @ \ K, !.due = @ \ K, !.dirty = @ \cup K]
  BY DEF MSet
<1> HIDE DEF x, f
<1>3. /\ v \in [Keys -> Values]
      /\ \A j \in Keys : v[j] = IF j \in K THEN x ELSE d.val[j]
  BY <1>1, StoreFields
<1> HIDE DEF v
<1>4. /\ f.val = v /\ f.lost = d.lost /\ f.ok = d.ok
      /\ f.dirty = d.dirty \cup K /\ f.dl = d.dl \ K /\ f \in Stores
  BY <1>2, <1>3 DEF Stores
<1> QED BY <1>3, <1>4 DEF Sets, f, x

LEMMA MSetRuns ==
    ASSUME NEW d \in Stores, NEW c \in Stores, NEW K \in SUBSET Keys,
           NEW n \in Contents
    PROVE  /\ Works(d, MSet(d, K, n), K, {})
           /\ MSet(d, K, n).dirty = d.dirty \cup K
           /\ MSet(d, K, n).lost = d.lost /\ MSet(d, K, n).ok = d.ok
           /\ Follows(d, MSet(d, K, n), c, MSet(c, K, n))
<1> DEFINE f == MSet(d, K, n)
           g == MSet(c, K, n)
           x == Str(n)
<1>1. Sets(d, f, K, x)
  BY MSetSets
<1>2. Sets(c, g, K, x)
  BY MSetSets
<1>3. x # Absent /\ d.dl \subseteq Keys
  BY StrIsValue, StoreFields
<1> HIDE DEF f, g, x
<1>4. Works(d, f, K, {})
  BY <1>1, <1>3 DEF Works, Sets
<1>5. Agree(d, c) => Agree(f, g)
  BY <1>1, <1>2 DEF Agree, Sets
<1> QED BY <1>1, <1>2, <1>4, <1>5 DEF Follows, Sets, f, g

LEMMA MSetNxRuns ==
    ASSUME NEW d \in Stores, NEW c \in Stores, c.due = {}, NEW k1 \in Keys,
           NEW k2 \in Keys, NEW n \in Contents
    PROVE  LET f == MSetNx(d, k1, k2, n) IN
           /\ \/ Works(d, f, {}, {}) /\ f.dirty = d.dirty
              \/ /\ Works(d, f, {k1, k2}, {})
                 /\ f.dirty = d.dirty \cup {k1, k2}
           /\ Follows(d, f, c, MSetNx(c, k1, k2, n))
<1> DEFINE e1 == ExpireIfNeed(d, k1)
           e2 == ExpireIfNeed(e1, k2)
           K == {k1, k2}
           s == MSet(e2, K, n)
           t == MSet(c, K, n)
           f == MSetNx(d, k1, k2, n)
           g == MSetNx(c, k1, k2, n)
<1>1. /\ f = IF Has(e1, k1) THEN e1 ELSE IF Has(e2, k2) THEN e2 ELSE s
      /\ g = IF Has(c, k1) \/ Has(c, k2) THEN c ELSE t
  BY CopyLooks DEF MSetNx
<1>2. Looks(d, e1, k1) /\ e1 \in Stores
  BY ExpireIfNeedLooks, LookupIsStore
<1> HIDE DEF e1, f, g
<1>3. Looks(e1, e2, k2) /\ e2 \in Stores
  BY <1>2, ExpireIfNeedLooks, LookupIsStore
<1> HIDE DEF e2
<1>4. K \in SUBSET Keys
  OBVIOUS
<1> HIDE DEF K
<1>5. /\ Works(e2, s, K, {}) /\ s.dirty = e2.dirty \cup K /\ s.lost = e2.lost
      /\ Follows(e2, s, c, t)
  BY <1>3, <1>4, MSetRuns
<1> HIDE DEF s, t
<1>6. Works(d, e1, {}, {}) /\ e1.dirty = d.dirty
  BY <1>2, LookWorks DEF Looks
<1>7. Works(d, e2, {}, {}) /\ e2.dirty = d.dirty
  <2>1. Works(e1, e2, {}, {})
    BY <1>2, <1>3, LookWorks
  <2> QED BY <1>2, <1>3, <1>6, <2>1, WorksTwice DEF Looks
<1>8. Works(d, s, K, {}) /\ s.dirty = d.dirty \cup K
  <2>1. Works(d, e2, K, {})
    BY <1>7, WorksMore
  <2> QED BY <1>5, <1>7, <2>1, WorksTwice
<1>9. ASSUME f.ok, f.lost = {}, Agree(d, c) PROVE g \in Stores /\ Agree(f, g)
  <2>1. e1.lost = {}
    BY <1>1, <1>3, <1>5, <1>9 DEF Looks
  <2>2. \A j \in Keys : e1.val[j] = d.val[j]
    BY <1>2, <2>1, LookShows
  <2>3. Agree(e1, c)
    BY <1>9, <2>2 DEF Agree
  <2>4. ASSUME NEW e \in Stores, Agree(e, c), NEW k \in Keys
        PROVE  Has(e, k) <=> Has(c, k)
    <3>1. /\ Shown(e.val[k]) = Shown(c.val[k])
          /\ e.val[k] \in Values /\ c.val[k] \in Values
      BY <2>4, StoreFields DEF Agree
    <3> DEFINE v == e.val[k]
               w == c.val[k]
    <3> HIDE DEF v, w
    <3>2. v = Absent <=> w = Absent
      BY <3>1, ShownAlike DEF v, w
    <3> QED BY <3>2 DEF Has, v, w
  <2>5. Has(e1, k1) <=> Has(c, k1)
    BY <1>2, <2>3, <2>4
  <2>6. CASE Has(e1, k1)
    BY <1>1, <2>3, <2>5, <2>6
  <2>7. CASE ~Has(e1, k1)
    <3>1. e2.lost = {}
      BY <1>1, <1>5, <1>9, <2>7
    <3>2. \A j \in Keys : e2.val[j] = e1.val[j]
      BY <1>2, <1>3, <3>1, LookShows
    <3>3. Agree(e2, c)
      BY <2>3, <3>2 DEF Agree
    <3>4. Has(e2, k2) <=> Has(c, k2)
      BY <1>3, <2>4, <3>3
    <3> QED BY <1>1, <1>5, <1>9, <2>5, <2>7, <3>3, <3>4 DEF Follows
  <2> QED BY <2>6, <2>7
<1>10. Follows(d, f, c, g)
  BY <1>9 DEF Follows
<1>11. \/ Works(d, f, {}, {}) /\ f.dirty = d.dirty
       \/ Works(d, f, K, {}) /\ f.dirty = d.dirty \cup K
  BY <1>1, <1>6, <1>7, <1>8
<1> QED BY <1>10, <1>11 DEF f, g, K

-----------------------------------------------------------------------------
(***************************************************************************)
(* Keys.                                                                   *)
(***************************************************************************)
\* DEL of one key.
DelOne(e, k) == IF Has(e, k) THEN ClearExpire(DeleteKey(e, k), k) ELSE e

LEMMA DelOneMakes ==
    ASSUME NEW e \in Stores, NEW k \in Keys
    PROVE  LET f == DelOne(e, k) IN
           /\ f \in Stores /\ f.dirty = e.dirty /\ f.lost = e.lost /\ f.ok = e.ok
           /\ f.dl = IF Has(e, k) THEN e.dl \ {k} ELSE e.dl
           /\ f.val[k] = Absent /\ \A j \in Keys \ {k} : f.val[j] = e.val[j]
<1> DEFINE s == DeleteKey(e, k)
           g == ClearExpire(s, k)
<1>1. DelOne(e, k) = IF Has(e, k) THEN g ELSE e
  BY DEF DelOne
<1>2. Edits(e, s, k, Absent, e.ok) /\ s \in Stores
  <2>1. Edits(e, s, k, Absent, e.ok)
    BY DeleteKeyEdits
  <2> QED BY <2>1 DEF Edits
<1> HIDE DEF s
<1>3. Clears(s, g, k) /\ g.lost = s.lost
  BY <1>2, ClearExpireClears
<1> HIDE DEF g
<1>4. CASE Has(e, k)
  BY <1>1, <1>2, <1>3, <1>4 DEF Edits, Clears
<1>5. CASE ~Has(e, k)
  BY <1>1, <1>5 DEF Has
<1> QED BY <1>4, <1>5

LEMMA DelRuns ==
    ASSUME NEW d \in Stores, NEW c \in Stores, NEW k1 \in Keys, NEW k2 \in Keys
    PROVE  Runs(d, Del(d, k1, k2), c, Del(c, k1, k2), {k1, k2}, {})
<1> DEFINE S == {k1, k2}
<1>1. ASSUME NEW r \in Stores, NEW q \in Stores, NEW k \in S
      PROVE  /\ DelOne(r, k) \in Stores /\ Works(r, DelOne(r, k), S, {})
             /\ DelOne(r, k).dirty = r.dirty
             /\ Agree(r, q) => Agree(DelOne(r, k), DelOne(q, k))
  <2> DEFINE f == DelOne(r, k)
             g == DelOne(q, k)
  <2> k \in Keys
    OBVIOUS
  <2>1. /\ f \in Stores /\ f.dirty = r.dirty /\ f.lost = r.lost
        /\ f.dl = IF Has(r, k) THEN r.dl \ {k} ELSE r.dl
        /\ f.val[k] = Absent /\ \A j \in Keys \ {k} : f.val[j] = r.val[j]
    BY ONLY DelOneMakes, r \in Stores, k \in Keys
  <2>5. g.val[k] = Absent /\ \A j \in Keys \ {k} : g.val[j] = q.val[j]
    BY ONLY DelOneMakes, q \in Stores, k \in Keys
  <2>2. r.dl \subseteq Keys
    BY StoreFields
  <2> HIDE DEF f, g
  <2>3. Works(r, f, S, {})
    BY <2>1, <2>2 DEF Works, Has
  <2>4. Agree(r, q) => Agree(f, g)
    BY <2>1, <2>5 DEF Agree
  <2> QED BY <2>1, <2>3, <2>4 DEF f, g
<1> DEFINE s == DelOne(d, k1)
           t == DelOne(c, k1)
           f == DelOne(s, k2)
           g == DelOne(t, k2)
<1>2. Del(d, k1, k2) = f /\ Del(c, k1, k2) = g
  BY DEF Del, DelOne
<1>3. /\ s \in Stores /\ Works(d, s, S, {}) /\ s.dirty = d.dirty
      /\ t \in Stores /\ (Agree(d, c) => Agree(s, t))
  BY <1>1
<1> HIDE DEF s, t
<1>4. /\ Works(s, f, S, {}) /\ f.dirty = s.dirty
      /\ g \in Stores /\ (Agree(s, t) => Agree(f, g))
  BY <1>1, <1>3
<1> HIDE DEF f, g
<1>5. Works(d, f, S, {})
  BY <1>3, <1>4, WorksTwice
<1>6. Runs(d, f, c, g, S, {})
  BY <1>3, <1>4, <1>5 DEF Runs, Follows
<1> QED BY <1>2, <1>6

\* What a RENAME that succeeds makes of the store e its lookup has left: the
\* value is lost if only the target had a deadline, and if both are one key.
Renames(e, f, k1, k2) ==
    /\ f \in Stores /\ f.dirty = e.dirty /\ f.lost = e.lost /\ f.ok = e.ok
    /\ f.val[k1] = Absent /\ k1 \notin f.dl
    /\ f.dl \subseteq e.dl \cup {k2}
    /\ k1 # k2 => /\ f.val[k2] = IF k1 \notin e.dl /\ k2 \in e.dl THEN Absent
                                 ELSE e.val[k1]
                  /\ k1 \notin e.dl => k2 \notin f.dl
    /\ \A j \in Keys \ {k1, k2} : f.val[j] = e.val[j]

Renamed(e, k1, k2) ==
    LET moved == SetValue(e, k2, e.val[k1])
        set == IF k1 \in e.dl THEN SetExpire(moved, k2, FALSE)
                              ELSE ClearExpire(moved, k2)
    IN  DeleteKey(ClearExpire(set, k1), k1)

LEMMA RenamedRenames ==
    ASSUME NEW e \in Stores, NEW k1 \in Keys, NEW k2 \in Keys
    PROVE  Renames(e, Renamed(e, k1, k2), k1, k2)
<1> DEFINE x == e.val[k1]
           m == SetValue(e, k2, x)
           s1 == SetExpire(m, k2, FALSE)
           s2 == ClearExpire(m, k2)
           s == IF k1 \in e.dl THEN s1 ELSE s2
           t == ClearExpire(s, k1)
           f == DeleteKey(t, k1)
<1>1. Renamed(e, k1, k2) = f
  BY DEF Renamed
<1>2. x \in Values
  BY StoreFields
<1>3. Edits(e, m, k2, x, e.ok) /\ m \in Stores
  <2>1. Edits(e, m, k2, x, e.ok)
    BY <1>2, SetValueEdits
  <2> QED BY <2>1 DEF Edits
<1> HIDE DEF m
<1>4. /\ s1.dl = m.dl \cup {k2} /\ s1.val = m.val /\ s1.dirty = m.dirty
      /\ s1.lost = m.lost /\ s1.ok = m.ok /\ s1 \in Stores
  BY <1>3 DEF SetExpire, Stores
<1>5. Clears(m, s2, k2) /\ s2.lost = m.lost
  BY <1>3, ClearExpireClears
<1> HIDE DEF s1, s2
<1>6. s \in Stores
  BY <1>4, <1>5 DEF Clears
<1> HIDE DEF s
<1>7. Clears(s, t, k1) /\ t.lost = s.lost /\ t \in Stores
  BY <1>6, ClearExpireClears DEF Clears
<1> HIDE DEF t
<1>8. Edits(t, f, k1, Absent, t.ok)
  BY <1>7, DeleteKeyEdits
<1> HIDE DEF f
<1>9. /\ s.dirty = e.dirty /\ s.lost = e.lost /\ s.ok = e.ok
      /\ s.dl = IF k1 \in e.dl THEN e.dl \cup {k2} ELSE e.dl \ {k2}
      /\ s.val[k2] = IF k1 \notin e.dl /\ k2 \in e.dl THEN Absent ELSE x
      /\ \A j \in Keys \ {k2} : s.val[j] = e.val[j]
  <2>1. CASE k1 \in e.dl
    BY <1>3, <1>4, <2>1 DEF Edits, s
  <2>2. CASE k1 \notin e.dl
    BY <1>3, <1>5, <2>2 DEF Edits, Clears, s
  <2> QED BY <2>1, <2>2
<1>10. /\ f \in Stores /\ f.dirty = s.dirty /\ f.lost = s.lost /\ f.ok = s.ok
       /\ f.dl = s.dl \ {k1} /\ f.val[k1] = Absent
       /\ \A j \in Keys \ {k1} : f.val[j] = s.val[j]
  BY <1>7, <1>8 DEF Edits, Clears
<1>11. f.dl \subseteq e.dl \cup {k2} /\ (k1 \notin e.dl => k2 \notin f.dl)
  BY <1>9, <1>10
<1> HIDE DEF x
<1>12. /\ k1 # k2 => f.val[k2] = IF k1 \notin e.dl /\ k2 \in e.dl THEN Absent
                                  ELSE x
       /\ \A j \in Keys \ {k1, k2} : f.val[j] = e.val[j]
  BY <1>9, <1>10
<1> QED BY <1>1, <1>9, <1>10, <1>11, <1>12 DEF Renames, x

LEMMA RenameRuns ==
    ASSUME NEW d \in Stores, NEW c \in Stores, c.due = {}, NEW k1 \in Keys,
           NEW k2 \in Keys, NEW force \in BOOLEAN
    PROVE  /\ Works(d, Rename(d, k1, k2, force), {k1, k2}, {})
           /\ Rename(d, k1, k2, force).dirty = d.dirty
           /\ d.dl \cap {k1, k2} = c.dl \cap {k1, k2} =>
                Follows(d, Rename(d, k1, k2, force),
                        c, Rename(c, k1, k2, force))
<1> DEFINE e == ExpireIfNeed(d, k1)
           s == Renamed(e, k1, k2)
           t == Renamed(c, k1, k2)
           f == Rename(d, k1, k2, force)
           g == Rename(c, k1, k2, force)
           Fails(r) == ~Has(r, k1) \/ (~force /\ Has(r, k2))
<1>1. /\ f = IF Fails(e) THEN Fail(e) ELSE s
      /\ g = IF Fails(c) THEN Fail(c) ELSE t
  BY CopyLooks DEF Rename, Renamed
<1>2. Looks(d, e, k1) /\ e \in Stores
  BY ExpireIfNeedLooks, LookupIsStore
<1> HIDE DEF e, f, g
<1>3. Renames(e, s, k1, k2) /\ Renames(c, t, k1, k2)
  BY <1>2, RenamedRenames
<1> HIDE DEF s, t
<1>4. Edits(e, Fail(e), k1, e.val[k1], FALSE) /\ Fail(e).ok = FALSE
  BY <1>2, FailEdits DEF Edits
<1> DEFINE K == {k1, k2}
<1>5. Works(d, e, K, {}) /\ e.dirty = d.dirty
  BY <1>2, LookWorks DEF Looks
<1>6. ASSUME ~Fails(e) PROVE Works(e, s, K, {})
  <2>1. e.val[k1] # Absent /\ e.dl \subseteq Keys
    BY <1>2, <1>6, StoreFields DEF Has
  <2>2. s \in Stores /\ s.lost = e.lost
    BY <1>3 DEF Renames
  <2>3. \A j \in Keys : s.val[j] # e.val[j] => j \in K
    BY <1>3 DEF Renames
  <2>4. ASSUME NEW j \in s.dl, s.val[j] = Absent
        PROVE  j \in e.dl /\ e.val[j] = Absent
    <3>1. j \in e.dl \cup {k2} /\ j # k1
      BY <1>3, <2>4 DEF Renames
    <3>2. j # k2
      <4>1. SUFFICES ASSUME j = k2 PROVE FALSE
        OBVIOUS
      <4>2. k1 # k2 /\ k1 \in e.dl
        BY <1>3, <2>4, <3>1, <4>1 DEF Renames
      <4>3. s.val[k2] = e.val[k1]
        BY <1>3, <4>2 DEF Renames
      <4> QED BY <2>1, <2>4, <4>1, <4>3
    <3>3. s.val[j] = e.val[j] /\ j \in Keys
      BY <1>3, <2>1, <3>1, <3>2 DEF Renames
    <3> QED BY <2>4, <3>1, <3>2, <3>3
  <2> QED BY <2>2, <2>3, <2>4 DEF Works
<1>7. Works(d, f, K, {}) /\ f.dirty = d.dirty
  <2>1. CASE Fails(e)
    <3> DEFINE h == Fail(e)
    <3>1. Edits(e, h, k1, e.val[k1], FALSE) /\ f = h
      BY <1>1, <1>4, <2>1
    <3> HIDE DEF h
    <3>2. Works(e, h, K, {})
      BY <1>2, <3>1, EditWorks
    <3>3. Works(d, h, K, {})
      BY <1>5, <3>2, WorksTwice
    <3> QED BY <1>5, <3>1, <3>3 DEF Edits
  <2>2. CASE ~Fails(e)
    <3>1. Works(d, s, K, {})
      BY <1>5, <1>6, <2>2, WorksTwice
    <3> QED BY <1>1, <1>3, <1>5, <2>2, <3>1 DEF Renames
  <2> QED BY <2>1, <2>2
<1>8. ASSUME d.dl \cap K = c.dl \cap K, f.ok, f.lost = {}, Agree(d, c)
      PROVE  g \in Stores /\ Agree(f, g)
  <2>1. f = s /\ ~Fails(e)
    BY <1>1, <1>4, <1>8
  <2>2. e.lost = {}
    BY <1>3, <1>8, <2>1 DEF Renames
  <2>3. \A j \in Keys : e.val[j] = d.val[j]
    BY <1>2, <2>2, LookShows
  <2>4. e = d
    <3>1. k1 \notin d.due
      <4>1. e.val[k1] # Absent
        BY <2>1 DEF Has
      <4> QED BY <1>2, <4>1 DEF Looks
    <3> QED BY <1>2, <3>1 DEF Looks
  <2>5. ASSUME NEW k \in Keys PROVE Has(e, k) <=> Has(c, k)
    <3>1. /\ Shown(e.val[k]) = Shown(c.val[k])
          /\ e.val[k] \in Values /\ c.val[k] \in Values
      BY <1>2, <1>8, <2>3, StoreFields DEF Agree
    <3> DEFINE v == e.val[k]
               w == c.val[k]
    <3> HIDE DEF v, w
    <3>2. v = Absent <=> w = Absent
      BY <3>1, ShownAlike DEF v, w
    <3> QED BY <3>2 DEF Has, v, w
  <2>6. g = t
    BY <1>1, <2>1, <2>5
  <2>7. (k1 \in e.dl <=> k1 \in c.dl) /\ (k2 \in e.dl <=> k2 \in c.dl)
    BY <1>8, <2>4
  <2>8. ASSUME NEW j \in Keys PROVE Shown(t.val[j]) = Shown(s.val[j])
    <3>1. Shown(c.val[j]) = Shown(e.val[j]) /\ Shown(c.val[k1]) = Shown(e.val[k1])
      BY <1>8, <2>4 DEF Agree
    <3>2. CASE j = k1
      BY <1>3, <3>2 DEF Renames
    <3>3. CASE j = k2 /\ k1 # k2
      BY <1>3, <2>7, <3>1, <3>3 DEF Renames
    <3>4. CASE j \notin K
      BY <1>3, <3>1, <3>4 DEF Renames
    <3> QED BY <3>2, <3>3, <3>4
  <2> QED BY <1>3, <2>1, <2>6, <2>8 DEF Agree, Renames
<1>9. d.dl \cap K = c.dl \cap K => Follows(d, f, c, g)
  BY <1>8 DEF Follows
<1> QED BY <1>7, <1>9 DEF f, g

\* FLUSHDB keeps the deadlines, FLUSHALL does not.
LEMMA FlushRuns ==
    ASSUME NEW d \in Stores, NEW c \in Stores
    PROVE  /\ Runs(d, FlushDb(d), c, FlushDb(c), Keys, Keys)
           /\ Runs(d, FlushAll(d), c, FlushAll(c), Keys, {})
<1>1. ASSUME NEW r \in Stores
      PROVE  /\ FlushDb(r) \in Stores /\ FlushDb(r).dl = r.dl
             /\ FlushDb(r).dirty = r.dirty /\ FlushDb(r).lost = r.lost
             /\ \A j \in Keys : FlushDb(r).val[j] = Absent
             /\ FlushAll(r) \in Stores /\ FlushAll(r).dl = {}
             /\ FlushAll(r).dirty = r.dirty /\ FlushAll(r).lost = r.lost
             /\ \A j \in Keys : FlushAll(r).val[j] = Absent
  <2> DEFINE v == NoCopy.val
             f == FlushDb(r)
             g == FlushAll(r)
  <2>1. v \in [Keys -> Values] /\ \A j \in Keys : v[j] = Absent
    BY AbsentIsValue DEF NoCopy
  <2>2. f = [r EXCEPT !.val = v] /\ g = [f EXCEPT !.dl = {}, !.due = {}]
    BY DEF FlushDb, FlushAll
  <2> HIDE DEF v, f, g
  <2>3. /\ f.val = v /\ f.dl = r.dl /\ f.dirty = r.dirty /\ f.lost = r.lost
        /\ f \in Stores
    BY <2>1, <2>2 DEF Stores
  <2>4. /\ g.val = v /\ g.dl = {} /\ g.dirty = r.dirty /\ g.lost = r.lost
        /\ g \in Stores
    BY <2>2, <2>3 DEF Stores
  <2> QED BY <2>1, <2>3, <2>4 DEF f, g
<1> DEFINE f1 == FlushDb(d)
           g1 == FlushDb(c)
           f2 == FlushAll(d)
           g2 == FlushAll(c)
<1>2. /\ f1 \in Stores /\ f1.dl = d.dl /\ f1.dirty = d.dirty /\ f1.lost = d.lost
      /\ \A j \in Keys : f1.val[j] = Absent
      /\ f2 \in Stores /\ f2.dl = {} /\ f2.dirty = d.dirty /\ f2.lost = d.lost
      /\ \A j \in Keys : f2.val[j] = Absent
  BY <1>1
<1>3. /\ g1 \in Stores /\ \A j \in Keys : g1.val[j] = Absent
      /\ g2 \in Stores /\ \A j \in Keys : g2.val[j] = Absent
  BY <1>1
<1>4. d.dl \subseteq Keys
  BY StoreFields
<1> HIDE DEF f1, f2, g1, g2
<1>5. Runs(d, f1, c, g1, Keys, Keys)
  BY <1>2, <1>3, <1>4 DEF Runs, Works, Follows, Agree
<1>6. Runs(d, f2, c, g2, Keys, {})
  BY <1>2, <1>3, <1>4 DEF Runs, Works, Follows, Agree
<1> QED BY <1>5, <1>6 DEF f1, f2, g1, g2

\* LoopCheck clears what is past its deadline, and its DELs delete it there.
Cleared(d, gone) ==
    [d EXCEPT !.val = [k \in Keys |-> IF k \in gone THEN Absent ELSE @[k]],
              !.dl = @ \ gone, !.due = @ \ gone]
Deleted(d, gone) ==
    [d EXCEPT !.val = [k \in Keys |-> IF k \in gone THEN Absent ELSE @[k]],
              !.dl = {k \in @ : k \notin gone \/ d.val[k] = Absent}]

LEMMA LoopRuns ==
    ASSUME NEW d \in Stores, NEW c \in Stores, c.due = {},
           NEW gone \in SUBSET Keys
    PROVE  Runs(d, Cleared(d, gone), c, Deleted(c, gone), gone, {})
<1> DEFINE f == Cleared(d, gone)
           g == Deleted(c, gone)
           v == [k \in Keys |-> IF k \in gone THEN Absent ELSE d.val[k]]
           w == [k \in Keys |-> IF k \in gone THEN Absent ELSE c.val[k]]
           l == {k \in c.dl : k \notin gone \/ c.val[k] = Absent}
<1>1. /\ v \in [Keys -> Values] /\ w \in [Keys -> Values]
      /\ \A k \in Keys : v[k] = IF k \in gone THEN Absent ELSE d.val[k]
      /\ \A k \in Keys : w[k] = IF k \in gone THEN Absent ELSE c.val[k]
  BY StoreFields, AbsentIsValue
<1>2. /\ f = [d EXCEPT !.val = v, !.dl = @ \ gone, !.due = @ \ gone]
      /\ g = [c EXCEPT !.val = w, !.dl = l]
  BY DEF Cleared, Deleted
<1>3. l \subseteq c.dl
  OBVIOUS
<1> HIDE DEF f, g, v, w, l
<1>4. /\ f.val = v /\ f.dl = d.dl \ gone /\ f.dirty = d.dirty
      /\ f.lost = d.lost /\ f \in Stores
  BY <1>1, <1>2 DEF Stores
<1>5. g.val = w /\ g \in Stores
  BY <1>1, <1>2, <1>3 DEF Stores
<1>6. Works(d, f, gone, {})
  <2>1. d.dl \subseteq Keys
    BY StoreFields
  <2> QED BY <1>1, <1>4, <2>1 DEF Works
<1>7. Agree(d, c) => Agree(f, g)
  BY <1>1, <1>4, <1>5 DEF Agree
<1>8. Runs(d, f, c, g, gone, {})
  BY <1>4, <1>5, <1>6, <1>7 DEF Runs, Follows
<1> QED BY <1>8 DEF f, g

-----------------------------------------------------------------------------
(***************************************************************************)
(* SDIFFSTORE, SINTERSTORE and SUNIONSTORE.                                 *)
(***************************************************************************)
SetOf(S) == Value("set", [m \in S |-> 0])

LEMMA SetOfIsValue ==
    ASSUME NEW S \in SUBSET Members
    PROVE  SetOf(S) \in Values /\ SetOf(S) # Absent /\ SetOf(S).type = "set"
<1>1. Holds("set", [m \in S |-> 0])
  BY DEF Holds, Partial
<1> QED BY <1>1, HoldingIsValue, ValueFields DEF SetOf, Types

LEMMA MembersOfSet ==
    ASSUME NEW d \in Stores, NEW k \in Keys, d.val[k].type = "set"
    PROVE  MembersOf(d, k) \subseteq Members
<1> DEFINE x == d.val[k]
<1>1. x \in Values /\ x.type = "set"
  BY StoreFields
<1> HIDE DEF x
<1>2. Holds("set", x.v)
  BY <1>1, ValuesAre
<1>3. x.v \in Partial(Members, {0})
  BY <1>2 DEF Holds
<1>4. DOMAIN x.v \subseteq Members
  BY <1>3, PartialIs
<1> QED BY <1>4 DEF MembersOf, x

\* The steps of the handler, and its result where it is defined.
First(e1, k1) == IF e1.val[k1].type = "set" THEN MembersOf(e1, k1) ELSE {}
Emptied(d, dst, k1) == ExpireIfNeed(SetValue(d, dst, SetOf({})), k1)
Filled(e1, dst, k1, k2) == ExpireIfNeed(SetValue(e1, dst, SetOf(First(e1, k1))), k2)
Stored(e1, e2, op, dst, k1, k2) ==
    IF e1.val[k1].type # "set" THEN e1
    ELSE IF e2.val[k2].type = "set"
         THEN SetValue(e2, dst, SetOf(Combine(op, First(e1, k1), MembersOf(e2, k2))))
         ELSE IF op = "inter" THEN SetValue(e2, dst, SetOf({})) ELSE e2

LEMMA SStoreIs ==
    ASSUME NEW d, NEW op, NEW dst, NEW k1, NEW k2,
           op = "union" => Emptied(d, dst, k1).val[k1].type = "set"
    PROVE  SStore(d, op, dst, k1, k2) =
             Stored(Emptied(d, dst, k1), Filled(Emptied(d, dst, k1), dst, k1, k2),
                    op, dst, k1, k2)
<1> DEFINE e1 == Emptied(d, dst, k1)
           e2 == Filled(e1, dst, k1, k2)
           T1 == e1.val[k1].type = "set"
           T2 == e2.val[k2].type = "set"
           a == SetValue(e2, dst, SetOf(Combine(op, First(e1, k1), MembersOf(e2, k2))))
           b == SetValue(e2, dst, SetOf({}))
<1>1. SStore(d, op, dst, k1, k2) =
        CASE ~T1 /\ op # "union" -> e1
          [] T1 /\ T2 -> a
          [] T1 /\ ~T2 -> IF op = "inter" THEN b ELSE e2
  BY DEF SStore, Emptied, Filled, First, SetOf
<1>2. Stored(e1, e2, op, dst, k1, k2) =
        IF ~T1 THEN e1 ELSE IF T2 THEN a ELSE IF op = "inter" THEN b ELSE e2
  BY DEF Stored
<1>3. op = "union" => T1
  OBVIOUS
<1> HIDE DEF T1, T2, a, b, e1, e2
<1>4. SStore(d, op, dst, k1, k2) = Stored(e1, e2, op, dst, k1, k2)
  BY <1>1, <1>2, <1>3
<1> QED BY <1>4 DEF e1, e2

LEMMA EmptiedIs ==
    ASSUME NEW d \in Stores, NEW dst \in Keys, NEW k1 \in Keys
    PROVE  /\ Emptied(d, dst, k1) \in Stores /\ First(Emptied(d, dst, k1), k1) \subseteq Members
           /\ Works(d, Emptied(d, dst, k1), {dst}, {})
           /\ Emptied(d, dst, k1).dirty = d.dirty
<1> DEFINE x == SetOf({})
           s == SetValue(d, dst, x)
           e == ExpireIfNeed(s, k1)
<1>1. x \in Values /\ x # Absent
  BY SetOfIsValue
<1> HIDE DEF x
<1>2. Edits(d, s, dst, x, d.ok)
  BY <1>1, SetValueEdits
<1>3. Works(d, s, {dst}, {}) /\ s \in Stores /\ s.dirty = d.dirty
  <2> HIDE DEF s
  <2> QED BY <1>1, <1>2, EditWorks DEF Edits
<1> HIDE DEF s
<1>4. Looks(s, e, k1) /\ e \in Stores
  BY <1>3, ExpireIfNeedLooks, LookupIsStore
<1> HIDE DEF e
<1>5. Works(s, e, {dst}, {}) /\ e.dirty = s.dirty
  BY <1>3, <1>4, LookWorks DEF Looks
<1>6. Works(d, e, {dst}, {})
  BY <1>3, <1>5, WorksTwice
<1>7. First(e, k1) \subseteq Members
  BY <1>4, MembersOfSet DEF First
<1>8. e = Emptied(d, dst, k1)
  BY DEF Emptied, e, s, x
<1> QED BY <1>3, <1>4, <1>5, <1>6, <1>7, <1>8

LEMMA FilledIs ==
    ASSUME NEW e1 \in Stores, NEW dst \in Keys, NEW k1 \in Keys, NEW k2 \in Keys
    PROVE  /\ Filled(e1, dst, k1, k2) \in Stores
           /\ Works(e1, Filled(e1, dst, k1, k2), {dst}, {})
           /\ Filled(e1, dst, k1, k2).dirty = e1.dirty
<1> DEFINE F == First(e1, k1)
           x == SetOf(F)
           s == SetValue(e1, dst, x)
           e == ExpireIfNeed(s, k2)
<1>1. x \in Values /\ x # Absent
  <2>1. F \in SUBSET Members
    BY MembersOfSet DEF First
  <2> HIDE DEF F
  <2> QED BY <2>1, SetOfIsValue
<1> HIDE DEF x
<1>2. Edits(e1, s, dst, x, e1.ok)
  BY <1>1, SetValueEdits
<1>3. Works(e1, s, {dst}, {}) /\ s \in Stores /\ s.dirty = e1.dirty
  <2> HIDE DEF s
  <2> QED BY <1>1, <1>2, EditWorks DEF Edits
<1> HIDE DEF s
<1>4. Looks(s, e, k2) /\ e \in Stores
  BY <1>3, ExpireIfNeedLooks, LookupIsStore
<1> HIDE DEF e
<1>5. Works(s, e, {dst}, {}) /\ e.dirty = s.dirty
  BY <1>3, <1>4, LookWorks DEF Looks
<1>6. Works(e1, e, {dst}, {})
  BY <1>3, <1>5, WorksTwice
<1>7. e = Filled(e1, dst, k1, k2)
  BY DEF Filled, e, s, x
<1> QED BY <1>3, <1>4, <1>5, <1>6, <1>7

\* The set the handler ends with, if it ends with one of its own making.
Result(e1, e2, op, k1, k2) ==
    IF e2.val[k2].type = "set"
    THEN Combine(op, First(e1, k1), MembersOf(e2, k2)) ELSE {}
Makes(e1, e2, op, k1, k2) ==
    /\ e1.val[k1].type = "set"
    /\ e2.val[k2].type = "set" \/ op = "inter"

LEMMA StoredIs ==
    ASSUME NEW e1 \in Stores, NEW e2 \in Stores, NEW op \in {"diff", "inter", "union"},
           NEW dst \in Keys, NEW k1 \in Keys, NEW k2 \in Keys
    PROVE  /\ Makes(e1, e2, op, k1, k2) =>
                Edits(e2, Stored(e1, e2, op, dst, k1, k2), dst,
                      SetOf(Result(e1, e2, op, k1, k2)), e2.ok)
           /\ ~Makes(e1, e2, op, k1, k2) =>
                Stored(e1, e2, op, dst, k1, k2) =
                  IF e1.val[k1].type # "set" THEN e1 ELSE e2
           /\ SetOf(Result(e1, e2, op, k1, k2)) # Absent
<1> DEFINE S == Result(e1, e2, op, k1, k2)
           x == SetOf(S)
           f == Stored(e1, e2, op, dst, k1, k2)
<1>1. S \in SUBSET Members
  <2> DEFINE A == First(e1, k1)
             B == MembersOf(e2, k2)
  <2>1. A \subseteq Members
    BY MembersOfSet DEF First
  <2>2. e2.val[k2].type = "set" => B \subseteq Members
    BY MembersOfSet
  <2> HIDE DEF A, B
  <2>3. Combine(op, A, B) \in {A \ B, A \cap B, A \cup B}
    BY DEF Combine
  <2>4. S = IF e2.val[k2].type = "set" THEN Combine(op, A, B) ELSE {}
    BY DEF Result, A, B
  <2> HIDE DEF S
  <2> QED BY <2>1, <2>2, <2>3, <2>4
<1>2. Makes(e1, e2, op, k1, k2) => f = SetValue(e2, dst, x)
  BY DEF Makes, Stored, Result
<1>3. ~Makes(e1, e2, op, k1, k2) => f = IF e1.val[k1].type # "set" THEN e1 ELSE e2
  BY DEF Makes, Stored
<1> HIDE DEF S, f
<1>4. x \in Values /\ x # Absent
  BY <1>1, SetOfIsValue
<1> HIDE DEF x
<1>5. Edits(e2, SetValue(e2, dst, x), dst, x, e2.ok)
  BY <1>4, SetValueEdits
<1> QED BY <1>2, <1>3, <1>4, <1>5 DEF f, x, S

StoredAsItShould(d, op, dst, k1, k2) ==
    LET e1 == Emptied(d, dst, k1)
        e2 == Filled(e1, dst, k1, k2)
        f == Stored(e1, e2, op, dst, k1, k2)
    IN /\ Works(d, f, {dst}, {})
       /\ f.dirty = d.dirty
       /\ e1.lost \subseteq f.lost
       /\ e1.val[k1].type = "set" => e2.lost \subseteq f.lost

LEMMA StoredWorks ==
    ASSUME NEW d \in Stores, NEW op \in {"diff", "inter", "union"},
           NEW dst \in Keys, NEW k1 \in Keys, NEW k2 \in Keys
    PROVE  StoredAsItShould(d, op, dst, k1, k2)
<1> DEFINE e1 == Emptied(d, dst, k1)
           e2 == Filled(e1, dst, k1, k2)
           f == Stored(e1, e2, op, dst, k1, k2)
           x == SetOf(Result(e1, e2, op, k1, k2))
           p == Makes(e1, e2, op, k1, k2)
<1> SUFFICES /\ Works(d, f, {dst}, {})
             /\ f.dirty = d.dirty
             /\ e1.lost \subseteq f.lost
             /\ e1.val[k1].type = "set" => e2.lost \subseteq f.lost
  BY DEF StoredAsItShould
<1>1. e1 \in Stores /\ Works(d, e1, {dst}, {}) /\ e1.dirty = d.dirty
  BY EmptiedIs
<1> HIDE DEF e1
<1>2. e2 \in Stores /\ Works(e1, e2, {dst}, {}) /\ e2.dirty = e1.dirty
  BY <1>1, FilledIs
<1> HIDE DEF e2
<1>3. /\ p => Edits(e2, f, dst, x, e2.ok)
      /\ ~p => f = IF e1.val[k1].type # "set" THEN e1 ELSE e2
      /\ x # Absent
  BY <1>1, <1>2, StoredIs
<1> HIDE DEF f, x
<1>4. Works(d, e2, {dst}, {}) /\ e1.lost \subseteq e2.lost
  BY <1>1, <1>2, WorksTwice DEF Works
<1>5. CASE p
  <2>1. Edits(e2, f, dst, x, e2.ok)
    BY <1>3, <1>5
  <2>2. Works(e2, f, {dst}, {})
    BY <1>2, <1>3, <2>1, EditWorks
  <2>3. Works(d, f, {dst}, {})
    BY <1>4, <2>2, WorksTwice
  <2>4. f.dirty = d.dirty /\ f.lost = e2.lost
    BY <1>1, <1>2, <2>1 DEF Edits
  <2> QED BY <1>4, <2>3, <2>4
<1>6. CASE ~p
  <2>1. (f = e1 /\ e1.val[k1].type # "set") \/ f = e2
    BY <1>3, <1>6
  <2> QED BY <1>1, <1>2, <1>4, <2>1
<1> QED BY <1>5, <1>6

\* Setting a key and looking another up, on a server and on a copy.
LEMMA SetAndLook ==
    ASSUME NEW d \in Stores, NEW c \in Stores, c.due = {}, Agree(d, c),
           NEW dst \in Keys, NEW k \in Keys, NEW x \in Values, NEW e, NEW h,
           e = ExpireIfNeed(SetValue(d, dst, x), k), e.lost = {},
           h = ExpireIfNeed(SetValue(c, dst, x), k)
    PROVE  /\ h \in Stores /\ h.due = {} /\ Agree(e, h)
           /\ e.val[k].type = h.val[k].type
           /\ e.val[k].type = "set" => MembersOf(e, k) = MembersOf(h, k)
<1> DEFINE s == SetValue(d, dst, x)
           t == SetValue(c, dst, x)
<1>1. Edits(d, s, dst, x, d.ok) /\ Edits(c, t, dst, x, c.ok)
  BY SetValueEdits
<1>2. e = ExpireIfNeed(s, k) /\ h = ExpireIfNeed(t, k)
  OBVIOUS
<1> HIDE DEF s, t
<1>3. s \in Stores /\ t \in Stores /\ t.due = {}
  BY <1>1 DEF Edits
<1>4. h = t
  BY <1>2, <1>3, CopyLooks
<1>5. Looks(s, e, k) /\ e \in Stores
  BY <1>2, <1>3, ExpireIfNeedLooks, LookupIsStore
<1>6. \A j \in Keys : e.val[j] = s.val[j]
  BY <1>3, <1>5, LookShows
<1>7. Agree(e, h)
  BY <1>1, <1>4, <1>6 DEF Agree, Edits
<1> DEFINE v == e.val[k]
           w == h.val[k]
<1>8. v \in Values /\ w \in Values /\ Shown(v) = Shown(w)
  BY <1>3, <1>4, <1>5, <1>7, StoreFields DEF Agree
<1> HIDE DEF v, w
<1>9. v.type = w.type /\ (v.type = "set" => v = w)
  BY <1>8, ShownAlike
<1> QED BY <1>3, <1>4, <1>7, <1>9 DEF MembersOf, v, w

\* A union that the build does not decide as it likes begins with a set.
LEMMA UnionIsDefined ==
    ASSUME NEW d \in Stores, NEW dst \in Keys, NEW k1 \in Keys,
           k1 = dst \/ (k1 \notin d.due /\ d.val[k1].type = "set"),
           dst \in d.due => dst # k1
    PROVE  Emptied(d, dst, k1).val[k1].type = "set"
<1> DEFINE x == SetOf({})
           s == SetValue(d, dst, x)
           e == Emptied(d, dst, k1)
<1>1. x \in Values /\ x.type = "set"
  BY SetOfIsValue
<1>2. e = ExpireIfNeed(s, k1)
  BY DEF Emptied
<1> HIDE DEF x
<1>3. Edits(d, s, dst, x, d.ok)
  BY <1>1, SetValueEdits
<1> HIDE DEF s, e
<1>4. k1 \notin s.due
  BY <1>3 DEF Edits
<1>5. e = s
  BY <1>2, <1>4 DEF ExpireIfNeed
<1>6. e.val[k1].type = "set"
  BY <1>1, <1>3, <1>5 DEF Edits
<1> QED BY <1>6 DEF e

LEMMA SStoreRuns ==
    ASSUME NEW d \in Stores, NEW c \in Stores, c.due = {},
           NEW op \in {"diff", "inter", "union"},
           NEW dst \in Keys, NEW k1 \in Keys, NEW k2 \in Keys,
           dst \in d.due => dst \notin {k1, k2},
           op = "union" => k1 = dst \/ (k1 \notin d.due /\ d.val[k1].type = "set")
    PROVE  Runs(d, SStore(d, op, dst, k1, k2), c, SStore(c, op, dst, k1, k2),
                {dst}, {})
<1> DEFINE e1 == Emptied(d, dst, k1)
           e2 == Filled(e1, dst, k1, k2)
           f == Stored(e1, e2, op, dst, k1, k2)
           h1 == Emptied(c, dst, k1)
           h2 == Filled(h1, dst, k1, k2)
           g == Stored(h1, h2, op, dst, k1, k2)
           x0 == SetOf({})
<1>1. x0 \in Values /\ x0.type = "set"
  BY SetOfIsValue
<1>2. op = "union" => e1.val[k1].type = "set"
  BY UnionIsDefined
<1>3. SStore(d, op, dst, k1, k2) = f
  BY <1>2, SStoreIs
<1>4. ASSUME op = "union" => h1.val[k1].type = "set"
      PROVE  SStore(c, op, dst, k1, k2) = g
  BY <1>4, SStoreIs
<1> DEFINE q == SStore(c, op, dst, k1, k2)
<1>6. /\ e1 = ExpireIfNeed(SetValue(d, dst, x0), k1)
      /\ h1 = ExpireIfNeed(SetValue(c, dst, x0), k1)
  BY DEF Emptied
<1>7. e1 \in Stores /\ h1 \in Stores /\ First(e1, k1) \subseteq Members
  BY EmptiedIs
<1> HIDE DEF q, x0
<1>8. /\ Works(d, f, {dst}, {}) /\ f.dirty = d.dirty
      /\ e1.lost \subseteq f.lost
      /\ e1.val[k1].type = "set" => e2.lost \subseteq f.lost
  <2>1. StoredAsItShould(d, op, dst, k1, k2)
    BY StoredWorks
  <2> QED BY ONLY <2>1 DEF StoredAsItShould
<1> HIDE DEF e1, h1
<1>9. ASSUME f.ok, f.lost = {}, Agree(d, c) PROVE q \in Stores /\ Agree(f, q)
  <2>1. e1.lost = {}
    BY <1>8, <1>9
  <2>2. /\ h1.due = {} /\ Agree(e1, h1)
        /\ e1.val[k1].type = h1.val[k1].type
        /\ e1.val[k1].type = "set" => MembersOf(e1, k1) = MembersOf(h1, k1)
    BY <1>1, <1>6, <1>9, <2>1, SetAndLook
  <2>3. q = g
    BY <1>2, <1>4, <2>2 DEF q
  <2>4. First(e1, k1) = First(h1, k1)
    BY <2>2 DEF First
  <2>5. CASE e1.val[k1].type # "set"
    <3>1. f = e1 /\ g = h1
      BY <2>2, <2>5 DEF Stored
    <3> HIDE DEF f, g
    <3> QED BY <1>7, <2>2, <2>3, <3>1
  <2>6. CASE e1.val[k1].type = "set"
    <3> DEFINE F == First(e1, k1)
               y == SetOf(F)
    <3>1. y \in Values
      BY <1>7, SetOfIsValue
    <3>2. /\ e2 = ExpireIfNeed(SetValue(e1, dst, y), k2)
          /\ h2 = ExpireIfNeed(SetValue(h1, dst, y), k2)
      BY <2>4 DEF Filled
    <3>3. e2.lost = {}
      BY <1>8, <1>9, <2>6
    <3>4. e2 \in Stores
      BY <1>7, FilledIs
    <3> HIDE DEF y, e2, h2
    <3>5. /\ h2 \in Stores /\ Agree(e2, h2)
          /\ e2.val[k2].type = h2.val[k2].type
          /\ e2.val[k2].type = "set" => MembersOf(e2, k2) = MembersOf(h2, k2)
      BY <1>7, <2>2, <3>1, <3>2, <3>3, SetAndLook
    <3> DEFINE p == Makes(e1, e2, op, k1, k2)
               r == Makes(h1, h2, op, k1, k2)
               x == SetOf(Result(e1, e2, op, k1, k2))
               z == SetOf(Result(h1, h2, op, k1, k2))
    <3>6. (p <=> r) /\ x = z
      BY <2>2, <2>4, <3>5 DEF Makes, Result
    <3>7. /\ p => Edits(e2, f, dst, x, e2.ok)
          /\ ~p => f = e2
      BY <1>7, <2>6, <3>4, StoredIs
    <3>8. /\ r => Edits(h2, g, dst, z, h2.ok)
          /\ ~r => g = h2
      <4>1. /\ r => Edits(h2, g, dst, z, h2.ok)
            /\ ~r => g = IF h1.val[k1].type # "set" THEN h1 ELSE h2
        BY <1>7, <3>5, StoredIs
      <4>2. h1.val[k1].type = "set"
        BY <2>2, <2>6
      <4> HIDE DEF r, z, g
      <4> QED BY <4>1, <4>2
    <3> HIDE DEF p, r, x, z, f, g
    <3>9. CASE p
      BY <2>3, <3>5, <3>6, <3>7, <3>8, <3>9 DEF Edits, Agree
    <3>10. CASE ~p
      BY <2>3, <3>5, <3>6, <3>7, <3>8, <3>10
    <3> QED BY <3>9, <3>10
  <2> QED BY <2>5, <2>6
<1> HIDE DEF f
<1>10. Runs(d, f, c, q, {dst}, {})
  BY <1>8, <1>9 DEF Runs, Follows
<1> QED BY <1>3, <1>10 DEF q

-----------------------------------------------------------------------------
(***************************************************************************)
(* What a handler that fails has changed.  Nobody is told of its failure,   *)
(* so each lemma says of one handler which keys that may be.                *)
(***************************************************************************)
Quiet(d, f, K) ==
    f.ok \/ \A j \in Keys \ K : f.val[j] # d.val[j] => j \in f.lost

LEMMA WorksIsQuiet ==
    ASSUME NEW d, NEW f, NEW K, NEW O, Works(d, f, K, O)
    PROVE  Quiet(d, f, K)
BY DEF Works, Quiet

\* A lookup and an edit of the key: it has the value found, or it had one
\* whose deadline had passed.
LEMMA EditQuiet ==
    ASSUME NEW d \in Stores, NEW k \in Keys, NEW e, Looks(d, e, k),
           NEW f, NEW x, NEW b, Edits(e, f, k, x, b), NEW K,
           \/ k \in K
           \/ x = e.val[k]
           \/ d.val[k] # Absent /\ e.val[k] = Absent
    PROVE  Quiet(d, f, K)
<1>1. ASSUME NEW j \in Keys \ K, f.val[j] # d.val[j] PROVE j \in f.lost
  <2>1. j = k
    BY <1>1 DEF Looks, Edits
  <2>2. k \in d.due
    BY <1>1, <2>1 DEF Looks, Edits
  <2>3. d.val[k] # Absent
    BY <1>1, <2>1, <2>2 DEF Looks, Edits
  <2> QED BY <2>1, <2>2, <2>3 DEF Looks, Edits
<1> QED BY <1>1 DEF Quiet

\* The handlers that fail because of the type of what they find.
LEMMA LookQuiet ==
    ASSUME NEW d \in Stores, d.ok, NEW k \in Keys, NEW K
    PROVE  LET e == ExpireIfNeed(d, k) IN
           /\ Looks(d, e, k) /\ e \in Stores /\ e.ok
           /\ Quiet(d, Fail(e), K)
<1> DEFINE e == ExpireIfNeed(d, k)
           f == Fail(e)
<1>1. Looks(d, e, k) /\ e \in Stores
  BY ExpireIfNeedLooks, LookupIsStore
<1> HIDE DEF e
<1>2. Edits(e, f, k, e.val[k], FALSE)
  BY <1>1, FailEdits
<1> HIDE DEF f
<1>3. Quiet(d, f, K) /\ e.ok
  BY <1>1, <1>2, EditQuiet DEF Looks
<1> QED BY <1>1, <1>3 DEF e, f

LEMMA ChangedOk ==
    ASSUME NEW e \in Stores, e.ok, NEW k
    PROVE  /\ \A x : SetValue(e, k, x).ok
           /\ \A w : Put(e, k, w).ok
           /\ \A S : Drop(e, k, S).ok
BY DEF SetValue, Put, DeleteKey, Drop, Stores

\* A handler that is given an empty value where there is none.
LEMMA UpdateQuiet ==
    ASSUME NEW d \in Stores, d.ok, NEW k \in Keys,
           NEW type \in Types \ {"string"}, NEW f, NEW w, NEW K,
           LET e == ExpireIfNeed(d, k)
               s == Started(e, k, type)
           IN  \/ f = Fail(e)
               \/ /\ Fits(e.val[k], type)
                  /\ \/ f = s \/ f = Put(s, k, w)
                     \/ f = Fail(s) /\ (k \in K \/ d.val[k] # Absent)
    PROVE  Quiet(d, f, K)
<1> DEFINE e == ExpireIfNeed(d, k)
           s == Started(e, k, type)
<1>1. Looks(d, e, k) /\ e \in Stores /\ e.ok /\ Quiet(d, Fail(e), K)
  BY LookQuiet
<1>2. \/ f = Fail(e)
      \/ /\ Fits(e.val[k], type)
         /\ \/ f = s \/ f = Put(s, k, w)
            \/ f = Fail(s) /\ (k \in K \/ d.val[k] # Absent)
  OBVIOUS
<1> HIDE DEF e
<1>3. CASE f = Fail(e)
  BY <1>1, <1>3
<1>4. CASE Fits(e.val[k], type)
  <2>1. /\ s \in Stores /\ s.ok
        /\ Edits(e, s, k, Value(type, Content(e.val[k])), e.ok)
    BY <1>1, <1>4, StartedHas, StartedEdits
  <2>2. e.val[k] # Absent => s = e
    BY <1>4 DEF Started, Fits
  <2> HIDE DEF s
  <2>3. CASE f = s \/ f = Put(s, k, w)
    BY <2>1, <2>3, ChangedOk DEF Quiet
  <2>4. CASE f = Fail(s) /\ (k \in K \/ d.val[k] # Absent)
    <3> DEFINE x == s.val[k]
    <3>1. Edits(s, f, k, x, FALSE)
      BY <2>1, <2>4, FailEdits
    <3>2. e.val[k] # Absent => x = e.val[k]
      BY <2>2
    <3> HIDE DEF x
    <3>3. Edits(e, f, k, x, FALSE)
      BY <1>1, <2>1, <3>1, EditsTwice
    <3> QED BY <1>1, <2>4, <3>2, <3>3, EditQuiet
  <2> QED BY <1>2, <1>3, <2>3, <2>4
<1> QED BY <1>2, <1>3, <1>4

LEMMA SAddQuiet ==
    ASSUME NEW d \in Stores, d.ok, NEW k \in Keys, NEW S
    PROVE  Quiet(d, SAdd(d, k, S), {})
<1> DEFINE e == ExpireIfNeed(d, k)
           s == Started(e, k, "set")
           f == SAdd(d, k, S)
           w == With(s.val[k].v, S, 0)
<1>1. f = Fail(e) \/ (Fits(e.val[k], "set") /\ f = Put(s, k, w))
  BY Found DEF SAdd, Update, Started, Fits, Has
<1> HIDE DEF f, w
<1> QED BY <1>1, UpdateQuiet DEF Types, f

LEMMA HSetQuiet ==
    ASSUME NEW d \in Stores, d.ok, NEW k \in Keys, NEW F, NEW n
    PROVE  Quiet(d, HSet(d, k, F, n), {})
<1> DEFINE e == ExpireIfNeed(d, k)
           s == Started(e, k, "hash")
           f == HSet(d, k, F, n)
           w == With(s.val[k].v, F, n)
<1>1. f = Fail(e) \/ (Fits(e.val[k], "hash") /\ f = Put(s, k, w))
  BY Found DEF HSet, Update, Started, Fits, Has
<1> HIDE DEF f, w
<1> QED BY <1>1, UpdateQuiet DEF Types, f

LEMMA HSetNxQuiet ==
    ASSUME NEW d \in Stores, d.ok, NEW k \in Keys, NEW m, NEW n
    PROVE  Quiet(d, HSetNx(d, k, m, n), {})
<1> DEFINE e == ExpireIfNeed(d, k)
           s == Started(e, k, "hash")
           f == HSetNx(d, k, m, n)
           w == With(s.val[k].v, {m}, n)
<1>1. f = Fail(e) \/ (Fits(e.val[k], "hash") /\ (f = s \/ f = Put(s, k, w)))
  BY Found DEF HSetNx, Update, Started, Fits, Has
<1> HIDE DEF f, w
<1> QED BY <1>1, UpdateQuiet DEF Types, f

\* A field that is no number is in a hash that was there.
LEMMA FieldWasThere ==
    ASSUME NEW e \in Stores, NEW k \in Keys, Fits(e.val[k], "hash"),
           NEW m, m \in MembersOf(Started(e, k, "hash"), k)
    PROVE  Started(e, k, "hash") = e
<1> DEFINE s == Started(e, k, "hash")
<1>1. s.val[k].v = Content(e.val[k])
  BY StartedHas DEF Types
<1>2. e.val[k] # Absent
  <2>1. m \in DOMAIN Content(e.val[k])
    BY <1>1 DEF MembersOf
  <2> QED BY <2>1 DEF Content, Empty
<1> QED BY <1>2 DEF Started, Fits

LEMMA HIncrByQuiet ==
    ASSUME NEW d \in Stores, d.ok, NEW k \in Keys, NEW m, NEW delta
    PROVE  Quiet(d, HIncrBy(d, k, m, delta), {})
<1> DEFINE e == ExpireIfNeed(d, k)
           s == Started(e, k, "hash")
           f == HIncrBy(d, k, m, delta)
           n == Number(s.val[k].v, m)
           w == With(s.val[k].v, {m}, Wrap(n + delta))
<1>1. \/ f = Fail(e)
      \/ /\ Fits(e.val[k], "hash")
         /\ (n > MaxInt /\ f = Fail(s)) \/ f = Put(s, k, w)
  BY Found DEF HIncrBy, Update, Started, Fits, Has, Number, MembersOf
<1>2. n > MaxInt => m \in MembersOf(s, k)
  BY MaxIntAssumption DEF Number, MembersOf
<1>3. e \in Stores
  BY LookupIsStore
<1> HIDE DEF f, w, n, e
<1>4. f = Fail(e) \/ (Fits(e.val[k], "hash") /\ f = Put(s, k, w))
  BY <1>1, <1>2, <1>3, FieldWasThere
<1> QED BY <1>4, UpdateQuiet DEF Types, f, e

LEMMA HIncrByFloatQuiet ==
    ASSUME NEW d \in Stores, d.ok, NEW k \in Keys, NEW m
    PROVE  Quiet(d, HIncrByFloat(d, k, m), {})
<1> DEFINE e == ExpireIfNeed(d, k)
           s == Started(e, k, "hash")
           f == HIncrByFloat(d, k, m)
           w == With(s.val[k].v, {m}, Fraction)
<1>1. \/ f = Fail(e)
      \/ /\ Fits(e.val[k], "hash")
         /\ (m \in MembersOf(s, k) /\ f = Fail(s)) \/ f = Put(s, k, w)
  BY Found DEF HIncrByFloat, Update, Started, Fits, Has, MembersOf
<1>2. e \in Stores
  BY LookupIsStore
<1> HIDE DEF f, w, e
<1>3. f = Fail(e) \/ (Fits(e.val[k], "hash") /\ f = Put(s, k, w))
  BY <1>1, <1>2, FieldWasThere
<1> QED BY <1>3, UpdateQuiet DEF Types, f, e

\* The pairs before a score that is no number are added.
LEMMA ZAddQuiet ==
    ASSUME NEW d \in Stores, d.ok, NEW k \in Keys, NEW S, NEW n,
           NEW nan \in BOOLEAN
    PROVE  ~nan => Quiet(d, ZAdd(d, k, S, n, nan), {})
<1> SUFFICES ASSUME ~nan PROVE Quiet(d, ZAdd(d, k, S, n, nan), {})
  OBVIOUS
<1> DEFINE e == ExpireIfNeed(d, k)
           s == Started(e, k, "zset")
           f == ZAdd(d, k, S, n, nan)
           w == With(s.val[k].v, S \ MembersOf(s, k), n)
<1>1. f = Fail(e) \/ (Fits(e.val[k], "zset") /\ f = Put(s, k, w))
  BY Found DEF ZAdd, Update, Started, Fits, Has
<1> HIDE DEF f, w
<1> QED BY <1>1, UpdateQuiet DEF Types, f

\* The sorted set is created before the score is read.
LEMMA ZIncrByQuiet ==
    ASSUME NEW d \in Stores, d.ok, NEW k \in Keys, NEW m, NEW nan \in BOOLEAN,
           NEW K, nan => k \in K \/ d.val[k] # Absent
    PROVE  Quiet(d, ZIncrBy(d, k, m, 1, nan), K)
<1> DEFINE e == ExpireIfNeed(d, k)
           s == Started(e, k, "zset")
           f == ZIncrBy(d, k, m, 1, nan)
           n == Number(s.val[k].v, m) + 1
           w == With(s.val[k].v, {m}, IF n <= MaxInt THEN n ELSE MaxInt)
<1>1. \/ f = Fail(e)
      \/ /\ Fits(e.val[k], "zset")
         /\ (nan /\ f = Fail(s)) \/ f = Put(s, k, w)
  BY Found DEF ZIncrBy, Update, Started, Fits, Has, Number, MembersOf
<1> HIDE DEF f, w
<1> QED BY <1>1, UpdateQuiet DEF Types, f

\* The handlers of a value that is there.
LEMMA ChangeQuiet ==
    ASSUME NEW d \in Stores, d.ok, NEW k \in Keys, NEW f, NEW w, NEW S,
           LET e == ExpireIfNeed(d, k)
           IN  f = Fail(e) \/ f = e \/ f = Put(e, k, w) \/ f = Drop(e, k, S)
    PROVE  Quiet(d, f, {})
<1> DEFINE e == ExpireIfNeed(d, k)
<1>1. e \in Stores /\ e.ok /\ Quiet(d, Fail(e), {})
  BY LookQuiet
<1>2. f = Fail(e) \/ f = e \/ f = Put(e, k, w) \/ f = Drop(e, k, S)
  OBVIOUS
<1> HIDE DEF e
<1>3. e.ok /\ Put(e, k, w).ok /\ Drop(e, k, S).ok
  BY <1>1, ChangedOk
<1> QED BY <1>1, <1>2, <1>3 DEF Quiet

LEMMA RemovalQuiet ==
    ASSUME NEW d \in Stores, d.ok, NEW k \in Keys, NEW S, NEW m,
           NEW by, NEW lo, NEW hi
    PROVE  /\ Quiet(d, SRem(d, k, S), {}) /\ Quiet(d, SPop(d, k, m), {})
           /\ Quiet(d, HDel(d, k, S), {}) /\ Quiet(d, ZRem(d, k, S), {})
           /\ Quiet(d, ZRemRange(d, k, by, lo, hi), {})
<1> DEFINE e == ExpireIfNeed(d, k)
           w == Without(e.val[k].v, S)
           T == InRange(e.val[k].v, by, lo, hi)
<1>1. /\ SRem(d, k, S) \in {Fail(e), Drop(e, k, S)}
      /\ SPop(d, k, m) \in {Fail(e), Drop(e, k, {m})}
      /\ HDel(d, k, S) \in {Fail(e), Put(e, k, w)}
      /\ ZRem(d, k, S) \in {Fail(e), Put(e, k, w)}
      /\ ZRemRange(d, k, by, lo, hi) \in {Fail(e), e, Drop(e, k, T)}
  BY DEF SRem, SPop, HDel, ZRem, ZRemRange, Change, InRange
<1> DEFINE f1 == SRem(d, k, S)
           f2 == SPop(d, k, m)
           f3 == HDel(d, k, S)
           f4 == ZRem(d, k, S)
           f5 == ZRemRange(d, k, by, lo, hi)
<1> HIDE DEF f1, f2, f3, f4, f5, w, T
<1>2. Quiet(d, f1, {})
  BY <1>1, ChangeQuiet DEF f1
<1>3. Quiet(d, f2, {})
  BY <1>1, ChangeQuiet DEF f2
<1>4. Quiet(d, f3, {})
  BY <1>1, ChangeQuiet DEF f3
<1>5. Quiet(d, f4, {})
  BY <1>1, ChangeQuiet DEF f4
<1>6. Quiet(d, f5, {})
  BY <1>1, ChangeQuiet DEF f5
<1> QED BY <1>2, <1>3, <1>4, <1>5, <1>6 DEF f1, f2, f3, f4, f5

\* The member is out of the source before the target turns out to be no set.
LEMMA SMoveQuiet ==
    ASSUME NEW d \in Stores, d.ok, NEW c \in Stores, c.due = {},
           NEW src \in Keys, NEW dst \in Keys, NEW m \in Members
    PROVE  Quiet(d, SMove(d, src, dst, m), {src})
<1> DEFINE e == ExpireIfNeed(d, src)
           v == e.val[src]
           w == Without(v.v, {m})
           p == Put(e, src, w)
           f == SAdd(p, dst, {m})
           g == SMove(d, src, dst, m)
<1>1. g \in {Fail(e), e} \/ (v.type = "set" /\ g = f)
  BY DEF SMove, Change, MembersOf
<1>2. Looks(d, e, src) /\ e \in Stores /\ e.ok /\ Quiet(d, Fail(e), {src})
  BY LookQuiet
<1> HIDE DEF g, e
<1>3. CASE g \in {Fail(e), e}
  <2>1. Quiet(d, g, {src})
    BY <1>2, <1>3 DEF Quiet
  <2> QED BY <2>1 DEF g
<1>4. CASE v.type = "set" /\ g = f
  <2>1. v \in Values /\ v # Absent
    <3>1. v \in Values
      BY <1>2, StoreFields
    <3> QED BY <1>4, <3>1 DEF Absent, Value
  <2> HIDE DEF v
  <2>2. Holds("set", w) /\ "set" \in Types
    <3>1. Holds("set", v.v)
      BY <1>4, <2>1, ValuesAre
    <3> QED BY <3>1, WithoutHolds DEF Types
  <2> HIDE DEF w
  <2>3. Edits(e, p, src, Value("set", w), e.ok)
    BY <1>2, <1>4, <2>2, PutEdits DEF v
  <2> HIDE DEF p
  <2>4. p \in Stores /\ p.ok
    BY <1>2, <2>3 DEF Edits
  <2>5. Quiet(p, f, {})
    BY <2>4, SAddQuiet
  <2>6. p.lost \subseteq f.lost
    <3>1. Runs(p, f, c, SAdd(c, dst, {m}), {dst}, {})
      BY <2>4, SAddRuns
    <3> QED BY <3>1 DEF Runs, Works
  <2> HIDE DEF f
  <2>7. Quiet(d, f, {src})
    <3>1. ASSUME ~f.ok, NEW j \in Keys \ {src}, f.val[j] # d.val[j]
          PROVE  j \in f.lost
      <4>1. f.val[j] # p.val[j] => j \in f.lost
        BY <2>5, <3>1 DEF Quiet
      <4>2. p.val[j] = d.val[j]
        BY <1>2, <2>3, <3>1 DEF Looks, Edits
      <4> QED BY <3>1, <4>1, <4>2
    <3> QED BY <3>1 DEF Quiet
  <2> QED BY <1>4, <2>7 DEF g
<1> QED BY <1>1, <1>3, <1>4

\* GETSET, APPEND and SETRANGE fail on what is no string.
LEMMA EditStringQuiet ==
    ASSUME NEW d \in Stores, d.ok, NEW k \in Keys, NEW n
    PROVE  Quiet(d, Edit(d, k, n), {})
<1> DEFINE e == ExpireIfNeed(d, k)
           s == SetValue(e, k, Value("string", Empty))
           f == Edit(d, k, n)
<1>1. f = Fail(e) \/ f = SetValue(e, k, Str(n)) \/ f = SetValue(s, k, Str(n))
  BY DEF Edit, Update, Has
<1>2. e \in Stores /\ e.ok /\ Quiet(d, Fail(e), {})
  BY LookQuiet
<1> HIDE DEF e, f
<1>3. SetValue(e, k, Str(n)).ok /\ SetValue(s, k, Str(n)).ok
  BY <1>2 DEF SetValue, Stores
<1>4. Quiet(d, f, {})
  BY <1>1, <1>2, <1>3 DEF Quiet
<1> QED BY <1>4 DEF f

\* A handler that fails when it may have created a string.
LEMMA CreatedQuiet ==
    ASSUME NEW d \in Stores, NEW k \in Keys, NEW n \in Contents, NEW K,
           k \in K \/ d.val[k] # Absent \/ ExpireIfNeed(d, k).val[k] # Absent
    PROVE  Quiet(d, Fail(Created(ExpireIfNeed(d, k), k, n)), K)
<1> DEFINE e == ExpireIfNeed(d, k)
           s == Created(e, k, n)
           f == Fail(s)
           x == OrStr(e.val[k], n)
<1>1. Looks(d, e, k) /\ e \in Stores
  BY ExpireIfNeedLooks, LookupIsStore
<1>2. k \in K \/ d.val[k] # Absent \/ e.val[k] # Absent
  OBVIOUS
<1> HIDE DEF e
<1>3. Edits(e, s, k, x, e.ok) /\ s \in Stores
  BY <1>1, CreatedEdits
<1>4. e.val[k] # Absent => x = e.val[k]
  BY DEF OrStr
<1> HIDE DEF s, x
<1>5. Edits(s, f, k, x, FALSE)
  <2>1. Edits(s, f, k, s.val[k], FALSE)
    BY <1>3, FailEdits
  <2> QED BY <1>3, <2>1 DEF Edits
<1> HIDE DEF f
<1>6. Edits(e, f, k, x, FALSE)
  BY ONLY <1>1, <1>3, <1>5, EditsTwice, k \in Keys
<1>7. Quiet(d, f, K)
  BY <1>1, <1>2, <1>4, <1>6, EditQuiet
<1> QED BY <1>7 DEF e, s, f

\* What has been created is a string, so that what is none was there.
LEMMA NoStringWasThere ==
    ASSUME NEW e \in Stores, NEW k \in Keys, NEW n \in Contents,
           Created(e, k, n).val[k] # Str(n)
    PROVE  e.val[k] # Absent
<1> DEFINE s == Created(e, k, n)
           x == OrStr(e.val[k], n)
<1>1. Edits(e, s, k, x, e.ok)
  BY CreatedEdits
<1> HIDE DEF s
<1>2. x # Str(n)
  BY <1>1 DEF Edits, s
<1> QED BY <1>2 DEF OrStr

LEMMA CreatedOk ==
    ASSUME NEW d \in Stores, d.ok, NEW k \in Keys, NEW n \in Contents, NEW x
    PROVE  LET s == Created(ExpireIfNeed(d, k), k, n)
           IN  s.ok /\ SetValue(s, k, x).ok
<1> DEFINE e == ExpireIfNeed(d, k)
           s == Created(e, k, n)
<1>1. e \in Stores /\ e.ok
  BY LookQuiet
<1> HIDE DEF e
<1>2. s \in Stores /\ s.ok
  BY <1>1, CreatedEdits DEF Edits
<1> HIDE DEF s
<1>3. SetValue(s, k, x).ok
  BY <1>2, ChangedOk
<1> QED BY <1>2, <1>3 DEF s, e

\* SETBIT has created the string when it reads its offset.
LEMMA SetBitQuiet ==
    ASSUME NEW d \in Stores, d.ok, NEW k \in Keys, NEW n,
           NEW offset \in {"nan", "beyond", "within"}, NEW K,
           offset = "nan" => k \in K \/ d.val[k] # Absent
    PROVE  Quiet(d, SetBit(d, k, n, offset), K)
<1> DEFINE e == ExpireIfNeed(d, k)
           s == Created(e, k, Text)
           f == SetBit(d, k, n, offset)
<1>1. f = IF s.val[k].type # "string" \/ offset = "nan" THEN Fail(s)
          ELSE IF offset = "beyond" THEN s ELSE SetValue(s, k, Str(n))
  BY DEF SetBit, Created
<1>2. e \in Stores /\ Text \in Contents /\ Str(Text).type = "string"
  BY LookupIsStore, ContentsAre, StrIsValue
<1>3. s.val[k].type # "string" => e.val[k] # Absent
  <2> HIDE DEF e
  <2> QED BY <1>2, NoStringWasThere
<1>4. s.ok /\ SetValue(s, k, Str(n)).ok
  BY <1>2, CreatedOk
<1>5. s.val[k].type # "string" \/ offset = "nan" => Quiet(d, Fail(s), K)
  BY <1>2, <1>3, CreatedQuiet
<1> HIDE DEF f, s
<1>6. Quiet(d, f, K)
  BY <1>1, <1>4, <1>5 DEF Quiet
<1> QED BY <1>6 DEF f

LEMMA IncrByQuiet ==
    ASSUME NEW d \in Stores, d.ok, NEW k \in Keys, NEW delta
    PROVE  Quiet(d, IncrBy(d, k, delta), {})
<1> DEFINE e == ExpireIfNeed(d, k)
           s == Created(e, k, 0)
           f == IncrBy(d, k, delta)
           x == Str(Wrap(s.val[k].v[Whole] + delta))
<1>1. f = IF s.val[k].type # "string" THEN Fail(s)
          ELSE IF s.val[k].v[Whole] > MaxInt THEN s ELSE SetValue(s, k, x)
  BY DEF IncrBy, Created
<1>2. e \in Stores /\ 0 \in Contents /\ Str(0).type = "string"
  BY LookupIsStore, ContentsAre, StrIsValue
<1>3. s.val[k].type # "string" => e.val[k] # Absent
  <2> HIDE DEF e
  <2> QED BY <1>2, NoStringWasThere
<1> HIDE DEF x
<1>4. s.ok /\ SetValue(s, k, x).ok
  BY <1>2, CreatedOk
<1>5. s.val[k].type # "string" => Quiet(d, Fail(s), {})
  BY <1>2, <1>3, CreatedQuiet
<1> HIDE DEF f, s
<1>6. Quiet(d, f, {})
  BY <1>1, <1>4, <1>5 DEF Quiet
<1> QED BY <1>6 DEF f

LEMMA IncrByFloatQuiet ==
    ASSUME NEW d \in Stores, d.ok, NEW k \in Keys, NEW n
    PROVE  Quiet(d, IncrByFloat(d, k, n), {})
<1> DEFINE e == ExpireIfNeed(d, k)
           s == Created(e, k, 0)
           f == IncrByFloat(d, k, n)
           fails == s.val[k].type # "string" \/ s.val[k].v = Str(Text).v
<1>1. f = IF fails THEN Fail(s) ELSE SetValue(s, k, Str(n))
  BY DEF IncrByFloat, Created
<1>2. e \in Stores /\ 0 \in Contents /\ Str(0).type = "string"
  BY LookupIsStore, ContentsAre, StrIsValue
<1>3. fails => e.val[k] # Absent
  <2>1. Str(0).v # Str(Text).v
    BY StrIsInjective, MaxIntAssumption DEF Text
  <2> HIDE DEF e
  <2> QED BY <1>2, <2>1, NoStringWasThere
<1>4. SetValue(s, k, Str(n)).ok
  BY <1>2, CreatedOk
<1>5. fails => Quiet(d, Fail(s), {})
  BY <1>2, <1>3, CreatedQuiet
<1> HIDE DEF f, s, fails
<1>6. Quiet(d, f, {})
  BY <1>1, <1>4, <1>5 DEF Quiet
<1> QED BY <1>6 DEF f

\* The handlers that do not fail.
LEMMA StringQuiet ==
    ASSUME NEW d \in Stores, d.ok, NEW k \in Keys, NEW k2 \in Keys,
           NEW dst \in Keys, NEW n \in Contents, NEW past \in BOOLEAN
    PROVE  /\ Quiet(d, Set(d, k, n), {}) /\ Quiet(d, SetNx(d, k, n), {})
           /\ Quiet(d, MSetNx(d, k, k2, n), {})
           /\ Quiet(d, SetEx(d, k, n, past), {})
           /\ Quiet(d, BitOp(d, dst, k, k2, n), {})
<1> DEFINE e == ExpireIfNeed(d, k)
           e2 == ExpireIfNeed(e, k2)
           s == MSet(e2, {k, k2}, n)
           t == SetValue(d, k, Str(n))
<1>1. e \in Stores /\ e.ok
  BY LookQuiet
<1>2. Set(d, k, n).ok /\ SetNx(d, k, n).ok
  <2> HIDE DEF e
  <2>1. Set(d, k, n).ok /\ Set(e, k, n).ok
    BY <1>1, SetOverwrites
  <2> QED BY <1>1, <2>1 DEF SetNx, e
<1> HIDE DEF e
<1>3. e2 \in Stores /\ e2.ok
  BY <1>1, LookQuiet
<1>4. MSetNx(d, k, k2, n).ok
  <2>1. MSetNx(d, k, k2, n) \in {e, e2, s}
    BY DEF MSetNx, e
  <2> HIDE DEF e2
  <2>2. s.ok
    BY <1>3, MSetSets DEF Sets
  <2> QED BY <1>1, <1>3, <2>1, <2>2
<1>5. BitOp(d, dst, k, k2, n).ok
  <2>1. BitOp(d, dst, k, k2, n) = SetValue(e2, dst, Str(n))
    BY DEF BitOp, e
  <2> HIDE DEF e2
  <2> QED BY <1>3, <2>1, ChangedOk
<1>6. SetEx(d, k, n, past).ok
  <2>1. t \in Stores /\ t.ok
    <3>1. Edits(d, t, k, Str(n), d.ok)
      BY StrIsValue, SetValueEdits
    <3> QED BY <3>1 DEF Edits
  <2>2. SetEx(d, k, n, past) = SetExpire(t, k, past)
    BY DEF SetEx
  <2> HIDE DEF t
  <2> QED BY <2>1, <2>2 DEF SetExpire, Stores
<1> QED BY <1>2, <1>4, <1>5, <1>6 DEF Quiet

LEMMA SStoreQuiet ==
    ASSUME NEW d \in Stores, d.ok, NEW op \in {"diff", "inter", "union"},
           NEW dst \in Keys, NEW k1 \in Keys, NEW k2 \in Keys,
           dst \in d.due => dst \notin {k1, k2},
           op = "union" => k1 = dst \/ (k1 \notin d.due /\ d.val[k1].type = "set")
    PROVE  Quiet(d, SStore(d, op, dst, k1, k2), {})
<1> DEFINE e1 == Emptied(d, dst, k1)
           e2 == Filled(e1, dst, k1, k2)
           f == Stored(e1, e2, op, dst, k1, k2)
<1>1. SStore(d, op, dst, k1, k2) = f
  <2>1. op = "union" => e1.val[k1].type = "set"
    BY UnionIsDefined
  <2> QED BY <2>1, SStoreIs
<1>2. e1 \in Stores /\ e1.ok
  <2> DEFINE s == SetValue(d, dst, SetOf({}))
  <2>1. s \in Stores /\ s.ok
    <3>1. Edits(d, s, dst, SetOf({}), d.ok)
      BY SetOfIsValue, SetValueEdits
    <3> QED BY <3>1 DEF Edits
  <2> HIDE DEF s
  <2>2. ExpireIfNeed(s, k1) \in Stores /\ ExpireIfNeed(s, k1).ok
    BY <2>1, LookQuiet
  <2> QED BY <2>2 DEF Emptied, s
<1> HIDE DEF e1
<1>3. e2 \in Stores /\ e2.ok
  <2> DEFINE y == SetOf(First(e1, k1))
             s == SetValue(e1, dst, y)
  <2>1. y \in Values
    <3>1. First(e1, k1) \subseteq Members
      BY <1>2, MembersOfSet DEF First
    <3> QED BY <3>1, SetOfIsValue
  <2> HIDE DEF y
  <2>2. s \in Stores /\ s.ok
    <3>1. Edits(e1, s, dst, y, e1.ok)
      BY <1>2, <2>1, SetValueEdits
    <3> QED BY <1>2, <3>1 DEF Edits
  <2> HIDE DEF s
  <2>3. ExpireIfNeed(s, k2) \in Stores /\ ExpireIfNeed(s, k2).ok
    BY <2>2, LookQuiet
  <2> QED BY <2>3 DEF Filled, s, y
<1> HIDE DEF e2
<1>4. f.ok
  BY <1>2, <1>3, ChangedOk DEF Stored
<1> QED BY <1>1, <1>4 DEF Quiet

\* RENAME fails before it changes anything.
LEMMA RenameQuiet ==
    ASSUME NEW d \in Stores, d.ok, NEW k1 \in Keys, NEW k2 \in Keys,
           NEW force \in BOOLEAN
    PROVE  Quiet(d, Rename(d, k1, k2, force), {}) /\ Quiet(d, Del(d, k1, k2), {})
<1> DEFINE e == ExpireIfNeed(d, k1)
           s == Renamed(e, k1, k2)
           t == DelOne(d, k1)
           f == Rename(d, k1, k2, force)
<1>1. f \in {Fail(e), s}
  BY DEF Rename, Renamed
<1>2. e \in Stores /\ e.ok /\ Quiet(d, Fail(e), {})
  BY LookQuiet
<1> HIDE DEF e, f
<1>3. s.ok
  BY <1>2, RenamedRenames DEF Renames
<1> HIDE DEF s
<1>4. Quiet(d, f, {})
  BY <1>1, <1>2, <1>3 DEF Quiet
<1>5. Del(d, k1, k2) = DelOne(t, k2)
  BY DEF Del, DelOne
<1>6. t \in Stores /\ t.ok
  BY DelOneMakes
<1> HIDE DEF t
<1>7. DelOne(t, k2).ok
  BY <1>6, DelOneMakes
<1> QED BY <1>4, <1>5, <1>7 DEF Quiet, f

LEMMA ClearedQuiet ==
    ASSUME NEW d \in Stores, d.ok, NEW gone
    PROVE  /\ Quiet(d, FlushDb(d), {}) /\ Quiet(d, FlushAll(d), {})
           /\ Quiet(d, Cleared(d, gone), {})
<1>1. FlushDb(d).ok /\ FlushAll(d).ok /\ Cleared(d, gone).ok
  BY DEF FlushDb, FlushAll, Cleared, Stores
<1> QED BY <1>1 DEF Quiet

-----------------------------------------------------------------------------
(***************************************************************************)
(* What becomes of a handler's result.                                     *)
(***************************************************************************)
\* The inductive invariant.
Inv == TypeOK /\ ReplayGivesTheData /\ ChangedIsTold /\ DeadlinesAreOwned

\* Execute, with the handler's two results in hand.
Executes(f, g, told, known) ==
    IF f.ok THEN Propogate(f, g, told, known)
    ELSE Keep(f, known.orphan, known.silent)

\* The server's store and the copy's are stores.
LEMMA NowIsStore ==
    ASSUME TypeOK
    PROVE  /\ Now \in Stores
           /\ Now.val = val /\ Now.dl = dl /\ Now.due = due
           /\ Now.dirty = dirtyKeys /\ Now.lost = {} /\ Now.ok
BY DEF TypeOK, Now, Store, Stores

LEMMA ThereIsStore ==
    ASSUME TypeOK
    PROVE  /\ There \in Stores
           /\ There.val = copy.val /\ There.dl = copy.dl /\ There.due = {}
BY DEF TypeOK, There, Store, Stores

\* NoCopy is a copy.
LEMMA NoCopyIs ==
    /\ NoCopy.val \in [Keys -> Values] /\ NoCopy.dl \subseteq Keys
    /\ \A k \in Keys : NoCopy.val[k] = Absent
BY AbsentIsValue DEF NoCopy

\* Where a handler's result leaves the deadlines and their keys.
LEMMA BecomeKeeps ==
    ASSUME TypeOK, DeadlinesAreOwned, NEW f, NEW S, NEW O, NEW orphan,
           Works(Now, f, S, O), O \subseteq orphan, Become(f, orphan)
    PROVE  /\ val' \in [Keys -> Values] /\ dl' \subseteq Keys
           /\ due' \subseteq dl' /\ orphaned' \subseteq dl'
           /\ DeadlinesAreOwned'
<1>1. /\ f.val \in [Keys -> Values] /\ f.dl \subseteq Keys
      /\ f.due \subseteq f.dl
      /\ \A j \in f.dl : f.val[j] = Absent =>
            j \in O \/ (j \in dl /\ val[j] = Absent)
  BY NowIsStore, StoreFields DEF Works
<1>2. \A j \in dl : val[j] = Absent => j \in orphaned
  BY NowIsStore DEF DeadlinesAreOwned, Has
<1>3. \A j \in f.dl : f.val[j] = Absent => j \in orphan \/ j \in orphaned
  BY <1>1, <1>2
<1>4. /\ val' = f.val /\ dl' = f.dl /\ due' = f.due
      /\ orphaned' = f.dl \cap (orphaned \cup {j \in orphan : f.val[j] = Absent})
  BY DEF Become
<1>5. Now'.val = val'
  BY DEF Now, Store
<1>6. DeadlinesAreOwned'
  BY <1>3, <1>4, <1>5 DEF DeadlinesAreOwned, Has
<1> QED BY <1>1, <1>4, <1>6

\* A step that propagates nothing.
LEMMA KeepKeeps ==
    ASSUME Inv, NEW f, NEW S, NEW O, NEW orphan, NEW silent,
           Works(Now, f, S, O), O \subseteq orphan, Keep(f, orphan, silent),
           \A j \in Keys \ silent : f.val[j] # Now.val[j] => j \in f.lost
    PROVE  Inv'
<1>1. /\ val' \in [Keys -> Values] /\ dl' \subseteq Keys
      /\ due' \subseteq dl' /\ orphaned' \subseteq dl' /\ DeadlinesAreOwned'
  BY BecomeKeeps DEF Inv, Keep
<1>2. f \in Stores /\ f.dirty \subseteq Keys
  BY StoreFields DEF Works, Stores
<1>3. /\ val' = f.val /\ dirtyKeys' = f.dirty
      /\ untold' = Changed(f) \ (f.lost \cup silent)
      /\ synced' = (synced /\ Changed(f) = {})
      /\ copy' = IF synced' THEN copy ELSE NoCopy
  BY DEF Keep, Become
<1>4. untold' = {}
  BY <1>3, NowIsStore DEF Changed, Inv
<1>5. TypeOK'
  BY <1>1, <1>2, <1>3, <1>4, NoCopyIs DEF TypeOK, Inv
<1>6. ASSUME synced' PROVE \A k \in Keys : Shown(copy'.val[k]) = Shown(val'[k])
  BY <1>3, <1>6 DEF Changed, Inv, ReplayGivesTheData
<1> QED BY <1>1, <1>3, <1>4, <1>5, <1>6
        DEF Inv, ReplayGivesTheData, ChangedIsTold

\* What is told of a command, and what is known of it.
Tells(f, S, told, known) ==
    S \subseteq f.dirty \cup known.untold
                  \cup (IF f.dirty = {} \/ dirtyKeys # {} THEN told ELSE {})

LEMMA ExecuteKeeps ==
    ASSUME Inv, NEW f, NEW g, NEW S, NEW O, NEW told, NEW known,
           Works(Now, f, S, O), O \subseteq known.orphan,
           Tells(f, S, told, known), Quiet(Now, f, known.silent),
           ~known.unsent => Follows(Now, f, There, g),
           Executes(f, g, told, known)
    PROVE  Inv'
<1>1. CASE ~f.ok
  <2>1. Keep(f, known.orphan, known.silent)
    BY <1>1 DEF Executes
  <2>2. \A j \in Keys \ known.silent : f.val[j] # Now.val[j] => j \in f.lost
    BY <1>1 DEF Quiet
  <2> QED BY <2>1, <2>2, KeepKeeps
<1>2. CASE f.ok
  <2>1. Propogate(f, g, told, known)
    BY <1>2 DEF Executes
  <2>2. /\ val' \in [Keys -> Values] /\ dl' \subseteq Keys
        /\ due' \subseteq dl' /\ orphaned' \subseteq dl' /\ DeadlinesAreOwned'
    BY <2>1, BecomeKeeps DEF Inv, Propogate
  <2>3. /\ val' = f.val /\ dirtyKeys' = {}
        /\ synced' = (synced /\ f.lost = {} /\ ~known.unsent)
        /\ copy' = IF synced' THEN [val |-> g.val, dl |-> g.dl] ELSE NoCopy
        /\ untold' = Changed(f) \ (f.dirty \cup f.lost \cup known.untold
              \cup (IF f.dirty = {} \/ dirtyKeys # {} THEN told ELSE {}))
    BY <2>1 DEF Propogate, Become
  <2>4. ASSUME synced'
        PROVE  /\ g \in Stores
               /\ \A k \in Keys : Shown(g.val[k]) = Shown(f.val[k])
    <3>1. f.lost = {} /\ Follows(Now, f, There, g) /\ synced
      BY <2>3, <2>4
    <3>2. Agree(Now, There)
      BY <3>1, NowIsStore, ThereIsStore DEF Inv, ReplayGivesTheData, Agree
    <3> QED BY <1>2, <3>1, <3>2 DEF Follows, Agree
  <2>5. copy'.val \in [Keys -> Values] /\ copy'.dl \subseteq Keys
    <3>1. CASE synced'
      BY <2>3, <2>4, <3>1, StoreFields
    <3>2. CASE ~synced'
      BY <2>3, <3>2, NoCopyIs
    <3> QED BY <3>1, <3>2
  <2>6. untold' = {}
    BY <2>3, NowIsStore DEF Changed, Works, Tells, Inv
  <2>7. synced' \in BOOLEAN
    BY <2>3
  <2>8. TypeOK'
    BY <2>2, <2>3, <2>5, <2>6, <2>7 DEF TypeOK
  <2>9. ReplayGivesTheData'
    BY <2>3, <2>4 DEF ReplayGivesTheData
  <2> QED BY <2>2, <2>6, <2>8, <2>9 DEF Inv, ChangedIsTold
<1> QED BY <1>1, <1>2

\* Most commands change the key they name and nothing is known of them.
LEMMA WriteKeeps ==
    ASSUME Inv, NEW f, NEW g, NEW told, Runs(Now, f, There, g, told, {}),
           Quiet(Now, f, {}), Executes(f, g, told, Nothing)
    PROVE  Inv'
<1>1. /\ Works(Now, f, told, {}) /\ f.dirty = dirtyKeys
      /\ Follows(Now, f, There, g)
  BY NowIsStore DEF Runs, Inv
<1>2. Tells(f, told, told, Nothing)
  BY <1>1 DEF Tells
<1>3. Quiet(Now, f, Nothing.silent)
  BY DEF Nothing
<1> QED BY <1>1, <1>2, <1>3, ExecuteKeeps

\* A removal may leave the key's deadline behind.
LEMMA RemovalKeeps ==
    ASSUME Inv, NEW f, NEW g, NEW k, NEW known, known.orphan = {k},
           Works(Now, f, {k}, {k}), f.dirty = Now.dirty,
           Quiet(Now, f, known.silent),
           ~known.unsent => Follows(Now, f, There, g),
           Executes(f, g, {k}, known)
    PROVE  Inv'
<1>1. f.dirty = dirtyKeys
  BY NowIsStore DEF Inv
<1>2. Tells(f, {k}, {k}, known)
  BY <1>1 DEF Tells
<1> QED BY <1>2, ExecuteKeeps

\* The first key of two is told of, the second is known to be left out.
LEMMA PairKeeps ==
    ASSUME Inv, NEW f, NEW g, NEW S, NEW T, NEW known, known.untold = T,
           Works(Now, f, S \cup T, {}), f.dirty = Now.dirty,
           Quiet(Now, f, known.silent),
           ~known.unsent => Follows(Now, f, There, g),
           Executes(f, g, S, known)
    PROVE  Inv'
<1>1. f.dirty = dirtyKeys
  BY NowIsStore DEF Inv
<1>2. Tells(f, S \cup T, S, known)
  BY <1>1 DEF Tells
<1> DEFINE U == S \cup T
<1>3. Works(Now, f, U, {}) /\ Tells(f, U, S, known) /\ {} \subseteq known.orphan
  BY <1>2
<1> HIDE DEF U
<1> QED BY <1>3, ExecuteKeeps

-----------------------------------------------------------------------------
(***************************************************************************)
(* One lemma for every command.                                            *)
(***************************************************************************)
LEMMA StoresAre ==
    ASSUME Inv
    PROVE  Now \in Stores /\ There \in Stores /\ There.due = {} /\ Now.ok
BY NowIsStore, ThereIsStore DEF Inv

LEMMA SetKeeps == ASSUME Inv, SetCmd PROVE Inv'
<1>1. PICK k \in Keys, n \in Inputs :
         Executes(Set(Now, k, n), Set(There, k, n), {k}, Nothing)
  BY DEF SetCmd, Write, Execute, Executes
<1>2. Runs(Now, Set(Now, k, n), There, Set(There, k, n), {k}, {})
  BY SetRuns, StoresAre, ContentsAre
<1>3. Quiet(Now, Set(Now, k, n), {})
  BY StringQuiet, StoresAre, ContentsAre
<1> QED BY <1>1, <1>2, <1>3, WriteKeeps

LEMMA SetNxKeeps == ASSUME Inv, SetNxCmd PROVE Inv'
<1>1. PICK k \in Keys, n \in Inputs :
         Executes(SetNx(Now, k, n), SetNx(There, k, n), {k}, Nothing)
  BY DEF SetNxCmd, Write, Execute, Executes
<1>2. Runs(Now, SetNx(Now, k, n), There, SetNx(There, k, n), {k}, {})
  BY SetNxRuns, StoresAre, ContentsAre
<1>3. Quiet(Now, SetNx(Now, k, n), {})
  BY StringQuiet, StoresAre, ContentsAre
<1> QED BY <1>1, <1>2, <1>3, WriteKeeps

LEMMA SetExKeeps == ASSUME Inv, SetExCmd PROVE Inv'
<1>1. PICK k \in Keys, n \in Inputs, past \in BOOLEAN :
         Executes(SetEx(Now, k, n, past), SetEx(There, k, n, past), {k}, Nothing)
  BY DEF SetExCmd, Write, Execute, Executes
<1>2. Runs(Now, SetEx(Now, k, n, past), There, SetEx(There, k, n, past), {k}, {})
  BY SetExRuns, StoresAre, ContentsAre
<1>3. Quiet(Now, SetEx(Now, k, n, past), {})
  BY StringQuiet, StoresAre, ContentsAre
<1> QED BY <1>1, <1>2, <1>3, WriteKeeps

LEMMA GetSetKeeps == ASSUME Inv, GetSetCmd PROVE Inv'
<1>1. PICK k \in Keys, n \in Inputs :
         Executes(Edit(Now, k, n), Edit(There, k, n), {k}, Nothing)
  BY DEF GetSetCmd, Write, Execute, Executes
<1>2. Runs(Now, Edit(Now, k, n), There, Edit(There, k, n), {k}, {})
  BY EditStringRuns, StoresAre, ContentsAre
<1>3. Quiet(Now, Edit(Now, k, n), {})
  BY EditStringQuiet, StoresAre
<1> QED BY <1>1, <1>2, <1>3, WriteKeeps

LEMMA SetRangeKeeps == ASSUME Inv, SetRangeCmd PROVE Inv'
<1>1. PICK k \in Keys, n \in Raw :
         Executes(Edit(Now, k, n), Edit(There, k, n), {k}, Nothing)
  BY DEF SetRangeCmd, Write, Execute, Executes
<1>2. Runs(Now, Edit(Now, k, n), There, Edit(There, k, n), {k}, {})
  BY EditStringRuns, StoresAre, ContentsAre
<1>3. Quiet(Now, Edit(Now, k, n), {})
  BY EditStringQuiet, StoresAre
<1> QED BY <1>1, <1>2, <1>3, WriteKeeps

LEMMA SetBitKeeps == ASSUME Inv, SetBitCmd PROVE Inv'
<1>1. PICK k \in Keys, n \in Raw, offset \in {"nan", "beyond", "within"} :
         Executes(SetBit(Now, k, n, offset), SetBit(There, k, n, offset), {k},
                  [Nothing EXCEPT !.silent = IF offset = "nan" THEN Fresh(k) ELSE {}])
  BY DEF SetBitCmd, Execute, Executes
<1> DEFINE f == SetBit(Now, k, n, offset)
           g == SetBit(There, k, n, offset)
           kn == [Nothing EXCEPT !.silent = IF offset = "nan" THEN Fresh(k) ELSE {}]
<1>2. /\ kn.untold = {} /\ {k} \cup {} = {k}
      /\ kn.silent = IF offset = "nan" THEN Fresh(k) ELSE {}
  BY DEF Nothing
<1>3. Runs(Now, f, There, g, {k}, {})
  BY SetBitRuns, StoresAre, ContentsAre
<1>4. Executes(f, g, {k}, kn)
  BY <1>1
<1>5. offset = "nan" => k \in kn.silent \/ Now.val[k] # Absent
  BY <1>2 DEF Fresh, Has
<1> HIDE DEF kn
<1>6. Quiet(Now, f, kn.silent)
  BY <1>5, SetBitQuiet, StoresAre
<1> HIDE DEF f, g
<1> QED BY <1>2, <1>3, <1>4, <1>6, PairKeeps DEF Runs

LEMMA IncrByFloatKeeps == ASSUME Inv, IncrByFloatCmd PROVE Inv'
<1>1. PICK k \in Keys, n \in {Digits, Fraction} :
         Executes(IncrByFloat(Now, k, n), IncrByFloat(There, k, n), {k}, Nothing)
  BY DEF IncrByFloatCmd, Write, Execute, Executes
<1>2. Runs(Now, IncrByFloat(Now, k, n), There, IncrByFloat(There, k, n), {k}, {})
  BY IncrByFloatRuns, StoresAre, ContentsAre
<1>3. Quiet(Now, IncrByFloat(Now, k, n), {})
  BY IncrByFloatQuiet, StoresAre
<1> QED BY <1>1, <1>2, <1>3, WriteKeeps

LEMMA SAddKeeps == ASSUME Inv, SAddCmd PROVE Inv'
<1>1. PICK k \in Keys, S \in Some(Members) :
         Executes(SAdd(Now, k, S), SAdd(There, k, S), {k}, Nothing)
  BY DEF SAddCmd, Write, Execute, Executes
<1>2. Runs(Now, SAdd(Now, k, S), There, SAdd(There, k, S), {k}, {})
  BY SAddRuns, StoresAre DEF Some
<1>3. Quiet(Now, SAdd(Now, k, S), {})
  BY SAddQuiet, StoresAre
<1> QED BY <1>1, <1>2, <1>3, WriteKeeps

LEMMA HSetKeeps == ASSUME Inv, HSetCmd PROVE Inv'
<1>1. PICK k \in Keys, F \in Some(Fields), n \in Inputs :
         Executes(HSet(Now, k, F, n), HSet(There, k, F, n), {k}, Nothing)
  BY DEF HSetCmd, Write, Execute, Executes
<1>2. Runs(Now, HSet(Now, k, F, n), There, HSet(There, k, F, n), {k}, {})
  BY HSetRuns, StoresAre DEF Some
<1>3. Quiet(Now, HSet(Now, k, F, n), {})
  BY HSetQuiet, StoresAre
<1> QED BY <1>1, <1>2, <1>3, WriteKeeps

LEMMA HSetNxKeeps == ASSUME Inv, HSetNxCmd PROVE Inv'
<1>1. PICK k \in Keys, f \in Fields, n \in Inputs :
         Executes(HSetNx(Now, k, f, n), HSetNx(There, k, f, n), {k}, Nothing)
  BY DEF HSetNxCmd, Write, Execute, Executes
<1>2. Runs(Now, HSetNx(Now, k, f, n), There, HSetNx(There, k, f, n), {k}, {})
  BY HSetNxRuns, StoresAre
<1>3. Quiet(Now, HSetNx(Now, k, f, n), {})
  BY HSetNxQuiet, StoresAre
<1> QED BY <1>1, <1>2, <1>3, WriteKeeps

LEMMA HDelKeeps == ASSUME Inv, HDelCmd PROVE Inv'
<1>1. PICK k \in Keys, F \in Some(Fields) :
         Executes(HDel(Now, k, F), HDel(There, k, F), {k}, Nothing)
  BY DEF HDelCmd, Write, Execute, Executes
<1>2. Runs(Now, HDel(Now, k, F), There, HDel(There, k, F), {k}, {})
  BY HDelRuns, StoresAre
<1>3. Quiet(Now, HDel(Now, k, F), {})
  BY RemovalQuiet, StoresAre
<1> QED BY <1>1, <1>2, <1>3, WriteKeeps

LEMMA HIncrByKeeps == ASSUME Inv, HIncrByCmd PROVE Inv'
<1>1. PICK k \in Keys, f \in Fields, delta \in {-1, 1} :
         Executes(HIncrBy(Now, k, f, delta), HIncrBy(There, k, f, delta), {k}, Nothing)
  BY DEF HIncrByCmd, Write, Execute, Executes
<1>2. Runs(Now, HIncrBy(Now, k, f, delta), There, HIncrBy(There, k, f, delta), {k}, {})
  BY HIncrByRuns, StoresAre
<1>3. Quiet(Now, HIncrBy(Now, k, f, delta), {})
  BY HIncrByQuiet, StoresAre
<1> QED BY <1>1, <1>2, <1>3, WriteKeeps

LEMMA HIncrByFloatKeeps == ASSUME Inv, HIncrByFloatCmd PROVE Inv'
<1>1. PICK k \in Keys, f \in Fields :
         Executes(HIncrByFloat(Now, k, f), HIncrByFloat(There, k, f), {k}, Nothing)
  BY DEF HIncrByFloatCmd, Write, Execute, Executes
<1>2. Runs(Now, HIncrByFloat(Now, k, f), There, HIncrByFloat(There, k, f), {k}, {})
  BY HIncrByFloatRuns, StoresAre
<1>3. Quiet(Now, HIncrByFloat(Now, k, f), {})
  BY HIncrByFloatQuiet, StoresAre
<1> QED BY <1>1, <1>2, <1>3, WriteKeeps

LEMMA ZAddKeeps == ASSUME Inv, ZAddCmd PROVE Inv'
<1>1. PICK k \in Keys, S \in SUBSET Members, n \in 0 .. MaxInt,
              nan \in BOOLEAN :
         Executes(ZAdd(Now, k, S, n, nan), ZAdd(There, k, S, n, nan), {k},
                  [Nothing EXCEPT !.silent = IF nan THEN {k} ELSE {}])
  BY DEF ZAddCmd, Execute, Executes
<1> DEFINE f == ZAdd(Now, k, S, n, nan)
           g == ZAdd(There, k, S, n, nan)
           kn == [Nothing EXCEPT !.silent = IF nan THEN {k} ELSE {}]
<1>2. /\ kn.untold = {} /\ {k} \cup {} = {k}
      /\ kn.silent = IF nan THEN {k} ELSE {}
  BY DEF Nothing
<1>3. Runs(Now, f, There, g, {k}, {})
  BY ZAddRuns, StoresAre
<1>4. Executes(f, g, {k}, kn)
  BY <1>1
<1>5. ~nan => Quiet(Now, f, {})
  BY ZAddQuiet, StoresAre
<1> HIDE DEF f, g, kn
<1>6. Quiet(Now, f, kn.silent)
  BY <1>2, <1>3, <1>5, WorksIsQuiet DEF Runs
<1> QED BY <1>2, <1>3, <1>4, <1>6, PairKeeps DEF Runs

LEMMA ZRemKeeps == ASSUME Inv, ZRemCmd PROVE Inv'
<1>1. PICK k \in Keys, S \in Some(Members) :
         Executes(ZRem(Now, k, S), ZRem(There, k, S), {k}, Nothing)
  BY DEF ZRemCmd, Write, Execute, Executes
<1>2. Runs(Now, ZRem(Now, k, S), There, ZRem(There, k, S), {k}, {})
  BY ZRemRuns, StoresAre
<1>3. Quiet(Now, ZRem(Now, k, S), {})
  BY RemovalQuiet, StoresAre
<1> QED BY <1>1, <1>2, <1>3, WriteKeeps

LEMMA ZIncrByKeeps == ASSUME Inv, ZIncrByCmd PROVE Inv'
<1>1. PICK k \in Keys, m \in Members, nan \in BOOLEAN :
         Executes(ZIncrBy(Now, k, m, 1, nan), ZIncrBy(There, k, m, 1, nan), {k},
                  [Nothing EXCEPT !.silent = IF nan THEN Fresh(k) ELSE {}])
  BY DEF ZIncrByCmd, Execute, Executes
<1> DEFINE f == ZIncrBy(Now, k, m, 1, nan)
           g == ZIncrBy(There, k, m, 1, nan)
           kn == [Nothing EXCEPT !.silent = IF nan THEN Fresh(k) ELSE {}]
<1>2. /\ kn.untold = {} /\ {k} \cup {} = {k}
      /\ kn.silent = IF nan THEN Fresh(k) ELSE {}
  BY DEF Nothing
<1>3. Runs(Now, f, There, g, {k}, {})
  BY ZIncrByRuns, StoresAre
<1>4. Executes(f, g, {k}, kn)
  BY <1>1
<1>5. nan => k \in kn.silent \/ Now.val[k] # Absent
  BY <1>2 DEF Fresh, Has
<1> HIDE DEF kn
<1>6. Quiet(Now, f, kn.silent)
  BY <1>5, ZIncrByQuiet, StoresAre
<1> HIDE DEF f, g
<1> QED BY <1>2, <1>3, <1>4, <1>6, PairKeeps DEF Runs

\* Where an integer is encoded otherwise there, the text does something else.
LEMMA IncrByKeeps == ASSUME Inv, IncrByCmd PROVE Inv'
<1>1. PICK k \in Keys, delta \in {-1, 1} :
        Executes(IncrBy(Now, k, delta), IncrBy(There, k, delta), {k},
                 [Nothing EXCEPT !.unsent = EncodedOtherwise(k)])
  BY DEF IncrByCmd, Execute, Executes
<1> DEFINE f == IncrBy(Now, k, delta)
           g == IncrBy(There, k, delta)
           kn == [Nothing EXCEPT !.unsent = EncodedOtherwise(k)]
<1>2. kn.silent = {} /\ kn.untold = {} /\ kn.orphan = {} /\ kn.unsent = EncodedOtherwise(k)
  BY DEF Nothing
<1>3. Quiet(Now, f, {})
  BY IncrByQuiet, StoresAre
<1>4. /\ Works(Now, f, {k}, {}) /\ f.dirty = Now.dirty
      /\ (Now.val[k] = Str(Digits) <=> There.val[k] = Str(Digits)) =>
            Follows(Now, f, There, g)
  BY IncrByRuns, StoresAre
<1>5. Executes(f, g, {k}, kn)
  BY <1>1
<1> HIDE DEF f, g, kn
<1>6. ~kn.unsent => Follows(Now, f, There, g)
  BY <1>2, <1>4, NowIsStore, ThereIsStore DEF EncodedOtherwise, Inv
<1>7. {k} \cup {} = {k}
  OBVIOUS
<1> QED BY <1>2, <1>3, <1>4, <1>5, <1>6, <1>7, PairKeeps

\* Every key an MSET sets is told, whichever it names first.
LEMMA MSetKeeps == ASSUME Inv, MSetCmd PROVE Inv'
<1>1. PICK K \in Some(Keys), n \in Inputs : \E k \in K :
        Executes(MSet(Now, K, n), MSet(There, K, n), {k}, Nothing)
  BY DEF MSetCmd, Write, Execute, Executes
<1>2. PICK k \in K :
        Executes(MSet(Now, K, n), MSet(There, K, n), {k}, Nothing)
  BY <1>1
<1> DEFINE f == MSet(Now, K, n)
           g == MSet(There, K, n)
<1>3. /\ Works(Now, f, K, {}) /\ f.dirty = Now.dirty \cup K
      /\ Follows(Now, f, There, g)
  <2>1. K \in SUBSET Keys
    BY DEF Some
  <2>2. n \in Contents /\ Now \in Stores /\ There \in Stores
    BY StoresAre, ContentsAre
  <2> QED BY ONLY <2>1, <2>2, MSetRuns
<1>4. f.ok
  <2>1. K \in SUBSET Keys
    BY DEF Some
  <2>2. f.ok = Now.ok
    BY ONLY <2>1, ContentsAre, StoresAre, MSetRuns, Inv
  <2> QED BY <2>2, StoresAre
<1> HIDE DEF f, g
<1>5. Tells(f, K, {k}, Nothing) /\ Quiet(Now, f, Nothing.silent)
  BY <1>3, <1>4 DEF Tells, Quiet
<1> QED BY <1>2, <1>3, <1>5, ExecuteKeeps DEF f, g

LEMMA MSetNxKeeps == ASSUME Inv, MSetNxCmd PROVE Inv'
<1>1. PICK k1 \in Keys, k2 \in Keys, n \in Inputs :
        Executes(MSetNx(Now, k1, k2, n), MSetNx(There, k1, k2, n), {k1}, Nothing)
  BY DEF MSetNxCmd, Write, Execute, Executes
<1> DEFINE f == MSetNx(Now, k1, k2, n)
           g == MSetNx(There, k1, k2, n)
<1>2. /\ \/ Works(Now, f, {}, {}) /\ f.dirty = Now.dirty
         \/ Works(Now, f, {k1, k2}, {}) /\ f.dirty = Now.dirty \cup {k1, k2}
      /\ Follows(Now, f, There, g)
  BY MSetNxRuns, StoresAre, ContentsAre
<1>3. Executes(f, g, {k1}, Nothing)
  BY <1>1
<1>4. Quiet(Now, f, {}) /\ Nothing.silent = {}
  BY StringQuiet, StoresAre, ContentsAre DEF Nothing
<1> HIDE DEF f, g
<1>5. CASE Works(Now, f, {}, {})
  BY <1>2, <1>3, <1>4, <1>5, ExecuteKeeps DEF Tells
<1>6. CASE Works(Now, f, {k1, k2}, {}) /\ f.dirty = Now.dirty \cup {k1, k2}
  <2>1. Tells(f, {k1, k2}, {k1}, Nothing)
    BY <1>6 DEF Tells
  <2> QED BY <1>2, <1>3, <1>4, <1>6, <2>1, ExecuteKeeps
<1> QED BY <1>2, <1>5, <1>6

\* The watchers of BITOP's target are told of its operation's name.
LEMMA BitOpKeeps == ASSUME Inv, BitOpCmd PROVE Inv'
<1>1. PICK dst \in Keys, k1 \in Keys, k2 \in Keys, n \in Inputs :
        Executes(BitOp(Now, dst, k1, k2, n), BitOp(There, dst, k1, k2, n), {},
                 [Nothing EXCEPT !.untold = {dst}])
  BY DEF BitOpCmd, Execute, Executes
<1> DEFINE f == BitOp(Now, dst, k1, k2, n)
           g == BitOp(There, dst, k1, k2, n)
           kn == [Nothing EXCEPT !.untold = {dst}]
<1>2. kn.silent = {} /\ kn.untold = {dst} /\ {} \cup {dst} = {dst}
  BY DEF Nothing
<1>3. Quiet(Now, f, {})
  BY StringQuiet, StoresAre, ContentsAre
<1>4. Runs(Now, f, There, g, {dst}, {})
  BY BitOpRuns, StoresAre, ContentsAre
<1>5. Executes(f, g, {}, kn)
  BY <1>1
<1> HIDE DEF f, g, kn
<1> QED BY <1>2, <1>3, <1>4, <1>5, PairKeeps DEF Runs

LEMMA SRemKeeps == ASSUME Inv, SRemCmd PROVE Inv'
<1>1. PICK k \in Keys, S \in Some(Members) :
        Executes(SRem(Now, k, S), SRem(There, k, S), {k},
                 [Nothing EXCEPT !.orphan = {k}])
  BY DEF SRemCmd, Removal, Execute, Executes
<1> DEFINE f == SRem(Now, k, S)
           g == SRem(There, k, S)
           kn == [Nothing EXCEPT !.orphan = {k}]
<1>2. kn.silent = {} /\ kn.orphan = {k}
  BY DEF Nothing
<1>3. Quiet(Now, f, {})
  BY RemovalQuiet, StoresAre
<1>4. Runs(Now, f, There, g, {k}, {k})
  BY SRemRuns, StoresAre
<1>5. Executes(f, g, {k}, kn)
  BY <1>1
<1> HIDE DEF f, g, kn
<1> QED BY <1>2, <1>3, <1>4, <1>5, RemovalKeeps DEF Runs

\* What is propagated names the member this server chose.
LEMMA SPopKeeps == ASSUME Inv, SPopCmd PROVE Inv'
<1>1. PICK k \in Keys, m \in Members :
        Executes(SPop(Now, k, m), SRem(There, k, {m}), {k},
                 [Nothing EXCEPT !.orphan = {k}])
  BY DEF SPopCmd, Removal, Execute, Executes
<1> DEFINE f == SPop(Now, k, m)
           g == SRem(There, k, {m})
           kn == [Nothing EXCEPT !.orphan = {k}]
<1>2. kn.silent = {} /\ kn.orphan = {k}
  BY DEF Nothing
<1>3. Quiet(Now, f, {})
  BY RemovalQuiet, StoresAre
<1>4. Runs(Now, f, There, g, {k}, {k})
  BY SPopRuns, StoresAre
<1>5. Executes(f, g, {k}, kn)
  BY <1>1
<1> HIDE DEF f, g, kn
<1> QED BY <1>2, <1>3, <1>4, <1>5, RemovalKeeps DEF Runs

\* In an EXEC it names none, and the choice there may be another.
LEMMA SPopInExecKeeps == ASSUME Inv, SPopInExec PROVE Inv'
<1>1. PICK k \in Keys, m \in Members, other \in Members :
        Executes(SPop(Now, k, m), SPop(There, k, other), {k},
                 [Nothing EXCEPT !.orphan = {k}, !.unsent = other # m])
  BY Zenon DEF SPopInExec, Execute, Executes
<1> DEFINE f == SPop(Now, k, m)
           g == SPop(There, k, other)
           h == SPop(There, k, m)
           kn == [Nothing EXCEPT !.orphan = {k}, !.unsent = other # m]
<1>2. kn.silent = {} /\ kn.orphan = {k} /\ kn.unsent = (other # m)
  BY DEF Nothing
<1>3. Quiet(Now, f, {})
  BY RemovalQuiet, StoresAre
<1>4. Runs(Now, f, There, h, {k}, {k})
  BY SPopRuns, StoresAre
<1>5. Executes(f, g, {k}, kn)
  BY <1>1
<1>6. other = m => g = h
  OBVIOUS
<1> HIDE DEF f, g, h, kn
<1>7. ~kn.unsent => Follows(Now, f, There, g)
  BY <1>2, <1>4, <1>6 DEF Runs
<1> QED BY <1>2, <1>3, <1>4, <1>5, <1>7, RemovalKeeps DEF Runs

LEMMA SMoveKeeps == ASSUME Inv, SMoveCmd PROVE Inv'
<1>1. PICK src \in Keys, dst \in Keys, m \in Members :
        Executes(SMove(Now, src, dst, m), SMove(There, src, dst, m), {src},
                 [Nothing EXCEPT !.untold = {dst}, !.silent = {src}])
  BY DEF SMoveCmd, Execute, Executes
<1> DEFINE f == SMove(Now, src, dst, m)
           g == SMove(There, src, dst, m)
           kn == [Nothing EXCEPT !.untold = {dst}, !.silent = {src}]
<1>2. kn.silent = {src} /\ kn.untold = {dst} /\ {src} \cup {dst} = {src, dst}
  BY DEF Nothing
<1>3. Quiet(Now, f, {src})
  BY SMoveQuiet, StoresAre
<1>4. Runs(Now, f, There, g, {src, dst}, {})
  BY SMoveRuns, StoresAre
<1>5. Executes(f, g, {src}, kn)
  BY <1>1
<1> HIDE DEF f, g, kn
<1> QED BY <1>2, <1>3, <1>4, <1>5, PairKeeps DEF Runs

\* The cases the build decides as it likes are left out by the guards.
LEMMA SStoreKeeps == ASSUME Inv, SStoreCmd PROVE Inv'
<1>1. PICK op \in {"diff", "inter", "union"}, dst \in Keys, k1 \in Keys,
           k2 \in Keys :
        /\ dst \in due => dst \notin {k1, k2}
        /\ op = "union" => k1 = dst \/ (k1 \notin due /\ val[k1].type = "set")
        /\ Executes(SStore(Now, op, dst, k1, k2), SStore(There, op, dst, k1, k2),
                    {dst}, Nothing)
  BY DEF SStoreCmd, Write, Execute, Executes
<1>2. /\ dst \in Now.due => dst \notin {k1, k2}
      /\ op = "union" =>
            k1 = dst \/ (k1 \notin Now.due /\ Now.val[k1].type = "set")
  BY <1>1, NowIsStore DEF Inv
<1>3. Runs(Now, SStore(Now, op, dst, k1, k2), There,
           SStore(There, op, dst, k1, k2), {dst}, {})
  BY <1>2, SStoreRuns, StoresAre
<1>4. Quiet(Now, SStore(Now, op, dst, k1, k2), {})
  BY <1>2, SStoreQuiet, StoresAre
<1> QED BY <1>1, <1>3, <1>4, WriteKeeps

LEMMA ZRemRangeKeeps == ASSUME Inv, ZRemRangeCmd PROVE Inv'
<1>1. PICK k \in Keys, by \in {"rank", "score"}, lo \in 0 .. MaxInt,
           hi \in 0 .. MaxInt :
        Executes(ZRemRange(Now, k, by, lo, hi), ZRemRange(There, k, by, lo, hi),
                 {k}, [Nothing EXCEPT !.orphan = {k}])
  BY DEF ZRemRangeCmd, Removal, Execute, Executes
<1> DEFINE f == ZRemRange(Now, k, by, lo, hi)
           g == ZRemRange(There, k, by, lo, hi)
           kn == [Nothing EXCEPT !.orphan = {k}]
<1>2. kn.silent = {} /\ kn.orphan = {k}
  BY DEF Nothing
<1>3. Quiet(Now, f, {})
  BY RemovalQuiet, StoresAre
<1>4. Runs(Now, f, There, g, {k}, {k})
  BY ZRemRangeRuns, StoresAre
<1>5. Executes(f, g, {k}, kn)
  BY <1>1
<1> HIDE DEF f, g, kn
<1> QED BY <1>2, <1>3, <1>4, <1>5, RemovalKeeps DEF Runs

LEMMA DelKeeps == ASSUME Inv, DelCmd PROVE Inv'
<1>1. PICK k1 \in Keys, k2 \in Keys :
        Executes(Del(Now, k1, k2), Del(There, k1, k2), {k1},
                 [Nothing EXCEPT !.untold = {k2}])
  BY DEF DelCmd, Execute, Executes
<1> DEFINE f == Del(Now, k1, k2)
           g == Del(There, k1, k2)
           kn == [Nothing EXCEPT !.untold = {k2}]
<1>2. kn.silent = {} /\ kn.untold = {k2} /\ {k1} \cup {k2} = {k1, k2}
  BY DEF Nothing
<1>3. Quiet(Now, f, {})
  BY RenameQuiet, StoresAre
<1>4. Runs(Now, f, There, g, {k1, k2}, {})
  BY DelRuns, StoresAre
<1>5. Executes(f, g, {k1}, kn)
  BY <1>1
<1> HIDE DEF f, g, kn
<1> QED BY <1>2, <1>3, <1>4, <1>5, PairKeeps DEF Runs

\* Where only one of the two has the deadline, RENAME is another command.
LEMMA RenameKeeps == ASSUME Inv, RenameCmd PROVE Inv'
<1>1. PICK k1 \in Keys, k2 \in Keys, force \in BOOLEAN :
        Executes(Rename(Now, k1, k2, force), Rename(There, k1, k2, force), {k1},
                 [Nothing EXCEPT !.untold = {k2},
                    !.unsent = dl \cap {k1, k2} # copy.dl \cap {k1, k2}])
  BY Zenon DEF RenameCmd, Execute, Executes
<1> DEFINE f == Rename(Now, k1, k2, force)
           g == Rename(There, k1, k2, force)
           otherwise == dl \cap {k1, k2} # copy.dl \cap {k1, k2}
           kn == [Nothing EXCEPT !.untold = {k2}, !.unsent = otherwise]
<1>2. kn.silent = {} /\ kn.untold = {k2} /\ {k1} \cup {k2} = {k1, k2} /\ kn.unsent = otherwise
  BY DEF Nothing
<1>3. Quiet(Now, f, {})
  BY RenameQuiet, StoresAre
<1>4. /\ Works(Now, f, {k1, k2}, {}) /\ f.dirty = Now.dirty
      /\ Now.dl \cap {k1, k2} = There.dl \cap {k1, k2} =>
            Follows(Now, f, There, g)
  BY RenameRuns, StoresAre
<1>5. Executes(f, g, {k1}, kn)
  BY <1>1
<1> HIDE DEF f, g, kn
<1>6. ~kn.unsent => Follows(Now, f, There, g)
  BY <1>2, <1>4, NowIsStore, ThereIsStore DEF Inv
<1> QED BY <1>2, <1>3, <1>4, <1>5, <1>6, PairKeeps

LEMMA FlushDbKeeps == ASSUME Inv, FlushDbCmd PROVE Inv'
<1> DEFINE f == FlushDb(Now)
           g == FlushDb(There)
           kn == [Nothing EXCEPT !.orphan = Keys]
<1>1. Executes(f, g, Keys, kn)
  BY DEF FlushDbCmd, Execute, Executes
<1>2. kn.orphan = Keys /\ kn.silent = {}
  BY DEF Nothing
<1>3. Runs(Now, f, There, g, Keys, Keys)
  BY FlushRuns, StoresAre
<1>4. Quiet(Now, f, {})
  BY ClearedQuiet, StoresAre
<1> HIDE DEF f, g, kn
<1>5. f.dirty = dirtyKeys
  BY <1>3, NowIsStore DEF Runs, Inv
<1>6. Tells(f, Keys, Keys, kn)
  BY <1>5 DEF Tells
<1> QED BY <1>1, <1>2, <1>3, <1>4, <1>6, ExecuteKeeps DEF Runs

LEMMA FlushAllKeeps == ASSUME Inv, FlushAllCmd PROVE Inv'
<1>1. Executes(FlushAll(Now), FlushAll(There), Keys, Nothing)
  BY DEF FlushAllCmd, Execute, Executes
<1>2. Runs(Now, FlushAll(Now), There, FlushAll(There), Keys, {})
  BY FlushRuns, StoresAre
<1>3. Quiet(Now, FlushAll(Now), {})
  BY ClearedQuiet, StoresAre
<1> QED BY <1>1, <1>2, <1>3, WriteKeeps

\* The deadline set belongs to a key that is there.
LEMMA ExpireKeeps == ASSUME Inv, ExpireCmd PROVE Inv'
<1>1. PICK k \in Keys, past \in BOOLEAN :
        Has(Now, k) /\ Keep(SetExpire(Now, k, past), {}, {})
  BY DEF ExpireCmd
<1> DEFINE f == SetExpire(Now, k, past)
<1>2. /\ f.val = Now.val /\ f.dl = Now.dl \cup {k} /\ f \in Stores
      /\ f.lost = Now.lost
  BY StoresAre DEF SetExpire, Stores
<1>3. Keep(f, {}, {})
  BY <1>1
<1> HIDE DEF f
<1>4. Works(Now, f, {}, {})
  BY <1>1, <1>2 DEF Works, Has
<1> QED BY <1>2, <1>3, <1>4, KeepKeeps

LEMMA PersistKeeps == ASSUME Inv, PersistCmd PROVE Inv'
<1>1. PICK k \in Keys : Keep(ClearExpire(Now, k), {}, {k})
  BY DEF PersistCmd
<1> DEFINE f == ClearExpire(Now, k)
<1>2. Clears(Now, f, k) /\ f.lost = Now.lost
  BY ClearExpireClears, StoresAre
<1> HIDE DEF f
<1>3. Works(Now, f, {k}, {})
  BY <1>2, StoresAre, StoreFields DEF Clears, Works
<1>4. \A j \in Keys \ {k} : f.val[j] # Now.val[j] => j \in f.lost
  BY <1>3 DEF Works
<1>5. Keep(f, {}, {k})
  BY <1>1 DEF f
<1> QED BY <1>3, <1>4, <1>5, KeepKeeps

LEMMA ReadKeeps == ASSUME Inv, ReadCmd PROVE Inv'
<1>1. PICK k \in Keys : Keep(ExpireIfNeed(Now, k), {}, {})
  BY DEF ReadCmd
<1> DEFINE f == ExpireIfNeed(Now, k)
<1>2. Looks(Now, f, k)
  BY ExpireIfNeedLooks, StoresAre
<1> HIDE DEF f
<1>3. Works(Now, f, {}, {})
  BY <1>2, LookWorks, StoresAre
<1>4. \A j \in Keys \ {} : f.val[j] # Now.val[j] => j \in f.lost
  BY <1>3 DEF Works
<1>5. Keep(f, {}, {})
  BY <1>1 DEF f
<1> QED BY <1>3, <1>4, <1>5, KeepKeeps

\* A key that is evicted may leave its deadline behind.
LEMMA EvictKeeps == ASSUME Inv, Evict PROVE Inv'
<1>1. PICK k \in Keys : Keep(DeleteKey(Now, k), {k}, {k})
  BY DEF Evict
<1> DEFINE f == DeleteKey(Now, k)
<1>2. Edits(Now, f, k, Absent, Now.ok)
  BY DeleteKeyEdits, StoresAre
<1> HIDE DEF f
<1>3. Works(Now, f, {k}, {k})
  BY <1>2, EditWorks, StoresAre
<1>4. \A j \in Keys \ {k} : f.val[j] # Now.val[j] => j \in f.lost
  BY <1>3 DEF Works
<1>5. Keep(f, {k}, {k})
  BY <1>1 DEF f
<1> QED BY <1>3, <1>4, <1>5, KeepKeeps

\* The timer tells of every key it deletes.
LEMMA LoopKeeps == ASSUME Inv, LoopCheck PROVE Inv'
<1>1. PICK gone \in SUBSET Keys :
        Executes(Cleared(Now, gone), Deleted(There, gone), gone, Nothing)
  <2>1. PICK seen \in SUBSET dl :
          Executes(Cleared(Now, seen \cap due), Deleted(There, seen \cap due),
                   seen \cap due, Nothing)
    BY Zenon DEF LoopCheck, Execute, Executes, Cleared, Deleted
  <2>2. seen \cap due \in SUBSET Keys
    BY DEF Inv, TypeOK
  <2> QED BY <2>1, <2>2
<1>2. Runs(Now, Cleared(Now, gone), There, Deleted(There, gone), gone, {})
  BY LoopRuns, StoresAre
<1>3. Quiet(Now, Cleared(Now, gone), {})
  BY ClearedQuiet, StoresAre
<1> QED BY <1>1, <1>2, <1>3, WriteKeeps

LEMMA PassKeeps == ASSUME Inv, Pass PROVE Inv'
<1>1. /\ val' = val /\ dl' = dl /\ dirtyKeys' = dirtyKeys /\ copy' = copy
      /\ synced' = synced /\ untold' = untold /\ orphaned' = orphaned
      /\ due' \subseteq dl
  BY DEF Pass, Inv, TypeOK
<1>2. Now'.val = Now.val
  BY <1>1 DEF Now, Store
<1>3. TypeOK'
  BY <1>1 DEF TypeOK, Inv
<1>4. DeadlinesAreOwned'
  BY <1>1, <1>2 DEF DeadlinesAreOwned, Inv, Has
<1> QED BY <1>1, <1>3, <1>4 DEF Inv, ReplayGivesTheData, ChangedIsTold

\* A replica is given the strings as they are shown.
LEMMA FullCopyKeeps == ASSUME Inv, FullCopy PROVE Inv'
<1>1. /\ val' = val /\ dl' = dl /\ dirtyKeys' = dirtyKeys /\ due' = due
      /\ synced' = TRUE /\ untold' = untold /\ orphaned' = orphaned
      /\ copy' = [val |-> [k \in Keys |-> Shown(val[k])], dl |-> dl]
  BY DEF FullCopy
<1>2. Now'.val = Now.val
  BY <1>1 DEF Now, Store
<1>3. \A x \in Values : Shown(x) \in Values /\ Shown(Shown(x)) = Shown(x)
  <2>1. Str(1) \in Values /\ Str(1) # Str(Digits)
    BY StrIsValue, StrIsInjective, ContentsAre
  <2> QED BY <2>1 DEF Shown
<1>4. \A k \in Keys : val[k] \in Values
  BY DEF Inv, TypeOK
<1>5. TypeOK'
  BY <1>1, <1>3, <1>4 DEF TypeOK, Inv
<1>6. ReplayGivesTheData'
  BY <1>1, <1>3, <1>4 DEF ReplayGivesTheData
<1>7. DeadlinesAreOwned'
  BY <1>1, <1>2 DEF DeadlinesAreOwned, Inv, Has
<1> QED BY <1>1, <1>5, <1>6, <1>7 DEF Inv, ChangedIsTold

-----------------------------------------------------------------------------
(***************************************************************************)
(* Theorems.                                                               *)
(***************************************************************************)
LEMMA InitKeeps == ASSUME Init PROVE Inv
<1>1. TypeOK
  BY NoCopyIs DEF Init, TypeOK
<1>2. ReplayGivesTheData
  BY NoCopyIs DEF Init, ReplayGivesTheData
<1>3. ChangedIsTold /\ DeadlinesAreOwned
  BY DEF Init, ChangedIsTold, DeadlinesAreOwned
<1> QED BY <1>1, <1>2, <1>3 DEF Inv

LEMMA NextKeeps == ASSUME Inv, [Next]_vars PROVE Inv'
<1>1. CASE SetCmd \/ SetNxCmd \/ MSetCmd \/ MSetNxCmd \/ SetExCmd \/ GetSetCmd
  BY <1>1, SetKeeps, SetNxKeeps, MSetKeeps, MSetNxKeeps, SetExKeeps, GetSetKeeps
<1>2. CASE SetRangeCmd \/ SetBitCmd \/ IncrByCmd \/ IncrByFloatCmd \/ BitOpCmd
  BY <1>2, SetRangeKeeps, SetBitKeeps, IncrByKeeps, IncrByFloatKeeps, BitOpKeeps
<1>3. CASE \/ SAddCmd \/ SRemCmd \/ SPopCmd \/ SPopInExec \/ SMoveCmd
           \/ SStoreCmd
  BY <1>3, SAddKeeps, SRemKeeps, SPopKeeps, SPopInExecKeeps, SMoveKeeps,
     SStoreKeeps
<1>4. CASE HSetCmd \/ HSetNxCmd \/ HDelCmd \/ HIncrByCmd \/ HIncrByFloatCmd
  BY <1>4, HSetKeeps, HSetNxKeeps, HDelKeeps, HIncrByKeeps, HIncrByFloatKeeps
<1>5. CASE ZAddCmd \/ ZRemCmd \/ ZIncrByCmd \/ ZRemRangeCmd
  BY <1>5, ZAddKeeps, ZRemKeeps, ZIncrByKeeps, ZRemRangeKeeps
<1>6. CASE DelCmd \/ RenameCmd \/ FlushDbCmd \/ FlushAllCmd
  BY <1>6, DelKeeps, RenameKeeps, FlushDbKeeps, FlushAllKeeps
<1>7. CASE ExpireCmd \/ PersistCmd \/ ReadCmd
  BY <1>7, ExpireKeeps, PersistKeeps, ReadKeeps
<1>8. CASE Pass \/ LoopCheck \/ Evict \/ FullCopy
  BY <1>8, PassKeeps, LoopKeeps, EvictKeeps, FullCopyKeeps
<1>9. CASE UNCHANGED vars
  <2>1. /\ val' = val /\ dl' = dl /\ due' = due /\ dirtyKeys' = dirtyKeys
        /\ copy' = copy /\ synced' = synced /\ untold' = untold
        /\ orphaned' = orphaned
    BY <1>9 DEF vars
  <2>2. Now'.val = Now.val
    BY <2>1 DEF Now, Store
  <2> QED BY <2>1, <2>2 DEF Inv, TypeOK, ReplayGivesTheData, ChangedIsTold,
                            DeadlinesAreOwned, Has
<1> QED BY <1>1, <1>2, <1>3, <1>4, <1>5, <1>6, <1>7, <1>8, <1>9 DEF Next

\* The four invariants support one another: a handler run on a store shown
\* alike needs the types, and what it leaves behind the ownership.
THEOREM Invariance == Spec => []Inv
<1>1. Init => Inv
  BY InitKeeps
<1>2. Inv /\ [Next]_vars => Inv'
  BY NextKeeps
<1> QED BY <1>1, <1>2, PTL DEF Spec

\* Whatever a command does to a key, in QStore::SetValue or in place, the key
\* keeps a value of one type with what that type may hold, and a deadline
\* that has passed is one of ExpiresDB's.
THEOREM TypeCorrect == Spec => []TypeOK
<1>1. Inv => TypeOK
  BY DEF Inv
<1> QED BY <1>1, Invariance, PTL

\* Every handler is deterministic in what a store shows: run once more by
\* the append-only file's loader or by a replica, on what Propogate hands on,
\* it makes what the server holds, whatever the keys, members and contents.
THEOREM DataIsReplayed == Spec => []ReplayGivesTheData
<1>1. Inv => ReplayGivesTheData
  BY DEF Inv
<1> QED BY <1>1, Invariance, PTL

\* Propogate tells the watchers of every key a handler changes, by
\* g_dirtyKeys or by the first parameter, with the exceptions that are known.
THEOREM WatchersAreTold == Spec => []ChangedIsTold
<1>1. Inv => ChangedIsTold
  BY DEF Inv
<1> QED BY <1>1, Invariance, PTL

\* No value inherits the deadline of another value of its key: whoever takes
\* the key away (ClearExpire, ExpireIfNeed, RENAME, LoopCheck) takes the
\* deadline, but for the removals and evictions that are known to forget it.
THEOREM DeadlinesStayOwned == Spec => []DeadlinesAreOwned
<1>1. Inv => DeadlinesAreOwned
  BY DEF Inv
<1> QED BY <1>1, Invariance, PTL

-----------------------------------------------------------------------------
(***************************************************************************)
(* The keys of a server with LevelDB behind it.                            *)
(***************************************************************************)
Dead(x, t) == x.val = 0 \/ x.until \in 1 .. t

\* What memory (c), the commands (l) and the disk (d) have of a key at time t:
\* memory has the latest value, or says that it is gone, or the disk has it.
MemoryAgrees(c, l, d, t) ==
    /\ c.val # 0 => c.val = l.val /\ c.deadline = l.until /\ c.wait # "null"
    /\ c.val = 0 => c.deadline = 0
    /\ c.val = 0 /\ c.wait # "no" => Dead(l, t)
    /\ c.wait = "no" => l = d \/ (Dead(l, t) /\ Dead(d, t))

HeldAgree == \A k \in Keys \ (lOdd \cup lEvicted) :
                 MemoryAgrees(lCell[k], lLatest[k], lDisk[k], lNow)

LInv == L!TypeOK /\ HeldAgree

\* What the bounds make of the types.
LEMMA LTypes ==
    ASSUME L!TypeOK
    PROVE  /\ MaxValue \in Nat /\ MaxTime \in Nat /\ lNow \in Nat /\ lNow <= MaxTime
           /\ \A k \in Keys : /\ lCell[k] \in L!Cells /\ lCell[k].val \in Nat
                              /\ lCell[k].deadline \in Nat
                              /\ lLatest[k] \in L!Copies /\ lDisk[k] \in L!Copies
                              /\ lLatest[k].val \in Nat /\ lLatest[k].until \in Nat
                              /\ lDisk[k].val \in Nat /\ lDisk[k].until \in Nat
<1>1. /\ lCell \in [Keys -> L!Cells] /\ lDisk \in [Keys -> L!Copies]
      /\ lLatest \in [Keys -> L!Copies] /\ lNow \in 0 .. MaxTime
  BY DEF L!TypeOK
<1>2. MaxValue \in Nat /\ MaxTime \in Nat /\ lNow \in Nat /\ lNow <= MaxTime
  BY <1>1, LeveldbAssumption
<1>3. \A c \in L!Cells : c.val \in Nat /\ c.deadline \in Nat
  BY <1>2 DEF L!Cells
<1>4. \A l \in L!Copies : l.val \in Nat /\ l.until \in Nat
  BY <1>2 DEF L!Copies
<1> QED BY <1>1, <1>2, <1>3, <1>4

\* A record of a key with one field changed.
LEMMA CellWith ==
    ASSUME NEW c \in L!Cells
    PROVE  /\ \A v \in 0 .. MaxValue : LET e == [c EXCEPT !.val = v] IN
               e \in L!Cells /\ e.val = v /\ e.deadline = c.deadline /\ e.wait = c.wait
           /\ \A t \in 0 .. MaxTime + 1 : LET e == [c EXCEPT !.deadline = t] IN
               e \in L!Cells /\ e.val = c.val /\ e.deadline = t /\ e.wait = c.wait
           /\ \A w \in {"no", "value", "null"} : LET e == [c EXCEPT !.wait = w] IN
               e \in L!Cells /\ e.val = c.val /\ e.deadline = c.deadline /\ e.wait = w
BY DEF L!Cells

\* DeleteKey takes the value away; the deadline stays.
LEMMA DeletedIs ==
    ASSUME L!TypeOK, NEW c \in L!Cells
    PROVE  LET e == L!DeleteKey(c) IN
           e \in L!Cells /\ e.val = 0 /\ e.deadline = c.deadline /\ e.wait = "null"
<1>1. 0 \in 0 .. MaxValue
  BY LTypes
<1>2. L!DeleteKey(c) = [[c EXCEPT !.val = 0] EXCEPT !.wait = "null"]
  BY DEF L!DeleteKey, L!None
<1> DEFINE b == [c EXCEPT !.val = 0]
<1>3. b \in L!Cells /\ b.val = 0 /\ b.deadline = c.deadline
  BY <1>1, CellWith
<1> HIDE DEF b
<1>4. LET e == [b EXCEPT !.wait = "null"] IN
      e \in L!Cells /\ e.val = 0 /\ e.deadline = c.deadline /\ e.wait = "null"
  BY <1>3, CellWith
<1> QED BY <1>2, <1>4 DEF b

\* ClearExpire takes a deadline away, and the value with it.
LEMMA ClearedIs ==
    ASSUME L!TypeOK, NEW c \in L!Cells
    PROVE  LET e == L!ClearExpire(c) IN
           /\ e \in L!Cells /\ e.deadline = 0
           /\ c.deadline = 0 => e = c
           /\ c.deadline # 0 => e.val = 0 /\ e.wait = "null"
<1>1. 0 \in 0 .. MaxTime + 1
  BY LTypes
<1>2. CASE c.deadline = 0
  BY <1>2 DEF L!ClearExpire
<1>3. CASE c.deadline # 0
  <2> DEFINE b == L!DeleteKey(c)
  <2>1. b \in L!Cells /\ b.val = 0 /\ b.wait = "null"
    BY DeletedIs
  <2>2. L!ClearExpire(c) = [b EXCEPT !.deadline = 0]
    BY <1>3 DEF L!ClearExpire
  <2> HIDE DEF b
  <2>3. LET e == [b EXCEPT !.deadline = 0] IN
        e \in L!Cells /\ e.val = 0 /\ e.wait = "null" /\ e.deadline = 0
    BY <1>1, <2>1, CellWith
  <2> QED BY <1>3, <2>2, <2>3
<1> QED BY <1>2, <1>3

\* ExpireIfNeed leaves no deadline that has passed.
LEMMA ExpiredIs ==
    ASSUME L!TypeOK, NEW c \in L!Cells
    PROVE  LET e == L!ExpireIfNeed(c) IN
           /\ e \in L!Cells
           /\ c.deadline \in 1 .. lNow => e.val = 0 /\ e.wait = "null" /\ e.deadline = 0
           /\ c.deadline \notin 1 .. lNow => e = c
BY ClearedIs, LTypes DEF L!ExpireIfNeed, L!Passed

\* GetObject takes from the disk what memory misses.
LEMMA FoundIs ==
    ASSUME L!TypeOK, NEW k \in Keys, NEW c \in L!Cells
    PROVE  LET e == L!GetObject(k, c) IN
           /\ e \in L!Cells /\ e.deadline = c.deadline /\ e.wait = c.wait
           /\ L!Misses(k, c) => e.val = lDisk[k].val
           /\ ~L!Misses(k, c) => e = c
<1>1. lDisk[k].val \in 0 .. MaxValue
  BY LTypes DEF L!Copies
<1> QED BY <1>1, CellWith DEF L!GetObject

\* What AddDirtyKey leaves of a key whose value is in memory, or waits to go.
LEMMA DirtyIs ==
    ASSUME L!TypeOK, NEW k \in Keys, NEW c \in L!Cells
    PROVE  LET e == L!AddDirtyKey(k, c)
               g == L!GetValue(k, c)
           IN  /\ e \in L!Cells /\ e.val = g.val /\ e.deadline = g.deadline
               /\ e.wait = IF g.val = 0 THEN "null" ELSE "value"
               /\ g \in L!Cells
<1>1. L!GetValue(k, c) \in L!Cells
  BY ExpiredIs, FoundIs DEF L!GetValue
<1> DEFINE g == L!GetValue(k, c)
           w == IF g.val = 0 THEN "null" ELSE "value"
<1>2. L!AddDirtyKey(k, c) = [g EXCEPT !.wait = w]
  BY DEF L!AddDirtyKey, L!None
<1>3. w \in {"no", "value", "null"}
  OBVIOUS
<1>4. g \in L!Cells
  BY <1>1
<1> HIDE DEF g, w
<1>5. LET e == [g EXCEPT !.wait = w] IN
      e \in L!Cells /\ e.val = g.val /\ e.deadline = g.deadline /\ e.wait = w
  BY <1>3, <1>4, CellWith
<1>6. LET e == L!AddDirtyKey(k, c) IN
      e \in L!Cells /\ e.val = g.val /\ e.deadline = g.deadline /\ e.wait = w
  BY <1>2, <1>5
<1> QED BY <1>4, <1>6 DEF g, w

\* A value in memory whose deadline has not passed is what GetValue returns.
LEMMA InMemory ==
    ASSUME L!TypeOK, NEW k \in Keys, NEW c \in L!Cells
    PROVE  /\ c.val # 0 /\ c.deadline \notin 1 .. lNow => L!GetValue(k, c) = c
           /\ c.val = 0 /\ c.wait # "no" =>
                  /\ L!GetValue(k, c).val = 0
                  /\ L!GetValue(k, c).deadline \in {0, c.deadline}
<1>1. c.deadline \notin 1 .. lNow => L!ExpireIfNeed(c) = c
  BY ExpiredIs
<1>2. \A e \in L!Cells : e.val # 0 \/ e.wait # "no" => ~L!Misses(k, e)
  BY DEF L!Misses, L!None
<1>3. \A e \in L!Cells : e.val # 0 \/ e.wait # "no" => L!GetObject(k, e) = e
  BY <1>2 DEF L!GetObject
<1>4. ASSUME c.val = 0, c.wait # "no"
      PROVE  LET e == L!ExpireIfNeed(c) IN
             /\ e \in L!Cells /\ e.val = 0 /\ e.wait # "no"
             /\ e.deadline \in {0, c.deadline}
  BY <1>4, ExpiredIs
<1> QED BY <1>1, <1>3, <1>4 DEF L!GetValue

\* GetValue of a key that agrees: what the commands have left of it; and it
\* still agrees, unless the value was loaded without its deadline.
LEMMA LookAgrees ==
    ASSUME L!TypeOK, NEW k \in Keys,
           MemoryAgrees(lCell[k], lLatest[k], lDisk[k], lNow)
    PROVE  LET g == L!GetValue(k, lCell[k]) IN
           /\ g.val = L!Expected(k)
           /\ g.deadline \notin 1 .. lNow
           /\ k \notin L!LosesDeadline(k, L!ExpireIfNeed(lCell[k])) =>
                  MemoryAgrees(g, lLatest[k], lDisk[k], lNow)
<1> DEFINE c == lCell[k]
           l == lLatest[k]
           d == lDisk[k]
           x == L!ExpireIfNeed(c)
           g == L!GetValue(k, c)
<1>1. /\ c \in L!Cells /\ l \in L!Copies /\ d \in L!Copies /\ lNow \in Nat
      /\ c.val \in Nat /\ c.deadline \in Nat /\ d.until \in Nat /\ l.until \in Nat
  BY LTypes
<1>2. g = L!GetObject(k, x)
  BY DEF L!GetValue
<1>3. L!Expected(k) = IF l.until \in 1 .. lNow THEN 0 ELSE l.val
  BY DEF L!Expected, L!Passed, L!None
<1>4. L!Misses(k, x) <=> /\ x.val = 0 /\ x.wait = "no"
                         /\ d.val # 0 /\ d.until \notin 1 .. lNow
  BY DEF L!Misses, L!Passed, L!None
<1>5. /\ c.val # 0 => c.val = l.val /\ c.deadline = l.until /\ c.wait # "null"
      /\ c.val = 0 => c.deadline = 0
      /\ c.val = 0 /\ c.wait # "no" => Dead(l, lNow)
      /\ c.wait = "no" => l = d \/ (Dead(l, lNow) /\ Dead(d, lNow))
  BY DEF MemoryAgrees
<1>6. CASE c.deadline \in 1 .. lNow
  <2>1. x \in L!Cells /\ x.val = 0 /\ x.wait = "null" /\ x.deadline = 0
    BY <1>1, <1>6, ExpiredIs
  <2>2. g = x
    BY <1>2, <1>4, <2>1 DEF L!GetObject
  <2>3. c.val # 0 /\ l.until \in 1 .. lNow
    BY <1>1, <1>5, <1>6
  <2>4. Dead(l, lNow)
    BY <2>3 DEF Dead
  <2>5. MemoryAgrees(g, l, d, lNow)
    BY <2>1, <2>2, <2>4 DEF MemoryAgrees
  <2> QED BY <1>1, <1>3, <2>1, <2>2, <2>3, <2>5
<1>7. CASE c.deadline \notin 1 .. lNow /\ L!Misses(k, x)
  <2>1. x = c
    BY <1>1, <1>7, ExpiredIs
  <2>2. /\ g \in L!Cells /\ g.deadline = c.deadline /\ g.wait = "no"
        /\ g.val = d.val /\ d.val # 0 /\ c.val = 0 /\ d.until \notin 1 .. lNow
    BY <1>1, <1>2, <1>4, <1>7, <2>1, FoundIs
  <2>3. l = d
    BY <1>4, <1>5, <1>7, <2>1, <2>2 DEF Dead
  <2>4. ASSUME k \notin L!LosesDeadline(k, x) PROVE MemoryAgrees(g, l, d, lNow)
    <3>1. d.until = 0
      BY <1>7, <2>4 DEF L!LosesDeadline
    <3> QED BY <1>5, <2>2, <2>3, <3>1 DEF MemoryAgrees
  <2> QED BY <1>3, <1>7, <2>2, <2>3, <2>4
<1>8. CASE c.deadline \notin 1 .. lNow /\ ~L!Misses(k, x)
  <2>1. x = c /\ g = c
    BY <1>1, <1>2, <1>8, ExpiredIs, FoundIs
  <2>2. c.val # 0 => c.val = L!Expected(k)
    BY <1>3, <1>5, <1>8
  <2>3. c.val = 0 /\ c.wait # "no" => L!Expected(k) = 0
    BY <1>3, <1>5 DEF Dead
  <2>4. c.val = 0 /\ c.wait = "no" => L!Expected(k) = 0
    <3>1. ASSUME c.val = 0, c.wait = "no" PROVE Dead(d, lNow)
      BY <1>4, <1>8, <2>1, <3>1 DEF Dead
    <3> QED BY <1>3, <1>5, <3>1 DEF Dead
  <2> QED BY <1>8, <2>1, <2>2, <2>3, <2>4
<1> QED BY <1>6, <1>7, <1>8

\* A step that makes c of key k in memory, and l of it for the commands.
LEMMA KeyStep ==
    ASSUME LInv, NEW k \in Keys, NEW c \in L!Cells, NEW l \in L!Copies,
           lCell' = [lCell EXCEPT ![k] = c], lLatest' = [lLatest EXCEPT ![k] = l],
           UNCHANGED <<lDisk, lNow, lRestarts, lUndefined>>,
           lOdd' \subseteq Keys, lOdd \ {k} \subseteq lOdd',
           lEvicted' \subseteq Keys, lEvicted \ {k} \subseteq lEvicted',
           k \notin lOdd' \cup lEvicted' => MemoryAgrees(c, l, lDisk[k], lNow)
    PROVE  LInv'
<1>1. L!TypeOK
  BY DEF LInv
<1>2. /\ lCell' \in [Keys -> L!Cells]
      /\ \A j \in Keys : lCell'[j] = IF j = k THEN c ELSE lCell[j]
  BY <1>1 DEF L!TypeOK
<1>3. /\ lLatest' \in [Keys -> L!Copies]
      /\ \A j \in Keys : lLatest'[j] = IF j = k THEN l ELSE lLatest[j]
  BY <1>1 DEF L!TypeOK
<1>4. L!TypeOK'
  BY <1>1, <1>2, <1>3 DEF L!TypeOK, L!Cells, L!Copies
<1>5. ASSUME NEW j \in Keys, j \notin lOdd', j \notin lEvicted'
      PROVE  MemoryAgrees(lCell'[j], lLatest'[j], lDisk'[j], lNow')
  <2>1. CASE j = k
    BY <1>2, <1>3, <1>5, <2>1
  <2>2. CASE j # k
    <3>1. j \notin lOdd /\ j \notin lEvicted
      BY <1>5, <2>2
    <3>2. MemoryAgrees(lCell[j], lLatest[j], lDisk[j], lNow)
      BY <1>5, <3>1 DEF LInv, HeldAgree
    <3> QED BY <1>2, <1>3, <1>5, <2>2, <3>2
  <2> QED BY <2>1, <2>2
<1> QED BY <1>4, <1>5 DEF LInv, HeldAgree

LEMMA LInitKeeps == ASSUME L!Init PROVE LInv
<1>1. 0 \in 0 .. MaxValue /\ 0 \in 0 .. MaxTime + 1 /\ 1 \in 0 .. MaxTime /\ 0 \in 0 .. MaxRestarts
  BY LeveldbAssumption
<1>2. L!TypeOK
  BY <1>1 DEF L!Init, L!TypeOK, L!Empty, L!Cells, L!Copies, L!Nothing, L!None
<1>3. HeldAgree
  BY DEF L!Init, HeldAgree, MemoryAgrees, L!Empty, L!None
<1> QED BY <1>2, <1>3 DEF LInv

LEMMA LGetKeeps == ASSUME LInv, NEW k \in Keys, L!Get(k) PROVE LInv'
<1> DEFINE g == L!GetValue(k, lCell[k])
<1>1. L!TypeOK /\ lCell[k] \in L!Cells /\ lLatest[k] \in L!Copies
  BY LTypes DEF LInv
<1>2. g \in L!Cells
  BY <1>1, DirtyIs
<1>3. lCell' = [lCell EXCEPT ![k] = g] /\ lLatest' = [lLatest EXCEPT ![k] = lLatest[k]]
  BY <1>1 DEF L!Get, L!TypeOK
<1>4. /\ lOdd' = lOdd \cup L!LosesDeadline(k, L!ExpireIfNeed(lCell[k]))
      /\ lEvicted' = lEvicted /\ UNCHANGED <<lDisk, lNow, lRestarts, lUndefined>>
  BY DEF L!Get
<1>5. lOdd' \subseteq Keys /\ lEvicted' \subseteq Keys
  BY <1>1, <1>4 DEF L!TypeOK, L!LosesDeadline
<1>6. ASSUME k \notin lOdd' \cup lEvicted'
      PROVE  MemoryAgrees(g, lLatest[k], lDisk[k], lNow)
  <2>1. MemoryAgrees(lCell[k], lLatest[k], lDisk[k], lNow)
    BY <1>4, <1>6 DEF LInv, HeldAgree
  <2> QED BY <1>1, <1>4, <1>6, <2>1, LookAgrees
<1> HIDE DEF g
<1> QED BY <1>1, <1>2, <1>3, <1>4, <1>5, <1>6, KeyStep

LEMMA LSetKeeps ==
    ASSUME LInv, NEW k \in Keys, NEW v \in 1 .. MaxValue, L!set(k, v) PROVE LInv'
<1> DEFINE a == L!ClearExpire(lCell[k])
           b == L!SetValue(a, v)
           c == L!AddDirtyKey(k, b)
           l == [val |-> v, until |-> 0]
<1>1. L!TypeOK /\ lCell[k] \in L!Cells /\ MaxValue \in Nat /\ MaxTime \in Nat
  BY LTypes DEF LInv
<1>2. v \in 0 .. MaxValue /\ v # 0 /\ l \in L!Copies
  BY <1>1 DEF L!Copies
<1>3. a \in L!Cells /\ a.deadline = 0
  BY <1>1, ClearedIs
<1>4. b \in L!Cells /\ b.val = v /\ b.deadline = 0
  <2>1. b = [[a EXCEPT !.val = v] EXCEPT !.wait = "value"]
    BY DEF L!SetValue
  <2> DEFINE a2 == [a EXCEPT !.val = v]
  <2> HIDE DEF a
  <2>2. a2 \in L!Cells /\ a2.val = v /\ a2.deadline = 0
    BY <1>2, <1>3, CellWith
  <2> HIDE DEF a2
  <2>3. LET e == [a2 EXCEPT !.wait = "value"] IN
        e \in L!Cells /\ e.val = v /\ e.deadline = 0
    BY <2>2, CellWith
  <2> QED BY <2>1, <2>3 DEF a2, a
<1> HIDE DEF a
<1>5. c \in L!Cells /\ c.val = v /\ c.deadline = 0 /\ c.wait = "value"
  <2> HIDE DEF b
  <2>1. L!GetValue(k, b) = b
    BY <1>1, <1>2, <1>4, InMemory
  <2> QED BY <1>1, <1>2, <1>4, <2>1, DirtyIs
<1>6. lCell' = [lCell EXCEPT ![k] = c] /\ lLatest' = [lLatest EXCEPT ![k] = l]
  BY <1>1 DEF L!set, L!TypeOK, a
<1>7. /\ lOdd' = lOdd \ {k} /\ lEvicted' = lEvicted \ {k}
      /\ UNCHANGED <<lDisk, lNow, lRestarts, lUndefined>>
  BY DEF L!set
<1>8. lOdd' \subseteq Keys /\ lEvicted' \subseteq Keys
  BY <1>1, <1>7 DEF L!TypeOK
<1>9. l.val = v /\ l.until = 0
  OBVIOUS
<1> HIDE DEF b, c, l
<1>10. MemoryAgrees(c, l, lDisk[k], lNow)
  BY <1>2, <1>5, <1>9 DEF MemoryAgrees
<1> QED BY <1>2, <1>5, <1>6, <1>7, <1>8, <1>10, KeyStep

LEMMA LSaddKeeps == ASSUME LInv, NEW k \in Keys, L!sadd(k) PROVE LInv'
<1> DEFINE g == L!GetValue(k, lCell[k])
           b == IF g.val = 0 THEN L!SetValue(g, 1) ELSE [g EXCEPT !.val = g.val + 1]
           c == L!AddDirtyKey(k, b)
           x == L!Expected(k)
           l == [val |-> x + 1, until |-> IF x = 0 THEN 0 ELSE lLatest[k].until]
<1>1. /\ L!TypeOK /\ lCell[k] \in L!Cells /\ lLatest[k] \in L!Copies
      /\ MaxValue \in Nat /\ MaxTime \in Nat /\ lNow \in Nat
      /\ lLatest[k].val \in Nat
  BY LTypes DEF LInv
<1>2. g \in L!Cells /\ x \in Nat
  BY <1>1, DirtyIs DEF L!Expected, L!None
<1>3. x < MaxValue /\ g.val < MaxValue
  BY DEF L!sadd, L!View
<1>4. l \in L!Copies
  BY <1>1, <1>2, <1>3 DEF L!Copies
<1>5. lCell' = [lCell EXCEPT ![k] = c]
  BY <1>1 DEF L!sadd, L!TypeOK, L!None
<1>6. lLatest' = [lLatest EXCEPT ![k] = l]
  BY <1>1 DEF L!sadd, L!TypeOK, L!None
<1>7. /\ lOdd' = lOdd \cup L!LosesDeadline(k, L!ExpireIfNeed(lCell[k]))
      /\ lEvicted' = lEvicted /\ UNCHANGED <<lDisk, lNow, lRestarts, lUndefined>>
  BY DEF L!sadd
<1>8. lOdd' \subseteq Keys /\ lEvicted' \subseteq Keys
  BY <1>1, <1>7 DEF L!TypeOK, L!LosesDeadline
<1>9. l.val = x + 1 /\ l.until = IF x = 0 THEN 0 ELSE lLatest[k].until
  OBVIOUS
<1> HIDE DEF g, x, l
<1>10. g.val \in Nat
  BY <1>1, <1>2 DEF L!Cells
<1>11. b \in L!Cells /\ b.val = g.val + 1 /\ b.deadline = g.deadline
  <2>1. g.val + 1 \in 0 .. MaxValue
    BY <1>1, <1>3, <1>10
  <2>2. LET e == [g EXCEPT !.val = g.val + 1] IN
        e \in L!Cells /\ e.val = g.val + 1 /\ e.deadline = g.deadline
    BY <1>2, <2>1, CellWith
  <2>3. CASE g.val = 0
    <3>1. b = [[g EXCEPT !.val = 1] EXCEPT !.wait = "value"]
      BY <2>3 DEF L!SetValue
    <3> DEFINE g2 == [g EXCEPT !.val = 1]
    <3>2. g2 \in L!Cells /\ g2.val = 1 /\ g2.deadline = g.deadline
      BY <2>2, <2>3
    <3> HIDE DEF g2
    <3>3. LET e == [g2 EXCEPT !.wait = "value"] IN
          e \in L!Cells /\ e.val = 1 /\ e.deadline = g.deadline
      BY <3>2, CellWith
    <3>4. b = [g2 EXCEPT !.wait = "value"]
      BY <3>1 DEF g2
    <3> HIDE DEF b
    <3> QED BY <2>3, <3>3, <3>4
  <2>4. CASE g.val # 0
    BY <2>2, <2>4
  <2> QED BY <2>3, <2>4
<1> HIDE DEF b
<1>12. c \in L!Cells
  BY <1>1, <1>11, DirtyIs
<1>13. ASSUME k \notin lOdd' \cup lEvicted' PROVE MemoryAgrees(c, l, lDisk[k], lNow)
  <2>1. MemoryAgrees(lCell[k], lLatest[k], lDisk[k], lNow)
    BY <1>7, <1>13 DEF LInv, HeldAgree
  <2>2. /\ g.val = x /\ g.deadline \notin 1 .. lNow
        /\ MemoryAgrees(g, lLatest[k], lDisk[k], lNow)
    BY <1>1, <1>7, <1>13, <2>1, LookAgrees DEF g, x
  <2>3. L!GetValue(k, b) = b
    BY <1>1, <1>10, <1>11, <2>2, InMemory
  <2>4. c.val = x + 1 /\ c.deadline = g.deadline /\ c.wait = "value"
    BY <1>1, <1>2, <1>11, <2>2, <2>3, DirtyIs
  <2>5. g.deadline = l.until
    BY <1>9, <2>2 DEF MemoryAgrees
  <2> HIDE DEF c
  <2> QED BY <1>2, <1>9, <2>4, <2>5 DEF MemoryAgrees
<1> HIDE DEF c
<1> QED BY <1>4, <1>5, <1>6, <1>7, <1>8, <1>12, <1>13, KeyStep

LEMMA LDelKeeps == ASSUME LInv, NEW k \in Keys, L!del(k) PROVE LInv'
<1> DEFINE a == L!DeleteKey(lCell[k])
           b == IF lCell[k].val = 0 THEN a ELSE L!ClearExpire(a)
           c == L!AddDirtyKey(k, b)
<1>1. L!TypeOK /\ lCell[k] \in L!Cells /\ MaxValue \in Nat /\ MaxTime \in Nat
  BY LTypes DEF LInv
<1>2. L!Nothing \in L!Copies /\ L!Nothing.val = 0
  BY <1>1 DEF L!Copies, L!Nothing, L!None
<1>3. a \in L!Cells /\ a.val = 0 /\ a.wait = "null" /\ a.deadline = lCell[k].deadline
  BY <1>1, DeletedIs
<1>4. lCell' = [lCell EXCEPT ![k] = c] /\ lLatest' = [lLatest EXCEPT ![k] = L!Nothing]
  BY <1>1 DEF L!del, L!TypeOK, L!None
<1>5. lOdd' = lOdd /\ lEvicted' = lEvicted /\ UNCHANGED <<lDisk, lNow, lRestarts, lUndefined>>
  BY DEF L!del
<1>6. lOdd' \subseteq Keys /\ lEvicted' \subseteq Keys
  BY <1>1, <1>5 DEF L!TypeOK
<1> HIDE DEF a
<1>7. /\ b \in L!Cells /\ b.val = 0 /\ b.wait = "null"
      /\ lCell[k].val # 0 => b.deadline = 0
      /\ b.deadline \in {0, lCell[k].deadline}
  BY <1>1, <1>3, ClearedIs
<1> HIDE DEF b
<1>8. c \in L!Cells /\ c.val = 0 /\ c.wait = "null" /\ c.deadline \in {0, b.deadline}
  BY <1>1, <1>7, DirtyIs, InMemory
<1> HIDE DEF c
<1>9. ASSUME k \notin lOdd' \cup lEvicted' PROVE MemoryAgrees(c, L!Nothing, lDisk[k], lNow)
  <2>1. lCell[k].val = 0 => lCell[k].deadline = 0
    BY <1>5, <1>9 DEF LInv, HeldAgree, MemoryAgrees
  <2>2. c.deadline = 0
    BY <1>7, <1>8, <2>1
  <2> QED BY <1>2, <1>8, <2>2 DEF MemoryAgrees, Dead
<1> QED BY <1>2, <1>4, <1>5, <1>6, <1>8, <1>9, KeyStep

LEMMA LExpireKeeps == ASSUME LInv, NEW k \in Keys, L!expire(k) PROVE LInv'
<1> DEFINE a == L!GetObject(k, lCell[k])
           c == [a EXCEPT !.deadline = lNow + 1]
           l == [lLatest[k] EXCEPT !.until = lNow + 1]
<1>1. /\ L!TypeOK /\ lCell[k] \in L!Cells /\ lLatest[k] \in L!Copies
      /\ MaxTime \in Nat /\ lNow \in Nat /\ lNow <= MaxTime
  BY LTypes DEF LInv
<1>2. lNow + 1 \in 0 .. MaxTime + 1
  BY <1>1
<1>3. a \in L!Cells
  BY <1>1, FoundIs
<1>4. CASE a.val = 0
  <2>1. UNCHANGED lVars
    BY <1>4 DEF L!expire, L!None, L!history, lVars
  <2> QED BY <2>1 DEF lVars, LInv, L!TypeOK, HeldAgree, L!Cells, L!Copies
<1>5. CASE a.val # 0
  <2>1. lCell' = [lCell EXCEPT ![k] = c] /\ lLatest' = [lLatest EXCEPT ![k] = l]
    BY <1>1, <1>5 DEF L!expire, L!None, L!TypeOK
  <2>2. /\ lOdd' = IF a.wait = "value" THEN lOdd ELSE lOdd \cup {k}
        /\ lEvicted' = lEvicted /\ UNCHANGED <<lDisk, lNow, lRestarts, lUndefined>>
    BY <1>5 DEF L!expire, L!None
  <2>3. lOdd' \subseteq Keys /\ lEvicted' \subseteq Keys
    BY <1>1, <2>2 DEF L!TypeOK
  <2>4. l \in L!Copies /\ l.val = lLatest[k].val /\ l.until = lNow + 1
    BY <1>1, <1>2 DEF L!Copies
  <2>5. ASSUME k \notin lOdd' \cup lEvicted' PROVE a = lCell[k] /\ a.wait = "value"
    <3>1. a.wait = "value" /\ a.wait = lCell[k].wait
      BY <1>1, <2>2, <2>5, FoundIs
    <3>2. ~L!Misses(k, lCell[k])
      BY <3>1 DEF L!Misses
    <3> QED BY <3>1, <3>2 DEF L!GetObject
  <2>6. k \notin lOdd' \cup lEvicted' => MemoryAgrees(lCell[k], lLatest[k], lDisk[k], lNow)
    BY <2>2 DEF LInv, HeldAgree
  <2> HIDE DEF a, l
  <2>7. c \in L!Cells /\ c.val = a.val /\ c.deadline = lNow + 1 /\ c.wait = a.wait
    BY <1>2, <1>3, CellWith
  <2> HIDE DEF c
  <2>8. k \notin lOdd' \cup lEvicted' => MemoryAgrees(c, l, lDisk[k], lNow)
    BY <1>5, <2>4, <2>5, <2>6, <2>7 DEF MemoryAgrees
  <2> QED BY <2>1, <2>2, <2>3, <2>4, <2>7, <2>8, KeyStep
<1> QED BY <1>4, <1>5

LEMMA LEvictKeeps == ASSUME LInv, NEW k \in Keys, L!EvictItems(k) PROVE LInv'
<1>1. L!TypeOK /\ lCell[k] \in L!Cells /\ lLatest[k] \in L!Copies
  BY LTypes DEF LInv
<1>2. L!DeleteKey(lCell[k]) \in L!Cells
  BY <1>1, DeletedIs
<1>3. /\ lCell' = [lCell EXCEPT ![k] = L!DeleteKey(lCell[k])]
      /\ lLatest' = [lLatest EXCEPT ![k] = lLatest[k]]
      /\ lOdd' = lOdd /\ lEvicted' = lEvicted \cup {k}
      /\ UNCHANGED <<lDisk, lNow, lRestarts, lUndefined>>
  BY <1>1 DEF L!EvictItems, L!TypeOK
<1>4. lOdd' \subseteq Keys /\ lEvicted' \subseteq Keys
  BY <1>1, <1>3 DEF L!TypeOK
<1> QED BY <1>1, <1>2, <1>3, <1>4, KeyStep

LEMMA LFlushKeeps == ASSUME LInv, NEW every \in BOOLEAN, L!flush(every) PROVE LInv'
<1> DEFINE c(k) == [lCell[k] EXCEPT !.val = 0,
                                    !.deadline = IF every THEN 0 ELSE lCell[k].deadline]
<1>1. L!TypeOK /\ MaxValue \in Nat /\ MaxTime \in Nat
  BY LTypes DEF LInv
<1>2. \A k \in Keys : lCell[k] \in L!Cells
  BY <1>1, LTypes
<1>3. ASSUME NEW k \in Keys
      PROVE  /\ c(k) \in L!Cells /\ c(k).val = 0 /\ c(k).wait = lCell[k].wait
             /\ c(k).deadline = IF every THEN 0 ELSE lCell[k].deadline
  <2> DEFINE t == IF every THEN 0 ELSE lCell[k].deadline
             b == [lCell[k] EXCEPT !.val = 0]
  <2>1. 0 \in 0 .. MaxValue /\ 0 \in 0 .. MaxTime + 1
    BY <1>1
  <2>2. t \in 0 .. MaxTime + 1
    BY <1>2, <2>1 DEF L!Cells
  <2>3. b \in L!Cells /\ b.val = 0 /\ b.wait = lCell[k].wait
    BY <1>2, <2>1, CellWith
  <2>4. c(k) = [b EXCEPT !.deadline = t]
    OBVIOUS
  <2> HIDE DEF b, t
  <2>5. LET e == [b EXCEPT !.deadline = t] IN
        e \in L!Cells /\ e.val = 0 /\ e.wait = lCell[k].wait /\ e.deadline = t
    BY <2>2, <2>3, CellWith
  <2> HIDE DEF c
  <2> QED BY <2>4, <2>5 DEF t
<1>4. /\ lCell' = [k \in Keys |-> c(k)] /\ lLatest' = [k \in Keys |-> L!Nothing]
      /\ lEvicted' = lEvicted /\ UNCHANGED <<lDisk, lNow, lRestarts, lUndefined>>
      /\ lOdd' = lOdd \cup {k \in Keys : \/ lCell[k].wait = "no" /\ lDisk[k].val # 0
                                         \/ ~every /\ lCell[k].deadline # 0}
  BY <1>1 DEF L!flush, L!None, L!TypeOK
<1>5. L!Nothing \in L!Copies /\ L!Nothing.val = 0
  BY <1>1 DEF L!Copies, L!Nothing, L!None
<1> HIDE DEF c
<1>6. lCell' \in [Keys -> L!Cells] /\ lLatest' \in [Keys -> L!Copies]
  BY <1>3, <1>4, <1>5
<1>7. L!TypeOK'
  BY <1>1, <1>4, <1>6 DEF L!TypeOK, L!Cells, L!Copies
<1>8. ASSUME NEW k \in Keys \ (lOdd' \cup lEvicted')
      PROVE  MemoryAgrees(c(k), L!Nothing, lDisk[k], lNow)
  <2>1. /\ lCell[k].wait = "no" => lDisk[k].val = 0
        /\ ~every => lCell[k].deadline = 0
    BY <1>4, <1>8
  <2>2. c(k).val = 0 /\ c(k).wait = lCell[k].wait /\ c(k).deadline = 0
    BY <1>3, <2>1
  <2> QED BY <1>5, <2>1, <2>2 DEF MemoryAgrees, Dead
<1>9. HeldAgree'
  BY <1>4, <1>8 DEF HeldAgree
<1> QED BY <1>7, <1>9 DEF LInv

\* What a dump leaves in memory, of a key whose deadline has come too.
LEMMA DumpedIs ==
    ASSUME L!TypeOK, NEW c \in L!Cells
    PROVE  LET e == L!Dumped(c) IN
           /\ e \in L!Cells
           /\ c.val = 0 \/ c.deadline \notin 1 .. lNow => e = c
           /\ c.val # 0 /\ c.deadline \in 1 .. lNow =>
                  e.val = 0 /\ e.wait = "null" /\ e.deadline = 0
BY ExpiredIs DEF L!Dumped, L!None

LEMMA LDumpKeeps == ASSUME LInv, L!DumpToBackends PROVE LInv'
<1> DEFINE e(k) == L!Dumped(lCell[k])
           kept(k) == [e(k) EXCEPT !.wait = "no"]
           stored(k) == IF e(k).val = 0 \/ e(k).wait = "null" THEN L!Nothing
                        ELSE [val |-> lCell[k].val, until |-> lCell[k].deadline]
<1>1. /\ L!TypeOK /\ MaxValue \in Nat /\ MaxTime \in Nat
      /\ \A k \in Keys : lCell[k] \in L!Cells /\ lDisk[k] \in L!Copies
                         /\ lLatest[k] \in L!Copies /\ lCell[k].deadline \in Nat
                         /\ lLatest[k].until \in Nat
  BY LTypes DEF LInv
<1>2. PICK ks \in SUBSET {k \in Keys : lCell[k].wait # "no"} :
        /\ lDisk' = [k \in Keys |-> IF k \notin ks THEN lDisk[k] ELSE stored(k)]
        /\ lCell' = [k \in Keys |-> IF k \in ks THEN kept(k) ELSE lCell[k]]
        /\ UNCHANGED <<lNow, lRestarts, lUndefined, lLatest, lOdd, lEvicted>>
  <2>1. PICK ks \in SUBSET {k \in Keys : lCell[k].wait # "no"} :
          /\ lDisk' = [k \in Keys |->
                 IF k \notin ks THEN lDisk[k]
                 ELSE IF L!Dumped(lCell[k]).val = L!None \/ L!Dumped(lCell[k]).wait = "null"
                      THEN L!Nothing
                      ELSE [val |-> lCell[k].val, until |-> lCell[k].deadline]]
          /\ lCell' = [k \in Keys |->
                 IF k \in ks THEN [L!Dumped(lCell[k]) EXCEPT !.wait = "no"] ELSE lCell[k]]
          /\ UNCHANGED <<lNow, lRestarts, lUndefined, lLatest, lOdd, lEvicted>>
    BY DEF L!DumpToBackends, L!history
  <2>2. \A k \in Keys : stored(k) =
          IF L!Dumped(lCell[k]).val = L!None \/ L!Dumped(lCell[k]).wait = "null"
          THEN L!Nothing
          ELSE [val |-> lCell[k].val, until |-> lCell[k].deadline]
    BY DEF L!None
  <2> QED BY <2>1, <2>2
<1>3. L!Nothing \in L!Copies /\ L!Nothing.val = 0
  BY <1>1 DEF L!Copies, L!Nothing, L!None
<1>4. ASSUME NEW k \in Keys
      PROVE  /\ e(k) \in L!Cells
             /\ lCell[k].val = 0 \/ lCell[k].deadline \notin 1 .. lNow => e(k) = lCell[k]
             /\ lCell[k].val # 0 /\ lCell[k].deadline \in 1 .. lNow =>
                    e(k).val = 0 /\ e(k).wait = "null" /\ e(k).deadline = 0
  BY <1>1, DumpedIs
<1>5. \A k \in Keys : stored(k) \in L!Copies
  BY <1>1, <1>3 DEF L!Copies, L!Cells
<1>6. \A k \in Keys : /\ ~(e(k).val = 0 \/ e(k).wait = "null") =>
                            /\ stored(k).val = lCell[k].val
                            /\ stored(k).until = lCell[k].deadline
                      /\ e(k).val = 0 \/ e(k).wait = "null" => stored(k) = L!Nothing
  OBVIOUS
<1> HIDE DEF e, stored
<1>7. \A k \in Keys : /\ kept(k) \in L!Cells /\ kept(k).wait = "no"
                      /\ kept(k).val = e(k).val /\ kept(k).deadline = e(k).deadline
  BY <1>4, CellWith
<1> HIDE DEF kept
<1>8. L!TypeOK'
  <2>1. lCell' \in [Keys -> L!Cells] /\ lDisk' \in [Keys -> L!Copies]
    BY <1>1, <1>2, <1>5, <1>7
  <2> QED BY <1>1, <1>2, <2>1 DEF L!TypeOK, L!Cells, L!Copies
<1>9. ASSUME NEW k \in Keys \ (lOdd \cup lEvicted), k \in ks
      PROVE  MemoryAgrees(kept(k), lLatest[k], stored(k), lNow)
  <2> DEFINE c == lCell[k]
             l == lLatest[k]
  <2>1. /\ c.val # 0 => c.val = l.val /\ c.deadline = l.until /\ c.wait # "null"
        /\ c.val = 0 => c.deadline = 0
        /\ c.val = 0 /\ c.wait # "no" => Dead(l, lNow)
    BY DEF LInv, HeldAgree, MemoryAgrees
  <2>2. c.wait # "no"
    BY <1>2, <1>9
  <2>3. CASE c.val = 0
    <3>1. e(k) = c
      BY <1>4, <2>3
    <3>2. stored(k) = L!Nothing
      BY <1>6, <2>3, <3>1
    <3>3. kept(k).val = 0 /\ kept(k).deadline = 0 /\ kept(k).wait = "no"
      BY <1>7, <2>1, <2>3, <3>1
    <3> QED BY <1>3, <2>1, <2>2, <2>3, <3>2, <3>3 DEF MemoryAgrees, Dead
  <2>4. CASE c.val # 0 /\ c.deadline \in 1 .. lNow
    <3>1. e(k).val = 0 /\ e(k).wait = "null" /\ e(k).deadline = 0
      BY <1>4, <2>4
    <3>2. stored(k) = L!Nothing
      BY <1>6, <3>1
    <3>3. kept(k).val = 0 /\ kept(k).deadline = 0 /\ kept(k).wait = "no"
      BY <1>7, <3>1
    <3> QED BY <1>3, <2>1, <2>4, <3>2, <3>3 DEF MemoryAgrees, Dead
  <2>5. CASE c.val # 0 /\ c.deadline \notin 1 .. lNow
    <3>1. e(k) = c /\ c.wait # "null"
      BY <1>4, <2>1, <2>5
    <3>2. stored(k).val = c.val /\ stored(k).until = c.deadline
      BY <1>6, <2>5, <3>1
    <3>3. stored(k) = l
      BY <1>1, <1>5, <2>1, <2>5, <3>2 DEF L!Copies
    <3>4. kept(k).val = c.val /\ kept(k).deadline = c.deadline /\ kept(k).wait = "no"
      BY <1>7, <3>1
    <3> QED BY <2>1, <2>5, <3>3, <3>4 DEF MemoryAgrees
  <2> QED BY <2>3, <2>4, <2>5
<1>10. HeldAgree'
  <2>1. ASSUME NEW k \in Keys, k \notin lOdd', k \notin lEvicted'
        PROVE  MemoryAgrees(lCell'[k], lLatest'[k], lDisk'[k], lNow')
    <3>1. k \in Keys \ (lOdd \cup lEvicted) /\ lLatest' = lLatest /\ lNow' = lNow
      BY <1>2, <2>1
    <3>2. CASE k \in ks
      <4>1. lCell'[k] = kept(k) /\ lDisk'[k] = stored(k)
        BY <1>2, <3>2
      <4> QED BY <1>9, <3>1, <3>2, <4>1
    <3>3. CASE k \notin ks
      <4>1. lCell'[k] = lCell[k] /\ lDisk'[k] = lDisk[k]
        BY <1>2, <3>3
      <4> QED BY <3>1, <4>1 DEF LInv, HeldAgree
    <3> QED BY <3>2, <3>3
  <2> QED BY <2>1 DEF HeldAgree
<1> QED BY <1>8, <1>10 DEF LInv

LEMMA LTickKeeps == ASSUME LInv, L!Tick PROVE LInv'
<1>1. /\ L!TypeOK /\ lNow \in Nat /\ lNow' = lNow + 1 /\ lNow < MaxTime
      /\ UNCHANGED <<lCell, lDisk, lRestarts, lUndefined, lLatest, lOdd, lEvicted>>
  BY LTypes DEF LInv, L!Tick, L!history
<1>2. \A x : Dead(x, lNow) => Dead(x, lNow')
  BY <1>1 DEF Dead
<1>3. L!TypeOK'
  BY <1>1, LeveldbAssumption DEF L!TypeOK, L!Cells, L!Copies
<1>4. \A c, l, d : MemoryAgrees(c, l, d, lNow) => MemoryAgrees(c, l, d, lNow')
  BY <1>2 DEF MemoryAgrees
<1> QED BY <1>1, <1>3, <1>4 DEF LInv, HeldAgree

LEMMA LRestartKeeps == ASSUME LInv, L!Restart PROVE LInv'
<1>1. L!TypeOK /\ MaxValue \in Nat /\ MaxTime \in Nat
  BY LTypes DEF LInv
<1>2. /\ lCell' = L!Empty /\ lOdd' = {} /\ lEvicted' = {}
      /\ lRestarts < MaxRestarts /\ lRestarts' = lRestarts + 1
      /\ UNCHANGED <<lDisk, lNow, lUndefined>>
      /\ lLatest' = [k \in Keys |->
             IF lCell[k].wait = "no" /\ k \notin lOdd \cup lEvicted
             THEN lLatest[k] ELSE lDisk[k]]
  BY DEF L!Restart
<1>3. \A k \in Keys : lCell'[k].val = 0 /\ lCell'[k].deadline = 0 /\ lCell'[k].wait = "no"
  BY <1>2 DEF L!Empty, L!None
<1>4. L!TypeOK'
  <2>1. lCell' \in [Keys -> L!Cells]
    BY <1>1, <1>2 DEF L!Empty, L!Cells, L!None
  <2>2. lLatest' \in [Keys -> L!Copies]
    BY <1>1, <1>2 DEF L!TypeOK
  <2>3. lRestarts' \in 0 .. MaxRestarts
    BY <1>1, <1>2, LeveldbAssumption DEF L!TypeOK
  <2> QED BY <1>1, <1>2, <2>1, <2>2, <2>3 DEF L!TypeOK, L!Cells, L!Copies
<1>5. ASSUME NEW k \in Keys
      PROVE  MemoryAgrees(lCell'[k], lLatest'[k], lDisk'[k], lNow')
  <2>1. lLatest'[k] = lDisk[k] \/ (Dead(lLatest'[k], lNow) /\ Dead(lDisk[k], lNow))
    BY <1>2 DEF LInv, HeldAgree, MemoryAgrees
  <2> QED BY <1>2, <1>3, <2>1 DEF MemoryAgrees
<1> QED BY <1>4, <1>5 DEF LInv, HeldAgree

LEMMA LNextKeeps == ASSUME LInv, [L!Next]_lVars PROVE LInv'
<1>1. CASE \E k \in Keys : L!Get(k) \/ L!sadd(k) \/ L!del(k) \/ L!expire(k) \/ L!EvictItems(k)
  BY <1>1, LGetKeeps, LSaddKeeps, LDelKeeps, LExpireKeeps, LEvictKeeps
<1>2. CASE \E k \in Keys : \E v \in 1 .. MaxValue : L!set(k, v)
  BY <1>2, LSetKeeps
<1>3. CASE \E every \in BOOLEAN : L!flush(every)
  BY <1>3, LFlushKeeps
<1>4. CASE L!DumpToBackends \/ L!Tick \/ L!Restart
  BY <1>4, LDumpKeeps, LTickKeeps, LRestartKeeps
<1>5. CASE L!LoopCheck
  BY <1>5 DEF L!LoopCheck, L!history, LInv, L!TypeOK, HeldAgree, L!Cells, L!Copies
<1>6. CASE UNCHANGED lVars
  BY <1>6 DEF lVars, LInv, L!TypeOK, HeldAgree, L!Cells, L!Copies
<1>7. L!Next \/ UNCHANGED lVars
  OBVIOUS
<1> QED BY <1>1, <1>2, <1>3, <1>4, <1>5, <1>6, <1>7 DEF L!Next

\* What the cell and the disk have is what a command sees.
LEMMA LReads == ASSUME LInv PROVE L!ReadsTheLatest
<1>1. L!TypeOK
  BY DEF LInv
<1>2. ASSUME NEW k \in Keys \ (lOdd \cup lEvicted) PROVE L!Sees(k)
  <2>1. MemoryAgrees(lCell[k], lLatest[k], lDisk[k], lNow)
    BY DEF LInv, HeldAgree
  <2>2. L!GetValue(k, lCell[k]).val = L!Expected(k)
    BY <1>1, <2>1, LookAgrees
  <2> QED BY <2>2 DEF L!Sees, L!View
<1> QED BY <1>2 DEF L!ReadsTheLatest

\* Wherever the keys are, what holds of each of the two holds.
LEMMA KeyspaceInvariance == Keyspace => [](Inv /\ LInv)
<1>1. Begins => Inv /\ LInv
  BY InitKeeps, LInitKeeps DEF Begins
<1>2. Inv /\ LInv /\ [Goes]_all => (Inv /\ LInv)'
  <2> SUFFICES ASSUME Inv, LInv, [Goes]_all PROVE Inv' /\ LInv'
    OBVIOUS
  <2>1. [Next]_vars /\ [L!Next]_lVars
    BY DEF Goes, all
  <2> QED BY <2>1, NextKeeps, LNextKeeps
<1> QED BY <1>1, <1>2, PTL DEF Keyspace

\* QStore's keys, and what LevelDB and the keys that wait for it hold, keep
\* their types, whatever the keys, the contents and the number of keys that
\* one call of DumpToBackends writes.
THEOREM KeyspaceTypes == Keyspace => []AllTypeOK
<1>1. Inv /\ LInv => AllTypeOK
  BY DEF Inv, LInv, AllTypeOK
<1> QED BY <1>1, KeyspaceInvariance, PTL

\* With LevelDB a command sees what the latest commands have left, from memory
\* or from disk, dumped by the timer or not, after a restart too; without, what
\* is propagated makes the data again.
THEOREM KeyspaceKeepsData == Keyspace => []DataIsKept
<1>1. ASSUME Inv, LInv PROVE DataIsKept
  BY <1>1, LReads DEF Inv, DataIsKept
<1> QED BY <1>1, KeyspaceInvariance, PTL

\* The same of LevelDB alone (QStore::GetValue, DumpToBackends), without the
\* bound of the run on the keys that are excepted.
THEOREM AnyKeyReadsItsLatest == L!Spec => []L!ReadsTheLatest
<1>1. ASSUME [L!Next]_L!vars PROVE [L!Next]_lVars
  BY <1>1 DEF L!vars, L!history, lVars
<1> QED BY LInitKeeps, LNextKeeps, LReads, <1>1, PTL DEF L!Spec
=============================================================================
