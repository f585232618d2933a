------------------------------- MODULE QStore -------------------------------
(***************************************************************************)
(* One database: its keys, their deadlines, the commands on strings, sets,  *)
(* hashes, sorted sets and keys, and what becomes of a command elsewhere.   *)
(*                                                                         *)
(* A command that succeeds is propagated: its text goes to the append-only  *)
(* file and to the replicas, where the same handler runs on another store   *)
(* (`copy`), and the watchers of its first parameter are told.  A handler   *)
(* is an operator from a store to a store, so that the two executions are   *)
(* one definition applied twice.                                            *)
(*                                                                         *)
(* A value is its type and a function from its members to numbers: a set    *)
(* gives every member 0, a hash the content of the field, a sorted set the  *)
(* score, and a string has the single member Whole.  A content n <= MaxInt  *)
(* is an integer (QEncode_int in a string).  Digits is the text of the      *)
(* integer 1 where it is not encoded as one (QEncode_raw), which only a     *)
(* string can be; Fraction is a number with a fraction, Text no number.     *)
(*                                                                         *)
(* Time is what it does to deadlines: due holds the keys whose deadline has *)
(* passed.  Lists are in QList; MOVE, which needs two databases, in QMulti. *)
(* There is no backend (QConfig's default).                                 *)
(***************************************************************************)
EXTENDS Integers, FiniteSets

CONSTANTS Keys,
          Members,    \* of sets and sorted sets; numbers, for their order
          Fields,     \* of hashes
          Whole,      \* the one member of a string
          MaxInt,     \* bound: integers and scores are 0 .. MaxInt
          Inputs,     \* bound: the contents clients send
          MaxCheck    \* kMaxCheck of ExpiresDB::LoopCheck, 2000 in the code

ASSUME MembersAssumption == Members \subseteq Nat /\ IsFiniteSet(Members)
ASSUME MaxIntAssumption == MaxInt \in Nat \ {0}
ASSUME MaxCheckAssumption == MaxCheck \in Nat \ {0}

Digits == MaxInt + 1
Fraction == MaxInt + 2
Text == MaxInt + 3
Contents == 0 .. Text
Given == Contents \ {Digits}      \* what QObject::CreateString makes
Raw == Contents \ (0 .. MaxInt)   \* what an edit in place leaves

Empty == [m \in {} |-> 0]
Value(type, v) == [type |-> type, v |-> v]
Absent == Value("none", Empty)
Str(n) == Value("string", [m \in {Whole} |-> n])

With(v, S, n) == [m \in DOMAIN v \cup S |-> IF m \in S THEN n ELSE v[m]]
Without(v, S) == [m \in DOMAIN v \ S |-> v[m]]

Partial(S, R) == UNION {[D -> R] : D \in SUBSET S}
Values == {Absent} \cup {Str(n) : n \in Contents}
            \cup {Value("set", v) : v \in Partial(Members, {0})}
            \cup {Value("hash", v) : v \in Partial(Fields, Given)}
            \cup {Value("zset", v) : v \in Partial(Members, 0 .. MaxInt)}

ASSUME InputsAssumption == Inputs \subseteq Given

VARIABLES
    val,        \* QStore::store_, a value or Absent for every key
    dl,         \* QStore::expiresDb_: the keys that have a deadline
    due,        \* those of dl whose deadline has passed
    dirtyKeys,  \* g_dirtyKeys
    copy,       \* values and deadlines where the propagated commands run
    \* What follows records history and is read by properties only.
    synced,     \* every change since copy was taken has been propagated
    untold,     \* keys the last step changed, their watchers not told, but
                \* for the keys known to be left out
    orphaned    \* deadlines that outlived their key in one of the known ways

vars == <<val, dl, due, dirtyKeys, copy, synced, untold, orphaned>>

NoCopy == [val |-> [k \in Keys |-> Absent], dl |-> {}]

TypeOK ==
    /\ val \in [Keys -> Values]
    /\ dl \subseteq Keys
    /\ due \subseteq dl
    /\ dirtyKeys \subseteq Keys
    /\ copy.val \in [Keys -> Values] /\ copy.dl \subseteq Keys
    /\ synced \in BOOLEAN
    /\ untold \subseteq Keys
    /\ orphaned \subseteq dl

\* A server starts with an empty database, or one the append-only file has
\* emptied again; QAOFLoader leaves the keys of an MSET it ran in
\* g_dirtyKeys.
Init ==
    /\ val = NoCopy.val
    /\ dl = {}
    /\ due = {}
    /\ dirtyKeys \in SUBSET Keys
    /\ copy = NoCopy
    /\ synced = TRUE
    /\ untold = {}
    /\ orphaned = {}

-----------------------------------------------------------------------------
(***************************************************************************)
(* QStore's methods.  d is the store a handler runs on: val, dl, due, the   *)
(* keys it pushed to g_dirtyKeys, those it found past their deadline and    *)
(* deleted (lost), and whether it has returned QError_ok.                   *)
(***************************************************************************)
Store(v, l, u, g) ==
    [val |-> v, dl |-> l, due |-> u, dirty |-> g, lost |-> {}, ok |-> TRUE]

Fail(d) == [d EXCEPT !.ok = FALSE]
Has(d, k) == d.val[k] # Absent

SetValue(d, k, x) == [d EXCEPT !.val[k] = x]
DeleteKey(d, k) == SetValue(d, k, Absent)

\* Mutant: the deadline's being past outlives the deadline.
ClearExpireKeepsDue(d, k) ==
    IF k \in d.dl THEN [DeleteKey(d, k) EXCEPT !.dl = @ \ {k}] ELSE d

\* ExpireIfNeed with the largest time there is: it deletes the key, too.
ClearExpire(d, k) ==
    IF k \in d.dl
    THEN [DeleteKey(d, k) EXCEPT !.dl = @ \ {k}, !.due = @ \ {k}]
    ELSE d

\* The first thing every lookup of a value does.
ExpireIfNeed(d, k) ==
    IF k \in d.due
    THEN [ClearExpire(d, k) EXCEPT
            !.lost = IF Has(d, k) THEN @ \cup {k} ELSE @]
    ELSE d

SetExpire(d, k, past) ==
    [d EXCEPT !.dl = @ \cup {k},
              !.due = IF past THEN @ \cup {k} ELSE @ \ {k}]

\* GET_SET, GET_HASH, ...: the value must be there and of the type.
Change(d, k, type, F(_)) ==
    LET e == ExpireIfNeed(d, k) IN
    IF e.val[k].type = type THEN F(e) ELSE Fail(e)

\* GET_OR_SET_SET, ...: a key that is not there becomes an empty value.
Update(d, k, type, F(_)) ==
    LET e == ExpireIfNeed(d, k) IN
    CASE e.val[k].type = type -> F(e)
      [] ~Has(e, k) -> F(SetValue(e, k, Value(type, Empty)))
      [] OTHER -> Fail(e)

Put(d, k, v) == [d EXCEPT !.val[k].v = v]
MembersOf(d, k) == DOMAIN d.val[k].v

\* A set, or a sorted set by range, that has lost its last member is deleted.
Drop(d, k, S) ==
    IF MembersOf(d, k) \subseteq S THEN DeleteKey(d, k)
    ELSE Put(d, k, Without(d.val[k].v, S))

-----------------------------------------------------------------------------
(***************************************************************************)
(* Strings.  What a command that edits a string makes of it is a parameter: *)
(* on equal strings it is equal.                                            *)
(***************************************************************************)
Set(d, k, n) == SetValue(ClearExpire(d, k), k, Str(n))

SetNx(d, k, n) ==
    LET e == ExpireIfNeed(d, k) IN IF Has(e, k) THEN e ELSE Set(e, k, n)

\* Mutant: MSET leaves it to Propogate to name its first key.
MSetNamesNone(d, K, n) ==
    [d EXCEPT !.val = [k \in Keys |-> IF k \in K THEN Str(n) ELSE @[k]],
              !.dl = @ \ K, !.due = @ \ K]

\* Every key is pushed to g_dirtyKeys and set.
MSet(d, K, n) ==
    [d EXCEPT !.val = [k \in Keys |-> IF k \in K THEN Str(n) ELSE @[k]],
              !.dl = @ \ K, !.due = @ \ K, !.dirty = @ \cup K]

\* The keys are looked up in turn until one is there.
MSetNx(d, k1, k2, n) ==
    LET e1 == ExpireIfNeed(d, k1)
        e2 == ExpireIfNeed(e1, k2)
    IN CASE Has(e1, k1) -> e1
         [] ~Has(e1, k1) /\ Has(e2, k2) -> e2
         [] OTHER -> MSet(e2, {k1, k2}, n)

\* SETEX and PSETEX; a time of 0 or less has passed at once.
SetEx(d, k, n, past) == SetExpire(SetValue(d, k, Str(n)), k, past)

\* GETSET, APPEND and SETRANGE: a string, or none, becomes another string.
Edit(d, k, n) ==
    Update(d, k, "string", LAMBDA e : SetValue(e, k, Str(n)))

\* The string is created before the offset and the bit are read: an offset
\* that is no number fails after that, one beyond the limit changes nothing.
SetBit(d, k, n, offset) ==
    LET e == ExpireIfNeed(d, k)
        c == IF Has(e, k) THEN e ELSE SetValue(e, k, Str(Text))
    IN CASE c.val[k].type # "string" -> Fail(c)
         [] c.val[k].type = "string" /\ offset = "nan" -> Fail(c)
         [] c.val[k].type = "string" /\ offset = "beyond" -> c
         [] OTHER -> SetValue(c, k, Str(n))

Wrap(n) == n % (MaxInt + 1)

\* INCR, DECR, INCRBY, DECRBY: what is no integer is answered with an error,
\* and the command succeeds all the same.
IncrBy(d, k, delta) ==
    LET e == ExpireIfNeed(d, k)
        c == IF Has(e, k) THEN e ELSE SetValue(e, k, Str(0))
        n == c.val[k].v[Whole]
    IN IF c.val[k].type # "string" THEN Fail(c)
       ELSE IF n > MaxInt THEN c
       ELSE SetValue(c, k, Str(Wrap(n + delta)))

\* n is how the sum is printed, Digits or Fraction.
IncrByFloat(d, k, n) ==
    LET e == ExpireIfNeed(d, k)
        c == IF Has(e, k) THEN e ELSE SetValue(e, k, Str(0))
    IN IF c.val[k].type # "string" \/ c.val[k].v = Str(Text).v THEN Fail(c)
       ELSE SetValue(c, k, Str(n))

BitOp(d, dst, k1, k2, n) ==
    SetValue(ExpireIfNeed(ExpireIfNeed(d, k1), k2), dst, Str(n))

-----------------------------------------------------------------------------
(***************************************************************************)
(* Sets.                                                                    *)
(***************************************************************************)
SAdd(d, k, S) ==
    Update(d, k, "set", LAMBDA e : Put(e, k, With(e.val[k].v, S, 0)))

SRem(d, k, S) == Change(d, k, "set", LAMBDA e : Drop(e, k, S))

\* m is RandomMember's choice.
SPop(d, k, m) ==
    Change(d, k, "set",
           LAMBDA e : IF MembersOf(e, k) = {} THEN Fail(e) ELSE Drop(e, k, {m}))

\* The member is gone before the target is looked at; a set left empty stays.
SMove(d, src, dst, m) ==
    Change(d, src, "set", LAMBDA e :
        IF m \notin MembersOf(e, src) THEN e
        ELSE SAdd(Put(e, src, Without(e.val[src].v, {m})), dst, {m}))

Combine(op, S, T) ==
    CASE op = "diff" -> S \ T
      [] op = "inter" -> S \cap T
      [] op = "union" -> S \cup T

\* SDIFFSTORE, SINTERSTORE, SUNIONSTORE: dst is emptied first, and res is its
\* new value, so that a source that is dst is what has been computed so far.
SStore(d, op, dst, k1, k2) ==
    LET set(S) == Value("set", [m \in S |-> 0])
        e1 == ExpireIfNeed(SetValue(d, dst, set({})), k1)
        first == IF e1.val[k1].type = "set" THEN MembersOf(e1, k1) ELSE {}
        e2 == ExpireIfNeed(SetValue(e1, dst, set(first)), k2)
        second == MembersOf(e2, k2)
    IN CASE e1.val[k1].type # "set" /\ op # "union" -> e1
         [] e1.val[k1].type = "set" /\ e2.val[k2].type = "set" ->
              SetValue(e2, dst, set(Combine(op, first, second)))
         [] e1.val[k1].type = "set" /\ e2.val[k2].type # "set" ->
              IF op = "inter" THEN SetValue(e2, dst, set({})) ELSE e2

-----------------------------------------------------------------------------
(***************************************************************************)
(* Hashes.  A hash that has lost its last field stays.                      *)
(***************************************************************************)
HSet(d, k, F, n) ==
    Update(d, k, "hash", LAMBDA e : Put(e, k, With(e.val[k].v, F, n)))

HSetNx(d, k, f, n) ==
    Update(d, k, "hash", LAMBDA e :
        IF f \in MembersOf(e, k) THEN e ELSE Put(e, k, With(e.val[k].v, {f}, n)))

HDel(d, k, F) ==
    Change(d, k, "hash", LAMBDA e : Put(e, k, Without(e.val[k].v, F)))

HIncrBy(d, k, f, delta) ==
    Update(d, k, "hash", LAMBDA e :
        LET n == IF f \in MembersOf(e, k) THEN e.val[k].v[f] ELSE 0
        IN IF n > MaxInt THEN Fail(e)
           ELSE Put(e, k, With(e.val[k].v, {f}, Wrap(n + delta))))

\* Mutant: the field is written before its old value is read.
HIncrByFloatWritesFirst(d, k, f) ==
    Update(d, k, "hash", LAMBDA e :
        LET w == Put(e, k, With(e.val[k].v, {f}, Fraction))
        IN IF f \in MembersOf(e, k) /\ e.val[k].v[f] = Text THEN Fail(w) ELSE w)

HIncrByFloat(d, k, f) ==
    Update(d, k, "hash", LAMBDA e :
        IF f \in MembersOf(e, k) /\ e.val[k].v[f] = Text THEN Fail(e)
        ELSE Put(e, k, With(e.val[k].v, {f}, Fraction)))

-----------------------------------------------------------------------------
(***************************************************************************)
(* Sorted sets.                                                             *)
(***************************************************************************)
\* Members that are there keep their score.  A score that is no number ends
\* the command after the pairs before it.
ZAdd(d, k, S, n, nan) ==
    Update(d, k, "zset", LAMBDA e :
        LET z == Put(e, k, With(e.val[k].v, S \ MembersOf(e, k), n))
        IN IF nan THEN Fail(z) ELSE z)

ZRem(d, k, S) ==
    Change(d, k, "zset", LAMBDA e : Put(e, k, Without(e.val[k].v, S)))

\* A sum beyond the largest score is that score, as with doubles.
ZIncrBy(d, k, m, delta, nan) ==
    Update(d, k, "zset", LAMBDA e :
        LET n == (IF m \in MembersOf(e, k) THEN e.val[k].v[m] ELSE 0) + delta
        IN IF nan THEN Fail(e)
           ELSE Put(e, k, With(e.val[k].v, {m},
                               IF n <= MaxInt THEN n ELSE MaxInt)))

Rank(v, m) ==
    Cardinality({x \in DOMAIN v : v[x] < v[m] \/ (v[x] = v[m] /\ x < m)})

\* ZREMRANGEBYRANK and ZREMRANGEBYSCORE.
ZRemRange(d, k, by, lo, hi) ==
    Change(d, k, "zset", LAMBDA e :
        LET v == e.val[k].v
            S == {m \in DOMAIN v :
                    (IF by = "rank" THEN Rank(v, m) ELSE v[m]) \in lo .. hi}
        IN IF S = {} THEN e ELSE Drop(e, k, S))

-----------------------------------------------------------------------------
(***************************************************************************)
(* Keys.                                                                    *)
(***************************************************************************)
\* Mutant: DEL forgets that a deadline belongs to its key.
DelKeepsDeadline(d, k1, k2) == DeleteKey(DeleteKey(d, k1), k2)

Del(d, k1, k2) ==
    LET one(e, k) == IF Has(e, k) THEN ClearExpire(DeleteKey(e, k), k) ELSE e
    IN one(one(d, k1), k2)

\* Without a deadline to hand on, the one of the new key is cleared, and that
\* deletes what has just been moved there.  k1 = k2 deletes the key.
Rename(d, k1, k2, force) ==
    LET e == ExpireIfNeed(d, k1)
        moved == SetValue(e, k2, e.val[k1])
        set == IF k1 \in e.dl THEN SetExpire(moved, k2, FALSE)
                              ELSE ClearExpire(moved, k2)
    IN IF ~Has(e, k1) \/ (~force /\ Has(e, k2)) THEN Fail(e)
       ELSE DeleteKey(ClearExpire(set, k1), k1)

\* FLUSHDB clears the database and not its deadlines, FLUSHALL both.
FlushDb(d) == [d EXCEPT !.val = NoCopy.val]
FlushAll(d) == [FlushDb(d) EXCEPT !.dl = {}, !.due = {}]

-----------------------------------------------------------------------------
(***************************************************************************)
(* What becomes of a handler's result.                                      *)
(***************************************************************************)
Now == Store(val, dl, due, dirtyKeys)
There == Store(copy.val, copy.dl, {}, {})

Changed(d) == {k \in Keys : d.val[k] # val[k]}

\* What is known of a command and excepted from the properties: the keys it
\* changes and tells nobody of, those it has changed by the time it fails,
\* whether its text does something else there, and the keys it may delete
\* without their deadline.
Nothing == [untold |-> {}, silent |-> {}, unsent |-> FALSE, orphan |-> {}]

\* A key that a command creates before it looks at its other parameters.
Fresh(k) == IF Has(Now, k) THEN {} ELSE {k}

Become(d, orphan) ==
    /\ val' = d.val /\ dl' = d.dl /\ due' = d.due
    /\ orphaned' = d.dl \cap (orphaned \cup {k \in orphan : d.val[k] = Absent})

\* Nothing is propagated, and nobody is told.  A copy that has missed a change
\* is not followed.
Keep(d, orphan, silent) ==
    /\ Become(d, orphan)
    /\ dirtyKeys' = d.dirty
    /\ synced' = (synced /\ Changed(d) = {})
    /\ copy' = IF synced' THEN copy ELSE NoCopy
    /\ untold' = Changed(d) \ (d.lost \cup silent)

\* Propogate: g_dirtyKeys, if there are any, are told instead of the first
\* parameter (told).  Those an MSET of the append-only file left behind take
\* the place of one command's.  t is what the propagated text makes of copy.
Propogate(d, t, told, known) ==
    /\ Become(d, known.orphan)
    /\ dirtyKeys' = {}
    /\ synced' = (synced /\ d.lost = {} /\ ~known.unsent)
    /\ copy' = IF synced' THEN [val |-> t.val, dl |-> t.dl] ELSE NoCopy
    /\ untold' = Changed(d) \ (d.dirty \cup d.lost \cup known.untold
                    \cup (IF d.dirty = {} \/ dirtyKeys # {} THEN told ELSE {}))

\* QClient::_HandlePacket, for a command with QAttr_write.
Execute(Cmd(_), Sent(_), told, known) ==
    LET d == Cmd(Now) IN
    IF d.ok THEN Propogate(d, Sent(There), told, known)
    ELSE Keep(d, known.orphan, known.silent)

\* Most commands are propagated as they came, and nothing is known of them.
Write(Cmd(_), k) == Execute(Cmd, Cmd, {k}, Nothing)

\* A command that may leave its key's deadline behind.
Removal(Cmd(_), Sent(_), k) ==
    Execute(Cmd, Sent, {k}, [Nothing EXCEPT !.orphan = {k}])

-----------------------------------------------------------------------------
(***************************************************************************)
(* The commands clients send.                                               *)
(***************************************************************************)
Some(S) == (SUBSET S) \ {{}}

SetCmd == \E k \in Keys, n \in Inputs : Write(LAMBDA d : Set(d, k, n), k)
SetNxCmd == \E k \in Keys, n \in Inputs : Write(LAMBDA d : SetNx(d, k, n), k)
MSetCmd ==
    \E K \in Some(Keys), n \in Inputs : \E k \in K :
        Write(LAMBDA d : MSet(d, K, n), k)
MSetNxCmd ==
    \E k1, k2 \in Keys, n \in Inputs : Write(LAMBDA d : MSetNx(d, k1, k2, n), k1)
SetExCmd ==
    \E k \in Keys, n \in Inputs, past \in BOOLEAN :
        Write(LAMBDA d : SetEx(d, k, n, past), k)
GetSetCmd == \E k \in Keys, n \in Inputs : Write(LAMBDA d : Edit(d, k, n), k)
SetRangeCmd == \E k \in Keys, n \in Raw : Write(LAMBDA d : Edit(d, k, n), k)
SetBitCmd ==
    \E k \in Keys, n \in Raw, offset \in {"nan", "beyond", "within"} :
        LET setbit(d) == SetBit(d, k, n, offset) IN
        /\ offset # "within" => n = Text
        /\ Execute(setbit, setbit, {k},
                   [Nothing EXCEPT !.silent = IF offset = "nan" THEN Fresh(k) ELSE {}])

\* Only one of the two has the text of an integer encoded as one.
EncodedOtherwise(k) == (val[k] = Str(Digits)) # (copy.val[k] = Str(Digits))

IncrByCmd ==
    \E k \in Keys, delta \in {-1, 1} :
        LET incrby(d) == IncrBy(d, k, delta) IN
        Execute(incrby, incrby, {k},
                [Nothing EXCEPT !.unsent = EncodedOtherwise(k)])
IncrByFloatCmd ==
    \E k \in Keys, n \in {Digits, Fraction} :
        Write(LAMBDA d : IncrByFloat(d, k, n), k)

\* The first parameter is the operation.
BitOpCmd ==
    \E dst, k1, k2 \in Keys, n \in Inputs :
        LET bitop(d) == BitOp(d, dst, k1, k2, n) IN
        Execute(bitop, bitop, {}, [Nothing EXCEPT !.untold = {dst}])

SAddCmd == \E k \in Keys, S \in Some(Members) : Write(LAMBDA d : SAdd(d, k, S), k)
SRemCmd ==
    \E k \in Keys, S \in Some(Members) :
        LET srem(d) == SRem(d, k, S) IN Removal(srem, srem, k)

\* Mutant: the member another SPOP chooses may be another one.
SPopCmdAsItCame ==
    \E k \in Keys, m, other \in Members :
        /\ m \in MembersOf(Now, k)
        /\ Removal(LAMBDA d : SPop(d, k, m), LAMBDA d : SPop(d, k, other), k)

\* RewriteCmd: what is propagated names the member.
SPopCmd ==
    \E k \in Keys, m \in Members :
        /\ m \in MembersOf(Now, k)
        /\ Removal(LAMBDA d : SPop(d, k, m), LAMBDA d : SRem(d, k, {m}), k)

\* In an EXEC the rewritten command is not the one propagated.
SPopInExec ==
    \E k \in Keys, m, other \in Members :
        /\ m \in MembersOf(Now, k)
        /\ Execute(LAMBDA d : SPop(d, k, m), LAMBDA d : SPop(d, k, other), {k},
                   [Nothing EXCEPT !.orphan = {k}, !.unsent = other # m])

SMoveCmd ==
    \E src, dst \in Keys, m \in Members :
        LET smove(d) == SMove(d, src, dst, m) IN
        Execute(smove, smove, {src},
                [Nothing EXCEPT !.untold = {dst}, !.silent = {src}])

\* The build does as it likes when a union's first source is no set (value is
\* not initialised), and when a source is a dst past its deadline (the set
\* res points to is deleted).
SStoreCmd ==
    \E op \in {"diff", "inter", "union"}, dst, k1, k2 \in Keys :
        LET sstore(d) == SStore(d, op, dst, k1, k2) IN
        /\ dst \in due => dst \notin {k1, k2}
        /\ op = "union" => k1 = dst \/ (k1 \notin due /\ val[k1].type = "set")
        /\ Write(sstore, dst)

HSetCmd ==
    \E k \in Keys, F \in Some(Fields), n \in Inputs :
        Write(LAMBDA d : HSet(d, k, F, n), k)
HSetNxCmd ==
    \E k \in Keys, f \in Fields, n \in Inputs :
        Write(LAMBDA d : HSetNx(d, k, f, n), k)
HDelCmd == \E k \in Keys, F \in Some(Fields) : Write(LAMBDA d : HDel(d, k, F), k)
HIncrByCmd ==
    \E k \in Keys, f \in Fields, delta \in {-1, 1} :
        Write(LAMBDA d : HIncrBy(d, k, f, delta), k)
HIncrByFloatCmd ==
    \E k \in Keys, f \in Fields : Write(LAMBDA d : HIncrByFloat(d, k, f), k)

ZAddCmd ==
    \E k \in Keys, S \in SUBSET Members, n \in 0 .. MaxInt, nan \in BOOLEAN :
        LET zadd(d) == ZAdd(d, k, S, n, nan) IN
        /\ S # {} \/ nan
        /\ Execute(zadd, zadd, {k},
                   [Nothing EXCEPT !.silent = IF nan THEN {k} ELSE {}])
ZRemCmd == \E k \in Keys, S \in Some(Members) : Write(LAMBDA d : ZRem(d, k, S), k)
ZIncrByCmd ==
    \E k \in Keys, m \in Members, nan \in BOOLEAN :
        LET zincrby(d) == ZIncrBy(d, k, m, 1, nan) IN
        Execute(zincrby, zincrby, {k},
                [Nothing EXCEPT !.silent = IF nan THEN Fresh(k) ELSE {}])
ZRemRangeCmd ==
    \E k \in Keys, by \in {"rank", "score"}, lo, hi \in 0 .. MaxInt :
        LET zremrange(d) == ZRemRange(d, k, by, lo, hi)
        IN Removal(zremrange, zremrange, k)

DelCmd ==
    \E k1, k2 \in Keys :
        LET del(d) == Del(d, k1, k2) IN
        Execute(del, del, {k1}, [Nothing EXCEPT !.untold = {k2}])

\* A deadline only one of the two has makes RENAME another command: EXPIRE is
\* never propagated.
RenameCmd ==
    \E k1, k2 \in Keys, force \in BOOLEAN :
        LET rename(d) == Rename(d, k1, k2, force) IN
        Execute(rename, rename, {k1},
                [Nothing EXCEPT !.untold = {k2},
                    !.unsent = dl \cap {k1, k2} # copy.dl \cap {k1, k2}])

FlushDbCmd ==
    Execute(FlushDb, FlushDb, Keys, [Nothing EXCEPT !.orphan = Keys])
FlushAllCmd == Execute(FlushAll, FlushAll, Keys, Nothing)

\* Commands without QAttr_write.  EXPIRE and its like set the deadline of a
\* key that is there, though past its deadline; PERSIST deletes the key.
ExpireCmd ==
    \E k \in Keys, past \in BOOLEAN :
        /\ Has(Now, k)
        /\ Keep(SetExpire(Now, k, past), {}, {})
PersistCmd == \E k \in Keys : Keep(ClearExpire(Now, k), {}, {k})
ReadCmd == \E k \in Keys : Keep(ExpireIfNeed(Now, k), {}, {})

-----------------------------------------------------------------------------
(***************************************************************************)
(* Time, timers and copies.                                                 *)
(***************************************************************************)
Pass ==
    \E k \in dl \ due :
        /\ due' = due \cup {k}
        /\ UNCHANGED <<val, dl, dirtyKeys, copy, synced, untold, orphaned>>

Least(m, n) == IF m <= n THEN m ELSE n

\* ExpiresDB::LoopCheck looks at the first keys of its table, propagates DEL
\* for those past their deadline and deletes them.
LoopCheck ==
    \E seen \in SUBSET dl :
        /\ Cardinality(seen) = Least(MaxCheck, Cardinality(dl))
        /\ seen \cap due # {}
        /\ LET gone == seen \cap due
               clear(d) == [d EXCEPT
                    !.val = [k \in Keys |-> IF k \in gone THEN Absent ELSE @[k]],
                    !.dl = @ \ gone, !.due = @ \ gone]
               del(d) == [d EXCEPT
                    !.val = [k \in Keys |-> IF k \in gone THEN Absent ELSE @[k]],
                    !.dl = {k \in @ : k \notin gone \/ d.val[k] = Absent}]
           IN Execute(clear, del, gone, Nothing)

\* EvictItems deletes a key, and nothing else happens.
Evict ==
    \E k \in Keys : /\ Has(Now, k)
                    /\ Keep(DeleteKey(Now, k), {k}, {k})

\* QDBSaver and QDBLoader: a replica is given the whole database, strings as
\* CreateString makes them of their text.  (Bound: nothing is past its
\* deadline; such keys are left out of the file.)
Shown(x) == IF x = Str(Digits) THEN Str(1) ELSE x

FullCopy ==
    /\ ~synced
    /\ due = {}
    /\ synced' = TRUE
    /\ copy' = [val |-> [k \in Keys |-> Shown(val[k])], dl |-> dl]
    /\ UNCHANGED <<val, dl, due, dirtyKeys, untold, orphaned>>

Next ==
    \/ SetCmd \/ SetNxCmd \/ MSetCmd \/ MSetNxCmd \/ SetExCmd \/ GetSetCmd
    \/ SetRangeCmd \/ SetBitCmd \/ IncrByCmd \/ IncrByFloatCmd \/ BitOpCmd
    \/ SAddCmd \/ SRemCmd \/ SPopCmd \/ SPopInExec \/ SMoveCmd \/ SStoreCmd
    \/ HSetCmd \/ HSetNxCmd \/ HDelCmd \/ HIncrByCmd \/ HIncrByFloatCmd
    \/ ZAddCmd \/ ZRemCmd \/ ZIncrByCmd \/ ZRemRangeCmd
    \/ DelCmd \/ RenameCmd \/ FlushDbCmd \/ FlushAllCmd
    \/ ExpireCmd \/ PersistCmd \/ ReadCmd
    \/ Pass \/ LoopCheck \/ Evict \/ FullCopy

Spec == Init /\ [][Next]_vars

-----------------------------------------------------------------------------
(***************************************************************************)
(* Properties.                                                              *)
(***************************************************************************)
\* Executing what is propagated, in the order it is propagated, gives the
\* server's data: an append-only file or a replica that starts with a full
\* copy goes on to hold what the server holds, until a change is not sent.
ReplayGivesTheData ==
    synced => \A k \in Keys : Shown(copy.val[k]) = Shown(val[k])

\* Whoever watches a key is told of every change of it (Propogate), whichever
\* command makes it, but for the keys known to be left out: the target of BITOP,
\* SMOVE and RENAME and the later keys of DEL; the key of a command that fails
\* when it has changed it (SETBIT, ZADD, ZINCRBY, SMOVE), for a failure is never
\* told; the key PERSIST or an eviction deletes; a key found past its deadline.
ChangedIsTold == untold = {}

\* A deadline goes when its key does, so that no later value of the key
\* inherits it, unless the key went in one of the ways that forget it.
DeadlinesAreOwned == \A k \in dl \ orphaned : Has(Now, k)
=============================================================================
