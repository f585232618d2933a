-------------------------------- MODULE Rdb --------------------------------
(***************************************************************************)
(* The RDB format (QedisCore/QDB.cc): what QDBSaver writes and QDBLoader    *)
(* reads back, DUMP and RESTORE.                                            *)
(*                                                                         *)
(* A file is a sequence of bytes (0 .. 255), where what is not a length, an *)
(* integer or a type stays a unit of its own: a text, a packed text, a      *)
(* score, a deadline, a checksum.  A text is an integer in its usual        *)
(* spelling, an integer in another that strtol takes in base 0 ("007",      *)
(* "0x7"), or neither, of some size, of which lzf_compress may make less.   *)
(***************************************************************************)
EXTENDS Integers, Sequences, SequencesExt, FiniteSets

CONSTANTS
    Dbs,        \* 0 .. the number of databases, less one
    Keys,       \* texts
    Contents,   \* what the databases may hold at first
    RedisFiles, \* files of a Redis master, each with what it holds
    MaxTime,    \* bound: the clock
    MaxRestores \* bound: RESTOREs

VARIABLES
    dbs,        \* QStore: the keys of each database, with value and deadline
    now,
    file,       \* the RDB file, <<>> for none
    saved,      \* history: what was saved
    payload,    \* a reply of DUMP, with the value it was of
    restores,   \* RESTOREs so far
    crashed     \* an assertion has failed

vars == <<dbs, now, file, saved, payload, restores, crashed>>

Num(n) == [n |-> n, usual |-> TRUE, size |-> 1]
Alias(n) == [n |-> n, usual |-> FALSE, size |-> 3]
Txt(size, packs) == [size |-> size, packs |-> packs]
\* A negative integer that Redis has written as one, of 8 or of 16 bits.
Encoded(n) == [n |-> n, usual |-> TRUE, size |-> 1, encoded |-> TRUE]
IsNumber(text) == "n" \in DOMAIN text
Never == 0
Nothing == [key \in {} |-> 0]

\* The number of characters of an integer.
Digits(n) ==
    LET tens == {k \in 1 .. 9 : 10 ^ k <= (IF n < 0 THEN -n ELSE n)} IN
    Cardinality(tens) + 1 + (IF n < 0 THEN 1 ELSE 0)
Size(text) == IF IsNumber(text) /\ text.usual THEN Digits(text.n) ELSE text.size

-----------------------------------------------------------------------------
(***************************************************************************)
(* QDBSaver                                                                 *)
(***************************************************************************)
SaveLength(len) ==
    IF len < 64 THEN <<len>>
    ELSE IF len < 16384 THEN <<64 + len \div 256, len % 256>>
    ELSE <<128, len \div 16777216, (len \div 65536) % 256, (len \div 256) % 256, len % 256>>

\* SaveString of an integer: what does not fit into 31 bits is a text.
SaveInt(n) ==
    IF n \in 0 .. 127 THEN <<192, n>>
    ELSE IF n \in 0 .. 32767 THEN <<193, n % 256, n \div 256>>
    ELSE IF n >= 0 THEN <<194, n % 256, (n \div 256) % 256, (n \div 65536) % 256, n \div 16777216>>
    ELSE SaveLength(Digits(n)) \o <<Num(n)>>

Packed(size) == size \div 2
SaveLZFString(text) ==
    <<195>> \o SaveLength(Packed(text.size)) \o SaveLength(text.size) \o <<[packed |-> text]>>

SaveString(text) ==
    IF Size(text) < 10 /\ IsNumber(text) THEN SaveInt(text.n)
    ELSE IF Size(text) >= 20 /\ ~IsNumber(text) /\ text.packs THEN SaveLZFString(text)
    ELSE SaveLength(Size(text)) \o <<text>>

\* "%.6g"
SixDigits(n) == LET unit == 10 ^ (IF Digits(n) > 6 THEN Digits(n) - 6 ELSE 0) IN
                ((n + unit \div 2) \div unit) * unit
SaveDouble(score) ==
    IF score.infinite THEN <<IF score.n < 0 THEN 255 ELSE 254>>
    ELSE <<Digits(score.n), [score EXCEPT !.n = SixDigits(@)]>>

Flat(parts) == FoldLeft(LAMBDA all, part : all \o part, <<>>, parts)
Several(order, Write(_)) ==
    SaveLength(Len(order)) \o Flat([i \in DOMAIN order |-> Write(order[i])])

\* A table is written in the order it is iterated: any one, and the tables of
\* the instances have at most two elements.
Order(elements, turned) ==
    LET order == SetToSeq(elements) IN IF turned THEN Reverse(order) ELSE order

TypeByte == [string |-> 0, list |-> 1, set |-> 2, zset |-> 3, hash |-> 4]
SaveObject(value, turned) ==
    LET of == value.of IN
    CASE value.type = "string" -> SaveString(of)
      [] value.type = "list" -> Several(of, SaveString)
      [] value.type = "set" -> Several(Order(of, turned), SaveString)
      [] value.type = "hash" ->
            Several(Order(DOMAIN of, turned), LAMBDA f : SaveString(f) \o SaveString(of[f]))
      [] value.type = "zset" ->
            Several(Order(DOMAIN of, turned), LAMBDA m : SaveString(m) \o SaveDouble(of[m]))

\* Mutant: a deadline is written behind its key.
SaveKeyFirst(key, held, turned) ==
    <<TypeByte[held.value.type]>> \o SaveString(key) \o SaveObject(held.value, turned)
    \o (IF held.until = Never THEN <<>> ELSE <<252, [until |-> held.until]>>)

SaveKey(key, held, turned) ==
    (IF held.until = Never THEN <<>> ELSE <<252, [until |-> held.until]>>)
    \o <<TypeByte[held.value.type]>> \o SaveString(key) \o SaveObject(held.value, turned)

Live(db) == {key \in DOMAIN db : db[key].until = Never \/ db[key].until > now}

\* A database that has keys is named, though none of them may be live.
SaveDb(n, turned) ==
    IF dbs[n] = Nothing THEN <<>>
    ELSE LET order == Order(Live(dbs[n]), turned) IN
         <<254>> \o SaveLength(n)
         \o Flat([i \in DOMAIN order |-> SaveKey(order[i], dbs[n][order[i]], turned)])

-----------------------------------------------------------------------------
(***************************************************************************)
(* QDBLoader: what is read, and where the next begins.                      *)
(***************************************************************************)
LoadLength(f, at) ==
    LET byte == f[at]
        low == byte % 64
    IN
    CASE byte \div 64 = 0 -> [n |-> low, special |-> FALSE, next |-> at + 1]
      [] byte \div 64 = 1 -> [n |-> low * 256 + f[at + 1], special |-> FALSE, next |-> at + 2]
      [] byte \div 64 = 2 ->
            [n |-> f[at + 1] * 16777216 + f[at + 2] * 65536 + f[at + 3] * 256 + f[at + 4],
             special |-> FALSE, next |-> at + 5]
      [] byte \div 64 = 3 -> [n |-> low, special |-> TRUE, next |-> at + 1]

\* Mutant: 16 bits are read in the order of the network.
LoadSpecialSwapped(f, at, enc) ==
    CASE enc = 0 -> [of |-> Num(f[at]), next |-> at + 1]
      [] enc = 1 -> [of |-> Num(f[at] * 256 + f[at + 1]), next |-> at + 2]
      [] enc = 2 ->
            [of |-> Num(f[at] + f[at + 1] * 256 + f[at + 2] * 65536 + f[at + 3] * 16777216),
             next |-> at + 4]
      [] enc = 3 ->
            LET raw == LoadLength(f, LoadLength(f, at).next) IN
            [of |-> [f[raw.next].packed EXCEPT !.size = raw.n], next |-> raw.next + 1]

LoadSpecial(f, at, enc) ==
    CASE enc = 0 -> [of |-> Num(f[at]), next |-> at + 1]
      [] enc = 1 -> [of |-> Num(f[at] + f[at + 1] * 256), next |-> at + 2]
      [] enc = 2 ->
            [of |-> Num(f[at] + f[at + 1] * 256 + f[at + 2] * 65536 + f[at + 3] * 16777216),
             next |-> at + 4]
      [] enc = 3 ->
            LET raw == LoadLength(f, LoadLength(f, at).next) IN
            [of |-> [f[raw.next].packed EXCEPT !.size = raw.n], next |-> raw.next + 1]

\* _LoadGenericString; a text read with another length is another text.
LoadString(f, at) ==
    LET len == LoadLength(f, at) IN
    IF len.special THEN LoadSpecial(f, len.next, len.n)
    ELSE [of |-> IF Size(f[len.next]) = len.n THEN f[len.next] ELSE Txt(len.n, FALSE),
          next |-> len.next + 1]

\* _LoadDoubleValue, where minus infinity is read as plus infinity; a zset's
\* score becomes a long, and infinity the least one.
LoadDouble(f, at) ==
    IF f[at] \in {254, 255} THEN [of |-> [n |-> -1, half |-> FALSE, infinite |-> FALSE], next |-> at + 1]
    ELSE [of |-> [f[at + 1] EXCEPT !.half = FALSE], next |-> at + 2]

\* n times what Read reads.
Times(f, at, n, Read(_, _)) ==
    FoldLeft(LAMBDA got, i : LET one == Read(f, got.next) IN
                             [of |-> Append(got.of, one.of), next |-> one.next],
             [of |-> <<>>, next |-> at], [i \in 1 .. n |-> i])

Pair(First(_, _), Second(_, _), f, at) ==
    LET one == First(f, at)
        two == Second(f, one.next)
    IN [of |-> <<one.of, two.of>>, next |-> two.next]

\* QHash::insert keeps the first of two; AddMember asserts there is none.
Table(pairs) ==
    [k \in {pairs[i][1] : i \in DOMAIN pairs} |->
        pairs[CHOOSE i \in DOMAIN pairs :
                pairs[i][1] = k /\ \A j \in 1 .. i - 1 : pairs[j][1] # k][2]]

\* _LoadZipList: entries in pairs for a hash and a sorted set.
ZipTypes == (10 :> "list") @@ (12 :> "zset") @@ (13 :> "hash")
PairsOf(entries) == [i \in 1 .. Len(entries) \div 2 |-> <<entries[2 * i - 1], entries[2 * i]>>]

LoadObject(f, at, byte) ==
    LET len == LoadLength(f, at)
        texts == Times(f, len.next, len.n, LoadString)
        fields == Times(f, len.next, len.n,
                          LAMBDA g, i : Pair(LoadString, LoadString, g, i))
        scores == Times(f, len.next, len.n,
                          LAMBDA g, i : Pair(LoadString, LoadDouble, g, i))
        loaded(type, of, next, ok) ==
            [of |-> [type |-> type, of |-> of], next |-> next, ok |-> ok]
    IN
    CASE byte = 0 -> LET s == LoadString(f, at) IN
                     loaded("string", IF IsNumber(s.of) THEN Num(s.of.n) ELSE s.of, s.next, TRUE)
      [] byte = 1 -> loaded("list", texts.of, texts.next, TRUE)
      [] byte = 2 -> loaded("set", ToSet(texts.of), texts.next, TRUE)
      [] byte = 3 -> LET t == Table(scores.of) IN
                     loaded("zset", t, scores.next, Cardinality(DOMAIN t) = len.n)
      [] byte = 4 -> loaded("hash", Table(fields.of), fields.next, TRUE)
      \* what Redis writes
      [] byte = 11 -> loaded("set", LoadString(f, at).of.ints, LoadString(f, at).next, TRUE)
      [] byte = 14 -> LET lists == Times(f, len.next, len.n, LoadString) IN
                      loaded("list", Flat([i \in DOMAIN lists.of |-> lists.of[i].entries]), lists.next, TRUE)
      [] byte \in DOMAIN ZipTypes -> LET zip == LoadString(f, at) IN
            loaded(ZipTypes[byte],
                   IF byte = 10 THEN zip.of.entries ELSE Table(PairsOf(zip.of.entries)), zip.next, TRUE)

\* QDBLoader::Load from a place of the file on, with the database selected
\* and the deadline read before it.
RECURSIVE LoadFrom(_, _, _, _, _)
LoadFrom(f, at, db, until, got) ==
    CASE f[at] = 255 -> got
      [] f[at] = 250 -> LoadFrom(f, LoadString(f, LoadString(f, at + 1).next).next, db, until, got)
      [] f[at] = 251 -> LoadFrom(f, LoadLength(f, LoadLength(f, at + 1).next).next, db, until, got)
      [] f[at] = 254 -> LET n == LoadLength(f, at + 1) IN LoadFrom(f, n.next, n.n, until, got)
      [] f[at] = 252 -> LoadFrom(f, at + 2, db, f[at + 1].until, got)
      [] OTHER ->
            LET key == LoadString(f, at + 1)
                object == LoadObject(f, key.next, f[at])
                old == got.dbs[db]
                held == [value |-> object.of,
                         until |-> IF until # Never THEN until
                                   ELSE IF key.of \in DOMAIN old THEN old[key.of].until ELSE Never]
                kept == IF until # Never /\ until <= now THEN got.dbs
                        ELSE [got.dbs EXCEPT ![db] =
                                [k \in DOMAIN old \cup {key.of} |->
                                    IF k = key.of THEN held ELSE old[k]]]
            IN LoadFrom(f, object.next, db, Never, [dbs |-> kept, ok |-> got.ok /\ object.ok])

Empty == [n \in Dbs |-> Nothing]
Load(f) == LoadFrom(f, 1, 0, Never, [dbs |-> Empty, ok |-> TRUE])

-----------------------------------------------------------------------------
Init ==
    /\ dbs \in Contents
    /\ \/ file = <<>> /\ saved = Empty
       \/ \E f \in RedisFiles : file = f[1] /\ saved = f[2]
    /\ now = 0 /\ payload = <<>>
    /\ restores = 0 /\ crashed = FALSE

\* QDBSaver::Save; the file takes its name when it is whole.
Save ==
    /\ ~crashed /\ file = <<>>
    /\ \E turned \in BOOLEAN :
        file' = Flat([i \in 1 .. Cardinality(Dbs) |-> SaveDb(i - 1, turned)]) \o <<255>>
    /\ saved' = [n \in Dbs |-> [key \in Live(dbs[n]) |-> dbs[n][key]]]
    /\ UNCHANGED <<dbs, now, payload, restores, crashed>>

\* The server starts again.
LoadFile ==
    /\ ~crashed /\ file # <<>>
    /\ UNCHANGED <<now, file, saved, payload, restores>>
    /\ \E loaded \in {Load(file)} : dbs' = loaded.dbs /\ crashed' = ~loaded.ok

Tick ==
    /\ now < MaxTime
    /\ now' = now + 1
    /\ UNCHANGED <<dbs, file, saved, payload, restores, crashed>>

\* DUMP: the object, two bytes of version and the checksum of both.
Dump ==
    /\ ~crashed /\ payload = <<>>
    /\ \E n \in Dbs : \E key \in Live(dbs[n]), turned \in BOOLEAN :
        LET value == dbs[n][key].value
            bytes == <<TypeByte[value.type]>> \o SaveObject(value, turned) \o <<6, 0>>
        IN payload' = <<bytes \o <<[crc |-> bytes]>>, value>>
    /\ UNCHANGED <<dbs, now, file, saved, restores, crashed>>

\* RESTORE of what DUMP replied.  A key that is replaced keeps its deadline
\* when none is given.
Restore(n, key, ttl, replace) ==
    /\ ~crashed /\ payload # <<>> /\ restores < MaxRestores
    /\ restores' = restores + 1
    /\ replace \/ key \notin Live(dbs[n])
    /\ LET bytes == payload[1]
           object == LoadObject(bytes, 2, bytes[1])
           old == IF key \in Live(dbs[n]) THEN dbs[n][key].until ELSE Never
           held == [value |-> object.of, until |-> IF ttl > 0 THEN now + ttl ELSE old]
       IN
        /\ bytes[object.next] = 6
        /\ bytes[object.next + 2] = [crc |-> SubSeq(bytes, 1, object.next + 1)]
        /\ crashed' = ~object.ok
        /\ dbs' = [dbs EXCEPT ![n] = [k \in DOMAIN @ \cup {key} |-> IF k = key THEN held ELSE @[k]]]
    /\ UNCHANGED <<now, file, saved, payload>>

Restores == \E n \in Dbs, key \in Keys, ttl \in {0, 1}, replace \in BOOLEAN : Restore(n, key, ttl, replace)
Next == Save \/ LoadFile \/ Tick \/ Dump \/ Restores
Spec == Init /\ [][Next]_vars

-----------------------------------------------------------------------------
\* What a file keeps: an integer's usual spelling, but a negative one that
\* Redis has encoded is read without its sign; a score's whole part, of six
\* digits, and infinity as the least long.
Unsigned(n) == IF n >= -128 THEN n + 256 ELSE n + 65536
KeptText(text) ==
    IF ~IsNumber(text) THEN text
    ELSE Num(IF "encoded" \in DOMAIN text THEN Unsigned(text.n) ELSE text.n)
KeptScore(score) ==
    IF score.infinite THEN [n |-> -1, half |-> FALSE, infinite |-> FALSE]
    ELSE [n |-> SixDigits(score.n), half |-> FALSE, infinite |-> FALSE]

\* Of names that a file makes one, one has its value.
KeptTable(of, Kept(_), got) ==
    /\ DOMAIN got = {KeptText(k) : k \in DOMAIN of}
    /\ \A k \in DOMAIN got : \E l \in DOMAIN of : KeptText(l) = k /\ got[k] = Kept(of[l])

IsKept(value, got) ==
    LET of == value.of IN
    /\ got.type = value.type
    /\ CASE value.type = "string" -> got.of = KeptText(of)
         [] value.type = "list" -> got.of = [i \in DOMAIN of |-> KeptText(of[i])]
         [] value.type = "set" -> got.of = {KeptText(m) : m \in of}
         [] value.type = "hash" -> KeptTable(of, KeptText, got.of)
         [] value.type = "zset" -> KeptTable(of, KeptScore, got.of)

\* The keys that a file keeps under one name are l and those spelt otherwise.
\* The one that stays has its own deadline or, if it has none, may have got
\* another's.
KeptDeadline(db, here, l, until) ==
    \/ until = db[l].until
    \/ db[l].until = Never
       /\ \E m \in here \ {l} : KeptText(m) = KeptText(l) /\ until = db[m].until

\* A server that starts again has, in each database, every key that was saved
\* and has not passed its deadline since, with its value and its deadline:
\* whatever sizes and integers are at the boundary of their encodings.  Said in
\* KeptText and KeptDeadline: the names that a file makes one share a deadline,
\* and what Redis encodes as a negative integer is another one.
LoadsWhatWasSaved ==
    [][LoadFile =>
        \A n \in Dbs :
            LET db == saved[n]
                here == {k \in DOMAIN db : db[k].until = Never \/ db[k].until > now}
            IN
            /\ DOMAIN dbs'[n] = {KeptText(k) : k \in here}
            /\ \A k \in DOMAIN dbs'[n] : \E l \in here :
                /\ KeptText(l) = k
                /\ IsKept(db[l].value, dbs'[n][k].value)
                /\ KeptDeadline(db, here, l, dbs'[n][k].until)]_vars

\* Two keys, or two members of a sorted set, that are spelt apart are apart.
NoAssertionFails == ~crashed
=============================================================================
