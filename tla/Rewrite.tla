------------------------------ MODULE Rewrite ------------------------------
(***************************************************************************)
(* The file a rewrite makes (RewriteProcess, QAOF.cc), how it is read when  *)
(* the server starts (QAOFLoader, LoadDbFromDisk of Qedis.cc), and the RDB  *)
(* file that is loaded when it cannot be.                                   *)
(*                                                                         *)
(* The text is a sequence of arrays' headers and of bulk strings; the bytes *)
(* of these are the subject of Parser, where they come in pieces.  What the *)
(* AOF thread appends, and a crash, are QAOF's.                             *)
(***************************************************************************)
EXTENDS Rdb

VARIABLES
    aof,        \* the append-only file, <<>> for none or an empty one
    rewritten   \* history: what it was made of

rewriteVars == <<vars, aof, rewritten>>

Array(n) == [array |-> n]
Bulk(of) == [bulk |-> of]
Cmd(name) == [cmd |-> name]

-----------------------------------------------------------------------------
(***************************************************************************)
(* RewriteProcess                                                           *)
(***************************************************************************)
WriteCommand(name, key, words) ==
    <<Array(Len(words) + 2), Bulk(Cmd(name)), Bulk(key)>>
    \o [i \in DOMAIN words |-> Bulk(words[i])]

SelectDb(n) == <<Array(2), Bulk(Cmd("select")), Bulk(Num(n))>>

\* "%.6g", which a whole score of up to six digits, a half and infinity survive.
Double2Str(score) ==
    IF score.infinite THEN score
    ELSE [score EXCEPT !.n = SixDigits(@), !.half = @ /\ Digits(score.n) < 6]

\* Mutant: the header of a hash counts its fields once.
SaveHashOnce(key, fields, order) ==
    <<Array(Len(order) + 2), Bulk(Cmd("hmset")), Bulk(key)>>
    \o Flat([i \in DOMAIN order |-> <<Bulk(order[i]), Bulk(fields[order[i]])>>])

SaveHashObject(key, fields, order) ==
    WriteCommand("hmset", key, Flat([i \in DOMAIN order |-> <<order[i], fields[order[i]]>>]))

SaveZSetObject(key, scores, order) ==
    WriteCommand("zadd", key,
                 Flat([i \in DOMAIN order |-> <<Double2Str(scores[order[i]]), order[i]>>]))

\* A list that pops have emptied leaves nothing.
RewriteObject(key, value, turned) ==
    LET of == value.of IN
    CASE value.type = "string" -> WriteCommand("set", key, <<of>>)
      [] value.type = "list" -> IF of = <<>> THEN <<>> ELSE WriteCommand("rpush", key, of)
      [] value.type = "set" -> WriteCommand("sadd", key, Order(of, turned))
      [] value.type = "hash" -> SaveHashObject(key, of, Order(DOMAIN of, turned))
      [] value.type = "zset" -> SaveZSetObject(key, of, Order(DOMAIN of, turned))

\* The array's header is a bulk string of one character, "3".
SaveExpire(key, until) ==
    IF until = Never THEN <<>>
    ELSE <<Bulk(Num(3)), Bulk(Cmd("expire")), Bulk(key), Bulk(Num(until))>>

RewriteDb(n, turned) ==
    IF dbs[n] = Nothing THEN <<>>
    ELSE LET order == Order(Live(dbs[n]), turned) IN
         SelectDb(n)
         \o Flat([i \in DOMAIN order |->
                    RewriteObject(order[i], dbs[n][order[i]].value, turned)
                    \o SaveExpire(order[i], dbs[n][order[i]].until)])

-----------------------------------------------------------------------------
(***************************************************************************)
(* QAOFLoader, and the handlers it calls                                    *)
(***************************************************************************)

\* The arrays from a place of the text on; there are none if one is not whole.
RECURSIVE ArraysFrom(_, _, _)
ArraysFrom(f, at, cmds) ==
    LET n == f[at].array
        words == SubSeq(f, at + 1, at + n)
    IN
    IF at = Len(f) + 1 THEN cmds
    ELSE IF \/ "array" \notin DOMAIN f[at] \/ Len(f) < at + n
            \/ \E i \in DOMAIN words : "array" \in DOMAIN words[i]
    THEN <<>>
    ELSE ArraysFrom(f, at + n + 1, Append(cmds, [i \in DOMAIN words |-> words[i].bulk]))

LoadAof(f) == ArraysFrom(f, 1, <<>>)

\* What the words after the key make; the file names a key once, so there is none.
Made(name, words) ==
    CASE name = "set" -> [type |-> "string", of |-> IF IsNumber(words[1]) THEN Num(words[1].n) ELSE words[1]]
      [] name = "rpush" -> [type |-> "list", of |-> words]
      [] name = "sadd" -> [type |-> "set", of |-> ToSet(words)]
      [] name = "hmset" -> [type |-> "hash", of |-> Table(PairsOf(words))]
      [] name = "zadd" -> [type |-> "zset", of |-> Table([i \in 1 .. Len(words) \div 2 |->
                                                    <<words[2 * i], words[2 * i - 1]>>])]

ExecuteCmd(at, words) ==
    IF words[1].cmd = "select" THEN [at EXCEPT !.db = IF words[2].n \in Dbs THEN words[2].n ELSE @]
    ELSE LET held == [value |-> Made(words[1].cmd, SubSeq(words, 3, Len(words))), until |-> Never] IN
         [at EXCEPT !.dbs[at.db] = [k \in DOMAIN @ \cup {words[2]} |->
                                       IF k = words[2] THEN held ELSE @[k]]]

Replayed(cmds) == FoldLeft(ExecuteCmd, [dbs |-> Empty, db |-> 0], cmds).dbs

-----------------------------------------------------------------------------
RewriteInit == Init /\ aof = <<>> /\ rewritten = Empty

\* The child writes the databases as they are at the fork; its file takes the name.
RewriteProcess ==
    /\ ~crashed /\ aof = <<>>
    /\ \E turned \in BOOLEAN :
        aof' = Flat([i \in 1 .. Cardinality(Dbs) |-> RewriteDb(i - 1, turned)])
    /\ rewritten' = [n \in Dbs |-> [key \in Live(dbs[n]) |-> dbs[n][key]]]
    /\ UNCHANGED vars

LoadsAof == ~crashed /\ LoadAof(aof) # <<>>

\* The server starts again: the append-only file first; the RDB file if there is
\* none, or it is empty, or cannot be read as a whole.
LoadDbFromDisk ==
    /\ \/ LoadsAof /\ dbs' = Replayed(LoadAof(aof))
          /\ UNCHANGED <<now, file, saved, payload, restores, crashed>>
       \/ ~LoadsAof /\ LoadFile
       \/ /\ ~LoadsAof /\ ~crashed /\ file = <<>>
          /\ dbs' = Empty
          /\ UNCHANGED <<now, file, saved, payload, restores, crashed>>
    /\ UNCHANGED <<aof, rewritten>>

\* DUMP and RESTORE, which know of no file, are left to Rdb.
RewriteNext ==
    \/ RewriteProcess \/ LoadDbFromDisk
    \/ (Save \/ Tick) /\ UNCHANGED <<aof, rewritten>>

RewriteSpec == RewriteInit /\ [][RewriteNext]_rewriteVars

-----------------------------------------------------------------------------
IsRewritten(value, got) ==
    /\ got.type = value.type
    /\ IF value.type = "zset"
       THEN /\ DOMAIN got.of = DOMAIN value.of
            /\ \A m \in DOMAIN got.of : got.of[m] = Double2Str(value.of[m])
       ELSE got.of = (IF value.type = "string" THEN KeptText(value.of) ELSE value.of)

IsEmptyList(value) == value.type = "list" /\ value.of = <<>>
HasDeadlines(db) == \E key \in DOMAIN db : db[key].until # Never

\* A server that starts with a rewritten file has, in each database, every key that had
\* something, with its value.  A file with a deadline (QAOF.cc:182) is not read, no part
\* of it: what the RDB file has comes back, which may be older, or nothing; so it is with
\* databases without keys, whose file is empty and counts as none.
LoadsWhatWasRewritten ==
    [][aof # <<>> /\ LoadDbFromDisk =>
        IF \E n \in Dbs : HasDeadlines(rewritten[n])
        THEN dbs' = IF file = <<>> THEN Empty ELSE Load(file).dbs
        ELSE \A n \in Dbs :
            /\ DOMAIN dbs'[n] = {k \in DOMAIN rewritten[n] : ~IsEmptyList(rewritten[n][k].value)}
            /\ \A k \in DOMAIN dbs'[n] : IsRewritten(rewritten[n][k].value, dbs'[n][k].value)
       ]_rewriteVars
=============================================================================
