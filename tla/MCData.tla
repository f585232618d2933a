------------------------------- MODULE MCData --------------------------------
(***************************************************************************)
(* The blocking lists (QList), and what turns data into bytes and back:    *)
(* the RDB file, the parser of requests, the matcher of patterns, and the  *)
(* subscriptions.  One of them runs, chosen at the start; the others stay  *)
(* as they began.                                                          *)
(***************************************************************************)
EXTENDS QList

CONSTANTS c1, c2, a, b, dst

TwoClients == {c1, c2}
ThreeKeys == {a, b, dst}

\* Clients block on a and b; dst is the target of the others.
AllCommands ==
    {[op |-> "push", key |-> a, end |-> "left", n |-> 2, create |-> TRUE],
     [op |-> "push", key |-> b, end |-> "right", n |-> 1, create |-> TRUE],
     [op |-> "push", key |-> a, end |-> "left", n |-> 1, create |-> FALSE],
     [op |-> "pop", key |-> a, end |-> "left"],
     [op |-> "bpop", keys |-> <<b, a>>, end |-> "left", timed |-> TRUE, to |-> None],
     [op |-> "brpoplpush", keys |-> <<a>>, end |-> "right", timed |-> FALSE, to |-> dst],
     [op |-> "rpoplpush", key |-> a, to |-> dst],
     [op |-> "set", key |-> dst],
     [op |-> "del", key |-> b],
     [op |-> "flushall"]}

\* Texts and scores of the RDB file: an integer, one spelt in another way, a text.
Num(n) == [n |-> n, usual |-> TRUE, size |-> 1]
Alias(n) == [n |-> n, usual |-> FALSE, size |-> 3]
Txt(size, packs) == [size |-> size, packs |-> packs]
NoKeys == [key \in {} |-> 0]

SomeKeys == {Num(7), Alias(7), Txt(64, FALSE)}
Score(n) == [n |-> n, half |-> FALSE, infinite |-> FALSE]
Texts == {Num(n) : n \in {-7, 0, 127, 128, 32767, 32768, 999999999, 1000000000}}
     \cup {Alias(7)} \cup {Txt(n, n = 20) : n \in {20, 63, 64, 16383, 16384}}
Values == [type : {"string"}, of : Texts \ {Alias(7)}]
  \cup {[type |-> "list", of |-> <<>>]}
  \cup {[type |-> "list", of |-> <<Num(-7), t>>] : t \in {Num(128), Alias(7)}}
  \cup {[type |-> "set", of |-> {t, Num(7)}] : t \in {Num(32768), Alias(7)}}
  \cup {[type |-> "hash", of |-> [k \in {Txt(1, FALSE), Num(7)} |-> t]] : t \in {Txt(20, TRUE), Alias(7)}}
  \cup {[type |-> "hash", of |-> [k \in {Alias(7), Num(7)} |-> k]]}
  \cup {[type |-> "zset", of |-> [k \in {Alias(7), t} |-> s]] : t \in {Txt(1, FALSE), Num(7)},
          s \in {Score(0), Score(1234567), [n |-> 3, half |-> TRUE, infinite |-> FALSE], [n |-> -1, half |-> FALSE, infinite |-> TRUE]}}

Held(values) == [value : values, until : {0, 1}]
Few == {[type |-> "string", of |-> Num(0)], [type |-> "set", of |-> {Alias(7)}]}
OneKey == {[n \in {0, 1} |-> IF n = 1 THEN [k \in {Txt(64, FALSE)} |-> h] ELSE NoKeys] :
            h \in Held(Values)}
TwoKeys == {[n \in {0, 1} |-> IF n = 0 THEN h ELSE NoKeys] :
             h \in UNION {[{Num(7), other} -> Held(Few)] : other \in {Alias(7), Txt(64, FALSE)}}}
TwoDbs == [{0, 1} -> [{Num(7)} -> Held(Few)]]
SomeContents == {[n \in {0, 1} |-> NoKeys]} \cup OneKey \cup TwoKeys \cup TwoDbs

\* An AUX field, the sizes, then one key: of each type Redis packs, and with
\* negative integers of 8 and of 16 bits (-7 and -300).
ZipList(entries) == [entries |-> entries, size |-> 30]
Encoded(n) == [n |-> n, usual |-> TRUE, size |-> 1, encoded |-> TRUE]
OfRedis(type, name, bytes, key, value) ==
    << <<250, 3, Txt(3, FALSE), 192, 5, 254, 1, 251, 1, 0, type>> \o name \o bytes \o <<255>>,
       [n \in {0, 1} |-> IF n = 1 THEN [k \in {key} |-> [value |-> value, until |-> 0]] ELSE NoKeys]>>
FromRedis(type, bytes, value) == OfRedis(type, <<192, 7>>, bytes, Num(7), value)
SomeFiles ==
    {OfRedis(0, <<193, 212, 254>>, <<192, 249>>, Encoded(-300), [type |-> "string", of |-> Encoded(-7)]),
     FromRedis(4, <<1, 192, 7, 192, 249>>, [type |-> "hash", of |-> [k \in {Num(7)} |-> Encoded(-7)]]),
     FromRedis(10, <<30, ZipList(<<Num(1), Num(-7)>>)>>, [type |-> "list", of |-> <<Num(1), Num(-7)>>]),
     FromRedis(11, <<30, [ints |-> {Num(1), Num(40000)}, size |-> 30]>>, [type |-> "set", of |-> {Num(1), Num(40000)}]),
     FromRedis(12, <<30, ZipList(<<Num(1), Score(2)>>)>>, [type |-> "zset", of |-> [k \in {Num(1)} |-> Score(2)]]),
     FromRedis(13, <<30, ZipList(<<Num(1), Num(2)>>)>>, [type |-> "hash", of |-> [k \in {Num(1)} |-> Num(2)]]),
     FromRedis(14, <<2, 30, ZipList(<<Num(1)>>), 30, ZipList(<<Num(2)>>)>>, [type |-> "list", of |-> <<Num(1), Num(2)>>])}

\* Arrays with a word of CR LF, without words, of 101 bytes, of ten words; and lines.
Of(c, n) == [i \in 1..n |-> c]
Asks(words) == [inline |-> FALSE, words |-> words]
Line(words) == [inline |-> TRUE, words |-> words]
FirstStream == <<Asks(<<Of("a", 3), <<"CR", "LF">>, <<>>>>),
                 Line(<<<<"a", "b">>, <<"c">>>>), Asks(<<>>), Asks(<<Of("b", 1)>>)>>
SomeStreams == {FirstStream,
                <<Line(<<>>), Asks(<<Of("*", 101)>>)>>,
                <<Asks([i \in 1..10 |-> <<"a">>]), Asks(<<Of("$", 4)>>)>>}

VARIABLE part      \* the component that runs, chosen at the start

\* Two databases, saved, rewritten and loaded, dumped and restored; files written by Redis.
VARIABLES rDbs, rNow, rFile, rSaved, rPayload, rRestores, rCrashed, rAof, rRewritten
R == INSTANCE Rewrite WITH Dbs <- {0, 1}, Keys <- SomeKeys,
                       Contents <- SomeContents, RedisFiles <- SomeFiles,
                       MaxTime <- 1, MaxRestores <- 1, dbs <- rDbs,
                       now <- rNow, file <- rFile, saved <- rSaved,
                       payload <- rPayload, restores <- rRestores,
                       crashed <- rCrashed, aof <- rAof, rewritten <- rRewritten
rVars == <<rDbs, rNow, rFile, rSaved, rPayload, rRestores, rCrashed, rAof, rRewritten>>

\* Requests that come in pieces.
VARIABLES qStream, qText, qArrived, qTaken, qMulti, qParamLen, qParams,
          qContent, qGot, qSent, qClosed, qBroken
Q == INSTANCE Parser WITH Streams <- SomeStreams, stream <- qStream,
                          text <- qText, arrived <- qArrived,
                          taken <- qTaken, multi <- qMulti,
                          paramLen <- qParamLen, params <- qParams,
                          content <- qContent, got <- qGot, sent <- qSent,
                          closed <- qClosed, broken <- qBroken
qVars == <<qStream, qText, qArrived, qTaken, qMulti, qParamLen, qParams,
           qContent, qGot, qSent, qClosed, qBroken>>

\* A full copy: files of 90 and of 100 bytes in tens, one command behind them, and two
\* connections.
TwoFiles == {Append(Of("a", 8), "end"), Append(Of("b", 9), "end")}
VARIABLES tState, tRdbSize, tRdbRecved, tRdb, tLoaded, tAsked, tFile, tConnects,
          tCrashed, tExcused
T == INSTANCE RdbTransfer WITH Streams <- {}, Files <- TwoFiles, Unit <- 10, End <- "end",
                               Commands <- {Asks(<<<<"c">>>>)}, MaxCommands <- 1,
                               MaxConnects <- 2, stream <- qStream,
                               text <- qText, arrived <- qArrived,
                               taken <- qTaken, multi <- qMulti,
                               paramLen <- qParamLen, params <- qParams,
                               content <- qContent, got <- qGot, sent <- qSent,
                               closed <- qClosed, broken <- qBroken,
                               state <- tState, rdbSize <- tRdbSize,
                               rdbRecved <- tRdbRecved, rdb <- tRdb,
                               loaded <- tLoaded, asked <- tAsked,
                               file <- tFile, connects <- tConnects,
                               crashed <- tCrashed, excused <- tExcused
tVars == <<tState, tRdbSize, tRdbRecved, tRdb, tLoaded, tAsked, tFile, tConnects,
           tCrashed, tExcused>>

\* Every pattern of up to 3 items and every text of up to 4 characters.
VARIABLES gPattern, gText
G == INSTANCE Glob WITH Chars <- {"a", "b"}, Sets <- {{"a"}, {"b"}},
                        MaxPattern <- 3, MaxText <- 4, pattern <- gPattern,
                        text <- gText
gVars == <<gPattern, gText>>

\* Two subscribers, two channels and a pattern that matches one of them.
VARIABLES sSubscribed, sListed, sEntries, sAlive, sStart, sInbox, sOwed
S == INSTANCE Pubsub WITH Clients <- {"p1", "p2"}, Channels <- <<"x", "y">>,
                          Patterns <- <<"p">>, Matches <- {<<"p", "x">>},
                          EraseMax <- 1, subscribed <- sSubscribed,
                          listed <- sListed, entries <- sEntries,
                          alive <- sAlive, start <- sStart, inbox <- sInbox,
                          owed <- sOwed
sVars == <<sSubscribed, sListed, sEntries, sAlive, sStart, sInbox, sOwed>>

all == <<part, vars, rVars, qVars, tVars, gVars, sVars>>

Begins ==
    /\ part \in {"list", "rdb", "rewrite", "requests", "transfer", "glob", "pubsub"}
    /\ Init
    /\ \/ part = "rdb"
       \/ part = "rewrite" /\ rFile = <<>> /\ rDbs \in OneKey \cup TwoDbs
       \/ part \notin {"rdb", "rewrite"} /\ rFile = <<>> /\ rDbs = R!Empty
    /\ R!RewriteInit
    /\ \/ part = "transfer" /\ T!NothingReceived
       \/ part = "requests" /\ Q!Init
       \/ part \notin {"requests", "transfer"} /\ qStream = FirstStream /\ Q!Init
    /\ T!LinkInit
    /\ (part = "glob" \/ (gPattern = <<>> /\ gText = <<>>)) /\ G!Init
    /\ S!Init

Goes ==
    \/ /\ part = "list" /\ Next
       /\ UNCHANGED <<part, rVars, qVars, tVars, gVars, sVars>>
    \/ /\ part = "rdb" /\ R!Next
       /\ UNCHANGED <<part, vars, rAof, rRewritten, qVars, tVars, gVars, sVars>>
    \/ /\ part = "rewrite" /\ R!RewriteNext
       /\ UNCHANGED <<part, vars, qVars, tVars, gVars, sVars>>
    \/ /\ part = "requests" /\ Q!Next
       /\ UNCHANGED <<part, vars, rVars, tVars, gVars, sVars>>
    \/ /\ part = "transfer" /\ T!TransferNext
       /\ UNCHANGED <<part, vars, rVars, gVars, sVars>>
    \/ /\ part = "pubsub" /\ S!Next
       /\ UNCHANGED <<part, vars, rVars, qVars, tVars, gVars>>

\* The fairness of the components' own specifications, each for its part.
Fair ==
    /\ Begins /\ [][Goes]_all
    /\ WF_vars(part = "list" /\ \E k \in Keys : ServeNext(k) \/ ServeDone(k))
    /\ WF_vars(part = "list" /\ LoopCheck(TimedEntries))
    /\ WF_sVars(part = "pubsub" /\ S!RecycleClients)

\* Every component's variables keep their types.
AllTypeOK ==
    TypeOK /\ S!TypeOK /\ (IF part = "transfer" THEN T!TransferTypeOK ELSE Q!TypeOK)

\* A server that starts again has the keys that were saved, or rewritten.
LoadsWhatWasSaved == R!LoadsWhatWasSaved /\ R!LoadsWhatWasRewritten

\* Requests are handled as they were sent, a full copy and what follows as the master
\* sent them, and patterns match what they mean.
TextsAreUnderstood ==
    /\ IF part = "transfer" THEN T!CopyIsWhole ELSE Q!RequestsAreWhole
    /\ G!MatchesWhatItMeans

\* Who subscribed to a channel is listed for it, and is told; who has gone is not
\* listed for ever.
SubscribersAreServed == []S!SubscribersAreTold /\ S!GoneAreForgotten
=============================================================================
