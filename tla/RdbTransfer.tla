---------------------------- MODULE RdbTransfer ----------------------------
(***************************************************************************)
(* A full copy, piece by piece: the master's answer to REPLCONF, the size   *)
(* of its RDB file, the file and the commands behind it come over a         *)
(* connection.  ProcessMaster takes what it wants of the pieces in the      *)
(* state of the link, and leaves the rest to the parser (QClient.cc).       *)
(* QReplicaLink has the same messages as wholes, and more connections.      *)
(*                                                                         *)
(* A unit stands for some bytes of a file that always come together, so     *)
(* that the size has as many digits as sizes have; the size itself and the  *)
(* commands come byte by byte.                                             *)
(*                                                                         *)
(* A connection may fail, and the link begins anew, with a new connection   *)
(* and the same slave.rdb.  AUTH is answered as REPLCONF is, and left out.  *)
(***************************************************************************)
EXTENDS Parser

CONSTANTS
    Files,          \* RDB files: sequences of units, of which the last is End
    Unit,           \* bound: a file comes in pieces of that many bytes
    End,            \* the unit at which the loader ends
    Commands,       \* what the master propagates
    MaxCommands,    \* bound: of those, for a connection
    MaxConnects     \* bound: connections

VARIABLES
    state,      \* masterInfo_.state
    rdbSize,    \* masterInfo_.rdbSize, in units
    rdbRecved,  \* masterInfo_.rdbRecved, where rdb_ is written next
    rdb,        \* the units of slave.rdb
    loaded,     \* what QDBLoader read of it last
    asked,      \* what the master was asked for and has not answered
    file,       \* the file the master sent over this connection, <<>> for none
    connects,   \* connections so far
    crashed,    \* assert (s > 0) has failed
    excused     \* history: the size was read from a part of it, or with the +OK

masterInfo == <<state, rdbSize, rdbRecved, rdb, loaded>>
master == <<asked, file>>
bytes == <<stream, text, arrived>>
parser == <<multi, paramLen, params, content, got, sent, closed, broken>>
transferVars == <<parserVars, masterInfo, master, connects, crashed, excused>>

Unknown == -1
OK == <<"+", "O", "K">> \o CRLF
Header(f) == <<"$">> \o Decimal(Unit * Len(f)) \o CRLF

TransferTypeOK ==
    /\ state \in {"none", "connected", "wait_replconf", "wait_rdb", "online"}
    /\ rdbSize \in {Unknown} \cup Nat /\ rdbRecved \in Nat
    /\ rdbSize # Unknown => rdbRecved <= rdbSize /\ rdbRecved <= Len(rdb)
    /\ asked \in Seq({"replconf", "sync"}) /\ file \in Files \cup {<<>>}
    /\ arrived \in 0 .. Len(text) /\ taken \in 0 .. (arrived + 2)
    /\ connects \in 0 .. MaxConnects /\ Len(stream) <= MaxCommands
    /\ crashed \in BOOLEAN /\ excused \in {"no", "late ok", "split", "beyond"}

NothingReceived ==
    /\ stream = <<>> /\ text = <<>> /\ arrived = 0 /\ taken = 0
    /\ multi = -1 /\ paramLen = -1 /\ params = <<>> /\ content = <<>>
    /\ got = <<>> /\ sent = <<>> /\ closed = FALSE /\ broken = "no"

LinkInit ==
    /\ asked = <<>> /\ file = <<>> /\ excused = "no"
    /\ state = "none" /\ rdbSize = Unknown /\ rdbRecved = 0 /\ rdb = <<>> /\ loaded = <<>>
    /\ connects = 0 /\ crashed = FALSE

TransferInit == NothingReceived /\ LinkInit

-----------------------------------------------------------------------------
(***************************************************************************)
(* Cron, OnConnect and the failure of the connection                        *)
(***************************************************************************)

Connect ==
    /\ ~crashed /\ state = "none" /\ connects < MaxConnects
    /\ state' = "connected" /\ connects' = connects + 1
    /\ UNCHANGED <<parserVars, rdbSize, rdbRecved, rdb, loaded, master, crashed, excused>>

SendReplconf ==
    /\ ~crashed /\ state = "connected"
    /\ state' = "wait_replconf" /\ asked' = Append(asked, "replconf")
    /\ UNCHANGED <<parserVars, rdbSize, rdbRecved, rdb, loaded, file, connects, crashed, excused>>

\* Mutant: of a transfer that broke off, the count goes on.
SendSyncGoesOn ==
    /\ ~crashed /\ state = "wait_replconf"
    /\ state' = "wait_rdb" /\ asked' = Append(asked, "sync")
    /\ rdbSize' = Unknown
    /\ UNCHANGED <<parserVars, rdbRecved, rdb, loaded, file, connects, crashed, excused>>

\* By the next Cron, whether or not +OK was read.  rdb_.Open closes the file of the last
\* transfer, which cuts it at what was written, and does not empty it.
SendSync ==
    /\ ~crashed /\ state = "wait_replconf"
    /\ state' = "wait_rdb" /\ asked' = Append(asked, "sync")
    /\ rdb' = SubSeq(rdb, 1, rdbRecved)
    /\ rdbRecved' = 0 /\ rdbSize' = Unknown
    /\ UNCHANGED <<parserVars, loaded, file, connects, crashed, excused>>

\* The callback of the connection; what was not read is lost with it, and the next one
\* begins with a parser of its own.
Fail ==
    /\ ~crashed /\ state # "none"
    /\ state' = "none"
    /\ stream' = <<>> /\ text' = <<>> /\ arrived' = 0 /\ taken' = 0
    /\ multi' = -1 /\ paramLen' = -1 /\ params' = <<>> /\ content' = <<>>
    /\ got' = <<>> /\ sent' = <<>> /\ closed' = FALSE /\ broken' = "no"
    /\ asked' = <<>> /\ file' = <<>> /\ excused' = "no"
    /\ UNCHANGED <<rdbSize, rdbRecved, rdb, loaded, connects, crashed>>

-----------------------------------------------------------------------------
(***************************************************************************)
(* The master: it answers in order (OnRdbSaveDone when its child has ended) *)
(***************************************************************************)

AnswerReplconf ==
    /\ asked # <<>> /\ Head(asked) = "replconf"
    /\ asked' = Tail(asked) /\ text' = text \o OK
    /\ UNCHANGED <<stream, arrived, taken, parser, masterInfo, file, connects, crashed, excused>>

OnRdbSaveDone ==
    /\ asked # <<>> /\ Head(asked) = "sync"
    /\ asked' = Tail(asked)
    /\ \E f \in Files : file' = f /\ text' = text \o Header(f) \o f
    /\ UNCHANGED <<stream, arrived, taken, parser, masterInfo, connects, crashed, excused>>

Propagate ==
    /\ file # <<>> /\ Len(stream) < MaxCommands
    /\ \E c \in Commands : stream' = Append(stream, c) /\ text' = text \o Encoded(c)
    /\ UNCHANGED <<arrived, taken, parser, masterInfo, master, connects, crashed, excused>>

ArriveFromMaster ==
    /\ state # "none" /\ Arrive
    /\ UNCHANGED <<masterInfo, master, connects, crashed, excused>>

-----------------------------------------------------------------------------
(***************************************************************************)
(* ProcessMaster, by one call for each step                                 *)
(***************************************************************************)

Takes(n) == taken' = taken + n /\ UNCHANGED <<bytes, parser, master, connects>>

\* The answer to REPLCONF, when it is whole.
RecvOK ==
    /\ state = "wait_replconf" /\ arrived - taken >= Len(OK)
    /\ SubSeq(text, taken + 1, taken + Len(OK)) = OK
    /\ Takes(Len(OK))
    /\ UNCHANGED <<masterInfo, crashed, excused>>

\* The size: a byte is taken for its sign, and lost when no number follows.
RecvSize ==
    /\ state = "wait_rdb" /\ rdbSize = Unknown /\ excused # "beyond"
    /\ LET int == GetInt(taken + 1, arrived)
           next == IF int.ret = "ok" THEN int.ptr ELSE taken + 1
       IN /\ Takes(next - taken)
          /\ rdbSize' = IF int.ret = "ok" /\ int.val > 0 THEN int.val \div Unit ELSE rdbSize
          /\ crashed' = (int.ret = "ok" /\ int.val = 0)
          /\ excused' = IF next > arrived THEN "beyond"
                        ELSE IF text[taken + 1] = "$" /\ int.ret = "wait" THEN "split"
                        ELSE IF text[taken + 1] = "K" /\ int.ret = "ok" THEN "late ok"
                        ELSE excused
    /\ UNCHANGED <<state, rdbRecved, rdb, loaded>>

\* What is read of a file ends where it says so.
LoadedOf(f) ==
    LET ends == {i \in DOMAIN f : f[i] = End}
    IN  IF ends = {} THEN f ELSE SubSeq(f, 1, CHOOSE i \in ends : \A j \in ends : i <= j)

WriteRdb(data) ==
    LET upto == rdbRecved + Len(data) IN
    rdb' = SubSeq(rdb, 1, rdbRecved) \o data \o SubSeq(rdb, upto + 1, Len(rdb))

\* Mutant: all that is there is taken for the file's.
SaveTmpRdbAll(there) ==
    /\ WriteRdb(SubSeq(text, taken + 1, taken + there))
    /\ rdbRecved' = rdbRecved + there
    /\ Takes(there)
    /\ IF rdbRecved' >= rdbSize
       THEN state' = "online" /\ loaded' = LoadedOf(rdb')
       ELSE UNCHANGED <<state, loaded>>

\* No more than is missing of the file; when nothing is, the file is loaded.
SaveTmpRdb(there) ==
    LET len == IF rdbRecved + there > rdbSize THEN rdbSize - rdbRecved ELSE there IN
    /\ WriteRdb(SubSeq(text, taken + 1, taken + len))
    /\ rdbRecved' = rdbRecved + len
    /\ Takes(len)
    /\ IF rdbRecved' = rdbSize
       THEN state' = "online" /\ loaded' = LoadedOf(rdb')
       ELSE UNCHANGED <<state, loaded>>

RecvRdb ==
    /\ state = "wait_rdb" /\ rdbSize # Unknown
    /\ SaveTmpRdb(arrived - taken)
    /\ UNCHANGED <<rdbSize, crashed, excused>>

ProcessMaster ==
    /\ ~crashed /\ taken < arrived
    /\ RecvOK \/ RecvSize \/ RecvRdb

\* Online, it is the parser's.
HandleCommand ==
    /\ ~crashed /\ state = "online" /\ HandlePacket
    /\ UNCHANGED <<masterInfo, master, connects, crashed, excused>>

TransferNext ==
    \/ Connect \/ SendReplconf \/ SendSync \/ Fail
    \/ AnswerReplconf \/ OnRdbSaveDone \/ Propagate \/ ArriveFromMaster
    \/ ProcessMaster \/ HandleCommand

TransferSpec == TransferInit /\ [][TransferNext]_transferVars

-----------------------------------------------------------------------------
\* Whatever pieces the file and the commands behind it come in, and whatever an earlier
\* transfer left in slave.rdb, the replica gets online with the master's file and handles
\* every command behind it.  Excused is a size that comes in two pieces, whose digits are
\* lost, or are too few; a +OK so late that the size is read behind its K (QClient.cc:109),
\* and a command whose number comes in two pieces.
CopyIsWhole ==
    excused = "no" =>
        /\ ~crashed
        /\ state = "wait_rdb" /\ rdbSize # Unknown => rdbSize = Len(file)
        /\ state = "online" => loaded = file
        /\ state = "online" /\ broken = "no" =>
             /\ ~closed
             /\ got = [i \in 1 .. Len(got) |-> stream[i].words]
             /\ arrived = Len(text) /\ Parsed.ptr = taken => Len(got) = Len(stream)
=============================================================================
