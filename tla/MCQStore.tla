------------------------------ MODULE MCQStore ------------------------------
(***************************************************************************)
(* The keys of one database, in memory alone (QStore) or with LevelDB      *)
(* behind it (QLeveldb): one of the two, chosen at the start.              *)
(***************************************************************************)
EXTENDS QStore, TLC

CONSTANTS key1, key2, field1,
          MaxSync, MaxValue, MaxTime, MaxRestarts     \* of QLeveldb

ASSUME LeveldbAssumption ==
    MaxValue \in Nat /\ MaxTime \in Nat \ {0} /\ MaxRestarts \in Nat

TwoKeys == {key1, key2}
Symmetry == Permutations(TwoKeys)
OneField == {field1}
TwoMembers == {0, 1}

\* A text; integers come from INCR, fractions from INCRBYFLOAT.
OneText == {Text}

VARIABLE part      \* where the keys are, chosen at the start

\* The same keys in LevelDB.
VARIABLES lCell, lDisk, lNow, lRestarts, lUndefined, lLatest, lOdd, lEvicted
L == INSTANCE QLeveldb WITH cell <- lCell, disk <- lDisk, now <- lNow,
                            restarts <- lRestarts, undefined <- lUndefined,
                            latest <- lLatest, odd <- lOdd,
                            evicted <- lEvicted
lVars == <<lCell, lDisk, lNow, lRestarts, lUndefined, lLatest, lOdd, lEvicted>>

all == <<part, vars, lVars>>

Begins ==
    /\ part \in {"memory", "leveldb"} /\ Init /\ L!Init
    /\ part = "memory" \/ dirtyKeys = {}

\* Bound: of two keys that are there one holds a set, or both hold strings; no
\* command reads two values of other types.
ReadTogether ==
    \/ \E k \in Keys : val[k].type \in {"none", "set"}
    \/ \A k \in Keys : val[k].type = "string"

\* Bound: there is a key that ReadsTheLatest speaks of.
OneIsHeld == lOdd \cup lEvicted # Keys

Goes ==
    \/ /\ part = "memory" /\ Next /\ ReadTogether'
       /\ UNCHANGED <<part, lVars>>
    \/ /\ part = "leveldb" /\ L!Next /\ OneIsHeld'
       /\ UNCHANGED <<part, vars>>

Keyspace == Begins /\ [][Goes]_all

AllTypeOK == TypeOK /\ L!TypeOK

\* What is propagated gives the data again; what is dumped is read again.
DataIsKept == ReplayGivesTheData /\ L!ReadsTheLatest
=============================================================================
