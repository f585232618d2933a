---------------------------- MODULE AsyncBuffer ----------------------------
(***************************************************************************)
(* AsyncBuffer: bytes from one writing thread to one reading thread.  The   *)
(* writer uses a ring without a lock while the bytes fit, and a backup      *)
(* buffer under a mutex from then on until the reader has fetched it.       *)
(*                                                                         *)
(* The writer decides and pushes in one step when it uses the ring: only    *)
(* the reader changes what it decided upon, and only in its favour.  On the *)
(* other road it holds the mutex between the decision and the push.  The    *)
(* reader looks at the ring, then at backBytes_, in two steps.              *)
(***************************************************************************)
EXTENDS Integers, Sequences

CONSTANTS Capacity,     \* bytes the ring holds
          Bytes         \* values of a byte

ASSUME CapacityAssumption == Capacity \in Nat \ {0}

VARIABLES
    ring,       \* buffer_
    back,       \* backBuf_
    backBytes,  \* backBytes_
    tmp,        \* tmpBuf_
    locked,     \* what the writer pushes to backBuf_ with the mutex held
    reader,     \* idle, empty (it saw the ring empty) or full (it has data)
    seen,       \* how many bytes it has
    written,    \* history: the bytes written
    taken,      \* history: the bytes skipped
    overtaken   \* history: backBuf_ was fetched with bytes in the ring

bufferVars == <<ring, back, backBytes, tmp, locked, reader, seen, written, taken,
                overtaken>>

BufferTypeOK ==
    /\ ring \in Seq(Bytes) /\ Len(ring) <= Capacity
    /\ back \in Seq(Bytes)
    /\ backBytes \in Nat
    /\ tmp \in Seq(Bytes)
    /\ locked \in Seq(Bytes)
    /\ reader \in {"idle", "empty", "full"}
    /\ seen \in Nat
    /\ written \in Seq(Bytes) /\ taken \in Seq(Bytes)
    /\ overtaken \in BOOLEAN

NewBuffer ==
    /\ ring = <<>> /\ back = <<>> /\ backBytes = 0 /\ tmp = <<>>
    /\ locked = <<>> /\ reader = "idle" /\ seen = 0
    /\ written = <<>> /\ taken = <<>> /\ overtaken = FALSE

-----------------------------------------------------------------------------
(***************************************************************************)
(* The writer: Write(s).                                                   *)
(***************************************************************************)

\* Mutant: room alone decides.
MustGoBackIfFull(s) == Len(ring) + Len(s) > Capacity

MustGoBack(s) == backBytes > 0 \/ Len(ring) + Len(s) > Capacity

WriteRing(s) ==
    /\ locked = <<>> /\ ~MustGoBack(s)
    /\ ring' = ring \o s
    /\ written' = written \o s
    /\ UNCHANGED <<back, backBytes, tmp, locked, reader, seen, taken, overtaken>>

LockBack(s) ==
    /\ locked = <<>> /\ MustGoBack(s)
    /\ locked' = s
    /\ UNCHANGED <<ring, back, backBytes, tmp, reader, seen, written, taken, overtaken>>

PushBack ==
    /\ locked # <<>>
    /\ back' = back \o locked
    /\ backBytes' = backBytes + Len(locked)
    /\ written' = written \o locked
    /\ locked' = <<>>
    /\ UNCHANGED <<ring, tmp, reader, seen, taken, overtaken>>

-----------------------------------------------------------------------------
(***************************************************************************)
(* The reader: ProcessBuffer, then Skip of what it could use.              *)
(***************************************************************************)

Has(n) == reader' = "full" /\ seen' = n

Look ==
    /\ reader = "idle"
    /\ \/ tmp # <<>> /\ Has(Len(tmp))
       \/ tmp = <<>> /\ ring # <<>> /\ Has(Len(ring))
       \/ tmp = <<>> /\ ring = <<>> /\ reader' = "empty" /\ UNCHANGED seen
    /\ UNCHANGED <<ring, back, backBytes, tmp, locked, written, taken, overtaken>>

\* backBuf_ is swapped with the empty tmpBuf_.
FetchBack ==
    /\ reader = "empty" /\ backBytes > 0 /\ locked = <<>>
    /\ backBytes' = 0
    /\ tmp' = back /\ back' = tmp
    /\ Has(Len(back))
    /\ overtaken' = (overtaken \/ ring # <<>>)
    /\ UNCHANGED <<ring, locked, written, taken>>

\* Nothing there, or the mutex is held.
FetchNothing ==
    /\ reader = "empty" /\ (backBytes = 0 \/ locked # <<>>)
    /\ reader' = "idle"
    /\ UNCHANGED <<ring, back, backBytes, tmp, locked, seen, written, taken, overtaken>>

\* Skip(n), n not more than ProcessBuffer gave.
Source == IF tmp # <<>> THEN tmp ELSE ring

Skip(n) ==
    /\ reader = "full" /\ n <= seen
    /\ reader' = "idle" /\ seen' = 0
    /\ taken' = taken \o SubSeq(Source, 1, n)
    /\ IF tmp # <<>>
       THEN tmp' = SubSeq(tmp, n + 1, Len(tmp)) /\ UNCHANGED ring
       ELSE ring' = SubSeq(ring, n + 1, Len(ring)) /\ UNCHANGED tmp
    /\ UNCHANGED <<back, backBytes, locked, written, overtaken>>

BufferNext ==
    \/ \E s \in Seq(Bytes) : s # <<>> /\ (WriteRing(s) \/ LockBack(s))
    \/ PushBack \/ Look \/ FetchBack \/ FetchNothing
    \/ \E n \in Nat : Skip(n)

BufferSpec == NewBuffer /\ [][BufferNext]_bufferVars

-----------------------------------------------------------------------------
(***************************************************************************)
(* Properties.                                                             *)
(***************************************************************************)

\* The bytes come out in the order they went in, none lost and none twice,
\* whichever road they take: unless the reader found the ring empty, and before it
\* looked at backBytes_ the writer had used both roads.  Then the bytes of the
\* backup buffer come out before those of the ring.
InOrder == ~overtaken => written = taken \o tmp \o ring \o back

=============================================================================
