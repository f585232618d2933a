----------------------------- MODULE RingBuffer -----------------------------
(***************************************************************************)
(* CircularBuffer: a ring of a power of two of bytes between one writing    *)
(* and one reading thread, without a lock.  The read position belongs to    *)
(* the reader and the write position to the writer; each is an atomic the   *)
(* other one reads, more than once in an operation.                        *)
(*                                                                         *)
(* The writer copies (PushData) or has the bytes received in place          *)
(* (GetSpace, then AdjustWritePtr); the reader copies (PeekData) or uses    *)
(* the bytes in place (GetDatum, then AdjustReadPtr).                      *)
(***************************************************************************)
EXTENDS Integers, Sequences

CONSTANTS Sizes,        \* what InitCapacity is asked for
          Bytes         \* values of a byte

VARIABLES
    maxSize,    \* maxSize_
    readPos,    \* readPos_
    writePos,   \* writePos_
    cells,      \* buffer_
    writer,     \* where the writing thread is, with what it carries
    reader,     \* where the reading thread is, with what it carries
    gave,       \* history: what the writer put in in the last step
    got,        \* history: what the reader took in the last step
    asserted    \* an assert of the buffer did not hold

threadVars == <<writer, reader>>
ringVars == <<maxSize, readPos, writePos, cells, writer, reader, gave, got, asserted>>

Pieces == UNION {[1..n -> Bytes] : n \in 1..3}

TypeOK ==
    /\ \E k \in 0..10 : maxSize = 2^k
    /\ readPos \in 0..(maxSize - 1) /\ writePos \in 0..(maxSize - 1)
    /\ DOMAIN cells = 0..(maxSize - 1)
    /\ writer.at \in {"idle", "fits", "placed", "roomy", "spans"}
    /\ reader.at \in {"idle", "there", "copied", "some", "spans"}
    /\ asserted \in BOOLEAN

-----------------------------------------------------------------------------

RoundUp2Power(size) == CHOOSE n \in {2^k : k \in 0..10} :
                          n >= size /\ \A k \in 0..10 : 2^k >= size => n <= 2^k

ReadableSize == (writePos - readPos) % maxSize
WritableSize == maxSize - ReadableSize - 1

\* Mutant: the mask is the size.
MaskedBySize(pos) == IF pos > maxSize THEN pos % maxSize ELSE pos

\* A position that has moved on.
Masked(pos) == pos % maxSize

\* The n positions from one on, around the end.
From(pos, n) == [i \in 1..n |-> (pos + i - 1) % maxSize]

Cells(pos, n) == [i \in 1..n |-> cells[From(pos, n)[i]]]

\* Mutants: nothing is copied around the end; the ring is filled to the brim.
FilledOnce(pos, s) ==
    [p \in DOMAIN cells |-> IF p \in pos..(pos + Len(s) - 1) THEN s[p - pos + 1]
                            ELSE cells[p]]

SpaceToTheBrim == IF readPos > writePos THEN readPos - writePos
                  ELSE maxSize - writePos + readPos

Filled(pos, s) ==
    [p \in DOMAIN cells |->
        IF \E i \in 1..Len(s) : From(pos, Len(s))[i] = p
        THEN s[CHOOSE i \in 1..Len(s) : From(pos, Len(s))[i] = p]
        ELSE cells[p]]

Least(a, b) == IF a < b THEN a ELSE b

Asserts(condition) == asserted' = (asserted \/ ~condition)

Idle == [at |-> "idle"]

Quiet == gave' = <<>> /\ got' = <<>>

Init ==
    /\ maxSize \in {RoundUp2Power(n) : n \in Sizes}
    /\ readPos = 0 /\ writePos = 0
    /\ cells \in [0..(maxSize - 1) -> {CHOOSE b \in Bytes : TRUE}]
    /\ writer = Idle /\ reader = Idle
    /\ gave = <<>> /\ got = <<>> /\ asserted = FALSE

-----------------------------------------------------------------------------
(***************************************************************************)
(* The writing thread.                                                     *)
(***************************************************************************)

\* PushDataAt: does it fit?  A push that does not is told so at once.
PushChecks(s) ==
    /\ Quiet
    /\ writer = Idle /\ s # <<>> /\ Len(s) <= WritableSize
    /\ writer' = [at |-> "fits", data |-> s]
    /\ UNCHANGED <<maxSize, readPos, writePos, cells, reader, asserted>>

\* The rest of it, with readPos_ read again.
PushPlaces ==
    /\ Quiet
    /\ writer.at = "fits"
    /\ LET n == Len(writer.data) IN
          /\ Asserts(IF readPos > writePos THEN readPos - writePos > n
                    ELSE (maxSize - writePos) + readPos >= 1 + n)
          /\ writer' = [at |-> "placed", data |-> writer.data]
    /\ cells' = Filled(writePos, writer.data)
    /\ UNCHANGED <<maxSize, readPos, writePos, reader>>

\* AdjustWritePtr.
PushEnds ==
    /\ writer.at = "placed"
    /\ writePos' = Masked(writePos + Len(writer.data))
    /\ gave' = writer.data /\ got' = <<>>
    /\ writer' = Idle
    /\ UNCHANGED <<maxSize, readPos, cells, reader, asserted>>

\* GetSpace: more than one byte must be writable; then, with readPos_ read again,
\* one or two spans.
SpaceChecks ==
    /\ Quiet
    /\ writer = Idle /\ WritableSize > 1
    /\ writer' = [at |-> "roomy"]
    /\ UNCHANGED <<maxSize, readPos, writePos, cells, reader, asserted>>

Space == IF readPos > writePos THEN readPos - writePos - 1
         ELSE maxSize - writePos + readPos - 1

GetSpace ==
    /\ Quiet
    /\ writer.at = "roomy"
    /\ Asserts(readPos > writePos => Space > 0)
    /\ writer' = [at |-> "spans", count |-> Space]
    /\ UNCHANGED <<maxSize, readPos, writePos, cells, reader>>

\* Bytes are received into the spans, and the write position is adjusted by them.
Fill(s) ==
    /\ writer.at = "spans" /\ Len(s) <= writer.count
    /\ cells' = Filled(writePos, s)
    /\ writePos' = Masked(writePos + Len(s))
    /\ gave' = s /\ got' = <<>>
    /\ writer' = Idle
    /\ UNCHANGED <<maxSize, readPos, reader, asserted>>

-----------------------------------------------------------------------------
(***************************************************************************)
(* The reading thread.                                                     *)
(***************************************************************************)

\* PeekDataAt: is it there?
PeekChecks(n) ==
    /\ Quiet
    /\ reader = Idle /\ n > 0 /\ n <= ReadableSize
    /\ reader' = [at |-> "there", count |-> n]
    /\ UNCHANGED <<maxSize, readPos, writePos, cells, writer, asserted>>

PeekCopies ==
    /\ Quiet
    /\ reader.at = "there"
    /\ LET n == reader.count IN
          /\ Asserts(IF readPos < writePos THEN writePos - readPos >= n
                    ELSE readPos > writePos /\ (maxSize - readPos) + writePos >= n)
          /\ reader' = [at |-> "copied", data |-> Cells(readPos, n)]
    /\ UNCHANGED <<maxSize, readPos, writePos, cells, writer>>

\* AdjustReadPtr.
PeekEnds ==
    /\ reader.at = "copied"
    /\ readPos' = Masked(readPos + Len(reader.data))
    /\ got' = reader.data /\ gave' = <<>>
    /\ reader' = Idle
    /\ UNCHANGED <<maxSize, writePos, cells, writer, asserted>>

\* GetDatum of at most n bytes, and their use in place.
DatumChecks(n) ==
    /\ Quiet
    /\ reader = Idle /\ n > 0 /\ ReadableSize > 0
    /\ reader' = [at |-> "some", count |-> n]
    /\ UNCHANGED <<maxSize, readPos, writePos, cells, writer, asserted>>

Datum(n) == IF readPos < writePos THEN Least(n, writePos - readPos)
            ELSE Least(n, maxSize - readPos + writePos)

GetDatum ==
    /\ Quiet
    /\ reader.at = "some"
    /\ Asserts(readPos # writePos)
    /\ reader' = [at |-> "spans", count |-> Datum(reader.count)]
    /\ UNCHANGED <<maxSize, readPos, writePos, cells, writer>>

Use(n) ==
    /\ reader.at = "spans" /\ n <= reader.count
    /\ got' = Cells(readPos, n) /\ gave' = <<>>
    /\ readPos' = Masked(readPos + n)
    /\ reader' = Idle
    /\ UNCHANGED <<maxSize, writePos, cells, writer, asserted>>

-----------------------------------------------------------------------------

Writes == \/ \E s \in Pieces : PushChecks(s) \/ Fill(s)
          \/ PushPlaces \/ PushEnds \/ SpaceChecks \/ GetSpace

Reads == \/ \E n \in 1..maxSize : PeekChecks(n) \/ DatumChecks(n) \/ Use(n)
         \/ PeekCopies \/ PeekEnds \/ GetDatum

Next == Writes \/ Reads

Spec == Init /\ [][Next]_ringVars

-----------------------------------------------------------------------------
(***************************************************************************)
(* Properties.                                                             *)
(***************************************************************************)

\* The ring is a queue of bytes: what the reader takes is what the writer put in,
\* in that order, whatever part of an operation the other thread is in.
Queue == INSTANCE Fifo WITH held <- Cells(readPos, ReadableSize), gave <- gave, got <- got
IsAFifo == Queue!Spec

\* No assert of the buffer fails: the second look at the other thread's position
\* finds at least as much as the first.
AssertsHold == ~asserted

=============================================================================
