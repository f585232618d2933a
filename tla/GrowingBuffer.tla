---------------------------- MODULE GrowingBuffer ----------------------------
(***************************************************************************)
(* The two buffers of one thread that grow as they are filled: class        *)
(* UnboundedBuffer of the server ("vector": replies, replicas, commands     *)
(* for the log) and class Buffer of ananas ("array": what a connection      *)
(* received and has to send).  They differ in how they grow, in when they   *)
(* move their bytes to the front, and in whether the positions go back to   *)
(* zero when the last byte is read.                                        *)
(*                                                                         *)
(* Left out: the limit of half the address space, and pushes at an offset,  *)
(* which nobody makes.                                                     *)
(***************************************************************************)
EXTENDS Integers, Sequences

CONSTANTS Bytes,        \* values of a byte
          DefaultSize,  \* the least size of the memory; 64 in the code
          MaxPiece,     \* bound: bytes of a push
          MaxHeld       \* bound: bytes in the buffer

VARIABLES
    class,      \* which of the two: "vector" or "array"
    memory,     \* buffer_, as a sequence of cells
    readPos,    \* readPos_
    writePos,   \* writePos_
    gave,       \* history: what the last step put in
    got,        \* history: what the last step took out
    asserted    \* an assert of the buffer did not hold

growingVars == <<class, memory, readPos, writePos, gave, got, asserted>>

\* A cell nobody has written to yet.
Fresh == "fresh"

TypeOK ==
    /\ class \in {"vector", "array"}
    /\ \A p \in 1..Len(memory) : memory[p] \in Bytes \cup {Fresh}
    /\ 0 <= readPos /\ readPos <= writePos /\ writePos <= Len(memory)
    /\ asserted \in BOOLEAN

-----------------------------------------------------------------------------

Size == Len(memory)     \* buffer_.size(), capacity_
ReadableSize == writePos - readPos
WritableSize == Size - writePos

Held == SubSeq(memory, readPos + 1, writePos)

Quiet == gave' = <<>> /\ got' = <<>>

Init ==
    /\ class \in {"vector", "array"}
    /\ memory = <<>> /\ readPos = 0 /\ writePos = 0
    /\ gave = <<>> /\ got = <<>> /\ asserted = FALSE

RoundUp2Power(size) == CHOOSE n \in {2^k : k \in 0..12} :
                          n >= size /\ \A k \in 0..12 : 2^k >= size => n <= 2^k

\* How large the memory gets until size bytes fit into it, beside those held.
Grown(now, size) ==
    LET grown[n \in Nat] ==
            IF ReadableSize + size <= n THEN n
            ELSE grown[IF n < DefaultSize THEN DefaultSize
                       ELSE IF class = "vector" THEN n + n \div 2
                       ELSE IF n < RoundUp2Power(n) THEN RoundUp2Power(n)
                       ELSE 2 * n]
    IN  grown[now]

Wider(s, size) == s \o [i \in 1..(size - Len(s)) |-> Fresh]

\* The bytes held, moved to the front of a memory of that size.  The vector is
\* resized and its bytes are then moved in place; the array is copied when it
\* grows and moved in place when it does not.
ToTheFront(size) ==
    IF class = "array" /\ size > Size THEN Wider(Held, size)
    ELSE LET wide == Wider(memory, size)
         IN  [i \in 1..size |-> IF i <= ReadableSize THEN wide[readPos + i] ELSE wide[i]]

\* _AssureSpace, AssureSpace: the memory, the read position and the write position
\* once size more bytes fit.
AssureSpace(size) ==
    IF size <= WritableSize
    THEN [memory |-> memory, readPos |-> readPos, writePos |-> writePos, ok |-> TRUE]
    ELSE LET now == Grown(Size, size) IN
         IF class = "vector" /\ readPos = 0
         THEN [memory |-> Wider(memory, now), readPos |-> 0, writePos |-> writePos,
               ok |-> TRUE]
         ELSE [memory |-> ToTheFront(now), readPos |-> 0, writePos |-> ReadableSize,
               ok |-> class = "array" /\ now = Size => readPos > 0]

\* PushData.
Push(s) ==
    /\ s # <<>> /\ ReadableSize + Len(s) <= MaxHeld
    /\ LET room == AssureSpace(Len(s)) IN
          /\ memory' = [i \in 1..Len(room.memory) |->
                           IF i - room.writePos \in 1..Len(s) THEN s[i - room.writePos]
                           ELSE room.memory[i]]
          /\ readPos' = room.readPos
          /\ writePos' = room.writePos + Len(s)
          /\ asserted' = (\/ asserted \/ ~room.ok
                          \/ room.writePos + Len(s) > Len(room.memory))
    /\ gave' = s /\ got' = <<>>
    /\ UNCHANGED class

\* Mutant: the array begins again whenever its last cell was read.
ConsumedToTheEnd(n) ==
    IF class = "array" /\ writePos = Size THEN readPos' = 0 /\ writePos' = 0
    ELSE readPos' = readPos + n /\ UNCHANGED writePos

\* AdjustReadPtr and Consume; the array begins again when it is empty.
Consumed(n) ==
    IF class = "array" /\ n = ReadableSize THEN readPos' = 0 /\ writePos' = 0
    ELSE readPos' = readPos + n /\ UNCHANGED writePos

\* PeekData, PopData: as many of n bytes as there are.
Pop(n) ==
    LET size == IF n > ReadableSize THEN ReadableSize ELSE n IN
    /\ size > 0
    /\ got' = SubSeq(Held, 1, size) /\ gave' = <<>>
    /\ Consumed(size)
    /\ UNCHANGED <<class, memory, asserted>>

\* Shrink; only the vector can be asked to whatever it holds.
Shrink(tight) ==
    /\ tight => class = "vector"
    /\ IF class = "array" /\ ReadableSize = 0
       THEN memory' = <<>> /\ readPos' = 0 /\ writePos' = 0
       ELSE /\ memory # <<>>
            /\ tight \/ ReadableSize <= Size \div 2
            /\ memory' = IF class = "vector" THEN Held
                         ELSE Wider(Held, RoundUp2Power(ReadableSize))
            /\ readPos' = 0 /\ writePos' = ReadableSize
    /\ Quiet
    /\ UNCHANGED <<class, asserted>>

Clear ==
    /\ readPos' = 0 /\ writePos' = 0
    /\ Quiet
    /\ UNCHANGED <<class, memory, asserted>>

\* Swap with an empty buffer, or being moved from: the bytes are the other's.
SwapAway ==
    /\ memory' = <<>> /\ readPos' = 0 /\ writePos' = 0
    /\ got' = Held /\ gave' = <<>>
    /\ UNCHANGED <<class, asserted>>

Next == \/ \E n \in 1..MaxPiece : \E s \in [1..n -> Bytes] : Push(s)
        \/ \E n \in 1..(MaxHeld + 1) : Pop(n)
        \/ \E tight \in BOOLEAN : Shrink(tight)
        \/ Clear \/ SwapAway

Spec == Init /\ [][Next]_growingVars

-----------------------------------------------------------------------------
(***************************************************************************)
(* Properties.                                                             *)
(***************************************************************************)

\* However the memory grew, shrank or was moved in between, the buffer is a queue of
\* bytes.
Queue == INSTANCE Fifo WITH held <- Held, gave <- gave, got <- got
IsAFifo == Queue!Spec

\* No assert of the buffer fails: there is room when the bytes are copied, and no
\* memory is moved for nothing.
AssertsHold == ~asserted

=============================================================================
