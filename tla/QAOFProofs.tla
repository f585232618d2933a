----------------------------- MODULE QAOFProofs -----------------------------
(***************************************************************************)
(* Proofs about the append-only file and the buffer before it, for any     *)
(* ring, any bytes, databases and lengths of bodies, and any bounds.       *)
(***************************************************************************)
EXTENDS QAOF, SequenceLemmas

-----------------------------------------------------------------------------
(***************************************************************************)
(* The buffer between the two threads.                                     *)
(***************************************************************************)

\* backBytes_ counts what is in backBuf_, as Write asserts; when the reader is to
\* look at backBytes_ it has emptied tmpBuf_; it never has more than there is.
CountsAreRight ==
    /\ backBytes = Len(back)
    /\ reader = "empty" => tmp = <<>>
    /\ reader = "full" => seen <= Len(Source)

BufferInv == BufferTypeOK /\ CountsAreRight /\ InOrder

-----------------------------------------------------------------------------
(***************************************************************************)
(* Sequences.                                                              *)
(***************************************************************************)

\* A sequence is what Skip takes and what it leaves.
LEMMA Halves ==
    ASSUME NEW S, NEW s \in Seq(S), NEW n \in 0..Len(s)
    PROVE  /\ SubSeq(s, 1, n) \in Seq(S)
           /\ SubSeq(s, n + 1, Len(s)) \in Seq(S)
           /\ Len(SubSeq(s, n + 1, Len(s))) = Len(s) - n
           /\ SubSeq(s, 1, n) \o SubSeq(s, n + 1, Len(s)) = s
<1>1. Len(s) \in Nat
  OBVIOUS
<1>2. \A i \in 1..Len(s) : s[i] \in S
  BY ElementOfSeq
<1>3. SubSeq(s, 1, n) \in Seq(S)
  BY <1>1, <1>2, SubSeqProperties
<1>4. /\ SubSeq(s, n + 1, Len(s)) \in Seq(S)
      /\ Len(SubSeq(s, n + 1, Len(s))) = Len(s) - n
  BY <1>1, <1>2, SubSeqProperties
<1>5. SubSeq(s, 1, n) \o SubSeq(s, n + 1, Len(s)) = SubSeq(s, 1, Len(s))
  <2>1. 1 \in 1..Len(s) + 1 /\ n \in (1 - 1)..Len(s) /\ Len(s) \in n..Len(s)
    BY <1>1
  <2> QED BY <2>1, ConcatAdjacentSubSeq, Zenon
<1>6. SubSeq(s, 1, Len(s)) = s
  BY SubSeqFull
<1> QED BY <1>3, <1>4, <1>5, <1>6

\* Three sequences are concatenated from either end.
LEMMA Regroup ==
    ASSUME NEW a \in Seq(Bytes), NEW b \in Seq(Bytes), NEW c \in Seq(Bytes)
    PROVE  (a \o b) \o c = a \o (b \o c)
OBVIOUS

-----------------------------------------------------------------------------
(***************************************************************************)
(* One lemma for each action.                                              *)
(***************************************************************************)

LEMMA NewBufferInv == NewBuffer => BufferInv
<1>1. <<>> \in Seq(Bytes) /\ Len(<<>>) = 0
  BY EmptySeq
<1>2. NewBuffer => BufferTypeOK
  <2> SUFFICES ASSUME NewBuffer PROVE BufferTypeOK
    OBVIOUS
  <2>1. 0 <= Capacity
    BY CapacityAssumption
  <2>2. ring \in Seq(Bytes) /\ Len(ring) <= Capacity
    BY <1>1, <2>1 DEF NewBuffer
  <2>3. /\ back \in Seq(Bytes) /\ tmp \in Seq(Bytes) /\ locked \in Seq(Bytes)
        /\ written \in Seq(Bytes) /\ taken \in Seq(Bytes)
    BY <1>1 DEF NewBuffer
  <2>4. backBytes \in Nat /\ seen \in Nat /\ reader \in {"idle", "empty", "full"}
    BY DEF NewBuffer
  <2>5. overtaken \in BOOLEAN
    BY DEF NewBuffer
  <2> QED BY <2>2, <2>3, <2>4, <2>5 DEF BufferTypeOK
<1>3. NewBuffer => CountsAreRight
  BY <1>1 DEF NewBuffer, CountsAreRight
<1>4. NewBuffer => InOrder
  BY <1>1, ConcatEmptySeq DEF NewBuffer, InOrder
<1> QED BY <1>2, <1>3, <1>4 DEF BufferInv

LEMMA WriteRingInv ==
    ASSUME BufferInv, NEW s \in Seq(Bytes), WriteRing(s)
    PROVE  BufferInv'
<1>1. /\ ring \in Seq(Bytes) /\ back \in Seq(Bytes) /\ tmp \in Seq(Bytes)
      /\ taken \in Seq(Bytes) /\ written \in Seq(Bytes) /\ <<>> \in Seq(Bytes)
  BY EmptySeq DEF BufferInv, BufferTypeOK
<1>2. ring \o s \in Seq(Bytes) /\ Len(ring \o s) = Len(ring) + Len(s) /\ written \o s \in Seq(Bytes)
  BY <1>1, ConcatProperties
<1>3. Len(ring) \in Nat /\ Len(s) \in Nat /\ Len(back) \in Nat
  BY <1>1, LenProperties
<1>4. BufferTypeOK'
  BY <1>2, <1>3, CapacityAssumption DEF BufferInv, BufferTypeOK, WriteRing, MustGoBack
<1>5. CountsAreRight'
  <2>1. /\ backBytes' = Len(back') /\ reader' = reader /\ seen' = seen /\ tmp' = tmp
        /\ ring' = ring \o s
    BY DEF BufferInv, CountsAreRight, WriteRing
  <2>2. seen \in Nat /\ Len(ring \o s) >= Len(ring)
    BY <1>2, <1>3 DEF BufferInv, BufferTypeOK
  <2>3. reader = "full" => seen <= Len(IF tmp # <<>> THEN tmp ELSE ring \o s)
    <3>1. CASE tmp # <<>>
      BY <3>1 DEF BufferInv, CountsAreRight, Source
    <3>2. CASE tmp = <<>>
      <4>1. reader = "full" => seen <= Len(ring)
        BY <3>2 DEF BufferInv, CountsAreRight, Source
      <4> QED BY <1>2, <1>3, <2>2, <3>2, <4>1
    <3> QED BY <3>1, <3>2
  <2> QED BY <2>1, <2>3 DEF BufferInv, CountsAreRight, Source
<1>6. InOrder'
  <2>1. SUFFICES ASSUME ~overtaken PROVE written \o s = taken \o tmp \o (ring \o s) \o back
    BY DEF InOrder, WriteRing
  <2>2. back = <<>>
    BY <1>1, <1>3, EmptySeq DEF BufferInv, CountsAreRight, WriteRing, MustGoBack
  <2>3. written = taken \o tmp \o ring
    BY <1>1, <2>1, <2>2, ConcatProperties, ConcatEmptySeq DEF BufferInv, InOrder
  <2>4. taken \o tmp \in Seq(Bytes)
    BY <1>1, ConcatProperties
  <2>5. (taken \o tmp \o ring) \o s = taken \o tmp \o (ring \o s)
    <3> DEFINE p == taken \o tmp
    <3>1. p \in Seq(Bytes)
      BY <2>4
    <3> HIDE DEF p
    <3>2. (p \o ring) \o s = p \o (ring \o s)
      <4>1. ring \in Seq(Bytes) /\ s \in Seq(Bytes)
        BY <1>1
      <4> QED BY <3>1, <4>1, Regroup
    <3> QED BY <3>2 DEF p
  <2>6. taken \o tmp \o (ring \o s) \in Seq(Bytes)
    BY <1>2, <2>4, ConcatProperties
  <2> QED BY <2>2, <2>3, <2>5, <2>6, ConcatEmptySeq
<1> QED BY <1>4, <1>5, <1>6 DEF BufferInv

LEMMA LockBackInv ==
    ASSUME BufferInv, NEW s \in Seq(Bytes), LockBack(s)
    PROVE  BufferInv'
BY DEF BufferInv, BufferTypeOK, CountsAreRight, InOrder, LockBack, Source

LEMMA PushBackInv ==
    ASSUME BufferInv, PushBack
    PROVE  BufferInv'
<1>1. /\ ring \in Seq(Bytes) /\ back \in Seq(Bytes) /\ tmp \in Seq(Bytes) /\ locked \in Seq(Bytes)
      /\ taken \in Seq(Bytes) /\ written \in Seq(Bytes) /\ <<>> \in Seq(Bytes)
  BY EmptySeq DEF BufferInv, BufferTypeOK
<1>2. /\ back \o locked \in Seq(Bytes) /\ Len(back \o locked) = Len(back) + Len(locked)
      /\ written \o locked \in Seq(Bytes)
  BY <1>1, ConcatProperties
<1>3. Len(back) \in Nat /\ Len(locked) \in Nat
  BY <1>1, LenProperties
<1>4. BufferTypeOK'
  BY <1>1, <1>2, <1>3 DEF BufferInv, BufferTypeOK, PushBack, CountsAreRight
<1>5. CountsAreRight'
  BY <1>2 DEF BufferInv, CountsAreRight, PushBack, Source
<1>6. InOrder'
  <2>1. taken \o tmp \o ring \in Seq(Bytes)
    BY <1>1, ConcatProperties
  <2>2. (taken \o tmp \o ring \o back) \o locked = taken \o tmp \o ring \o (back \o locked)
    <3> DEFINE p == taken \o tmp \o ring
    <3>1. p \in Seq(Bytes) /\ back \in Seq(Bytes) /\ locked \in Seq(Bytes)
      BY <1>1, <2>1
    <3> HIDE DEF p
    <3>2. (p \o back) \o locked = p \o (back \o locked)
      BY <3>1, Regroup
    <3> QED BY <3>2 DEF p
  <2> QED BY <2>2 DEF BufferInv, InOrder, PushBack
<1> QED BY <1>4, <1>5, <1>6 DEF BufferInv

LEMMA LookInv ==
    ASSUME BufferInv, Look
    PROVE  BufferInv'
<1>1. Len(tmp) \in Nat /\ Len(ring) \in Nat
  BY LenProperties DEF BufferInv, BufferTypeOK
<1> QED BY <1>1 DEF BufferInv, BufferTypeOK, CountsAreRight, InOrder, Look, Has, Source

LEMMA FetchBackInv ==
    ASSUME BufferInv, FetchBack
    PROVE  BufferInv'
<1>1. /\ ring \in Seq(Bytes) /\ back \in Seq(Bytes) /\ taken \in Seq(Bytes)
      /\ <<>> \in Seq(Bytes) /\ Len(<<>>) = 0 /\ Len(back) \in Nat /\ tmp = <<>>
  BY EmptySeq, LenProperties DEF BufferInv, BufferTypeOK, CountsAreRight, FetchBack
<1>2. Len(back) > 0
  BY DEF BufferInv, CountsAreRight, FetchBack
<1>3. back # <<>>
  BY <1>1, <1>2
<1>4. BufferTypeOK'
  BY <1>1 DEF BufferInv, BufferTypeOK, FetchBack, Has
<1>5. CountsAreRight'
  BY <1>1, <1>3 DEF BufferInv, CountsAreRight, FetchBack, Has, Source
<1>6. InOrder'
  <2>1. SUFFICES ASSUME ~overtaken, ring = <<>>
                 PROVE  written = taken \o back \o <<>> \o <<>>
    BY <1>1 DEF InOrder, FetchBack
  <2>2. written = taken \o <<>> \o <<>> \o back
    BY <1>1, <2>1 DEF BufferInv, InOrder
  <2>3. taken \o back \in Seq(Bytes)
    BY <1>1, ConcatProperties
  <2> QED BY <1>1, <2>2, <2>3, ConcatEmptySeq
<1> QED BY <1>4, <1>5, <1>6 DEF BufferInv

LEMMA FetchNothingInv ==
    ASSUME BufferInv, FetchNothing
    PROVE  BufferInv'
BY DEF BufferInv, BufferTypeOK, CountsAreRight, InOrder, FetchNothing, Source

LEMMA SkipInv ==
    ASSUME BufferInv, NEW n \in Nat, Skip(n)
    PROVE  BufferInv'
<1>1. /\ ring \in Seq(Bytes) /\ back \in Seq(Bytes) /\ tmp \in Seq(Bytes)
      /\ taken \in Seq(Bytes) /\ Source \in Seq(Bytes) /\ Len(Source) \in Nat
      /\ <<>> \in Seq(Bytes)
  BY EmptySeq, LenProperties DEF BufferInv, BufferTypeOK, Source
<1>2. n \in 0..Len(Source)
  BY <1>1 DEF BufferInv, BufferTypeOK, CountsAreRight, Skip
<1> DEFINE gone == SubSeq(Source, 1, n)
           left == SubSeq(Source, n + 1, Len(Source))
<1>3. /\ gone \in Seq(Bytes) /\ left \in Seq(Bytes)
      /\ Len(left) = Len(Source) - n /\ gone \o left = Source
  BY <1>1, <1>2, Halves
<1>4. /\ taken' = taken \o gone /\ taken \o gone \in Seq(Bytes)
      /\ IF tmp # <<>> THEN tmp' = left /\ ring' = ring ELSE ring' = left /\ tmp' = tmp
  BY <1>1, <1>3, ConcatProperties DEF Skip, Source
<1>5. UNCHANGED <<back, backBytes, locked, written, overtaken>> /\ reader' = "idle" /\ seen' = 0
  BY DEF Skip
<1> HIDE DEF gone, left
<1>6. BufferTypeOK'
  <2>1. tmp = <<>> => Len(left) <= Capacity
    BY <1>1, <1>2, <1>3, CapacityAssumption DEF BufferInv, BufferTypeOK, Source
  <2> QED BY <1>3, <1>4, <1>5, <2>1 DEF BufferInv, BufferTypeOK
<1>7. CountsAreRight'
  BY <1>5 DEF BufferInv, CountsAreRight
<1>8. InOrder'
  <2>1. SUFFICES ASSUME ~overtaken PROVE written = taken' \o tmp' \o ring' \o back
    BY <1>5 DEF InOrder
  <2>2. written = taken \o tmp \o ring \o back
    BY <2>1 DEF BufferInv, InOrder
  <2>3. CASE tmp # <<>>
    <3>1. (taken \o gone) \o left = taken \o (gone \o left)
      <4>1. taken \in Seq(Bytes) /\ gone \in Seq(Bytes) /\ left \in Seq(Bytes)
        BY <1>1, <1>3
      <4> QED BY <4>1, Regroup
    <3>2. gone \o left = tmp
      BY <1>3, <2>3 DEF Source
    <3> QED BY <1>4, <2>2, <2>3, <3>1, <3>2
  <2>4. CASE tmp = <<>>
    <3>1. (taken \o gone) \o left = taken \o (gone \o left)
      <4>1. taken \in Seq(Bytes) /\ gone \in Seq(Bytes) /\ left \in Seq(Bytes)
        BY <1>1, <1>3
      <4> QED BY <4>1, Regroup
    <3>2. gone \o left = ring
      BY <1>3, <2>4 DEF Source
    <3>3. taken \o tmp = taken /\ (taken \o gone) \o tmp = taken \o gone
      BY <1>1, <1>4, <2>4, ConcatEmptySeq
    <3> QED BY <1>4, <2>2, <2>4, <3>1, <3>2, <3>3
  <2> QED BY <2>3, <2>4
<1> QED BY <1>6, <1>7, <1>8 DEF BufferInv

LEMMA BufferStep ==
    ASSUME BufferInv, [BufferNext]_bufferVars
    PROVE  BufferInv'
<1>1. ASSUME NEW s \in Seq(Bytes), WriteRing(s) \/ LockBack(s) PROVE BufferInv'
  BY <1>1, WriteRingInv, LockBackInv
<1>2. ASSUME NEW n \in Nat, Skip(n) PROVE BufferInv'
  BY <1>2, SkipInv
<1>3. CASE UNCHANGED bufferVars
  BY <1>3 DEF bufferVars, BufferInv, BufferTypeOK, CountsAreRight, InOrder, Source
<1> QED BY <1>1, <1>2, <1>3, PushBackInv, LookInv, FetchBackInv, FetchNothingInv DEF BufferNext

\* What the reader has taken, and then has before it in tmpBuf_, the ring and
\* backBuf_, is what was written, in its order, until it fetches backBuf_ with bytes
\* in the ring: whatever the capacity, the lengths written and those skipped.
THEOREM BytesComeInOrder == BufferSpec => []InOrder
<1>1. BufferInv /\ [BufferNext]_bufferVars => BufferInv'
  BY BufferStep
<1>2. BufferInv => InOrder
  BY DEF BufferInv
<1> QED BY NewBufferInv, <1>1, <1>2, PTL DEF BufferSpec

-----------------------------------------------------------------------------
(***************************************************************************)
(* The parser.                                                             *)
(***************************************************************************)

LEMMA FileFields ==
    ASSUME NEW f \in File
    PROVE  /\ f.count \in 0..MaxWrites /\ f.db \in Dbs
           /\ f.cmds \in Seq([n : 1..MaxWrites, db : Dbs])
           /\ f.cmd \in 0..MaxWrites /\ f.missing \in Nat /\ f.bad \in BOOLEAN
BY DEF File

\* Three kinds of bytes.
LEMMA ByteKinds ==
    ASSUME NEW b \in Bytes
    PROVE  \/ b.kind = "select" /\ b.n \in Dbs
           \/ b.kind = "head" /\ b.n \in 1..MaxWrites /\ b.size \in Sizes /\ b.size \in Nat \ {0}
           \/ b.kind = "body" /\ b.n \in 1..MaxWrites
BY BytesAssumption, SizesAssumption DEF ByteSet

LEMMA ParseByteType ==
    ASSUME NEW f \in File, NEW b \in Bytes
    PROVE  ParseByte(f, b) \in File
<1>1. /\ f.count \in 0..MaxWrites /\ f.db \in Dbs
      /\ f.cmds \in Seq([n : 1..MaxWrites, db : Dbs])
      /\ f.cmd \in 0..MaxWrites /\ f.missing \in Nat /\ f.bad \in BOOLEAN
  BY FileFields
<1>2. MaxWrites \in Nat
  BY BoundsAssumption
<1>3. CASE ~f.bad /\ f.missing = 0
  <2>1. CASE b.kind = "select" /\ b.n \in Dbs
    BY <1>3, <2>1 DEF ParseByte, File
  <2>2. CASE b.kind = "head" /\ b.n \in 1..MaxWrites /\ b.size \in Nat \ {0}
    <3>1. ParseByte(f, b) = [f EXCEPT !.cmd = b.n, !.missing = b.size]
      BY <1>3, <2>2 DEF ParseByte
    <3>2. b.n \in 0..MaxWrites /\ b.size \in Nat
      BY <1>2, <2>2
    <3> QED BY <3>1, <3>2 DEF File
  <2>3. CASE b.kind = "body"
    BY <1>3, <2>3 DEF ParseByte, File
  <2> QED BY <2>1, <2>2, <2>3, ByteKinds
<1>4. CASE ~f.bad /\ f.missing # 0
  <2>1. CASE b.kind # "body" \/ b.n # f.cmd
    BY <1>4, <2>1 DEF ParseByte, File
  <2>2. CASE ~(b.kind # "body" \/ b.n # f.cmd)
    <3>1. f.cmd \in 1..MaxWrites
      BY <2>2, ByteKinds
    <3> DEFINE c == [n |-> f.cmd, db |-> f.db]
               q == IF f.missing = 1 THEN Append(f.cmds, c) ELSE f.cmds
    <3>2. q \in Seq([n : 1..MaxWrites, db : Dbs])
      <4>1. c \in [n : 1..MaxWrites, db : Dbs]
        BY <1>1, <3>1
      <4> HIDE DEF c
      <4> QED BY <1>1, <4>1, AppendProperties
    <3>3. f.missing - 1 \in Nat
      BY <1>1, <1>4
    <3>4. ParseByte(f, b) = [f EXCEPT !.missing = f.missing - 1, !.cmds = q]
      BY <1>4, <2>2 DEF ParseByte
    <3> HIDE DEF q
    <3> QED BY <3>2, <3>3, <3>4 DEF File
  <2> QED BY <2>1, <2>2
<1>5. CASE f.bad
  BY <1>5 DEF ParseByte
<1> QED BY <1>3, <1>4, <1>5

\* After is the last of what the parser goes through.
Steps(g, f, s) == \A n \in 0..Len(s) : g[n] = IF n = 0 THEN f ELSE ParseByte(g[n - 1], s[n])

LEMMA AfterSteps ==
    ASSUME NEW f \in File, NEW s \in Seq(Bytes)
    PROVE  \E g : Steps(g, f, s) /\ After(f, s) = g[Len(s)]
<1> DEFINE F == [x \in File \X Bytes |-> ParseByte(x[1], x[2])]
           At(g, n) == IF n = 0 THEN f ELSE ParseByte(g[n - 1], s[n])
           g == CHOOSE g : g = [n \in 0..Len(s) |-> At(g, n)]
<1>1. F \in [File \X Bytes -> File] /\ \A h \in File, b \in Bytes : F[<<h, b>>] = ParseByte(h, b)
  BY ParseByteType
<1> HIDE DEF F
<1>2. PICK h \in [0..Len(s) -> File] :
         \A n \in 0..Len(s) : h[n] = IF n = 0 THEN f ELSE F[<<h[n - 1], s[n]>>]
  <2>1. StepOf(F, File, Bytes)
    <3> SUFFICES ASSUME NEW h \in File, NEW b \in Bytes PROVE F[<<h, b>>] \in File
      BY Zenon DEF StepOf
    <3>1. ParseByte(h, b) \in File
      BY ParseByteType
    <3> QED BY <1>1, <3>1
  <2> QED BY <2>1, Recursion
<1>3. \A n \in 0..Len(s) : h[n] = At(h, n)
  <2> SUFFICES ASSUME NEW n \in 0..Len(s), n # 0 PROVE h[n] = ParseByte(h[n - 1], s[n])
    BY <1>2
  <2>1. n \in 1..Len(s) /\ n - 1 \in 0..Len(s)
    BY Len(s) \in Nat
  <2>2. h[n - 1] \in File /\ s[n] \in Bytes
    BY <1>2, <2>1, ElementOfSeq
  <2> QED BY <1>1, <1>2, <2>2
<1>4. h = [n \in 0..Len(s) |-> At(h, n)]
  <2> HIDE DEF At
  <2> QED BY <1>2, <1>3
<1>5. g = [n \in 0..Len(s) |-> At(g, n)]
  BY <1>4
<1>6. After(f, s) = g[Len(s)]
  BY Zenon DEF After
<1> HIDE DEF g
<1>7. Steps(g, f, s)
  BY <1>5 DEF Steps
<1> QED BY <1>6, <1>7

\* What holds before, and is kept by each byte, holds after; B holds the bytes that come.
LEMMA AfterInductIn ==
    ASSUME NEW B \in SUBSET Bytes, NEW P \in SUBSET File, NEW f \in P, NEW s \in Seq(B),
           \A h \in P, b \in B : ParseByte(h, b) \in P
    PROVE  After(f, s) \in P
<1>1. s \in Seq(Bytes)
  OBVIOUS
<1>2. PICK g : Steps(g, f, s) /\ After(f, s) = g[Len(s)]
  BY <1>1, AfterSteps
<1> DEFINE Q == {n \in Nat : n <= Len(s) => g[n] \in P}
<1>3. 0 \in Q
  <2>1. 0 \in 0..Len(s)
    BY Len(s) \in Nat
  <2> QED BY <1>2, <2>1 DEF Steps
<1>4. ASSUME NEW n \in Nat, n \in Q PROVE n + 1 \in Q
  <2> SUFFICES ASSUME n + 1 <= Len(s) PROVE g[n + 1] \in P
    OBVIOUS
  <2>1. n + 1 \in 0..Len(s) /\ n + 1 \in 1..Len(s) /\ n + 1 # 0 /\ (n + 1) - 1 = n /\ n <= Len(s)
    BY Len(s) \in Nat
  <2>2. g[n + 1] = ParseByte(g[n], s[n + 1])
    BY <1>2, <2>1 DEF Steps
  <2>3. g[n] \in P /\ s[n + 1] \in B
    BY <1>4, <2>1, ElementOfSeq
  <2> QED BY <2>2, <2>3
<1> HIDE DEF Q
<1>5. Len(s) \in Q
  BY <1>3, <1>4, Induct, Len(s) \in Nat
<1> QED BY <1>2, <1>5 DEF Q

LEMMA AfterInduct ==
    ASSUME NEW P \in SUBSET File, NEW f \in P, NEW s \in Seq(Bytes),
           \A h \in P, b \in Bytes : ParseByte(h, b) \in P
    PROVE  After(f, s) \in P
<1>1. Bytes \in SUBSET Bytes
  OBVIOUS
<1> QED BY <1>1, AfterInductIn

LEMMA AfterType ==
    ASSUME NEW f \in File, NEW s \in Seq(Bytes)
    PROVE  After(f, s) \in File
BY AfterInduct, ParseByteType

LEMMA AfterNothing ==
    ASSUME NEW f \in File
    PROVE  After(f, <<>>) = f
<1>1. PICK g : Steps(g, f, <<>>) /\ After(f, <<>>) = g[Len(<<>>)]
  <2>1. <<>> \in Seq(Bytes)
    OBVIOUS
  <2> QED BY <2>1, AfterSteps
<1> QED BY <1>1 DEF Steps

LEMMA AfterOne ==
    ASSUME NEW f \in File, NEW b \in Bytes
    PROVE  After(f, <<b>>) = ParseByte(f, b)
<1> DEFINE s == <<b>>
<1>1. s \in Seq(Bytes) /\ Len(s) = 1 /\ s[1] = b
  OBVIOUS
<1> HIDE DEF s
<1>2. PICK g : Steps(g, f, s) /\ After(f, s) = g[Len(s)]
  BY <1>1, AfterSteps
<1>3. 0 \in 0..Len(s) /\ 1 \in 0..Len(s) /\ 1 - 1 = 0
  BY <1>1
<1>4. g[0] = f /\ g[1] = ParseByte(g[0], s[1])
  BY <1>2, <1>3 DEF Steps
<1>5. After(f, s) = ParseByte(f, b)
  BY <1>1, <1>2, <1>4
<1> QED BY <1>5 DEF s

\* The parser goes on where it was.
LEMMA AfterConcat ==
    ASSUME NEW f \in File, NEW s \in Seq(Bytes), NEW t \in Seq(Bytes)
    PROVE  After(f, s \o t) = After(After(f, s), t)
<1> DEFINE st == s \o t
           fs == After(f, s)
<1>1. /\ st \in Seq(Bytes) /\ Len(st) = Len(s) + Len(t) /\ Len(s) \in Nat /\ Len(t) \in Nat
      /\ \A i \in 1..(Len(s) + Len(t)) : st[i] = IF i <= Len(s) THEN s[i] ELSE t[i - Len(s)]
  BY ConcatProperties, LenProperties
<1>2. fs \in File
  BY AfterType
<1> HIDE DEF st
<1>3. PICK g : Steps(g, f, s) /\ fs = g[Len(s)]
  BY AfterSteps
<1> HIDE DEF fs
<1>4. PICK h : Steps(h, fs, t) /\ After(fs, t) = h[Len(t)]
  BY <1>2, AfterSteps
<1>5. PICK k : Steps(k, f, st) /\ After(f, st) = k[Len(st)]
  BY <1>1, AfterSteps
<1> DEFINE P == {n \in Nat : n <= Len(s) => k[n] = g[n]}
           Q == {n \in Nat : n <= Len(t) => k[Len(s) + n] = h[n]}
<1>6. Len(s) \in P
  <2>1. 0 \in P
    <3>1. 0 \in 0..Len(s) /\ 0 \in 0..Len(st)
      BY <1>1
    <3> QED BY <1>3, <1>5, <3>1 DEF Steps
  <2>2. ASSUME NEW n \in Nat, n \in P PROVE n + 1 \in P
    <3> SUFFICES ASSUME n + 1 <= Len(s) PROVE k[n + 1] = g[n + 1]
      OBVIOUS
    <3>1. /\ n + 1 \in 0..Len(s) /\ n + 1 \in 0..Len(st) /\ n + 1 # 0 /\ (n + 1) - 1 = n
          /\ n + 1 \in 1..(Len(s) + Len(t)) /\ n <= Len(s)
      BY <1>1
    <3>2. st[n + 1] = s[n + 1] /\ k[n] = g[n]
      BY <1>1, <2>2, <3>1
    <3>3. k[n + 1] = ParseByte(k[n], st[n + 1]) /\ g[n + 1] = ParseByte(g[n], s[n + 1])
      BY <1>3, <1>5, <3>1 DEF Steps
    <3> QED BY <3>2, <3>3
  <2> HIDE DEF P
  <2> QED BY <1>1, <2>1, <2>2, Induct
<1>7. Len(t) \in Q
  <2>1. 0 \in Q
    <3>1. k[Len(s)] = g[Len(s)]
      BY <1>1, <1>6
    <3>2. h[0] = fs
      <4>1. 0 \in 0..Len(t)
        BY <1>1
      <4> QED BY <1>4, <4>1 DEF Steps
    <3> QED BY <1>1, <1>3, <3>1, <3>2
  <2>2. ASSUME NEW n \in Nat, n \in Q PROVE n + 1 \in Q
    <3> SUFFICES ASSUME n + 1 <= Len(t) PROVE k[Len(s) + (n + 1)] = h[n + 1]
      OBVIOUS
    <3> DEFINE i == Len(s) + (n + 1)
    <3>1. /\ i \in 0..Len(st) /\ i # 0 /\ i - 1 = Len(s) + n /\ i \in 1..(Len(s) + Len(t))
          /\ ~(i <= Len(s)) /\ i - Len(s) = n + 1
      BY <1>1
    <3>2. n + 1 \in 0..Len(t) /\ n + 1 # 0 /\ (n + 1) - 1 = n /\ n <= Len(t)
      BY <1>1
    <3> HIDE DEF i
    <3>3. st[i] = t[n + 1]
      BY <1>1, <3>1
    <3>4. k[Len(s) + n] = h[n]
      BY <2>2, <3>2
    <3>5. k[i] = ParseByte(k[i - 1], st[i])
      BY <1>5, <3>1 DEF Steps
    <3>6. h[n + 1] = ParseByte(h[n], t[n + 1])
      BY <1>4, <3>2 DEF Steps
    <3>7. k[i] = h[n + 1]
      BY <3>1, <3>3, <3>4, <3>5, <3>6
    <3> QED BY <3>7 DEF i
  <2> HIDE DEF Q
  <2> QED BY <1>1, <2>1, <2>2, Induct
<1>8. k[Len(s) + Len(t)] = h[Len(t)]
  BY <1>1, <1>7
<1>9. After(f, st) = After(fs, t)
  BY <1>1, <1>4, <1>5, <1>8
<1> QED BY <1>9 DEF st, fs

\* What the parser has it keeps: the image, the commands read, an error.
LEMMA AfterGrows ==
    ASSUME NEW f \in File, NEW s \in Seq(Bytes)
    PROVE  /\ After(f, s).count = f.count
           /\ f.bad => After(f, s).bad
           /\ Len(f.cmds) <= Len(After(f, s).cmds)
           /\ \A i \in 1..Len(f.cmds) : After(f, s).cmds[i] = f.cmds[i]
<1> DEFINE More(h) == /\ h.count = f.count
                      /\ f.bad => h.bad
                      /\ Len(f.cmds) <= Len(h.cmds)
                      /\ \A i \in 1..Len(f.cmds) : h.cmds[i] = f.cmds[i]
           P == {h \in File : More(h)}
<1>1. P \in SUBSET File
  OBVIOUS
<1>2. f \in P
  <2>1. Len(f.cmds) \in Nat
    BY FileFields, LenProperties
  <2> QED BY <2>1
<1>3. ASSUME NEW h \in P, NEW b \in Bytes PROVE ParseByte(h, b) \in P
  <2>1. h \in File /\ More(h)
    BY <1>3
  <2>2. ParseByte(h, b) \in File
    BY <2>1, ParseByteType
  <2>3. /\ h.cmds \in Seq([n : 1..MaxWrites, db : Dbs]) /\ Len(h.cmds) \in Nat
        /\ f.cmds \in Seq([n : 1..MaxWrites, db : Dbs]) /\ Len(f.cmds) \in Nat
    BY <2>1, FileFields, LenProperties
  <2>4. CASE ParseByte(h, b) = [h EXCEPT !.db = b.n]
    BY <2>1, <2>2, <2>4 DEF File
  <2>5. CASE ParseByte(h, b) = [h EXCEPT !.cmd = b.n, !.missing = b.size]
    BY <2>1, <2>2, <2>5 DEF File
  <2>6. CASE ParseByte(h, b) = [h EXCEPT !.bad = TRUE]
    BY <2>1, <2>2, <2>6 DEF File
  <2>7. CASE /\ ~h.bad /\ h.missing # 0 /\ b.kind = "body" /\ b.n = h.cmd
             /\ b.n \in 1..MaxWrites
    <3> DEFINE c == [n |-> h.cmd, db |-> h.db]
               q == IF h.missing = 1 THEN Append(h.cmds, c) ELSE h.cmds
    <3>1. c \in [n : 1..MaxWrites, db : Dbs]
      BY <2>1, <2>7, FileFields
    <3>2. ParseByte(h, b) = [h EXCEPT !.missing = h.missing - 1, !.cmds = q]
      BY <2>7 DEF ParseByte
    <3> HIDE DEF c
    <3>3. Len(h.cmds) <= Len(q) /\ \A i \in 1..Len(h.cmds) : q[i] = h.cmds[i]
      BY <2>3, <3>1, AppendProperties
    <3> HIDE DEF q
    <3>4. /\ ParseByte(h, b).count = h.count /\ ParseByte(h, b).bad = h.bad
          /\ ParseByte(h, b).cmds = q
      BY <2>1, <3>2 DEF File
    <3>5. \A i \in 1..Len(f.cmds) : i \in 1..Len(h.cmds)
      BY <2>1, <2>3
    <3>6. Len(f.cmds) <= Len(q)
      BY <2>1, <2>3, <3>3, Len(q) \in Nat
    <3>7. \A i \in 1..Len(f.cmds) : q[i] = f.cmds[i]
      BY <2>1, <3>3, <3>5
    <3> QED BY <2>1, <2>2, <3>4, <3>6, <3>7
  <2>8. \/ ParseByte(h, b) = [h EXCEPT !.db = b.n]
        \/ ParseByte(h, b) = [h EXCEPT !.cmd = b.n, !.missing = b.size]
        \/ ParseByte(h, b) = [h EXCEPT !.bad = TRUE]
        \/ ~h.bad /\ h.missing # 0 /\ b.kind = "body" /\ b.n = h.cmd /\ b.n \in 1..MaxWrites
        \/ ParseByte(h, b) = h
    BY ByteKinds DEF ParseByte
  <2>9. CASE ParseByte(h, b) = h
    BY <2>1, <2>9
  <2> HIDE DEF P
  <2> QED BY <2>4, <2>5, <2>6, <2>7, <2>8, <2>9
<1> HIDE DEF P
<1>4. After(f, s) \in P
  BY <1>1, <1>2, <1>3, AfterInduct
<1> QED BY <1>4 DEF P

\* The commands a file stands for, one that is not whole included.
Weight(f) == (f.count + Len(f.cmds)) + (IF f.missing = 0 THEN 0 ELSE 1)

LEMMA WeightType ==
    ASSUME NEW f \in File
    PROVE  /\ f.count \in Nat /\ Len(f.cmds) \in Nat /\ f.missing \in Nat
           /\ Weight(f) \in Nat
<1>1. f.count \in Nat /\ Len(f.cmds) \in Nat /\ f.missing \in Nat
  BY FileFields, BoundsAssumption, LenProperties
<1> QED BY <1>1 DEF Weight

\* A byte adds no command, but for a head, which adds one at most.
LEMMA WeightOfByte ==
    ASSUME NEW f \in File, NEW b \in Bytes
    PROVE  /\ Weight(f) <= Weight(ParseByte(f, b))
           /\ Weight(ParseByte(f, b)) <= Weight(f) + 1
           /\ b.kind # "head" => Weight(ParseByte(f, b)) = Weight(f)
<1> DEFINE g == ParseByte(f, b)
           n == f.count + Len(f.cmds)
<1>1. g \in File
  BY ParseByteType
<1>2. n \in Nat /\ Len(f.cmds) \in Nat /\ f.count \in Nat /\ f.missing \in Nat /\ Weight(f) \in Nat
  BY WeightType
<1>3. CASE g.count = f.count /\ g.cmds = f.cmds /\ (g.missing = 0 <=> f.missing = 0)
  <2>1. Weight(g) = Weight(f)
    BY <1>3 DEF Weight
  <2> HIDE DEF g
  <2>2. Weight(f) <= Weight(f) /\ Weight(f) <= Weight(f) + 1
    BY <1>2
  <2> QED BY <2>1, <2>2 DEF g
<1>4. CASE ~f.bad /\ f.missing = 0 /\ b.kind = "select"
  <2>1. g = [f EXCEPT !.db = b.n]
    BY <1>4 DEF ParseByte
  <2> QED BY <1>3, <2>1 DEF File
<1>5. CASE ~f.bad /\ f.missing = 0 /\ b.kind = "head" /\ b.size \in Nat \ {0}
  <2>1. g = [f EXCEPT !.cmd = b.n, !.missing = b.size]
    BY <1>5 DEF ParseByte
  <2>2. g.count = f.count /\ g.cmds = f.cmds /\ g.missing = b.size
    BY <2>1 DEF File
  <2> HIDE DEF g
  <2>3. Weight(g) = n + 1
    BY <1>5, <2>2 DEF Weight
  <2>4. Weight(f) = n + 0
    BY <1>5 DEF Weight
  <2> HIDE DEF n
  <2> QED BY <1>2, <1>5, <2>3, <2>4 DEF g
<1>6. CASE g = [f EXCEPT !.bad = TRUE]
  BY <1>3, <1>6 DEF File
<1>7. CASE ~f.bad /\ f.missing # 0 /\ b.kind = "body" /\ b.n = f.cmd /\ b.n \in 1..MaxWrites
  <2> DEFINE c == [n |-> f.cmd, db |-> f.db]
             q == IF f.missing = 1 THEN Append(f.cmds, c) ELSE f.cmds
  <2>1. g = [f EXCEPT !.missing = f.missing - 1, !.cmds = q]
    BY <1>7 DEF ParseByte
  <2>2. c \in [n : 1..MaxWrites, db : Dbs] /\ f.cmds \in Seq([n : 1..MaxWrites, db : Dbs])
    BY <1>7, FileFields
  <2> HIDE DEF c
  <2>3. /\ f.missing = 1 => Len(q) = Len(f.cmds) + 1
        /\ f.missing # 1 => Len(q) = Len(f.cmds)
    <3>1. Len(Append(f.cmds, c)) = Len(f.cmds) + 1
      BY <2>2, AppendProperties
    <3> QED BY <3>1
  <2> HIDE DEF q
  <2>4. g.count = f.count /\ g.cmds = q /\ g.missing = f.missing - 1
    BY <2>1 DEF File
  <2> HIDE DEF g
  <2>5. CASE f.missing = 1
    <3>1. Weight(g) = f.count + (Len(f.cmds) + 1) + 0
      BY <2>3, <2>4, <2>5 DEF Weight
    <3>2. Weight(f) = f.count + Len(f.cmds) + 1
      BY <2>5 DEF Weight
    <3>3. f.count + (Len(f.cmds) + 1) + 0 = f.count + Len(f.cmds) + 1
      BY <1>2
    <3>4. Weight(g) = Weight(f)
      BY <3>1, <3>2, <3>3
    <3> QED BY <1>2, <3>4 DEF g
  <2>6. CASE f.missing # 1
    <3>1. g.missing # 0 /\ Len(q) = Len(f.cmds)
      BY <1>2, <1>7, <2>3, <2>4, <2>6
    <3>2. Weight(g) = Weight(f)
      BY <1>2, <1>7, <2>4, <3>1 DEF Weight
    <3> QED BY <1>2, <3>2 DEF g
  <2> QED BY <2>5, <2>6
<1>8. CASE g = f
  BY <1>3, <1>8
<1> QED BY <1>4, <1>5, <1>6, <1>7, <1>8, ByteKinds DEF ParseByte

LEMMA WeightGrows ==
    ASSUME NEW f \in File, NEW s \in Seq(Bytes)
    PROVE  Weight(f) <= Weight(After(f, s))
<1> DEFINE P == {h \in File : Weight(f) <= Weight(h)}
<1>1. P \in SUBSET File
  OBVIOUS
<1>2. f \in P
  <2>1. Weight(f) <= Weight(f)
    BY WeightType
  <2> QED BY <2>1
<1>3. ASSUME NEW h \in P, NEW b \in Bytes PROVE ParseByte(h, b) \in P
  <2>1. h \in File /\ Weight(f) <= Weight(h)
    BY <1>3
  <2> DEFINE g == ParseByte(h, b)
  <2>2. g \in File /\ Weight(h) <= Weight(g)
    BY <2>1, ParseByteType, WeightOfByte
  <2> HIDE DEF g
  <2>3. Weight(f) \in Nat /\ Weight(h) \in Nat /\ Weight(g) \in Nat
    BY <2>1, <2>2, WeightType
  <2>4. Weight(f) <= Weight(g)
    BY <2>1, <2>2, <2>3
  <2> QED BY <2>2, <2>4 DEF g
<1> HIDE DEF P
<1>4. After(f, s) \in P
  BY <1>1, <1>2, <1>3, AfterInduct
<1> QED BY <1>4 DEF P

\* Bytes of a body add no command.
LEMMA WeightStays ==
    ASSUME NEW f \in File, NEW s \in Seq({b \in Bytes : b.kind # "head"})
    PROVE  Weight(After(f, s)) = Weight(f)
<1> DEFINE B == {b \in Bytes : b.kind # "head"}
           P == {h \in File : Weight(h) = Weight(f)}
<1>1. B \in SUBSET Bytes /\ P \in SUBSET File /\ f \in P /\ s \in Seq(B)
  OBVIOUS
<1>2. ASSUME NEW h \in P, NEW b \in B PROVE ParseByte(h, b) \in P
  <2>1. h \in File /\ Weight(h) = Weight(f) /\ b \in Bytes /\ b.kind # "head"
    BY <1>2
  <2>2. ParseByte(h, b) \in File /\ Weight(ParseByte(h, b)) = Weight(h)
    BY <2>1, ParseByteType, WeightOfByte
  <2> QED BY <2>1, <2>2
<1> HIDE DEF P, B
<1>3. After(f, s) \in P
  BY <1>1, <1>2, AfterInductIn
<1> QED BY <1>3 DEF P

-----------------------------------------------------------------------------
(***************************************************************************)
(* Files and logs.                                                         *)
(***************************************************************************)

\* The commands read are those of the log that follow the image.
CommandsAreRight(f, log) ==
    \A i \in 1..Len(f.cmds) :
       /\ f.count + i <= Len(log)
       /\ f.cmds[i] = [n |-> f.count + i, db |-> log[f.count + i].db]

\* The file stands for all of the log, and database d is selected.
Whole(f, log, d) ==
    /\ ~f.bad /\ f.missing = 0
    /\ f.count + Len(f.cmds) = Len(log)
    /\ d = -1 \/ f.db = d
    /\ CommandsAreRight(f, log)

\* The file stands for a first part of the log.
Right(f, log) ==
    /\ ~f.bad
    /\ f.count + Len(f.cmds) <= Len(log)
    /\ CommandsAreRight(f, log)

LEMMA WholeIsRight ==
    ASSUME NEW f \in File, NEW s \in Seq(Bytes), NEW log \in Seq(Command), NEW d,
           Whole(After(f, s), log, d)
    PROVE  Right(f, log)
<1> DEFINE h == After(f, s)
<1>1. /\ h.count = f.count /\ (f.bad => h.bad) /\ Len(f.cmds) <= Len(h.cmds)
      /\ \A i \in 1..Len(f.cmds) : h.cmds[i] = f.cmds[i]
  BY AfterGrows
<1>2. h \in File
  BY AfterType
<1>3. f.bad \in BOOLEAN /\ h.bad \in BOOLEAN /\ f.count \in Nat /\ h.count \in Nat
  BY <1>2 DEF File
<1>4. Len(f.cmds) \in Nat /\ Len(h.cmds) \in Nat
  BY <1>2, FileFields, LenProperties
<1> HIDE DEF h
<1>5. \A i \in 1..Len(f.cmds) : i \in 1..Len(h.cmds)
  BY <1>1, <1>4
<1>6. Whole(h, log, d)
  BY DEF h
<1>7. CommandsAreRight(f, log)
  BY <1>1, <1>5, <1>6 DEF Whole, CommandsAreRight
<1> QED BY <1>1, <1>3, <1>4, <1>6, <1>7 DEF Whole, Right

\* A body is read to its end.
Body(id, size) == [i \in 1..size |-> [kind |-> "body", n |-> id]]

LEMMA BodyBytes ==
    ASSUME NEW id \in 1..MaxWrites, NEW size \in Nat
    PROVE  Body(id, size) \in Seq(Bytes) /\ Len(Body(id, size)) = size
<1>1. [kind |-> "body", n |-> id] \in Bytes
  BY BytesAssumption DEF ByteSet
<1> QED BY <1>1 DEF Body

WithCommand(f) ==
    [f EXCEPT !.missing = 0, !.cmds = Append(@, [n |-> f.cmd, db |-> f.db])]

LEMMA BodyIsRead ==
    ASSUME NEW f \in File, ~f.bad, f.missing # 0, f.cmd # 0
    PROVE  After(f, Body(f.cmd, f.missing)) = WithCommand(f)
<1> DEFINE id == f.cmd
           size == f.missing
           s == Body(id, size)
           c == [n |-> id, db |-> f.db]
           b == [kind |-> "body", n |-> id]
<1>1. id \in 1..MaxWrites /\ size \in Nat \ {0} /\ f.missing = size /\ f.cmd = id
  BY FileFields
<1> HIDE DEF id, size
<1>2. s \in Seq(Bytes) /\ Len(s) = size /\ \A i \in 1..size : s[i] = b
  BY <1>1, BodyBytes DEF Body
<1>3. b.kind = "body" /\ b.n = id
  OBVIOUS
<1> HIDE DEF s, b
<1>4. PICK g : Steps(g, f, s) /\ After(f, s) = g[Len(s)]
  BY <1>2, AfterSteps
<1> DEFINE Q == {n \in Nat : n < size => g[n] = [f EXCEPT !.missing = size - n]}
<1>5. 0 \in Q
  <2>1. g[0] = f
    <3>1. 0 \in 0..Len(s)
      BY <1>2
    <3> QED BY <1>4, <3>1 DEF Steps
  <2>2. f = [f EXCEPT !.missing = size - 0]
    BY <1>1 DEF File
  <2> QED BY <2>1, <2>2
<1>6. ASSUME NEW n \in Nat, n \in Q PROVE n + 1 \in Q
  <2> SUFFICES ASSUME n + 1 < size PROVE g[n + 1] = [f EXCEPT !.missing = size - (n + 1)]
    OBVIOUS
  <2>1. /\ n + 1 \in 0..Len(s) /\ n + 1 # 0 /\ (n + 1) - 1 = n /\ n < size
        /\ n + 1 \in 1..size /\ size - n # 0 /\ size - n # 1 /\ (size - n) - 1 = size - (n + 1)
    BY <1>2, <1>1
  <2>2. g[n + 1] = ParseByte(g[n], b)
    BY <1>2, <1>4, <2>1 DEF Steps
  <2> DEFINE h == g[n]
  <2>3. h = [f EXCEPT !.missing = size - n]
    BY <1>6, <2>1
  <2>4. h.missing = size - n /\ h.cmd = id /\ ~h.bad
    BY <1>1, <2>3 DEF File
  <2>5. ParseByte(h, b) = [h EXCEPT !.missing = h.missing - 1, !.cmds = h.cmds]
    BY <1>3, <2>1, <2>4 DEF ParseByte
  <2>6. [h EXCEPT !.missing = h.missing - 1, !.cmds = h.cmds] = [f EXCEPT !.missing = size - (n + 1)]
    BY <2>1, <2>3, <2>4 DEF File
  <2> QED BY <2>2, <2>5, <2>6
<1>7. size - 1 \in Nat /\ size - 1 < size /\ size - (size - 1) = 1 /\ (size - 1) + 1 = size
  BY <1>1
<1> HIDE DEF Q
<1>8. size - 1 \in Q
  BY <1>5, <1>6, <1>7, Induct
<1> DEFINE h == g[size - 1]
<1>9. h = [f EXCEPT !.missing = 1]
  BY <1>7, <1>8 DEF Q
<1>10. g[size] = ParseByte(h, b)
  <2>1. size \in 0..Len(s) /\ size # 0 /\ size \in 1..size
    BY <1>2, <1>1
  <2> QED BY <1>2, <1>4, <2>1 DEF Steps
<1> HIDE DEF h
<1>11. ~h.bad /\ h.missing = 1 /\ h.cmd = id /\ h.db = f.db /\ h.cmds = f.cmds
  BY <1>9, <1>1 DEF File
<1>12. ParseByte(h, b) = [h EXCEPT !.missing = 0, !.cmds = Append(h.cmds, c)]
  <2>1. 1 # 0 /\ 1 - 1 = 0
    OBVIOUS
  <2> QED BY <1>3, <1>11, <2>1 DEF ParseByte
<1>13. [h EXCEPT !.missing = 0, !.cmds = Append(h.cmds, c)]
         = [f EXCEPT !.missing = 0, !.cmds = Append(f.cmds, c)]
  <2> HIDE DEF c
  <2> DEFINE q == Append(f.cmds, c)
  <2>1. h.cmds = f.cmds
    BY <1>11
  <2> HIDE DEF q
  <2>2. [h EXCEPT !.missing = 0, !.cmds = q] = [f EXCEPT !.missing = 0, !.cmds = q]
    BY <1>9 DEF File
  <2> QED BY <2>1, <2>2 DEF q
<1>14. After(f, s) = [f EXCEPT !.missing = 0, !.cmds = Append(f.cmds, c)]
  BY <1>2, <1>4, <1>10, <1>12, <1>13
<1> QED BY <1>14 DEF s, id, size, WithCommand

-----------------------------------------------------------------------------
(***************************************************************************)
(* The pieces of a command.                                                *)
(***************************************************************************)

\* At most three pieces are to be written.
Piece(w, i) == IF i <= Len(w) THEN w[i] ELSE <<>>
Flat(w) == Piece(w, 1) \o Piece(w, 2) \o Piece(w, 3)

SelectByte(d) == [kind |-> "select", n |-> d]
HeadByte(id, size) == [kind |-> "head", n |-> id, size |-> size]

LEMMA PiecesAre ==
    ASSUME TypeOK, NEW d \in Dbs, NEW size \in Sizes, Len(executed) < MaxWrites
    PROVE  LET id == Len(executed) + 1
               w == Pieces(d, size)
           IN  /\ id \in 1..MaxWrites
               /\ SelectByte(d) \in Bytes /\ HeadByte(id, size) \in Bytes
               /\ w \in Seq(Seq(Bytes))
               /\ IF d = lastDb
                  THEN Len(w) = 2 /\ w[1] = <<HeadByte(id, size)>> /\ w[2] = Body(id, size)
                  ELSE /\ Len(w) = 3 /\ w[1] = <<SelectByte(d)>>
                       /\ w[2] = <<HeadByte(id, size)>> /\ w[3] = Body(id, size)
<1> DEFINE id == Len(executed) + 1
           w == Pieces(d, size)
<1>1. id \in 1..MaxWrites
  BY LenProperties, BoundsAssumption DEF TypeOK
<1>2. size \in Nat
  BY SizesAssumption
<1>3. SelectByte(d) \in Bytes /\ HeadByte(id, size) \in Bytes
  <2> HIDE DEF id
  <2> QED BY <1>1, BytesAssumption DEF ByteSet, SelectByte, HeadByte
<1>4. <<SelectByte(d)>> \in Seq(Bytes) /\ <<HeadByte(id, size)>> \in Seq(Bytes)
      /\ Body(id, size) \in Seq(Bytes)
  <2> HIDE DEF id
  <2>1. Body(id, size) \in Seq(Bytes)
    BY <1>1, <1>2, BodyBytes
  <2> QED BY <1>3, <2>1
<1>5. w = (IF d = lastDb THEN <<>> ELSE <<<<SelectByte(d)>>>>)
             \o <<<<HeadByte(id, size)>>, Body(id, size)>>
  BY DEF Pieces, Select, SelectByte, HeadByte, Body
<1> DEFINE x == <<SelectByte(d)>>
           y == <<HeadByte(id, size)>>
           z == Body(id, size)
<1>6. x \in Seq(Bytes) /\ y \in Seq(Bytes) /\ z \in Seq(Bytes)
  BY <1>4
<1>7. w = (IF d = lastDb THEN <<>> ELSE <<x>>) \o <<y, z>>
  BY <1>5
<1> HIDE DEF x, y, z, w, id
<1>8. CASE d = lastDb
  <2>1. w = <<y, z>>
    BY <1>7, <1>8
  <2>2. w \in Seq(Seq(Bytes)) /\ Len(w) = 2 /\ w[1] = y /\ w[2] = z
    BY <1>6, <2>1
  <2> QED BY <1>1, <1>3, <1>8, <2>2 DEF x, y, z, w, id
<1>9. CASE d # lastDb
  <2>1. w = <<x>> \o <<y, z>>
    BY <1>7, <1>9
  <2>2. w = <<x, y, z>>
    <3> DEFINE T == Seq(Bytes)
               p == <<x>>
               q == <<y, z>>
               r == <<x, y, z>>
    <3>1. /\ p \in Seq(T) /\ Len(p) = 1 /\ p[1] = x
          /\ q \in Seq(T) /\ Len(q) = 2 /\ q[1] = y /\ q[2] = z
          /\ r \in Seq(T) /\ Len(r) = 3 /\ r[1] = x /\ r[2] = y /\ r[3] = z
      BY <1>6
    <3>2. w = p \o q
      BY <2>1
    <3> HIDE DEF T, p, q, r
    <3>3. /\ p \o q \in Seq(T) /\ Len(p \o q) = Len(p) + Len(q)
          /\ \A i \in 1..(Len(p) + Len(q)) :
                (p \o q)[i] = IF i <= Len(p) THEN p[i] ELSE q[i - Len(p)]
      <4>1. p \in Seq(T) /\ q \in Seq(T)
        BY <3>1
      <4> QED BY <4>1, ConcatProperties
    <3>4. w \in Seq(T) /\ Len(w) = 3 /\ \A i \in 1..3 : w[i] = r[i]
      BY <3>1, <3>2, <3>3
    <3>5. w = r
      <4>1. w \in Seq(T) /\ r \in Seq(T) /\ Len(w) = Len(r) /\ \A i \in 1..Len(w) : w[i] = r[i]
        BY <3>1, <3>4
      <4> QED BY <4>1, SeqEqual
    <3> QED BY <3>5 DEF r
  <2>3. w \in Seq(Seq(Bytes)) /\ Len(w) = 3 /\ w[1] = x /\ w[2] = y /\ w[3] = z
    BY <1>6, <2>2
  <2> QED BY <1>1, <1>3, <1>9, <2>3, Zenon DEF x, y, z, w, id
<1> QED BY <1>8, <1>9

\* No piece is empty, and there are no more than three.
PiecesOK(w) == w \in Seq(Seq(Bytes)) /\ Len(w) <= 3 /\ \A i \in 1..Len(w) : w[i] # <<>>

LEMMA PiecesAreOK ==
    ASSUME TypeOK, NEW d \in Dbs, NEW size \in Sizes, Len(executed) < MaxWrites
    PROVE  PiecesOK(Pieces(d, size))
<1> DEFINE id == Len(executed) + 1
           w == Pieces(d, size)
<1>1. /\ w \in Seq(Seq(Bytes)) /\ id \in 1..MaxWrites
      /\ IF d = lastDb
         THEN Len(w) = 2 /\ w[1] = <<HeadByte(id, size)>> /\ w[2] = Body(id, size)
         ELSE /\ Len(w) = 3 /\ w[1] = <<SelectByte(d)>>
              /\ w[2] = <<HeadByte(id, size)>> /\ w[3] = Body(id, size)
  BY PiecesAre
<1>2. Len(Body(id, size)) # 0
  <2>1. size \in Nat /\ size # 0
    BY SizesAssumption
  <2> HIDE DEF id
  <2> QED BY <1>1, <2>1, BodyBytes
<1>3. Body(id, size) # <<>>
  BY <1>2
<1> HIDE DEF w
<1>4. <<HeadByte(id, size)>> # <<>> /\ <<SelectByte(d)>> # <<>>
  OBVIOUS
<1> DEFINE x == <<SelectByte(d)>>
           y == <<HeadByte(id, size)>>
           z == Body(id, size)
<1>5. x # <<>> /\ y # <<>> /\ z # <<>>
  BY <1>3, <1>4
<1>6. \/ Len(w) = 2 /\ w[1] = y /\ w[2] = z
      \/ Len(w) = 3 /\ w[1] = x /\ w[2] = y /\ w[3] = z
  BY <1>1
<1> HIDE DEF x, y, z, id
<1>7. Len(w) <= 3 /\ \A i \in 1..Len(w) : i = 1 \/ i = 2 \/ (i = 3 /\ Len(w) = 3)
  <2>1. Len(w) = 2 \/ Len(w) = 3
    BY <1>6
  <2>2. \A i \in 1..2 : i = 1 \/ i = 2
    OBVIOUS
  <2>3. \A i \in 1..3 : i = 1 \/ i = 2 \/ i = 3
    OBVIOUS
  <2>4. 2 <= 3 /\ 3 <= 3
    OBVIOUS
  <2> QED BY <2>1, <2>2, <2>3, <2>4
<1>8. \A i \in 1..Len(w) : w[i] # <<>>
  <2> SUFFICES ASSUME NEW i \in 1..Len(w) PROVE w[i] # <<>>
    OBVIOUS
  <2>1. CASE i = 1
    BY <1>5, <1>6, <2>1
  <2>2. CASE i = 2
    BY <1>5, <1>6, <2>2
  <2>3. CASE i = 3 /\ Len(w) = 3
    BY <1>5, <1>6, <2>3
  <2> QED BY <1>7, <2>1, <2>2, <2>3
<1> QED BY <1>1, <1>7, <1>8 DEF PiecesOK, w

LEMMA FlatType ==
    ASSUME NEW w \in Seq(Seq(Bytes))
    PROVE  /\ \A i \in Nat \ {0} : Piece(w, i) \in Seq(Bytes)
           /\ Flat(w) \in Seq(Bytes)
<1>1. ASSUME NEW i \in Nat \ {0} PROVE Piece(w, i) \in Seq(Bytes)
  <2>1. CASE i <= Len(w)
    <3>1. i \in 1..Len(w)
      BY <2>1, LenProperties
    <3> QED BY <2>1, <3>1, ElementOfSeq DEF Piece
  <2>2. CASE ~(i <= Len(w))
    BY <2>2 DEF Piece
  <2> QED BY <2>1, <2>2
<1>2. Piece(w, 1) \in Seq(Bytes) /\ Piece(w, 2) \in Seq(Bytes) /\ Piece(w, 3) \in Seq(Bytes)
  BY <1>1
<1> QED BY <1>1, <1>2, ConcatProperties DEF Flat

\* What is left after the first piece.
LEMMA FlatTail ==
    ASSUME NEW w, PiecesOK(w), w # <<>>
    PROVE  /\ Head(w) \in Seq(Bytes) /\ Head(w) # <<>>
           /\ PiecesOK(Tail(w))
           /\ Flat(Tail(w)) \in Seq(Bytes)
           /\ Flat(w) = Head(w) \o Flat(Tail(w))
<1> DEFINE t == Tail(w)
<1>1. w \in Seq(Seq(Bytes)) /\ Len(w) \in Nat /\ Len(w) <= 3 /\ Len(w) # 0
  BY EmptySeq, LenProperties DEF PiecesOK
<1>2. /\ t \in Seq(Seq(Bytes)) /\ Len(t) = Len(w) - 1
      /\ \A i \in 1..Len(t) : t[i] = w[i + 1]
  BY <1>1, HeadTailProperties
<1>3. Head(w) = w[1] /\ 1 \in 1..Len(w)
  BY <1>1, HeadTailProperties
<1>4. Head(w) \in Seq(Bytes) /\ Head(w) # <<>>
  BY <1>1, <1>3, ElementOfSeq DEF PiecesOK
<1> HIDE DEF t
<1>5. PiecesOK(t)
  <2>1. \A i \in 1..Len(t) : i + 1 \in 1..Len(w)
    BY <1>1, <1>2
  <2>2. \A i \in 1..Len(t) : t[i] # <<>>
    BY <1>2, <2>1 DEF PiecesOK
  <2>3. Len(t) <= 3
    BY <1>1, <1>2
  <2> QED BY <1>2, <2>2, <2>3 DEF PiecesOK
<1>6. Flat(t) \in Seq(Bytes)
  BY <1>2, FlatType
<1>7. Piece(w, 1) = Head(w)
  BY <1>1, <1>3 DEF Piece
<1>8. Piece(t, 1) = Piece(w, 2)
  BY <1>1, <1>2 DEF Piece
<1>9. Piece(t, 2) = Piece(w, 3)
  BY <1>1, <1>2 DEF Piece
<1>10. Piece(t, 3) = <<>>
  BY <1>1, <1>2 DEF Piece
<1> DEFINE p == Head(w)
           q == Piece(w, 2)
           r == Piece(w, 3)
<1>11. p \in Seq(Bytes) /\ q \in Seq(Bytes) /\ r \in Seq(Bytes)
  BY <1>1, <1>4, FlatType
<1>12. Flat(w) = p \o q \o r /\ Flat(t) = q \o r \o <<>>
  BY <1>7, <1>8, <1>9, <1>10 DEF Flat
<1> HIDE DEF p, q, r
<1>13. (p \o q) \o r = p \o (q \o r)
  BY <1>11, Regroup
<1>14. q \o r \in Seq(Bytes)
  BY <1>11, ConcatProperties
<1>15. (q \o r) \o <<>> = q \o r
  BY <1>14, ConcatEmptySeq
<1>16. Flat(w) = p \o Flat(t)
  BY <1>12, <1>13, <1>15
<1> QED BY <1>4, <1>5, <1>6, <1>16 DEF p, t

LEMMA FlatNothing == Flat(<<>>) = <<>>
  BY DEF Flat, Piece

\* The number of a command in a file that begins with c others.
LEMMA Within ==
    ASSUME NEW c \in Nat, NEW m \in Nat, NEW k \in Nat, c + m = k, NEW i \in 1..m
    PROVE  c + i \in 1..k /\ c + i <= k + 1
  OBVIOUS

\* The number of the one that comes next.
LEMMA Beyond ==
    ASSUME NEW c \in Nat, NEW m \in Nat, NEW k \in Nat, c + m = k
    PROVE  c + (m + 1) = k + 1
  OBVIOUS

\* A head and its body are a command more.
LEMMA CommandIsRead ==
    ASSUME NEW f \in File, NEW log \in Seq(Command), NEW d \in Dbs, NEW size \in Sizes,
           Whole(f, log, d), Len(log) + 1 \in 1..MaxWrites
    PROVE  LET id == Len(log) + 1
               g == After(After(f, <<HeadByte(id, size)>>), Body(id, size))
           IN  Whole(g, Append(log, [db |-> d]), d)
<1> DEFINE id == Len(log) + 1
           h == HeadByte(id, size)
           f1 == After(f, <<h>>)
           g == After(f1, Body(id, size))
           c == [n |-> id, db |-> d]
           e == [db |-> d]
           more == Append(log, e)
           cmds == Append(f.cmds, c)
<1>1. /\ size \in Nat \ {0} /\ id \in 1..MaxWrites /\ id \in Nat /\ MaxWrites \in Nat /\ d \in Nat
      /\ Len(log) \in Nat
  BY SizesAssumption, DbsAssumption, BoundsAssumption, LenProperties
<1>2. /\ ~f.bad /\ f.missing = 0 /\ f.db = d /\ f.count + Len(f.cmds) = Len(log)
      /\ CommandsAreRight(f, log) /\ f.count \in Nat
      /\ f.cmds \in Seq([n : 1..MaxWrites, db : Dbs]) /\ Len(f.cmds) \in Nat
  <2>1. /\ ~f.bad /\ f.missing = 0 /\ f.count + Len(f.cmds) = Len(log) /\ CommandsAreRight(f, log)
        /\ (d = -1 \/ f.db = d)
    BY DEF Whole
  <2>2. d # -1
    BY <1>1
  <2>3. f.count \in 0..MaxWrites /\ f.cmds \in Seq([n : 1..MaxWrites, db : Dbs])
    BY FileFields
  <2>4. f.count \in Nat /\ Len(f.cmds) \in Nat
    BY <1>1, <2>3, LenProperties
  <2> QED BY <2>1, <2>2, <2>3, <2>4
<1> HIDE DEF id
<1>3. h \in Bytes /\ h.kind = "head" /\ h.n = id /\ h.size = size
  BY <1>1, BytesAssumption DEF ByteSet, HeadByte
<1> HIDE DEF h
<1>4. f1 \in File /\ f1 = [f EXCEPT !.cmd = id, !.missing = size]
  <2>1. f1 = ParseByte(f, h)
    BY <1>3, AfterOne
  <2>2. ParseByte(f, h) \in File
    BY <1>3, ParseByteType
  <2>3. ParseByte(f, h) = [f EXCEPT !.cmd = id, !.missing = size]
    BY <1>2, <1>3 DEF ParseByte
  <2> QED BY <2>1, <2>2, <2>3
<1> HIDE DEF f1
<1>5. /\ f1.missing = size /\ f1.cmd = id /\ f1.db = d /\ f1.cmds = f.cmds
      /\ f1.count = f.count /\ f1.bad = f.bad
  BY <1>2, <1>4 DEF File
<1>6. g = [f1 EXCEPT !.missing = 0, !.cmds = Append(@, [n |-> id, db |-> f1.db])]
  <2>1. size # 0 /\ id # 0
    BY <1>1
  <2>2. f1 \in File /\ ~f1.bad /\ f1.missing # 0 /\ f1.cmd # 0
    BY <1>2, <1>4, <1>5, <2>1, Zenon
  <2>3. After(f1, Body(f1.cmd, f1.missing)) = WithCommand(f1)
    BY <2>2, BodyIsRead
  <2> QED BY <1>5, <2>3 DEF WithCommand
<1>7. g.bad = f.bad /\ g.missing = 0 /\ g.count = f.count /\ g.db = d /\ g.cmds = cmds
  <2>1. [n |-> id, db |-> f1.db] = c
    BY <1>5
  <2> HIDE DEF c, g
  <2> QED BY <1>4, <1>5, <1>6, <2>1 DEF File
<1>8. c \in [n : 1..MaxWrites, db : Dbs] /\ e \in Command
  BY <1>1 DEF Command
<1> HIDE DEF g
<1>9. c.n = id /\ c.db = d /\ e.db = d
  OBVIOUS
<1> HIDE DEF c, e
<1>10. /\ Len(cmds) = Len(f.cmds) + 1 /\ cmds[Len(f.cmds) + 1] = c
       /\ \A i \in 1..Len(f.cmds) : cmds[i] = f.cmds[i]
  BY <1>2, <1>8, AppendProperties
<1>11. /\ Len(more) = Len(log) + 1 /\ more[Len(log) + 1] = e
       /\ \A i \in 1..Len(log) : more[i] = log[i]
  BY <1>8, AppendProperties
<1> HIDE DEF cmds, more
<1> DEFINE m == Len(f.cmds)
           k == Len(log)
<1>12. f.count \in Nat /\ m \in Nat /\ k \in Nat /\ f.count + m = k /\ id = k + 1
  BY <1>1, <1>2 DEF id
<1> HIDE DEF m, k
<1>13. CommandsAreRight(g, more)
  <2> SUFFICES ASSUME NEW i \in 1..Len(cmds)
               PROVE  /\ f.count + i <= Len(more)
                      /\ cmds[i] = [n |-> f.count + i, db |-> more[f.count + i].db]
    BY <1>7 DEF CommandsAreRight
  <2>1. CASE i \in 1..Len(f.cmds)
    <3>1. f.count + i \in 1..Len(log) /\ f.count + i <= Len(log) + 1
      <4>1. i \in 1..m
        BY <2>1 DEF m
      <4>2. f.count + i \in 1..k /\ f.count + i <= k + 1
        BY ONLY <1>12, <4>1, Within
      <4> QED BY <4>2 DEF k
    <3>2. f.cmds[i] = [n |-> f.count + i, db |-> log[f.count + i].db]
      BY <1>2, <2>1 DEF CommandsAreRight
    <3>3. more[f.count + i] = log[f.count + i]
      BY <1>11, <3>1
    <3> QED BY <1>10, <1>11, <2>1, <3>1, <3>2, <3>3
  <2>2. CASE i = Len(f.cmds) + 1
    <3>1. f.count + i = id /\ id = Len(log) + 1
      <4>1. i = m + 1
        BY <2>2 DEF m
      <4>2. f.count + i = k + 1
        <5>1. f.count + (m + 1) = k + 1
          BY ONLY <1>12, Beyond
        <5> QED BY ONLY <4>1, <5>1, Zenon
      <4>3. f.count + i = id /\ id = k + 1
        BY ONLY <1>12, <4>2
      <4> QED BY <4>3 DEF k
    <3>2. cmds[i] = [n |-> id, db |-> more[id].db]
      BY <1>9, <1>10, <1>11, <2>2, <3>1 DEF c
    <3> QED BY <1>1, <1>11, <3>1, <3>2
  <2>3. i \in 1..Len(f.cmds) \/ i = Len(f.cmds) + 1
    BY <1>2, <1>10
  <2> QED BY <2>1, <2>2, <2>3
<1>14. g.count + Len(g.cmds) = Len(more)
  BY <1>1, <1>2, <1>7, <1>10, <1>11
<1>15. Whole(g, more, d)
  BY <1>2, <1>7, <1>13, <1>14 DEF Whole
<1> QED BY <1>15 DEF g, f1, h, id, more, e

\* The file after SELECT, if the database changes.
Selected(f, d) == IF d = lastDb THEN f ELSE After(f, <<SelectByte(d)>>)

\* The pieces of a command are read one after the other.
LEMMA PiecesInTurn ==
    ASSUME TypeOK, NEW d \in Dbs, NEW size \in Sizes, Len(executed) < MaxWrites,
           NEW f \in File
    PROVE  LET id == Len(executed) + 1
           IN  /\ Selected(f, d) \in File
               /\ After(f, Flat(Pieces(d, size)))
                    = After(After(Selected(f, d), <<HeadByte(id, size)>>), Body(id, size))
<1> DEFINE id == Len(executed) + 1
           w == Pieces(d, size)
           x == <<SelectByte(d)>>
           y == <<HeadByte(id, size)>>
           z == Body(id, size)
           f1 == Selected(f, d)
<1>1. /\ id \in 1..MaxWrites /\ SelectByte(d) \in Bytes /\ HeadByte(id, size) \in Bytes
      /\ w \in Seq(Seq(Bytes))
      /\ IF d = lastDb
         THEN Len(w) = 2 /\ w[1] = y /\ w[2] = z
         ELSE Len(w) = 3 /\ w[1] = x /\ w[2] = y /\ w[3] = z
  BY PiecesAre
<1>2. x \in Seq(Bytes) /\ y \in Seq(Bytes)
  <2> HIDE DEF id
  <2> QED BY <1>1
<1>3. z \in Seq(Bytes)
  <2>1. size \in Nat
    BY SizesAssumption
  <2> HIDE DEF id
  <2> QED BY <1>1, <2>1, BodyBytes
<1>4. f1 = IF d = lastDb THEN f ELSE After(f, x)
  BY DEF Selected
<1> HIDE DEF x, y, z, w, f1, id
<1>5. f1 \in File
  BY <1>2, <1>4, AfterType
<1>6. CASE d = lastDb
  <2>1. Flat(w) = y \o z \o <<>>
    <3>1. Len(w) = 2 /\ w[1] = y /\ w[2] = z
      BY <1>1, <1>6
    <3>2. Piece(w, 1) = y /\ Piece(w, 2) = z /\ Piece(w, 3) = <<>>
      BY <3>1 DEF Piece
    <3> QED BY <3>2 DEF Flat
  <2>2. y \o z \in Seq(Bytes) /\ (y \o z) \o <<>> = y \o z
    BY <1>2, <1>3, ConcatProperties, ConcatEmptySeq
  <2>3. After(f1, y \o z) = After(After(f1, y), z)
    BY <1>2, <1>3, <1>5, AfterConcat
  <2>4. f1 = f
    BY <1>4, <1>6
  <2>5. After(f, Flat(w)) = After(After(f1, y), z)
    BY <2>1, <2>2, <2>3, <2>4
  <2> QED BY <1>5, <2>5 DEF w, f1, id, y, z
<1>7. CASE d # lastDb
  <2> DEFINE xy == x \o y
  <2>1. Flat(w) = xy \o z
    <3>1. Len(w) = 3 /\ w[1] = x /\ w[2] = y /\ w[3] = z
      BY <1>1, <1>7
    <3>2. Piece(w, 1) = x /\ Piece(w, 2) = y /\ Piece(w, 3) = z
      BY <3>1 DEF Piece
    <3> QED BY <3>2 DEF Flat
  <2>2. xy \in Seq(Bytes)
    BY <1>2, ConcatProperties
  <2>3. After(f, xy) = After(After(f, x), y)
    BY <1>2, AfterConcat
  <2> HIDE DEF xy
  <2>4. After(f, xy \o z) = After(After(f, xy), z)
    BY <1>3, <2>2, AfterConcat
  <2>5. f1 = After(f, x)
    BY <1>4, <1>7
  <2>6. After(f, Flat(w)) = After(After(f1, y), z)
    BY <2>1, <2>3, <2>4, <2>5
  <2> QED BY <1>5, <2>6 DEF w, f1, id, y, z
<1> QED BY <1>6, <1>7

\* So they are read, SELECT before them if the database changes.
LEMMA PiecesAreRead ==
    ASSUME TypeOK, NEW d \in Dbs, NEW size \in Sizes, Len(executed) < MaxWrites,
           NEW f \in File, Whole(f, executed, lastDb)
    PROVE  Whole(After(f, Flat(Pieces(d, size))),
                 Append(executed, [db |-> d]), d)
<1> DEFINE id == Len(executed) + 1
           f1 == Selected(f, d)
           f3 == After(After(f1, <<HeadByte(id, size)>>), Body(id, size))
<1>1. /\ id \in 1..MaxWrites /\ SelectByte(d) \in Bytes
      /\ executed \in Seq(Command) /\ d \in Nat /\ d # -1
  BY PiecesAre, DbsAssumption DEF TypeOK
<1>2. f1 \in File /\ After(f, Flat(Pieces(d, size))) = f3
  BY PiecesInTurn
<1>3. f1 \in File /\ Whole(f1, executed, d)
  <2>1. CASE d = lastDb
    BY <2>1 DEF Selected
  <2>2. CASE d # lastDb
    <3>1. f1 = [f EXCEPT !.db = d]
      <4>1. After(f, <<SelectByte(d)>>) = ParseByte(f, SelectByte(d))
        BY <1>1, AfterOne
      <4> QED BY <2>2, <4>1 DEF ParseByte, SelectByte, Whole, Selected
    <3> HIDE DEF f1
    <3>2. /\ f1 \in File /\ f1.db = d /\ f1.cmds = f.cmds /\ f1.count = f.count
          /\ f1.missing = f.missing /\ f1.bad = f.bad
      BY <3>1 DEF File
    <3> QED BY <3>2 DEF Whole, CommandsAreRight
  <2> QED BY <2>1, <2>2
<1>4. Whole(f3, Append(executed, [db |-> d]), d)
  <2> HIDE DEF f1
  <2> QED BY <1>1, <1>3, CommandIsRead
<1> QED BY <1>2, <1>4

\* They add at most one command.
LEMMA PiecesWeigh ==
    ASSUME TypeOK, NEW d \in Dbs, NEW size \in Sizes, Len(executed) < MaxWrites,
           NEW f \in File
    PROVE  Weight(After(f, Flat(Pieces(d, size)))) <= Weight(f) + 1
<1> DEFINE id == Len(executed) + 1
           B == {b \in Bytes : b.kind # "head"}
           x == SelectByte(d)
           y == HeadByte(id, size)
           z == Body(id, size)
           f1 == Selected(f, d)
           f2 == After(f1, <<y>>)
           f3 == After(f2, z)
<1>1. id \in 1..MaxWrites /\ x \in Bytes /\ y \in Bytes /\ x.kind # "head"
  BY PiecesAre DEF SelectByte
<1>2. f1 \in File /\ After(f, Flat(Pieces(d, size))) = f3
  BY PiecesInTurn
<1>3. z \in Seq(B)
  <2>1. size \in Nat
    BY SizesAssumption
  <2>2. [kind |-> "body", n |-> id] \in B
    BY <1>1, BytesAssumption DEF ByteSet
  <2> HIDE DEF B, id
  <2> QED BY <2>1, <2>2 DEF Body
<1> HIDE DEF x, y, z, id
<1>4. Weight(f1) = Weight(f)
  <2>1. CASE d = lastDb
    BY <2>1 DEF Selected
  <2>2. CASE d # lastDb
    <3>1. f1 = ParseByte(f, x)
      BY <1>1, <2>2, AfterOne DEF Selected, x
    <3> QED BY <1>1, <3>1, WeightOfByte
  <2> QED BY <2>1, <2>2
<1> HIDE DEF f1
<1>5. f2 = ParseByte(f1, y)
  BY <1>1, <1>2, AfterOne
<1> HIDE DEF f2
<1>6. f2 \in File /\ Weight(f2) <= Weight(f1) + 1
  BY <1>1, <1>2, <1>5, ParseByteType, WeightOfByte
<1>7. Weight(f3) = Weight(f2)
  BY <1>3, <1>6, WeightStays
<1> HIDE DEF f3
<1> QED BY <1>2, <1>4, <1>6, <1>7

-----------------------------------------------------------------------------
(***************************************************************************)
(* The controller's buffer.                                                *)
(***************************************************************************)

Early == [ring : Seq(Bytes), back : Seq(Bytes)]
EarlyBytes(b) == b.ring \o b.back

LEMMA EarlyType ==
    ASSUME NEW b \in Early
    PROVE  b.ring \in Seq(Bytes) /\ b.back \in Seq(Bytes) /\ EarlyBytes(b) \in Seq(Bytes)
<1>1. b.ring \in Seq(Bytes) /\ b.back \in Seq(Bytes)
  BY DEF Early
<1>2. b.ring \o b.back \in Seq(Bytes)
  BY <1>1, ConcatProperties
<1> QED BY <1>1, <1>2 DEF EarlyBytes

\* Whichever of the two buffers takes it, a piece comes last.
LEMMA WriteEarlyIs ==
    ASSUME NEW b \in Early, NEW s \in Seq(Bytes)
    PROVE  WriteEarly(b, s) \in Early /\ EarlyBytes(WriteEarly(b, s)) = EarlyBytes(b) \o s
<1>1. b.ring \in Seq(Bytes) /\ b.back \in Seq(Bytes)
  BY DEF Early
<1> DEFINE p == b.ring
           q == b.back
<1>2. p \in Seq(Bytes) /\ q \in Seq(Bytes)
  BY <1>1
<1>3. p \o s \in Seq(Bytes) /\ q \o s \in Seq(Bytes)
  <2> HIDE DEF p, q
  <2> QED BY <1>2, ConcatProperties
<1>4. CASE b.back # <<>> \/ Len(b.ring) + Len(s) > Capacity
  <2>1. WriteEarly(b, s) = [b EXCEPT !.back = q \o s]
    BY <1>4 DEF WriteEarly
  <2>2. (p \o q) \o s = p \o (q \o s)
    <3> HIDE DEF p, q
    <3> QED BY <1>2, Regroup
  <2> DEFINE x == q \o s
  <2>3. x \in Seq(Bytes)
    BY <1>3
  <2>4. WriteEarly(b, s) = [b EXCEPT !.back = x]
    BY <2>1
  <2>5. EarlyBytes(b) \o s = p \o x
    BY <2>2 DEF EarlyBytes
  <2> HIDE DEF x
  <2>6. WriteEarly(b, s) \in Early /\ WriteEarly(b, s).ring = p /\ WriteEarly(b, s).back = x
    BY <2>3, <2>4 DEF Early
  <2> QED BY <2>5, <2>6 DEF EarlyBytes
<1>5. CASE ~(b.back # <<>> \/ Len(b.ring) + Len(s) > Capacity)
  <2>1. WriteEarly(b, s) = [b EXCEPT !.ring = p \o s] /\ b.back = <<>>
    BY <1>5 DEF WriteEarly
  <2> DEFINE x == p \o s
  <2>2. x \in Seq(Bytes) /\ x \o <<>> = x /\ p \o <<>> = p
    <3> HIDE DEF p
    <3> QED BY <1>2, <1>3, ConcatEmptySeq
  <2>3. WriteEarly(b, s) = [b EXCEPT !.ring = x]
    BY <2>1
  <2>4. EarlyBytes(b) \o s = x
    BY <2>1, <2>2 DEF EarlyBytes
  <2> HIDE DEF x
  <2>5. WriteEarly(b, s) \in Early /\ WriteEarly(b, s).ring = x /\ WriteEarly(b, s).back = <<>>
    BY <2>1, <2>2, <2>3 DEF Early
  <2> QED BY <2>2, <2>4, <2>5 DEF EarlyBytes
<1> QED BY <1>4, <1>5

\* WriteAllEarly is the last of what it goes through.
EarlySteps(g, b, w) ==
    \A n \in 0..Len(w) : g[n] = IF n = 0 THEN b ELSE WriteEarly(g[n - 1], w[n])

LEMMA WriteAllEarlySteps ==
    ASSUME NEW b \in Early, NEW w \in Seq(Seq(Bytes))
    PROVE  \E g : EarlySteps(g, b, w) /\ WriteAllEarly(b, w) = g[Len(w)]
<1> DEFINE T == Seq(Bytes)
           F == [x \in Early \X T |-> WriteEarly(x[1], x[2])]
           At(g, n) == IF n = 0 THEN b ELSE WriteEarly(g[n - 1], w[n])
           g == CHOOSE g : g = [n \in 0..Len(w) |-> At(g, n)]
<1>1. \A h \in Early, s \in T : F[<<h, s>>] = WriteEarly(h, s) /\ WriteEarly(h, s) \in Early
  BY WriteEarlyIs
<1>2. w \in Seq(T)
  OBVIOUS
<1> HIDE DEF F, T
<1>3. PICK h \in [0..Len(w) -> Early] :
         \A n \in 0..Len(w) : h[n] = IF n = 0 THEN b ELSE F[<<h[n - 1], w[n]>>]
  <2>1. StepOf(F, Early, T)
    BY <1>1, Zenon DEF StepOf
  <2> QED BY <1>2, <2>1, Recursion
<1>4. \A n \in 0..Len(w) : h[n] = At(h, n)
  <2> SUFFICES ASSUME NEW n \in 0..Len(w), n # 0 PROVE h[n] = WriteEarly(h[n - 1], w[n])
    BY <1>3
  <2>1. n \in 1..Len(w) /\ n - 1 \in 0..Len(w)
    BY Len(w) \in Nat
  <2>2. h[n - 1] \in Early /\ w[n] \in T
    BY <1>2, <1>3, <2>1, ElementOfSeq
  <2> QED BY <1>1, <1>3, <2>2
<1>5. h = [n \in 0..Len(w) |-> At(h, n)]
  <2> HIDE DEF At
  <2> QED BY <1>3, <1>4
<1>6. g = [n \in 0..Len(w) |-> At(g, n)]
  BY <1>5
<1>7. WriteAllEarly(b, w) = g[Len(w)]
  BY Zenon DEF WriteAllEarly
<1> HIDE DEF g
<1>8. EarlySteps(g, b, w)
  BY <1>6 DEF EarlySteps
<1> QED BY <1>7, <1>8

\* The pieces written come last, one after the other.
LEMMA WriteAllEarlyIs ==
    ASSUME NEW b \in Early, NEW w, PiecesOK(w)
    PROVE  /\ WriteAllEarly(b, w) \in Early
           /\ EarlyBytes(WriteAllEarly(b, w)) = EarlyBytes(b) \o Flat(w)
<1>1. w \in Seq(Seq(Bytes)) /\ Len(w) \in 0..3
  <2>1. w \in Seq(Seq(Bytes)) /\ Len(w) <= 3
    BY DEF PiecesOK
  <2>2. Len(w) \in Nat
    BY <2>1
  <2>3. Len(w) \in 0..3
    <3> DEFINE n == Len(w)
    <3>1. n \in Nat /\ n <= 3
      BY <2>1, <2>2
    <3> HIDE DEF n
    <3>2. n \in 0..3
      BY <3>1
    <3> QED BY <3>2 DEF n
  <2> QED BY <2>1, <2>3
<1>2. PICK g : EarlySteps(g, b, w) /\ WriteAllEarly(b, w) = g[Len(w)]
  BY <1>1, WriteAllEarlySteps
<1> DEFINE e == EarlyBytes(b)
           x == Piece(w, 1)
           y == Piece(w, 2)
           z == Piece(w, 3)
<1>3. x \in Seq(Bytes) /\ y \in Seq(Bytes) /\ z \in Seq(Bytes) /\ e \in Seq(Bytes)
  BY <1>1, FlatType, EarlyType
<1>4. /\ 1 <= Len(w) => x = w[1]
      /\ 2 <= Len(w) => y = w[2]
      /\ 3 <= Len(w) => z = w[3]
      /\ ~(1 <= Len(w)) => x = <<>>
      /\ ~(2 <= Len(w)) => y = <<>>
      /\ ~(3 <= Len(w)) => z = <<>>
  BY DEF Piece
<1>5. Flat(w) = x \o y \o z
  BY DEF Flat
<1> HIDE DEF e, x, y, z
<1>6. /\ g[0] = b
      /\ 1 <= Len(w) => g[1] = WriteEarly(g[0], x)
      /\ 2 <= Len(w) => g[2] = WriteEarly(g[1], y)
      /\ 3 <= Len(w) => g[3] = WriteEarly(g[2], z)
  <2>1. /\ 0 \in 0..Len(w) /\ 1 # 0 /\ 2 # 0 /\ 3 # 0 /\ 1 - 1 = 0 /\ 2 - 1 = 1 /\ 3 - 1 = 2
        /\ 1 <= Len(w) => 1 \in 0..Len(w)
        /\ 2 <= Len(w) => 2 \in 0..Len(w)
        /\ 3 <= Len(w) => 3 \in 0..Len(w)
    BY <1>1
  <2> QED BY <1>2, <1>4, <2>1 DEF EarlySteps
<1>7. x \o y \in Seq(Bytes) /\ e \o x \in Seq(Bytes) /\ e \o x \o y \in Seq(Bytes)
  BY <1>3, ConcatProperties
<1>8. (e \o x) \o y = e \o (x \o y)
  BY <1>3, Regroup
<1>9. (e \o (x \o y)) \o z = e \o ((x \o y) \o z)
  <2> DEFINE xy == x \o y
  <2>1. xy \in Seq(Bytes)
    BY <1>7
  <2> HIDE DEF xy
  <2>2. (e \o xy) \o z = e \o (xy \o z)
    BY <1>3, <2>1, Regroup
  <2> QED BY <2>2 DEF xy
<1>10. g[0] \in Early /\ EarlyBytes(g[0]) = e
  BY <1>6 DEF e
<1>11. 1 <= Len(w) => g[1] \in Early /\ EarlyBytes(g[1]) = e \o x
  BY <1>3, <1>6, <1>10, WriteEarlyIs
<1>12. 2 <= Len(w) => g[2] \in Early /\ EarlyBytes(g[2]) = e \o x \o y
  <2> SUFFICES ASSUME 2 <= Len(w) PROVE g[2] \in Early /\ EarlyBytes(g[2]) = e \o x \o y
    OBVIOUS
  <2>1. g[1] \in Early /\ EarlyBytes(g[1]) = e \o x
    <3>1. 1 <= Len(w)
      BY <1>1
    <3> QED BY <1>11, <3>1
  <2> DEFINE h == g[1]
  <2>2. h \in Early
    BY <2>1
  <2> HIDE DEF h
  <2>3. WriteEarly(h, y) \in Early /\ EarlyBytes(WriteEarly(h, y)) = EarlyBytes(h) \o y
    BY <1>3, <2>2, WriteEarlyIs
  <2> QED BY <1>6, <2>1, <2>3 DEF h
<1>13. 3 <= Len(w) => g[3] \in Early /\ EarlyBytes(g[3]) = e \o x \o y \o z
  <2> SUFFICES ASSUME 3 <= Len(w) PROVE g[3] \in Early /\ EarlyBytes(g[3]) = e \o x \o y \o z
    OBVIOUS
  <2>1. g[2] \in Early /\ EarlyBytes(g[2]) = e \o x \o y
    <3>1. 2 <= Len(w)
      BY <1>1
    <3> QED BY <1>12, <3>1
  <2> DEFINE h == g[2]
  <2>2. h \in Early
    BY <2>1
  <2> HIDE DEF h
  <2>3. WriteEarly(h, z) \in Early /\ EarlyBytes(WriteEarly(h, z)) = EarlyBytes(h) \o z
    BY <1>3, <2>2, WriteEarlyIs
  <2> QED BY <1>6, <2>1, <2>3 DEF h
<1>14. /\ e \o <<>> = e /\ x \o <<>> = x /\ (x \o y) \o <<>> = x \o y /\ <<>> \o <<>> = <<>>
  BY <1>3, <1>7, ConcatEmptySeq
<1>15. CASE Len(w) = 0
  <2>1. Flat(w) = <<>>
    BY <1>4, <1>5, <1>14, <1>15
  <2> QED BY <1>2, <1>10, <1>14, <1>15, <2>1 DEF e
<1>16. CASE Len(w) = 1
  <2>1. Flat(w) = x
    <3>1. ~(2 <= Len(w)) /\ ~(3 <= Len(w))
      BY <1>16
    <3>2. y = <<>> /\ z = <<>>
      BY <1>4, <3>1
    <3> QED BY <1>5, <1>14, <3>2
  <2> QED BY <1>2, <1>11, <1>16, <2>1 DEF e
<1>17. CASE Len(w) = 2
  <2>1. Flat(w) = x \o y
    BY <1>4, <1>5, <1>14, <1>17
  <2> QED BY <1>2, <1>8, <1>12, <1>17, <2>1 DEF e
<1>18. CASE Len(w) = 3
  <2>1. 3 <= Len(w)
    BY <1>18
  <2>2. g[3] \in Early /\ EarlyBytes(g[3]) = e \o x \o y \o z
    BY <1>13, <2>1
  <2>3. e \o x \o y \o z = e \o Flat(w)
    BY <1>5, <1>8, <1>9
  <2> QED BY <1>2, <1>18, <2>2, <2>3 DEF e
<1> QED BY <1>1, <1>15, <1>16, <1>17, <1>18

-----------------------------------------------------------------------------
(***************************************************************************)
(* What is still to be written to the file, in its order: the controller's  *)
(* buffer, then that of the AOF thread, then the pieces of a command.       *)
(***************************************************************************)

\* Concatenation, by its laws alone.
Cat(s, t) == s \o t

LEMMA CatType ==
    ASSUME NEW a \in Seq(Bytes), NEW b \in Seq(Bytes)
    PROVE  Cat(a, b) \in Seq(Bytes)
BY ConcatProperties DEF Cat

LEMMA CatRegroup ==
    ASSUME NEW a \in Seq(Bytes), NEW b \in Seq(Bytes), NEW c \in Seq(Bytes)
    PROVE  Cat(Cat(a, b), c) = Cat(a, Cat(b, c))
BY Regroup DEF Cat

LEMMA CatNothing ==
    ASSUME NEW a \in Seq(Bytes)
    PROVE  Cat(a, <<>>) = a /\ Cat(<<>>, a) = a
BY ConcatEmptySeq DEF Cat

StreamOf(e, t, r, b, w) == Cat(EarlyBytes(e), Cat(Cat(t, Cat(r, b)), Flat(w)))

LEMMA StreamType ==
    ASSUME NEW e \in Early, NEW t \in Seq(Bytes), NEW r \in Seq(Bytes), NEW b \in Seq(Bytes),
           NEW w \in Seq(Seq(Bytes))
    PROVE  /\ EarlyBytes(e) \in Seq(Bytes) /\ Flat(w) \in Seq(Bytes)
           /\ Cat(t, Cat(r, b)) \in Seq(Bytes)
           /\ StreamOf(e, t, r, b, w) \in Seq(Bytes)
<1>1. EarlyBytes(e) \in Seq(Bytes) /\ Flat(w) \in Seq(Bytes)
  BY EarlyType, FlatType
<1>2. Cat(t, Cat(r, b)) \in Seq(Bytes)
  BY CatType
<1>3. Cat(Cat(t, Cat(r, b)), Flat(w)) \in Seq(Bytes)
  BY <1>1, <1>2, CatType
<1>4. StreamOf(e, t, r, b, w) \in Seq(Bytes)
  BY <1>1, <1>3, CatType DEF StreamOf
<1> QED BY <1>1, <1>2, <1>4

\* A piece goes from the writer to the end of the ring, if there is no backup buffer.
LEMMA StreamWriteRing ==
    ASSUME NEW e \in Early, NEW t \in Seq(Bytes), NEW r \in Seq(Bytes),
           NEW w, PiecesOK(w), w # <<>>
    PROVE  StreamOf(e, t, Cat(r, Head(w)), <<>>, Tail(w)) = StreamOf(e, t, r, <<>>, w)
<1> DEFINE h == Head(w)
           f == Flat(Tail(w))
<1>1. h \in Seq(Bytes) /\ f \in Seq(Bytes) /\ Flat(w) = Cat(h, f)
  BY FlatTail DEF Cat
<1> HIDE DEF h, f
<1>2. Cat(r, h) \in Seq(Bytes) /\ Cat(t, r) \in Seq(Bytes)
  BY <1>1, CatType
<1>3. Cat(Cat(r, h), <<>>) = Cat(r, h) /\ Cat(r, <<>>) = r
  BY <1>2, CatNothing
<1>4. Cat(Cat(t, Cat(r, h)), f) = Cat(Cat(Cat(t, r), h), f)
  BY <1>1, CatRegroup
<1>5. Cat(Cat(Cat(t, r), h), f) = Cat(Cat(t, r), Cat(h, f))
  BY <1>1, <1>2, CatRegroup
<1>6. Cat(Cat(t, Cat(Cat(r, h), <<>>)), f) = Cat(Cat(t, Cat(r, <<>>)), Flat(w))
  BY <1>1, <1>3, <1>4, <1>5
<1> QED BY <1>6 DEF StreamOf, h, f

\* A piece goes from the writer to the end of the backup buffer.
LEMMA StreamPushBack ==
    ASSUME NEW e \in Early, NEW t \in Seq(Bytes), NEW r \in Seq(Bytes), NEW b \in Seq(Bytes),
           NEW w, PiecesOK(w), w # <<>>
    PROVE  StreamOf(e, t, r, Cat(b, Head(w)), Tail(w)) = StreamOf(e, t, r, b, w)
<1> DEFINE h == Head(w)
           f == Flat(Tail(w))
           q == Cat(t, Cat(r, b))
<1>1. h \in Seq(Bytes) /\ f \in Seq(Bytes) /\ Flat(w) = Cat(h, f)
  BY FlatTail DEF Cat
<1> HIDE DEF h, f
<1>2. Cat(r, b) \in Seq(Bytes) /\ q \in Seq(Bytes)
  BY CatType
<1>3. Cat(r, Cat(b, h)) = Cat(Cat(r, b), h)
  BY <1>1, CatRegroup
<1>4. Cat(t, Cat(Cat(r, b), h)) = Cat(q, h)
  BY <1>1, <1>2, CatRegroup
<1>5. Cat(Cat(q, h), f) = Cat(q, Cat(h, f))
  BY <1>1, <1>2, CatRegroup
<1>6. Cat(Cat(t, Cat(r, Cat(b, h))), f) = Cat(q, Flat(w))
  BY <1>1, <1>3, <1>4, <1>5
<1> QED BY <1>6 DEF StreamOf, h, f

\* The backup buffer becomes tmpBuf_, and the ring is empty.
LEMMA StreamFetchBack ==
    ASSUME NEW b \in Seq(Bytes)
    PROVE  \A e, w : StreamOf(e, b, <<>>, <<>>, w) = StreamOf(e, <<>>, <<>>, b, w)
<1>1. <<>> \in Seq(Bytes)
  OBVIOUS
<1>2. Cat(<<>>, <<>>) = <<>> /\ Cat(b, <<>>) = b /\ Cat(<<>>, b) = b
  BY <1>1, CatNothing
<1>3. Cat(b, Cat(<<>>, <<>>)) = Cat(<<>>, Cat(<<>>, b))
  BY <1>2
<1> QED BY <1>3 DEF StreamOf

LEMMA EarlyNothing == Nothing \in Early /\ EarlyBytes(Nothing) = <<>>
<1>1. Nothing \in Early /\ Nothing.ring = <<>> /\ Nothing.back = <<>>
  BY DEF Nothing, Early
<1>2. <<>> \o <<>> = <<>>
  OBVIOUS
<1> QED BY <1>1, <1>2, Zenon DEF EarlyBytes

\* What the thread takes from tmpBuf_, or from the ring, comes first.
LEMMA StreamSkipTmp ==
    ASSUME NEW a \in Seq(Bytes), NEW t \in Seq(Bytes), NEW r \in Seq(Bytes), NEW b \in Seq(Bytes),
           NEW w \in Seq(Seq(Bytes))
    PROVE  StreamOf(Nothing, Cat(a, t), r, b, w) = Cat(a, StreamOf(Nothing, t, r, b, w))
<1> DEFINE p == Cat(r, b)
           q == Cat(t, p)
           f == Flat(w)
           x == Cat(q, f)
<1>1. p \in Seq(Bytes) /\ f \in Seq(Bytes)
  BY CatType, FlatType
<1>2. Cat(Cat(a, t), p) = Cat(a, q)
  BY <1>1, CatRegroup
<1>3. q \in Seq(Bytes)
  BY <1>1, CatType
<1>4. Cat(Cat(a, q), f) = Cat(a, x)
  BY <1>1, <1>3, CatRegroup
<1>5. x \in Seq(Bytes) /\ Cat(a, x) \in Seq(Bytes)
  BY <1>1, <1>3, CatType
<1>6. Cat(<<>>, x) = x /\ Cat(<<>>, Cat(a, x)) = Cat(a, x)
  BY <1>5, CatNothing
<1>7. StreamOf(Nothing, t, r, b, w) = x
  BY <1>6, EarlyNothing DEF StreamOf
<1>8. StreamOf(Nothing, Cat(a, t), r, b, w) = Cat(a, x)
  BY <1>2, <1>4, <1>6, EarlyNothing DEF StreamOf
<1> QED BY <1>7, <1>8

LEMMA StreamSkipRing ==
    ASSUME NEW a \in Seq(Bytes), NEW r \in Seq(Bytes), NEW b \in Seq(Bytes),
           NEW w \in Seq(Seq(Bytes))
    PROVE  StreamOf(Nothing, <<>>, Cat(a, r), b, w) = Cat(a, StreamOf(Nothing, <<>>, r, b, w))
<1> DEFINE p == Cat(r, b)
           f == Flat(w)
           x == Cat(p, f)
<1>1. p \in Seq(Bytes) /\ f \in Seq(Bytes) /\ Cat(a, p) \in Seq(Bytes)
  BY CatType, FlatType
<1>2. Cat(Cat(a, r), b) = Cat(a, p)
  BY CatRegroup
<1>3. Cat(Cat(a, p), f) = Cat(a, x)
  BY <1>1, CatRegroup
<1>4. x \in Seq(Bytes) /\ Cat(a, x) \in Seq(Bytes)
  BY <1>1, CatType
<1>5. /\ Cat(<<>>, p) = p /\ Cat(<<>>, Cat(a, p)) = Cat(a, p)
      /\ Cat(<<>>, x) = x /\ Cat(<<>>, Cat(a, x)) = Cat(a, x)
  BY <1>1, <1>4, CatNothing
<1>6. StreamOf(Nothing, <<>>, r, b, w) = x
  BY <1>5, EarlyNothing DEF StreamOf
<1>7. StreamOf(Nothing, <<>>, Cat(a, r), b, w) = Cat(a, x)
  BY <1>2, <1>3, <1>5, EarlyNothing DEF StreamOf
<1> QED BY <1>6, <1>7

\* What the thread drains, of the controller's buffer, comes first.
WithoutRing(e) == [e EXCEPT !.ring = <<>>]
WithoutBack(e) == [e EXCEPT !.back = <<>>]

LEMMA StreamDrainRing ==
    ASSUME NEW e \in Early, NEW t \in Seq(Bytes), NEW r \in Seq(Bytes), NEW b \in Seq(Bytes),
           NEW w \in Seq(Seq(Bytes))
    PROVE  /\ WithoutRing(e) \in Early
           /\ StreamOf(e, t, r, b, w) = Cat(e.ring, StreamOf(WithoutRing(e), t, r, b, w))
<1> DEFINE x == Cat(Cat(t, Cat(r, b)), Flat(w))
<1>1. e.ring \in Seq(Bytes) /\ e.back \in Seq(Bytes)
  BY EarlyType
<1>2. /\ WithoutRing(e) \in Early /\ WithoutRing(e).ring = <<>> /\ WithoutRing(e).back = e.back
  <2> DEFINE z == <<>>
  <2>1. z \in Seq(Bytes)
    OBVIOUS
  <2>2. WithoutRing(e) = [e EXCEPT !.ring = z]
    BY DEF WithoutRing
  <2> HIDE DEF z
  <2>3. WithoutRing(e) \in Early
    BY <2>1, <2>2 DEF Early
  <2>4. WithoutRing(e).ring = z /\ WithoutRing(e).back = e.back
    BY <2>2 DEF Early
  <2> QED BY <2>3, <2>4 DEF z
<1>3. x \in Seq(Bytes)
  <2>1. Flat(w) \in Seq(Bytes)
    BY FlatType
  <2>2. Cat(t, Cat(r, b)) \in Seq(Bytes)
    BY CatType
  <2> QED BY <2>1, <2>2, CatType
<1> HIDE DEF x
<1>4. Cat(Cat(e.ring, e.back), x) = Cat(e.ring, Cat(e.back, x))
  BY <1>1, <1>3, CatRegroup
<1>5. EarlyBytes(e) = Cat(e.ring, e.back)
  BY DEF EarlyBytes, Cat
<1>6. EarlyBytes(WithoutRing(e)) = e.back
  <2>1. EarlyBytes(WithoutRing(e)) = Cat(<<>>, e.back)
    BY <1>2 DEF EarlyBytes, Cat
  <2> QED BY <1>1, <2>1, CatNothing
<1> QED BY <1>2, <1>4, <1>5, <1>6 DEF StreamOf, x

LEMMA StreamDrainBack ==
    ASSUME NEW e \in Early, e.ring = <<>>,
           NEW t \in Seq(Bytes), NEW r \in Seq(Bytes), NEW b \in Seq(Bytes),
           NEW w \in Seq(Seq(Bytes))
    PROVE  /\ WithoutBack(e) \in Early
           /\ StreamOf(e, t, r, b, w) = Cat(e.back, StreamOf(WithoutBack(e), t, r, b, w))
<1> DEFINE x == Cat(Cat(t, Cat(r, b)), Flat(w))
<1>1. e.back \in Seq(Bytes) /\ <<>> \in Seq(Bytes)
  BY EarlyType
<1>2. /\ WithoutBack(e) \in Early /\ WithoutBack(e).ring = <<>> /\ WithoutBack(e).back = <<>>
  BY DEF Early, WithoutBack
<1>3. x \in Seq(Bytes)
  <2>1. Flat(w) \in Seq(Bytes)
    BY FlatType
  <2>2. Cat(t, Cat(r, b)) \in Seq(Bytes)
    BY CatType
  <2> QED BY <2>1, <2>2, CatType
<1> HIDE DEF x
<1>4. EarlyBytes(e) = e.back
  <2>1. EarlyBytes(e) = Cat(<<>>, e.back)
    BY DEF EarlyBytes, Cat
  <2> QED BY <1>1, <2>1, CatNothing
<1>5. EarlyBytes(WithoutBack(e)) = <<>>
  <2>1. EarlyBytes(WithoutBack(e)) = Cat(<<>>, <<>>)
    BY <1>2 DEF EarlyBytes, Cat
  <2> QED BY <1>1, <2>1, CatNothing
<1>6. Cat(<<>>, x) = x
  BY <1>3, CatNothing
<1> QED BY <1>2, <1>4, <1>5, <1>6 DEF StreamOf, x

\* The pieces of a new command come last.
LEMMA StreamWritePieces ==
    ASSUME NEW e \in Early, NEW t \in Seq(Bytes), NEW r \in Seq(Bytes), NEW b \in Seq(Bytes),
           NEW w \in Seq(Seq(Bytes))
    PROVE  StreamOf(e, t, r, b, w) = Cat(StreamOf(e, t, r, b, <<>>), Flat(w))
<1> DEFINE x == EarlyBytes(e)
           q == Cat(t, Cat(r, b))
           f == Flat(w)
<1>1. x \in Seq(Bytes) /\ f \in Seq(Bytes) /\ q \in Seq(Bytes)
  BY StreamType
<1> HIDE DEF x, q, f
<1>2. Cat(q, Flat(<<>>)) = q
  BY <1>1, CatNothing, FlatNothing
<1>3. Cat(Cat(x, q), f) = Cat(x, Cat(q, f))
  BY <1>1, CatRegroup
<1> QED BY <1>2, <1>3 DEF StreamOf, x, q, f

\* Nothing but the controller's buffer.
LEMMA StreamEarly ==
    ASSUME NEW e \in Early
    PROVE  StreamOf(e, <<>>, <<>>, <<>>, <<>>) = EarlyBytes(e)
<1>1. <<>> \in Seq(Bytes) /\ EarlyBytes(e) \in Seq(Bytes)
  BY EarlyType
<1>2. Cat(<<>>, <<>>) = <<>> /\ Cat(EarlyBytes(e), <<>>) = EarlyBytes(e)
  BY <1>1, CatNothing
<1> QED BY <1>2, FlatNothing DEF StreamOf

-----------------------------------------------------------------------------
(***************************************************************************)
(* The inductive invariant.                                                *)
(***************************************************************************)

Stream == StreamOf(early, tmp, ring, back, writing)

\* Who waits for whom, and what is empty then.
ThreadInv ==
    /\ alive <=> rewrite.phase = NoRewrite
    /\ thread = "none" <=> rewrite.phase = "running"
    /\ thread \in {"loop", "done"} => early = Nothing
    /\ thread = "none" => tmp = <<>> /\ ring = <<>> /\ back = <<>>
    /\ rewrite.phase # NoRewrite => writing = <<>>
    /\ PiecesOK(writing)
    /\ locked # <<>> => writing # <<>> /\ locked = Head(writing)
    /\ overtaken => disordered
    /\ dropped => rewrite.phase = "running"
    /\ rewrite.phase = "stopping" => /\ rewrite.image.count = Len(executed)
                                     /\ rewrite.image.from = lastDb

\* With what is still to be written, the file stands for all of the commands.
StreamInv == Sound /\ ~dropped => Whole(After(file, Stream), executed, lastDb)

\* So will the rewritten file, with what comes while it is written.
ImageInv ==
    (/\ rewrite.phase = "running"
     /\ rewrite.image.from = -1 \/ rewrite.image.db = rewrite.image.from)
    => Whole(After(FileOf(rewrite.image), EarlyBytes(early)), executed, lastDb)

\* The file stands for the first commands.
FileInv == Sound => Right(file, executed)

\* No command comes twice: unless the server did not start from it, not even a file that
\* misses some stands for more than were executed, nor for more than the rewritten one.
RoomInv ==
    ~disordered =>
       /\ ~apart => Weight(After(file, Stream)) <= Len(executed)
       /\ rewrite.phase = "running" =>
             /\ ~apart => Weight(file) <= rewrite.image.count
             /\ Weight(After(FileOf(rewrite.image), EarlyBytes(early))) <= Len(executed)

\* An image is of commands executed, whatever became of the file behind it.
CountInv ==
    /\ file.count <= Len(executed)
    /\ rewrite.phase # NoRewrite => rewrite.image.count <= Len(executed)

Core == TypeOK /\ BufferInv /\ ThreadInv /\ StreamInv /\ ImageInv /\ FileInv /\ RoomInv

Inv == Core /\ CountInv

\* TypeOK but for the buffer.
LogicTypeOK ==
    /\ executed \in Seq(Command) /\ Len(executed) <= MaxWrites
    /\ writing \in Seq(Seq(Bytes))
    /\ lastDb \in Dbs \cup {-1}
    /\ early \in [ring : Seq(Bytes), back : Seq(Bytes)]
    /\ thread \in {"none", "drain", "loop", "done"}
    /\ alive \in BOOLEAN
    /\ rewrite \in {[phase |-> NoRewrite, image |-> NoImage]}
                     \cup [phase : {"stopping", "running"}, image : Image]
    /\ file \in File
    /\ up \in BOOLEAN
    /\ used \in [rewrites : 0..MaxRewrites, crashes : 0..MaxCrashes]
    /\ \A h \in {gap, dropped, misplaced, disordered, apart} : h \in BOOLEAN
    /\ alive => thread \in {"drain", "loop"}

LEMMA Types ==
    ASSUME TypeOK
    PROVE  /\ executed \in Seq(Command) /\ Len(executed) \in Nat /\ Len(executed) <= MaxWrites
           /\ writing \in Seq(Seq(Bytes))
           /\ lastDb \in Dbs \cup {-1}
           /\ early \in Early
           /\ file \in File
           /\ tmp \in Seq(Bytes) /\ ring \in Seq(Bytes) /\ back \in Seq(Bytes)
           /\ EarlyBytes(early) \in Seq(Bytes) /\ Stream \in Seq(Bytes)
<1>1. /\ executed \in Seq(Command) /\ Len(executed) <= MaxWrites
      /\ writing \in Seq(Seq(Bytes)) /\ lastDb \in Dbs \cup {-1}
      /\ early \in Early /\ file \in File
      /\ tmp \in Seq(Bytes) /\ ring \in Seq(Bytes) /\ back \in Seq(Bytes)
  BY DEF TypeOK, BufferTypeOK, Early
<1>2. Len(executed) \in Nat
  BY <1>1, LenProperties
<1>3. EarlyBytes(early) \in Seq(Bytes) /\ Stream \in Seq(Bytes)
  BY <1>1, StreamType DEF Stream
<1> QED BY <1>1, <1>2, <1>3

LEMMA TypeParts == TypeOK <=> BufferTypeOK /\ LogicTypeOK
BY DEF TypeOK, LogicTypeOK

LEMMA TypePartsNext == TypeOK' <=> BufferTypeOK' /\ LogicTypeOK'
BY TypeParts, PTL

StreamTypes ==
    /\ executed \in Seq(Command) /\ writing \in Seq(Seq(Bytes))
    /\ early \in Early /\ file \in File
    /\ tmp \in Seq(Bytes) /\ ring \in Seq(Bytes) /\ back \in Seq(Bytes)
    /\ Stream \in Seq(Bytes)

LEMMA TypesNext == TypeOK' => StreamTypes'
<1>1. TypeOK => StreamTypes
  BY Types DEF StreamTypes
<1> QED BY <1>1, PTL

LEMMA NewBufferInvNext == NewBuffer' => BufferInv'
BY NewBufferInv, PTL

\* What is there when the file is whole: the first commands, in the file.
LEMMA FileFromStream ==
    TypeOK /\ Whole(After(file, Stream), executed, lastDb) => Right(file, executed)
<1> SUFFICES ASSUME TypeOK, Whole(After(file, Stream), executed, lastDb)
             PROVE  Right(file, executed)
  OBVIOUS
<1>1. file \in File /\ Stream \in Seq(Bytes) /\ executed \in Seq(Command)
  BY Types
<1> HIDE DEF Stream
<1> QED BY <1>1, WholeIsRight

LEMMA FileFromStreamNext ==
    TypeOK' /\ Whole(After(file, Stream), executed, lastDb)' => Right(file, executed)'
BY FileFromStream, PTL

\* A log with one command more.
LEMMA RightGrows ==
    ASSUME NEW f \in File, NEW log \in Seq(Command), NEW e \in Command, Right(f, log)
    PROVE  Right(f, Append(log, e))
<1> DEFINE more == Append(log, e)
<1>1. /\ Len(more) = Len(log) + 1 /\ Len(log) \in Nat
      /\ \A i \in 1..Len(log) : more[i] = log[i]
  BY AppendProperties, LenProperties
<1>2. Len(f.cmds) \in Nat /\ f.count \in Nat /\ f.count + Len(f.cmds) <= Len(log)
  BY FileFields, LenProperties DEF Right, File
<1> HIDE DEF more
<1>3. CommandsAreRight(f, more)
  <2> SUFFICES ASSUME NEW i \in 1..Len(f.cmds)
               PROVE  /\ f.count + i <= Len(more)
                      /\ f.cmds[i] = [n |-> f.count + i, db |-> more[f.count + i].db]
    BY DEF CommandsAreRight
  <2>1. f.count + i <= Len(log) /\ f.cmds[i] = [n |-> f.count + i, db |-> log[f.count + i].db]
    BY DEF Right, CommandsAreRight
  <2>2. f.count + i \in 1..Len(log) /\ f.count + i <= Len(log) + 1
    BY <1>1, <1>2, <2>1
  <2> QED BY <1>1, <2>1, <2>2
<1>4. Right(f, more)
  BY <1>1, <1>2, <1>3 DEF Right
<1> QED BY <1>4 DEF more

\* A greatest of the first naturals of a sequence.
LEMMA LastWithKeysType ==
    ASSUME TypeOK
    PROVE  LastWithKeys \in Dbs
<1> DEFINE D(n) == {executed[i].db : i \in 1..n}
           P == {n \in Nat : n <= Len(executed) /\ n # 0 =>
                               \E d \in D(n) : \A e \in D(n) : e <= d}
<1>1. executed \in Seq(Command) /\ Len(executed) \in Nat
  BY Types
<1>2. \A i \in 1..Len(executed) : executed[i].db \in Dbs /\ executed[i].db \in Nat
  <2> SUFFICES ASSUME NEW i \in 1..Len(executed)
               PROVE  executed[i].db \in Dbs /\ executed[i].db \in Nat
    OBVIOUS
  <2>1. executed[i] \in Command
    BY <1>1, ElementOfSeq
  <2> QED BY <2>1, DbsAssumption DEF Command
<1>3. 0 \in P
  OBVIOUS
<1>4. ASSUME NEW n \in Nat, n \in P PROVE n + 1 \in P
  <2> HIDE DEF D
  <2> SUFFICES ASSUME n + 1 <= Len(executed)
               PROVE  \E d \in D(n + 1) : \A e \in D(n + 1) : e <= d
    OBVIOUS
  <2> USE DEF D
  <2> DEFINE x == executed[n + 1].db
  <2>1. D(n + 1) = D(n) \cup {x}
    <3>1. \A i : i \in 1..(n + 1) <=> i \in 1..n \/ i = n + 1
      OBVIOUS
    <3> QED BY <3>1
  <2>2. x \in Nat
    BY <1>2, n + 1 \in 1..Len(executed)
  <2>3. \A e \in D(n) : e \in Nat
    <3>1. \A i \in 1..n : i \in 1..Len(executed)
      BY <1>1
    <3> QED BY <1>2, <3>1
  <2>4. CASE n = 0
    <3>1. D(n) = {}
      BY <2>4
    <3> HIDE DEF D, x
    <3>2. x <= x
      BY <2>2
    <3> QED BY <2>1, <3>1, <3>2
  <2>5. CASE n # 0
    <3>1. PICK d \in D(n) : \A e \in D(n) : e <= d
      BY <1>1, <1>4, <2>5
    <3> HIDE DEF D, x
    <3>2. CASE x <= d
      BY <2>1, <3>1, <3>2
    <3>3. CASE ~(x <= d)
      <4>1. x <= x /\ \A e \in D(n) : e <= x
        BY <2>2, <2>3, <3>1, <3>3
      <4> QED BY <2>1, <4>1
    <3> QED BY <3>2, <3>3
  <2> QED BY <2>4, <2>5
<1> HIDE DEF P
<1>5. Len(executed) \in P
  BY <1>1, <1>3, <1>4, Induct
<1> DEFINE dbs == {executed[i].db : i \in DOMAIN executed}
<1>6. dbs = D(Len(executed)) /\ dbs \subseteq Dbs
  BY <1>1, <1>2
<1>7. LastWithKeys = IF dbs = {} THEN 0 ELSE CHOOSE d \in dbs : \A e \in dbs : e <= d
  BY DEF LastWithKeys
<1>8. Len(executed) # 0 => \E d \in dbs : \A e \in dbs : e <= d
  <2> HIDE DEF D, dbs
  <2>1. Len(executed) <= Len(executed)
    BY <1>1
  <2> QED BY <1>5, <1>6, <2>1 DEF P
<1>9. Len(executed) = 0 => dbs = {}
  BY <1>6
<1> HIDE DEF dbs, D
<1> QED BY <1>6, <1>7, <1>8, <1>9, DbsAssumption

LEMMA AfterCat ==
    ASSUME NEW f \in File, NEW s \in Seq(Bytes), NEW t \in Seq(Bytes)
    PROVE  After(f, Cat(s, t)) = After(After(f, s), t)
BY AfterConcat DEF Cat

LEMMA ImageType ==
    ASSUME TypeOK
    PROVE  /\ rewrite.image \in Image
           /\ FileOf(rewrite.image) \in File
           /\ rewrite.phase \in {NoRewrite, "stopping", "running"}
<1>1. NoImage \in Image
  BY DbsAssumption, BoundsAssumption DEF NoImage, Image
<1>2. rewrite.image \in Image /\ rewrite.phase \in {NoRewrite, "stopping", "running"}
  BY <1>1 DEF TypeOK
<1> DEFINE m == rewrite.image
<1>3. m.count \in 0..MaxWrites /\ m.db \in Dbs
  BY <1>2 DEF Image
<1> HIDE DEF m
<1>4. FileOf(m) \in File
  <2>1. 0 \in 0..MaxWrites
    BY BoundsAssumption
  <2>2. <<>> \in Seq([n : 1..MaxWrites, db : Dbs])
    OBVIOUS
  <2> QED BY <1>3, <2>1, <2>2 DEF FileOf, File
<1> QED BY <1>2, <1>4 DEF m

LEMMA BufferStays == BufferInv /\ UNCHANGED bufferVars => BufferInv'
BY BufferStep

\* If the file is not behind, it is the first part of what it will be.
LEMMA FileInvNext ==
    ASSUME TypeOK', StreamInv', Sound' /\ dropped' => Right(file, executed)',
           dropped' \in BOOLEAN
    PROVE  FileInv'
BY FileFromStreamNext DEF FileInv, StreamInv

-----------------------------------------------------------------------------
(***************************************************************************)
(* One lemma for each action.                                              *)
(***************************************************************************)

LEMMA InitInv == Init => Inv
<1> SUFFICES ASSUME Init PROVE Inv
  OBVIOUS
<1>1. BufferInv
  BY NewBufferInv DEF Init
<1>2. FileOf(NoImage) \in File
  <2>1. 0 \in 0..MaxWrites /\ 0 \in Dbs /\ <<>> \in Seq([n : 1..MaxWrites, db : Dbs])
    BY BoundsAssumption, DbsAssumption
  <2> QED BY <2>1 DEF FileOf, NoImage, File
<1>3. LogicTypeOK
  <2>1. <<>> \in Seq(Command) /\ Len(<<>>) = 0 /\ 0 <= MaxWrites /\ <<>> \in Seq(Seq(Bytes))
    BY BoundsAssumption
  <2>2. 0 \in 0..MaxRewrites /\ 0 \in 0..MaxCrashes
    BY BoundsAssumption
  <2>3. early \in [ring : Seq(Bytes), back : Seq(Bytes)]
    BY EarlyNothing DEF Init, Early
  <2>4. used \in [rewrites : 0..MaxRewrites, crashes : 0..MaxCrashes]
    BY <2>2 DEF Init
  <2> QED BY <1>2, <2>1, <2>3, <2>4 DEF Init, LogicTypeOK, NothingRewritten
<1>4. TypeOK
  BY <1>1, <1>3, TypeParts DEF BufferInv
<1>5. ThreadInv
  <2>1. PiecesOK(<<>>)
    BY DEF PiecesOK
  <2>2. locked = <<>> /\ overtaken = FALSE
    BY DEF Init, NewBuffer
  <2> QED BY <2>1, <2>2 DEF Init, ThreadInv, NothingRewritten, NoRewrite
<1>6. Stream = <<>>
  <2>1. Stream = StreamOf(Nothing, <<>>, <<>>, <<>>, <<>>)
    BY DEF Init, NewBuffer, Stream
  <2> QED BY <2>1, EarlyNothing, StreamEarly
<1>7. Whole(After(file, Stream), executed, lastDb)
  <2>1. After(file, Stream) = file
    BY <1>2, <1>6, AfterNothing DEF Init
  <2>2. /\ ~file.bad /\ file.missing = 0 /\ file.count = 0 /\ file.cmds = <<>>
    BY DEF Init, FileOf, NoImage
  <2> QED BY <2>1, <2>2 DEF Init, Whole, CommandsAreRight
<1>8. FileInv
  BY <1>4, <1>7, FileFromStream DEF FileInv
<1>9. RoomInv
  <2>1. After(file, Stream) = file
    BY <1>2, <1>6, AfterNothing DEF Init
  <2>2. file.count = 0 /\ file.cmds = <<>> /\ file.missing = 0 /\ executed = <<>>
    BY DEF Init, FileOf, NoImage
  <2>3. Weight(file) = 0 /\ Len(executed) = 0
    BY <2>2 DEF Weight
  <2> QED BY <2>1, <2>3 DEF RoomInv, Init, NothingRewritten, NoRewrite
<1>10. CountInv
  <2>1. file.count = 0 /\ Len(executed) = 0
    BY DEF Init, FileOf, NoImage
  <2> QED BY <2>1 DEF CountInv, Init, NothingRewritten, NoRewrite
<1> QED BY <1>1, <1>4, <1>5, <1>7, <1>8, <1>9, <1>10
        DEF Inv, Core, StreamInv, ImageInv, Init, NothingRewritten, NoRewrite

LEMMA SaveCommandInv ==
    ASSUME Inv, NEW d \in Dbs, NEW size \in Sizes, SaveCommand(d, size)
    PROVE  Core'
<1> DEFINE w == Pieces(d, size)
           c == [db |-> d]
<1>1. /\ TypeOK /\ BufferInv /\ ThreadInv /\ StreamInv /\ ImageInv /\ FileInv /\ RoomInv
      /\ up /\ writing = <<>> /\ rewrite.phase # "stopping" /\ Len(executed) < MaxWrites
      /\ executed' = Append(executed, c) /\ lastDb' = d
      /\ UNCHANGED bufferVars
      /\ UNCHANGED <<thread, alive, rewrite, file, up, used, gap, dropped, misplaced, disordered, apart>>
  BY DEF Inv, Core, SaveCommand, LogicThread, history
<1>2. /\ alive => writing' = w /\ early' = early
      /\ ~alive => early' = WriteAllEarly(early, w) /\ writing' = writing
  BY DEF SaveCommand
<1>3. /\ executed \in Seq(Command) /\ Len(executed) \in Nat /\ early \in Early /\ file \in File
      /\ tmp \in Seq(Bytes) /\ ring \in Seq(Bytes) /\ back \in Seq(Bytes)
      /\ EarlyBytes(early) \in Seq(Bytes) /\ Stream \in Seq(Bytes) /\ c \in Command
  BY <1>1, Types DEF Command
<1>4. PiecesOK(w) /\ w \in Seq(Seq(Bytes)) /\ Flat(w) \in Seq(Bytes)
  <2>1. PiecesOK(w)
    BY <1>1, PiecesAreOK
  <2>2. w \in Seq(Seq(Bytes))
    BY <2>1 DEF PiecesOK
  <2> HIDE DEF w
  <2> QED BY <2>1, <2>2, FlatType
<1>5. \A f \in File : Whole(f, executed, lastDb) => Whole(After(f, Flat(w)), executed', lastDb')
  BY <1>1, PiecesAreRead
<1>6. Sound' = Sound
  BY <1>1 DEF Sound
<1> HIDE DEF w, c
<1>7. /\ WriteAllEarly(early, w) \in Early
      /\ EarlyBytes(WriteAllEarly(early, w)) = Cat(EarlyBytes(early), Flat(w))
  BY <1>3, <1>4, WriteAllEarlyIs DEF Cat
<1>8. /\ BufferInv'
      /\ UNCHANGED <<ring, back, tmp, locked, overtaken>>
  BY <1>1, BufferStays DEF bufferVars
<1>9. TypeOK'
  <2>1. executed' \in Seq(Command) /\ Len(executed') <= MaxWrites
    BY <1>1, <1>3, AppendProperties, BoundsAssumption
  <2>2. writing' \in Seq(Seq(Bytes)) /\ early' \in [ring : Seq(Bytes), back : Seq(Bytes)]
    BY <1>1, <1>2, <1>3, <1>4, <1>7 DEF TypeOK, Early
  <2>3. LogicTypeOK
    BY <1>1, TypeParts
  <2>4. LogicTypeOK'
    BY <1>1, <2>1, <2>2, <2>3 DEF LogicTypeOK
  <2> QED BY <1>8, <2>4, TypePartsNext DEF BufferInv
<1>10. locked = <<>>
  BY <1>1 DEF ThreadInv
<1>11. ~alive => thread = "none" /\ rewrite.phase = "running" /\ tmp = <<>> /\ ring = <<>> /\ back = <<>>
  BY <1>1, ImageType DEF ThreadInv
<1>12. ThreadInv'
  <2>1. PiecesOK(writing')
    BY <1>1, <1>2, <1>4 DEF ThreadInv
  <2>2. rewrite.phase # NoRewrite => writing' = <<>>
    BY <1>1, <1>2 DEF ThreadInv
  <2>3. thread \in {"loop", "done"} => early' = Nothing
    BY <1>1, <1>2, <1>11 DEF ThreadInv
  <2> QED BY <1>1, <1>8, <1>10, <2>1, <2>2, <2>3 DEF ThreadInv
<1>13. Stream' = Cat(Stream, Flat(w))
  <2>1. CASE alive
    <3>1. Stream' = StreamOf(early, tmp, ring, back, w)
      BY <1>2, <1>8, <2>1 DEF Stream
    <3>2. Stream = StreamOf(early, tmp, ring, back, <<>>)
      BY <1>1 DEF Stream
    <3> QED BY <1>3, <1>4, <3>1, <3>2, StreamWritePieces
  <2>2. CASE ~alive
    <3> DEFINE e == WriteAllEarly(early, w)
    <3>1. Stream' = StreamOf(e, <<>>, <<>>, <<>>, <<>>)
      BY <1>1, <1>2, <1>8, <1>11, <2>2 DEF Stream
    <3>2. Stream = StreamOf(early, <<>>, <<>>, <<>>, <<>>)
      BY <1>1, <1>11, <2>2 DEF Stream
    <3>3. e \in Early
      BY <1>7
    <3>4. EarlyBytes(e) = Cat(EarlyBytes(early), Flat(w))
      BY <1>7
    <3> HIDE DEF e
    <3> QED BY <1>3, <3>1, <3>2, <3>3, <3>4, StreamEarly
  <2> QED BY <2>1, <2>2
<1>14. StreamInv'
  <2> SUFFICES ASSUME Sound, ~dropped
               PROVE  Whole(After(file, Stream'), executed', lastDb')
    BY <1>1, <1>6 DEF StreamInv
  <2> DEFINE f == After(file, Stream)
  <2>1. Whole(f, executed, lastDb)
    BY <1>1 DEF StreamInv
  <2>2. f \in File
    <3> HIDE DEF Stream
    <3> QED BY <1>3, AfterType
  <2>3. After(file, Cat(Stream, Flat(w))) = After(f, Flat(w))
    <3> HIDE DEF Stream
    <3> QED BY <1>3, <1>4, AfterCat
  <2> HIDE DEF f
  <2> QED BY <1>5, <1>13, <2>1, <2>2, <2>3
<1>15. ImageInv'
  <2> SUFFICES ASSUME rewrite.phase = "running",
                      rewrite.image.from = -1 \/ rewrite.image.db = rewrite.image.from
               PROVE  Whole(After(FileOf(rewrite.image), EarlyBytes(early')), executed', lastDb')
    BY <1>1 DEF ImageInv
  <2> DEFINE f0 == FileOf(rewrite.image)
             s == EarlyBytes(early)
             f == After(f0, s)
  <2>1. f0 \in File /\ s \in Seq(Bytes)
    BY <1>1, <1>3, ImageType
  <2>2. Whole(f, executed, lastDb)
    BY <1>1 DEF ImageInv
  <2>3. ~alive
    BY <1>1 DEF ThreadInv, NoRewrite
  <2>4. EarlyBytes(early') = Cat(s, Flat(w))
    BY <1>2, <1>7, <2>3
  <2> HIDE DEF f0, s
  <2>5. f \in File
    BY <2>1, AfterType
  <2>6. After(f0, Cat(s, Flat(w))) = After(f, Flat(w))
    BY <1>4, <2>1, AfterCat
  <2> HIDE DEF f
  <2> QED BY <1>5, <2>2, <2>4, <2>5, <2>6 DEF f0
<1>16. FileInv'
  <2> SUFFICES ASSUME Sound PROVE Right(file, executed')
    BY <1>1, <1>6 DEF FileInv
  <2>1. Right(file, executed)
    BY <1>1 DEF FileInv
  <2> QED BY <1>1, <1>3, <2>1, RightGrows
<1>17. \A f \in File : Weight(After(f, Flat(w))) <= Weight(f) + 1
  BY <1>1, PiecesWeigh DEF w
<1>18. ASSUME NEW f \in File, NEW s \in Seq(Bytes), Weight(After(f, s)) <= Len(executed)
       PROVE  Weight(After(f, Cat(s, Flat(w)))) <= Len(executed')
  <2> DEFINE g == After(f, s)
  <2>1. g \in File
    BY AfterType
  <2>2. After(f, Cat(s, Flat(w))) = After(g, Flat(w))
    BY <1>4, AfterCat
  <2>3. Weight(g) <= Len(executed)
    BY <1>18
  <2>4. Len(executed') = Len(executed) + 1
    BY <1>1, <1>3, AppendProperties
  <2> HIDE DEF g
  <2> DEFINE h == After(g, Flat(w))
  <2>5. Weight(h) <= Weight(g) + 1 /\ h \in File
    BY <1>4, <1>17, <2>1, AfterType
  <2> HIDE DEF h
  <2>6. Weight(g) \in Nat /\ Weight(h) \in Nat
    BY <2>1, <2>5, WeightType
  <2>7. Weight(h) <= Len(executed')
    <3> DEFINE n == Len(executed)
    <3>1. n \in Nat /\ Len(executed') = n + 1 /\ Weight(g) <= n
      BY <1>3, <2>3, <2>4
    <3> HIDE DEF n
    <3>2. Weight(h) <= n + 1
      BY <2>5, <2>6, <3>1
    <3> QED BY <3>1, <3>2
  <2> QED BY <2>2, <2>7 DEF h
<1>19. RoomInv'
  <2> SUFFICES ASSUME ~disordered
               PROVE  /\ ~apart => Weight(After(file, Stream')) <= Len(executed')
                      /\ rewrite.phase = "running" =>
                            /\ ~apart => Weight(file) <= rewrite.image.count
                            /\ Weight(After(FileOf(rewrite.image), EarlyBytes(early')))
                                 <= Len(executed')
    BY <1>1 DEF RoomInv
  <2>2. ASSUME ~apart PROVE Weight(After(file, Stream')) <= Len(executed')
    <3> DEFINE s == Stream
    <3>1. s \in Seq(Bytes) /\ Stream' = Cat(s, Flat(w)) /\ Weight(After(file, s)) <= Len(executed)
      BY <1>1, <1>3, <1>13, <2>2 DEF RoomInv
    <3> HIDE DEF s
    <3>2. Weight(After(file, Cat(s, Flat(w)))) <= Len(executed')
      BY <1>3, <1>18, <3>1
    <3> QED BY <3>1, <3>2
  <2>3. ASSUME rewrite.phase = "running"
        PROVE  /\ ~apart => Weight(file) <= rewrite.image.count
               /\ Weight(After(FileOf(rewrite.image), EarlyBytes(early'))) <= Len(executed')
    <3> DEFINE f == FileOf(rewrite.image)
               s == EarlyBytes(early)
    <3>1. /\ ~apart => Weight(file) <= rewrite.image.count
          /\ Weight(After(f, s)) <= Len(executed)
      BY <1>1, <2>3 DEF RoomInv
    <3>2. ~alive
      BY <1>1, <2>3 DEF ThreadInv, NoRewrite
    <3>3. EarlyBytes(early') = Cat(s, Flat(w))
      BY <1>2, <1>7, <3>2
    <3>4. f \in File /\ s \in Seq(Bytes)
      BY <1>1, <1>3, ImageType
    <3> HIDE DEF f, s
    <3>5. Weight(After(f, Cat(s, Flat(w)))) <= Len(executed')
      BY <1>18, <3>1, <3>4
    <3> QED BY <3>1, <3>3, <3>5 DEF f
  <2> QED BY <2>2, <2>3
<1> QED BY <1>8, <1>9, <1>12, <1>14, <1>15, <1>16, <1>19 DEF Inv, Core

\* A step that changes the buffers, but neither the stream nor the file.
LEMMA SameStreamInv ==
    ASSUME Inv, TypeOK', BufferInv', ThreadInv', Stream' = Stream,
           UNCHANGED <<executed, lastDb, early, file, rewrite, gap, dropped, misplaced, apart>>,
           disordered => disordered'
    PROVE  Core'
<1>1. Sound' => Sound
  BY DEF Sound
<1>2. StreamInv'
  BY <1>1 DEF Inv, Core, StreamInv
<1>3. ImageInv'
  BY DEF Inv, Core, ImageInv
<1>4. FileInv'
  BY <1>1 DEF Inv, Core, FileInv
<1>5. RoomInv'
  BY DEF Inv, Core, RoomInv
<1> QED BY <1>2, <1>3, <1>4, <1>5 DEF Inv, Core

LEMMA WritePieceInv ==
    ASSUME Inv, WritePiece
    PROVE  Core'
<1> DEFINE h == Head(writing)
           w == Tail(writing)
<1>1. /\ TypeOK /\ BufferInv /\ ThreadInv /\ writing # <<>> /\ PiecesOK(writing)
      /\ UNCHANGED <<executed, lastDb, early, thread, alive, rewrite, file, up, used,
                     gap, dropped, misplaced, disordered, apart>>
  BY DEF Inv, Core, WritePiece, history, ThreadInv
<1>2. /\ early \in Early /\ writing \in Seq(Seq(Bytes))
      /\ tmp \in Seq(Bytes) /\ ring \in Seq(Bytes) /\ back \in Seq(Bytes)
  BY <1>1, Types
<1>3. h \in Seq(Bytes) /\ PiecesOK(w) /\ w \in Seq(Seq(Bytes)) /\ h # <<>>
  BY <1>1, FlatTail DEF PiecesOK
<1>4. rewrite.phase = NoRewrite /\ alive /\ thread # "none" /\ rewrite.phase # "running"
      /\ rewrite.phase # "stopping"
  BY <1>1 DEF ThreadInv, NoRewrite
<1>5. LogicTypeOK
  BY <1>1, TypeParts
<1>6. locked # <<>> => locked = h
  BY <1>1 DEF ThreadInv
<1>7. thread \in {"loop", "done"} => early = Nothing
  BY <1>1 DEF ThreadInv
<1>8. overtaken => disordered
  BY <1>1 DEF ThreadInv
<1>9. ~dropped
  BY <1>1, <1>4 DEF ThreadInv
<1>10. CASE WriteRing(h) /\ writing' = w
  <2>1. /\ locked = <<>> /\ backBytes = 0
        /\ ring' = Cat(ring, h) /\ UNCHANGED <<back, tmp, locked, overtaken>>
    <3>1. ~(backBytes > 0)
      BY <1>10 DEF WriteRing, MustGoBack
    <3>2. backBytes = 0
      BY <1>1, <3>1 DEF TypeOK, BufferTypeOK
    <3> QED BY <1>10, <3>2 DEF WriteRing, Cat
  <2>2. back = <<>>
    BY <1>1, <1>2, <2>1, EmptySeq DEF BufferInv, CountsAreRight
  <2> HIDE DEF h, w
  <2>3. BufferInv'
    BY <1>1, <1>3, <1>10, WriteRingInv
  <2>4. LogicTypeOK'
    BY <1>1, <1>3, <1>5, <1>10 DEF LogicTypeOK
  <2>5. TypeOK'
    BY <2>3, <2>4, TypePartsNext DEF BufferInv
  <2>6. ThreadInv'
    BY <1>1, <1>3, <1>4, <1>7, <1>8, <1>9, <1>10, <2>1 DEF ThreadInv
  <2>7. Stream' = Stream
    <3>1. StreamOf(early, tmp, Cat(ring, h), <<>>, w) = StreamOf(early, tmp, ring, <<>>, writing)
      BY <1>1, <1>2, StreamWriteRing DEF h, w
    <3> QED BY <1>1, <1>10, <2>1, <2>2, <3>1 DEF Stream
  <2> QED BY <1>1, <2>3, <2>5, <2>6, <2>7, SameStreamInv
<1>11. CASE LockBack(h) /\ UNCHANGED writing
  <2>1. locked' = h /\ UNCHANGED <<ring, back, tmp, overtaken>>
    BY <1>11 DEF LockBack
  <2>2. BufferInv'
    <3> HIDE DEF h
    <3> QED BY <1>1, <1>3, <1>11, LockBackInv
  <2>3. LogicTypeOK'
    BY <1>1, <1>5, <1>11 DEF LogicTypeOK
  <2>4. TypeOK'
    BY <2>2, <2>3, TypePartsNext DEF BufferInv
  <2>5. ThreadInv'
    BY <1>1, <1>4, <1>7, <1>8, <1>9, <1>11, <2>1 DEF ThreadInv
  <2>6. Stream' = Stream
    BY <1>1, <1>11, <2>1 DEF Stream
  <2> QED BY <1>1, <2>2, <2>4, <2>5, <2>6, SameStreamInv
<1>12. CASE PushBack /\ writing' = w
  <2>1. /\ locked = h /\ locked' = <<>> /\ back' = Cat(back, h)
        /\ UNCHANGED <<ring, tmp, overtaken>>
    BY <1>6, <1>12 DEF PushBack, Cat
  <2> HIDE DEF h, w
  <2>2. BufferInv'
    BY <1>1, <1>12, PushBackInv
  <2>3. LogicTypeOK'
    BY <1>1, <1>3, <1>5, <1>12 DEF LogicTypeOK
  <2>4. TypeOK'
    BY <2>2, <2>3, TypePartsNext DEF BufferInv
  <2>5. ThreadInv'
    BY <1>1, <1>3, <1>4, <1>7, <1>8, <1>9, <1>12, <2>1 DEF ThreadInv
  <2>6. Stream' = Stream
    <3>1. StreamOf(early, tmp, ring, Cat(back, h), w) = StreamOf(early, tmp, ring, back, writing)
      BY <1>1, <1>2, StreamPushBack DEF h, w
    <3> QED BY <1>1, <1>12, <2>1, <3>1 DEF Stream
  <2> QED BY <1>1, <2>2, <2>4, <2>5, <2>6, SameStreamInv
<1> QED BY <1>10, <1>11, <1>12 DEF WritePiece

\* The AOF thread writes to the file what comes first in the stream.
LEMMA LoggedInv ==
    ASSUME Inv, TypeOK', BufferInv', ThreadInv', NEW a \in Seq(Bytes),
           file' = After(file, a), Stream = Cat(a, Stream'),
           thread # "none", thread' # "none",
           UNCHANGED <<executed, lastDb, rewrite, gap, dropped, misplaced, apart>>,
           disordered => disordered'
    PROVE  Core'
<1>1. Sound' => Sound
  BY DEF Sound
<1>2. After(file', Stream') = After(file, Stream)
  <2> DEFINE t == Stream'
  <2>1. t \in Seq(Bytes) /\ file \in File
    BY TypesNext, Types DEF StreamTypes, Inv, Core
  <2>2. Stream = Cat(a, t)
    OBVIOUS
  <2> HIDE DEF t, Stream
  <2>3. After(file, Cat(a, t)) = After(After(file, a), t)
    BY <2>1, AfterCat
  <2>4. After(file', t) = After(file, Stream)
    BY <2>2, <2>3
  <2> QED BY <2>4 DEF t
<1>3. StreamInv'
  BY <1>1, <1>2 DEF Inv, Core, StreamInv
<1>4. rewrite.phase # "running" /\ ~dropped
  BY DEF Inv, Core, ThreadInv
<1>5. ImageInv'
  BY <1>4 DEF ImageInv
<1>6. FileInv'
  BY <1>3, <1>4, FileInvNext DEF Inv, Core, TypeOK
<1>7. RoomInv'
  BY <1>2, <1>4 DEF Inv, Core, RoomInv
<1> QED BY <1>3, <1>5, <1>6, <1>7 DEF Inv, Core

LEMMA DrainInv ==
    ASSUME Inv, Drain
    PROVE  Core'
<1>1. /\ TypeOK /\ BufferInv /\ ThreadInv /\ thread = "drain" /\ UNCHANGED bufferVars
      /\ UNCHANGED <<executed, writing, lastDb, alive, rewrite, up, used,
                     gap, dropped, misplaced, disordered, apart>>
  BY DEF Inv, Core, Drain, logicVars, history
<1>2. /\ early \in Early /\ file \in File /\ writing \in Seq(Seq(Bytes))
      /\ tmp \in Seq(Bytes) /\ ring \in Seq(Bytes) /\ back \in Seq(Bytes)
      /\ early.ring \in Seq(Bytes) /\ early.back \in Seq(Bytes)
  BY <1>1, Types, EarlyType
<1>3. BufferInv' /\ UNCHANGED <<ring, back, tmp, locked, overtaken>>
  BY <1>1, BufferStays DEF bufferVars
<1>4. LogicTypeOK
  BY <1>1, TypeParts
<1>5. CASE /\ Logged(early.ring) /\ early' = [early EXCEPT !.ring = <<>>]
           /\ UNCHANGED thread
  <2> DEFINE a == early.ring
  <2>1. file' = After(file, a) /\ early' = WithoutRing(early)
    BY <1>5 DEF Logged, WithoutRing
  <2>2. StreamOf(early, tmp, ring, back, writing)
          = Cat(a, StreamOf(WithoutRing(early), tmp, ring, back, writing))
    BY <1>2, StreamDrainRing
  <2>3. Stream = Cat(a, Stream')
    BY <1>1, <1>3, <2>1, <2>2 DEF Stream
  <2>4. a \in Seq(Bytes)
    BY <1>2
  <2> HIDE DEF a
  <2>5. file' \in File
    BY <1>2, <2>1, <2>4, AfterType
  <2>6. early' \in [ring : Seq(Bytes), back : Seq(Bytes)]
    BY <1>2, <2>1, StreamDrainRing DEF Early
  <2>7. LogicTypeOK'
    BY <1>1, <1>4, <1>5, <2>5, <2>6 DEF LogicTypeOK
  <2>8. TypeOK'
    BY <1>3, <2>7, TypePartsNext DEF BufferInv
  <2>9. ThreadInv'
    BY <1>1, <1>3, <1>5 DEF ThreadInv
  <2> QED BY <1>1, <1>3, <1>5, <2>1, <2>3, <2>4, <2>8, <2>9, LoggedInv
<1>6. CASE /\ early.ring = <<>>
           /\ Logged(early.back) /\ early' = [early EXCEPT !.back = <<>>]
           /\ UNCHANGED thread
  <2> DEFINE a == early.back
  <2>1. file' = After(file, a) /\ early' = WithoutBack(early)
    BY <1>6 DEF Logged, WithoutBack
  <2>2. /\ WithoutBack(early) \in Early
        /\ StreamOf(early, tmp, ring, back, writing)
             = Cat(a, StreamOf(WithoutBack(early), tmp, ring, back, writing))
    BY <1>2, <1>6, StreamDrainBack
  <2>3. Stream = Cat(a, Stream')
    BY <1>1, <1>3, <2>1, <2>2 DEF Stream
  <2>4. a \in Seq(Bytes)
    BY <1>2
  <2> HIDE DEF a
  <2>5. file' \in File
    BY <1>2, <2>1, <2>4, AfterType
  <2>6. early' \in [ring : Seq(Bytes), back : Seq(Bytes)]
    BY <2>1, <2>2 DEF Early
  <2>7. LogicTypeOK'
    BY <1>1, <1>4, <1>6, <2>5, <2>6 DEF LogicTypeOK
  <2>8. TypeOK'
    BY <1>3, <2>7, TypePartsNext DEF BufferInv
  <2>9. ThreadInv'
    BY <1>1, <1>3, <1>6 DEF ThreadInv
  <2> QED BY <1>1, <1>3, <1>6, <2>1, <2>3, <2>4, <2>8, <2>9, LoggedInv
<1>7. CASE early = Nothing /\ thread' = "loop" /\ UNCHANGED <<early, file>>
  <2>1. LogicTypeOK'
    BY <1>1, <1>4, <1>7 DEF LogicTypeOK
  <2>2. TypeOK'
    BY <1>3, <2>1, TypePartsNext DEF BufferInv
  <2>3. ThreadInv'
    BY <1>1, <1>3, <1>7 DEF ThreadInv
  <2>4. Stream' = Stream
    BY <1>1, <1>3, <1>7 DEF Stream
  <2> QED BY <1>1, <1>3, <1>7, <2>2, <2>3, <2>4, SameStreamInv
<1> QED BY <1>5, <1>6, <1>7 DEF Drain

LEMMA FlushInv ==
    ASSUME Inv, Flush
    PROVE  Core'
<1>1. /\ TypeOK /\ BufferInv /\ ThreadInv /\ thread = "loop"
      /\ UNCHANGED <<executed, writing, lastDb, early, thread, alive, rewrite, up, used,
                     gap, dropped, misplaced, apart>>
      /\ disordered' = (disordered \/ overtaken')
  BY DEF Inv, Core, Flush, logicVars
<1>2. /\ early \in Early /\ file \in File /\ writing \in Seq(Seq(Bytes))
      /\ tmp \in Seq(Bytes) /\ ring \in Seq(Bytes) /\ back \in Seq(Bytes)
      /\ executed \in Seq(Command) /\ seen \in Nat
  BY <1>1, Types DEF TypeOK, BufferTypeOK
<1>3. LogicTypeOK
  BY <1>1, TypeParts
<1>4. early = Nothing /\ rewrite.phase # "running"
  BY <1>1 DEF ThreadInv
<1>5. disordered \in BOOLEAN /\ overtaken \in BOOLEAN
  BY <1>1 DEF TypeOK, BufferTypeOK
<1>6. ASSUME file' \in File, overtaken' \in BOOLEAN PROVE LogicTypeOK'
  <2>1. disordered' \in BOOLEAN
    BY <1>1, <1>5, <1>6
  <2> QED BY <1>1, <1>3, <1>6, <2>1 DEF LogicTypeOK
<1>7. ASSUME locked' = locked PROVE ThreadInv'
  BY <1>1, <1>7 DEF ThreadInv
<1>8. disordered => disordered'
  <2>1. disordered' = (disordered \/ overtaken')
    BY <1>1
  <2> QED BY ONLY <2>1, Zenon
<1>9. CASE ((alive /\ Look) \/ FetchNothing) /\ UNCHANGED file
  <2>1. BufferInv'
    BY <1>1, <1>9, LookInv, FetchNothingInv
  <2>2. UNCHANGED <<ring, back, tmp, locked, overtaken>>
    BY <1>9 DEF Look, FetchNothing
  <2>3. TypeOK'
    BY <1>2, <1>5, <1>6, <1>9, <2>1, <2>2, TypePartsNext DEF BufferInv
  <2>4. Stream' = Stream
    BY <1>1, <2>2 DEF Stream
  <2> QED BY <1>1, <1>7, <1>8, <1>9, <2>1, <2>2, <2>3, <2>4, SameStreamInv
<1>10. CASE FetchBack /\ UNCHANGED file
  <2>1. BufferInv'
    BY <1>1, <1>10, FetchBackInv
  <2>2. /\ tmp' = back /\ back' = tmp /\ UNCHANGED <<ring, locked>>
        /\ overtaken' = (overtaken \/ ring # <<>>)
    BY <1>10 DEF FetchBack
  <2>3. tmp = <<>>
    BY <1>1, <1>10 DEF BufferInv, CountsAreRight, FetchBack
  <2>4. TypeOK'
    BY <1>2, <1>5, <1>6, <1>10, <2>1, <2>2, TypePartsNext DEF BufferInv
  <2>5. CASE ring = <<>>
    <3>1. Stream' = Stream
      BY <1>1, <1>2, <2>2, <2>3, <2>5, StreamFetchBack DEF Stream
    <3> QED BY <1>1, <1>7, <1>8, <1>10, <2>1, <2>2, <2>4, <3>1, SameStreamInv
  <2>6. CASE ring # <<>>
    <3>1. disordered' /\ ~Sound'
      BY <1>1, <2>2, <2>6 DEF Sound
    <3>2. ImageInv'
      BY <1>1, <1>4 DEF ImageInv
    <3> QED BY <1>7, <2>1, <2>2, <2>4, <3>1, <3>2 DEF Inv, Core, StreamInv, FileInv, RoomInv
  <2> QED BY <2>5, <2>6
<1>11. CASE Skip(seen) /\ Logged(SubSeq(Source, 1, seen))
  <2> DEFINE a == SubSeq(Source, 1, seen)
             left == SubSeq(Source, seen + 1, Len(Source))
  <2>1. BufferInv'
    BY <1>1, <1>2, <1>11, SkipInv
  <2>2. seen \in 0..Len(Source) /\ Source \in Seq(Bytes)
    <3>1. Source \in Seq(Bytes)
      BY <1>2 DEF Source
    <3>2. seen <= Len(Source) /\ Len(Source) \in Nat
      BY <1>1, <1>11, <3>1, LenProperties DEF BufferInv, CountsAreRight, Skip
    <3> QED BY <1>2, <3>1, <3>2
  <2>3. a \in Seq(Bytes) /\ left \in Seq(Bytes) /\ Source = Cat(a, left)
    BY <2>2, Halves DEF Cat
  <2>4. IF tmp # <<>> THEN tmp' = left /\ ring' = ring ELSE ring' = left /\ tmp' = tmp
    BY <1>11 DEF Skip, Source
  <2>5. UNCHANGED <<back, locked, overtaken>> /\ file' = After(file, a)
    BY <1>11 DEF Skip, Logged
  <2> HIDE DEF a, left
  <2>6. file' \in File
    BY <1>2, <2>3, <2>5, AfterType
  <2>7. TypeOK'
    BY <1>5, <1>6, <2>1, <2>5, <2>6, TypePartsNext DEF BufferInv
  <2>8. Stream = Cat(a, Stream')
    <3>1. CASE tmp # <<>>
      <4>1. tmp = Cat(a, left)
        BY <2>3, <3>1 DEF Source
      <4>2. StreamOf(Nothing, Cat(a, left), ring, back, writing)
              = Cat(a, StreamOf(Nothing, left, ring, back, writing))
        BY <1>2, <2>3, StreamSkipTmp
      <4> QED BY <1>1, <1>4, <2>4, <2>5, <3>1, <4>1, <4>2 DEF Stream
    <3>2. CASE tmp = <<>>
      <4>1. ring = Cat(a, left)
        BY <2>3, <3>2 DEF Source
      <4>2. StreamOf(Nothing, <<>>, Cat(a, left), back, writing)
              = Cat(a, StreamOf(Nothing, <<>>, left, back, writing))
        BY <1>2, <2>3, StreamSkipRing
      <4> QED BY <1>1, <1>4, <2>4, <2>5, <3>2, <4>1, <4>2 DEF Stream
    <3> QED BY <3>1, <3>2
  <2> QED BY <1>1, <1>7, <1>8, <2>1, <2>3, <2>5, <2>7, <2>8, LoggedInv
<1> QED BY <1>9, <1>10, <1>11 DEF Flush

LEMMA RunEndsInv ==
    ASSUME Inv, RunEnds
    PROVE  Core'
<1>1. /\ TypeOK /\ BufferInv /\ ThreadInv /\ thread = "loop" /\ thread' = "done" /\ ~alive
      /\ UNCHANGED bufferVars
      /\ UNCHANGED <<executed, writing, lastDb, early, alive, rewrite, file, up, used,
                     gap, dropped, misplaced, disordered, apart>>
  BY DEF Inv, Core, RunEnds, logicVars, history
<1>2. BufferInv' /\ UNCHANGED <<ring, back, tmp, locked, overtaken>>
  BY <1>1, BufferStays DEF bufferVars
<1>3. LogicTypeOK'
  BY <1>1, TypeParts DEF LogicTypeOK
<1>4. TypeOK'
  BY <1>2, <1>3, TypePartsNext DEF BufferInv
<1>5. ThreadInv'
  BY <1>1, <1>2 DEF ThreadInv
<1>6. Stream' = Stream
  BY <1>1, <1>2 DEF Stream
<1> QED BY <1>1, <1>2, <1>4, <1>5, <1>6, SameStreamInv

LEMMA BgRewriteAofInv ==
    ASSUME Inv, BgRewriteAof
    PROVE  Core'
<1> DEFINE m == [count |-> Len(executed), db |-> LastWithKeys, from |-> lastDb]
<1>1. /\ TypeOK /\ BufferInv /\ ThreadInv /\ UNCHANGED bufferVars
      /\ writing = <<>> /\ rewrite.phase = NoRewrite
      /\ used.rewrites < MaxRewrites /\ used' = [used EXCEPT !.rewrites = @ + 1]
      /\ rewrite' = [phase |-> "stopping", image |-> m] /\ alive' = FALSE
      /\ UNCHANGED <<executed, writing, lastDb, early, thread, file, up,
                     gap, dropped, misplaced, disordered, apart>>
  BY DEF Inv, Core, BgRewriteAof, LogicThread, logicVars, history
<1>2. BufferInv' /\ UNCHANGED <<ring, back, tmp, locked, overtaken>>
  BY <1>1, BufferStays DEF bufferVars
<1>3. m \in Image /\ m.count = Len(executed) /\ m.from = lastDb
  <2>1. Len(executed) \in 0..MaxWrites /\ lastDb \in Dbs \cup {-1} /\ LastWithKeys \in Dbs
    BY <1>1, Types, LastWithKeysType, BoundsAssumption
  <2> QED BY <2>1 DEF Image
<1> HIDE DEF m
<1>4. LogicTypeOK'
  <2>1. LogicTypeOK
    BY <1>1, TypeParts
  <2>2. used' \in [rewrites : 0..MaxRewrites, crashes : 0..MaxCrashes]
    <3>1. used \in [rewrites : 0..MaxRewrites, crashes : 0..MaxCrashes]
      BY <2>1 DEF LogicTypeOK
    <3>2. used.rewrites + 1 \in 0..MaxRewrites
      BY <1>1, <3>1, BoundsAssumption
    <3> QED BY <1>1, <3>1, <3>2
  <2>3. rewrite' \in [phase : {"stopping", "running"}, image : Image]
    BY <1>1, <1>3
  <2> QED BY <1>1, <2>1, <2>2, <2>3 DEF LogicTypeOK
<1>5. TypeOK'
  BY <1>2, <1>4, TypePartsNext DEF BufferInv
<1>6. rewrite'.phase = "stopping" /\ rewrite'.image = m
  BY <1>1
<1>7. thread # "none" /\ ~dropped
  BY <1>1 DEF ThreadInv, NoRewrite
<1>8. ThreadInv'
  BY <1>1, <1>2, <1>3, <1>6, <1>7 DEF ThreadInv, NoRewrite
<1>9. Stream' = Stream
  BY <1>1, <1>2 DEF Stream
<1>10. StreamInv' /\ FileInv' /\ RoomInv'
  <2>1. StreamInv' /\ FileInv'
    BY <1>1, <1>9 DEF Inv, Core, StreamInv, FileInv, Sound
  <2>2. RoomInv'
    BY <1>1, <1>6, <1>9 DEF Inv, Core, RoomInv
  <2> QED BY <2>1, <2>2
<1>11. ImageInv'
  BY <1>6 DEF ImageInv
<1> QED BY <1>2, <1>5, <1>8, <1>10, <1>11 DEF Inv, Core

LEMMA CrashInv ==
    ASSUME Inv, Crash
    PROVE  Core'
<1>1. /\ TypeOK /\ BufferInv /\ ThreadInv /\ UNCHANGED bufferVars
      /\ used.crashes < MaxCrashes /\ used' = [used EXCEPT !.crashes = @ + 1] /\ up' = FALSE
      /\ UNCHANGED <<executed, writing, lastDb, early, thread, alive, rewrite, file,
                     gap, dropped, misplaced, disordered, apart>>
  BY DEF Inv, Core, Crash, logicVars, history
<1>2. BufferInv' /\ UNCHANGED <<ring, back, tmp, locked, overtaken>>
  BY <1>1, BufferStays DEF bufferVars
<1>3. LogicTypeOK'
  <2>1. LogicTypeOK
    BY <1>1, TypeParts
  <2>2. used' \in [rewrites : 0..MaxRewrites, crashes : 0..MaxCrashes]
    <3>1. used \in [rewrites : 0..MaxRewrites, crashes : 0..MaxCrashes]
      BY <2>1 DEF LogicTypeOK
    <3>2. used.crashes + 1 \in 0..MaxCrashes
      BY <1>1, <3>1, BoundsAssumption
    <3> QED BY <1>1, <3>1, <3>2
  <2> QED BY <1>1, <2>1, <2>2 DEF LogicTypeOK
<1>4. TypeOK'
  BY <1>2, <1>3, TypePartsNext DEF BufferInv
<1>5. ThreadInv'
  BY <1>1, <1>2 DEF ThreadInv
<1>6. Stream' = Stream
  BY <1>1, <1>2 DEF Stream
<1> QED BY <1>1, <1>2, <1>4, <1>5, <1>6, SameStreamInv

LEMMA StopEndsInv ==
    ASSUME Inv, StopEnds
    PROVE  Core'
<1> DEFINE m == rewrite.image
<1>1. /\ TypeOK /\ BufferInv /\ ThreadInv /\ ImageInv /\ FileInv /\ StreamInv
      /\ rewrite.phase = "stopping" /\ thread = "done"
      /\ rewrite' = [rewrite EXCEPT !.phase = "running"] /\ thread' = "none"
      /\ dropped' = (tmp \o ring \o back # <<>>)
      /\ NewBuffer'
      /\ UNCHANGED <<executed, writing, lastDb, early, alive, file, up, used,
                     gap, misplaced, disordered, apart>>
  BY DEF Inv, Core, StopEnds, NewBuffer, logicVars
<1>2. /\ early = Nothing /\ writing = <<>> /\ m.count = Len(executed) /\ m.from = lastDb
      /\ ~alive /\ ~dropped
  BY <1>1 DEF ThreadInv, NoRewrite
<1>3. BufferInv' /\ tmp' = <<>> /\ ring' = <<>> /\ back' = <<>> /\ locked' = <<>>
      /\ overtaken' = FALSE
  BY <1>1, NewBufferInvNext DEF NewBuffer
<1>4. rewrite \in [phase : {"stopping", "running"}, image : Image] /\ m \in Image
      /\ FileOf(m) \in File
  <2>1. rewrite.phase # NoRewrite
    BY <1>1 DEF NoRewrite
  <2> QED BY <1>1, <2>1, ImageType DEF TypeOK
<1>5. /\ rewrite' \in [phase : {"stopping", "running"}, image : Image]
      /\ rewrite'.phase = "running" /\ rewrite'.image = m
  BY <1>1, <1>4
<1> HIDE DEF m
<1>6. LogicTypeOK'
  <2>1. LogicTypeOK
    BY <1>1, TypeParts
  <2>2. dropped' \in BOOLEAN
    BY <1>1
  <2> QED BY <1>1, <1>2, <1>5, <2>1, <2>2 DEF LogicTypeOK
<1>7. TypeOK'
  BY <1>3, <1>6, TypePartsNext DEF BufferInv
<1>8. ThreadInv'
  BY <1>1, <1>2, <1>3, <1>5 DEF ThreadInv, NoRewrite
<1>9. tmp \in Seq(Bytes) /\ ring \in Seq(Bytes) /\ back \in Seq(Bytes) /\ early \in Early
  BY <1>1, Types
<1>10. Stream' = <<>>
  BY <1>1, <1>2, <1>3, EarlyNothing, StreamEarly DEF Stream
<1>11. tmp \o ring \o back = <<>> => Stream = <<>>
  <2>1. Cat(Cat(tmp, ring), back) = Cat(tmp, Cat(ring, back))
    BY <1>9, CatRegroup
  <2>2. tmp \o ring \o back = Cat(Cat(tmp, ring), back)
    BY DEF Cat
  <2>3. Stream = StreamOf(Nothing, tmp, ring, back, <<>>)
    BY <1>2 DEF Stream
  <2>4. <<>> \in Seq(Bytes) /\ Cat(<<>>, <<>>) = <<>>
    <3>1. <<>> \in Seq(Bytes)
      OBVIOUS
    <3> QED BY <3>1, CatNothing
  <2> QED BY <2>1, <2>2, <2>3, <2>4, EarlyNothing, FlatNothing DEF StreamOf
<1>12. StreamInv'
  <2> SUFFICES ASSUME Sound, ~dropped'
               PROVE  Whole(After(file, Stream'), executed, lastDb)
    BY <1>1 DEF StreamInv, Sound
  <2>1. Whole(After(file, Stream), executed, lastDb)
    BY <1>1, <1>2 DEF StreamInv
  <2> QED BY <1>1, <1>10, <1>11, <2>1
<1>13. ImageInv'
  <2> SUFFICES ASSUME m.from = -1 \/ m.db = m.from
               PROVE  Whole(After(FileOf(m), EarlyBytes(early)), executed, lastDb)
    BY <1>1, <1>5 DEF ImageInv
  <2>1. After(FileOf(m), EarlyBytes(early)) = FileOf(m)
    BY <1>2, <1>4, EarlyNothing, AfterNothing
  <2>2. /\ ~FileOf(m).bad /\ FileOf(m).missing = 0 /\ FileOf(m).cmds = <<>>
        /\ FileOf(m).count = m.count /\ FileOf(m).db = m.db
    BY DEF FileOf
  <2>3. lastDb = -1 \/ FileOf(m).db = lastDb
    BY <1>2, <2>2
  <2>4. FileOf(m).count + Len(FileOf(m).cmds) = Len(executed)
    <3>1. Len(executed) \in Nat /\ Len(<<>>) = 0
      BY <1>1, Types
    <3> QED BY <1>2, <2>2, <3>1
  <2>5. CommandsAreRight(FileOf(m), executed)
    <3>1. \A i \in 1..Len(<<>>) : FALSE
      OBVIOUS
    <3> QED BY <2>2, <3>1 DEF CommandsAreRight
  <2> QED BY <2>1, <2>2, <2>3, <2>4, <2>5 DEF Whole
<1>14. FileInv'
  BY <1>1 DEF FileInv, Sound
<1>15. RoomInv'
  <2> SUFFICES ASSUME ~disordered
               PROVE  /\ ~apart => Weight(After(file, <<>>)) <= Len(executed)
                      /\ ~apart => Weight(file) <= m.count
                      /\ Weight(After(FileOf(m), EarlyBytes(early))) <= Len(executed)
    BY <1>1, <1>5, <1>10 DEF RoomInv
  <2> DEFINE g == After(file, Stream)
  <2>1. file \in File /\ Stream \in Seq(Bytes) /\ Len(executed) \in Nat
    BY <1>1, Types
  <2>2. ~apart => Weight(g) <= Len(executed)
    BY DEF Inv, Core, RoomInv
  <2>3. g \in File /\ Weight(file) <= Weight(g)
    <3> HIDE DEF Stream
    <3> QED BY <2>1, AfterType, WeightGrows
  <2> HIDE DEF g
  <2>4. ~apart => Weight(file) <= Len(executed)
    <3>1. Weight(file) \in Nat /\ Weight(g) \in Nat
      BY <2>1, <2>3, WeightType
    <3> QED BY <2>1, <2>2, <2>3, <3>1
  <2>5. After(file, <<>>) = file /\ After(FileOf(m), EarlyBytes(early)) = FileOf(m)
    BY <1>2, <1>4, <2>1, EarlyNothing, AfterNothing
  <2>6. Weight(FileOf(m)) = Len(executed)
    <3>1. FileOf(m).count = m.count /\ FileOf(m).cmds = <<>> /\ FileOf(m).missing = 0
      BY DEF FileOf
    <3>2. Weight(FileOf(m)) = (Len(executed) + 0) + 0
      BY <1>2, <3>1 DEF Weight
    <3> QED BY <2>1, <3>2
  <2>7. Len(executed) <= Len(executed)
    BY <2>1
  <2> QED BY <1>2, <2>4, <2>5, <2>6, <2>7
<1> QED BY <1>3, <1>7, <1>8, <1>12, <1>13, <1>14, <1>15 DEF Inv, Core

LEMMA RewriteDoneInv ==
    ASSUME Inv, NEW ok \in BOOLEAN, RewriteDone(ok)
    PROVE  Core'
<1> DEFINE m == rewrite.image
<1>1. /\ TypeOK /\ BufferInv /\ ThreadInv /\ ImageInv /\ FileInv /\ StreamInv
      /\ rewrite.phase = "running" /\ rewrite' = NothingRewritten
      /\ thread' = "drain" /\ alive' = TRUE /\ dropped' = FALSE
      /\ UNCHANGED bufferVars
      /\ UNCHANGED <<executed, writing, lastDb, early, up, used, disordered>>
  BY DEF Inv, Core, RewriteDone, Finished, logicVars
<1>2. IF ok
      THEN /\ file' = FileOf(m) /\ gap' = FALSE
           /\ misplaced' = (m.from # -1 /\ m.db # m.from) /\ apart' = FALSE
      ELSE /\ gap' = (gap \/ dropped) /\ UNCHANGED <<file, misplaced, apart>>
  BY DEF RewriteDone, Finished
<1>3. FileOf(m) \in File /\ file \in File /\ early \in Early
  BY <1>1, Types, ImageType
<1> HIDE DEF m
<1>4. /\ thread = "none" /\ tmp = <<>> /\ ring = <<>> /\ back = <<>> /\ writing = <<>>
      /\ locked = <<>>
  BY <1>1 DEF ThreadInv, NoRewrite
<1>5. BufferInv' /\ UNCHANGED <<ring, back, tmp, locked, overtaken>>
  BY <1>1, BufferStays DEF bufferVars
<1>6. LogicTypeOK'
  <2>1. LogicTypeOK
    BY <1>1, TypeParts
  <2>2. file' \in File /\ gap' \in BOOLEAN /\ misplaced' \in BOOLEAN /\ apart' \in BOOLEAN
    BY <1>2, <1>3, <2>1 DEF LogicTypeOK
  <2> QED BY <1>1, <2>1, <2>2 DEF LogicTypeOK, NothingRewritten
<1>7. TypeOK'
  BY <1>5, <1>6, TypePartsNext DEF BufferInv
<1>8. ThreadInv'
  BY <1>1, <1>4, <1>5 DEF ThreadInv, NothingRewritten, NoRewrite
<1>9. Stream' = EarlyBytes(early) /\ Stream = EarlyBytes(early)
  BY <1>1, <1>3, <1>4, <1>5, StreamEarly DEF Stream
<1>10. StreamInv'
  <2> SUFFICES ASSUME Sound'
               PROVE  Whole(After(file', EarlyBytes(early)), executed, lastDb)
    BY <1>1, <1>9 DEF StreamInv
  <2>1. CASE ok
    <3>1. m.from = -1 \/ m.db = m.from
      BY <1>2, <2>1 DEF Sound
    <3>2. Whole(After(FileOf(m), EarlyBytes(early)), executed, lastDb)
      BY <1>1, <3>1 DEF ImageInv, m
    <3> QED BY <1>2, <2>1, <3>2
  <2>2. CASE ~ok
    <3>1. Sound /\ ~dropped
      BY <1>1, <1>2, <2>2 DEF Sound
    <3>2. Whole(After(file, Stream), executed, lastDb)
      BY <1>1, <3>1 DEF StreamInv
    <3> QED BY <1>2, <1>9, <2>2, <3>2
  <2> QED BY <2>1, <2>2
<1>11. ImageInv'
  BY <1>1 DEF ImageInv, NothingRewritten, NoRewrite
<1>12. FileInv'
  BY <1>1, <1>7, <1>10, FileInvNext
<1>13. RoomInv'
  <2> SUFFICES ASSUME ~disordered, ~apart'
               PROVE  Weight(After(file', EarlyBytes(early))) <= Len(executed)
    BY <1>1, <1>9 DEF RoomInv, NothingRewritten, NoRewrite
  <2>1. /\ ~apart => Weight(After(file, EarlyBytes(early))) <= Len(executed)
        /\ Weight(After(FileOf(m), EarlyBytes(early))) <= Len(executed)
    BY <1>1, <1>9 DEF Inv, Core, RoomInv, m
  <2> QED BY <1>2, <2>1
<1> QED BY <1>5, <1>7, <1>8, <1>10, <1>11, <1>12, <1>13 DEF Inv, Core

\* The commands of the file, numbered as the new process knows them, are all it has.
LEMMA AofIsWhole ==
    ASSUME Inv, LoadAof
    PROVE  /\ executed' \in Seq(Command) /\ Len(executed') <= MaxWrites /\ file' \in File
           /\ file'.count <= Len(executed') /\ apart' = FALSE
           /\ Whole(file', executed', -1)
<1> DEFINE c == file.count
           n == Len(file.cmds)
           k == Recovered
           q == [i \in 1..n |-> [n |-> c + i, db |-> file.cmds[i].db]]
<1>1. /\ ~file.bad /\ file.missing = 0 /\ k <= MaxWrites /\ apart' = FALSE
      /\ executed' = Replayed /\ file' = [file EXCEPT !.cmds = q]
  BY DEF LoadAof, Loads, Renumbered
<1>2. file \in File /\ executed \in Seq(Command) /\ c <= Len(executed) /\ Len(executed) \in Nat
  BY Types DEF Inv, Core, CountInv
<1>3. c \in Nat /\ n \in Nat /\ k = c + n /\ MaxWrites \in Nat
  BY <1>2, WeightType, BoundsAssumption DEF Recovered
<1>4. \A i \in 1..n : file.cmds[i] \in [n : 1..MaxWrites, db : Dbs] /\ file.cmds[i].db \in Dbs
  <2> SUFFICES ASSUME NEW i \in 1..n
               PROVE  file.cmds[i] \in [n : 1..MaxWrites, db : Dbs] /\ file.cmds[i].db \in Dbs
    OBVIOUS
  <2>1. file.cmds \in Seq([n : 1..MaxWrites, db : Dbs])
    BY <1>2, FileFields
  <2>2. file.cmds[i] \in [n : 1..MaxWrites, db : Dbs]
    BY <2>1, ElementOfSeq
  <2> QED BY <2>2
<1>5. executed' = [i \in 1..k |->
                     [db |-> IF i <= c THEN executed[i].db ELSE file.cmds[i - c].db]]
  BY <1>1 DEF Replayed
<1>6. /\ file'.count = c /\ file'.cmds = q /\ ~file'.bad /\ file'.missing = 0
      /\ file'.db = file.db /\ file'.cmd = file.cmd
  BY <1>1, <1>2 DEF File
<1> HIDE DEF c, n, k
<1>7. executed' \in [1..k -> Command]
  <2> SUFFICES ASSUME NEW i \in 1..k
               PROVE  [db |-> IF i <= c THEN executed[i].db ELSE file.cmds[i - c].db] \in Command
    BY <1>5
  <2>1. CASE i <= c
    <3>1. i \in 1..Len(executed)
      BY <1>2, <1>3, <2>1
    <3>2. executed[i] \in Command
      BY <1>2, <3>1, ElementOfSeq
    <3> QED BY <2>1, <3>2 DEF Command
  <2>2. CASE ~(i <= c)
    <3>1. i - c \in 1..n
      BY <1>3, <2>2
    <3>2. file.cmds[i - c].db \in Dbs
      BY <1>4, <3>1
    <3> QED BY <2>2, <3>2 DEF Command
  <2> QED BY <2>1, <2>2
<1>8. executed' \in Seq(Command) /\ Len(executed') = k
  BY <1>3, <1>7
<1>9. q \in Seq([n : 1..MaxWrites, db : Dbs]) /\ Len(q) = n
      /\ \A i \in 1..n : q[i] = [n |-> c + i, db |-> file.cmds[i].db]
  <2>1. \A i \in 1..n : c + i \in 1..MaxWrites
    BY <1>1, <1>3
  <2>2. q \in [1..n -> [n : 1..MaxWrites, db : Dbs]]
    BY <1>4, <2>1
  <2> QED BY <1>3, <2>2
<1>10. \A i \in 1..n : c + i \in 1..k /\ executed'[c + i].db = file.cmds[i].db
  <2> SUFFICES ASSUME NEW i \in 1..n
               PROVE  c + i \in 1..k /\ executed'[c + i].db = file.cmds[i].db
    OBVIOUS
  <2>1. c + i \in 1..k /\ ~(c + i <= c) /\ (c + i) - c = i
    BY <1>3
  <2> DEFINE j == c + i
  <2>2. j \in 1..k /\ ~(j <= c) /\ j - c = i
    BY <2>1
  <2> HIDE DEF j
  <2>3. executed'[j] = [db |-> file.cmds[j - c].db]
    BY <1>5, <2>2
  <2>4. executed'[j].db = file.cmds[i].db
    BY <2>2, <2>3
  <2> QED BY <2>1, <2>4 DEF j
<1> HIDE DEF q
<1>11. file' \in File
  BY <1>1, <1>2, <1>9 DEF File
<1>12. CommandsAreRight(file', executed')
  <2> SUFFICES ASSUME NEW i \in 1..n
               PROVE  /\ c + i <= Len(executed')
                      /\ q[i] = [n |-> c + i, db |-> executed'[c + i].db]
    BY <1>6, <1>9 DEF CommandsAreRight
  <2>1. c + i \in 1..k /\ executed'[c + i].db = file.cmds[i].db
    BY <1>10
  <2>2. c + i <= k
    BY <2>1
  <2> QED BY <1>8, <1>9, <2>1, <2>2
<1>13. Whole(file', executed', -1)
  BY <1>3, <1>6, <1>8, <1>9, <1>12 DEF Whole
<1>14. c <= k
  BY <1>3
<1> QED BY <1>1, <1>6, <1>8, <1>11, <1>13, <1>14

\* Beside the file: what was there of it cannot be read, or is nothing.
LEMMA RdbIsApart ==
    ASSUME Inv, LoadRdb
    PROVE  /\ executed' \in Seq(Command) /\ Len(executed') <= MaxWrites /\ file' \in File
           /\ file'.count = 0 /\ file'.count <= Len(executed') /\ apart' \in BOOLEAN
           /\ ~apart' => Loads /\ executed' = <<>> /\ Whole(file', executed', -1)
<1>1. PICK n \in 0..MaxWrites : executed' \in [1..n -> Command]
  BY DEF LoadRdb
<1>2. /\ file' = [FileOf(NoImage) EXCEPT !.bad = ~Loads]
      /\ apart' = (~Loads \/ executed' # <<>>)
  BY DEF LoadRdb
<1>3. executed' \in Seq(Command) /\ Len(executed') = n /\ n \in Nat /\ n <= MaxWrites
  <2>1. n \in Nat /\ n <= MaxWrites
    BY BoundsAssumption
  <2> QED BY <1>1, <2>1
<1>4. /\ file'.count = 0 /\ file'.cmds = <<>> /\ file'.missing = 0 /\ file'.bad = ~Loads
      /\ file'.db = 0 /\ file'.cmd = 0
  BY <1>2 DEF FileOf, NoImage
<1>5. file' \in File
  <2>1. 0 \in 0..MaxWrites /\ 0 \in Dbs /\ <<>> \in Seq([n : 1..MaxWrites, db : Dbs])
    BY BoundsAssumption, DbsAssumption
  <2>2. (~Loads) \in BOOLEAN
    OBVIOUS
  <2> QED BY <1>2, <2>1, <2>2 DEF FileOf, NoImage, File
<1>6. apart' \in BOOLEAN
  BY <1>2
<1>7. ASSUME ~apart' PROVE Loads /\ executed' = <<>> /\ Whole(file', executed', -1)
  <2>1. Loads /\ executed' = <<>>
    BY <1>2, <1>7
  <2>2. Len(<<>>) = 0 /\ \A i \in 1..Len(<<>>) : FALSE
    OBVIOUS
  <2>3. CommandsAreRight(file', executed')
    BY <1>4, <2>2 DEF CommandsAreRight
  <2>4. ~file'.bad
    BY <1>4, <2>1
  <2>5. file'.count + Len(file'.cmds) = Len(executed')
    BY <1>4, <2>1, <2>2
  <2> QED BY <1>4, <2>1, <2>3, <2>4, <2>5 DEF Whole
<1> QED BY <1>3, <1>4, <1>5, <1>6, <1>7

LEMMA RestartInv ==
    ASSUME Inv, Restart
    PROVE  Core'
<1>1. /\ TypeOK /\ NewBuffer'
      /\ up' = TRUE /\ writing' = <<>> /\ lastDb' = -1 /\ early' = Nothing
      /\ thread' = "drain" /\ alive' = TRUE /\ rewrite' = NothingRewritten
      /\ gap' = FALSE /\ dropped' = FALSE /\ misplaced' = FALSE /\ disordered' = FALSE
      /\ used' = used
  BY DEF Inv, Core, Restart, Started, NewBuffer
<1>2. /\ BufferInv' /\ tmp' = <<>> /\ ring' = <<>> /\ back' = <<>> /\ locked' = <<>>
      /\ overtaken' = FALSE
  BY <1>1, NewBufferInvNext DEF NewBuffer
<1>3. /\ executed' \in Seq(Command) /\ Len(executed') <= MaxWrites /\ file' \in File
      /\ apart' \in BOOLEAN /\ (~apart' => Whole(file', executed', -1))
  BY AofIsWhole, RdbIsApart DEF Restart
<1>4. LogicTypeOK'
  <2>1. LogicTypeOK
    BY <1>1, TypeParts
  <2>2. early' \in [ring : Seq(Bytes), back : Seq(Bytes)] /\ <<>> \in Seq(Seq(Bytes))
    BY <1>1, EarlyNothing DEF Early
  <2> QED BY <1>1, <1>3, <2>1, <2>2 DEF LogicTypeOK, NothingRewritten
<1>5. TypeOK'
  BY <1>2, <1>4, TypePartsNext DEF BufferInv
<1>6. ThreadInv'
  <2>1. PiecesOK(<<>>)
    BY DEF PiecesOK
  <2> QED BY <1>1, <1>2, <2>1 DEF ThreadInv, NothingRewritten, NoRewrite
<1>7. Stream' = <<>>
  BY <1>1, <1>2, EarlyNothing, StreamEarly DEF Stream
<1>8. After(file', Stream') = file'
  <2> DEFINE f == file'
  <2>1. f \in File
    BY <1>3
  <2> HIDE DEF f
  <2>2. After(f, <<>>) = f
    BY <2>1, AfterNothing
  <2> QED BY <1>7, <2>2 DEF f
<1>9. StreamInv'
  BY <1>1, <1>3, <1>8 DEF StreamInv, Sound
<1>10. ImageInv'
  BY <1>1 DEF ImageInv, NothingRewritten, NoRewrite
<1>11. FileInv'
  BY <1>1, <1>5, <1>9, FileInvNext
<1>12. RoomInv'
  <2>1. ASSUME ~apart' PROVE Weight(file') <= Len(executed')
    <3> DEFINE f == file'
               n == Len(executed')
    <3>1. f \in File /\ f.missing = 0 /\ f.count + Len(f.cmds) = n /\ n \in Nat
      BY <1>3, <2>1, LenProperties DEF Whole
    <3> HIDE DEF f, n
    <3>2. Weight(f) = n + 0
      BY <3>1 DEF Weight
    <3>3. Weight(f) <= n
      BY <3>1, <3>2
    <3> QED BY <3>3 DEF f, n
  <2> QED BY <1>1, <1>8, <2>1 DEF RoomInv, NothingRewritten, NoRewrite
<1> QED BY <1>2, <1>5, <1>6, <1>9, <1>10, <1>11, <1>12 DEF Core

\* No step loses a command that an image is of.
LEMMA CountStep ==
    ASSUME Inv, [Next]_vars
    PROVE  CountInv'
<1>1. /\ TypeOK /\ file \in File /\ executed \in Seq(Command) /\ Len(executed) \in Nat
      /\ file.count \in Nat /\ CountInv
  BY Types, WeightType DEF Inv, Core
<1>2. \A s \in Seq(Bytes) : After(file, s).count = file.count
  BY <1>1, AfterGrows
<1>3. ASSUME NEW d \in Dbs, NEW size \in Sizes, SaveCommand(d, size) PROVE CountInv'
  <2> DEFINE c == [db |-> d]
  <2>1. executed' = Append(executed, c) /\ UNCHANGED <<file, rewrite>> /\ c \in Command
    BY <1>3 DEF SaveCommand, Command
  <2> HIDE DEF c
  <2>2. Len(executed') = Len(executed) + 1
    BY <1>1, <2>1, AppendProperties
  <2>3. rewrite.image.count \in Nat
    BY <1>1, ImageType, BoundsAssumption DEF Image
  <2> QED BY <1>1, <2>1, <2>2, <2>3 DEF CountInv
<1>4. ASSUME UNCHANGED <<executed, rewrite>>, file'.count = file.count PROVE CountInv'
  BY <1>1, <1>4 DEF CountInv
<1>5. CASE Drain
  <2>1. early.ring \in Seq(Bytes) /\ early.back \in Seq(Bytes)
    BY <1>1, Types, EarlyType
  <2>2. After(file, early.ring).count = file.count /\ After(file, early.back).count = file.count
    BY <1>2, <2>1
  <2>3. UNCHANGED <<executed, rewrite>> /\ file'.count = file.count
    BY <1>5, <2>2 DEF Drain, Logged, logicVars
  <2> QED BY <1>4, <2>3
<1>6. CASE Flush
  <2>1. CASE UNCHANGED file
    BY <1>4, <1>6, <2>1 DEF Flush, logicVars
  <2>2. CASE Skip(seen) /\ Logged(SubSeq(Source, 1, seen))
    <3> DEFINE a == SubSeq(Source, 1, seen)
    <3>1. Source \in Seq(Bytes) /\ seen \in 0..Len(Source)
      <4>1. Source \in Seq(Bytes) /\ seen \in Nat
        BY <1>1, Types DEF Source, TypeOK, BufferTypeOK
      <4>2. seen <= Len(Source)
        BY <2>2 DEF Inv, Core, BufferInv, CountsAreRight, Skip
      <4> QED BY <4>1, <4>2, LenProperties
    <3>2. a \in Seq(Bytes) /\ file' = After(file, a)
      BY <2>2, <3>1, Halves DEF Logged
    <3> HIDE DEF a
    <3>3. file'.count = file.count
      BY <1>2, <3>2
    <3> QED BY <1>4, <1>6, <3>3 DEF Flush, logicVars
  <2> QED BY <1>6, <2>1, <2>2 DEF Flush
<1>7. CASE BgRewriteAof
  <2>1. UNCHANGED <<executed, file>> /\ rewrite'.image.count = Len(executed)
    BY <1>7 DEF BgRewriteAof, logicVars
  <2>2. Len(executed) <= Len(executed)
    BY <1>1
  <2> QED BY <1>1, <2>1, <2>2 DEF CountInv
<1>8. CASE StopEnds
  <2>1. rewrite \in [phase : {"stopping", "running"}, image : Image] /\ rewrite.phase # NoRewrite
    BY <1>1, <1>8 DEF StopEnds, TypeOK, NoRewrite
  <2>2. /\ UNCHANGED <<executed, file>> /\ rewrite' = [rewrite EXCEPT !.phase = "running"]
    BY <1>8 DEF StopEnds, logicVars
  <2>3. rewrite'.image = rewrite.image
    BY <2>1, <2>2
  <2> QED BY <1>1, <2>1, <2>2, <2>3 DEF CountInv
<1>9. ASSUME NEW ok \in BOOLEAN, RewriteDone(ok) PROVE CountInv'
  <2>1. /\ executed' = executed /\ rewrite' = NothingRewritten /\ rewrite.phase = "running"
        /\ file' = FileOf(rewrite.image) \/ file' = file
    BY <1>9 DEF RewriteDone, Finished, logicVars
  <2>2. rewrite.image.count <= Len(executed) /\ file.count <= Len(executed)
    BY <1>1, <2>1 DEF CountInv, NoRewrite
  <2>3. file'.count = rewrite.image.count \/ file'.count = file.count
    BY <2>1 DEF FileOf
  <2> QED BY <2>1, <2>2, <2>3 DEF CountInv, NothingRewritten, NoRewrite
<1>10. CASE Restart
  <2>1. file'.count <= Len(executed')
    BY <1>10, AofIsWhole, RdbIsApart DEF Restart
  <2> QED BY <1>10, <2>1 DEF Restart, Started, CountInv, NothingRewritten, NoRewrite
<1>11. CASE WritePiece \/ RunEnds \/ Crash \/ UNCHANGED vars
  BY <1>4, <1>11 DEF WritePiece, RunEnds, Crash, vars, logicVars
<1> QED BY <1>3, <1>5, <1>6, <1>7, <1>8, <1>9, <1>10, <1>11 DEF Next

LEMMA Step == Inv /\ [Next]_vars => Inv'
<1> SUFFICES ASSUME Inv, [Next]_vars PROVE Inv'
  OBVIOUS
<1>1. ASSUME NEW d \in Dbs, NEW size \in Sizes, SaveCommand(d, size) PROVE Core'
  BY <1>1, SaveCommandInv
<1>2. ASSUME NEW ok \in BOOLEAN, RewriteDone(ok) PROVE Core'
  BY <1>2, RewriteDoneInv
<1>3. ASSUME UNCHANGED vars PROVE Core'
  <2>1. BufferInv'
    BY <1>3, BufferStays DEF vars, Inv, Core
  <2> QED BY <1>3, <2>1
          DEF vars, logicVars, bufferVars, history, Inv, Core, TypeOK, BufferTypeOK, ThreadInv,
              StreamInv, ImageInv, FileInv, RoomInv, Stream, Sound
<1>4. Core'
  BY <1>1, <1>2, <1>3, WritePieceInv, DrainInv, FlushInv, RunEndsInv, BgRewriteAofInv,
     StopEndsInv, CrashInv, RestartInv DEF Next
<1>5. CountInv'
  BY CountStep
<1> QED BY <1>4, <1>5 DEF Inv

-----------------------------------------------------------------------------
(***************************************************************************)
(* Theorems.                                                               *)
(***************************************************************************)

LEMMA Always == Spec => []Inv
BY InitInv, Step, PTL DEF Spec

\* Every variable keeps its type, whatever the pieces, rewrites and crashes.
THEOREM TypeCorrect == Spec => []TypeOK
<1>1. Inv => TypeOK
  BY DEF Inv, Core
<1> QED BY <1>1, Always, PTL

\* The buffer between SaveCommand and the AOF thread gives its bytes in order, in the
\* steps that this server takes of it, a new buffer for each new thread included.
THEOREM BytesComeInOrderHere == Spec => []InOrder
<1>1. Inv => InOrder
  BY DEF Inv, Core, BufferInv
<1> QED BY <1>1, Always, PTL

\* A sound file stands for the first commands executed, each in its database, across
\* rewrites that end well or not, crashes and restarts.  It is not sound, by name, after a
\* start beside it, which a last command that is not whole leads to, until it is rewritten.
THEOREM FileStaysAPrefix == Spec => []FileIsAPrefix
<1>1. Inv => FileIsAPrefix
  <2> SUFFICES ASSUME Inv, Sound
               PROVE  /\ ~file.bad
                      /\ \A i \in DOMAIN file.cmds :
                            file.cmds[i] = [n |-> file.count + i, db |-> executed[file.count + i].db]
    BY DEF FileIsAPrefix
  <2>1. Right(file, executed)
    BY DEF Inv, Core, FileInv
  <2>2. DOMAIN file.cmds = 1..Len(file.cmds)
    BY Types, FileFields, LenProperties DEF Inv, Core
  <2> QED BY <2>1, <2>2 DEF Right, CommandsAreRight
<1> QED BY <1>1, Always, PTL

-----------------------------------------------------------------------------
(***************************************************************************)
(* The file, the server and its crashes are a DurableLog.                  *)
(***************************************************************************)

logVars == Log!logVars

LEMMA InitIsALog == Init => Log!Init
<1> SUFFICES ASSUME Init PROVE Log!Init
  OBVIOUS
<1>1. Recovered = 0
  BY DEF Init, Recovered, FileOf, NoImage
<1>2. Sound /\ apart = FALSE
  BY DEF Init, Sound
<1>3. Loads
  BY DEF Init, Loads, FileOf
<1> QED BY <1>1, <1>2, <1>3 DEF Init, Log!Init

\* What the abstract log sees, and does not see in a step of the threads.
LEMMA StutterOfALog ==
    ASSUME UNCHANGED <<executed, file, up, gap, misplaced, disordered, apart>>
    PROVE  UNCHANGED logVars
BY DEF logVars, Log!logVars, Recovered, Sound, Loads

LEMMA SaveCommandExecutes ==
    ASSUME Inv, NEW d \in Dbs, NEW size \in Sizes, SaveCommand(d, size)
    PROVE  Log!Execute
<1> DEFINE c == [db |-> d]
           n == Len(executed)
           more == Append(executed, c)
           q == SubSeq(more, 1, n)
<1>1. /\ up /\ executed' = more
      /\ UNCHANGED <<file, up, gap, misplaced, disordered, apart>>
  BY DEF SaveCommand, LogicThread, history
<1>2. executed \in Seq(Command) /\ n \in Nat /\ c \in Command
  BY Types DEF Inv, Core, Command
<1> HIDE DEF c
<1>3. more \in Seq(Command) /\ Len(more) = n + 1 /\ \A i \in 1..n : more[i] = executed[i]
  BY <1>2, AppendProperties
<1> HIDE DEF more
<1>4. q = executed
  <2>1. \A i \in 1..n : more[i] \in Command
    BY <1>2, <1>3, ElementOfSeq
  <2>2. q \in Seq(Command) /\ Len(q) = n /\ \A i \in 1..n : q[i] = more[i]
    BY <1>2, <1>3, <2>1, SubSeqProperties
  <2> HIDE DEF q
  <2> QED BY <1>2, <1>3, <2>2, SeqEqual DEF n
<1>5. UNCHANGED <<Recovered, Sound, Loads>>
  BY <1>1 DEF Recovered, Sound, Loads
<1> QED BY <1>1, <1>3, <1>4, <1>5 DEF Log!Execute

LEMMA TruthValues == Loads' \in BOOLEAN /\ (~Sound') \in BOOLEAN
BY DEF Loads, Sound

\* The file is written: what it stood for it stands for still.
LEMMA LoggedWrites ==
    ASSUME Inv, Inv', up, NEW a \in Seq(Bytes), file' = After(file, a),
           UNCHANGED <<executed, up, apart>>
    PROVE  Log!Write
<1> DEFINE g == After(file, a)
<1>1. file \in File /\ g \in File
  BY Types, AfterType DEF Inv, Core
<1>2. g.count = file.count /\ Len(file.cmds) <= Len(g.cmds)
  BY <1>1, AfterGrows
<1> HIDE DEF g
<1>3. /\ file.count \in Nat /\ Len(file.cmds) \in Nat /\ Len(g.cmds) \in Nat
  BY <1>1, WeightType
<1>4. Recovered <= Recovered'
  <2>1. Recovered' = g.count + Len(g.cmds)
    BY DEF Recovered, g
  <2> QED BY <1>2, <1>3, <2>1 DEF Recovered
<1>5. Sound' => Recovered' <= Len(executed)
  BY DEF Inv, Core, FileInv, Right, Recovered
<1>6. apart \in BOOLEAN /\ (apart' => ~Sound')
  BY DEF Inv, Core, TypeOK, Sound
<1> QED BY <1>4, <1>5, <1>6, TruthValues DEF Log!Write

LEMMA DrainWrites ==
    ASSUME Inv, Inv', Drain
    PROVE  [Log!Next]_logVars
<1>1. /\ up /\ early \in Early
      /\ UNCHANGED <<executed, up, gap, misplaced, disordered, apart>>
  BY Types DEF Inv, Core, Drain, logicVars, history
<1>2. early.ring \in Seq(Bytes) /\ early.back \in Seq(Bytes)
  BY <1>1, EarlyType
<1>3. CASE Logged(early.ring)
  <2> DEFINE a == early.ring
  <2>1. a \in Seq(Bytes) /\ file' = After(file, a)
    BY <1>2, <1>3 DEF Logged
  <2> HIDE DEF a
  <2> QED BY <1>1, <2>1, LoggedWrites DEF Log!Next
<1>4. CASE Logged(early.back)
  <2> DEFINE a == early.back
  <2>1. a \in Seq(Bytes) /\ file' = After(file, a)
    BY <1>2, <1>4 DEF Logged
  <2> HIDE DEF a
  <2> QED BY <1>1, <2>1, LoggedWrites DEF Log!Next
<1>5. CASE UNCHANGED file
  BY <1>1, <1>5, StutterOfALog
<1> QED BY <1>3, <1>4, <1>5 DEF Drain

LEMMA FlushWrites ==
    ASSUME Inv, Inv', Flush
    PROVE  Log!Write
<1>1. /\ up /\ UNCHANGED <<executed, up, apart>>
  BY DEF Flush, logicVars
<1>2. CASE UNCHANGED file
  <2>1. file \in File /\ file' = After(file, <<>>) /\ <<>> \in Seq(Bytes)
    BY <1>2, Types, AfterNothing DEF Inv, Core
  <2> QED BY <1>1, <2>1, LoggedWrites
<1>3. CASE Skip(seen) /\ Logged(SubSeq(Source, 1, seen))
  <2> DEFINE a == SubSeq(Source, 1, seen)
  <2>1. Source \in Seq(Bytes) /\ seen \in 0..Len(Source)
    <3>1. Source \in Seq(Bytes) /\ seen \in Nat
      BY Types DEF Inv, Core, Source, TypeOK, BufferTypeOK
    <3>2. seen <= Len(Source)
      BY <1>3 DEF Inv, Core, BufferInv, CountsAreRight, Skip
    <3> QED BY <3>1, <3>2, LenProperties
  <2>2. a \in Seq(Bytes) /\ file' = After(file, a)
    BY <1>3, <2>1, Halves DEF Logged
  <2> HIDE DEF a
  <2> QED BY <1>1, <2>2, LoggedWrites
<1> QED BY <1>2, <1>3 DEF Flush

\* A start, from the file or beside it, is one of the log.
LEMMA RestartOfALog ==
    ASSUME Inv, Restart
    PROVE  Log!Restart
<1>1. ~up /\ up' = TRUE /\ ~gap' /\ ~misplaced' /\ ~disordered'
  BY DEF Restart, Started
<1>2. (~Sound') = apart'
  BY <1>1, AofIsWhole, RdbIsApart DEF Restart, Sound
<1>3. CASE LoadAof
  <2>1. /\ executed' \in Seq(Command) /\ file' \in File /\ apart' = FALSE
        /\ Whole(file', executed', -1)
    BY <1>3, AofIsWhole
  <2>2. Loads /\ Loads'
    BY <1>3, <2>1 DEF LoadAof, Loads, Whole
  <2>3. Recovered' = Len(executed')
    BY <2>1 DEF Whole, Recovered
  <2>4. ASSUME Sound PROVE executed' = SubSeq(executed, 1, Recovered)
    <3> DEFINE k == Recovered
               c == file.count
               n == Len(file.cmds)
               q == SubSeq(executed, 1, k)
    <3>1. file \in File /\ executed \in Seq(Command) /\ Right(file, executed)
      BY <2>4, Types DEF Inv, Core, FileInv
    <3>2. /\ c \in Nat /\ n \in Nat /\ k = c + n /\ k <= Len(executed) /\ Len(executed) \in Nat
      BY <3>1, WeightType, LenProperties DEF Recovered, Right
    <3>3. executed' = [i \in 1..k |->
                         [db |-> IF i <= c THEN executed[i].db ELSE file.cmds[i - c].db]]
      BY <1>3 DEF LoadAof, Replayed
    <3>4. \A i \in 1..n : file.cmds[i].db = executed[c + i].db
      <4> SUFFICES ASSUME NEW i \in 1..n PROVE file.cmds[i].db = executed[c + i].db
        OBVIOUS
      <4>1. file.cmds[i] = [n |-> c + i, db |-> executed[c + i].db]
        BY <3>1 DEF Right, CommandsAreRight
      <4> QED BY <4>1
    <3> HIDE DEF c, n, k
    <3>5. q \in Seq(Command) /\ Len(q) = k /\ \A i \in 1..k : q[i] = executed[i]
      <4>1. \A i \in 1..k : executed[i] \in Command
        BY <3>1, <3>2, ElementOfSeq
      <4>2. k \in 0..Len(executed)
        BY <3>2
      <4> QED BY <3>1, <3>2, <4>1, <4>2, SubSeqProperties
    <3>6. Len(executed') = k
      BY <3>2, <3>3
    <3>7. ASSUME NEW i \in 1..k PROVE executed'[i] = executed[i]
      <4>1. executed'[i] = [db |-> executed[i].db]
        <5>1. CASE i <= c
          BY <3>3, <5>1
        <5>2. CASE ~(i <= c)
          <6>1. i - c \in 1..n /\ c + (i - c) = i
            BY <3>2, <5>2
          <6>2. file.cmds[i - c].db = executed[c + (i - c)].db
            BY <3>4, <6>1
          <6> QED BY <3>3, <5>2, <6>1, <6>2
        <5> QED BY <5>1, <5>2
      <4>2. executed[i] \in Command
        BY <3>1, <3>2, ElementOfSeq
      <4> QED BY <4>1, <4>2 DEF Command
    <3> HIDE DEF q
    <3> QED BY <2>1, <3>2, <3>5, <3>6, <3>7, SeqEqual DEF k, q
  <2>5. Sound'
    BY <1>2, <2>1
  <2>6. Log!RestartFromFile
    BY <2>1, <2>2, <2>3, <2>4, <2>5 DEF Log!RestartFromFile
  <2> QED BY <1>1, <2>6 DEF Log!Restart
<1>4. CASE LoadRdb
  <2>1. file' = [FileOf(NoImage) EXCEPT !.bad = ~Loads]
    BY <1>4 DEF LoadRdb
  <2>2. file'.count = 0 /\ file'.cmds = <<>> /\ file'.missing = 0 /\ file'.bad = ~Loads
    BY <2>1 DEF FileOf, NoImage
  <2>3. Recovered' = 0
    BY <2>2 DEF Recovered
  <2>4. Loads' = Loads
    <3>1. Loads' <=> ~file'.bad /\ file'.missing = 0
      BY DEF Loads
    <3>2. Loads' <=> Loads
      BY <2>2, <3>1
    <3> QED BY <3>2 DEF Loads
  <2>5. Log!RestartBesideFile
    BY <1>2, <1>4, <2>3, <2>4 DEF LoadRdb, Log!RestartBesideFile
  <2> QED BY <1>1, <2>5 DEF Log!Restart
<1> QED BY <1>3, <1>4 DEF Restart

\* A rewritten file takes the place of the old one with all that this held.
LEMMA RewriteDoneWrites ==
    ASSUME Inv, Inv', NEW ok \in BOOLEAN, RewriteDone(ok)
    PROVE  Log!Write
<1> DEFINE m == rewrite.image
<1>1. /\ up /\ rewrite.phase = "running" /\ UNCHANGED <<executed, up, disordered>>
      /\ IF ok THEN file' = FileOf(m) /\ apart' = FALSE ELSE UNCHANGED <<file, apart>>
  BY DEF RewriteDone, Finished, LogicThread, logicVars
<1>2. file \in File /\ m \in Image
  BY Types, ImageType DEF Inv, Core
<1>3. file.count \in Nat /\ Len(file.cmds) \in Nat /\ m.count \in Nat
  BY <1>2, WeightType, BoundsAssumption DEF Image
<1>4. CASE ~ok
  <2>1. file' = After(file, <<>>) /\ <<>> \in Seq(Bytes)
    BY <1>1, <1>2, <1>4, AfterNothing
  <2> QED BY <1>1, <1>4, <2>1, LoggedWrites
<1>5. CASE ok
  <2>1. Recovered' = m.count + 0
    BY <1>1, <1>5 DEF Recovered, FileOf
  <2>2. ASSUME Sound', ~apart PROVE Recovered <= Recovered'
    <3>1. Weight(file) <= m.count
      BY <1>1, <2>2 DEF Inv, Core, RoomInv, Sound
    <3>2. Recovered <= Weight(file)
      BY <1>3 DEF Recovered, Weight
    <3>3. Recovered \in Nat /\ Weight(file) \in Nat
      BY <1>2, <1>3, WeightType DEF Recovered
    <3> QED BY <1>3, <2>1, <3>1, <3>2, <3>3
  <2>3. Sound' => Recovered' <= Len(executed)
    BY <1>1 DEF Inv, Core, FileInv, Right, Recovered
  <2>4. apart \in BOOLEAN
    BY DEF Inv, Core, TypeOK
  <2> QED BY <1>1, <1>5, <2>2, <2>3, <2>4, TruthValues DEF Log!Write
<1> QED BY <1>4, <1>5

LEMMA LogStep == Inv /\ Inv' /\ [Next]_vars => [Log!Next]_logVars
<1> SUFFICES ASSUME Inv, Inv', [Next]_vars PROVE [Log!Next]_logVars
  OBVIOUS
<1>1. ASSUME NEW d \in Dbs, NEW size \in Sizes, SaveCommand(d, size)
      PROVE  [Log!Next]_logVars
  BY <1>1, SaveCommandExecutes DEF Log!Next
<1>2. CASE WritePiece
  BY <1>2, StutterOfALog DEF WritePiece, history
<1>3. CASE RunEnds
  BY <1>3, StutterOfALog DEF RunEnds, logicVars, history
<1>4. CASE BgRewriteAof
  BY <1>4, StutterOfALog DEF BgRewriteAof, logicVars, history
<1>5. CASE StopEnds
  BY <1>5, StutterOfALog DEF StopEnds, logicVars
<1>6. ASSUME NEW ok \in BOOLEAN, RewriteDone(ok)
      PROVE  [Log!Next]_logVars
  BY <1>6, RewriteDoneWrites DEF Log!Next
<1>7. CASE Crash
  <2>1. UNCHANGED <<Recovered, Sound, Loads, apart>>
    BY <1>7 DEF Crash, history, Recovered, Sound, Loads
  <2> QED BY <1>7, <2>1 DEF Crash, logicVars, Log!Next, Log!Crash
<1>8. CASE Restart
  BY <1>8, RestartOfALog DEF Log!Next
<1>9. CASE UNCHANGED vars
  BY <1>9, StutterOfALog DEF vars, logicVars, history
<1> QED BY <1>1, <1>2, <1>3, <1>4, <1>5, <1>6, <1>7, <1>8, <1>9, DrainWrites, FlushWrites
        DEF Next, Log!Next

\* The append-only file implements a durable log: no step of the threads, of a
\* rewrite or of a crash makes a sound file stand for less than before, a rewritten
\* file replaces the old one only with all that it held, and a restarted server has
\* the commands the file stood for if the last one is whole; if it is not, or if there is
\* none, it has what the RDB file has, and the file is apart until it is rewritten.
THEOREM TheFileIsALog == Spec => KeepsALog
<1>1. Inv /\ [Next]_vars => [Log!Next]_logVars
  BY Step, LogStep
<1> QED BY <1>1, InitIsALog, Always, PTL DEF Spec, KeepsALog, Log!Spec, logVars
=============================================================================
