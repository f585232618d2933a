------------------------- MODULE QReplicationProofs -------------------------
(***************************************************************************)
(* Proofs about QReplication, for any number of replicas, writes and forks: *)
(* what a replica is sent is in order whatever fails, and, with savers that *)
(* do not fail, each waiting replica has one.                               *)
(***************************************************************************)
EXTENDS QReplication, TLAPS

-----------------------------------------------------------------------------
(***************************************************************************)
(* Types.                                                                  *)
(***************************************************************************)

TypeInv == TypeOK /\ dirty <= writes

\* A fork keeps types and takes the next pid.
LEMMA ForkTypes ==
    ASSUME TypeOK, NEW rewrite \in BOOLEAN, NEW others, others \subseteq Child,
           Fork(rewrite, others)
    PROVE  /\ lastPid' \in Pids /\ lastPid' = lastPid + 1
           /\ children' \subseteq Child
<1>1. lastPid' \in Pids
  BY BoundsAssumption DEF Fork, TypeOK, Pids
<1>2. Forked(rewrite) \in Child
  BY <1>1 DEF Fork, Forked, Child, TypeOK
<1> QED BY <1>1, <1>2 DEF Fork

\* TryBgsave keeps types, whether it forks, fails to, or need not.
LEMMA TryBgsaveTypes ==
    ASSUME TypeOK, NEW state \in [Slaves -> States], NEW others, others \subseteq Child,
           TryBgsave(state, others)
    PROVE  /\ connected' \subseteq Slaves
           /\ slaveState' \in [Slaves -> States]
           /\ bgsaving' \in BOOLEAN
           /\ buffer' \in Seq(Writes)
           /\ stream' \in [Slaves -> Seq(Writes)]
           /\ lastPid' \in 0..MaxPid
           /\ lastPid' # lastPid => lastPid' \in Pids
           /\ children' \subseteq Child
<1> DEFINE waiting == Waiting(state, "wait_start")
<1>0. waiting \subseteq Slaves
  BY DEF Waiting, TypeOK
<1>e. <<>> \in Seq(Writes)
  OBVIOUS
<1>1. CASE bgsaving \/ waiting = {}
  BY <1>1 DEF TryBgsave, TypeOK, saveVars
<1>2. CASE ~bgsaving /\ waiting # {} /\ Fork(FALSE, others)
           /\ bgsaving' = TRUE /\ buffer' = <<>>
           /\ slaveState' = [s \in Slaves |-> IF s \in waiting THEN "wait_end" ELSE state[s]]
           /\ UNCHANGED <<connected, stream>>
  <2>1. /\ lastPid' \in Pids /\ children' \subseteq Child
    BY <1>2, ForkTypes
  <2>2. slaveState' \in [Slaves -> States]
    BY <1>2 DEF States
  <2> QED BY <1>2, <1>e, <2>1, <2>2 DEF TypeOK, Pids
<1>3. CASE ~bgsaving /\ waiting # {} /\ buffer' = <<>>
           /\ connected' = connected \ waiting
           /\ slaveState' = [s \in Slaves |-> IF s \in waiting THEN "none" ELSE state[s]]
           /\ stream' = [s \in Slaves |-> IF s \in waiting THEN <<>> ELSE stream[s]]
           /\ children' = others
           /\ UNCHANGED <<bgsaving, lastPid>>
  <2>1. slaveState' \in [Slaves -> States]
    BY <1>3 DEF States
  <2>2. stream' \in [Slaves -> Seq(Writes)]
    BY <1>3, <1>e DEF TypeOK
  <2> QED BY <1>3, <1>e, <2>1, <2>2 DEF TypeOK
<1> QED BY <1>1, <1>2, <1>3 DEF TryBgsave

\* The RDB file holds the first writes, in order.
LEMMA FileContentsType ==
    ASSUME TypeOK
    PROVE  /\ FileContents \in Seq(Writes)
           /\ \A i \in 1..Len(FileContents) : FileContents[i] = i
           /\ rdb = None => Len(FileContents) = 0
           /\ rdb # None => Len(FileContents) = rdb
<1>1. CASE rdb = None
  BY <1>1 DEF FileContents
<1>2. CASE rdb # None
  <2>1. rdb \in 0..MaxWrites
    BY <1>2 DEF TypeOK
  <2>2. FileContents = [i \in 1..rdb |-> i]
    BY <1>2 DEF FileContents
  <2>3. \A i \in 1..rdb : i \in Writes
    BY <2>1, BoundsAssumption DEF Writes
  <2> QED BY <1>2, <2>1, <2>2, <2>3
<1> QED BY <1>1, <1>2

\* What a replica was sent are writes.
LEMMA StreamValues ==
    ASSUME TypeOK, NEW s \in Slaves, NEW i \in DOMAIN stream[s]
    PROVE  stream[s][i] \in 1..MaxWrites
<1>1. stream[s] \in Seq(Writes)
  BY DEF TypeOK
<1>2. i \in 1..Len(stream[s])
  BY <1>1
<1>3. stream[s][i] \in Writes
  BY <1>1, <1>2
<1> QED BY <1>3 DEF Writes

\* The end of a save keeps types.
LEMMA OnRdbSaveDoneTypes ==
    ASSUME TypeOK, OnRdbSaveDone
    PROVE  /\ connected' \subseteq Slaves
           /\ slaveState' \in [Slaves -> States]
           /\ bgsaving' \in BOOLEAN
           /\ buffer' \in Seq(Writes)
           /\ stream' \in [Slaves -> Seq(Writes)]
<1> DEFINE ready == Waiting(slaveState, "wait_end")
<1>1. FileContents \o buffer \in Seq(Writes) /\ <<>> \in Seq(Writes)
  BY FileContentsType DEF TypeOK
<1>2. CASE rdb # None \/ ready = {}
  BY <1>1, <1>2 DEF OnRdbSaveDone, TypeOK, States
<1>3. CASE ~(rdb # None \/ ready = {})
  BY <1>3 DEF OnRdbSaveDone, TypeOK, States
<1> QED BY <1>2, <1>3

\* The server starts with nothing written.
LEMMA InitTypes == Init => TypeInv
<1> SUFFICES ASSUME Init PROVE TypeInv
  OBVIOUS
<1>1. <<>> \in Seq(Writes) /\ 0 \in 0..MaxWrites /\ 0 \in 0..MaxPid /\ "none" \in States
  BY BoundsAssumption DEF States
<1>2. bgsaving \in BOOLEAN /\ crashed \in BOOLEAN
  BY DEF Init
<1>3. stream \in [Slaves -> Seq(Writes)] /\ slaveState \in [Slaves -> States]
      /\ missed \in [Slaves -> SUBSET Writes]
  BY <1>1 DEF Init
<1> QED BY <1>1, <1>2, <1>3 DEF Init, TypeInv, TypeOK

\* Every handler keeps types.
LEMMA TypeStep == ASSUME TypeInv, [Next]_vars PROVE TypeInv'
<1> USE DEF TypeInv
<1>1. ASSUME NEW s \in Slaves, Sync(s)
      PROVE  TypeInv'
  <2>1. [slaveState EXCEPT ![s] = "wait_start"] \in [Slaves -> States]
    BY DEF TypeOK, States
  <2>2. children \subseteq Child
    BY DEF TypeOK
  <2>3. TryBgsave([slaveState EXCEPT ![s] = "wait_start"], children)
    BY <1>1 DEF Sync
  <2>4. qdbPid' \in Pids \cup {None}
    BY <1>1, <2>1, <2>2, <2>3, TryBgsaveTypes DEF Sync, PidAfterTry, TypeOK
  <2> HIDE DEF TypeInv
  <2> QED BY <1>1, <2>1, <2>2, <2>3, <2>4, TryBgsaveTypes DEF Sync, TypeInv, TypeOK, dataVars
<1>2. ASSUME NEW s \in Slaves, Disconnect(s)
      PROVE  TypeInv'
  <2>1. <<>> \in Seq(Writes) /\ "none" \in States
    BY DEF States
  <2> QED BY <1>2, <2>1 DEF Disconnect, TypeOK, saveVars, childVars
<1>3. ASSUME NEW s \in Slaves, Connect(s)
      PROVE  TypeInv'
  BY <1>3 DEF Connect, TypeOK, saveVars, dataVars, childVars
<1>4. CASE SendToSlaves
  <2>1. writes' \in Writes /\ writes' = writes + 1 /\ dirty' = dirty + 1
        /\ writes' \in 0..MaxWrites /\ dirty' \in 0..MaxWrites /\ dirty' <= writes'
    BY <1>4, BoundsAssumption DEF SendToSlaves, TypeOK, Writes
  <2>2. buffer' \in Seq(Writes) /\ stream' \in [Slaves -> Seq(Writes)]
        /\ missed' \in [Slaves -> SUBSET Writes]
    <3>1. CASE bgsaving
      <4>1. buffer' = Append(buffer, writes') /\ stream' = stream
        BY <1>4, <3>1 DEF SendToSlaves
      <4>2. missed' \in [Slaves -> SUBSET Writes]
        BY <1>4, <2>1, <3>1 DEF SendToSlaves, TypeOK
      <4> QED BY <2>1, <4>1, <4>2 DEF TypeOK
    <3>2. CASE ~bgsaving
      <4>1. \A s \in Slaves : Append(stream[s], writes') \in Seq(Writes)
        BY <2>1 DEF TypeOK
      <4> QED BY <1>4, <3>2, <4>1 DEF SendToSlaves, TypeOK
    <3> QED BY <3>1, <3>2
  <2> QED BY <1>4, <2>1, <2>2 DEF SendToSlaves, TypeOK, childVars
<1>5. CASE Bgsave
  <2>1. children \subseteq Child
    BY DEF TypeOK
  <2>2. lastPid' \in Pids /\ children' \subseteq Child
    BY <1>5, <2>1, ForkTypes DEF Bgsave
  <2> QED BY <1>5, <2>2 DEF Bgsave, TypeOK, Pids, slaveVars, saveVars, dataVars
<1>6. CASE Save
  BY <1>6 DEF Save, TypeOK, slaveVars, saveVars, dataVars, childVars
<1>7. CASE QdbCron
  <2>1. children \subseteq Child
    BY DEF TypeOK
  <2>2. lastPid' \in Pids /\ children' \subseteq Child
    BY <1>7, <2>1, ForkTypes DEF QdbCron
  <2> QED BY <1>7, <2>2 DEF QdbCron, TypeOK, Pids, slaveVars, saveVars, dataVars
<1>8. CASE BgRewriteAof
  <2>1. children \subseteq Child
    BY DEF TypeOK
  <2>2. lastPid' \in Pids /\ children' \subseteq Child
    BY <1>8, <2>1, ForkTypes DEF BgRewriteAof
  <2> QED BY <1>8, <2>2 DEF BgRewriteAof, TypeOK, Pids, slaveVars, saveVars, dataVars
<1>9. ASSUME NEW p \in children, ChildExit(p)
      PROVE  TypeInv'
  <2>1. p \in Child
    BY DEF TypeOK
  <2>2. [p EXCEPT !.status = "ok"] \in Child /\ [p EXCEPT !.status = "failed"] \in Child
        /\ p.snapshot \in 0..MaxWrites
    BY <2>1 DEF Child
  <2> QED BY <1>9, <2>2 DEF ChildExit, TypeOK, slaveVars, saveVars, dataVars
<1>10. ASSUME NEW p \in children, CheckChild(p)
       PROVE  TypeInv'
  <2>1. children \ {p} \subseteq Child /\ slaveState \in [Slaves -> States]
    BY DEF TypeOK
  <2>2. CASE SaveDone(p)
    <3>0. dirty' = 0 \/ dirty' = dirty
      BY <2>2 DEF SaveDone
    <3>1. dirty' \in 0..MaxWrites /\ dirty' <= writes
      BY <3>0, BoundsAssumption DEF TypeOK
    <3>2. CASE bgsaving
      BY <1>10, <2>1, <2>2, <3>1, <3>2, OnRdbSaveDoneTypes DEF CheckChild, SaveDone, TypeOK
    <3>3. CASE ~bgsaving
      <4>1. TryBgsave(slaveState, children \ {p}) /\ PidAfterTry(None)
        BY <2>2, <3>3 DEF SaveDone
      <4> QED BY <1>10, <2>1, <2>2, <3>1, <4>1, TryBgsaveTypes
              DEF CheckChild, SaveDone, PidAfterTry, TypeOK
    <3> QED BY <3>2, <3>3
  <2>3. CASE RewriteDone(p)
    BY <1>10, <2>1, <2>3 DEF CheckChild, RewriteDone, TypeOK, slaveVars, saveVars
  <2>4. CASE UnknownChild(p)
    BY <1>10, <2>1, <2>4 DEF CheckChild, UnknownChild, TypeOK, slaveVars, saveVars
  <2> QED BY <1>10, <2>2, <2>3, <2>4 DEF CheckChild
<1>11. CASE UNCHANGED vars
  BY <1>11 DEF vars, slaveVars, saveVars, dataVars, childVars, TypeOK
<1> QED BY <1>1, <1>2, <1>3, <1>4, <1>5, <1>6, <1>7, <1>8, <1>9, <1>10, <1>11 DEF Next

\* QReplication's variables keep their types.
THEOREM TypeCorrect == Spec => []TypeOK
<1>1. TypeInv => TypeOK
  BY DEF TypeInv
<1> QED BY <1>1, InitTypes, TypeStep, PTL DEF Spec

-----------------------------------------------------------------------------
(***************************************************************************)
(* Order.  While a save for replicas runs, no other saver is forked and the *)
(* buffer holds all the writes made since the fork, so the file, whichever  *)
(* saver has written it, ends before the buffer begins.                     *)
(***************************************************************************)

SinceFork ==
    /\ Len(buffer) <= writes
    /\ \A i \in 1..Len(buffer) : buffer[i] = writes - Len(buffer) + i
    /\ rdb # None => rdb <= writes - Len(buffer)
    /\ \A p \in children : ~p.rewrite => p.snapshot <= writes - Len(buffer)

NothingAhead ==
    /\ rdb # None => rdb <= writes
    /\ \A p \in children : p.snapshot <= writes
    /\ \A s \in Slaves : \A i \in DOMAIN stream[s] : stream[s][i] <= writes

OrderInv ==
    /\ TypeInv
    /\ NothingAhead
    /\ InOrder
    /\ bgsaving => qdbPid # None
    /\ bgsaving => SinceFork

\* The file and then the buffer.
LEMMA FileThenBuffer ==
    ASSUME NEW f \in Seq(Writes), NEW b \in Seq(Writes), NEW w \in Nat,
           \A i \in 1..Len(f) : f[i] = i,
           \A i \in 1..Len(b) : b[i] = w - Len(b) + i,
           Len(f) <= w - Len(b)
    PROVE  LET q == f \o b
           IN  /\ \A i \in DOMAIN q : q[i] <= w
               /\ \A i, j \in DOMAIN q : i < j => q[i] < q[j]
<1> DEFINE q == f \o b
<1>1. Len(f) \in Nat /\ Len(b) \in Nat
  OBVIOUS
<1>2. DOMAIN q = 1..(Len(f) + Len(b))
  OBVIOUS
<1>3. \A i \in 1..Len(f) : q[i] = i
  OBVIOUS
<1>4. \A i \in (Len(f) + 1)..(Len(f) + Len(b)) : q[i] = w - Len(b) + (i - Len(f))
  <2> SUFFICES ASSUME NEW i \in (Len(f) + 1)..(Len(f) + Len(b))
               PROVE  q[i] = w - Len(b) + (i - Len(f))
    OBVIOUS
  <2>1. q[i] = b[i - Len(f)] /\ i - Len(f) \in 1..Len(b)
    BY <1>1
  <2> QED BY <2>1
<1> HIDE DEF q
<1>5. \A i \in DOMAIN q : q[i] <= w
  BY <1>1, <1>2, <1>3, <1>4
<1>6. \A i, j \in DOMAIN q : i < j => q[i] < q[j]
  <2> SUFFICES ASSUME NEW i \in 1..(Len(f) + Len(b)), NEW j \in 1..(Len(f) + Len(b)), i < j
               PROVE  q[i] < q[j]
    BY <1>2
  <2>1. CASE j <= Len(f)
    BY <2>1, <1>1, <1>3
  <2>2. CASE i <= Len(f) /\ j > Len(f)
    <3>1. q[i] = i /\ q[j] = w - Len(b) + (j - Len(f))
      BY <2>2, <1>1, <1>3, <1>4
    <3> QED BY <2>2, <3>1, <1>1
  <2>3. CASE i > Len(f)
    <3>1. q[i] = w - Len(b) + (i - Len(f)) /\ q[j] = w - Len(b) + (j - Len(f))
      BY <2>3, <1>1, <1>4
    <3> QED BY <3>1, <1>1
  <2> QED BY <2>1, <2>2, <2>3, <1>1
<1> QED BY <1>5, <1>6 DEF q

\* A new saver begins with an empty buffer and the writes made so far.
LEMMA TryBgsaveKeepsOrder ==
    ASSUME OrderInv, NEW state \in [Slaves -> States], NEW others, NEW pid,
           others \subseteq children, TryBgsave(state, others),
           PidAfterTry(pid), bgsaving => pid # None,
           UNCHANGED <<writes, rdb>>
    PROVE  /\ NothingAhead' /\ InOrder'
           /\ bgsaving' => qdbPid' # None
           /\ bgsaving' => SinceFork'
<1> DEFINE waiting == Waiting(state, "wait_start")
<1> USE DEF OrderInv, TypeInv
<1>1. CASE (bgsaving \/ waiting = {}) /\ slaveState' = state /\ children' = others
           /\ UNCHANGED <<connected, stream, saveVars, lastPid>>
  <2>1. qdbPid' = pid
    BY <1>1 DEF PidAfterTry
  <2> QED BY <1>1, <2>1 DEF NothingAhead, InOrder, SinceFork, saveVars
<1>2. CASE ~bgsaving /\ Fork(FALSE, others) /\ bgsaving' = TRUE /\ buffer' = <<>>
           /\ UNCHANGED <<connected, stream>>
  <2>1. /\ lastPid' = lastPid + 1 /\ lastPid \in Nat
        /\ children' = others \cup {Forked(FALSE)}
    BY <1>2 DEF Fork, TypeOK
  <2>2. qdbPid' # None
    BY <2>1, NoneAssumption DEF PidAfterTry
  <2>3. Forked(FALSE).snapshot = writes /\ Len(buffer') = 0 /\ writes \in Nat
    BY <1>2 DEF Forked, TypeOK
  <2>4. NothingAhead' /\ InOrder'
    <3>1. \A p \in children' : p.snapshot <= writes
      <4> SUFFICES ASSUME NEW p \in children' PROVE p.snapshot <= writes
        OBVIOUS
      <4>1. p \in children \/ p = Forked(FALSE)
        BY <2>1
      <4>2. CASE p \in children
        BY <4>2 DEF NothingAhead
      <4>3. CASE p = Forked(FALSE)
        BY <4>3, <2>3 DEF Forked
      <4> QED BY <4>1, <4>2, <4>3
    <3> QED BY <1>2, <3>1 DEF NothingAhead, InOrder
  <2>5. SinceFork'
    BY <2>3, <2>4 DEF NothingAhead, SinceFork, TypeOK
  <2> QED BY <2>2, <2>4, <2>5
<1>3. CASE ~bgsaving
           /\ stream' = [s \in Slaves |-> IF s \in waiting THEN <<>> ELSE stream[s]]
           /\ children' = others
           /\ UNCHANGED <<bgsaving, lastPid>>
  <2>1. \A s \in Slaves : stream'[s] = <<>> \/ stream'[s] = stream[s]
    BY <1>3
  <2>2. DOMAIN <<>> = {}
    OBVIOUS
  <2> QED BY <1>3, <2>1, <2>2 DEF NothingAhead, InOrder
<1> QED BY <1>1, <1>2, <1>3 DEF TryBgsave

\* The file, and the buffer behind it, are what a waiting replica is sent.
LEMMA OnRdbSaveDoneKeepsOrder ==
    ASSUME OrderInv, bgsaving, OnRdbSaveDone, children' \subseteq children,
           UNCHANGED <<writes, rdb>>
    PROVE  NothingAhead' /\ InOrder' /\ ~bgsaving'
<1> USE DEF OrderInv, TypeInv
<1> DEFINE ready == Waiting(slaveState, "wait_end")
           sent == FileContents \o buffer
<1>1. FileContents \in Seq(Writes) /\ buffer \in Seq(Writes) /\ writes \in Nat
  BY FileContentsType DEF TypeOK
<1>2. Len(FileContents) <= writes - Len(buffer)
  BY <1>1, FileContentsType DEF SinceFork, TypeOK
<1>3. /\ \A i \in DOMAIN sent : sent[i] <= writes
      /\ \A i, j \in DOMAIN sent : i < j => sent[i] < sent[j]
  BY <1>1, <1>2, FileThenBuffer, FileContentsType DEF SinceFork
<1>4. \A s \in Slaves : stream'[s] = sent \/ stream'[s] = stream[s]
  BY DEF OnRdbSaveDone, TypeOK
<1> HIDE DEF sent
<1> QED BY <1>3, <1>4 DEF OnRdbSaveDone, NothingAhead, InOrder

\* No other road forks a saver while one runs for replicas.
LEMMA OtherSaverKeepsOrder ==
    ASSUME OrderInv, qdbPid = None, Fork(FALSE, children), UNCHANGED <<writes, rdb>>,
           UNCHANGED <<slaveVars, saveVars>>
    PROVE  NothingAhead' /\ InOrder' /\ ~bgsaving'
<1> USE DEF OrderInv, TypeInv
<1>1. ASSUME NEW p \in children'
      PROVE  p.snapshot <= writes
  <2>1. CASE p \in children
    BY <2>1 DEF NothingAhead
  <2>2. CASE p = Forked(FALSE)
    BY <2>2 DEF Forked, TypeOK
  <2> QED BY <1>1, <2>1, <2>2 DEF Fork
<1> QED BY <1>1 DEF NothingAhead, InOrder, slaveVars, saveVars

\* A replica that was sent nothing was sent nothing out of order.
LEMMA OrderInit == Init => OrderInv
<1> SUFFICES ASSUME Init, TypeOK PROVE OrderInv
  BY InitTypes DEF TypeInv
<1>1. \A s \in Slaves : stream[s] = <<>> /\ DOMAIN <<>> = {}
  BY DEF Init
<1>2. rdb # None => rdb <= 0
  BY DEF Init
<1> QED BY <1>1, <1>2 DEF Init, OrderInv, TypeInv, NothingAhead, InOrder

\* Every handler keeps the order.
LEMMA OrderStep == ASSUME OrderInv, [Next]_vars PROVE OrderInv'
<1> USE DEF OrderInv
<1>0. TypeInv'
  BY TypeStep
<1>1. ASSUME NEW s \in Slaves, Sync(s)
      PROVE  OrderInv'
  <2>1. [slaveState EXCEPT ![s] = "wait_start"] \in [Slaves -> States]
    BY DEF TypeInv, TypeOK, States
  <2>2. TryBgsave([slaveState EXCEPT ![s] = "wait_start"], children)
        /\ PidAfterTry(qdbPid) /\ UNCHANGED <<writes, rdb>>
    BY <1>1 DEF Sync, dataVars
  <2> HIDE DEF OrderInv
  <2>3. bgsaving => qdbPid # None
    BY DEF OrderInv
  <2> QED BY <1>0, <2>1, <2>2, <2>3, TryBgsaveKeepsOrder DEF OrderInv
<1>2. ASSUME NEW s \in Slaves, Disconnect(s)
      PROVE  OrderInv'
  <2>1. \A r \in Slaves : stream'[r] = <<>> \/ stream'[r] = stream[r]
    BY <1>2 DEF Disconnect, TypeInv, TypeOK
  <2>2. DOMAIN <<>> = {}
    OBVIOUS
  <2>3. NothingAhead' /\ InOrder'
    BY <1>2, <2>1, <2>2 DEF Disconnect, NothingAhead, InOrder, childVars
  <2> QED BY <1>0, <1>2, <2>3 DEF Disconnect, SinceFork, saveVars, childVars
<1>3. ASSUME NEW s \in Slaves, Connect(s)
      PROVE  OrderInv'
  BY <1>0, <1>3 DEF Connect, NothingAhead, InOrder, SinceFork, saveVars, dataVars, childVars
<1>4. CASE SendToSlaves
  <2>1. writes' = writes + 1 /\ writes \in Nat /\ UNCHANGED <<rdb, childVars, bgsaving>>
    BY <1>4 DEF SendToSlaves, TypeInv, TypeOK
  <2>2. rdb # None => rdb \in Nat
    BY DEF TypeInv, TypeOK
  <2>3. \A p \in children : p.snapshot \in Nat
    BY DEF TypeInv, TypeOK, Child
  <2>4. CASE bgsaving
    <3>1. buffer' = Append(buffer, writes') /\ UNCHANGED stream
      BY <1>4, <2>4 DEF SendToSlaves
    <3>2. /\ Len(buffer') = Len(buffer) + 1 /\ Len(buffer) \in Nat
          /\ \A i \in 1..Len(buffer) : buffer'[i] = buffer[i]
          /\ buffer'[Len(buffer) + 1] = writes'
      BY <2>1, <3>1 DEF TypeInv, TypeOK
    <3>3. SinceFork'
      BY <2>1, <2>2, <2>3, <2>4, <3>2 DEF SinceFork, childVars
    <3>4. \A s \in Slaves : \A i \in DOMAIN stream[s] : stream[s][i] \in Nat
      BY StreamValues DEF TypeInv
    <3>5. NothingAhead' /\ InOrder'
      BY <2>1, <2>2, <2>3, <3>1, <3>4 DEF NothingAhead, InOrder, childVars
    <3> QED BY <1>0, <2>1, <2>4, <3>3, <3>5 DEF childVars
  <2>5. CASE ~bgsaving
    <3>1. \A s \in Slaves : stream'[s] = stream[s] \/ stream'[s] = Append(stream[s], writes')
      BY <1>4, <2>5 DEF SendToSlaves, TypeInv, TypeOK
    <3>2. ASSUME NEW s \in Slaves
          PROVE  /\ \A i \in DOMAIN stream'[s] : stream'[s][i] <= writes'
                 /\ \A i, j \in DOMAIN stream'[s] : i < j => stream'[s][i] < stream'[s][j]
      <4>1. stream[s] \in Seq(Writes) /\ writes' \in Writes
        BY <1>0 , <2>1, <1>4, BoundsAssumption DEF TypeInv, TypeOK, Writes, SendToSlaves
      <4>2. \A i \in DOMAIN stream[s] : stream[s][i] \in Nat /\ stream[s][i] <= writes
        BY StreamValues DEF NothingAhead, TypeInv
      <4>3. CASE stream'[s] = stream[s]
        BY <2>1, <4>2, <4>3 DEF InOrder
      <4>4. CASE stream'[s] = Append(stream[s], writes')
        <5> DEFINE n == Len(stream[s])
        <5>1. n \in Nat /\ DOMAIN stream[s] = 1..n /\ DOMAIN stream'[s] = 1..(n + 1)
              /\ stream'[s][n + 1] = writes'
              /\ \A i \in 1..n : stream'[s][i] = stream[s][i]
          BY <4>1, <4>4
        <5> HIDE DEF n
        <5>2. \A i, j \in 1..n : i < j => stream[s][i] < stream[s][j]
          BY <5>1 DEF InOrder
        <5>3. \A i \in 1..(n + 1) : i \in 1..n \/ i = n + 1
          BY <5>1
        <5>4. \A i \in 1..(n + 1) : stream'[s][i] <= writes'
          BY <2>1, <4>2, <5>1, <5>3
        <5>5. ASSUME NEW i \in 1..(n + 1), NEW j \in 1..(n + 1), i < j
              PROVE  stream'[s][i] < stream'[s][j]
          <6>1. i \in 1..n
            BY <5>1, <5>5
          <6>2. CASE j \in 1..n
            BY <5>1, <5>2, <5>5, <6>1, <6>2
          <6>3. CASE j = n + 1
            BY <2>1, <4>2, <5>1, <6>1, <6>3
          <6> QED BY <5>3, <6>2, <6>3
        <5> QED BY <5>1, <5>4, <5>5
      <4> QED BY <3>1, <4>3, <4>4
    <3>3. NothingAhead' /\ InOrder'
      BY <2>1, <2>2, <2>3, <3>2 DEF NothingAhead, InOrder, childVars
    <3> QED BY <1>0, <2>1, <2>5, <3>3
  <2> QED BY <2>4, <2>5
<1>5. CASE Bgsave
  BY <1>0, <1>5, OtherSaverKeepsOrder DEF Bgsave, dataVars
<1>6. CASE Save
  <2>1. ~bgsaving' /\ rdb' = writes /\ UNCHANGED <<stream, writes, children>>
    BY <1>6 DEF Save, saveVars, slaveVars, dataVars, childVars
  <2>2. NothingAhead' /\ InOrder'
    BY <2>1 DEF NothingAhead, InOrder, TypeInv, TypeOK
  <2> QED BY <1>0, <2>1, <2>2
<1>7. CASE QdbCron
  BY <1>0, <1>7, OtherSaverKeepsOrder DEF QdbCron, dataVars
<1>8. CASE BgRewriteAof
  <2>1. /\ children' = children \cup {Forked(TRUE)}
        /\ UNCHANGED <<slaveVars, saveVars, dataVars, qdbPid, rdb>>
    BY <1>8 DEF BgRewriteAof, Fork
  <2>2. \A p \in children' \ children : p.rewrite /\ p.snapshot = writes
    BY <2>1 DEF Forked
  <2>3. writes \in Nat
    BY DEF TypeInv, TypeOK
  <2>4. \A p \in children' : p.snapshot <= writes
    BY <2>2, <2>3 DEF NothingAhead
  <2> QED BY <1>0, <2>1, <2>2, <2>4
          DEF NothingAhead, InOrder, SinceFork, slaveVars, saveVars, dataVars
<1>9. ASSUME NEW p \in children, ChildExit(p)
      PROVE  OrderInv'
  <2>1. \A q \in children' : \E r \in children : q.snapshot = r.snapshot /\ q.rewrite = r.rewrite
    <3>1. p \in Child
      BY DEF TypeInv, TypeOK
    <3>2. \A st : LET q == [p EXCEPT !.status = st]
                  IN  q.snapshot = p.snapshot /\ q.rewrite = p.rewrite
      BY <3>1 DEF Child
    <3> QED BY <1>9, <3>2 DEF ChildExit
  <2>2. rdb' = rdb \/ (rdb' = p.snapshot /\ ~p.rewrite)
    BY <1>9 DEF ChildExit
  <2>3. UNCHANGED <<slaveVars, saveVars, dataVars, qdbPid>>
    BY <1>9 DEF ChildExit
  <2>4. NothingAhead' /\ InOrder'
    BY <2>1, <2>2, <2>3 DEF NothingAhead, InOrder, slaveVars, dataVars
  <2>5. bgsaving' => SinceFork'
    BY <2>1, <2>2, <2>3 DEF SinceFork, saveVars, dataVars
  <2> QED BY <1>0, <2>3, <2>4, <2>5 DEF saveVars
<1>10. ASSUME NEW p \in children, CheckChild(p)
       PROVE  OrderInv'
  <2>1. UNCHANGED <<writes, rdb>>
    BY <1>10 DEF CheckChild
  <2>2. CASE SaveDone(p) /\ bgsaving
    <3>1. OnRdbSaveDone /\ children' \subseteq children
      BY <2>2 DEF SaveDone
    <3> QED BY <1>0, <2>1, <2>2, <3>1, OnRdbSaveDoneKeepsOrder
  <2>3. CASE SaveDone(p) /\ ~bgsaving
    <3>1. TryBgsave(slaveState, children \ {p}) /\ PidAfterTry(None)
      BY <2>3 DEF SaveDone
    <3>2. slaveState \in [Slaves -> States]
      BY DEF TypeInv, TypeOK
    <3> HIDE DEF OrderInv
    <3> QED BY <1>0, <2>1, <2>3, <3>1, <3>2, TryBgsaveKeepsOrder DEF OrderInv
  <2>4. CASE RewriteDone(p)
    BY <1>0, <2>1, <2>4 DEF RewriteDone, NothingAhead, InOrder, SinceFork, slaveVars, saveVars
  <2>5. CASE UnknownChild(p)
    BY <1>0, <2>1, <2>5 DEF UnknownChild, NothingAhead, InOrder, SinceFork, slaveVars, saveVars
  <2> QED BY <1>10, <2>2, <2>3, <2>4, <2>5 DEF CheckChild
<1>11. CASE UNCHANGED vars
  BY <1>0, <1>11 DEF vars, slaveVars, saveVars, dataVars, childVars, NothingAhead, InOrder, SinceFork
<1> QED BY <1>1, <1>2, <1>3, <1>4, <1>5, <1>6, <1>7, <1>8, <1>9, <1>10, <1>11 DEF Next

\* A replica is sent each write at most once and in order, across the file, the
\* buffer and the online stream, whichever roads lead to a saver and whatever
\* of them fails.
THEOREM StreamsAreInOrder == Spec => []InOrder
<1>1. OrderInv => InOrder
  BY DEF OrderInv
<1> QED BY <1>1, OrderInit, OrderStep, PTL DEF Spec

-----------------------------------------------------------------------------
(***************************************************************************)
(* Savers, when none of them fails.  A child is known by its pid, qdbPid is *)
(* a saver's and one that has ended has left a file, so the end of a save   *)
(* serves every replica that waits for it.                                  *)
(***************************************************************************)

PidsAreUnique ==
    /\ \A p \in children : p.pid <= lastPid
    /\ \A p, q \in children : p.pid = q.pid => p = q
    /\ qdbPid # None => qdbPid <= lastPid
    /\ \A p \in children : p.pid = qdbPid => ~p.rewrite

SaversSucceed ==
    \A p \in children : /\ p.status # "failed"
                        /\ p.status = "ok" /\ ~p.rewrite => rdb # None

IdleWhenGone == \A s \in Slaves \ connected : slaveState[s] = "none"

SaverInv ==
    /\ TypeInv
    /\ IdleWhenGone
    /\ PidsAreUnique
    /\ SaversSucceed
    /\ WaiterHasSaver
    /\ BufferOnlyWhileSaving

\* A fork adds one child, with a pid nobody else has.
LEMMA ForkKeepsPids ==
    ASSUME TypeInv, PidsAreUnique, SaversSucceed, NEW rewrite \in BOOLEAN,
           NEW others, others \subseteq children, Fork(rewrite, others),
           UNCHANGED rdb,
           \/ qdbPid' = lastPid' /\ ~rewrite
           \/ qdbPid' = qdbPid
    PROVE  /\ PidsAreUnique' /\ SaversSucceed'
           /\ \E p \in children' : p.pid = lastPid'
<1> DEFINE new == Forked(rewrite)
<1>1. new.pid = lastPid + 1 /\ new.rewrite = rewrite /\ new.status = "running"
  BY DEF Forked
<1>2. lastPid' = lastPid + 1 /\ lastPid \in Nat /\ children' = others \cup {new}
  BY DEF Fork, TypeInv, TypeOK
<1>3. \A p \in children : p.pid \in Nat /\ p.pid <= lastPid
  BY DEF PidsAreUnique, TypeInv, TypeOK, Child, Pids
<1>4. qdbPid # None => qdbPid \in Nat /\ qdbPid <= lastPid
  BY DEF PidsAreUnique, TypeInv, TypeOK, Pids
<1> HIDE DEF new
<1>5. \A p \in children' : p \in children \/ p = new
  BY <1>2
<1>6. PidsAreUnique'
  <2>1. \A p \in children' : p.pid <= lastPid'
    BY <1>1, <1>2, <1>3, <1>5
  <2>2. \A p, q \in children' : p.pid = q.pid => p = q
    BY <1>1, <1>2, <1>3, <1>5 DEF PidsAreUnique
  <2>3. qdbPid' # None => qdbPid' <= lastPid'
    BY <1>2, <1>4
  <2>4. \A p \in children' : p.pid = qdbPid' => ~p.rewrite
    <3> SUFFICES ASSUME NEW p \in children', p.pid = qdbPid' PROVE ~p.rewrite
      OBVIOUS
    <3>1. CASE p \in children
      BY <1>2, <1>3, <3>1 DEF PidsAreUnique
    <3>2. CASE p = new
      BY <1>1, <1>2, <1>4, <3>2, NoneAssumption
    <3> QED BY <1>5, <3>1, <3>2
  <2> QED BY <2>1, <2>2, <2>3, <2>4 DEF PidsAreUnique
<1>7. SaversSucceed'
  BY <1>1, <1>5 DEF SaversSucceed
<1> QED BY <1>1, <1>2, <1>6, <1>7

\* Fewer children.
LEMMA ReapKeepsPids ==
    ASSUME PidsAreUnique, SaversSucceed, children' \subseteq children,
           UNCHANGED <<rdb, lastPid>>, qdbPid' \in {qdbPid, None}, TypeInv
    PROVE  PidsAreUnique' /\ SaversSucceed'
<1>1. \A p \in children : p.pid # None
  BY NoneAssumption DEF TypeInv, TypeOK, Child, Pids
<1> QED BY <1>1 DEF PidsAreUnique, SaversSucceed

\* A save for replicas begins with its saver.
LEMMA TryBgsaveKeepsSavers ==
    ASSUME TypeInv, PidsAreUnique, SaversSucceed, BufferOnlyWhileSaving,
           NEW state \in [Slaves -> States], NEW others, NEW pid,
           others \subseteq children, TryBgsave(state, others), PidAfterTry(pid),
           pid \in {qdbPid, None}, UNCHANGED rdb,
           Waiting(state, "wait_end") # {} =>
               bgsaving /\ \E p \in others : p.pid = pid
    PROVE  /\ PidsAreUnique' /\ SaversSucceed' /\ BufferOnlyWhileSaving'
           /\ Waiting(slaveState, "wait_end")' # {} =>
                  bgsaving' /\ \E p \in children' : p.pid = qdbPid'
<1> DEFINE waiting == Waiting(state, "wait_start")
<1>1. CASE (bgsaving \/ waiting = {}) /\ slaveState' = state /\ children' = others
           /\ UNCHANGED <<connected, stream, saveVars, lastPid>>
  <2>1. qdbPid' = pid
    BY <1>1 DEF PidAfterTry
  <2>2. Waiting(slaveState, "wait_end")' = Waiting(state, "wait_end")
    BY <1>1 DEF Waiting
  <2> QED BY <1>1, <2>1, <2>2, ReapKeepsPids DEF BufferOnlyWhileSaving, saveVars
<1>2. CASE ~bgsaving /\ Fork(FALSE, others) /\ bgsaving' = TRUE /\ buffer' = <<>>
  <2>1. lastPid' = lastPid + 1 /\ lastPid \in Nat
    BY <1>2 DEF Fork, TypeInv, TypeOK
  <2>2. qdbPid' = lastPid'
    <3>1. lastPid' # lastPid
      BY <2>1
    <3> QED BY <3>1 DEF PidAfterTry
  <2>3. PidsAreUnique' /\ SaversSucceed' /\ \E p \in children' : p.pid = lastPid'
    BY <1>2, <2>2, ForkKeepsPids
  <2> QED BY <1>2, <2>2, <2>3 DEF BufferOnlyWhileSaving
<1>3. CASE ~bgsaving /\ buffer' = <<>> /\ children' = others
           /\ connected' = connected \ waiting
           /\ slaveState' = [s \in Slaves |-> IF s \in waiting THEN "none" ELSE state[s]]
           /\ UNCHANGED <<bgsaving, lastPid>>
  <2>1. qdbPid' = pid
    BY <1>3 DEF PidAfterTry
  <2>2. Waiting(slaveState, "wait_end")' \subseteq Waiting(state, "wait_end")
    BY <1>3 DEF Waiting, TypeInv, TypeOK
  <2> QED BY <1>3, <2>1, <2>2, ReapKeepsPids DEF BufferOnlyWhileSaving
<1> QED BY <1>1, <1>2, <1>3 DEF TryBgsave

\* Nobody waits at the start.
LEMMA SaverInit == Init => SaverInv
<1> SUFFICES ASSUME Init PROVE SaverInv
  OBVIOUS
<1>1. TypeInv
  BY InitTypes
<1>2. Waiting(slaveState, "wait_end") = {}
  BY DEF Init, Waiting
<1> QED BY <1>1, <1>2 DEF Init, SaverInv, IdleWhenGone, PidsAreUnique, SaversSucceed, WaiterHasSaver,
                        BufferOnlyWhileSaving

\* A replica that is gone waits for nothing.
LEMMA IdleStep ==
    ASSUME TypeInv, IdleWhenGone, [Next]_vars
    PROVE  IdleWhenGone'
<1> USE DEF TypeInv, IdleWhenGone
<1>1. ASSUME NEW state \in [Slaves -> States], NEW others, TryBgsave(state, others),
             \A s \in Slaves \ connected : state[s] = "none"
      PROVE  IdleWhenGone'
  <2> DEFINE waiting == Waiting(state, "wait_start")
  <2>1. waiting \subseteq connected
    BY DEF Waiting
  <2>2. \/ connected' = connected /\ slaveState' = state
        \/ /\ connected' \in {connected, connected \ waiting}
           /\ \E to \in {"wait_end", "none"} :
                 /\ slaveState' = [s \in Slaves |-> IF s \in waiting THEN to ELSE state[s]]
                 /\ to = "none" \/ connected' = connected
    BY <1>1 DEF TryBgsave
  <2> HIDE DEF waiting
  <2> QED BY <1>1, <2>1, <2>2
<1>2. ASSUME NEW s \in Slaves, Sync(s)
      PROVE  IdleWhenGone'
  <2> DEFINE state == [slaveState EXCEPT ![s] = "wait_start"]
  <2>1. state \in [Slaves -> States] /\ \A r \in Slaves \ connected : state[r] = "none"
    BY <1>2 DEF Sync, TypeOK, States
  <2>2. TryBgsave(state, children)
    BY <1>2 DEF Sync
  <2> HIDE DEF state
  <2> QED BY <1>1, <2>1, <2>2
<1>3. ASSUME NEW p \in children, CheckChild(p)
      PROVE  IdleWhenGone'
  <2>1. CASE SaveDone(p) /\ bgsaving
    BY <2>1 DEF SaveDone, OnRdbSaveDone, Waiting, TypeOK
  <2>2. CASE SaveDone(p) /\ ~bgsaving
    <3>1. TryBgsave(slaveState, children \ {p}) /\ slaveState \in [Slaves -> States]
      BY <2>2 DEF SaveDone, TypeOK
    <3> QED BY <1>1, <3>1
  <2>3. CASE RewriteDone(p) \/ UnknownChild(p)
    BY <2>3 DEF RewriteDone, UnknownChild, slaveVars
  <2> QED BY <1>3, <2>1, <2>2, <2>3 DEF CheckChild
<1>4. ASSUME NEW s \in Slaves, Disconnect(s) \/ Connect(s)
      PROVE  IdleWhenGone'
  BY <1>4 DEF Disconnect, Connect, TypeOK
<1>5. ASSUME UNCHANGED <<connected, slaveState>>
      PROVE  IdleWhenGone'
  BY <1>5
<1>6. CASE SendToSlaves \/ Bgsave \/ Save \/ QdbCron \/ BgRewriteAof \/ UNCHANGED vars
  BY <1>5, <1>6 DEF SendToSlaves, Bgsave, Save, QdbCron, BgRewriteAof, vars, slaveVars
<1>7. ASSUME NEW p \in children, ChildExit(p)
      PROVE  IdleWhenGone'
  BY <1>5, <1>7 DEF ChildExit, slaveVars
<1> QED BY <1>2, <1>3, <1>4, <1>6, <1>7 DEF Next

\* Every handler leaves the waiting replicas their saver.
LEMMA SaverStep ==
    ASSUME "child" \notin MayFail, SaverInv, [Next]_vars
    PROVE  SaverInv'
<1> USE DEF SaverInv
<1>0. TypeInv' /\ IdleWhenGone'
  BY TypeStep, IdleStep
<1>1. ASSUME NEW s \in Slaves, Sync(s)
      PROVE  SaverInv'
  <2> DEFINE state == [slaveState EXCEPT ![s] = "wait_start"]
  <2>1. state \in [Slaves -> States]
    BY DEF TypeInv, TypeOK, States
  <2>2. TryBgsave(state, children) /\ PidAfterTry(qdbPid) /\ UNCHANGED <<rdb, crashed>> /\ ~crashed
    BY <1>1 DEF Sync
  <2>3. Waiting(state, "wait_end") \subseteq Waiting(slaveState, "wait_end")
    BY DEF Waiting, TypeInv, TypeOK
  <2>4. Waiting(state, "wait_end") # {} => bgsaving /\ \E p \in children : p.pid = qdbPid
    BY <2>2, <2>3 DEF WaiterHasSaver
  <2> HIDE DEF state
  <2> QED BY <1>0, <2>1, <2>2, <2>4, TryBgsaveKeepsSavers DEF WaiterHasSaver
<1>2. ASSUME NEW s \in Slaves, Disconnect(s)
      PROVE  SaverInv'
  <2>1. Waiting(slaveState, "wait_end")' \subseteq Waiting(slaveState, "wait_end")
    BY <1>2 DEF Waiting, Disconnect, TypeInv, TypeOK
  <2> QED BY <1>0, <1>2, <2>1 DEF Disconnect, PidsAreUnique, SaversSucceed, WaiterHasSaver,
             BufferOnlyWhileSaving, saveVars, childVars
<1>4. CASE SendToSlaves
  <2>1. UNCHANGED <<connected, slaveState, bgsaving, childVars, rdb, crashed>>
    BY <1>4 DEF SendToSlaves
  <2>2. BufferOnlyWhileSaving'
    BY <1>4 DEF SendToSlaves, BufferOnlyWhileSaving
  <2> QED BY <1>0, <2>1, <2>2 DEF PidsAreUnique, SaversSucceed, WaiterHasSaver, Waiting, childVars
<1>5. ASSUME qdbPid = None, ~crashed, Fork(FALSE, children), qdbPid' = lastPid',
             UNCHANGED <<slaveVars, saveVars, rdb>>
      PROVE  SaverInv'
  <2>1. Waiting(slaveState, "wait_end") = {}
    BY <1>5, NoneAssumption DEF WaiterHasSaver, TypeInv, TypeOK, Child, Pids
  <2> QED BY <1>0, <1>5, <2>1, ForkKeepsPids
          DEF WaiterHasSaver, BufferOnlyWhileSaving, Waiting, slaveVars, saveVars
<1>6. CASE Save
  <2>1. UNCHANGED <<slaveVars, saveVars, childVars, crashed>> /\ rdb' # None
    BY <1>6, NoneAssumption DEF Save, TypeInv, TypeOK
  <2> QED BY <1>0, <2>1 DEF PidsAreUnique, SaversSucceed, WaiterHasSaver, Waiting,
             BufferOnlyWhileSaving, slaveVars, saveVars, childVars
<1>8. CASE BgRewriteAof
  <2>1. /\ Fork(TRUE, children) /\ children \subseteq children'
        /\ UNCHANGED <<slaveVars, saveVars, qdbPid, rdb, crashed>>
    BY <1>8 DEF BgRewriteAof, Fork
  <2> QED BY <1>0, <2>1, ForkKeepsPids
          DEF WaiterHasSaver, BufferOnlyWhileSaving, Waiting, slaveVars, saveVars
<1>9. ASSUME NEW p \in children, ChildExit(p)
      PROVE  SaverInv'
  <2> DEFINE q == [p EXCEPT !.status = "ok"]
  <2>1. /\ children' = (children \ {p}) \cup {q}
        /\ rdb' = IF p.rewrite THEN rdb ELSE p.snapshot
        /\ UNCHANGED <<slaveVars, saveVars, qdbPid, lastPid, crashed>>
    BY <1>9 DEF ChildExit
  <2>2. q.pid = p.pid /\ q.rewrite = p.rewrite /\ q.status = "ok" /\ p.snapshot # None
    BY NoneAssumption DEF TypeInv, TypeOK, Child
  <2> HIDE DEF q
  <2>3. PidsAreUnique'
    BY <2>1, <2>2 DEF PidsAreUnique
  <2>4. SaversSucceed'
    BY <2>1, <2>2 DEF SaversSucceed
  <2>5. \A r \in children : \E t \in children' : t.pid = r.pid
    BY <2>1, <2>2
  <2> QED BY <1>0, <2>1, <2>3, <2>4, <2>5
          DEF WaiterHasSaver, BufferOnlyWhileSaving, Waiting, slaveVars, saveVars
<1>10. ASSUME NEW p \in children, CheckChild(p)
       PROVE  SaverInv'
  <2>1. UNCHANGED rdb /\ ~crashed /\ p.status = "ok"
    BY <1>10 DEF CheckChild, SaversSucceed, TypeInv, TypeOK, Child
  <2>2. CASE SaveDone(p) /\ bgsaving
    <3>1. p.pid = qdbPid /\ OnRdbSaveDone /\ children' = children \ {p} /\ qdbPid' = None
          /\ UNCHANGED lastPid
      BY <2>2 DEF SaveDone
    <3>2. rdb # None
      BY <2>1, <3>1 DEF PidsAreUnique, SaversSucceed
    <3>3. buffer' = <<>> /\ Waiting(slaveState, "wait_end")' = {}
      BY <3>1, <3>2 DEF OnRdbSaveDone, Waiting, TypeInv, TypeOK
    <3>4. PidsAreUnique' /\ SaversSucceed'
      BY <2>1, <3>1, ReapKeepsPids
    <3> QED BY <1>0, <3>3, <3>4 DEF WaiterHasSaver, BufferOnlyWhileSaving
  <2>3. CASE SaveDone(p) /\ ~bgsaving
    <3>1. TryBgsave(slaveState, children \ {p}) /\ PidAfterTry(None)
      BY <2>3 DEF SaveDone
    <3>2. Waiting(slaveState, "wait_end") = {} /\ slaveState \in [Slaves -> States]
      BY <2>1, <2>3 DEF WaiterHasSaver, TypeInv, TypeOK
    <3> QED BY <1>0, <2>1, <3>1, <3>2, TryBgsaveKeepsSavers DEF WaiterHasSaver
  <2>4. CASE RewriteDone(p)
    <3>1. p.pid # qdbPid /\ children' = children \ {p}
          /\ UNCHANGED <<slaveVars, saveVars, qdbPid, lastPid, crashed>>
      BY <2>4 DEF RewriteDone
    <3>2. PidsAreUnique' /\ SaversSucceed'
      BY <2>1, <3>1, ReapKeepsPids
    <3> QED BY <1>0, <3>1, <3>2 DEF WaiterHasSaver, BufferOnlyWhileSaving, Waiting, slaveVars, saveVars
  <2>5. CASE UnknownChild(p)
    <3>1. crashed' /\ children' = children \ {p}
          /\ UNCHANGED <<slaveVars, saveVars, qdbPid, lastPid>>
      BY <2>5 DEF UnknownChild
    <3>2. PidsAreUnique' /\ SaversSucceed'
      BY <2>1, <3>1, ReapKeepsPids
    <3> QED BY <1>0, <3>1, <3>2 DEF WaiterHasSaver, BufferOnlyWhileSaving, saveVars
  <2> QED BY <1>10, <2>2, <2>3, <2>4, <2>5 DEF CheckChild
<1>11. CASE UNCHANGED vars \/ \E s \in Slaves : Connect(s)
  <2>1. UNCHANGED <<slaveState, saveVars, childVars, rdb, crashed>>
    BY <1>11 DEF vars, slaveVars, Connect
  <2>2. Waiting(slaveState, "wait_end")' \subseteq Waiting(slaveState, "wait_end")
    BY <1>11 DEF Waiting, Connect, vars, slaveVars, IdleWhenGone
  <2> QED BY <1>0, <2>1, <2>2
          DEF PidsAreUnique, SaversSucceed, WaiterHasSaver, BufferOnlyWhileSaving, saveVars, childVars
<1> QED
  <2>1. CASE Bgsave
    BY <1>5, <2>1 DEF Bgsave
  <2>2. CASE QdbCron
    BY <1>5, <2>2 DEF QdbCron
  <2> QED BY <1>1, <1>2, <1>4, <1>6, <1>8, <1>9, <1>10, <1>11, <2>1, <2>2 DEF Next

\* When no saver fails, a replica that waits for the end of a save always has a
\* saver that CheckChild knows: SYNC may come at any time, with BGSAVE, SAVE, the
\* cron and the AOF rewrite beside it.
THEOREM WaitersHaveSavers ==
    ASSUME "child" \notin MayFail
    PROVE  Spec => []WaiterHasSaver
<1>1. SaverInv /\ [Next]_vars => SaverInv'
  BY SaverStep
<1>2. SaverInv => WaiterHasSaver
  BY DEF SaverInv
<1> QED BY <1>1, <1>2, SaverInit, PTL DEF Spec

\* Nor is a buffered write then left over for the replicas of a later save.
THEOREM BufferEndsWithSave ==
    ASSUME "child" \notin MayFail
    PROVE  Spec => []BufferOnlyWhileSaving
<1>1. SaverInv /\ [Next]_vars => SaverInv'
  BY SaverStep
<1>2. SaverInv => BufferOnlyWhileSaving
  BY DEF SaverInv
<1> QED BY <1>1, <1>2, SaverInit, PTL DEF Spec

-----------------------------------------------------------------------------
(***************************************************************************)
(* Copies, when SYNC is the only road to a saver and no saver fails: there  *)
(* is one saver, and its file and the buffer are all the writes.            *)
(***************************************************************************)

OneSaver ==
    \A p \in children : ~p.rewrite =>
        /\ bgsaving /\ p.pid = qdbPid
        /\ p.snapshot = writes - Len(buffer)
        /\ p.status = "ok" => rdb = p.snapshot

OnlyOnlineMiss ==
    \A s \in Slaves : /\ missed[s] \subseteq 1..writes
                      /\ slaveState[s] # "online" => missed[s] = {}

CopyInv ==
    /\ OrderInv
    /\ SaverInv
    /\ OneSaver
    /\ OnlyOnlineMiss
    /\ MissesOnlyDuringSaves

\* A file of the first writes and a buffer of the others are all of them.
LEMMA FileAndBufferAreAll ==
    ASSUME NEW f \in Seq(Writes), NEW b \in Seq(Writes), NEW w \in Nat,
           \A i \in 1..Len(f) : f[i] = i,
           \A i \in 1..Len(b) : b[i] = w - Len(b) + i,
           Len(f) = w - Len(b)
    PROVE  Range(f \o b) = 1..w
<1> DEFINE q == f \o b
<1>1. Len(f) \in Nat /\ Len(b) \in Nat /\ DOMAIN q = 1..(Len(f) + Len(b))
  OBVIOUS
<1>2. \A i \in 1..Len(f) : q[i] = i
  OBVIOUS
<1>3. ASSUME NEW i \in (Len(f) + 1)..(Len(f) + Len(b))
      PROVE  q[i] = i
  <2>1. q[i] = b[i - Len(f)] /\ i - Len(f) \in 1..Len(b)
    BY <1>1
  <2> QED BY <1>1, <2>1
<1> HIDE DEF q
<1>4. DOMAIN q = 1..w /\ \A i \in 1..w : q[i] = i
  BY <1>1, <1>2, <1>3
<1> QED BY <1>4 DEF Range, q

\* What is in a sequence after Append.
LEMMA RangeOfAppend ==
    ASSUME NEW q \in Seq(Writes), NEW w \in Writes
    PROVE  Range(Append(q, w)) = Range(q) \cup {w}
<1> DEFINE r == Append(q, w)
<1>1. /\ Len(q) \in Nat /\ DOMAIN q = 1..Len(q) /\ DOMAIN r = 1..(Len(q) + 1)
      /\ r[Len(q) + 1] = w /\ \A i \in 1..Len(q) : r[i] = q[i]
  OBVIOUS
<1> HIDE DEF r
<1>2. Range(r) \subseteq Range(q) \cup {w}
  <2> SUFFICES ASSUME NEW i \in DOMAIN r PROVE r[i] \in Range(q) \cup {w}
    BY DEF Range
  <2>1. i \in 1..Len(q) \/ i = Len(q) + 1
    BY <1>1
  <2> QED BY <1>1, <2>1 DEF Range
<1>3. Range(q) \cup {w} \subseteq Range(r)
  <2>1. \A i \in 1..Len(q) : q[i] \in Range(r)
    BY <1>1 DEF Range
  <2>2. w \in Range(r)
    BY <1>1 DEF Range
  <2> QED BY <1>1, <2>1, <2>2 DEF Range
<1> QED BY <1>2, <1>3 DEF r

\* TryBgsave puts nobody online or off, and forks when there is no saver.
LEMMA TryBgsaveKeepsCopies ==
    ASSUME CopyInv, NEW state \in [Slaves -> States], TryBgsave(state, children),
           PidAfterTry(qdbPid), UNCHANGED <<writes, missed, rdb>>,
           \A s \in Slaves : (state[s] = "online") = (slaveState[s] = "online")
    PROVE  OneSaver' /\ OnlyOnlineMiss' /\ MissesOnlyDuringSaves'
<1> USE DEF CopyInv, OrderInv, TypeInv
<1> DEFINE waiting == Waiting(state, "wait_start")
<1>1. /\ connected' \subseteq connected
      /\ \A s \in Slaves : \/ slaveState'[s] = state[s] /\ stream'[s] = stream[s]
                           \/ s \in waiting /\ slaveState'[s] # "online"
  BY DEF TryBgsave, TypeOK
<1>2. \A s \in waiting : state[s] # "online"
  BY DEF Waiting
<1>3. OnlyOnlineMiss'
  BY <1>1, <1>2 DEF OnlyOnlineMiss
<1>4. MissesOnlyDuringSaves'
  BY <1>1 DEF MissesOnlyDuringSaves, Waiting, TypeOK
<1>5. CASE children' = children /\ UNCHANGED <<saveVars, lastPid>>
  <2>1. qdbPid' = qdbPid
    BY <1>5 DEF PidAfterTry
  <2> QED BY <1>3, <1>4, <1>5, <2>1 DEF OneSaver, saveVars
<1>6. CASE ~bgsaving /\ Fork(FALSE, children) /\ bgsaving' = TRUE /\ buffer' = <<>>
  <2> DEFINE new == Forked(FALSE)
  <2>1. new.pid = lastPid + 1 /\ new.snapshot = writes /\ new.status = "running"
    BY DEF Forked
  <2>2. lastPid' = lastPid + 1 /\ lastPid \in Nat /\ children' = children \cup {new}
        /\ writes \in Nat
    BY <1>6 DEF Fork, TypeOK
  <2> HIDE DEF new
  <2>3. qdbPid' = lastPid'
    <3>1. lastPid' # lastPid
      BY <2>2
    <3> QED BY <3>1 DEF PidAfterTry
  <2>4. \A p \in children : p.rewrite
    BY <1>6 DEF OneSaver, SaverInv, TypeOK, Child
  <2>5. Len(buffer') = 0
    BY <1>6
  <2> QED BY <1>3, <1>4, <1>6, <2>1, <2>2, <2>3, <2>4, <2>5 DEF OneSaver
<1>7. CASE ~bgsaving /\ buffer' = <<>> /\ children' = children /\ UNCHANGED <<bgsaving, lastPid>>
  BY <1>3, <1>4, <1>7 DEF OneSaver, PidAfterTry
<1> QED BY <1>5, <1>6, <1>7 DEF TryBgsave

\* Every handler keeps the copies.
LEMMA CopyStep ==
    ASSUME "child" \notin MayFail, Roads \subseteq {"sync", "rewrite"},
           CopyInv, [Next]_vars
    PROVE  CopyInv'
<1> USE DEF CopyInv
<1>0. OrderInv' /\ SaverInv'
  BY OrderStep, SaverStep
<1>t. TypeOK /\ TypeInv
  BY DEF OrderInv, TypeInv
<1>1. ASSUME NEW s \in Slaves, Sync(s)
      PROVE  CopyInv'
  <2> DEFINE state == [slaveState EXCEPT ![s] = "wait_start"]
  <2>1. /\ state \in [Slaves -> States]
        /\ \A r \in Slaves : (state[r] = "online") = (slaveState[r] = "online")
    BY <1>1, <1>t DEF Sync, TypeOK, States
  <2>2. TryBgsave(state, children) /\ PidAfterTry(qdbPid) /\ UNCHANGED <<writes, missed, rdb>>
    BY <1>1 DEF Sync, dataVars
  <2> HIDE DEF state, CopyInv
  <2>3. CopyInv
    OBVIOUS
  <2> QED BY <1>0, <2>1, <2>2, <2>3, TryBgsaveKeepsCopies DEF CopyInv
<1>2. ASSUME NEW s \in Slaves, Disconnect(s)
      PROVE  CopyInv'
  <2>1. /\ connected' = connected \ {s}
        /\ \A r \in Slaves : /\ slaveState'[r] = IF r = s THEN "none" ELSE slaveState[r]
                             /\ missed'[r] = IF r = s THEN {} ELSE missed[r]
                             /\ r # s => stream'[r] = stream[r]
        /\ UNCHANGED <<saveVars, writes, childVars, rdb>>
    BY <1>2, <1>t DEF Disconnect, TypeOK
  <2>2. OnlyOnlineMiss' /\ OneSaver'
    BY <2>1 DEF OnlyOnlineMiss, OneSaver, saveVars, childVars
  <2>3. MissesOnlyDuringSaves'
    BY <2>1, <1>t DEF MissesOnlyDuringSaves, Waiting, TypeOK
  <2> QED BY <1>0, <2>2, <2>3
<1>3. ASSUME NEW s \in Slaves, Connect(s)
      PROVE  CopyInv'
  <2>1. slaveState[s] = "none" /\ connected' = connected \cup {s}
        /\ UNCHANGED <<slaveState, stream, saveVars, dataVars, childVars, rdb>>
    BY <1>3 DEF Connect, SaverInv, IdleWhenGone
  <2>2. MissesOnlyDuringSaves'
    BY <2>1 DEF MissesOnlyDuringSaves, Waiting, dataVars
  <2> QED BY <1>0, <2>1, <2>2 DEF OneSaver, OnlyOnlineMiss, saveVars, dataVars, childVars
<1>4. CASE SendToSlaves
  <2>1. writes' = writes + 1 /\ writes \in Nat /\ writes' \in Writes
        /\ UNCHANGED <<connected, slaveState, bgsaving, childVars, rdb>>
    BY <1>4, <1>t, BoundsAssumption DEF SendToSlaves, TypeOK, Writes
  <2>2. connected \subseteq Slaves
    BY <1>t DEF TypeOK
  <2>3. CASE bgsaving
    <3>1. /\ buffer' = Append(buffer, writes') /\ UNCHANGED stream
          /\ \A s \in Slaves : missed'[s] = IF s \in Waiting(slaveState, "online")
                                 THEN missed[s] \cup {writes'} ELSE missed[s]
      BY <1>4, <1>t, <2>3 DEF SendToSlaves, TypeOK
    <3>2. Len(buffer') = Len(buffer) + 1 /\ Len(buffer) \in Nat
      BY <1>t, <2>1, <3>1 DEF TypeOK
    <3>3. OneSaver'
      BY <2>1, <3>2 DEF OneSaver, childVars
    <3>4. OnlyOnlineMiss'
      <4> SUFFICES ASSUME NEW s \in Slaves
                   PROVE  /\ missed'[s] \subseteq 1..writes'
                          /\ slaveState[s] # "online" => missed'[s] = {}
        BY <2>1 DEF OnlyOnlineMiss
      <4>1. missed[s] \subseteq 1..writes /\ 1..writes \subseteq 1..writes'
            /\ writes' \in 1..writes'
        BY <2>1 DEF OnlyOnlineMiss
      <4>2. slaveState[s] # "online" => missed'[s] = missed[s] /\ missed[s] = {}
        BY <3>1 DEF OnlyOnlineMiss, Waiting
      <4> QED BY <3>1, <4>1, <4>2
    <3>5. MissesOnlyDuringSaves'
      <4> SUFFICES ASSUME NEW s \in Waiting(slaveState, "online")
                   PROVE  Range(stream[s]) = (1..writes') \ missed'[s]
        BY <2>1, <3>1 DEF MissesOnlyDuringSaves, Waiting
      <4>1. missed'[s] = missed[s] \cup {writes'} /\ missed[s] \subseteq 1..writes
        BY <2>2, <3>1 DEF OnlyOnlineMiss, Waiting
      <4>2. (1..writes') \ missed'[s] = (1..writes) \ missed[s]
        BY <2>1, <4>1
      <4> QED BY <4>2 DEF MissesOnlyDuringSaves
    <3> QED BY <1>0, <3>3, <3>4, <3>5
  <2>4. CASE ~bgsaving
    <3>1. /\ UNCHANGED <<buffer, missed>>
          /\ \A s \in Slaves : stream'[s] = IF s \in Waiting(slaveState, "online")
                                 THEN Append(stream[s], writes') ELSE stream[s]
      BY <1>4, <1>t, <2>4 DEF SendToSlaves, TypeOK
    <3>2. \A p \in children : p.rewrite
      BY <1>t, <2>4 DEF OneSaver, TypeOK, Child
    <3>3. OneSaver'
      BY <2>1, <3>2 DEF OneSaver, childVars
    <3>4. OnlyOnlineMiss'
      BY <2>1, <3>1 DEF OnlyOnlineMiss
    <3>5. MissesOnlyDuringSaves'
      <4> SUFFICES ASSUME NEW s \in Waiting(slaveState, "online")
                   PROVE  Range(stream'[s]) = (1..writes') \ missed[s]
        BY <2>1, <3>1 DEF MissesOnlyDuringSaves, Waiting
      <4>1. stream[s] \in Seq(Writes) /\ stream'[s] = Append(stream[s], writes')
            /\ missed[s] \subseteq 1..writes
        BY <1>t, <2>2, <3>1 DEF OnlyOnlineMiss, Waiting, TypeOK
      <4>2. Range(stream'[s]) = Range(stream[s]) \cup {writes'}
        BY <2>1, <4>1, RangeOfAppend
      <4>3. Range(stream[s]) = (1..writes) \ missed[s]
        BY DEF MissesOnlyDuringSaves
      <4> HIDE DEF CopyInv
      <4> QED BY <2>1, <4>1, <4>2, <4>3
    <3> QED BY <1>0, <3>3, <3>4, <3>5
  <2> QED BY <2>3, <2>4
<1>8. CASE BgRewriteAof
  <2>1. /\ children' = children \cup {Forked(TRUE)}
        /\ UNCHANGED <<slaveVars, saveVars, dataVars, qdbPid, rdb>>
    BY <1>8 DEF BgRewriteAof, Fork
  <2>2. \A p \in children' \ children : p.rewrite
    BY <2>1 DEF Forked
  <2> QED BY <1>0, <2>1, <2>2 DEF OneSaver, OnlyOnlineMiss, MissesOnlyDuringSaves, Waiting,
             slaveVars, saveVars, dataVars
<1>9. ASSUME NEW p \in children, ChildExit(p)
      PROVE  CopyInv'
  <2> DEFINE q == [p EXCEPT !.status = "ok"]
  <2>1. /\ children' = (children \ {p}) \cup {q}
        /\ rdb' = IF p.rewrite THEN rdb ELSE p.snapshot
        /\ UNCHANGED <<slaveVars, saveVars, dataVars, qdbPid>>
    BY <1>9 DEF ChildExit
  <2>2. q.pid = p.pid /\ q.rewrite = p.rewrite /\ q.snapshot = p.snapshot
    BY <1>t DEF TypeOK, Child
  <2> HIDE DEF q
  <2>3. \A r \in children \ {p} : ~r.rewrite => p.rewrite
    BY DEF OneSaver, SaverInv, PidsAreUnique
  <2>4. OneSaver'
    BY <2>1, <2>2, <2>3 DEF OneSaver, saveVars, dataVars
  <2> QED BY <1>0, <2>1, <2>4 DEF OnlyOnlineMiss, MissesOnlyDuringSaves, Waiting, slaveVars, dataVars
<1>10. ASSUME NEW p \in children, CheckChild(p)
       PROVE  CopyInv'
  <2>1. UNCHANGED <<writes, missed, rdb>> /\ p.status = "ok"
    BY <1>10, <1>t DEF CheckChild, SaverInv, SaversSucceed, TypeOK, Child
  <2>2. CASE SaveDone(p)
    <3>1. p.pid = qdbPid /\ ~p.rewrite
      BY <2>2 DEF SaveDone, SaverInv, PidsAreUnique
    <3>2. bgsaving /\ rdb = writes - Len(buffer) /\ rdb # None
      BY <2>1, <3>1 DEF OneSaver, SaverInv, SaversSucceed
    <3>3. OnRdbSaveDone /\ children' = children \ {p}
      BY <2>2, <3>2 DEF SaveDone
    <3>4. Range(FileContents \o buffer) = 1..writes
      <4>1. FileContents \in Seq(Writes) /\ buffer \in Seq(Writes) /\ writes \in Nat
        BY <1>t, FileContentsType DEF TypeOK
      <4>2. \A i \in 1..Len(buffer) : buffer[i] = writes - Len(buffer) + i
        BY <3>2 DEF OrderInv, SinceFork
      <4>3. Len(FileContents) = writes - Len(buffer)
            /\ \A i \in 1..Len(FileContents) : FileContents[i] = i
        BY <1>t, <3>2, FileContentsType
      <4> QED BY <4>1, <4>2, <4>3, FileAndBufferAreAll
    <3>5. /\ connected' = connected
          /\ \A s \in Slaves :
                IF s \in Waiting(slaveState, "wait_end")
                THEN slaveState'[s] = "online" /\ stream'[s] = FileContents \o buffer
                ELSE slaveState'[s] = slaveState[s] /\ stream'[s] = stream[s]
      BY <1>t, <3>2, <3>3 DEF OnRdbSaveDone, TypeOK
    <3>6. \A s \in Waiting(slaveState, "wait_end") : s \in Slaves /\ missed[s] = {}
      BY <1>t DEF Waiting, OnlyOnlineMiss, TypeOK
    <3>7. \A q \in children' : q.rewrite
      BY <1>t, <3>1, <3>3 DEF OneSaver, SaverInv, PidsAreUnique, TypeOK, Child
    <3>8. OneSaver' /\ OnlyOnlineMiss'
      BY <2>1, <3>5, <3>6, <3>7 DEF OneSaver, OnlyOnlineMiss
    <3>9. MissesOnlyDuringSaves'
      <4> SUFFICES ASSUME NEW s \in Waiting(slaveState, "online")'
                   PROVE  Range(stream'[s]) = (1..writes) \ missed[s]
        BY <2>1 DEF MissesOnlyDuringSaves
      <4>1. s \in connected /\ s \in Slaves /\ slaveState'[s] = "online"
        BY <1>t, <3>5 DEF Waiting, TypeOK
      <4>2. CASE s \in Waiting(slaveState, "wait_end")
        BY <3>4, <3>5, <3>6, <4>1, <4>2
      <4>3. CASE s \notin Waiting(slaveState, "wait_end")
        <5>1. stream'[s] = stream[s] /\ s \in Waiting(slaveState, "online")
          BY <3>5, <4>1, <4>3 DEF Waiting
        <5> QED BY <5>1 DEF MissesOnlyDuringSaves
      <4> QED BY <4>2, <4>3
    <3> QED BY <1>0, <3>8, <3>9
  <2>3. CASE RewriteDone(p) \/ UnknownChild(p)
    <3>1. children' \subseteq children /\ UNCHANGED <<slaveVars, saveVars, qdbPid>>
      BY <2>3 DEF RewriteDone, UnknownChild
    <3> QED BY <1>0, <2>1, <3>1 DEF OneSaver, OnlyOnlineMiss, MissesOnlyDuringSaves, Waiting,
               slaveVars, saveVars
  <2> QED BY <1>10, <2>2, <2>3 DEF CheckChild
<1>11. CASE UNCHANGED vars
  BY <1>0, <1>11 DEF vars, slaveVars, saveVars, dataVars, childVars, OneSaver, OnlyOnlineMiss,
     MissesOnlyDuringSaves, Waiting
<1>12. ~Bgsave /\ ~Save /\ ~QdbCron
  BY DEF Bgsave, Save, QdbCron
<1> QED BY <1>1, <1>2, <1>3, <1>4, <1>8, <1>9, <1>10, <1>11, <1>12 DEF Next

\* When SYNC is the only road to a saver and savers do not fail, an online replica
\* was sent every write but those made while it was online and a save for another
\* replica ran, across file, buffer and stream.
THEOREM OnlineMissesOnlyDuringSaves ==
    ASSUME "child" \notin MayFail, Roads \subseteq {"sync", "rewrite"}
    PROVE  Spec => []MissesOnlyDuringSaves
<1>1. Init => CopyInv
  <2>1. ASSUME Init
        PROVE  OneSaver /\ OnlyOnlineMiss /\ MissesOnlyDuringSaves
    BY <2>1 DEF Init, OneSaver, OnlyOnlineMiss, MissesOnlyDuringSaves, Waiting
  <2> QED BY <2>1, OrderInit, SaverInit DEF CopyInv
<1>2. CopyInv /\ [Next]_vars => CopyInv'
  BY CopyStep
<1>3. CopyInv => MissesOnlyDuringSaves
  BY DEF CopyInv
<1> QED BY <1>1, <1>2, <1>3, PTL DEF Spec

=============================================================================
