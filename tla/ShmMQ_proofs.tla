---------------------------- MODULE ShmMQ_proofs ----------------------------
(***************************************************************************)
(* Proofs about ShmMQ for every number of processes, size of the ring,     *)
(* set of lengths and number of faults.                                    *)
(***************************************************************************)
EXTENDS ShmMQ, SequenceTheorems, TLAPS

Sending == {"enq_head", "enq_tail", "copy_head", "copy_data", "store_tail",
            "count", "notify"}
Copying == {"copy_head", "copy_data", "store_tail"}
Reading == {"sub", "read_head", "read_data", "store_head"}

\* What a process knows of its locals between the loads and the stores.
LocalsOK ==
    /\ \A p \in Producers : pc[p] \in Sending => msg[p] \in Messages
    /\ \A p \in Producers : pc[p] \in Copying =>
           /\ lh[p] \in 0..BlockSize /\ lt[p] \in 0..BlockSize
           /\ Total(msg[p]) < FreeLen(lh[p], lt[p])
    /\ \A c \in Comsumers : pc[c] \in Reading =>
           lh[c] \in 0..BlockSize /\ lt[c] \in 0..BlockSize /\ lh[c] # lt[c]
    /\ \A c \in Comsumers : pc[c] \in {"read_data", "store_head"} =>
           len[c] \in 4..UsedLen(lh[c], lt[c])
    /\ \A c \in Comsumers : pc[c] = "store_head" => Len(buf[c]) = len[c] - 3

TypeInv == TypeOK /\ LocalsOK

\* A frame has at least its header and its two safe areas.
LEMMA TotalType ==
    ASSUME NEW m \in Messages
    PROVE  Total(m) \in Nat /\ Total(m) >= 4 /\ m.len \in Nat /\ m.at \in Nat
<1>1. m.len \in Lens /\ m.at \in Nat
  BY DEF Messages
<1>2. m.len \in Nat
  BY <1>1, SizeAssumption
<1> QED BY <1>1, <1>2 DEF Total, C_HEAD_SIZE, C_SAFE_AREA_LEN

\* A frame is four words longer than its data.
LEMMA TotalLen ==
    ASSUME NEW m, m.len \in Nat
    PROVE  Total(m) - 3 = m.len + 1
BY DEF Total, C_HEAD_SIZE, C_SAFE_AREA_LEN

\* A position, folded, is a slot of the ring.
LEMMA IndexType ==
    ASSUME NEW x \in 0..(2 * BlockSize - 1)
    PROVE  Index(x) \in 0..(BlockSize - 1)
BY SizeAssumption DEF Index

\* The copies of enqueue write words into the ring.
LEMMA CopyType ==
    ASSUME NEW b \in [0..(BlockSize - 1) -> Words], NEW t \in 0..BlockSize,
           NEW m \in Messages
    PROVE  /\ CopyHead(b, t, m) \in [0..(BlockSize - 1) -> Words]
           /\ CopyData(b, t, m) \in [0..(BlockSize - 1) -> Words]
<1>1. \A k \in Nat : [m |-> m, k |-> k] \in Words
  BY DEF Words
<1>2. \A i \in 0..(BlockSize - 1) : Offset(t, i) \in Nat
  BY SizeAssumption DEF Offset
<1> QED BY <1>1, <1>2 DEF CopyHead, CopyData

\* The ways a call can go on keep the types of pc and lock.
LEMMA FlowType ==
    ASSUME LocalType, NEW x \in Procs,
           \/ Return(x) \/ CheckFail(x)
           \/ \E l \in Labels : Goto(x, l) /\ (Acquire(x) \/ Release(x) \/ UNCHANGED lock)
    PROVE  /\ pc' \in [Procs -> Labels]
           /\ lock' \in [Sides -> Procs \cup {None}]
<1>1. ASSUME NEW l \in Labels, Goto(x, l) PROVE pc' \in [Procs -> Labels]
  BY <1>1 DEF LocalType, Goto
<1>2. ASSUME Acquire(x) \/ Release(x) \/ UNCHANGED lock
      PROVE  lock' \in [Sides -> Procs \cup {None}]
  BY <1>2 DEF LocalType, Acquire, Release, Side, Sides
<1> QED BY <1>1, <1>2 DEF Return, CheckFail, Labels

\* A word read as total_len is a number of words.
LEMMA LenValueType ==
    ASSUME NEW w \in Words
    PROVE  LenValue(w) \in Nat /\ (LenValue(w) = 0 \/ LenValue(w) >= 4 \/ LenValue(w) = BlockSize + 1)
<1>1. CASE w = Zero
  BY <1>1 DEF LenValue
<1>2. CASE w # Zero
  <2>1. w.m \in Messages
    BY <1>2 DEF Words
  <2> QED BY <1>2, <2>1, TotalType, SizeAssumption DEF LenValue
<1> QED BY <1>1, <1>2

\* A buffer stands for a message or for none.
LEMMA PayloadType ==
    ASSUME NEW b \in Seq(Words), Len(b) >= 1
    PROVE  Payload(b) \in Messages \cup {None}
<1>1. b[1] \in Words
  OBVIOUS
<1>2. b[1] = Zero \/ b[1].m \in Messages
  BY <1>1 DEF Words
<1> QED BY <1>2 DEF Payload

\* The tail that enqueue stores is an unsigned word.
LEMMA NextTailType ==
    ASSUME NEW m \in Messages, NEW t \in 0..BlockSize, NEW cur \in 0..(WordMod - 1),
           NEW h \in 0..BlockSize, Total(m) < FreeLen(h, t)
    PROVE  NextTail(t, cur, m) \in 0..(WordMod - 1)
<1>1. Total(m) \in Nat /\ Total(m) <= 2 * BlockSize
  BY TotalType, SizeAssumption DEF FreeLen
<1>2. \A x \in Nat : x % WordMod \in 0..(WordMod - 1)
  BY SizeAssumption
<1>3. cur + Total(m) \in Nat /\ cur + WordMod + Total(m) - BlockSize \in Nat
  BY <1>1, SizeAssumption
<1>4. Total(m) - (BlockSize - t) \in Int /\ Total(m) - (BlockSize - t) < WordMod
  BY <1>1, SizeAssumption
<1>5. CASE BlockSize - t >= Total(m)
  BY <1>2, <1>3, <1>5 DEF NextTail
<1>6. CASE BlockSize - t < Total(m) /\ BlockSize - t >= 3
  BY <1>1, <1>2, <1>3, <1>6, SizeAssumption DEF NextTail, C_HEAD_SIZE, C_SAFE_AREA_LEN
<1>7. CASE BlockSize - t < Total(m) /\ BlockSize - t < 3
  BY <1>1, <1>4, <1>7, SizeAssumption DEF NextTail, C_HEAD_SIZE, C_SAFE_AREA_LEN
<1> QED BY <1>1, <1>5, <1>6, <1>7, SizeAssumption

\* A header that passes the checks of dequeue is a length that fits.
LEMMA HeaderLen ==
    ASSUME ShmType, LocalType, NEW c \in Comsumers,
           lh[c] \in 0..BlockSize, lt[c] \in 0..BlockSize, lh[c] # lt[c]
    PROVE  /\ LenValue(block[Index(lh[c] + C_SAFE_AREA_LEN)]) \in Nat
           /\ HeaderOk(c) =>
                LenValue(block[Index(lh[c] + C_SAFE_AREA_LEN)])
                    \in 4..UsedLen(lh[c], lt[c])
           /\ UsedLen(lh[c], lt[c]) \in 0..BlockSize
<1> DEFINE w == block[Index(lh[c] + C_SAFE_AREA_LEN)]
<1>1. Index(lh[c] + C_SAFE_AREA_LEN) \in 0..(BlockSize - 1)
  BY SizeAssumption DEF Index, C_SAFE_AREA_LEN
<1>2. w \in Words
  BY <1>1 DEF ShmType
<1>3. LenValue(w) \in Nat /\ (LenValue(w) = 0 \/ LenValue(w) >= 4 \/ LenValue(w) = BlockSize + 1)
  BY <1>2, LenValueType
<1>4. UsedLen(lh[c], lt[c]) \in 0..BlockSize
  BY SizeAssumption DEF UsedLen
<1>5. ASSUME HeaderOk(c) PROVE LenValue(w) \in 4..UsedLen(lh[c], lt[c])
  <2>1. LenValue(w) <= UsedLen(lh[c], lt[c])
    BY <1>5 DEF HeaderOk
  <2>2. LenValue(w) # 0
    <3> SUFFICES ASSUME LenValue(w) = 0 PROVE FALSE
      OBVIOUS
    <3>1. (WordMod - 3) % WordMod <= BufSize
      BY <1>5, SizeAssumption DEF HeaderOk, C_HEAD_SIZE, C_SAFE_AREA_LEN
    <3>2. (WordMod - 3) % WordMod = WordMod - 3
      BY SizeAssumption
    <3> QED BY <3>1, <3>2, SizeAssumption
  <2> QED BY <1>3, <1>4, <2>1, <2>2, SizeAssumption
<1> QED BY <1>3, <1>4, <1>5

\* A new segment has the types.
LEMMA InitTypeInv == Init => TypeInv
<1> SUFFICES ASSUME Init PROVE TypeInv
  OBVIOUS
<1>1. ShmType
  <2>1. block \in [0..(BlockSize - 1) -> Words]
    BY DEF Init, Words
  <2>2. fifo \in BOOLEAN
    BY DEF Init
  <2>3. head \in 0..(WordMod - 1) /\ tail \in 0..(WordMod - 1) /\ count \in Int
    BY SizeAssumption DEF Init
  <2>4. clr \in Procs \cup {None}
    BY DEF Init
  <2> QED BY <2>1, <2>2, <2>3, <2>4 DEF ShmType
<1>2. LocalType
  BY SizeAssumption DEF Init, LocalType, Procs, Labels
<1>3. HistType
  BY SizeAssumption DEF Init, HistType
<1>4. LocalsOK
  BY DEF Init, LocalsOK, Sending, Copying, Reading, Procs
<1> QED BY <1>1, <1>2, <1>3, <1>4 DEF TypeInv, TypeOK

\* Every step, restarts of the proxy included, keeps the types.
LEMMA NextTypeInv == TypeInv /\ [NextRestart]_vars => TypeInv'
<1> SUFFICES ASSUME ShmType, LocalType, HistType, LocalsOK, [NextRestart]_vars
             PROVE  (ShmType /\ LocalType /\ HistType /\ LocalsOK)'
  BY DEF TypeInv, TypeOK
<1>1. ASSUME NEW p \in Producers, NEW n \in Lens, Produce(p, n)
      PROVE  (ShmType /\ LocalType /\ HistType /\ LocalsOK)'
  <2>1. ShmType'
    BY <1>1, SizeAssumption DEF Produce, ShmType, LocalType, shm
  <2>2. LocalType' /\ msg'[p] \in Messages
    <3>1. calls + 1 \in 1..MaxSend
      BY <1>1, SizeAssumption DEF Produce, HistType
    <3>2. StreamEnd \in Nat
      <4>1. CASE sent = <<>>
        BY <4>1 DEF StreamEnd
      <4>2. CASE sent # <<>>
        <5>1. sent[Len(sent)] \in Messages
          BY <4>2 DEF HistType
        <5> QED BY <4>2, <5>1, TotalType DEF StreamEnd
      <4> QED BY <4>1, <4>2
    <3>3. [id |-> calls + 1, len |-> n, at |-> StreamEnd] \in Messages
      BY <3>1, <3>2 DEF Messages
    <3>4. msg' \in [Producers -> Messages \cup {None}] /\ msg'[p] \in Messages
      BY <1>1, <3>3 DEF Produce, LocalType
    <3>5. pc' \in [Procs -> Labels] /\ lock' \in [Sides -> Procs \cup {None}]
      BY <1>1, FlowType DEF Produce, Procs, Labels
    <3> QED BY <1>1, <3>4, <3>5 DEF Produce, LocalType
  <2>3. HistType'
    BY <1>1, SizeAssumption DEF Produce, HistType, hist, Bounds
  <2>4. LocalsOK'
    <3>1. pc'[p] = "enq_head" /\ \A x \in Procs \ {p} : pc'[x] = pc[x]
      BY <1>1 DEF Produce, LocalType, Goto, Procs
    <3>2. \A q \in Producers \ {p} : msg'[q] = msg[q]
      BY <1>1 DEF Produce, LocalType
    <3>3. UNCHANGED <<lh, lt, len, buf>> /\ p \notin Comsumers
      BY <1>1, ProcsAssumption DEF Produce
    <3> QED BY <2>2, <3>1, <3>2, <3>3 DEF LocalsOK, Sending, Copying, Reading, Procs
  <2> QED BY <2>1, <2>2, <2>3, <2>4
<1>2. ASSUME NEW p \in Producers, EnqLoadHead(p)
      PROVE  (ShmType /\ LocalType /\ HistType /\ LocalsOK)'
  <2>1. ShmType'
    BY <1>2, SizeAssumption DEF EnqLoadHead, ShmType, LocalType, shm
  <2>2. LocalType'
    BY <1>2, SizeAssumption DEF EnqLoadHead, LocalType, ShmType, Goto, Side, Sides,
       Labels, Procs
  <2>3. HistType'
    BY <1>2, SizeAssumption DEF EnqLoadHead, HistType, hist, Bounds
  <2>4. LocalsOK'
    BY <1>2, SizeAssumption DEF EnqLoadHead, LocalType, LocalsOK, Goto, Procs, Sending,
       Copying, Reading
  <2> QED BY <2>1, <2>2, <2>3, <2>4
<1>3. ASSUME NEW p \in Producers, EnqLoadTail(p)
      PROVE  (ShmType /\ LocalType /\ HistType /\ LocalsOK)'
  <2>1. ShmType'
    BY <1>3, SizeAssumption DEF EnqLoadTail, ShmType, LocalType, shm
  <2>2. LocalType'
    <3>1. pc' \in [Procs -> Labels] /\ lock' \in [Sides -> Procs \cup {None}]
      BY <1>3, FlowType DEF EnqLoadTail, Procs, Labels
    <3>2. lt' \in [Procs -> 0..(WordMod - 1)]
      BY <1>3 DEF EnqLoadTail, LocalType, ShmType
    <3> QED BY <1>3, <3>1, <3>2 DEF EnqLoadTail, LocalType
  <2>3. HistType'
    BY <1>3, SizeAssumption DEF EnqLoadTail, HistType, hist, Bounds
  <2>4. LocalsOK'
    <3>1. \A x \in Procs \ {p} : pc'[x] = pc[x] /\ lt'[x] = lt[x]
      BY <1>3 DEF EnqLoadTail, LocalType, Goto, Return, CheckFail
    <3>2. pc'[p] \in {"copy_head", "idle", "clear_head"} /\ p \notin Comsumers
      BY <1>3, ProcsAssumption DEF EnqLoadTail, LocalType, Goto, Return, CheckFail, Procs
    <3>3. pc'[p] = "copy_head" =>
            /\ lh[p] \in 0..BlockSize /\ lt'[p] \in 0..BlockSize
            /\ Total(msg[p]) < FreeLen(lh[p], lt'[p])
      <4>1. msg[p] \in Messages /\ Total(msg[p]) \in Nat
        BY <1>3, TotalType DEF EnqLoadTail, LocalsOK, Sending
      <4>2. lh[p] \in Nat /\ tail \in Nat /\ lt'[p] = tail
        BY <1>3 DEF EnqLoadTail, LocalType, ShmType, Procs
      <4>3. pc'[p] = "copy_head" => Valid(lh[p], tail) /\ ~(FreeLen(lh[p], tail) <= Total(msg[p]))
        BY <1>3 DEF EnqLoadTail, LocalType, Goto, Return, CheckFail, Procs
      <4> QED BY <4>1, <4>2, <4>3, SizeAssumption DEF Valid, FreeLen
    <3>4. UNCHANGED <<lh, msg, len, buf>>
      BY <1>3 DEF EnqLoadTail
    <3>5. msg[p] \in Messages
      BY <1>3 DEF EnqLoadTail, LocalsOK, Sending
    <3> QED BY <3>1, <3>2, <3>3, <3>4, <3>5 DEF LocalsOK, Sending, Copying, Reading, Procs
  <2> QED BY <2>1, <2>2, <2>3, <2>4
<1>4. ASSUME NEW p \in Producers, EnqCopyHead(p)
      PROVE  (ShmType /\ LocalType /\ HistType /\ LocalsOK)'
  <2>1. ShmType'
    <3>1. msg[p] \in Messages /\ lt[p] \in 0..BlockSize
      BY <1>4 DEF EnqCopyHead, LocalsOK, Sending, Copying
    <3>2. block' \in [0..(BlockSize - 1) -> Words]
      BY <1>4, <3>1, CopyType DEF EnqCopyHead, ShmType
    <3> QED BY <1>4, <3>2 DEF EnqCopyHead, ShmType
  <2>2. LocalType'
    BY <1>4, SizeAssumption DEF EnqCopyHead, LocalType, ShmType, Goto, Side, Sides,
       Labels, Procs
  <2>3. HistType'
    BY <1>4, SizeAssumption DEF EnqCopyHead, HistType, hist, Bounds
  <2>4. LocalsOK'
    BY <1>4, SizeAssumption DEF EnqCopyHead, LocalType, LocalsOK, Goto, Procs, Sending,
       Copying, Reading
  <2> QED BY <2>1, <2>2, <2>3, <2>4
<1>5. ASSUME NEW p \in Producers, EnqCopyData(p)
      PROVE  (ShmType /\ LocalType /\ HistType /\ LocalsOK)'
  <2>1. ShmType'
    <3>1. msg[p] \in Messages /\ lt[p] \in 0..BlockSize
      BY <1>5 DEF EnqCopyData, LocalsOK, Sending, Copying
    <3>2. block' \in [0..(BlockSize - 1) -> Words]
      BY <1>5, <3>1, CopyType DEF EnqCopyData, ShmType
    <3> QED BY <1>5, <3>2 DEF EnqCopyData, ShmType
  <2>2. LocalType'
    BY <1>5, SizeAssumption DEF EnqCopyData, LocalType, ShmType, Goto, Side, Sides,
       Labels, Procs
  <2>3. HistType'
    BY <1>5, SizeAssumption DEF EnqCopyData, HistType, hist, Bounds
  <2>4. LocalsOK'
    BY <1>5, SizeAssumption DEF EnqCopyData, LocalType, LocalsOK, Goto, Procs, Sending,
       Copying, Reading
  <2> QED BY <2>1, <2>2, <2>3, <2>4
<1>6. ASSUME NEW p \in Producers, EnqStoreTail(p)
      PROVE  (ShmType /\ LocalType /\ HistType /\ LocalsOK)'
  <2>1. ShmType'
    <3>1. /\ msg[p] \in Messages /\ lt[p] \in 0..BlockSize /\ lh[p] \in 0..BlockSize
          /\ Total(msg[p]) < FreeLen(lh[p], lt[p])
      BY <1>6 DEF EnqStoreTail, LocalsOK, Sending, Copying
    <3>2. tail' \in 0..(WordMod - 1)
      <4>1. PICK cur \in {tail, lt[p]} : tail' = NextTail(lt[p], cur, msg[p])
        BY <1>6 DEF EnqStoreTail
      <4>2. cur \in 0..(WordMod - 1)
        BY <3>1, <4>1, SizeAssumption, SMTT(30) DEF ShmType
      <4> QED BY <3>1, <4>1, <4>2, NextTailType
    <3> QED BY <1>6, <3>2 DEF EnqStoreTail, ShmType
  <2>2. LocalType'
    BY <1>6, SizeAssumption DEF EnqStoreTail, LocalType, ShmType, Goto, Side, Sides,
       Labels, Procs
  <2>3. HistType'
    <3>1. msg[p] \in Messages
      BY <1>6 DEF EnqStoreTail, LocalsOK, Sending
    <3>2. sent' \in Seq(Messages) /\ Len(sent') = Len(sent) + 1
      BY <1>6, <3>1 DEF EnqStoreTail, HistType
    <3>3. taken \in 0..Len(sent) /\ Len(sent) \in Nat
      BY DEF HistType
    <3>4. taken' \in 0..Len(sent')
      BY <1>6, <3>2, <3>3 DEF EnqStoreTail
    <3> QED BY <1>6, <3>2, <3>4 DEF EnqStoreTail, HistType, Bounds
  <2>4. LocalsOK'
    BY <1>6, SizeAssumption DEF EnqStoreTail, LocalType, LocalsOK, Goto, Procs,
       Sending, Copying, Reading
  <2> QED BY <2>1, <2>2, <2>3, <2>4
<1>7. ASSUME NEW p \in Producers, EnqCount(p)
      PROVE  (ShmType /\ LocalType /\ HistType /\ LocalsOK)'
  <2>1. ShmType'
    BY <1>7, SizeAssumption DEF EnqCount, ShmType, LocalType, shm
  <2>2. LocalType'
    <3>1. pc' \in [Procs -> Labels] /\ lock' \in [Sides -> Procs \cup {None}]
      BY <1>7, FlowType DEF EnqCount, Procs, Labels
    <3> QED BY <1>7, <3>1 DEF EnqCount, LocalType
  <2>3. HistType'
    BY <1>7, SizeAssumption DEF EnqCount, HistType, hist, Bounds
  <2>4. LocalsOK'
    BY <1>7, SizeAssumption, SMTT(30) DEF EnqCount, LocalType, LocalsOK, Goto, Return, Procs,
       Sending, Copying, Reading
  <2> QED BY <2>1, <2>2, <2>3, <2>4
<1>8. ASSUME NEW p \in Producers, Notify(p)
      PROVE  (ShmType /\ LocalType /\ HistType /\ LocalsOK)'
  <2>1. ShmType'
    BY <1>8, SizeAssumption DEF Notify, ShmType, LocalType, shm
  <2>2. LocalType'
    BY <1>8, SizeAssumption DEF Notify, LocalType, ShmType, Goto, Return, Release,
       Side, Sides, Labels, Procs
  <2>3. HistType'
    BY <1>8, SizeAssumption DEF Notify, HistType, hist, Bounds
  <2>4. LocalsOK'
    BY <1>8, SizeAssumption DEF Notify, LocalType, LocalsOK, Goto, Return, Procs,
       Sending, Copying, Reading
  <2> QED BY <2>1, <2>2, <2>3, <2>4
<1>9. ASSUME NEW c \in Comsumers, Comsume(c)
      PROVE  (ShmType /\ LocalType /\ HistType /\ LocalsOK)'
  <2>1. ShmType'
    BY <1>9, SizeAssumption DEF Comsume, ShmType, LocalType, shm
  <2>2. LocalType'
    BY <1>9, SizeAssumption DEF Comsume, LocalType, ShmType, Goto, Side, Sides, Labels,
       Procs
  <2>3. HistType'
    BY <1>9, SizeAssumption DEF Comsume, HistType, hist, Bounds
  <2>4. LocalsOK'
    BY <1>9, SizeAssumption DEF Comsume, LocalType, LocalsOK, Goto, Procs, Sending,
       Copying, Reading
  <2> QED BY <2>1, <2>2, <2>3, <2>4
<1>10. ASSUME NEW c \in Comsumers, ComsumeLock(c)
      PROVE  (ShmType /\ LocalType /\ HistType /\ LocalsOK)'
  <2>1. ShmType'
    BY <1>10, SizeAssumption DEF ComsumeLock, ShmType, LocalType, shm
  <2>2. LocalType'
    BY <1>10, SizeAssumption DEF ComsumeLock, LocalType, ShmType, Goto, Acquire, Side,
       Sides, Labels, Procs
  <2>3. HistType'
    BY <1>10, SizeAssumption DEF ComsumeLock, HistType, hist, Bounds
  <2>4. LocalsOK'
    BY <1>10, SizeAssumption DEF ComsumeLock, LocalType, LocalsOK, Goto, Procs,
       Sending, Copying, Reading
  <2> QED BY <2>1, <2>2, <2>3, <2>4
<1>11. ASSUME NEW c \in Comsumers, DeqLoadHead(c)
      PROVE  (ShmType /\ LocalType /\ HistType /\ LocalsOK)'
  <2>1. ShmType'
    BY <1>11, SizeAssumption DEF DeqLoadHead, ShmType, LocalType, shm
  <2>2. LocalType'
    BY <1>11, SizeAssumption DEF DeqLoadHead, LocalType, ShmType, Goto, Side, Sides,
       Labels, Procs
  <2>3. HistType'
    BY <1>11, SizeAssumption DEF DeqLoadHead, HistType, hist, Bounds
  <2>4. LocalsOK'
    BY <1>11, SizeAssumption DEF DeqLoadHead, LocalType, LocalsOK, Goto, Procs,
       Sending, Copying, Reading
  <2> QED BY <2>1, <2>2, <2>3, <2>4
<1>12. ASSUME NEW c \in Comsumers, DeqLoadTail(c)
      PROVE  (ShmType /\ LocalType /\ HistType /\ LocalsOK)'
  <2>1. ShmType'
    BY <1>12, SizeAssumption DEF DeqLoadTail, ShmType, LocalType, shm
  <2>2. LocalType'
    <3>1. pc' \in [Procs -> Labels] /\ lock' \in [Sides -> Procs \cup {None}]
      BY <1>12, FlowType DEF DeqLoadTail, Procs, Labels
    <3>2. lt' \in [Procs -> 0..(WordMod - 1)]
      BY <1>12 DEF DeqLoadTail, LocalType, ShmType
    <3> QED BY <1>12, <3>1, <3>2 DEF DeqLoadTail, LocalType
  <2>3. HistType'
    BY <1>12, SizeAssumption DEF DeqLoadTail, HistType, hist, Bounds
  <2>4. LocalsOK'
    <3>1. \A x \in Procs \ {c} : pc'[x] = pc[x] /\ lt'[x] = lt[x]
      BY <1>12 DEF DeqLoadTail, LocalType, Goto, Return, CheckFail
    <3>2. pc'[c] \in {"sub", "wait", "clear_head"} /\ c \notin Producers
      BY <1>12, ProcsAssumption DEF DeqLoadTail, LocalType, Goto, Return, CheckFail, Procs
    <3>3. pc'[c] = "sub" =>
            lh[c] \in 0..BlockSize /\ lt'[c] \in 0..BlockSize /\ lh[c] # lt'[c]
      <4>1. lh[c] \in Nat /\ tail \in Nat /\ lt'[c] = tail
        BY <1>12 DEF DeqLoadTail, LocalType, ShmType, Procs
      <4>2. pc'[c] = "sub" => Valid(lh[c], tail) /\ lh[c] # tail
        BY <1>12 DEF DeqLoadTail, LocalType, Goto, Return, CheckFail, Procs
      <4> QED BY <4>1, <4>2, SizeAssumption DEF Valid
    <3>4. UNCHANGED <<lh, msg, len, buf>>
      BY <1>12 DEF DeqLoadTail
    <3> QED BY <3>1, <3>2, <3>3, <3>4 DEF LocalsOK, Sending, Copying, Reading, Procs
  <2> QED BY <2>1, <2>2, <2>3, <2>4
<1>13. ASSUME NEW c \in Comsumers, DeqSub(c)
      PROVE  (ShmType /\ LocalType /\ HistType /\ LocalsOK)'
  <2>1. ShmType'
    BY <1>13, SizeAssumption DEF DeqSub, ShmType, LocalType, shm
  <2>2. LocalType'
    BY <1>13, SizeAssumption DEF DeqSub, LocalType, ShmType, Goto, Side, Sides, Labels,
       Procs
  <2>3. HistType'
    BY <1>13, SizeAssumption DEF DeqSub, HistType, hist, Bounds
  <2>4. LocalsOK'
    BY <1>13, SizeAssumption DEF DeqSub, LocalType, LocalsOK, Goto, Procs, Sending,
       Copying, Reading
  <2> QED BY <2>1, <2>2, <2>3, <2>4
<1>14. ASSUME NEW c \in Comsumers, DeqReadHead(c)
      PROVE  (ShmType /\ LocalType /\ HistType /\ LocalsOK)'
  <2>1. ShmType'
    BY <1>14, SizeAssumption DEF DeqReadHead, ShmType, LocalType, shm
  <2>2. LocalType'
    <3>1. lh[c] \in 0..BlockSize /\ lt[c] \in 0..BlockSize /\ lh[c] # lt[c]
      BY <1>14 DEF DeqReadHead, LocalsOK, Reading
    <3>2. len' \in [Comsumers -> Nat]
      BY <1>14, <3>1, HeaderLen DEF DeqReadHead, LocalType
    <3>3. pc' \in [Procs -> Labels]
      BY <1>14 DEF DeqReadHead, LocalType, Goto, Labels
    <3> QED BY <1>14, <3>2, <3>3 DEF DeqReadHead, LocalType
  <2>3. HistType'
    BY <1>14, SizeAssumption DEF DeqReadHead, HistType, hist, Bounds
  <2>4. LocalsOK'
    <3>1. lh[c] \in 0..BlockSize /\ lt[c] \in 0..BlockSize /\ lh[c] # lt[c]
      BY <1>14 DEF DeqReadHead, LocalsOK, Reading
    <3>2. /\ pc'[c] \in {"read_data", "recheck"} /\ c \notin Producers
          /\ pc'[c] = "read_data" => HeaderOk(c)
      BY <1>14, ProcsAssumption DEF DeqReadHead, LocalType, Goto, Procs
    <3>3. pc'[c] = "read_data" => len'[c] \in 4..UsedLen(lh[c], lt[c])
      BY <1>14, <3>1, <3>2, HeaderLen DEF DeqReadHead, LocalType
    <3>4. \A x \in Procs \ {c} : pc'[x] = pc[x]
      BY <1>14 DEF DeqReadHead, LocalType, Goto
    <3>5. \A d \in Comsumers \ {c} : len'[d] = len[d]
      BY <1>14 DEF DeqReadHead, LocalType
    <3>6. UNCHANGED <<lh, lt, msg, buf>>
      BY <1>14 DEF DeqReadHead
    <3> QED BY <3>1, <3>2, <3>3, <3>4, <3>5, <3>6 DEF LocalsOK, Sending, Copying, Reading, Procs
  <2> QED BY <2>1, <2>2, <2>3, <2>4
<1>15. ASSUME NEW c \in Comsumers, DeqReadData(c)
      PROVE  (ShmType /\ LocalType /\ HistType /\ LocalsOK)'
  <2>1. ShmType'
    BY <1>15, SizeAssumption DEF DeqReadData, ShmType, LocalType, shm
  <2>2. LocalType' /\ Len(buf'[c]) = len[c] - 3
    <3>1. lh[c] \in 0..BlockSize /\ len[c] \in 4..UsedLen(lh[c], lt[c])
      BY <1>15 DEF DeqReadData, LocalsOK, Reading
    <3>2. lt[c] \in 0..BlockSize /\ lh[c] # lt[c]
      BY <1>15 DEF DeqReadData, LocalsOK, Reading
    <3>3. len[c] \in 4..BlockSize
      BY <3>1, <3>2, HeaderLen, SizeAssumption
    <3>4. DataPos(lh[c]) \in 0..BlockSize
      BY <3>1, SizeAssumption DEF DataPos, Fold, C_SAFE_AREA_LEN, C_HEAD_SIZE
    <3>5. \A i \in 1..(len[c] - 3) : block[Index(DataPos(lh[c]) + i - 1)] \in Words
      <4>1. \A d \in 0..BlockSize : \A l \in 4..BlockSize : \A i \in 1..(l - 3) :
                Index(d + i - 1) \in 0..(BlockSize - 1)
        BY SizeAssumption DEF Index
      <4>2. \A i \in 1..(len[c] - 3) : Index(DataPos(lh[c]) + i - 1) \in 0..(BlockSize - 1)
        BY <3>3, <3>4, <4>1
      <4> QED BY <4>2 DEF ShmType
    <3> DEFINE b == [i \in 1..(len[c] - 3) |-> block[Index(DataPos(lh[c]) + i - 1)]]
    <3>6. b \in Seq(Words) /\ Len(b) = len[c] - 3
      BY <3>3, <3>5
    <3>7. buf' = [buf EXCEPT ![c] = b]
      BY <1>15 DEF DeqReadData, C_SAFE_AREA_LEN, C_HEAD_SIZE
    <3> HIDE DEF b
    <3>8. buf' \in [Comsumers -> Seq(Words)] /\ Len(buf'[c]) = len[c] - 3
      BY <3>6, <3>7 DEF LocalType
    <3>9. pc' \in [Procs -> Labels]
      BY <1>15 DEF DeqReadData, LocalType, Goto, Labels
    <3> QED BY <1>15, <3>8, <3>9 DEF DeqReadData, LocalType
  <2>3. HistType'
    BY <1>15, SizeAssumption DEF DeqReadData, HistType, hist, Bounds
  <2>4. LocalsOK'
    <3>1. pc'[c] = "store_head" /\ \A x \in Procs \ {c} : pc'[x] = pc[x]
      BY <1>15 DEF DeqReadData, LocalType, Goto, Procs
    <3>2. \A d \in Comsumers \ {c} : buf'[d] = buf[d]
      BY <1>15 DEF DeqReadData, LocalType
    <3>3. UNCHANGED <<lh, lt, msg, len>> /\ c \notin Producers
      BY <1>15, ProcsAssumption DEF DeqReadData
    <3>4. pc[c] = "read_data"
      BY <1>15 DEF DeqReadData
    <3> QED BY <2>2, <3>1, <3>2, <3>3, <3>4 DEF LocalsOK, Sending, Copying, Reading, Procs
  <2> QED BY <2>1, <2>2, <2>3, <2>4
<1>16. ASSUME NEW c \in Comsumers, DeqStoreHead(c)
      PROVE  (ShmType /\ LocalType /\ HistType /\ LocalsOK)'
  <2>1. ShmType'
    <3>1. lh[c] \in 0..BlockSize /\ len[c] \in 4..UsedLen(lh[c], lt[c])
      BY <1>16 DEF DeqStoreHead, LocalsOK, Reading
    <3>2. lt[c] \in 0..BlockSize /\ lh[c] # lt[c]
      BY <1>16 DEF DeqStoreHead, LocalsOK, Reading
    <3>3. len[c] \in 4..BlockSize
      BY <3>1, <3>2, HeaderLen, SizeAssumption
    <3>4. DataPos(lh[c]) \in 0..BlockSize
      BY <3>1, SizeAssumption DEF DataPos, Fold, C_SAFE_AREA_LEN, C_HEAD_SIZE
    <3>5. NextHead(lh[c], len[c]) \in 0..BlockSize
      BY <3>3, <3>4, SizeAssumption DEF NextHead, Fold, C_SAFE_AREA_LEN, C_HEAD_SIZE
    <3>6. head' \in 0..(WordMod - 1)
      BY <1>16, <3>5, SizeAssumption DEF DeqStoreHead
    <3> QED BY <1>16, <3>6 DEF DeqStoreHead, ShmType
  <2>2. LocalType'
    <3>1. pc' \in [Procs -> Labels] /\ lock' \in [Sides -> Procs \cup {None}]
      BY <1>16, FlowType DEF DeqStoreHead, Procs, Labels
    <3> QED BY <1>16, <3>1 DEF DeqStoreHead, LocalType
  <2>3. HistType'
    <3>1. Payload(buf[c]) \in Messages \cup {None}
      <4>1. buf[c] \in Seq(Words) /\ Len(buf[c]) = len[c] - 3
        BY <1>16 DEF DeqStoreHead, LocalType, LocalsOK
      <4>2. len[c] \in Nat /\ len[c] >= 4
        BY <1>16 DEF DeqStoreHead, LocalsOK, LocalType
      <4> QED BY <4>1, <4>2, PayloadType
    <3>2. got' \in Seq(Messages \cup {None})
      BY <1>16, <3>1, SMTT(30) DEF DeqStoreHead, HistType
    <3>3. taken' \in 0..Len(sent)
      BY <1>16 DEF DeqStoreHead, HistType
    <3> QED BY <1>16, <3>2, <3>3 DEF DeqStoreHead, HistType, Bounds
  <2>4. LocalsOK'
    BY <1>16, SizeAssumption, ZenonT(30) DEF DeqStoreHead, LocalType, LocalsOK, Goto, Procs,
       Sending, Copying, Reading
  <2> QED BY <2>1, <2>2, <2>3, <2>4
<1>17. ASSUME NEW c \in Comsumers, DeqRecheck(c)
      PROVE  (ShmType /\ LocalType /\ HistType /\ LocalsOK)'
  <2>1. ShmType'
    BY <1>17, SizeAssumption DEF DeqRecheck, ShmType, LocalType, shm
  <2>2. LocalType'
    <3>1. pc' \in [Procs -> Labels] /\ lock' \in [Sides -> Procs \cup {None}]
      BY <1>17, FlowType DEF DeqRecheck, Procs, Labels
    <3> QED BY <1>17, <3>1 DEF DeqRecheck, LocalType
  <2>3. HistType'
    BY <1>17, SizeAssumption DEF DeqRecheck, HistType, hist, Bounds
  <2>4. LocalsOK'
    BY <1>17, SizeAssumption DEF DeqRecheck, LocalType, LocalsOK, Goto, Return,
       CheckFail, Procs, Sending, Copying, Reading
  <2> QED BY <2>1, <2>2, <2>3, <2>4
<1>18. ASSUME NEW c \in Comsumers, Wake(c)
      PROVE  (ShmType /\ LocalType /\ HistType /\ LocalsOK)'
  <2>1. ShmType'
    BY <1>18, SizeAssumption DEF Wake, ShmType, LocalType, shm
  <2>2. LocalType'
    BY <1>18, SizeAssumption DEF Wake, LocalType, ShmType, Goto, Side, Sides, Labels, Procs
  <2>3. HistType'
    BY <1>18, SizeAssumption DEF Wake, HistType, hist, Bounds
  <2>4. LocalsOK'
    BY <1>18, SizeAssumption DEF Wake, LocalType, LocalsOK, Goto, Procs, Sending,
       Copying, Reading
  <2> QED BY <2>1, <2>2, <2>3, <2>4
<1>19. ASSUME NEW x \in Procs, ClearHead(x)
      PROVE  (ShmType /\ LocalType /\ HistType /\ LocalsOK)'
  <2>1. ShmType'
    BY <1>19, SizeAssumption DEF ClearHead, ShmType, LocalType, shm
  <2>2. LocalType'
    BY <1>19, SizeAssumption DEF ClearHead, LocalType, ShmType, Goto, Side, Sides,
       Labels, Procs
  <2>3. HistType'
    BY <1>19, SizeAssumption DEF ClearHead, HistType, hist, Bounds
  <2>4. LocalsOK'
    BY <1>19, SizeAssumption DEF ClearHead, LocalType, LocalsOK, Goto, Procs, Sending,
       Copying, Reading
  <2> QED BY <2>1, <2>2, <2>3, <2>4
<1>20. ASSUME NEW x \in Procs, ClearTail(x)
      PROVE  (ShmType /\ LocalType /\ HistType /\ LocalsOK)'
  <2>1. ShmType'
    BY <1>20, SizeAssumption DEF ClearTail, ShmType, LocalType, shm
  <2>2. LocalType'
    BY <1>20, SizeAssumption DEF ClearTail, LocalType, ShmType, Goto, Side, Sides,
       Labels, Procs
  <2>3. HistType'
    BY <1>20, SizeAssumption DEF ClearTail, HistType, hist, Bounds
  <2>4. LocalsOK'
    BY <1>20, SizeAssumption DEF ClearTail, LocalType, LocalsOK, Goto, Procs, Sending,
       Copying, Reading
  <2> QED BY <2>1, <2>2, <2>3, <2>4
<1>21. ASSUME NEW x \in Procs, ClearCount(x)
      PROVE  (ShmType /\ LocalType /\ HistType /\ LocalsOK)'
  <2>1. ShmType'
    BY <1>21, SizeAssumption DEF ClearCount, ShmType, LocalType, shm
  <2>2. LocalType'
    BY <1>21, SizeAssumption DEF ClearCount, LocalType, ShmType, Goto, Return, Release,
       Side, Sides, Labels, Procs
  <2>3. HistType'
    BY <1>21, SizeAssumption DEF ClearCount, HistType, hist, Bounds
  <2>4. LocalsOK'
    BY <1>21, SizeAssumption DEF ClearCount, LocalType, LocalsOK, Goto, Return, Procs,
       Sending, Copying, Reading
  <2> QED BY <2>1, <2>2, <2>3, <2>4
<1>22. ASSUME NEW x \in Procs, Crash(x)
      PROVE  (ShmType /\ LocalType /\ HistType /\ LocalsOK)'
  <2>1. ShmType'
    BY <1>22, SizeAssumption DEF Crash, ShmType, LocalType, shm
  <2>2. LocalType'
    BY <1>22, SizeAssumption DEF Crash, LocalType, ShmType, Goto, Release, Side, Sides,
       Labels, Procs
  <2>3. HistType'
    BY <1>22, SizeAssumption DEF Crash, HistType, hist, Bounds
  <2>4. LocalsOK'
    BY <1>22, SizeAssumption DEF Crash, LocalType, LocalsOK, Goto, Procs, Sending,
       Copying, Reading
  <2> QED BY <2>1, <2>2, <2>3, <2>4
<1>23. ASSUME NEW x \in Procs, Restart(x)
      PROVE  (ShmType /\ LocalType /\ HistType /\ LocalsOK)'
  <2>1. ShmType'
    BY <1>23, SizeAssumption DEF Restart, ShmType, LocalType, shm
  <2>2. LocalType'
    BY <1>23, SizeAssumption DEF Restart, LocalType, ShmType, Goto, Side, Sides,
       Labels, Procs
  <2>3. HistType'
    BY <1>23, SizeAssumption DEF Restart, HistType, hist, Bounds
  <2>4. LocalsOK'
    BY <1>23, SizeAssumption DEF Restart, LocalType, LocalsOK, Goto, Procs, Sending,
       Copying, Reading
  <2> QED BY <2>1, <2>2, <2>3, <2>4
<1>24. CASE UNCHANGED vars
  BY <1>24 DEF vars, shm, local, hist, ShmType, LocalType, HistType, LocalsOK
<1> QED BY <1>1, <1>2, <1>3, <1>4, <1>5, <1>6, <1>7, <1>8, <1>9, <1>10, <1>11, <1>12, <1>13, <1>14, <1>15, <1>16, <1>17, <1>18, <1>19, <1>20, <1>21, <1>22, <1>23, <1>24 DEF NextRestart, Next, Enqueue, Dequeue, Clear


(***************************************************************************)
(* Positions stay words, the ring holds words, and the locals of a call    *)
(* what its checks established, however calls, kills of workers and        *)
(* restarts of the proxy interleave.                                       *)
(***************************************************************************)
THEOREM Typing == SpecRestart => []TypeOK
<1>1. Init => TypeInv
  BY InitTypeInv
<1>2. TypeInv /\ [NextRestart]_vars => TypeInv'
  BY NextTypeInv
<1>3. TypeInv => TypeOK
  BY DEF TypeInv
<1> QED BY <1>1, <1>2, <1>3, PTL DEF SpecRestart

(***************************************************************************)
(* The ring as a window on the stream of published words.                  *)
(***************************************************************************)
ReadPos == IF taken < Len(sent) THEN sent[taken + 1].at ELSE StreamEnd
Depth   == StreamEnd - ReadPos

\* Frames follow one another in the stream.
Stream ==
    /\ \A i \in 1..Len(sent) : sent[i].at + Total(sent[i]) <= StreamEnd
    /\ \A i, j \in 1..Len(sent) :
           i < j => sent[i].at + Total(sent[i]) <= sent[j].at
    /\ \A i \in 1..Len(sent) : i + 1 \in 1..Len(sent) =>
           sent[i + 1].at = sent[i].at + Total(sent[i])

\* The window never fills the ring, so equal positions mean an empty queue.
Ring ==
    /\ head \in 0..BlockSize
    /\ Depth \in 0..(BlockSize - 1)
    /\ tail = Fold(head + Depth)

\* One process per side is inside a call, and no call is on an error path.
Inside  == Sending \cup {"deq_head", "deq_tail"} \cup Reading
Calls ==
    /\ \A p \in Producers : pc[p] \in {"idle"} \cup Sending
    /\ \A c \in Comsumers :
           pc[c] \in {"idle", "wait", "lock", "deq_head", "deq_tail"} \cup Reading
    /\ \A x \in Locked : pc[x] \in Inside => lock[Side(x)] = x

\* A producer knows its place in the stream.  The head it loaded may be old: the
\* ring it believes in is at least as full as the real one.
ProducerInv ==
    \A p \in Producers :
        /\ pc[p] \in {"enq_head", "enq_tail"} \cup Copying => msg[p].at = StreamEnd
        /\ pc[p] = "enq_tail" =>
               /\ lh[p] \in 0..BlockSize
               /\ \E e \in Depth..(BlockSize - 1) : tail = Fold(lh[p] + e)
        /\ pc[p] \in Copying => lt[p] = tail /\ Total(msg[p]) < BlockSize - Depth
        /\ pc[p] \in {"copy_data", "store_tail"} =>
               \A k \in 0..2 : block[Index(tail + k)] = [m |-> msg[p], k |-> k]
        /\ pc[p] = "store_tail" =>
               \A k \in 3..(Total(msg[p]) - 1) :
                   block[Index(tail + k)] = [m |-> msg[p], k |-> k]

\* A comsumer reads the oldest pending frame.  The tail it loaded may be old, and
\* still takes in the whole of that frame.
ComsumerInv ==
    \A c \in Comsumers :
        /\ pc[c] \in {"deq_tail"} \cup Reading => lh[c] = head
        /\ pc[c] \in Reading =>
               /\ taken < Len(sent)
               /\ \E e \in Total(sent[taken + 1])..Depth : lt[c] = Fold(head + e)
        /\ pc[c] \in {"read_data", "store_head"} =>
               len[c] = Total(sent[taken + 1])
        /\ pc[c] = "store_head" =>
               \A i \in 1..(len[c] - 3) :
                   buf[c][i] = [m |-> sent[taken + 1], k |-> i + 2]

Delivered == Len(got) = taken /\ \A i \in 1..taken : got[i] = sent[i]

IInv == /\ TypeInv /\ Stream /\ Ring /\ Calls /\ ProducerInv /\ ComsumerInv
        /\ RingIntact /\ Delivered

(***************************************************************************)
(* Arithmetic of positions, with h the head, d the words in the ring and o *)
(* an offset from the head.                                                *)
(***************************************************************************)
LEMMA UsedIsDepth ==
    ASSUME NEW h \in 0..BlockSize, NEW d \in 0..(BlockSize - 1)
    PROVE  /\ Fold(h + d) \in 0..BlockSize
           /\ (h = Fold(h + d)) <=> (d = 0)
           /\ d # 0 => UsedLen(h, Fold(h + d)) = d
           /\ FreeLen(h, Fold(h + d)) = BlockSize - d
BY SizeAssumption DEF Fold, UsedLen, FreeLen

\* A word in the ring is further from the tail than the free space reaches.
LEMMA OffsetOutside ==
    ASSUME NEW h \in 0..BlockSize, NEW d \in 0..(BlockSize - 1), NEW o \in 0..(d - 1)
    PROVE  /\ Index(h + o) \in 0..(BlockSize - 1)
           /\ Offset(Fold(h + d), Index(h + o)) = o + BlockSize - d
BY SizeAssumption DEF Fold, Index, Offset

\* The k-th word laid at the tail has offset k.
LEMMA OffsetInside ==
    ASSUME NEW t \in 0..BlockSize, NEW k \in 0..(BlockSize - 1)
    PROVE  Index(t + k) \in 0..(BlockSize - 1) /\ Offset(t, Index(t + k)) = k
BY SizeAssumption DEF Index, Offset

\* Folding a position does not change its slot.
LEMMA IndexFold ==
    ASSUME NEW h \in 0..BlockSize, NEW d \in Nat, NEW o \in Nat,
           d + o < BlockSize
    PROVE  Index(Fold(h + d) + o) = Index(h + d + o)
BY SizeAssumption DEF Index, Fold

\* A word of a frame that fits behind d words in use is in the ring.
LEMMA InFreeSpace ==
    ASSUME NEW d \in 0..(BlockSize - 1), NEW t \in Nat, t < BlockSize - d, NEW o \in 0..(t - 1)
    PROVE  d \in Nat /\ o \in Nat /\ d + o < BlockSize
BY SizeAssumption

\* Folding twice is folding the sum.
LEMMA FoldFold ==
    ASSUME NEW h \in 0..BlockSize, NEW d \in Nat, NEW e \in Nat,
           d + e < BlockSize
    PROVE  Fold(Fold(h + d) + e) = Fold(h + d + e)
BY SizeAssumption DEF Fold

\* Sums of positions, regrouped for the solver.
LEMMA Regroup ==
    ASSUME NEW a \in Int, NEW b \in Int, NEW c \in Int, NEW d \in Int
    PROVE  /\ a + b - c + d = a + (b - c + d)
           /\ a + b + c = a + (b + c)
           /\ a + b + (c - b) = a + c
OBVIOUS

\* The k-th word of a frame at a, in a window of d words that starts at r with a
\* frame of t words, as an offset from the next frame.
LEMMA InnerOffset ==
    ASSUME NEW h \in Int, NEW r \in Nat, NEW t \in Nat, NEW a \in Nat, NEW f \in Nat,
           NEW d \in 0..(BlockSize - 1), NEW k \in 0..(f - 1),
           a >= r + t, a - r + f <= d
    PROVE  /\ a - (r + t) + k \in Nat
           /\ t + (a - (r + t) + k) < BlockSize
           /\ h + t + (a - (r + t) + k) = h + a - r + k
BY SizeAssumption

\* The two copies of enqueue leave the words in the ring alone ...
LEMMA CopyOutside ==
    ASSUME NEW b, NEW m, Total(m) \in Nat, Total(m) >= 4, NEW h \in 0..BlockSize,
           NEW d \in Nat, d + Total(m) < BlockSize, NEW o \in 0..(d - 1)
    PROVE  /\ CopyHead(b, Fold(h + d), m)[Index(h + o)] = b[Index(h + o)]
           /\ CopyData(b, Fold(h + d), m)[Index(h + o)] = b[Index(h + o)]
<1>1. d \in 0..(BlockSize - 1)
  BY SizeAssumption
<1>2. /\ Index(h + o) \in 0..(BlockSize - 1)
      /\ Offset(Fold(h + d), Index(h + o)) = o + BlockSize - d
  BY <1>1, OffsetOutside
<1>3. o + BlockSize - d > Total(m)
  BY SizeAssumption
<1> QED BY <1>2, <1>3, SizeAssumption DEF CopyHead, CopyData, C_HEAD_SIZE, C_SAFE_AREA_LEN

\* ... and lay the frame at the tail, first the header and then the rest.
LEMMA HeadInside ==
    ASSUME NEW b, NEW m, Total(m) \in Nat, NEW t \in 0..BlockSize,
           NEW k \in Nat, k < 3
    PROVE  CopyHead(b, t, m)[Index(t + k)] = [m |-> m, k |-> k]
<1>1. k \in 0..(BlockSize - 1)
  BY SizeAssumption
<1>2. Index(t + k) \in 0..(BlockSize - 1) /\ Offset(t, Index(t + k)) = k
  BY <1>1, OffsetInside
<1> QED BY <1>2 DEF CopyHead, C_HEAD_SIZE, C_SAFE_AREA_LEN

\* The second copy leaves the header alone.
LEMMA HeadKept ==
    ASSUME NEW b, NEW m, Total(m) \in Nat, NEW t \in 0..BlockSize,
           NEW k \in Nat, k < 3
    PROVE  CopyData(b, t, m)[Index(t + k)] = b[Index(t + k)]
<1>1. k \in 0..(BlockSize - 1)
  BY SizeAssumption
<1>2. Index(t + k) \in 0..(BlockSize - 1) /\ Offset(t, Index(t + k)) = k
  BY <1>1, OffsetInside
<1> QED BY <1>2 DEF CopyData, C_HEAD_SIZE, C_SAFE_AREA_LEN

\* The second copy lays the data and the trailing safe area.
LEMMA DataInside ==
    ASSUME NEW b, NEW m, Total(m) \in Nat, Total(m) < BlockSize,
           NEW t \in 0..BlockSize, NEW k \in 3..(Total(m) - 1)
    PROVE  CopyData(b, t, m)[Index(t + k)] = [m |-> m, k |-> k]
<1>1. k \in 0..(BlockSize - 1)
  BY SizeAssumption
<1>2. Index(t + k) \in 0..(BlockSize - 1) /\ Offset(t, Index(t + k)) = k
  BY <1>1, OffsetInside
<1> QED BY <1>2 DEF CopyData, C_HEAD_SIZE, C_SAFE_AREA_LEN

\* A position that did not overflow is its own remainder.
LEMMA ModSmall ==
    ASSUME NEW x \in 0..(WordMod - 1)
    PROVE  x % WordMod = x /\ (x + WordMod) % WordMod = x
BY SizeAssumption

\* All three cases of enqueue put the tail one frame on.
LEMMA NextTailFold ==
    ASSUME NEW m \in Messages, tail \in 0..BlockSize, Total(m) < BlockSize
    PROVE  NextTail(tail, tail, m) = Fold(tail + Total(m))
<1>1. Total(m) \in Nat /\ Total(m) >= 4
  BY TotalType
<1>2. CASE BlockSize - tail >= Total(m)
  <2>1. (tail + Total(m)) % WordMod = tail + Total(m)
    BY <1>1, <1>2, ModSmall, SizeAssumption
  <2> QED BY <1>1, <1>2, <2>1, SizeAssumption DEF NextTail, Fold
<1>3. CASE BlockSize - tail < Total(m) /\ BlockSize - tail >= 3
  <2>1. tail + Total(m) - BlockSize \in 0..(WordMod - 1)
    BY <1>1, <1>3, SizeAssumption
  <2>2. (tail + Total(m) - BlockSize + WordMod) % WordMod = tail + Total(m) - BlockSize
    BY <2>1, ModSmall
  <2>3. tail + WordMod + Total(m) - BlockSize = tail + Total(m) - BlockSize + WordMod
    BY <1>1, SizeAssumption
  <2> QED BY <1>1, <1>3, <2>2, <2>3, SizeAssumption
          DEF NextTail, Fold, C_HEAD_SIZE, C_SAFE_AREA_LEN
<1>4. CASE BlockSize - tail < Total(m) /\ BlockSize - tail < 3
  BY <1>1, <1>4, SizeAssumption DEF NextTail, Fold, C_HEAD_SIZE, C_SAFE_AREA_LEN
<1> QED BY <1>1, <1>2, <1>3, <1>4, SizeAssumption

\* Header and data, folded one after the other, put the head one frame on.
LEMMA NextHeadFold ==
    ASSUME NEW h \in 0..BlockSize, NEW n \in 4..(BlockSize - 1)
    PROVE  /\ NextHead(h, n) = Fold(h + n)
           /\ \A i \in 0..(n - 4) : Index(DataPos(h) + i) = Index(h + 3 + i)
BY SizeAssumption DEF NextHead, DataPos, Fold, Index, C_HEAD_SIZE, C_SAFE_AREA_LEN

\* A frame that fits what the comsumer saw leaves the head in the ring.
LEMMA HeadBound ==
    ASSUME NEW h \in 0..BlockSize, NEW n \in Nat, n >= 4, n <= BlockSize
    PROVE  NextHead(h, n) <= BlockSize
BY SizeAssumption DEF NextHead, DataPos, Fold, C_HEAD_SIZE, C_SAFE_AREA_LEN

\* What the invariant says of the window of words between head and tail.
LEMMA WindowFacts ==
    ASSUME HistType, Stream, Depth \in Int
    PROVE  /\ StreamEnd \in Nat /\ ReadPos \in Nat
           /\ \A i \in 1..Len(sent) : /\ sent[i] \in Messages
                                      /\ sent[i].at \in Nat
                                      /\ Total(sent[i]) \in Nat /\ Total(sent[i]) >= 4
           /\ \A i \in (taken + 1)..Len(sent) :
                  /\ i \in 1..Len(sent) /\ taken < Len(sent)
                  /\ ReadPos = sent[taken + 1].at
                  /\ sent[i].at - ReadPos \in Nat
                  /\ sent[i].at - ReadPos + Total(sent[i]) <= Depth
           /\ taken < Len(sent) => Total(sent[taken + 1]) <= Depth
           /\ taken = Len(sent) => Depth = 0
<1>1. Len(sent) \in Nat /\ taken \in 0..Len(sent)
  BY DEF HistType
<1>2. \A i \in 1..Len(sent) : /\ sent[i] \in Messages
                              /\ sent[i].at \in Nat
                              /\ Total(sent[i]) \in Nat /\ Total(sent[i]) >= 4
  BY TotalType DEF HistType
<1>3. StreamEnd \in Nat
  <2>1. CASE sent = <<>>
    BY <2>1 DEF StreamEnd
  <2>2. CASE sent # <<>>
    <3>1. Len(sent) \in 1..Len(sent)
      BY <2>2 DEF HistType
    <3> QED BY <1>2, <2>2, <3>1 DEF StreamEnd
  <2> QED BY <2>1, <2>2
<1>4. ReadPos \in Nat
  BY <1>1, <1>2, <1>3 DEF ReadPos
<1>5. ASSUME NEW i \in (taken + 1)..Len(sent)
      PROVE  /\ i \in 1..Len(sent) /\ taken < Len(sent) /\ taken + 1 \in 1..Len(sent)
             /\ ReadPos = sent[taken + 1].at
             /\ sent[i].at - ReadPos \in Nat
             /\ sent[i].at - ReadPos + Total(sent[i]) <= Depth
  <2>1. i \in 1..Len(sent) /\ taken < Len(sent) /\ taken + 1 \in 1..Len(sent)
    BY <1>1
  <2>2. ReadPos = sent[taken + 1].at
    BY <2>1 DEF ReadPos
  <2>3. sent[i].at >= sent[taken + 1].at
    <3>1. CASE i = taken + 1
      BY <1>2, <2>1, <3>1
    <3>2. CASE taken + 1 < i
      BY <1>1, <1>2, <2>1, <3>2 DEF Stream
    <3> QED BY <1>1, <3>1, <3>2
  <2>4. sent[i].at + Total(sent[i]) <= StreamEnd
    BY <2>1 DEF Stream
  <2> QED BY <1>2, <1>3, <2>1, <2>2, <2>3, <2>4, SMTT(30) DEF Depth
<1>6. taken < Len(sent) => Total(sent[taken + 1]) <= Depth
  <2> SUFFICES ASSUME taken < Len(sent) PROVE Total(sent[taken + 1]) <= Depth
    OBVIOUS
  <2>1. taken + 1 \in (taken + 1)..Len(sent)
    BY <1>1
  <2>2. sent[taken + 1].at - ReadPos + Total(sent[taken + 1]) <= Depth
    BY <1>5, <2>1
  <2>3. sent[taken + 1].at - ReadPos = 0 /\ Total(sent[taken + 1]) \in Nat
    BY <1>2, <1>5, <2>1
  <2> QED BY <2>2, <2>3
<1>7. taken = Len(sent) => Depth = 0
  BY <1>1, <1>3 DEF ReadPos, Depth
<1> QED BY <1>2, <1>3, <1>4, <1>5, <1>6, <1>7

\* Mutual exclusion on each side.
LEMMA OneProducer ==
    ASSUME Calls, NEW p \in Producers, NEW q \in Producers, p # q, pc[p] \in Sending
    PROVE  pc[q] = "idle"
<1>1. p \in Locked /\ q \in Locked
  BY ProcsAssumption
<1>2. Side(p) = "producer" /\ Side(q) = "producer"
  BY DEF Side
<1> QED BY <1>1, <1>2 DEF Calls, Inside

\* At most one comsumer is inside dequeue.
LEMMA OneComsumer ==
    ASSUME Calls, NEW c \in Comsumers, NEW d \in Comsumers, c # d,
           pc[c] \in {"deq_head", "deq_tail"} \cup Reading
    PROVE  pc[d] \in {"idle", "wait", "lock"}
<1>1. c \in Locked /\ d \in Locked
  BY ProcsAssumption
<1>2. Side(c) = "comsumer" /\ Side(d) = "comsumer"
  BY ProcsAssumption DEF Side
<1> QED BY <1>1, <1>2 DEF Calls, Inside

\* A step that leaves the positions and the history alone keeps what is said of
\* them; if it also keeps the words in the window, the ring stays intact.
LEMMA WindowKept ==
    ASSUME Stream, Ring, Delivered, UNCHANGED <<head, tail, sent, taken, got>>
    PROVE  /\ StreamEnd' = StreamEnd /\ Depth' = Depth
           /\ Stream' /\ Ring' /\ Delivered'
<1>1. StreamEnd' = StreamEnd
  BY DEF StreamEnd
<1>2. ReadPos' = ReadPos
  BY <1>1 DEF ReadPos
<1>3. Depth' = Depth
  BY <1>1, <1>2 DEF Depth
<1> QED BY <1>1, <1>3 DEF Stream, Ring, Delivered

\* A step that keeps the words of the window keeps RingIntact.
LEMMA RingKept ==
    ASSUME HistType, Stream, Ring, RingIntact, UNCHANGED <<head, sent, taken>>,
           \A o \in 0..(Depth - 1) : block'[Index(head + o)] = block[Index(head + o)]
    PROVE  RingIntact'
<1> SUFFICES ASSUME NEW i \in (taken + 1)..Len(sent), NEW k \in 0..(Total(sent[i]) - 1)
             PROVE  block'[Index(head + sent[i].at - sent[taken + 1].at + k)]
                        = [m |-> sent[i], k |-> k]
  BY DEF RingIntact
<1>1. /\ ReadPos = sent[taken + 1].at /\ sent[i].at - ReadPos \in Nat
      /\ sent[i].at - ReadPos + Total(sent[i]) <= Depth /\ Depth \in Nat
      /\ ReadPos \in Nat /\ sent[i].at \in Nat /\ Total(sent[i]) \in Nat
  <2>1. Depth \in Int /\ Depth \in Nat
    BY SizeAssumption DEF Ring
  <2>2. i \in 1..Len(sent)
    BY <2>1, WindowFacts
  <2> QED BY <2>1, <2>2, WindowFacts
<1> DEFINE o == sent[i].at - ReadPos + k
<1>2. o \in 0..(Depth - 1)
  BY <1>1, SMTT(30)
<1>3. head + sent[i].at - sent[taken + 1].at + k = head + o
  <2>1. head \in Int /\ k \in Int /\ sent[i].at \in Int /\ ReadPos \in Int
    BY <1>1, SizeAssumption, SMTT(30) DEF Ring
  <2> QED BY <1>1, <2>1, Regroup
<1>4. block[Index(head + o)] = [m |-> sent[i], k |-> k]
  BY <1>3 DEF RingIntact
<1> QED BY <1>2, <1>3, <1>4

\* What a call of one side leaves alone of the other.
LEMMA ProducersKept ==
    ASSUME ProducerInv, UNCHANGED <<tail, block, msg>>, StreamEnd' = StreamEnd, Depth' = Depth,
           \A p \in Producers : pc'[p] = pc[p] /\ lh'[p] = lh[p] /\ lt'[p] = lt[p]
    PROVE  ProducerInv'
BY DEF ProducerInv

\* A step of a producer leaves the comsumers alone.
LEMMA ComsumersKept ==
    ASSUME ComsumerInv, UNCHANGED <<head, sent, taken, len, buf>>, Depth' = Depth,
           \A c \in Comsumers : pc'[c] = pc[c] /\ lh'[c] = lh[c] /\ lt'[c] = lt[c]
    PROVE  ComsumerInv'
BY DEF ComsumerInv

\* A call that returns keeps mutual exclusion.
LEMMA CallsReturn ==
    ASSUME LocalType, Calls, NEW x \in Procs, Return(x)
    PROVE  Calls'
BY ProcsAssumption DEF LocalType, Calls, Goto, Return, Release, Side, Sides, Procs,
   Inside, Sending, Reading

\* The n-th word of the frame at the head of a queue that is not empty.
LEMMA FirstFrame ==
    ASSUME HistType, Stream, Ring, RingIntact, taken < Len(sent)
    PROVE  /\ sent[taken + 1] \in Messages
           /\ Total(sent[taken + 1]) \in 4..Depth
           /\ \A k \in 0..(Total(sent[taken + 1]) - 1) :
                  block[Index(head + k)] = [m |-> sent[taken + 1], k |-> k]
<1> DEFINE m == sent[taken + 1]
<1>1. /\ taken + 1 \in (taken + 1)..Len(sent) /\ m \in Messages
      /\ Total(m) \in Nat /\ Total(m) >= 4 /\ Total(m) <= Depth
      /\ Depth \in Nat /\ head \in Nat /\ m.at \in Nat
  BY WindowFacts DEF HistType, Ring
<1>2. ASSUME NEW k \in 0..(Total(m) - 1)
      PROVE  block[Index(head + k)] = [m |-> m, k |-> k]
  <2>1. block[Index(head + m.at - m.at + k)] = [m |-> m, k |-> k]
    BY <1>1 DEF RingIntact
  <2>2. head + m.at - m.at + k = head + k
    BY <1>1
  <2> QED BY <2>1, <2>2
<1> QED BY <1>1, <1>2

\* Every step of the queue in service, kills included, keeps the invariant.
LEMMA NextIInv == IInv /\ [Next]_vars => IInv'
<1> SUFFICES ASSUME TypeInv, Stream, Ring, Calls, ProducerInv, ComsumerInv, RingIntact,
                    Delivered, [Next]_vars
             PROVE  IInv'
  BY DEF IInv
<1> USE DEF TypeInv, TypeOK
<1>0. TypeInv'
  BY NextTypeInv DEF NextRestart
<1>1. ASSUME NEW p \in Producers, NEW n \in Lens, Produce(p, n) PROVE IInv'
  <2>1. UNCHANGED <<head, tail, block, sent, taken, got>>
    BY <1>1 DEF Produce, shm, hist
  <2>2. /\ StreamEnd' = StreamEnd /\ Depth' = Depth
        /\ Stream' /\ Ring' /\ Delivered' /\ RingIntact'
    BY <2>1, WindowKept, RingKept
  <2>3. Calls'
    BY <1>1, ProcsAssumption DEF Produce, LocalType, Calls, Goto, Acquire, Side, Sides,
       Procs, Inside, Sending, Reading
  <2>4. ProducerInv'
    BY <1>1, <2>1, <2>2, ProcsAssumption DEF Produce, LocalType, ProducerInv, Goto,
       Procs, Sending, Copying
  <2>5. ComsumerInv'
    <3>1. \A c \in Comsumers : pc'[c] = pc[c] /\ lh'[c] = lh[c] /\ lt'[c] = lt[c]
      BY <1>1, ProcsAssumption DEF Produce, LocalType, Procs, Goto
    <3>2. UNCHANGED <<len, buf>>
      BY <1>1 DEF Produce
    <3> QED BY <2>1, <2>2, <3>1, <3>2, ComsumersKept
  <2> QED BY <1>0, <2>2, <2>3, <2>4, <2>5 DEF IInv
<1>2. ASSUME NEW p \in Producers, EnqLoadHead(p) PROVE IInv'
  <2>1. UNCHANGED <<head, tail, block, sent, taken, got>>
    BY <1>2 DEF EnqLoadHead, shm, hist
  <2>2. /\ StreamEnd' = StreamEnd /\ Depth' = Depth
        /\ Stream' /\ Ring' /\ Delivered' /\ RingIntact'
    BY <2>1, WindowKept, RingKept
  <2>3. Calls'
    BY <1>2, ProcsAssumption DEF EnqLoadHead, LocalType, Calls, Goto, Side, Sides,
       Procs, Inside, Sending, Reading
  <2>4. ProducerInv'
    <3>1. pc'[p] = "enq_tail" /\ lh'[p] = head /\ pc[p] = "enq_head"
      BY <1>2 DEF EnqLoadHead, Goto, LocalType, Procs
    <3>2. \A q \in Producers \ {p} : pc'[q] = pc[q] /\ lh'[q] = lh[q]
      BY <1>2 DEF EnqLoadHead, Goto, LocalType, Procs
    <3>3. UNCHANGED <<lt, msg>>
      BY <1>2 DEF EnqLoadHead
    <3>4. head \in 0..BlockSize /\ \E e \in Depth..(BlockSize - 1) : tail = Fold(head + e)
      BY SizeAssumption DEF Ring
    <3> QED BY <2>1, <2>2, <3>1, <3>2, <3>3, <3>4 DEF ProducerInv, Copying
  <2>5. ComsumerInv'
    <3>1. \A c \in Comsumers : pc'[c] = pc[c] /\ lh'[c] = lh[c] /\ lt'[c] = lt[c]
      BY <1>2, ProcsAssumption DEF EnqLoadHead, LocalType, Procs, Goto
    <3>2. UNCHANGED <<len, buf>>
      BY <1>2 DEF EnqLoadHead
    <3> QED BY <2>1, <2>2, <3>1, <3>2, ComsumersKept
  <2> QED BY <1>0, <2>2, <2>3, <2>4, <2>5 DEF IInv
<1>3. ASSUME NEW p \in Producers, EnqLoadTail(p) PROVE IInv'
  <2>1. UNCHANGED <<head, tail, block, sent, taken, got>>
    BY <1>3 DEF EnqLoadTail, shm, hist
  <2>2. /\ StreamEnd' = StreamEnd /\ Depth' = Depth
        /\ Stream' /\ Ring' /\ Delivered' /\ RingIntact'
    BY <2>1, WindowKept, RingKept
  <2>3. Calls'
    <3>1. lh[p] \in 0..BlockSize /\ tail \in 0..BlockSize
      BY <1>3, UsedIsDepth DEF EnqLoadTail, ProducerInv, Ring
    <3>2. Return(p) \/ (Goto(p, "copy_head") /\ UNCHANGED lock)
      BY <1>3, <3>1, SizeAssumption DEF EnqLoadTail, Valid
    <3>3. pc[p] = "enq_tail"
      BY <1>3 DEF EnqLoadTail
    <3>4. CASE Return(p)
      BY <3>4, CallsReturn DEF Procs
    <3>5. CASE Goto(p, "copy_head") /\ UNCHANGED lock
      BY <3>3, <3>5, ProcsAssumption DEF LocalType, Calls, Goto, Procs, Inside, Sending, Reading
    <3> QED BY <3>2, <3>4, <3>5
  <2>4. ProducerInv'
    <3>1. PICK e \in Depth..(BlockSize - 1) : tail = Fold(lh[p] + e)
      BY <1>3 DEF EnqLoadTail, ProducerInv
    <3>2. lh[p] \in 0..BlockSize /\ msg[p] \in Messages /\ msg[p].at = StreamEnd
      BY <1>3 DEF EnqLoadTail, ProducerInv, LocalsOK, Sending
    <3>3. e \in 0..(BlockSize - 1) /\ Depth \in Nat /\ Depth <= e
      BY SizeAssumption DEF Ring
    <3>4. FreeLen(lh[p], tail) = BlockSize - e /\ tail \in 0..BlockSize
      BY <3>1, <3>2, <3>3, UsedIsDepth
    <3>5. pc'[p] = "copy_head" => Total(msg[p]) < BlockSize - Depth
      <4>1. Total(msg[p]) \in Nat
        BY <3>2, TotalType
      <4>2. pc'[p] = "copy_head" => ~(FreeLen(lh[p], tail) <= Total(msg[p]))
        BY <1>3 DEF EnqLoadTail, LocalType, Goto, Return, CheckFail, Procs
      <4> QED BY <3>3, <3>4, <4>1, <4>2, SizeAssumption
    <3>6. pc'[p] \in {"copy_head", "idle", "clear_head"} /\ lt'[p] = tail
      BY <1>3, ProcsAssumption DEF EnqLoadTail, LocalType, Goto, Return, CheckFail, Procs
    <3>7. \A q \in Producers \ {p} : pc'[q] = pc[q] /\ lt'[q] = lt[q]
      BY <1>3 DEF EnqLoadTail, LocalType, Goto, Return, CheckFail, Procs
    <3>8. UNCHANGED <<lh, msg>>
      BY <1>3 DEF EnqLoadTail
    <3> QED BY <2>1, <2>2, <3>2, <3>5, <3>6, <3>7, <3>8 DEF ProducerInv, Copying
  <2>5. ComsumerInv'
    <3>1. \A c \in Comsumers : pc'[c] = pc[c] /\ lh'[c] = lh[c] /\ lt'[c] = lt[c]
      BY <1>3, ProcsAssumption DEF EnqLoadTail, LocalType, Procs, Goto, Return, CheckFail
    <3>2. UNCHANGED <<len, buf>>
      BY <1>3 DEF EnqLoadTail
    <3> QED BY <2>1, <2>2, <3>1, <3>2, ComsumersKept
  <2> QED BY <1>0, <2>2, <2>3, <2>4, <2>5 DEF IInv
<1>4. ASSUME NEW p \in Producers, EnqCount(p) PROVE IInv'
  <2>1. UNCHANGED <<head, tail, block, sent, taken, got>>
    BY <1>4 DEF EnqCount, shm, hist
  <2>2. /\ StreamEnd' = StreamEnd /\ Depth' = Depth
        /\ Stream' /\ Ring' /\ Delivered' /\ RingIntact'
    BY <2>1, WindowKept, RingKept
  <2>3. Calls'
    <3>1. Return(p) \/ (Goto(p, "notify") /\ UNCHANGED lock)
      BY <1>4 DEF EnqCount
    <3>2. pc[p] = "count"
      BY <1>4 DEF EnqCount
    <3>4. CASE Return(p)
      BY <3>4, CallsReturn DEF Procs
    <3>5. CASE Goto(p, "notify") /\ UNCHANGED lock
      BY <3>2, <3>5, ProcsAssumption DEF LocalType, Calls, Goto, Procs, Inside, Sending, Reading
    <3> QED BY <3>1, <3>4, <3>5
  <2>4. ProducerInv'
    BY <1>4, <2>1, <2>2, ProcsAssumption DEF EnqCount, LocalType, ProducerInv, Goto,
       Return, Procs, Sending, Copying
  <2>5. ComsumerInv'
    <3>1. \A c \in Comsumers : pc'[c] = pc[c] /\ lh'[c] = lh[c] /\ lt'[c] = lt[c]
      BY <1>4, ProcsAssumption DEF EnqCount, LocalType, Procs, Goto, Return
    <3>2. UNCHANGED <<len, buf>>
      BY <1>4 DEF EnqCount
    <3> QED BY <2>1, <2>2, <3>1, <3>2, ComsumersKept
  <2> QED BY <1>0, <2>2, <2>3, <2>4, <2>5 DEF IInv
<1>5. ASSUME NEW p \in Producers, Notify(p) PROVE IInv'
  <2>1. UNCHANGED <<head, tail, block, sent, taken, got>>
    BY <1>5 DEF Notify, shm, hist
  <2>2. /\ StreamEnd' = StreamEnd /\ Depth' = Depth
        /\ Stream' /\ Ring' /\ Delivered' /\ RingIntact'
    BY <2>1, WindowKept, RingKept
  <2>3. Calls'
    BY <1>5, ProcsAssumption DEF Notify, LocalType, Calls, Goto, Return, Release, Side,
       Sides, Procs, Inside, Sending, Reading
  <2>4. ProducerInv'
    BY <1>5, <2>1, <2>2, ProcsAssumption DEF Notify, LocalType, ProducerInv, Goto,
       Return, Procs, Sending, Copying
  <2>5. ComsumerInv'
    <3>1. \A c \in Comsumers : pc'[c] = pc[c] /\ lh'[c] = lh[c] /\ lt'[c] = lt[c]
      BY <1>5, ProcsAssumption DEF Notify, LocalType, Procs, Goto, Return
    <3>2. UNCHANGED <<len, buf>>
      BY <1>5 DEF Notify
    <3> QED BY <2>1, <2>2, <3>1, <3>2, ComsumersKept
  <2> QED BY <1>0, <2>2, <2>3, <2>4, <2>5 DEF IInv
<1>6. ASSUME NEW c \in Comsumers, Comsume(c) PROVE IInv'
  <2>1. UNCHANGED <<head, tail, block, sent, taken, got>>
    BY <1>6 DEF Comsume, shm, hist
  <2>2. /\ StreamEnd' = StreamEnd /\ Depth' = Depth
        /\ Stream' /\ Ring' /\ Delivered' /\ RingIntact'
    BY <2>1, WindowKept, RingKept
  <2>3. Calls'
    BY <1>6, ProcsAssumption DEF Comsume, LocalType, Calls, Goto, Side, Sides, Procs,
       Inside, Sending, Reading
  <2>4. ProducerInv'
    <3>1. \A p \in Producers : pc'[p] = pc[p] /\ lh'[p] = lh[p] /\ lt'[p] = lt[p]
      BY <1>6, ProcsAssumption DEF Comsume, LocalType, Procs, Goto
    <3>2. UNCHANGED msg
      BY <1>6 DEF Comsume
    <3> QED BY <2>1, <2>2, <3>1, <3>2, ProducersKept
  <2>5. ComsumerInv'
    BY <1>6, <2>1, <2>2, ProcsAssumption DEF Comsume, LocalType, ComsumerInv, Goto,
       Procs, Reading
  <2> QED BY <1>0, <2>2, <2>3, <2>4, <2>5 DEF IInv
<1>7. ASSUME NEW c \in Comsumers, ComsumeLock(c) PROVE IInv'
  <2>1. UNCHANGED <<head, tail, block, sent, taken, got>>
    BY <1>7 DEF ComsumeLock, shm, hist
  <2>2. /\ StreamEnd' = StreamEnd /\ Depth' = Depth
        /\ Stream' /\ Ring' /\ Delivered' /\ RingIntact'
    BY <2>1, WindowKept, RingKept
  <2>3. Calls'
    BY <1>7, ProcsAssumption DEF ComsumeLock, LocalType, Calls, Goto, Acquire, Side,
       Sides, Procs, Inside, Sending, Reading
  <2>4. ProducerInv'
    <3>1. \A p \in Producers : pc'[p] = pc[p] /\ lh'[p] = lh[p] /\ lt'[p] = lt[p]
      BY <1>7, ProcsAssumption DEF ComsumeLock, LocalType, Procs, Goto
    <3>2. UNCHANGED msg
      BY <1>7 DEF ComsumeLock
    <3> QED BY <2>1, <2>2, <3>1, <3>2, ProducersKept
  <2>5. ComsumerInv'
    BY <1>7, <2>1, <2>2, ProcsAssumption DEF ComsumeLock, LocalType, ComsumerInv, Goto,
       Procs, Reading
  <2> QED BY <1>0, <2>2, <2>3, <2>4, <2>5 DEF IInv
<1>8. ASSUME NEW c \in Comsumers, DeqLoadHead(c) PROVE IInv'
  <2>1. UNCHANGED <<head, tail, block, sent, taken, got>>
    BY <1>8 DEF DeqLoadHead, shm, hist
  <2>2. /\ StreamEnd' = StreamEnd /\ Depth' = Depth
        /\ Stream' /\ Ring' /\ Delivered' /\ RingIntact'
    BY <2>1, WindowKept, RingKept
  <2>3. Calls'
    BY <1>8, ProcsAssumption DEF DeqLoadHead, LocalType, Calls, Goto, Side, Sides,
       Procs, Inside, Sending, Reading
  <2>4. ProducerInv'
    <3>1. \A p \in Producers : pc'[p] = pc[p] /\ lh'[p] = lh[p] /\ lt'[p] = lt[p]
      BY <1>8, ProcsAssumption DEF DeqLoadHead, LocalType, Procs, Goto
    <3>2. UNCHANGED msg
      BY <1>8 DEF DeqLoadHead
    <3> QED BY <2>1, <2>2, <3>1, <3>2, ProducersKept
  <2>5. ComsumerInv'
    BY <1>8, <2>1, <2>2, ProcsAssumption DEF DeqLoadHead, LocalType, ComsumerInv, Goto,
       Procs, Reading
  <2> QED BY <1>0, <2>2, <2>3, <2>4, <2>5 DEF IInv
<1>9. ASSUME NEW c \in Comsumers, DeqLoadTail(c) PROVE IInv'
  <2>1. UNCHANGED <<head, tail, block, sent, taken, got>>
    BY <1>9 DEF DeqLoadTail, shm, hist
  <2>2. /\ StreamEnd' = StreamEnd /\ Depth' = Depth
        /\ Stream' /\ Ring' /\ Delivered' /\ RingIntact'
    BY <2>1, WindowKept, RingKept
  <2>3. Calls'
    <3>1. lh[c] \in 0..BlockSize /\ tail \in 0..BlockSize
      BY <1>9, UsedIsDepth DEF DeqLoadTail, ComsumerInv, Ring
    <3>2. Return(c) \/ (Goto(c, "sub") /\ UNCHANGED lock)
      BY <1>9, <3>1, SizeAssumption DEF DeqLoadTail, Valid
    <3>3. pc[c] = "deq_tail" /\ c \notin Producers
      BY <1>9, ProcsAssumption DEF DeqLoadTail
    <3>4. CASE Return(c)
      BY <3>4, CallsReturn DEF Procs
    <3>5. CASE Goto(c, "sub") /\ UNCHANGED lock
      BY <3>3, <3>5, ProcsAssumption DEF LocalType, Calls, Goto, Procs, Inside, Sending, Reading
    <3> QED BY <3>2, <3>4, <3>5
  <2>4. ProducerInv'
    <3>1. \A p \in Producers : pc'[p] = pc[p] /\ lh'[p] = lh[p] /\ lt'[p] = lt[p]
      BY <1>9, ProcsAssumption DEF DeqLoadTail, LocalType, Procs, Goto, Return, CheckFail
    <3>2. UNCHANGED msg
      BY <1>9 DEF DeqLoadTail
    <3> QED BY <2>1, <2>2, <3>1, <3>2, ProducersKept
  <2>5. ComsumerInv'
    <3>1. lh[c] = head
      BY <1>9 DEF DeqLoadTail, ComsumerInv
    <3>2. pc'[c] \in {"sub", "wait", "clear_head"} /\ lt'[c] = tail
      BY <1>9, ProcsAssumption DEF DeqLoadTail, LocalType, Goto, Return, CheckFail, Procs
    <3>3. pc'[c] = "sub" => head # tail
      BY <1>9, <3>1 DEF DeqLoadTail, LocalType, Goto, Return, CheckFail, Procs
    <3>4. head # tail => Depth # 0
      BY UsedIsDepth DEF Ring
    <3>5. Depth \in Nat /\ Depth \in Int /\ taken \in 0..Len(sent) /\ Len(sent) \in Nat
      BY DEF Ring, HistType
    <3>6. Depth # 0 => taken < Len(sent) /\ Depth \in Total(sent[taken + 1])..Depth
      BY <3>5, WindowFacts
    <3>7. \A d \in Comsumers \ {c} : pc'[d] = pc[d] /\ lt'[d] = lt[d]
      BY <1>9 DEF DeqLoadTail, LocalType, Goto, Return, CheckFail, Procs
    <3>8. UNCHANGED <<lh, len, buf>> /\ tail = Fold(head + Depth)
      BY <1>9 DEF DeqLoadTail, Ring
    <3> QED BY <2>1, <2>2, <3>1, <3>2, <3>3, <3>4, <3>6, <3>7, <3>8 DEF ComsumerInv, Reading
  <2> QED BY <1>0, <2>2, <2>3, <2>4, <2>5 DEF IInv
<1>10. ASSUME NEW c \in Comsumers, DeqSub(c) PROVE IInv'
  <2>1. UNCHANGED <<head, tail, block, sent, taken, got>>
    BY <1>10 DEF DeqSub, shm, hist
  <2>2. /\ StreamEnd' = StreamEnd /\ Depth' = Depth
        /\ Stream' /\ Ring' /\ Delivered' /\ RingIntact'
    BY <2>1, WindowKept, RingKept
  <2>3. Calls'
    BY <1>10, ProcsAssumption DEF DeqSub, LocalType, Calls, Goto, Side, Sides, Procs,
       Inside, Sending, Reading
  <2>4. ProducerInv'
    <3>1. \A p \in Producers : pc'[p] = pc[p] /\ lh'[p] = lh[p] /\ lt'[p] = lt[p]
      BY <1>10, ProcsAssumption DEF DeqSub, LocalType, Procs, Goto
    <3>2. UNCHANGED msg
      BY <1>10 DEF DeqSub
    <3> QED BY <2>1, <2>2, <3>1, <3>2, ProducersKept
  <2>5. ComsumerInv'
    BY <1>10, <2>1, <2>2, ProcsAssumption DEF DeqSub, LocalType, ComsumerInv, Goto,
       Procs, Reading
  <2> QED BY <1>0, <2>2, <2>3, <2>4, <2>5 DEF IInv
<1>11. ASSUME NEW c \in Comsumers, DeqReadHead(c) PROVE IInv'
  <2>1. UNCHANGED <<head, tail, block, sent, taken, got>>
    BY <1>11 DEF DeqReadHead, shm, hist
  <2>2. /\ StreamEnd' = StreamEnd /\ Depth' = Depth
        /\ Stream' /\ Ring' /\ Delivered' /\ RingIntact'
    BY <2>1, WindowKept, RingKept
  <2>3. pc'[c] = "read_data" /\ len'[c] = Total(sent[taken + 1])
    <3>1. pc[c] = "read_head" /\ lh[c] = head /\ taken < Len(sent)
      BY <1>11 DEF DeqReadHead, ComsumerInv, Reading
    <3>2. PICK e \in Total(sent[taken + 1])..Depth : lt[c] = Fold(head + e)
      BY <1>11 DEF DeqReadHead, ComsumerInv, Reading
    <3> DEFINE m == sent[taken + 1]
    <3>3. /\ taken + 1 \in (taken + 1)..Len(sent) /\ m \in Messages
          /\ Total(m) \in Nat /\ Total(m) >= 4 /\ Depth \in 0..(BlockSize - 1)
          /\ m.at \in Nat
      BY <3>1, WindowFacts, SMTT(30) DEF HistType, Ring
    <3>4. e \in 0..(BlockSize - 1) /\ e # 0 /\ head \in 0..BlockSize
      BY <3>3, SizeAssumption DEF Ring
    <3>5. UsedLen(head, lt[c]) = e
      BY <3>2, <3>4, UsedIsDepth
    <3>6. \A k \in 0..(Total(m) - 1) : block[Index(head + k)] = [m |-> m, k |-> k]
      BY <3>1, FirstFrame
    <3>7. m # None
      BY <3>3, NoneAssumption
    <3>8. block[Index(head)] = [m |-> m, k |-> 0] /\ block[Index(head + 1)] = [m |-> m, k |-> 1]
      <4>1. head + 0 = head
        BY <3>4
      <4> QED BY <3>3, <3>6, <4>1
    <3>9. IsMagic(block[Index(head)]) /\ LenValue(block[Index(head + 1)]) = Total(m)
      BY <3>7, <3>8 DEF IsMagic, LenValue, Zero, C_SAFE_AREA_LEN
    <3>10. (Total(m) + WordMod - 3) % WordMod <= BufSize
      <4>1. Total(m) - 3 \in 0..(WordMod - 1) /\ Total(m) - 3 <= BufSize
        BY <3>2, <3>3, <3>4, SizeAssumption
      <4>2. Total(m) + WordMod - 3 = (Total(m) - 3) + WordMod
        BY <3>3, SizeAssumption
      <4> QED BY <4>1, <4>2, ModSmall
    <3>11. HeaderOk(c)
      BY <3>1, <3>2, <3>3, <3>5, <3>9, <3>10 DEF HeaderOk, C_SAFE_AREA_LEN, C_HEAD_SIZE
    <3>12. pc'[c] = "read_data" /\ len'[c] = Total(m)
      BY <1>11, <3>1, <3>9, <3>11 DEF DeqReadHead, LocalType, Goto, Procs, C_SAFE_AREA_LEN
    <3> QED BY <3>12
  <2>4. Calls'
    <3>1. pc[c] = "read_head" /\ UNCHANGED lock /\ c \notin Producers
      BY <1>11, ProcsAssumption DEF DeqReadHead
    <3>2. \A x \in Procs \ {c} : pc'[x] = pc[x]
      BY <1>11 DEF DeqReadHead, Goto, LocalType
    <3> QED BY <2>3, <3>1, <3>2, ProcsAssumption DEF Calls, Inside, Reading, Procs
  <2>5. ProducerInv'
    BY <1>11, <2>1, <2>2, ProcsAssumption DEF DeqReadHead, LocalType, ProducerInv, Goto, Procs
  <2>6. ComsumerInv'
    <3>1. pc[c] = "read_head" /\ UNCHANGED <<lh, lt, buf>>
      BY <1>11 DEF DeqReadHead
    <3>2. \A d \in Comsumers \ {c} : pc'[d] = pc[d] /\ len'[d] = len[d]
      BY <1>11 DEF DeqReadHead, Goto, LocalType, Procs
    <3> QED BY <2>1, <2>2, <2>3, <3>1, <3>2 DEF ComsumerInv, Reading
  <2> QED BY <1>0, <2>2, <2>4, <2>5, <2>6 DEF IInv
<1>12. ASSUME NEW c \in Comsumers, DeqReadData(c) PROVE IInv'
  <2>1. UNCHANGED <<head, tail, block, sent, taken, got>>
    BY <1>12 DEF DeqReadData, shm, hist
  <2>2. /\ StreamEnd' = StreamEnd /\ Depth' = Depth
        /\ Stream' /\ Ring' /\ Delivered' /\ RingIntact'
    BY <2>1, WindowKept, RingKept
  <2>3. Calls'
    BY <1>12, ProcsAssumption DEF DeqReadData, LocalType, Calls, Goto, Side, Sides,
       Procs, Inside, Sending, Reading
  <2>4. ProducerInv'
    <3>1. \A p \in Producers : pc'[p] = pc[p] /\ lh'[p] = lh[p] /\ lt'[p] = lt[p]
      BY <1>12, ProcsAssumption DEF DeqReadData, LocalType, Procs, Goto
    <3>2. UNCHANGED msg
      BY <1>12 DEF DeqReadData
    <3> QED BY <2>1, <2>2, <3>1, <3>2, ProducersKept
  <2>5. ComsumerInv'
    <3>1. pc[c] = "read_data" /\ lh[c] = head /\ taken < Len(sent) /\ len[c] = Total(sent[taken + 1])
      BY <1>12 DEF DeqReadData, ComsumerInv, Reading
    <3> DEFINE m == sent[taken + 1]
    <3>2. /\ taken + 1 \in (taken + 1)..Len(sent) /\ m \in Messages
          /\ Total(m) \in Nat /\ Total(m) >= 4 /\ Total(m) <= Depth
          /\ Depth \in 0..(BlockSize - 1) /\ head \in 0..BlockSize /\ m.at \in Nat
      BY <3>1, WindowFacts DEF HistType, Ring
    <3>3. len[c] \in 4..(BlockSize - 1)
      BY <3>1, <3>2, SizeAssumption
    <3>4. \A k \in 0..(len[c] - 1) : block[Index(head + k)] = [m |-> m, k |-> k]
      BY <3>1, FirstFrame
    <3>5. ASSUME NEW i \in 1..(len[c] - 3)
          PROVE  block[Index(DataPos(lh[c]) + i - 1)] = [m |-> m, k |-> i + 2]
      <4>1. i - 1 \in 0..(len[c] - 4) /\ i + 2 \in 0..(len[c] - 1)
        BY <3>3
      <4>2. Index(DataPos(head) + (i - 1)) = Index(head + 3 + (i - 1))
        BY <3>2, <3>3, <4>1, NextHeadFold
      <4>3. DataPos(head) \in Int
        BY <3>2, SizeAssumption DEF DataPos, Fold, C_HEAD_SIZE, C_SAFE_AREA_LEN
      <4>4. DataPos(head) + i - 1 = DataPos(head) + (i - 1) /\ head + 3 + (i - 1) = head + (i + 2)
        BY <3>2, <4>3
      <4>5. block[Index(head + (i + 2))] = [m |-> m, k |-> i + 2]
        BY <3>4, <4>1
      <4> QED BY <3>1, <4>2, <4>4, <4>5
    <3>6. buf'[c] = [i \in 1..(len[c] - 3) |-> block[Index(DataPos(lh[c]) + i - 1)]]
      BY <1>12 DEF DeqReadData, LocalType, C_HEAD_SIZE, C_SAFE_AREA_LEN
    <3>7. \A i \in 1..(len[c] - 3) : buf'[c][i] = [m |-> m, k |-> i + 2]
      BY <3>5, <3>6
    <3>8. \A d \in Comsumers \ {c} : pc'[d] = pc[d] /\ buf'[d] = buf[d]
      BY <1>12 DEF DeqReadData, LocalType, Goto, Procs
    <3>9. pc'[c] = "store_head" /\ UNCHANGED <<lh, lt, len>>
      BY <1>12 DEF DeqReadData, LocalType, Goto, Procs
    <3> QED BY <2>1, <2>2, <3>1, <3>7, <3>8, <3>9 DEF ComsumerInv, Reading
  <2> QED BY <1>0, <2>2, <2>3, <2>4, <2>5 DEF IInv
<1>13. ASSUME NEW c \in Comsumers, Wake(c) PROVE IInv'
  <2>1. UNCHANGED <<head, tail, block, sent, taken, got>>
    BY <1>13 DEF Wake, shm, hist
  <2>2. /\ StreamEnd' = StreamEnd /\ Depth' = Depth
        /\ Stream' /\ Ring' /\ Delivered' /\ RingIntact'
    BY <2>1, WindowKept, RingKept
  <2>3. Calls'
    BY <1>13, ProcsAssumption DEF Wake, LocalType, Calls, Goto, Side, Sides, Procs,
       Inside, Sending, Reading
  <2>4. ProducerInv'
    <3>1. \A p \in Producers : pc'[p] = pc[p] /\ lh'[p] = lh[p] /\ lt'[p] = lt[p]
      BY <1>13, ProcsAssumption DEF Wake, LocalType, Procs, Goto
    <3>2. UNCHANGED msg
      BY <1>13 DEF Wake
    <3> QED BY <2>1, <2>2, <3>1, <3>2, ProducersKept
  <2>5. ComsumerInv'
    BY <1>13, <2>1, <2>2, ProcsAssumption DEF Wake, LocalType, ComsumerInv, Goto,
       Procs, Reading
  <2> QED BY <1>0, <2>2, <2>3, <2>4, <2>5 DEF IInv
<1>14. ASSUME NEW x \in Procs, Crash(x) PROVE IInv'
  <2>1. UNCHANGED <<head, tail, block, sent, taken, got>>
    BY <1>14 DEF Crash, shm, hist
  <2>2. /\ StreamEnd' = StreamEnd /\ Depth' = Depth
        /\ Stream' /\ Ring' /\ Delivered' /\ RingIntact'
    BY <2>1, WindowKept, RingKept
  <2>3. Calls'
    BY <1>14, ProcsAssumption DEF Crash, LocalType, Calls, Goto, Release, Side, Sides,
       Procs, Inside, Sending, Reading
  <2>4. ProducerInv'
    BY <1>14, <2>1, <2>2, ProcsAssumption DEF Crash, LocalType, ProducerInv, Goto,
       Procs, Sending, Copying
  <2>5. ComsumerInv'
    BY <1>14, <2>1, <2>2, ProcsAssumption DEF Crash, LocalType, ComsumerInv, Goto,
       Procs, Reading
  <2> QED BY <1>0, <2>2, <2>3, <2>4, <2>5 DEF IInv
<1>15. ASSUME NEW p \in Producers, EnqCopyHead(p) PROVE IInv'
  <2> DEFINE m == msg[p]
  <2>1. /\ pc[p] = "copy_head" /\ lt[p] = tail /\ block' = CopyHead(block, tail, m)
        /\ Total(m) < BlockSize - Depth /\ m.at = StreamEnd
    BY <1>15 DEF EnqCopyHead, ProducerInv, Copying
  <2>2. /\ m \in Messages /\ Total(m) \in Nat /\ Total(m) >= 4
        /\ tail \in 0..BlockSize /\ head \in 0..BlockSize
        /\ Depth \in 0..(BlockSize - 1) /\ tail = Fold(head + Depth)
    BY <2>1, TotalType, UsedIsDepth DEF LocalsOK, Sending, Ring
  <2>3. UNCHANGED <<head, tail, sent, taken, got, lh, lt, msg, len, buf, lock>>
    BY <1>15 DEF EnqCopyHead, hist
  <2>0. Depth \in Nat /\ Total(m) < BlockSize /\ Depth + Total(m) < BlockSize
    BY <2>1, <2>2, SizeAssumption
  <2>4. \A o \in 0..(Depth - 1) : block'[Index(head + o)] = block[Index(head + o)]
    <3> TAKE o \in 0..(Depth - 1)
    <3>1. CopyHead(block, Fold(head + Depth), m)[Index(head + o)] = block[Index(head + o)]
      BY <2>0, <2>2, CopyOutside
    <3> QED BY <2>1, <2>2, <3>1
  <2>5. \A k \in 0..2 : block'[Index(tail + k)] = [m |-> m, k |-> k]
    <3> TAKE k \in 0..2
    <3>1. CopyHead(block, tail, m)[Index(tail + k)] = [m |-> m, k |-> k]
      <4>1. k \in Nat /\ k < 3
        OBVIOUS
      <4> QED BY <2>2, <4>1, HeadInside
    <3> QED BY <2>1, <3>1
  <2>7. StreamEnd' = StreamEnd /\ Depth' = Depth /\ Stream' /\ Ring' /\ Delivered' /\ RingIntact'
    BY <2>3, <2>4, WindowKept, RingKept
  <2>8. pc'[p] = "copy_data" /\ \A x \in Procs \ {p} : pc'[x] = pc[x]
    BY <1>15 DEF EnqCopyHead, Goto, LocalType, Procs
  <2>9. \A q \in Producers \ {p} : pc'[q] = "idle"
    BY <2>1, <2>8, OneProducer DEF Sending, Procs
  <2>10. Calls'
    BY <2>1, <2>3, <2>8, ProcsAssumption DEF Calls, Inside, Sending, Procs
  <2>11. ProducerInv'
    <3>1. \A k \in 0..2 : block'[Index(tail + k)] = [m |-> m, k |-> k]
      BY <2>5
    <3> QED BY <2>1, <2>3, <2>7, <2>8, <2>9, <3>1 DEF ProducerInv, Copying
  <2>12. ComsumerInv'
    BY <2>3, <2>7, <2>8, ProcsAssumption, ZenonT(30) DEF ComsumerInv, Procs
  <2> QED BY <1>0, <2>7, <2>10, <2>11, <2>12 DEF IInv
<1>16. ASSUME NEW p \in Producers, EnqCopyData(p) PROVE IInv'
  <2> DEFINE m == msg[p]
  <2>1. /\ pc[p] = "copy_data" /\ lt[p] = tail /\ block' = CopyData(block, tail, m)
        /\ Total(m) < BlockSize - Depth /\ m.at = StreamEnd
    BY <1>16 DEF EnqCopyData, ProducerInv, Copying
  <2>2. /\ m \in Messages /\ Total(m) \in Nat /\ Total(m) >= 4
        /\ tail \in 0..BlockSize /\ head \in 0..BlockSize
        /\ Depth \in 0..(BlockSize - 1) /\ tail = Fold(head + Depth)
    BY <2>1, TotalType, UsedIsDepth DEF LocalsOK, Sending, Ring
  <2>3. UNCHANGED <<head, tail, sent, taken, got, lh, lt, msg, len, buf, lock>>
    BY <1>16 DEF EnqCopyData, hist
  <2>0. Depth \in Nat /\ Total(m) < BlockSize /\ Depth + Total(m) < BlockSize
    BY <2>1, <2>2, SizeAssumption
  <2>4. \A o \in 0..(Depth - 1) : block'[Index(head + o)] = block[Index(head + o)]
    <3> TAKE o \in 0..(Depth - 1)
    <3>1. CopyData(block, Fold(head + Depth), m)[Index(head + o)] = block[Index(head + o)]
      BY <2>0, <2>2, CopyOutside
    <3> QED BY <2>1, <2>2, <3>1
  <2>5. \A k \in 3..(Total(m) - 1) : block'[Index(tail + k)] = [m |-> m, k |-> k]
    <3> TAKE k \in 3..(Total(m) - 1)
    <3>1. CopyData(block, tail, m)[Index(tail + k)] = [m |-> m, k |-> k]
      BY <2>0, <2>2, DataInside
    <3> QED BY <2>1, <3>1
  <2>6. \A k \in 0..2 : block'[Index(tail + k)] = block[Index(tail + k)]
    <3> TAKE k \in 0..2
    <3>1. CopyData(block, tail, m)[Index(tail + k)] = block[Index(tail + k)]
      <4>1. k \in Nat /\ k < 3
        OBVIOUS
      <4> QED BY <2>2, <4>1, HeadKept
    <3> QED BY <2>1, <3>1
  <2>7. StreamEnd' = StreamEnd /\ Depth' = Depth /\ Stream' /\ Ring' /\ Delivered' /\ RingIntact'
    BY <2>3, <2>4, WindowKept, RingKept
  <2>8. pc'[p] = "store_tail" /\ \A x \in Procs \ {p} : pc'[x] = pc[x]
    BY <1>16 DEF EnqCopyData, Goto, LocalType, Procs
  <2>9. \A q \in Producers \ {p} : pc'[q] = "idle"
    BY <2>1, <2>8, OneProducer DEF Sending, Procs
  <2>10. Calls'
    BY <2>1, <2>3, <2>8, ProcsAssumption DEF Calls, Inside, Sending, Procs
  <2>11. ProducerInv'
    <3>1. \A k \in 0..2 : block[Index(tail + k)] = [m |-> m, k |-> k]
      BY <2>1 DEF ProducerInv
    <3>2. \A k \in 0..2 : block'[Index(tail + k)] = [m |-> m, k |-> k]
      BY <2>6, <3>1
    <3> QED BY <2>1, <2>3, <2>5, <2>7, <2>8, <2>9, <3>2 DEF ProducerInv, Copying
  <2>12. ComsumerInv'
    BY <2>3, <2>7, <2>8, ProcsAssumption DEF ComsumerInv, Procs
  <2> QED BY <1>0, <2>7, <2>10, <2>11, <2>12 DEF IInv
<1>17. ASSUME NEW p \in Producers, EnqStoreTail(p) PROVE IInv'
  <2> DEFINE m == msg[p]
           n == Len(sent)
  <2>1. /\ pc[p] = "store_tail" /\ lt[p] = tail /\ sent' = Append(sent, m)
        /\ tail' = NextTail(tail, tail, m) /\ Total(m) < BlockSize - Depth /\ m.at = StreamEnd
    BY <1>17 DEF EnqStoreTail, ProducerInv, Copying
  <2>2. /\ m \in Messages /\ Total(m) \in Nat /\ Total(m) >= 4
        /\ tail \in 0..BlockSize /\ head \in 0..BlockSize
        /\ Depth \in 0..(BlockSize - 1) /\ tail = Fold(head + Depth)
    BY <2>1, TotalType, UsedIsDepth DEF LocalsOK, Sending, Ring
  <2>3. UNCHANGED <<head, block, taken, got, lh, lt, msg, len, buf, lock>>
    BY <1>17 DEF EnqStoreTail
  <2>4. /\ n \in Nat /\ Len(sent') = n + 1 /\ taken \in 0..n
        /\ sent'[n + 1] = m /\ \A i \in 1..n : sent'[i] = sent[i]
    BY <2>1, <2>2 DEF HistType
  <2>5. StreamEnd' = StreamEnd + Total(m) /\ StreamEnd \in Nat
    <3>1. sent' # <<>>
      BY <2>4
    <3> QED BY <2>1, <2>2, <2>4, <3>1, WindowFacts DEF StreamEnd
  <2>6. ReadPos' = ReadPos /\ ReadPos \in Nat
    <3>1. CASE taken < n
      BY <2>3, <2>4, <3>1, WindowFacts, <2>2, SMTT(30) DEF ReadPos
    <3>2. CASE taken = n
      BY <2>1, <2>3, <2>4, <3>2, WindowFacts, <2>2 DEF ReadPos
    <3> QED BY <2>4, <3>1, <3>2
  <2>7. Depth' = Depth + Total(m)
    BY <2>2, <2>5, <2>6 DEF Depth
  <2>8. Stream'
    <3>1. \A i \in 1..n : /\ sent[i].at \in Nat /\ Total(sent[i]) \in Nat
                          /\ sent[i].at + Total(sent[i]) <= StreamEnd
      BY <2>2, WindowFacts DEF Stream
    <3>2. \A i \in 1..(n + 1) : i \in 1..n \/ i = n + 1
      BY <2>4
    <3>3. \A i \in 1..Len(sent') : sent'[i].at + Total(sent'[i]) <= StreamEnd'
      BY <2>1, <2>2, <2>4, <2>5, <3>1, <3>2, SMTT(30)
    <3>4. \A i, j \in 1..Len(sent') :
             i < j => sent'[i].at + Total(sent'[i]) <= sent'[j].at
      <4> SUFFICES ASSUME NEW i \in 1..(n + 1), NEW j \in 1..(n + 1), i < j
                   PROVE  sent'[i].at + Total(sent'[i]) <= sent'[j].at
        BY <2>4
      <4>1. i \in 1..n
        BY <2>4
      <4>2. CASE j \in 1..n
        BY <2>4, <4>1, <4>2 DEF Stream
      <4>3. CASE j = n + 1
        BY <2>1, <2>4, <3>1, <4>1, <4>3
      <4> QED BY <3>2, <4>2, <4>3
    <3>5. \A i \in 1..Len(sent') : i + 1 \in 1..Len(sent') =>
             sent'[i + 1].at = sent'[i].at + Total(sent'[i])
      <4> SUFFICES ASSUME NEW i \in 1..n PROVE sent'[i + 1].at = sent'[i].at + Total(sent'[i])
        BY <2>4
      <4>1. CASE i + 1 \in 1..n
        BY <2>4, <4>1 DEF Stream
      <4>2. CASE i = n
        <5>1. sent # <<>>
          BY <2>4, <4>2
        <5> QED BY <2>1, <2>4, <4>2, <5>1 DEF StreamEnd
      <4> QED BY <2>4, <4>1, <4>2
    <3> QED BY <3>3, <3>4, <3>5 DEF Stream
  <2>9. Ring'
    <3>1. /\ Total(m) < BlockSize /\ Depth + Total(m) \in 0..(BlockSize - 1)
          /\ Depth + Total(m) < BlockSize /\ Depth \in Nat
      BY <2>1, <2>2, SizeAssumption, SMTT(30)
    <3>2. tail' = Fold(tail + Total(m))
      BY <2>1, <2>2, <3>1, NextTailFold
    <3>3. Fold(Fold(head + Depth) + Total(m)) = Fold(head + Depth + Total(m))
      BY <2>2, <3>1, FoldFold
    <3>4. head + Depth + Total(m) = head + (Depth + Total(m))
      BY <2>2
    <3> QED BY <2>2, <2>3, <2>7, <3>1, <3>2, <3>3, <3>4 DEF Ring
  <2>10. RingIntact'
    <3>1. \A k \in 0..(Total(m) - 1) : block[Index(tail + k)] = [m |-> m, k |-> k]
      <4> TAKE k \in 0..(Total(m) - 1)
      <4>1. k \in 0..2 \/ k \in 3..(Total(m) - 1)
        BY <2>2
      <4> QED BY <2>1, <4>1 DEF ProducerInv
    <3> SUFFICES ASSUME NEW i \in (taken + 1)..(n + 1), NEW k \in 0..(Total(sent'[i]) - 1)
                 PROVE  block[Index(head + sent'[i].at - sent'[taken + 1].at + k)]
                            = [m |-> sent'[i], k |-> k]
      BY <2>3, <2>4 DEF RingIntact
    <3>2. CASE i \in (taken + 1)..n
      <4>1. sent'[i] = sent[i] /\ sent'[taken + 1] = sent[taken + 1]
        BY <2>4, <3>2
      <4> QED BY <3>2, <4>1 DEF RingIntact
    <3>3. CASE i = n + 1
      <4>1. sent'[i] = m /\ k \in 0..(Total(m) - 1)
        BY <2>4, <3>3
      <4>2. sent'[taken + 1].at = ReadPos
        BY <2>3, <2>4, <2>6 DEF ReadPos
      <4>3. head + m.at - ReadPos + k = head + Depth + k
        BY <2>1, <2>2, <2>5, <2>6, <4>1 DEF Depth
      <4>4. Index(tail + k) = Index(head + Depth + k)
        <5>1. Depth \in Nat /\ k \in Nat /\ Depth + k < BlockSize
          BY <2>1, <2>2, <4>1, InFreeSpace
        <5> QED BY <2>2, <5>1, IndexFold
      <4> QED BY <3>1, <4>1, <4>2, <4>3, <4>4
    <3> QED BY <2>4, <3>2, <3>3
  <2>11. Delivered'
    BY <2>3, <2>4 DEF Delivered
  <2>12. pc'[p] = "count" /\ \A x \in Procs \ {p} : pc'[x] = pc[x]
    BY <1>17 DEF EnqStoreTail, Goto, LocalType, Procs
  <2>13. \A q \in Producers \ {p} : pc'[q] = "idle"
    BY <2>1, <2>12, OneProducer DEF Sending, Procs
  <2>14. Calls'
    BY <2>1, <2>3, <2>12, ProcsAssumption DEF Calls, Inside, Sending, Procs
  <2>15. ProducerInv'
    BY <2>12, <2>13 DEF ProducerInv, Copying
  <2>16. ComsumerInv'
    <3> SUFFICES ASSUME NEW c \in Comsumers
                 PROVE  /\ pc[c] \in {"deq_tail"} \cup Reading => lh[c] = head
                        /\ pc[c] \in Reading =>
                              /\ taken < Len(sent')
                              /\ \E e \in Total(sent'[taken + 1])..Depth' : lt[c] = Fold(head + e)
                        /\ pc[c] \in {"read_data", "store_head"} =>
                              len[c] = Total(sent'[taken + 1])
                        /\ pc[c] = "store_head" =>
                              \A i \in 1..(len[c] - 3) :
                                  buf[c][i] = [m |-> sent'[taken + 1], k |-> i + 2]
      BY <2>3, <2>12, ProcsAssumption DEF ComsumerInv, Procs
    <3>1. pc[c] \in Reading => taken < n /\ sent'[taken + 1] = sent[taken + 1] /\ taken < Len(sent')
      BY <2>4 DEF ComsumerInv
    <3>2. pc[c] \in Reading =>
            \E e \in Total(sent[taken + 1])..Depth' : lt[c] = Fold(head + e)
      <4> SUFFICES ASSUME pc[c] \in Reading
                   PROVE  \E e \in Total(sent[taken + 1])..Depth' : lt[c] = Fold(head + e)
        OBVIOUS
      <4>1. PICK e \in Total(sent[taken + 1])..Depth : lt[c] = Fold(head + e)
        BY DEF ComsumerInv
      <4>2. e \in Total(sent[taken + 1])..Depth'
        BY <2>2, <2>7
      <4> QED BY <4>1, <4>2
    <3> QED BY <3>1, <3>2 DEF ComsumerInv, Reading
  <2> QED BY <1>0, <2>8, <2>9, <2>10, <2>11, <2>14, <2>15, <2>16 DEF IInv
<1>18. ASSUME NEW c \in Comsumers, DeqStoreHead(c) PROVE IInv'
  <2> DEFINE m == sent[taken + 1]
           n == Len(sent)
           T == Total(m)
  <2>1. /\ pc[c] = "store_head" /\ lh[c] = head /\ taken < n /\ len[c] = T
        /\ \A i \in 1..(T - 3) : buf[c][i] = [m |-> m, k |-> i + 2]
    BY <1>18 DEF DeqStoreHead, ComsumerInv, Reading
  <2>2. /\ m \in Messages /\ T \in 4..Depth /\ T \in Nat
        /\ head \in 0..BlockSize /\ Depth \in 0..(BlockSize - 1) /\ tail = Fold(head + Depth)
        /\ n \in Nat /\ taken \in 0..n /\ m.len \in Nat /\ m.at \in Nat
    BY <2>1, FirstFrame, TotalType, SMTT(30) DEF Ring, HistType
  <2>3. Len(buf[c]) = T - 3 /\ T - 3 = m.len + 1
    <3>1. Len(buf[c]) = len[c] - 3
      BY <2>1 DEF LocalsOK
    <3>2. T - 3 = m.len + 1
      BY <2>2, TotalLen
    <3> QED BY <2>1, <3>1, <3>2
  <2>4. IsMagic(buf[c][Len(buf[c])])
    <3>1. buf[c][T - 3] = [m |-> m, k |-> T - 1]
      BY <2>1, <2>2, SMTT(30)
    <3> QED BY <2>2, <2>3, <3>1, NoneAssumption DEF IsMagic, Zero
  <2>5. Payload(buf[c]) = m
    <3>1. buf[c][1] = [m |-> m, k |-> 3]
      BY <2>1, <2>2
    <3>2. buf[c][1] # Zero /\ buf[c][1].m = m
      BY <3>1 DEF Zero
    <3>3. \A i \in 1..m.len : buf[c][i] = [m |-> m, k |-> 3 + i - 1]
      BY <2>1, <2>2, <2>3, SMTT(30)
    <3> QED BY <2>3, <3>2, <3>3 DEF Payload, C_HEAD_SIZE, C_SAFE_AREA_LEN
  <2>6. /\ head' = NextHead(head, T) /\ taken' = taken + 1 /\ got' = Append(got, m)
        /\ Goto(c, "idle") /\ Release(c)
        /\ UNCHANGED <<tail, block, lh, lt, msg, len, buf, sent>>
    BY <1>18, <2>1, <2>4, <2>5 DEF DeqStoreHead
  <2>7. head' = Fold(head + T) /\ head' \in 0..BlockSize
    <3>1. T \in 4..(BlockSize - 1) /\ T \in 0..(BlockSize - 1)
      BY <2>2, SizeAssumption, SMTT(30)
    <3>2. NextHead(head, T) = Fold(head + T)
      BY <2>2, <3>1, NextHeadFold
    <3>3. Fold(head + T) \in 0..BlockSize
      BY <2>2, <3>1, UsedIsDepth
    <3> QED BY <2>6, <3>2, <3>3
  <2>8. StreamEnd' = StreamEnd /\ StreamEnd \in Nat /\ ReadPos = m.at /\ ReadPos' = m.at + T
    <3>1. StreamEnd' = StreamEnd /\ StreamEnd \in Nat
      BY <2>2, <2>6, WindowFacts DEF StreamEnd
    <3>2. ReadPos = m.at
      BY <2>1 DEF ReadPos
    <3>3. CASE taken + 1 < n
      <4>1. sent[taken + 1 + 1].at = m.at + T
        <5>1. taken + 1 \in 1..n /\ taken + 1 + 1 \in 1..n
          BY <2>2, <3>3
        <5> QED BY <5>1 DEF Stream
      <4>2. taken' < Len(sent') /\ sent'[taken' + 1] = sent[taken + 1 + 1]
        BY <2>6, <3>3
      <4>3. ReadPos' = sent[taken + 1 + 1].at
        BY <4>2 DEF ReadPos
      <4> QED BY <3>1, <3>2, <4>1, <4>3
    <3>4. CASE taken + 1 = n
      <4>1. StreamEnd = m.at + T
        <5>1. sent # <<>>
          BY <2>2, <3>4
        <5> QED BY <3>4, <5>1 DEF StreamEnd
      <4>2. ~(taken' < Len(sent'))
        BY <2>2, <2>6, <3>4
      <4>3. ReadPos' = StreamEnd
        BY <3>1, <4>2 DEF ReadPos
      <4> QED BY <3>1, <3>2, <4>1, <4>3
    <3> QED BY <2>1, <2>2, <3>3, <3>4
  <2>9. Depth' = Depth - T /\ Depth' \in 0..(BlockSize - 1)
    <3>1. Depth = StreamEnd - m.at /\ Depth' = StreamEnd - (m.at + T)
      BY <2>8 DEF Depth
    <3>2. StreamEnd - (m.at + T) = (StreamEnd - m.at) - T
      BY <2>2, <2>8, SMTT(30)
    <3>3. Depth - T \in 0..(BlockSize - 1)
      <4>1. \A d \in 0..(BlockSize - 1) : \A t \in 4..d : d - t \in 0..(BlockSize - 1)
        BY SizeAssumption
      <4> QED BY <2>2, <4>1
    <3> QED BY <3>1, <3>2, <3>3
  <2>10. Stream'
    BY <2>6, <2>8 DEF Stream
  <2>11. Ring'
    <3>0. T + (Depth - T) < BlockSize /\ Depth - T \in Nat /\ head \in Int /\ Depth \in Int
      <4>1. \A d \in 0..(BlockSize - 1) : \A t \in 4..d :
                t + (d - t) < BlockSize /\ d - t \in Nat /\ d \in Int
        BY SizeAssumption
      <4>2. \A h \in 0..BlockSize : h \in Int
        BY SizeAssumption
      <4> QED BY <2>2, <4>1, <4>2
    <3>1. Fold(Fold(head + T) + (Depth - T)) = Fold(head + T + (Depth - T))
      BY <2>2, <3>0, FoldFold
    <3>2. head + T + (Depth - T) = head + Depth
      BY <2>2, <3>0, Regroup
    <3> QED BY <2>2, <2>6, <2>7, <2>9, <3>1, <3>2 DEF Ring
  <2>12. RingIntact'
    <3>0. taken \in Nat /\ taken + 1 + 1 = taken + 2
      BY <2>2
    <3> SUFFICES ASSUME NEW i \in (taken' + 1)..n, NEW k \in 0..(Total(sent[i]) - 1)
                 PROVE  block[Index(head' + sent[i].at - sent[taken' + 1].at + k)]
                            = [m |-> sent[i], k |-> k]
      BY <2>6 DEF RingIntact
    <3>1. i \in (taken + 1)..n /\ taken + 1 < n /\ taken + 1 < i /\ taken + 1 \in 1..n /\ i \in 1..n
      <4>1. i \in Int /\ taken + 2 <= i /\ i <= n
        BY <2>2, <2>6, <3>0
      <4> QED BY <2>2, <4>1, SMTT(30)
    <3>2. /\ sent[i].at \in Nat /\ Total(sent[i]) \in Nat
          /\ sent[i].at - ReadPos + Total(sent[i]) <= Depth
      <4>1. Depth \in Int
        BY <2>2
      <4> QED BY <3>1, <4>1, WindowFacts
    <3>3. sent[taken' + 1].at = m.at + T
      BY <2>6, <2>8, <3>1 DEF ReadPos
    <3>4. sent[i].at >= m.at + T
      <4>1. sent[taken + 1].at + Total(sent[taken + 1]) <= sent[i].at
        BY <3>1 DEF Stream
      <4> QED BY <2>2, <3>2, <4>1
    <3>5. /\ sent[i].at - (m.at + T) + k \in Nat
          /\ T + (sent[i].at - (m.at + T) + k) < BlockSize
          /\ head + T + (sent[i].at - (m.at + T) + k) = head + sent[i].at - m.at + k
      <4>1. head \in Int /\ sent[i].at - m.at + Total(sent[i]) <= Depth
        <5>1. head \in Int
          BY <2>2, SizeAssumption
        <5>2. ReadPos = m.at
          BY <2>8
        <5> QED BY <3>2, <5>1, <5>2
      <4>2. /\ T \in Nat /\ m.at \in Nat /\ sent[i].at \in Nat /\ Total(sent[i]) \in Nat
            /\ Depth \in 0..(BlockSize - 1)
        BY <2>2, <3>2
      <4>3. /\ sent[i].at - (m.at + T) + k \in Nat
            /\ T + (sent[i].at - (m.at + T) + k) < BlockSize
        BY <3>4, <4>1, <4>2, InnerOffset
      <4>4. head + T + (sent[i].at - (m.at + T) + k) = head + sent[i].at - m.at + k
        BY <3>4, <4>1, <4>2, InnerOffset, SMTT(30)
      <4> QED BY <4>3, <4>4
    <3>6. Index(Fold(head + T) + (sent[i].at - (m.at + T) + k))
              = Index(head + T + (sent[i].at - (m.at + T) + k))
      BY <2>2, <3>5, IndexFold
    <3>7. head' + sent[i].at - sent[taken' + 1].at + k
              = Fold(head + T) + (sent[i].at - (m.at + T) + k)
      <4>1. head' \in Int /\ sent[i].at \in Int /\ m.at + T \in Int /\ k \in Int
        <5>1. \A h \in 0..BlockSize : h \in Int
          BY SizeAssumption
        <5>2. k \in Int /\ sent[i].at \in Int
          BY <3>2
        <5>3. m.at + T \in Int
          BY <2>2, SMTT(30)
        <5> QED BY <2>7, <5>1, <5>2, <5>3
      <4>2. head' + sent[i].at - (m.at + T) + k = head' + (sent[i].at - (m.at + T) + k)
        BY <4>1, Regroup
      <4> QED BY <2>7, <3>3, <4>2
    <3>8. block[Index(head + sent[i].at - m.at + k)] = [m |-> sent[i], k |-> k]
      BY <3>1 DEF RingIntact
    <3> QED BY <3>5, <3>6, <3>7, <3>8
  <2>13. Delivered'
    <3>1. Len(got) = taken /\ got \in Seq(Messages \cup {None})
      BY DEF Delivered, HistType
    <3>2. Len(got') = taken + 1 /\ got'[taken + 1] = m /\ \A i \in 1..taken : got'[i] = got[i]
      BY <2>2, <2>6, <3>1
    <3> QED BY <2>2, <2>6, <3>2 DEF Delivered
  <2>14. pc'[c] = "idle" /\ \A x \in Procs \ {c} : pc'[x] = pc[x]
    BY <2>6 DEF Goto, LocalType, Procs
  <2>15. Calls'
    BY <2>1, <2>6, <2>14, ProcsAssumption DEF Calls, Inside, Sending, Reading, Procs, Release,
       LocalType, Side, Sides
  <2>16. ProducerInv'
    <3> SUFFICES ASSUME NEW p \in Producers
                 PROVE  /\ pc[p] \in {"enq_head", "enq_tail"} \cup Copying => msg[p].at = StreamEnd
                        /\ pc[p] = "enq_tail" =>
                              /\ lh[p] \in 0..BlockSize
                              /\ \E e \in Depth'..(BlockSize - 1) : tail = Fold(lh[p] + e)
                        /\ pc[p] \in Copying => lt[p] = tail /\ Total(msg[p]) < BlockSize - Depth'
                        /\ pc[p] \in {"copy_data", "store_tail"} =>
                              \A k \in 0..2 : block[Index(tail + k)] = [m |-> msg[p], k |-> k]
                        /\ pc[p] = "store_tail" =>
                              \A k \in 3..(Total(msg[p]) - 1) :
                                  block[Index(tail + k)] = [m |-> msg[p], k |-> k]
      BY <2>6, <2>8, <2>14, ProcsAssumption DEF ProducerInv, Procs
    <3>1. pc[p] = "enq_tail" => \E e \in Depth'..(BlockSize - 1) : tail = Fold(lh[p] + e)
      <4> SUFFICES ASSUME pc[p] = "enq_tail"
                   PROVE  \E e \in Depth'..(BlockSize - 1) : tail = Fold(lh[p] + e)
        OBVIOUS
      <4>1. PICK e \in Depth..(BlockSize - 1) : tail = Fold(lh[p] + e)
        BY DEF ProducerInv
      <4>2. e \in Depth'..(BlockSize - 1)
        BY <2>2, <2>9
      <4> QED BY <4>1, <4>2
    <3>2. pc[p] \in Copying => Total(msg[p]) < BlockSize - Depth'
      <4>1. pc[p] \in Copying => Total(msg[p]) \in Nat /\ Total(msg[p]) < BlockSize - Depth
        BY TotalType DEF ProducerInv, LocalsOK, Copying, Sending
      <4> QED BY <2>2, <2>9, <4>1, SizeAssumption, SMTT(30)
    <3> QED BY <3>1, <3>2 DEF ProducerInv
  <2>17. ComsumerInv'
    <3>1. \A d \in Comsumers : pc'[d] \in {"idle", "wait", "lock"}
      BY <2>1, <2>14, OneComsumer DEF Reading, Procs
    <3> QED BY <3>1 DEF ComsumerInv, Reading
  <2> QED BY <1>0, <2>10, <2>11, <2>12, <2>13, <2>15, <2>16, <2>17 DEF IInv
<1>19. ASSUME NEW c \in Comsumers, DeqRecheck(c) PROVE IInv'
  BY <1>19 DEF DeqRecheck, Calls, Sending, Reading, Procs
<1>20. ASSUME NEW x \in Procs, ClearHead(x) PROVE IInv'
  BY <1>20 DEF ClearHead, Calls, Sending, Reading, Procs
<1>21. ASSUME NEW x \in Procs, ClearTail(x) PROVE IInv'
  BY <1>21 DEF ClearTail, Calls, Sending, Reading, Procs
<1>22. ASSUME NEW x \in Procs, ClearCount(x) PROVE IInv'
  BY <1>22 DEF ClearCount, Calls, Sending, Reading, Procs
<1>23. CASE UNCHANGED vars
  <2>1. UNCHANGED <<head, tail, block, sent, taken, got>>
    BY <1>23 DEF vars, shm, hist
  <2>2. /\ StreamEnd' = StreamEnd /\ Depth' = Depth
        /\ Stream' /\ Ring' /\ Delivered' /\ RingIntact'
    BY <2>1, WindowKept, RingKept
  <2>3. Calls' /\ ProducerInv' /\ ComsumerInv'
    BY <1>23, <2>1, <2>2 DEF vars, shm, local, Calls, ProducerInv, ComsumerInv
  <2> QED BY <1>0, <2>2, <2>3 DEF IInv
<1> QED BY <1>1, <1>2, <1>3, <1>4, <1>5, <1>6, <1>7, <1>8, <1>9, <1>10, <1>11, <1>12, <1>13, <1>14, <1>15, <1>16, <1>17, <1>18, <1>19, <1>20, <1>21, <1>22, <1>23 DEF Next, Enqueue, Dequeue, Clear

\* A new segment satisfies the invariant.
LEMMA InitIInv == Init => IInv
<1> SUFFICES ASSUME Init PROVE IInv
  OBVIOUS
<1>1. TypeInv
  BY InitTypeInv
<1>2. sent = <<>> /\ Len(sent) = 0 /\ taken = 0 /\ got = <<>> /\ head = 0 /\ tail = 0
  BY DEF Init
<1>3. StreamEnd = 0 /\ ReadPos = 0 /\ Depth = 0
  BY <1>2 DEF StreamEnd, ReadPos, Depth
<1>4. Stream /\ RingIntact /\ Delivered
  BY <1>2 DEF Stream, RingIntact, Delivered
<1>5. Ring
  BY <1>2, <1>3, SizeAssumption DEF Ring, Fold
<1>6. \A x \in Procs : pc[x] = "idle"
  BY DEF Init
<1>7. Calls /\ ProducerInv /\ ComsumerInv
  BY <1>6, ProcsAssumption DEF Calls, ProducerInv, ComsumerInv, Inside, Sending, Copying,
     Reading, Procs
<1> QED BY <1>1, <1>4, <1>5, <1>7 DEF IInv

\* The invariant holds throughout the life of the queue.
LEMMA IInvAlways == Spec => []IInv
<1> QED BY InitIInv, NextIInv, PTL DEF Spec

(***************************************************************************)
(* For every number of workers on either end, every size of the ring and   *)
(* every set of lengths, and with workers killed anywhere in a call: the   *)
(* frames between *head_ and *tail_ stand word for word as enqueue laid    *)
(* them, although producer and comsumer run at the same time on positions  *)
(* that may be stale.                                                      *)
(***************************************************************************)
THEOREM RingSafety == Spec => []RingIntact
<1>1. IInv => RingIntact
  BY DEF IInv
<1> QED BY <1>1, IInvAlways, PTL

(***************************************************************************)
(* Under the same conditions comsume hands on the published messages, each *)
(* once, whole and in order; a kill loses and repeats none.                *)
(***************************************************************************)
THEOREM Delivery == Spec => []ExactlyOnce
<1>1. IInv => ExactlyOnce
  <2> SUFFICES ASSUME HistType, Delivered PROVE ExactlyOnce
    BY DEF IInv, TypeInv, TypeOK
  <2>1. /\ sent \in Seq(Messages) /\ taken \in 0..Len(sent)
        /\ got \in Seq(Messages \cup {None}) /\ Len(got) = taken
        /\ \A i \in 1..taken : got[i] = sent[i]
    BY DEF HistType, Delivered
  <2>2. /\ SubSeq(sent, 1, taken) \in Seq(Messages \cup {None})
        /\ Len(SubSeq(sent, 1, taken)) = taken
        /\ \A i \in 1..taken : SubSeq(sent, 1, taken)[i] = sent[i]
    <3>1. \A i \in 1..taken : 1 + i - 1 = i
      BY <2>1
    <3>2. /\ 1 \in Int /\ taken \in Int
          /\ \A i \in 1..taken : sent[i] \in Messages \cup {None}
      BY <2>1
    <3>3. /\ SubSeq(sent, 1, taken) \in Seq(Messages \cup {None})
          /\ Len(SubSeq(sent, 1, taken)) = IF 1 <= taken THEN taken - 1 + 1 ELSE 0
          /\ \A i \in 1..(taken - 1 + 1) : SubSeq(sent, 1, taken)[i] = sent[1 + i - 1]
      BY <3>2, SubSeqProperties
    <3> QED BY <2>1, <3>1, <3>3
  <2> QED BY <2>1, <2>2, SeqEqual DEF ExactlyOnce
<1> QED BY <1>1, IInvAlways, PTL

(***************************************************************************)
(* Under the same conditions no call of enqueue or dequeue takes an error  *)
(* path: the checks of the magic words, of total_len and of the positions  *)
(* never fail, so the queue is never thrown away by clear.                 *)
(***************************************************************************)
THEOREM NeverCleared == Spec => []NoClear
<1>1. IInv => NoClear
  BY DEF IInv, Calls, NoClear, Sending, Reading, Procs
<1> QED BY <1>1, IInvAlways, PTL

(***************************************************************************)
(* The head stays in the ring even when the proxy restarts and clears the  *)
(* queue under the feet of the workers: a comsumer stores a head computed  *)
(* from positions it has checked.                                          *)
(***************************************************************************)
THEOREM HeadStays == SpecRestart => []HeadInRange
<1>1. Init => HeadInRange
  BY SizeAssumption DEF Init, HeadInRange
<1>2. TypeInv /\ HeadInRange /\ [NextRestart]_vars => HeadInRange'
  <2> SUFFICES ASSUME TypeInv, HeadInRange, [NextRestart]_vars PROVE HeadInRange'
    OBVIOUS
  <2>1. ASSUME NEW c \in Comsumers, DeqStoreHead(c) PROVE HeadInRange'
    <3>1. /\ lh[c] \in 0..BlockSize /\ lt[c] \in 0..BlockSize
          /\ len[c] \in 4..UsedLen(lh[c], lt[c])
      BY <2>1 DEF DeqStoreHead, TypeInv, LocalsOK, Reading
    <3>2. UsedLen(lh[c], lt[c]) \in Int /\ UsedLen(lh[c], lt[c]) <= BlockSize
      BY <3>1, SizeAssumption DEF UsedLen
    <3>3. NextHead(lh[c], len[c]) <= BlockSize
      <4>1. len[c] \in Nat /\ len[c] >= 4 /\ len[c] <= BlockSize
        BY <3>1, <3>2, SizeAssumption
      <4> QED BY <3>1, <4>1, HeadBound
    <3> QED BY <2>1, <3>3 DEF DeqStoreHead, HeadInRange
  <2>2. ASSUME NEW x \in Procs, ClearHead(x) PROVE HeadInRange'
    BY <2>2, SizeAssumption DEF ClearHead, HeadInRange
  <2>3. CASE head' = head
    BY <2>3 DEF HeadInRange
  <2> QED BY <2>1, <2>2, <2>3 DEF NextRestart, Next, Enqueue, Dequeue, Clear, Produce,
          EnqLoadHead, EnqLoadTail, EnqCopyHead, EnqCopyData, EnqStoreTail, EnqCount,
          Notify, Wake, Comsume, ComsumeLock, DeqLoadHead, DeqLoadTail, DeqSub,
          DeqReadHead, DeqReadData, DeqRecheck, ClearTail, ClearCount, Crash, Restart,
          vars, shm
<1> QED BY <1>1, <1>2, InitTypeInv, NextTypeInv, PTL DEF SpecRestart
=============================================================================
