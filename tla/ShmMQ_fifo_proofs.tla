-------------------------- MODULE ShmMQ_fifo_proofs --------------------------
(***************************************************************************)
(* What the callers of the queue see, from the invariant of ShmMQ_proofs:  *)
(* the count of the statistics block, the wakeup by the FIFO, and that the *)
(* ring implements the queue of messages of MsgFifo.                       *)
(***************************************************************************)
EXTENDS ShmMQ_proofs, FiniteSetTheorems

\* One process per side is between a position and the count.
NumPublishing == IF \E p \in Producers : pc[p] = "count" THEN 1 ELSE 0
NumTaking     == IF \E c \in Comsumers : pc[c] \in {"read_head", "read_data", "store_head"}
                 THEN 1 ELSE 0

\* The sets that CountDrift counts have at most one member.
LEMMA FewInside ==
    ASSUME Calls
    PROVE  Cardinality(Publishing) = NumPublishing /\ Cardinality(Taking) = NumTaking
<1>1. Cardinality(Publishing) = NumPublishing
  <2>1. CASE \E p \in Producers : pc[p] = "count"
    <3>1. PICK p \in Producers : pc[p] = "count"
      BY <2>1
    <3>2. Publishing = {p}
      BY <3>1, OneProducer DEF Publishing, Sending
    <3> QED BY <2>1, <3>2, FS_Singleton DEF NumPublishing
  <2>2. CASE ~\E p \in Producers : pc[p] = "count"
    <3>1. Publishing = {}
      BY <2>2 DEF Publishing
    <3> QED BY <2>2, <3>1, FS_EmptySet DEF NumPublishing
  <2> QED BY <2>1, <2>2
<1>2. Cardinality(Taking) = NumTaking
  <2>1. CASE \E c \in Comsumers : pc[c] \in {"read_head", "read_data", "store_head"}
    <3>1. PICK c \in Comsumers : pc[c] \in {"read_head", "read_data", "store_head"}
      BY <2>1
    <3>2. Taking = {c}
      BY <3>1, OneComsumer DEF Taking, Reading
    <3> QED BY <2>1, <3>2, FS_Singleton DEF NumTaking
  <2>2. CASE ~\E c \in Comsumers : pc[c] \in {"read_head", "read_data", "store_head"}
    <3>1. Taking = {}
      BY <2>2 DEF Taking
    <3> QED BY <2>2, <3>1, FS_EmptySet DEF NumTaking
  <2> QED BY <2>1, <2>2
<1> QED BY <1>1, <1>2

\* CountDrift without cardinalities.
Settled == Pending - NumPublishing - NumTaking
Drift   == Settled - crashes <= count /\ count <= Settled

\* The two say the same, as few workers are inside a call.
LEMMA DriftIsCountDrift ==
    ASSUME IInv PROVE Drift <=> CountDrift
<1>1. Cardinality(Publishing) = NumPublishing /\ Cardinality(Taking) = NumTaking
  BY FewInside DEF IInv
<1> QED BY <1>1 DEF Drift, CountDrift, Settled

\* The numbers that Drift relates.
LEMMA DriftTypes ==
    ASSUME TypeInv
    PROVE  /\ Pending \in Nat /\ NumPublishing \in 0..1 /\ NumTaking \in 0..1
           /\ Settled \in Int /\ count \in Int /\ crashes \in Nat
<1>1. Len(sent) \in Nat /\ taken \in 0..Len(sent)
  BY DEF TypeInv, TypeOK, HistType
<1>2. Pending \in Nat
  BY <1>1 DEF Pending
<1>3. NumPublishing \in 0..1 /\ NumTaking \in 0..1
  BY DEF NumPublishing, NumTaking
<1>4. count \in Int /\ crashes \in Nat
  BY SizeAssumption DEF TypeInv, TypeOK, ShmType, HistType
<1> QED BY <1>2, <1>3, <1>4 DEF Settled

\* A step that changes neither history nor count, and moves nobody into or out of
\* the places that are counted, keeps the drift.
LEMMA DriftKept ==
    ASSUME Drift, UNCHANGED <<sent, taken, count, crashes>>,
           \A p \in Producers : pc'[p] = "count" <=> pc[p] = "count",
           \A c \in Comsumers : pc'[c] \in {"read_head", "read_data", "store_head"}
                                <=> pc[c] \in {"read_head", "read_data", "store_head"}
    PROVE  Drift'
<1>1. NumPublishing' = NumPublishing /\ NumTaking' = NumTaking /\ Pending' = Pending
  BY DEF NumPublishing, NumTaking, Pending
<1> QED BY <1>1 DEF Drift, Settled

\* Every step keeps the drift: the count is added behind the store of the tail and
\* taken down before the store of the head; a kill in between is counted in crashes.
LEMMA NextDrift == IInv /\ IInv' /\ Drift /\ [Next]_vars => Drift'
<1> SUFFICES ASSUME IInv, IInv', Drift, [Next]_vars PROVE Drift'
  OBVIOUS
<1>0. LocalType /\ HistType /\ Calls /\ TypeInv /\ TypeInv' /\ Calls'
  BY DEF IInv, TypeInv, TypeOK
<1>a. \A p \in Producers : p \notin Comsumers /\ p \in Procs
  BY ProcsAssumption DEF Procs
<1>b. \A c \in Comsumers : c \notin Producers /\ c \in Procs
  BY ProcsAssumption DEF Procs
<1>t. /\ Pending \in Nat /\ NumPublishing \in 0..1 /\ NumTaking \in 0..1
      /\ Settled \in Int /\ count \in Int /\ crashes \in Nat
  BY <1>0, DriftTypes
<1>1. ASSUME NEW p \in Producers, NEW n \in Lens, Produce(p, n) PROVE Drift'
  BY <1>0, <1>1, <1>a, <1>b, DriftKept DEF Produce, Goto, LocalType, shm, hist
<1>2. ASSUME NEW p \in Producers, EnqLoadHead(p) PROVE Drift'
  BY <1>0, <1>2, <1>a, <1>b, DriftKept DEF EnqLoadHead, Goto, LocalType, shm, hist, Bounds
<1>3. ASSUME NEW p \in Producers, EnqLoadTail(p) PROVE Drift'
  BY <1>0, <1>3, <1>a, <1>b, DriftKept DEF EnqLoadTail, Goto, LocalType, shm, hist, Bounds,
     Return, CheckFail
<1>4. ASSUME NEW p \in Producers, EnqCopyHead(p) \/ EnqCopyData(p) PROVE Drift'
  BY <1>0, <1>4, <1>a, <1>b, DriftKept DEF EnqCopyHead, EnqCopyData, Goto, LocalType, hist,
     Bounds
<1>5. ASSUME NEW p \in Producers, EnqStoreTail(p) PROVE Drift'
  <2>1. pc[p] = "store_tail" /\ pc'[p] = "count" /\ \A x \in Procs \ {p} : pc'[x] = pc[x]
    BY <1>0, <1>5, <1>a DEF EnqStoreTail, Goto, LocalType
  <2>2. NumPublishing = 0 /\ NumPublishing' = 1
    BY <1>0, <2>1, OneProducer DEF NumPublishing, Sending
  <2>3. NumTaking' = NumTaking
    BY <2>1, <1>b DEF NumTaking
  <2>4. Pending' = Pending + 1
    <3>1. Len(sent') = Len(sent) + 1 /\ Len(sent) \in Nat /\ taken \in Int /\ taken' = taken
      BY <1>0, <1>5 DEF EnqStoreTail, HistType
    <3> QED BY <3>1 DEF Pending
  <2>5. count' = count /\ crashes' = crashes
    BY <1>5 DEF EnqStoreTail, Bounds
  <2> QED BY <1>t, <2>2, <2>3, <2>4, <2>5 DEF Drift, Settled
<1>6. ASSUME NEW p \in Producers, EnqCount(p) PROVE Drift'
  <2>1. pc[p] = "count" /\ pc'[p] \in {"notify", "idle"}
        /\ \A x \in Procs \ {p} : pc'[x] = pc[x]
    BY <1>0, <1>6, <1>a DEF EnqCount, Goto, LocalType, Return
  <2>2. NumPublishing = 1 /\ NumPublishing' = 0
    BY <1>0, <1>a, <2>1, OneProducer DEF NumPublishing, Sending
  <2>3. NumTaking' = NumTaking
    BY <1>a, <1>b, <2>1 DEF NumTaking
  <2>4. Pending' = Pending /\ count' = count + 1 /\ crashes' = crashes
    BY <1>6 DEF EnqCount, Bounds, hist, Pending
  <2> QED BY <1>t, <2>2, <2>3, <2>4 DEF Drift, Settled
<1>7. ASSUME NEW p \in Producers, Notify(p) PROVE Drift'
  BY <1>0, <1>7, <1>a, <1>b, DriftKept DEF Notify, Goto, LocalType, hist, Bounds, Return
<1>8. ASSUME NEW c \in Comsumers, Wake(c) \/ Comsume(c) PROVE Drift'
  BY <1>0, <1>8, <1>a, <1>b, DriftKept DEF Wake, Comsume, Goto, LocalType, hist, Bounds, shm
<1>9. ASSUME NEW c \in Comsumers, ComsumeLock(c) \/ DeqLoadHead(c) PROVE Drift'
  BY <1>0, <1>9, <1>a, <1>b, DriftKept DEF ComsumeLock, DeqLoadHead, Goto, LocalType, hist,
     Bounds, shm
<1>10. ASSUME NEW c \in Comsumers, DeqLoadTail(c) PROVE Drift'
  BY <1>0, <1>10, <1>a, <1>b, DriftKept DEF DeqLoadTail, Goto, LocalType, hist, Bounds, shm,
     Return, CheckFail
<1>11. ASSUME NEW c \in Comsumers, DeqSub(c) PROVE Drift'
  <2>1. pc[c] = "sub" /\ pc'[c] = "read_head" /\ \A x \in Procs \ {c} : pc'[x] = pc[x]
    BY <1>0, <1>11, <1>b DEF DeqSub, Goto, LocalType
  <2>2. NumTaking = 0 /\ NumTaking' = 1
    BY <1>0, <2>1, OneComsumer DEF NumTaking, Reading
  <2>3. NumPublishing' = NumPublishing
    BY <1>a, <1>b, <2>1 DEF NumPublishing
  <2>4. Pending' = Pending /\ count' = count - 1 /\ crashes' = crashes
    BY <1>11 DEF DeqSub, Bounds, hist, Pending
  <2> QED BY <1>t, <2>2, <2>3, <2>4 DEF Drift, Settled
<1>12. ASSUME NEW c \in Comsumers, DeqReadHead(c) PROVE Drift'
  <2>1. pc[c] = "read_head" /\ pc'[c] \in {"read_data", "recheck"}
        /\ \A x \in Procs \ {c} : pc'[x] = pc[x]
    BY <1>0, <1>12, <1>b DEF DeqReadHead, Goto, LocalType
  <2>2. pc'[c] # "recheck"
    BY <1>0 DEF Calls, Reading
  <2>3. pc'[c] = "read_data"
    BY <2>1, <2>2
  <2>4. UNCHANGED <<sent, taken, count, crashes>>
    BY <1>12 DEF DeqReadHead, shm, hist, Bounds
  <2> QED BY <1>a, <1>b, <2>1, <2>3, <2>4, DriftKept
<1>13. ASSUME NEW c \in Comsumers, DeqReadData(c) PROVE Drift'
  BY <1>0, <1>13, <1>a, <1>b, DriftKept DEF DeqReadData, Goto, LocalType, hist, Bounds, shm
<1>14. ASSUME NEW c \in Comsumers, DeqStoreHead(c) PROVE Drift'
  <2>1. pc[c] = "store_head" /\ pc'[c] \in {"idle", "recheck"}
        /\ \A x \in Procs \ {c} : pc'[x] = pc[x]
    BY <1>0, <1>14, <1>b DEF DeqStoreHead, Goto, LocalType
  <2>2. NumTaking = 1 /\ NumTaking' = 0
    BY <1>0, <1>b, <2>1, OneComsumer DEF NumTaking, Reading
  <2>3. NumPublishing' = NumPublishing
    BY <1>a, <1>b, <2>1 DEF NumPublishing
  <2>4. taken < Len(sent)
    BY <2>1 DEF IInv, ComsumerInv, Reading
  <2>5. Pending' = Pending - 1 /\ count' = count /\ crashes' = crashes
    <3>1. Len(sent) \in Nat /\ taken \in Nat /\ taken' = taken + 1 /\ sent' = sent
      BY <1>0, <1>14, <2>4 DEF DeqStoreHead, HistType
    <3> QED BY <1>14, <3>1 DEF DeqStoreHead, Bounds, Pending
  <2> QED BY <1>t, <2>2, <2>3, <2>5 DEF Drift, Settled
<1>15. ASSUME NEW x \in Procs, Crash(x) PROVE Drift'
  <2>1. pc'[x] = "idle" /\ \A y \in Procs \ {x} : pc'[y] = pc[y]
    BY <1>0, <1>15 DEF Crash, Goto, LocalType
  <2>2. Pending' = Pending /\ count' = count /\ crashes' = crashes + 1
    BY <1>15 DEF Crash, hist, Pending
  <2>3. CASE x \in Producers
    <3>1. NumTaking' = NumTaking
      BY <1>b, <2>1, <2>3 DEF NumTaking
    <3>2. NumPublishing' = NumPublishing \/ (NumPublishing = 1 /\ NumPublishing' = 0)
      BY <1>a, <2>1, <2>3 DEF NumPublishing
    <3> QED BY <1>t, <2>2, <3>1, <3>2 DEF Drift, Settled
  <2>4. CASE x \in Comsumers
    <3>1. NumPublishing' = NumPublishing
      BY <1>a, <1>b, <2>1, <2>4 DEF NumPublishing
    <3>2. NumTaking' = NumTaking \/ (NumTaking = 1 /\ NumTaking' = 0)
      BY <1>b, <2>1, <2>4 DEF NumTaking
    <3> QED BY <1>t, <2>2, <3>1, <3>2 DEF Drift, Settled
  <2> QED BY <2>3, <2>4 DEF Procs
<1>16. ASSUME NEW x \in Procs, DeqRecheck(x) \/ Clear(x) PROVE FALSE
  BY <1>0, <1>16 DEF DeqRecheck, Clear, ClearHead, ClearTail, ClearCount, Calls, Sending,
     Reading, Procs
<1>17. CASE UNCHANGED vars
  BY <1>17, DriftKept DEF vars, shm, local, hist
<1> QED BY <1>1, <1>2, <1>3, <1>4, <1>5, <1>6, <1>7, <1>8, <1>9, <1>10, <1>11, <1>12, <1>13,
        <1>14, <1>15, <1>16, <1>17, <1>b DEF Next, Enqueue, Dequeue

(***************************************************************************)
(* msg_count is what it is taken for, for any number of workers: between   *)
(* the calls it is the number of messages in the queue, and every worker   *)
(* that is killed inside a call leaves it at most one too low for good.    *)
(* It is never too high, so a comsumer that finds it positive finds a      *)
(* message or another comsumer that has just taken it.                     *)
(***************************************************************************)
THEOREM CountBounded == Spec => []CountDrift
<1>1. Init => Drift
  <2> SUFFICES ASSUME Init PROVE Drift
    OBVIOUS
  <2>1. Pending = 0 /\ count = 0 /\ crashes = 0
    BY DEF Init, Pending
  <2>2. NumPublishing = 0 /\ NumTaking = 0
    BY DEF Init, NumPublishing, NumTaking, Procs
  <2> QED BY <2>1, <2>2 DEF Drift, Settled
<1>2. IInv /\ Drift => CountDrift
  BY DriftIsCountDrift
<1> QED BY <1>1, <1>2, IInvAlways, NextDrift, PTL DEF Spec

(***************************************************************************)
(* The wakeup.                                                             *)
(***************************************************************************)

\* With all comsumers asleep and no byte in the FIFO, nothing is counted, or the
\* producer that counted the first message is about to write the byte.
Asleep  == (\A c \in Comsumers : pc[c] = "wait") /\ ~fifo
WakeInv == crashes = 0 /\ Asleep => count <= 0 \/ \E p \in Producers : pc[p] = "notify"

\* A step that takes nobody to sleep, clears no FIFO, counts nothing and moves no
\* producer away from the FIFO keeps it.
LEMMA WakeKept ==
    ASSUME WakeInv, count' = count, crashes' = crashes,
           Asleep' => Asleep,
           \A p \in Producers : pc[p] = "notify" => pc'[p] = "notify"
    PROVE  WakeInv'
BY DEF WakeInv

\* Every step keeps it: a comsumer sleeps when the count is 0 or the ring is empty,
\* and a count that rises from 0 to 1 sends its producer to the FIFO.
LEMMA NextWake == IInv /\ IInv' /\ Drift /\ WakeInv /\ [Next]_vars => WakeInv'
<1> SUFFICES ASSUME IInv, IInv', Drift, WakeInv, [Next]_vars PROVE WakeInv'
  OBVIOUS
<1>0. LocalType /\ HistType /\ Calls /\ TypeInv /\ TypeInv' /\ Calls'
  BY DEF IInv, TypeInv, TypeOK
<1>a. \A p \in Producers : p \notin Comsumers /\ p \in Procs
  BY ProcsAssumption DEF Procs
<1>b. \A c \in Comsumers : c \notin Producers /\ c \in Procs
  BY ProcsAssumption DEF Procs
<1>t. /\ Pending \in Nat /\ NumPublishing \in 0..1 /\ NumTaking \in 0..1
      /\ Settled \in Int /\ count \in Int /\ crashes \in Nat
  BY <1>0, DriftTypes
<1>1. ASSUME NEW p \in Producers, NEW n \in Lens, Produce(p, n) PROVE WakeInv'
  BY <1>0, <1>1, <1>a, <1>b, WakeKept DEF Produce, Goto, LocalType, shm, Asleep
<1>2. ASSUME NEW p \in Producers, EnqLoadHead(p) PROVE WakeInv'
  BY <1>0, <1>2, <1>a, <1>b, WakeKept DEF EnqLoadHead, Goto, LocalType, shm, Bounds, Asleep
<1>3. ASSUME NEW p \in Producers, EnqLoadTail(p) PROVE WakeInv'
  BY <1>0, <1>3, <1>a, <1>b, WakeKept DEF EnqLoadTail, Goto, LocalType, shm, Bounds,
     Return, CheckFail, Asleep
<1>4. ASSUME NEW p \in Producers, EnqCopyHead(p) \/ EnqCopyData(p) \/ EnqStoreTail(p)
      PROVE  WakeInv'
  BY <1>0, <1>4, <1>a, <1>b, WakeKept DEF EnqCopyHead, EnqCopyData, EnqStoreTail, Goto,
     LocalType, Bounds, Asleep
<1>5. ASSUME NEW p \in Producers, EnqCount(p) PROVE WakeInv'
  <2>1. pc[p] = "count" /\ count' = count + 1 /\ crashes' = crashes /\ fifo' = fifo
    BY <1>5 DEF EnqCount, Bounds
  <2>2. count = 0 => pc'[p] = "notify"
    BY <1>0, <1>5, <1>a DEF EnqCount, Goto, LocalType
  <2>3. Asleep' => Asleep
    <3>1. \A x \in Procs \ {p} : pc'[x] = pc[x]
      BY <1>0, <1>5, <1>a DEF EnqCount, Goto, LocalType, Return
    <3> QED BY <1>a, <1>b, <2>1, <3>1 DEF Asleep
  <2>4. ~\E q \in Producers : pc[q] = "notify"
    BY <1>0, <2>1, OneProducer DEF Sending
  <2>5. crashes = 0 /\ Asleep => count <= 0
    BY <2>4 DEF WakeInv
  <2> QED BY <1>t, <2>1, <2>2, <2>3, <2>5 DEF WakeInv
<1>6. ASSUME NEW p \in Producers, Notify(p) PROVE WakeInv'
  BY <1>6 DEF Notify, WakeInv, Asleep
<1>7. ASSUME NEW c \in Comsumers, pc'[c] # "wait" PROVE WakeInv'
  BY <1>7 DEF WakeInv, Asleep
<1>8. ASSUME NEW c \in Comsumers, Comsume(c) PROVE WakeInv'
  <2>1. CASE c \in Locked /\ count = 0
    BY <1>8, <2>1 DEF Comsume, WakeInv, shm
  <2>2. CASE ~(c \in Locked /\ count = 0)
    BY <1>0, <1>7, <1>8, <1>b, <2>2 DEF Comsume, Goto, LocalType
  <2> QED BY <2>1, <2>2
<1>9. ASSUME NEW c \in Comsumers, DeqLoadTail(c) PROVE WakeInv'
  <2>1. pc[c] = "deq_tail" /\ lh[c] = head /\ UNCHANGED <<count, crashes, fifo>>
    BY <1>9 DEF DeqLoadTail, IInv, ComsumerInv, shm, Bounds
  <2>2. CASE lh[c] = tail
    <3>1. taken = Len(sent)
      <4>1. Depth \in 0..(BlockSize - 1) /\ head \in 0..BlockSize /\ head = Fold(head + Depth)
        BY <2>1, <2>2 DEF IInv, Ring
      <4>2. Depth = 0
        BY <4>1, SizeAssumption DEF Fold
      <4>3. ~(taken < Len(sent))
        <5> SUFFICES ASSUME taken < Len(sent) PROVE FALSE
          OBVIOUS
        <5>1. Total(sent[taken + 1]) \in 4..Depth
          BY <1>0, FirstFrame DEF IInv
        <5> QED BY <4>2, <5>1
      <4> QED BY <1>0, <4>3 DEF HistType
    <3>2. Pending = 0
      BY <1>0, <3>1 DEF Pending, HistType
    <3>3. count <= 0
      BY <1>t, <3>2 DEF Drift, Settled
    <3> QED BY <2>1, <3>3 DEF WakeInv
  <2>3. CASE lh[c] # tail
    <3>1. pc'[c] \in {"wait", "clear_head", "sub"}
      BY <1>0, <1>9, <1>b DEF DeqLoadTail, Goto, LocalType, Return, CheckFail
    <3>2. Valid(lh[c], tail)
      <4>1. head \in 0..BlockSize /\ tail = Fold(head + Depth) /\ Depth \in 0..(BlockSize - 1)
        BY DEF IInv, Ring
      <4> QED BY <2>1, <4>1, SizeAssumption DEF Valid, Fold
    <3>3. pc'[c] = "sub"
      BY <1>0, <1>9, <1>b, <2>3, <3>2 DEF DeqLoadTail, Goto, LocalType
    <3> QED BY <1>7, <3>3
  <2> QED BY <2>2, <2>3
<1>10. ASSUME NEW c \in Comsumers, DeqStoreHead(c) PROVE WakeInv'
  BY <1>0, <1>7, <1>10, <1>b DEF DeqStoreHead, Goto, LocalType
<1>11. ASSUME NEW c \in Comsumers,
              \/ Wake(c) \/ ComsumeLock(c) \/ DeqLoadHead(c) \/ DeqSub(c)
              \/ DeqReadHead(c) \/ DeqReadData(c)
       PROVE  WakeInv'
  <2>1. pc'[c] # "wait"
    BY <1>0, <1>11, <1>b DEF Wake, ComsumeLock, DeqLoadHead, DeqSub, DeqReadHead,
       DeqReadData, Goto, LocalType
  <2> QED BY <1>7, <2>1
<1>12. ASSUME NEW x \in Procs, Crash(x) PROVE WakeInv'
  <2>1. crashes' = crashes + 1 /\ crashes \in Nat
    BY <1>t, <1>12 DEF Crash
  <2>2. crashes' # 0
    BY <2>1
  <2> QED BY <2>2 DEF WakeInv
<1>13. ASSUME NEW x \in Procs, DeqRecheck(x) \/ Clear(x) PROVE FALSE
  BY <1>0, <1>13 DEF DeqRecheck, Clear, ClearHead, ClearTail, ClearCount, Calls, Sending,
     Reading, Procs
<1>14. CASE UNCHANGED vars
  BY <1>14, WakeKept DEF vars, shm, local, Asleep
<1> QED BY <1>1, <1>2, <1>3, <1>4, <1>5, <1>6, <1>8, <1>9, <1>10, <1>11, <1>12, <1>13,
        <1>14, <1>b DEF Next, Enqueue, Dequeue

(***************************************************************************)
(* Until the first worker is killed, the timeout of epoll is not needed:   *)
(* with a message in the ring and no produce under way, a comsumer is      *)
(* awake or the FIFO holds the byte that wakes one.  In particular the     *)
(* count that a comsumer takes down before the producer has added to it    *)
(* loses no wakeup.                                                        *)
(***************************************************************************)
THEOREM WakeupKept == Spec => [](crashes = 0 => NoLostWakeup)
<1>1. Init => Drift /\ WakeInv
  <2> SUFFICES ASSUME Init PROVE Drift /\ WakeInv
    OBVIOUS
  <2>1. Pending = 0 /\ count = 0 /\ crashes = 0
    BY DEF Init, Pending
  <2>2. NumPublishing = 0 /\ NumTaking = 0
    BY DEF Init, NumPublishing, NumTaking, Procs
  <2> QED BY <2>1, <2>2 DEF Drift, Settled, WakeInv
<1>2. IInv /\ Drift /\ WakeInv => (crashes = 0 => NoLostWakeup)
  <2> SUFFICES ASSUME IInv, Drift, WakeInv, crashes = 0, Pending > 0, ~fifo,
                      \A p \in Producers : pc[p] = "idle",
                      \A c \in Comsumers : pc[c] = "wait"
               PROVE  FALSE
    BY DEF NoLostWakeup
  <2>1. count <= 0
    BY DEF WakeInv, Asleep
  <2>2. NumPublishing = 0 /\ NumTaking = 0
    BY DEF NumPublishing, NumTaking
  <2>3. count = Pending /\ Pending \in Nat
    BY <2>2, DriftTypes DEF IInv, Drift, Settled
  <2> QED BY <2>1, <2>3
<1> QED BY <1>1, <1>2, IInvAlways, NextDrift, NextWake, PTL DEF Spec

(***************************************************************************)
(* The refinement of MsgFifo.                                              *)
(***************************************************************************)

\* The messages accepted and not yet delivered.
Waiting == SubSeq(sent, taken + 1, Len(sent))

\* What is left of a sequence of messages behind the first t.
LEMMA RestFacts ==
    ASSUME NEW s \in Seq(Messages), NEW t \in 0..Len(s)
    PROVE  /\ SubSeq(s, t + 1, Len(s)) \in Seq(Messages)
           /\ Len(SubSeq(s, t + 1, Len(s))) = Len(s) - t
           /\ \A i \in 1..(Len(s) - t) : SubSeq(s, t + 1, Len(s))[i] = s[t + i]
<1> DEFINE r == SubSeq(s, t + 1, Len(s))
<1>1. Len(s) \in Nat /\ t + 1 \in Int /\ Len(s) \in Int
  OBVIOUS
<1>2. \A i \in (t + 1)..Len(s) : s[i] \in Messages
  BY <1>1
<1>3. /\ r \in Seq(Messages)
      /\ Len(r) = IF t + 1 <= Len(s) THEN Len(s) - (t + 1) + 1 ELSE 0
      /\ \A i \in 1..(Len(s) - (t + 1) + 1) : r[i] = s[(t + 1) + i - 1]
  BY <1>1, <1>2, SubSeqProperties
<1>4. Len(r) = Len(s) - t
  BY <1>1, <1>3
<1>5. ASSUME NEW i \in 1..(Len(s) - t) PROVE r[i] = s[t + i]
  <2>1. Len(s) - (t + 1) + 1 = Len(s) - t /\ (t + 1) + i - 1 = t + i
    BY <1>1
  <2> QED BY <1>3, <2>1
<1> QED BY <1>3, <1>4, <1>5

\* The messages in the ring, before and after a step.
LEMMA WaitingFacts ==
    ASSUME HistType, HistType'
    PROVE  /\ Len(sent) \in Nat /\ taken \in 0..Len(sent)
           /\ Waiting \in Seq(Messages) /\ Len(Waiting) = Len(sent) - taken
           /\ \A i \in 1..(Len(sent) - taken) : Waiting[i] = sent[taken + i]
           /\ Len(sent') \in Nat /\ taken' \in 0..Len(sent')
           /\ Waiting' \in Seq(Messages) /\ Len(Waiting') = Len(sent') - taken'
           /\ \A i \in 1..(Len(sent') - taken') : Waiting'[i] = sent'[taken' + i]
<1>1. sent \in Seq(Messages) /\ Len(sent) \in Nat /\ taken \in 0..Len(sent)
  BY DEF HistType
<1>2. sent' \in Seq(Messages) /\ Len(sent') \in Nat /\ taken' \in 0..Len(sent')
  BY DEF HistType
<1> QED BY <1>1, <1>2, RestFacts DEF Waiting

\* Two sequences of messages are equal when their lengths and members are.
LEMMA WaitingEqual ==
    ASSUME NEW s \in Seq(Messages), NEW t \in Seq(Messages), Len(s) = Len(t),
           \A i \in 1..Len(s) : s[i] = t[i]
    PROVE  s = t
BY SeqEqual

\* A sequence longer by one element.
LEMMA AppendIs ==
    ASSUME NEW S, NEW s \in Seq(S), NEW x \in S, NEW t \in Seq(S), Len(t) = Len(s) + 1,
           \A i \in 1..Len(s) : t[i] = s[i], t[Len(s) + 1] = x
    PROVE  t = Append(s, x)
<1> DEFINE u == Append(s, x)
<1>1. /\ u \in Seq(S) /\ Len(u) = Len(s) + 1 /\ Len(s) \in Nat
      /\ u[Len(s) + 1] = x /\ \A i \in 1..Len(s) : u[i] = s[i]
  OBVIOUS
<1> HIDE DEF u
<1>2. ASSUME NEW i \in 1..Len(t) PROVE t[i] = u[i]
  <2>1. i \in 1..Len(s) \/ i = Len(s) + 1
    BY <1>1
  <2> QED BY <1>1, <2>1
<1>3. t = u
  BY <1>1, <1>2, SeqEqual
<1> QED BY <1>3 DEF u

\* The store of the tail accepts the message.
LEMMA AcceptStep ==
    ASSUME IInv, IInv', NEW p \in Producers, EnqStoreTail(p)
    PROVE  Fifo!Accept
<1>1. /\ HistType /\ HistType' /\ msg[p] \in Messages /\ sent' = Append(sent, msg[p])
      /\ taken' = taken /\ got' = got
  BY DEF IInv, TypeInv, TypeOK, EnqStoreTail, LocalsOK, Sending
<1>2. Len(sent') = Len(sent) + 1 /\ sent'[Len(sent) + 1] = msg[p]
      /\ \A i \in 1..Len(sent) : sent'[i] = sent[i]
  BY <1>1 DEF HistType
<1>3. /\ Waiting \in Seq(Messages) /\ Len(Waiting) = Len(sent) - taken
      /\ Len(sent) \in Nat /\ taken \in 0..Len(sent)
      /\ \A i \in 1..(Len(sent) - taken) : Waiting[i] = sent[taken + i]
  BY <1>1, WaitingFacts
<1>4. /\ Waiting' \in Seq(Messages) /\ Len(Waiting') = Len(sent') - taken
      /\ \A i \in 1..(Len(sent') - taken) : Waiting'[i] = sent'[taken + i]
  BY <1>1, WaitingFacts
<1>5. Len(Waiting') = Len(Waiting) + 1 /\ Waiting'[Len(Waiting) + 1] = msg[p]
  BY <1>2, <1>3, <1>4
<1>7. ASSUME NEW i \in 1..Len(Waiting) PROVE Waiting'[i] = Waiting[i]
  <2>1. /\ i \in 1..(Len(sent) - taken) /\ i \in 1..(Len(sent') - taken)
        /\ taken + i \in 1..Len(sent)
    BY <1>2, <1>3
  <2> QED BY <1>2, <1>3, <1>4, <2>1
<1>8. Waiting' = Append(Waiting, msg[p])
  BY <1>1, <1>3, <1>4, <1>5, <1>7, AppendIs
<1>9. Waiting' # <<>> /\ Waiting'[Len(Waiting')] = msg[p]
  BY <1>3, <1>5
<1> QED BY <1>1, <1>8, <1>9 DEF Fifo!Accept, Waiting

\* The store of the head delivers the oldest message.
LEMMA DeliverStep ==
    ASSUME IInv, IInv', NEW c \in Comsumers, DeqStoreHead(c)
    PROVE  Fifo!Deliver
<1>1. /\ HistType /\ HistType' /\ sent' = sent
      /\ pc[c] = "store_head"
  BY DEF IInv, TypeInv, TypeOK, DeqStoreHead
<1>2. taken < Len(sent) /\ taken' = taken + 1
  BY <1>1 DEF IInv, ComsumerInv, Reading, DeqStoreHead
<1>3. /\ Len(sent) \in Nat /\ taken \in 0..Len(sent)
      /\ Waiting \in Seq(Messages) /\ Len(Waiting) = Len(sent) - taken
      /\ \A i \in 1..(Len(sent) - taken) : Waiting[i] = sent[taken + i]
      /\ Waiting' \in Seq(Messages) /\ Len(Waiting') = Len(sent) - (taken + 1)
      /\ \A i \in 1..(Len(sent) - (taken + 1)) : Waiting'[i] = sent[taken + 1 + i]
  BY <1>1, <1>2, WaitingFacts
<1>4. Waiting # <<>> /\ Len(Waiting) >= 1 /\ Head(Waiting) = sent[taken + 1]
  BY <1>2, <1>3
<1>5. Waiting' = Tail(Waiting)
  <2>1. /\ Tail(Waiting) \in Seq(Messages) /\ Len(Tail(Waiting)) = Len(Waiting) - 1
        /\ \A i \in 1..(Len(Waiting) - 1) : Tail(Waiting)[i] = Waiting[i + 1]
    BY <1>3, <1>4
  <2>2. Len(Waiting') = Len(Waiting) - 1
    BY <1>2, <1>3
  <2>3. ASSUME NEW i \in 1..(Len(Waiting) - 1) PROVE Waiting'[i] = Tail(Waiting)[i]
    <3>0. i \in 1..(Len(sent) - (taken + 1)) /\ i + 1 \in 1..(Len(sent) - taken)
      BY <1>2, <1>3
    <3>1. Waiting'[i] = sent[taken + 1 + i] /\ Waiting[i + 1] = sent[taken + (i + 1)]
      BY <1>3, <3>0
    <3>2. taken + 1 + i = taken + (i + 1)
      BY <1>3
    <3> QED BY <2>1, <3>1, <3>2
  <2> QED BY <1>3, <2>1, <2>2, <2>3, WaitingEqual
<1>6. got' = Append(got, sent[taken + 1])
  <2>1. /\ got \in Seq(Messages \cup {None}) /\ Len(got) = taken
        /\ \A i \in 1..taken : got[i] = sent[i]
    BY <1>1 DEF IInv, Delivered, HistType
  <2>2. /\ got' \in Seq(Messages \cup {None}) /\ Len(got') = taken + 1
        /\ \A i \in 1..(taken + 1) : got'[i] = sent[i]
    BY <1>1, <1>2 DEF IInv, Delivered, HistType
  <2>3. sent[taken + 1] \in Messages \cup {None}
    BY <1>1, <1>2 DEF HistType
  <2>4. ASSUME NEW i \in 1..taken PROVE got'[i] = got[i]
    <3>1. i \in 1..(taken + 1)
      BY <1>3
    <3> QED BY <2>1, <2>2, <3>1
  <2>5. got'[taken + 1] = sent[taken + 1]
    BY <1>3, <2>2
  <2> QED BY <2>1, <2>2, <2>3, <2>4, <2>5, AppendIs
<1> QED BY <1>4, <1>5, <1>6 DEF Fifo!Deliver, Waiting

\* Every step of the queue is a step of the abstract one, or no step of it.
LEMMA FifoStep == IInv /\ IInv' /\ [Next]_vars => [Fifo!Next]_<<Waiting, got>>
<1> SUFFICES ASSUME IInv, IInv', [Next]_vars PROVE [Fifo!Next]_<<Waiting, got>>
  OBVIOUS
<1>1. ASSUME NEW p \in Producers, EnqStoreTail(p) PROVE Fifo!Next
  BY <1>1, AcceptStep DEF Fifo!Next
<1>2. ASSUME NEW c \in Comsumers, DeqStoreHead(c) PROVE Fifo!Next
  BY <1>2, DeliverStep DEF Fifo!Next
<1>3. ASSUME NEW x \in Procs, DeqRecheck(x) \/ Clear(x) PROVE FALSE
  BY <1>3 DEF IInv, DeqRecheck, Clear, ClearHead, ClearTail, ClearCount, Calls, Sending,
     Reading, Procs
<1>4. CASE UNCHANGED hist
  BY <1>4 DEF hist, Waiting
<1>5. ASSUME NEW p \in Producers, Enqueue(p) \/ \E n \in Lens : Produce(p, n)
      PROVE  EnqStoreTail(p) \/ UNCHANGED hist
  BY <1>5 DEF Enqueue, Produce, EnqLoadHead, EnqLoadTail, EnqCopyHead, EnqCopyData,
     EnqCount, Notify, hist
<1>6. ASSUME NEW c \in Comsumers, Dequeue(c) \/ Wake(c)
      PROVE  DeqStoreHead(c) \/ UNCHANGED hist
  BY <1>6 DEF Dequeue, Wake, Comsume, ComsumeLock, DeqLoadHead, DeqLoadTail, DeqSub,
     DeqReadHead, DeqReadData, DeqRecheck, hist
<1>7. ASSUME NEW x \in Procs, Crash(x) PROVE UNCHANGED hist
  BY <1>7 DEF Crash, hist
<1>8. CASE UNCHANGED vars
  BY <1>4, <1>8 DEF vars
<1> QED BY <1>1, <1>2, <1>3, <1>4, <1>5, <1>6, <1>7, <1>8 DEF Next

(***************************************************************************)
(* The ring, its positions, locks and faults together implement a queue of *)
(* whole messages: the store of *tail_ is the acceptance, the store of     *)
(* *head_ the delivery, and no other step of either end changes what is in *)
(* the queue.  For any number of processes, sizes and kills.               *)
(***************************************************************************)
THEOREM RefinesFifo == Spec => ImplementsFifo
<1>1. Init => Fifo!Init
  <2> SUFFICES ASSUME Init PROVE Fifo!Init
    OBVIOUS
  <2>1. sent = <<>> /\ taken = 0 /\ got = <<>> /\ Len(sent) = 0
    BY DEF Init
  <2>2. SubSeq(sent, taken + 1, Len(sent)) = <<>>
    <3>1. \A i \in 1..0 : sent[i] \in Messages
      OBVIOUS
    <3>2. Waiting \in Seq(Messages) /\ Len(Waiting) = 0
      <4>1. sent \in Seq(Messages) /\ taken \in 0..Len(sent)
        BY <2>1
      <4> QED BY <2>1, <4>1, RestFacts DEF Waiting
    <3> QED BY <3>2 DEF Waiting
  <2> QED BY <2>1, <2>2 DEF Fifo!Init
<1>2. IInv /\ IInv' /\ [Next]_vars
        => [Fifo!Next]_<<SubSeq(sent, taken + 1, Len(sent)), got>>
  BY FifoStep DEF Waiting
<1> QED BY <1>1, <1>2, IInvAlways, PTL DEF Spec, ImplementsFifo, Fifo!Spec
=============================================================================
