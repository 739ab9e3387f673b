------------------------------- MODULE ShmMQ -------------------------------
(***************************************************************************)
(* The shared-memory message queue between the proxy and a worker group    *)
(* (comm/tbase/tshmcommu.cpp).  One instance of the module is one CShmMQ   *)
(* segment: a ring of words with a head and a tail, the word pid_ of the   *)
(* process that is clearing it, and the message count of the statistics    *)
(* block.  Producers call CShmProducer(L)::produce, consumers              *)
(* CShmComsumer(L)::comsume from their main loop; the worker side takes a  *)
(* flock per call, the proxy side is a single process without a lock.      *)
(*                                                                         *)
(* A step is what other processes can see: one load or store of a shared   *)
(* word, one memcpy of a header or of a body.  Stores become visible in    *)
(* program order (x86).  The unit of the ring is the 4-byte word: frames   *)
(* whose length is no multiple of it differ only in where a memcpy splits. *)
(***************************************************************************)
EXTENDS Integers, Sequences, FiniteSets

CONSTANTS
    Producers, Comsumers,   \* the processes on the two ends of the queue
    Locked,                 \* those that use the L classes (workers)
    BlockSize,              \* blocksize_, in words
    BufSize,                \* buff_size_ of the comsumer, in words
    Lens,                   \* data lengths the callers send, in words
    WordMod,                \* 2^32: positions are unsigned
    MaxSend,                \* bound: calls of produce that reach enqueue
    MaxCrash,               \* bound: workers killed
    MaxRestart,             \* bound: restarts of the proxy
    None                    \* no process / no message

Procs == Producers \cup Comsumers

\* The side with more than one process locks (defaultproxy.cpp: the proxy is a
\* single process and needs no lock).
ASSUME ProcsAssumption ==
    /\ Producers \cap Comsumers = {}
    /\ Locked \subseteq Procs
    /\ \A p, q \in Producers : p # q => p \in Locked
    /\ \A c, d \in Comsumers : c # d => c \in Locked
    /\ None \notin Procs

ASSUME SizeAssumption ==
    /\ BlockSize \in Nat /\ BlockSize > 3
    /\ BufSize \in Nat /\ BufSize >= BlockSize
    /\ WordMod \in Nat /\ WordMod > 3 * BlockSize /\ WordMod > BufSize + 4
    /\ Lens \subseteq Nat
    /\ MaxSend \in Nat /\ MaxCrash \in Nat /\ MaxRestart \in Nat

VARIABLES
    head, tail,     \* *head_, *tail_
    clr,            \* *pid_
    count,          \* pstat_->msg_count
    block,          \* block_
    fifo,           \* the notify FIFO holds a byte
    lock,           \* holder of .mq_producer_*.lock and .mq_comsumer_*.lock
    pc,             \* where each process is
    lh, lt,         \* its local copies of head and tail
    msg,            \* the message a producer is sending
    len,            \* total_len a comsumer has read
    buf,            \* the comsumer's buffer, trailing safe area included
    sent, taken,    \* history: published messages, how many left the ring
    got,            \* history: messages handed to CB_RECVDATA
    calls, crashes, restarts

shm   == <<head, tail, clr, count, block, fifo>>
local == <<pc, lh, lt, msg, len, buf>>
hist  == <<sent, taken, got>>
vars  == <<shm, lock, local, hist, calls, crashes, restarts>>
----------------------------------------------------------------------------
(* Frames.  A frame is safe area, total length, flow, data, safe area.      *)

C_HEAD_SIZE     == 2
C_SAFE_AREA_LEN == 1

Total(m) == m.len + C_HEAD_SIZE + 2 * C_SAFE_AREA_LEN

\* A message knows its place in the stream of published words (history).
Messages == [id : 1..MaxSend, len : Lens, at : Nat]

ASSUME NoneAssumption == None \notin Messages

\* A word of the ring is the k-th word of the frame of m; the new segment is zero.
Zero  == [m |-> None, k |-> 0]
Words == {Zero} \cup [m : Messages, k : Nat]

IsMagic(w) == w # Zero /\ (w.k = 0 \/ w.k = Total(w.m) - 1)

\* The value of a word read as total_len.  Words that are no length (flow,
\* data, "SPPX") are taken as larger than the ring; zero is zero.
LenValue(w) == IF w = Zero THEN 0
               ELSE IF w.k = C_SAFE_AREA_LEN THEN Total(w.m) ELSE BlockSize + 1

\* What a buffer of payload words, its safe area dropped, says: the message it
\* is an exact copy of, or none.
Payload(b) ==
    LET m == b[1].m
        d == C_SAFE_AREA_LEN + C_HEAD_SIZE
    IN  IF /\ b[1] # Zero
           /\ Len(b) = m.len + 1
           /\ \A i \in 1..m.len : b[i] = [m |-> m, k |-> d + i - 1]
        THEN m ELSE None

(* Positions.  After the first frame they run in 1..BlockSize: a position is *)
(* folded back only when it passes the end.                                  *)
Index(x) == IF x < BlockSize THEN x ELSE x - BlockSize
Fold(x)  == IF x <= BlockSize THEN x ELSE x - BlockSize

\* Mutant: the free space when the data does not wrap.
FreeLenFlat(h, t) == h + BlockSize - t

FreeLen(h, t) == IF h > t THEN h - t ELSE h + BlockSize - t
UsedLen(h, t) == IF t > h THEN t - h ELSE t + BlockSize - h
Valid(h, t)   == h <= BlockSize /\ t <= BlockSize

\* enqueue: the header words and the rest of the frame of m, laid at t.
Offset(t, i) == IF i >= t THEN i - t ELSE i + BlockSize - t
CopyHead(b, t, m) ==
    [i \in 0..(BlockSize - 1) |->
        IF Offset(t, i) < C_SAFE_AREA_LEN + C_HEAD_SIZE
        THEN [m |-> m, k |-> Offset(t, i)] ELSE b[i]]
CopyData(b, t, m) ==
    [i \in 0..(BlockSize - 1) |->
        IF Offset(t, i) \in (C_SAFE_AREA_LEN + C_HEAD_SIZE)..(Total(m) - 1)
        THEN [m |-> m, k |-> Offset(t, i)]
        ELSE b[i]]

\* enqueue: *tail_ after a frame was laid at t.  Two of the three cases add to
\* cur, what *tail_ holds now; the third stores an absolute position.
NextTail(t, cur, m) ==
    LET tailLen == BlockSize - t
    IN  IF tailLen >= Total(m) THEN (cur + Total(m)) % WordMod
        ELSE IF tailLen >= C_HEAD_SIZE + C_SAFE_AREA_LEN
             THEN (cur + WordMod + Total(m) - BlockSize) % WordMod
             ELSE Total(m) - tailLen

\* dequeue: where the data starts, and *head_ after data and safe area.
DataPos(h)      == Fold(h + C_SAFE_AREA_LEN + C_HEAD_SIZE)

\* Mutant: the data does not fold the head back.
NextHeadStraight(h, n) == DataPos(h) + n - (C_SAFE_AREA_LEN + C_HEAD_SIZE)

NextHead(h, n)  == Fold(DataPos(h) + n - (C_SAFE_AREA_LEN + C_HEAD_SIZE))
----------------------------------------------------------------------------
Sides == {"producer", "comsumer"}
Side(x) == IF x \in Producers THEN "producer" ELSE "comsumer"

Labels == {"idle", "wait", "lock", "enq_head", "enq_tail", "copy_head",
           "copy_data", "store_tail", "count", "notify", "deq_head",
           "deq_tail", "sub", "read_head", "read_data", "store_head",
           "recheck", "clear_head", "clear_tail", "clear_count"}

Init ==
    /\ head = 0 /\ tail = 0 /\ clr = None /\ count = 0
    /\ block = [i \in 0..(BlockSize - 1) |-> Zero]
    /\ fifo = FALSE
    /\ lock = [s \in Sides |-> None]
    /\ pc = [x \in Procs |-> "idle"]
    /\ lh = [x \in Procs |-> 0] /\ lt = [x \in Procs |-> 0]
    /\ msg = [p \in Producers |-> None]
    /\ len = [c \in Comsumers |-> 0]
    /\ buf = [c \in Comsumers |-> <<>>]
    /\ sent = <<>> /\ taken = 0 /\ got = <<>>
    /\ calls = 0 /\ crashes = 0 /\ restarts = 0

Goto(x, l) == pc' = [pc EXCEPT ![x] = l]

\* Mutant: the comsumer side does not lock.
AcquireNoLock(x) == UNCHANGED lock

\* flock(LOCK_EX) of the L classes; the others have no lock.
Acquire(x) ==
    IF x \in Locked
    THEN lock[Side(x)] = None /\ lock' = [lock EXCEPT ![Side(x)] = x]
    ELSE UNCHANGED lock
Release(x) ==
    lock' = IF lock[Side(x)] = x THEN [lock EXCEPT ![Side(x)] = None] ELSE lock

\* The call returns and the L class unlocks.  A comsumer that got nothing goes
\* to wait in epoll, with a timeout, on the FIFO.
Return(x) ==
    /\ Goto(x, IF x \in Comsumers THEN "wait" ELSE "idle")
    /\ Release(x)

\* The history part of a call that publishes, delivers and clears nothing.
Bounds == <<calls, crashes, restarts>>
----------------------------------------------------------------------------
(* produce and enqueue *)

\* The words published so far: where the next frame starts in the stream.
StreamEnd == IF sent = <<>> THEN 0
             ELSE sent[Len(sent)].at + Total(sent[Len(sent)])

Produce(p, n) ==
    /\ pc[p] = "idle" /\ calls < MaxSend
    /\ Acquire(p)
    /\ calls' = calls + 1
    /\ msg' = [msg EXCEPT ![p] = [id |-> calls + 1, len |-> n, at |-> StreamEnd]]
    /\ Goto(p, "enq_head")
    /\ UNCHANGED <<shm, lh, lt, len, buf, hist, crashes, restarts>>

EnqLoadHead(p) ==
    /\ pc[p] = "enq_head"
    /\ lh' = [lh EXCEPT ![p] = head]
    /\ Goto(p, "enq_tail")
    /\ UNCHANGED <<shm, lock, lt, msg, len, buf, hist, Bounds>>

\* Mutant: positions out of range are refused and left as they are.
CheckFailLeave(x) == Return(x)

\* do_check refused the positions: clear, unless another live process does.
CheckFail(x) ==
    IF clr = None THEN Goto(x, "clear_head") /\ UNCHANGED lock ELSE Return(x)

\* Mutant: a frame may fill the ring to the last word.
EnqLoadTailFull(p) ==
    /\ pc[p] = "enq_tail"
    /\ lt' = [lt EXCEPT ![p] = tail]
    /\ IF ~Valid(lh[p], tail) THEN CheckFail(p)
       ELSE IF FreeLen(lh[p], tail) < Total(msg[p]) THEN Return(p)
       ELSE Goto(p, "copy_head") /\ UNCHANGED lock
    /\ UNCHANGED <<shm, lh, msg, len, buf, hist, Bounds>>

EnqLoadTail(p) ==
    /\ pc[p] = "enq_tail"
    /\ lt' = [lt EXCEPT ![p] = tail]
    /\ IF ~Valid(lh[p], tail) THEN CheckFail(p)
       ELSE IF FreeLen(lh[p], tail) <= Total(msg[p]) THEN Return(p)  \* MQFULL
       ELSE Goto(p, "copy_head") /\ UNCHANGED lock
    /\ UNCHANGED <<shm, lh, msg, len, buf, hist, Bounds>>

EnqCopyHead(p) ==
    /\ pc[p] = "copy_head"
    /\ block' = CopyHead(block, lt[p], msg[p])
    /\ Goto(p, "copy_data")
    /\ UNCHANGED <<head, tail, clr, count, fifo, lock, lh, lt, msg, len, buf,
                   hist, Bounds>>

EnqCopyData(p) ==
    /\ pc[p] = "copy_data"
    /\ block' = CopyData(block, lt[p], msg[p])
    /\ Goto(p, "store_tail")
    /\ UNCHANGED <<head, tail, clr, count, fifo, lock, lh, lt, msg, len, buf,
                   hist, Bounds>>

\* *tail_ += n is a load and a store: a clear that comes between them is lost.
EnqStoreTail(p) ==
    /\ pc[p] = "store_tail"
    /\ \E cur \in {tail, lt[p]} : tail' = NextTail(lt[p], cur, msg[p])
    /\ sent' = Append(sent, msg[p])
    /\ Goto(p, "count")
    /\ UNCHANGED <<head, clr, count, block, fifo, lock, lh, lt, msg, len, buf,
                   taken, got, Bounds>>

\* Mutant: the count before the addition is compared with 1.
EnqCountOld(p) ==
    /\ pc[p] = "count"
    /\ count' = count + 1
    /\ IF count = 1 THEN Goto(p, "notify") /\ UNCHANGED lock ELSE Return(p)
    /\ UNCHANGED <<head, tail, clr, block, fifo, lh, lt, msg, len, buf, hist,
                   Bounds>>

\* atomic_add_return; produce writes the FIFO when the result is 1.
EnqCount(p) ==
    /\ pc[p] = "count"
    /\ count' = count + 1
    /\ IF count + 1 = 1 THEN Goto(p, "notify") /\ UNCHANGED lock ELSE Return(p)
    /\ UNCHANGED <<head, tail, clr, block, fifo, lh, lt, msg, len, buf, hist,
                   Bounds>>

Notify(p) ==
    /\ pc[p] = "notify"
    /\ fifo' = TRUE
    /\ Return(p)
    /\ UNCHANGED <<head, tail, clr, count, block, lh, lt, msg, len, buf, hist,
                   Bounds>>
----------------------------------------------------------------------------
(* poll, comsume and dequeue *)

\* Back from epoll: by the FIFO, which is read, or by the timeout.
Wake(c) ==
    /\ pc[c] = "wait"
    /\ fifo' = FALSE
    /\ Goto(c, "idle")
    /\ UNCHANGED <<head, tail, clr, count, block, lock, lh, lt, msg, len, buf,
                   hist, Bounds>>

\* CShmComsumerL looks at the count before it locks; CShmComsumer does not.
Comsume(c) ==
    /\ pc[c] = "idle"
    /\ Goto(c, IF c \in Locked /\ count = 0 THEN "wait" ELSE "lock")
    /\ UNCHANGED <<shm, lock, lh, lt, msg, len, buf, hist, Bounds>>

ComsumeLock(c) ==
    /\ pc[c] = "lock"
    /\ Acquire(c)
    /\ Goto(c, "deq_head")
    /\ UNCHANGED <<shm, lh, lt, msg, len, buf, hist, Bounds>>

DeqLoadHead(c) ==
    /\ pc[c] = "deq_head"
    /\ lh' = [lh EXCEPT ![c] = head]
    /\ Goto(c, "deq_tail")
    /\ UNCHANGED <<shm, lock, lt, msg, len, buf, hist, Bounds>>

DeqLoadTail(c) ==
    /\ pc[c] = "deq_tail"
    /\ lt' = [lt EXCEPT ![c] = tail]
    /\ IF ~Valid(lh[c], tail) THEN CheckFail(c)
       ELSE IF lh[c] = tail THEN Return(c)                          \* MQEMPTY
       ELSE Goto(c, "sub") /\ UNCHANGED lock
    /\ UNCHANGED <<shm, lh, msg, len, buf, hist, Bounds>>

\* Mutant: the count is not taken down.
DeqNoSub(c) ==
    /\ pc[c] = "sub"
    /\ Goto(c, "read_head")
    /\ UNCHANGED <<shm, lock, lh, lt, msg, len, buf, hist, Bounds>>

DeqSub(c) ==
    /\ pc[c] = "sub"
    /\ count' = count - 1
    /\ Goto(c, "read_head")
    /\ UNCHANGED <<head, tail, clr, block, fifo, lock, lh, lt, msg, len, buf,
                   hist, Bounds>>

\* The header copied from lh: is it a frame that fits what was in the ring?
\* data_len is unsigned, so a total_len below the header size is huge.
HeaderOk(c) ==
    LET total == LenValue(block[Index(lh[c] + C_SAFE_AREA_LEN)])
    IN  /\ IsMagic(block[Index(lh[c])])
        /\ total <= UsedLen(lh[c], lt[c])
        /\ (total + WordMod - (C_HEAD_SIZE + C_SAFE_AREA_LEN)) % WordMod <= BufSize

DeqReadHead(c) ==
    /\ pc[c] = "read_head"
    /\ len' = [len EXCEPT ![c] = LenValue(block[Index(lh[c] + C_SAFE_AREA_LEN)])]
    /\ Goto(c, IF HeaderOk(c) THEN "read_data" ELSE "recheck")
    /\ UNCHANGED <<shm, lock, lh, lt, msg, buf, hist, Bounds>>

DeqReadData(c) ==
    /\ pc[c] = "read_data"
    /\ buf' = [buf EXCEPT ![c] =
                 [i \in 1..(len[c] - (C_HEAD_SIZE + C_SAFE_AREA_LEN)) |->
                    block[Index(DataPos(lh[c]) + i - 1)]]]
    /\ Goto(c, "store_head")
    /\ UNCHANGED <<shm, lock, lh, lt, msg, len, hist, Bounds>>

\* *head_ moves on before the trailing safe area is looked at.
DeqStoreHead(c) ==
    /\ pc[c] = "store_head"
    /\ head' = NextHead(lh[c], len[c])
    /\ taken' = IF taken < Len(sent) THEN taken + 1 ELSE taken
    /\ IF IsMagic(buf[c][Len(buf[c])])
       THEN /\ got' = Append(got, Payload(buf[c]))
            /\ Goto(c, "idle")
            /\ Release(c)
       ELSE Goto(c, "recheck") /\ UNCHANGED <<got, lock>>
    /\ UNCHANGED <<tail, clr, count, block, fifo, lh, lt, msg, len, buf, sent,
                   Bounds>>

\* An error path of dequeue: do_check on the present positions; valid ones are
\* cleared too.
DeqRecheck(c) ==
    /\ pc[c] = "recheck"
    /\ IF Valid(head, tail) THEN Goto(c, "clear_head") /\ UNCHANGED lock
       ELSE CheckFail(c)
    /\ UNCHANGED <<shm, lh, lt, msg, len, buf, hist, Bounds>>
----------------------------------------------------------------------------
(* clear: pid_, head_, tail_, pid_, msg_count, in that order.  A store of   *)
(* pid_, which only do_check reads, is one step with its neighbour.         *)

ClearHead(x) ==
    /\ pc[x] = "clear_head"
    /\ clr' = x /\ head' = 0
    /\ Goto(x, "clear_tail")
    /\ UNCHANGED <<tail, count, block, fifo, lock, lh, lt, msg, len, buf, hist,
                   Bounds>>

ClearTail(x) ==
    /\ pc[x] = "clear_tail"
    /\ tail' = 0 /\ clr' = None
    /\ taken' = Len(sent)
    /\ Goto(x, "clear_count")
    /\ UNCHANGED <<head, count, block, fifo, lock, lh, lt, msg, len, buf, sent,
                   got, Bounds>>

ClearCount(x) ==
    /\ pc[x] = "clear_count"
    /\ count' = 0
    /\ Return(x)
    /\ UNCHANGED <<head, tail, clr, block, fifo, lh, lt, msg, len, buf, hist,
                   Bounds>>
----------------------------------------------------------------------------
(* Faults.  The controller kills a worker with SIGKILL wherever it is; the   *)
(* kernel drops its flock; its successor runs init, which stores 0 in pid_.  *)
(* A proxy that died is started again and clears the queue after init.       *)

Crash(x) ==
    /\ x \in Locked /\ crashes < MaxCrash
    /\ crashes' = crashes + 1
    /\ clr' = None
    /\ Goto(x, "idle")
    /\ Release(x)
    /\ UNCHANGED <<head, tail, count, block, fifo, lh, lt, msg, len, buf, hist,
                   calls, restarts>>

Restart(x) ==
    /\ x \notin Locked /\ restarts < MaxRestart
    /\ restarts' = restarts + 1
    /\ clr' = None
    /\ Goto(x, "clear_head")
    /\ UNCHANGED <<head, tail, count, block, fifo, lock, lh, lt, msg, len, buf,
                   hist, calls, crashes>>
----------------------------------------------------------------------------
Enqueue(p) ==
    \/ EnqLoadHead(p) \/ EnqLoadTail(p) \/ EnqCopyHead(p) \/ EnqCopyData(p)
    \/ EnqStoreTail(p) \/ EnqCount(p) \/ Notify(p)

Dequeue(c) ==
    \/ Comsume(c) \/ ComsumeLock(c) \/ DeqLoadHead(c) \/ DeqLoadTail(c)
    \/ DeqSub(c) \/ DeqReadHead(c) \/ DeqReadData(c) \/ DeqStoreHead(c)
    \/ DeqRecheck(c)

Clear(x) == ClearHead(x) \/ ClearTail(x) \/ ClearCount(x)

\* The queue in service: calls of both ends, and workers killed.
Next ==
    \/ \E p \in Producers : Enqueue(p) \/ \E n \in Lens : Produce(p, n)
    \/ \E c \in Comsumers : Dequeue(c) \/ Wake(c)
    \/ \E x \in Procs : Clear(x) \/ Crash(x)

\* ... and the proxy started again while workers run.
NextRestart == Next \/ \E x \in Procs : Restart(x)

Spec == Init /\ [][Next]_vars
SpecRestart == Init /\ [][NextRestart]_vars

\* Every process keeps taking its steps; the epoll timeout makes Wake a step of
\* the comsumer's own.
Fairness ==
    /\ \A p \in Producers : WF_vars(Enqueue(p))
    /\ \A c \in Comsumers : WF_vars(Dequeue(c)) /\ WF_vars(Wake(c))
    /\ \A x \in Procs : WF_vars(Clear(x))

FairSpec == Spec /\ Fairness
FairSpecRestart == SpecRestart /\ Fairness
----------------------------------------------------------------------------
(* Properties *)

Pending == Len(sent) - taken

\* Between *tail_ and the count, between the early atomic_sub and *head_.
Publishing == {p \in Producers : pc[p] = "count"}
Taking     == {c \in Comsumers : pc[c] \in {"read_head", "read_data", "store_head"}}

ShmType ==
    /\ head \in 0..(WordMod - 1) /\ tail \in 0..(WordMod - 1)
    /\ clr \in Procs \cup {None}
    /\ count \in Int
    /\ block \in [0..(BlockSize - 1) -> Words]
    /\ fifo \in BOOLEAN
LocalType ==
    /\ lock \in [Sides -> Procs \cup {None}]
    /\ pc \in [Procs -> Labels]
    /\ lh \in [Procs -> 0..(WordMod - 1)] /\ lt \in [Procs -> 0..(WordMod - 1)]
    /\ msg \in [Producers -> Messages \cup {None}]
    /\ len \in [Comsumers -> Nat]
    /\ buf \in [Comsumers -> Seq(Words)]
HistType ==
    /\ sent \in Seq(Messages)
    /\ taken \in 0..Len(sent)
    /\ got \in Seq(Messages \cup {None})
    /\ calls \in 0..MaxSend /\ crashes \in 0..MaxCrash /\ restarts \in 0..MaxRestart

\* The variables have their types: positions stay unsigned words whatever races
\* with clear, the ring and the buffers hold words.
TypeOK == ShmType /\ LocalType /\ HistType

\* Exactly once, in order, whole: what the comsumers were handed is what the
\* producers published, up to the messages still in the ring.
ExactlyOnce == got = SubSeq(sent, 1, taken)

\* enqueue never lays a word on one that a comsumer has still to read: the
\* pending frames stand in the ring word for word, from *head_ on.
RingIntact ==
    \A i \in (taken + 1)..Len(sent) : \A k \in 0..(Total(sent[i]) - 1) :
        block[Index(head + sent[i].at - sent[taken + 1].at + k)]
            = [m |-> sent[i], k |-> k]

\* No process ever finds the ring corrupt: the error paths that throw the whole
\* queue away are not taken.
NoClear ==
    \A x \in Procs :
        pc[x] \notin {"recheck", "clear_head", "clear_tail", "clear_count"}

\* msg_count is the number of messages in the queue ("msg count in the queue",
\* tshmcommu.h), less those between the update of a position and that of the count;
\* a killed worker can only leave it too low, and by one.
CountDrift ==
    LET settled == Pending - Cardinality(Publishing) - Cardinality(Taking)
    IN  settled - crashes <= count /\ count <= settled

\* The wakeup does not depend on the timeout: with a message in the ring that
\* is counted, somebody is awake or the FIFO holds a byte for them.
NoLostWakeup ==
    Pending > 0 /\ (\A p \in Producers : pc[p] = "idle")
        => fifo \/ \E c \in Comsumers : pc[c] # "wait"

\* What the queue promises, with the ring read as a sequence of messages.
Fifo == INSTANCE MsgFifo
    WITH Message <- Messages,
         queue <- SubSeq(sent, taken + 1, Len(sent)), delivered <- got
ImplementsFifo == Fifo!Spec

\* A response that passes the checks of dequeue is one that a worker sent:
\* memory in disorder is found and thrown away (the comments of dequeue).  The
\* clear of a restarted proxy, which takes no lock, breaks it.
NoTornMessage == \A i \in DOMAIN got : got[i] # None

\* The head a comsumer stores is in the ring, whatever frames a clear that raced
\* with enqueue has left on each other: of the two positions only the tail can
\* be out of range, and dequeue reads no word outside the block.
HeadInRange == head <= BlockSize

\* A published message is handed to a comsumer.
AllDelivered == \A i \in 1..MaxSend : Len(sent) >= i ~> Len(got) >= i

\* Once the proxy has restarted and the workers are done sending, the response
\* queue comes to rest empty: a tail left out of range by a producer that raced
\* with clear is found by do_check and repaired.
Drains == <>[](head = tail)
=============================================================================
