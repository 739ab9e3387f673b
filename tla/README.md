# A TLA+ model of SPP 3.0.1

SPP is a server framework: a *controller* process starts and watches a *proxy*
and groups of *workers*. The proxy accepts client connections and passes requests
to a group through a queue in shared memory; a worker takes a request, runs the
user's plugin on it (in a micro thread, if the plugin uses the synchronous frame)
and returns the response through a second queue.

This directory models the parts of SPP where an error is hard to find by testing:
the queues, the proxy between sockets and queues, the micro thread scheduler with its heap
of timeouts and its two ways to talk to back ends, the asynchronous frame for plugins without micro
threads, and the process monitor. Paths below are relative to `src/src/`.

| module | what it is |
| --- | --- |
| `ShmMQ`, `MsgFifo`, `ShmMQ_proofs`, `ShmMQ_fifo_proofs`, `MCShmMQ` | the shared memory queue, what it promises, proofs, instances for TLC |
| `HeapList`, `HeapList_proofs`, `MCHeapList` | the heap of wakeup times and timers |
| `MtFrame`, `MtFrame_proofs`, `MCMtFrame` | the micro thread scheduler, its pool, epoll, sub threads |
| `ProcMon`, `ProcMon_proofs`, `MCProcMon` | the process monitor of the controller |
| `Proxy`, `Proxy_proofs`, `MCProxy` | the socket acceptor and the proxy around it |
| `MtMsg`, `MtMsg_proofs`, `MCMtMsg` | requests of micro threads over kept, own and shared connections |
| `MtNet`, `MCMtNet` | calls of micro threads over links they share |
| `AsyncCalls`, `NetHandler`, `ParallelNet`, `AsyncFrame`, `AsyncFrame_proofs`, `MCAsyncFrame` | the asynchronous frame: state and nested calls, the two kinds of connection objects, the frame over them |

`tlc -config <run>.cfg <MC module>` checks a run, `tlapm <module>_proofs.tla` the
proofs. `PROJECT.json` lists components, runs, hazards, findings, theorems and, for
every definition, the lines of code it stands for.

## 1. Inventory

### The parts, their state and operations

* **Shared memory queue** (`comm/tbase/tshmcommu.cpp`, class `CShmMQ` with
  `CShmProducer`/`CShmComsumer` and the locking `...L` variants, `CTShmCommu`).
  State: head, tail, `pid_` of a process that clears, a ring of bytes, `msg_count`.
  Operations: `produce`/`enqueue`, `comsume`/`dequeue`, `clear`, `do_check`, `poll`,
  `sendto`. Many processes share it: workers take a `flock`, the proxy does not. Correct
  when it is a FIFO: every accepted message is handed over once, whole, in order,
  whoever is killed meanwhile.
* **Wakeup FIFO** (`comm/tbase/notify.cpp`). One byte in a named pipe wakes the
  other end's epoll. Correct when no message waits for nobody.
* **Heap** (`sync_frame/micro_thread/heap.h`, `heap_timer.cpp`). An array of entries
  that know their slot. Correct when the slot numbers are exact and the top is an
  entry that is due first.
* **Micro threads** (`micro_thread.cpp`, `mt_api.cpp`, `epoll_proxy.cpp`). State: run,
  sleep, IO and pend lists, the pool with its counters, flags of each thread, the epoll
  object of each fd. Operations: create, sleep, `WaitNotify`, `EpollSchedule`,
  `mt_exec_all_task`, exit, the daemon's loop. Correct when a thread is in one place,
  comes back from a wait for a reason and some time, and nothing points to a deleted
  thread.
* **Requests of micro threads** (`mt_concurrent.cpp`, `mt_action.cpp`, `mt_connection.cpp`,
  `mt_notify.cpp`, `mt_session.cpp`). State: actions with their errno and flags, three kinds of
  connection with a pool each, the idle TCP connections with timer and epoll object, the table of
  UDP sessions and the socket they share. Operations: `mt_msg_sendrcv` (open, send and receive in
  passes around one poll), `IMtAction::Reset`, idle timers and hangups. Correct when a connection
  has one holder, an idle one is fit for the next request, and a request gets its own answer or an
  error in time.
* **Links of micro threads** (`mt_net.cpp`, `mt_cache.cpp`). State: per link four lists of calls,
  its caches, what is written in part; destinations with their links and timers; the session
  table. Operations: `SendRecv`, the events of a link, `timer_notify`. Correct when every call is
  on the list its flag says, pieces of requests do not mix, an answer finds its call, and what is
  idle is freed.
* **Process monitor and controller** (`comm/tbase/tprocmon.cpp`,
  `controller/defaultctrl.cpp`). State: the list and number of processes of each group,
  the state of its reload, `reload_tag` with the processes a reload replaces. Operations:
  heartbeats and exceptions read from a System V queue, sizing of the group, dead
  processes replaced, reload in four stages, quit. Correct when a group always gets its
  workers back, and a reload ends with all old workers dead and never drops to workers
  that cannot serve yet.
* **Proxy** (`proxy/defaultproxy.cpp`) and **socket acceptor** (`comm/tbase/tsockcommu/`).
  State: a table of connections indexed by flow number, a receive and a send cache each, edge
  triggered epoll, the read buffer. Operations: `poll` (accept, receive, send from the cache),
  the callbacks that cut requests and queue them, `sendto` and close for the workers, expiry.
  Correct when clients get whole answers to their own requests, requests are passed on whole, once,
  in order, and no connection is forgotten.
* **Worker** (`worker/defaultworker.cpp`): main loop around the queues, plugin calls,
  reports to the monitor, end by signal.
* **Asynchronous frame** (`async_frame/`). State: requests with their number, the sets of actions of
  their current states, connection objects with one action and a list of waiting ones or with lists of
  actions being sent and awaiting answers, the tables of idle objects. Operations: `Process`, the start
  of a state, the events and timers of a connection object, the end of an action, which calls the
  plugin and may start the next state at once. Correct when every action ends once, the request
  goes on exactly when the last one has, nothing deleted is used by a caller further up, an action gets
  its own answer and every request ends.
* **Asynchronous sessions** (`async/`): a second set of back-end connections for such plugins.
* **Nest** (`nest/`): the cluster variant of controller, proxy and worker.
* Configuration, logging, statistics and reporting (`comm/`): I/O and counters.

### How they interact

The proxy and the workers share only the two queues and the FIFO per group. The
controller knows workers by the messages in its queue and by `kill(pid, 0)`; it acts
on them by signals, SIGKILL included, so a worker may end between any two of its
stores to the shared memory. Inside a worker, micro threads share everything and
switch only in scheduler calls; the daemon thread, which polls and handles timeouts,
runs when no other is runnable. Nothing is persisted except the shared memory
segments, which outlive their processes.

### What is hard here

Interleavings of processes on the ring with copies of positions that are stale; kills
between two stores; a restarted proxy that clears a queue in use; the boundaries of the
ring; lost wakeups; events, timeouts and notifications that meet; pointers to stack
objects of other threads; edges of epoll that come once; flow numbers, session ids and
connection objects that are used again while an old answer is under way; requests and answers
in pieces; callbacks that start new work on the object that called them; late and nested messages in
the monitor; a reload during a reload. `PROJECT.json` lists each at its line, with the properties that cover it.

## 2. The models

### ShmMQ: one shared memory queue

One instance is one segment with its producers and comsumers; a request queue has one
producer without lock (proxy) and locked comsumers (workers), a response queue the
reverse. The steps are the loads and stores that other processes can see: `EnqLoadHead`,
`EnqLoadTail` (with the test of the free space), `EnqCopyHead`, `EnqCopyData`,
`EnqStoreTail`, `EnqCount`, `Notify`; `Comsume`, `ComsumeLock`, `DeqLoadHead`,
`DeqLoadTail`, `DeqSub`, `DeqReadHead`, `DeqReadData`, `DeqStoreHead`, `DeqRecheck`;
`ClearHead`, `ClearTail`, `ClearCount`; `Wake` is the return from epoll. Stores become
visible in program order, as on x86. `*tail_ += n` may use a value loaded before a
clear. Positions are unsigned words (`WordMod` for 2^32). A word of the ring is "the k-th
word of the frame of message m": copies that mix frames, wrong lengths and wrong magic
numbers are all visible. `Crash` kills a worker anywhere: its flock is dropped and its
successor starts. `Restart` is a proxy that starts again and clears the queue.

The unit is the 4-byte word (frames with other lengths only split elsewhere). Left out:
time stamps, statistics other than `msg_count`, the registration of callbacks.

`MsgFifo` is the abstract specification: a sequence, `Accept` and `Deliver`. The
refinement mapping reads the ring as the published messages not yet taken.

### HeapList: the heap

`HeapPush`, `HeapPop`, `HeapDelete` and one step per iteration of `HeapUp` and
`HeapDown`. Deletes are anywhere, as by events that wake a waiting thread and by `stop_timer`.
The history variable `lost` is set by the `HeapDelete` that puts the last entry below a father
that is due later (finding 2). `HeapResize` runs once, before use.

### MtFrame: the scheduler

One process, one thread at a time. The functions of the code (`InsertSleep`,
`RemoveIoWait`, `FreeThread`, `WakeupParent`, `ThreadSchdule`, ...) are operators on a
record `fr`, composed by the actions in the order of the calls. `EpollSchedule` is two
actions with the switch between them, and a third one for `EpollAdd` failing half way;
`mt_exec_all_task` and the daemon's loop take a step per iteration. Which events arrive,
how much time passes and when allocation fails are choices. `NotifyThread` is the
callback of `mt_net.cpp`. Because of the finding about `HeapDelete`, `HeapTops` allows any
entry as the top of a heap that can hold six or more.

Any thread may close an fd and get its number again (`Close`, `Socket`), also while another waits
for it. So there are three views of an fd: `open`, `watch` (epoll does watch it; a close ends that)
and `listen` (the frame's FdRef has events and it believes so). `epoll_ctl` fails for an fd
that is closed. It also fails for one that was opened again and is not watched, if the delete is an `EPOLL_CTL_MOD`
because other events remain; an `EPOLL_CTL_DEL` forgives it. The masks are not in the model, so both
outcomes are possible there (`DelFails`). When a delete fails, `EpollCtlDel` puts the object back, and
`EpollBack` returns all the same. `EpollCtlAdd` accepts an fd without an object or with the same one; the object is
on the stack of the caller, and that of a deleted thread may be at an address used again (`Free`).

Times are kept as what is left, never below 0; they and the fds of a wait are not kept between two
calls, which set them before they are read. Left out: contexts and stacks, the wrapped
socket calls other than socket and close (callers of `EpollSchedule`), separate read and write masks.

### ProcMon: the process monitor

One group. Worker side: `Report` (first message, before `spp_handle_init`), `Ready`,
`Time`/`Beat` (the look at the signal flags and the report are two steps), `Quit`, `Die`,
`Fault` (slow start, hang, crash with an exception message, silent death). Monitor side:
`Recv`, a message a step, in `do_recv(0)` and in `do_recv(pid)` of a running `do_event`;
the four stages of the reload; `CheckGroup`, `ProcUp`...`ProcUpDone`, `CheckProc`,
`DeadKill`/`DeadProbe`/`DeadDel`; the main loop with `Sleep` and `Reload`. Calls of
`do_event` that run are a stack, because an exception read inside one starts another.
When the inner call has deleted the process, the outer one reads freed memory:
`DeadDel` then allows both outcomes for the count. `InUse` is the test for `GROUP_UNUSED`.

Time is a choice: a waiting period may or may not be over. Kept from the constants of
the code: a worker reports at most once per round of the controller (the interval of
reports is longer than the 3 seconds of sleep); only a process that was dead or hung before
the round can have missed its heartbeat limit; after `ADJUST_PROC_DELAY` what was forked has
reported, unless it is slow, which is a fault. The load (`check_groupbusy`) is a choice.
A pid is used again only when the monitor and the queue no longer know it. Left out:
`killall`, queries and dumps, several groups, exit signals other than the default SIGKILL.

### Proxy: sockets, connection table, workers

`EpollWait` takes the events of one `epoll_wait`; `HandleAccept`, `HandleUdp`, `HandleOut` and
`HandleIn` (one read of the loop of `poll` each) handle them one by one, `CheckExpire` closes old
connections, `CtorPoll` is the other half of the main loop, which takes responses
(`SendData`) and closes (`SendClose`) from the queue. Slots and flow numbers, the
retry counter, the fin bit, the limit of the send cache, the denial by address and overload and
the return values of `spp_handle_input` are in the model; sizes are units, a request is two of
them, so each may come or go in part. Kernel: a socket has an edge flag that is set by arrivals
and by `epoll_ctl`, and cleared when reported; when the reads of an event run out, nothing sets it
again. The queues are FIFOs (`MsgFifo`'s promise); the
workers answer late, more than once, close, or never answer.

Left out: the per-connection expiry check right after a read (it cannot fire: the time stamp is
new), events that report an error and nothing else, a plugin that names an unknown group or more
bytes than there are, failures of `realloc`, statistics. `FlowCap` bounds the numbers a full table
burns for UDP.

### MtMsg: requests over connections

A thread runs without interruption from one poll to the next, as micro threads do. `w` holds the
objects: actions, connections, pools, idle list, session table, the shared UDP socket; the functions
of the code (`GetConnection`, `FreeConnection`, `IdleAttach`, `IdleDetach`, `Reset`, `EpollAdd`, ...)
are operators on it, and the passes to open, send and receive, the poll and the error path are the
actions of a thread. The daemon handles events of idle and of busy connections in any order, sets the
clock, wakes threads and runs expired idle timers. A thread's time is 0, 1 (passing) or 2 (over).
Back ends answer late, twice or never, and close.

Left out: an action object used for a second call, the limits of the pools of free objects, buffers.

### MtNet: calls over shared links

The same division of time: threads run up to `WaitNotify`; then `EpollWait` picks the links with
events, each of which is one step (`HangupNotify`, `InputNotify` with the dispatch of the answers and
the output that follows it, `OutputOnly`), `Clock` wakes threads, `TimerNotify` closes idle links of a
destination. A request is two pieces and so is an answer; `wire` is what the far end has received
of a request not complete yet, and what it makes of the stream is external. `torn` marks a link where
a call gave up with a part of its request written.

Left out: `RecycleItem`, calls that only send, the limit of 64 buffers per `writev`, the default
callback for answers that nobody waits for, checks of parameters for NULL, growth of buffers.

### AsyncFrame: requests, actions, connection objects

Everything runs in one thread and nothing blocks; what is hard is that calls nest. `stack` holds the
calls that go on after the call they made, each with the locals it still uses; the first of it takes
the next step, and events come only when it is empty. `NetHandler` (`CNetHandler`) and `ParallelNet`
(`CParallelNetHandler`) have an action per function that calls the plugin and goes on
(`StartActionProcess`, `TryNextAction` with `PopFront`, `TellRecving` and `DropFront` of
`DoErrorFinished`, `EraseRecving`, `AfterTimeout`) and one per event. `AsyncFrame` adds `CNetMgr`
(`GetHandler`, `RecycleHandler`, `CheckIdleHander`), `CActionSet` (`StartAction`, an action at a time, and
`HandleFinished`) and `CAsyncFrame` (`Process`, `HandleEncode`, `HandleProcess` with the deletion put
off by one set). `Confs` gives the number of requests and the types of the actions in each state.
What the plugin returns, whether a route is found, what the kernel takes or refuses and which timers are
due are choices.

The far end answers a request at most once, and only requests that are meant to be answered.
There is one destination. An event that reports input and output is taken as two; the model lets
output come at any time, so this loses nothing. Left out: packages that arrive in part, the
reports to L5, static routes, `FiniFrame`.

## 3. Runs

| run | instance | shows |
| --- | --- | --- |
| `shm_request` | 1 proxy, 2 workers, 3 messages, fair | `NoLostWakeup`, refinement of `MsgFifo`, `AllDelivered` |
| `shm_request_crash` | the same, 2 workers killed | `RingIntact`, `ExactlyOnce`, `NoClear`, `CountDrift` |
| `shm_response_restart` | 2 workers send, 1 killed, proxy restarted, fair | `HeadInRange`, `Drains` |
| `heap_delete` | 6 slots, 6 entries, 3 values, deletes anywhere | `IndexExact`, `TopUntilLost` |
| `frame` | main thread, 2 pool threads, daemon, 2 fds closed and opened again | `OnePlace`, `WokenForReason`, `EpollClosed`, `PoolSound` |
| `frame_live` | the same with 1 fd, fair | `WakesUp` |
| `procmon` | group of 1 to 2, restarts by exception, 1 fault, 1 reload, fair | count, separation and end of the reload, ready workers, recovery |
| `procmon_exception` | 3 pids, 2 faults, restarts by exception | `StaysInUse` is **violated** |
| `proxy` | 1 TCP connection with 2 requests, 1 datagram, 2 slots, flow numbers that wrap, 2 reads of 1 unit per event, fair | `TableExact`, `RightAnswers`, `InOrder`, `Served` |
| `msg` | 2 requests of all kinds, in one call, in two, or by two threads, fair | `ConnExact`, `AnswerSeen`, `OwnAnswer`, `CallEnds` |
| `net` | 3 calls of 2 threads over 1 TCP, 1 UDP or 2 UDP links, fair | `BooksExact`, `OwnAnswer`, `NoMix`, `NoneForgotten`, `CallEnds`, `IdleClosed` |
| `async` | 3 requests over a connection with waiting actions, 2 over short and kept ones, 2 with parallel actions, fair | `HandlersExact`, `UseLive`, `OwnAnswer`, `RequestEnds` |

Properties that are conjunctions (`OnePlace`, `PoolSound`, `TableExact`, `RightAnswers`, `Served`, `ConnExact`,
`BooksExact`, `NoneForgotten`) have named parts with a comment each; `PROJECT.json` has a mutant for
each part that says something of its own.

### Bounds, and why they are enough

* ShmMQ: a ring of 11 words with frames of 5 and 6 words. Within three frames the header
  wraps, the data wraps, a frame ends exactly at the end of the ring, and a frame of exactly
  the free space is refused; two workers are the least that can race. The proofs drop the bound
  for the safety properties, and `HeadStays` that for the head with restarts. Two responses and a clear are
  enough for a tail out of range, which `Drains` is about; they are not enough for a torn response (finding 3).
* HeapList: `HeapDelete` can break the order only with six entries (the last entry must come
  from the other subtree); the run has six.
* MtFrame: two pool threads and the main thread give a parent with two sub threads, a pool
  that is exhausted and one that is trimmed; two fds give two events of one thread in one
  `epoll_wait`. Both may be closed at a time (`MaxClosed`). `MaxWork` bounds the threads made between two runs of the daemon: the code's
  bound is in `SyncFrame::HandleSwitch`, which sleeps after ten requests or a hundred loops.
* ProcMon: two pids make an old and a new worker, or one to keep and one to stop; a ghost (a
  dead process that a late heartbeat brings back) needs one fault or one reload. One worker that crashes while it is
  stopped makes a `do_event` run inside another, and the count short; `CountKept` is the general case.
* Proxy: two slots and flow numbers that start two below the last one make the number wrap, skip 0
  and meet a slot in use; a connection and a datagram that leave and whose answers are late make a
  slot be used again. An event takes at most two reads of one unit, so the reads run out, at the
  end of a request and in the middle of one, while a client with four units has more to send. That one read
  brings the ends of several requests is left to `RequestsInOrder`, which is proved for reads of any length.
* MtMsg: two requests are enough for a connection to be left by one call and taken by the next, for
  answers to cross on the shared socket, and for one of two to fail.
* MtNet: three calls of two threads give a second call behind a first, partly written one, a link
  destroyed under two calls, and a late answer of a call that ended. The requests are two pieces.
* AsyncFrame: three requests on one connection give one under way and two that wait, of which one
  may expire and one start. Two actions in a state make a set that is complete only with the second.
  The second state, on another connection, runs inside the end of the first. Two timeouts close a
  connection with parallel actions.

### Fairness

* ShmMQ: weak fairness of each process. `Wake` is a step of the comsumer's own because
  epoll has a timeout. No fairness on sending, kills or restarts.
* MtFrame: weak fairness of the running thread's steps and of the daemon, and of giving up
  the processor: a thread that computes for ever stops the process, in the code as well.
  Strong fairness of an advance of the clock by `MaxTimeout`: the clock runs.
* ProcMon: weak fairness of the controller and of each worker that does not hang, and of
  SIGKILL. Strong fairness of "the waiting period is over" for check_group, check_proc, the
  wait for new workers and the wait for old ones: each is a fixed number of seconds.
* Proxy: weak fairness of the main loop, which never blocks for long, and of a client that reads what
  it was sent; none of clients that send, of workers that answer, or of expiry.
* MtMsg: weak fairness of the process (threads and the daemon's round) and strong fairness of a tick
  of the clock for every call under way. None of back ends.
* MtNet: weak fairness of threads and of the daemon's loop, and of handling each event and timer that
  was reported; strong fairness of a deadline that passes for all. None of the far end.
* AsyncFrame: weak fairness of a call under way, and of some timer that is due: `CheckExpired` runs all of
  them in every round of the main loop. None of events, of new requests or of the far end.

## 4. Proofs

All for every value of the constants (any ring size, any number of processes, messages,
entries, faults), from the assumptions named in the modules.

**ShmMQ_proofs.** `Typing` and `HeadStays` hold with proxy restarts: a position is
either stored by `clear`, computed modulo 2^32, or the head computed from a checked copy.
`RingSafety`, `Delivery` and `NeverCleared` hold with kills and without restarts. None of
them is inductive. The invariant `IInv` adds: `Stream` (the published messages lie one
behind the other in a stream of words), `Ring` (the words between head and tail are the
pending frames, less than a whole ring), `Calls` (who holds a lock is inside a call, and
only they), `ProducerInv` (a producer's copy of the head is at most one that was true before,
so its free space is an underestimate; its copy of the tail is the tail; what it has laid
stands behind the tail) and `ComsumerInv` (the head is the comsumer's copy; the length and
the data it has read are those of the first pending frame). The argument is that one
producer and one comsumer work at a time (`OneProducer`, `OneComsumer`), and that a frame laid
at the tail within the free space touches no word between head and tail (`CopyOutside`,
`WindowFacts`).

**ShmMQ_fifo_proofs.** Three results on top of `IInv`. `CountBounded`: `msg_count` differs from the
number of pending messages only by the calls under way and by one per kill, because the
processes that hold a message already published and not yet counted, or taken and not yet
subtracted, are exactly those at two program counters (`Drift`); each step moves one process in or
out of these sets, whose sizes the finite set theorems follow. `WakeupKept`: a comsumer goes to sleep
only after it found the count at 0, so while all sleep and no byte is in the FIFO either the
count is 0 or a producer stands between its count and its notification (`WakeInv`); it holds as long as nobody
was killed: a worker killed between the two leaves a message that only the timeout finds, which is
what the count being too low means. `RefinesFifo`: the publication is `EnqStoreTail`, the delivery
`DeqStoreHead`, every other step changes neither `sent`, `taken` nor `got`.

**MtFrame_proofs.** `OnePlace`, `PoolSound`, `EpollClosed` and `WokenForReason` are none of
them inductive alone. The invariant `IInv` joins them with the places of the program counters:
`Placed` (every thread that exists is in one list, runs, or is on the task list of
`mt_exec_all_task`), `Flagged` (the flags say in which), `Family` (parents and sub
threads point to each other, sub threads are neither free nor unstarted), `Stage` (the label where a thread
goes on fits its list), `Pooled` (the counters), `Watched` (what epoll watches has the object of a thread inside
`EpollSchedule`), `Executing` and `Woken`. `Watched` holds although failed deletes leave objects behind, because such an
fd stays in `listen`, and `epoll_ctl` adds no fd in `listen` again until a delete has succeeded. It also needs `Registered`: what epoll watches is open and
in `listen`, and the events at hand are of watched fds: between `epoll_wait` and the last of them
only the daemon runs, so no fd is closed meanwhile. An
action is several calls of the frame one after the other, and between two of them a thread is in no
list; so the parts that talk about lists, `MidInv`, have the set of threads in the caller's hands as a
parameter, each call has a lemma saying which it takes and which it puts down, and an
action is proved as the chain of its calls.

**Proxy_proofs.** `TableIsExact` (`TableExact`) and `RequestsInOrder` (`InOrder`), for any number of
connections, datagrams, slots, flow numbers and requests. Neither is inductive: the
handlers find a connection by a flow number they took from an event some steps ago, and flow numbers
are used again. The invariant `IInv` has four parts: `Sound` (a slot is free as a whole or
holds a number that belongs there; open sockets and TCP slots correspond), `Events` (every event of the round
still to be handled is of a connection that is open, under the number in the event, one event each; the event in
work is of an open connection or, after a failed send, of a number that no slot has), `Streams` (what a slot
and its socket hold continues the client's stream right after the requests passed on, at
a request boundary) and `Typed`. `Events` holds because within a round a connection is closed
only by its own event, and expiries and the workers' closes come when no event is left. A
table changes in three ways, each with its lemmas: data moves and slots stay (`Like`, `Data`), connections close
(`Closed`), one opens (`OpenSlot`, `FillSlot`). The number of requests that `ator_recvdata_v2`
cuts off one read is reached by the least counterexample of a set of numbers (`Least`).

**MtMsg_proofs.** `ConnsExact` (`ConnExact`), `AnswersSeen` (`AnswerSeen`) and `OwnAnswers` (the action
property `OwnAnswer`), for any number of threads, actions, calls, actions in a call and kinds of request. The
invariant `IInv` relates what the code keeps apart. `TabOk`: an action and its connection point to
each other, every connection object is in one place, the idle ones are watched, timed and, unless late, clean, the free ones as new. `ActOk`:
what the connection of a request holds, by how far the request has come; a kept or own
connection holds nothing before the request is sent and at most its own answer after (`Stream`), that
of a session the answer to the session together with its event (`Session`). `ThreadOk`: how
far each action of a call has come, by the position of the thread in its list (`StageOk`), and
that the thread polls for actions of its call, each once, that have something to wait for (`WaitOk`). This part is why a connection that
goes back to the idle list is clean: a request that was sent either has its
answer, has an error, or the call is late. `WatchOk`: whatever epoll watches for a thread, some
thread waits for. `CurOk`: between two polls a thread keeps the processor, so the
daemon touches a connection only while its user polls. Most steps concern one action, and one lemma
(`StepOk`) carries the rest of the tables over them; the others are polls (`PolledFrame`), taking (`GivenOk`) and giving back
(`FreedOk`) a connection, and events (`HappensOk`). Two hypotheses, both needed: `EpollFails = FALSE`
(finding 9 is what happens otherwise) and, for the two about answers, `KeepActs = FALSE`: a session
object that outlives its call stays in the table with a connection that may be another's by then, which
`ISession` leaves to its user. `FairSpec`, which the run uses, implies `Spec`.

**AsyncFrame_proofs.** `AsyncOwnAnswer` (`OwnAnswer`), for any number of requests, states, actions, connection
objects and limits. `OwnAnswer` is about a `CNetHandler` only when an answer arrives, but whether the object
then has the right action was settled by calls that nest. The invariant `IInv` says of an
object (`HandlerOk`) that the far end owes it at most the answer of the action being
received; of a parallel connection (`ParallelOk`) that only the first of its sending list can have lost its
action, the one `DropFront` takes off; and of the calls under way (`Sound`) what each may rely on when it goes on:
`StartActionProcess` and `TryNextAction` are only ever the innermost call (`Top`); below it (`Calm`), a call of
the first state of a request is the outermost, because events alone start requests, and a `PopFront`
finds its object without an action and is the only one for it. The last is the point: between the
call that tells an expired action of its failure and the `pop_front` after it, nobody may give the object a new action.
Each way to push calls (`Under`) and to change an object beneath them has its lemma, and each action is
proved from those. One hypothesis, `WaitFirst`: only the first state of a request has
actions on a connection with waiting actions. All instances of the run satisfy it and it is needed: without it a plugin
may start such an action on the very object whose `TryNextAction` is under way (finding 11).

**HeapList_proofs.** `HeapTyping` and `Places` by `PlaceInv`, which adds what is known
about the entry being taken out. `MinOnTop` (`TopUntilLost`), for all pushes, pops and deletes, by
`OrderInv`: as long as no `HeapDelete` has lost the order, the heap is ordered except at the
position of the loop, and there the father of the position is not above its grandsons. It says that
the missing rise in `HeapDelete` is the only fault of the heap.

**ProcMon_proofs.** `GroupStep` says what a step can do to the lists. `ReloadApart` follows
from it. `ReloadComplete` (one reload signal) needs `ReplacedInv`: the live processes that the
reload replaced are in `reload_tag`. `CountKept` (`CountShort`) holds
with and without restarts by exception. Without them it needs `CountInv`: one `do_event` at a time, for a
process that is on the list, so the count is exact. With them it needs `DriftInv`: a worker that has
sent an exception sends nothing more (`QueueInv`), so calls of `do_event` nest at most once; what the count is
short by, the exceptions still in the queue and a nested call together are at most the
faults. `JoinsReady` needs `MsgInv`: the
queue never holds a message that says more of a worker than it has reached.

Model-checked only: all liveness (`AllDelivered`, `Drains`, `WakesUp`, `ReloadEnds`,
`Recovers`, `Served`, `CallEnds`, `IdleClosed`, `RequestEnds`), which is beyond the prover; `RightAnswers` of Proxy, which is true only while a late
answer meets no connection with a reused number; all of MtNet; `HandlersExact` and `UseLive` of AsyncFrame.

## 5. Findings

Finding 1 is shown by a run that is violated, the others by a run with a constant changed, another property
or an exemption taken out, given in brackets.

1. `tprocmon.cpp:808`: an exception that is read inside `do_event` counts a process down
   twice; the count can reach -1, the mark of an unused group, and the group is then not
   looked after any more (`StaysInUse`, run `procmon_exception`). `CountKept` bounds the damage: one for each
   fault, never too high, and none where exceptions restart nothing. `Recovers` exempts only a group
   that is taken for an unused one.
2. `heap.h:373`: `HeapDelete` sinks the entry it moves and never lets it rise. With six entries the
   top may not be the one that is due first, against `micro_thread.h:524`, and `WakeupTimeout` stops at
   it. `MinOnTop` proves that nothing else does this. (`TopIsMin` in `heap_delete.cfg`.)
3. `tshmcommu.cpp:253`: `enqueue` lays its frame at the tail it has read and adds its length to the tail
   it finds. If a restarted proxy clears the queue in between, the tail points into the frame; the
   next frame is laid over its end, and the proxy delivers a response made of both, which passes
   every check, against the comment at `tshmcommu.cpp:396`. (`NoTornMessage` in `shm_response_restart.cfg` with
   three messages: `MaxSend = 3`, `BlockSize = 13`, `BufSize = 14`, `Lens = {1, 4}`, `MaxCrash = 0`, and `SpecRestart`.)
4. `tsockcommu.cpp:650`: `poll` stops after `retry_cnt` reads, although the buffer was filled each time,
   and does not ask the edge triggered epoll again: what is left is read only if the client sends
   more or closes, against the rule of `tconnset.cpp:142` and `tsockcommu.cpp:702` that only a read
   which does not fill the buffer is the last. `Served` is what remains true: an edge is
   followed by reads until nothing is left or the reads run out, and a later edge goes on there.
   (`AllRead` with `Expire = FALSE` in `proxy.cfg`.)
5. `epoll_proxy.cpp:534`: when a thread waits for an fd that another one closes, `epoll_ctl` fails on the
   way back and `EpollSchedule` returns with the object of its caller's stack on the FdRef, against
   `micro_thread.cpp:1063`. `EpollIsClosed` proves that epoll never reports to
   such an object; but no other thread can wait for that fd number any more. (`NoneLeft` in `frame.cfg`.)
6. `tshmcommu.cpp:355`: a worker killed between `atomic_sub` and the store of the head leaves
   `msg_count` ("msg count in the queue", `tshmcommu.h:53`) too low for good, so that the last message
   stays unread until another arrives. `CountDrift` bounds the damage: one per kill, never too high.
   (`AllDelivered` with `MaxCrash = 1` in `shm_request.cfg`.)
7. `tprocmon.cpp:849`: a second reload overwrites `reload_tag` and forgets the old workers of the
   first. (`OldGone` with `MaxReload = 2` in `procmon.cfg`.)
8. `mt_concurrent.cpp:296`: when the deadline passes in the pass that has just sent a request, its
   action is in no list and its errno stays `ERR_NONE`; `IMtAction::Reset` then keeps the TCP
   connection, which owes an answer, for the next request, against the comment at `mt_action.cpp:39`
   that only success lets it be used again. (`IdleCleanInTime` without `late`; `OwnAnswer` exempts such
   connections for the same reason.)
9. `mt_connection.cpp:470`: when `epoll_ctl` fails in `IdleAttach`, the connection is freed with its
   timer armed. (`ConnExact` with `EpollFails = TRUE` in `msg.cfg`.)
10. `mt_net.cpp:416`: a `CNetHelper` used for a second call keeps the answer and the error of the
   first. (`OwnAnswer` with `Reuse = TRUE` in `net.cfg`.)
11. `NetHandler.cpp:704`: `TryNextAction` tells an expired action that it has failed before it takes it
   off the list, although line 536 says that the connection must be reset first. If the plugin's next
   state uses the same connection object and fails at once, the nested `TryNextAction` finds the
   expired action again: it ends twice. (`HandlersExact` with `Confs <- AgainConfs` in `async.cfg`.)
   `ParallelNetHandler.cpp:726` and `:780` have the same order. If the next state waits instead, the
   nested calls can empty the list, and the outer one calls `pop_front` on an empty list; this is why
   `AsyncOwnAnswer` assumes `WaitFirst`.
12. `AsyncFrame.cpp:358`: a set of actions is not deleted at once because callers may still use it, but
   only one deletion is put off. A state that ends inside its own `StartAction`, followed by a state
   without actions, has its set deleted before the loop of `StartAction` looks at it again.
   (`UseLive` with `Confs <- InsideConfs` in `async.cfg`.)

Behaviour seen while modelling, allowed by the code and stated nowhere as an error: a proxy
restart may make a request be delivered twice or torn (the proxy lays frames where a worker
still reads) and a response be delivered twice; a tail out of range after such a race is
found and cleared by the next call, the head never leaves the ring. PROCUP stops any worker,
so under changing load it may stop the only one that is ready while another still
initialises: `Recovers` counts live workers, not ready ones. A worker forked before a
reload that reports after it survives as a new one.

In the proxy, a close ordered by a worker sets the fin bit of whichever connection has the slot of
the flow number by then (`tsockcommu.cpp:775`), and `CB_DISCONNECT` is handed the blob of an earlier
read (`:714`). In MtMsg, `mt_multi_open` returns the wrong one of two codes when some actions have
opened, `SendData` on a UDP socket that refuses counts as sent, `EpollCtlDel` of one session
removes EPOLLOUT although others wait for it, and with actions that outlive their call
(`KeepActs`) a late answer may reach the next holder of a session's connection object. In
MtNet, a UDP request that had to wait is reported as `RC_SEND_FAIL` although it was sent; a call that
gives up after part of its request was written leaves the stream torn for all later calls
(`NoMix` exempts such links); `cache_tcp_recv` drops what it read before a FIN; a call may be told by
the event of a link object that has been used again meanwhile; `_dflt_callback` is not cleared when a
link goes back to the pool.

## 6. Not modelled, and the plan

Done: the queues, the heap, the scheduler, the process monitor with its reload, the proxy with its
sockets, requests of micro threads over connections and over links, the asynchronous frame.

Left:

1. The asynchronous sessions of `async/`, in the way of AsyncFrame.
2. The end of the controller during a reload (`killall`, `defaultctrl.cpp:242`), which kills the
   processes on the lists and not those in `reload_tag`.
3. Composition of MtMsg and MtNet with MtFrame: both use its promise that a waiting thread is woken by
   an event or its timeout (`WokenForReason`, `WakesUp`) instead of its lists.

Proofs not done: `BooksExact` of MtNet says of folds over the lists of a link what needs induction over
their length; `HandlersExact` and `UseLive` of AsyncFrame count the places of an action over
lists, objects and all nested calls at once.

Not planned: Nest (the same queues and scheduler with other process management), system call
hooks (forwarders; of them only socket and close are in MtFrame), configuration, logging, statistics, reporting and vendored code (I/O or
no state that decides anything).
