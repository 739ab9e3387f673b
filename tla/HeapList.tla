------------------------------ MODULE HeapList ------------------------------
(***************************************************************************)
(* The binary heap of micro_thread/heap.h that orders sleeping threads     *)
(* (MtFrame::_sleeplist) and timers (CTimerMng::_heap) by the time they    *)
(* are due.  One step is one iteration of HeapUp or HeapDown, so that the  *)
(* loops can be reasoned about; the owner of the heap is one thread and    *)
(* starts the next call when the last one has returned.                    *)
(***************************************************************************)
EXTENDS Integers

CONSTANTS
    Entries,    \* HeapEntry objects
    Values,     \* what HeapValue returns: times
    Max,        \* _max
    None        \* NULL

ASSUME HeapAssumption ==
    /\ Max \in Nat \ {0}
    /\ Values \subseteq Int
    /\ None \notin Entries

VARIABLES
    list,       \* _list, from 1
    count,      \* _count
    index,      \* _index of each entry, 0 outside the heap
    value,      \* HeapValue() of each entry
    pc, pos,    \* the loop that runs, and its position
    out,        \* the entry HeapPop or HeapDelete takes out
    lost        \* history: a HeapDelete has put an entry below a later father

vars == <<list, count, index, value, pc, pos, out, lost>>

\* The slot above slot i.
Father(i) == i \div 2

Init ==
    /\ list = [i \in 1..Max |-> None] /\ count = 0
    /\ index = [x \in Entries |-> 0]
    /\ value = [x \in Entries |-> 0]
    /\ pc = "idle" /\ pos = 1 /\ out = None
    /\ lost = FALSE
----------------------------------------------------------------------------
\* The owner sets the time of an entry, then pushes it.  A full heap and an
\* entry that is in the heap are refused.
HeapPush(x, v) ==
    /\ pc = "idle" /\ count < Max /\ index[x] = 0
    /\ count' = count + 1
    /\ list' = [list EXCEPT ![count + 1] = x]
    /\ index' = [index EXCEPT ![x] = count + 1]
    /\ value' = [value EXCEPT ![x] = v]
    /\ pc' = "up" /\ pos' = count + 1
    /\ UNCHANGED <<out, lost>>

\* Mutant: the swap leaves the index of the entry that moves aside alone.
SwapOneIndex(i, j) ==
    /\ list' = [list EXCEPT ![i] = list[j], ![j] = list[i]]
    /\ index' = [index EXCEPT ![list[j]] = i]

Swap(i, j) ==
    /\ list' = [list EXCEPT ![i] = list[j], ![j] = list[i]]
    /\ index' = [index EXCEPT ![list[i]] = j, ![list[j]] = i]

HeapUp ==
    /\ pc = "up"
    /\ IF Father(pos) >= 1 /\ value[list[pos]] < value[list[Father(pos)]]
       THEN Swap(pos, Father(pos)) /\ pos' = Father(pos) /\ UNCHANGED pc
       ELSE pc' = "idle" /\ UNCHANGED <<list, index, pos>>
    /\ UNCHANGED <<count, value, out, lost>>
----------------------------------------------------------------------------
\* The last entry takes the place of the one at i and sinks from there.  It may
\* be due before the father of i, which nothing looks at.
TakeOut(i) ==
    /\ lost' = (lost \/ (i > 1 /\ i < count
                           /\ value[list[count]] < value[list[Father(i)]]))
    /\ out' = list[i]
    /\ list' = [[list EXCEPT ![i] = list[count]] EXCEPT ![count] = None]
    /\ index' = [index EXCEPT ![list[count]] = i]
    /\ count' = count - 1
    /\ pc' = "down" /\ pos' = i
    /\ UNCHANGED value

HeapPop == pc = "idle" /\ count > 0 /\ TakeOut(1)

HeapDelete(x) ==
    /\ pc = "idle" /\ count > 0 /\ index[x] \in 1..count
    /\ TakeOut(index[x])

\* Mutant: the left son whenever there is one.
MinSonLeft(p) == 2 * p

MinSon(p) ==
    IF 2 * p < count /\ value[list[2 * p + 1]] < value[list[2 * p]]
    THEN 2 * p + 1 ELSE 2 * p

\* The loop sinks the entry, or ends and the entry taken out gets index 0.
HeapDown ==
    /\ pc = "down"
    /\ IF 2 * pos <= count /\ value[list[pos]] > value[list[MinSon(pos)]]
       THEN Swap(pos, MinSon(pos)) /\ pos' = MinSon(pos) /\ UNCHANGED <<pc, out>>
       ELSE /\ pc' = "idle" /\ out' = None
            /\ index' = [index EXCEPT ![out] = 0]
            /\ UNCHANGED <<list, pos>>
    /\ UNCHANGED <<count, value, lost>>
----------------------------------------------------------------------------
Loops == HeapUp \/ HeapDown

Next ==
    \/ \E x \in Entries : HeapDelete(x) \/ \E v \in Values : HeapPush(x, v)
    \/ HeapPop
    \/ Loops

Spec == Init /\ [][Next]_vars
----------------------------------------------------------------------------
(* Properties *)

TypeOK ==
    /\ list \in [1..Max -> Entries \cup {None}]
    /\ count \in 0..Max
    /\ index \in [Entries -> 0..Max]
    /\ value \in [Entries -> Values \cup {0}]
    /\ pc \in {"idle", "up", "down"}
    /\ pos \in 1..Max
    /\ out \in Entries \cup {None}
    /\ lost \in BOOLEAN

\* Every entry knows its place: the slots 1.._count hold entries whose _index
\* is the slot, and an entry whose _index is not 0 is there, or is the one that
\* HeapPop or HeapDelete is about to release.  HeapDelete relies on it.
IndexExact ==
    /\ \A i \in 1..count : list[i] \in Entries /\ index[list[i]] = i
    /\ \A x \in Entries : index[x] # 0 /\ x # out
                            => index[x] <= count /\ list[index[x]] = x

\* HeapTop is an entry that is due first, whatever left the heap before: "the
\* smallest top at any time" of micro_thread.h:524.  The caller that finds the
\* top not due stops looking.  HeapDelete breaks it.
TopIsMin ==
    pc = "idle" => \A i \in 1..count : value[list[1]] <= value[list[i]]

\* And it breaks it in one way only: until a HeapDelete has put the last entry
\* below a father that is due later, HeapTop is an entry that is due first,
\* with pushes, pops and deletes anywhere in the heap.
TopUntilLost == ~lost => TopIsMin
=============================================================================
