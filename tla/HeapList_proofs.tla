--------------------------- MODULE HeapList_proofs ---------------------------
(***************************************************************************)
(* Proofs about HeapList, for every number of entries and every order of   *)
(* calls: an entry always knows its slot, whatever is deleted; and HeapTop *)
(* is an entry that is due first until a HeapDelete has put the last entry *)
(* below a father that is due later.                                       *)
(***************************************************************************)
EXTENDS HeapList, WellFoundedInduction, TLAPS

\* What halving says about fathers and sons.
LEMMA Halves ==
    ASSUME NEW i \in Nat, i >= 2
    PROVE  /\ Father(i) \in Nat /\ Father(i) >= 1 /\ Father(i) < i
           /\ i = 2 * (Father(i)) \/ i = 2 * (Father(i)) + 1
  BY DEF Father

\* A position is the father of its two sons.
LEMMA Sons ==
    ASSUME NEW p \in Nat
    PROVE  Father(2 * p) = p /\ Father(2 * p + 1) = p
  BY DEF Father
----------------------------------------------------------------------------
(* The invariant.  Its first half needs nothing of the values; the second   *)
(* says what order is left while a loop runs: the entry at pos is too early *)
(* for its father, or too late for its sons, and nothing else is wrong.     *)

Taking ==
    /\ pc = "down" <=> out # None
    /\ pc = "down" => /\ out \in Entries
                      /\ index[out] # 0
                      /\ \A i \in 1..count : list[i] # out
                      /\ pos <= count + 1
    /\ pc = "up" => pos <= count

PlaceInv == TypeOK /\ IndexExact /\ Taking

Ordered(i)  == value[list[Father(i)]] <= value[list[i]]
Bridged(i)  == Father(i) = pos /\ pos > 1
                 => value[list[Father(pos)]] <= value[list[i]]

InOrder ==
    /\ pc = "idle" => \A i \in 2..count : Ordered(i)
    /\ pc = "up"   => \A i \in 2..count : (i # pos => Ordered(i)) /\ Bridged(i)
    /\ pc = "down" => \A i \in 2..count : (Father(i) # pos => Ordered(i)) /\ Bridged(i)

OrderInv == ~lost => InOrder
----------------------------------------------------------------------------
(* Places *)

\* A swap of two slots of the heap keeps the places of all entries.
LEMMA SwapPlaces ==
    ASSUME TypeOK, IndexExact, NEW i \in 1..count, NEW j \in 1..count, i # j,
           \A k \in 1..count : list[k] # out,
           Swap(i, j), UNCHANGED <<count, out>>
    PROVE  /\ list' \in [1..Max -> Entries \cup {None}]
           /\ index' \in [Entries -> 0..Max]
           /\ IndexExact'
           /\ \A k \in 1..count : list'[k] # out
           /\ \A x \in Entries : index[x] # 0 => index'[x] # 0
  <1> USE HeapAssumption DEF TypeOK
  <1>1. /\ list[i] \in Entries /\ list[j] \in Entries /\ list[i] # list[j]
        /\ index[list[i]] = i /\ index[list[j]] = j
    BY DEF IndexExact
  <1>2. /\ list' = [list EXCEPT ![i] = list[j], ![j] = list[i]]
        /\ index' = [index EXCEPT ![list[i]] = j, ![list[j]] = i]
    BY DEF Swap
  <1>3. /\ list' \in [1..Max -> Entries \cup {None}]
        /\ index' \in [Entries -> 0..Max]
    BY <1>1, <1>2
  <1>4. ASSUME NEW k \in 1..count
        PROVE  list'[k] \in Entries /\ index'[list'[k]] = k /\ list'[k] # out
    <2>1. CASE k = i  BY <2>1, <1>1, <1>2
    <2>2. CASE k = j  BY <2>2, <1>1, <1>2
    <2>3. CASE k # i /\ k # j
      <3>1. list'[k] = list[k] /\ list[k] \in Entries /\ index[list[k]] = k
        BY <2>3, <1>2 DEF IndexExact
      <3>2. list[k] # list[i] /\ list[k] # list[j]
        BY <2>3, <3>1, <1>1
      <3> QED  BY <3>1, <3>2, <1>1, <1>2
    <2> QED  BY <2>1, <2>2, <2>3
  <1>5. ASSUME NEW x \in Entries, index'[x] # 0, x # out
        PROVE  index'[x] <= count /\ list'[index'[x]] = x
    <2>1. CASE x = list[i]  BY <2>1, <1>1, <1>2
    <2>2. CASE x = list[j]  BY <2>2, <1>1, <1>2
    <2>3. CASE x # list[i] /\ x # list[j]
      <3>1. index'[x] = index[x]  BY <2>3, <1>1, <1>2
      <3>2. index[x] <= count /\ list[index[x]] = x  BY <3>1, <1>5 DEF IndexExact
      <3>3. index[x] # i /\ index[x] # j  BY <3>2, <2>3
      <3> QED  BY <3>1, <3>2, <3>3, <1>2, <1>5
    <2> QED  BY <2>1, <2>2, <2>3
  <1>6. \A x \in Entries : index[x] # 0 => index'[x] # 0
    BY <1>1, <1>2
  <1> QED  BY <1>3, <1>4, <1>5, <1>6 DEF IndexExact

\* HeapPush puts a stranger into the first free slot.
LEMMA PushPlaces ==
    ASSUME PlaceInv, NEW x \in Entries, NEW v \in Values, HeapPush(x, v)
    PROVE  PlaceInv'
  <1> USE HeapAssumption DEF PlaceInv, TypeOK, HeapPush
  <1>1. out = None  BY DEF Taking
  <1>2. TypeOK'  OBVIOUS
  <1>3. ASSUME NEW k \in 1..(count + 1)
        PROVE  list'[k] \in Entries /\ index'[list'[k]] = k
    <2>1. CASE k = count + 1  BY <2>1
    <2>2. CASE k # count + 1
      <3>1. list'[k] = list[k] /\ list[k] \in Entries /\ index[list[k]] = k
        BY <2>2 DEF IndexExact
      <3>2. list[k] # x  BY <3>1
      <3> QED  BY <3>1, <3>2
    <2> QED  BY <2>1, <2>2
  <1>4. ASSUME NEW y \in Entries, index'[y] # 0
        PROVE  index'[y] <= count + 1 /\ list'[index'[y]] = y
    <2>1. CASE y = x  BY <2>1
    <2>2. CASE y # x
      <3>1. index'[y] = index[y] /\ index[y] <= count /\ list[index[y]] = y
        BY <2>2, <1>1, <1>4 DEF IndexExact
      <3> QED  BY <3>1
    <2> QED  BY <2>1, <2>2
  <1>5. IndexExact'  BY <1>3, <1>4 DEF IndexExact
  <1>6. Taking'  BY <1>1 DEF Taking
  <1> QED  BY <1>2, <1>5, <1>6

\* The entry that is taken out leaves no trace in the slots that remain.
LEMMA TakePlaces ==
    ASSUME PlaceInv, pc = "idle", NEW i \in 1..count, TakeOut(i)
    PROVE  PlaceInv'
  <1> USE HeapAssumption DEF PlaceInv, TypeOK
  <1> DEFINE last == list[count]
  <1>1. /\ out = None /\ count \in 1..Max
        /\ list[i] \in Entries /\ last \in Entries
        /\ index[list[i]] = i /\ index[last] = count
    BY DEF Taking, IndexExact
  <1>2. /\ out' = list[i] /\ count' = count - 1 /\ pc' = "down" /\ pos' = i
        /\ value' = value
        /\ index' = [index EXCEPT ![last] = i]
        /\ list' = [[list EXCEPT ![i] = last] EXCEPT ![count] = None]
    BY DEF TakeOut
  <1>3. TypeOK'
    <2>1. lost' \in BOOLEAN  BY Zenon DEF TakeOut
    <2>2. /\ list' \in [1..Max -> Entries \cup {None}] /\ count' \in 0..Max
          /\ index' \in [Entries -> 0..Max] /\ pos' \in 1..Max
      BY <1>1, <1>2
    <2> QED  BY <1>1, <1>2, <2>1, <2>2
  <1>4. ASSUME NEW k \in 1..(count - 1)
        PROVE  list'[k] \in Entries /\ index'[list'[k]] = k /\ list'[k] # list[i]
    <2>1. CASE k = i
      <3>1. last # list[i]  BY <2>1, <1>1
      <3> QED  BY <2>1, <3>1, <1>1, <1>2
    <2>2. CASE k # i
      <3>1. list'[k] = list[k] /\ list[k] \in Entries /\ index[list[k]] = k
        BY <2>2, <1>1, <1>2 DEF IndexExact
      <3>2. list[k] # last /\ list[k] # list[i]  BY <3>1, <1>1, <2>2
      <3> QED  BY <3>1, <3>2, <1>1, <1>2
    <2> QED  BY <2>1, <2>2
  <1>5. ASSUME NEW y \in Entries, index'[y] # 0, y # list[i]
        PROVE  index'[y] <= count - 1 /\ list'[index'[y]] = y
    <2>1. CASE y = last
      <3>1. i # count  BY <2>1, <1>5
      <3> QED  BY <2>1, <3>1, <1>1, <1>2
    <2>2. CASE y # last
      <3>1. index'[y] = index[y] /\ index[y] <= count /\ list[index[y]] = y
        BY <2>2, <1>1, <1>2, <1>5 DEF IndexExact
      <3>2. index[y] # count /\ index[y] # i  BY <3>1, <2>2, <1>5
      <3> QED  BY <3>1, <3>2, <1>1, <1>2, <1>5
    <2> QED  BY <2>1, <2>2
  <1>6. IndexExact'  BY <1>2, <1>4, <1>5 DEF IndexExact
  <1>7. index'[list[i]] # 0  BY <1>1, <1>2
  <1>8. Taking'  BY <1>1, <1>2, <1>4, <1>7 DEF Taking
  <1> QED  BY <1>3, <1>6, <1>8

\* The entries of the heap have values that can be compared.
LEMMA Comparable ==
    ASSUME PlaceInv
    PROVE  \A k \in 1..count : value[list[k]] \in Int
  <1>1. Values \cup {0} \subseteq Int  BY HeapAssumption
  <1>2. value \in [Entries -> Values \cup {0}]  BY DEF PlaceInv, TypeOK
  <1>3. \A k \in 1..count : list[k] \in Entries  BY DEF PlaceInv, IndexExact
  <1> QED  BY <1>1, <1>2, <1>3

\* The son that HeapDown looks at is in the heap, and no later than the other.
LEMMA MinSonFact ==
    ASSUME PlaceInv, NEW p \in 1..count, 2 * p <= count
    PROVE  /\ MinSon(p) \in 2..count /\ MinSon(p) > p /\ Father(MinSon(p)) = p
           /\ \A i \in 2..count : Father(i) = p
                => value[list[MinSon(p)]] <= value[list[i]]
  <1> USE HeapAssumption DEF PlaceInv, TypeOK
  <1>1. p \in Nat /\ p >= 1  OBVIOUS
  <1>2. MinSon(p) = 2 * p \/ (MinSon(p) = 2 * p + 1 /\ 2 * p < count)
    BY DEF MinSon
  <1>3. MinSon(p) \in 2..count /\ MinSon(p) > p /\ Father(MinSon(p)) = p
    <2>1. CASE MinSon(p) = 2 * p  BY <1>1, <2>1, Sons
    <2>2. CASE MinSon(p) = 2 * p + 1 /\ 2 * p < count  BY <1>1, <2>2, Sons
    <2> QED  BY <1>2, <2>1, <2>2
  <1>4. ASSUME NEW i \in 2..count, Father(i) = p
        PROVE  value[list[MinSon(p)]] <= value[list[i]]
    <2>1. i = 2 * p \/ i = 2 * p + 1
      <3>1. i \in Nat /\ i >= 2  OBVIOUS
      <3> QED  BY <1>4, <3>1, Halves
    <2>2. \A k \in 1..count : value[list[k]] \in Int  BY Comparable
    <2>3. value[list[2 * p]] \in Int
      <3>1. 2 * p \in 1..count  BY <1>1
      <3> QED  BY <3>1, <2>2
    <2>4. 2 * p < count => value[list[2 * p + 1]] \in Int
      <3>1. 2 * p < count => 2 * p + 1 \in 1..count  BY <1>1
      <3> QED  BY <3>1, <2>2
    <2>5. CASE 2 * p < count /\ value[list[2 * p + 1]] < value[list[2 * p]]
      <3>1. MinSon(p) = 2 * p + 1  BY <2>5 DEF MinSon
      <3>2. value[list[2 * p + 1]] <= value[list[2 * p]]  BY <2>3, <2>4, <2>5
      <3>3. value[list[2 * p + 1]] <= value[list[2 * p + 1]]  BY <2>4, <2>5
      <3> QED  BY <2>1, <3>1, <3>2, <3>3
    <2>6. CASE ~(2 * p < count /\ value[list[2 * p + 1]] < value[list[2 * p]])
      <3>1. MinSon(p) = 2 * p  BY <2>6 DEF MinSon
      <3>2. value[list[2 * p]] <= value[list[2 * p]]  BY <2>3
      <3>3. i = 2 * p + 1 => value[list[2 * p]] <= value[list[2 * p + 1]]
        BY <2>3, <2>4, <2>6, <1>1
      <3> QED  BY <2>1, <3>1, <3>2, <3>3
    <2> QED  BY <2>5, <2>6
  <1> QED  BY <1>3, <1>4

\* The loops keep the places.
LEMMA LoopPlaces ==
    ASSUME PlaceInv, Loops
    PROVE  PlaceInv'
  <1> USE HeapAssumption DEF PlaceInv, TypeOK
  <1>1. CASE HeapUp
    <2> USE <1>1 DEF HeapUp
    <2>1. pos \in 1..count /\ out = None  BY DEF Taking
    <2>2. \A k \in 1..count : list[k] # out  BY <2>1 DEF IndexExact
    <2>3. CASE Father(pos) >= 1 /\ value[list[pos]] < value[list[Father(pos)]]
      <3>1. pos >= 2  BY <2>1, <2>3 DEF Father
      <3>2. Father(pos) \in 1..count /\ Father(pos) # pos
        <4>1. pos \in Nat /\ count \in Nat  OBVIOUS
        <4> QED  BY <2>1, <3>1, <4>1, Halves
      <3>3. Swap(pos, Father(pos)) /\ pos' = Father(pos) /\ UNCHANGED <<pc, count, value, out>>
        BY <2>3
      <3>4. /\ list' \in [1..Max -> Entries \cup {None}]
            /\ index' \in [Entries -> 0..Max]
            /\ IndexExact'
        BY <2>1, <2>2, <3>2, <3>3, SwapPlaces
      <3> QED  BY <2>1, <3>2, <3>3, <3>4 DEF Taking
    <2>4. CASE ~(Father(pos) >= 1 /\ value[list[pos]] < value[list[Father(pos)]])
      BY <2>1, <2>4 DEF Taking, IndexExact
    <2> QED  BY <2>3, <2>4
  <1>2. CASE HeapDown
    <2> USE <1>2 DEF HeapDown
    <2>1. /\ out \in Entries /\ out # None /\ index[out] # 0
          /\ pos \in 1..(count + 1)
          /\ \A k \in 1..count : list[k] # out
      BY DEF Taking
    <2>2. CASE 2 * pos <= count /\ value[list[pos]] > value[list[MinSon(pos)]]
      <3>1. pos \in 1..count  BY <2>1, <2>2
      <3>2. MinSon(pos) \in 1..count /\ MinSon(pos) # pos
        BY <2>2, <3>1, MinSonFact
      <3>3. Swap(pos, MinSon(pos)) /\ pos' = MinSon(pos) /\ UNCHANGED <<pc, count, value, out>>
        BY <2>2
      <3>4. /\ list' \in [1..Max -> Entries \cup {None}]
            /\ index' \in [Entries -> 0..Max]
            /\ IndexExact'
            /\ \A k \in 1..count : list'[k] # out
            /\ \A x \in Entries : index[x] # 0 => index'[x] # 0
        BY <2>1, <3>1, <3>2, <3>3, SwapPlaces
      <3> QED  BY <2>1, <3>2, <3>3, <3>4 DEF Taking
    <2>3. CASE ~(2 * pos <= count /\ value[list[pos]] > value[list[MinSon(pos)]])
      <3>1. /\ pc' = "idle" /\ out' = None /\ index' = [index EXCEPT ![out] = 0]
            /\ UNCHANGED <<list, pos, count, value>>
        BY <2>3
      <3>2. TypeOK'  BY <2>1, <3>1
      <3>3. IndexExact'  BY <2>1, <3>1 DEF IndexExact
      <3>4. Taking'  BY <3>1 DEF Taking
      <3> QED  BY <3>2, <3>3, <3>4
    <2> QED  BY <2>2, <2>3
  <1> QED  BY <1>1, <1>2 DEF Loops

\* Every step keeps the places.
LEMMA PlaceStep ==
    ASSUME PlaceInv, [Next]_vars
    PROVE  PlaceInv'
  <1>1. CASE \E x \in Entries : HeapDelete(x)
    <2>1. PICK x \in Entries : HeapDelete(x)  BY <1>1
    <2>2. pc = "idle" /\ index[x] \in 1..count /\ TakeOut(index[x])
      BY <2>1 DEF HeapDelete
    <2> QED  BY <2>2, TakePlaces
  <1>2. CASE \E x \in Entries, v \in Values : HeapPush(x, v)
    BY <1>2, PushPlaces
  <1>3. CASE HeapPop
    <2>1. pc = "idle" /\ 1 \in 1..count /\ TakeOut(1)
      BY <1>3 DEF HeapPop, PlaceInv, TypeOK
    <2> QED  BY <2>1, TakePlaces
  <1>4. CASE Loops  BY <1>4, LoopPlaces
  <1>5. CASE UNCHANGED vars
    BY <1>5 DEF vars, PlaceInv, TypeOK, IndexExact, Taking
  <1> QED  BY <1>1, <1>2, <1>3, <1>4, <1>5 DEF Next

\* The empty heap has its places.
LEMMA PlaceInit == Init => PlaceInv
  <1> SUFFICES ASSUME Init PROVE PlaceInv  OBVIOUS
  <1>1. lost \in BOOLEAN  BY Zenon DEF Init
  <1> QED  BY <1>1, HeapAssumption DEF Init, PlaceInv, TypeOK, IndexExact, Taking

\* Types, for every number of entries: the loops stay inside the array.
THEOREM HeapTyping == Spec => []TypeOK
  <1>1. PlaceInv => TypeOK  BY DEF PlaceInv
  <1> QED  BY <1>1, PlaceInit, PlaceStep, PTL DEF Spec

\* An entry always knows its slot, whatever is pushed, popped and deleted: the
\* _index that HeapDelete trusts is right (heap.h, HeapUp and HeapDown).
THEOREM Places == Spec => []IndexExact
  <1>1. PlaceInv => IndexExact  BY DEF PlaceInv
  <1> QED  BY <1>1, PlaceInit, PlaceStep, PTL DEF Spec
----------------------------------------------------------------------------
(* Order.  The two swaps, as facts about a function of positions.           *)

\* HeapUp: the early entry at p and its father change places.
LEMMA UpSwap ==
    ASSUME NEW n \in Nat, NEW f \in [1..n -> Int], NEW p \in 2..n,
           \A i \in 2..n : i # p => f[Father(i)] <= f[i],
           \A i \in 2..n : Father(i) = p => f[Father(p)] <= f[i],
           f[p] < f[Father(p)],
           NEW g \in [1..n -> Int], g[p] = f[Father(p)], g[Father(p)] = f[p],
           \A i \in 1..n : i # p /\ i # Father(p) => g[i] = f[i]
    PROVE  \A i \in 2..n :
              /\ i # Father(p) => g[Father(i)] <= g[i]
              /\ Father(i) = Father(p) /\ Father(p) > 1
                   => g[Father(Father(p))] <= g[i]
  <1> DEFINE q == Father(p)
  <1>1. q \in 1..n /\ q < p  BY Halves
  <1>2. ASSUME NEW i \in 2..n, i # q  PROVE g[Father(i)] <= g[i]
    <2>1. Father(i) \in 1..n /\ Father(i) < i  BY Halves, SMTT(30)
    <2>2. CASE i = p  BY <2>2, <1>1
    <2>3. CASE i # p /\ Father(i) = p  BY <2>1, <2>3, <1>1, <1>2
    <2>4. CASE i # p /\ Father(i) = q
      <3>1. g[Father(i)] = f[p] /\ g[i] = f[i] /\ f[q] <= f[i]  BY <2>4, <1>2
      <3> QED  BY <3>1, <1>1
    <2>5. CASE i # p /\ Father(i) # p /\ Father(i) # q
      <3>1. g[Father(i)] = f[Father(i)] /\ g[i] = f[i] /\ f[Father(i)] <= f[i]
        BY <2>1, <2>5, <1>2
      <3> QED  BY <3>1
    <2> QED  BY <2>2, <2>3, <2>4, <2>5
  <1>3. ASSUME NEW i \in 2..n, Father(i) = q, q > 1  PROVE g[Father(q)] <= g[i]
    <2>1. Father(q) \in 1..n /\ Father(q) < q /\ q \in 2..n  BY <1>1, <1>3, Halves, SMTT(30)
    <2>2. g[Father(q)] = f[Father(q)] /\ f[Father(q)] <= f[q]  BY <2>1, <1>1
    <2>3. CASE i = p  BY <2>2, <2>3
    <2>4. CASE i # p
      <3>1. i # q  BY <1>3, Halves
      <3>2. g[i] = f[i] /\ f[q] <= f[i]  BY <2>4, <3>1, <1>3
      <3> QED  BY <2>1, <2>2, <3>2, <1>1, SMTT(30)
    <2> QED  BY <2>3, <2>4
  <1> QED  BY <1>2, <1>3

\* HeapDown: the late entry at p and its earlier son s change places.
LEMMA DownSwap ==
    ASSUME NEW n \in Nat, NEW f \in [1..n -> Int], NEW p \in 1..n,
           NEW s \in 2..n, Father(s) = p,
           \A i \in 2..n : Father(i) # p => f[Father(i)] <= f[i],
           \A i \in 2..n : Father(i) = p /\ p > 1 => f[Father(p)] <= f[i],
           \A i \in 2..n : Father(i) = p => f[s] <= f[i],
           f[s] < f[p],
           NEW g \in [1..n -> Int], g[p] = f[s], g[s] = f[p],
           \A i \in 1..n : i # p /\ i # s => g[i] = f[i]
    PROVE  \A i \in 2..n :
              /\ Father(i) # s => g[Father(i)] <= g[i]
              /\ Father(i) = s /\ s > 1 => g[Father(s)] <= g[i]
  <1>1. p < s  BY Halves
  <1>2. ASSUME NEW i \in 2..n, Father(i) # s  PROVE g[Father(i)] <= g[i]
    <2>1. Father(i) \in 1..n /\ Father(i) < i  BY Halves, SMTT(30)
    <2>2. CASE i = s  BY <2>2
    <2>3. CASE i # s /\ Father(i) = p
      <3>1. i # p  BY <2>1, <2>3
      <3>2. g[Father(i)] = f[s] /\ g[i] = f[i] /\ f[s] <= f[i]  BY <2>3, <3>1
      <3> QED  BY <3>2
    <2>4. CASE i = p
      <3>1. p > 1 /\ f[Father(p)] <= f[s]  BY <2>4
      <3>2. Father(p) # p  BY <2>1, <2>4
      <3>3. g[Father(p)] = f[Father(p)]  BY <1>2, <2>1, <2>4, <3>2
      <3> QED  BY <2>4, <3>1, <3>3
    <2>5. CASE i # s /\ i # p /\ Father(i) # p
      <3>1. g[Father(i)] = f[Father(i)] /\ g[i] = f[i] /\ f[Father(i)] <= f[i]
        BY <2>1, <2>5, <1>2
      <3> QED  BY <3>1
    <2> QED  BY <2>2, <2>3, <2>4, <2>5
  <1>3. ASSUME NEW i \in 2..n, Father(i) = s  PROVE g[Father(s)] <= g[i]
    <2>1. i # s /\ i # p  BY <1>1, <1>3, Halves
    <2>2. g[i] = f[i] /\ f[s] <= f[i]  BY <2>1, <1>1, <1>3, SMTT(30)
    <2> QED  BY <2>2
  <1> QED  BY <1>2, <1>3

\* A swap, seen from the values of the slots.
LEMMA SwapValues ==
    ASSUME PlaceInv, NEW i \in 1..count, NEW j \in 1..count, i # j,
           Swap(i, j), UNCHANGED <<count, value>>
    PROVE  LET f == [k \in 1..count |-> value[list[k]]]
               g == [k \in 1..count' |-> value'[list'[k]]]
           IN  /\ g[i] = f[j] /\ g[j] = f[i]
               /\ \A k \in 1..count : k # i /\ k # j => g[k] = f[k]
  <1>1. count \in 0..Max /\ Max \in Nat /\ list \in [1..Max -> Entries \cup {None}]
    BY HeapAssumption DEF PlaceInv, TypeOK
  <1>2. list' = [list EXCEPT ![i] = list[j], ![j] = list[i]]  BY DEF Swap
  <1>3. /\ list'[i] = list[j] /\ list'[j] = list[i]
        /\ \A k \in 1..count : k # i /\ k # j => list'[k] = list[k]
    BY <1>1, <1>2
  <1> QED  BY <1>1, <1>3

\* A step that does not lose the order keeps what the loop position allows of
\* it.
LEMMA OrderStep ==
    ASSUME PlaceInv, PlaceInv', InOrder, ~lost', [Next]_vars
    PROVE  InOrder'
  <1> DEFINE f == [k \in 1..count |-> value[list[k]]]
             g == [k \in 1..count' |-> value'[list'[k]]]
  <1>1. count \in Nat /\ count' \in Nat /\ pos \in Nat /\ pos >= 1
    BY HeapAssumption DEF PlaceInv, TypeOK
  <1>2. f \in [1..count -> Int]  BY Comparable
  <1>3. g \in [1..count' -> Int]
    <2>1. (\A k \in 1..count : value[list[k]] \in Int)'
      <3>1. Values \cup {0} \subseteq Int  BY HeapAssumption
      <3>2. value' \in [Entries -> Values \cup {0}]  BY DEF PlaceInv, TypeOK
      <3>3. \A k \in 1..count' : list'[k] \in Entries  BY DEF PlaceInv, IndexExact
      <3> QED  BY <3>1, <3>2, <3>3
    <2> QED  BY <2>1
  <1>4. ASSUME NEW i \in 2..count
        PROVE  /\ Father(i) \in 1..count
               /\ Ordered(i) <=> f[Father(i)] <= f[i]
    <2>1. Father(i) \in 1..count  BY <1>1, Halves
    <2> QED  BY <2>1 DEF Ordered
  <1>5. ASSUME NEW i \in 2..count'
        PROVE  /\ Father(i) \in 1..count'
               /\ Ordered(i)' <=> g[Father(i)] <= g[i]
    <2>1. Father(i) \in 1..count'  BY <1>1, Halves
    <2> QED  BY <2>1 DEF Ordered
  <1>6. CASE \E x \in Entries, v \in Values : HeapPush(x, v)
    <2>1. PICK x \in Entries, v \in Values : HeapPush(x, v)  BY <1>6
    <2>2. /\ pc = "idle" /\ pc' = "up" /\ count' = count + 1 /\ pos' = count + 1
          /\ count < Max /\ index[x] = 0
          /\ list' = [list EXCEPT ![count + 1] = x]
          /\ value' = [value EXCEPT ![x] = v]
      BY <2>1 DEF HeapPush
    <2>3. \A k \in 1..count : g[k] = f[k]
      <3>1. ASSUME NEW k \in 1..count  PROVE value'[list'[k]] = value[list[k]]
        <4>1. list[k] \in Entries /\ list[k] # x /\ list'[k] = list[k]
          BY <2>2 DEF PlaceInv, TypeOK, IndexExact
        <4> QED  BY <4>1, <2>2 DEF PlaceInv, TypeOK
      <3> QED  BY <3>1, <2>2, <1>1
    <2>4. ASSUME NEW i \in 2..count'
          PROVE  (i # pos' => Ordered(i)') /\ ~(Father(i) = pos')
      <3>1. Father(i) < i /\ Father(i) \in Nat /\ Father(i) >= 1  BY <1>1, Halves
      <3>2. ~(Father(i) = pos')  BY <3>1, <2>2, <1>1
      <3>3. ASSUME i # pos'  PROVE Ordered(i)'
        <4>1. i \in 2..count  BY <3>3, <2>2, <1>1
        <4>2. f[Father(i)] <= f[i]  BY <4>1, <1>4, <2>2 DEF InOrder
        <4>3. g[Father(i)] = f[Father(i)] /\ g[i] = f[i]
          <5>1. Father(i) \in 1..count  BY <4>1, <1>4
          <5>2. i \in 1..count  BY <4>1, <1>1
          <5> HIDE DEF f, g
          <5> QED  BY <5>1, <5>2, <2>3
        <4> HIDE DEF f, g
        <4> QED  BY <4>2, <4>3, <1>5
      <3> QED  BY <3>2, <3>3
    <2> QED  BY <2>2, <2>4 DEF InOrder, Bridged
  <1>7. CASE HeapPop \/ \E x \in Entries : HeapDelete(x)
    <2>1. PICK p \in 1..count : pc = "idle" /\ TakeOut(p)
      BY <1>7, <1>1 DEF HeapPop, HeapDelete
    <2>2. /\ pc' = "down" /\ pos' = p /\ count' = count - 1 /\ value' = value
          /\ list' = [[list EXCEPT ![p] = list[count]] EXCEPT ![count] = None]
          /\ p > 1 /\ p < count => ~(value[list[count]] < value[list[Father(p)]])
      BY <2>1 DEF TakeOut
    <2>3. count \in 1..Max /\ Max \in Nat /\ list \in [1..Max -> Entries \cup {None}]
      BY <1>1, HeapAssumption DEF PlaceInv, TypeOK
    <2>4. \A k \in 1..(count - 1) : k # p => list'[k] = list[k]
      BY <2>2, <2>3
    <2>5. p < count => list'[p] = list[count]
      BY <2>2, <2>3
    <2>6. \A i \in 2..count : Ordered(i)
      BY <2>1 DEF InOrder
    <2>7. ASSUME NEW i \in 2..count', Father(i) # p  PROVE Ordered(i)'
      <3>1. i \in 2..count /\ i \in 1..(count - 1)  BY <2>2, <1>1
      <3>2. Father(i) \in 1..(count - 1)  BY <3>1, <1>1, Halves
      <3>3. list'[Father(i)] = list[Father(i)]  BY <2>4, <2>7, <3>2
      <3>4. CASE i # p
        <4>1. list'[i] = list[i]  BY <2>4, <3>1, <3>4
        <4> QED  BY <2>2, <2>6, <3>1, <3>3, <4>1 DEF Ordered
      <3>5. CASE i = p
        <4>0. p < count  BY <1>1, <3>1, <3>5
        <4>1. list'[i] = list[count]  BY <2>5, <3>5, <4>0
        <4>2. value[list[count]] \in Int /\ value[list[Father(p)]] \in Int
          <5>1. count \in 1..count /\ Father(p) \in 1..count  BY <2>3, <3>2, <3>5
          <5> QED  BY <5>1, Comparable
        <4>3. ~(value[list[count]] < value[list[Father(p)]])
          BY <2>2, <2>3, <3>1, <3>5
        <4>4. value[list[Father(p)]] <= value[list[count]]  BY <4>2, <4>3
        <4> QED  BY <2>2, <3>3, <3>5, <4>1, <4>4 DEF Ordered
      <3> QED  BY <3>4, <3>5
    <2>8. ASSUME NEW i \in 2..count', Father(i) = p, p > 1
          PROVE  value'[list'[Father(p)]] <= value'[list'[i]]
      <3>1. i \in 2..count /\ i \in 1..(count - 1) /\ p \in 2..count
        BY <2>2, <2>8, <1>1
      <3>2. p < i /\ Father(p) \in 1..count /\ Father(p) < p
        BY <3>1, <2>8, <1>1, Halves
      <3>3. Father(p) \in 1..(count - 1)  BY <3>1, <3>2, <1>1
      <3>4. list'[Father(p)] = list[Father(p)]  BY <2>4, <3>2, <3>3
      <3>5. list'[i] = list[i]  BY <2>4, <3>1, <3>2
      <3>6. /\ value[list[Father(p)]] <= value[list[p]]
            /\ value[list[p]] <= value[list[i]]
        BY <2>6, <2>8, <3>1 DEF Ordered
      <3>7. /\ value[list[Father(p)]] \in Int /\ value[list[p]] \in Int
            /\ value[list[i]] \in Int
        BY <3>1, <3>2, Comparable
      <3>8. value[list[Father(p)]] <= value[list[i]]  BY <3>6, <3>7
      <3> QED  BY <2>2, <3>4, <3>5, <3>8
    <2> QED  BY <2>2, <2>7, <2>8 DEF InOrder, Bridged
  <1>8. CASE HeapUp
    <2>1. pos \in 1..count /\ pc = "up" /\ UNCHANGED <<count, value>>
      BY <1>8 DEF HeapUp, PlaceInv, TypeOK, Taking
    <2>2. /\ \A i \in 2..count : i # pos => f[Father(i)] <= f[i]
          /\ \A i \in 2..count : Father(i) = pos /\ pos > 1 => f[Father(pos)] <= f[i]
      <3>1. pos > 1 => Father(pos) \in 1..count  BY <1>1, <2>1, Halves
      <3> QED  BY <2>1, <1>4, <3>1 DEF InOrder, Bridged
    <2>3. CASE Father(pos) >= 1 /\ value[list[pos]] < value[list[Father(pos)]]
      <3>1. pos \in 2..count  BY <1>1, <2>1, <2>3 DEF Father
      <3>2. Father(pos) \in 1..count /\ Father(pos) # pos  BY <1>1, <3>1, Halves
      <3>3. pc' = "up" /\ pos' = Father(pos) /\ Swap(pos, Father(pos))
        BY <1>8, <2>3, <2>1 DEF HeapUp
      <3>4. /\ g[pos] = f[Father(pos)] /\ g[Father(pos)] = f[pos]
            /\ \A i \in 1..count : i # pos /\ i # Father(pos) => g[i] = f[i]
        BY <2>1, <3>1, <3>2, <3>3, SwapValues
      <3>5. f[pos] < f[Father(pos)]  BY <2>3, <3>1, <3>2
      <3>6. \A i \in 2..count : Father(i) = pos => f[Father(pos)] <= f[i]
        BY <2>2, <3>1
      <3>7. g \in [1..count -> Int]  BY <1>3, <2>1
      <3> HIDE DEF f, g
      <3>8. \A i \in 2..count :
              /\ i # Father(pos) => g[Father(i)] <= g[i]
              /\ Father(i) = Father(pos) /\ Father(pos) > 1
                   => g[Father(Father(pos))] <= g[i]
        BY <1>1, <1>2, <2>2, <3>1, <3>4, <3>5, <3>6, <3>7, UpSwap
      <3>9. ASSUME NEW i \in 2..count'
            PROVE  (i # pos' => Ordered(i)') /\ Bridged(i)'
        <4>1. i # pos' => Ordered(i)'  BY <3>8, <3>3, <2>1, <1>5
        <4>2. ASSUME Father(i) = pos', pos' > 1
              PROVE  value'[list'[Father(pos')]] <= value'[list'[i]]
          <5>1. Father(pos') \in 1..count'  BY <4>2, <3>2, <3>3, <2>1, <1>1, Halves
          <5>2. g[Father(pos')] <= g[i]  BY <3>8, <3>3, <2>1, <4>2
          <5> QED  BY <5>1, <5>2 DEF g
        <4> QED  BY <4>1, <4>2 DEF Bridged
      <3> QED  BY <3>3, <3>9 DEF InOrder
    <2>4. CASE ~(Father(pos) >= 1 /\ value[list[pos]] < value[list[Father(pos)]])
      <3>1. pc' = "idle" /\ UNCHANGED <<list, pos>>
        BY <1>8, <2>4 DEF HeapUp
      <3>2. ASSUME NEW i \in 2..count'  PROVE Ordered(i)'
        <4>1. i \in 2..count /\ Father(i) \in 1..count  BY <2>1, <1>4
        <4>2. f[Father(i)] <= f[i]
          <5>1. CASE i # pos  BY <5>1, <4>1, <2>2
          <5>2. CASE i = pos
            <6>1. Father(pos) >= 1  BY <5>2, <1>1, Halves
            <6>2. ~(f[pos] < f[Father(pos)])  BY <2>4, <6>1, <4>1, <5>2
            <6> QED  BY <6>2, <5>2, <4>1, <1>2
          <5> QED  BY <5>1, <5>2
        <4> QED  BY <4>1, <4>2, <2>1, <3>1 DEF Ordered
      <3> QED  BY <3>1, <3>2 DEF InOrder
    <2> QED  BY <2>3, <2>4
  <1>9. CASE HeapDown
    <2>1. pos \in 1..(count + 1) /\ pc = "down" /\ UNCHANGED <<count, value>>
      BY <1>9 DEF HeapDown, PlaceInv, TypeOK, Taking
    <2>2. /\ \A i \in 2..count : Father(i) # pos => f[Father(i)] <= f[i]
          /\ \A i \in 2..count : Father(i) = pos /\ pos > 1 => f[Father(pos)] <= f[i]
      <3>1. ASSUME NEW i \in 2..count, Father(i) = pos, pos > 1
            PROVE  f[Father(pos)] <= f[i]
        <4>0. pos \in 2..count
          <5>1. Father(i) \in 1..count  BY <1>4
          <5> QED  BY <5>1, <3>1, <1>1
        <4>1. Father(pos) \in 1..count  BY <4>0, <1>4
        <4> QED  BY <3>1, <4>1, <2>1 DEF InOrder, Bridged
      <3> QED  BY <2>1, <1>4, <3>1 DEF InOrder
    <2>3. CASE 2 * pos <= count /\ value[list[pos]] > value[list[MinSon(pos)]]
      <3> DEFINE s == MinSon(pos)
      <3>1. pos \in 1..count  BY <1>1, <2>1, <2>3
      <3>2. /\ s \in 2..count /\ s # pos /\ Father(s) = pos
            /\ \A i \in 2..count : Father(i) = pos => value[list[s]] <= value[list[i]]
        BY <1>1, <2>3, <3>1, MinSonFact
      <3>3. s \in 1..count  BY <1>1, <3>2
      <3>4. pc' = "down" /\ pos' = s /\ Swap(pos, s)
        BY <1>9, <2>3, <2>1 DEF HeapDown
      <3>5. /\ g[pos] = f[s] /\ g[s] = f[pos]
            /\ \A i \in 1..count : i # pos /\ i # s => g[i] = f[i]
        BY <2>1, <3>1, <3>2, <3>3, <3>4, SwapValues
      <3>6. f[s] < f[pos] /\ \A i \in 2..count : Father(i) = pos => f[s] <= f[i]
        <4>1. f[s] \in Int /\ f[pos] \in Int  BY <3>1, <3>2, <1>2
        <4> QED  BY <2>3, <3>1, <3>2, <4>1
      <3>7. g \in [1..count -> Int]  BY <1>3, <2>1
      <3> HIDE DEF f, g, s
      <3>8. \A i \in 2..count :
              /\ Father(i) # s => g[Father(i)] <= g[i]
              /\ Father(i) = s /\ s > 1 => g[Father(s)] <= g[i]
        <4>1. s \in 2..count /\ Father(s) = pos  BY <3>2
        <4> QED  BY <1>1, <1>2, <2>2, <3>1, <3>5, <3>6, <3>7, <4>1, DownSwap, ZenonT(30)
      <3>9. ASSUME NEW i \in 2..count'
            PROVE  (Father(i) # pos' => Ordered(i)') /\ Bridged(i)'
        <4>1. Father(i) # pos' => Ordered(i)'  BY <3>8, <3>4, <2>1, <1>5
        <4>2. ASSUME Father(i) = pos', pos' > 1
              PROVE  value'[list'[Father(pos')]] <= value'[list'[i]]
          <5>1. Father(pos') \in 1..count'  BY <3>1, <3>2, <3>4, <2>1
          <5>2. g[Father(pos')] <= g[i]  BY <3>8, <3>4, <2>1, <4>2
          <5> QED  BY <5>1, <5>2 DEF g
        <4> QED  BY <4>1, <4>2 DEF Bridged
      <3> QED  BY <3>4, <3>9 DEF InOrder
    <2>4. CASE ~(2 * pos <= count /\ value[list[pos]] > value[list[MinSon(pos)]])
      <3>1. pc' = "idle" /\ UNCHANGED <<list, pos>>
        BY <1>9, <2>4 DEF HeapDown
      <3>2. ASSUME NEW i \in 2..count'  PROVE Ordered(i)'
        <4>1. i \in 2..count /\ Father(i) \in 1..count  BY <2>1, <1>4
        <4>2. f[Father(i)] <= f[i]
          <5>1. CASE Father(i) # pos  BY <5>1, <4>1, <2>2
          <5>2. CASE Father(i) = pos
            <6>1. 2 * pos <= count /\ pos \in 1..count
              BY <5>2, <4>1, <1>1, Halves
            <6>2. /\ MinSon(pos) \in 1..count
                  /\ value[list[MinSon(pos)]] <= value[list[i]]
              BY <6>1, <4>1, <5>2, MinSonFact
            <6>3. ~(value[list[pos]] > value[list[MinSon(pos)]])
              BY <2>4, <6>1
            <6>4. /\ value[list[pos]] \in Int /\ value[list[i]] \in Int
                  /\ value[list[MinSon(pos)]] \in Int
              BY <6>1, <6>2, <4>1, Comparable
            <6>5. value[list[pos]] <= value[list[i]]  BY <6>2, <6>3, <6>4
            <6> QED  BY <6>1, <6>5, <5>2, <4>1
          <5> QED  BY <5>1, <5>2
        <4> QED  BY <4>1, <4>2, <2>1, <3>1 DEF Ordered
      <3> QED  BY <3>1, <3>2 DEF InOrder
    <2> QED  BY <2>3, <2>4
  <1>10. CASE UNCHANGED vars
    BY <1>10 DEF vars, InOrder, Ordered, Bridged
  <1> QED  BY <1>6, <1>7, <1>8, <1>9, <1>10 DEF Next, Loops

\* A set of slots that is not empty has a first one.
LEMMA FirstSlot ==
    ASSUME NEW S \in SUBSET Nat, S # {}
    PROVE  \E n \in S : \A m \in S : n <= m
  <1> DEFINE R == {ss \in Nat \X Nat : ss[1] < ss[2]}
  <1>1. IsWellFoundedOn(R, Nat)  BY NatLessThanWellFounded DEF OpToRel
  <1>2. PICK x \in S : \A y \in S : ~(<<y, x>> \in R)
    <2> HIDE DEF R
    <2> QED  BY <1>1, WFMin
  <1>3. ASSUME NEW m \in S  PROVE x <= m
    <2>1. x \in Nat /\ m \in Nat  OBVIOUS
    <2>2. m < x => <<m, x>> \in R  BY <2>1
    <2> QED  BY <2>1, <2>2, <1>2
  <1> QED  BY <1>3

\* A heap in order has the earliest entry on top: of the entries earlier than
\* the top, the one with the lowest slot would have a father earlier still.
LEMMA OrderTop ==
    ASSUME PlaceInv, InOrder
    PROVE  TopIsMin
  <1> SUFFICES ASSUME pc = "idle", NEW j \in 1..count,
                      ~(value[list[1]] <= value[list[j]])
               PROVE  FALSE
    BY DEF TopIsMin
  <1> DEFINE Early == {i \in 1..count : ~(value[list[1]] <= value[list[i]])}
  <1>1. count \in Nat  BY HeapAssumption DEF PlaceInv, TypeOK
  <1>2. Early \in SUBSET Nat /\ Early # {}  BY <1>1
  <1>3. PICK n \in Early : \A m \in Early : n <= m
    <2> HIDE DEF Early
    <2> QED  BY <1>2, FirstSlot
  <1>4. \A k \in 1..count : value[list[k]] \in Int  BY Comparable
  <1>5. n \in 2..count
    <2>1. 1 \in 1..count /\ n \in 1..count  BY <1>1
    <2>2. value[list[1]] <= value[list[1]]  BY <2>1, <1>4
    <2> QED  BY <2>1, <2>2, <1>3
  <1>6. Father(n) \in 1..count /\ Father(n) < n  BY <1>1, <1>5, Halves
  <1>7. value[list[Father(n)]] <= value[list[n]]
    BY <1>5 DEF InOrder, Ordered
  <1>8. Father(n) \in Early
    <2>1. ~(value[list[1]] <= value[list[n]])  BY <1>3
    <2>2. value[list[1]] \in Int /\ value[list[n]] \in Int
                /\ value[list[Father(n)]] \in Int
      <3>1. 1 \in 1..count  BY <1>5, <1>1
      <3> QED  BY <1>4, <1>5, <1>6, <3>1
    <2> QED  BY <2>1, <2>2, <1>6, <1>7
  <1> QED  BY <1>3, <1>5, <1>6, <1>8, <1>1

\* Once lost, the order counts as lost for good.
LEMMA LostStays ==
    ASSUME [Next]_vars, lost
    PROVE  lost'
  BY DEF Next, Loops, HeapPush, HeapUp, HeapDown, HeapPop, HeapDelete, TakeOut, vars

\* HeapTop is an entry that is due first, for every number of entries and with
\* deletes anywhere in the heap, until a HeapDelete has put the last entry
\* below a father that is due later (heap.h:373, HeapDown without HeapUp):
\* HeapUp, HeapDown and every other HeapDelete keep the order.
THEOREM MinOnTop == Spec => []TopUntilLost
  <1>1. Init => PlaceInv /\ OrderInv
    <2>1. Init => InOrder  BY DEF Init, InOrder
    <2> QED  BY <2>1, PlaceInit DEF OrderInv
  <1>2. PlaceInv /\ OrderInv /\ [Next]_vars => PlaceInv' /\ OrderInv'
    <2> SUFFICES ASSUME PlaceInv, OrderInv, [Next]_vars
                 PROVE  PlaceInv' /\ OrderInv'
      OBVIOUS
    <2>1. PlaceInv'  BY PlaceStep
    <2>2. ASSUME ~lost'  PROVE InOrder'
      <3>1. ~lost  BY <2>2, LostStays
      <3>2. InOrder  BY <3>1 DEF OrderInv
      <3> QED  BY <2>1, <2>2, <3>2, OrderStep
    <2> QED  BY <2>1, <2>2 DEF OrderInv
  <1>3. PlaceInv /\ OrderInv => TopUntilLost
    BY OrderTop DEF OrderInv, TopUntilLost
  <1> QED  BY <1>1, <1>2, <1>3, PTL DEF Spec
=============================================================================
