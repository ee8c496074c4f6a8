------------------------- MODULE VisitedParts_proofs -------------------------
(***************************************************************************)
(* Proofs about two parts that the visited list rests on, for heaps and    *)
(* tries of every size.                                                    *)
(*                                                                         *)
(* IntPairHeap keeps the heap order and implements MinBag.  HeapInv is     *)
(* inductive: HeapOrder states what holds in the middle of the two loops.  *)
(* That the root of an ordered heap has the smallest key is shown with a   *)
(* smallest counterexample.                                                *)
(*                                                                         *)
(* SequenceTrie stays well-formed and finds what was written, if no key    *)
(* that ends with a block begins a longer one.  TrieInv gives each node a  *)
(* key that was inserted through it: the node has the key's bits from its  *)
(* start to its end, a child's key goes on from its parent's, and no two   *)
(* nodes hold the same bit of keys that are the same up to there.  So a    *)
(* key has one way down, and one node can stand for it.                    *)
(***************************************************************************)
EXTENDS IntPairHeap, SequenceTrie, FiniteSetTheorems, SequenceTheorems, WellFoundedInduction, TLAPS

Less == {e \in Nat \X Nat : e[1] < e[2]}

\* Natural numbers have finitely many before them.
LEMMA LessIsWellFounded == IsWellFoundedOn(Less, Nat)
  BY NatLessThanWellFounded, Zenon DEF OpToRel, Less

\* Of any natural numbers one is the smallest.
LEMMA SmallestNumber ==
  ASSUME NEW B \in SUBSET Nat, B # {}
  PROVE  \E x \in B : \A y \in B : x <= y
  <1>1. PICK x \in B : \A y \in B : ~(<<y, x>> \in Less)
    <2>1. B \subseteq Nat /\ B # {}
      OBVIOUS
    <2>2. QED BY <2>1, LessIsWellFounded, WFMin
  <1>2. ASSUME NEW y \in B PROVE x <= y
    <2>1. ~(<<y, x>> \in Less) /\ x \in Nat /\ y \in Nat
      BY <1>1
    <2>2. <<y, x>> \in Less <=> y < x
      BY <2>1 DEF Less
    <2>3. QED BY <2>1, <2>2
  <1>3. QED BY <1>2
-----------------------------------------------------------------------------
(* The heap.                                                               *)

\* The parent of a slot lies before it, and the slots with a given parent are two.
LEMMA Halving == \A i \in Nat : /\ i \div 2 \in Nat
                                /\ i > 1 => i \div 2 >= 1 /\ i \div 2 < i
                                /\ i = 1 => i \div 2 = 0
                                /\ i = 2 * (i \div 2) \/ i = 2 * (i \div 2) + 1
  BY SMT

\* When no slot has a smaller key than its parent, the root has a smallest key.
LEMMA RootIsSmallest ==
  ASSUME NEW n \in Nat, NEW keyAt \in [1 .. n -> Int],
         \A i \in 1 .. n : i > 1 => keyAt[i \div 2] <= keyAt[i]
  PROVE  \A i \in 1 .. n : keyAt[1] <= keyAt[i]
  <1> DEFINE Below == {i \in 1 .. n : keyAt[i] < keyAt[1]}
  <1>1. SUFFICES ASSUME Below # {}
                 PROVE  FALSE
    BY SMT
  <1>2. PICK x \in Below : \A y \in Below : ~(<<y, x>> \in Less)
    <2>1. Below \subseteq Nat
      OBVIOUS
    <2> HIDE DEF Below
    <2>2. QED BY <1>1, <2>1, LessIsWellFounded, WFMin
  <1>3. x \in 1 .. n /\ x > 1
    BY SMT
  <1>4. x \div 2 \in 1 .. n /\ x \div 2 < x
    BY <1>3, Halving, SMT
  <1>5. x \div 2 \in Below
    BY <1>3, <1>4, SMT
  <1>6. <<x \div 2, x>> \in Less
    BY <1>3, <1>4 DEF Less
  <1>7. QED BY <1>2, <1>5, <1>6

\* Slots before the one to be filled are slots of the old array and of the new one.
LEMMA SlotsBefore ==
  ASSUME NEW n \in Nat, NEW m \in Nat, NEW size \in Nat, n < m, n <= size
  PROVE  /\ n \in 0 .. m - 1
         /\ \A i \in 0 .. n - 1 : i \in 0 .. size - 1 /\ i \in 0 .. m - 1
  OBVIOUS

\* Exchanging two slots moves entries and neither loses nor doubles one.
LEMMA ExchangeKeepsEntries ==
  ASSUME NEW D, NEW E, NEW a \in [D -> E], NEW S \in SUBSET D, NEW i \in S, NEW j \in S,
         \A k, l \in S : a[k] = a[l] => k = l
  PROVE  LET b == [a EXCEPT ![i] = a[j], ![j] = a[i]]
         IN  /\ {b[k] : k \in S} = {a[k] : k \in S}
             /\ \A k, l \in S : b[k] = b[l] => k = l
  <1> DEFINE b == [a EXCEPT ![i] = a[j], ![j] = a[i]]
  <1>1. b \in [D -> E] /\ b[i] = a[j] /\ b[j] = a[i] /\ \A k \in D : k # i /\ k # j => b[k] = a[k]
    OBVIOUS
  <1> HIDE DEF b
  <1>2. {b[k] : k \in S} = {a[k] : k \in S}
    BY <1>1
  <1>3. \A k, l \in S : b[k] = b[l] => k = l
    BY <1>1
  <1>4. QED BY <1>2, <1>3 DEF b
-----------------------------------------------------------------------------
\* Between calls and within them the entries in use have integer keys, at least IntMin.
LEMMA KeysOfSlots ==
  ASSUME HeapInv
  PROVE  /\ \A i \in Filled : array[i] \in Key \X Val /\ KeyOf(i) \in Int /\ IntMin <= KeyOf(i)
         /\ \A i \in 0 .. arraySize - 1 : KeyOf(i) \in Int
         /\ KeyOf(0) = IntMin
         /\ Filled \subseteq 1 .. arraySize - 1
  <1>1. \A i \in Filled : array[i] \in Key \X Val
    BY DEF HeapInv, HeapTypeOK, HoldsContents
  <1>2. \A i \in Filled : KeyOf(i) \in Int /\ IntMin <= KeyOf(i)
    BY <1>1, HeapAssumption DEF KeyOf
  <1>3. \A i \in 0 .. arraySize - 1 : KeyOf(i) \in Int
    <2>1. ASSUME NEW e \in Entry
          PROVE  e[1] \in Int
      <3>1. CASE e \in Key \X Val
        BY <3>1, HeapAssumption
      <3>2. CASE e = Sentinel
        BY <3>2, HeapAssumption DEF Sentinel
      <3>3. QED BY <3>1, <3>2 DEF Entry
    <2>2. \A i \in 0 .. arraySize - 1 : array[i] \in Entry
      BY DEF HeapInv, HeapTypeOK
    <2> QED BY <2>1, <2>2 DEF KeyOf
  <1>4. Filled \subseteq 1 .. arraySize - 1
    BY DEF HeapInv, HeapTypeOK, Filled, InUse
  <1>5. QED BY <1>1, <1>2, <1>3, <1>4 DEF HeapInv, SentinelStays, Sentinel, KeyOf

\* The empty heap is in order, with the sentinel in slot 0.
LEMMA InitInv == HeapInit => HeapInv
  <1> SUFFICES ASSUME HeapInit PROVE HeapInv
    OBVIOUS
  <1> USE HeapAssumption DEF HeapInit, Sentinel, Entry, KeyOf, Filled, InUse
  <1>1. HeapTypeOK
    BY DEF HeapTypeOK
  <1>2. HeapOrder
    BY DEF HeapOrder
  <1>3. HoldsContents
    BY DEF HoldsContents
  <1>4. SentinelStays
    BY DEF SentinelStays
  <1>5. QED BY <1>1, <1>2, <1>3, <1>4 DEF HeapInv

\* A pair that was put behind the last one is only out of order with its parent.
LEMMA AddInv ==
  ASSUME HeapInv, NEW k \in Key, NEW v \in Val, StartAdd(k, v)
  PROVE  HeapInv'
  <1>1. PICK junk \in Junk : array' = [Grown(junk) EXCEPT ![nextIndex] = <<k, v>>]
    BY DEF StartAdd
  <1>2. junk \in Entry /\ <<k, v>> \in Entry
    BY HeapAssumption DEF Entry, Sentinel
  <1>3. /\ Grown(junk) \in [0 .. arraySize' - 1 -> Entry]
        /\ \A i \in 0 .. arraySize - 1 : Grown(junk)[i] = array[i]
        /\ arraySize' \in Nat \ {0} /\ nextIndex < arraySize' /\ arraySize <= arraySize'
    BY <1>2 DEF StartAdd, HeapInv, HeapTypeOK, Grown
  <1>4. /\ array' \in [0 .. arraySize' - 1 -> Entry]
        /\ array'[nextIndex] = <<k, v>>
        /\ \A i \in 0 .. nextIndex - 1 : array'[i] = array[i]
    <2>1. nextIndex \in Nat /\ arraySize \in Nat /\ nextIndex <= arraySize
      BY DEF HeapInv, HeapTypeOK
    <2>0. arraySize' \in Nat /\ nextIndex < arraySize' /\ arraySize <= arraySize'
      BY <1>3
    <2>2. nextIndex \in 0 .. arraySize' - 1
      BY <2>0, <2>1, SlotsBefore
    <2>3. \A i \in 0 .. nextIndex - 1 : i \in 0 .. arraySize - 1 /\ i \in 0 .. arraySize' - 1
      BY <2>0, <2>1, SlotsBefore
    <2>4. /\ array' \in [0 .. arraySize' - 1 -> Entry]
          /\ array'[nextIndex] = <<k, v>>
          /\ \A i \in 0 .. arraySize' - 1 : i # nextIndex => array'[i] = Grown(junk)[i]
      BY <1>1, <1>2, <1>3, <2>2
    <2>5. \A i \in 0 .. nextIndex - 1 : i # nextIndex
      BY <2>1
    <2>6. QED BY <1>3, <2>3, <2>4, <2>5
  <1>5. Filled = 1 .. nextIndex - 1 /\ Filled' = 1 .. nextIndex
    BY DEF StartAdd, Filled, InUse
  <1>6. HeapTypeOK'
    BY <1>3, <1>4 DEF HeapInv, HeapTypeOK, StartAdd
  <1>7. HeapOrder'
    <2>1. \A i \in Filled : i > 1 => ~(KeyOf(i) < KeyOf(i \div 2))
      BY DEF HeapInv, HeapOrder, StartAdd
    <2>2. ASSUME NEW i \in Filled', i > 1, i # nextIndex
          PROVE  ~(array'[i][1] < array'[i \div 2][1])
      BY <1>4, <1>5, <2>1, <2>2, Halving DEF HeapInv, HeapTypeOK, KeyOf
    <2>3. \A i \in Filled' : i \div 2 # nextIndex
      BY <1>5, Halving DEF HeapInv, HeapTypeOK
    <2>4. call' = "add" /\ current' = nextIndex
      BY DEF StartAdd
    <2>5. QED BY <2>2, <2>3, <2>4 DEF HeapOrder, KeyOf
  <1>8. HoldsContents'
    <2>1. Filled' = Filled \union {nextIndex} /\ nextIndex \notin Filled
      BY <1>5 DEF HeapInv, HeapTypeOK
    <2>2. \A i \in Filled : array'[i] = array[i] /\ array[i] \in contents
      BY <1>4, <1>5 DEF HeapInv, HoldsContents
    <2>3. <<k, v>> \notin contents /\ contents' = contents \union {<<k, v>>}
      BY DEF HeapInv, HeapTypeOK, StartAdd
    <2>4. QED BY <1>4, <2>1, <2>2, <2>3 DEF HeapInv, HoldsContents
  <1>9. SentinelStays'
    BY <1>4 DEF HeapInv, HeapTypeOK, SentinelStays, Sentinel
  <1>10. QED BY <1>6, <1>7, <1>8, <1>9 DEF HeapInv

\* An exchange with the parent moves the place that is out of order up.
LEMMA RiseInv ==
  ASSUME HeapInv, Rise
  PROVE  HeapInv'
  <1> DEFINE parent == current \div 2
  <1>1. /\ current \in Filled /\ current > 1 /\ parent \in Filled /\ parent < current
        /\ Filled' = Filled /\ Filled = 1 .. nextIndex
        /\ call = "add" /\ call' = "add" /\ current' = parent
    <2>1. current # 1
      BY KeysOfSlots, Halving DEF HeapInv, HeapTypeOK, Rise, Rises, Filled
    <2>2. QED BY <2>1, Halving DEF HeapInv, HeapTypeOK, Rise, Filled
  <1>2. /\ array' = [array EXCEPT ![current] = array[parent], ![parent] = array[current]]
        /\ array' \in [0 .. arraySize - 1 -> Entry]
        /\ array'[current] = array[parent]
        /\ array'[parent] = array[current]
        /\ \A i \in 0 .. arraySize - 1 : i # current /\ i # parent => array'[i] = array[i]
    BY <1>1, KeysOfSlots DEF HeapInv, HeapTypeOK, Exchanged, Rise
  <1> HIDE DEF parent
  <1>3. HeapTypeOK'
    BY <1>1, <1>2 DEF HeapInv, HeapTypeOK, Rise
  <1>4. HeapOrder'
    <2> DEFINE new(i) == array'[i][1]
    <2>1. ASSUME NEW i \in Filled, i > 1
          PROVE  /\ i \div 2 \in Filled /\ i \div 2 < i
                 /\ KeyOf(i) \in Int /\ KeyOf(i \div 2) \in Int
                 /\ i # current => KeyOf(i \div 2) <= KeyOf(i)
                 /\ i \div 2 = current => KeyOf(parent) <= KeyOf(i)
      <3>1. i \div 2 \in Filled /\ i \div 2 < i
        BY <1>1, <2>1, Halving DEF HeapInv, HeapTypeOK
      <3>2. KeyOf(i) \in Int /\ KeyOf(i \div 2) \in Int
        BY <3>1, KeysOfSlots
      <3>3. i # current => ~(KeyOf(i) < KeyOf(i \div 2))
        BY <1>1, <2>1 DEF HeapInv, HeapOrder
      <3>4. i \div 2 = current => KeyOf(parent) <= KeyOf(i)
        BY <1>1 DEF HeapInv, HeapOrder, parent
      <3>5. QED BY <3>1, <3>2, <3>3, <3>4
    <2>2. /\ new(current) = KeyOf(parent) /\ new(parent) = KeyOf(current)
          /\ \A i \in Filled : i # current /\ i # parent => new(i) = KeyOf(i)
          /\ KeyOf(current) < KeyOf(parent) /\ KeyOf(current) \in Int /\ KeyOf(parent) \in Int
      BY <1>1, <1>2, KeysOfSlots DEF KeyOf, Rise, Rises, parent
    <2> HIDE DEF new
    <2>3. ASSUME NEW i \in Filled, i > 1, i # parent
          PROVE  new(i \div 2) <= new(i)
      <3>1. CASE i = current
        BY <2>2, <3>1 DEF parent
      <3>2. CASE i # current /\ i \div 2 = current
        BY <2>1, <2>2, <2>3, <3>2
      <3>3. CASE i # current /\ i \div 2 = parent
        BY <2>1, <2>2, <2>3, <3>3
      <3>4. CASE i # current /\ i \div 2 # current /\ i \div 2 # parent
        BY <2>1, <2>2, <2>3, <3>4
      <3>5. QED BY <3>1, <3>2, <3>3, <3>4
    <2>4. ASSUME parent > 1, NEW i \in Filled, i \div 2 = parent
          PROVE  new(parent \div 2) <= new(i)
      <3>1. /\ parent \div 2 \in Filled /\ parent \div 2 < parent /\ KeyOf(parent \div 2) <= KeyOf(parent)
            /\ KeyOf(parent \div 2) \in Int /\ i > 1 /\ i # parent
        BY <1>1, <2>1, <2>4, Halving
      <3>2. new(parent \div 2) = KeyOf(parent \div 2)
        BY <1>1, <2>2, <3>1
      <3>3. CASE i = current
        BY <2>2, <3>1, <3>2, <3>3
      <3>4. CASE i # current
        BY <2>1, <2>2, <2>4, <3>1, <3>2, <3>4
      <3>5. QED BY <3>3, <3>4
    <2>5. \A i \in Filled : new(i) \in Int
      BY <2>2, KeysOfSlots
    <2>6. \A i \in Filled : i > 1 => i \div 2 \in Filled
      BY <2>1
    <2>7. \A i \in Filled : i > 1 /\ new(i) < new(i \div 2) => i = parent
      BY <2>3, <2>5, <2>6
    <2>8. QED BY <1>1, <2>4, <2>7 DEF HeapOrder, KeyOf, new
  <1>5. HoldsContents'
    <2>1. Filled \subseteq 0 .. arraySize - 1
      BY KeysOfSlots
    <2>2. QED BY <1>1, <1>2, <2>1, ExchangeKeepsEntries, SMTT(30) DEF HeapInv, HeapTypeOK, HoldsContents, Rise
  <1>6. SentinelStays'
    BY <1>1, <1>2 DEF HeapInv, HeapTypeOK, SentinelStays, Sentinel
  <1>7. QED BY <1>3, <1>4, <1>5, <1>6 DEF HeapInv

\* The slots whose parent is current, and the one of them pop() looks at.
LEMMA Children ==
  ASSUME HeapInv, call = "pop"
  PROVE  /\ \A i \in Filled : i \div 2 = current => i = 2 * current \/ i = 2 * current + 1
         /\ \A i \in Filled : i \div 2 = current => 2 * current < nextIndex
         /\ 2 * current < nextIndex =>
              /\ SmallerChild \in Filled /\ SmallerChild > 1
              /\ SmallerChild \div 2 = current
              /\ current \in Filled /\ SmallerChild > current
              /\ \A i \in Filled : i \div 2 = current => KeyOf(SmallerChild) <= KeyOf(i)
  <1>1. Filled = 1 .. nextIndex - 1 /\ nextIndex \in Nat \ {0} /\ current \in 1 .. nextIndex
    BY DEF HeapInv, HeapTypeOK, Filled, InUse
  <1>2. \A i \in Filled : i \div 2 = current => i = 2 * current \/ i = 2 * current + 1
    BY <1>1, Halving
  <1>3. \A i \in Filled : i \div 2 = current => 2 * current < nextIndex
    BY <1>1, <1>2
  <1>4. ASSUME 2 * current < nextIndex
        PROVE  /\ SmallerChild \in Filled /\ SmallerChild > 1
               /\ SmallerChild \div 2 = current
               /\ current \in Filled /\ SmallerChild > current
               /\ \A i \in Filled : i \div 2 = current => KeyOf(SmallerChild) <= KeyOf(i)
    <2>1. SmallerChild \in {2 * current, 2 * current + 1} /\ SmallerChild \in Filled
      BY <1>1, <1>4 DEF SmallerChild
    <2>2. (2 * current) \div 2 = current /\ (2 * current + 1) \div 2 = current
      BY <1>1
    <2>3. 2 * current \in Filled
      BY <1>1, <1>4
    <2>4. ASSUME NEW i \in Filled, i \div 2 = current
          PROVE  KeyOf(SmallerChild) <= KeyOf(i)
      <3>1. KeyOf(i) \in Int /\ KeyOf(2 * current) \in Int
        BY <2>3, <2>4, KeysOfSlots
      <3>2. CASE 2 * current + 1 < nextIndex
        <4>1. 2 * current + 1 \in Filled
          BY <1>1, <3>2
        <4>2. KeyOf(2 * current + 1) \in Int
          BY <4>1, KeysOfSlots
        <4>3. QED BY <1>2, <2>4, <3>1, <3>2, <4>2 DEF SmallerChild
      <3>3. CASE ~(2 * current + 1 < nextIndex)
        BY <1>1, <1>2, <2>4, <3>1, <3>3 DEF SmallerChild
      <3>4. QED BY <3>2, <3>3
    <2>5. QED BY <1>1, <1>4, <2>1, <2>2, <2>4
  <1>5. QED BY <1>2, <1>3, <1>4

\* An exchange with the smaller child moves it down.
LEMMA SinkInv ==
  ASSUME HeapInv, Sink
  PROVE  HeapInv'
  <1> DEFINE c == SmallerChild
  <1>1. /\ c \in Filled /\ c > 1 /\ c \div 2 = current /\ current \in Filled /\ c > current
        /\ \A i \in Filled : i \div 2 = current => KeyOf(c) <= KeyOf(i)
        /\ KeyOf(c) < KeyOf(current)
        /\ Filled' = Filled /\ Filled = 1 .. nextIndex - 1
        /\ call = "pop" /\ call' = "pop" /\ current' = c
    BY Children DEF Sink, Sinks, Filled, InUse
  <1>2. /\ array' = [array EXCEPT ![current] = array[c], ![c] = array[current]]
        /\ array' \in [0 .. arraySize - 1 -> Entry]
        /\ array'[current] = array[c]
        /\ array'[c] = array[current]
        /\ \A i \in 0 .. arraySize - 1 : i # current /\ i # c => array'[i] = array[i]
    BY <1>1, KeysOfSlots, SMTT(30) DEF HeapInv, HeapTypeOK, Exchanged, Sink
  <1> HIDE DEF c
  <1>3. HeapTypeOK'
    BY <1>1, <1>2 DEF HeapInv, HeapTypeOK, Sink
  <1>4. HeapOrder'
    <2> DEFINE new(i) == array'[i][1]
    <2>1. ASSUME NEW i \in Filled, i > 1
          PROVE  /\ i \div 2 \in Filled /\ i \div 2 < i
                 /\ KeyOf(i) \in Int /\ KeyOf(i \div 2) \in Int
                 /\ i \div 2 # current => KeyOf(i \div 2) <= KeyOf(i)
                 /\ (i \div 2 = current /\ current > 1) => KeyOf(current \div 2) <= KeyOf(i)
      <3>1. i \div 2 \in Filled /\ i \div 2 < i
        BY <1>1, <2>1, Halving DEF HeapInv, HeapTypeOK
      <3>2. KeyOf(i) \in Int /\ KeyOf(i \div 2) \in Int
        BY <3>1, KeysOfSlots
      <3>3. i \div 2 # current => ~(KeyOf(i) < KeyOf(i \div 2))
        BY <1>1, <2>1 DEF HeapInv, HeapOrder
      <3>4. (i \div 2 = current /\ current > 1) => KeyOf(current \div 2) <= KeyOf(i)
        BY <1>1 DEF HeapInv, HeapOrder
      <3>5. QED BY <3>1, <3>2, <3>3, <3>4
    <2>2. /\ new(current) = KeyOf(c) /\ new(c) = KeyOf(current)
          /\ \A i \in Filled : i # current /\ i # c => new(i) = KeyOf(i)
          /\ KeyOf(current) \in Int /\ KeyOf(c) \in Int
      BY <1>1, <1>2, KeysOfSlots DEF KeyOf
    <2> HIDE DEF new
    <2>3. ASSUME NEW i \in Filled, i > 1, i \div 2 # c
          PROVE  new(i \div 2) <= new(i)
      <3>1. CASE i = c
        BY <1>1, <2>2, <3>1
      <3>2. CASE i # c /\ i \div 2 = current
        BY <1>1, <2>1, <2>2, <2>3, <3>2
      <3>3. CASE i = current
        <4>1. i \div 2 # current /\ KeyOf(current \div 2) <= KeyOf(c)
          BY <1>1, <2>1, <2>3, <3>3
        <4>2. QED BY <2>1, <2>2, <2>3, <3>3, <4>1
      <3>4. CASE i # c /\ i # current /\ i \div 2 # current
        BY <2>1, <2>2, <2>3, <3>4
      <3>5. QED BY <3>1, <3>2, <3>3, <3>4
    <2>4. ASSUME NEW i \in Filled, i \div 2 = c
          PROVE  new(c \div 2) <= new(i)
      <3>1. i > 1 /\ i # c /\ i # current /\ i \div 2 # current
        BY <1>1, <2>4, Halving DEF HeapInv, HeapTypeOK
      <3>2. QED BY <1>1, <2>1, <2>2, <2>4, <3>1
    <2>5. \A i \in Filled : new(i) \in Int
      BY <2>2, KeysOfSlots
    <2>6. \A i \in Filled : i > 1 => i \div 2 \in Filled
      BY <2>1
    <2>7. \A i \in Filled : i > 1 /\ new(i) < new(i \div 2) => i \div 2 = c
      BY <2>3, <2>5, <2>6
    <2>8. QED BY <1>1, <2>4, <2>7 DEF HeapOrder, KeyOf, new
  <1>5. HoldsContents'
    <2>1. Filled \subseteq 0 .. arraySize - 1
      BY KeysOfSlots
    <2>2. QED BY <1>1, <1>2, <2>1, ExchangeKeepsEntries DEF HeapInv, HeapTypeOK, HoldsContents, Sink
  <1>6. SentinelStays'
    BY <1>1, <1>2 DEF HeapInv, HeapTypeOK, SentinelStays, Sentinel
  <1>7. QED BY <1>3, <1>4, <1>5, <1>6 DEF HeapInv

\* When the loop of add ends, all is in order.
LEMMA RisenInv ==
  ASSUME HeapInv, Risen
  PROVE  HeapInv'
  <1>1. Filled' = Filled /\ Filled = 1 .. nextIndex /\ nextIndex' = nextIndex + 1
    BY DEF HeapInv, HeapTypeOK, Risen, Filled, InUse
  <1>2. HeapTypeOK'
    BY DEF HeapInv, HeapTypeOK, Risen
  <1>3. HeapOrder'
    <2>1. \A i \in Filled : i > 1 => ~(KeyOf(i) < KeyOf(i \div 2))
      BY DEF HeapInv, HeapOrder, Risen, Rises
    <2>2. \A i \in Filled' : i > 1 => ~(array'[i][1] < array'[i \div 2][1])
      BY <1>1, <2>1 DEF KeyOf, Risen
    <2>3. QED BY <2>2 DEF HeapOrder, KeyOf, Risen
  <1>4. HoldsContents' /\ SentinelStays'
    BY <1>1 DEF HeapInv, HoldsContents, SentinelStays, Sentinel, Risen
  <1>5. QED BY <1>2, <1>3, <1>4 DEF HeapInv

\* When the loop of pop ends, all is in order.
LEMMA SunkInv ==
  ASSUME HeapInv, Sunk
  PROVE  HeapInv'
  <1>1. Filled' = Filled
    BY DEF Sunk, Filled, InUse
  <1>2. HeapTypeOK'
    BY DEF HeapInv, HeapTypeOK, Sunk
  <1>3. HeapOrder'
    <2>1. ASSUME NEW i \in Filled, i > 1
          PROVE  ~(KeyOf(i) < KeyOf(i \div 2))
      <3>1. CASE i \div 2 # current
        BY <2>1, <3>1 DEF HeapInv, HeapOrder, Sunk
      <3>2. CASE i \div 2 = current
        <4>1. /\ ~(KeyOf(SmallerChild) < KeyOf(current))
              /\ KeyOf(SmallerChild) <= KeyOf(i)
              /\ SmallerChild \in Filled /\ current \in Filled
          BY <2>1, <3>2, Children DEF Sunk, Sinks
        <4>2. KeyOf(SmallerChild) \in Int /\ KeyOf(current) \in Int /\ KeyOf(i) \in Int
          BY <2>1, <4>1, KeysOfSlots
        <4>3. QED BY <3>2, <4>1, <4>2
      <3>3. QED BY <3>1, <3>2
    <2>2. \A i \in Filled' : i > 1 => ~(array'[i][1] < array'[i \div 2][1])
      BY <1>1, <2>1 DEF KeyOf, Sunk
    <2>3. QED BY <2>2 DEF HeapOrder, KeyOf, Sunk
  <1>4. HoldsContents' /\ SentinelStays'
    BY <1>1 DEF HeapInv, HoldsContents, SentinelStays, Sentinel, Sunk
  <1>5. QED BY <1>2, <1>3, <1>4 DEF HeapInv

\* The last pair takes the place of the first, which is only out of order with its children.
LEMMA PopInv ==
  ASSUME HeapInv, StartPop
  PROVE  HeapInv'
  <1>1. /\ Filled = 1 .. nextIndex - 1 /\ Filled' = 1 .. nextIndex - 2
        /\ nextIndex \in Nat /\ nextIndex > 1 /\ nextIndex <= arraySize /\ arraySize \in Nat
        /\ 1 \in Filled /\ nextIndex - 1 \in Filled
    BY DEF HeapInv, HeapTypeOK, StartPop, Filled, InUse
  <1>2. /\ array' \in [0 .. arraySize - 1 -> Entry]
        /\ array'[1] = array[nextIndex - 1]
        /\ \A i \in 0 .. arraySize - 1 : i # 1 => array'[i] = array[i]
    BY <1>1 DEF HeapInv, HeapTypeOK, StartPop
  <1>3. HeapTypeOK'
    BY <1>1, <1>2 DEF HeapInv, HeapTypeOK, StartPop
  <1>4. HeapOrder'
    <2>1. \A i \in Filled : i > 1 => ~(KeyOf(i) < KeyOf(i \div 2))
      BY DEF HeapInv, HeapOrder, StartPop
    <2>2. ASSUME NEW i \in Filled', i > 1, i \div 2 # 1
          PROVE  ~(array'[i][1] < array'[i \div 2][1])
      <3>1. i \in Filled /\ i \in 0 .. arraySize - 1 /\ i \div 2 \in 0 .. arraySize - 1
        BY <1>1, <2>2, Halving
      <3>2. QED BY <1>2, <2>1, <2>2, <3>1 DEF KeyOf
    <2>3. call' = "pop" /\ current' = 1
      BY DEF StartPop
    <2>4. QED BY <2>2, <2>3 DEF HeapOrder, KeyOf
  <1>5. HoldsContents'
    <2>1. contents' = contents \ {array[1]}
      BY DEF StartPop
    <2>2. \A i \in Filled' : i \in Filled /\ i \in 0 .. arraySize - 1
      BY <1>1
    <2>3. \A i \in Filled' : i # nextIndex - 1
      BY <1>1
    <2>4. \A i \in Filled : i \in Filled' \/ i = nextIndex - 1
      BY <1>1
    <2>5. \A i \in Filled' : array'[i] \in contents'
      BY <1>1, <1>2, <2>1, <2>2, <2>3 DEF HeapInv, HoldsContents
    <2>6. ASSUME NEW x \in contents'
          PROVE  \E i \in Filled' : array'[i] = x
      <3>1. PICK j \in Filled : array[j] = x /\ j # 1
        BY <2>1, <2>6 DEF HeapInv, HoldsContents
      <3>2. CASE j = nextIndex - 1
        <4>1. 1 \in Filled'
          BY <1>1, <3>1, <3>2
        <4>2. QED BY <1>2, <3>1, <3>2, <4>1
      <3>3. CASE j # nextIndex - 1
        BY <1>2, <2>2, <2>4, <3>1, <3>3
      <3>4. QED BY <3>2, <3>3
    <2>7. \A i, j \in Filled' : array'[i] = array'[j] => i = j
      BY <1>1, <1>2, <2>2, <2>3 DEF HeapInv, HoldsContents
    <2>8. QED BY <2>5, <2>6, <2>7 DEF HoldsContents
  <1>6. SentinelStays'
    BY <1>1, <1>2 DEF HeapInv, SentinelStays, Sentinel
  <1>7. QED BY <1>3, <1>4, <1>5, <1>6 DEF HeapInv

\* A heap that was cleared is empty; what the slots hold no longer matters.
LEMMA ClearInv ==
  ASSUME HeapInv, Clear
  PROVE  HeapInv'
  BY DEF HeapInv, HeapTypeOK, HeapOrder, HoldsContents, SentinelStays, Clear, Filled, InUse, Sentinel

\* Nothing changes the heap between its operations.
LEMMA StutterInv ==
  ASSUME HeapInv, UNCHANGED heapVars
  PROVE  HeapInv'
  BY DEF HeapInv, HeapTypeOK, HeapOrder, HoldsContents, SentinelStays, heapVars, Filled, InUse, Sentinel, KeyOf

\* Every step of the heap leaves the invariant.
LEMMA NextInv == HeapInv /\ [HeapNext]_heapVars => HeapInv'
  BY AddInv, RiseInv, RisenInv, PopInv, SinkInv, SunkInv, ClearInv, StutterInv DEF HeapNext, Add

\* In every state of a heap of any size, in the middle of a call too: the slots in use
\* lie inside the arrays, they are ordered up to the entry that moves, they hold what
\* was added and not popped, and the sentinel is in its place.
THEOREM InvCorrect == HeapSpec => []HeapInv
  BY InitInv, NextInv, PTL DEF HeapSpec

\* The order of the heap alone (IntPairHeap::add and pop).
THEOREM HeapOrderCorrect == HeapSpec => []HeapOrder
  BY InvCorrect, PTL DEF HeapInv
-----------------------------------------------------------------------------
\* Between two calls topKey() is a smallest key of the pairs in the heap.
LEMMA TopIsMinimal ==
  ASSUME HeapInv, call = "none", nextIndex > 1
  PROVE  array[1] \in Bag!Smallest
  <1>1. Filled = 1 .. nextIndex - 1 /\ nextIndex \in Nat /\ nextIndex - 1 \in Nat
    BY DEF HeapInv, HeapTypeOK, Filled, InUse
  <1> DEFINE keyAt == [i \in 1 .. nextIndex - 1 |-> KeyOf(i)]
  <1>2. keyAt \in [1 .. nextIndex - 1 -> Int]
    BY <1>1, KeysOfSlots
  <1>3. \A i \in 1 .. nextIndex - 1 : i > 1 => keyAt[i \div 2] <= keyAt[i]
    <2>1. ASSUME NEW i \in 1 .. nextIndex - 1, i > 1
          PROVE  keyAt[i \div 2] <= keyAt[i]
      <3>1. i \div 2 \in Filled
        BY <1>1, <2>1, Halving
      <3>2. ~(KeyOf(i) < KeyOf(i \div 2))
        BY <1>1, <2>1 DEF HeapInv, HeapOrder
      <3>3. KeyOf(i) \in Int /\ KeyOf(i \div 2) \in Int
        BY <1>1, <3>1, KeysOfSlots
      <3>4. QED BY <1>1, <3>1, <3>2, <3>3
    <2>2. QED BY <2>1
  <1>4. \A i \in 1 .. nextIndex - 1 : keyAt[1] <= keyAt[i]
    <2> HIDE DEF keyAt
    <2>1. QED BY <1>1, <1>2, <1>3, RootIsSmallest
  <1>5. 1 \in Filled /\ \A i \in Filled : array[1][1] <= array[i][1]
    <2>1. \A i \in 1 .. nextIndex - 1 : keyAt[i] = array[i][1]
      BY DEF KeyOf
    <2>2. 1 \in 1 .. nextIndex - 1
      BY <1>1
    <2> HIDE DEF keyAt
    <2>3. QED BY <1>1, <1>4, <2>1, <2>2
  <1>6. array[1] \in contents /\ \A e \in contents : \E i \in Filled : array[i] = e
    BY <1>5 DEF HeapInv, HoldsContents
  <1>7. QED BY <1>5, <1>6 DEF Bag!Smallest

\* The empty heap is the empty bag.
LEMMA BagInit == HeapInit => Bag!Init
  BY DEF HeapInit, Bag!Init

\* Every step adds a pair, takes one with a smallest key, empties the bag, or changes nothing in it.
LEMMA BagStep == HeapInv /\ [HeapNext]_heapVars => [Bag!Next]_contents
  <1> SUFFICES ASSUME HeapInv, [HeapNext]_heapVars
               PROVE  [Bag!Next]_contents
    OBVIOUS
  <1>1. CASE Add
    BY <1>1 DEF Add, StartAdd, Bag!Next, Bag!Add
  <1>2. CASE StartPop
    BY <1>2, TopIsMinimal DEF StartPop, Bag!Next, Bag!Pop
  <1>3. CASE Clear
    BY <1>3 DEF Clear, Bag!Next, Bag!Clear
  <1>4. CASE Rise \/ Risen \/ Sink \/ Sunk
    BY <1>4 DEF Rise, Risen, Sink, Sunk
  <1>5. CASE UNCHANGED heapVars
    BY <1>5 DEF heapVars
  <1>6. QED BY <1>1, <1>2, <1>3, <1>4, <1>5 DEF HeapNext

\* IntPairHeap implements MinBag: whatever was added and popped before, and however
\* often the arrays grew, pop() takes a pair with a smallest key out, and nothing else.
THEOREM HeapRefinement == HeapSpec => ImplementsMinBag
  <1>1. HeapSpec => Bag!Init /\ [][Bag!Next]_contents
    BY InvCorrect, BagInit, BagStep, PTL DEF HeapSpec
  <1>2. QED BY <1>1 DEF ImplementsMinBag, Bag!Spec
-----------------------------------------------------------------------------
(* Places in bit strings: a block, the first is 0, and a bit in it.        *)

Place == Nat \X Bit
Origin == <<0, 0>>
Before(q, r) == q[1] < r[1] \/ (q[1] = r[1] /\ q[2] < r[2])

\* Where a key ends: the place after its last bit.
KeyEnd(k) == IF k.paddingBits = 0 THEN <<Len(k.sequence), 0>>
             ELSE <<Len(k.sequence) - 1, W - k.paddingBits>>

\* A key has a one at a place.
Has(k, q) == q[2] \in k.sequence[q[1] + 1]

\* Two keys have the same bits before a place.
Agree(k, l, q) == \A r \in Place : Before(r, q) => (Has(k, r) <=> Has(l, r))

StartOf(n) == <<n.myFirstBlock, n.ignoreBitsFirst>>
EndOf(n) == <<NextBlock(n), NextBit(n)>>
Covers(n, q) == ~Before(q, StartOf(n)) /\ Before(q, EndOf(n))

\* A node has a one at a place.
Holds(n, q) == q[2] \in n.value[q[1] - n.myFirstBlock + 1]

Nodes == [value : Seq(SUBSET Bit), myFirstBlock : Nat, ignoreBitsFirst : Bit, ignoreBitsLast : Bit,
          zero : Nat, one : Nat, payload : Nat]

\* The bits that a node ignores are zero, and only what starts at the beginning may be empty.
NodeOK(n) == /\ n \in Nodes /\ Masked(n)
             /\ n.value = <<>> => StartOf(n) = Origin /\ n.ignoreBitsLast = 0

\* A block has more than one bit.
LEMMA Width == W \in Nat /\ W > 1
  BY TrieAssumption

\* Places are ordered, and Origin is the first.
LEMMA PlacesOrdered ==
  /\ Origin \in Place
  /\ \A q \in Place : ~Before(q, q) /\ ~Before(q, Origin) /\ (q # Origin => Before(Origin, q))
  /\ \A q, r \in Place : Before(q, r) \/ q = r \/ Before(r, q)
  /\ \A q, r \in Place : Before(q, r) => ~Before(r, q)
  /\ \A q, r, s \in Place : Before(q, r) /\ Before(r, s) => Before(q, s)
  BY Width DEF Place, Origin, Before, Bit

\* But for the first, each place comes right after another.
LEMMA PlaceBefore ==
  ASSUME NEW q \in Place, q # Origin
  PROVE  \E r \in Place : Before(r, q) /\ \A s \in Place : Before(s, q) => ~Before(r, s)
  <1> DEFINE r == IF q[2] > 0 THEN <<q[1], q[2] - 1>> ELSE <<q[1] - 1, W - 1>>
  <1>1. r \in Place
    BY Width DEF Place, Origin, Bit
  <1>2. Before(r, q) /\ \A s \in Place : Before(s, q) => ~Before(r, s)
    BY Width DEF Place, Origin, Before, Bit
  <1>3. QED BY <1>1, <1>2

\* Among any places there is a first one.
LEMMA FirstPlace ==
  ASSUME NEW B, NEW f \in [B -> Place], B # {}
  PROVE  \E b \in B : \A c \in B : ~Before(f[c], f[b])
  <1> DEFINE X == {f[b][1] : b \in B}
  <1>1. \A b \in B : f[b][1] \in Nat /\ f[b][2] \in Nat
    BY Width DEF Place, Bit
  <1>2. PICK x \in X : \A y \in X : x <= y
    <2>1. X \in SUBSET Nat /\ X # {}
      BY <1>1
    <2> HIDE DEF X
    <2>2. QED BY <2>1, SmallestNumber
  <1> DEFINE Y == {f[b][2] : b \in {c \in B : f[c][1] = x}}
  <1>3. PICK y \in Y : \A z \in Y : y <= z
    <2>1. Y \in SUBSET Nat /\ Y # {}
      BY <1>1, <1>2
    <2> HIDE DEF X, Y
    <2>2. QED BY <2>1, SmallestNumber
  <1>4. PICK b \in B : f[b][1] = x /\ f[b][2] = y
    BY <1>3
  <1>5. ASSUME NEW c \in B PROVE ~Before(f[c], f[b])
    <2>1. x <= f[c][1]
      BY <1>2
    <2>2. f[c][1] = x => y <= f[c][2]
      BY <1>3
    <2>3. QED BY <1>1, <1>4, <2>1, <2>2 DEF Before
  <1>6. QED BY <1>5

\* Shifts by fewer bits than a block has are what they seem.
LEMMA Masks ==
  ASSUME NEW b \in Bit
  PROVE  /\ Shift(b) = b
         /\ bitmask_ignore_first(b) = b .. W - 1
         /\ bitmask_ignore_last(b) = 0 .. W - 1 - b
  <1>1. \A x \in Nat : x < W => x % W = x
    BY Width
  <1>2. Shift(b) = b /\ (b # 0 => Shift(W - b) = W - b)
    BY <1>1, Width DEF Shift, Bit
  <1>3. bitmask_ignore_last(b) = 0 .. W - 1 - b
    <2>1. CASE b = 0
      BY <2>1, Width DEF bitmask_ignore_last, Bit
    <2>2. CASE b # 0
      <3>1. bitmask_ignore_last(b) = 0 .. (W - b) - 1
        BY <1>2, <2>2 DEF bitmask_ignore_last
      <3>2. (W - b) - 1 = W - 1 - b
        BY Width DEF Bit
      <3>3. QED BY <3>1, <3>2
    <2>3. QED BY <2>1, <2>2
  <1>4. QED BY <1>2, <1>3 DEF bitmask_ignore_first
-----------------------------------------------------------------------------
(* Keys and nodes as bits at places.                                       *)

\* A key ends after it began, and its blocks hold what is before.
LEMMA KeyFacts ==
  ASSUME NEW k \in Keys
  PROVE  /\ k.sequence \in Seq(SUBSET Bit) /\ Len(k.sequence) \in Nat \ {0} /\ k.paddingBits \in Bit
         /\ k.sequence[Len(k.sequence)] \subseteq 0 .. W - 1 - k.paddingBits
         /\ KeyEnd(k) \in Place /\ KeyEnd(k) # Origin
         /\ \A q \in Place : Before(q, KeyEnd(k)) <=>
              q[1] + 1 < Len(k.sequence) \/ (q[1] + 1 = Len(k.sequence) /\ q[2] + k.paddingBits < W)
  <1>1. k \in [sequence : Seq(SUBSET Bit) \ {<<>>}, paddingBits : Bit]
    BY TrieAssumption
  <1>2. k.sequence \in Seq(SUBSET Bit) /\ k.sequence # <<>> /\ k.paddingBits \in Bit
    BY <1>1
  <1>3. Len(k.sequence) \in Nat /\ Len(k.sequence) # 0
    BY <1>2, EmptySeq
  <1>4. k.sequence[Len(k.sequence)] \subseteq 0 .. W - 1 - k.paddingBits
    BY TrieAssumption
  <1> DEFINE l == Len(k.sequence)
             d == k.paddingBits
  <1>5. l \in Nat /\ l # 0 /\ d \in 0 .. W - 1
    BY <1>2, <1>3 DEF Bit
  <1>6. KeyEnd(k) = IF d = 0 THEN <<l, 0>> ELSE <<l - 1, W - d>>
    BY DEF KeyEnd
  <1> HIDE DEF l, d
  <1>7. KeyEnd(k) \in Place /\ KeyEnd(k) # Origin
    BY <1>5, <1>6, Width DEF Place, Origin, Bit
  <1>8. \A q \in Place : Before(q, KeyEnd(k)) <=> q[1] + 1 < l \/ (q[1] + 1 = l /\ q[2] + d < W)
    <2>1. CASE d = 0
      BY <1>5, <1>6, <2>1, Width DEF Place, Before, Bit
    <2>2. CASE d # 0
      BY <1>5, <1>6, <2>2, Width DEF Place, Before, Bit
    <2>3. QED BY <2>1, <2>2
  <1>9. QED BY <1>2, <1>3, <1>4, <1>7, <1>8 DEF l, d

\* Keys that end at the same place and have the same bits are the same.
LEMMA SameKey ==
  ASSUME NEW k \in Keys, NEW l \in Keys, KeyEnd(k) = KeyEnd(l), Agree(k, l, KeyEnd(k))
  PROVE  k = l
  <1>1. /\ k.sequence \in Seq(SUBSET Bit) /\ Len(k.sequence) \in Nat \ {0} /\ k.paddingBits \in Bit
        /\ l.sequence \in Seq(SUBSET Bit) /\ Len(l.sequence) \in Nat \ {0} /\ l.paddingBits \in Bit
    BY KeyFacts
  <1>2. Len(k.sequence) = Len(l.sequence) /\ k.paddingBits = l.paddingBits
    <2> DEFINE m == Len(k.sequence)
               n == Len(l.sequence)
               c == k.paddingBits
               d == l.paddingBits
    <2>1. m \in Nat /\ n \in Nat /\ c \in 0 .. W - 1 /\ d \in 0 .. W - 1
      BY <1>1 DEF Bit
    <2>2. (IF c = 0 THEN <<m, 0>> ELSE <<m - 1, W - c>>) = (IF d = 0 THEN <<n, 0>> ELSE <<n - 1, W - d>>)
      BY DEF KeyEnd
    <2> HIDE DEF m, n, c, d
    <2>3. m = n /\ c = d
      BY <2>1, <2>2, Width
    <2>4. QED BY <2>3 DEF m, n, c, d
  <1>3. ASSUME NEW i \in 1 .. Len(k.sequence)
        PROVE  k.sequence[i] = l.sequence[i]
    <2>1. k.sequence[i] \subseteq Bit /\ l.sequence[i] \subseteq Bit
      BY <1>1, <1>2
    <2>2. ASSUME NEW b \in Bit
          PROVE  b \in k.sequence[i] <=> b \in l.sequence[i]
      <3> DEFINE q == <<i - 1, b>>
      <3>1. q \in Place /\ q[1] + 1 = i /\ q[2] = b
        BY <1>1 DEF Place
      <3>2. CASE Before(q, KeyEnd(k))
        BY <3>1, <3>2 DEF Agree, Has
      <3>3. CASE ~Before(q, KeyEnd(k))
        <4>1. i = Len(k.sequence) /\ ~(b + k.paddingBits < W)
          BY <1>1, <3>1, <3>3, KeyFacts, Width DEF Bit
        <4>2. b \notin 0 .. W - 1 - k.paddingBits
          BY <1>1, <4>1, Width DEF Bit
        <4>3. /\ k.sequence[i] \subseteq 0 .. W - 1 - k.paddingBits
              /\ l.sequence[i] \subseteq 0 .. W - 1 - k.paddingBits
          BY <1>2, <4>1, KeyFacts
        <4>4. QED BY <4>2, <4>3
      <3>4. QED BY <3>2, <3>3
    <2>3. QED BY <2>1, <2>2
  <1>4. k.sequence = l.sequence
    BY <1>1, <1>2, <1>3, SeqEqual
  <1>5. /\ k \in [sequence : Seq(SUBSET Bit) \ {<<>>}, paddingBits : Bit]
        /\ l \in [sequence : Seq(SUBSET Bit) \ {<<>>}, paddingBits : Bit]
    BY TrieAssumption
  <1>6. QED BY <1>2, <1>4, <1>5

\* The parts of a node.
LEMMA NodeFacts ==
  ASSUME NEW n, NodeOK(n)
  PROVE  /\ n.value \in Seq(SUBSET Bit) /\ Len(n.value) \in Nat /\ n.myFirstBlock \in Nat
         /\ n.ignoreBitsFirst \in Bit /\ n.ignoreBitsLast \in Bit
         /\ StartOf(n) \in Place /\ EndOf(n) \in Place
         /\ \A q \in Place : Before(q, StartOf(n)) <=>
              q[1] < n.myFirstBlock \/ (q[1] = n.myFirstBlock /\ q[2] < n.ignoreBitsFirst)
         /\ \A q \in Place : Before(q, EndOf(n)) <=>
              q[1] + 1 < End(n) \/ (q[1] + 1 = End(n) /\ q[2] + n.ignoreBitsLast < W)
         /\ \A q \in Place : Covers(n, q) => q[1] - n.myFirstBlock + 1 \in 1 .. Len(n.value)
  <1>1. /\ n.value \in Seq(SUBSET Bit) /\ n.myFirstBlock \in Nat
        /\ n.ignoreBitsFirst \in Bit /\ n.ignoreBitsLast \in Bit
    BY DEF NodeOK, Nodes
  <1>2. Len(n.value) \in Nat
    BY <1>1, LenProperties
  <1> DEFINE l == Len(n.value)
             f == n.myFirstBlock
             a == n.ignoreBitsFirst
             d == n.ignoreBitsLast
  <1>3. l \in Nat /\ f \in Nat /\ a \in 0 .. W - 1 /\ d \in 0 .. W - 1
    BY <1>1, <1>2 DEF Bit
  <1>4. l = 0 => f = 0 /\ a = 0 /\ d = 0
    <2>1. CASE n.value = <<>>
      <3>1. <<f, a>> = <<0, 0>> /\ d = 0
        BY <2>1 DEF NodeOK, StartOf, Origin
      <3>2. QED BY <3>1
    <2>2. CASE n.value # <<>>
      BY <1>1, <2>2, EmptySeq
    <2>3. QED BY <2>1, <2>2
  <1>5. StartOf(n) = <<f, a>> /\ End(n) = f + l
    BY DEF StartOf, End
  <1>6. EndOf(n) = IF d = 0 THEN <<f + l, 0>> ELSE <<f + l - 1, W - d>>
    BY <1>1, <1>2, <1>5, Width DEF EndOf, NextBlock, NextBit, Bit
  <1> HIDE DEF l, f, a, d
  <1>7. StartOf(n) \in Place /\ EndOf(n) \in Place
    BY <1>3, <1>4, <1>5, <1>6, Width DEF Place, Bit
  <1>8. \A q \in Place : Before(q, StartOf(n)) <=> q[1] < f \/ (q[1] = f /\ q[2] < a)
    BY <1>3, <1>5 DEF Before
  <1>9. ASSUME NEW q \in Place
        PROVE  /\ Before(q, EndOf(n)) <=> q[1] + 1 < f + l \/ (q[1] + 1 = f + l /\ q[2] + d < W)
               /\ Covers(n, q) => q[1] - f + 1 \in 1 .. l
    <2>1. q[1] \in Nat /\ q[2] \in 0 .. W - 1
      BY DEF Place, Bit
    <2>2. Before(q, EndOf(n)) <=> q[1] + 1 < f + l \/ (q[1] + 1 = f + l /\ q[2] + d < W)
      <3>1. CASE d = 0
        BY <1>3, <1>6, <2>1, <3>1, Width DEF Before
      <3>2. CASE d # 0
        BY <1>3, <1>6, <2>1, <3>2, Width DEF Before
      <3>3. QED BY <3>1, <3>2
    <2>3. Covers(n, q) => q[1] - f + 1 \in 1 .. l
      <3>1. SUFFICES ASSUME Covers(n, q) PROVE q[1] - f + 1 \in 1 .. l
        OBVIOUS
      <3>2. ~(q[1] < f) /\ q[1] + 1 <= f + l
        BY <1>3, <1>8, <2>1, <2>2, <3>1 DEF Covers
      <3>3. QED BY <1>3, <2>1, <3>2
    <2>4. QED BY <2>2, <2>3
  <1>10. QED BY <1>1, <1>2, <1>5, <1>7, <1>8, <1>9 DEF l, f, a, d

\* Masking a block changes that block only.
LEMMA MaskedBlocks ==
  ASSUME NEW s \in Seq(SUBSET Bit), Len(s) \in Nat \ {0}, NEW m
  PROVE  /\ FirstMasked(s, m) \in Seq(SUBSET Bit) /\ Len(FirstMasked(s, m)) = Len(s)
         /\ \A j \in 1 .. Len(s) : FirstMasked(s, m)[j] = IF j = 1 THEN s[j] \intersect m ELSE s[j]
         /\ LastMasked(s, m) \in Seq(SUBSET Bit) /\ Len(LastMasked(s, m)) = Len(s)
         /\ \A j \in 1 .. Len(s) : LastMasked(s, m)[j] = IF j = Len(s) THEN s[j] \intersect m ELSE s[j]
  <1>1. s # <<>>
    BY EmptySeq
  <1>2. 1 \in 1 .. Len(s) /\ Len(s) \in 1 .. Len(s)
    OBVIOUS
  <1>3. s[1] \intersect m \in SUBSET Bit /\ s[Len(s)] \intersect m \in SUBSET Bit
    BY <1>2
  <1>4. FirstMasked(s, m) = [s EXCEPT ![1] = s[1] \intersect m]
    BY DEF FirstMasked
  <1>5. LastMasked(s, m) = [s EXCEPT ![Len(s)] = s[Len(s)] \intersect m]
    BY <1>1 DEF LastMasked
  <1>6. /\ FirstMasked(s, m) \in Seq(SUBSET Bit) /\ Len(FirstMasked(s, m)) = Len(s)
        /\ \A j \in 1 .. Len(s) : FirstMasked(s, m)[j] = IF j = 1 THEN s[1] \intersect m ELSE s[j]
    BY <1>2, <1>3, <1>4, ExceptSeq
  <1>7. /\ LastMasked(s, m) \in Seq(SUBSET Bit) /\ Len(LastMasked(s, m)) = Len(s)
        /\ \A j \in 1 .. Len(s) : LastMasked(s, m)[j] = IF j = Len(s) THEN s[Len(s)] \intersect m ELSE s[j]
    BY <1>2, <1>3, <1>5, ExceptSeq
  <1>8. QED BY <1>6, <1>7

\* What the constructors make for the rest of a key.
NodeFor(k, block, bit) ==
  [value |-> FirstMasked(SubSeq(k.sequence, block + 1, Len(k.sequence)), bitmask_ignore_first(bit)),
   myFirstBlock |-> block, ignoreBitsFirst |-> bit, ignoreBitsLast |-> k.paddingBits,
   zero |-> Nil, one |-> Nil, payload |-> 0]

\* Such a node has the bits of the key from a place on.
LEMMA NodeForFacts ==
  ASSUME NEW k \in Keys, NEW block \in Nat, NEW bit \in Bit, Before(<<block, bit>>, KeyEnd(k)),
         NEW n, n = NodeFor(k, block, bit)
  PROVE  /\ NodeOK(n) /\ StartOf(n) = <<block, bit>> /\ EndOf(n) = KeyEnd(k)
         /\ \A q \in Place : Covers(n, q) => (Holds(n, q) <=> Has(k, q))
         /\ n.zero = Nil /\ n.one = Nil /\ n.payload = 0
  <1> DEFINE s == k.sequence
             l == Len(k.sequence)
             d == k.paddingBits
             rest == SubSeq(s, block + 1, l)
             m == bitmask_ignore_first(bit)
             v == FirstMasked(rest, m)
  <1>1. /\ s \in Seq(SUBSET Bit) /\ l \in Nat \ {0} /\ d \in Bit
        /\ s[l] \subseteq 0 .. W - 1 - d
    BY KeyFacts
  <1>2. <<block, bit>> \in Place
    BY DEF Place
  <1>3. block + 1 <= l /\ (block + 1 = l => bit + d < W)
    BY <1>1, <1>2, KeyFacts, Width DEF Bit
  <1>4. /\ rest \in Seq(SUBSET Bit) /\ Len(rest) = l - block
        /\ \A i \in 1 .. l - block : rest[i] = s[block + i]
    <2>1. \A i \in block + 1 .. l : s[i] \in SUBSET Bit
      BY <1>1
    <2>2. /\ rest \in Seq(SUBSET Bit) /\ Len(rest) = IF block + 1 <= l THEN l - (block + 1) + 1 ELSE 0
          /\ \A i \in 1 .. l - (block + 1) + 1 : rest[i] = s[block + 1 + i - 1]
      BY <1>1, <2>1, SubSeqProperties
    <2>3. l - (block + 1) + 1 = l - block /\ \A i \in Nat : block + 1 + i - 1 = block + i
      BY <1>1
    <2>4. QED BY <1>1, <1>3, <2>2, <2>3
  <1>5. /\ v \in Seq(SUBSET Bit) /\ Len(v) = l - block
        /\ \A j \in 1 .. l - block : v[j] = IF j = 1 THEN s[block + j] \intersect m ELSE s[block + j]
    <2>1. Len(rest) \in Nat \ {0}
      BY <1>1, <1>3, <1>4
    <2>2. v = FirstMasked(rest, m) /\ rest \in Seq(SUBSET Bit)
      BY <1>4
    <2> HIDE DEF rest, v, m, s, l
    <2>3. /\ FirstMasked(rest, m) \in Seq(SUBSET Bit) /\ Len(FirstMasked(rest, m)) = Len(rest)
          /\ \A j \in 1 .. Len(rest) : FirstMasked(rest, m)[j] = IF j = 1 THEN rest[j] \intersect m ELSE rest[j]
      BY <2>1, <2>2, MaskedBlocks, Zenon
    <2>4. QED BY <1>4, <2>2, <2>3
  <1>6. /\ n.value = v /\ n.myFirstBlock = block /\ n.ignoreBitsFirst = bit /\ n.ignoreBitsLast = d
        /\ n.zero = Nil /\ n.one = Nil /\ n.payload = 0 /\ n \in Nodes
    BY <1>1, <1>5 DEF NodeFor, Nodes, Nil
  <1>7. m = bit .. W - 1 /\ bitmask_ignore_last(d) = 0 .. W - 1 - d
    BY <1>1, Masks
  <1> HIDE DEF s, l, d, rest, v, m
  <1>8. v # <<>>
    <2>1. Len(<<>>) = 0
      BY EmptySeq
    <2>2. QED BY <1>1, <1>3, <1>5, <2>1
  <1>9. NodeOK(n)
    <2>1. v[1] \subseteq m
      <3>1. 1 \in 1 .. l - block
        BY <1>1, <1>3
      <3>2. v[1] = s[block + 1] \intersect m
        BY <1>5, <3>1
      <3>3. QED BY <3>2
    <2>2. v[l - block] \subseteq s[l]
      <3>1. block + (l - block) = l /\ l - block \in 1 .. l - block
        BY <1>1, <1>3
      <3>2. QED BY <1>5, <3>1
    <2>3. Masked(n)
      BY <1>1, <1>5, <1>6, <1>7, <2>1, <2>2 DEF Masked, m
    <2>4. QED BY <1>6, <1>8, <2>3 DEF NodeOK
  <1>10. StartOf(n) = <<block, bit>>
    BY <1>6 DEF StartOf
  <1>11. EndOf(n) = KeyEnd(k)
    <2>1. End(n) = l
      BY <1>1, <1>3, <1>5, <1>6 DEF End
    <2>2. KeyEnd(k) = IF d = 0 THEN <<l, 0>> ELSE <<l - 1, W - d>>
      BY DEF KeyEnd, l, d
    <2>3. QED BY <1>1, <1>6, <2>1, <2>2, Width DEF EndOf, NextBlock, NextBit, Bit
  <1>12. ASSUME NEW q \in Place, Covers(n, q)
         PROVE  Holds(n, q) <=> Has(k, q)
    <2>1. q[1] - block + 1 \in 1 .. l - block
      BY <1>5, <1>6, <1>9, <1>12, NodeFacts
    <2>2. q[1] \in Nat /\ q[2] \in Bit /\ ~(q[1] = block /\ q[2] < bit)
      BY <1>6, <1>9, <1>12, NodeFacts DEF Place, Covers
    <2>3. block + (q[1] - block + 1) = q[1] + 1
      BY <2>2
    <2>4. v[q[1] - block + 1] = IF q[1] - block + 1 = 1 THEN s[q[1] + 1] \intersect m ELSE s[q[1] + 1]
      BY <1>5, <2>1, <2>3
    <2>5. q[1] - block + 1 = 1 => q[2] \in m
      BY <1>7, <2>2, Width DEF Bit
    <2>6. QED BY <1>6, <2>4, <2>5 DEF Holds, Has, s
  <1>13. QED BY <1>6, <1>9, <1>10, <1>11, <1>12
\* The lower part of a node that is split.
LowerOf(n, block, bit) ==
  [n EXCEPT !.value = FirstMasked(SubSeq(n.value, block + 1, Len(n.value)), bitmask_ignore_first(bit)),
            !.myFirstBlock = @ + block, !.ignoreBitsFirst = bit]

\* It has the bits of the node from a place on.
LEMMA LowerFacts ==
  ASSUME NEW n, NodeOK(n), NEW block \in Nat, NEW bit \in Bit,
         ~Before(<<n.myFirstBlock + block, bit>>, StartOf(n)), Before(<<n.myFirstBlock + block, bit>>, EndOf(n)),
         NEW lo, lo = LowerOf(n, block, bit)
  PROVE  /\ NodeOK(lo) /\ StartOf(lo) = <<n.myFirstBlock + block, bit>> /\ EndOf(lo) = EndOf(n)
         /\ \A q \in Place : Covers(lo, q) => Covers(n, q) /\ (Holds(lo, q) <=> Holds(n, q))
         /\ lo.zero = n.zero /\ lo.one = n.one /\ lo.payload = n.payload
  <1> DEFINE s == n.value
             l == Len(n.value)
             f == n.myFirstBlock
             d == n.ignoreBitsLast
             rest == SubSeq(s, block + 1, l)
             m == bitmask_ignore_first(bit)
             v == FirstMasked(rest, m)
  <1>1. s \in Seq(SUBSET Bit) /\ l \in Nat /\ f \in Nat /\ d \in Bit
    BY NodeFacts
  <1>2. <<f + block, bit>> \in Place
    BY <1>1 DEF Place
  <1>3. block + 1 <= l /\ (block + 1 = l => bit + d < W)
    <2>1. Before(<<f + block, bit>>, EndOf(n)) <=>
            f + block + 1 < End(n) \/ (f + block + 1 = End(n) /\ bit + d < W)
      BY <1>2, NodeFacts
    <2>2. End(n) = f + l
      BY DEF End
    <2> HIDE DEF f, l, d
    <2>3. QED BY <1>1, <2>1, <2>2 DEF f
  <1>4. /\ rest \in Seq(SUBSET Bit) /\ Len(rest) = l - block
        /\ \A i \in 1 .. l - block : rest[i] = s[block + i]
    <2>1. \A i \in block + 1 .. l : s[i] \in SUBSET Bit
      BY <1>1
    <2>2. /\ rest \in Seq(SUBSET Bit) /\ Len(rest) = IF block + 1 <= l THEN l - (block + 1) + 1 ELSE 0
          /\ \A i \in 1 .. l - (block + 1) + 1 : rest[i] = s[block + 1 + i - 1]
      BY <1>1, <2>1, SubSeqProperties
    <2>3. l - (block + 1) + 1 = l - block /\ \A i \in Nat : block + 1 + i - 1 = block + i
      BY <1>1
    <2>4. QED BY <1>1, <1>3, <2>2, <2>3
  <1>5. /\ v \in Seq(SUBSET Bit) /\ Len(v) = l - block
        /\ \A j \in 1 .. l - block : v[j] = IF j = 1 THEN s[block + j] \intersect m ELSE s[block + j]
    <2>1. Len(rest) \in Nat \ {0}
      BY <1>1, <1>3, <1>4
    <2>2. v = FirstMasked(rest, m) /\ rest \in Seq(SUBSET Bit)
      BY <1>4
    <2> HIDE DEF rest, v, m, s, l
    <2>3. /\ FirstMasked(rest, m) \in Seq(SUBSET Bit) /\ Len(FirstMasked(rest, m)) = Len(rest)
          /\ \A j \in 1 .. Len(rest) : FirstMasked(rest, m)[j] = IF j = 1 THEN rest[j] \intersect m ELSE rest[j]
      BY <2>1, <2>2, MaskedBlocks, Zenon
    <2>4. QED BY <1>4, <2>2, <2>3
  <1>6. /\ lo.value = v /\ lo.myFirstBlock = f + block /\ lo.ignoreBitsFirst = bit /\ lo.ignoreBitsLast = d
        /\ lo.zero = n.zero /\ lo.one = n.one /\ lo.payload = n.payload /\ lo \in Nodes
    <2>1. lo = [n EXCEPT !.value = v, !.myFirstBlock = @ + block, !.ignoreBitsFirst = bit]
      BY DEF LowerOf
    <2>2. v \in Seq(SUBSET Bit) /\ n \in Nodes /\ f + block \in Nat
      BY <1>1, <1>5 DEF NodeOK
    <2> HIDE DEF v
    <2>3. QED BY <2>1, <2>2 DEF Nodes
  <1>7. m = bit .. W - 1 /\ bitmask_ignore_last(d) = 0 .. W - 1 - d
    BY <1>1, Masks
  <1>8. s[l] \subseteq 0 .. W - 1 - d
    <2>1. s # <<>>
      <3>1. Len(<<>>) = 0
        BY EmptySeq
      <3>2. QED BY <1>1, <1>3, <3>1
    <2>2. QED BY <1>7, <2>1 DEF NodeOK, Masked
  <1> HIDE DEF s, l, d, f, rest, v, m
  <1>9. v # <<>>
    <2>1. Len(<<>>) = 0
      BY EmptySeq
    <2>2. QED BY <1>1, <1>3, <1>5, <2>1
  <1>10. NodeOK(lo)
    <2>1. v[1] \subseteq m
      <3>1. 1 \in 1 .. l - block
        BY <1>1, <1>3
      <3>2. v[1] = s[block + 1] \intersect m
        BY <1>5, <3>1
      <3>3. QED BY <3>2
    <2>2. v[l - block] \subseteq s[l]
      <3>1. block + (l - block) = l /\ l - block \in 1 .. l - block
        BY <1>1, <1>3
      <3>2. QED BY <1>5, <3>1
    <2>3. Masked(lo)
      BY <1>1, <1>5, <1>6, <1>7, <1>8, <2>1, <2>2 DEF Masked, m
    <2>4. QED BY <1>6, <1>9, <2>3 DEF NodeOK
  <1>11. StartOf(lo) = <<f + block, bit>>
    BY <1>6 DEF StartOf
  <1>12. End(lo) = End(n)
    BY <1>1, <1>3, <1>5, <1>6 DEF End, f, l, s
  <1>13. EndOf(lo) = EndOf(n)
    BY <1>6, <1>12 DEF EndOf, NextBlock, NextBit, d
  <1>14. ASSUME NEW q \in Place, Covers(lo, q)
         PROVE  Covers(n, q) /\ (Holds(lo, q) <=> Holds(n, q))
    <2>1. q[1] - (f + block) + 1 \in 1 .. l - block
      BY <1>5, <1>6, <1>10, <1>14, NodeFacts
    <2>2. q[1] \in Nat /\ q[2] \in Bit /\ ~(q[1] = f + block /\ q[2] < bit)
      BY <1>6, <1>10, <1>14, NodeFacts DEF Place, Covers
    <2>3. block + (q[1] - (f + block) + 1) = q[1] - f + 1
      BY <1>1, <2>2
    <2>4. v[q[1] - (f + block) + 1] =
            IF q[1] - (f + block) + 1 = 1 THEN s[q[1] - f + 1] \intersect m ELSE s[q[1] - f + 1]
      BY <1>5, <2>1, <2>3
    <2>5. q[1] - (f + block) + 1 = 1 => q[2] \in m
      <3>1. SUFFICES ASSUME q[1] - (f + block) + 1 = 1 PROVE q[2] \in m
        OBVIOUS
      <3>2. q[1] = f + block
        <4>1. f \in Nat /\ q[1] \in Nat /\ block \in Nat
          BY <1>1, <2>2
        <4>2. QED BY <3>1, <4>1
      <3>3. q[2] \in bit .. W - 1
        BY <2>2, <3>2, Width DEF Bit
      <3>4. QED BY <1>7, <3>3
    <2>6. Holds(lo, q) <=> Holds(n, q)
      BY <1>6, <2>4, <2>5 DEF Holds, s, f
    <2>7. Covers(n, q)
      <3>1. ~Before(q, <<f + block, bit>>) /\ Before(q, EndOf(n))
        BY <1>11, <1>13, <1>14 DEF Covers
      <3>2. ~Before(<<f + block, bit>>, StartOf(n)) /\ StartOf(n) \in Place
        BY NodeFacts DEF f
      <3>3. ~Before(q, StartOf(n))
        BY <1>2, <3>1, <3>2, PlacesOrdered
      <3>4. QED BY <3>1, <3>3 DEF Covers
    <2>8. QED BY <2>6, <2>7
  <1>15. QED BY <1>6, <1>10, <1>11, <1>13, <1>14 DEF f

\* The upper part of a node that is split.
UpperOf(n, block, bit, zero, one) ==
  [n EXCEPT !.value = LastMasked(SubSeq(@, 1, IF bit # 0 THEN block + 1 ELSE block),
                                 bitmask_ignore_last(IF bit = 0 THEN 0 ELSE W - bit)),
            !.ignoreBitsLast = IF bit = 0 THEN 0 ELSE W - bit,
            !.payload = 0, !.zero = zero, !.one = one]

\* A node can be split where it has a bit, but only the root at its beginning.
SplitsAt(n, q) == ~Before(q, StartOf(n)) /\ Before(q, EndOf(n)) /\ (q = StartOf(n) => StartOf(n) = Origin)

IsUpper(up, n, q, zero, one) ==
  /\ NodeOK(up) /\ StartOf(up) = StartOf(n) /\ EndOf(up) = q
  /\ \A r \in Place : Covers(up, r) => Covers(n, r) /\ (Holds(up, r) <=> Holds(n, r))
  /\ up.zero = zero /\ up.one = one /\ up.payload = 0

\* It has the bits of the node before a place.
LEMMA UpperFacts ==
  ASSUME NEW n, NodeOK(n), NEW block \in Nat, NEW bit \in Bit,
         NEW zero \in Nat, NEW one \in Nat,
         SplitsAt(n, <<n.myFirstBlock + block, bit>>),
         NEW up, up = UpperOf(n, block, bit, zero, one)
  PROVE  IsUpper(up, n, <<n.myFirstBlock + block, bit>>, zero, one)
  <1> DEFINE s == n.value
             l == Len(n.value)
             f == n.myFirstBlock
             a == n.ignoreBitsFirst
             d == IF bit = 0 THEN 0 ELSE W - bit
             len == IF bit # 0 THEN block + 1 ELSE block
             rest == SubSeq(s, 1, len)
             m == bitmask_ignore_last(d)
             v == LastMasked(rest, m)
  <1>0. /\ ~Before(<<n.myFirstBlock + block, bit>>, StartOf(n))
        /\ Before(<<n.myFirstBlock + block, bit>>, EndOf(n))
        /\ <<n.myFirstBlock + block, bit>> = StartOf(n) => StartOf(n) = Origin
    BY DEF SplitsAt
  <1>1. /\ s \in Seq(SUBSET Bit) /\ l \in Nat /\ f \in Nat /\ a \in Bit /\ n.ignoreBitsLast \in Bit
        /\ d \in Bit /\ len \in Nat
    BY NodeFacts, Width DEF Bit
  <1>2. <<f + block, bit>> \in Place
    BY <1>1 DEF Place
  <1>3. block + 1 <= l /\ len <= l
    <2>1. Before(<<f + block, bit>>, EndOf(n)) <=>
            f + block + 1 < End(n) \/ (f + block + 1 = End(n) /\ bit + n.ignoreBitsLast < W)
      BY <1>2, NodeFacts
    <2>2. End(n) = f + l
      BY DEF End
    <2>3. block + 1 <= l
      <3> HIDE DEF f, l
      <3>1. QED BY <1>0, <1>1, <2>1, <2>2 DEF f
    <2>4. QED BY <2>3
  <1>4. /\ rest \in Seq(SUBSET Bit) /\ Len(rest) = len
        /\ \A i \in 1 .. len : rest[i] = s[i]
    <2>1. \A i \in 1 .. len : s[i] \in SUBSET Bit
      BY <1>1, <1>3
    <2>2. /\ rest \in Seq(SUBSET Bit) /\ Len(rest) = IF 1 <= len THEN len - 1 + 1 ELSE 0
          /\ \A i \in 1 .. len - 1 + 1 : rest[i] = s[1 + i - 1]
      BY <1>1, <2>1, SubSeqProperties
    <2>3. len - 1 + 1 = len /\ (1 <= len \/ len = 0) /\ \A i \in Nat : 1 + i - 1 = i
      BY <1>1
    <2> HIDE DEF rest, s, len
    <2>4. QED BY <1>1, <2>2, <2>3
  <1>5. /\ v \in Seq(SUBSET Bit) /\ Len(v) = len
        /\ \A j \in 1 .. len : v[j] = IF j = len THEN s[j] \intersect m ELSE s[j]
    <2>1. v = LastMasked(rest, m) /\ rest \in Seq(SUBSET Bit)
      BY <1>4
    <2>2. CASE len = 0
      <3>1. rest = <<>>
        BY <1>4, <2>2, EmptySeq
      <3>2. v = <<>>
        BY <3>1 DEF LastMasked
      <3>3. v \in Seq(SUBSET Bit) /\ Len(v) = len
        BY <2>2, <3>2, EmptySeq
      <3>4. 1 .. len = {}
        BY <2>2
      <3> HIDE DEF rest, v, m, s, len
      <3>5. QED BY <3>3, <3>4
    <2>3. CASE len # 0
      <3>1. Len(rest) \in Nat \ {0}
        BY <1>1, <1>4, <2>3
      <3> HIDE DEF rest, v, m, s, len
      <3>2. /\ LastMasked(rest, m) \in Seq(SUBSET Bit) /\ Len(LastMasked(rest, m)) = Len(rest)
            /\ \A j \in 1 .. Len(rest) : LastMasked(rest, m)[j] = IF j = Len(rest) THEN rest[j] \intersect m ELSE rest[j]
        BY <2>1, <3>1, MaskedBlocks, Zenon
      <3>3. QED BY <1>4, <2>1, <3>2
    <2>4. QED BY <2>2, <2>3
  <1>6. /\ up.value = v /\ up.myFirstBlock = f /\ up.ignoreBitsFirst = a /\ up.ignoreBitsLast = d
        /\ up.zero = zero /\ up.one = one /\ up.payload = 0 /\ up \in Nodes
    BY <1>1, <1>5 DEF UpperOf, NodeOK, Nodes
  <1>7. m = 0 .. W - 1 - d
    BY <1>1, Masks
  <1>8. len = 0 => StartOf(n) = Origin /\ d = 0
    <2>1. SUFFICES ASSUME len = 0 PROVE StartOf(n) = Origin /\ d = 0
      OBVIOUS
    <2>2. block = 0 /\ bit = 0
      BY <2>1
    <2>3. StartOf(n) = <<f, a>> /\ ~Before(<<f, 0>>, <<f, a>>)
      <3>1. StartOf(n) = <<f, a>> /\ f + block = f
        BY <1>1, <2>2 DEF StartOf
      <3>2. <<n.myFirstBlock + block, bit>> = <<f, 0>>
        BY <2>2, <3>1
      <3>3. QED BY <1>0, <3>1, <3>2
    <2>4. a = 0
      BY <1>1, <2>3 DEF Before, Bit
    <2>5. QED BY <1>0, <1>1, <2>2, <2>3, <2>4
  <1> HIDE DEF s, l, d, f, a, len, rest, v, m
  <1>9. NodeOK(up)
    <2>1. CASE len = 0
      <3>1. v = <<>>
        BY <1>5, <2>1, EmptySeq
      <3>2. StartOf(up) = Origin
        BY <1>6, <1>8, <2>1 DEF StartOf, f, a
      <3>3. QED BY <1>6, <1>8, <2>1, <3>1, <3>2 DEF NodeOK, Masked
    <2>2. CASE len # 0
      <3>1. v # <<>>
        <4>1. Len(<<>>) = 0
          BY EmptySeq
        <4>2. QED BY <1>5, <2>2, <4>1
      <3>2. s # <<>>
        <4>1. Len(<<>>) = 0
          BY EmptySeq
        <4>2. QED BY <1>1, <1>3, <4>1 DEF l, s
      <3>3. s[1] \subseteq bitmask_ignore_first(a)
        BY <3>2 DEF NodeOK, Masked, s, a
      <3>4. 1 \in 1 .. len /\ len \in 1 .. len
        BY <1>1, <2>2
      <3>5. v[1] \subseteq s[1] /\ v[len] \subseteq m
        BY <1>5, <3>4
      <3>6. Masked(up)
        BY <1>5, <1>6, <3>3, <3>5 DEF Masked, m
      <3>7. QED BY <1>6, <3>1, <3>6 DEF NodeOK
    <2>3. QED BY <2>1, <2>2
  <1>10. StartOf(up) = StartOf(n)
    BY <1>6 DEF StartOf, f, a
  <1>11. End(up) = f + len
    BY <1>5, <1>6 DEF End
  <1>12. EndOf(up) = <<f + block, bit>>
    <2>1. CASE bit = 0
      <3>1. d = 0 /\ len = block
        BY <2>1 DEF d, len
      <3>2. QED BY <1>1, <1>6, <1>11, <2>1, <3>1 DEF EndOf, NextBlock, NextBit
    <2>2. CASE bit # 0
      <3>1. d = W - bit /\ len = block + 1 /\ bit \in 1 .. W - 1
        BY <2>2, Width DEF d, len, Bit
      <3>2. NextBit(up) = bit
        BY <1>6, <3>1, Width DEF NextBit
      <3>3. NextBlock(up) = f + block
        BY <1>1, <1>11, <2>2, <3>1, <3>2 DEF NextBlock
      <3>4. QED BY <3>2, <3>3 DEF EndOf
    <2>3. QED BY <2>1, <2>2
  <1>13. ASSUME NEW q \in Place, Covers(up, q)
         PROVE  Covers(n, q) /\ (Holds(up, q) <=> Holds(n, q))
    <2>1. q[1] - f + 1 \in 1 .. len
      BY <1>5, <1>6, <1>9, <1>13, NodeFacts
    <2>2. Before(q, EndOf(up)) /\ q[1] \in Nat /\ q[2] \in Bit
      BY <1>13 DEF Covers, Place
    <2>3. q[1] + 1 < f + len \/ (q[1] + 1 = f + len /\ q[2] + d < W)
      BY <1>6, <1>9, <1>11, <2>2, NodeFacts
    <2>4. v[q[1] - f + 1] = IF q[1] - f + 1 = len THEN s[q[1] - f + 1] \intersect m ELSE s[q[1] - f + 1]
      BY <1>5, <2>1
    <2>5. q[1] - f + 1 = len => q[2] \in m
      <3>1. SUFFICES ASSUME q[1] - f + 1 = len PROVE q[2] \in m
        OBVIOUS
      <3>2. q[2] + d < W /\ q[2] \in Nat /\ d \in Nat
        <4>1. ~(q[1] + 1 < f + len)
          <5>1. f \in Nat /\ q[1] \in Nat /\ len \in Nat
            BY <1>1, <2>2
          <5>2. QED BY <3>1, <5>1
        <4>2. q[2] \in Nat /\ d \in Nat
          BY <1>1, <2>2, Width DEF Bit
        <4>3. QED BY <2>3, <4>1, <4>2
      <3>3. QED BY <1>7, <3>2, Width
    <2>6. Holds(up, q) <=> Holds(n, q)
      BY <1>6, <2>4, <2>5 DEF Holds, s, f
    <2>7. Covers(n, q)
      <3>1. ~Before(q, StartOf(n)) /\ Before(q, <<f + block, bit>>)
        BY <1>10, <1>12, <1>13 DEF Covers
      <3>2. Before(<<f + block, bit>>, EndOf(n)) /\ EndOf(n) \in Place
        BY <1>0, NodeFacts DEF f
      <3>3. Before(q, EndOf(n))
        BY <1>2, <3>1, <3>2, PlacesOrdered
      <3>4. QED BY <3>1, <3>3 DEF Covers
    <2>8. QED BY <2>6, <2>7
  <1>14. QED BY <1>6, <1>9, <1>10, <1>12, <1>13 DEF f, IsUpper
-----------------------------------------------------------------------------
(* Trees of nodes, each with a key that was inserted through it.           *)

\* Keys have the same bits up to a place and there.
AgreeThrough(k, l, q) == Agree(k, l, q) /\ (Has(k, q) <=> Has(l, q))

\* Having the same bits is an equivalence, and keys with the same bits have them up to each place before.
LEMMA AgreeFacts ==
  ASSUME NEW k, NEW l, NEW q \in Place
  PROVE  /\ Agree(k, k, q) /\ (Agree(k, l, q) => Agree(l, k, q))
         /\ AgreeThrough(k, l, q) => AgreeThrough(l, k, q)
         /\ \A m : Agree(k, l, q) /\ Agree(l, m, q) => Agree(k, m, q)
         /\ \A m : AgreeThrough(k, l, q) /\ AgreeThrough(l, m, q) => AgreeThrough(k, m, q)
         /\ \A r \in Place : ~Before(q, r) /\ Agree(k, l, q) => Agree(k, l, r)
         /\ \A r \in Place : ~Before(q, r) /\ AgreeThrough(k, l, q) => AgreeThrough(k, l, r)
         /\ \A r \in Place : Before(r, q) /\ Agree(k, l, q) => AgreeThrough(k, l, r)
         /\ \A r \in Place : /\ Before(r, q) /\ \A s \in Place : Before(s, q) => ~Before(r, s)
                             /\ AgreeThrough(k, l, r)
                             => Agree(k, l, q)
  <1>1. /\ Agree(k, k, q) /\ (Agree(k, l, q) => Agree(l, k, q))
        /\ AgreeThrough(k, l, q) => AgreeThrough(l, k, q)
        /\ \A m : Agree(k, l, q) /\ Agree(l, m, q) => Agree(k, m, q)
        /\ \A m : AgreeThrough(k, l, q) /\ AgreeThrough(l, m, q) => AgreeThrough(k, m, q)
    BY DEF Agree, AgreeThrough
  <1>2. ASSUME NEW r \in Place, ~Before(q, r), Agree(k, l, q)
        PROVE  Agree(k, l, r)
    <2>1. \A s \in Place : Before(s, r) => Before(s, q)
      BY <1>2, PlacesOrdered
    <2>2. QED BY <1>2, <2>1 DEF Agree
  <1>3. ASSUME NEW r \in Place, ~Before(q, r), AgreeThrough(k, l, q)
        PROVE  AgreeThrough(k, l, r)
    <2>1. r = q \/ Before(r, q)
      BY <1>3, PlacesOrdered
    <2>2. QED BY <1>2, <1>3, <2>1 DEF Agree, AgreeThrough
  <1>4. ASSUME NEW r \in Place, Before(r, q), Agree(k, l, q)
        PROVE  AgreeThrough(k, l, r)
    <2>1. ~Before(q, r)
      BY <1>4, PlacesOrdered
    <2>2. QED BY <1>2, <1>4, <2>1 DEF Agree, AgreeThrough
  <1>5. ASSUME NEW r \in Place, \A s \in Place : Before(s, q) => ~Before(r, s), AgreeThrough(k, l, r)
        PROVE  Agree(k, l, q)
    <2>1. \A s \in Place : Before(s, q) => s = r \/ Before(s, r)
      BY <1>5, PlacesOrdered
    <2>2. QED BY <1>5, <2>1 DEF Agree, AgreeThrough
  <1>6. QED BY <1>1, <1>2, <1>3, <1>4, <1>5

Sides == {"zero", "one"}

\* Where the child is on the way of a key.
SideFor(k, q) == IF Has(k, q) THEN "one" ELSE "zero"

\* A node has the bits of a key, and ends before it or with it.
Fits(n, k) ==
  /\ NodeOK(n) /\ ~Before(EndOf(n), StartOf(n)) /\ ~Before(KeyEnd(k), EndOf(n))
  /\ \A q \in Place : Covers(n, q) => (Holds(n, q) <=> Has(k, q))

\* Only the root may be empty.
NodesFit(nd, K) ==
  /\ Cardinality(DOMAIN nd) \in Nat /\ DOMAIN nd = 1 .. Cardinality(DOMAIN nd)
  /\ 1 \in DOMAIN nd /\ StartOf(nd[1]) = Origin
  /\ \A a \in DOMAIN nd : K[a] \in Keys /\ Fits(nd[a], K[a])
  /\ \A a \in DOMAIN nd : a # 1 => Before(StartOf(nd[a]), EndOf(nd[a]))

ChildFits(nd, K, a, s, c) ==
  /\ c \in DOMAIN nd /\ c # 1
  /\ StartOf(nd[c]) = EndOf(nd[a])
  /\ Agree(K[a], K[c], StartOf(nd[c])) /\ s = SideFor(K[c], StartOf(nd[c]))

\* The keys of a child go on where those of its parent end, on its side.
ChildrenFit(nd, K) ==
  \A a \in DOMAIN nd : \A s \in Sides : nd[a][s] # Nil => ChildFits(nd, K, a, s, nd[a][s])

ParentsKnown(nd, K) ==
  \A c \in DOMAIN nd : c # 1 => \E a \in DOMAIN nd : nd[a][SideFor(K[c], StartOf(nd[c]))] = c

\* No two nodes hold the same bit of keys that are the same up to there.
Apart(nd, K) ==
  \A a, b \in DOMAIN nd : \A q \in Place :
    a # b /\ Covers(nd[a], q) /\ Covers(nd[b], q) => ~AgreeThrough(K[a], K[b], q)

Tree(nd, K) == NodesFit(nd, K) /\ ChildrenFit(nd, K) /\ ParentsKnown(nd, K) /\ Apart(nd, K)

\* The parts into which a node with this key is split at a place.
Parts(n, k, q, c, up, lo) ==
  /\ NodeOK(up) /\ StartOf(up) = StartOf(n) /\ EndOf(up) = q
  /\ \A r \in Place : Covers(up, r) => Covers(n, r) /\ (Holds(up, r) <=> Holds(n, r))
  /\ NodeOK(lo) /\ StartOf(lo) = q /\ EndOf(lo) = EndOf(n)
  /\ \A r \in Place : Covers(lo, r) => Covers(n, r) /\ (Holds(lo, r) <=> Holds(n, r))
  /\ ~Before(q, StartOf(n)) /\ Before(q, EndOf(n))
  /\ \A s \in Sides : lo[s] = n[s] /\ up[s] = IF s = SideFor(k, q) THEN c ELSE Nil

\* A tree stays one when a node is split: its lower part takes its children.
LEMMA TreeSplit ==
  ASSUME NEW nd, NEW K, Tree(nd, K), NEW a \in DOMAIN nd, NEW q \in Place,
         NEW c, c = Cardinality(DOMAIN nd) + 1,
         NEW up, NEW lo, Parts(nd[a], K[a], q, c, up, lo), a # 1 => Before(StartOf(nd[a]), q),
         NEW nd2, nd2 = With(With(nd, a, up), c, lo), NEW K2, K2 = With(K, c, K[a]),
         DOMAIN K = DOMAIN nd
  PROVE  Tree(nd2, K2) /\ DOMAIN K2 = DOMAIN nd2
  <1> DEFINE n == nd[a]
             D == DOMAIN nd
  <1>1. /\ Cardinality(D) \in Nat /\ D = 1 .. Cardinality(D) /\ 1 \in D /\ StartOf(nd[1]) = Origin
        /\ \A b \in D : K[b] \in Keys /\ Fits(nd[b], K[b])
        /\ \A b \in D : b # 1 => Before(StartOf(nd[b]), EndOf(nd[b]))
    BY DEF Tree, NodesFit
  <1>2. c \notin D /\ c # Nil /\ c # 1 /\ D \union {c} = 1 .. c /\ c \in Nat /\ Cardinality(D \union {c}) = c
    <2> DEFINE N == Cardinality(D)
    <2>1. N \in Nat /\ D = 1 .. N /\ c = N + 1 /\ 1 \in D
      BY <1>1
    <2> HIDE DEF N, D
    <2>2. c \notin D /\ c # 0 /\ c # 1 /\ D \union {c} = 1 .. c /\ c \in Nat
      BY <2>1
    <2>3. Cardinality(1 .. c) = c
      BY <2>2, FS_Interval
    <2>4. QED BY <2>2, <2>3 DEF Nil
  <1>3. /\ DOMAIN nd2 = D \union {c} /\ DOMAIN K2 = D \union {c}
        /\ nd2[a] = up /\ nd2[c] = lo /\ \A b \in D : b # a => nd2[b] = nd[b]
        /\ K2[c] = K[a] /\ \A b \in D : K2[b] = K[b]
    BY <1>2 DEF With
  <1>4. /\ NodeOK(up) /\ StartOf(up) = StartOf(n) /\ EndOf(up) = q
        /\ \A r \in Place : Covers(up, r) => Covers(n, r) /\ (Holds(up, r) <=> Holds(n, r))
        /\ NodeOK(lo) /\ StartOf(lo) = q /\ EndOf(lo) = EndOf(n)
        /\ \A r \in Place : Covers(lo, r) => Covers(n, r) /\ (Holds(lo, r) <=> Holds(n, r))
        /\ ~Before(q, StartOf(n)) /\ Before(q, EndOf(n))
        /\ \A s \in Sides : lo[s] = n[s] /\ up[s] = IF s = SideFor(K[a], q) THEN c ELSE Nil
    BY DEF Parts
  <1>5. Fits(n, K[a]) /\ K[a] \in Keys /\ EndOf(n) \in Place /\ StartOf(n) \in Place /\ KeyEnd(K[a]) \in Place
    BY <1>1, NodeFacts, KeyFacts DEF Fits
  <1>6. Fits(up, K[a]) /\ Fits(lo, K[a]) /\ Before(q, EndOf(n))
    <2>1. ~Before(KeyEnd(K[a]), EndOf(n)) /\ ~Before(EndOf(n), q) /\ ~Before(KeyEnd(K[a]), q)
      BY <1>4, <1>5, PlacesOrdered DEF Fits
    <2>2. \A r \in Place : Covers(n, r) => (Holds(n, r) <=> Has(K[a], r))
      BY <1>5 DEF Fits
    <2>3. QED BY <1>4, <2>1, <2>2 DEF Fits
  <1> HIDE DEF n, D
  <1>7. \A b \in D : StartOf(nd2[b]) = StartOf(nd[b])
    BY <1>3, <1>4 DEF n
  <1>8. NodesFit(nd2, K2)
    <2>1. ASSUME NEW b \in D \union {c}
          PROVE  /\ K2[b] \in Keys /\ Fits(nd2[b], K2[b])
                 /\ b # 1 => Before(StartOf(nd2[b]), EndOf(nd2[b]))
      <3>1. CASE b = c
        BY <1>3, <1>4, <1>5, <1>6, <3>1
      <3>2. CASE b = a
        BY <1>3, <1>4, <1>5, <1>6, <3>2 DEF D, n
      <3>3. CASE b \in D /\ b # a
        BY <1>1, <1>3, <3>3
      <3>4. QED BY <3>1, <3>2, <3>3
    <2>2. Cardinality(DOMAIN nd2) = c /\ DOMAIN nd2 = 1 .. c /\ c \in Nat /\ 1 \in DOMAIN nd2
      BY <1>1, <1>2, <1>3
    <2>3. StartOf(nd2[1]) = Origin
      BY <1>1, <1>7
    <2>4. QED BY <1>3, <2>1, <2>2, <2>3 DEF NodesFit
  <1>9. ASSUME NEW b \in D, NEW s \in Sides, NEW x, ChildFits(nd, K, b, s, x)
        PROVE  /\ x \in DOMAIN nd2 /\ x # 1 /\ StartOf(nd2[x]) = EndOf(nd[b])
               /\ Agree(K[b], K2[x], StartOf(nd2[x])) /\ s = SideFor(K2[x], StartOf(nd2[x]))
    <2>1. /\ x \in D /\ x # 1 /\ StartOf(nd[x]) = EndOf(nd[b])
          /\ Agree(K[b], K[x], StartOf(nd[x])) /\ s = SideFor(K[x], StartOf(nd[x]))
      BY <1>9 DEF ChildFits, D
    <2>2. QED BY <1>3, <1>7, <2>1
  <1>10. ChildrenFit(nd2, K2)
    <2> SUFFICES ASSUME NEW b \in DOMAIN nd2, NEW s \in Sides, nd2[b][s] # Nil
                 PROVE  ChildFits(nd2, K2, b, s, nd2[b][s])
      BY DEF ChildrenFit
    <2>1. CASE b \in D /\ b # a
      <3>1. ChildFits(nd, K, b, s, nd[b][s])
        BY <1>3, <2>1 DEF Tree, ChildrenFit, D
      <3>2. QED BY <1>3, <1>9, <2>1, <3>1 DEF ChildFits
    <2>2. CASE b = c
      <3>1. nd2[b] = lo /\ lo[s] = n[s] /\ EndOf(lo) = EndOf(n) /\ K2[b] = K[a] /\ a \in D
        BY <1>3, <1>4, <2>2 DEF D
      <3>2. ChildFits(nd, K, a, s, n[s])
        BY <3>1 DEF Tree, ChildrenFit, n
      <3>3. QED BY <1>9, <3>1, <3>2 DEF ChildFits, n
    <2>3. CASE b = a
      <3>1. nd2[b] = up /\ s = SideFor(K[a], q) /\ up[s] = c /\ K2[b] = K[a] /\ K2[c] = K[a]
        BY <1>3, <1>4, <2>3 DEF D
      <3>2. StartOf(nd2[c]) = q /\ EndOf(up) = q
        BY <1>3, <1>4
      <3>3. Agree(K[a], K[a], q)
        BY AgreeFacts
      <3>4. QED BY <1>2, <1>3, <3>1, <3>2, <3>3 DEF ChildFits
    <2>4. QED BY <1>3, <2>1, <2>2, <2>3
  <1>11. ParentsKnown(nd2, K2)
    <2> SUFFICES ASSUME NEW x \in DOMAIN nd2, x # 1
                 PROVE  \E b \in DOMAIN nd2 : nd2[b][SideFor(K2[x], StartOf(nd2[x]))] = x
      BY DEF ParentsKnown
    <2>1. CASE x = c
      <3>1. SideFor(K2[x], StartOf(nd2[x])) = SideFor(K[a], q) /\ SideFor(K[a], q) \in Sides
        BY <1>3, <1>4, <2>1 DEF SideFor, Sides
      <3>2. nd2[a][SideFor(K[a], q)] = c
        BY <1>3, <1>4, <3>1
      <3>3. QED BY <1>3, <2>1, <3>1, <3>2 DEF D
    <2>2. CASE x \in D
      <3> DEFINE s == SideFor(K[x], StartOf(nd[x]))
      <3>1. SideFor(K2[x], StartOf(nd2[x])) = s /\ s \in Sides
        BY <1>3, <1>7, <2>2 DEF SideFor, Sides
      <3>2. PICK b \in D : nd[b][s] = x
        BY <2>2 DEF Tree, ParentsKnown, D
      <3> HIDE DEF s
      <3>3. CASE b = a
        BY <1>3, <1>4, <3>1, <3>2, <3>3 DEF n
      <3>4. CASE b # a
        BY <1>3, <3>1, <3>2, <3>4
      <3>5. QED BY <3>3, <3>4
    <2>3. QED BY <1>3, <2>1, <2>2
  <1>12. Apart(nd2, K2)
    <2> DEFINE Old(b) == IF b = c THEN a ELSE b
    <2>1. ASSUME NEW b \in DOMAIN nd2
          PROVE  /\ Old(b) \in D /\ K2[b] = K[Old(b)]
                 /\ \A r \in Place : Covers(nd2[b], r) => Covers(nd[Old(b)], r)
      <3>1. CASE b = c
        BY <1>3, <1>4, <3>1 DEF D, n
      <3>2. CASE b = a
        BY <1>2, <1>3, <1>4, <3>2 DEF D, n
      <3>3. CASE b \in D /\ b # a
        BY <1>2, <1>3, <3>3
      <3>4. QED BY <1>3, <3>1, <3>2, <3>3
    <2>2. \A r \in Place : ~(Covers(up, r) /\ Covers(lo, r))
      BY <1>4 DEF Covers
    <2> SUFFICES ASSUME NEW b \in DOMAIN nd2, NEW x \in DOMAIN nd2, NEW r \in Place,
                        b # x, Covers(nd2[b], r), Covers(nd2[x], r)
                 PROVE  ~AgreeThrough(K2[b], K2[x], r)
      BY DEF Apart
    <2>3. Old(b) # Old(x)
      <3>1. CASE b = c /\ x = a
        BY <1>3, <2>2, <3>1
      <3>2. CASE b = a /\ x = c
        BY <1>3, <2>2, <3>2
      <3>3. CASE ~(b = c /\ x = a) /\ ~(b = a /\ x = c)
        BY <3>3
      <3>4. QED BY <3>1, <3>2, <3>3
    <2>4. /\ Old(b) \in D /\ Old(x) \in D /\ K2[b] = K[Old(b)] /\ K2[x] = K[Old(x)]
          /\ Covers(nd[Old(b)], r) /\ Covers(nd[Old(x)], r)
      BY <2>1
    <2> HIDE DEF Old
    <2>5. QED BY <2>3, <2>4 DEF Tree, Apart, D
  <1>13. QED BY <1>3, <1>8, <1>10, <1>11, <1>12 DEF Tree
\* A node that does not end at the beginning holds the last place before its end.
LEMMA HoldsLast ==
  ASSUME NEW nd, NEW K, NodesFit(nd, K), NEW x \in DOMAIN nd, EndOf(nd[x]) # Origin,
         NEW t \in Place, Before(t, EndOf(nd[x])), \A s \in Place : Before(s, EndOf(nd[x])) => ~Before(t, s)
  PROVE  Covers(nd[x], t) /\ Before(StartOf(nd[x]), EndOf(nd[x]))
  <1>1. StartOf(nd[x]) \in Place /\ EndOf(nd[x]) \in Place /\ ~Before(EndOf(nd[x]), StartOf(nd[x]))
    BY NodeFacts DEF NodesFit, Fits
  <1>2. Before(StartOf(nd[x]), EndOf(nd[x]))
    <2>1. CASE x = 1
      BY <1>1, <2>1, PlacesOrdered DEF NodesFit
    <2>2. CASE x # 1
      BY <2>2 DEF NodesFit
    <2>3. QED BY <2>1, <2>2
  <1>3. ~Before(t, StartOf(nd[x]))
    BY <1>1, <1>2
  <1>4. QED BY <1>2, <1>3 DEF Covers

\* Of the nodes whose keys are the same up to their end there is one that ends at a place.
LEMMA EndsOnce ==
  ASSUME NEW nd, NEW K, Tree(nd, K), NEW a \in DOMAIN nd, NEW b \in DOMAIN nd,
         EndOf(nd[a]) = EndOf(nd[b]), Agree(K[a], K[b], EndOf(nd[a]))
  PROVE  a = b
  <1> DEFINE q == EndOf(nd[a])
  <1>1. /\ NodesFit(nd, K) /\ q \in Place /\ StartOf(nd[a]) \in Place /\ StartOf(nd[b]) \in Place
    BY NodeFacts DEF Tree, NodesFit, Fits
  <1>2. CASE q = Origin
    <2>1. ~Before(StartOf(nd[a]), q) /\ ~Before(StartOf(nd[b]), q)
      BY <1>1, <1>2, PlacesOrdered
    <2>2. QED BY <1>1, <2>1 DEF NodesFit
  <1>3. CASE q # Origin
    <2>1. PICK t \in Place : Before(t, q) /\ \A s \in Place : Before(s, q) => ~Before(t, s)
      BY <1>1, <1>3, PlaceBefore
    <2>2. Covers(nd[a], t) /\ Covers(nd[b], t)
      BY <1>1, <1>3, <2>1, HoldsLast
    <2>3. AgreeThrough(K[a], K[b], t)
      BY <1>1, <2>1, AgreeFacts
    <2>4. QED BY <2>2, <2>3 DEF Tree, Apart
  <1>4. QED BY <1>2, <1>3

\* Where a node has no child no other node holds what comes after it.
LEMMA NothingBeyond ==
  ASSUME NEW nd, NEW K, Tree(nd, K), NEW a \in DOMAIN nd, NEW k,
         Agree(K[a], k, EndOf(nd[a])), nd[a][SideFor(k, EndOf(nd[a]))] = Nil
  PROVE  \A b \in DOMAIN nd : \A q \in Place :
           Covers(nd[b], q) /\ ~Before(q, EndOf(nd[a])) => ~AgreeThrough(K[b], k, q)
  <1> DEFINE r == EndOf(nd[a])
             Beyond(b, q) == Covers(nd[b], q) /\ ~Before(q, r) /\ AgreeThrough(K[b], k, q)
             B == {b \in DOMAIN nd : \E q \in Place : Beyond(b, q)}
             f == [b \in B |-> StartOf(nd[b])]
  <1>1. /\ NodesFit(nd, K) /\ ChildrenFit(nd, K) /\ ParentsKnown(nd, K) /\ Apart(nd, K)
        /\ \A b \in DOMAIN nd : StartOf(nd[b]) \in Place /\ EndOf(nd[b]) \in Place /\ b # Nil
        /\ 1 \in DOMAIN nd /\ StartOf(nd[1]) = Origin
        /\ \A b \in DOMAIN nd : b # 1 => Before(StartOf(nd[b]), EndOf(nd[b]))
    <2>1. NodesFit(nd, K) /\ ChildrenFit(nd, K) /\ ParentsKnown(nd, K) /\ Apart(nd, K)
      BY DEF Tree
    <2>2. \A b \in DOMAIN nd : StartOf(nd[b]) \in Place /\ EndOf(nd[b]) \in Place
      BY <2>1, NodeFacts DEF NodesFit, Fits
    <2>3. \A b \in DOMAIN nd : b # Nil
      BY <2>1 DEF NodesFit, Nil
    <2>4. QED BY <2>1, <2>2, <2>3 DEF NodesFit
  <1>2. SUFFICES ASSUME B # {} PROVE FALSE
    OBVIOUS
  <1>3. PICK b \in B : \A x \in B : ~Before(StartOf(nd[x]), StartOf(nd[b]))
    <2>1. f \in [B -> Place]
      BY <1>1
    <2> HIDE DEF B
    <2>2. PICK b \in B : \A x \in B : ~Before(f[x], f[b])
      BY <1>2, <2>1, FirstPlace
    <2>3. QED BY <2>2
  <1>4. PICK q \in Place : Covers(nd[b], q) /\ ~Before(q, r) /\ AgreeThrough(K[b], k, q)
    OBVIOUS
  <1>5. b \in DOMAIN nd /\ r \in Place
    BY <1>1
  <1> DEFINE s == StartOf(nd[b])
  <1>6. s \in Place /\ ~Before(q, s) /\ Before(q, EndOf(nd[b]))
    BY <1>1, <1>4 DEF Covers
  <1>7. \A t \in Place : ~Before(q, t) => AgreeThrough(K[b], k, t)
    BY <1>4, AgreeFacts
  <1>8. b # 1 => \E x \in DOMAIN nd : /\ EndOf(nd[x]) = s /\ Agree(K[x], K[b], s)
                                      /\ nd[x][SideFor(K[b], s)] = b
    <2> SUFFICES ASSUME b # 1
                 PROVE  \E x \in DOMAIN nd : /\ EndOf(nd[x]) = s /\ Agree(K[x], K[b], s)
                                             /\ nd[x][SideFor(K[b], s)] = b
      OBVIOUS
    <2>1. PICK x \in DOMAIN nd : nd[x][SideFor(K[b], s)] = b
      BY <1>1, <1>5 DEF ParentsKnown
    <2>2. SideFor(K[b], s) \in Sides /\ b # Nil
      BY <1>1, <1>5 DEF SideFor, Sides
    <2>3. ChildFits(nd, K, x, SideFor(K[b], s), b)
      BY <1>1, <2>1, <2>2 DEF ChildrenFit
    <2>4. QED BY <2>1, <2>3 DEF ChildFits
  <1>9. ~Before(r, s)
    <2> SUFFICES ASSUME Before(r, s) PROVE FALSE
      OBVIOUS
    <2>1. b # 1 /\ s # Origin
      BY <1>1, <1>5, PlacesOrdered
    <2>2. PICK x \in DOMAIN nd : EndOf(nd[x]) = s /\ Agree(K[x], K[b], s)
      BY <1>8, <2>1
    <2>3. PICK t \in Place : Before(t, s) /\ \A u \in Place : Before(u, s) => ~Before(t, u)
      BY <1>6, <2>1, PlaceBefore
    <2>4. Covers(nd[x], t) /\ Before(StartOf(nd[x]), s)
      BY <1>1, <2>1, <2>2, <2>3, HoldsLast
    <2>5. ~Before(t, r)
      BY <1>5, <2>3
    <2>6. AgreeThrough(K[x], K[b], t)
      BY <1>6, <2>2, <2>3, AgreeFacts
    <2>7. AgreeThrough(K[b], k, t)
      BY <1>6, <1>7, <2>3, PlacesOrdered
    <2>8. AgreeThrough(K[x], k, t)
      BY <2>6, <2>7, AgreeFacts
    <2>9. x \in B
      BY <2>4, <2>5, <2>8
    <2>10. QED BY <1>3, <2>4, <2>9
  <1>10. AgreeThrough(K[b], k, r) /\ Before(r, EndOf(nd[b]))
    BY <1>1, <1>4, <1>5, <1>6, <1>7, PlacesOrdered
  <1> HIDE DEF B, f, Beyond
  <1>11. CASE Before(s, r)
    <2>1. r # Origin
      BY <1>6, <1>11, PlacesOrdered
    <2>2. PICK t \in Place : Before(t, r) /\ \A u \in Place : Before(u, r) => ~Before(t, u)
      BY <1>5, <2>1, PlaceBefore
    <2>3. Covers(nd[a], t)
      BY <1>1, <2>1, <2>2, HoldsLast
    <2>4. Covers(nd[b], t)
      <3>1. ~Before(t, s)
        BY <1>6, <1>11, <2>2
      <3>2. Before(t, EndOf(nd[b]))
        BY <1>1, <1>5, <1>10, <2>2, PlacesOrdered
      <3>3. QED BY <3>1, <3>2 DEF Covers
    <2>5. AgreeThrough(K[a], k, t) /\ AgreeThrough(K[b], k, t)
      <3>1. ~Before(r, t)
        BY <1>5, <2>2, PlacesOrdered
      <3>2. QED BY <1>5, <1>10, <2>2, <3>1, AgreeFacts
    <2>6. AgreeThrough(K[a], K[b], t)
      BY <2>5, AgreeFacts
    <2>7. a = b
      BY <1>1, <1>5, <2>3, <2>4, <2>6 DEF Apart
    <2>8. QED BY <1>5, <1>10, <2>7, PlacesOrdered
  <1>12. CASE s = r
    <2>1. CASE b = 1
      <3>1. r = Origin
        BY <1>1, <1>12, <2>1
      <3>2. a = 1
        BY <1>1, <3>1, PlacesOrdered
      <3>3. QED BY <1>5, <1>10, <2>1, <3>2, PlacesOrdered
    <2>2. CASE b # 1
      <3>1. PICK x \in DOMAIN nd : EndOf(nd[x]) = r /\ Agree(K[x], K[b], r) /\ nd[x][SideFor(K[b], r)] = b
        BY <1>8, <1>12, <2>2
      <3>2. Agree(K[b], k, r) /\ (Has(K[b], r) <=> Has(k, r))
        BY <1>10 DEF AgreeThrough
      <3>3. Agree(K[x], K[a], r)
        BY <1>5, <3>1, <3>2, AgreeFacts
      <3>4. x = a
        BY <3>1, <3>3, EndsOnce
      <3>5. SideFor(K[b], r) = SideFor(k, r)
        BY <3>2 DEF SideFor
      <3>6. QED BY <1>1, <1>5, <3>1, <3>4, <3>5
    <2>3. QED BY <2>1, <2>2
  <1>13. QED BY <1>5, <1>6, <1>9, <1>11, <1>12, PlacesOrdered

\* The rest of a key, to be put below a node.
IsLeaf(n, k, q) ==
  /\ Fits(n, k) /\ StartOf(n) = q /\ EndOf(n) = KeyEnd(k) /\ Before(q, KeyEnd(k))
  /\ \A s \in Sides : n[s] = Nil

\* A node with another child.
HasChild(m, n, s, c) ==
  /\ NodeOK(m) /\ m.value = n.value /\ m.myFirstBlock = n.myFirstBlock
  /\ m.ignoreBitsFirst = n.ignoreBitsFirst /\ m.ignoreBitsLast = n.ignoreBitsLast /\ m.payload = n.payload
  /\ \A t \in Sides : m[t] = IF t = s THEN c ELSE n[t]

\* The rest of a key is put below a node, which has no child there.
LeafAdded(nd, K, nd2, K2, a, k, c, m, leaf) ==
  /\ DOMAIN K = DOMAIN nd /\ a \in DOMAIN nd /\ c = Cardinality(DOMAIN nd) + 1
  /\ Agree(K[a], k, EndOf(nd[a])) /\ nd[a][SideFor(k, EndOf(nd[a]))] = Nil
  /\ HasChild(m, nd[a], SideFor(k, EndOf(nd[a])), c)
  /\ IsLeaf(leaf, k, EndOf(nd[a])) /\ leaf.payload = 0
  /\ nd2 = With(With(nd, a, m), c, leaf) /\ K2 = With(K, c, k)

\* A tree stays one when the rest of a key is put where a node has no child.
LEMMA TreeAddLeaf ==
  ASSUME NEW nd, NEW K, NEW nd2, NEW K2, NEW a, NEW k \in Keys, NEW c, NEW m, NEW leaf,
         Tree(nd, K), LeafAdded(nd, K, nd2, K2, a, k, c, m, leaf)
  PROVE  Tree(nd2, K2) /\ DOMAIN K2 = DOMAIN nd2
  <1> DEFINE n == nd[a]
             D == DOMAIN nd
             q == EndOf(nd[a])
             side == SideFor(k, EndOf(nd[a]))
  <1>0. /\ DOMAIN K = DOMAIN nd /\ a \in DOMAIN nd /\ c = Cardinality(DOMAIN nd) + 1
        /\ Agree(K[a], k, EndOf(nd[a])) /\ nd[a][SideFor(k, EndOf(nd[a]))] = Nil
        /\ HasChild(m, nd[a], SideFor(k, EndOf(nd[a])), c) /\ IsLeaf(leaf, k, EndOf(nd[a]))
        /\ nd2 = With(With(nd, a, m), c, leaf) /\ K2 = With(K, c, k)
    BY DEF LeafAdded
  <1> USE <1>0
  <1>1. /\ Cardinality(D) \in Nat /\ D = 1 .. Cardinality(D) /\ 1 \in D /\ StartOf(nd[1]) = Origin
        /\ \A b \in D : K[b] \in Keys /\ Fits(nd[b], K[b])
        /\ \A b \in D : b # 1 => Before(StartOf(nd[b]), EndOf(nd[b]))
    BY DEF Tree, NodesFit
  <1>2. c \notin D /\ c # Nil /\ c # 1 /\ D \union {c} = 1 .. c /\ c \in Nat /\ Cardinality(D \union {c}) = c
    <2> DEFINE N == Cardinality(D)
    <2>1. N \in Nat /\ D = 1 .. N /\ c = N + 1 /\ 1 \in D
      BY <1>1
    <2> HIDE DEF N, D
    <2>2. c \notin D /\ c # 0 /\ c # 1 /\ D \union {c} = 1 .. c /\ c \in Nat
      BY <2>1
    <2>3. Cardinality(1 .. c) = c
      BY <2>2, FS_Interval
    <2>4. QED BY <2>2, <2>3 DEF Nil
  <1>3. /\ DOMAIN nd2 = D \union {c} /\ DOMAIN K2 = D \union {c}
        /\ nd2[a] = m /\ nd2[c] = leaf /\ \A b \in D : b # a => nd2[b] = nd[b]
        /\ K2[c] = k /\ \A b \in D : K2[b] = K[b]
    BY <1>2 DEF With
  <1>4. \A b \in D : /\ StartOf(nd2[b]) = StartOf(nd[b]) /\ EndOf(nd2[b]) = EndOf(nd[b])
                     /\ NodeOK(nd2[b])
                     /\ \A r \in Place : /\ Covers(nd2[b], r) <=> Covers(nd[b], r)
                                         /\ Holds(nd2[b], r) <=> Holds(nd[b], r)
    <2> SUFFICES ASSUME NEW b \in D
                 PROVE  /\ StartOf(nd2[b]) = StartOf(nd[b]) /\ EndOf(nd2[b]) = EndOf(nd[b])
                        /\ NodeOK(nd2[b])
                        /\ \A r \in Place : /\ Covers(nd2[b], r) <=> Covers(nd[b], r)
                                            /\ Holds(nd2[b], r) <=> Holds(nd[b], r)
      OBVIOUS
    <2>1. CASE b = a
      BY <1>3, <2>1 DEF HasChild, StartOf, EndOf, NextBlock, NextBit, End, Covers, Holds
    <2>2. CASE b # a
      BY <1>1, <1>3, <2>2 DEF Fits
    <2>3. QED BY <2>1, <2>2
  <1>5. /\ Fits(leaf, k) /\ StartOf(leaf) = q /\ EndOf(leaf) = KeyEnd(k) /\ Before(q, KeyEnd(k))
        /\ \A s \in Sides : leaf[s] = Nil
        /\ \A t \in Sides : m[t] = IF t = side THEN c ELSE n[t]
        /\ a \in D /\ nd2[a] = m /\ side = SideFor(k, q) /\ side \in Sides /\ q \in Place
    BY <1>1, <1>3, NodeFacts DEF IsLeaf, HasChild, SideFor, Sides, Fits
  <1>6. \A b \in D : \A r \in Place : Covers(nd[b], r) /\ ~Before(r, q) => ~AgreeThrough(K[b], k, r)
    BY NothingBeyond
  <1> HIDE DEF n, D, q, side
  <1>7. NodesFit(nd2, K2)
    <2>1. ASSUME NEW b \in D \union {c}
          PROVE  /\ K2[b] \in Keys /\ Fits(nd2[b], K2[b])
                 /\ b # 1 => Before(StartOf(nd2[b]), EndOf(nd2[b]))
      <3>1. CASE b = c
        BY <1>3, <1>5, <3>1
      <3>2. CASE b \in D
        BY <1>1, <1>3, <1>4, <3>2 DEF Fits
      <3>3. QED BY <3>1, <3>2
    <2>2. Cardinality(DOMAIN nd2) = c /\ DOMAIN nd2 = 1 .. c /\ c \in Nat /\ 1 \in DOMAIN nd2
      BY <1>1, <1>2, <1>3
    <2>3. StartOf(nd2[1]) = Origin
      BY <1>1, <1>4
    <2>4. QED BY <1>3, <2>1, <2>2, <2>3 DEF NodesFit
  <1>8. \A b \in D : \A s \in Sides : nd2[b][s] = IF b = a /\ s = side THEN c ELSE nd[b][s]
    BY <1>3, <1>5 DEF n
  <1>9. ChildrenFit(nd2, K2)
    <2> SUFFICES ASSUME NEW b \in DOMAIN nd2, NEW s \in Sides, nd2[b][s] # Nil
                 PROVE  ChildFits(nd2, K2, b, s, nd2[b][s])
      BY DEF ChildrenFit
    <2>1. b \in D
      BY <1>3, <1>5
    <2>2. CASE b = a /\ s = side
      <3>1. nd2[b][s] = c /\ EndOf(nd2[b]) = q /\ K2[b] = K[a]
        BY <1>3, <1>4, <1>5, <1>8, <2>2 DEF q
      <3>2. Agree(K[a], k, q)
        BY DEF q
      <3>3. QED BY <1>2, <1>3, <1>5, <2>2, <3>1, <3>2 DEF ChildFits
    <2>3. CASE ~(b = a /\ s = side)
      <3>1. nd2[b][s] = nd[b][s] /\ nd[b][s] # Nil
        BY <1>8, <2>1, <2>3
      <3>2. ChildFits(nd, K, b, s, nd[b][s])
        BY <2>1, <3>1 DEF Tree, ChildrenFit, D
      <3>3. QED BY <1>3, <1>4, <2>1, <3>1, <3>2 DEF ChildFits, D
    <2>4. QED BY <2>2, <2>3
  <1>10. ParentsKnown(nd2, K2)
    <2> SUFFICES ASSUME NEW x \in DOMAIN nd2, x # 1
                 PROVE  \E b \in DOMAIN nd2 : nd2[b][SideFor(K2[x], StartOf(nd2[x]))] = x
      BY DEF ParentsKnown
    <2>1. CASE x = c
      BY <1>3, <1>5, <1>8, <2>1
    <2>2. CASE x \in D
      <3> DEFINE s == SideFor(K[x], StartOf(nd[x]))
      <3>1. SideFor(K2[x], StartOf(nd2[x])) = s /\ s \in Sides
        BY <1>3, <1>4, <2>2 DEF SideFor, Sides
      <3>2. PICK b \in D : nd[b][s] = x
        BY <2>2 DEF Tree, ParentsKnown, D
      <3> HIDE DEF s
      <3>3. x # Nil
        BY <1>1, <2>2 DEF Nil
      <3>4. nd[a][side] = Nil
        BY DEF side
      <3>5. nd2[b][s] = x
        BY <1>8, <3>1, <3>2, <3>3, <3>4
      <3>6. QED BY <1>3, <3>1, <3>5
    <2>3. QED BY <1>3, <2>1, <2>2
  <1>11. Apart(nd2, K2)
    <2>1. ASSUME NEW b \in D, NEW r \in Place, Covers(nd2[b], r), Covers(leaf, r)
          PROVE  ~AgreeThrough(K[b], k, r)
      <3>1. ~Before(r, q)
        BY <1>5, <2>1 DEF Covers
      <3>2. QED BY <1>4, <1>6, <2>1, <3>1
    <2> SUFFICES ASSUME NEW b \in DOMAIN nd2, NEW x \in DOMAIN nd2, NEW r \in Place,
                        b # x, Covers(nd2[b], r), Covers(nd2[x], r)
                 PROVE  ~AgreeThrough(K2[b], K2[x], r)
      BY DEF Apart
    <2>2. CASE x = c
      BY <1>3, <2>1, <2>2
    <2>3. CASE b = c
      <3>1. ~AgreeThrough(K[x], k, r)
        BY <1>3, <2>1, <2>3
      <3>2. QED BY <1>3, <2>3, <3>1, AgreeFacts
    <2>4. CASE b \in D /\ x \in D
      <3>1. Covers(nd[b], r) /\ Covers(nd[x], r)
        BY <1>4, <2>4
      <3>2. ~AgreeThrough(K[b], K[x], r)
        BY <2>4, <3>1 DEF Tree, Apart, D
      <3>3. QED BY <1>3, <2>4, <3>2
    <2>5. QED BY <1>3, <2>2, <2>3, <2>4
  <1>12. QED BY <1>3, <1>7, <1>9, <1>10, <1>11 DEF Tree
-----------------------------------------------------------------------------
(* What insert() finds out about a node, and what it does to it.           *)

\* Of some numbers Least is the smallest.
LEMMA LeastFacts ==
  ASSUME NEW B \in SUBSET Nat, B # {}
  PROVE  Least(B) \in B /\ \A y \in B : Least(B) <= y
  BY SmallestNumber DEF Least

\* A block of a node and its mask: where the node and the key are compared.
LEMMA Compared ==
  ASSUME NEW n, NodeOK(n), key \in Keys, NEW i \in 1 .. Len(n.value), n.myFirstBlock + i <= Len(sequence),
         NEW b \in Bit, NEW q, q = <<n.myFirstBlock + i - 1, b>>
  PROVE  /\ q \in Place
         /\ Covers(n, q) <=> (i = 1 => n.ignoreBitsFirst <= b) /\ (i = Len(n.value) => b + n.ignoreBitsLast < W)
         /\ Before(q, KeyEnd(key)) <=> (n.myFirstBlock + i = Len(sequence) => b + paddingBits < W)
         /\ Holds(n, q) <=> b \in n.value[i]
         /\ Has(key, q) <=> b \in sequence[n.myFirstBlock + i]
         /\ b \in InputTest(n, i) <=> Has(key, q) /\ Covers(n, q)
         /\ b \in ValueTest(n, i) <=> Holds(n, q) /\ Before(q, KeyEnd(key))
         /\ Holds(n, q) => Covers(n, q)
         /\ Has(key, q) => Before(q, KeyEnd(key))
  <1> DEFINE f == n.myFirstBlock
             l == Len(n.value)
             a == n.ignoreBitsFirst
             d == n.ignoreBitsLast
             e == paddingBits
             L == Len(sequence)
  <1>1. /\ n.value \in Seq(SUBSET Bit) /\ l \in Nat /\ f \in Nat /\ a \in Bit /\ d \in Bit
        /\ sequence \in Seq(SUBSET Bit) /\ L \in Nat \ {0} /\ e \in Bit
        /\ sequence[L] \subseteq 0 .. W - 1 - e
    BY NodeFacts, KeyFacts DEF sequence, paddingBits
  <1>2. i \in 1 .. l /\ f + i <= L /\ q = <<f + i - 1, b>>
    OBVIOUS
  <1> HIDE DEF f, l, a, d, e, L
  <1>3. q \in Place /\ q[1] = f + i - 1 /\ q[2] = b /\ q[1] + 1 = f + i /\ q[1] - f + 1 = i
    BY <1>1, <1>2 DEF Place
  <1>4. Before(q, StartOf(n)) <=> q[1] < f \/ (q[1] = f /\ b < a)
    BY <1>3, NodeFacts DEF f, a
  <1>5. Before(q, EndOf(n)) <=> q[1] + 1 < f + l \/ (q[1] + 1 = f + l /\ b + d < W)
    <2>1. End(n) = f + l
      BY DEF End, f, l
    <2>2. QED BY <1>3, <2>1, NodeFacts DEF d
  <1>6. Before(q, KeyEnd(key)) <=> q[1] + 1 < L \/ (q[1] + 1 = L /\ b + e < W)
    BY <1>3, KeyFacts DEF L, e, sequence, paddingBits
  <1>a. /\ l \in Nat /\ f \in Nat /\ a \in Nat /\ d \in Nat /\ L \in Nat /\ e \in Nat /\ b \in Nat
        /\ i \in Nat /\ 1 <= i /\ i <= l /\ f + i <= L
    BY <1>1, <1>2, Width DEF Bit
  <1>7. Covers(n, q) <=> (i = 1 => a <= b) /\ (i = l => b + d < W)
    <2>1. Before(q, StartOf(n)) <=> i = 1 /\ b < a
      BY <1>3, <1>4, <1>a
    <2>2. Before(q, EndOf(n)) <=> (i = l => b + d < W)
      <3>1. (q[1] + 1 < f + l <=> i < l) /\ (q[1] + 1 = f + l <=> i = l)
        BY <1>3, <1>a
      <3>2. (i < l /\ i # l) \/ (i = l /\ ~(i < l))
        BY <1>a
      <3>3. QED BY <1>5, <3>1, <3>2, Zenon
    <2>3. QED BY <1>a, <2>1, <2>2 DEF Covers
  <1>8. Before(q, KeyEnd(key)) <=> (f + i = L => b + e < W)
    <2>1. q[1] + 1 = f + i
      BY <1>3
    <2>2. (f + i < L /\ f + i # L) \/ (f + i = L /\ ~(f + i < L))
      BY <1>a
    <2>3. QED BY <1>6, <2>1, <2>2, Zenon
  <1>9. Holds(n, q) <=> b \in n.value[i]
    BY <1>3 DEF Holds, f
  <1>10. Has(key, q) <=> b \in sequence[f + i]
    BY <1>3 DEF Has, sequence
  <1>11. /\ bitmask_ignore_first(a) = a .. W - 1 /\ bitmask_ignore_last(d) = 0 .. W - 1 - d
         /\ bitmask_ignore_last(e) = 0 .. W - 1 - e
    BY <1>1, Masks
  <1>12. /\ b \in bitmask_ignore_first(a) <=> a <= b
         /\ b \in bitmask_ignore_last(d) <=> b + d < W
         /\ b \in bitmask_ignore_last(e) <=> b + e < W
    BY <1>1, <1>11, Width DEF Bit
  <1>13. b \in InputTest(n, i) <=> /\ b \in sequence[f + i] /\ (i = 1 => b \in bitmask_ignore_first(a))
                                   /\ (i = l => b \in bitmask_ignore_last(d))
    BY DEF InputTest, f, a, d, l
  <1>14. b \in ValueTest(n, i) <=> b \in n.value[i] /\ (f + i = L => b \in bitmask_ignore_last(e))
    BY DEF ValueTest, f, L, e
  <1>15. b \in n.value[i] => (i = 1 => b \in bitmask_ignore_first(a)) /\ (i = l => b \in bitmask_ignore_last(d))
    <2>1. n.value # <<>>
      <3>1. Len(<<>>) = 0
        BY EmptySeq
      <3>2. QED BY <1>1, <1>2, <3>1 DEF l
    <2>2. n.value[1] \subseteq bitmask_ignore_first(a) /\ n.value[l] \subseteq bitmask_ignore_last(d)
      BY <2>1 DEF NodeOK, Masked, a, d, l
    <2>3. QED BY <2>2
  <1>16. b \in sequence[f + i] => (f + i = L => b + e < W)
    BY <1>1, <1>11, <1>12
  <1>17. b \in InputTest(n, i) <=> Has(key, q) /\ Covers(n, q)
    BY <1>7, <1>10, <1>12, <1>13
  <1>18. b \in ValueTest(n, i) <=> Holds(n, q) /\ Before(q, KeyEnd(key))
    BY <1>8, <1>9, <1>12, <1>14
  <1>19. (Holds(n, q) => Covers(n, q)) /\ (Has(key, q) => Before(q, KeyEnd(key)))
    BY <1>7, <1>8, <1>9, <1>10, <1>12, <1>15, <1>16
  <1>20. QED BY <1>3, <1>7, <1>8, <1>9, <1>10, <1>17, <1>18, <1>19 DEF f, l, a, d, e, L

\* Blocks without difference are the same where the node and the key have bits.
LEMMA SameBlock ==
  ASSUME NEW n, NodeOK(n), key \in Keys, NEW q \in Place, Covers(n, q), Before(q, KeyEnd(key)),
         q[1] - n.myFirstBlock + 1 \notin Differences(n)
  PROVE  Holds(n, q) <=> Has(key, q)
  <1> DEFINE i == q[1] - n.myFirstBlock + 1
  <1>1. i \in 1 .. Len(n.value) /\ n.myFirstBlock \in Nat /\ q[1] \in Nat /\ q[2] \in Bit
    BY NodeFacts DEF Place
  <1>2. n.myFirstBlock + i = q[1] + 1 /\ q = <<n.myFirstBlock + i - 1, q[2]>>
    BY <1>1 DEF Place
  <1>3. n.myFirstBlock + i <= Len(sequence)
    <2>1. q[1] + 1 < Len(key.sequence) \/ q[1] + 1 = Len(key.sequence)
      BY KeyFacts
    <2>2. Len(key.sequence) \in Nat
      BY KeyFacts
    <2> HIDE DEF i
    <2>3. QED BY <1>1, <1>2, <2>1, <2>2 DEF sequence
  <1>4. InputTest(n, i) = ValueTest(n, i)
    BY <1>1, <1>3 DEF Differences
  <1> HIDE DEF i
  <1>5. /\ q[2] \in InputTest(n, i) <=> Has(key, q) /\ Covers(n, q)
        /\ q[2] \in ValueTest(n, i) <=> Holds(n, q) /\ Before(q, KeyEnd(key))
    BY <1>1, <1>2, <1>3, Compared
  <1>6. QED BY <1>4, <1>5

\* The first bit in which the key differs from the node.
IsFirstDifference(n, q) ==
  /\ Covers(n, q) /\ Before(q, KeyEnd(key)) /\ ~(Holds(n, q) <=> Has(key, q))
  /\ \A r \in Place : Covers(n, r) /\ Before(r, q) => (Holds(n, r) <=> Has(key, r))

\* It is where Branch splits the node.
LEMMA DifferenceFound ==
  ASSUME NEW n, NodeOK(n), key \in Keys, Differences(n) # {},
         NEW i, i = Least(Differences(n)),
         NEW input, input = sequence[n.myFirstBlock + i]
                              \intersect (IF i = 1 THEN bitmask_ignore_first(n.ignoreBitsFirst) ELSE Bit),
         NEW b, b = Least(Differing(input, n.value[i]))
  PROVE  /\ i \in 1 .. Len(n.value) /\ b \in Bit /\ n.myFirstBlock + i <= Len(sequence)
         /\ IsFirstDifference(n, <<n.myFirstBlock + i - 1, b>>)
  <1>0. /\ n.value \in Seq(SUBSET Bit) /\ Len(n.value) \in Nat /\ n.myFirstBlock \in Nat
        /\ n.ignoreBitsFirst \in Bit
        /\ sequence \in Seq(SUBSET Bit) /\ Len(sequence) \in Nat
    BY NodeFacts, KeyFacts DEF sequence
  <1>1. Differences(n) \in SUBSET Nat
    BY <1>0 DEF Differences
  <1>2. i \in Differences(n) /\ \A j \in Differences(n) : i <= j
    BY <1>1, LeastFacts
  <1>3. i \in 1 .. Len(n.value) /\ n.myFirstBlock + i <= Len(sequence) /\ InputTest(n, i) # ValueTest(n, i)
    BY <1>2 DEF Differences
  <1>4. n.value[i] \subseteq Bit /\ sequence[n.myFirstBlock + i] \subseteq Bit
    <2>1. n.myFirstBlock + i \in 1 .. Len(sequence)
      BY <1>0, <1>3
    <2>2. QED BY <1>0, <1>3, <2>1
  <1> DEFINE Q(x) == <<n.myFirstBlock + i - 1, x>>
  <1>5. ASSUME NEW x \in Bit
        PROVE  /\ Q(x) \in Place
               /\ Covers(n, Q(x)) <=> /\ i = 1 => n.ignoreBitsFirst <= x
                                      /\ i = Len(n.value) => x + n.ignoreBitsLast < W
               /\ Before(Q(x), KeyEnd(key)) <=> (n.myFirstBlock + i = Len(sequence) => x + paddingBits < W)
               /\ Holds(n, Q(x)) <=> x \in n.value[i]
               /\ Has(key, Q(x)) <=> x \in sequence[n.myFirstBlock + i]
               /\ x \in InputTest(n, i) <=> Has(key, Q(x)) /\ Covers(n, Q(x))
               /\ x \in ValueTest(n, i) <=> Holds(n, Q(x)) /\ Before(Q(x), KeyEnd(key))
               /\ Holds(n, Q(x)) => Covers(n, Q(x))
               /\ Has(key, Q(x)) => Before(Q(x), KeyEnd(key))
    BY <1>3, Compared
  <1>6. \A x \in Bit : x \in input <=> Has(key, Q(x)) /\ (i = 1 => n.ignoreBitsFirst <= x)
    <2>1. bitmask_ignore_first(n.ignoreBitsFirst) = n.ignoreBitsFirst .. W - 1
      BY <1>0, Masks
    <2>2. \A x \in Bit : x \in bitmask_ignore_first(n.ignoreBitsFirst) <=> n.ignoreBitsFirst <= x
      BY <1>0, <2>1, Width DEF Bit
    <2> HIDE DEF Q
    <2>3. QED BY <1>5, <2>2
  <1>7. PICK x \in Bit : Covers(n, Q(x)) /\ Before(Q(x), KeyEnd(key)) /\ ~(Holds(n, Q(x)) <=> Has(key, Q(x)))
    <2>1. InputTest(n, i) \subseteq Bit /\ ValueTest(n, i) \subseteq Bit
      BY <1>4 DEF InputTest, ValueTest
    <2>2. PICK x \in Bit : ~(x \in InputTest(n, i) <=> x \in ValueTest(n, i))
      BY <1>3, <2>1
    <2> HIDE DEF Q
    <2>3. QED BY <1>5, <2>2
  <1> HIDE DEF Q
  <1> DEFINE Z == Differing(input, n.value[i])
  <1>8. input \subseteq Bit /\ \A y \in Bit : y \in Z <=> ~(y \in input <=> y \in n.value[i])
    BY <1>4 DEF Differing
  <1>9. \A y \in Bit : y \in Z <=> (i = 1 => n.ignoreBitsFirst <= y) /\ ~(Holds(n, Q(y)) <=> Has(key, Q(y)))
    BY <1>5, <1>6, <1>8
  <1>10. Z \in SUBSET Nat /\ Z \subseteq Bit
    <2>1. Bit \subseteq Nat
      BY Width DEF Bit
    <2>2. QED BY <1>4, <1>8, <2>1 DEF Differing
  <1>11. x \in Z
    BY <1>5, <1>7, <1>9
  <1>12. b \in Z /\ b \in Bit /\ \A y \in Z : b <= y
    <2> HIDE DEF Z
    <2>1. Least(Z) \in Z /\ \A y \in Z : Least(Z) <= y
      BY <1>10, <1>11, LeastFacts
    <2>2. b = Least(Z)
      BY DEF Z
    <2>3. QED BY <1>10, <2>1, <2>2
  <1> HIDE DEF Z
  <1>13. Covers(n, Q(b)) /\ Before(Q(b), KeyEnd(key)) /\ ~(Holds(n, Q(b)) <=> Has(key, Q(b)))
    <2>1. b <= x /\ b \in Nat /\ x \in Nat
      BY <1>10, <1>11, <1>12
    <2>2. n.ignoreBitsLast \in Nat /\ paddingBits \in Nat
      BY NodeFacts, KeyFacts, Width DEF Bit, paddingBits
    <2>3. (i = 1 => n.ignoreBitsFirst <= b) /\ ~(Holds(n, Q(b)) <=> Has(key, Q(b)))
      BY <1>9, <1>12
    <2>4. /\ i = Len(n.value) => b + n.ignoreBitsLast < W
          /\ n.myFirstBlock + i = Len(sequence) => b + paddingBits < W
      BY <1>5, <1>7, <2>1, <2>2, Width
    <2>5. QED BY <1>5, <1>12, <2>3, <2>4
  <1>14. ASSUME NEW r \in Place, Covers(n, r), Before(r, Q(b))
         PROVE  Holds(n, r) <=> Has(key, r)
    <2>1. r[1] \in Nat /\ r[2] \in Bit /\ r = <<r[1], r[2]>>
      BY DEF Place
    <2>2. r[1] < n.myFirstBlock + i - 1 \/ (r[1] = n.myFirstBlock + i - 1 /\ r[2] < b)
      BY <1>14 DEF Before, Q
    <2>3. CASE r[1] = n.myFirstBlock + i - 1 /\ r[2] < b
      <3>1. r = Q(r[2])
        BY <2>1, <2>3 DEF Q
      <3>2. r[2] \notin Z
        <4>1. r[2] \in Nat /\ b \in Nat
          BY <1>12, <2>1, Width DEF Bit
        <4>2. r[2] < b
          BY <2>3
        <4>3. ASSUME r[2] \in Z PROVE FALSE
          <5>1. b <= r[2]
            BY <1>12, <4>3
          <5>2. QED BY <4>1, <4>2, <5>1
        <4>4. QED BY <4>3
      <3>3. i = 1 => n.ignoreBitsFirst <= r[2]
        BY <1>5, <1>14, <2>1, <3>1
      <3>4. QED BY <1>9, <2>1, <3>1, <3>2, <3>3
    <2>4. CASE r[1] < n.myFirstBlock + i - 1
      <3>1. r[1] - n.myFirstBlock + 1 \notin Differences(n)
        BY <1>0, <1>2, <1>3, <2>1, <2>4
      <3>2. Before(r, KeyEnd(key))
        <4>1. Q(b) \in Place /\ KeyEnd(key) \in Place
          BY <1>5, <1>12, KeyFacts
        <4>2. QED BY <1>13, <1>14, <4>1, PlacesOrdered
      <3>3. QED BY <1>14, <3>1, <3>2, SameBlock
    <2>5. QED BY <2>2, <2>3, <2>4
  <1>15. QED BY <1>3, <1>12, <1>13, <1>14 DEF IsFirstDifference, Q

\* The node is replaced by its parts, and its payload goes to the lower one.
IsSplit(nd2, a, k, q, c) ==
  \E up, lo : /\ nd2 = With(With(node, a, up), c, lo) /\ Parts(node[a], k, q, c, up, lo)
              /\ up.payload = 0 /\ lo.payload = node[a].payload

\* What split_me_at makes of a node of a tree.
LEMMA SplitAtFacts ==
  ASSUME NEW a, NEW k, Fits(node[a], k), NEW block \in Nat, NEW bit \in Bit, NEW c \in Nat,
         NEW q, q = <<node[a].myFirstBlock + block, bit>>,
         SplitsAt(node[a], q)
  PROVE  IsSplit(SplitAt(a, block, bit, c), a, k, q, c)
  <1> DEFINE n == node[a]
             lo == LowerOf(n, block, bit)
             side == SideOf(lo.value, bit)
             zero == IF side = "zero" THEN c ELSE Nil
             one == IF side = "one" THEN c ELSE Nil
             up == UpperOf(n, block, bit, zero, one)
  <1>1. NodeOK(n) /\ n.payload \in Nat /\ 0 \in Nat /\ zero \in Nat /\ one \in Nat
    BY DEF Fits, NodeOK, Nodes, Nil
  <1>2. q = <<n.myFirstBlock + block, bit>> /\ ~Before(q, StartOf(n)) /\ Before(q, EndOf(n))
        /\ (q = StartOf(n) => StartOf(n) = Origin)
    BY DEF SplitsAt
  <1>3. lo.value = FirstMasked(SubSeq(n.value, block + 1, Len(n.value)), bitmask_ignore_first(bit))
    BY <1>1 DEF LowerOf, NodeOK, Nodes
  <1>4. SplitAt(a, block, bit, c) = With(With(node, a, up), c, lo)
    <2>1. /\ PayloadGoesDown(n)[1] = 0 /\ PayloadGoesDown(n)[2] = n.payload
      BY DEF PayloadGoesDown
    <2>2. lo.value = FirstMasked(SubSeq(n.value, block + 1, Len(n.value)), bitmask_ignore_first(bit))
      BY <1>3
    <2> DEFINE v == FirstMasked(SubSeq(n.value, block + 1, Len(n.value)), bitmask_ignore_first(bit))
    <2>3. [n EXCEPT !.value = v, !.myFirstBlock = @ + block, !.ignoreBitsFirst = bit,
                    !.payload = PayloadGoesDown(n)[2]] = lo
      BY <2>1 DEF LowerOf
    <2>4. SideOf(v, bit) = side
      BY <2>2
    <2>5. QED BY <2>1, <2>3, <2>4 DEF SplitAt, UpperOf
  <1>b. lo = LowerOf(n, block, bit) /\ up = UpperOf(n, block, bit, zero, one)
    OBVIOUS
  <1> HIDE DEF n, zero, one, lo, up, side
  <1>5. /\ NodeOK(lo) /\ StartOf(lo) = q /\ EndOf(lo) = EndOf(n)
        /\ \A r \in Place : Covers(lo, r) => Covers(n, r) /\ (Holds(lo, r) <=> Holds(n, r))
        /\ lo.zero = n.zero /\ lo.one = n.one /\ lo.payload = n.payload
    BY <1>1, <1>2, <1>b, LowerFacts
  <1>6. /\ NodeOK(up) /\ StartOf(up) = StartOf(n) /\ EndOf(up) = q
        /\ \A r \in Place : Covers(up, r) => Covers(n, r) /\ (Holds(up, r) <=> Holds(n, r))
        /\ up.zero = zero /\ up.one = one /\ up.payload = 0
    <2>1. SplitsAt(n, <<n.myFirstBlock + block, bit>>)
      BY <1>2 DEF SplitsAt
    <2>2. NodeOK(n) /\ zero \in Nat /\ one \in Nat /\ 0 \in Nat /\ up = UpperOf(n, block, bit, zero, one)
      BY <1>1, <1>b
    <2>3. IsUpper(up, n, <<n.myFirstBlock + block, bit>>, zero, one)
      BY <2>1, <2>2, UpperFacts, Zenon
    <2>4. QED BY <1>2, <2>3 DEF IsUpper
  <1>7. side = SideFor(k, q)
    <2>1. q \in Place /\ q[1] = n.myFirstBlock + block /\ q[2] = bit
      BY <1>1, <1>2, NodeFacts DEF Place
    <2>2. Covers(lo, q)
      BY <1>2, <1>5, <2>1, PlacesOrdered DEF Covers
    <2>3. Holds(lo, q) <=> Has(k, q)
      BY <1>5, <2>1, <2>2 DEF Fits, n
    <2>4. Holds(lo, q) <=> bit \in lo.value[1]
      <3>1. <<lo.myFirstBlock, lo.ignoreBitsFirst>> = q
        BY <1>5 DEF StartOf
      <3>2. lo.myFirstBlock = q[1] /\ q[1] \in Nat
        BY <2>1, <3>1 DEF Place
      <3>3. q[1] - lo.myFirstBlock + 1 = 1
        BY <3>2
      <3>4. QED BY <2>1, <3>3 DEF Holds
    <2>5. Shift(bit) = bit
      BY Masks
    <2>6. QED BY <2>3, <2>4, <2>5 DEF SideOf, SideFor, side
  <1>8. \A s \in Sides : lo[s] = n[s] /\ up[s] = IF s = SideFor(k, q) THEN c ELSE Nil
    BY <1>5, <1>6, <1>7 DEF Sides, SideFor, zero, one
  <1>9. Parts(n, k, q, c, up, lo)
    BY <1>2, <1>5, <1>6, <1>8 DEF Parts
  <1>10. QED BY <1>4, <1>5, <1>6, <1>9 DEF n, IsSplit
-----------------------------------------------------------------------------
(* What the nodes keep of the keys.                                        *)

\* A node stands for a key: it ends with the key, and its own key has the same bits.
Stands(nd, K, a, k) == EndOf(nd[a]) = KeyEnd(k) /\ Agree(K[a], k, KeyEnd(k))

\* What was written is in the nodes that stand for the keys, and nothing is in the others.
PayloadsFit(nd, K, wr) ==
  /\ \A k \in DOMAIN wr : \E a \in DOMAIN nd : Stands(nd, K, a, k) /\ nd[a].payload = wr[k]
  /\ \A a \in DOMAIN nd : nd[a].payload # 0 => \E k \in DOMAIN wr : Stands(nd, K, a, k)

\* A node has a payload or both children.
Full(n) == n.payload # 0 \/ \A s \in Sides : n[s] # Nil

\* It has, once it gets a child on this side.
FullWith(n, side) == n.payload # 0 \/ \A s \in Sides : s # side => n[s] # Nil

FullBut(nd, e) == \A a \in DOMAIN nd : a = e \/ Full(nd[a])

\* When a node is split its payload stays with its key.
LEMMA SplitKeeps ==
  ASSUME NEW nd, NEW K, NEW wr, Tree(nd, K), DOMAIN K = DOMAIN nd, NEW a \in DOMAIN nd,
         NEW c, c = Cardinality(DOMAIN nd) + 1, NEW q, NEW k,
         NEW up, NEW lo, Parts(nd[a], k, q, c, up, lo), up.payload = 0, lo.payload = nd[a].payload,
         NEW nd2, nd2 = With(With(nd, a, up), c, lo), NEW K2, K2 = With(K, c, K[a]),
         PayloadsFit(nd, K, wr), FullBut(nd, Nil)
  PROVE  PayloadsFit(nd2, K2, wr) /\ FullBut(nd2, a)
  <1>1. c \notin DOMAIN nd /\ Nil \notin DOMAIN nd
    <2>1. Cardinality(DOMAIN nd) \in Nat /\ DOMAIN nd = 1 .. Cardinality(DOMAIN nd)
      BY DEF Tree, NodesFit
    <2>2. QED BY <2>1 DEF Nil
  <1>2. /\ DOMAIN nd2 = DOMAIN nd \union {c}
        /\ nd2[a] = up /\ nd2[c] = lo /\ \A b \in DOMAIN nd : b # a => nd2[b] = nd[b]
        /\ K2[c] = K[a] /\ \A b \in DOMAIN nd : K2[b] = K[b]
    BY <1>1 DEF With
  <1>3. EndOf(lo) = EndOf(nd[a]) /\ \A s \in Sides : lo[s] = nd[a][s]
    BY DEF Parts
  <1>4. \A l : Stands(nd2, K2, c, l) <=> Stands(nd, K, a, l)
    BY <1>2, <1>3 DEF Stands
  <1>5. \A b \in DOMAIN nd : b # a => \A l : Stands(nd2, K2, b, l) <=> Stands(nd, K, b, l)
    BY <1>2 DEF Stands
  <1>6. ASSUME NEW l \in DOMAIN wr
        PROVE  \E b \in DOMAIN nd2 : Stands(nd2, K2, b, l) /\ nd2[b].payload = wr[l]
    <2>1. PICK b \in DOMAIN nd : Stands(nd, K, b, l) /\ nd[b].payload = wr[l]
      BY DEF PayloadsFit
    <2>2. CASE b = a
      BY <1>2, <1>4, <2>1, <2>2
    <2>3. CASE b # a
      BY <1>2, <1>5, <2>1, <2>3
    <2>4. QED BY <2>2, <2>3
  <1>7. ASSUME NEW b \in DOMAIN nd2, nd2[b].payload # 0
        PROVE  \E l \in DOMAIN wr : Stands(nd2, K2, b, l)
    <2>1. b # a
      BY <1>2, <1>7
    <2>2. CASE b = c
      <3>1. PICK l \in DOMAIN wr : Stands(nd, K, a, l)
        BY <1>2, <1>7, <2>2 DEF PayloadsFit
      <3>2. QED BY <1>4, <2>2, <3>1
    <2>3. CASE b \in DOMAIN nd
      <3>1. PICK l \in DOMAIN wr : Stands(nd, K, b, l)
        BY <1>2, <1>7, <2>1, <2>3 DEF PayloadsFit
      <3>2. QED BY <1>5, <2>1, <2>3, <3>1
    <2>4. QED BY <1>2, <2>2, <2>3
  <1>8. FullBut(nd2, a)
    <2>1. \A b \in DOMAIN nd : Full(nd[b])
      BY <1>1 DEF FullBut
    <2>2. Full(lo)
      BY <1>3, <2>1 DEF Full
    <2>3. QED BY <1>2, <2>1, <2>2 DEF FullBut
  <1>9. QED BY <1>6, <1>7, <1>8 DEF PayloadsFit

\* A new leaf has no payload yet; a node with one child and no payload gets its second.
LEMMA LeafKeeps ==
  ASSUME NEW nd, NEW K, NEW wr, NEW nd2, NEW K2, NEW a, NEW k, NEW c, NEW m, NEW leaf,
         Tree(nd, K), LeafAdded(nd, K, nd2, K2, a, k, c, m, leaf),
         PayloadsFit(nd, K, wr), FullBut(nd, a),
         FullWith(nd[a], SideFor(k, EndOf(nd[a])))
  PROVE  PayloadsFit(nd2, K2, wr) /\ FullBut(nd2, c)
  <1> DEFINE side == SideFor(k, EndOf(nd[a]))
  <1>0. /\ DOMAIN K = DOMAIN nd /\ a \in DOMAIN nd /\ c = Cardinality(DOMAIN nd) + 1
        /\ HasChild(m, nd[a], side, c) /\ leaf.payload = 0
        /\ nd2 = With(With(nd, a, m), c, leaf) /\ K2 = With(K, c, k)
        /\ nd[a].payload # 0 \/ \A s \in Sides : s # side => nd[a][s] # Nil
    BY DEF LeafAdded, FullWith
  <1> USE <1>0
  <1> HIDE DEF side
  <1>1. c \notin DOMAIN nd /\ c # Nil
    <2>1. Cardinality(DOMAIN nd) \in Nat /\ DOMAIN nd = 1 .. Cardinality(DOMAIN nd)
      BY DEF Tree, NodesFit
    <2>2. QED BY <2>1 DEF Nil
  <1>2. /\ DOMAIN nd2 = DOMAIN nd \union {c}
        /\ nd2[a] = m /\ nd2[c] = leaf /\ \A b \in DOMAIN nd : b # a => nd2[b] = nd[b]
        /\ \A b \in DOMAIN nd : K2[b] = K[b]
    BY <1>1 DEF With
  <1>3. /\ EndOf(m) = EndOf(nd[a]) /\ m.payload = nd[a].payload
        /\ \A s \in Sides : m[s] = IF s = side THEN c ELSE nd[a][s]
    BY DEF HasChild, EndOf, NextBlock, NextBit, End
  <1>4. \A b \in DOMAIN nd : nd2[b].payload = nd[b].payload /\ EndOf(nd2[b]) = EndOf(nd[b])
    BY <1>2, <1>3
  <1>5. \A b \in DOMAIN nd : \A l : Stands(nd2, K2, b, l) <=> Stands(nd, K, b, l)
    BY <1>2, <1>4 DEF Stands
  <1>6. \A l \in DOMAIN wr : \E b \in DOMAIN nd2 : Stands(nd2, K2, b, l) /\ nd2[b].payload = wr[l]
    BY <1>2, <1>4, <1>5 DEF PayloadsFit
  <1>7. ASSUME NEW b \in DOMAIN nd2, nd2[b].payload # 0
        PROVE  \E l \in DOMAIN wr : Stands(nd2, K2, b, l)
    <2>1. b \in DOMAIN nd /\ nd[b].payload # 0
      BY <1>2, <1>4, <1>7
    <2>2. QED BY <1>5, <2>1 DEF PayloadsFit
  <1>8. FullBut(nd2, c)
    <2>1. Full(m)
      BY <1>1, <1>3 DEF Full
    <2>2. QED BY <1>2, <2>1 DEF FullBut
  <1>9. QED BY <1>6, <1>7, <1>8 DEF PayloadsFit

\* Writing a payload leaves the tree as it is.
LEMMA TreeSameShape ==
  ASSUME NEW nd, NEW K, Tree(nd, K), NEW nd2, DOMAIN nd2 = DOMAIN nd, NEW x \in DOMAIN nd, NEW v \in Nat,
         nd2 = [nd EXCEPT ![x].payload = v]
  PROVE  /\ Tree(nd2, K)
         /\ \A a \in DOMAIN nd : \A k : Stands(nd2, K, a, k) <=> Stands(nd, K, a, k)
  <1>1. \A a \in DOMAIN nd : nd[a] \in Nodes /\ NodeOK(nd[a])
    BY DEF Tree, NodesFit, Fits, NodeOK
  <1>2. ASSUME NEW a \in DOMAIN nd
        PROVE  /\ nd2[a] \in Nodes /\ nd2[a].value = nd[a].value /\ nd2[a].myFirstBlock = nd[a].myFirstBlock
               /\ nd2[a].ignoreBitsFirst = nd[a].ignoreBitsFirst /\ nd2[a].ignoreBitsLast = nd[a].ignoreBitsLast
               /\ nd2[a].zero = nd[a].zero /\ nd2[a].one = nd[a].one
    <2>1. CASE a = x
      <3>1. nd2[a] = [nd[a] EXCEPT !.payload = v]
        BY <2>1
      <3>2. QED BY <1>1, <3>1 DEF Nodes
    <2>2. CASE a # x
      BY <1>1, <2>2
    <2>3. QED BY <2>1, <2>2
  <1>3. ASSUME NEW a \in DOMAIN nd
        PROVE  /\ StartOf(nd2[a]) = StartOf(nd[a]) /\ EndOf(nd2[a]) = EndOf(nd[a]) /\ NodeOK(nd2[a])
               /\ \A q : Covers(nd2[a], q) <=> Covers(nd[a], q)
               /\ \A q : Holds(nd2[a], q) <=> Holds(nd[a], q)
               /\ \A s \in Sides : nd2[a][s] = nd[a][s]
    <2>1. StartOf(nd2[a]) = StartOf(nd[a]) /\ EndOf(nd2[a]) = EndOf(nd[a])
      BY <1>2 DEF StartOf, EndOf, NextBlock, NextBit, End
    <2>2. NodeOK(nd2[a])
      BY <1>1, <1>2, <2>1 DEF NodeOK, Masked
    <2>3. \A q : (Covers(nd2[a], q) <=> Covers(nd[a], q)) /\ (Holds(nd2[a], q) <=> Holds(nd[a], q))
      BY <1>2, <2>1 DEF Covers, Holds
    <2>4. \A s \in Sides : nd2[a][s] = nd[a][s]
      BY <1>2 DEF Sides
    <2>5. QED BY <2>1, <2>2, <2>3, <2>4
  <1>4. NodesFit(nd2, K)
    <2>1. NodesFit(nd, K)
      BY DEF Tree
    <2>2. \A a \in DOMAIN nd : Fits(nd[a], K[a]) => Fits(nd2[a], K[a])
      BY <1>3 DEF Fits
    <2>3. 1 \in DOMAIN nd
      BY <2>1 DEF NodesFit
    <2>4. QED BY <1>3, <2>1, <2>2, <2>3 DEF NodesFit
  <1>5. ChildrenFit(nd2, K)
    <2>1. ASSUME NEW a \in DOMAIN nd, NEW s \in Sides, NEW c, ChildFits(nd, K, a, s, c)
          PROVE  ChildFits(nd2, K, a, s, c)
      BY <1>3, <2>1 DEF ChildFits
    <2>2. ChildrenFit(nd, K)
      BY DEF Tree
    <2>3. QED BY <1>3, <2>1, <2>2 DEF ChildrenFit
  <1>6. ParentsKnown(nd2, K)
    <2>1. ParentsKnown(nd, K)
      BY DEF Tree
    <2>2. \A k, q : SideFor(k, q) \in Sides
      BY DEF SideFor, Sides
    <2>3. QED BY <1>3, <2>1, <2>2 DEF ParentsKnown
  <1>7. Apart(nd2, K)
    BY <1>3 DEF Tree, Apart
  <1>8. \A a \in DOMAIN nd : \A k : Stands(nd2, K, a, k) <=> Stands(nd, K, a, k)
    BY <1>3 DEF Stands
  <1>9. QED BY <1>4, <1>5, <1>6, <1>7, <1>8 DEF Tree
-----------------------------------------------------------------------------
(* What insert() concludes from a node without difference.                 *)

\* No key that ends with a block begins a longer key: split_me_at would be called with bit W.
AlignedKeysApart ==
  \A k, l \in Keys : k.paddingBits = 0 /\ Len(k.sequence) < Len(l.sequence)
    => \E i \in 1 .. Len(k.sequence) : k.sequence[i] # l.sequence[i]

\* The key has the bits of the node as far as both go.
LEMMA EqualNode ==
  ASSUME NEW n, NEW k, Fits(n, k), key \in Keys, Agree(k, key, StartOf(n)), Differences(n) = {},
         NEW q \in Place, ~Before(EndOf(n), q), ~Before(KeyEnd(key), q)
  PROVE  Agree(k, key, q)
  <1>1. ASSUME NEW r \in Place, Before(r, q)
        PROVE  Has(k, r) <=> Has(key, r)
    <2>1. NodeOK(n) /\ StartOf(n) \in Place /\ EndOf(n) \in Place /\ KeyEnd(key) \in Place
      BY NodeFacts, KeyFacts DEF Fits
    <2>2. CASE Before(r, StartOf(n))
      BY <2>2 DEF Agree
    <2>3. CASE ~Before(r, StartOf(n))
      <3>1. Covers(n, r) /\ Before(r, KeyEnd(key))
        BY <1>1, <2>1, <2>3, PlacesOrdered DEF Covers
      <3>2. Holds(n, r) <=> Has(key, r)
        BY <2>1, <3>1, SameBlock
      <3>3. QED BY <3>1, <3>2 DEF Fits
    <2>4. QED BY <2>2, <2>3
  <1>2. QED BY <1>1 DEF Agree

\* The comparisons of insert() tell whether the key ends with, within or beyond the node.
LEMMA EndsCompared ==
  ASSUME NEW n, NodeOK(n), key \in Keys
  PROVE  /\ End(n) = Len(sequence) /\ n.ignoreBitsLast = paddingBits => EndOf(n) = KeyEnd(key)
         /\ \/ End(n) = Len(sequence) /\ n.ignoreBitsLast < paddingBits
            \/ End(n) > Len(sequence)
            => Before(KeyEnd(key), EndOf(n))
         /\ \/ End(n) = Len(sequence) /\ n.ignoreBitsLast > paddingBits
            \/ End(n) < Len(sequence)
            => Before(EndOf(n), KeyEnd(key))
         /\ EndOf(n) = <<NextBlock(n), NextBit(n)>> /\ NextBlock(n) \in Nat /\ NextBit(n) \in Bit
  <1> DEFINE e == End(n)
             d == n.ignoreBitsLast
             L == Len(sequence)
             g == paddingBits
  <1>1. d \in Nat /\ d < W /\ g \in Nat /\ g < W /\ L \in Nat /\ L # 0 /\ e \in Nat
    <2>1. n.ignoreBitsLast \in Bit /\ n.myFirstBlock \in Nat /\ Len(n.value) \in Nat
      BY NodeFacts
    <2>2. paddingBits \in Bit /\ Len(sequence) \in Nat \ {0}
      BY KeyFacts DEF paddingBits, sequence
    <2>3. \A b \in Bit : b \in Nat /\ b < W
      BY Width DEF Bit
    <2>4. QED BY <2>1, <2>2, <2>3 DEF End
  <1>2. NextBit(n) = (IF d = 0 THEN 0 ELSE W - d) /\ NextBlock(n) = e - (IF NextBit(n) = 0 THEN 0 ELSE 1)
    BY DEF NextBit, NextBlock
  <1>3. KeyEnd(key) = IF g = 0 THEN <<L, 0>> ELSE <<L - 1, W - g>>
    BY DEF KeyEnd, paddingBits, sequence
  <1> HIDE DEF e, d, L, g
  <1>4. EndOf(n) = IF d = 0 THEN <<e, 0>> ELSE <<e - 1, W - d>>
    BY <1>1, <1>2, Width DEF EndOf
  <1>5. e = L /\ d = g => EndOf(n) = KeyEnd(key)
    BY <1>3, <1>4
  <1>6. (e = L /\ d < g) \/ e > L => Before(KeyEnd(key), EndOf(n))
    BY <1>1, <1>3, <1>4, Width DEF Before
  <1>7. (e = L /\ d > g) \/ e < L => Before(EndOf(n), KeyEnd(key))
    BY <1>1, <1>3, <1>4, Width DEF Before
  <1>8. NextBlock(n) \in Nat /\ NextBit(n) \in Bit
    <2>1. EndOf(n) \in Place
      BY NodeFacts
    <2>2. QED BY <2>1 DEF EndOf, Place
  <1>9. QED BY <1>5, <1>6, <1>7, <1>8 DEF e, d, L, g, EndOf

\* A key that ends before another with its bits ends within a block.
LEMMA EndsInBlock ==
  ASSUME AlignedKeysApart, NEW k \in Keys, NEW l \in Keys, Before(KeyEnd(k), KeyEnd(l)), Agree(l, k, KeyEnd(k))
  PROVE  /\ k.paddingBits # 0
         /\ KeyEnd(k) = <<Len(k.sequence) - 1, W - k.paddingBits>>
         /\ Len(k.sequence) - 1 \in Nat /\ W - k.paddingBits \in Bit
  <1>1. /\ k.sequence \in Seq(SUBSET Bit) /\ Len(k.sequence) \in Nat /\ k.paddingBits \in Bit
        /\ l.sequence \in Seq(SUBSET Bit) /\ Len(l.sequence) \in Nat /\ l.paddingBits \in Bit
        /\ Len(k.sequence) # 0
    BY KeyFacts
  <1>2. ASSUME k.paddingBits = 0 PROVE FALSE
    <2>1. KeyEnd(k) = <<Len(k.sequence), 0>>
      BY <1>2 DEF KeyEnd
    <2>2. Len(k.sequence) < Len(l.sequence)
      <3> DEFINE m == Len(k.sequence)
                 L == Len(l.sequence)
                 e == l.paddingBits
      <3>1. m \in Nat /\ L \in Nat /\ e \in 0 .. W - 1 /\ KeyEnd(k) = <<m, 0>>
        BY <1>1, <2>1 DEF Bit
      <3>2. KeyEnd(l) = IF e = 0 THEN <<L, 0>> ELSE <<L - 1, W - e>>
        BY DEF KeyEnd
      <3> HIDE DEF m, L, e
      <3>3. m < L
        BY <3>1, <3>2, Width DEF Before
      <3>4. QED BY <3>3 DEF m, L
    <2>3. ASSUME NEW i \in 1 .. Len(k.sequence)
          PROVE  k.sequence[i] = l.sequence[i]
      <3>1. k.sequence[i] \subseteq Bit /\ l.sequence[i] \subseteq Bit
        <4>1. i \in 1 .. Len(l.sequence)
          BY <1>1, <2>2
        <4>2. QED BY <1>1, <4>1
      <3>2. ASSUME NEW b \in Bit
            PROVE  b \in k.sequence[i] <=> b \in l.sequence[i]
        <4>1. <<i - 1, b>> \in Place /\ (i - 1) + 1 = i
          BY <1>1 DEF Place
        <4>2. Before(<<i - 1, b>>, KeyEnd(k))
          BY <1>1, <2>1 DEF Before
        <4>3. QED BY <4>1, <4>2 DEF Agree, Has
      <3>3. QED BY <3>1, <3>2
    <2>4. QED BY <1>2, <2>2, <2>3 DEF AlignedKeysApart
  <1>3. k.paddingBits \in Nat /\ k.paddingBits < W
    BY <1>1, Width DEF Bit
  <1>4. W - k.paddingBits \in Bit /\ Len(k.sequence) - 1 \in Nat
    <2> DEFINE e == k.paddingBits
               m == Len(k.sequence)
    <2>1. e \in Nat /\ e < W /\ e # 0 /\ m \in Nat /\ m # 0
      BY <1>1, <1>2, <1>3
    <2> HIDE DEF e, m
    <2>2. W - e \in Bit /\ m - 1 \in Nat
      BY <2>1, Width DEF Bit
    <2>3. QED BY <2>2 DEF e, m
  <1>5. QED BY <1>2, <1>4 DEF KeyEnd
-----------------------------------------------------------------------------
(* The invariant.                                                          *)

\* Between calls the nodes are a tree that has what was written; a call goes down along its
\* key, and what it found stands for its key.
Consistent(nd, K, k, a, e, wr) ==
  /\ DOMAIN K = DOMAIN nd /\ Tree(nd, K) /\ PayloadsFit(nd, K, wr) /\ FullBut(nd, e)
  /\ a # Nil => /\ e = Nil /\ k \in Keys /\ a \in DOMAIN nd
                /\ Agree(K[a], k, StartOf(nd[a]))
                /\ a # 1 => /\ Before(StartOf(nd[a]), KeyEnd(k))
                            /\ Has(K[a], StartOf(nd[a])) <=> Has(k, StartOf(nd[a]))
  /\ e # Nil => k \in Keys /\ e \in DOMAIN nd /\ Stands(nd, K, e, k)

TrieInv ==
  /\ DOMAIN written \subseteq Keys
  /\ \/ node = <<>> /\ at = Nil /\ p = Nil /\ DOMAIN written = {}
     \/ node # <<>> /\ \E K : Consistent(node, K, key, at, p, written)

\* A node is where it is in memory.
LEMMA Addresses ==
  ASSUME NEW nd, NEW K, Tree(nd, K)
  PROVE  /\ nd # <<>> /\ Nil \notin DOMAIN nd /\ 1 \in DOMAIN nd /\ StartOf(nd[1]) = Origin
         /\ Cardinality(DOMAIN nd) \in Nat /\ DOMAIN nd = 1 .. Cardinality(DOMAIN nd)
  <1>1. /\ Cardinality(DOMAIN nd) \in Nat /\ DOMAIN nd = 1 .. Cardinality(DOMAIN nd)
        /\ 1 \in DOMAIN nd /\ StartOf(nd[1]) = Origin
    BY DEF Tree, NodesFit
  <1>2. nd # <<>>
    <2>1. <<>> \in Seq({}) /\ Len(<<>>) = 0
      BY EmptySeq
    <2>2. DOMAIN <<>> = 1 .. 0
      BY <2>1, LenProperties
    <2>3. 1 \notin 1 .. 0
      OBVIOUS
    <2>4. QED BY <1>1, <2>2, <2>3
  <1>3. QED BY <1>1, <1>2 DEF Nil

\* What a call on a node knows of it.
LEMMA CallFacts ==
  ASSUME NEW K, Consistent(node, K, key, at, p, written), at # Nil
  PROVE  /\ p = Nil /\ key \in Keys /\ at \in DOMAIN node /\ K[at] \in Keys
         /\ Fits(node[at], K[at]) /\ NodeOK(node[at])
         /\ Agree(K[at], key, StartOf(node[at]))
         /\ ~Before(KeyEnd(K[at]), EndOf(node[at]))
         /\ StartOf(node[at]) \in Place /\ EndOf(node[at]) \in Place /\ KeyEnd(key) \in Place
         /\ StartOf(node[at]) # Origin => /\ Before(StartOf(node[at]), KeyEnd(key))
                                          /\ Has(K[at], StartOf(node[at])) <=> Has(key, StartOf(node[at]))
         /\ ~Before(KeyEnd(key), StartOf(node[at])) /\ StartOf(node[at]) # KeyEnd(key)
         /\ at = 1 => StartOf(node[at]) = Origin
         /\ Fresh \in Nat /\ Fresh \notin DOMAIN node
  <1>1. /\ p = Nil /\ key \in Keys /\ at \in DOMAIN node
        /\ Agree(K[at], key, StartOf(node[at])) /\ Tree(node, K)
        /\ at # 1 => /\ Before(StartOf(node[at]), KeyEnd(key))
                     /\ Has(K[at], StartOf(node[at])) <=> Has(key, StartOf(node[at]))
    BY DEF Consistent
  <1>2. K[at] \in Keys /\ Fits(node[at], K[at])
    BY <1>1 DEF Tree, NodesFit
  <1>3. NodeOK(node[at]) /\ ~Before(KeyEnd(K[at]), EndOf(node[at]))
    BY <1>2 DEF Fits
  <1>4. /\ StartOf(node[at]) \in Place /\ EndOf(node[at]) \in Place /\ KeyEnd(key) \in Place
        /\ KeyEnd(key) # Origin
    BY <1>1, <1>3, NodeFacts, KeyFacts
  <1>5. at = 1 => StartOf(node[at]) = Origin
    BY <1>1, Addresses
  <1>6. ~Before(KeyEnd(key), StartOf(node[at])) /\ StartOf(node[at]) # KeyEnd(key)
    BY <1>1, <1>4, <1>5, PlacesOrdered
  <1>7. Fresh \in Nat /\ Fresh \notin DOMAIN node
    <2> DEFINE N == Cardinality(DOMAIN node)
    <2>1. N \in Nat /\ DOMAIN node = 1 .. N /\ Fresh = N + 1
      BY <1>1, Addresses DEF Fresh
    <2> HIDE DEF N
    <2>2. QED BY <2>1
  <1>8. QED BY <1>1, <1>2, <1>3, <1>4, <1>5, <1>6, <1>7

\* The first key makes the root, which stands for it; with others the call begins there.
LEMMA AccessKeeps ==
  ASSUME TrieInv, Access
  PROVE  TrieInv'
  <1>1. /\ at = Nil /\ p = Nil /\ key' \in Keys /\ written' = written
    BY DEF Access
  <1>2. CASE node = <<>>
    <2> DEFINE n == NodeFor(key', 0, 0)
               K == [a \in {1} |-> key']
    <2>1. node' = [a \in {1} |-> n] /\ p' = 1 /\ at' = at
      BY <1>2 DEF Access, NewNode, NodeFor, sequence, paddingBits
    <2>2. DOMAIN written = {}
      BY <1>2 DEF TrieInv
    <2>3. /\ <<0, 0>> \in Place /\ Before(<<0, 0>>, KeyEnd(key')) /\ 0 \in Bit /\ 0 \in Nat
          /\ KeyEnd(key') \in Place
      <3>1. KeyEnd(key') \in Place /\ KeyEnd(key') # Origin
        BY <1>1, KeyFacts
      <3>2. QED BY <3>1, PlacesOrdered, Width DEF Origin, Bit
    <2>4. /\ NodeOK(n) /\ StartOf(n) = <<0, 0>> /\ EndOf(n) = KeyEnd(key')
          /\ \A q \in Place : Covers(n, q) => (Holds(n, q) <=> Has(key', q))
          /\ n.zero = Nil /\ n.one = Nil /\ n.payload = 0
      BY <1>1, <2>3, NodeForFacts
    <2> HIDE DEF n
    <2>5. Fits(n, key')
      BY <2>3, <2>4, PlacesOrdered DEF Fits
    <2>6. /\ DOMAIN node' = {1} /\ node'[1] = n /\ DOMAIN K = {1} /\ K[1] = key'
          /\ Cardinality(DOMAIN node') = 1 /\ DOMAIN node' = 1 .. 1
      <3>1. Cardinality({1}) = 1
        BY FS_Singleton
      <3>2. QED BY <2>1, <3>1
    <2> HIDE DEF K
    <2>7. Tree(node', K)
      <3>1. NodesFit(node', K)
        BY <1>1, <2>4, <2>5, <2>6 DEF NodesFit, Origin
      <3>2. ChildrenFit(node', K)
        BY <2>4, <2>6 DEF ChildrenFit, Sides
      <3>3. ParentsKnown(node', K) /\ Apart(node', K)
        BY <2>6 DEF ParentsKnown, Apart
      <3>4. QED BY <3>1, <3>2, <3>3 DEF Tree
    <2>8. PayloadsFit(node', K, written') /\ FullBut(node', 1)
      BY <1>1, <2>2, <2>4, <2>6 DEF PayloadsFit, FullBut
    <2>9. Stands(node', K, 1, key')
      BY <2>3, <2>4, <2>6, AgreeFacts DEF Stands
    <2>10. Consistent(node', K, key', at', p', written')
      BY <1>1, <2>1, <2>6, <2>7, <2>8, <2>9 DEF Consistent, Nil
    <2>11. node' # <<>>
      BY <2>7, Addresses
    <2>12. QED BY <1>1, <2>2, <2>10, <2>11 DEF TrieInv
  <1>3. CASE node # <<>>
    <2>1. node' = node /\ p' = p /\ at' = 1
      BY <1>3 DEF Access
    <2>2. PICK K : Consistent(node, K, key, at, p, written)
      BY <1>3 DEF TrieInv
    <2>3. 1 \in DOMAIN node /\ StartOf(node[1]) = Origin
      BY <2>2, Addresses DEF Consistent
    <2>4. Agree(K[1], key', Origin)
      BY PlacesOrdered DEF Agree
    <2>5. Consistent(node', K, key', at', p', written')
      BY <1>1, <2>1, <2>2, <2>3, <2>4 DEF Consistent
    <2>6. QED BY <1>1, <1>3, <2>1, <2>5 DEF TrieInv
  <1>4. QED BY <1>2, <1>3
\* A node that ends with the key and has its bits stands for it.
LEMMA FoundKeeps ==
  ASSUME TrieInv, Found
  PROVE  TrieInv'
  <1>1. /\ at # Nil /\ Differences(node[at]) = {} /\ End(node[at]) = Len(sequence)
        /\ node[at].ignoreBitsLast = paddingBits
        /\ p' = at /\ at' = Nil /\ key' = key /\ written' = written /\ node' = node
    BY DEF Found, AtEqualNode, Done
  <1>2. PICK K : Consistent(node, K, key, at, p, written)
    BY <1>1 DEF TrieInv
  <1>3. /\ p = Nil /\ key \in Keys /\ at \in DOMAIN node
        /\ Fits(node[at], K[at]) /\ NodeOK(node[at]) /\ Agree(K[at], key, StartOf(node[at]))
        /\ KeyEnd(key) \in Place
    BY <1>1, <1>2, CallFacts
  <1>4. EndOf(node[at]) = KeyEnd(key)
    BY <1>1, <1>3, EndsCompared
  <1>5. Agree(K[at], key, KeyEnd(key))
    BY <1>1, <1>3, <1>4, EqualNode, PlacesOrdered
  <1>6. Stands(node, K, at, key)
    BY <1>4, <1>5 DEF Stands
  <1>7. FullBut(node, at)
    BY <1>2, <1>3, Addresses DEF Consistent, FullBut
  <1>8. Consistent(node', K, key', at', p', written')
    BY <1>1, <1>2, <1>3, <1>6, <1>7 DEF Consistent
  <1>9. QED BY <1>1, <1>2, <1>8 DEF TrieInv

\* A node within which the key ends is split there, and its upper part stands for the key.
LEMMA EndsWithinKeeps ==
  ASSUME AlignedKeysApart, TrieInv, EndsWithin
  PROVE  TrieInv'
  <1> DEFINE n == node[at]
             block == Len(sequence) - node[at].myFirstBlock - 1
             bit == W - paddingBits
             q == KeyEnd(key)
  <1>1. /\ at # Nil /\ Differences(n) = {}
        /\ (End(n) = Len(sequence) /\ n.ignoreBitsLast < paddingBits) \/ End(n) > Len(sequence)
        /\ node' = SplitAt(at, block, bit, Fresh)
        /\ p' = at /\ at' = Nil /\ key' = key /\ written' = written
    BY DEF EndsWithin, AtEqualNode, Done
  <1>2. PICK K : Consistent(node, K, key, at, p, written)
    BY <1>1 DEF TrieInv
  <1>3. /\ p = Nil /\ key \in Keys /\ at \in DOMAIN node /\ K[at] \in Keys
        /\ Fits(n, K[at]) /\ NodeOK(n) /\ Agree(K[at], key, StartOf(n))
        /\ ~Before(KeyEnd(K[at]), EndOf(n))
        /\ StartOf(n) \in Place /\ EndOf(n) \in Place /\ q \in Place
        /\ ~Before(q, StartOf(n)) /\ StartOf(n) # q
        /\ Fresh \in Nat /\ Fresh \notin DOMAIN node
    BY <1>1, <1>2, CallFacts
  <1>4. Before(q, EndOf(n))
    BY <1>1, <1>3, EndsCompared
  <1>5. Agree(K[at], key, q)
    BY <1>1, <1>3, <1>4, EqualNode, PlacesOrdered
  <1>6. q = <<Len(sequence) - 1, bit>> /\ Len(sequence) - 1 \in Nat /\ bit \in Bit
    <2>1. KeyEnd(K[at]) \in Place
      BY <1>3, KeyFacts
    <2>2. Before(q, KeyEnd(K[at]))
      BY <1>3, <1>4, <2>1, PlacesOrdered
    <2>3. QED BY <1>3, <1>5, <2>2, EndsInBlock DEF sequence, paddingBits
  <1>7. block \in Nat /\ q = <<n.myFirstBlock + block, bit>>
    <2>1. n.myFirstBlock \in Nat
      BY <1>3, NodeFacts
    <2>2. ~(Len(sequence) - 1 < n.myFirstBlock)
      BY <1>3, <1>6, NodeFacts
    <2>3. QED BY <1>6, <2>1, <2>2
  <1>8. Before(StartOf(n), q)
    BY <1>3, PlacesOrdered
  <1> HIDE DEF n, block, bit, q
  <1>9. PICK up, lo : /\ SplitAt(at, block, bit, Fresh) = With(With(node, at, up), Fresh, lo)
                      /\ Parts(n, K[at], q, Fresh, up, lo)
                      /\ up.payload = 0 /\ lo.payload = n.payload
    <2>1. Fits(node[at], K[at]) /\ q = <<node[at].myFirstBlock + block, bit>> /\ SplitsAt(node[at], q)
      BY <1>3, <1>4, <1>7 DEF n, SplitsAt
    <2>2. IsSplit(SplitAt(at, block, bit, Fresh), at, K[at], q, Fresh)
      BY <1>3, <1>6, <1>7, <2>1, SplitAtFacts
    <2>3. QED BY <2>2 DEF n, IsSplit
  <1> DEFINE K2 == With(K, Fresh, K[at])
  <1>10. /\ DOMAIN K = DOMAIN node /\ Tree(node, K) /\ PayloadsFit(node, K, written) /\ FullBut(node, Nil)
    BY <1>2, <1>3 DEF Consistent
  <1>11. Fresh = Cardinality(DOMAIN node) + 1 /\ Parts(node[at], K[at], q, Fresh, up, lo)
    BY <1>9 DEF Fresh, n
  <1>12. node' = With(With(node, at, up), Fresh, lo)
    BY <1>1, <1>9
  <1>13. Tree(node', K2) /\ DOMAIN K2 = DOMAIN node'
    BY <1>3, <1>8, <1>10, <1>11, <1>12, TreeSplit DEF n
  <1>14. PayloadsFit(node', K2, written) /\ FullBut(node', at)
    <2>1. lo.payload = node[at].payload
      BY <1>9 DEF n
    <2>2. QED BY <1>3, <1>9, <1>10, <1>11, <1>12, <2>1, SplitKeeps
  <1>15. at \in DOMAIN node' /\ node'[at] = up /\ K2[at] = K[at]
    BY <1>3, <1>10, <1>12 DEF With
  <1>16. Stands(node', K2, at, key)
    BY <1>5, <1>9, <1>15 DEF Stands, Parts, q
  <1>17. Consistent(node', K2, key', at', p', written')
    BY <1>1, <1>3, <1>13, <1>14, <1>15, <1>16 DEF Consistent
  <1>18. node' # <<>>
    BY <1>13, Addresses
  <1>19. QED BY <1>1, <1>17, <1>18 DEF TrieInv

\* The call goes down to the child whose key has the bit that follows.
LEMMA DescendKeeps ==
  ASSUME TrieInv, Descend
  PROVE  TrieInv'
  <1> DEFINE n == node[at]
             side == NextSide(node[at])
             c == node[at][NextSide(node[at])]
             q == EndOf(node[at])
  <1>1. /\ at # Nil /\ Differences(n) = {}
        /\ (End(n) = Len(sequence) /\ n.ignoreBitsLast > paddingBits) \/ End(n) < Len(sequence)
        /\ c # Nil /\ at' = c /\ p' = p /\ key' = key /\ written' = written /\ node' = node
    BY DEF Descend, EndsBeyond, AtEqualNode
  <1>2. PICK K : Consistent(node, K, key, at, p, written)
    BY <1>1 DEF TrieInv
  <1>3. /\ p = Nil /\ key \in Keys /\ at \in DOMAIN node
        /\ Fits(n, K[at]) /\ NodeOK(n) /\ Agree(K[at], key, StartOf(n))
        /\ q \in Place /\ KeyEnd(key) \in Place
    BY <1>1, <1>2, CallFacts
  <1>4. Before(q, KeyEnd(key))
    BY <1>1, <1>3, EndsCompared
  <1>5. Agree(K[at], key, q)
    BY <1>1, <1>3, <1>4, EqualNode, PlacesOrdered
  <1>6. side = SideFor(key, q) /\ side \in Sides
    BY DEF NextSide, SideFor, Has, EndOf, sequence, Sides
  <1>7. ChildFits(node, K, at, side, c)
    BY <1>1, <1>2, <1>3, <1>6 DEF Consistent, Tree, ChildrenFit
  <1> HIDE DEF n, side, c
  <1>8. /\ c \in DOMAIN node /\ StartOf(node[c]) = q
        /\ Agree(K[at], K[c], q) /\ side = SideFor(K[c], q)
    BY <1>7 DEF ChildFits
  <1>9. Agree(K[c], key, q) /\ (Has(K[c], q) <=> Has(key, q))
    <2>1. Agree(K[c], K[at], q)
      BY <1>3, <1>8, AgreeFacts
    <2>2. Agree(K[c], key, q)
      BY <1>3, <1>5, <2>1, AgreeFacts
    <2>3. QED BY <1>6, <1>8, <2>2 DEF SideFor
  <1> HIDE DEF q
  <1>10. Consistent(node', K, key', at', p', written')
    BY <1>1, <1>2, <1>3, <1>4, <1>8, <1>9 DEF Consistent
  <1>11. QED BY <1>1, <1>2, <1>10 DEF TrieInv
\* The two parts of a node with a new child, as the code writes them.
LEMMA ChildAdded ==
  ASSUME NEW nd, NEW a \in DOMAIN nd, NodeOK(nd[a]), NEW side \in Sides, NEW c \in Nat, NEW leaf
  PROVE  \E m : /\ HasChild(m, nd[a], side, c)
                /\ With([nd EXCEPT ![a][side] = c], c, leaf) = With(With(nd, a, m), c, leaf)
  <1> DEFINE m == [nd[a] EXCEPT ![side] = c]
  <1>1. [nd EXCEPT ![a][side] = c] = With(nd, a, m)
    <2>1. [nd EXCEPT ![a][side] = c] = [b \in DOMAIN nd |-> IF b = a THEN m ELSE nd[b]]
      OBVIOUS
    <2>2. DOMAIN nd \union {a} = DOMAIN nd
      OBVIOUS
    <2> HIDE DEF m
    <2>3. QED BY <2>1, <2>2 DEF With
  <1>2. nd[a] \in Nodes
    BY DEF NodeOK
  <1>3. /\ m \in Nodes /\ m.value = nd[a].value /\ m.myFirstBlock = nd[a].myFirstBlock
        /\ m.ignoreBitsFirst = nd[a].ignoreBitsFirst /\ m.ignoreBitsLast = nd[a].ignoreBitsLast
        /\ m.payload = nd[a].payload /\ \A s \in Sides : m[s] = IF s = side THEN c ELSE nd[a][s]
    <2>1. CASE side = "zero"
      BY <1>2, <2>1 DEF Nodes, Sides
    <2>2. CASE side = "one"
      BY <1>2, <2>2 DEF Nodes, Sides
    <2>3. QED BY <2>1, <2>2 DEF Sides
  <1> HIDE DEF m
  <1>4. NodeOK(m)
    BY <1>3 DEF NodeOK, Masked, StartOf
  <1>5. HasChild(m, nd[a], side, c)
    BY <1>3, <1>4 DEF HasChild
  <1>6. QED BY <1>1, <1>5

\* The rest of the key as a leaf.
LEMMA LeafFacts ==
  ASSUME key \in Keys, NEW block \in Nat, NEW bit \in Bit, NEW q, q = <<block, bit>>, Before(q, KeyEnd(key))
  PROVE  IsLeaf(NewNode(block, bit), key, q) /\ NewNode(block, bit).payload = 0
  <1>1. NewNode(block, bit) = NodeFor(key, block, bit)
    BY DEF NewNode, NodeFor, sequence, paddingBits
  <1> DEFINE n == NodeFor(key, block, bit)
  <1>2. /\ NodeOK(n) /\ StartOf(n) = q /\ EndOf(n) = KeyEnd(key)
        /\ \A r \in Place : Covers(n, r) => (Holds(n, r) <=> Has(key, r))
        /\ n.zero = Nil /\ n.one = Nil /\ n.payload = 0
    BY NodeForFacts
  <1> HIDE DEF n
  <1>3. KeyEnd(key) \in Place /\ q \in Place
    BY KeyFacts DEF Place
  <1>4. Fits(n, key)
    BY <1>2, <1>3, PlacesOrdered DEF Fits
  <1>5. IsLeaf(n, key, q) /\ n.payload = 0
    BY <1>2, <1>4 DEF IsLeaf, Sides
  <1>6. QED BY <1>1, <1>5 DEF n

\* Below this node is where the rest of the key belongs.
TakesLeaf(nd, K, a) ==
  /\ Tree(nd, K) /\ DOMAIN K = DOMAIN nd /\ PayloadsFit(nd, K, written)
  /\ key \in Keys /\ a \in DOMAIN nd /\ FullBut(nd, a)
  /\ Before(EndOf(nd[a]), KeyEnd(key)) /\ Agree(K[a], key, EndOf(nd[a]))
  /\ nd[a][SideFor(key, EndOf(nd[a]))] = Nil /\ FullWith(nd[a], SideFor(key, EndOf(nd[a])))

\* It is put at address c.
GetsLeaf(nd2, nd, a, side, c, block, bit) ==
  nd2 = With([nd EXCEPT ![a][side] = c], c, NewNode(block, bit))

\* A tree with a leaf for the key added there stands for it.
LEMMA WithLeaf ==
  ASSUME NEW nd, NEW K, NEW a, TakesLeaf(nd, K, a),
         NEW q, q = EndOf(nd[a]), NEW side, side = SideFor(key, q),
         NEW c, c = Cardinality(DOMAIN nd) + 1,
         NEW block, NEW bit, q = <<block, bit>>,
         NEW nd2, GetsLeaf(nd2, nd, a, side, c, block, bit)
  PROVE  nd2 # <<>> /\ \E K2 : Consistent(nd2, K2, key, Nil, c, written)
  <1> DEFINE leaf == NewNode(block, bit)
             K2 == With(K, c, key)
  <1>0. /\ Tree(nd, K) /\ DOMAIN K = DOMAIN nd /\ PayloadsFit(nd, K, written)
        /\ key \in Keys /\ a \in DOMAIN nd /\ FullBut(nd, a)
        /\ Before(q, KeyEnd(key)) /\ Agree(K[a], key, q) /\ nd[a][side] = Nil
        /\ FullWith(nd[a], side) /\ q \in Place
    <2>1. TakesLeaf(nd, K, a)
      OBVIOUS
    <2>2. NodeOK(nd[a])
      BY <2>1 DEF TakesLeaf, Tree, NodesFit, Fits
    <2>3. QED BY <2>1, <2>2, NodeFacts DEF TakesLeaf
  <1> USE <1>0
  <1>1. /\ NodeOK(nd[a]) /\ side \in Sides /\ c \in Nat /\ block \in Nat /\ bit \in Bit /\ c \notin DOMAIN nd
    <2>1. NodeOK(nd[a])
      BY DEF Tree, NodesFit, Fits
    <2>2. side \in Sides /\ block \in Nat /\ bit \in Bit
      BY DEF SideFor, Sides, Place
    <2> DEFINE N == Cardinality(DOMAIN nd)
    <2>3. N \in Nat /\ DOMAIN nd = 1 .. N /\ c = N + 1
      BY Addresses
    <2> HIDE DEF N
    <2>4. c \in Nat /\ c \notin DOMAIN nd
      BY <2>3
    <2>5. QED BY <2>1, <2>2, <2>4
  <1>2. IsLeaf(leaf, key, q) /\ leaf.payload = 0
    BY <1>1, LeafFacts
  <1> HIDE DEF leaf
  <1>3. PICK m : /\ HasChild(m, nd[a], side, c)
                 /\ With([nd EXCEPT ![a][side] = c], c, leaf) = With(With(nd, a, m), c, leaf)
    BY <1>1, ChildAdded
  <1>4. nd2 = With(With(nd, a, m), c, leaf)
    BY <1>3 DEF leaf, GetsLeaf
  <1>a. K2 = With(K, c, key)
    OBVIOUS
  <1> HIDE DEF K2
  <1>b. LeafAdded(nd, K, nd2, K2, a, key, c, m, leaf)
    BY <1>2, <1>3, <1>4, <1>a DEF LeafAdded
  <1>5. Tree(nd2, K2) /\ DOMAIN K2 = DOMAIN nd2
    BY <1>b, TreeAddLeaf
  <1>6. PayloadsFit(nd2, K2, written) /\ FullBut(nd2, c)
    <2>1. FullWith(nd[a], SideFor(key, EndOf(nd[a])))
      OBVIOUS
    <2>2. Tree(nd, K) /\ PayloadsFit(nd, K, written) /\ FullBut(nd, a)
      OBVIOUS
    <2>3. QED BY ONLY <1>b, <2>1, <2>2, LeafKeeps, Zenon
  <1>7. c \in DOMAIN nd2 /\ nd2[c] = leaf /\ K2[c] = key
    BY <1>4, <1>a DEF With
  <1>8. Stands(nd2, K2, c, key)
    <2>1. KeyEnd(key) \in Place
      BY KeyFacts
    <2>2. QED BY <1>2, <1>7, <2>1, AgreeFacts DEF Stands, IsLeaf
  <1>9. Consistent(nd2, K2, key, Nil, c, written)
    BY <1>5, <1>6, <1>7, <1>8 DEF Consistent
  <1>10. QED BY <1>5, <1>9, Addresses

\* A node that has no child on the key's side gets the rest of the key as one.
LEMMA AddChildKeeps ==
  ASSUME TrieInv, AddChild
  PROVE  TrieInv'
  <1> DEFINE n == node[at]
             side == NextSide(node[at])
             q == EndOf(node[at])
  <1>1. /\ at # Nil /\ Differences(n) = {}
        /\ (End(n) = Len(sequence) /\ n.ignoreBitsLast > paddingBits) \/ End(n) < Len(sequence)
        /\ n[side] = Nil /\ p' = Fresh /\ at' = Nil /\ key' = key /\ written' = written
        /\ node' = With([node EXCEPT ![at][side] = Fresh], Fresh, NewNode(NextBlock(n), NextBit(n)))
    BY DEF AddChild, EndsBeyond, AtEqualNode, Done
  <1>2. PICK K : Consistent(node, K, key, at, p, written)
    BY <1>1 DEF TrieInv
  <1>3. /\ p = Nil /\ key \in Keys /\ at \in DOMAIN node
        /\ Fits(n, K[at]) /\ NodeOK(n) /\ Agree(K[at], key, StartOf(n))
        /\ q \in Place /\ KeyEnd(key) \in Place
    BY <1>1, <1>2, CallFacts
  <1>4. Before(q, KeyEnd(key)) /\ q = <<NextBlock(n), NextBit(n)>>
    BY <1>1, <1>3, EndsCompared
  <1>5. Agree(K[at], key, q)
    BY <1>1, <1>3, <1>4, EqualNode, PlacesOrdered
  <1>6. side = SideFor(key, q) /\ side \in Sides
    BY DEF NextSide, SideFor, Has, EndOf, sequence, Sides
  <1> HIDE DEF side
  <1>7. /\ DOMAIN K = DOMAIN node /\ Tree(node, K) /\ PayloadsFit(node, K, written) /\ FullBut(node, Nil)
    BY <1>2, <1>3 DEF Consistent
  <1>8. FullBut(node, at) /\ n.payload # 0
    <2>1. Full(n)
      BY <1>3, <1>7, Addresses DEF FullBut
    <2>2. QED BY <1>1, <1>6, <1>7, <2>1, Addresses DEF Full, FullBut
  <1>9. node' # <<>> /\ \E K2 : Consistent(node', K2, key, Nil, Fresh, written)
    <2>1. Fresh = Cardinality(DOMAIN node) + 1
      BY DEF Fresh
    <2>2. node[at][side] = Nil /\ FullWith(node[at], side)
      BY <1>1, <1>8 DEF FullWith
    <2>3. TakesLeaf(node, K, at)
      BY <1>3, <1>4, <1>5, <1>6, <1>7, <1>8, <2>2 DEF TakesLeaf
    <2>4. /\ GetsLeaf(node', node, at, side, Fresh, NextBlock(node[at]), NextBit(node[at]))
          /\ q = EndOf(node[at]) /\ q = <<NextBlock(node[at]), NextBit(node[at])>>
      BY <1>1, <1>4 DEF GetsLeaf
    <2> HIDE DEF n, q
    <2>5. QED BY ONLY <1>6, <2>1, <2>3, <2>4, WithLeaf
  <1>10. QED BY <1>1, <1>9, <1>2 DEF TrieInv

\* A node from which the key differs is split there, and the key's rest becomes the second child.
LEMMA BranchKeeps ==
  ASSUME TrieInv, Branch
  PROVE  TrieInv'
  <1> DEFINE n == node[at]
             i == Least(Differences(n))
             input == sequence[n.myFirstBlock + i]
                        \intersect (IF i = 1 THEN bitmask_ignore_first(n.ignoreBitsFirst) ELSE Bit)
             b == Least(Differing(input, n.value[i]))
             side == IF b \in sequence[n.myFirstBlock + i] THEN "one" ELSE "zero"
             split == SplitAt(at, i - 1, b, Fresh)
             q == <<n.myFirstBlock + i - 1, b>>
  <1>1. /\ at # Nil /\ Differences(n) # {}
        /\ p' = Fresh + 1 /\ at' = Nil /\ key' = key /\ written' = written
        /\ node' = With([split EXCEPT ![at][side] = Fresh + 1], Fresh + 1, NewNode(n.myFirstBlock + i - 1, b))
    BY DEF Branch, Done
  <1>2. PICK K : Consistent(node, K, key, at, p, written)
    BY <1>1 DEF TrieInv
  <1>3. /\ p = Nil /\ key \in Keys /\ at \in DOMAIN node /\ K[at] \in Keys
        /\ Fits(n, K[at]) /\ NodeOK(n) /\ Agree(K[at], key, StartOf(n))
        /\ StartOf(n) \in Place /\ EndOf(n) \in Place /\ KeyEnd(key) \in Place
        /\ (StartOf(n) # Origin => (Has(K[at], StartOf(n)) <=> Has(key, StartOf(n))))
        /\ (at = 1 => StartOf(n) = Origin)
        /\ Fresh \in Nat /\ Fresh \notin DOMAIN node
    BY <1>1, <1>2, CallFacts
  <1>4. /\ i \in 1 .. Len(n.value) /\ b \in Bit /\ n.myFirstBlock + i <= Len(sequence)
        /\ IsFirstDifference(n, q)
    BY <1>1, <1>3, DifferenceFound
  <1>5. /\ n.myFirstBlock \in Nat /\ i - 1 \in Nat /\ i \in Nat
        /\ n.myFirstBlock + (i - 1) = n.myFirstBlock + i - 1
        /\ (n.myFirstBlock + i - 1) + 1 = n.myFirstBlock + i
        /\ q \in Place
    <2>1. n.myFirstBlock \in Nat /\ Len(n.value) \in Nat
      BY <1>3, NodeFacts
    <2> HIDE DEF i, n
    <2>2. i \in Nat /\ i >= 1
      BY <1>4, <2>1
    <2>3. QED BY <1>4, <2>1, <2>2 DEF Place
  <1>6. q = <<n.myFirstBlock + (i - 1), b>> /\ q[1] + 1 = n.myFirstBlock + i /\ q[2] = b
    BY <1>5
  <1>7. side = SideFor(key, q)
    BY <1>6 DEF SideFor, Has, sequence
  <1> HIDE DEF n, i, input, b, side, split, q
  <1>8. /\ ~Before(q, StartOf(n)) /\ Before(q, EndOf(n)) /\ Before(q, KeyEnd(key))
        /\ ~(Has(K[at], q) <=> Has(key, q))
    BY <1>3, <1>4, <1>5 DEF IsFirstDifference, Covers, Fits
  <1>9. Agree(K[at], key, q)
    <2>1. ASSUME NEW r \in Place, Before(r, q)
          PROVE  Has(K[at], r) <=> Has(key, r)
      <3>1. CASE Before(r, StartOf(n))
        BY <1>3, <3>1 DEF Agree
      <3>2. CASE ~Before(r, StartOf(n))
        <4>1. Covers(n, r)
          BY <1>3, <1>5, <1>8, <2>1, <3>2, PlacesOrdered DEF Covers
        <4>2. QED BY <1>3, <1>4, <2>1, <4>1 DEF IsFirstDifference, Fits
      <3>3. QED BY <3>1, <3>2
    <2>2. QED BY <2>1 DEF Agree
  <1>10. /\ SplitsAt(n, q) /\ (at # 1 => Before(StartOf(n), q))
    <2>1. q = StartOf(n) => StartOf(n) = Origin
      BY <1>3, <1>8
    <2>2. ASSUME at # 1, q = StartOf(n) PROVE FALSE
      <3>1. Before(StartOf(n), EndOf(n)) /\ Agree(K[at], key, q)
        BY <1>8, <1>9, <2>2
      <3>2. Has(K[at], StartOf(n)) <=> Has(key, StartOf(n))
        BY <1>1, <1>2, <2>2 DEF Consistent, n
      <3>3. QED BY <1>8, <2>2, <3>2
    <2>3. QED BY <1>3, <1>5, <1>8, <2>1, <2>2, PlacesOrdered DEF SplitsAt
  <1>11. IsSplit(split, at, K[at], q, Fresh)
    <2>1. Fits(node[at], K[at]) /\ q = <<node[at].myFirstBlock + (i - 1), b>> /\ SplitsAt(node[at], q)
      BY <1>3, <1>6, <1>10 DEF n
    <2>2. IsSplit(SplitAt(at, i - 1, b, Fresh), at, K[at], q, Fresh)
      BY <1>3, <1>4, <1>5, <2>1, SplitAtFacts
    <2>3. QED BY <2>2 DEF split
  <1>12. PICK up, lo : /\ split = With(With(node, at, up), Fresh, lo)
                       /\ Parts(n, K[at], q, Fresh, up, lo)
                       /\ up.payload = 0 /\ lo.payload = n.payload
    BY <1>11 DEF IsSplit, n
  <1> DEFINE K2 == With(K, Fresh, K[at])
  <1>13. /\ DOMAIN K = DOMAIN node /\ Tree(node, K) /\ PayloadsFit(node, K, written) /\ FullBut(node, Nil)
    BY <1>2, <1>3 DEF Consistent
  <1>14. /\ Fresh = Cardinality(DOMAIN node) + 1 /\ Parts(node[at], K[at], q, Fresh, up, lo)
         /\ lo.payload = node[at].payload
    BY <1>12 DEF Fresh, n
  <1>15. Tree(split, K2) /\ DOMAIN K2 = DOMAIN split
    BY <1>3, <1>5, <1>10, <1>12, <1>13, <1>14, TreeSplit DEF n
  <1>16. PayloadsFit(split, K2, written) /\ FullBut(split, at)
    BY <1>3, <1>12, <1>13, <1>14, SplitKeeps
  <1>17. at \in DOMAIN split /\ split[at] = up /\ K2[at] = K[at] /\ DOMAIN split = DOMAIN node \union {Fresh}
    BY <1>3, <1>12, <1>13 DEF With
  <1>18. EndOf(up) = q /\ up[side] = Nil /\ \A s \in Sides : s # side => up[s] # Nil
    <2>1. /\ EndOf(up) = q
          /\ \A s \in Sides : up[s] = IF s = SideFor(K[at], q) THEN Fresh ELSE Nil
      BY <1>12 DEF Parts
    <2>2. SideFor(K[at], q) # SideFor(key, q) /\ SideFor(K[at], q) \in Sides /\ SideFor(key, q) \in Sides
      BY <1>8 DEF SideFor, Sides
    <2>3. \A s \in Sides : s # SideFor(key, q) => s = SideFor(K[at], q)
      BY <1>8 DEF SideFor, Sides
    <2>4. Fresh # Nil
      BY <1>13, <1>14, Addresses DEF Nil
    <2>5. QED BY <1>7, <2>1, <2>2, <2>3, <2>4
  <1>19. Fresh + 1 = Cardinality(DOMAIN split) + 1
    <2> DEFINE N == Cardinality(DOMAIN node)
               M == Cardinality(DOMAIN split)
    <2>1. N \in Nat /\ DOMAIN node = 1 .. N /\ M \in Nat /\ DOMAIN split = 1 .. M /\ Fresh = N + 1
      BY <1>13, <1>14, <1>15, Addresses
    <2> HIDE DEF N, M
    <2>2. 1 .. M = 1 .. N \union {N + 1}
      BY <1>17, <2>1
    <2>3. M = N + 1
      <3>1. M \in 1 .. M \/ M = 0
        BY <2>1
      <3>2. N + 1 \in 1 .. M
        BY <2>2
      <3>3. N + 1 <= M
        BY <2>1, <3>2
      <3>4. M \in 1 .. M
        BY <2>1, <3>3
      <3>5. M \in 1 .. N \union {N + 1}
        BY <2>2, <3>4
      <3>6. QED BY <2>1, <3>3, <3>5
    <2>4. QED BY <2>1, <2>3 DEF M
  <1> HIDE DEF K2
  <1>20. node' # <<>> /\ \E K3 : Consistent(node', K3, key, Nil, Fresh + 1, written)
    <2>1. q = <<n.myFirstBlock + i - 1, b>> /\ q = EndOf(split[at])
      BY <1>17, <1>18 DEF q
    <2>2. TakesLeaf(split, K2, at)
      BY <1>3, <1>7, <1>8, <1>9, <1>15, <1>16, <1>17, <1>18, <2>1 DEF TakesLeaf, FullWith
    <2>3. GetsLeaf(node', split, at, side, Fresh + 1, n.myFirstBlock + i - 1, b)
      BY <1>1 DEF GetsLeaf
    <2>4. QED BY <1>7, <1>19, <2>1, <2>2, <2>3, WithLeaf
  <1>21. QED BY <1>1, <1>2, <1>20 DEF TrieInv
\* The payload goes to the node that stands for the key, and to no other.
LEMMA RememberKeeps ==
  ASSUME TrieInv, Remember
  PROVE  TrieInv'
  <1>1. PICK v \in Payload : node' = [node EXCEPT ![p].payload = v] /\ written' = With(written, key, v)
    BY DEF Remember
  <1>2. p # Nil /\ p' = Nil /\ at' = at
    BY DEF Remember
  <1>3. PICK K : Consistent(node, K, key, at, p, written)
    BY <1>2 DEF TrieInv
  <1>4. /\ at = Nil /\ key \in Keys /\ p \in DOMAIN node /\ Stands(node, K, p, key)
        /\ DOMAIN K = DOMAIN node /\ Tree(node, K) /\ PayloadsFit(node, K, written) /\ FullBut(node, p)
    BY <1>2, <1>3 DEF Consistent
  <1>5. v \in Nat /\ v # 0
    BY TrieAssumption
  <1>6. /\ DOMAIN node' = DOMAIN node /\ \A a \in DOMAIN node : a # p => node'[a] = node[a]
        /\ \A s \in Sides : node'[p][s] = node[p][s]
        /\ node'[p].payload = v
    <2>1. node[p] \in Nodes
      BY <1>4 DEF Tree, NodesFit, Fits, NodeOK
    <2>2. node'[p] = [node[p] EXCEPT !.payload = v]
      BY <1>1, <1>4
    <2>3. QED BY <1>1, <2>1, <2>2 DEF Nodes, Sides
  <1>7. Tree(node', K) /\ \A a \in DOMAIN node : \A k : Stands(node', K, a, k) <=> Stands(node, K, a, k)
    BY <1>1, <1>4, <1>5, <1>6, TreeSameShape
  <1>8. /\ DOMAIN written' = DOMAIN written \union {key} /\ written'[key] = v
        /\ \A k \in DOMAIN written : k # key => written'[k] = written[k]
    BY <1>1 DEF With
  <1>9. DOMAIN written \subseteq Keys
    BY DEF TrieInv
  <1>10. \A k \in Keys : Stands(node, K, p, k) => k = key
    <2> SUFFICES ASSUME NEW k \in Keys, Stands(node, K, p, k) PROVE k = key
      OBVIOUS
    <2>1. /\ KeyEnd(k) = KeyEnd(key) /\ Agree(K[p], k, KeyEnd(k)) /\ Agree(K[p], key, KeyEnd(k))
          /\ KeyEnd(k) \in Place
      BY <1>4, KeyFacts DEF Stands
    <2>2. Agree(k, K[p], KeyEnd(k))
      BY <2>1, AgreeFacts
    <2>3. Agree(k, key, KeyEnd(k))
      BY <2>1, <2>2, AgreeFacts
    <2>4. QED BY <1>4, <2>1, <2>3, SameKey
  <1>11. ASSUME NEW k \in DOMAIN written'
         PROVE  \E a \in DOMAIN node' : Stands(node', K, a, k) /\ node'[a].payload = written'[k]
    <2>1. CASE k = key
      BY <1>4, <1>6, <1>7, <1>8, <2>1
    <2>2. CASE k # key
      <3>1. k \in DOMAIN written /\ k \in Keys
        BY <1>8, <1>9, <2>2
      <3>2. PICK a \in DOMAIN node : Stands(node, K, a, k) /\ node[a].payload = written[k]
        BY <1>4, <3>1 DEF PayloadsFit
      <3>3. a # p
        BY <1>10, <2>2, <3>1, <3>2
      <3>4. QED BY <1>6, <1>7, <1>8, <2>2, <3>1, <3>2, <3>3
    <2>3. QED BY <2>1, <2>2
  <1>12. ASSUME NEW a \in DOMAIN node', node'[a].payload # 0
         PROVE  \E k \in DOMAIN written' : Stands(node', K, a, k)
    <2>1. CASE a = p
      BY <1>4, <1>7, <1>8, <2>1
    <2>2. CASE a # p
      <3>1. PICK k \in DOMAIN written : Stands(node, K, a, k)
        BY <1>4, <1>6, <1>12, <2>2 DEF PayloadsFit
      <3>2. QED BY <1>6, <1>7, <1>8, <3>1
    <2>3. QED BY <2>1, <2>2
  <1>13. FullBut(node', Nil)
    BY <1>4, <1>5, <1>6 DEF FullBut, Full
  <1>14. PayloadsFit(node', K, written')
    BY <1>11, <1>12 DEF PayloadsFit
  <1>15. Consistent(node', K, key', at', p', written')
    BY <1>2, <1>4, <1>6, <1>7, <1>13, <1>14 DEF Consistent
  <1>16. node' # <<>>
    BY <1>7, Addresses
  <1>17. QED BY <1>4, <1>8, <1>9, <1>15, <1>16 DEF TrieInv

\* The payload that was found is the one last written under the key.
LEMMA FindsWritten ==
  ASSUME TrieInv
  PROVE  ReturnsWritten
  <1> SUFFICES ASSUME p # Nil
               PROVE  node[p].payload = IF key \in DOMAIN written THEN written[key] ELSE 0
    BY DEF ReturnsWritten
  <1>1. PICK K : Consistent(node, K, key, at, p, written)
    BY DEF TrieInv
  <1>2. /\ key \in Keys /\ p \in DOMAIN node /\ Stands(node, K, p, key)
        /\ Tree(node, K) /\ PayloadsFit(node, K, written)
    BY <1>1 DEF Consistent
  <1>3. KeyEnd(key) \in Place /\ EndOf(node[p]) = KeyEnd(key) /\ Agree(K[p], key, KeyEnd(key))
    BY <1>2, KeyFacts DEF Stands
  <1>4. CASE key \in DOMAIN written
    <2>1. PICK a \in DOMAIN node : Stands(node, K, a, key) /\ node[a].payload = written[key]
      BY <1>2, <1>4 DEF PayloadsFit
    <2>2. EndOf(node[a]) = KeyEnd(key) /\ Agree(K[a], key, KeyEnd(key))
      BY <2>1 DEF Stands
    <2>3. Agree(key, K[p], KeyEnd(key))
      BY <1>3, AgreeFacts
    <2>4. Agree(K[a], K[p], EndOf(node[a]))
      BY <1>3, <2>2, <2>3, AgreeFacts
    <2>5. a = p
      BY <1>2, <1>3, <2>2, <2>4, EndsOnce
    <2>6. QED BY <1>4, <2>1, <2>5
  <1>5. CASE key \notin DOMAIN written
    <2>1. ASSUME node[p].payload # 0 PROVE FALSE
      <3>1. PICK k \in DOMAIN written : Stands(node, K, p, k)
        BY <1>2, <2>1 DEF PayloadsFit
      <3>2. k \in Keys /\ KeyEnd(k) = KeyEnd(key) /\ Agree(K[p], k, KeyEnd(key))
        BY <1>3, <3>1 DEF Stands, TrieInv
      <3>3. Agree(k, K[p], KeyEnd(key))
        BY <1>3, <3>2, AgreeFacts
      <3>4. Agree(k, key, KeyEnd(k))
        BY <1>3, <3>2, <3>3, AgreeFacts
      <3>5. k = key
        BY <1>2, <3>2, <3>4, SameKey
      <3>6. QED BY <1>5, <3>5
    <2>2. QED BY <1>5, <2>1
  <1>6. QED BY <1>4, <1>5

\* A node that starts before it ends has bits.
LEMMA HasLength ==
  ASSUME NEW n, NodeOK(n), Before(StartOf(n), EndOf(n))
  PROVE  Length(n) > 0
  <1> DEFINE f == n.myFirstBlock
             l == Len(n.value)
             a == n.ignoreBitsFirst
             d == n.ignoreBitsLast
  <1>1. l \in Nat /\ f \in Nat /\ a \in Nat /\ a < W /\ d \in Nat /\ d < W
    <2>1. \A x \in Bit : x \in Nat /\ x < W
      BY Width DEF Bit
    <2>2. QED BY <2>1, NodeFacts
  <1>2. f + 1 < f + l \/ (f + 1 = f + l /\ a + d < W)
    <2>1. StartOf(n) \in Place /\ StartOf(n)[1] = f /\ StartOf(n)[2] = a /\ End(n) = f + l
      BY NodeFacts DEF StartOf, End
    <2>2. QED BY <2>1, NodeFacts
  <1>3. Length(n) = W * l - a - d
    BY DEF Length
  <1> HIDE DEF f, l, a, d
  <1>4. CASE l = 1
    <2>1. a + d < W
      BY <1>1, <1>2, <1>4
    <2>2. W * l = W
      BY <1>4, Width
    <2>3. QED BY <1>1, <1>3, <2>1, <2>2, Width
  <1>5. CASE l # 1
    <2>1. l >= 2
      BY <1>1, <1>2, <1>5
    <2>2. PICK x \in Nat : l = 2 + x
      <3>1. l - 2 \in Nat /\ l = 2 + (l - 2)
        BY <1>1, <2>1
      <3>2. QED BY <3>1
    <2>3. W * l = W * 2 + W * x /\ W * x \in Nat
      BY <2>2, Width
    <2>4. W * l >= W + W /\ W * l \in Nat
      BY <2>3, Width
    <2>5. QED BY <1>1, <1>3, <2>4, Width
  <1>6. QED BY <1>4, <1>5

\* The nodes' masks, places and sides are right.
LEMMA TreesAreWellFormed ==
  ASSUME TrieInv
  PROVE  WellFormed
  <1> SUFFICES ASSUME NEW a \in DOMAIN node
               PROVE  LET n == node[a]
                      IN  /\ Masked(n) /\ (a # 1 => Length(n) > 0)
                          /\ \A side \in {"zero", "one"} : n[side] # Nil =>
                               LET c == node[n[side]]
                               IN  /\ c.myFirstBlock = NextBlock(n) /\ c.ignoreBitsFirst = NextBit(n)
                                   /\ side = SideOf(c.value, c.ignoreBitsFirst)
                          /\ (n.zero = Nil \/ n.one = Nil) => n.payload # 0 \/ p = a
    BY DEF WellFormed
  <1> DEFINE n == node[a]
  <1>1. node # <<>>
    <2>1. <<>> \in Seq({}) /\ Len(<<>>) = 0
      BY EmptySeq
    <2>2. DOMAIN <<>> = 1 .. 0
      BY <2>1, LenProperties
    <2>3. a \notin 1 .. 0
      OBVIOUS
    <2>4. QED BY <2>2, <2>3
  <1>2. PICK K : Consistent(node, K, key, at, p, written)
    BY <1>1 DEF TrieInv
  <1>3. Tree(node, K) /\ FullBut(node, p)
    BY <1>2 DEF Consistent
  <1>4. \A b \in DOMAIN node : /\ Fits(node[b], K[b]) /\ NodeOK(node[b])
                               /\ b # 1 => Before(StartOf(node[b]), EndOf(node[b]))
    BY <1>3 DEF Tree, NodesFit, Fits
  <1>5. Masked(n) /\ (a # 1 => Length(n) > 0)
    BY <1>4, HasLength DEF NodeOK
  <1>6. ASSUME NEW side \in {"zero", "one"}, n[side] # Nil
        PROVE  /\ node[n[side]].myFirstBlock = NextBlock(n) /\ node[n[side]].ignoreBitsFirst = NextBit(n)
               /\ side = SideOf(node[n[side]].value, node[n[side]].ignoreBitsFirst)
    <2> DEFINE b == n[side]
               c == node[b]
               q == StartOf(c)
    <2>1. ChildFits(node, K, a, side, b)
      BY <1>3, <1>6 DEF Tree, ChildrenFit, Sides
    <2> HIDE DEF b
    <2>2. /\ b \in DOMAIN node /\ b # 1 /\ q = EndOf(n) /\ side = SideFor(K[b], q)
      BY <2>1 DEF ChildFits
    <2>3. c.myFirstBlock = NextBlock(n) /\ c.ignoreBitsFirst = NextBit(n)
      BY <2>2 DEF StartOf, EndOf
    <2>4. Fits(c, K[b]) /\ NodeOK(c) /\ Before(q, EndOf(c))
      BY <1>4, <2>2
    <2> HIDE DEF c, n
    <2>5. /\ q \in Place /\ c.ignoreBitsFirst \in Bit /\ c.myFirstBlock \in Nat
      BY <2>4, NodeFacts
    <2>6. Covers(c, q)
      BY <2>4, <2>5, PlacesOrdered DEF Covers
    <2>7. Holds(c, q) <=> Has(K[b], q)
      BY <2>4, <2>5, <2>6 DEF Fits
    <2>8. Holds(c, q) <=> c.ignoreBitsFirst \in c.value[1]
      <3>1. q[1] = c.myFirstBlock /\ q[2] = c.ignoreBitsFirst
        BY DEF StartOf
      <3>2. q[1] - c.myFirstBlock + 1 = 1
        BY <2>5, <3>1
      <3>3. QED BY <3>1, <3>2 DEF Holds
    <2>9. Shift(c.ignoreBitsFirst) = c.ignoreBitsFirst
      BY <2>5, Masks
    <2>10. side = SideOf(c.value, c.ignoreBitsFirst)
      BY <2>2, <2>7, <2>8, <2>9 DEF SideOf, SideFor
    <2>11. QED BY <2>3, <2>10 DEF b, c
  <1>7. (n.zero = Nil \/ n.one = Nil) => n.payload # 0 \/ p = a
    BY <1>3 DEF FullBut, Full, Sides
  <1>8. QED BY <1>5, <1>6, <1>7

\* What holds of the trie and of a call, whatever is inserted.
LEMMA TrieKeeps ==
  ASSUME AlignedKeysApart
  PROVE  TrieSpec => []TrieInv
  <1>1. TrieInit => TrieInv
    <2>1. <<>> \in Seq({}) /\ Len(<<>>) = 0
      BY EmptySeq
    <2>2. DOMAIN <<>> = {}
      BY <2>1, LenProperties
    <2>3. QED BY <2>2 DEF TrieInit, TrieInv
  <1>2. TrieInv /\ [TrieNext]_trieVars => TrieInv'
    <2>1. TrieInv /\ UNCHANGED trieVars => TrieInv'
      BY DEF TrieInv, trieVars
    <2>2. QED BY <2>1, AccessKeeps, FoundKeeps, EndsWithinKeeps, DescendKeeps, AddChildKeeps, BranchKeeps,
                 RememberKeeps DEF TrieNext
  <1>3. QED BY <1>1, <1>2, PTL DEF TrieSpec

\* The trie stays well-formed: masks, places and sides of the nodes are those of the bits they
\* stand for, and a node without both children holds a key (split_me_at, insert).
THEOREM TrieWellFormed ==
  ASSUME AlignedKeysApart
  PROVE  TrieSpec => []WellFormed
  <1>1. TrieInv => WellFormed
    BY TreesAreWellFormed
  <1>2. QED BY <1>1, TrieKeeps, PTL

\* The trie is a map: insert() finds for a key what insertVisi wrote under it last, and
\* nothing for a key that was never inserted, whatever was inserted in between.
THEOREM TrieIsMap ==
  ASSUME AlignedKeysApart
  PROVE  TrieSpec => []ReturnsWritten
  <1>1. TrieInv => ReturnsWritten
    BY FindsWritten
  <1>2. QED BY <1>1, TrieKeeps, PTL
=============================================================================
