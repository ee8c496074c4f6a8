----------------------------- MODULE IntPairHeap -----------------------------
(***************************************************************************)
(* IntPairHeap<int>: a binary heap of (key, value) pairs kept in two       *)
(* arrays, here one array of pairs.  Slot 0 holds a sentinel with the      *)
(* smallest key there is; it ends the loop of add().  nextIndex is one     *)
(* past the last slot in use.  Slots from nextIndex on keep what was there *)
(* or, after the arrays have grown, are not initialised.  One step is one  *)
(* call up to its loop, or one iteration of the loop of add() or pop().    *)
(*                                                                         *)
(* The topological sort of the visited list, the additive and FF           *)
(* heuristics, the planning graph and the landmark procedures rest on it.  *)
(***************************************************************************)
EXTENDS Integers

CONSTANTS Key, Val,     \* the pairs add() is called with; see MinBag about Val
          IntMin,       \* numeric_limits<int>::min()
          InitialSize,  \* the argument of the constructor
          MaxEntries,   \* bound on the entries at a time
          Junk          \* what slots that were never written may hold

ASSUME HeapAssumption ==
  /\ Key \subseteq Int
  /\ IntMin \in Int /\ \A k \in Key : IntMin <= k
  /\ InitialSize \in Nat \ {0}
  /\ MaxEntries \in Nat
  /\ Junk \subseteq (Key \X Val) \union {<<IntMin, IntMin>>}

VARIABLES array,        \* keys and vals, slots 0 .. arraySize - 1
          arraySize,
          nextIndex,
          current,      \* the slot the running loop has come to
          call,         \* "none", or the call whose loop runs: "add" or "pop"
          contents      \* history: the pairs added and not popped since

heapVars == <<array, arraySize, nextIndex, current, call, contents>>

Sentinel == <<IntMin, IntMin>>
Entry == (Key \X Val) \union {Sentinel}

KeyOf(i) == array[i][1]

\* The slots that hold entries between two calls.
InUse == 1 .. nextIndex - 1

\* During add() the slot at nextIndex is filled already and not yet counted.
Filled == IF call = "add" THEN 1 .. nextIndex ELSE InUse

Exchanged(i, j) == [array EXCEPT ![i] = array[j], ![j] = array[i]]

\* new int[] leaves the slots unset.
HeapInit == /\ arraySize = InitialSize
            /\ \E junk \in Junk :
                 array = [i \in 0 .. InitialSize - 1 |-> IF i = 0 THEN Sentinel ELSE junk]
            /\ nextIndex = 1
            /\ current = 1
            /\ call = "none"
            /\ contents = {}

\* Doubling the arrays when all slots are taken.
Grown(junk) ==
  IF nextIndex = arraySize
  THEN [i \in 0 .. 2 * arraySize - 1 |-> IF i < arraySize THEN array[i] ELSE junk]
  ELSE array

\* add(k, v) up to its loop.  The write is outside the array when it was not grown.
StartAdd(k, v) ==
  /\ call = "none"
  /\ nextIndex <= MaxEntries
  /\ \A e \in contents : e[2] # v
  /\ \E junk \in Junk :
       /\ array' = [Grown(junk) EXCEPT ![nextIndex] = <<k, v>>]
       /\ arraySize' = IF nextIndex = arraySize THEN 2 * arraySize ELSE arraySize
  /\ contents' = contents \union {<<k, v>>}
  /\ current' = nextIndex
  /\ call' = "add"
  /\ UNCHANGED nextIndex

\* Mutation: the entry is compared with the one before it instead of its parent.
RisesByOne == KeyOf(current) < KeyOf(current - 1) /\ current > 1

\* Mutation: an entry rises past a parent with the same key.
RisesPastEqual == KeyOf(current) <= KeyOf(current \div 2)

\* The condition of the loop of add().
Rises == KeyOf(current) < KeyOf(current \div 2)

Rise == /\ call = "add"
        /\ Rises
        /\ array' = Exchanged(current, current \div 2)
        /\ current' = current \div 2
        /\ UNCHANGED <<arraySize, nextIndex, call, contents>>

Risen == /\ call = "add"
         /\ ~Rises
         /\ nextIndex' = nextIndex + 1
         /\ call' = "none"
         /\ UNCHANGED <<array, arraySize, current, contents>>

\* pop() up to its loop; the callers have asked isEmpty() before.
StartPop == /\ call = "none"
            /\ nextIndex > 1
            /\ array' = [array EXCEPT ![1] = array[nextIndex - 1]]
            /\ nextIndex' = nextIndex - 1
            /\ contents' = contents \ {array[1]}
            /\ current' = 1
            /\ call' = "pop"
            /\ UNCHANGED arraySize

\* Mutation: always the left child.
LeftChild == 2 * current

\* The child of current that the loop of pop() compares it with.
SmallerChild ==
  IF 2 * current + 1 < nextIndex /\ KeyOf(2 * current + 1) < KeyOf(2 * current)
  THEN 2 * current + 1 ELSE 2 * current

Sinks == /\ 2 * current < nextIndex
         /\ KeyOf(SmallerChild) < KeyOf(current)

Sink == /\ call = "pop"
        /\ Sinks
        /\ array' = Exchanged(current, SmallerChild)
        /\ current' = SmallerChild
        /\ UNCHANGED <<arraySize, nextIndex, call, contents>>

Sunk == /\ call = "pop"
        /\ ~Sinks
        /\ call' = "none"
        /\ UNCHANGED <<array, arraySize, nextIndex, current, contents>>

Clear == /\ call = "none"
         /\ nextIndex' = 1
         /\ contents' = {}
         /\ UNCHANGED <<array, arraySize, current, call>>

Add == \E k \in Key, v \in Val : StartAdd(k, v)

HeapNext == \/ Add \/ Rise \/ Risen
            \/ StartPop \/ Sink \/ Sunk
            \/ Clear

HeapSpec == HeapInit /\ [][HeapNext]_heapVars /\ WF_heapVars(Rise \/ Risen \/ Sink \/ Sunk)
-----------------------------------------------------------------------------
\* Types, and: every slot in use, and the one add() writes, lies inside the array.
HeapTypeOK == /\ arraySize \in Nat \ {0}
              /\ array \in [0 .. arraySize - 1 -> Entry]
              /\ nextIndex \in 1 .. arraySize
              /\ call = "add" => nextIndex < arraySize
              /\ call \in {"none", "add", "pop"}
              /\ current \in Nat
              /\ call # "none" => current \in 1 .. nextIndex
              /\ contents \subseteq Key \X Val

\* No slot in use has a smaller key than its parent, except that the entry an
\* unfinished add() lifts may be smaller than its parent, and the one an unfinished
\* pop() lowers may be larger than its children; then the children of that slot are
\* ordered with its parent.  (The two loops together restore the order.)
HeapOrder ==
  /\ \A i \in Filled : (i > 1 /\ KeyOf(i) < KeyOf(i \div 2)) =>
                         \/ call = "add" /\ i = current
                         \/ call = "pop" /\ i \div 2 = current
  /\ (call # "none" /\ current > 1) =>
       \A i \in Filled : i \div 2 = current => KeyOf(current \div 2) <= KeyOf(i)

\* The slots in use hold every pair that was added and not popped, each once; none
\* is lost or doubled by the exchanges, the growing of the arrays or a pop.
HoldsContents ==
  /\ {array[i] : i \in Filled} = contents
  /\ \A i, j \in Filled : array[i] = array[j] => i = j

\* The sentinel stays where it is: add() never moves an entry into slot 0.
SentinelStays == array[0] = Sentinel

\* The heap implements the bag of pairs of MinBag: whatever was added and popped
\* before, and however often the arrays grew, pop() takes a pair with a smallest key.
Bag == INSTANCE MinBag
ImplementsMinBag == Bag!Spec

\* Every call comes to an end.
CallsReturn == (call # "none") ~> (call = "none")

HeapInv == HeapTypeOK /\ HeapOrder /\ HoldsContents /\ SentinelStays
==============================================================================
