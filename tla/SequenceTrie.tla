---------------------------- MODULE SequenceTrie ----------------------------
(***************************************************************************)
(* compressed_sequence_trie: the trie that keeps the visited list's keys,  *)
(* which are bit strings in blocks of W bits (64 in the code).  A key is a *)
(* sequence of blocks, each the set of its bits that are one, and the      *)
(* number of padding bits at the end of the last block, which are zero.    *)
(*                                                                         *)
(* A node holds the bits from bit ignoreBitsFirst of block myFirstBlock up *)
(* to the end of its last block without the last ignoreBitsLast bits; its  *)
(* children go on from there.  insert() calls itself on a child at most as *)
(* its last act, so that each call is one step here.                       *)
(*                                                                         *)
(* A shift by W bits is undefined; the machine shifts by W % W bits.       *)
(***************************************************************************)
EXTENDS Integers, Sequences, FiniteSets

CONSTANTS W,
          Keys,       \* the keys that may be inserted: [sequence, paddingBits]
          Payload,    \* what the visited list may write, not 0
          MaxKeys     \* bound on the keys in the trie

Bit == 0 .. W - 1

ASSUME TrieAssumption ==
  /\ W \in Nat \ {0, 1} /\ Payload \subseteq Nat \ {0} /\ MaxKeys \in Nat
  /\ Keys \subseteq [sequence : Seq(SUBSET Bit) \ {<<>>}, paddingBits : Bit]
  /\ \A k \in Keys : k.sequence[Len(k.sequence)] \subseteq 0 .. W - 1 - k.paddingBits

Nil == 0
NoKey == <<>>

VARIABLES node,      \* the nodes: a function from their addresses; the root is at 1
          key,       \* the key being inserted, or NoKey
          at,        \* the node that insert() is called on, or Nil
          p,         \* the node whose payload has been found, or Nil
          written    \* history: what was written under each key

trieVars == <<node, key, at, p, written>>

Shift(bits) == bits % W

bitmask_ignore_first(bits) == Shift(bits) .. W - 1
bitmask_ignore_last(bits) == IF bits = 0 THEN Bit ELSE 0 .. Shift(W - bits) - 1

FirstMasked(value, mask) == [value EXCEPT ![1] = @ \intersect mask]
LastMasked(value, mask) == IF value = <<>> THEN <<>> ELSE [value EXCEPT ![Len(value)] = @ \intersect mask]

sequence == key.sequence
paddingBits == key.paddingBits

Fresh == Cardinality(DOMAIN node) + 1

With(f, a, n) == [b \in DOMAIN f \union {a} |-> IF b = a THEN n ELSE f[b]]

\* The constructors: the key from a block (the first is 0) and a bit in it on.
NewNode(block, bit) ==
  [value |-> FirstMasked(SubSeq(sequence, block + 1, Len(sequence)), bitmask_ignore_first(bit)),
   myFirstBlock |-> block, ignoreBitsFirst |-> bit, ignoreBitsLast |-> paddingBits,
   zero |-> Nil, one |-> Nil, payload |-> 0]
-----------------------------------------------------------------------------
\* Mutation: the child is put on the side of the bit before.
SideOfBitBefore(value, bit) == IF bit > 0 /\ bit - 1 \in value[1] THEN "one" ELSE "zero"

\* The side of a child that begins at this bit of its first block.
SideOf(value, bit) == IF Shift(bit) \in value[1] THEN "one" ELSE "zero"

\* Mutation: the payload stays with the upper part.
PayloadStays(n) == <<n.payload, 0>>

\* The payloads of the upper and the lower part of a node that is split.
PayloadGoesDown(n) == <<0, n.payload>>

\* split_me_at: the node at a keeps the bits before this one of its block (the first is
\* 0); the others become its only child, at address c.
SplitAt(a, block, bit, c) ==
  LET n == node[a]
      blocks == IF bit # 0 THEN block + 1 ELSE block
      ignoreLast == IF bit = 0 THEN 0 ELSE W - bit
      lower == FirstMasked(SubSeq(n.value, block + 1, Len(n.value)), bitmask_ignore_first(bit))
      child == [n EXCEPT !.value = lower, !.myFirstBlock = @ + block, !.ignoreBitsFirst = bit,
                         !.payload = PayloadGoesDown(n)[2]]
      side == SideOf(lower, bit)
      rest == [n EXCEPT !.value = LastMasked(SubSeq(@, 1, blocks), bitmask_ignore_last(ignoreLast)),
                        !.ignoreBitsLast = ignoreLast, !.payload = PayloadGoesDown(n)[1],
                        !.zero = IF side = "zero" THEN c ELSE Nil,
                        !.one = IF side = "one" THEN c ELSE Nil]
  IN  With(With(node, a, rest), c, child)
-----------------------------------------------------------------------------
TrieInit == /\ node = <<>>
            /\ key = NoKey
            /\ at = Nil
            /\ p = Nil
            /\ written = <<>>

\* VisitedList: the first key of a hash bucket makes the root, others are inserted there.
Access ==
  /\ at = Nil /\ p = Nil
  /\ \E k \in Keys :
       /\ k \in DOMAIN written \/ Cardinality(DOMAIN written) < MaxKeys
       /\ key' = k
  /\ IF node = <<>>
     THEN node' = [a \in {1} |-> NewNode(0, 0)'] /\ p' = 1 /\ UNCHANGED at
     ELSE at' = 1 /\ UNCHANGED <<node, p>>
  /\ UNCHANGED written

\* The block of the key that block i of the node (the first is 1) is compared with.
InputTest(n, i) ==
  sequence[n.myFirstBlock + i]
    \intersect (IF i = 1 THEN bitmask_ignore_first(n.ignoreBitsFirst) ELSE Bit)
    \intersect (IF i = Len(n.value) THEN bitmask_ignore_last(n.ignoreBitsLast) ELSE Bit)

ValueTest(n, i) ==
  n.value[i] \intersect (IF n.myFirstBlock + i = Len(sequence)
                         THEN bitmask_ignore_last(paddingBits) ELSE Bit)

Differences(n) == {i \in 1 .. Len(n.value) : /\ n.myFirstBlock + i <= Len(sequence)
                                             /\ InputTest(n, i) # ValueTest(n, i)}

AtEqualNode == at # Nil /\ Differences(node[at]) = {}

\* Where the node ends: how many blocks it and those above it span.
End(n) == n.myFirstBlock + Len(n.value)

Done(entry) == p' = entry /\ at' = Nil /\ UNCHANGED <<key, written>>

\* The key ends with the node.
Found == /\ AtEqualNode
         /\ End(node[at]) = Len(sequence) /\ node[at].ignoreBitsLast = paddingBits
         /\ Done(at) /\ UNCHANGED node

\* The key ends within the node, in its last block or earlier: the node is split.
EndsWithin == /\ AtEqualNode
              /\ \/ End(node[at]) = Len(sequence) /\ node[at].ignoreBitsLast < paddingBits
                 \/ End(node[at]) > Len(sequence)
              /\ node' = SplitAt(at, Len(sequence) - node[at].myFirstBlock - 1,
                                 W - paddingBits, Fresh)
              /\ Done(at)

EndsBeyond == /\ AtEqualNode
              /\ \/ End(node[at]) = Len(sequence) /\ node[at].ignoreBitsLast > paddingBits
                 \/ End(node[at]) < Len(sequence)

\* The place of the bit that follows the node: its block (the first is 0) and the bit.
NextBit(n) == IF n.ignoreBitsLast = 0 THEN 0 ELSE W - n.ignoreBitsLast
NextBlock(n) == End(n) - (IF NextBit(n) = 0 THEN 0 ELSE 1)

NextSide(n) == IF NextBit(n) \in sequence[NextBlock(n) + 1] THEN "one" ELSE "zero"

\* insert() on the child.
Descend == /\ EndsBeyond
           /\ node[at][NextSide(node[at])] # Nil
           /\ at' = node[at][NextSide(node[at])]
           /\ UNCHANGED <<node, key, p, written>>

AddChild == /\ EndsBeyond
            /\ node[at][NextSide(node[at])] = Nil
            /\ node' = With([node EXCEPT ![at][NextSide(node[at])] = Fresh],
                            Fresh, NewNode(NextBlock(node[at]), NextBit(node[at])))
            /\ Done(Fresh)

Least(S) == CHOOSE x \in S : \A y \in S : x <= y

\* The bits in which two blocks differ.
Differing(A, B) == (A \ B) \union (B \ A)

\* The key differs from the node: the node is split there and gets a second child.
Branch ==
  /\ at # Nil /\ Differences(node[at]) # {}
  /\ LET n == node[at]
         i == Least(Differences(n))
         input == sequence[n.myFirstBlock + i]
                    \intersect (IF i = 1 THEN bitmask_ignore_first(n.ignoreBitsFirst) ELSE Bit)
         splitBit == Least(Differing(input, n.value[i]))
         side == IF splitBit \in sequence[n.myFirstBlock + i] THEN "one" ELSE "zero"
         split == SplitAt(at, i - 1, splitBit, Fresh)
     IN  node' = With([split EXCEPT ![at][side] = Fresh + 1],
                      Fresh + 1, NewNode(n.myFirstBlock + i - 1, splitBit))
  /\ Done(Fresh + 1)

\* insertVisi writes what it has to remember of the node under its key.
Remember == /\ p # Nil
            /\ \E v \in Payload :
                 /\ node' = [node EXCEPT ![p].payload = v]
                 /\ written' = With(written, key, v)
            /\ p' = Nil /\ key' = NoKey
            /\ UNCHANGED at

TrieNext == Access \/ Found \/ EndsWithin \/ Descend \/ AddChild \/ Branch \/ Remember

TrieSpec == TrieInit /\ [][TrieNext]_trieVars
-----------------------------------------------------------------------------
\* The payload found for a key is the one last written under it, and empty for a key that
\* was never inserted, whatever was inserted in between.
ReturnsWritten ==
  p # Nil => node[p].payload = IF key \in DOMAIN written THEN written[key] ELSE 0

\* A node's bits are within its first and its last bit.
Masked(n) == n.value # <<>> =>
  /\ n.value[1] \subseteq bitmask_ignore_first(n.ignoreBitsFirst)
  /\ n.value[Len(n.value)] \subseteq bitmask_ignore_last(n.ignoreBitsLast)

Length(n) == W * Len(n.value) - n.ignoreBitsFirst - n.ignoreBitsLast

\* A child begins where its parent ends, on the side of its first bit, and only the root
\* may be empty.  A node without children or with one holds a key.
WellFormed ==
  \A a \in DOMAIN node :
    LET n == node[a]
    IN  /\ Masked(n) /\ (a # 1 => Length(n) > 0)
        /\ \A side \in {"zero", "one"} : n[side] # Nil =>
             LET c == node[n[side]]
             IN  /\ c.myFirstBlock = NextBlock(n) /\ c.ignoreBitsFirst = NextBit(n)
                 /\ side = SideOf(c.value, c.ignoreBitsFirst)
        /\ (n.zero = Nil \/ n.one = Nil) => n.payload # 0 \/ p = a

\* The bits of a key or of a node, in order.
BitsOf(value, ignoreFirst, ignoreLast) ==
  [j \in 1 .. W * Len(value) - ignoreFirst - ignoreLast |->
     LET i == j - 1 + ignoreFirst IN i % W \in value[i \div W + 1]]

\* The keys as bit strings.
BitKeys == {BitsOf(k.sequence, 0, k.paddingBits) : k \in Keys}

\* The payloads at and so many levels below a node, each under the bits from its own first one on.
Stored ==
  LET within[levels \in Nat] ==
        LET deeper == within[levels - 1]
            Below(n) == UNION {deeper[c] : c \in {n.zero, n.one} \ {Nil}}
        IN  [a \in DOMAIN node |->
               LET n == node[a]
                   bits == BitsOf(n.value, n.ignoreBitsFirst, n.ignoreBitsLast)
               IN  (IF n.payload = 0 THEN {} ELSE {<<bits, n.payload>>})
                     \union (IF levels = 0 THEN {} ELSE {<<bits \o e[1], e[2]>> : e \in Below(n)})]
  IN  IF node = <<>> THEN {} ELSE within[Cardinality(DOMAIN node)][1]

StoredMap == [bits \in {e[1] : e \in Stored} |-> (CHOOSE e \in Stored : e[1] = bits)[2]]

Map == INSTANCE KeyMap WITH Key <- BitKeys, map <- StoredMap

\* The trie is a map from bit strings to payloads: splitting nodes changes nothing.
ImplementsMap == Map!Spec
=============================================================================
