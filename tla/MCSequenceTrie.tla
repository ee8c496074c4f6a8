--------------------------- MODULE MCSequenceTrie ---------------------------
(* Keys of a few lengths with at most one bit that is set, in blocks of a few bits. *)
EXTENDS SequenceTrie

CONSTANT Lengths    \* in bits

\* The key with this many bits of which this one, counted from 1, is set.
BlocksOf(length, one) ==
  LET blocks == (length + W - 1) \div W
  IN  [sequence |-> [i \in 1 .. blocks |-> {b \in Bit : (i - 1) * W + b + 1 = one}],
       paddingBits |-> blocks * W - length]

MCKeys == UNION {{BlocksOf(length, one) : one \in 0 .. length} : length \in Lengths}
=============================================================================
