--------------------------- MODULE MCVisitedParts ---------------------------
(***************************************************************************)
(* What the visited list rests on, one at a time: the flags that select    *)
(* its keys, the heap that brings the steps of a network into an order,    *)
(* and the trie that keeps the keys.  The heap has up to four entries, so  *)
(* that three levels are reached and the arrays grow from one slot to      *)
(* eight, with keys that repeat and one equal to the sentinel's.           *)
(***************************************************************************)
EXTENDS MCOrderingModes, IntPairHeap, MCSequenceTrie

CONSTANTS v1, v2, v3, v4

MCVal == {v1, v2, v3, v4}
MCKey == {-1, 0, 1}
MCJunk == {<<-1, -1>>}
MCIntMin == -1

VARIABLE used    \* the part that is at work

\* The problem that is not read while another part is at work.
NotRead == method = CHOOSE m \in Methods : TRUE

PartsInit == /\ ModesInit /\ HeapInit /\ TrieInit
             /\ \/ used = "flags"
                \/ used \in {"heap", "trie"} /\ NotRead

UsesFlags == /\ used = "flags" /\ ModesNext
             /\ UNCHANGED <<heapVars, trieVars>>

\* The search may end at any time; the other two parts are always ready for another call.
SearchEnds == used = "flags" /\ UNCHANGED <<vars, net, heapVars, trieVars>>

UsesHeap == /\ used = "heap" /\ HeapNext
            /\ UNCHANGED <<vars, net, trieVars>>

UsesTrie == /\ used = "trie" /\ TrieNext
            /\ UNCHANGED <<vars, net, heapVars>>

PartsNext == (UsesFlags \/ SearchEnds \/ UsesHeap \/ UsesTrie) /\ UNCHANGED used

PartsSpec == /\ PartsInit /\ [][PartsNext]_<<vars, net, heapVars, trieVars, used>>
             /\ WF_heapVars(Rise \/ Risen \/ Sink \/ Sunk)
=============================================================================
