--------------------------- MODULE FirstTasks_proofs ---------------------------
(***************************************************************************)
(* The walk for new first tasks is correct on every acyclic network: proof *)
(* of the invariants of FirstTasks and of its refinement of Linearization. *)
(***************************************************************************)
EXTENDS FirstTasks, TLAPS

-------------------------------------------------------------------------------
(* What the list operations do to the elements of a list.                  *)

\* The elements of a list are what it is a list of.
LEMMA ElemsType ==
  ASSUME NEW S, NEW q \in Seq(S)
  PROVE  Elems(q) \subseteq S
  BY DEF Elems

\* Taking the first entry off a list.
LEMMA ElemsSplit ==
  ASSUME NEW S, NEW q \in Seq(S), q # <<>>
  PROVE  /\ Head(q) \in S
         /\ Tail(q) \in Seq(S)
         /\ Elems(q) = {Head(q)} \union Elems(Tail(q))
<1>1. Len(q) \in Nat \ {0} /\ Head(q) = q[1] /\ Head(q) \in S /\ Tail(q) \in Seq(S)
  OBVIOUS
<1>2. Len(Tail(q)) = Len(q) - 1 /\ \A i \in 1 .. Len(q) - 1 : Tail(q)[i] = q[i + 1]
  OBVIOUS
<1>3. ASSUME NEW i \in 1 .. Len(q), i # 1
      PROVE  i - 1 \in 1 .. Len(Tail(q)) /\ Tail(q)[i - 1] = q[i]
  BY <1>1, <1>2, <1>3
<1>4. ASSUME NEW i \in 1 .. Len(Tail(q))
      PROVE  i + 1 \in 1 .. Len(q) /\ q[i + 1] = Tail(q)[i]
  BY <1>1, <1>2, <1>4
<1>5. Elems(q) \subseteq {Head(q)} \union Elems(Tail(q))
  BY <1>1, <1>3 DEF Elems
<1>6. Elems(Tail(q)) \subseteq Elems(q)
  BY <1>4 DEF Elems
<1>7. Head(q) \in Elems(q)
  BY <1>1 DEF Elems
<1> QED BY <1>1, <1>5, <1>6, <1>7

\* The elements of two lists one after the other.
LEMMA ElemsConcat ==
  ASSUME NEW S, NEW q \in Seq(S), NEW r \in Seq(S)
  PROVE  /\ q \o r \in Seq(S)
         /\ Elems(q \o r) = Elems(q) \union Elems(r)
<1> DEFINE n == Len(q)
<1>1. q \o r \in Seq(S) /\ Len(q \o r) = n + Len(r) /\ n \in Nat /\ Len(r) \in Nat
  OBVIOUS
<1>2. \A i \in 1 .. n : (q \o r)[i] = q[i]
  OBVIOUS
<1>3. \A i \in 1 .. Len(r) : (q \o r)[n + i] = r[i]
  OBVIOUS
<1>4. ASSUME NEW i \in 1 .. Len(q \o r)
      PROVE  (q \o r)[i] \in Elems(q) \union Elems(r)
  <2>1. CASE i <= n
    BY <1>1, <1>2, <1>4, <2>1 DEF Elems
  <2>2. CASE i > n
    <3>1. i - n \in 1 .. Len(r) /\ n + (i - n) = i
      BY <1>1, <1>4, <2>2
    <3> QED BY <1>3, <3>1 DEF Elems
  <2> QED BY <1>1, <1>4, <2>1, <2>2
<1>5. \A i \in 1 .. n : i \in 1 .. Len(q \o r)
  BY <1>1
<1>6. \A i \in 1 .. Len(r) : n + i \in 1 .. Len(q \o r)
  BY <1>1
<1>7. Elems(q) \subseteq Elems(q \o r)
  BY <1>2, <1>5 DEF Elems
<1>8. Elems(r) \subseteq Elems(q \o r)
  BY <1>3, <1>6 DEF Elems
<1>9. Elems(q \o r) \subseteq Elems(q) \union Elems(r)
  BY <1>4 DEF Elems
<1> QED BY <1>1, <1>7, <1>8, <1>9

\* Pushing entries to the front, as the loops of apply do, adds just these.
LEMMA PushFrontElems ==
  ASSUME NEW S, NEW q \in Seq(S), NEW list \in Seq(S)
  PROVE  /\ PushFront(q, list) \in Seq(S)
         /\ Elems(PushFront(q, list)) = Elems(q) \union Elems(list)
<1> DEFINE n == Len(q)
           rev == [i \in 1 .. n |-> q[n + 1 - i]]
<1>1. n \in Nat /\ \A i \in 1 .. n : n + 1 - i \in 1 .. n /\ q[i] \in S
  OBVIOUS
<1>2. rev \in Seq(S) /\ Len(rev) = n
  BY <1>1
<1> HIDE DEF rev
<1>3. \A i \in 1 .. n : rev[i] = q[n + 1 - i]
  BY DEF rev
<1>4. \A i \in 1 .. n : rev[n + 1 - i] = q[i]
  BY <1>1, <1>3
<1>5. Elems(rev) \subseteq Elems(q)
  BY <1>1, <1>2, <1>3 DEF Elems
<1>6. Elems(q) \subseteq Elems(rev)
  BY <1>1, <1>2, <1>4 DEF Elems
<1>7. PushFront(q, list) = rev \o list
  BY DEF PushFront, rev
<1> QED BY <1>2, <1>5, <1>6, <1>7, ElemsConcat

\* A list of one.
LEMMA ElemsSingleton ==
  ASSUME NEW S, NEW x \in S
  PROVE  <<x>> \in Seq(S) /\ Elems(<<x>>) = {x}
  BY DEF Elems

-------------------------------------------------------------------------------
(* The invariant.                                                          *)

IInv == TypeOK /\ WalkInvariant

\* What the step invariant says of the steps of the network.
LEMMA SuccInNet ==
  ASSUME TypeOK, NEW s \in Step
  PROVE  succ[s] \in Seq(Step) /\ Succ(s) \subseteq Step
  BY ElemsType DEF TypeOK, Succ

\* At the break, a candidate is left exactly if the progressed step was its only
\* predecessor.
LEMMA CandidatesAtBreak ==
  ASSUME IInv, progressed # NoStep, toScan = {}, pending = <<>>,
         potentiallyFirst = {} \/ potentialPredecessors = <<>>
  PROVE  potentiallyFirst = {s \in Succ(progressed) :
                               \A p \in net \ {progressed} : s \notin Succ(p)}
<1> DEFINE t == progressed
           rest == net \ {t}
           far == net \ ({t} \union Roots(t) \union done)
<1>1. /\ t \in unconstrained /\ unconstrained = Sources(succ, net)
      /\ potentiallyFirst = Succ(t) \ done
      /\ \A s \in done \union Listed : \E p \in rest : s \in Succ(p)
      /\ \A p \in Roots(t) \union done : Succ(p) \subseteq done \union Listed
      /\ Acyclic(succ)
  BY DEF IInv, WalkInvariant, Scanned
<1>2. \A s \in done : \E p \in rest : s \in Succ(p)
  BY <1>1
<1>3. ASSUME potentiallyFirst # {}
      PROVE  \A s \in Succ(t) \ done : \A p \in rest : s \notin Succ(p)
  <2>1. Listed = {}
    BY <1>3 DEF Listed, Elems
  <2>2. \A p \in Roots(t) \union done : Succ(p) \subseteq done
    BY <1>1, <2>1
  <2>3. ASSUME NEW u \in far PROVE \E q \in far : u \in Succ(q)
    <3>1. u \notin unconstrained
      BY <2>3 DEF Roots
    <3>2. PICK q \in net : u \in Succ(q)
      BY <1>1, <3>1 DEF Sources, Succ
    <3>3. q # t
      BY <2>3, <3>2 DEF Roots
    <3>4. q \notin Roots(t) \union done
      BY <2>2, <2>3, <3>2
    <3> QED BY <3>2, <3>3, <3>4
  <2>4. far = {}
    <3>1. far \in SUBSET Step
      BY DEF IInv, TypeOK
    <3>2. far # {} => Sources(succ, far) # {}
      BY <1>1, <3>1 DEF Acyclic
    <3> QED BY <2>3, <3>2 DEF Sources, Succ
  <2>5. rest \subseteq Roots(t) \union done
    BY <2>4
  <2> QED BY <2>2, <2>5
<1> QED BY <1>1, <1>2, <1>3

\* Before a walk nothing is listed, scanned or dropped.
THEOREM IInvInit == Init => IInv
<1> SUFFICES ASSUME Init PROVE IInv
  OBVIOUS
<1>1. succ \in [Step -> Seq(Step)] /\ Acyclic(succ)
  BY NetworksAssumption DEF Init
<1>2. TypeOK
  BY <1>1 DEF Init, TypeOK, Sources
<1>3. \A s \in net : Succ(s) \subseteq net
  BY <1>2, SuccInNet DEF Init
<1> QED BY <1>1, <1>2, <1>3 DEF Init, IInv, WalkInvariant

\* A step is progressed: the walk starts from the steps that were first with it.
LEMMA ProgressInv ==
  ASSUME IInv, NEW t \in Step, Progress(t)
  PROVE  IInv'
<1> USE DEF IInv
<1>1. t \in net /\ t # NoStep /\ \A s \in net : t \notin Succ(s)
  BY NetworksAssumption DEF Progress, WalkInvariant, TypeOK, Sources, Succ
<1>2. TypeOK'
  BY SuccInNet DEF Progress, TypeOK, Roots
<1>3. done' = {} /\ Listed' = {}
  BY DEF Progress, WalkInvariant, Listed, Elems
<1>4. Scanned' = {}
  BY DEF Progress, Scanned, Roots, Succ
<1> QED BY <1>1, <1>2, <1>3, <1>4 DEF Progress, WalkInvariant, Roots, Succ

\* A successor of the progressed step is a candidate unless a first step comes before it.
LEMMA ScanInv ==
  ASSUME IInv, NEW s \in Step, Scan(s)
  PROVE  IInv'
<1> USE DEF IInv
<1>1. succ[s] \in Seq(Step) /\ potentialPredecessors \in Seq(Step)
  BY SuccInNet DEF TypeOK
<1>2. /\ potentialPredecessors' \in Seq(Step)
      /\ Elems(potentialPredecessors') = Succ(s) \union Elems(potentialPredecessors)
  BY <1>1, PushFrontElems DEF Scan, Succ
<1>3. TypeOK'
  BY <1>2 DEF Scan, TypeOK
<1>4. progressed # NoStep
  BY DEF Scan, WalkInvariant
<1>5. s \in net \ {progressed}
  <2>1. Succ(progressed) \subseteq net \ {progressed}
    BY <1>4 DEF WalkInvariant, TypeOK, Sources, Succ
  <2> QED BY <1>4, <2>1 DEF Scan, WalkInvariant, TypeOK, Roots
<1>6. Listed' = Succ(s) \union Listed
  BY <1>2 DEF Scan, Listed
<1>7. Scanned' \subseteq Scanned \union {s}
  BY DEF Scan, Scanned, Roots, Succ
<1>8. \A p : Succ(p)' = Succ(p)
  BY DEF Scan, Succ
<1>9. (\A p \in Scanned : Succ(p) \subseteq done \union Listed)'
  BY <1>4, <1>6, <1>7, <1>8 DEF Scan, WalkInvariant
<1> QED BY <1>3, <1>4, <1>5, <1>6, <1>8, <1>9 DEF Scan, WalkInvariant, Roots

\* A candidate is taken from the list; its successors are looked at next.
LEMMA TakeInv ==
  ASSUME IInv, Take
  PROVE  IInv'
<1> USE DEF IInv
<1> DEFINE ps2 == Head(potentialPredecessors)
<1>1. /\ ps2 \in Step
      /\ potentialPredecessors' \in Seq(Step)
      /\ Elems(potentialPredecessors) = {ps2} \union Elems(potentialPredecessors')
  BY ElemsSplit DEF Take, Popped, TypeOK
<1>2. pending' = succ[ps2] /\ pending' \in Seq(Step) /\ Elems(pending') = Succ(ps2)
  BY <1>1, SuccInNet DEF Take, Succ
<1>3. TypeOK'
  BY <1>1, <1>2 DEF Take, TypeOK
<1>4. Listed = {ps2} \union Elems(potentialPredecessors')
  <2>1. Elems(pending) = {}
    BY DEF Take, Elems
  <2> QED BY <1>1, <2>1 DEF Listed
<1>5. Listed' = Elems(potentialPredecessors') \union Succ(ps2)
  BY <1>2 DEF Listed
<1>6. done' = done \union {ps2}
  BY DEF Take
<1>7. PICK p \in net \ {progressed} : ps2 \in Succ(p)
  BY <1>4 DEF Take, WalkInvariant
<1>8. ps2 \in net \ {progressed}
  BY <1>7 DEF Take, WalkInvariant, Sources, Succ
<1>9. \A q : Succ(q)' = Succ(q)
  BY DEF Take, Succ
<1>10. Scanned' = Scanned
  BY <1>9 DEF Take, Scanned, Roots
<1>11. done \union Listed \subseteq (done \union Listed)'
  BY <1>4, <1>5, <1>6
<1>12. (\A s \in done \union Listed : \E q \in net \ {progressed} : s \in Succ(q))'
  BY <1>4, <1>5, <1>6, <1>8, <1>9 DEF Take, WalkInvariant
<1>13. (\A q \in Scanned : Succ(q) \subseteq done \union Listed)'
  BY <1>9, <1>10, <1>11 DEF Take, WalkInvariant
<1>14. (\A q \in done : Succ(q) \subseteq done \union Listed)'
  BY <1>5, <1>6, <1>9, <1>11 DEF Take, WalkInvariant
<1>15. (potentiallyFirst = Succ(progressed) \ done)'
  BY <1>9 DEF Take, WalkInvariant
<1> QED BY <1>3, <1>9, <1>12, <1>13, <1>14, <1>15 DEF Take, WalkInvariant, Roots

\* The successors that were not met are listed, and candidates among them are dropped.
LEMMA PushInv ==
  ASSUME IInv, Push
  PROVE  IInv'
<1> USE DEF IInv
<1> DEFINE ps == Head(pending)
<1>1. /\ ps \in Step
      /\ pending' \in Seq(Step)
      /\ Elems(pending) = {ps} \union Elems(pending')
  BY ElemsSplit DEF Push, TypeOK
<1>2. /\ potentialPredecessors' \in Seq(Step)
      /\ \/ /\ ps \in done
            /\ Elems(potentialPredecessors') = Elems(potentialPredecessors)
         \/ Elems(potentialPredecessors') = {ps} \union Elems(potentialPredecessors)
  <2>1. CASE ps \in done
    BY <2>1 DEF Push, TypeOK
  <2>2. CASE ps \notin done
    <3>1. potentialPredecessors' = <<ps>> \o potentialPredecessors
      BY <2>2 DEF Push
    <3>2. <<ps>> \in Seq(Step) /\ Elems(<<ps>>) = {ps}
      BY <1>1, ElemsSingleton
    <3>3. potentialPredecessors \in Seq(Step)
      BY DEF TypeOK
    <3> DEFINE one == <<ps>>
    <3> HIDE DEF one
    <3>4. /\ one \o potentialPredecessors \in Seq(Step)
          /\ Elems(one \o potentialPredecessors) = Elems(one) \union Elems(potentialPredecessors)
      <4>1. one \in Seq(Step)
        BY <3>2 DEF one
      <4> QED BY <4>1, <3>3, ElemsConcat
    <3> QED BY <3>1, <3>2, <3>4 DEF one
  <2> QED BY <2>1, <2>2
<1>3. TypeOK'
  BY <1>1, <1>2 DEF Push, TypeOK
<1>4. (done \union Listed)' = done \union Listed
  BY <1>1, <1>2 DEF Push, Listed
<1>5. progressed # NoStep
  BY DEF Push, WalkInvariant
<1>6. \A q : Succ(q)' = Succ(q)
  BY DEF Push, Succ
<1>7. Scanned' = Scanned
  BY <1>6 DEF Push, Scanned, Roots
<1> QED BY <1>3, <1>4, <1>5, <1>6, <1>7 DEF Push, WalkInvariant, Roots

\* The candidates that are left at the break are the new first steps.
LEMMA FinishInv ==
  ASSUME IInv, Finish
  PROVE  IInv'
<1> USE DEF IInv
<1> DEFINE t == progressed
<1>1. /\ t \in net /\ unconstrained = Sources(succ, net)
      /\ \A s \in net : Succ(s) \subseteq net \ {t}
  BY DEF Finish, WalkInvariant, TypeOK, Sources, Succ
<1>2. potentiallyFirst = {s \in Succ(t) : \A p \in net \ {t} : s \notin Succ(p)}
  BY CandidatesAtBreak DEF Finish
<1>3. potentiallyFirst \subseteq net \ {t}
  BY <1>1, <1>2
<1>4. TypeOK'
  BY <1>3 DEF Finish, TypeOK, Result
<1>5. unconstrained' = Sources(succ, net \ {t})
  <2>1. ASSUME NEW s \in net \ {t}
        PROVE  s \in Sources(succ, net \ {t}) <=>
                 s \in unconstrained \/ s \in potentiallyFirst
    BY <1>1, <1>2 DEF Sources, Succ
  <2>2. Sources(succ, net \ {t}) \subseteq net \ {t}
    BY DEF Sources
  <2>3. unconstrained \subseteq net
    BY DEF TypeOK
  <2> QED BY <1>3, <2>1, <2>2, <2>3 DEF Finish, Result
<1>6. (\A s \in net : Succ(s) \subseteq net)'
  BY <1>1 DEF Finish, Succ
<1> QED BY <1>4, <1>5, <1>6 DEF Finish, WalkInvariant

\* Every step of the walk leaves the invariant.
THEOREM IInvStep == IInv /\ [Next]_vars => IInv'
<1> SUFFICES ASSUME IInv, [Next]_vars PROVE IInv'
  OBVIOUS
<1>1. CASE \E t \in Step : Progress(t)
  BY <1>1, ProgressInv
<1>2. CASE \E s \in Step : Scan(s)
  BY <1>2, ScanInv
<1>3. CASE Take
  BY <1>3, TakeInv
<1>4. CASE Push
  BY <1>4, PushInv
<1>5. CASE Finish
  BY <1>5, FinishInv
<1>6. CASE Complete \/ UNCHANGED vars
  BY <1>6 DEF Complete, vars, IInv, TypeOK, WalkInvariant, Scanned, Roots, Listed, Succ
<1> QED BY <1>1, <1>2, <1>3, <1>4, <1>5, <1>6 DEF Next

-------------------------------------------------------------------------------
(* The theorems.                                                           *)

\* The inductive invariant holds of every run of apply() on every acyclic network.
THEOREM WalkCorrect == Spec => []IInv
  BY IInvInit, IInvStep, PTL DEF Spec

\* The work sets and the stored steps keep their types.
THEOREM TypeCorrect == Spec => []TypeOK
<1>1. IInv => TypeOK
  BY DEF IInv
<1> QED BY <1>1, WalkCorrect, PTL

\* After every progression the stored steps are the first tasks of what is left.
THEOREM UnconstrainedCorrect == Spec => []UnconstrainedAreSources
<1>1. IInv => UnconstrainedAreSources
  BY DEF IInv, WalkInvariant, UnconstrainedAreSources
<1> QED BY <1>1, WalkCorrect, PTL

\* A candidate is dropped only because of a predecessor that stays.
THEOREM DroppedCorrect == Spec => []DroppedHavePredecessor
<1>1. IInv => DroppedHavePredecessor
  BY DEF IInv, WalkInvariant, DroppedHavePredecessor
<1> QED BY <1>1, WalkCorrect, PTL

\* Progression leaves the network in an order that respects its precedences.
THEOREM Refinement == Spec => ImplementsLinearization
<1> USE DEF ImplementsLinearization, Linear!Elems, Linear!Sources, Elems, Sources
<1>1. Init => Linear!Init
  BY DEF Init, Linear!Init
<1>2. IInv /\ [Next]_vars => [Linear!Next]_Linear!vars
  <2> SUFFICES ASSUME IInv, [Next]_vars PROVE [Linear!Next]_Linear!vars
    OBVIOUS
  <2>1. CASE Finish
    <3>1. progressed \in Step /\ progressed \in Linear!Sources(succ, net)
      BY <2>1 DEF Finish, IInv, WalkInvariant, TypeOK
    <3>2. Linear!Execute(progressed)
      BY <2>1, <3>1 DEF Finish, Linear!Execute
    <3> QED BY <3>1, <3>2 DEF Linear!Next
  <2>2. CASE ~ Finish
    BY <2>2 DEF Next, Progress, Scan, Take, Push, Complete, vars, Linear!vars
  <2> QED BY <2>1, <2>2
<1> QED BY <1>1, <1>2, WalkCorrect, PTL DEF Spec, Linear!Spec
===============================================================================
