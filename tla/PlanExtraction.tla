--------------------------- MODULE PlanExtraction ---------------------------
(***************************************************************************)
(* planToHddl: from the names of the operators in a classical plan to the  *)
(* decomposition that is printed.  A first pass follows the points in      *)
(* which the subtasks of every method lie; a second one looks up, for      *)
(* every subtask, the next line with its task in its last point.           *)
(***************************************************************************)
EXTENDS TranslatedModel

Names(plan) == [i \in DOMAIN plan |-> plan[i].name]

ActionsIn(name) == CASE name.kind = "primitive" -> <<name.id>>
                     [] name.kind = "method" -> name.firstPrim
                     [] OTHER -> <<>>

\* The actions, numbered from 0; methods are numbered after them.
Primitives(names) == FoldLeft(LAMBDA list, name : list \o ActionsIn(name), <<>>, names)
primNumMax(names) == Len(Primitives(names))

MethodLines(names) == {i \in DOMAIN names : names[i].kind = "method"}

\* The number printed for a line; a method's own, not those of the actions merged into it.
Order(names, i) ==
  IF names[i].kind = "method"
    THEN primNumMax(names) + Cardinality({j \in MethodLines(names) : j < i})
    ELSE Len(Primitives(SubSeq(names, 1, i - 1)))

OpenPlace(entry, k, point) == ~entry.subHeadsFixed[k] /\ entry.subHeads[k] = point

\* The newest method with an open subtask in a point, and the first such subtask.
Found(methods, point) ==
  {j \in DOMAIN methods : \E k \in DOMAIN methods[j].subHeads : OpenPlace(methods[j], k, point)}

At(methods, point) ==
  LET j == Max(Found(methods, point))
  IN  [method |-> j,
       place |-> Min({k \in DOMAIN methods[j].subHeads : OpenPlace(methods[j], k, point)})]

\* The first pass.  It leaves the subtasks of a method where they were when the method's task
\* itself was decomposed: only an action closes the place it lay in.
FollowLine(methods, name) ==
  CASE name.kind = "method" ->
         Append(methods, [subHeads |-> name.subtasks,
                          subHeadsFixed |-> [k \in DOMAIN name.subtasks |-> FALSE]])
    [] name.kind = "primitive" /\ Found(methods, name.head) # {} ->
         LET at == At(methods, name.head)
         IN  [methods EXCEPT ![at.method].subHeadsFixed[at.place] = TRUE]
    [] name.kind = "move" /\ Found(methods, name.from) # {} ->
         LET at == At(methods, name.from)
         IN  [methods EXCEPT ![at.method].subHeads[at.place] = name.to]
    [] OTHER -> methods

Followed(names) == FoldLeft(FollowLine, <<>>, names)

TaskOf(name) == IF name.kind = "primitive" THEN name.id ELSE decomposedTask(name.id)

\* Mutation: the next line with the task is taken, in whatever point.
AnyHead(names, heads, o, j) ==
  LET lines == {k \in o + 1 .. Len(names) :
                  names[k].kind # "move" /\ TaskOf(names[k]) = subTasksInOrder[names[o].id][j]}
  IN  IF lines = {} THEN -1 ELSE Order(names, Min(lines))

\* The second pass: the number of the j-th of subTasksInOrder of the method in line o.
ChildNumber(names, heads, o, j) ==
  LET lines == {k \in o + 1 .. Len(names) :
                  /\ names[k].kind # "move"
                  /\ TaskOf(names[k]) = subTasksInOrder[names[o].id][j]
                  /\ names[k].head = heads[j]}
  IN  IF lines = {} THEN -1 ELSE Order(names, Min(lines))

\* What is printed for the methods, in the order of the plan: the number, the method, and
\* the numbers of its subtasks, first one first.
planToHddl(plan) ==
  LET names == Names(plan)
      followed == Followed(names)
      merged(o) == [i \in 1 .. Len(names[o].firstPrim) |->
                      Len(Primitives(SubSeq(names, 1, o - 1))) + i - 1]
      others(o, heads) == [i \in 1 .. numSubTasks(names[o].id) - Len(names[o].firstPrim) |->
                             ChildNumber(names, heads, o,
                                         numSubTasks(names[o].id) - Len(names[o].firstPrim) + 1 - i)]
      line(o) == [number |-> Order(names, o), method |-> names[o].id,
                  children |-> merged(o)
                    \o others(o, followed[Order(names, o) - primNumMax(names) + 1].subHeads)]
      lines == SetToSortSeq(MethodLines(names), LAMBDA a, b : a < b)
  IN  [primitives |-> Primitives(names), root |-> primNumMax(names),
       methods |-> [i \in DOMAIN lines |-> line(lines[i])]]
-----------------------------------------------------------------------------
\* Is what was printed a decomposition?  It is a tree; the children of a method are its
\* subtasks, and all actions below one of them come before those below a later one.
IsDecomposition(printed) ==
  LET n == Len(printed.primitives)
      total == n + Len(printed.methods)
      method(x) == printed.methods[x - n + 1]
      task(x) == IF x < n THEN printed.primitives[x + 1] ELSE decomposedTask(method(x).method)
      children(x) == IF x < n THEN {} ELSE ToSet(method(x).children)
      below[x \in 0 .. total - 1, d \in 0 .. total] ==
        IF d = 0 THEN {x} ELSE {x} \union UNION {below[y, d - 1] : y \in children(x)}
      actions(x) == {y \in below[x, total] : y < n}
  IN  /\ printed.root = n
      /\ \A i \in DOMAIN printed.methods :
           LET m == printed.methods[i]
           IN  /\ m.number = n + i - 1
               /\ ToSet(m.children) \subseteq 0 .. total - 1
      /\ \A x \in 0 .. total - 1 :
           Cardinality({p \in (1 .. Len(printed.methods)) \X (1 .. total) :
                          /\ p[2] \in DOMAIN printed.methods[p[1]].children
                          /\ printed.methods[p[1]].children[p[2]] = x})
             = IF x = printed.root THEN 0 ELSE 1
      /\ \A i \in DOMAIN printed.methods :
           LET m == printed.methods[i]
               places == 1 .. numSubTasks(m.method)
           IN  /\ Len(m.children) = numSubTasks(m.method)
               /\ \E place \in Permutations(places) :
                    /\ \A k \in places : task(m.children[place[k]]) = htn.methods[m.method].subTasks[k]
                    /\ \A p \in htn.methods[m.method].ordering :
                         \A a \in actions(m.children[place[p[1]]]), b \in actions(m.children[place[p[2]]]) :
                           a < b
=============================================================================
