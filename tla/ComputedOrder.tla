--------------------------- MODULE ComputedOrder ---------------------------
(***************************************************************************)
(* The two depth-first searches over the computed sensors: validate        *)
(* refuses a list with a cycle, ComputedEngine::build sorts a valid list   *)
(* so that one round of evaluation in that order is enough.                *)
(*                                                                         *)
(* NeverClosed and Preorder are faulty variants of the definitions below   *)
(* them, used by nothing: they show which property notices the fault.      *)
(***************************************************************************)
EXTENDS Dependencies, SequencesExt

Named(computed, id) ==
  computed[CHOOSE j \in DOMAIN computed : computed[j].sensor = id]

\* One visit after the other, of the computed sensors among some.  The visits
\* are functions from the state before to the state after.
VisitEach(computed, visits, st, sensors) ==
  FoldLeft(LAMBDA s, i : IF i \in Ids(computed) THEN visits[i][s] ELSE s,
           st, sensors)

Listed(computed) == [j \in DOMAIN computed |-> computed[j].sensor]

-----------------------------------------------------------------------------
(* Cycle check: a sensor is new, open while its inputs are visited, then   *)
(* closed.                                                                 *)

\* A search that forgets to close the sensors it has left.
NeverClosed(st, id) == st

Closed(st, id) == [st EXCEPT !.mark[id] = "closed"]

CheckStates(computed) ==
  [cycle : BOOLEAN, mark : [Ids(computed) -> {"new", "open", "closed"}]]

CheckOne(computed, checks, st, id) ==
  IF st.cycle \/ st.mark[id] = "closed" THEN st
  ELSE IF st.mark[id] = "open" THEN [st EXCEPT !.cycle = TRUE]
  ELSE LET below == VisitEach(computed, checks, [st EXCEPT !.mark[id] = "open"],
                              Named(computed, id).inputs)
       IN  IF below.cycle THEN below ELSE Closed(below, id)

\* The visits that may have n others open above them.  Each of those has another
\* sensor, so with one more than there are sensors none is cut off.
Check(computed) ==
  LET check[n \in Nat] ==
        [id \in Ids(computed) |-> [st \in CheckStates(computed) |->
           IF n = 0 THEN st ELSE CheckOne(computed, check[n - 1], st, id)]]
  IN  check[Len(computed) + 1]

\* validate accepts the list.
NoCycle(computed) ==
  ~ VisitEach(computed, Check(computed),
              [cycle |-> FALSE, mark |-> [id \in Ids(computed) |-> "new"]],
              Listed(computed)).cycle

-----------------------------------------------------------------------------
(* Order of evaluation: a sensor is appended after its inputs.             *)

\* A sensor is appended when it is first met.
Preorder(st, id, below) ==
  [below EXCEPT !.order = SubSeq(@, 1, Len(st.order)) \o <<id>>
                          \o SubSeq(@, Len(st.order) + 1, Len(@))]

Place(st, id, below) == [below EXCEPT !.order = Append(@, id)]

SortStates(computed) ==
  [visited : SUBSET Ids(computed), order : Seq(Ids(computed))]

VisitOne(computed, visits, st, id) ==
  IF id \in st.visited THEN st
  ELSE Place(st, id, VisitEach(computed, visits,
                               [st EXCEPT !.visited = @ \cup {id}],
                               Named(computed, id).inputs))

\* The visits with up to n levels; again none is cut off.
Visit(computed) ==
  LET visit[n \in Nat] ==
        [id \in Ids(computed) |-> [st \in SortStates(computed) |->
           IF n = 0 THEN st ELSE VisitOne(computed, visit[n - 1], st, id)]]
  IN  visit[Len(computed)]

\* The sensors of a valid list, sorted for evaluation.
BuildOrder(computed) ==
  LET sorted == VisitEach(computed, Visit(computed),
                          [visited |-> {}, order |-> <<>>],
                          Listed(computed)).order
  IN  [j \in DOMAIN sorted |-> Named(computed, sorted[j])]
=============================================================================
