----------------------------- MODULE PlanGraph ------------------------------
(***************************************************************************)
(* validatePlan (internal/cli/cli.go) on the workcells of a plan: the map  *)
(* from workcell IDs to dependencies, the check that every dependency      *)
(* exists, and the depth-first search for a cycle with its visited set and *)
(* its recursion stack.  forge plan, gate, run and once all call it.       *)
(*                                                                         *)
(* Nothing makes the workcells' IDs differ: the map keeps the last of two  *)
(* workcells with one ID, as the scheduler does.                           *)
(*                                                                         *)
(* What else validatePlan asks of a plan (its schema and objective, each   *)
(* workcell's kind and status before the graph; the evidence and the next  *)
(* actions after it) is left out: such a check may refuse any plan.        *)
(***************************************************************************)
EXTENDS Integers, Sequences

CONSTANTS
  Names,      \* the workcell IDs plans mention
  CellLists   \* the lists of workcells plans can hold

Cell == [id : Names, deps : Seq(Names)]

ASSUME GraphAssumption == CellLists \subseteq Seq(Cell)

VARIABLES
  at,         \* where validatePlan stands
  cells,      \* the workcells of the plan it was given
  next,       \* the workcell its current loop is at
  cellMap,    \* each ID's dependencies
  visited,    \* the IDs the search is done with
  stack       \* the calls of dfs in progress, the outermost first

graphVars == <<at, cells, next, cellMap, visited, stack>>

(* What is said of the graph; a malformed plan is refused for the rest.    *)
Verdicts == {"accepted", "unknown", "cyclic"}
Refusals == {"unknown", "cyclic", "malformed"}
Stages == {"idle", "map", "check", "search"} \cup Verdicts \cup Refusals

(* A call of dfs and the dependency it comes to next: recStack is the set  *)
(* of the nodes on the stack.                                              *)
Frame == [node : Names, dep : Nat \ {0}]

Call(n) == [node |-> n, dep |-> 1]

GraphTypeOK ==
  /\ at \in Stages
  /\ cells \in Seq(Cell)
  /\ next \in 1..Len(cells) + 1
  /\ DOMAIN cellMap \subseteq Names
  /\ cellMap \in [DOMAIN cellMap -> Seq(Names)]
  /\ visited \subseteq Names
  /\ stack \in Seq(Frame)

NoCells == [n \in {} |-> <<>>]

GraphInit ==
  /\ at = "idle"
  /\ cells = <<>>
  /\ next = 1
  /\ cellMap = NoCells
  /\ visited = {}
  /\ stack = <<>>

-----------------------------------------------------------------------------
(* A plan without workcells, or with a field that is not as it should be,  *)
(* is refused before its graph is looked at.                               *)
Begin(list) ==
  /\ at = "idle"
  /\ list # <<>>
  /\ at' \in {"map", "malformed"}
  /\ cells' = list
  /\ next' = 1
  /\ cellMap' = NoCells
  /\ visited' = {}
  /\ stack' = <<>>

MapCell ==
  /\ at = "map"
  /\ next <= Len(cells)
  /\ cellMap' = [n \in DOMAIN cellMap \cup {cells[next].id} |->
       IF n = cells[next].id THEN cells[next].deps ELSE cellMap[n]]
  /\ next' = next + 1
  /\ UNCHANGED <<at, cells, visited, stack>>

MapDone ==
  /\ at = "map"
  /\ next > Len(cells)
  /\ at' = "check"
  /\ next' = 1
  /\ UNCHANGED <<cells, cellMap, visited, stack>>

(* Broken: only the dependencies the map has kept are looked up.           *)
KnownMapped(i) == \A j \in DOMAIN cellMap[cells[i].id] : cellMap[cells[i].id][j] \in DOMAIN cellMap

Known(i) == \A j \in DOMAIN cells[i].deps : cells[i].deps[j] \in DOMAIN cellMap

CheckCell ==
  /\ at = "check"
  /\ next <= Len(cells)
  /\ IF Known(next) THEN next' = next + 1 /\ UNCHANGED at
     ELSE at' = "unknown" /\ UNCHANGED next
  /\ UNCHANGED <<cells, cellMap, visited, stack>>

CheckDone ==
  /\ at = "check"
  /\ next > Len(cells)
  /\ at' = "search"
  /\ next' = 1
  /\ UNCHANGED <<cells, cellMap, visited, stack>>

-----------------------------------------------------------------------------
(* dfs.                                                                    *)

Top == stack[Len(stack)]

(* Broken: what has been visited is taken for what is on the stack.        *)
OnStackVisited(n) == n \in visited

OnStack(n) == \E i \in DOMAIN stack : stack[i].node = n

Pending == Top.dep <= Len(cellMap[Top.node])
Dependency == cellMap[Top.node][Top.dep]

(* Broken: a dependency that is visited already is looked at again.        *)
AdvancedUnvisited ==
  IF Dependency \in visited THEN stack ELSE [stack EXCEPT ![Len(stack)].dep = @ + 1]

(* The top of the stack goes on with its next dependency.                  *)
Advanced == [stack EXCEPT ![Len(stack)].dep = @ + 1]

(* The loop over the workcells calls dfs, which knows a visited one.       *)
NextRoot ==
  /\ at = "search"
  /\ stack = <<>>
  /\ next <= Len(cells)
  /\ IF cells[next].id \in visited
     THEN next' = next + 1 /\ UNCHANGED stack
     ELSE stack' = <<Call(cells[next].id)>> /\ UNCHANGED next
  /\ UNCHANGED <<at, cells, cellMap, visited>>

CycleFound ==
  /\ at = "search"
  /\ stack # <<>> /\ Pending /\ OnStack(Dependency)
  /\ at' = "cyclic"
  /\ UNCHANGED <<cells, next, cellMap, visited, stack>>

Descend ==
  /\ at = "search"
  /\ stack # <<>> /\ Pending /\ ~OnStack(Dependency)
  /\ stack' = IF Dependency \in visited THEN Advanced
              ELSE Append(Advanced, Call(Dependency))
  /\ UNCHANGED <<at, cells, next, cellMap, visited>>

Leave ==
  /\ at = "search"
  /\ stack # <<>> /\ ~Pending
  /\ stack' = SubSeq(stack, 1, Len(stack) - 1)
  /\ visited' = visited \cup {Top.node}
  /\ UNCHANGED <<at, cells, next, cellMap>>

(* The rest of the plan is looked at last.                                 *)
Accept ==
  /\ at = "search"
  /\ stack = <<>>
  /\ next > Len(cells)
  /\ at' \in {"accepted", "malformed"}
  /\ UNCHANGED <<cells, next, cellMap, visited, stack>>

(* The process ends.                                                       *)
Quit ==
  /\ at' = "idle"
  /\ cells' = <<>>
  /\ next' = 1
  /\ cellMap' = NoCells
  /\ visited' = {}
  /\ stack' = <<>>

Check == MapCell \/ MapDone \/ CheckCell \/ CheckDone
Search == NextRoot \/ CycleFound \/ Descend \/ Leave \/ Accept
GraphStep == Check \/ Search

GraphNext == (\E list \in CellLists : Begin(list)) \/ GraphStep \/ Quit

GraphSpec == GraphInit /\ [][GraphNext]_graphVars

-----------------------------------------------------------------------------
(* Properties.                                                             *)

Ids == {cells[i].id : i \in DOMAIN cells}
DepsOf(n) == {cellMap[n][j] : j \in DOMAIN cellMap[n]}

(* Every workcell of the set waits for another one of it.                  *)
Stuck(S) == \A n \in S : \E d \in DepsOf(n) : d \in S

(* The map has what the last workcell of each ID depends on.               *)
LastKept ==
  /\ DOMAIN cellMap = Ids
  /\ \A i \in DOMAIN cells :
       (\A k \in i + 1..Len(cells) : cells[k].id # cells[i].id)
         => cellMap[cells[i].id] = cells[i].deps

(* validatePlan decides right: an accepted plan has all the dependencies   *)
(* of every workcell, of a duplicate one too, and, as the map sees it, no  *)
(* group of workcells that wait for each other; a plan refused as cyclic   *)
(* has such a group, which the scheduler could never run, and one refused  *)
(* as unresolved names a workcell it does not have.                        *)
VerdictCorrect ==
  /\ at \in Verdicts => LastKept
  /\ at = "accepted" =>
       /\ \A i \in DOMAIN cells : \A j \in DOMAIN cells[i].deps : cells[i].deps[j] \in Ids
       /\ \A S \in SUBSET Ids : S # {} => ~Stuck(S)
  /\ at = "cyclic" => \E S \in SUBSET Ids : S # {} /\ Stuck(S)
  /\ at = "unknown" =>
       \E i \in DOMAIN cells : \E j \in DOMAIN cells[i].deps : cells[i].deps[j] \notin Ids

=============================================================================
