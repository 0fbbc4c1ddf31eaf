-------------------------- MODULE PlanGraphProofs ---------------------------
(***************************************************************************)
(* Theorems about validatePlan, for plans of any size, and about the       *)
(* commands of PlanPipeline that call it.                                  *)
(***************************************************************************)
EXTENDS PlanPipeline, SequenceTheorems, FiniteSetTheorems, WellFoundedInduction,
        TLAPS

Searched == {"search", "accepted", "cyclic"}

(* How much of the plan the map has.                                       *)
MappedTo == IF at = "map" THEN next - 1 ELSE Len(cells)

LastUpTo(i) == \A k \in i + 1..MappedTo : cells[k].id # cells[i].id

(* The map has the dependencies of the last of the workcells of each ID    *)
(* it has come to, and no other ones.                                      *)
MapInv ==
  /\ DOMAIN cellMap = {cells[i].id : i \in 1..MappedTo}
  /\ \A n \in DOMAIN cellMap : \E i \in 1..MappedTo :
       cells[i].id = n /\ LastUpTo(i) /\ cellMap[n] = cells[i].deps
  /\ \A i \in 1..MappedTo : LastUpTo(i) => cellMap[cells[i].id] = cells[i].deps

(* What the check has established.                                         *)
CheckInv ==
  /\ at = "idle" => cells = <<>>
  /\ at = "check" => \A i \in 1..next - 1 : Known(i)
  /\ at \in Searched => \A i \in DOMAIN cells : Known(i)
  /\ at = "unknown" => next <= Len(cells) /\ ~Known(next)
  /\ at \notin Searched \cup {"malformed"} => visited = {} /\ stack = <<>>

(* What is visited depends on nothing else, and is no cycle.               *)
VisitedInv ==
  /\ visited \subseteq DOMAIN cellMap
  /\ \A n \in visited : DepsOf(n) \subseteq visited
  /\ \A S \in SUBSET visited : S # {} => ~Stuck(S)

(* A call has visited the dependencies before the one it is at, but for    *)
(* the one the call above it is for.                                       *)
Explored(i) ==
  /\ stack[i].node \in DOMAIN cellMap
  /\ stack[i].node \notin visited
  /\ stack[i].dep <= Len(cellMap[stack[i].node]) + 1
  /\ \A j \in 1..stack[i].dep - 1 :
       \/ cellMap[stack[i].node][j] \in visited
       \/ i < Len(stack) /\ cellMap[stack[i].node][j] = stack[i + 1].node
  /\ i < Len(stack) =>
       /\ stack[i].dep > 1
       /\ cellMap[stack[i].node][stack[i].dep - 1] = stack[i + 1].node

StackInv ==
  /\ \A i \in DOMAIN stack : Explored(i)
  /\ \A i, j \in DOMAIN stack : stack[i].node = stack[j].node => i = j

(* Where the search has got to.                                            *)
SearchInv ==
  /\ at = "search" => \A i \in 1..next - 1 : cells[i].id \in visited
  /\ at = "accepted" => \A i \in DOMAIN cells : cells[i].id \in visited
  /\ at = "cyclic" => stack # <<>> /\ Pending /\ OnStack(Dependency)

(* A malformed plan may be refused before it has a map.                    *)
GraphInv ==
  /\ GraphTypeOK
  /\ at # "malformed" => MapInv
  /\ CheckInv
  /\ VisitedInv
  /\ StackInv
  /\ SearchInv

-----------------------------------------------------------------------------
LEMMA GraphInvInit == GraphInit => GraphInv
<1> SUFFICES ASSUME GraphInit PROVE GraphInv
  OBVIOUS
<1> USE DEF GraphInit, NoCells
<1>1. GraphTypeOK
  BY EmptySeq DEF GraphTypeOK, Stages
<1>2. MapInv
  BY DEF MapInv, MappedTo
<1>3. CheckInv /\ VisitedInv /\ StackInv /\ SearchInv
  BY DEF CheckInv, VisitedInv, StackInv, SearchInv, Searched
<1> QED
  BY <1>1, <1>2, <1>3 DEF GraphInv

(* A validation begins with nothing, and a process leaves nothing behind.  *)
LEMMA GraphInvBegin ==
  ASSUME NEW list \in CellLists, Begin(list)
  PROVE  GraphInv'
<1> USE DEF Begin, NoCells
<1>1. GraphTypeOK'
  BY GraphAssumption, EmptySeq DEF GraphTypeOK, Stages, Refusals
<1>2. at' # "malformed" => MapInv'
  BY DEF MapInv, MappedTo
<1>3. CheckInv' /\ VisitedInv' /\ StackInv' /\ SearchInv'
  BY DEF CheckInv, VisitedInv, StackInv, SearchInv, Searched
<1> QED
  BY <1>1, <1>2, <1>3 DEF GraphInv

LEMMA GraphInvQuit == Quit => GraphInv'
<1> SUFFICES ASSUME Quit PROVE GraphInv'
  OBVIOUS
<1> USE DEF Quit, NoCells
<1>1. GraphTypeOK'
  BY EmptySeq DEF GraphTypeOK, Stages
<1>2. MapInv'
  BY DEF MapInv, MappedTo
<1>3. CheckInv' /\ VisitedInv' /\ StackInv' /\ SearchInv'
  BY DEF CheckInv, VisitedInv, StackInv, SearchInv, Searched
<1> QED
  BY <1>1, <1>2, <1>3 DEF GraphInv

(* Once the map is complete it stays as it is.                             *)
LEMMA MapKept ==
  ASSUME MapInv, UNCHANGED <<cells, cellMap>>, MappedTo' = MappedTo
  PROVE  MapInv'
<1>1. DOMAIN cellMap' = {cells'[i].id : i \in 1..MappedTo'}
  BY DEF MapInv
<1>2. ASSUME NEW n \in DOMAIN cellMap'
      PROVE  \E i \in 1..MappedTo' :
               cells'[i].id = n /\ LastUpTo(i)' /\ cellMap'[n] = cells'[i].deps
  BY DEF MapInv, LastUpTo
<1>3. ASSUME NEW i \in 1..MappedTo', LastUpTo(i)'
      PROVE  cellMap'[cells'[i].id] = cells'[i].deps
  <2>1. LastUpTo(i)
    BY <1>3 DEF LastUpTo
  <2> QED
    BY <2>1 DEF MapInv
<1> QED
  BY <1>1, <1>2, <1>3 DEF MapInv

LEMMA GraphInvMapCell == GraphInv /\ MapCell => GraphInv'
<1> SUFFICES ASSUME GraphInv, MapCell PROVE GraphInv'
  OBVIOUS
<1> USE DEF GraphInv, MapCell
<1>1. /\ next \in 1..Len(cells) /\ Len(cells) \in Nat /\ cells[next] \in Cell
      /\ cells[next].id \in Names /\ cells[next].deps \in Seq(Names)
      /\ at = "map" /\ at' = "map" /\ cells' = cells /\ next' = next + 1
  <2>1. Len(cells) \in Nat /\ next \in 1..Len(cells)
    BY LenProperties DEF GraphTypeOK
  <2>2. cells[next] \in Cell
    BY <2>1, ElementOfSeq DEF GraphTypeOK
  <2> QED
    BY <2>1, <2>2 DEF Cell
<1>2. /\ DOMAIN cellMap' = DOMAIN cellMap \cup {cells[next].id}
      /\ cellMap'[cells[next].id] = cells[next].deps
      /\ \A n \in DOMAIN cellMap : n # cells[next].id => cellMap'[n] = cellMap[n]
  OBVIOUS
<1>3. GraphTypeOK'
  BY <1>1, <1>2 DEF GraphTypeOK
<1>4. MapInv'
  <2>1. MappedTo = next - 1 /\ MappedTo' = next
    BY <1>1 DEF MappedTo
  <2>2. DOMAIN cellMap' = {cells[i].id : i \in 1..next}
    <3>1. DOMAIN cellMap = {cells[i].id : i \in 1..next - 1}
      BY <2>1 DEF MapInv
    <3>2. 1..next = 1..next - 1 \cup {next}
      BY <1>1
    <3>3. {cells[i].id : i \in 1..next}
            = {cells[i].id : i \in 1..next - 1} \cup {cells[next].id}
      BY ONLY <3>2
    <3> QED
      BY <1>2, <3>1, <3>3
  <2>3. ASSUME NEW n \in DOMAIN cellMap'
        PROVE  \E i \in 1..next :
                 /\ cells[i].id = n /\ cellMap'[n] = cells[i].deps
                 /\ \A k \in i + 1..next : cells[k].id # cells[i].id
    <3>1. CASE n = cells[next].id
      BY <1>1, <1>2, <3>1
    <3>2. CASE n # cells[next].id
      <4>1. n \in DOMAIN cellMap /\ cellMap'[n] = cellMap[n]
        BY <1>2, <3>2
      <4>2. PICK i \in 1..next - 1 :
              cells[i].id = n /\ LastUpTo(i) /\ cellMap[n] = cells[i].deps
        BY <2>1, <4>1 DEF MapInv
      <4>3. i \in 1..next /\ \A k \in i + 1..next : k = next \/ k \in i + 1..next - 1
        BY <1>1
      <4>4. \A k \in i + 1..next : cells[k].id # cells[i].id
        BY <2>1, <3>2, <4>2, <4>3 DEF LastUpTo
      <4> QED
        BY <4>1, <4>2, <4>3, <4>4
    <3> QED
      BY <3>1, <3>2
  <2>4. ASSUME NEW i \in 1..next, \A k \in i + 1..next : cells[k].id # cells[i].id
        PROVE  cellMap'[cells[i].id] = cells[i].deps
    <3>1. CASE i = next
      BY <1>2, <3>1
    <3>2. CASE i # next
      <4>1. i \in 1..next - 1 /\ next \in i + 1..next
        BY <1>1, <3>2
      <4>2. cells[next].id # cells[i].id
        BY <2>4, <4>1
      <4>3. \A k \in i + 1..next - 1 : cells[k].id # cells[i].id
        BY <1>1, <2>4
      <4>4. cellMap[cells[i].id] = cells[i].deps /\ cells[i].id \in DOMAIN cellMap
        BY <2>1, <4>1, <4>3 DEF MapInv, LastUpTo
      <4> QED
        BY <1>2, <4>2, <4>4
    <3> QED
      BY <3>1, <3>2
  <2> QED
    <3>1. ASSUME NEW i \in 1..next, LastUpTo(i)'
          PROVE  cellMap'[cells[i].id] = cells[i].deps
      <4>1. \A k \in i + 1..next : cells[k].id # cells[i].id
        BY <1>1, <2>1, <3>1 DEF LastUpTo
      <4> QED
        BY <2>4, <4>1
    <3>2. DOMAIN cellMap' = {cells'[i].id : i \in 1..MappedTo'}
      BY <1>1, <2>1, <2>2
    <3>3. ASSUME NEW n \in DOMAIN cellMap'
          PROVE  \E i \in 1..MappedTo' :
                   cells'[i].id = n /\ LastUpTo(i)' /\ cellMap'[n] = cells'[i].deps
      <4>1. PICK i \in 1..next :
              /\ cells[i].id = n /\ cellMap'[n] = cells[i].deps
              /\ \A k \in i + 1..next : cells[k].id # cells[i].id
        BY <2>3
      <4>2. LastUpTo(i)'
        BY <1>1, <2>1, <4>1 DEF LastUpTo
      <4> QED
        BY <1>1, <2>1, <4>1, <4>2
    <3>4. \A i \in 1..MappedTo' : LastUpTo(i)' => cellMap'[cells'[i].id] = cells'[i].deps
      BY <1>1, <2>1, <3>1
    <3> HIDE DEF MapCell
    <3> QED
      BY <3>2, <3>3, <3>4 DEF MapInv
<1>5. visited = {} /\ stack = <<>>
  BY <1>1 DEF CheckInv, Searched
<1>6. CheckInv' /\ StackInv' /\ SearchInv'
  BY <1>1, <1>5 DEF CheckInv, StackInv, SearchInv, Searched
<1>7. VisitedInv'
  BY <1>5 DEF VisitedInv
<1> QED
  BY <1>3, <1>4, <1>6, <1>7

LEMMA GraphInvMapDone == GraphInv /\ MapDone => GraphInv'
<1> SUFFICES ASSUME GraphInv, MapDone PROVE GraphInv'
  OBVIOUS
<1> USE DEF GraphInv, MapDone
<1>1. Len(cells) \in Nat /\ next = Len(cells) + 1 /\ at' = "check" /\ next' = 1
  BY LenProperties DEF GraphTypeOK
<1>2. GraphTypeOK'
  BY <1>1 DEF GraphTypeOK, Stages
<1>3. MappedTo = Len(cells) /\ MappedTo' = Len(cells)
  BY <1>1 DEF MappedTo
<1>4. MapInv'
  BY <1>3, MapKept
<1>5. visited = {} /\ stack = <<>>
  BY <1>1 DEF CheckInv, Searched
<1>6. CheckInv' /\ StackInv' /\ SearchInv' /\ VisitedInv'
  BY <1>1, <1>5 DEF CheckInv, StackInv, SearchInv, VisitedInv, Searched
<1> QED
  BY <1>2, <1>4, <1>6

LEMMA GraphInvCheckCell == GraphInv /\ CheckCell => GraphInv'
<1> SUFFICES ASSUME GraphInv, CheckCell PROVE GraphInv'
  OBVIOUS
<1> USE DEF GraphInv, CheckCell
<1>1. /\ Len(cells) \in Nat /\ next \in 1..Len(cells) /\ at = "check"
      /\ visited = {} /\ stack = <<>>
  BY LenProperties DEF GraphTypeOK, CheckInv, Searched
<1>2. GraphTypeOK'
  <2>1. next' \in 1..Len(cells') + 1 /\ at' \in Stages
    BY <1>1 DEF Stages, Verdicts
  <2> QED
    BY <2>1 DEF GraphTypeOK
<1>3. MappedTo = Len(cells) /\ MappedTo' = Len(cells)
  BY <1>1 DEF MappedTo
<1>4. MapInv'
  BY <1>3, MapKept
<1>5. CheckInv'
  <2>1. \A i : Known(i)' <=> Known(i)
    BY DEF Known
  <2>2. CASE Known(next)
    BY <1>1, <2>1, <2>2 DEF CheckInv, Searched
  <2>3. CASE ~Known(next)
    BY <1>1, <2>1, <2>3 DEF CheckInv, Searched
  <2> QED
    BY <2>2, <2>3
<1>6. StackInv' /\ SearchInv' /\ VisitedInv'
  BY <1>1 DEF StackInv, SearchInv, VisitedInv
<1> QED
  BY <1>2, <1>4, <1>5, <1>6

LEMMA GraphInvCheckDone == GraphInv /\ CheckDone => GraphInv'
<1> SUFFICES ASSUME GraphInv, CheckDone PROVE GraphInv'
  OBVIOUS
<1> USE DEF GraphInv, CheckDone
<1>1. /\ Len(cells) \in Nat /\ next = Len(cells) + 1 /\ at = "check" /\ at' = "search"
      /\ next' = 1 /\ visited = {} /\ stack = <<>>
      /\ DOMAIN cells = 1..Len(cells)
  BY LenProperties DEF GraphTypeOK, CheckInv, Searched
<1>2. GraphTypeOK'
  BY <1>1 DEF GraphTypeOK, Stages
<1>3. MappedTo = Len(cells) /\ MappedTo' = Len(cells)
  BY <1>1 DEF MappedTo
<1>4. MapInv'
  BY <1>3, MapKept
<1>5. CheckInv'
  BY <1>1 DEF CheckInv, Searched, Known
<1>6. StackInv' /\ SearchInv' /\ VisitedInv'
  BY <1>1 DEF StackInv, SearchInv, VisitedInv
<1> QED
  BY <1>2, <1>4, <1>5, <1>6

-----------------------------------------------------------------------------
(* The search.                                                             *)

LEMMA SearchFacts ==
  ASSUME GraphInv, at \in Searched
  PROVE  /\ Len(cells) \in Nat /\ DOMAIN cells = 1..Len(cells)
         /\ MappedTo = Len(cells)
         /\ DOMAIN cellMap = Ids
         /\ Ids \subseteq Names
         /\ \A n \in Ids : /\ cellMap[n] \in Seq(Names)
                            /\ DOMAIN cellMap[n] = 1..Len(cellMap[n])
                            /\ Len(cellMap[n]) \in Nat
                            /\ DepsOf(n) \subseteq Ids
<1>0. MapInv /\ at # "malformed"
  BY DEF GraphInv, Searched
<1> USE DEF GraphInv
<1>1. Len(cells) \in Nat /\ DOMAIN cells = 1..Len(cells) /\ MappedTo = Len(cells)
  BY LenProperties DEF GraphTypeOK, MappedTo, Searched
<1>2. DOMAIN cellMap = Ids /\ Ids \subseteq Names
  BY <1>0, <1>1 DEF MapInv, Ids, GraphTypeOK
<1>3. ASSUME NEW n \in Ids
      PROVE  /\ cellMap[n] \in Seq(Names)
             /\ DOMAIN cellMap[n] = 1..Len(cellMap[n])
             /\ Len(cellMap[n]) \in Nat
             /\ DepsOf(n) \subseteq Ids
  <2>1. cellMap[n] \in Seq(Names)
    BY <1>2 DEF GraphTypeOK
  <2>2. PICK i \in DOMAIN cells : cellMap[n] = cells[i].deps
    BY <1>0, <1>1, <1>2 DEF MapInv
  <2>3. Known(i)
    BY DEF CheckInv
  <2>4. DepsOf(n) \subseteq Ids
    BY <1>2, <2>2, <2>3 DEF Known, DepsOf
  <2> QED
    BY <2>1, <2>4, LenProperties
<1> QED
  BY <1>1, <1>2, <1>3

(* The steps of the search change neither the map nor what the check has   *)
(* established.                                                            *)
LEMMA SearchKeeps ==
  ASSUME GraphInv, at \in Searched, at' \in Searched, UNCHANGED <<cells, cellMap>>
  PROVE  MapInv' /\ CheckInv'
<1>1. MappedTo' = MappedTo
  BY DEF MappedTo, Searched
<1>2. MapInv'
  BY <1>1, MapKept DEF GraphInv, Searched
<1>3. CheckInv'
  BY DEF GraphInv, CheckInv, Searched, Known
<1> QED
  BY <1>2, <1>3

LEMMA VisitedKept ==
  ASSUME VisitedInv, UNCHANGED <<cellMap, visited>>
  PROVE  VisitedInv'
<1>1. \A n : DepsOf(n)' = DepsOf(n)
  BY DEF DepsOf
<1>2. \A S : Stuck(S)' <=> Stuck(S)
  BY <1>1 DEF Stuck
<1> QED
  BY <1>1, <1>2 DEF VisitedInv

LEMMA StackKept ==
  ASSUME StackInv, UNCHANGED <<cellMap, visited, stack>>
  PROVE  StackInv'
<1>1. \A i : Explored(i)' <=> Explored(i)
  BY DEF Explored
<1> QED
  BY <1>1 DEF StackInv

LEMMA GraphInvAccept == GraphInv /\ Accept => GraphInv'
<1> SUFFICES ASSUME GraphInv, Accept PROVE GraphInv'
  OBVIOUS
<1>1. at \in Searched /\ at' \in {"accepted", "malformed"}
  BY DEF Accept, Searched
<1>2. (at' # "malformed" => MapInv') /\ CheckInv'
  <2>1. CASE at' = "accepted"
    BY <1>1, <2>1, SearchKeeps DEF Accept, Searched
  <2>2. CASE at' = "malformed"
    BY <2>2 DEF CheckInv, Searched
  <2> QED
    BY <1>1, <2>1, <2>2
<1>3. GraphTypeOK'
  BY DEF GraphInv, GraphTypeOK, Accept, Stages, Verdicts, Refusals
<1>4. VisitedInv' /\ StackInv'
  BY VisitedKept, StackKept DEF GraphInv, Accept
<1>5. SearchInv'
  <2>1. next = Len(cells) + 1 /\ DOMAIN cells = 1..Len(cells) /\ Len(cells) \in Nat
    BY LenProperties DEF Accept, GraphInv, GraphTypeOK
  <2>2. \A i \in DOMAIN cells : cells[i].id \in visited
    BY <2>1 DEF Accept, GraphInv, SearchInv
  <2> QED
    BY <1>1, <2>2 DEF Accept, SearchInv
<1> QED
  BY <1>2, <1>3, <1>4, <1>5 DEF GraphInv

LEMMA GraphInvCycleFound == GraphInv /\ CycleFound => GraphInv'
<1> SUFFICES ASSUME GraphInv, CycleFound PROVE GraphInv'
  OBVIOUS
<1>1. at \in Searched /\ at' \in Searched
  BY DEF CycleFound, Searched
<1>2. MapInv' /\ CheckInv'
  BY <1>1, SearchKeeps DEF CycleFound
<1>3. GraphTypeOK'
  BY DEF GraphInv, GraphTypeOK, CycleFound, Stages, Verdicts
<1>4. VisitedInv' /\ StackInv'
  BY VisitedKept, StackKept DEF GraphInv, CycleFound
<1>5. SearchInv'
  BY DEF CycleFound, SearchInv, Pending, Dependency, OnStack, Top
<1> QED
  BY <1>2, <1>3, <1>4, <1>5 DEF GraphInv

LEMMA GraphInvNextRoot == GraphInv /\ NextRoot => GraphInv'
<1> SUFFICES ASSUME GraphInv, NextRoot PROVE GraphInv'
  OBVIOUS
<1>1. at = "search" /\ at' = "search"
  BY DEF NextRoot
<1>2. MapInv' /\ CheckInv'
  BY <1>1, SearchKeeps DEF NextRoot, Searched
<1>3. /\ Len(cells) \in Nat /\ next \in 1..Len(cells) /\ next \in DOMAIN cells
      /\ cells[next].id \in Ids /\ Ids \subseteq Names /\ Ids = DOMAIN cellMap
  BY <1>1, SearchFacts DEF NextRoot, Searched, GraphInv, GraphTypeOK, Ids
<1>4. VisitedInv'
  BY VisitedKept DEF GraphInv, NextRoot
<1>5. CASE cells[next].id \in visited
  <2>1. GraphTypeOK'
    BY <1>3, <1>5 DEF GraphInv, GraphTypeOK, NextRoot
  <2>2. StackInv'
    BY <1>5 DEF StackInv, NextRoot
  <2>3. SearchInv'
    BY <1>1, <1>3, <1>5 DEF GraphInv, SearchInv, NextRoot
  <2> QED
    BY <1>2, <1>4, <2>1, <2>2, <2>3 DEF GraphInv
<1>6. CASE cells[next].id \notin visited
  <2>1. /\ stack' = <<Call(cells[next].id)>> /\ Call(cells[next].id) \in Frame
        /\ Len(stack') = 1 /\ DOMAIN stack' = {1}
        /\ stack'[1].node = cells[next].id /\ stack'[1].dep = 1
    BY <1>3, <1>6 DEF NextRoot, Call, Frame
  <2>2. GraphTypeOK'
    BY <1>3, <1>6, <2>1 DEF GraphInv, GraphTypeOK, NextRoot
  <2>3. StackInv'
    <3>1. Len(cellMap'[cells[next].id]) \in Nat
      BY <1>1, <1>3, SearchFacts DEF NextRoot, Searched
    <3>2. Explored(1)'
      BY <1>3, <1>6, <2>1, <3>1 DEF Explored, NextRoot
    <3> QED
      BY <2>1, <3>2 DEF StackInv
  <2>4. SearchInv'
    BY <1>1, <1>6 DEF GraphInv, SearchInv, NextRoot
  <2> QED
    BY <1>2, <1>4, <2>2, <2>3, <2>4 DEF GraphInv
<1> QED
  BY <1>5, <1>6

(* The call at the top of the stack.                                       *)
LEMMA TopFacts ==
  ASSUME GraphInv, at \in {"search", "cyclic"}, stack # <<>>
  PROVE  /\ Len(stack) \in Nat \ {0} /\ DOMAIN stack = 1..Len(stack)
         /\ \A i \in 1..Len(stack) : stack[i] \in Frame
         /\ stack \in Seq(Frame)
         /\ Top = stack[Len(stack)] /\ Top.node \in Ids /\ Top.node \notin visited
         /\ Top.dep \in 1..Len(cellMap[Top.node]) + 1
         /\ \A j \in 1..Top.dep - 1 : cellMap[Top.node][j] \in visited
<1>1. /\ stack \in Seq(Frame) /\ Len(stack) \in Nat \ {0} /\ DOMAIN stack = 1..Len(stack)
      /\ \A i \in 1..Len(stack) : stack[i] \in Frame
  BY LenProperties, EmptySeq, ElementOfSeq DEF GraphInv, GraphTypeOK
<1>2. Explored(Len(stack)) /\ stack[Len(stack)].dep \in Nat \ {0}
  BY <1>1 DEF GraphInv, StackInv, Frame
<1>3. Top.node \in Ids /\ Len(cellMap[Top.node]) \in Nat
  BY <1>2, SearchFacts DEF Explored, Top, Searched
<1> QED
  BY <1>1, <1>2, <1>3 DEF Explored, Top

(* A node whose dependencies are all visited closes no cycle.              *)
LEMMA VisitedGrows ==
  ASSUME VisitedInv, NEW v \in DOMAIN cellMap, v \notin visited,
         DepsOf(v) \subseteq visited,
         UNCHANGED cellMap, visited' = visited \cup {v}
  PROVE  VisitedInv'
<1>1. \A n : DepsOf(n)' = DepsOf(n)
  BY DEF DepsOf
<1>2. visited' \subseteq DOMAIN cellMap'
  BY DEF VisitedInv
<1>3. \A n \in visited' : DepsOf(n)' \subseteq visited'
  BY <1>1 DEF VisitedInv
<1>4. ASSUME NEW S \in SUBSET visited', S # {}, Stuck(S)
      PROVE  FALSE
  <2>1. CASE S \ {v} = {}
    <3>1. S = {v}
      BY <1>4, <2>1
    <3> QED
      BY <1>4, <3>1 DEF Stuck
  <2>2. CASE S \ {v} # {}
    <3>1. PICK n \in S \ {v} : \A d \in DepsOf(n) : d \notin S \ {v}
      BY <2>2 DEF VisitedInv, Stuck
    <3>2. n \in visited /\ v \notin DepsOf(n)
      BY <3>1 DEF VisitedInv
    <3> QED
      BY <1>4, <3>1, <3>2 DEF Stuck
  <2> QED
    BY <2>1, <2>2
<1>5. \A S : Stuck(S)' <=> Stuck(S)
  BY <1>1 DEF Stuck
<1> QED
  BY <1>2, <1>3, <1>4, <1>5 DEF VisitedInv

(* A call that returns goes, and those below it stay.                      *)
LEMMA LeaveShape ==
  ASSUME GraphInv, Leave, NEW n \in Nat \ {0}, n = Len(stack)
  PROVE  /\ stack' \in Seq(Frame) /\ Len(stack') = n - 1 /\ DOMAIN stack' = 1..n - 1
         /\ \A i \in 1..n - 1 : stack'[i] = stack[i]
<1>1. stack \in Seq(Frame)
  BY TopFacts DEF Leave
<1>2. stack' = SubSeq(stack, 1, n - 1)
  BY DEF Leave
<1>3. /\ stack' \in Seq(Frame)
      /\ Len(stack') = IF 1 <= n - 1 THEN n - 1 - 1 + 1 ELSE 0
      /\ \A i \in 1..n - 1 - 1 + 1 : stack'[i] = stack[1 + i - 1]
  BY <1>1, <1>2, SubSeqProperties
<1>4. Len(stack') = n - 1
  BY <1>3
<1>5. ASSUME NEW i \in 1..n - 1 PROVE stack'[i] = stack[i]
  <2>1. i \in 1..n - 1 - 1 + 1 /\ 1 + i - 1 = i
    OBVIOUS
  <2> QED
    BY <1>3, <2>1
<1>6. DOMAIN stack' = 1..n - 1
  BY <1>3, <1>4, LenProperties
<1> QED
  BY <1>3, <1>4, <1>5, <1>6

LEMMA GraphInvLeave == GraphInv /\ Leave => GraphInv'
<1> SUFFICES ASSUME GraphInv, Leave PROVE GraphInv'
  OBVIOUS
<1>1. at = "search" /\ at' = "search" /\ stack # <<>> /\ ~Pending
  BY DEF Leave
<1>2. MapInv' /\ CheckInv'
  BY <1>1, SearchKeeps DEF Leave, Searched
<1>0. PICK n \in Nat \ {0} : n = Len(stack)
  BY <1>1, TopFacts
<1>3. /\ n = Len(stack) /\ DOMAIN stack = 1..n /\ stack \in Seq(Frame)
      /\ \A i \in 1..n : stack[i] \in Frame
      /\ Top = stack[n] /\ Top.node \in Ids /\ Top.node \notin visited
  BY <1>0, <1>1, TopFacts
<1>4. /\ stack' \in Seq(Frame) /\ Len(stack') = n - 1 /\ DOMAIN stack' = 1..n - 1
      /\ \A i \in 1..n - 1 : stack'[i] = stack[i]
  BY <1>0, LeaveShape
<1>5. DepsOf(Top.node) \subseteq visited
  <2>1. /\ Len(cellMap[Top.node]) \in Nat
        /\ DOMAIN cellMap[Top.node] = 1..Len(cellMap[Top.node])
    BY <1>1, <1>3, SearchFacts DEF Searched
  <2>2. Top.dep = Len(cellMap[Top.node]) + 1
    BY <1>1, <2>1, TopFacts DEF Pending
  <2> QED
    BY <1>1, <2>1, <2>2, TopFacts DEF DepsOf
<1>6. Ids = DOMAIN cellMap /\ Ids \subseteq Names
  BY <1>1, SearchFacts DEF Searched
<1>7. VisitedInv'
  BY <1>3, <1>5, <1>6, VisitedGrows DEF GraphInv, Leave
<1>8. GraphTypeOK'
  BY <1>3, <1>4, <1>6 DEF GraphInv, GraphTypeOK, Leave
<1>9. StackInv'
  <2>1. ASSUME NEW i \in 1..n - 1 PROVE Explored(i)'
    <3>1. /\ i \in 1..n /\ i + 1 \in 1..n /\ i # n /\ i < n
          /\ stack'[i] = stack[i] /\ Explored(i)
      BY <1>3, <1>4 DEF GraphInv, StackInv
    <3>2. stack[i].node # Top.node
      <4>1. \A j \in DOMAIN stack : stack[i].node = stack[j].node => i = j
        BY <1>3, <3>1 DEF GraphInv, StackInv
      <4>2. n \in DOMAIN stack
        BY <1>3
      <4> QED
        BY <1>3, <3>1, <4>1, <4>2
    <3>3. i < n - 1 => stack'[i + 1] = stack[i + 1]
      BY <1>3, <1>4
    <3>4. ~(i < n - 1) => stack[i + 1].node = Top.node
      BY <1>3
    <3>5. visited' = visited \cup {Top.node} /\ cellMap' = cellMap
      BY DEF Leave
    <3>6. ASSUME NEW j \in 1..stack[i].dep - 1
          PROVE  \/ cellMap[stack[i].node][j] \in visited'
                 \/ i < n - 1 /\ cellMap[stack[i].node][j] = stack'[i + 1].node
      BY <3>1, <3>3, <3>4, <3>5 DEF Explored
    <3>7. ~(i < n - 1) => ~(i < Len(stack'))
      BY <1>4
    <3> QED
      BY <1>3, <1>4, <3>1, <3>2, <3>3, <3>5, <3>6, <3>7 DEF Explored
  <2> QED
    BY <1>3, <1>4, <2>1 DEF GraphInv, StackInv
<1>10. SearchInv'
  BY <1>1 DEF GraphInv, SearchInv, Leave
<1> QED
  BY <1>2, <1>7, <1>8, <1>9, <1>10 DEF GraphInv

(* The top of the stack with its next dependency.                          *)
LEMMA AdvancedShape ==
  ASSUME GraphInv, Descend, NEW n \in Nat \ {0}, n = Len(stack),
         NEW k \in Nat \ {0}, k = Top.dep
  PROVE  /\ Advanced \in Seq(Frame) /\ Len(Advanced) = n /\ DOMAIN Advanced = 1..n
         /\ Advanced[n] = [node |-> Top.node, dep |-> k + 1]
         /\ \A i \in 1..n - 1 : Advanced[i] = stack[i]
<1>1. /\ DOMAIN stack = 1..n /\ stack \in Seq(Frame) /\ Top = stack[n] /\ Top \in Frame
      /\ Top.node \in Names
  BY TopFacts DEF Descend, Frame
<1>2. [Top EXCEPT !.dep = @ + 1] = [node |-> Top.node, dep |-> k + 1]
  BY <1>1 DEF Frame
<1>3. [node |-> Top.node, dep |-> k + 1] \in Frame
  BY <1>1 DEF Frame
<1>4. Advanced = [stack EXCEPT ![n] = [node |-> Top.node, dep |-> k + 1]]
  BY <1>1, <1>2 DEF Advanced
<1>5. Advanced \in Seq(Frame)
  BY <1>1, <1>3, <1>4, ExceptSeq
<1> QED
  BY <1>1, <1>4, <1>5, LenProperties

LEMMA GraphInvDescend == GraphInv /\ Descend => GraphInv'
<1> SUFFICES ASSUME GraphInv, Descend PROVE GraphInv'
  OBVIOUS
<1>1. /\ at = "search" /\ at' = "search" /\ stack # <<>> /\ Pending
      /\ cellMap' = cellMap /\ visited' = visited /\ cells' = cells /\ next' = next
  BY DEF Descend
<1>2. MapInv' /\ CheckInv'
  BY <1>1, SearchKeeps DEF Searched
<1>3. VisitedInv'
  BY <1>1, VisitedKept DEF GraphInv
<1>4. SearchInv'
  BY <1>1 DEF GraphInv, SearchInv
<1>0. PICK n \in Nat \ {0} : n = Len(stack)
  BY <1>1, TopFacts
<1>k. PICK k \in Nat \ {0} : k = Top.dep
  BY <1>1, TopFacts
<1>d. PICK d : d = cellMap[Top.node][k]
  OBVIOUS
<1>5. /\ n = Len(stack) /\ DOMAIN stack = 1..n /\ stack \in Seq(Frame)
      /\ \A i \in 1..n : stack[i] \in Frame
      /\ Top = stack[n] /\ Top.node \in Ids /\ Top.node \notin visited
      /\ \A j \in 1..k - 1 : cellMap[Top.node][j] \in visited
  BY <1>0, <1>1, <1>k, TopFacts
<1>6. /\ Ids = DOMAIN cellMap /\ Ids \subseteq Names
      /\ Len(cellMap[Top.node]) \in Nat /\ k \in 1..Len(cellMap[Top.node])
      /\ d \in Ids
      /\ Len(cellMap[d]) \in Nat
  <2>1. /\ Ids = DOMAIN cellMap /\ Ids \subseteq Names
        /\ Len(cellMap[Top.node]) \in Nat
        /\ DOMAIN cellMap[Top.node] = 1..Len(cellMap[Top.node])
        /\ DepsOf(Top.node) \subseteq Ids
    BY <1>1, <1>5, SearchFacts DEF Searched
  <2>2. k \in 1..Len(cellMap[Top.node])
    BY <1>1, <1>k, <2>1, TopFacts DEF Pending
  <2>3. d \in Ids
    BY <1>d, <2>1, <2>2 DEF DepsOf
  <2> QED
    BY <1>1, <2>1, <2>2, <2>3, SearchFacts DEF Searched
<1>7. /\ Advanced \in Seq(Frame) /\ Len(Advanced) = n /\ DOMAIN Advanced = 1..n
      /\ Advanced[n] = [node |-> Top.node, dep |-> k + 1]
      /\ \A i \in 1..n - 1 : Advanced[i] = stack[i]
  BY <1>0, <1>k, AdvancedShape
<1>8. \A i \in 1..n - 1 : Explored(i) /\ stack[i].node # Top.node /\ i < n
  BY <1>5 DEF GraphInv, StackInv
<1>9. CASE d \in visited
  <2>1. stack' = Advanced
    BY <1>9, <1>d, <1>k DEF Descend, Dependency
  <2>2. ASSUME NEW i \in 1..n - 1 PROVE Explored(i)'
    <3>1. stack'[i] = stack[i] /\ stack'[i + 1].node = stack[i + 1].node /\ Len(stack') = n
      <4>1. CASE i + 1 = n
        BY <1>5, <1>7, <2>1, <4>1
      <4>2. CASE i + 1 # n
        <5>1. i + 1 \in 1..n - 1
          BY <1>5, <4>2
        <5> QED
          BY <1>5, <1>7, <2>1, <5>1
      <4> QED
        BY <4>1, <4>2
    <3>2. Explored(i) /\ Len(stack') = Len(stack) /\ cellMap' = cellMap /\ visited' = visited
      BY <1>1, <1>5, <1>8, <3>1
    <3> QED
      BY <3>1, <3>2 DEF Explored
  <2>3. Explored(n)'
    <3>1. stack'[n].node = Top.node /\ stack'[n].dep = k + 1 /\ ~(n < Len(stack'))
      BY <1>5, <1>7, <2>1
    <3>2. ASSUME NEW j \in 1..stack'[n].dep - 1
          PROVE  cellMap'[stack'[n].node][j] \in visited'
      <4>1. CASE j = k
        BY <1>1, <1>9, <1>d, <3>1, <4>1
      <4>2. CASE j # k
        <5>1. j \in 1..k - 1
          BY <1>6, <3>1, <4>2
        <5> QED
          BY <1>1, <1>5, <3>1, <5>1
      <4> QED
        BY <4>1, <4>2
    <3>3. /\ stack'[n].node \in DOMAIN cellMap' /\ stack'[n].node \notin visited'
          /\ stack'[n].dep <= Len(cellMap'[stack'[n].node]) + 1
      BY <1>1, <1>5, <1>6, <3>1
    <3> QED
      BY <3>1, <3>2, <3>3 DEF Explored
  <2>4. StackInv'
    <3>1. \A i \in 1..n : stack'[i].node = stack[i].node
      BY <1>5, <1>7, <2>1
    <3>2. \A i, j \in 1..n : stack'[i].node = stack'[j].node => i = j
      BY <1>5, <3>1 DEF GraphInv, StackInv
    <3>3. ASSUME NEW i \in 1..n PROVE Explored(i)'
      <4>1. i \in 1..n - 1 \/ i = n
        OBVIOUS
      <4> QED
        BY <2>2, <2>3, <4>1
    <3> QED
      BY <1>7, <2>1, <3>2, <3>3 DEF StackInv
  <2>5. GraphTypeOK'
    BY <1>1, <1>7, <2>1 DEF GraphInv, GraphTypeOK
  <2> QED
    BY <1>2, <1>3, <1>4, <2>4, <2>5 DEF GraphInv
<1>10. CASE d \notin visited
  <2>1. stack' = Append(Advanced, Call(d))
    BY <1>10, <1>d, <1>k DEF Descend, Dependency
  <2>2. Call(d) \in Frame /\ Call(d).node = d /\ Call(d).dep = 1
    BY <1>6 DEF Call, Frame
  <2>3. /\ stack' \in Seq(Frame) /\ Len(stack') = n + 1 /\ DOMAIN stack' = 1..n + 1
        /\ \A i \in 1..n : stack'[i] = Advanced[i]
        /\ stack'[n + 1] = Call(d)
    BY <1>7, <2>1, <2>2, AppendProperties, LenProperties
  <2>4. \A i \in 1..n : stack[i].node # d
    BY <1>5, <1>d, <1>k DEF Descend, OnStack, Dependency
  <2>5. ASSUME NEW i \in 1..n - 1 PROVE Explored(i)'
    <3>1. stack'[i] = stack[i] /\ stack'[i + 1].node = stack[i + 1].node
      <4>1. CASE i + 1 = n
        BY <1>5, <1>7, <2>3, <4>1
      <4>2. CASE i + 1 # n
        <5>1. i + 1 \in 1..n - 1 /\ i \in 1..n /\ i + 1 \in 1..n
          BY <1>5, <4>2
        <5> QED
          BY <1>7, <2>3, <5>1
      <4> QED
        BY <4>1, <4>2
    <3>2. i < Len(stack') /\ i < Len(stack)
      BY <1>5, <2>3
    <3> QED
      BY <1>1, <1>8, <3>1, <3>2 DEF Explored
  <2>6. Explored(n)'
    <3>1. /\ stack'[n].node = Top.node /\ stack'[n].dep = k + 1
          /\ stack'[n + 1].node = d /\ n < Len(stack')
      BY <1>5, <1>7, <2>2, <2>3
    <3>2. ASSUME NEW j \in 1..stack'[n].dep - 1
          PROVE  \/ cellMap'[stack'[n].node][j] \in visited'
                 \/ n < Len(stack') /\ cellMap'[stack'[n].node][j] = stack'[n + 1].node
      <4>1. CASE j = k
        BY <1>1, <1>d, <3>1, <4>1
      <4>2. CASE j # k
        <5>1. j \in 1..k - 1
          BY <1>6, <3>1, <4>2
        <5> QED
          BY <1>1, <1>5, <3>1, <5>1
      <4> QED
        BY <4>1, <4>2
    <3>3. k + 1 - 1 = k /\ k + 1 > 1 /\ k + 1 <= Len(cellMap[Top.node]) + 1
      BY <1>6
    <3>4. /\ stack'[n].node \in DOMAIN cellMap' /\ stack'[n].node \notin visited'
          /\ stack'[n].dep <= Len(cellMap'[stack'[n].node]) + 1
          /\ stack'[n].dep > 1
          /\ cellMap'[stack'[n].node][stack'[n].dep - 1] = stack'[n + 1].node
      BY <1>1, <1>5, <1>6, <1>d, <3>1, <3>3
    <3> QED
      BY <3>2, <3>4 DEF Explored
  <2>7. Explored(n + 1)'
    <3>1. /\ stack'[n + 1].node = d /\ stack'[n + 1].dep = 1
          /\ ~(n + 1 < Len(stack')) /\ 1..1 - 1 = {} /\ 1 <= Len(cellMap[d]) + 1
      BY <1>5, <1>6, <2>2, <2>3
    <3>2. d \in DOMAIN cellMap' /\ d \notin visited' /\ 1 <= Len(cellMap'[d]) + 1
      BY <1>1, <1>6, <1>10, <3>1
    <3> QED
      BY <3>1, <3>2 DEF Explored
  <2>8. StackInv'
    <3>1. ASSUME NEW i \in 1..n PROVE stack'[i].node = stack[i].node
      <4>1. i \in 1..n - 1 \/ i = n
        OBVIOUS
      <4> QED
        BY <1>5, <1>7, <2>3, <4>1
    <3>2. \A i, j \in 1..n + 1 : stack'[i].node = stack'[j].node => i = j
      BY <1>5, <2>2, <2>3, <2>4, <3>1 DEF GraphInv, StackInv
    <3>3. ASSUME NEW i \in 1..n + 1 PROVE Explored(i)'
      <4>1. i \in 1..n - 1 \/ i = n \/ i = n + 1
        BY <1>5
      <4> QED
        BY <2>5, <2>6, <2>7, <4>1
    <3> QED
      BY <2>3, <3>2, <3>3 DEF StackInv
  <2>9. GraphTypeOK'
    BY <1>1, <2>3 DEF GraphInv, GraphTypeOK
  <2> QED
    BY <1>2, <1>3, <1>4, <2>8, <2>9 DEF GraphInv
<1> QED
  BY <1>9, <1>10

-----------------------------------------------------------------------------
LEMMA GraphInvStutter == GraphInv /\ UNCHANGED graphVars => GraphInv'
<1> SUFFICES ASSUME GraphInv, UNCHANGED graphVars PROVE GraphInv'
  OBVIOUS
<1> USE DEF graphVars, GraphInv
<1>1. MappedTo' = MappedTo
  BY DEF MappedTo
<1>2. (at' # "malformed" => MapInv') /\ VisitedInv' /\ StackInv'
  BY <1>1, MapKept, VisitedKept, StackKept
<1>3. GraphTypeOK' /\ CheckInv' /\ SearchInv'
  BY DEF GraphTypeOK, CheckInv, Known, SearchInv, Pending, Dependency, OnStack, Top
<1> QED
  BY <1>2, <1>3

LEMMA GraphInvStep == GraphInv /\ [GraphNext]_graphVars => GraphInv'
<1> SUFFICES ASSUME GraphInv, [GraphNext]_graphVars PROVE GraphInv'
  OBVIOUS
<1>1. CASE \E list \in CellLists : Begin(list)
  BY <1>1, GraphInvBegin
<1>2. CASE Check
  BY <1>2, GraphInvMapCell, GraphInvMapDone, GraphInvCheckCell, GraphInvCheckDone DEF Check
<1>3. CASE Search
  BY <1>3, GraphInvNextRoot, GraphInvCycleFound, GraphInvDescend, GraphInvLeave, GraphInvAccept
     DEF Search
<1>4. CASE Quit
  BY <1>4, GraphInvQuit
<1>5. CASE UNCHANGED graphVars
  BY <1>5, GraphInvStutter
<1> QED
  BY <1>1, <1>2, <1>3, <1>4, <1>5 DEF GraphNext, GraphStep

(* A dependency on the stack closes a cycle: the calls from it up.         *)
LEMMA CycleStuck ==
  ASSUME GraphInv, at = "cyclic"
  PROVE  \E S \in SUBSET Ids : S # {} /\ Stuck(S)
<1>1. PICK n \in Nat \ {0} : n = Len(stack)
  BY TopFacts DEF GraphInv, SearchInv
<1>2. /\ DOMAIN stack = 1..n /\ Top = stack[n] /\ Top.node \in Ids
      /\ Top.dep \in Nat \ {0} /\ \A i \in 1..n : stack[i].dep \in Nat \ {0}
      /\ Top.dep <= Len(cellMap[Top.node])
  <2>1. \A i \in 1..n : stack[i] \in Frame
    BY <1>1, TopFacts DEF GraphInv, SearchInv
  <2> QED
    BY <1>1, <2>1, TopFacts DEF GraphInv, SearchInv, Pending, Frame
<1>3. PICK k \in 1..n : stack[k].node = Dependency
  BY <1>2 DEF GraphInv, SearchInv, OnStack
<1>4. \A i \in 1..n : Explored(i)
  BY <1>2 DEF GraphInv, StackInv
<1>5. /\ DOMAIN cellMap = Ids
      /\ \A m \in Ids : /\ DOMAIN cellMap[m] = 1..Len(cellMap[m])
                         /\ Len(cellMap[m]) \in Nat
  BY SearchFacts DEF Searched
<1> DEFINE S == {stack[i].node : i \in k..n}
<1>6. S \in SUBSET Ids /\ S # {}
  <2>1. \A i \in k..n : stack[i].node \in Ids
    BY <1>4, <1>5 DEF Explored
  <2>2. k \in k..n
    OBVIOUS
  <2> QED
    BY <2>1, <2>2
<1>7. ASSUME NEW i \in k..n PROVE \E m \in DepsOf(stack[i].node) : m \in S
  <2>1. CASE i = n
    <3>1. Dependency \in DepsOf(Top.node)
      BY <1>2, <1>5 DEF DepsOf, Dependency
    <3>2. Dependency \in S
      BY <1>3
    <3> QED
      BY <1>2, <2>1, <3>1, <3>2
  <2>2. CASE i # n
    <3>1. i + 1 \in k..n /\ i \in 1..n /\ i < Len(stack)
      BY <1>1, <2>2
    <3>2. /\ stack[i].node \in Ids /\ stack[i].dep > 1
          /\ stack[i].dep <= Len(cellMap[stack[i].node]) + 1
          /\ cellMap[stack[i].node][stack[i].dep - 1] = stack[i + 1].node
      BY <1>4, <1>5, <3>1 DEF Explored
    <3>3. stack[i].dep - 1 \in DOMAIN cellMap[stack[i].node]
      BY <1>2, <1>5, <3>1, <3>2
    <3>4. stack[i + 1].node \in DepsOf(stack[i].node)
      BY <3>2, <3>3 DEF DepsOf
    <3> QED
      BY <3>1, <3>4
  <2> QED
    BY <2>1, <2>2
<1>8. Stuck(S)
  BY <1>7 DEF Stuck
<1> QED
  BY <1>6, <1>8

LEMMA GraphInvVerdict == GraphInv => VerdictCorrect
<1> SUFFICES ASSUME GraphInv PROVE VerdictCorrect
  OBVIOUS
<1>1. Len(cells) \in Nat /\ DOMAIN cells = 1..Len(cells)
  BY LenProperties DEF GraphInv, GraphTypeOK
<1>2. at \notin {"map", "malformed"} => LastKept
  <2>1. at # "map" => MappedTo = Len(cells)
    BY DEF MappedTo
  <2> QED
    BY <1>1, <2>1 DEF GraphInv, MapInv, LastUpTo, LastKept, Ids
<1>3. ASSUME at = "accepted"
      PROVE  /\ \A i \in DOMAIN cells : \A j \in DOMAIN cells[i].deps : cells[i].deps[j] \in Ids
             /\ \A S \in SUBSET Ids : S # {} => ~Stuck(S)
  <2>1. DOMAIN cellMap = Ids
    BY <1>2, <1>3 DEF LastKept
  <2>2. \A i \in DOMAIN cells : Known(i)
    BY <1>3 DEF GraphInv, CheckInv, Searched
  <2>3. Ids \subseteq visited
    BY <1>3 DEF GraphInv, SearchInv, Ids
  <2> QED
    BY <2>1, <2>2, <2>3 DEF Known, GraphInv, VisitedInv
<1>4. at = "cyclic" => \E S \in SUBSET Ids : S # {} /\ Stuck(S)
  BY CycleStuck
<1>5. ASSUME at = "unknown"
      PROVE  \E i \in DOMAIN cells : \E j \in DOMAIN cells[i].deps : cells[i].deps[j] \notin Ids
  <2>1. DOMAIN cellMap = Ids
    BY <1>2, <1>5 DEF LastKept
  <2>2. next \in DOMAIN cells /\ ~Known(next)
    BY <1>1, <1>5 DEF GraphInv, CheckInv, GraphTypeOK
  <2> QED
    BY <2>1, <2>2 DEF Known
<1> QED
  BY <1>2, <1>3, <1>4, <1>5 DEF VerdictCorrect, Verdicts

(* The validation alone: whatever plan it is given, it decides right.      *)
THEOREM GraphCorrect == GraphSpec => []VerdictCorrect
<1>1. GraphSpec => []GraphInv
  BY GraphInvInit, GraphInvStep, PTL DEF GraphSpec
<1> QED
  BY <1>1, GraphInvVerdict, PTL

-----------------------------------------------------------------------------
(* The commands.  The graph they validate is the plan's, and a plan goes   *)
(* on only when it has been accepted.                                      *)

PhaseInv ==
  /\ phase \in {"swarm", "read", "remove"} => cmd = "dynamic" /\ plan \in Plan
  /\ phase = "validate" => cmd \in Commands /\ plan \in Plan /\ plan.cells = cells
  /\ phase = "write" => cmd \in {"plan", "dynamic"}
  /\ phase = "decide" => cmd \in {"gate", "once"}
  /\ phase = "start" => cmd \in {"once", "run"}
  /\ phase \in {"write", "start"} \/ (phase = "decide" /\ cmd = "once") =>
       plan \in Plan /\ at = "accepted" /\ plan.cells = cells

PipeInv ==
  /\ GraphInv
  /\ CmdTypeOK
  /\ PhaseInv

LEMMA GraphStepKeeps == GraphStep => UNCHANGED cells
BY DEF GraphStep, Check, Search, MapCell, MapDone, CheckCell, CheckDone, NextRoot,
       CycleFound, Descend, Leave, Accept

LEMMA NoGateType == NoGate \in GateResult
BY DEF NoGate, GateResult

LEMMA ResultType ==
  ASSUME CmdTypeOK, plan # NoPlan, NEW about \in BOOLEAN, NEW by \in {"fixture", "covenant"},
         NEW decision \in {"allow", "deny", "indeterminate", "invalid"}
  PROVE  /\ Result(decision, about, by) \in GateResult
         /\ Result(decision, about, by).status = "allowed" => decision = "allow"
         /\ Result(decision, about, by).plan = plan.of
         /\ Result(decision, about, by).decision = decision
         /\ Result(decision, about, by).by = by
<1>1. plan.of \in Briefs
  BY DEF CmdTypeOK, NoPlan, Plan
<1>2. /\ StatusOf(decision) \in {"allowed", "denied", "blocked"}
      /\ StatusOf(decision) = "allowed" => decision = "allow"
  BY DEF StatusOf
<1> QED
  BY <1>1, <1>2 DEF Result, GateResult

LEMMA DecisionsType ==
  ASSUME CmdTypeOK
  PROVE  Decisions \subseteq GateResult
<1>1. CASE plan = NoPlan
  BY <1>1, NoGateType DEF Decisions
<1>2. CASE plan # NoPlan
  <2>1. Rule \in GateResult
    BY <1>2, ResultType DEF Rule
  <2>2. Result("invalid", FALSE, "covenant") \in GateResult
    BY <1>2, ResultType
  <2>3. [Result("deny", FALSE, "covenant") EXCEPT !.status = "blocked"] \in GateResult
    <3>1. Result("deny", FALSE, "covenant") \in GateResult
      BY <1>2, ResultType
    <3> QED
      BY <3>1 DEF GateResult
  <2>4. ASSUME NEW f \in Fixtures PROVE FromFixture(f) \in GateResult
    <3>1. /\ f.decision \in {"allow", "deny", "indeterminate", "other", "malformed"}
          /\ f.aboutRelease \in BOOLEAN
      BY PipelineAssumption DEF Fixture
    <3>2. /\ Result("invalid", FALSE, "fixture") \in GateResult
          /\ Result("invalid", f.aboutRelease, "fixture") \in GateResult
          /\ Result(f.decision, f.aboutRelease, "fixture") \in GateResult
               \/ f.decision \notin {"allow", "deny", "indeterminate", "invalid"}
      <4>1. f.decision \in {"allow", "deny", "indeterminate", "invalid"} =>
              Result(f.decision, f.aboutRelease, "fixture") \in GateResult
        BY <1>2, <3>1, ResultType
      <4>2. \A about \in BOOLEAN : Result("invalid", about, "fixture") \in GateResult
        BY <1>2, ResultType
      <4> QED
        BY <3>1, <4>1, <4>2
    <3>3. CASE f.decision = "malformed"
      BY <3>2, <3>3 DEF FromFixture
    <3>4. CASE f.decision # "malformed" /\ (f.target # plan.of \/ f.decision = "other")
      BY <3>2, <3>4 DEF FromFixture
    <3>5. CASE f.decision \in {"allow", "deny", "indeterminate"} /\ f.target = plan.of
      <4>1. FromFixture(f) = Result(f.decision, f.aboutRelease, "fixture")
        BY <3>5 DEF FromFixture
      <4> QED
        BY <3>2, <3>5, <4>1
    <3> QED
      BY <3>1, <3>3, <3>4, <3>5
  <2> QED
    BY <1>2, <2>1, <2>2, <2>3, <2>4 DEF Decisions, FromCovenant
<1> QED
  BY <1>1, <1>2

LEMMA PipeInvInit == Init => PipeInv
<1> SUFFICES ASSUME Init PROVE PipeInv
  OBVIOUS
<1>1. GraphInv
  BY GraphInvInit DEF Init
<1>2. CmdTypeOK
  <2>1. commands \in 0..MaxCommands
    BY PipelineAssumption DEF Init
  <2>2. gate \in GateResult
    BY NoGateType DEF Init
  <2>3. left \in BOOLEAN
    BY DEF Init
  <2> QED
    BY <2>1, <2>2, <2>3 DEF Init, CmdTypeOK, NoPlan
<1>3. PhaseInv
  BY DEF Init, PhaseInv
<1> QED
  BY <1>1, <1>2, <1>3 DEF PipeInv

(* What is left when a command has returned.                               *)
LEMMA Returned ==
  ASSUME PipeInv, Return,
         output' \in SwarmLists \cup {Unparsable, Nothing},
         planFile' \in Plan \cup {Nothing, Torn},
         gateFile' \in GateResult \cup {Nothing},
         left' \in BOOLEAN, ran' \in Run \cup {Nothing}
  PROVE  PipeInv'
<1>1. GraphInv'
  BY GraphInvQuit DEF Return
<1>2. NoGate \in GateResult
  BY NoGateType
<1>3. CmdTypeOK'
  BY <1>2 DEF PipeInv, CmdTypeOK, Return, NoPlan
<1>4. PhaseInv'
  BY DEF PhaseInv, Return
<1> QED
  BY <1>1, <1>3, <1>4 DEF PipeInv

LEMMA StepCommand == PipeInv /\ Command => PipeInv'
<1> SUFFICES ASSUME PipeInv, Command PROVE PipeInv'
  OBVIOUS
<1> USE DEF PipeInv, Give
<1>1. CASE Compile
  <2>1. PICK b \in Briefs, c \in {"plan", "once"} :
          /\ Give(c)
          /\ plan' = [of |-> b, cells |-> b.cells]
          /\ phase' = "validate"
          /\ Begin(b.cells)
    BY <1>1 DEF Compile
  <2>2. b.cells \in CellLists
    BY PipelineAssumption DEF Brief
  <2>3. plan' \in Plan /\ plan'.cells = cells'
    BY <2>1, <2>2 DEF Plan, Begin
  <2>4. GraphInv'
    BY <2>1, <2>2, GraphInvBegin
  <2>5. CmdTypeOK'
    BY <2>1, <2>3, PipelineAssumption DEF CmdTypeOK, Commands
  <2>6. PhaseInv'
    BY <2>1, <2>3 DEF PhaseInv, Commands
  <2> QED
    BY <2>4, <2>5, <2>6
<1>2. CASE CompileDynamic
  <2>1. PICK b \in Briefs :
          /\ Give("dynamic")
          /\ plan' = [of |-> b, cells |-> <<>>]
          /\ phase' = "swarm"
          /\ UNCHANGED graphVars
    BY <1>2 DEF CompileDynamic
  <2>2. plan' \in Plan
    BY <2>1 DEF Plan, Unparsable
  <2>3. GraphInv'
    BY <2>1, GraphInvStutter
  <2>4. CmdTypeOK'
    BY <2>1, <2>2, PipelineAssumption DEF CmdTypeOK, Commands
  <2>5. PhaseInv'
    BY <2>1, <2>2 DEF PhaseInv
  <2> QED
    BY <2>3, <2>4, <2>5
<1>3. CASE ReadPlan
  <2>1. PICK c \in {"gate", "run"} : Give(c)
    BY <1>3 DEF ReadPlan
  <2>2. planFile \in Plan /\ plan' = planFile /\ phase' = "validate" /\ Begin(planFile.cells)
    BY <1>3 DEF ReadPlan, CmdTypeOK
  <2>3. planFile.cells \in CellLists /\ plan' \in Plan /\ plan'.cells = cells'
    BY <2>2 DEF Begin, Plan, Unparsable
  <2>4. GraphInv'
    BY <2>2, <2>3, GraphInvBegin
  <2>5. CmdTypeOK'
    BY <2>1, <2>2, <2>3, PipelineAssumption DEF CmdTypeOK, Commands
  <2>6. PhaseInv'
    BY <2>1, <2>2, <2>3 DEF PhaseInv, Commands
  <2> QED
    BY <2>4, <2>5, <2>6
<1>4. CASE ReadNoPlan
  <2>1. GraphInv'
    BY <1>4, GraphInvStutter DEF ReadNoPlan
  <2>2. CmdTypeOK'
    BY <1>4, PipelineAssumption DEF ReadNoPlan, CmdTypeOK, Commands
  <2>3. PhaseInv'
    BY <1>4 DEF ReadNoPlan, PhaseInv
  <2> QED
    BY <2>1, <2>2, <2>3
<1> QED
  BY <1>1, <1>2, <1>3, <1>4 DEF Command

LEMMA StepDynamic == PipeInv /\ Dynamic => PipeInv'
<1> SUFFICES ASSUME PipeInv, Dynamic PROVE PipeInv'
  OBVIOUS
<1>1. CASE Swarm
  <2>1. PICK w \in SwarmLists \cup {Unparsable, Nothing} :
          /\ output' = IF w = Nothing THEN output ELSE w
          /\ \/ /\ made' = w /\ phase' = "read"
                /\ UNCHANGED <<graphVars, commands, cmd, plan, gate, left>>
             \/ left' = (left \/ output' # Nothing) /\ Return
    BY <1>1 DEF Swarm
  <2>2. /\ output' \in SwarmLists \cup {Unparsable, Nothing}
        /\ UNCHANGED <<planFile, gateFile, ran>> /\ phase = "swarm"
    BY <1>1, <2>1 DEF Swarm, PipeInv, CmdTypeOK
  <2>3. CASE left' = (left \/ output' # Nothing) /\ Return
    BY <2>2, <2>3, Returned DEF PipeInv, CmdTypeOK
  <2>4. CASE /\ made' = w /\ phase' = "read"
             /\ UNCHANGED <<graphVars, commands, cmd, plan, gate, left>>
    <3>1. GraphInv'
      BY <2>4, GraphInvStutter DEF PipeInv
    <3>2. CmdTypeOK' /\ PhaseInv'
      BY <2>2, <2>4 DEF PipeInv, CmdTypeOK, PhaseInv
    <3> QED
      BY <3>1, <3>2 DEF PipeInv
  <2> QED
    BY <2>1, <2>3, <2>4
<1>2. CASE ReadOutput
  <2>1. UNCHANGED <<output, planFile, gateFile, left, ran>> /\ phase = "read"
    BY <1>2 DEF ReadOutput
  <2>2. CASE output = Nothing
    <3>1. Return
      BY <1>2, <2>2 DEF ReadOutput
    <3> QED
      BY <2>1, <3>1, Returned DEF PipeInv, CmdTypeOK
  <2>3. CASE output # Nothing
    <3>1. /\ plan' = [plan EXCEPT !.cells = output] /\ phase' = "remove"
          /\ UNCHANGED <<graphVars, commands, cmd, gate, made>>
      BY <1>2, <2>3 DEF ReadOutput
    <3>2. output \in CellLists \cup {Unparsable} /\ plan \in Plan /\ cmd = "dynamic"
      BY <2>1, <2>3, PipelineAssumption DEF PipeInv, CmdTypeOK, PhaseInv
    <3>3. plan' \in Plan
      BY <3>1, <3>2 DEF Plan
    <3>4. GraphInv'
      BY <3>1, GraphInvStutter DEF PipeInv
    <3>5. CmdTypeOK' /\ PhaseInv'
      BY <2>1, <3>1, <3>2, <3>3 DEF PipeInv, CmdTypeOK, PhaseInv
    <3> QED
      BY <3>4, <3>5 DEF PipeInv
  <2> QED
    BY <2>2, <2>3
<1>3. CASE RemoveOutput
  <2>1. /\ UNCHANGED <<planFile, gateFile, ran>> /\ phase = "remove"
        /\ output' \in {Nothing, output} /\ left' \in BOOLEAN
        /\ plan \in Plan /\ cmd = "dynamic"
    BY <1>3 DEF RemoveOutput, Removed, PipeInv, CmdTypeOK, PhaseInv
  <2>2. CASE plan.cells = Unparsable
    <3>1. Return
      BY <1>3, <2>2 DEF RemoveOutput
    <3> QED
      BY <2>1, <3>1, Returned DEF PipeInv, CmdTypeOK
  <2>3. CASE plan.cells # Unparsable
    <3>1. Begin(plan.cells) /\ phase' = "validate" /\ UNCHANGED <<commands, cmd, plan, gate, made>>
      BY <1>3, <2>3 DEF RemoveOutput
    <3>2. plan.cells \in CellLists
      BY <2>1, <2>3 DEF Plan
    <3>3. GraphInv'
      BY <3>1, <3>2, GraphInvBegin DEF PipeInv
    <3>4. cells' = plan.cells
      BY <3>1 DEF Begin
    <3>5. CmdTypeOK' /\ PhaseInv'
      BY <2>1, <3>1, <3>4 DEF PipeInv, CmdTypeOK, PhaseInv, Commands
    <3> QED
      BY <3>3, <3>5 DEF PipeInv
  <2> QED
    BY <2>2, <2>3
<1> QED
  BY <1>1, <1>2, <1>3 DEF Dynamic

LEMMA StepValidate == PipeInv /\ (Validate \/ Accepted \/ Refused \/ WritePlan) => PipeInv'
<1> SUFFICES ASSUME PipeInv, Validate \/ Accepted \/ Refused \/ WritePlan PROVE PipeInv'
  OBVIOUS
<1>1. CASE Validate
  <2>1. phase = "validate" /\ GraphStep /\ UNCHANGED cmdVars /\ UNCHANGED cells
    BY <1>1, GraphStepKeeps DEF Validate
  <2>2. GraphInv'
    BY <2>1, GraphInvStep DEF PipeInv, GraphNext
  <2>3. CmdTypeOK' /\ PhaseInv'
    BY <2>1 DEF PipeInv, CmdTypeOK, PhaseInv, cmdVars
  <2> QED
    BY <2>2, <2>3 DEF PipeInv
<1>2. CASE Accepted
  <2>1. /\ phase = "validate" /\ at = "accepted" /\ phase' = Onward(cmd)
        /\ UNCHANGED <<graphVars, commands, cmd, plan, gate, output, planFile, gateFile, made,
                       left, ran>>
        /\ UNCHANGED <<at, cells>>
    BY <1>2 DEF Accepted, graphVars
  <2>2. /\ cmd \in {"plan", "dynamic"} => phase' = "write"
        /\ cmd \in {"gate", "once"} => phase' = "decide"
        /\ cmd = "run" => phase' = "start"
        /\ cmd \in {"plan", "dynamic", "gate", "once", "run"}
        /\ plan \in Plan /\ plan.cells = cells
    BY <2>1 DEF Onward, PipeInv, PhaseInv, Commands
  <2>3. GraphInv'
    BY <2>1, GraphInvStutter DEF PipeInv
  <2>4. CmdTypeOK' /\ PhaseInv'
    BY <2>1, <2>2 DEF PipeInv, CmdTypeOK, PhaseInv
  <2> QED
    BY <2>3, <2>4 DEF PipeInv
<1>3. CASE Refused
  <2>1. phase = "validate" /\ UNCHANGED <<output, planFile, gateFile, left, ran>>
    BY <1>3 DEF Refused
  <2>2. CASE cmd = "gate"
    <3>1. /\ plan' = NoPlan /\ phase' = "decide"
          /\ UNCHANGED <<graphVars, commands, cmd, gate, made>>
      BY <1>3, <2>2 DEF Refused
    <3>2. GraphInv'
      BY <3>1, GraphInvStutter DEF PipeInv
    <3>3. CmdTypeOK' /\ PhaseInv'
      BY <2>1, <2>2, <3>1 DEF PipeInv, CmdTypeOK, PhaseInv, NoPlan
    <3> QED
      BY <3>2, <3>3 DEF PipeInv
  <2>3. CASE cmd # "gate"
    <3>1. Return
      BY <1>3, <2>3 DEF Refused
    <3> QED
      BY <2>1, <3>1, Returned DEF PipeInv, CmdTypeOK
  <2> QED
    BY <2>2, <2>3
<1>4. CASE WritePlan
  <2>1. /\ Return /\ UNCHANGED <<output, gateFile, left, ran>>
        /\ planFile' \in {plan, planFile, Torn}
    BY <1>4 DEF WritePlan
  <2> QED
    BY <2>1, Returned DEF PipeInv, CmdTypeOK
<1> QED
  BY <1>1, <1>2, <1>3, <1>4

LEMMA StepDecide == PipeInv /\ Decide => PipeInv'
<1> SUFFICES ASSUME PipeInv, Decide PROVE PipeInv'
  OBVIOUS
<1>1. PICK g \in Decisions :
        \/ /\ cmd = "gate"
           /\ gateFile' \in {g, gateFile, Nothing}
           /\ Return
        \/ /\ cmd = "once"
           /\ gate' = g
           /\ phase' = "start"
           /\ UNCHANGED <<graphVars, commands, cmd, plan, gateFile, made>>
  BY DEF Decide
<1>2. g \in GateResult /\ phase = "decide" /\ UNCHANGED <<output, planFile, left, ran>>
  BY DecisionsType DEF Decide, PipeInv
<1>3. CASE gateFile' \in {g, gateFile, Nothing} /\ Return
  BY <1>2, <1>3, Returned DEF PipeInv, CmdTypeOK
<1>4. CASE /\ cmd = "once" /\ gate' = g /\ phase' = "start"
           /\ UNCHANGED <<graphVars, commands, cmd, plan, gateFile, made>>
  <2>1. GraphInv'
    BY <1>4, GraphInvStutter DEF PipeInv
  <2>2. UNCHANGED <<at, cells>>
    BY <1>4 DEF graphVars
  <2>3. CmdTypeOK' /\ PhaseInv'
    BY <1>2, <1>4, <2>2 DEF PipeInv, CmdTypeOK, PhaseInv
  <2> QED
    BY <2>1, <2>3 DEF PipeInv
<1> QED
  BY <1>1, <1>3, <1>4

LEMMA StepStart == PipeInv /\ (Start \/ Blocked \/ Kill) => PipeInv'
<1> SUFFICES ASSUME PipeInv, Start \/ Blocked \/ Kill PROVE PipeInv'
  OBVIOUS
<1>1. CASE Start
  <2>1. PICK by \in {"gate", "confirmation", "operator"} :
          ran' = [plan |-> plan, gate |-> GateRead, cleared |-> by]
    BY <1>1 DEF Start
  <2>2. plan \in Plan /\ GateRead \in GateResult
    BY <1>1 DEF Start, GateRead, PipeInv, CmdTypeOK, PhaseInv
  <2>3. ran' \in Run
    BY <2>1, <2>2 DEF Run
  <2> QED
    BY <1>1, <2>3, Returned DEF Start, PipeInv, CmdTypeOK
<1>2. CASE Blocked
  BY <1>2, Returned DEF Blocked, PipeInv, CmdTypeOK
<1>3. CASE Kill
  BY <1>3, Returned DEF Kill, PipeInv, CmdTypeOK
<1> QED
  BY <1>1, <1>2, <1>3

LEMMA PipeInvStep == PipeInv /\ [Next]_vars => PipeInv'
<1> SUFFICES ASSUME PipeInv, [Next]_vars PROVE PipeInv'
  OBVIOUS
<1>1. CASE Next
  BY <1>1, StepCommand, StepDynamic, StepValidate, StepDecide, StepStart DEF Next, Work
<1>2. CASE UNCHANGED vars
  <2>1. GraphInv'
    BY <1>2, GraphInvStutter DEF PipeInv, vars
  <2>2. CmdTypeOK' /\ PhaseInv'
    BY <1>2 DEF PipeInv, CmdTypeOK, PhaseInv, vars, cmdVars, graphVars
  <2> QED
    BY <2>1, <2>2 DEF PipeInv
<1> QED
  BY <1>1, <1>2

LEMMA PipeAlways == Spec => []PipeInv
BY PipeInvInit, PipeInvStep, PTL DEF Spec

(* Every state of the commands and of the files they share has its type.   *)
THEOREM PipelineTypeCorrect == Spec => []TypeOK
<1>1. PipeInv => TypeOK
  BY DEF PipeInv, GraphInv, TypeOK
<1> QED
  BY <1>1, PipeAlways, PTL

(* Whatever plan forge plan, gate, run or once is given, of any size,      *)
(* validatePlan decides right.                                             *)
THEOREM PipelineVerdict == Spec => []VerdictCorrect
<1>1. PipeInv => VerdictCorrect
  BY GraphInvVerdict DEF PipeInv
<1> QED
  BY <1>1, PipeAlways, PTL

-----------------------------------------------------------------------------
(* What the commands leave behind.                                         *)

(* A result that allows was made by a decision that allowed its plan.      *)
Honest(g) ==
  g.status = "allowed" =>
    /\ g.decision = "allow"
    /\ g.by = "fixture" => \E f \in Fixtures : f.decision = "allow" /\ f.target = g.plan
    /\ g.by = "covenant" => ~g.plan.network /\ ~g.plan.mutation

ClearInv ==
  /\ Honest(gate)
  /\ gateFile # Nothing => Honest(gateFile)
  /\ ClearedByDecision

(* Where the files, the gate result in memory and the run come from.       *)
LEMMA Moves ==
  ASSUME [Next]_vars
  PROVE  /\ gate' \in {gate, NoGate} \cup Decisions
         /\ gateFile' \in {gateFile, Nothing} \cup Decisions
         /\ planFile' \in {planFile, Torn} \/ (phase = "write" /\ planFile' = plan)
         /\ ran' \in {ran, Nothing} \/ Start
<1> USE DEF Return
<1>1. CASE Command
  BY <1>1 DEF Command, Compile, CompileDynamic, ReadPlan, ReadNoPlan, Give
<1>2. CASE Dynamic
  <2>1. UNCHANGED <<planFile, gateFile, ran>> /\ gate' \in {gate, NoGate}
    BY <1>2 DEF Dynamic, Swarm, ReadOutput, RemoveOutput
  <2> QED
    BY <2>1
<1>3. CASE Validate \/ Accepted \/ Refused
  <2>1. UNCHANGED <<planFile, gateFile, ran>> /\ gate' \in {gate, NoGate}
    BY <1>3 DEF Validate, Accepted, Refused, cmdVars
  <2> QED
    BY <2>1
<1>4. CASE WritePlan
  BY <1>4 DEF WritePlan
<1>5. CASE Decide
  <2>1. PICK g \in Decisions :
          \/ gateFile' \in {g, gateFile, Nothing} /\ gate' = NoGate
          \/ gate' = g /\ UNCHANGED gateFile
    BY <1>5 DEF Decide
  <2> QED
    BY <1>5, <2>1 DEF Decide
<1>6. CASE Start \/ Blocked \/ Kill
  BY <1>6 DEF Start, Blocked, Kill
<1>7. CASE UNCHANGED vars
  BY <1>7 DEF vars, cmdVars
<1> QED
  BY <1>1, <1>2, <1>3, <1>4, <1>5, <1>6, <1>7 DEF Next, Work

LEMMA NoGateHonest == Honest(NoGate)
BY DEF Honest, NoGate

LEMMA DecisionsHonest ==
  ASSUME CmdTypeOK, NEW g \in Decisions
  PROVE  Honest(g)
<1>1. CASE plan = NoPlan
  BY <1>1, NoGateHonest DEF Decisions
<1>2. CASE plan # NoPlan
  <2>1. CASE g = Rule
    <3>1. /\ Result("deny", FALSE, "covenant").status # "allowed"
          /\ Result("indeterminate", TRUE, "covenant").status # "allowed"
          /\ Result("indeterminate", FALSE, "covenant").status # "allowed"
      BY DEF Result, StatusOf
    <3>2. CASE ~plan.of.mutation /\ ~plan.of.network
      <4>1. g = Result("allow", FALSE, "covenant")
        BY <2>1, <3>2 DEF Rule
      <4>2. g.decision = "allow" /\ g.by = "covenant" /\ g.plan = plan.of
        BY <4>1 DEF Result
      <4> QED
        BY <3>2, <4>2 DEF Honest
    <3>3. CASE plan.of.mutation \/ plan.of.network
      <4>1. g.status # "allowed"
        BY <2>1, <3>1, <3>3 DEF Rule
      <4> QED
        BY <4>1 DEF Honest
    <3> QED
      BY <3>2, <3>3
  <2>2. CASE g = Result("invalid", FALSE, "covenant")
    BY <1>2, <2>2, ResultType DEF Honest
  <2>3. CASE g = [Result("deny", FALSE, "covenant") EXCEPT !.status = "blocked"]
    <3>1. g.status = "blocked"
      BY <2>3 DEF Result
    <3> QED
      BY <3>1 DEF Honest
  <2>4. ASSUME NEW f \in Fixtures, g = FromFixture(f) PROVE Honest(g)
    <3>1. /\ f.decision \in {"allow", "deny", "indeterminate", "other", "malformed"}
          /\ f.aboutRelease \in BOOLEAN
      BY PipelineAssumption DEF Fixture
    <3>2. CASE f.decision = "allow" /\ f.target = plan.of
      <4>1. g = Result("allow", f.aboutRelease, "fixture")
        BY <2>4, <3>2 DEF FromFixture
      <4>2. g.decision = "allow" /\ g.plan = plan.of /\ g.by = "fixture"
        BY <1>2, <3>1, <4>1, ResultType
      <4> QED
        BY <3>2, <4>2 DEF Honest
    <3>3. CASE ~(f.decision = "allow" /\ f.target = plan.of)
      <4>1. PICK decision \in {"deny", "indeterminate", "invalid"}, about \in BOOLEAN :
              g = Result(decision, about, "fixture")
        BY <2>4, <3>1, <3>3 DEF FromFixture
      <4>2. g.status # "allowed"
        BY <1>2, <4>1, ResultType
      <4> QED
        BY <4>2 DEF Honest
    <3> QED
      BY <3>2, <3>3
  <2> QED
    BY <1>2, <2>1, <2>2, <2>3, <2>4 DEF Decisions, FromCovenant
<1> QED
  BY <1>1, <1>2

LEMMA ClearInvStep == PipeInv /\ ClearInv /\ [Next]_vars => ClearInv'
<1> SUFFICES ASSUME PipeInv, ClearInv, [Next]_vars PROVE ClearInv'
  OBVIOUS
<1>1. \A g \in Decisions : Honest(g)
  BY DecisionsHonest DEF PipeInv
<1>2. Honest(gate') /\ (gateFile' # Nothing => Honest(gateFile'))
  BY <1>1, Moves, NoGateHonest DEF ClearInv
<1>3. ClearedByDecision'
  <2>1. CASE ran' \in {ran, Nothing}
    BY <2>1 DEF ClearInv, ClearedByDecision
  <2>2. CASE Start
    <3>1. PICK by \in {"gate", "confirmation", "operator"} :
            /\ Clears(GateRead, by)
            /\ ran' = [plan |-> plan, gate |-> GateRead, cleared |-> by]
      BY <2>2 DEF Start
    <3>2. /\ Honest(GateRead) /\ GateRead.plan = plan.of
          /\ by = "gate" => GateRead.status = "allowed"
      BY <2>2, <3>1 DEF Start, GateRead, Matches, Clears, ClearInv
    <3>3. ran'.plan = plan /\ ran'.gate = GateRead /\ ran'.cleared = by
      BY <3>1
    <3> QED
      BY <3>2, <3>3 DEF Honest, ClearedByDecision
  <2> QED
    BY <2>1, <2>2, Moves
<1> QED
  BY <1>2, <1>3 DEF ClearInv, Honest

(* A run starts, but for its operator's confirmation, because of an        *)
(* allowing decision about its own plan, and Covenant's rule allows no     *)
(* network and no mutation.                                                *)
THEOREM PipelineCleared == Spec => []ClearedByDecision
<1>1. Init => ClearInv
  BY NoGateHonest DEF Init, ClearInv, ClearedByDecision
<1>2. ClearInv => ClearedByDecision
  BY DEF ClearInv
<1> QED
  BY <1>1, <1>2, PipeAlways, ClearInvStep, PTL DEF Spec

LEMMA AcceptedGrounded ==
  ASSUME GraphInv, at = "accepted"
  PROVE  Grounded(cells)
<1>1. /\ DOMAIN cells = 1..Len(cells) /\ Len(cells) \in Nat /\ MappedTo = Len(cells)
      /\ DOMAIN cellMap = Ids /\ Ids = IdsOf(cells)
  BY SearchFacts DEF Searched, Ids, IdsOf
<1>2. \A i \in DOMAIN cells : \A j \in DOMAIN cells[i].deps : cells[i].deps[j] \in IdsOf(cells)
  BY <1>1, GraphInvVerdict DEF VerdictCorrect
<1>3. ASSUME NEW S \in SUBSET IdsOf(cells), S # {}
      PROVE  \E i \in DOMAIN cells :
               /\ cells[i].id \in S
               /\ LastOfId(cells, i)
               /\ \A j \in DOMAIN cells[i].deps : cells[i].deps[j] \notin S
  <2>1. PICK n \in S : \A m \in DepsOf(n) : m \notin S
    BY <1>1, <1>3, GraphInvVerdict DEF VerdictCorrect, Stuck
  <2>2. PICK i \in DOMAIN cells :
          cells[i].id = n /\ LastUpTo(i) /\ cellMap[n] = cells[i].deps
    <3>1. n \in DOMAIN cellMap
      BY <1>1
    <3>2. MapInv
      BY DEF GraphInv
    <3>3. 1..MappedTo = DOMAIN cells
      BY <1>1
    <3> QED
      BY ONLY <3>1, <3>2, <3>3 DEF MapInv
  <2>3. LastOfId(cells, i)
    BY <1>1, <2>2 DEF LastUpTo, LastOfId
  <2> QED
    BY <2>1, <2>2, <2>3 DEF DepsOf
<1> QED
  BY <1>2, <1>3 DEF Grounded

LEMMA GroundedStep == PipeInv /\ PlansGrounded /\ [Next]_vars => PlansGrounded'
<1> SUFFICES ASSUME PipeInv, PlansGrounded, [Next]_vars PROVE PlansGrounded'
  OBVIOUS
<1>1. phase \in {"write", "start"} => Grounded(plan.cells)
  BY AcceptedGrounded DEF PipeInv, PhaseInv
<1>2. planFile' \notin {Nothing, Torn} => Grounded(planFile'.cells)
  BY <1>1, Moves DEF PlansGrounded
<1>3. ran' # Nothing => Grounded(ran'.plan.cells)
  <2>1. Start => ran'.plan = plan /\ phase = "start"
    BY DEF Start
  <2> QED
    BY <1>1, <2>1, Moves DEF PlansGrounded
<1> QED
  BY <1>2, <1>3 DEF PlansGrounded, Grounded, IdsOf, LastOfId

(* No plan is kept or started that the scheduler could not finish: one     *)
(* that lacks a workcell another waits for, or has workcells waiting for   *)
(* each other.                                                             *)
THEOREM PipelineGrounded == Spec => []PlansGrounded
<1>1. Init => PlansGrounded
  BY DEF Init, PlansGrounded
<1> QED
  BY <1>1, PipeAlways, GroundedStep, PTL DEF Spec

-----------------------------------------------------------------------------
(* What the scheduler gets: the workcells of the plan, each of which waits *)
(* for what the last one of its ID depends on.                             *)
WaitsFor(list) ==
  [n \in IdsOf(list) |->
     list[CHOOSE i \in DOMAIN list : list[i].id = n /\ LastOfId(list, i)].deps]

(* What Scheduler assumes of the plan that is run.                         *)
Schedulable(list) ==
  /\ IsFiniteSet(IdsOf(list))
  /\ WaitsFor(list) \in [IdsOf(list) -> Seq(IdsOf(list))]
  /\ \A S \in SUBSET IdsOf(list) : S # {} =>
       \E n \in S : {WaitsFor(list)[n][j] : j \in DOMAIN WaitsFor(list)[n]} \cap S = {}

(* Whatever runs has a plan that Scheduler's assumption holds of.          *)
RunsSchedulable == ran # Nothing => Schedulable(ran.plan.cells)

LEMMA IdsFinite ==
  ASSUME NEW list \in Seq(Cell)
  PROVE  IsFiniteSet(IdsOf(list)) /\ IdsOf(list) \subseteq Names
<1> DEFINE id == [i \in 1..Len(list) |-> list[i].id]
<1>1. Len(list) \in Nat /\ DOMAIN list = 1..Len(list)
  BY LenProperties
<1>2. \A i \in DOMAIN list : list[i] \in Cell
  BY <1>1, ElementOfSeq
<1>3. IsFiniteSet(1..Len(list))
  BY <1>1, FS_Interval
<1>4. id \in Surjection(1..Len(list), IdsOf(list))
  BY <1>1 DEF IdsOf, Surjection
<1>5. IsFiniteSet(IdsOf(list))
  BY <1>3, <1>4, FS_Surjection
<1> QED
  BY <1>2, <1>5 DEF IdsOf, Cell

(* A plan that validatePlan has let through is one that Scheduler's        *)
(* theorems are about.                                                     *)
LEMMA GroundedSchedulable ==
  ASSUME NEW list \in Seq(Cell), Grounded(list)
  PROVE  Schedulable(list)
<1>1. Len(list) \in Nat /\ DOMAIN list = 1..Len(list)
  BY LenProperties
<1>2. ASSUME NEW i \in DOMAIN list
      PROVE  list[i].deps \in Seq(IdsOf(list))
  <2>c. list[i] \in Cell
    BY <1>1, <1>2, ElementOfSeq
  <2>1. list[i].deps \in Seq(Names)
    BY <2>c DEF Cell
  <2>2. \A j \in 1..Len(list[i].deps) : list[i].deps[j] \in IdsOf(list)
    BY <2>1, LenProperties DEF Grounded
  <2> QED
    BY <2>1, <2>2, SeqDef
<1>3. ASSUME NEW n \in IdsOf(list)
      PROVE  \E i \in DOMAIN list :
               list[i].id = n /\ LastOfId(list, i) /\ WaitsFor(list)[n] = list[i].deps
  <2>1. {n} \in SUBSET IdsOf(list) /\ {n} # {}
    OBVIOUS
  <2>2. \E i \in DOMAIN list : list[i].id \in {n} /\ LastOfId(list, i)
    BY <2>1 DEF Grounded
  <2> QED
    BY <2>2 DEF WaitsFor
<1>4. WaitsFor(list) \in [IdsOf(list) -> Seq(IdsOf(list))]
  <2>1. \A n \in IdsOf(list) : WaitsFor(list)[n] \in Seq(IdsOf(list))
    BY <1>2, <1>3
  <2> QED
    BY <2>1 DEF WaitsFor
<1>5. ASSUME NEW S \in SUBSET IdsOf(list), S # {}
      PROVE  \E n \in S : {WaitsFor(list)[n][j] : j \in DOMAIN WaitsFor(list)[n]} \cap S = {}
  <2>1. PICK i \in DOMAIN list :
          /\ list[i].id \in S
          /\ LastOfId(list, i)
          /\ \A j \in DOMAIN list[i].deps : list[i].deps[j] \notin S
    BY <1>5 DEF Grounded
  <2>2. PICK k \in DOMAIN list :
          /\ list[k].id = list[i].id /\ LastOfId(list, k)
          /\ WaitsFor(list)[list[i].id] = list[k].deps
    BY <1>3, <2>1
  <2>3. i = k
    BY <1>1, <2>1, <2>2 DEF LastOfId
  <2> QED
    BY <2>1, <2>2, <2>3
<1> QED
  BY <1>4, <1>5, IdsFinite DEF Schedulable

(* Every run that forge run or forge once starts gives the scheduler a     *)
(* plan of which its assumption holds: finitely many workcells, no unknown *)
(* dependency, no cycle.                                                   *)
THEOREM PipelineSchedulable == Spec => []RunsSchedulable
<1>1. ASSUME PipeInv, PlansGrounded
      PROVE  RunsSchedulable
  <2>1. ran # Nothing => ran.plan.cells \in Seq(Cell)
    <3>1. ran # Nothing => ran.plan.cells \in CellLists \cup {Unparsable}
      BY <1>1 DEF PipeInv, CmdTypeOK, Run, Plan
    <3> QED
      BY <3>1, GraphAssumption, EmptySeq DEF Unparsable
  <2> QED
    BY <1>1, <2>1, GroundedSchedulable DEF PlansGrounded, RunsSchedulable
<1> QED
  BY <1>1, PipeAlways, PipelineGrounded, PTL

(* What is in the workspace, and in a plan made from it, is the command's  *)
(* own swarm's, or somebody was stopped.                                   *)
OutputInv ==
  left \/
    /\ phase \notin {"read", "remove"} => output = Nothing
    /\ phase = "read" => output = made
    /\ phase = "remove" => plan.cells = made
    /\ OwnWorkcells

LEMMA OutputInvStep == PipeInv /\ OutputInv /\ [Next]_vars => OutputInv'
<1> SUFFICES ASSUME PipeInv, OutputInv, [Next]_vars PROVE OutputInv'
  OBVIOUS
<1> USE DEF OutputInv, OwnWorkcells
<1>1. CASE Command
  BY <1>1 DEF Command, Compile, CompileDynamic, ReadPlan, ReadNoPlan, Give
<1>2. CASE Swarm
  <2>1. PICK w \in SwarmLists \cup {Unparsable, Nothing} :
          /\ output' = IF w = Nothing THEN output ELSE w
          /\ \/ /\ made' = w /\ phase' = "read"
                /\ UNCHANGED <<graphVars, commands, cmd, plan, gate, left>>
             \/ left' = (left \/ output' # Nothing) /\ Return
    BY <1>2 DEF Swarm
  <2>2. CASE left' = (left \/ output' # Nothing) /\ Return
    BY <1>2, <2>2 DEF Return
  <2>3. CASE made' = w /\ phase' = "read" /\ UNCHANGED <<graphVars, commands, cmd, plan, gate, left>>
    BY <1>2, <2>1, <2>3 DEF Swarm
  <2> QED
    BY <2>1, <2>2, <2>3
<1>3. CASE ReadOutput
  <2>1. CASE output = Nothing
    BY <1>3, <2>1 DEF ReadOutput, Return
  <2>2. CASE output # Nothing
    <3>1. plan'.cells = output
      BY <1>3, <2>2 DEF ReadOutput, PipeInv, PhaseInv, Plan
    <3> QED
      BY <1>3, <2>2, <3>1 DEF ReadOutput
  <2> QED
    BY <2>1, <2>2
<1>4. CASE RemoveOutput
  BY <1>4 DEF RemoveOutput, Removed, Return
<1>5. CASE Validate
  BY <1>5 DEF Validate, cmdVars
<1>6. CASE Accepted
  <2>1. phase' \in {"write", "decide", "start"}
    BY <1>6 DEF Accepted, Onward, PipeInv, PhaseInv, Commands
  <2> QED
    BY <1>6, <2>1 DEF Accepted
<1>7. CASE Refused \/ WritePlan
  BY <1>7 DEF Refused, WritePlan, Return
<1>8. CASE Decide
  BY <1>8 DEF Decide, Return
<1>9. CASE Start \/ Blocked \/ Kill
  BY <1>9 DEF Start, Blocked, Kill, Return
<1>10. CASE UNCHANGED vars
  BY <1>10 DEF vars, cmdVars
<1> QED
  BY <1>1, <1>2, <1>3, <1>4, <1>5, <1>6, <1>7, <1>8, <1>9, <1>10 DEF Next, Work, Dynamic

(* A dynamic plan never holds what an earlier planner swarm came up with,  *)
(* unless a planning command was stopped before it had removed that.       *)
THEOREM PipelineOwnWorkcells == Spec => []OwnWorkcells
<1>1. Init => OutputInv
  BY DEF Init, OutputInv, OwnWorkcells
<1>2. OutputInv => OwnWorkcells
  BY DEF OutputInv, OwnWorkcells
<1> QED
  BY <1>1, <1>2, PipeAlways, OutputInvStep, PTL DEF Spec

-----------------------------------------------------------------------------
(* Why a command ends.  Fairness apart, that takes two facts: some step of *)
(* the command can be taken until it has returned, and every step brings   *)
(* its end nearer.  For the search that takes the recursion stack: without *)
(* the cycle that OnStack finds it would descend for ever.                 *)

(* What is on the stack is on its way into visited, what is fresh has not  *)
(* been come to.                                                           *)
Entered == {stack[i].node : i \in DOMAIN stack}
Fresh == Ids \ (visited \cup Entered)
Unvisited == Ids \ visited

(* How far the command and its validatePlan are from their end.            *)
PhasesAhead ==
  CASE phase = "swarm" -> 6 [] phase = "read" -> 5 [] phase = "remove" -> 4
    [] phase = "validate" -> 3 [] phase = "decide" -> 2
    [] phase \in {"write", "start"} -> 1 [] OTHER -> 0

LoopsAhead ==
  CASE at = "map" -> 3 [] at = "check" -> 2 [] at = "search" -> 1 [] OTHER -> 0

(* What is left of the current loop: of the one over the workcells, or of  *)
(* the one over the dependencies of the call at the top of the stack.      *)
TurnsAhead ==
  IF stack = <<>> THEN Len(cells) + 1 - next
  ELSE Len(cellMap[Top.node]) + 1 - Top.dep

Rank == 4 * PhasesAhead + LoopsAhead

Ahead == <<Rank, Cardinality(Fresh), Cardinality(Unvisited), TurnsAhead>>

(* Lexicographic: a call that is entered has turns of its own, but one     *)
(* node less is fresh; one that returns goes back to turns of the call     *)
(* below it, but one node more is visited.                                 *)
Below == LexProductOrdering(OpToRel(<, Nat), Nat, 4)

(* Until the command has returned some step of it can be taken.            *)
CanWork ==
  \/ phase \in {"swarm", "read", "write"}
  \/ phase = "remove" /\ (plan.cells # Unparsable => at = "idle")
  \/ phase = "validate" /\ at # "idle"
  \/ phase = "decide" /\ cmd \in {"gate", "once"} /\ Decisions # {}
  \/ /\ phase = "start"
     /\ \/ GateRead # Nothing => ~Matches(GateRead) \/ GateRead.status # "allowed"
        \/ Matches(GateRead) /\ \E by \in {"gate", "confirmation", "operator"} : Clears(GateRead, by)

GoesOn == phase # "idle" => CanWork

(* Every step of a command, also a kill, brings it nearer to its end.      *)
Descends == [][phase # "idle" => <<Ahead', Ahead>> \in Below]_vars

LEMMA Lower ==
  ASSUME NEW a \in Nat, NEW b \in Nat, NEW c \in Nat, NEW d \in Nat,
         NEW p \in Nat, NEW q \in Nat, NEW r \in Nat, NEW s \in Nat,
         \/ p < a
         \/ p = a /\ q < b
         \/ p = a /\ q = b /\ r < c
         \/ p = a /\ q = b /\ r = c /\ s < d
  PROVE  <<<<p, q, r, s>>, <<a, b, c, d>>>> \in Below
<1> DEFINE f == <<a, b, c, d>>
           g == <<p, q, r, s>>
           less == OpToRel(<, Nat)
<1>1. /\ f \in [1..4 -> Nat] /\ f[1] = a /\ f[2] = b /\ f[3] = c /\ f[4] = d
      /\ g \in [1..4 -> Nat] /\ g[1] = p /\ g[2] = q /\ g[3] = r /\ g[4] = s
  OBVIOUS
<1>2. \A m, n \in Nat : m < n => <<m, n>> \in less
  BY SMT DEF OpToRel
<1> HIDE DEF f, g, less
<1>3. \E j \in 1..4 : (\A i \in 1..(j - 1) : g[i] = f[i]) /\ g[j] < f[j]
  <2>1. CASE p < a
    BY <1>1, <2>1
  <2>2. CASE p = a /\ q < b
    BY <1>1, <2>2
  <2>3. CASE p = a /\ q = b /\ r < c
    BY <1>1, <2>3
  <2>4. CASE p = a /\ q = b /\ r = c /\ s < d
    BY <1>1, <2>4
  <2> QED
    BY <2>1, <2>2, <2>3, <2>4
<1>4. PICK j \in 1..4 : (\A i \in 1..(j - 1) : g[i] = f[i]) /\ g[j] < f[j]
  BY <1>3
<1>5. <<g[j], f[j]>> \in less
  BY <1>1, <1>2, <1>4
<1>6. <<g, f>> \in LexProductOrdering(less, Nat, 4)
  BY <1>1, <1>4, <1>5 DEF LexProductOrdering
<1> QED
  BY <1>6 DEF f, g, less, Below

(* All that is left can be counted.                                        *)
Counts ==
  /\ IsFiniteSet(Ids)
  /\ Cardinality(Fresh) \in Nat
  /\ Cardinality(Unvisited) \in Nat
  /\ TurnsAhead \in Nat

LEMMA MeasureNat == GraphInv => Counts
<1> SUFFICES ASSUME GraphInv PROVE Counts
  OBVIOUS
<1> USE DEF Counts
<1>1. IsFiniteSet(Ids)
  BY IdsFinite DEF GraphInv, GraphTypeOK, Ids, IdsOf
<1>2. Cardinality(Fresh) \in Nat /\ Cardinality(Unvisited) \in Nat
  BY <1>1, FS_Subset, FS_CardinalityType DEF Fresh, Unvisited
<1>3. CASE stack = <<>>
  <2>1. Len(cells) \in Nat /\ next \in 1..Len(cells) + 1
    BY LenProperties DEF GraphInv, GraphTypeOK
  <2> QED
    BY <1>1, <1>2, <1>3, <2>1 DEF TurnsAhead
<1>4. CASE stack # <<>>
  <2>1. /\ Len(stack) \in DOMAIN stack /\ Len(stack) \in Nat \ {0}
        /\ stack[Len(stack)] \in Frame
    BY <1>4, LenProperties, EmptySeq, ElementOfSeq DEF GraphInv, GraphTypeOK
  <2>2. /\ Top.node \in DOMAIN cellMap /\ Top.dep \in Nat
        /\ Top.dep <= Len(cellMap[Top.node]) + 1
    BY <2>1 DEF GraphInv, StackInv, Explored, Top, Frame
  <2>3. Len(cellMap[Top.node]) \in Nat
    <3>1. cellMap[Top.node] \in Seq(Names)
      BY <2>2 DEF GraphInv, GraphTypeOK
    <3> QED
      BY <3>1, LenProperties
  <2> QED
    BY <1>1, <1>2, <1>4, <2>2, <2>3 DEF TurnsAhead
<1> QED
  BY <1>3, <1>4

(* A set that loses elements has fewer of them.                            *)
LEMMA Fewer ==
  ASSUME NEW S, IsFiniteSet(S), NEW T, T \subseteq S, NEW x \in S, x \notin T
  PROVE  Cardinality(T) \in Nat /\ Cardinality(S) \in Nat /\ Cardinality(T) < Cardinality(S)
<1>1. T \in SUBSET S /\ T # S
  OBVIOUS
<1>2. IsFiniteSet(T) /\ Cardinality(T) <= Cardinality(S) /\ Cardinality(T) # Cardinality(S)
  BY <1>1, FS_Subset
<1>3. Cardinality(T) \in Nat /\ Cardinality(S) \in Nat
  BY <1>2, FS_CardinalityType
<1> QED
  BY <1>2, <1>3

(* What a step of validatePlan brings nearer.                              *)
GraphLower ==
  \/ LoopsAhead' < LoopsAhead
  \/ /\ LoopsAhead' = LoopsAhead
     /\ \/ Cardinality(Fresh)' < Cardinality(Fresh)
        \/ UNCHANGED Fresh /\ Cardinality(Unvisited)' < Cardinality(Unvisited)
        \/ UNCHANGED <<Fresh, Unvisited>> /\ TurnsAhead' < TurnsAhead

LEMMA CheckLowers ==
  ASSUME GraphInv, Check
  PROVE  GraphLower
<1>1. /\ at \in {"map", "check"} /\ stack = <<>> /\ stack' = <<>>
      /\ UNCHANGED <<cells, visited, stack>>
      /\ Len(cells) \in Nat /\ next \in Nat
  BY LenProperties
  DEF Check, MapCell, MapDone, CheckCell, CheckDone, GraphInv, GraphTypeOK, CheckInv, Searched
<1>2. UNCHANGED <<Fresh, Unvisited>>
  BY <1>1 DEF Fresh, Unvisited, Ids, Entered
<1>3. TurnsAhead = Len(cells) + 1 - next /\ TurnsAhead' = Len(cells) + 1 - next'
  BY <1>1 DEF TurnsAhead
<1>4. CASE at' = at /\ next' = next + 1
  BY <1>1, <1>2, <1>3, <1>4 DEF GraphLower, LoopsAhead
<1>5. CASE \/ at = "map" /\ at' = "check"
           \/ at = "check" /\ at' \in {"search", "unknown"}
  BY <1>5 DEF GraphLower, LoopsAhead
<1>6. MapCell \/ MapDone \/ CheckCell \/ CheckDone
  BY DEF Check
<1>7. MapCell => at' = at /\ next' = next + 1
  BY DEF MapCell
<1>8. MapDone \/ CheckDone \/ CheckCell =>
        \/ at' = at /\ next' = next + 1
        \/ at = "map" /\ at' = "check"
        \/ at = "check" /\ at' \in {"search", "unknown"}
  BY DEF MapDone, CheckDone, CheckCell
<1> QED
  BY <1>4, <1>5, <1>6, <1>7, <1>8

LEMMA RootLowers ==
  ASSUME GraphInv, NextRoot
  PROVE  GraphLower
<1>1. /\ at = "search" /\ at' = "search" /\ stack = <<>> /\ Len(cells) \in Nat
      /\ next \in DOMAIN cells /\ next \in Nat
      /\ UNCHANGED <<cells, cellMap, visited>>
  BY LenProperties DEF NextRoot, GraphInv, GraphTypeOK
<1>2. LoopsAhead' = LoopsAhead
  BY <1>1 DEF LoopsAhead
<1>3. CASE cells[next].id \in visited
  <2>1. UNCHANGED <<Fresh, Unvisited>>
    BY <1>1, <1>3 DEF NextRoot, Fresh, Unvisited, Ids, Entered
  <2>2. TurnsAhead' < TurnsAhead
    BY <1>1, <1>3 DEF NextRoot, TurnsAhead
  <2> QED
    BY <1>2, <2>1, <2>2 DEF GraphLower
<1>4. CASE cells[next].id \notin visited
  <2>1. Entered = {} /\ Entered' = {cells[next].id}
    <3>1. DOMAIN stack' = {1} /\ stack'[1].node = cells[next].id
      BY <1>4 DEF NextRoot, Call
    <3> QED
      BY <1>1, <3>1 DEF Entered
  <2>2. /\ cells[next].id \in Fresh /\ cells[next].id \notin Fresh' /\ Fresh' \subseteq Fresh
        /\ IsFiniteSet(Fresh)
    BY <1>1, <1>4, <2>1, MeasureNat, FS_Subset DEF Counts, Fresh, Ids
  <2>3. Cardinality(Fresh)' < Cardinality(Fresh)
    BY <2>2, Fewer
  <2> QED
    BY <1>2, <2>3 DEF GraphLower
<1> QED
  BY <1>3, <1>4

LEMMA DescendLowers ==
  ASSUME GraphInv, Descend
  PROVE  GraphLower
<1>1. /\ at = "search" /\ at' = "search" /\ stack # <<>> /\ Pending
      /\ UNCHANGED <<cells, cellMap, visited>>
  BY DEF Descend
<1>2. LoopsAhead' = LoopsAhead
  BY <1>1 DEF LoopsAhead
<1>n. PICK n \in Nat \ {0} : n = Len(stack)
  BY <1>1, TopFacts
<1>k. PICK k \in Nat \ {0} : k = Top.dep
  BY <1>1, TopFacts
<1>3. /\ DOMAIN stack = 1..n /\ Top = stack[n] /\ Top.node \in Ids
      /\ Advanced \in Seq(Frame) /\ Len(Advanced) = n /\ DOMAIN Advanced = 1..n
      /\ Advanced[n] = [node |-> Top.node, dep |-> k + 1]
      /\ \A i \in 1..n - 1 : Advanced[i] = stack[i]
  BY <1>1, <1>n, <1>k, TopFacts, AdvancedShape
<1>4. /\ Len(cellMap[Top.node]) \in Nat /\ k <= Len(cellMap[Top.node])
      /\ Dependency \in Ids
  <2>1. /\ Len(cellMap[Top.node]) \in Nat
        /\ DOMAIN cellMap[Top.node] = 1..Len(cellMap[Top.node])
        /\ DepsOf(Top.node) \subseteq Ids
    BY <1>1, <1>3, SearchFacts DEF Searched
  <2>2. k \in 1..Len(cellMap[Top.node])
    BY <1>1, <1>k, <2>1 DEF Pending
  <2> QED
    BY <1>k, <2>1, <2>2 DEF DepsOf, Dependency
<1>5. \A i \in 1..n : Advanced[i].node = stack[i].node
  <2>1. \A i \in 1..n : i = n \/ i \in 1..n - 1
    OBVIOUS
  <2> QED
    BY <1>3, <2>1
<1>6. CASE Dependency \in visited
  <2>1. stack' = Advanced /\ stack' # <<>> /\ Top' = Advanced[n]
    BY <1>3, <1>6 DEF Descend, Top
  <2>2. Entered' = Entered
    BY <1>3, <1>5, <2>1 DEF Entered
  <2>3. UNCHANGED <<Fresh, Unvisited>>
    BY <1>1, <2>2 DEF Fresh, Unvisited, Ids
  <2>4. TurnsAhead = Len(cellMap[Top.node]) + 1 - k
    BY <1>1, <1>k DEF TurnsAhead
  <2>5. TurnsAhead' = Len(cellMap[Top.node]) + 1 - (k + 1)
    BY <1>1, <1>3, <2>1 DEF TurnsAhead
  <2>6. TurnsAhead' < TurnsAhead
    <3>1. PICK l \in Nat : l = Len(cellMap[Top.node])
      BY <1>4
    <3>2. TurnsAhead = l + 1 - k /\ TurnsAhead' = l + 1 - (k + 1)
      BY <2>4, <2>5, <3>1
    <3> QED
      BY <3>2
  <2> QED
    BY <1>2, <2>3, <2>6 DEF GraphLower
<1>7. CASE Dependency \notin visited
  <2>1. stack' = Append(Advanced, Call(Dependency))
    BY <1>7 DEF Descend
  <2>2. Call(Dependency) \in Frame /\ Call(Dependency).node = Dependency
    <3>1. Dependency \in Names
      BY <1>1, <1>4, SearchFacts DEF Searched
    <3> QED
      BY <3>1 DEF Call, Frame
  <2>3. /\ DOMAIN stack' = 1..n + 1 /\ \A i \in 1..n : stack'[i] = Advanced[i]
        /\ stack'[n + 1].node = Dependency
    BY <1>3, <2>1, <2>2, AppendProperties, LenProperties
  <2>4. Entered' = Entered \cup {Dependency}
    <3>1. \A i \in 1..n + 1 : i = n + 1 \/ i \in 1..n
      OBVIOUS
    <3>2. \A i \in 1..n : stack'[i].node = stack[i].node
      BY <1>5, <2>3
    <3>3. 1..n \subseteq 1..n + 1 /\ n + 1 \in 1..n + 1
      OBVIOUS
    <3> QED
      BY <1>3, <2>3, <3>1, <3>2, <3>3 DEF Entered
  <2>5. Dependency \notin Entered
    BY DEF Descend, OnStack, Entered
  <2>6. /\ Dependency \in Fresh /\ Dependency \notin Fresh' /\ Fresh' \subseteq Fresh
        /\ IsFiniteSet(Fresh)
    BY <1>1, <1>4, <1>7, <2>4, <2>5, MeasureNat, FS_Subset DEF Counts, Fresh, Ids
  <2>7. Cardinality(Fresh)' < Cardinality(Fresh)
    BY <2>6, Fewer
  <2> QED
    BY <1>2, <2>7 DEF GraphLower
<1> QED
  BY <1>6, <1>7

LEMMA LeaveLowers ==
  ASSUME GraphInv, Leave
  PROVE  GraphLower
<1>1. /\ at = "search" /\ at' = "search" /\ stack # <<>>
      /\ visited' = visited \cup {Top.node}
      /\ UNCHANGED <<cells, cellMap>>
  BY DEF Leave
<1>2. LoopsAhead' = LoopsAhead
  BY <1>1 DEF LoopsAhead
<1>n. PICK n \in Nat \ {0} : n = Len(stack)
  BY <1>1, TopFacts
<1>3. /\ DOMAIN stack = 1..n /\ Top = stack[n] /\ Top.node \in Ids /\ Top.node \notin visited
      /\ DOMAIN stack' = 1..n - 1 /\ \A i \in 1..n - 1 : stack'[i] = stack[i]
  BY <1>1, <1>n, TopFacts, LeaveShape
<1>4. Entered = Entered' \cup {Top.node}
  <2>1. \A i \in 1..n : i = n \/ i \in 1..n - 1
    OBVIOUS
  <2>2. 1..n - 1 \subseteq 1..n /\ n \in 1..n
    OBVIOUS
  <2> QED
    BY <1>3, <2>1, <2>2 DEF Entered
<1>5. UNCHANGED Fresh
  BY <1>1, <1>4 DEF Fresh, Ids
<1>6. /\ Top.node \in Unvisited /\ Top.node \notin Unvisited' /\ Unvisited' \subseteq Unvisited
      /\ IsFiniteSet(Unvisited)
  BY <1>1, <1>3, MeasureNat, FS_Subset DEF Counts, Unvisited, Ids
<1>7. Cardinality(Unvisited)' < Cardinality(Unvisited)
  BY <1>6, Fewer
<1> QED
  BY <1>2, <1>5, <1>7 DEF GraphLower

LEMMA GraphLowers ==
  ASSUME GraphInv, GraphStep
  PROVE  GraphLower
<1>1. CASE CycleFound \/ Accept
  BY <1>1 DEF CycleFound, Accept, GraphLower, LoopsAhead
<1> QED
  BY <1>1, CheckLowers, RootLowers, DescendLowers, LeaveLowers DEF GraphStep, Search

(* The numbers cannot be lowered for ever.                                 *)
LEMMA BelowEnds == IsWellFoundedOn(Below, [1..4 -> Nat])
<1> DEFINE less == OpToRel(<, Nat)
<1>1. IsWellFoundedOn(less, Nat)
  BY NatLessThanWellFounded
<1>2. 4 \in Nat
  OBVIOUS
<1> HIDE DEF less
<1>3. IsWellFoundedOn(LexProductOrdering(less, Nat, 4), [1..4 -> Nat])
  BY <1>1, <1>2, WFLexProductOrdering, Zenon
<1> QED
  BY <1>3, Zenon DEF less, Below

(* There is a graph in work only while a plan is validated and after.      *)
GraphIdle ==
  /\ phase \in {"idle", "swarm", "read", "remove"} => at = "idle"
  /\ phase = "validate" => at # "idle"

LEMMA GraphStepWorks == GraphStep => at # "idle" /\ at' # "idle"
BY DEF GraphStep, Check, Search, MapCell, MapDone, CheckCell, CheckDone, NextRoot,
       CycleFound, Descend, Leave, Accept

(* Where each step of a command takes it.                                  *)
LEMMA PhaseMoves ==
  ASSUME PipeInv, Next
  PROVE  \/ phase = "idle" /\ Command
         \/ phase # "idle" /\ Return
         \/ /\ phase' = phase /\ Validate
         \/ /\ phase = "swarm" /\ phase' = "read" /\ UNCHANGED graphVars
         \/ /\ phase = "read" /\ phase' = "remove" /\ UNCHANGED graphVars
         \/ /\ phase = "remove" /\ phase' = "validate" /\ Begin(plan.cells)
         \/ /\ phase = "validate" /\ phase' \in {"write", "decide", "start"}
            /\ UNCHANGED graphVars
         \/ /\ phase = "decide" /\ phase' = "start" /\ UNCHANGED graphVars
<1>1. Command => phase = "idle"
  BY DEF Command, Compile, CompileDynamic, ReadPlan, ReadNoPlan, Give
<1>2. Swarm => /\ phase = "swarm"
               /\ Return \/ (phase' = "read" /\ UNCHANGED graphVars)
  BY DEF Swarm
<1>3. ReadOutput => /\ phase = "read"
                    /\ Return \/ (phase' = "remove" /\ UNCHANGED graphVars)
  BY DEF ReadOutput
<1>4. RemoveOutput => /\ phase = "remove"
                      /\ Return \/ (phase' = "validate" /\ Begin(plan.cells))
  BY DEF RemoveOutput
<1>5. Validate => phase = "validate" /\ phase' = phase
  BY DEF Validate, cmdVars
<1>6. Accepted => /\ phase = "validate" /\ phase' \in {"write", "decide", "start"}
                  /\ UNCHANGED graphVars
  BY DEF Accepted, Onward, PipeInv, PhaseInv, Commands
<1>7. Refused => /\ phase = "validate"
                 /\ Return \/ (phase' = "decide" /\ UNCHANGED graphVars)
  BY DEF Refused
<1>8. WritePlan \/ Start \/ Blocked \/ Kill => phase # "idle" /\ Return
  BY DEF WritePlan, Start, Blocked, Kill
<1>9. Decide => /\ phase = "decide"
                /\ Return \/ (phase' = "start" /\ UNCHANGED graphVars)
  BY DEF Decide
<1> QED
  BY <1>1, <1>2, <1>3, <1>4, <1>5, <1>6, <1>7, <1>8, <1>9 DEF Next, Work, Dynamic

LEMMA GraphIdleStep == PipeInv /\ GraphIdle /\ [Next]_vars => GraphIdle'
<1> SUFFICES ASSUME PipeInv, GraphIdle, [Next]_vars PROVE GraphIdle'
  OBVIOUS
<1>1. CASE UNCHANGED vars
  BY <1>1 DEF vars, cmdVars, graphVars, GraphIdle
<1>2. CASE Next
  <2>1. CASE Command
    BY <2>1 DEF Command, Compile, CompileDynamic, ReadPlan, ReadNoPlan, Give, Begin,
                graphVars, GraphIdle
  <2>2. CASE Return
    BY <2>2 DEF Return, Quit, GraphIdle
  <2>3. CASE Validate
    BY <2>3, GraphStepWorks DEF Validate, cmdVars, GraphIdle
  <2>4. CASE phase' = "validate" /\ Begin(plan.cells)
    BY <2>4 DEF Begin, GraphIdle
  <2>5. CASE /\ UNCHANGED graphVars
             /\ \/ phase = "swarm" /\ phase' = "read"
                \/ phase = "read" /\ phase' = "remove"
                \/ phase' \in {"write", "decide", "start"}
    BY <2>5 DEF graphVars, GraphIdle
  <2> QED
    BY <1>2, <2>1, <2>2, <2>3, <2>4, <2>5, PhaseMoves
<1> QED
  BY <1>1, <1>2

LEMMA CommandGoesOn == PipeInv /\ GraphIdle => GoesOn
<1> SUFFICES ASSUME PipeInv, GraphIdle, phase # "idle" PROVE CanWork
  BY DEF GoesOn
<1>1. phase \in {"swarm", "read", "remove", "validate", "write", "decide", "start"}
  BY DEF PipeInv, CmdTypeOK
<1>2. CASE phase = "decide"
  <2>1. cmd \in {"gate", "once"}
    BY <1>2 DEF PipeInv, PhaseInv
  <2>2. NoGate \in Decisions \/ Rule \in Decisions
    BY DEF Decisions, FromCovenant
  <2> QED
    BY <1>2, <2>1, <2>2 DEF CanWork
<1>3. CASE phase = "start"
  <2>1. GateRead # Nothing /\ Matches(GateRead) /\ GateRead.status = "allowed" =>
          Clears(GateRead, "gate")
    BY DEF Clears
  <2> QED
    BY <1>3, <2>1 DEF CanWork
<1>4. CASE phase \in {"swarm", "read", "remove", "validate", "write"}
  BY <1>4 DEF GraphIdle, CanWork
<1> QED
  BY <1>1, <1>2, <1>3, <1>4

LEMMA Weighs ==
  ASSUME NEW a \in 0..6, NEW b \in 0..6, NEW x \in 0..3, NEW y \in 0..3
  PROVE  /\ 4 * a + x \in Nat
         /\ b < a => 4 * b + y < 4 * a + x
         /\ b = a /\ y < x => 4 * b + y < 4 * a + x
OBVIOUS

LEMMA CommandLowers ==
  ASSUME PipeInv, Counts', phase # "idle", Next
  PROVE  <<Ahead', Ahead>> \in Below
<1>1. /\ Cardinality(Fresh) \in Nat /\ Cardinality(Fresh)' \in Nat
      /\ Cardinality(Unvisited) \in Nat /\ Cardinality(Unvisited)' \in Nat
      /\ TurnsAhead \in Nat /\ TurnsAhead' \in Nat
  BY MeasureNat DEF PipeInv, Counts
<1>2. /\ PhasesAhead \in 0..6 /\ LoopsAhead \in 0..3
      /\ PhasesAhead' \in 0..6 /\ LoopsAhead' \in 0..3
  BY DEF PhasesAhead, LoopsAhead
<1>r. /\ Rank \in Nat /\ Rank' \in Nat
      /\ PhasesAhead' < PhasesAhead => Rank' < Rank
      /\ PhasesAhead' = PhasesAhead /\ LoopsAhead' < LoopsAhead => Rank' < Rank
      /\ PhasesAhead' = PhasesAhead /\ LoopsAhead' = LoopsAhead => Rank' = Rank
  BY <1>2, Weighs DEF Rank
<1>3. CASE PhasesAhead' < PhasesAhead
  BY <1>1, <1>3, <1>r, Lower DEF Ahead
<1>4. CASE PhasesAhead' = PhasesAhead /\ GraphLower
  <2>1. \/ Rank' < Rank
        \/ /\ Rank' = Rank
           /\ \/ Cardinality(Fresh)' < Cardinality(Fresh)
              \/ /\ Cardinality(Fresh)' = Cardinality(Fresh)
                 /\ Cardinality(Unvisited)' < Cardinality(Unvisited)
              \/ /\ Cardinality(Fresh)' = Cardinality(Fresh)
                 /\ Cardinality(Unvisited)' = Cardinality(Unvisited)
                 /\ TurnsAhead' < TurnsAhead
    BY <1>4, <1>r DEF GraphLower
  <2> QED
    BY <1>1, <1>r, <2>1, Lower DEF Ahead
<1>5. CASE Validate
  <2>1. PhasesAhead' = PhasesAhead
    BY <1>5 DEF Validate, cmdVars, PhasesAhead
  <2>2. GraphLower
    BY <1>5, GraphLowers DEF Validate, PipeInv
  <2> QED
    BY <1>4, <2>1, <2>2
<1>6. CASE \/ phase' = "idle"
           \/ phase = "swarm" /\ phase' = "read"
           \/ phase = "read" /\ phase' = "remove"
           \/ phase = "remove" /\ phase' = "validate"
           \/ phase = "validate" /\ phase' \in {"write", "decide", "start"}
           \/ phase = "decide" /\ phase' = "start"
  <2>1. phase \in {"swarm", "read", "remove", "validate", "write", "decide", "start"}
    BY DEF PipeInv, CmdTypeOK
  <2>2. PhasesAhead' < PhasesAhead
    BY <1>6, <2>1 DEF PhasesAhead
  <2> QED
    BY <1>3, <2>2
<1> QED
  BY <1>5, <1>6, PhaseMoves DEF Return

(* Every command ends, whatever graph it is given, but for the fairness    *)
(* that has it take its steps: until it has returned it can take one, and  *)
(* each one brings it nearer to an end that cannot recede for ever.        *)
THEOREM CommandsApproachEnd ==
  /\ Spec => []GoesOn /\ Descends
  /\ IsWellFoundedOn(Below, [1..4 -> Nat])
<1>1. Init => GraphIdle
  BY DEF Init, GraphInit, GraphIdle
<1>2. Spec => []GraphIdle
  BY <1>1, PipeAlways, GraphIdleStep, PTL DEF Spec
<1>3. PipeInv => Counts
  BY MeasureNat DEF PipeInv
<1>4. PipeInv /\ Counts' /\ [Next]_vars =>
        [phase # "idle" => <<Ahead', Ahead>> \in Below]_vars
  BY CommandLowers
<1>5. Spec => []GoesOn
  BY <1>2, PipeAlways, CommandGoesOn, PTL
<1>6. Spec => Descends
  BY <1>3, <1>4, PipeAlways, PTL DEF Spec, Descends
<1> QED
  BY <1>5, <1>6, BelowEnds

=============================================================================
