-------------------------- MODULE SchedulerProofs ---------------------------
(***************************************************************************)
(* Proofs about Scheduler, for every plan validatePlan lets through and    *)
(* every option.  The steps of a goroutine are of two shapes: it moves on  *)
(* inside its run, or it reports its workcell settled.                     *)
(***************************************************************************)
EXTENDS Scheduler, FiniteSetTheorems, WellFoundedInduction, TLAPS

Live == Places \ {"none", "done"}

(* A goroutine goes on.                                                    *)
Moves(t) ==
  /\ pc[t] \in Live
  /\ \E to \in Live : pc' = [pc EXCEPT ![t] = to]
  /\ \/ repairs' = repairs
     \/ /\ repairs[t] < MaxRepairs[t]
        /\ repairs' = [repairs EXCEPT ![t] = @ + 1]
  /\ prompt' \in {prompt, NoTask, t}
  /\ \/ answer' = answer
     \/ \E a \in Answers : answer' = [answer EXCEPT ![t] = a]
  /\ \/ retries' = retries
     \/ retries' = [retries EXCEPT ![t] = @ + 1]
  /\ UNCHANGED <<status, main, interactive, cancelled, firstErr>>

(* A goroutine reports and ends.                                           *)
Reports(t) ==
  /\ pc[t] \in Live
  /\ \/ Fail(t)
     \/ /\ \/ Report(t, "passed") /\ (~cancelled \/ retries[t] > 0)
           \/ Report(t, "skipped") /\ (cancelled \/ answer[t] = "skip")
        /\ UNCHANGED <<cancelled, firstErr>>
  /\ UNCHANGED <<repairs, main, operatorVars>>

(* A step inside the run of a workcell.                                    *)
LEMMA Inside ==
  ASSUME NEW t \in Tasks, NEW from \in Live, NEW to \in Live, Goes(t, from, to)
  PROVE  pc[t] \in Live /\ \E there \in Live : pc' = [pc EXCEPT ![t] = there]
BY DEF Goes

(* Every step of a goroutine has one of the two shapes.                    *)
LEMMA GoroutineShape ==
  ASSUME TypeOK, NEW t \in Tasks, Goroutine(t)
  PROVE  Moves(t) \/ Reports(t)
<1> DEFINE Within == pc[t] \in Live /\ \E there \in Live : pc' = [pc EXCEPT ![t] = there]
<1> USE DEF operatorVars
<1>a. {"start", "running", "erred", "repair", "repairing", "succeeded",
       "failing", "prompting", "answered"} \subseteq Live
  BY DEF Live, Places
<1>1. CASE Refuse(t)
  <2>1. Within
    BY <1>1, <1>a, Inside DEF Refuse
  <2> QED
    BY <1>1, <2>1 DEF Refuse, Moves
<1>2. CASE Launch(t)
  <2>1. Within
    BY <1>2, <1>a, Inside DEF Launch
  <2> QED
    BY <1>2, <2>1 DEF Launch, Moves
<1>3. CASE Ends(t)
  <2>1. Within
    BY <1>3, <1>a, Inside DEF Ends
  <2> QED
    BY <1>3, <2>1 DEF Ends, Moves
<1>4. CASE Assess(t)
  <2>1. Within
    BY <1>4, <1>a, Inside DEF Assess
  <2> QED
    BY <1>4, <2>1 DEF Assess, RepairLeft, Moves
<1>5. CASE Repair(t)
  <2>1. Within
    BY <1>5, <1>a, Inside DEF Repair
  <2> QED
    BY <1>5, <2>1 DEF Repair, Moves
<1>6. CASE Succeed(t)
  <2>1. retries[t] = 0 \/ retries[t] > 0
    BY DEF TypeOK
  <2> QED
    BY <1>6, <1>a, <2>1 DEF Succeed, Reports
<1>7. CASE FailUnattended(t)
  BY <1>7, <1>a DEF FailUnattended, Reports
<1>8. CASE Ask(t)
  <2>1. CASE cancelled
    BY <1>8, <1>a, <2>1 DEF Ask, Reports
  <2>2. CASE ~cancelled
    <3>1. Within
      BY <1>8, <1>a, <2>2, Inside DEF Ask
    <3> QED
      BY <1>8, <2>2, <3>1 DEF Ask, Moves
  <2> QED
    BY <2>1, <2>2
<1>9. CASE Answer(t)
  <2>1. Within /\ pc[t] = "prompting"
    BY <1>9, <1>a, Inside DEF Answer, Goes
  <2> QED
    BY <1>9, <2>1 DEF Answer, Moves
<1>10. CASE Retry(t)
  <2>1. Within
    BY <1>10, <1>a, Inside DEF Retry
  <2> QED
    BY <1>10, <2>1 DEF Retry, Moves
<1>11. CASE Skip(t)
  BY <1>11, <1>a DEF Skip, Reports
<1>12. CASE Abort(t)
  BY <1>12, <1>a DEF Abort, Reports
<1> QED
  BY <1>1, <1>2, <1>3, <1>4, <1>5, <1>6, <1>7, <1>8, <1>9, <1>10, <1>11, <1>12
  DEF Goroutine, Execute

-----------------------------------------------------------------------------
(* Types.                                                                  *)

(* The types hold at the start.                                            *)
LEMMA TypeInit == Init => TypeOK
<1> SUFFICES ASSUME Init
             PROVE  TypeOK
  OBVIOUS
<1>1. status \in [Tasks -> Statuses]
  BY DEF Init, Statuses
<1> QED
  BY <1>1 DEF Init, TypeOK, Places

(* Every step keeps them.                                                  *)
LEMMA TypeStep == TypeOK /\ [Next]_vars => TypeOK'
<1> SUFFICES ASSUME TypeOK, [Next]_vars
             PROVE  TypeOK'
  OBVIOUS
<1> USE DEF TypeOK, Statuses, Places, Final, operatorVars
<1>1. CASE Scan
  BY <1>1 DEF Scan
<1>2. CASE Idle
  BY <1>2 DEF Idle
<1>3. CASE Return
  BY <1>3 DEF Return
<1>4. ASSUME NEW t \in Tasks, Moves(t)
      PROVE  TypeOK'
  <2>1. pc' \in [Tasks -> Places]
    BY <1>4 DEF Moves, Live
  <2>2. repairs' \in [Tasks -> Nat]
    BY <1>4 DEF Moves
  <2>3. answer' \in [Tasks -> Answers \cup {"none"}]
    BY <1>4 DEF Moves
  <2>4. retries' \in [Tasks -> Nat]
    BY <1>4 DEF Moves
  <2> QED
    BY <1>4, <2>1, <2>2, <2>3, <2>4 DEF Moves
<1>5. ASSUME NEW t \in Tasks, Reports(t)
      PROVE  TypeOK'
  BY <1>5 DEF Reports, Fail, Report
<1>6. CASE UNCHANGED vars
  BY <1>6 DEF vars
<1> QED
  BY <1>1, <1>2, <1>3, <1>4, <1>5, <1>6, GoroutineShape DEF Next, Loop

(* Every reachable state has the declared types.                           *)
THEOREM TypeCorrect == Spec => []TypeOK
BY TypeInit, TypeStep, PTL DEF Spec

-----------------------------------------------------------------------------
(* The inductive invariant.                                                *)

(* A workcell is running exactly while its goroutine is, and a goroutine   *)
(* that has ended has reported.                                            *)
RunningIsLive ==
  \A t \in Tasks :
    /\ status[t] = "running" <=> pc[t] \in Live
    /\ pc[t] = "done" => status[t] \in Final

(* The loop leaves nothing pending behind, and returns after the last      *)
(* goroutine.                                                              *)
LoopLeavesNothing ==
  /\ main \in {"wait", "returned"} => \A t \in Tasks : status[t] # "pending"
  /\ main = "returned" => \A t \in Tasks : pc[t] \in {"none", "done"}

IndInv ==
  /\ TypeOK
  /\ RunningIsLive
  /\ LoopLeavesNothing
  /\ DependenciesFirst
  /\ FailureReported
  /\ SkipsExplained
  /\ RepairsWithinLimit

(* The invariant holds at the start, of a fresh run and of a resumed one.  *)
LEMMA IndInit == Init => IndInv
<1> SUFFICES ASSUME Init
             PROVE  IndInv
  OBVIOUS
<1>1. TypeOK
  BY TypeInit
<1>2. \A t \in Tasks : status[t] \in {"pending", "passed"} /\ pc[t] = "none"
  BY DEF Init
<1>3. \A t \in Tasks : status[t] = "passed" => \A d \in Deps(t) : status[d] = "passed"
  <2>1. PICK passed \in SUBSET Tasks :
          /\ \A t \in passed : Deps(t) \subseteq passed
          /\ status = [t \in Tasks |-> IF t \in passed THEN "passed" ELSE "pending"]
    BY DEF Init
  <2> QED
    BY <2>1
<1>4. RunningIsLive /\ LoopLeavesNothing
  BY <1>2 DEF Init, RunningIsLive, LoopLeavesNothing, Live, Final
<1>5. DependenciesFirst
  BY <1>2, <1>3 DEF DependenciesFirst
<1>6. FailureReported /\ SkipsExplained
  BY <1>2, PlanAssumption DEF Init, FailureReported, SkipsExplained
<1>7. RepairsWithinLimit
  BY OptionAssumption DEF Init, RepairsWithinLimit
<1> QED
  BY <1>1, <1>4, <1>5, <1>6, <1>7 DEF IndInv

(* What a dependency is.                                                   *)
LEMMA DepsAreTasks == \A t \in Tasks : Deps(t) \subseteq Tasks
<1> SUFFICES ASSUME NEW t \in Tasks, NEW i \in DOMAIN DependsOn[t]
             PROVE  DependsOn[t][i] \in Tasks
  BY DEF Deps
<1>1. DependsOn[t] \in Seq(Tasks)
  BY PlanAssumption
<1> QED
  BY <1>1

(* What a scan does to the statuses: it starts what is ready and skips     *)
(* only pending workcells that depend on a failed or a skipped one.        *)
LEMMA ScanStatus ==
  ASSUME TypeOK, Scan
  PROVE  /\ \A t \in Tasks :
              \/ status'[t] = status[t] /\ pc'[t] = pc[t] /\ t \notin Ready
              \/ /\ t \in Ready
                 /\ status'[t] = "running" /\ pc'[t] = "start"
              \/ /\ status[t] = "pending" /\ status'[t] = "skipped"
                 /\ pc'[t] = pc[t]
                 /\ \E d \in Deps(t) : status'[d] \in {"failed", "skipped"}
         /\ \A t \in Ready : t \in Tasks /\ status[t] = "pending"
<1>1. PICK skip \in SUBSET (Pending \ Ready) :
        /\ \A t \in skip : Doomed(skip, t)
        /\ status' = [t \in Tasks |-> IF t \in Ready THEN "running"
                                      ELSE IF t \in skip THEN "skipped"
                                      ELSE status[t]]
  BY DEF Scan
<1>2. pc' = [t \in Tasks |-> IF t \in Ready THEN "start" ELSE pc[t]]
  BY DEF Scan
<1>3. Ready \subseteq Pending /\ Pending \subseteq Tasks
  BY DEF Ready, Pending
<1>4. \A t \in Ready : status[t] = "pending"
  BY DEF Ready, Pending
<1>5. \A t \in skip : status[t] = "pending" /\ t \notin Ready /\ t \in Tasks
  BY <1>1 DEF Pending
<1>6. ASSUME NEW t \in skip
      PROVE  \E d \in Deps(t) : status'[d] \in {"failed", "skipped"}
  <2>1. PICK d \in Deps(t) : status[d] \in {"failed", "skipped"} \/ d \in skip
    BY <1>1, <1>6 DEF Doomed
  <2>2. d \in Tasks
    BY <1>5, <1>6, DepsAreTasks
  <2>3. status'[d] \in {"failed", "skipped"}
    BY <1>1, <1>4, <1>5, <2>1, <2>2
  <2> QED
    BY <2>3
<1> QED
  BY <1>1, <1>2, <1>3, <1>4, <1>5, <1>6

(* The invariant survives a scan.                                          *)
LEMMA IndScan == IndInv /\ Scan => IndInv'
<1> SUFFICES ASSUME IndInv, Scan
             PROVE  IndInv'
  OBVIOUS
<1>t. TypeOK /\ TypeOK'
  BY TypeStep DEF IndInv, Next, Loop
<1>1. UNCHANGED <<repairs, prompt, answer, retries, cancelled, firstErr>>
  BY DEF Scan, operatorVars
<1>2. \A t \in Tasks : status[t] \in Final => status'[t] = status[t]
  BY <1>t, ScanStatus DEF Final
<1>3. RunningIsLive'
  BY <1>t, ScanStatus DEF IndInv, RunningIsLive, Live, Places, Final, TypeOK, Statuses
<1>4. LoopLeavesNothing'
  <2>1. main = "scan" /\ main' \in {"scan", "idle", "wait"}
    BY DEF Scan
  <2>2. ASSUME main' = "wait", NEW t \in Tasks
        PROVE  status'[t] # "pending"
    <3>1. \A u \in Tasks : status[u] \in Final
      BY <2>2 DEF Scan
    <3> QED
      BY <1>2, <3>1 DEF Final
  <2> QED
    BY <2>1, <2>2 DEF LoopLeavesNothing
<1>5. DependenciesFirst'
  <2> SUFFICES ASSUME NEW t \in Tasks, NEW d \in Deps(t),
                      status'[t] \in {"running", "passed"} \/ pc'[t] # "none"
               PROVE  status'[d] = "passed"
    BY DEF DependenciesFirst
  <2>1. d \in Tasks
    BY DepsAreTasks
  <2>2. status[d] = "passed"
    <3>1. CASE t \in Ready
      BY <3>1 DEF Ready
    <3>2. CASE t \notin Ready
      BY <1>t, <3>2, ScanStatus DEF IndInv, DependenciesFirst
    <3> QED
      BY <3>1, <3>2
  <2> QED
    BY <1>2, <2>1, <2>2 DEF Final
<1>6. FailureReported'
  <2>1. \A t \in Tasks : status'[t] = "failed" <=> status[t] = "failed"
    BY <1>t, ScanStatus
  <2> QED
    BY <1>1, <1>t, <2>1 DEF IndInv, FailureReported, TypeOK
<1>7. SkipsExplained'
  <2> SUFFICES ASSUME firstErr = NoTask, NEW t \in Tasks, status'[t] = "skipped"
               PROVE  answer[t] = "skip" \/ \E d \in Deps(t) : status'[d] = "skipped"
    BY <1>1 DEF SkipsExplained
  <2>1. \A d \in Deps(t) : d \in Tasks
    BY DepsAreTasks
  <2>2. \A d \in Tasks : status'[d] # "failed"
    BY <1>t, ScanStatus DEF IndInv, FailureReported
  <2>3. CASE status[t] = "skipped"
    BY <1>2, <2>1, <2>3 DEF IndInv, SkipsExplained, Final
  <2>4. CASE status[t] # "skipped"
    <3>1. \E d \in Deps(t) : status'[d] \in {"failed", "skipped"}
      BY <1>t, <2>4, ScanStatus
    <3> QED
      BY <2>1, <2>2, <3>1
  <2> QED
    BY <2>3, <2>4
<1>8. RepairsWithinLimit'
  BY <1>1 DEF IndInv, RepairsWithinLimit
<1> QED
  BY <1>t, <1>3, <1>4, <1>5, <1>6, <1>7, <1>8 DEF IndInv

(* The invariant survives the loop's decision to sleep or to give up.      *)
LEMMA IndIdle == IndInv /\ Idle => IndInv'
<1> SUFFICES ASSUME IndInv, Idle
             PROVE  IndInv'
  OBVIOUS
<1>t. TypeOK /\ TypeOK'
  BY TypeStep DEF IndInv, Next, Loop
<1>1. UNCHANGED <<repairs, pc, prompt, answer, retries, cancelled, firstErr>>
  BY DEF Idle, operatorVars
<1>2. \A t \in Tasks :
        \/ status'[t] = status[t]
        \/ status[t] = "pending" /\ status'[t] = "skipped" /\ cancelled
  BY <1>t DEF Idle, Pending, TypeOK
<1>3. RunningIsLive'
  BY <1>1, <1>2 DEF IndInv, RunningIsLive, Final
<1>4. LoopLeavesNothing'
  BY <1>t DEF Idle, Pending, LoopLeavesNothing, TypeOK
<1>5. DependenciesFirst'
  <2> SUFFICES ASSUME NEW t \in Tasks, NEW d \in Deps(t),
                      status'[t] \in {"running", "passed"} \/ pc'[t] # "none"
               PROVE  status'[d] = "passed"
    BY DEF DependenciesFirst
  <2>1. d \in Tasks
    BY DepsAreTasks
  <2>2. status[d] = "passed"
    BY <1>1, <1>2 DEF IndInv, DependenciesFirst
  <2> QED
    BY <1>2, <2>1, <2>2
<1>6. FailureReported'
  <2>1. \A t \in Tasks : status'[t] = "failed" <=> status[t] = "failed"
    BY <1>2
  <2> QED
    BY <1>1, <1>t, <2>1 DEF IndInv, FailureReported, TypeOK
<1>7. SkipsExplained'
  <2> SUFFICES ASSUME firstErr = NoTask, NEW t \in Tasks, status'[t] = "skipped"
               PROVE  answer[t] = "skip" \/ \E d \in Deps(t) : status'[d] = "skipped"
    BY <1>1 DEF SkipsExplained
  <2>1. ~cancelled
    BY DEF IndInv, FailureReported
  <2>2. \A d \in Tasks : status'[d] = status[d]
    BY <1>2, <2>1
  <2> QED
    BY <2>2, DepsAreTasks DEF IndInv, SkipsExplained
<1>8. RepairsWithinLimit'
  BY <1>1 DEF IndInv, RepairsWithinLimit
<1> QED
  BY <1>t, <1>3, <1>4, <1>5, <1>6, <1>7, <1>8 DEF IndInv

(* The invariant survives the return.                                      *)
LEMMA IndReturn == IndInv /\ Return => IndInv'
<1> SUFFICES ASSUME IndInv, Return
             PROVE  IndInv'
  OBVIOUS
<1>t. TypeOK'
  BY TypeStep DEF IndInv, Next, Loop
<1>1. UNCHANGED <<status, repairs, pc, prompt, answer, retries, cancelled, firstErr>>
  BY DEF Return, operatorVars
<1>2. LoopLeavesNothing'
  BY <1>1 DEF IndInv, LoopLeavesNothing, Return
<1> QED
  BY <1>t, <1>1, <1>2
  DEF IndInv, RunningIsLive, DependenciesFirst, FailureReported, SkipsExplained, RepairsWithinLimit

(* The invariant survives a step inside a goroutine.                       *)
LEMMA IndMoves == IndInv /\ TypeOK' /\ (\E t \in Tasks : Moves(t)) => IndInv'
<1> SUFFICES ASSUME IndInv, TypeOK', NEW t \in Tasks, Moves(t)
             PROVE  IndInv'
  OBVIOUS
<1>t. TypeOK
  BY DEF IndInv
<1>1. UNCHANGED <<status, main, cancelled, firstErr>>
  BY DEF Moves
<1>2. \A u \in Tasks : /\ pc[u] \in Live <=> pc'[u] \in Live
                       /\ u # t => pc'[u] = pc[u]
  BY <1>t DEF Moves, TypeOK
<1>3. pc[t] \in Live /\ pc'[t] \in Live
  BY <1>2 DEF Moves
<1>4. RunningIsLive'
  BY <1>1, <1>2, <1>3 DEF IndInv, RunningIsLive, Live
<1>5. LoopLeavesNothing'
  BY <1>1, <1>2, <1>3 DEF IndInv, LoopLeavesNothing, Live
<1>6. DependenciesFirst'
  BY <1>1, <1>2, <1>3 DEF IndInv, DependenciesFirst, Live
<1>7. FailureReported'
  BY <1>1 DEF IndInv, FailureReported
<1>8. SkipsExplained'
  <2>1. status[t] = "running"
    BY <1>3 DEF IndInv, RunningIsLive
  <2>2. \A u \in Tasks : u # t => answer'[u] = answer[u]
    BY <1>t DEF Moves, TypeOK
  <2> QED
    BY <1>1, <2>1, <2>2 DEF IndInv, SkipsExplained
<1>9. RepairsWithinLimit'
  BY <1>t, OptionAssumption DEF Moves, IndInv, RepairsWithinLimit, TypeOK
<1> QED
  BY <1>4, <1>5, <1>6, <1>7, <1>8, <1>9 DEF IndInv

(* The invariant survives a report.                                        *)
LEMMA IndReports == IndInv /\ TypeOK' /\ (\E t \in Tasks : Reports(t)) => IndInv'
<1> SUFFICES ASSUME IndInv, TypeOK', NEW t \in Tasks, Reports(t)
             PROVE  IndInv'
  OBVIOUS
<1>t. TypeOK
  BY DEF IndInv
<1>1. UNCHANGED <<repairs, main, prompt, answer, retries>>
  BY DEF Reports, operatorVars
<1>2. PICK s \in Final : Report(t, s)
  BY DEF Reports, Fail, Final
<1>3. \A u \in Tasks : u # t => status'[u] = status[u] /\ pc'[u] = pc[u]
  BY <1>2, <1>t DEF Report, TypeOK
<1>4. status'[t] = s /\ pc'[t] = "done"
  BY <1>2, <1>t DEF Report, TypeOK
<1>5. pc[t] \in Live /\ status[t] = "running"
  BY DEF Reports, IndInv, RunningIsLive
<1>6. RunningIsLive'
  BY <1>3, <1>4, <1>2 DEF IndInv, RunningIsLive, Live, Final
<1>7. LoopLeavesNothing'
  BY <1>1, <1>3, <1>4, <1>2 DEF IndInv, LoopLeavesNothing, Final
<1>8. DependenciesFirst'
  <2> SUFFICES ASSUME NEW u \in Tasks, NEW d \in Deps(u),
                      status'[u] \in {"running", "passed"} \/ pc'[u] # "none"
               PROVE  status'[d] = "passed"
    BY DEF DependenciesFirst
  <2>1. d \in Tasks
    BY DepsAreTasks
  <2>2. status[d] = "passed"
    BY <1>3, <1>5 DEF IndInv, DependenciesFirst
  <2> QED
    BY <1>3, <1>5, <2>1, <2>2
<1>9. FailureReported'
  <2>1. CASE Fail(t)
    <3>1. s = "failed"
      BY <2>1, <1>t, <1>4 DEF Fail, Report, TypeOK
    <3> QED
      BY <2>1, <1>t, <1>3, <1>4, <1>5, <3>1, PlanAssumption
      DEF Fail, IndInv, FailureReported, TypeOK
  <2>2. CASE ~Fail(t)
    <3>1. s # "failed" /\ UNCHANGED <<cancelled, firstErr>>
      BY <2>2, <1>t, <1>4 DEF Reports, Report, TypeOK
    <3>2. \A u \in Tasks : status'[u] = "failed" <=> status[u] = "failed"
      BY <1>3, <1>4, <1>5, <3>1
    <3> QED
      BY <1>t, <3>1, <3>2 DEF IndInv, FailureReported, TypeOK
  <2> QED
    BY <2>1, <2>2
<1>10. SkipsExplained'
  <2> SUFFICES ASSUME firstErr' = NoTask, NEW u \in Tasks, status'[u] = "skipped"
               PROVE  answer[u] = "skip" \/ \E d \in Deps(u) : status'[d] = "skipped"
    BY <1>1 DEF SkipsExplained
  <2>1. ~Fail(t)
    BY PlanAssumption DEF Fail
  <2>2. UNCHANGED <<cancelled, firstErr>> /\ ~cancelled
    BY <2>1 DEF Reports, IndInv, FailureReported
  <2>3. CASE u = t
    <3>1. answer[t] = "skip"
      BY <2>1, <2>2, <2>3, <1>t DEF Reports, Report, TypeOK
    <3> QED
      BY <2>3, <3>1
  <2>4. CASE u # t
    <3>1. status[u] = "skipped"
      BY <1>3, <2>4
    <3>2. answer[u] = "skip" \/ \E d \in Deps(u) : status[d] = "skipped"
      BY <2>2, <3>1 DEF IndInv, SkipsExplained
    <3> QED
      BY <1>3, <1>5, <3>2, DepsAreTasks
  <2> QED
    BY <2>3, <2>4
<1>11. RepairsWithinLimit'
  BY <1>1 DEF IndInv, RepairsWithinLimit
<1> QED
  BY <1>6, <1>7, <1>8, <1>9, <1>10, <1>11 DEF IndInv

(* Every step of the specification keeps the invariant.                    *)
LEMMA IndStep == IndInv /\ [Next]_vars => IndInv'
<1> SUFFICES ASSUME IndInv, [Next]_vars
             PROVE  IndInv'
  OBVIOUS
<1>t. TypeOK /\ TypeOK'
  BY TypeStep DEF IndInv
<1>1. CASE Scan
  BY <1>1, IndScan
<1>2. CASE Idle
  BY <1>2, IndIdle
<1>3. CASE Return
  BY <1>3, IndReturn
<1>4. ASSUME NEW t \in Tasks, Goroutine(t)
      PROVE  IndInv'
  BY <1>t, <1>4, GoroutineShape, IndMoves, IndReports
<1>5. CASE UNCHANGED vars
  BY <1>5 DEF vars, IndInv, TypeOK, RunningIsLive, LoopLeavesNothing,
              DependenciesFirst, FailureReported, SkipsExplained, RepairsWithinLimit
<1> QED
  BY <1>1, <1>2, <1>3, <1>4, <1>5 DEF Next, Loop

(* The inductive invariant holds in every reachable state.                 *)
THEOREM Inductive == Spec => []IndInv
BY IndInit, IndStep, PTL DEF Spec

-----------------------------------------------------------------------------
(* The safety properties.                                                  *)

(* Nothing is started or counted as passed before its dependencies.        *)
THEOREM OrderKept == Spec => []DependenciesFirst
<1>1. IndInv => DependenciesFirst
  BY DEF IndInv
<1> QED
  BY <1>1, Inductive, PTL

(* The returned error is there exactly when a workcell failed.             *)
THEOREM VerdictRight == Spec => []FailureReported
<1>1. IndInv => FailureReported
  BY DEF IndInv
<1> QED
  BY <1>1, Inductive, PTL

(* A run without error skipped only what the operator skipped, and what    *)
(* depends on it.                                                          *)
THEOREM SkipsRight == Spec => []SkipsExplained
<1>1. IndInv => SkipsExplained
  BY DEF IndInv
<1> QED
  BY <1>1, Inductive, PTL

(* Repairs stay within max_repairs over all retries.                       *)
THEOREM RepairsBounded == Spec => []RepairsWithinLimit
<1>1. IndInv => RepairsWithinLimit
  BY DEF IndInv
<1> QED
  BY <1>1, Inductive, PTL

(* After the loop has returned every workcell is settled and no goroutine  *)
(* is left.                                                                *)
THEOREM ReturnsRight == Spec => []ReturnsSettled
<1>1. IndInv => ReturnsSettled
  BY DEF IndInv, TypeOK, RunningIsLive, LoopLeavesNothing, ReturnsSettled,
         Statuses, Final, Live
<1> QED
  BY <1>1, Inductive, PTL

-----------------------------------------------------------------------------
(* Action properties and the refinement.                                   *)

(* What a step does to one workcell's status, whoever takes it.            *)
LEMMA StatusStep ==
  ASSUME IndInv, [Next]_vars, NEW t \in Tasks
  PROVE  \/ status'[t] = status[t]
         \/ /\ status[t] = "pending" /\ status'[t] = "running"
            /\ \A d \in Deps(t) : status[d] = "passed"
         \/ status[t] = "running" /\ status'[t] \in Final
         \/ /\ status[t] = "pending" /\ status'[t] = "skipped"
            /\ \/ firstErr # NoTask
               \/ \E d \in Deps(t) : status'[d] \in {"failed", "skipped"}
<1>t. TypeOK
  BY DEF IndInv
<1>1. CASE Scan
  <2>1. t \in Ready => \A d \in Deps(t) : status[d] = "passed"
    BY DEF Ready
  <2> QED
    BY <1>t, <1>1, <2>1, ScanStatus
<1>2. CASE Idle
  <2>1. \/ status'[t] = status[t]
        \/ status[t] = "pending" /\ status'[t] = "skipped" /\ cancelled
    BY <1>t, <1>2 DEF Idle, Pending, TypeOK
  <2> QED
    BY <2>1 DEF IndInv, FailureReported
<1>3. CASE Return
  BY <1>3 DEF Return
<1>4. ASSUME NEW u \in Tasks, Moves(u)
      PROVE  status'[t] = status[t]
  BY <1>4 DEF Moves
<1>5. ASSUME NEW u \in Tasks, Reports(u)
      PROVE  status'[t] = status[t] \/ (status[t] = "running" /\ status'[t] \in Final)
  <2>1. PICK s \in Final : Report(u, s)
    BY <1>5 DEF Reports, Fail, Final
  <2>2. status[u] = "running"
    BY <1>5 DEF Reports, IndInv, RunningIsLive
  <2> QED
    BY <1>t, <2>1, <2>2 DEF Report, TypeOK
<1>6. CASE UNCHANGED vars
  BY <1>6 DEF vars
<1> QED
  BY <1>t, <1>1, <1>2, <1>3, <1>4, <1>5, <1>6, GoroutineShape DEF Next, Loop

(* No step changes the status of a settled workcell.                       *)
THEOREM SettledForGood == Spec => SettledStays
<1>1. IndInv /\ [Next]_vars =>
        [\A t \in Tasks : status[t] \in Final => status'[t] = status[t]]_vars
  BY StatusStep DEF Final
<1> QED
  BY <1>1, Inductive, PTL DEF Spec, SettledStays

(* After the first failure only a retried workcell can still pass.         *)
THEOREM LatePassesRetried == Spec => OnlyRetriesPassLate
<1>1. ASSUME IndInv, [Next]_vars, NEW t \in Tasks,
             cancelled, status[t] # "passed", status'[t] = "passed"
      PROVE  retries[t] > 0
  <2>t. TypeOK
    BY <1>1 DEF IndInv
  <2>1. CASE Scan
    BY <1>1, <2>t, <2>1, ScanStatus
  <2>2. CASE Idle
    BY <1>1, <2>t, <2>2 DEF Idle, Pending, TypeOK
  <2>3. CASE Return \/ UNCHANGED vars
    BY <1>1, <2>3 DEF Return, vars
  <2>4. ASSUME NEW u \in Tasks, Moves(u)
        PROVE  status' = status
    BY <2>4 DEF Moves
  <2>5. ASSUME NEW u \in Tasks, Reports(u)
        PROVE  retries[t] > 0
    <3>1. u = t
      BY <1>1, <2>t, <2>5 DEF Reports, Fail, Report, TypeOK
    <3> QED
      BY <1>1, <2>t, <2>5, <3>1 DEF Reports, Fail, Report, TypeOK
  <2> QED
    BY <1>1, <2>t, <2>1, <2>2, <2>3, <2>4, <2>5, GoroutineShape DEF Next, Loop
<1>2. IndInv /\ [Next]_vars =>
        [\A t \in Tasks :
           cancelled /\ status[t] # "passed" /\ status'[t] = "passed" =>
             retries[t] > 0]_vars
  BY <1>1
<1> QED
  BY <1>2, Inductive, PTL DEF Spec, OnlyRetriesPassLate

(* A step either leaves the error alone or sets it to a workcell that it   *)
(* records as failed.                                                      *)
LEMMA ErrorStep ==
  ASSUME IndInv, [Next]_vars
  PROVE  \/ firstErr' = firstErr
         \/ firstErr = NoTask /\ firstErr' \in Tasks /\ status'[firstErr'] = "failed"
<1>t. TypeOK
  BY DEF IndInv
<1>1. CASE Loop
  BY <1>1 DEF Loop, Scan, Idle, Return
<1>2. ASSUME NEW t \in Tasks, Moves(t)
      PROVE  firstErr' = firstErr
  BY <1>2 DEF Moves
<1>3. ASSUME NEW t \in Tasks, Reports(t)
      PROVE  \/ firstErr' = firstErr
             \/ firstErr = NoTask /\ firstErr' = t /\ status'[t] = "failed"
  BY <1>3, <1>t DEF Reports, Fail, Report, TypeOK
<1>4. CASE UNCHANGED vars
  BY <1>4 DEF vars
<1> QED
  BY <1>t, <1>1, <1>2, <1>3, <1>4, GoroutineShape DEF Next

(* The scheduler implements the running of a plan: its initial states are  *)
(* initial states of PlanRun, and each of its steps is a step or a stutter. *)
THEOREM Implements == Spec => ImplementsPlanRun
<1>1. Init => Plan!PlanInit
  <2> SUFFICES ASSUME Init
               PROVE  Plan!PlanInit
    OBVIOUS
  <2>1. IndInv
    BY IndInit
  <2>2. status \in [Tasks -> {"pending", "passed"}]
    BY DEF Init
  <2>3. \A t \in Tasks : status[t] = "passed" =>
          \A d \in Plan!Deps(t) : status[d] = "passed"
    BY <2>1 DEF IndInv, DependenciesFirst, Deps, Plan!Deps
  <2> QED
    BY <2>2, <2>3 DEF Init, Plan!PlanInit
<1>2. IndInv /\ IndInv' /\ [Next]_vars => [Plan!PlanNext]_Plan!planVars
  <2> SUFFICES ASSUME IndInv, IndInv', [Next]_vars
               PROVE  Plan!PlanNext
    OBVIOUS
  <2>1. status' \in [Tasks -> Plan!Statuses]
    BY DEF IndInv, TypeOK, Statuses, Plan!Statuses
  <2>2. \A t \in Tasks : \/ status'[t] = status[t]
                         \/ Plan!Starts(t)
                         \/ Plan!Settles(t)
                         \/ Plan!PassedOver(t)
    BY StatusStep DEF Deps, Final, Plan!Starts, Plan!Settles, Plan!PassedOver,
                      Plan!Deps, Plan!Settled
  <2>3. Plan!Judge
    <3>1. firstErr' = NoTask => \A t \in Tasks : status'[t] # "failed"
      BY DEF IndInv, FailureReported
    <3> QED
      BY ErrorStep, <3>1 DEF Plan!Judge
  <2> QED
    BY <2>1, <2>2, <2>3 DEF Plan!PlanNext
<1> QED
  BY <1>1, <1>2, Inductive, PTL DEF Spec, ImplementsPlanRun, Plan!PlanSpec

-----------------------------------------------------------------------------
(* Why a run ends.  Fairness apart, that takes two facts: before the loop  *)
(* returns something other than another look at the statuses can happen,   *)
(* and whatever happens brings the end nearer.                             *)

(* What the goroutine of t waits for: a free promptMu, if the operator has *)
(* to be asked, and otherwise only its executor or the operator's answer.  *)
CanMove(t) ==
  \/ pc[t] \in Live \ {"failing", "prompting", "answered"}
  \/ pc[t] = "failing" /\ (interactive => prompt = NoTask)
  \/ pc[t] = "prompting" /\ prompt = t
  \/ pc[t] = "answered" /\ answer[t] \in Answers

(* The next scan finds a workcell to start or to skip, or all settled; or  *)
(* wg.Wait is over.                                                        *)
LoopHasWork ==
  \/ /\ main \in {"scan", "idle"}
     /\ \/ Ready # {}
        \/ \E t \in Pending : Doomed({}, t)
        \/ \A t \in Tasks : status[t] \in Final
  \/ main = "wait" /\ \A t \in Tasks : pc[t] \in {"none", "done"}

(* Before the loop has returned either it has work or some goroutine can   *)
(* move: no set of pending workcells, goroutines that wait for promptMu    *)
(* and the waiting loop hold each other up.                                *)
NeverStuck == main # "returned" => LoopHasWork \/ \E t \in Tasks : CanMove(t)

(* How far a goroutine is from its end in this attempt.                    *)
StageOf(place, s) ==
  CASE place = "none" -> IF s = "pending" THEN 11 ELSE 0
    [] place = "repair" -> 10
    [] place = "repairing" -> 9
    [] place = "start" -> 8
    [] place = "running" -> 7
    [] place = "erred" -> 6
    [] place = "succeeded" -> 5
    [] place = "failing" -> 4
    [] place = "prompting" -> 3
    [] place = "answered" -> 2
    [] place = "done" -> 0

Stage(t) == StageOf(pc[t], status[t])

(* The attempts that are left: the operator's retries and the repairs.     *)
Attempts(t) == (MaxRetries - retries[t]) + (MaxRepairs[t] - repairs[t])

Ahead(t) == 12 * Attempts(t) + Stage(t)

LoopAhead == CASE main = "wait" -> 1 [] main = "returned" -> 0 [] OTHER -> 2

(* The loop looks again, and nothing has come of it.                       *)
Polls ==
  /\ main \in {"scan", "idle"} /\ main' \in {"scan", "idle"}
  /\ UNCHANGED <<status, repairs, pc, operatorVars, cancelled, firstErr>>

Nearer ==
  /\ \A t \in Tasks : Ahead(t) \in Nat /\ Ahead(t)' \in Nat /\ Ahead(t)' <= Ahead(t)
  /\ LoopAhead' <= LoopAhead
  /\ Polls \/ LoopAhead' < LoopAhead \/ \E t \in Tasks : Ahead(t)' < Ahead(t)

(* All that is ahead, of the workcells and, under NoTask, of the loop.     *)
Parties == Tasks \cup {NoTask}
Remaining == [p \in Parties |-> IF p = NoTask THEN LoopAhead ELSE Ahead(p)]

Below ==
  {e \in [Parties -> Nat] \X [Parties -> Nat] :
     /\ \A p \in Parties : e[1][p] <= e[2][p]
     /\ \E p \in Parties : e[1][p] < e[2][p]}

(* No step takes a workcell or the loop further from its end, and every    *)
(* step that is not a mere look at the statuses brings one of them nearer. *)
Descends ==
  [][(Polls /\ UNCHANGED Remaining) \/ <<Remaining', Remaining>> \in Below]_vars

(* One goroutine at a time asks, and it holds promptMu while it does.      *)
PromptInv ==
  /\ prompt # NoTask => pc[prompt] = "prompting"
  /\ \A t \in Tasks :
       /\ pc[t] = "prompting" => prompt = t
       /\ pc[t] = "answered" => answer[t] \in Answers
       /\ pc[t] = "answered" /\ answer[t] = "retry" => retries[t] < MaxRetries
       /\ retries[t] <= MaxRetries

LEMMA StageValues ==
  \A s : /\ StageOf("none", s) = IF s = "pending" THEN 11 ELSE 0
         /\ StageOf("repair", s) = 10 /\ StageOf("repairing", s) = 9
         /\ StageOf("start", s) = 8 /\ StageOf("running", s) = 7
         /\ StageOf("erred", s) = 6 /\ StageOf("succeeded", s) = 5
         /\ StageOf("failing", s) = 4 /\ StageOf("prompting", s) = 3
         /\ StageOf("answered", s) = 2 /\ StageOf("done", s) = 0
BY DEF StageOf

LEMMA StageBound == \A place \in Places : \A s : StageOf(place, s) \in 0..11
BY StageValues DEF Places

(* What is left of a workcell is a number.                                 *)
LEMMA AheadNat ==
  ASSUME IndInv, PromptInv, NEW t \in Tasks
  PROVE  Attempts(t) \in Nat /\ Stage(t) \in 0..11 /\ Ahead(t) \in Nat
<1>1. Attempts(t) \in Nat
  BY OptionAssumption DEF IndInv, TypeOK, RepairsWithinLimit, PromptInv, Attempts
<1>2. Stage(t) \in 0..11
  BY StageBound DEF IndInv, TypeOK, Stage
<1> QED
  BY <1>1, <1>2 DEF Ahead

(* A goroutine changes nothing of the other workcells.                     *)
LEMMA OthersStay ==
  ASSUME TypeOK, NEW t \in Tasks, Goroutine(t), NEW u \in Tasks, u # t
  PROVE  /\ status'[u] = status[u] /\ pc'[u] = pc[u] /\ repairs'[u] = repairs[u]
         /\ retries'[u] = retries[u] /\ answer'[u] = answer[u]
<1>1. CASE Moves(t)
  BY <1>1 DEF Moves, TypeOK
<1>2. CASE Reports(t)
  BY <1>2 DEF Reports, Fail, Report, TypeOK, operatorVars
<1> QED
  BY <1>1, <1>2, GoroutineShape

(* A step of a goroutine: from where to where, and what it uses up.        *)
Within(t, from, to) ==
  /\ pc[t] = from /\ pc'[t] = to
  /\ UNCHANGED <<repairs, operatorVars>>

OwnStep(t) ==
  \/ \E from \in {"start"}, to \in {"running", "erred", "failing"} : Within(t, from, to)
  \/ \E from \in {"running"}, to \in {"succeeded", "erred"} : Within(t, from, to)
  \/ Within(t, "erred", "failing")
  \/ \E from \in {"repair"}, to \in {"repairing", "failing"} : Within(t, from, to)
  \/ \E from \in {"repairing"}, to \in {"start", "failing"} : Within(t, from, to)
  \/ \E from \in {"succeeded", "failing", "answered"} : Within(t, from, "done")
  \/ /\ pc[t] = "erred" /\ pc'[t] = "repair"
     /\ repairs'[t] = repairs[t] + 1
     /\ UNCHANGED operatorVars
  \/ /\ pc[t] = "failing" /\ pc'[t] = "prompting"
     /\ prompt = NoTask /\ prompt' = t
     /\ UNCHANGED <<repairs, answer, retries>>
  \/ /\ pc[t] = "prompting" /\ pc'[t] = "answered"
     /\ prompt = t /\ prompt' = NoTask
     /\ answer'[t] \in Answers
     /\ answer'[t] = "retry" => retries[t] < MaxRetries
     /\ UNCHANGED <<repairs, retries>>
  \/ /\ pc[t] = "answered" /\ answer[t] = "retry" /\ pc'[t] = "start"
     /\ retries'[t] = retries[t] + 1
     /\ UNCHANGED <<repairs, prompt, answer>>

LEMMA OwnSteps ==
  ASSUME TypeOK, NEW t \in Tasks, Goroutine(t)
  PROVE  OwnStep(t)
<1> USE DEF operatorVars, TypeOK, Goes, Report, Within
<1>1. CASE Refuse(t)
  BY <1>1 DEF Refuse, OwnStep
<1>2. CASE Launch(t)
  BY <1>2 DEF Launch, OwnStep
<1>3. CASE Ends(t)
  BY <1>3 DEF Ends, OwnStep
<1>4. CASE Assess(t)
  BY <1>4 DEF Assess, OwnStep
<1>5. CASE Repair(t)
  BY <1>5 DEF Repair, OwnStep
<1>6. CASE Succeed(t)
  BY <1>6 DEF Succeed, OwnStep
<1>7. CASE FailUnattended(t)
  BY <1>7 DEF FailUnattended, Fail, OwnStep
<1>8. CASE Ask(t)
  BY <1>8 DEF Ask, OwnStep
<1>9. CASE Answer(t)
  BY <1>9 DEF Answer, OwnStep
<1>10. CASE Retry(t)
  BY <1>10 DEF Retry, OwnStep
<1>11. CASE Skip(t)
  BY <1>11 DEF Skip, OwnStep
<1>12. CASE Abort(t)
  BY <1>12 DEF Abort, Fail, OwnStep
<1> QED
  BY <1>1, <1>2, <1>3, <1>4, <1>5, <1>6, <1>7, <1>8, <1>9, <1>10, <1>11, <1>12
  DEF Goroutine, Execute

(* The prompt invariant holds at the start, and every step keeps it.       *)
LEMMA PromptInit == Init => PromptInv
BY OptionAssumption DEF Init, PromptInv

LEMMA PromptStep == IndInv /\ PromptInv /\ [Next]_vars => PromptInv'
<1> SUFFICES ASSUME IndInv, PromptInv, [Next]_vars
             PROVE  PromptInv'
  OBVIOUS
<1>t. TypeOK /\ TypeOK'
  BY TypeStep DEF IndInv
<1>1. CASE Scan
  <2>1. \A t \in Tasks : pc'[t] \in {pc[t], "start"}
    BY <1>1, <1>t, ScanStatus
  <2>2. prompt # NoTask => pc'[prompt] = "prompting"
    <3>1. prompt # NoTask => prompt \in Tasks
      BY <1>t DEF TypeOK
    <3>2. prompt # NoTask => status[prompt] = "running"
      BY <3>1 DEF PromptInv, IndInv, RunningIsLive, Live, Places
    <3> QED
      BY <1>1, <1>t, <3>1, <3>2, ScanStatus DEF PromptInv
  <2> QED
    BY <1>1, <2>1, <2>2 DEF PromptInv, Scan, operatorVars
<1>2. CASE Idle \/ Return \/ UNCHANGED vars
  BY <1>2 DEF Idle, Return, vars, operatorVars, PromptInv
<1>3. ASSUME NEW t \in Tasks, Goroutine(t)
      PROVE  PromptInv'
  <2>1. OwnStep(t)
    BY <1>t, <1>3, OwnSteps
  <2>2. \A u \in Tasks : u # t => /\ pc'[u] = pc[u] /\ retries'[u] = retries[u]
                                  /\ answer'[u] = answer[u]
    BY <1>t, <1>3, OthersStay
  <2>3. t # NoTask /\ prompt \in Tasks \cup {NoTask}
    BY <1>t, PlanAssumption DEF TypeOK
  <2>4. CASE pc[t] = "failing" /\ pc'[t] = "prompting" /\ prompt = NoTask /\ prompt' = t
              /\ UNCHANGED <<answer, retries>>
    BY <2>2, <2>3, <2>4, PlanAssumption DEF PromptInv
  <2>5. CASE /\ pc[t] = "prompting" /\ pc'[t] = "answered" /\ prompt = t /\ prompt' = NoTask
             /\ answer'[t] \in Answers
             /\ answer'[t] = "retry" => retries[t] < MaxRetries
             /\ UNCHANGED retries
    BY <2>2, <2>3, <2>5 DEF PromptInv
  <2>6. CASE /\ pc[t] = "answered" /\ answer[t] = "retry" /\ pc'[t] = "start"
             /\ retries'[t] = retries[t] + 1 /\ UNCHANGED prompt
    <3>1. retries'[t] <= MaxRetries
      BY <1>t, <2>6, OptionAssumption DEF PromptInv, TypeOK
    <3> QED
      BY <2>2, <2>3, <2>6, <3>1 DEF PromptInv
  <2>7. CASE /\ pc[t] # "prompting" /\ pc'[t] \notin {"prompting", "answered"}
             /\ UNCHANGED operatorVars
    BY <2>2, <2>3, <2>7 DEF PromptInv, operatorVars
  <2> QED
    BY <2>1, <2>4, <2>5, <2>6, <2>7 DEF OwnStep, Within
<1> QED
  BY <1>1, <1>2, <1>3 DEF Next, Loop

(* The holder of promptMu asks, and what it was answered is an answer.      *)
LEMMA PromptHeld == Spec => []PromptInv
<1>1. IndInv /\ PromptInv /\ [Next]_vars => PromptInv'
  BY PromptStep
<1> QED
  BY <1>1, PromptInit, Inductive, PTL DEF Spec

-----------------------------------------------------------------------------
(* The least of a set of numbers.                                          *)
LEMMA LeastOf ==
  ASSUME NEW T, T \subseteq Nat, T # {}
  PROVE  \E n \in T : \A m \in T : n <= m
<1> DEFINE R == OpToRel(<, Nat)
<1>1. IsWellFoundedOn(R, Nat)
  BY NatLessThanWellFounded
<1>2. \A m, n \in Nat : m < n => <<m, n>> \in R
  BY SMT DEF OpToRel
<1> HIDE DEF R
<1>3. PICK n \in T : \A m \in T : <<m, n>> \notin R
  BY <1>1, WFMin, Zenon
<1>4. ASSUME NEW m \in T
      PROVE  n <= m
  <2>1. m \in Nat /\ n \in Nat
    OBVIOUS
  <2>2. ~(m < n)
    BY <1>2, <1>3, <2>1
  <2> QED
    BY <2>1, <2>2
<1> QED
  BY <1>4

(* A workcell that is not ready while nothing runs waits at the first      *)
(* dependency that has not passed.                                         *)
LEMMA FirstBlocks ==
  ASSUME NEW t \in Tasks, NEW e \in Deps(t), status[e] # "passed"
  PROVE  \E d \in Deps(t) : Blocks(t, d)
<1> DEFINE late == {i \in DOMAIN DependsOn[t] : status[DependsOn[t][i]] # "passed"}
<1>1. DependsOn[t] \in Seq(Tasks)
  BY PlanAssumption
<1>2. DOMAIN DependsOn[t] = 1..Len(DependsOn[t]) /\ Len(DependsOn[t]) \in Nat
  BY <1>1
<1>3. late \subseteq Nat /\ late # {}
  BY <1>2 DEF Deps
<1>4. PICK n \in late : \A m \in late : n <= m
  BY <1>3, LeastOf
<1>5. \A j \in 1..(n - 1) : status[DependsOn[t][j]] = "passed"
  BY <1>2, <1>4
<1>6. Blocks(t, DependsOn[t][n])
  BY <1>4, <1>5 DEF Blocks
<1> QED
  BY <1>4, <1>6 DEF Deps

(* When nothing runs and something is pending, the next scan starts a      *)
(* workcell or skips one.                                                  *)
LEMMA PendingGoesOn ==
  ASSUME IndInv, \A t \in Tasks : pc[t] \in {"none", "done"}, Pending # {}
  PROVE  Ready # {} \/ \E t \in Pending : Doomed({}, t)
<1>1. \A t \in Tasks : status[t] \in Final \/ t \in Pending
  BY DEF IndInv, TypeOK, RunningIsLive, Statuses, Final, Pending, Live
<1>2. Pending \subseteq Tasks
  BY DEF Pending
<1>3. PICK t \in Pending : Deps(t) \cap Pending = {}
  BY <1>2, PlanAssumption
<1>4. \A d \in Deps(t) : status[d] \in Final
  BY <1>1, <1>2, <1>3, DepsAreTasks
<1>5. CASE \A d \in Deps(t) : status[d] = "passed"
  BY <1>5 DEF Ready
<1>6. ASSUME NEW e \in Deps(t), status[e] # "passed"
      PROVE  \E u \in Pending : Doomed({}, u)
  <2>1. PICK d \in Deps(t) : Blocks(t, d)
    BY <1>2, <1>6, FirstBlocks
  <2>2. status[d] \in {"failed", "skipped"}
    BY <1>4, <2>1 DEF Blocks, Final
  <2> QED
    BY <2>1, <2>2 DEF Doomed
<1> QED
  BY <1>5, <1>6

(* In every reachable state before the return the loop has work or a       *)
(* goroutine can move.                                                     *)
LEMMA NoStandstill == Spec => []NeverStuck
<1>1. ASSUME IndInv, PromptInv, main # "returned", NEW t \in Tasks, pc[t] \in Live
      PROVE  \E u \in Tasks : CanMove(u)
  <2>1. CASE pc[t] = "failing" /\ interactive /\ prompt # NoTask
    <3>1. prompt \in Tasks /\ pc[prompt] = "prompting"
      BY <1>1, <2>1 DEF IndInv, TypeOK, PromptInv
    <3> QED
      BY <3>1 DEF CanMove
  <2>2. CASE ~(pc[t] = "failing" /\ interactive /\ prompt # NoTask)
    BY <1>1, <2>2 DEF CanMove, PromptInv
  <2> QED
    BY <2>1, <2>2
<1>2. ASSUME IndInv, main # "returned", \A t \in Tasks : pc[t] \notin Live
      PROVE  LoopHasWork
  <2>1. \A t \in Tasks : pc[t] \in {"none", "done"}
    BY <1>2 DEF IndInv, TypeOK, Live
  <2>2. CASE main = "wait"
    BY <2>1, <2>2 DEF LoopHasWork
  <2>3. CASE main \in {"scan", "idle"} /\ Pending # {}
    BY <1>2, <2>1, <2>3, PendingGoesOn DEF LoopHasWork
  <2>4. CASE main \in {"scan", "idle"} /\ Pending = {}
    BY <1>2, <2>1, <2>4
    DEF LoopHasWork, IndInv, TypeOK, RunningIsLive, Statuses, Final, Pending, Live
  <2> QED
    BY <1>2, <2>2, <2>3, <2>4 DEF IndInv, TypeOK
<1>3. IndInv /\ PromptInv => NeverStuck
  BY <1>1, <1>2 DEF NeverStuck
<1> QED
  BY <1>3, Inductive, PromptHeld, PTL

(* What a lower attempt, or a lower stage of the same one, leaves ahead.   *)
LEMMA Weighs ==
  ASSUME NEW a \in Nat, NEW b \in Nat, NEW x \in 0..11, NEW y \in 0..11,
         b = a - 1 \/ (b = a /\ y < x)
  PROVE  12 * b + y < 12 * a + x
OBVIOUS

(* A step of a goroutine uses up an attempt or lowers the stage.           *)
LEMMA OwnLower ==
  ASSUME IndInv, IndInv', PromptInv, PromptInv', NEW t \in Tasks, Goroutine(t)
  PROVE  Ahead(t)' < Ahead(t)
<1>t. TypeOK /\ TypeOK'
  BY DEF IndInv
<1>1. /\ Attempts(t) \in Nat /\ Stage(t) \in 0..11
      /\ Attempts(t)' \in Nat /\ Stage(t)' \in 0..11
  <2>1. Attempts(t) \in Nat /\ Attempts(t)' \in Nat
    BY OptionAssumption DEF IndInv, TypeOK, RepairsWithinLimit, PromptInv, Attempts
  <2>2. Stage(t) \in 0..11 /\ Stage(t)' \in 0..11
    BY <1>t, StageBound DEF TypeOK, Stage
  <2> QED
    BY <2>1, <2>2
<1>2. OwnStep(t)
  BY <1>t, OwnSteps
<1>3. /\ MaxRetries \in Nat /\ MaxRepairs[t] \in Nat
      /\ repairs[t] \in Nat /\ retries[t] \in Nat
  BY <1>t, OptionAssumption DEF TypeOK
<1>4. CASE \/ pc'[t] = "repair" /\ repairs'[t] = repairs[t] + 1 /\ retries'[t] = retries[t]
           \/ pc'[t] = "start" /\ repairs'[t] = repairs[t] /\ retries'[t] = retries[t] + 1
  <2>1. Attempts(t)' = (MaxRetries - retries'[t]) + (MaxRepairs[t] - repairs'[t])
    BY DEF Attempts
  <2>2. Attempts(t) = (MaxRetries - retries[t]) + (MaxRepairs[t] - repairs[t])
    BY DEF Attempts
  <2>3. Attempts(t)' = Attempts(t) - 1
    BY <1>3, <1>4, <2>1, <2>2
  <2> QED
    BY <1>1, <2>3, Weighs DEF Ahead
<1>5. CASE UNCHANGED <<repairs, retries>> /\ Stage(t)' < Stage(t)
  <2>1. Attempts(t)' = Attempts(t)
    BY <1>5 DEF Attempts
  <2> QED
    BY <1>1, <1>5, <2>1, Weighs DEF Ahead
<1>6. ASSUME NEW from, NEW to, Within(t, from, to),
             StageOf(to, status'[t]) < StageOf(from, status[t])
      PROVE  UNCHANGED <<repairs, retries>> /\ Stage(t)' < Stage(t)
  BY <1>6 DEF Within, Stage, operatorVars
<1>7. \/ Stage(t)' < Stage(t) /\ UNCHANGED <<repairs, retries>>
      \/ pc'[t] = "repair" /\ repairs'[t] = repairs[t] + 1 /\ retries'[t] = retries[t]
      \/ pc'[t] = "start" /\ repairs'[t] = repairs[t] /\ retries'[t] = retries[t] + 1
  BY <1>2, <1>6, StageValues DEF OwnStep, Stage, operatorVars
<1> QED
  BY <1>4, <1>5, <1>7

LEMMA AheadNats ==
  ASSUME IndInv, IndInv', PromptInv, PromptInv', NEW t \in Tasks
  PROVE  Ahead(t) \in Nat /\ Ahead(t)' \in Nat
<1>1. Attempts(t) \in Nat /\ Attempts(t)' \in Nat
  BY OptionAssumption DEF IndInv, TypeOK, RepairsWithinLimit, PromptInv, Attempts
<1>2. Stage(t) \in 0..11 /\ Stage(t)' \in 0..11
  BY StageBound DEF IndInv, TypeOK, Stage
<1> QED
  BY <1>1, <1>2 DEF Ahead

(* A workcell whose goroutine the loop does not touch is as far as before; *)
(* one that it starts or skips is nearer.                                  *)
LEMMA LoopLower ==
  ASSUME IndInv, NEW t \in Tasks, UNCHANGED <<repairs, retries>>,
         Attempts(t) \in Nat,
         \/ status'[t] = status[t] /\ pc'[t] = pc[t]
         \/ status[t] = "pending" /\ status'[t] = "running" /\ pc'[t] = "start"
         \/ status[t] = "pending" /\ status'[t] = "skipped" /\ pc'[t] = pc[t]
  PROVE  /\ status'[t] = status[t] => Ahead(t)' = Ahead(t)
         /\ status'[t] # status[t] => Ahead(t)' < Ahead(t)
<1>1. status[t] = "pending" => pc[t] = "none"
  BY DEF IndInv, TypeOK, RunningIsLive, Places, Live, Final
<1>2. Attempts(t)' = Attempts(t)
  BY DEF Attempts
<1>3. status'[t] = status[t] => Stage(t)' = Stage(t)
  BY DEF Stage
<1>4. status'[t] # status[t] =>
        Stage(t) = 11 /\ Stage(t)' \in {0, 8}
  BY <1>1, StageValues DEF Stage
<1>5. status'[t] = status[t] => Ahead(t)' = Ahead(t)
  BY <1>2, <1>3 DEF Ahead
<1>6. status'[t] # status[t] => Ahead(t)' < Ahead(t)
  BY <1>2, <1>4 DEF Ahead
<1> QED
  BY <1>5, <1>6

(* A scan starts and skips, finds everything settled, or finds nothing.    *)
LEMMA ScanLower ==
  ASSUME IndInv, IndInv', PromptInv, PromptInv', Scan
  PROVE  Nearer
<1>t. TypeOK /\ TypeOK'
  BY DEF IndInv
<1>u. UNCHANGED <<repairs, operatorVars, cancelled, firstErr>>
  BY DEF Scan
<1>1. \A t \in Tasks : Ahead(t) \in Nat /\ Ahead(t)' \in Nat
  BY AheadNats
<1>2. \A t \in Tasks :
        \/ status'[t] = status[t] /\ pc'[t] = pc[t]
        \/ status[t] = "pending" /\ status'[t] = "running" /\ pc'[t] = "start"
        \/ status[t] = "pending" /\ status'[t] = "skipped" /\ pc'[t] = pc[t]
  BY <1>t, ScanStatus
<1>3. \A t \in Tasks : /\ status'[t] = status[t] => Ahead(t)' = Ahead(t)
                       /\ status'[t] # status[t] => Ahead(t)' < Ahead(t)
  BY <1>u, <1>2, AheadNat, LoopLower DEF operatorVars
<1>4. \A t \in Tasks : Ahead(t)' <= Ahead(t)
  BY <1>1, <1>3
<1>5. main = "scan" /\ main' \in {"scan", "idle", "wait"}
  BY DEF Scan
<1>6. LoopAhead' <= LoopAhead /\ (main' = "wait" => LoopAhead' < LoopAhead)
  BY <1>5 DEF LoopAhead
<1>7. CASE \A t \in Tasks : status'[t] = status[t]
  <2>1. status' = status
    BY <1>t, <1>7 DEF TypeOK
  <2>2. pc' = pc
    BY <1>t, <1>2, <1>7 DEF TypeOK
  <2>3. main' = "wait" \/ Polls
    BY <1>u, <1>5, <2>1, <2>2 DEF Polls
  <2> QED
    BY <1>1, <1>4, <1>6, <2>3 DEF Nearer
<1>8. CASE ~\A t \in Tasks : status'[t] = status[t]
  BY <1>1, <1>3, <1>4, <1>6, <1>8 DEF Nearer
<1> QED
  BY <1>7, <1>8

(* The loop looks again, or gives up on what is pending.                   *)
LEMMA IdleLower ==
  ASSUME IndInv, IndInv', PromptInv, PromptInv', Idle
  PROVE  Nearer
<1>t. TypeOK
  BY DEF IndInv
<1>u. UNCHANGED <<repairs, pc, operatorVars, cancelled, firstErr>>
  BY DEF Idle
<1>1. \A t \in Tasks : Ahead(t) \in Nat /\ Ahead(t)' \in Nat
  BY AheadNats
<1>2. \A t \in Tasks :
        \/ status'[t] = status[t] /\ pc'[t] = pc[t]
        \/ status[t] = "pending" /\ status'[t] = "skipped" /\ pc'[t] = pc[t]
  BY <1>t, <1>u DEF Idle, Pending, TypeOK
<1>3. \A t \in Tasks : Ahead(t)' <= Ahead(t)
  <2> SUFFICES ASSUME NEW t \in Tasks
               PROVE  Ahead(t)' <= Ahead(t)
    OBVIOUS
  <2>1. Ahead(t)' = Ahead(t) \/ Ahead(t)' < Ahead(t)
    BY <1>u, <1>2, AheadNat, LoopLower DEF operatorVars
  <2> QED
    BY <1>1, <2>1
<1>4. CASE main' = "scan" /\ UNCHANGED status
  BY <1>u, <1>1, <1>3, <1>4 DEF Idle, Polls, LoopAhead, Nearer
<1>5. CASE main' = "wait"
  BY <1>1, <1>3, <1>5 DEF Idle, LoopAhead, Nearer
<1> QED
  BY <1>4, <1>5 DEF Idle

(* What lowers one of the numbers and raises none is below.                *)
LEMMA NearerIsBelow ==
  ASSUME Nearer
  PROVE  (Polls /\ UNCHANGED Remaining) \/ <<Remaining', Remaining>> \in Below
<1>1. LoopAhead \in Nat /\ LoopAhead' \in Nat
  BY DEF LoopAhead
<1>2. Remaining \in [Parties -> Nat] /\ Remaining' \in [Parties -> Nat]
  BY <1>1 DEF Nearer, Remaining, Parties
<1>3. /\ Remaining[NoTask] = LoopAhead /\ Remaining'[NoTask] = LoopAhead'
      /\ \A t \in Tasks : Remaining[t] = Ahead(t) /\ Remaining'[t] = Ahead(t)'
  BY PlanAssumption DEF Remaining, Parties
<1>4. \A p \in Parties : Remaining'[p] <= Remaining[p]
  BY <1>3 DEF Nearer, Parties
<1>5. CASE Polls
  <2>1. LoopAhead' = LoopAhead
    BY <1>5 DEF Polls, LoopAhead
  <2>2. \A t \in Tasks : Ahead(t)' = Ahead(t)
    BY <1>5 DEF Polls, operatorVars, Ahead, Attempts, Stage
  <2>3. UNCHANGED Remaining
    BY <2>1, <2>2 DEF Remaining, Parties
  <2> QED
    BY <1>5, <2>3
<1>6. CASE LoopAhead' < LoopAhead \/ \E t \in Tasks : Ahead(t)' < Ahead(t)
  <2>1. \E p \in Parties : Remaining'[p] < Remaining[p]
    BY <1>3, <1>6 DEF Parties
  <2> QED
    BY <1>2, <1>4, <2>1 DEF Below
<1> QED
  BY <1>5, <1>6 DEF Nearer

(* Every step that is not a mere look brings the end nearer.               *)
LEMMA EndsApproach == Spec => Descends
<1>1. ASSUME IndInv, IndInv', PromptInv, PromptInv', [Next]_vars
      PROVE  [Nearer]_vars
  <2>t. TypeOK /\ TypeOK'
    BY <1>1 DEF IndInv
  <2>1. \A t \in Tasks : Ahead(t) \in Nat /\ Ahead(t)' \in Nat
    BY <1>1, AheadNats
  <2>2. CASE Scan
    BY <1>1, <2>2, ScanLower
  <2>3. CASE Idle
    BY <1>1, <2>3, IdleLower
  <2>4. CASE Return
    <3>1. \A t \in Tasks : Ahead(t)' = Ahead(t)
      BY <2>4 DEF Return, operatorVars, Ahead, Attempts, Stage
    <3> QED
      BY <2>1, <2>4, <3>1 DEF Return, LoopAhead, Nearer
  <2>5. ASSUME NEW t \in Tasks, Goroutine(t)
        PROVE  Nearer
    <3>1. Ahead(t)' < Ahead(t)
      BY <1>1, <2>5, OwnLower
    <3>2. \A u \in Tasks : u # t => Ahead(u)' = Ahead(u)
      BY <2>t, <2>5, OthersStay DEF Ahead, Attempts, Stage
    <3>3. main' = main
      BY <2>t, <2>5, GoroutineShape DEF Moves, Reports
    <3>4. LoopAhead' = LoopAhead /\ LoopAhead \in Nat
      BY <3>3 DEF LoopAhead
    <3> QED
      BY <2>1, <3>1, <3>2, <3>4 DEF Nearer
  <2> QED
    BY <1>1, <2>2, <2>3, <2>4, <2>5 DEF Next, Loop
<1>2. IndInv /\ IndInv' /\ PromptInv /\ PromptInv' /\ [Next]_vars =>
        [(Polls /\ UNCHANGED Remaining) \/ <<Remaining', Remaining>> \in Below]_vars
  BY <1>1, NearerIsBelow
<1> QED
  BY <1>2, Inductive, PromptHeld, PTL DEF Spec, Descends

(* Of every set of numberings one is least on the parties of U: by         *)
(* induction on how many they are, as the absence of a smallest U without. *)
LeastOn(T, U, f) ==
  /\ f \in T
  /\ \A g \in T : (\A p \in U : g[p] <= f[p]) => \A p \in U : g[p] = f[p]

LEMMA LeastWithOneMore ==
  ASSUME NEW T, T \subseteq [Parties -> Nat], NEW U \in SUBSET Parties, NEW x \in U,
         NEW f, LeastOn(T, U \ {x}, f)
  PROVE  \E h : LeastOn(T, U, h)
<1> DEFINE same == {g \in T : \A p \in U \ {x} : g[p] = f[p]}
           at == {g[x] : g \in same}
<1>1. f \in same
  BY DEF LeastOn
<1>2. at \subseteq Nat /\ at # {}
  BY <1>1
<1>3. PICK n \in at : \A m \in at : n <= m
  BY <1>2, LeastOf
<1>4. PICK h \in same : h[x] = n
  BY <1>3
<1>5. ASSUME NEW g \in T, \A p \in U : g[p] <= h[p]
      PROVE  \A p \in U : g[p] = h[p]
  <2>1. \A p \in U \ {x} : h[p] = f[p]
    BY <1>4
  <2>2. \A p \in U \ {x} : g[p] <= f[p]
    BY <1>5, <2>1
  <2>3. \A p \in U \ {x} : g[p] = f[p]
    BY <2>2 DEF LeastOn
  <2>4. g[x] \in at
    BY <2>3
  <2>5. g[x] \in Nat /\ h[x] \in Nat /\ g[x] <= h[x] /\ h[x] <= g[x]
    BY <1>2, <1>3, <1>4, <1>5, <2>4
  <2> QED
    BY <2>1, <2>3, <2>5
<1> QED
  BY <1>4, <1>5 DEF LeastOn

LEMMA LeastExists ==
  ASSUME NEW T, T \subseteq [Parties -> Nat], T # {}
  PROVE  \E f : LeastOn(T, Parties, f)
<1> DEFINE without == {U \in SUBSET Parties : ~ \E f : LeastOn(T, U, f)}
           sizes == {Cardinality(U) : U \in without}
<1>1. IsFiniteSet(Parties)
  BY PlanAssumption, FS_AddElement DEF Parties
<1>2. \A U \in SUBSET Parties : IsFiniteSet(U) /\ Cardinality(U) \in Nat
  BY <1>1, FS_Subset, FS_CardinalityType
<1>3. SUFFICES ASSUME without # {}
               PROVE  FALSE
  OBVIOUS
<1>4. sizes \subseteq Nat /\ sizes # {}
  BY <1>2, <1>3
<1>5. PICK n \in sizes : \A m \in sizes : n <= m
  BY <1>4, LeastOf
<1>6. PICK U \in without : Cardinality(U) = n
  BY <1>5
<1>7. PICK x : x \in U
  <2>1. \A f \in T : LeastOn(T, {}, f)
    BY DEF LeastOn
  <2>2. U # {}
    BY <1>6, <2>1
  <2> QED
    BY <2>2
<1>8. Cardinality(U \ {x}) = n - 1
  BY <1>2, <1>6, <1>7, FS_RemoveElement
<1>9. U \ {x} \notin without
  <2>1. n \in Nat /\ \A m \in sizes : n <= m
    BY <1>4, <1>5
  <2> HIDE DEF sizes
  <2>2. n - 1 \notin sizes
    BY <2>1
  <2> USE DEF sizes
  <2> QED
    BY <1>8, <2>2
<1>10. PICK f : LeastOn(T, U \ {x}, f)
  BY <1>6, <1>9
<1> QED
  BY <1>6, <1>7, <1>10, LeastWithOneMore

(* And nothing gets nearer for ever: the numbers that Descends lowers      *)
(* cannot be lowered without end.                                          *)
LEMMA DescentEnds == IsWellFoundedOn(Below, [Parties -> Nat])
<1>1. ASSUME NEW T \in SUBSET [Parties -> Nat], T # {}
      PROVE  \E f \in T : \A g \in T : <<g, f>> \notin Below
  <2>1. PICK f : LeastOn(T, Parties, f)
    BY <1>1, LeastExists
  <2>2. ASSUME NEW g \in T, <<g, f>> \in Below
        PROVE  FALSE
    <3>1. \A p \in Parties : g[p] <= f[p]
      BY <2>2 DEF Below
    <3>2. PICK p \in Parties : g[p] < f[p]
      BY <2>2 DEF Below
    <3>3. g[p] = f[p] /\ f[p] \in Nat
      BY <2>1, <3>1 DEF LeastOn
    <3> QED
      BY <3>2, <3>3
  <2> QED
    BY <2>1, <2>2 DEF LeastOn
<1> QED
  BY <1>1, MinWF, Zenon

(* Every run of a plan ends, whichever workcells fail, are repaired,       *)
(* retried, skipped or cancelled, but for the fairness that has the loop   *)
(* and the goroutines take their steps: until the loop has returned it has *)
(* work or a goroutine can move, and every step that is not a mere look at *)
(* the statuses brings the end nearer, which cannot recede for ever.       *)
THEOREM RunApproachesEnd ==
  /\ Spec => []NeverStuck /\ Descends
  /\ IsWellFoundedOn(Below, [Parties -> Nat])
BY NoStandstill, EndsApproach, DescentEnds

=============================================================================
