----------------------------- MODULE Scheduler ------------------------------
(***************************************************************************)
(* runWorkcellsConcurrent (internal/cli/scheduler.go) with the execution   *)
(* of one workcell, executeSingleWorkcell (internal/cli/cli.go).  One      *)
(* scheduling loop scans the shared status map under mu and starts a       *)
(* goroutine per ready workcell.  The goroutine runs its executor, repairs *)
(* and runs again, asks the operator under promptMu when that fails, and   *)
(* reports under mu.  The first failure cancels the shared context.        *)
(*                                                                         *)
(* The loop is cut at the unlock after its scan, a goroutine wherever      *)
(* another one or the cancelled context can come between.  What executors  *)
(* answer is theirs; an executor does not start under a cancelled context  *)
(* and may still succeed when the cancellation comes as it ends.           *)
(***************************************************************************)
EXTENDS Integers, FiniteSets, Sequences

CONSTANTS
  Tasks,        \* the workcells of the plan
  DependsOn,    \* each workcell's depends_on
  MaxRepairs,   \* each workcell's max_repairs
  Unsupported,  \* workcells with peers, for an executor that has none
  MaxRetries,   \* bound on how often the operator answers retry to one workcell
  NoTask        \* no workcell

Deps(t) == {DependsOn[t][i] : i \in DOMAIN DependsOn[t]}

(* What validatePlan lets through: dependencies exist and have no cycle.   *)
ASSUME PlanAssumption ==
  /\ IsFiniteSet(Tasks)
  /\ DependsOn \in [Tasks -> Seq(Tasks)]
  /\ \A S \in SUBSET Tasks : S # {} => \E t \in S : Deps(t) \cap S = {}
  /\ NoTask \notin Tasks

ASSUME OptionAssumption ==
  /\ MaxRepairs \in [Tasks -> Nat]
  /\ Unsupported \in SUBSET Tasks
  /\ MaxRetries \in Nat

VARIABLES
  status,      \* Status of each workcellRunState
  repairs,     \* RepairsAttempted of each
  main,        \* where the scheduling loop stands
  pc,          \* where each workcell's goroutine stands
  prompt,      \* the workcell whose goroutine holds promptMu
  answer,      \* the operator's last answer to each workcell
  retries,     \* retryCount of each
  interactive, \* no --non-interactive: constant over a run
  cancelled,   \* ctx.Err() # nil
  firstErr     \* the workcell whose error is firstErr, or NoTask

vars ==
  <<status, repairs, main, pc, prompt, answer, retries, interactive, cancelled, firstErr>>
operatorVars == <<prompt, answer, retries, interactive>>

Statuses == {"pending", "running", "passed", "failed", "skipped"}
Final == {"passed", "failed", "skipped"}
Places ==
  {"none", "start", "running", "erred", "repair", "repairing", "succeeded",
   "failing", "prompting", "answered", "done"}
Answers == {"retry", "skip", "abort"}

TypeOK ==
  /\ status \in [Tasks -> Statuses]
  /\ repairs \in [Tasks -> Nat]
  /\ main \in {"scan", "idle", "wait", "returned"}
  /\ pc \in [Tasks -> Places]
  /\ prompt \in Tasks \cup {NoTask}
  /\ answer \in [Tasks -> Answers \cup {"none"}]
  /\ retries \in [Tasks -> Nat]
  /\ interactive \in BOOLEAN
  /\ cancelled \in BOOLEAN
  /\ firstErr \in Tasks \cup {NoTask}

(* A resumed run takes over what passed before, which is closed under      *)
(* dependencies because it was scheduled here.                             *)
Init ==
  /\ \E passed \in SUBSET Tasks :
       /\ \A t \in passed : Deps(t) \subseteq passed
       /\ status = [t \in Tasks |-> IF t \in passed THEN "passed" ELSE "pending"]
  /\ repairs = [t \in Tasks |-> 0]
  /\ main = "scan"
  /\ pc = [t \in Tasks |-> "none"]
  /\ prompt = NoTask
  /\ answer = [t \in Tasks |-> "none"]
  /\ retries = [t \in Tasks |-> 0]
  /\ interactive \in BOOLEAN
  /\ cancelled = FALSE
  /\ firstErr = NoTask

-----------------------------------------------------------------------------
(* The scheduling loop.                                                    *)

(* Where the scan of t's dependencies stops: the first that has not passed. *)
Blocks(t, d) ==
  \E i \in DOMAIN DependsOn[t] :
    /\ DependsOn[t][i] = d
    /\ status[d] # "passed"
    /\ \A j \in 1..(i - 1) : status[DependsOn[t][j]] = "passed"

Pending == {t \in Tasks : status[t] = "pending"}

Ready == {t \in Pending : \A d \in Deps(t) : status[d] = "passed"}

(* Broken: a pending dependency dooms its dependents too.                  *)
DoomedEarly(skip, t) ==
  \E d \in Deps(t) : Blocks(t, d) /\ status[d] \in {"pending", "failed", "skipped"}

(* A workcell is skipped when its scan stops at a failed or skipped one,   *)
(* which may have been skipped earlier in the same scan: the map is ranged *)
(* over in any order.                                                      *)
Doomed(skip, t) ==
  \E d \in Deps(t) : Blocks(t, d) /\ (status[d] \in {"failed", "skipped"} \/ d \in skip)

(* Broken: the loop does not wait for the workcells that still run.        *)
ScanForgetsRunning ==
  /\ main = "scan"
  /\ \E skip \in SUBSET (Pending \ Ready) :
       /\ \A t \in Pending \ Ready : Doomed({}, t) => t \in skip
       /\ \A t \in skip : Doomed(skip, t)
       /\ status' = [t \in Tasks |-> IF t \in Ready THEN "running"
                                     ELSE IF t \in skip THEN "skipped"
                                     ELSE status[t]]
  /\ pc' = [t \in Tasks |-> IF t \in Ready THEN "start" ELSE pc[t]]
  /\ main' = IF Pending = {} THEN "returned" ELSE IF Ready = {} THEN "idle" ELSE "scan"
  /\ UNCHANGED <<repairs, operatorVars, cancelled, firstErr>>

Scan ==
  /\ main = "scan"
  /\ \E skip \in SUBSET (Pending \ Ready) :
       /\ \A t \in Pending \ Ready : Doomed({}, t) => t \in skip
       /\ \A t \in skip : Doomed(skip, t)
       /\ status' = [t \in Tasks |-> IF t \in Ready THEN "running"
                                     ELSE IF t \in skip THEN "skipped"
                                     ELSE status[t]]
  /\ pc' = [t \in Tasks |-> IF t \in Ready THEN "start" ELSE pc[t]]
  /\ main' = IF \A t \in Tasks : status[t] \in Final THEN "wait"
             ELSE IF Ready = {} THEN "idle"
             ELSE "scan"
  /\ UNCHANGED <<repairs, operatorVars, cancelled, firstErr>>

(* Broken: the loop leaves running workcells marked skipped behind.        *)
IdleSkipsAll ==
  /\ main = "idle"
  /\ \/ /\ ~cancelled
        /\ main' = "scan"
        /\ UNCHANGED status
     \/ /\ cancelled
        /\ status' = [t \in Tasks |-> IF status[t] \in {"pending", "running"}
                                      THEN "skipped" ELSE status[t]]
        /\ main' = "wait"
  /\ UNCHANGED <<repairs, pc, operatorVars, cancelled, firstErr>>

(* Broken: the cancelled context is not looked at.                         *)
IdleForever ==
  /\ main = "idle"
  /\ main' = "idle"
  /\ UNCHANGED <<status, repairs, pc, operatorVars, cancelled, firstErr>>

(* Nothing was ready: give up on what is pending once the run is           *)
(* cancelled, else sleep and scan again.                                   *)
Idle ==
  /\ main = "idle"
  /\ \/ /\ ~cancelled
        /\ main' = "scan"
        /\ UNCHANGED status
     \/ /\ cancelled
        /\ status' = [t \in Tasks |-> IF t \in Pending THEN "skipped" ELSE status[t]]
        /\ main' = "wait"
  /\ UNCHANGED <<repairs, pc, operatorVars, cancelled, firstErr>>

(* wg.Wait                                                                 *)
Return ==
  /\ main = "wait"
  /\ \A t \in Tasks : pc[t] \in {"none", "done"}
  /\ main' = "returned"
  /\ UNCHANGED <<status, repairs, pc, operatorVars, cancelled, firstErr>>

-----------------------------------------------------------------------------
(* executeSingleWorkcell.                                                  *)

Goes(t, from, to) == pc[t] = from /\ pc' = [pc EXCEPT ![t] = to]

(* A workcell whose executor has no peers is refused without repair.       *)
Refuse(t) ==
  /\ t \in Unsupported
  /\ Goes(t, "start", "failing")
  /\ UNCHANGED <<status, repairs, main, operatorVars, cancelled, firstErr>>

(* exec.CommandContext: nothing starts under a cancelled context.          *)
Launch(t) ==
  /\ t \notin Unsupported
  /\ \/ ~cancelled /\ Goes(t, "start", "running")
     \/ Goes(t, "start", "erred")
  /\ UNCHANGED <<status, repairs, main, operatorVars, cancelled, firstErr>>

(* The executor and the rubric are satisfied, or one of them is not.       *)
Ends(t) ==
  /\ \/ Goes(t, "running", "succeeded")
     \/ Goes(t, "running", "erred")
  /\ UNCHANGED <<status, repairs, main, operatorVars, cancelled, firstErr>>

RepairLeft(t) == repairs[t] < MaxRepairs[t]

Assess(t) ==
  /\ \/ /\ RepairLeft(t)
        /\ repairs' = [repairs EXCEPT ![t] = @ + 1]
        /\ Goes(t, "erred", "repair")
     \/ /\ ~RepairLeft(t)
        /\ Goes(t, "erred", "failing")
        /\ UNCHANGED repairs
  /\ UNCHANGED <<status, main, operatorVars, cancelled, firstErr>>

(* runRepairSwarm: a failed repair fails the workcell.                     *)
Repair(t) ==
  /\ \/ ~cancelled /\ Goes(t, "repair", "repairing")
     \/ Goes(t, "repair", "failing")
     \/ Goes(t, "repairing", "start")
     \/ Goes(t, "repairing", "failing")
  /\ UNCHANGED <<status, repairs, main, operatorVars, cancelled, firstErr>>

-----------------------------------------------------------------------------
(* The goroutine around it.                                                *)

Report(t, s) ==
  /\ status' = [status EXCEPT ![t] = s]
  /\ pc' = [pc EXCEPT ![t] = "done"]

(* Broken: the failure is recorded and the error is not.                   *)
FailSilently(t) ==
  /\ Report(t, "failed")
  /\ cancelled' = TRUE
  /\ UNCHANGED firstErr

(* setFailure, under mu with the status: the first error cancels the run.  *)
Fail(t) ==
  /\ Report(t, "failed")
  /\ firstErr' = IF firstErr = NoTask THEN t ELSE firstErr
  /\ cancelled' = TRUE

(* Broken: the context is not looked at again after the run.               *)
SucceedRegardless(t) ==
  /\ pc[t] = "succeeded"
  /\ Report(t, "passed")
  /\ UNCHANGED <<repairs, main, operatorVars, cancelled, firstErr>>

(* A first run that ends under a cancelled context is not counted; a       *)
(* retried one is.                                                         *)
Succeed(t) ==
  /\ pc[t] = "succeeded"
  /\ Report(t, IF cancelled /\ retries[t] = 0 THEN "skipped" ELSE "passed")
  /\ UNCHANGED <<repairs, main, operatorVars, cancelled, firstErr>>

FailUnattended(t) ==
  /\ ~interactive
  /\ pc[t] = "failing"
  /\ Fail(t)
  /\ UNCHANGED <<repairs, main, operatorVars>>

(* promptMu is free: give up if the run was cancelled, else ask.           *)
Ask(t) ==
  /\ interactive
  /\ pc[t] = "failing"
  /\ prompt = NoTask
  /\ \/ /\ cancelled
        /\ Report(t, "skipped")
        /\ UNCHANGED prompt
     \/ /\ ~cancelled
        /\ Goes(t, "failing", "prompting")
        /\ prompt' = t
        /\ UNCHANGED status
  /\ UNCHANGED <<repairs, main, answer, retries, interactive, cancelled, firstErr>>

(* The operator answers; an unreadable answer is an abort.  promptMu is    *)
(* given back before the answer is acted upon.                             *)
Answer(t) ==
  /\ prompt = t
  /\ Goes(t, "prompting", "answered")
  /\ prompt' = NoTask
  /\ \E a \in Answers :
       /\ a = "retry" => retries[t] < MaxRetries
       /\ answer' = [answer EXCEPT ![t] = a]
  /\ UNCHANGED <<status, repairs, main, retries, interactive, cancelled, firstErr>>

Retry(t) ==
  /\ answer[t] = "retry"
  /\ Goes(t, "answered", "start")
  /\ retries' = [retries EXCEPT ![t] = @ + 1]
  /\ UNCHANGED <<status, repairs, main, prompt, answer, interactive, cancelled, firstErr>>

Skip(t) ==
  /\ pc[t] = "answered" /\ answer[t] = "skip"
  /\ Report(t, "skipped")
  /\ UNCHANGED <<repairs, main, operatorVars, cancelled, firstErr>>

Abort(t) ==
  /\ pc[t] = "answered" /\ answer[t] = "abort"
  /\ Fail(t)
  /\ UNCHANGED <<repairs, main, operatorVars>>

-----------------------------------------------------------------------------
Loop == Scan \/ Idle \/ Return

Execute(t) == Refuse(t) \/ Launch(t) \/ Ends(t) \/ Assess(t) \/ Repair(t)

Goroutine(t) ==
  \/ Execute(t)
  \/ Succeed(t)
  \/ FailUnattended(t)
  \/ Ask(t)
  \/ Answer(t)
  \/ Retry(t)
  \/ Skip(t)
  \/ Abort(t)

Next == Loop \/ \E t \in Tasks : Goroutine(t)

Spec == Init /\ [][Next]_vars

(* The Go scheduler runs the loop and every goroutine that can move; an    *)
(* executor ends, and an operator who is asked answers.                    *)
FairSpec ==
  /\ Spec
  /\ WF_vars(Loop)
  /\ \A t \in Tasks : WF_vars(Goroutine(t))

-----------------------------------------------------------------------------
(* Properties.                                                             *)

(* No workcell is started, and none counts as passed, before everything it *)
(* depends on has passed: under any interleaving of scans, retries and     *)
(* reports, and in a resumed run.                                          *)
DependenciesFirst ==
  \A t \in Tasks : status[t] \in {"running", "passed"} \/ pc[t] # "none" =>
    \A d \in Deps(t) : status[d] = "passed"

(* The error the run returns is there exactly when a workcell failed, is   *)
(* the error of a failed workcell, and the run was cancelled with it.      *)
FailureReported ==
  /\ firstErr # NoTask <=> \E t \in Tasks : status[t] = "failed"
  /\ firstErr # NoTask => status[firstErr] = "failed"
  /\ cancelled <=> firstErr # NoTask

(* A run that returns no error skipped only what the operator skipped, and *)
(* what depends on it.                                                     *)
SkipsExplained ==
  firstErr = NoTask =>
    \A t \in Tasks : status[t] = "skipped" =>
      \/ answer[t] = "skip"
      \/ \E d \in Deps(t) : status[d] = "skipped"

(* When the loop has returned, every workcell is settled and no goroutine  *)
(* is left that could still change it.                                     *)
ReturnsSettled ==
  main = "returned" =>
    \A t \in Tasks : status[t] \in Final /\ pc[t] \in {"none", "done"}

(* The repairs of a workcell stay within max_repairs over all the retries  *)
(* the operator asks for, not for each of them.                            *)
RepairsWithinLimit == \A t \in Tasks : repairs[t] <= MaxRepairs[t]

(* The status of a settled workcell never changes: no late goroutine       *)
(* overwrites what the loop decided, and the loop no goroutine's report.   *)
SettledStays ==
  [][\A t \in Tasks : status[t] \in Final => status'[t] = status[t]]_vars

(* After the first failure only a workcell the operator has retried can    *)
(* still pass.                                                             *)
OnlyRetriesPassLate ==
  [][\A t \in Tasks :
       cancelled /\ status[t] # "passed" /\ status'[t] = "passed" =>
         retries[t] > 0]_vars

(* A run comes to its end: no interleaving of failures, prompts and        *)
(* cancellations leaves the loop scanning or waiting for ever.             *)
Terminates == <>(main = "returned")

(* Scans, locks and prompts implement the running of a plan.               *)
Plan == INSTANCE PlanRun WITH verdict <- firstErr
ImplementsPlanRun == Plan!PlanSpec

=============================================================================
