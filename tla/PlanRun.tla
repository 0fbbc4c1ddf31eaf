------------------------------ MODULE PlanRun -------------------------------
(***************************************************************************)
(* What running a plan promises, without scans, locks, prompts, retries,   *)
(* repairs or contexts: workcells move from pending to a settled status,   *)
(* none starts before its dependencies have passed, none is passed over    *)
(* without a reason, and the verdict names a workcell that failed.         *)
(***************************************************************************)
EXTENDS FiniteSets, Sequences

CONSTANTS
  Tasks,      \* the workcells of the plan
  DependsOn,  \* each workcell's dependencies, in the plan's order
  NoTask      \* no workcell

VARIABLES
  status,   \* each workcell's status
  verdict   \* the workcell the run failed on, or NoTask

planVars == <<status, verdict>>

Deps(t) == {DependsOn[t][i] : i \in DOMAIN DependsOn[t]}

Statuses == {"pending", "running", "passed", "failed", "skipped"}
Settled == {"passed", "failed", "skipped"}

(* A resumed run starts with workcells that have passed already.           *)
PlanInit ==
  /\ status \in [Tasks -> {"pending", "passed"}]
  /\ \A t \in Tasks : status[t] = "passed" =>
       \A d \in Deps(t) : status[d] = "passed"
  /\ verdict = NoTask

Starts(t) ==
  /\ status[t] = "pending" /\ status'[t] = "running"
  /\ \A d \in Deps(t) : status[d] = "passed"

Settles(t) == status[t] = "running" /\ status'[t] \in Settled

PassedOver(t) ==
  /\ status[t] = "pending" /\ status'[t] = "skipped"
  /\ \/ verdict # NoTask
     \/ \E d \in Deps(t) : status'[d] \in {"failed", "skipped"}

Judge ==
  \/ /\ verdict' = verdict
     /\ verdict = NoTask => \A t \in Tasks : status'[t] # "failed"
  \/ /\ verdict = NoTask
     /\ verdict' \in Tasks
     /\ status'[verdict'] = "failed"

PlanNext ==
  /\ status' \in [Tasks -> Statuses]
  /\ \A t \in Tasks :
       \/ status'[t] = status[t]
       \/ Starts(t)
       \/ Settles(t)
       \/ PassedOver(t)
  /\ Judge

PlanSpec == PlanInit /\ [][PlanNext]_planVars

=============================================================================
