------------------------------ MODULE RepairRun ------------------------------
(***************************************************************************)
(* What a governed issue-repair run promises its workers, without files,   *)
(* locks or clocks: one log of repair steps, extended one step at a time   *)
(* in the order of the repair, under one holder at a time; a step once     *)
(* safe is never lost, and a run once spent stays spent.                   *)
(***************************************************************************)
EXTENDS Integers, Sequences

CONSTANTS
  Workers,          \* who may hold the run
  MaxPages,         \* discovery pages the run may read
  MaxWrites,        \* patches, pushes and pull requests it may make
  PushAuthorized,   \* may it push
  PRAuthorized,     \* may it open a pull request
  NoRun             \* the run has not been created

VARIABLES
  run,   \* the run as its workers see it
  safe   \* the run as it would be after a power loss

runVars == <<run, safe>>

StepKinds ==
  {"page_completed", "clone_completed", "pre_patch_failure_observed",
   "patch_recorded", "push_recorded", "pull_request_recorded"}

LastStep(r) == r.log[Len(r.log)]

(* What each step comes right after: the pages, then the phases in order.  *)
Predecessors ==
  [page_completed             |-> {"run_created", "page_completed"},
   clone_completed            |-> {"run_created", "page_completed"},
   pre_patch_failure_observed |-> {"clone_completed"},
   patch_recorded             |-> {"pre_patch_failure_observed"},
   push_recorded              |-> {"patch_recorded"},
   pull_request_recorded      |-> {"push_recorded"}]

(* Pages are numbered from 1 (run_created carries 0); phases carry 0.      *)
Follows(last, step) ==
  /\ last.kind \in Predecessors[step.kind]
  /\ step.page = IF step.kind = "page_completed" THEN last.page + 1 ELSE 0
  /\ step.kind = "push_recorded" => PushAuthorized
  /\ step.kind = "pull_request_recorded" => PRAuthorized

(* Steps that cost nothing are free; a page or a write must be affordable. *)
Affordable(r, step) ==
  /\ step.kind = "page_completed" => ~r.spent /\ step.page <= MaxPages
  /\ step.kind = "patch_recorded" => ~r.spent /\ 1 <= MaxWrites
  /\ step.kind = "push_recorded" => ~r.spent /\ 2 <= MaxWrites
  /\ step.kind = "pull_request_recorded" => ~r.spent /\ 3 <= MaxWrites

RunInit == run = NoRun /\ safe = NoRun

Create ==
  /\ run = NoRun
  /\ run' # NoRun
  /\ run'.log = <<[kind |-> "run_created", page |-> 0]>>
  /\ run'.holder \in Workers
  /\ ~run'.spent
  /\ UNCHANGED safe

(* The holder records the next step of the repair.                         *)
Step ==
  /\ run # NoRun
  /\ \E step \in [kind : StepKinds, page : 0..MaxPages] :
       /\ Follows(LastStep(run), step)
       /\ Affordable(run, step)
       /\ run' = [run EXCEPT !.log = Append(@, step)]
  /\ UNCHANGED safe

(* A step was asked for that the run cannot afford.                        *)
Spend ==
  /\ run # NoRun
  /\ run' = [run EXCEPT !.spent = TRUE]
  /\ UNCHANGED safe

(* A new holder, under an epoch no one held before.                        *)
TakeOver ==
  /\ run # NoRun
  /\ run' # NoRun
  /\ run'.epoch > run.epoch
  /\ run'.holder \in Workers
  /\ run' = [run EXCEPT !.epoch = run'.epoch, !.holder = run'.holder]
  /\ UNCHANGED safe

Settle ==
  /\ safe' = run
  /\ UNCHANGED run

PowerFails ==
  /\ run' = safe
  /\ UNCHANGED safe

RunNext == Create \/ Step \/ Spend \/ TakeOver \/ Settle \/ PowerFails

RunSpec == RunInit /\ [][RunNext]_runVars

=============================================================================
