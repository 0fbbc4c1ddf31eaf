------------------------------ MODULE Workcell ------------------------------
(***************************************************************************)
(* The execution of one workcell (internal/cli/cli.go), which the          *)
(* scheduler sees as one call of executeSingleWorkcell: an AO2 run, a      *)
(* swarm, or a swarm of peers whose best candidate is promoted; the        *)
(* rubric; the repair swarm and another attempt.  The operator may have    *)
(* the call repeated, another workcell's failure may cancel it.            *)
(*                                                                         *)
(* Peers are goroutines that run their commands at the same time.  What    *)
(* commands print is told apart by what the rubric asks of it; their       *)
(* report files, which nothing here depends on, are left out.              *)
(***************************************************************************)
EXTENDS Integers

CONSTANTS
  Cells,      \* the workcells that may be executed
  Outputs,    \* what the command of an executor may do
  MaxCalls    \* bound on the calls: the first and the operator's retries

Unmeasured == -1

(* patterns: its rubric has patterns; minimum: the coverage it asks for,   *)
(* if any.                                                                 *)
Cell ==
  [executor : {"ao2", "agy-swarms"}, peers : Nat, repairs : Nat,
   patterns : BOOLEAN, minimum : Nat \cup {Unmeasured}]

(* ran: there was a command; ok: its exit status; accepted: AO2's          *)
(* acceptance is in the output; required: so are all required patterns;    *)
(* forbidden: so is a forbidden one; coverage: the first that parses.      *)
Output ==
  [ran : BOOLEAN, ok : BOOLEAN, accepted : BOOLEAN, required : BOOLEAN, forbidden : BOOLEAN,
   coverage : Nat \cup {Unmeasured}]

ASSUME WorkcellAssumption ==
  /\ Cells \subseteq Cell
  /\ Outputs \subseteq Output /\ Outputs # {} /\ \A o \in Outputs : o.ran
  /\ MaxCalls \in Nat \ {0}

(* Nothing ran, and nothing was printed.                                   *)
Blank ==
  [ran |-> FALSE, ok |-> FALSE, accepted |-> FALSE, required |-> FALSE,
   forbidden |-> FALSE, coverage |-> Unmeasured]

VARIABLES
  cell,       \* the workcell: constant over a run
  phase,      \* where the call stands
  calls,      \* calls so far
  attempt,    \* attempts so far, over all calls
  repairs,    \* RepairsAttempted
  cancelled,  \* ctx.Err() # nil
  peers,      \* PeerStates, with what each one's command did
  graded,     \* the candidates graded so far
  winner,     \* the best of them, or NoPeer
  output      \* the workcell's Stdout and Stderr

vars == <<cell, phase, calls, attempt, repairs, cancelled, peers, graded, winner, output>>
callVars == <<cell, calls, attempt, repairs, cancelled>>
peerVars == <<peers, graded, winner>>

NoPeer == -1
Indices == 0..cell.peers - 1

Phases ==
  {"call", "reset", "launch", "fill", "peers", "grade", "running", "check", "erred",
   "repair", "repairing", "failed", "passed", "crashed"}
Places == {"nil", "pending", "running", "executing", "ended", "passed", "failed"}
Settled == {"passed", "failed"}

Peer == [at : Places, out : Outputs \cup {Blank}]

TypeOK ==
  /\ cell \in Cells
  /\ phase \in Phases
  /\ calls \in 1..MaxCalls
  /\ attempt \in Nat
  /\ repairs \in Nat
  /\ cancelled \in BOOLEAN
  /\ peers \in [DOMAIN peers -> Peer] /\ DOMAIN peers \in {{}, Indices}
  /\ graded \in Nat
  /\ winner \in Indices \cup {NoPeer}
  /\ output \in Outputs \cup {Blank}

NoPeers == [i \in {} |-> [at |-> "nil", out |-> Blank]]

Init ==
  /\ cell \in Cells
  /\ phase = "call"
  /\ calls = 1
  /\ attempt = 0
  /\ repairs = 0
  /\ cancelled = FALSE
  /\ peers = NoPeers
  /\ graded = 0
  /\ winner = NoPeer
  /\ output = Blank

-----------------------------------------------------------------------------
(* The call begins.                                                        *)

Refused(c) == c.peers > 1 /\ c.executor # "agy-swarms"

Enter ==
  /\ phase = "call"
  /\ phase' = IF Refused(cell) THEN "failed" ELSE "reset"
  /\ UNCHANGED <<callVars, peerVars, output>>

(* ResetOutputs, which leaves the peers of the last attempt.               *)
Reset ==
  /\ phase = "reset"
  /\ phase' = "launch"
  /\ attempt' = attempt + 1
  /\ output' = Blank
  /\ UNCHANGED <<cell, calls, repairs, cancelled, peerVars>>

(* An executor that is not found, a temporary file that cannot be made,    *)
(* a command that does not start.                                          *)
CannotLaunch ==
  /\ phase = "launch"
  /\ phase' = "erred"
  /\ UNCHANGED <<callVars, peerVars, output>>

-----------------------------------------------------------------------------
(* One command.                                                            *)

(* exec.CommandContext starts nothing under a cancelled context.           *)
LaunchOne ==
  /\ phase = "launch"
  /\ cell.peers <= 1
  /\ ~cancelled
  /\ phase' = "running"
  /\ UNCHANGED <<callVars, peerVars, output>>

(* Broken: what AO2 says is not looked at.                                 *)
SatisfiedByExit(o) == o.ok

(* AO2 must have said, too, that it accepted the run.                      *)
Satisfied(o) == o.ok /\ (cell.executor = "ao2" => o.accepted)

OneEnds ==
  /\ phase = "running"
  /\ \E o \in Outputs :
       /\ output' = o
       /\ phase' = IF Satisfied(o) THEN "check" ELSE "erred"
  /\ UNCHANGED <<callVars, peerVars>>

-----------------------------------------------------------------------------
(* Peers.                                                                  *)

(* make, which leaves every peer nil, and the loop that fills them in.     *)
MakePeers ==
  /\ phase = "launch"
  /\ cell.peers > 1
  /\ phase' = "fill"
  /\ peers' = [i \in Indices |-> [at |-> "nil", out |-> Blank]]
  /\ UNCHANGED <<callVars, graded, winner, output>>

FillPeers ==
  /\ phase = "fill"
  /\ phase' = "peers"
  /\ peers' = [i \in Indices |-> [at |-> "pending", out |-> Blank]]
  /\ UNCHANGED <<callVars, graded, winner, output>>

(* The dashboard, which shares no lock with the loop, comes to a peer that *)
(* is not there: the process panics.                                       *)
RenderNil ==
  /\ phase = "fill"
  /\ phase' = "crashed"
  /\ UNCHANGED <<callVars, peerVars, output>>

Goes(i, from, to) == peers[i].at = from /\ peers' = [peers EXCEPT ![i].at = to]

PeerStart(i) == Goes(i, "pending", "running")

(* Its temporary files, or its command, may not come into being.           *)
PeerLaunch(i) ==
  \/ ~cancelled /\ Goes(i, "running", "executing")
  \/ Goes(i, "running", "failed")

PeerEnds(i) ==
  /\ peers[i].at = "executing"
  /\ \E o \in Outputs : peers' = [peers EXCEPT ![i] = [at |-> "ended", out |-> o]]

(* Broken: the status is the report's word for it.                         *)
PeerSettlesAsReported(i) == Goes(i, "ended", IF peers[i].out.ok THEN "succeeded" ELSE "failed")

PeerSettles(i) == Goes(i, "ended", IF peers[i].out.ok THEN "passed" ELSE "failed")

PeerStep(i) ==
  /\ i \in DOMAIN peers
  /\ PeerStart(i) \/ PeerLaunch(i) \/ PeerEnds(i) \/ PeerSettles(i)
  /\ UNCHANGED <<phase, callVars, graded, winner, output>>

(* Broken: the first that has passed ends the wait.                        *)
AwaitedFirst == \E i \in Indices : peers[i].at = "passed"

(* Broken: the wait goes on until all have passed.                         *)
AwaitedPassed == \A i \in Indices : peers[i].at = "passed"

(* wg.Wait                                                                 *)
Awaited == \A i \in Indices : peers[i].at \in Settled

BeginGrading ==
  /\ phase = "peers"
  /\ Awaited
  /\ phase' = "grade"
  /\ graded' = 0
  /\ winner' = NoPeer
  /\ UNCHANGED <<callVars, peers, output>>

(* Broken: a candidate with a forbidden pattern is valid.                  *)
IsValidForbidden(p) ==
  /\ p.at = "passed"
  /\ cell.patterns => p.out.required
  /\ cell.minimum # Unmeasured => p.out.coverage >= cell.minimum

IsValid(p) ==
  /\ p.at = "passed"
  /\ cell.patterns => p.out.required /\ ~p.out.forbidden
  /\ cell.minimum # Unmeasured =>
       p.out.coverage # Unmeasured /\ p.out.coverage >= cell.minimum

Coverage(i) == IF peers[i].out.coverage = Unmeasured THEN 0 ELSE peers[i].out.coverage

Beats(i) == winner = NoPeer \/ Coverage(i) > Coverage(winner)

Grade ==
  /\ phase = "grade"
  /\ graded < cell.peers
  /\ graded' = graded + 1
  /\ winner' = IF IsValid(peers[graded]) /\ Beats(graded) THEN graded ELSE winner
  /\ UNCHANGED <<phase, callVars, peers, output>>

Promote ==
  /\ phase = "grade"
  /\ graded = cell.peers
  /\ IF winner = NoPeer THEN phase' = "erred" /\ UNCHANGED output
     ELSE phase' = "check" /\ output' = peers[winner].out
  /\ UNCHANGED <<callVars, peerVars>>

-----------------------------------------------------------------------------
(* checkRubric, and repair.                                                *)

RubricHolds(o) ==
  /\ cell.patterns => o.required /\ ~o.forbidden
  /\ cell.minimum # Unmeasured => o.coverage # Unmeasured /\ o.coverage >= cell.minimum

CheckRubric ==
  /\ phase = "check"
  /\ phase' = IF RubricHolds(output) THEN "passed" ELSE "erred"
  /\ UNCHANGED <<callVars, peerVars, output>>

(* Broken: off by one at max_repairs.                                      *)
RepairLeftOver == cell.repairs > 0 /\ repairs <= cell.repairs

RepairLeft == cell.repairs > 0 /\ repairs < cell.repairs

Assess ==
  /\ phase = "erred"
  /\ IF RepairLeft THEN phase' = "repair" /\ repairs' = repairs + 1
     ELSE phase' = "failed" /\ UNCHANGED repairs
  /\ UNCHANGED <<cell, calls, attempt, cancelled, peerVars, output>>

(* Broken: what has failed to be repaired is tried again.                  *)
RepairRegardless ==
  /\ \/ phase = "repair" /\ ~cancelled /\ phase' = "repairing"
     \/ phase \in {"repair", "repairing"} /\ phase' = "reset"
  /\ UNCHANGED <<callVars, peerVars, output>>

(* runRepairSwarm: a failed repair ends the call.                          *)
Repair ==
  /\ \/ phase = "repair" /\ ~cancelled /\ phase' = "repairing"
     \/ phase = "repair" /\ phase' = "failed"
     \/ phase = "repairing" /\ phase' \in {"reset", "failed"}
  /\ UNCHANGED <<callVars, peerVars, output>>

-----------------------------------------------------------------------------
(* Another call for the same workcell: the repairs are not reset.          *)
Again ==
  /\ phase = "failed"
  /\ calls < MaxCalls
  /\ phase' = "call"
  /\ calls' = calls + 1
  /\ UNCHANGED <<cell, attempt, repairs, cancelled, peerVars, output>>

(* Another workcell fails.                                                 *)
Cancel ==
  /\ ~cancelled
  /\ cancelled' = TRUE
  /\ UNCHANGED <<cell, phase, calls, attempt, repairs, peerVars, output>>

Attempt ==
  \/ Enter \/ Reset
  \/ CannotLaunch \/ LaunchOne \/ OneEnds
  \/ MakePeers \/ FillPeers \/ BeginGrading \/ Grade \/ Promote
  \/ CheckRubric \/ Assess \/ Repair

Step == Attempt \/ \E i \in DOMAIN peers : PeerStep(i)

Next == Step \/ RenderNil \/ Again \/ Cancel

(* Goroutines are scheduled and commands end.                              *)
Fairness == WF_vars(Attempt) /\ WF_vars(\E i \in DOMAIN peers : PeerStep(i))

Spec == Init /\ [][Next]_vars /\ Fairness

-----------------------------------------------------------------------------
(* Properties.                                                             *)

(* When candidates are graded, repaired or tried again, nothing of the     *)
(* last attempt still works in the workspace: every peer has settled.      *)
PeersSettled ==
  phase \notin {"fill", "peers", "crashed"} =>
    \A i \in DOMAIN peers : peers[i].at \in Settled

(* The promoted output is that of the first of the candidates with the     *)
(* highest coverage among those that the rubric accepts; and the rubric,   *)
(* which is checked a second time and by other code, accepts it again.     *)
WinnerIsBest ==
  phase \in {"check", "passed"} /\ cell.peers > 1 =>
    /\ winner \in Indices
    /\ output = peers[winner].out
    /\ output.ok /\ RubricHolds(output)
    /\ \A i \in Indices :
         peers[i].at = "passed" /\ RubricHolds(peers[i].out) =>
           /\ Coverage(i) <= Coverage(winner)
           /\ i < winner => Coverage(i) < Coverage(winner)

(* A workcell passes with an output of its last attempt only, whose        *)
(* command succeeded, which AO2 accepted, if it was AO2's, and which       *)
(* satisfies the rubric.                                                   *)
PassedEarned ==
  phase = "passed" =>
    /\ output.ran /\ output.ok
    /\ cell.executor = "ao2" => output.accepted
    /\ RubricHolds(output)

(* Whatever attempts, failed repairs and retries there were: no more       *)
(* repairs than the plan allows, and no attempt without a call or a repair *)
(* that it is for.                                                         *)
AttemptsPaid == repairs <= cell.repairs /\ attempt <= calls + repairs

(* Every call returns, or the dashboard has ended the process.             *)
CallEnds == phase \notin {"failed", "passed"} ~> phase \in {"failed", "passed", "crashed"}

-----------------------------------------------------------------------------
(* The scheduler takes a call for a few steps of the workcell's goroutine: *)
(* it starts, runs, is repaired and ends.                                  *)

Started == \E i \in DOMAIN peers : peers[i].at = "executing" \/ peers[i].out.ran

Stand ==
  CASE phase \in {"call", "reset", "launch", "fill", "crashed"} -> "start"
    [] phase \in {"peers", "grade"} -> IF Started THEN "running" ELSE "start"
    [] phase \in {"running", "check"} -> "running"
    [] phase = "failed" -> "failing"
    [] phase = "passed" -> "succeeded"
    [] OTHER -> phase

S == INSTANCE Scheduler WITH
  Tasks <- Cells, DependsOn <- [c \in Cells |-> <<>>],
  MaxRepairs <- [c \in Cells |-> c.repairs],
  Unsupported <- {c \in Cells : Refused(c)},
  MaxRetries <- MaxCalls, NoTask <- NoPeer,
  status <- [c \in Cells |-> "running"],
  repairs <- [c \in Cells |-> IF c = cell THEN repairs ELSE 0],
  main <- "idle",
  pc <- [c \in Cells |-> IF c = cell THEN Stand ELSE "none"],
  prompt <- NoPeer, answer <- [c \in Cells |-> "retry"],
  retries <- [c \in Cells |-> 0], interactive <- TRUE, firstErr <- NoPeer

(* All that an execution does, peers, rubric and repairs, the scheduler    *)
(* may take for what its own model of a goroutine does, and a call that is *)
(* repeated begins anew.                                                   *)
ImplementsExecute == [][S!Execute(cell) \/ Again]_<<Stand, repairs>>

=============================================================================
