---------------------------- MODULE RunLifecycle ----------------------------
(***************************************************************************)
(* forge run and forge resume on one plan (executePlanRun in               *)
(* internal/cli/plan_execution.go, runResume and archiveRunState): the     *)
(* checks that refuse a command, the Covenant gate and its override, the   *)
(* workcells, their evidence, the control plane's receipt, the archive     *)
(* under .forge/runs/<plan ID>, the release, and the packet at --out.      *)
(* Commands come one after another, and any of them may be killed.         *)
(*                                                                         *)
(* The workcells run as PlanRun promises, which Scheduler implements.  A   *)
(* write of a file may fail and leave it as it was, or torn; a kill in the *)
(* middle of a write is a write that tears, and then the kill.             *)
(***************************************************************************)
EXTENDS Integers, FiniteSets, Sequences

CONSTANTS
  Tasks,            \* the workcells of the plan
  DependsOn,        \* each workcell's depends_on
  ReleaseMode,      \* Objective.ReleaseMode
  ReleaseMutation,  \* Constraints.AllowReleaseMutation
  RequireReadback,  \* Constraints.RequireControlPlaneReadback
  Options,          \* the flags operators give
  Gates,            \* the gate results forge run is given
  MaxCommands,      \* bound on the commands given
  MaxFaults,        \* bound on the writes that fail
  NoTask            \* no workcell

(* What forge gate can have left, from a decision fixture or a Covenant    *)
(* binary: release is the decision ID indeterminate-release-mutation,      *)
(* mismatch another plan's ID.                                             *)
GateFile ==
  [status : {"missing", "malformed", "mismatch", "allowed", "denied", "blocked"},
   release : BOOLEAN]

(* audited: --release-preview-audit names an audit that is valid for the   *)
(* plan.  elsewhere: --out is not in the current directory.                *)
Flags ==
  [live : BOOLEAN, confirm : BOOLEAN, audited : BOOLEAN, attended : BOOLEAN,
   elsewhere : BOOLEAN]

ASSUME LifecycleAssumption ==
  /\ DependsOn \in [Tasks -> Seq(Tasks)]
  /\ NoTask \notin Tasks
  /\ ReleaseMode \in BOOLEAN
  /\ ReleaseMutation \in BOOLEAN
  /\ RequireReadback \in BOOLEAN
  /\ Options \subseteq Flags
  /\ Gates \subseteq GateFile
  /\ MaxCommands \in Nat
  /\ MaxFaults \in Nat

Modes == {"dry", "live"}
Dirs == {"here", "elsewhere", "archive"}

(* The output of an AO2 run, or an evidence file without one.              *)
Contents == {"none", "torn", "empty"} \cup Modes

(* The operator packet for the control plane: the digest of each evidence  *)
(* file stands for what the file says.                                     *)
OperatorPacket == [Tasks -> Contents \ {"torn"}]

Packet ==
  [status  : {"none", "torn", "passed", "failed", "blocked", "denied"},
   cells   : [Tasks -> {"none", "pending", "running", "passed", "failed",
                        "skipped", "blocked", "denied"}],
   ran     : [Tasks -> {"none"} \cup Modes],
   receipt : BOOLEAN]

VARIABLES
  commands,     \* commands given so far
  faults,       \* writes that failed so far
  pc,           \* where the command stands
  cmd,          \* its flags
  resumed,      \* it is a resume
  gate,         \* the gate result it was given
  approved,     \* its operator overrode the gate
  status,       \* each workcell's status
  verdict,      \* the workcell the run failed on
  output,       \* what each workcell's state carries of its AO2 run
  receipt,      \* the control plane's receipt was read back and saved
  packet,       \* the packet it is about to deliver
  evidence,     \* the evidence file of each workcell, in each directory
  savedPlan,    \* plan.json in the run directory
  savedGate,    \* gate_result.json in the run directory
  savedPacket,  \* factory-packet.json in the run directory
  out,          \* what the last command left at --out
  result,       \* how the last command ended
  passedIn,     \* the modes in which AO2 really passed each workcell
  stored        \* the packets the control plane holds

checks == <<commands, cmd, resumed, gate>>
runVars == <<status, verdict, output, passedIn>>
archiveVars == <<savedPlan, savedGate, savedPacket>>
endVars == <<out, result>>
vars ==
  <<commands, faults, pc, cmd, resumed, gate, approved, status, verdict, output, receipt,
    packet, evidence, savedPlan, savedGate, savedPacket, out, result, passedIn,
    stored>>

Plan == INSTANCE PlanRun

Places ==
  {"idle", "admit", "run", "collect", "readback", "fetch", "plan", "gate", "evidence",
   "packet", "release", "write"}

Blank(s) ==
  [status |-> s, cells |-> [t \in Tasks |-> "none"],
   ran |-> [t \in Tasks |-> "none"], receipt |-> FALSE]

TypeOK ==
  /\ commands \in Nat
  /\ faults \in Nat
  /\ pc \in Places
  /\ cmd \in Flags
  /\ resumed \in BOOLEAN
  /\ gate \in GateFile
  /\ approved \in BOOLEAN
  /\ status \in [Tasks -> Plan!Statuses]
  /\ verdict \in Tasks \cup {NoTask}
  /\ output \in [Tasks -> {"empty"} \cup Modes]
  /\ receipt \in BOOLEAN
  /\ packet \in Packet
  /\ evidence \in [Dirs -> [Tasks -> Contents]]
  /\ savedPlan \in {"none", "torn", "whole"}
  /\ savedGate \in GateFile
  /\ savedPacket \in Packet
  /\ out \in Packet
  /\ result \in {"none", "ok", "failed", "killed"}
  /\ passedIn \in [Tasks -> SUBSET Modes]
  /\ stored \subseteq OperatorPacket

NoFlags ==
  [live |-> FALSE, confirm |-> FALSE, audited |-> FALSE, attended |-> FALSE,
   elsewhere |-> FALSE]
NoGate == [status |-> "missing", release |-> FALSE]

Init ==
  /\ commands = 0
  /\ faults = 0
  /\ pc = "idle"
  /\ cmd = NoFlags
  /\ resumed = FALSE
  /\ gate = NoGate
  /\ approved = FALSE
  /\ status = [t \in Tasks |-> "pending"]
  /\ verdict = NoTask
  /\ output = [t \in Tasks |-> "empty"]
  /\ receipt = FALSE
  /\ packet = Blank("none")
  /\ evidence = [d \in Dirs |-> [t \in Tasks |-> "none"]]
  /\ savedPlan = "none"
  /\ savedGate = NoGate
  /\ savedPacket = Blank("none")
  /\ out = Blank("none")
  /\ result = "none"
  /\ passedIn = [t \in Tasks |-> {}]
  /\ stored = {}

-----------------------------------------------------------------------------
(* A command begins.                                                       *)

(* Broken: what was skipped is taken over as if it had passed; and only a  *)
(* failed run is taken over.                                               *)
CarriedSkipped(t) == savedPacket.cells[t] \in {"passed", "skipped"}
CarriedFromFailed(t) == savedPacket.status = "failed" /\ savedPacket.cells[t] = "passed"

(* loadResumeStates: a packet that is missing or torn carries nothing, and *)
(* so does one whose command was refused before its workcells ran.         *)
Carried(t) == savedPacket.cells[t] = "passed"

Begin(o, again) ==
  /\ pc = "idle"
  /\ commands < MaxCommands
  /\ commands' = commands + 1
  /\ cmd' = o
  /\ resumed' = again
  /\ result' = "none"
  /\ out' = Blank("none")
  /\ UNCHANGED <<faults, approved, verdict, receipt, packet, evidence, archiveVars,
                 passedIn, stored>>

StartRun ==
  \E o \in Options, g \in Gates :
    /\ Begin(o, FALSE)
    /\ gate' = g
    /\ status' = [t \in Tasks |-> "pending"]
    /\ output' = [t \in Tasks |-> "empty"]
    /\ pc' = "admit"

(* The workcells that passed are taken over with what the archived         *)
(* evidence says of them; a file that cannot be read says nothing.  A torn *)
(* plan cannot be resumed: readPlan refuses it.                            *)
StartResume ==
  \E o \in Options :
    /\ savedPlan = "whole" /\ savedGate.status # "missing"
    /\ Begin(o, TRUE)
    /\ gate' = savedGate
    /\ status' = [t \in Tasks |-> IF Carried(t) THEN "passed" ELSE "pending"]
    /\ output' = [t \in Tasks |->
         IF Carried(t) /\ evidence["archive"][t] \in Modes
         THEN evidence["archive"][t] ELSE "empty"]
    /\ pc' = "admit"

-----------------------------------------------------------------------------
(* Packets.                                                                *)

Mode == IF cmd.live THEN "live" ELSE "dry"
Ran(cells) == [t \in Tasks |-> IF cells[t] = "passed" THEN Mode ELSE "none"]

(* A packet is handed to the archive first.                                *)
Deliver(s, cells, proof) ==
  /\ packet' = [status |-> s, cells |-> cells, ran |-> Ran(cells), receipt |-> proof]
  /\ pc' = "plan"

(* failClosedWithPacket, before the workcells ran and after.               *)
Refuse(s) == Deliver(s, [t \in Tasks |-> s], FALSE)
FailClosed(s) == Deliver(s, status, FALSE)

-----------------------------------------------------------------------------
(* The checks.                                                             *)

Confirmed == cmd.live /\ ReleaseMode /\ cmd.confirm

(* Broken: the audit is not looked at.                                     *)
UnauthorizedUnaudited == cmd.live /\ (ReleaseMode \/ ReleaseMutation) /\ ~cmd.confirm

Unauthorized ==
  \/ cmd.live /\ (ReleaseMode \/ ReleaseMutation) /\ ~cmd.confirm
  \/ Confirmed /\ ~cmd.audited

(* Broken: a confirmed release passes every gate.                          *)
GateOpensConfirmed == gate.status = "allowed" \/ cmd.confirm

(* Allowed, or indeterminate about the release the operator confirms: the  *)
(* decision's ID alone is compared.                                        *)
GateOpens ==
  /\ gate.status \notin {"missing", "malformed", "mismatch"}
  /\ gate.status = "allowed" \/ (gate.release /\ cmd.confirm)

Asks == ~GateOpens /\ gate.status = "blocked" /\ cmd.attended

RefuseRelease ==
  /\ pc = "admit"
  /\ Unauthorized
  /\ Refuse("blocked")
  /\ UNCHANGED <<checks, faults, approved, runVars, receipt, evidence, archiveVars, endVars, stored>>

RefuseGate ==
  /\ pc = "admit"
  /\ ~Unauthorized /\ ~GateOpens /\ ~Asks
  /\ Refuse(IF gate.status = "denied" THEN "denied" ELSE "blocked")
  /\ UNCHANGED <<checks, faults, approved, runVars, receipt, evidence, archiveVars, endVars, stored>>

(* The operator is asked to override: a refusal blocks the run, and so     *)
(* does an approval whose evidence cannot be written.                      *)
Override ==
  /\ pc = "admit"
  /\ ~Unauthorized /\ Asks /\ ~approved
  /\ \/ approved' = TRUE /\ UNCHANGED <<pc, packet>>
     \/ Refuse("failed") /\ UNCHANGED approved
     \/ Refuse("blocked") /\ UNCHANGED approved
  /\ UNCHANGED <<checks, faults, runVars, receipt, evidence, archiveVars, endVars, stored>>

(* The AO2 binary is looked for last.                                      *)
Proceed ==
  /\ pc = "admit"
  /\ ~Unauthorized /\ (GateOpens \/ approved)
  /\ \/ pc' = "run" /\ UNCHANGED packet
     \/ Refuse("blocked")
  /\ UNCHANGED <<checks, faults, approved, runVars, receipt, evidence, archiveVars, endVars, stored>>

-----------------------------------------------------------------------------
(* The workcells, their evidence and the control plane.                    *)

Ended(t) == status[t] = "running" /\ status'[t] \in {"passed", "failed"}

(* Without an operator a workcell is skipped only in a run that failed.    *)
RunWorkcells ==
  /\ pc = "run"
  /\ Plan!PlanNext
  /\ ~cmd.attended /\ verdict' = NoTask =>
       \A t \in Tasks : status[t] = "running" => status'[t] # "skipped"
  /\ output' = [t \in Tasks |-> IF Ended(t) THEN Mode ELSE output[t]]
  /\ passedIn' = [t \in Tasks |->
       passedIn[t] \cup (IF Ended(t) /\ status'[t] = "passed" THEN {Mode} ELSE {})]
  /\ UNCHANGED <<checks, faults, pc, approved, receipt, packet, evidence, archiveVars, endVars, stored>>

RunReturns ==
  /\ pc = "run"
  /\ \A t \in Tasks : status[t] \in Plan!Settled
  /\ pc' = "collect"
  /\ UNCHANGED <<checks, faults, approved, runVars, receipt, packet, evidence, archiveVars, endVars, stored>>

Dir == IF cmd.elsewhere THEN "elsewhere" ELSE "here"
HasEvidence == {t \in Tasks : status[t] \in {"passed", "failed"}}
Written(written, torn) ==
  [evidence EXCEPT ![Dir] = [t \in Tasks |->
     IF t \in torn THEN "torn" ELSE IF t \in written THEN output[t] ELSE @[t]]]

Fault == faults < MaxFaults /\ faults' = faults + 1

(* Broken: the error of the run is not looked at.                          *)
CollectRegardless ==
  /\ pc = "collect"
  /\ evidence' = Written(HasEvidence, {})
  /\ pc' = "readback"
  /\ UNCHANGED <<checks, faults, approved, runVars, receipt, packet, archiveVars,
                 endVars, stored>>

(* The summary and the evidence are written beside --out; a run that       *)
(* failed, or whose evidence cannot be written, is failed closed.          *)
Collect ==
  /\ pc = "collect"
  /\ \/ /\ evidence' = Written(HasEvidence, {})
        /\ \/ verdict # NoTask /\ FailClosed("failed")
           \/ verdict = NoTask /\ pc' = "readback" /\ UNCHANGED packet
        /\ UNCHANGED faults
     \/ /\ Fault /\ FailClosed("failed")
        /\ \/ UNCHANGED evidence
           \/ \E t \in HasEvidence, torn \in BOOLEAN :
                \E written \in SUBSET (HasEvidence \ {t}) :
                  evidence' = Written(written, IF torn THEN {t} ELSE {})
  /\ UNCHANGED <<checks, approved, runVars, receipt, archiveVars, endVars, stored>>

-----------------------------------------------------------------------------
(* The control plane.                                                      *)

Pass(proof) == Deliver("passed", status, proof) /\ receipt' = proof

(* Without a receipt, a run that requires the readback is failed closed;   *)
(* any other goes on with a warning.                                       *)
NoReceipt(s) ==
  \/ RequireReadback /\ FailClosed(s) /\ UNCHANGED receipt
  \/ ~RequireReadback /\ Pass(FALSE)

Asked == RequireReadback \/ cmd.live
OwnPacket == [t \in Tasks |-> IF t \in HasEvidence THEN output[t] ELSE "none"]

(* The POST of the packet.  It may be lost or refused, or stored and the   *)
(* answer lost; the receipt that arrives names a packet, and nothing says  *)
(* yet that it is this one.  Nothing is sent without a token.              *)
Upload ==
  /\ pc = "readback"
  /\ \/ NoReceipt("blocked") /\ UNCHANGED stored
     \/ /\ Asked
        /\ stored' \in {stored, stored \cup {OwnPacket}}
        /\ \/ NoReceipt("blocked")
           \/ pc' = "fetch" /\ UNCHANGED <<receipt, packet>>
  /\ UNCHANGED <<checks, faults, approved, runVars, evidence, archiveVars, endVars>>

(* Broken: the packet that comes back is not compared.                     *)
FetchAny ==
  /\ pc = "fetch"
  /\ \/ stored # {} /\ Pass(TRUE)
     \/ NoReceipt("blocked")
  /\ UNCHANGED <<checks, faults, approved, runVars, evidence, archiveVars, endVars, stored>>

(* The GET of the packet that the receipt names, which must be the one     *)
(* sent; then the receipt is written beside --out.  (The packets of two    *)
(* commands with the same evidence differ in the second they were made,    *)
(* which is left out: more is accepted here than in the code.)             *)
Fetch ==
  /\ pc = "fetch"
  /\ \/ OwnPacket \in stored /\ Pass(TRUE) /\ UNCHANGED faults
     \/ NoReceipt("blocked") /\ UNCHANGED faults
     \/ Fault /\ OwnPacket \in stored /\ NoReceipt("failed")
  /\ UNCHANGED <<checks, approved, runVars, evidence, archiveVars, endVars, stored>>

-----------------------------------------------------------------------------
(* archiveRunState, file by file.  It looks at no error.                   *)

Save(file, new, torn) ==
  \/ file' = new /\ UNCHANGED faults
  \/ Fault /\ file' \in {file, torn}

ArchivePlan ==
  /\ pc = "plan"
  /\ Save(savedPlan, "whole", "torn")
  /\ pc' = "gate"
  /\ UNCHANGED <<checks, approved, runVars, receipt, packet, evidence, savedGate,
                 savedPacket, endVars, stored>>

TornGate == [status |-> "malformed", release |-> FALSE]

ArchiveGate ==
  /\ pc = "gate"
  /\ IF gate.status = "missing" THEN UNCHANGED <<faults, savedGate>>
     ELSE Save(savedGate, gate, TornGate)
  /\ pc' = "evidence"
  /\ UNCHANGED <<checks, approved, runVars, receipt, packet, evidence, savedPlan,
                 savedPacket, endVars, stored>>

(* A packet that was failed closed comes without a summary path, and its   *)
(* evidence is looked for in the current directory.                        *)
Source == IF packet.status = "passed" THEN Dir ELSE "here"
Found == {t \in Tasks : evidence[Source][t] # "none"}
Copied(copied) ==
  [evidence EXCEPT !["archive"] = [t \in Tasks |->
     IF t \in copied THEN evidence[Source][t] ELSE @[t]]]

ArchiveEvidence ==
  /\ pc = "evidence"
  /\ \/ evidence' = Copied(Found) /\ UNCHANGED faults
     \/ /\ Fault
        /\ \E t \in Found : evidence' \in
             {Copied(Found \ {t}), [Copied(Found) EXCEPT !["archive"][t] = "torn"]}
  /\ pc' = "packet"
  /\ UNCHANGED <<checks, approved, runVars, receipt, packet, archiveVars, endVars, stored>>

ArchivePacket ==
  /\ pc = "packet"
  /\ Save(savedPacket, packet, Blank("torn"))
  /\ pc' = IF packet.status = "passed" /\ Confirmed THEN "release" ELSE "write"
  /\ UNCHANGED <<checks, approved, runVars, receipt, packet, evidence, savedPlan,
                 savedGate, endVars, stored>>

-----------------------------------------------------------------------------
(* The end of a command.                                                   *)

(* The process is gone, and with it all that it held in memory.            *)
Return(r, left) ==
  /\ result' = r
  /\ out' = left
  /\ pc' = "idle"
  /\ cmd' = NoFlags
  /\ resumed' = FALSE
  /\ gate' = NoGate
  /\ approved' = FALSE
  /\ status' = [t \in Tasks |-> "pending"]
  /\ verdict' = NoTask
  /\ output' = [t \in Tasks |-> "empty"]
  /\ receipt' = FALSE
  /\ packet' = Blank("none")

(* performReleaseMutation: when it fails nothing is written to --out.      *)
Release ==
  /\ pc = "release"
  /\ \/ /\ pc' = "write"
        /\ UNCHANGED <<checks, approved, runVars, receipt, packet, endVars>>
     \/ /\ Return("failed", Blank("none"))
        /\ UNCHANGED <<commands, passedIn>>
  /\ UNCHANGED <<faults, evidence, archiveVars, stored>>

WriteOut ==
  /\ pc = "write"
  /\ \/ /\ Return(IF packet.status = "passed" THEN "ok" ELSE "failed", packet)
        /\ UNCHANGED faults
     \/ /\ Fault
        /\ Return("failed", Blank("none"))
  /\ UNCHANGED <<commands, passedIn, evidence, archiveVars, stored>>

Kill ==
  /\ pc # "idle"
  /\ Return("killed", Blank("none"))
  /\ UNCHANGED <<commands, faults, passedIn, evidence, archiveVars, stored>>

-----------------------------------------------------------------------------
Start == StartRun \/ StartResume

Admit == RefuseRelease \/ RefuseGate \/ Override \/ Proceed

Execute == RunWorkcells \/ RunReturns \/ Collect \/ Upload \/ Fetch

Archive == ArchivePlan \/ ArchiveGate \/ ArchiveEvidence \/ ArchivePacket

Next == Start \/ Admit \/ Execute \/ Archive \/ Release \/ WriteOut \/ Kill

Spec == Init /\ [][Next]_vars

-----------------------------------------------------------------------------
(* Properties.                                                             *)

Passed(p) == {t \in Tasks : p.cells[t] = "passed"}
Failed(p) == {t \in Tasks : p.cells[t] = "failed"}

(* Fail closed: a workcell runs only in a command whose own gate result    *)
(* allows it, or is about the release its operator confirms, or was        *)
(* overridden by its own operator: no approval is inherited from the       *)
(* archive, and an unconfirmed or unaudited live release never starts.     *)
OnlyClearedRuns ==
  pc = "run" =>
    /\ \/ gate.status = "allowed"
       \/ gate.release /\ cmd.confirm
       \/ gate.status = "blocked" /\ approved /\ cmd.attended
    /\ cmd.live /\ ReleaseMode => cmd.confirm /\ cmd.audited

(* Through refusals, kills, torn files and resumes: what a packet, kept or *)
(* delivered, calls passed was passed by AO2 at some time, and so was all  *)
(* it depends on (what Scheduler assumes of a resumed run).                *)
PassedWasRun ==
  \A p \in {savedPacket, out} : \A t \in Passed(p) :
    /\ passedIn[t] # {}
    /\ \A d \in Plan!Deps(t) : d \in Passed(p)

(* A packet that calls its run passed, kept or delivered, has no workcell  *)
(* that failed or was left behind and has the receipt a required control   *)
(* plane gives, and a command exits 0 only with one.                       *)
PassedPacketsComplete ==
  /\ \A p \in {packet, savedPacket, out} : p.status = "passed" =>
       /\ \A t \in Tasks : p.cells[t] \in {"passed", "skipped"}
       /\ RequireReadback => p.receipt
  /\ result = "ok" => out.status = "passed"

(* The receipt that a packet carries, kept or delivered, is for a packet   *)
(* that the control plane holds and that reports the evidence of just the  *)
(* workcells called passed here: not for an upload that was lost, nor for  *)
(* one of an earlier command that was killed or failed.                    *)
ReceiptsReadBack ==
  \A p \in {packet, savedPacket, out} : p.receipt =>
    \E sent \in stored : Passed(p) = {t \in Tasks : sent[t] # "none"}

(* A release is begun, whether it then succeeds or fails half way, only by *)
(* a live, confirmed and audited command that its own gate result, or its  *)
(* own operator's override, lets pass, for a run that was judged passed    *)
(* with the receipt it requires, and whose workcells AO2 really passed.    *)
ReleaseEarned ==
  pc = "release" =>
    /\ cmd.live /\ cmd.confirm /\ cmd.audited /\ ReleaseMode
    /\ \/ gate.status = "allowed" \/ gate.release
       \/ gate.status = "blocked" /\ approved /\ cmd.attended
    /\ packet.status = "passed" /\ packet.cells = status /\ verdict = NoTask
    /\ \A t \in Passed(packet) : passedIn[t] # {}
    /\ RequireReadback => packet.receipt

(* A resume that got as far as its workcells never forgets one that had    *)
(* passed: it replaces the archived packet by one that passes as many.     *)
ResumeKeepsProgress ==
  [][resumed /\ savedPacket' # savedPacket /\ savedPacket'.cells = status =>
       Passed(savedPacket) \subseteq Passed(savedPacket')]_vars

(* "AO Forge v0.1 must fail closed when: AO2 evidence is missing"          *)
(* (docs/design/AO-FORGE-V0.1.md): a passed run has the AO2 output of      *)
(* every workcell it calls passed.                                         *)
PassedHasEvidence ==
  result = "ok" => \A t \in Passed(out) : evidence["archive"][t] \in Modes

=============================================================================
