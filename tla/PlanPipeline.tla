---------------------------- MODULE PlanPipeline ----------------------------
(***************************************************************************)
(* From a brief to a run (internal/cli/cli.go and run_commands.go): forge  *)
(* plan compiles a brief, or has a planner swarm decompose it (--dynamic), *)
(* forge gate has Covenant decide on the plan, forge run starts a plan its *)
(* gate result clears, and forge once does all three.  The commands come   *)
(* one after another, share the files they name, and may be killed.        *)
(*                                                                         *)
(* What runs after the start is RunLifecycle's; every plan that is made or *)
(* read goes through validatePlan, which PlanGraph models.                 *)
(***************************************************************************)
EXTENDS PlanGraph

CONSTANTS
  Briefs,       \* the briefs operators write
  SwarmLists,   \* the lists of workcells planner swarms come up with
  Fixtures,     \* the decision files operators give the gate
  MaxCommands,  \* bound on the commands given
  NoBrief,      \* no brief
  Nothing       \* no file

(* The plan ID is a hash of the canonical brief and of nothing else, so    *)
(* the brief stands for it.                                                *)
Brief ==
  [name : STRING, release : BOOLEAN, mutation : BOOLEAN, network : BOOLEAN,
   cells : CellLists]

(* aboutRelease: its decision_id is indeterminate-release-mutation.        *)
Fixture ==
  [target : Briefs,
   decision : {"allow", "deny", "indeterminate", "other", "malformed"},
   aboutRelease : BOOLEAN]

ASSUME PipelineAssumption ==
  /\ Briefs \subseteq Brief
  /\ SwarmLists \subseteq CellLists
  /\ Fixtures \subseteq Fixture
  /\ MaxCommands \in Nat
  /\ NoBrief \notin Briefs

(* An output that is no list of workcells ends a command as an empty list  *)
(* does.                                                                   *)
Unparsable == <<>>

Plan == [of : Briefs, cells : CellLists \cup {Unparsable}]
Torn == [of |-> NoBrief, cells |-> <<>>]

GateResult ==
  [status : {"allowed", "denied", "blocked"},
   plan : Briefs \cup {NoBrief},
   decision : {"allow", "deny", "indeterminate", "invalid"},
   aboutRelease : BOOLEAN,
   by : {"fixture", "covenant"}]

Run ==
  [plan : Plan, gate : GateResult, cleared : {"gate", "confirmation", "operator"}]

VARIABLES
  commands,   \* commands given so far
  cmd,        \* the command that runs
  phase,      \* where it stands
  plan,       \* the plan it works on
  gate,       \* the gate result it works with
  output,     \* dynamic-plan-workcells.json in the workspace
  planFile,   \* the plan at --out of forge plan and --plan of the others
  gateFile,   \* the gate result at --out of forge gate and --gate-result
  made,       \* what the swarm of this command wrote
  left,       \* a planning command was stopped with its output in place
  ran         \* the run the last command started

cmdVars == <<commands, cmd, phase, plan, gate, output, planFile, gateFile, made, left, ran>>
vars == <<graphVars, cmdVars>>

NoPlan == Torn
NoGate ==
  [status |-> "blocked", plan |-> NoBrief, decision |-> "invalid",
   aboutRelease |-> FALSE, by |-> "covenant"]

Commands == {"plan", "dynamic", "gate", "once", "run"}

CmdTypeOK ==
  /\ commands \in 0..MaxCommands
  /\ cmd \in Commands \cup {"none"}
  /\ phase \in {"idle", "swarm", "read", "remove", "validate", "write", "decide", "start"}
  /\ plan \in Plan \cup {Torn}
  /\ gate \in GateResult
  /\ output \in SwarmLists \cup {Unparsable, Nothing}
  /\ planFile \in Plan \cup {Nothing, Torn}
  /\ gateFile \in GateResult \cup {Nothing}
  /\ made \in SwarmLists \cup {Unparsable, Nothing}
  /\ left \in BOOLEAN
  /\ ran \in Run \cup {Nothing}

TypeOK == GraphTypeOK /\ CmdTypeOK

Init ==
  /\ GraphInit
  /\ commands = 0
  /\ cmd = "none"
  /\ phase = "idle"
  /\ plan = NoPlan
  /\ gate = NoGate
  /\ output = Nothing
  /\ planFile = Nothing
  /\ gateFile = Nothing
  /\ made = Nothing
  /\ left = FALSE
  /\ ran = Nothing

-----------------------------------------------------------------------------
(* A command begins.  One that is refused for its flags, or a --dynamic    *)
(* one without the environment's opt-in, does nothing at all: the commands *)
(* given are those that get past this.                                     *)

Give(c) ==
  /\ phase = "idle"
  /\ commands < MaxCommands
  /\ commands' = commands + 1
  /\ cmd' = c
  /\ ran' = Nothing
  /\ UNCHANGED <<gate, output, planFile, gateFile, made, left>>

(* forge plan and forge once: readBrief refuses a brief without workcells. *)
Compile ==
  \E b \in Briefs, c \in {"plan", "once"} :
    /\ Give(c)
    /\ plan' = [of |-> b, cells |-> b.cells]
    /\ phase' = "validate"
    /\ Begin(b.cells)

(* forge plan --dynamic.                                                   *)
CompileDynamic ==
  \E b \in Briefs :
    /\ Give("dynamic")
    /\ plan' = [of |-> b, cells |-> <<>>]
    /\ phase' = "swarm"
    /\ UNCHANGED graphVars

(* forge gate and forge run: readPlan validates what it reads.             *)
ReadPlan ==
  /\ \E c \in {"gate", "run"} : Give(c)
  /\ planFile \notin {Nothing, Torn}
  /\ plan' = planFile
  /\ phase' = "validate"
  /\ Begin(planFile.cells)

(* A plan that cannot be read: the gate has a result for it all the same.  *)
ReadNoPlan ==
  /\ Give("gate")
  /\ planFile \in {Nothing, Torn}
  /\ phase' = "decide"
  /\ UNCHANGED <<graphVars, plan>>

(* The process is gone, and with it all that it held in memory.            *)
Return ==
  /\ phase' = "idle"
  /\ cmd' = "none"
  /\ plan' = NoPlan
  /\ gate' = NoGate
  /\ made' = Nothing
  /\ Quit
  /\ UNCHANGED commands

-----------------------------------------------------------------------------
(* buildDynamicPlan.                                                       *)

(* The swarm may fail, or succeed without having written its file; what an *)
(* earlier one left there stays.                                           *)
Swarm ==
  /\ phase = "swarm"
  /\ \E w \in SwarmLists \cup {Unparsable, Nothing} :
       /\ output' = IF w = Nothing THEN output ELSE w
       /\ \/ made' = w /\ phase' = "read"
             /\ UNCHANGED <<graphVars, commands, cmd, plan, gate, left>>
          \/ left' = (left \/ output' # Nothing) /\ Return
  /\ UNCHANGED <<planFile, gateFile, ran>>

ReadOutput ==
  /\ phase = "read"
  /\ IF output = Nothing THEN Return
     ELSE /\ plan' = [plan EXCEPT !.cells = output]
          /\ phase' = "remove"
          /\ UNCHANGED <<graphVars, commands, cmd, gate, made>>
  /\ UNCHANGED <<output, planFile, gateFile, left, ran>>

(* Broken: the output stays.                                               *)
RemovedNever == output

Removed == Nothing

(* The deferred removal, whose error is not looked at, comes before        *)
(* validatePlan; an output that does not parse is removed, too.            *)
RemoveOutput ==
  /\ phase = "remove"
  /\ \/ output' = Removed /\ UNCHANGED left
     \/ left' = TRUE /\ UNCHANGED output
  /\ IF plan.cells = Unparsable THEN Return
     ELSE /\ Begin(plan.cells)
          /\ phase' = "validate"
          /\ UNCHANGED <<commands, cmd, plan, gate, made>>
  /\ UNCHANGED <<planFile, gateFile, ran>>

-----------------------------------------------------------------------------
(* validatePlan, and what follows it.                                      *)

Validate ==
  /\ phase = "validate"
  /\ GraphStep
  /\ UNCHANGED cmdVars

(* Where a command goes with a valid plan.                                 *)
Onward(c) ==
  CASE c \in {"plan", "dynamic"} -> "write"
    [] c \in {"gate", "once"} -> "decide"
    [] c = "run" -> "start"

Accepted ==
  /\ phase = "validate"
  /\ at = "accepted"
  /\ phase' = Onward(cmd)
  /\ UNCHANGED <<graphVars, commands, cmd, plan, gate, output, planFile, gateFile, made,
                 left, ran>>

(* A refused plan ends every command but the gate, which writes a blocked  *)
(* result that names no plan.                                              *)
Refused ==
  /\ phase = "validate"
  /\ at \in Refusals
  /\ IF cmd = "gate"
     THEN /\ plan' = NoPlan
          /\ phase' = "decide"
          /\ UNCHANGED <<graphVars, commands, cmd, gate, made>>
     ELSE Return
  /\ UNCHANGED <<output, planFile, gateFile, left, ran>>

(* writeFile writes in place and may fail, or be killed, half-way.         *)
WritePlan ==
  /\ phase = "write"
  /\ planFile' \in {plan, planFile, Torn}
  /\ Return
  /\ UNCHANGED <<output, gateFile, left, ran>>

-----------------------------------------------------------------------------
(* runGate.                                                                *)

StatusOf(decision) ==
  CASE decision = "allow" -> "allowed"
    [] decision = "deny" -> "denied"
    [] decision \in {"indeterminate", "invalid"} -> "blocked"

Result(decision, about, by) ==
  [status |-> StatusOf(decision), plan |-> plan.of, decision |-> decision,
   aboutRelease |-> about, by |-> by]

(* readDecisionFixture and validateDecisionFixture: a decision that is not *)
(* valid for the plan is made invalid, but keeps its ID.                   *)
FromFixture(f) ==
  IF f.decision = "malformed" THEN Result("invalid", FALSE, "fixture")
  ELSE IF f.target # plan.of \/ f.decision = "other"
  THEN Result("invalid", f.aboutRelease, "fixture")
  ELSE Result(f.decision, f.aboutRelease, "fixture")

Rule ==
  LET brief == plan.of IN
  IF brief.mutation /\ ~brief.release THEN Result("deny", FALSE, "covenant")
  ELSE IF brief.mutation THEN Result("indeterminate", TRUE, "covenant")
  ELSE IF brief.network THEN Result("indeterminate", FALSE, "covenant")
  ELSE Result("allow", FALSE, "covenant")

(* The binary does not answer its version check, or a release workspace is *)
(* no clean repository: a denial, but of a blocked gate.                   *)
FromCovenant ==
  {Rule, Result("invalid", FALSE, "covenant")}
  \cup (IF plan.of.release
        THEN {[Result("deny", FALSE, "covenant") EXCEPT !.status = "blocked"]} ELSE {})

Decisions ==
  IF plan = NoPlan THEN {NoGate}
  ELSE FromCovenant \cup {FromFixture(f) : f \in Fixtures}

(* forge once keeps the result in a temporary file of its own.  A result   *)
(* that is torn is as good as none.                                        *)
Decide ==
  /\ phase = "decide"
  /\ \E g \in Decisions :
       \/ /\ cmd = "gate"
          /\ gateFile' \in {g, gateFile, Nothing}
          /\ Return
       \/ /\ cmd = "once"
          /\ gate' = g
          /\ phase' = "start"
          /\ UNCHANGED <<graphVars, commands, cmd, plan, gateFile, made>>
  /\ UNCHANGED <<output, planFile, left, ran>>

-----------------------------------------------------------------------------
(* executePlanRun, up to the first workcell.                               *)

(* Broken: a gate result is taken for the plan, whichever it names.        *)
MatchesAny(g) == g.plan # NoBrief
Matches(g) == g.plan = plan.of

(* What may clear a run: the gate, the confirmation of a release (the      *)
(* decision's ID alone is compared), the operator at the prompt.           *)
Clears(g, by) ==
  \/ by = "gate" /\ g.status = "allowed"
  \/ by = "confirmation" /\ g.aboutRelease /\ g.status # "allowed"
  \/ by = "operator" /\ g.status = "blocked"

GateRead == IF cmd = "once" THEN gate ELSE gateFile

Start ==
  /\ phase = "start"
  /\ GateRead # Nothing
  /\ Matches(GateRead)
  /\ \E by \in {"gate", "confirmation", "operator"} :
       /\ Clears(GateRead, by)
       /\ ran' = [plan |-> plan, gate |-> GateRead, cleared |-> by]
  /\ Return
  /\ UNCHANGED <<output, planFile, gateFile, left>>

(* Without confirmation and operator only an allowed run starts.           *)
Blocked ==
  /\ phase = "start"
  /\ GateRead # Nothing => ~Matches(GateRead) \/ GateRead.status # "allowed"
  /\ Return
  /\ UNCHANGED <<output, planFile, gateFile, left, ran>>

(* A planner's orphan may still write its file.                            *)
Kill ==
  /\ phase # "idle"
  /\ Return
  /\ left' = (left \/ (phase \in {"read", "remove"} /\ output # Nothing))
  /\ UNCHANGED <<output, planFile, gateFile, ran>>

-----------------------------------------------------------------------------
Command == Compile \/ CompileDynamic \/ ReadPlan \/ ReadNoPlan

Dynamic == Swarm \/ ReadOutput \/ RemoveOutput

Work ==
  \/ Dynamic
  \/ Validate \/ Accepted \/ Refused \/ WritePlan
  \/ Decide
  \/ Start \/ Blocked

Next == Command \/ Work \/ Kill

(* A command goes on until it returns; the planner swarm, too, ends.       *)
Spec == Init /\ [][Next]_vars /\ WF_vars(Work)

-----------------------------------------------------------------------------
(* Properties.                                                             *)

(* A run starts, unless its operator helps it, because of a decision that  *)
(* allowed this plan: the operators' own, made for the plan's ID, or       *)
(* Covenant's rule, which never allows the network or the mutation of a    *)
(* release.                                                                *)
ClearedByDecision ==
  ran # Nothing =>
    /\ ran.gate.plan = ran.plan.of
    /\ ran.cleared = "gate" =>
         /\ ran.gate.decision = "allow"
         /\ ran.gate.by = "fixture" =>
              \E f \in Fixtures : f.decision = "allow" /\ f.target = ran.plan.of
         /\ ran.gate.by = "covenant" =>
              ~ran.plan.of.network /\ ~ran.plan.of.mutation

(* "AO Forge v0.1 must fail closed when: the Covenant decision is missing, *)
(* malformed, or denying" (docs/design/AO-FORGE-V0.1.md): only the         *)
(* operator at the prompt can run a plan against such a decision.          *)
FailsClosed ==
  ran # Nothing /\ ran.gate.decision \in {"deny", "invalid"} => ran.cleared = "operator"

IdsOf(list) == {list[i].id : i \in DOMAIN list}

LastOfId(list, i) == \A k \in i + 1..Len(list) : list[k].id # list[i].id

(* All that a workcell depends on is there, and no workcells wait for each *)
(* other: of every group one can go first.                                 *)
Grounded(list) ==
  /\ \A i \in DOMAIN list : \A j \in DOMAIN list[i].deps : list[i].deps[j] \in IdsOf(list)
  /\ \A S \in SUBSET IdsOf(list) : S # {} =>
       \E i \in DOMAIN list :
         /\ list[i].id \in S
         /\ LastOfId(list, i)
         /\ \A j \in DOMAIN list[i].deps : list[i].deps[j] \notin S

(* A plan that is kept or started, by whichever commands it came, through  *)
(* whichever files, is one that the scheduler can finish.                  *)
PlansGrounded ==
  /\ ran # Nothing => Grounded(ran.plan.cells)
  /\ planFile \notin {Nothing, Torn} => Grounded(planFile.cells)

(* A plan has the workcells its own swarm came up with: the output of a    *)
(* planning that went to its end is not found by a later one.  (One that   *)
(* was stopped before its removal is found, and taken.)                    *)
OwnWorkcells ==
  cmd = "dynamic" /\ phase \in {"validate", "write"} =>
    plan.cells = made \/ left

(* Every command ends, whatever graph it is given to validate.             *)
CommandsEnd == phase # "idle" ~> phase = "idle"

=============================================================================
