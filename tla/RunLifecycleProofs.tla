-------------------------- MODULE RunLifecycleProofs --------------------------
(***************************************************************************)
(* Theorems about RunLifecycle, for any plan, any flags and gate results,  *)
(* and any number of commands and failed writes.                           *)
(***************************************************************************)
EXTENDS RunLifecycle, TLAPS

Archiving == {"plan", "gate", "evidence", "packet"}
Delivering == Archiving \cup {"release", "write"}

(* Nothing of a command outlives it.                                       *)
IdleInv ==
  /\ pc = "idle" => verdict = NoTask /\ ~approved /\ packet.status = "none"
  /\ pc = "admit" => verdict = NoTask

(* What clears a run, and what clears a release.                           *)
Cleared ==
  /\ \/ gate.status = "allowed"
     \/ gate.release /\ cmd.confirm
     \/ gate.status = "blocked" /\ approved /\ cmd.attended
  /\ ~Unauthorized

ClearInv ==
  /\ approved => gate.status = "blocked" /\ cmd.attended
  /\ pc \in {"run", "collect", "readback", "fetch"} => Cleared
  /\ pc \in Delivering /\ packet.status = "passed" => Cleared
  /\ pc = "release" => packet.status = "passed" /\ Confirmed

(* The run was judged before it was delivered as passed.                   *)
JudgedInv ==
  /\ verdict = NoTask => \A t \in Tasks : status[t] # "failed"
  /\ pc \in {"collect", "readback", "fetch"} => \A t \in Tasks : status[t] \in Plan!Settled
  /\ pc \in {"readback", "fetch"} => verdict = NoTask
  /\ pc \in Delivering /\ packet.status = "passed" =>
       packet.cells = status /\ verdict = NoTask

PassedIsWhole(p) ==
  p.status = "passed" =>
    /\ \A t \in Tasks : p.cells[t] \in {"passed", "skipped"}
    /\ RequireReadback => p.receipt

WholeInv ==
  /\ PassedIsWhole(packet) /\ PassedIsWhole(savedPacket) /\ PassedIsWhole(out)
  /\ result = "ok" => out.status = "passed"

(* What passed, was passed, and after all it depends on.                   *)
Earned(p) ==
  \A t \in Passed(p) : passedIn[t] # {} /\ \A d \in Plan!Deps(t) : d \in Passed(p)

RanInv ==
  /\ Earned(packet) /\ Earned(savedPacket) /\ Earned(out)
  /\ \A t \in Tasks : status[t] = "passed" => passedIn[t] # {}
  /\ \A t \in Tasks : status[t] \in {"running", "passed"} =>
       \A d \in Plan!Deps(t) : status[d] = "passed"

(* A resume has all that the archived packet calls passed.                 *)
KeptInv ==
  resumed /\ pc \in {"admit", "run", "collect", "readback", "fetch"} \cup Archiving =>
    \A t \in Passed(savedPacket) : status[t] = "passed"

IndInv == TypeOK /\ IdleInv /\ ClearInv /\ JudgedInv /\ WholeInv /\ RanInv /\ KeptInv

-----------------------------------------------------------------------------
LEMMA BlankPacket ==
  ASSUME NEW s \in {"none", "torn", "passed", "failed", "blocked", "denied"}
  PROVE  Blank(s) \in Packet /\ Passed(Blank(s)) = {}
  BY DEF Blank, Packet, Passed, Modes

LEMMA DependsOnTasks == \A t \in Tasks : Plan!Deps(t) \subseteq Tasks
  BY LifecycleAssumption DEF Plan!Deps

LEMMA InitInd == Init => IndInv
<1> SUFFICES ASSUME Init PROVE IndInv
  OBVIOUS
<1>1. Blank("none") \in Packet /\ Passed(Blank("none")) = {}
  BY BlankPacket
<1>2. TypeOK
  BY <1>1, LifecycleAssumption
  DEF Init, TypeOK, NoFlags, NoGate, Flags, GateFile, Places, Plan!Statuses, Dirs,
      Contents, Modes
<1>3. IdleInv /\ ClearInv /\ JudgedInv
  BY DEF Init, IdleInv, ClearInv, JudgedInv, Blank, Delivering, Archiving
<1>4. WholeInv
  BY DEF Init, WholeInv, PassedIsWhole, Blank
<1>5. RanInv /\ KeptInv
  BY <1>1 DEF Init, RanInv, KeptInv, Earned
<1> QED
  BY <1>2, <1>3, <1>4, <1>5 DEF IndInv

-----------------------------------------------------------------------------
(* A packet that is delivered.                                             *)
LEMMA DeliverPacket ==
  ASSUME IndInv, NEW s \in {"passed", "failed", "blocked", "denied"},
         NEW cells \in [Tasks -> {"none", "pending", "running", "passed", "failed",
                                  "skipped", "blocked", "denied"}],
         NEW proof \in BOOLEAN, Deliver(s, cells, proof)
  PROVE  /\ packet' \in Packet /\ pc' = "plan"
         /\ packet'.status = s /\ packet'.cells = cells /\ packet'.receipt = proof
<1>1. Ran(cells) \in [Tasks -> {"none"} \cup Modes]
  BY DEF Ran, Mode, Modes
<1> QED
  BY <1>1 DEF Deliver, Packet

LEMMA StatusCells ==
  ASSUME IndInv
  PROVE  status \in [Tasks -> {"none", "pending", "running", "passed", "failed",
                               "skipped", "blocked", "denied"}]
  BY DEF IndInv, TypeOK, Plan!Statuses

(* Refused before its workcells ran.                                       *)
LEMMA RefuseStep ==
  ASSUME IndInv, pc = "admit", NEW s \in {"failed", "blocked", "denied"}, Refuse(s),
         UNCHANGED <<checks, faults, approved, runVars, receipt, evidence, archiveVars,
                     endVars, stored>>
  PROVE  IndInv'
<1> DEFINE cells == [t \in Tasks |-> s]
<1>1. cells \in [Tasks -> {"none", "pending", "running", "passed", "failed", "skipped",
                           "blocked", "denied"}]
  OBVIOUS
<1>2. /\ packet' \in Packet /\ pc' = "plan"
      /\ packet'.status = s /\ packet'.cells = cells
  BY <1>1, DeliverPacket DEF Refuse
<1> USE DEF IndInv, checks, runVars, archiveVars, endVars
<1>3. TypeOK'
  BY <1>2 DEF TypeOK, Places
<1>4. IdleInv'
  BY <1>2 DEF IdleInv
<1>5. ClearInv'
  BY <1>2 DEF ClearInv, Delivering, Archiving
<1>6. JudgedInv'
  BY <1>2 DEF JudgedInv, Delivering, Archiving
<1>7. WholeInv'
  BY <1>2 DEF WholeInv, PassedIsWhole
<1>8. RanInv'
  <2>1. Passed(packet)' = {}
    BY <1>2 DEF Passed
  <2> QED
    BY <2>1 DEF RanInv, Earned, Passed
<1>9. KeptInv'
  BY <1>2 DEF KeptInv, Archiving, Passed
<1> QED
  BY <1>3, <1>4, <1>5, <1>6, <1>7, <1>8, <1>9

LEMMA AdmitStep == IndInv /\ Admit => IndInv'
<1> SUFFICES ASSUME IndInv, Admit PROVE IndInv'
  OBVIOUS
<1> USE DEF checks, runVars, archiveVars, endVars
<1>1. CASE RefuseRelease
  BY <1>1, RefuseStep DEF RefuseRelease
<1>2. CASE RefuseGate
  BY <1>2, RefuseStep DEF RefuseGate
<1>3. CASE Override
  <2>1. CASE approved' = TRUE /\ UNCHANGED <<pc, packet>>
    <3>1. TypeOK'
      BY <1>3, <2>1 DEF Override, IndInv, TypeOK
    <3>2. pc = "admit" /\ gate.status = "blocked" /\ cmd.attended
      BY <1>3 DEF Override, Asks
    <3>3. IdleInv' /\ ClearInv'
      BY <1>3, <2>1, <3>2
      DEF Override, IndInv, IdleInv, ClearInv, Delivering, Archiving
    <3>4. JudgedInv' /\ WholeInv' /\ KeptInv'
      BY <1>3, <2>1 DEF Override, IndInv, JudgedInv, WholeInv, PassedIsWhole, KeptInv, Passed
    <3>5. RanInv'
      BY <1>3, <2>1 DEF Override, IndInv, RanInv, Earned, Passed
    <3> QED
      BY <3>1, <3>3, <3>4, <3>5 DEF IndInv
  <2>2. CASE Refuse("failed") /\ UNCHANGED approved
    BY <1>3, <2>2, RefuseStep DEF Override
  <2>3. CASE Refuse("blocked") /\ UNCHANGED approved
    BY <1>3, <2>3, RefuseStep DEF Override
  <2> QED
    BY <1>3, <2>1, <2>2, <2>3 DEF Override
<1>4. CASE Proceed
  <2>1. CASE pc' = "run" /\ UNCHANGED packet
    <3>1. TypeOK'
      BY <1>4, <2>1 DEF Proceed, IndInv, TypeOK, Places
    <3>2. Cleared
      BY <1>4 DEF Proceed, Cleared, GateOpens, IndInv, ClearInv
    <3>3. IdleInv' /\ ClearInv'
      BY <1>4, <2>1, <3>2
      DEF Proceed, IndInv, IdleInv, ClearInv, Cleared, Unauthorized, Confirmed,
          Delivering, Archiving
    <3>4. JudgedInv' /\ WholeInv' /\ KeptInv'
      BY <1>4, <2>1
      DEF Proceed, IndInv, JudgedInv, WholeInv, PassedIsWhole, KeptInv, Passed, Delivering,
          Archiving
    <3>5. RanInv'
      BY <1>4, <2>1 DEF Proceed, IndInv, RanInv, Earned, Passed
    <3> QED
      BY <3>1, <3>3, <3>4, <3>5 DEF IndInv
  <2>2. CASE Refuse("blocked")
    BY <1>4, <2>2, RefuseStep DEF Proceed
  <2> QED
    BY <1>4, <2>1, <2>2 DEF Proceed
<1> QED
  BY <1>1, <1>2, <1>3, <1>4 DEF Admit

LEMMA StartStep == IndInv /\ Start => IndInv'
<1> SUFFICES ASSUME IndInv, Start PROVE IndInv'
  OBVIOUS
<1>0. PICK o \in Options, again \in BOOLEAN : Begin(o, again)
  BY DEF Start, StartRun, StartResume
<1>a. /\ pc = "idle" /\ pc' = "admit" /\ verdict = NoTask /\ ~approved /\ packet.status = "none"
      /\ UNCHANGED <<faults, approved, verdict, receipt, packet, evidence, archiveVars,
                     passedIn, stored>>
      /\ out' = Blank("none") /\ result' = "none"
  BY <1>0 DEF Start, StartRun, StartResume, Begin, IndInv, IdleInv
<1> USE DEF archiveVars
<1>b. Blank("none") \in Packet /\ Passed(Blank("none")) = {}
  BY BlankPacket
<1>1. TypeOK'
  <2>1. commands' \in Nat /\ cmd' \in Flags /\ resumed' \in BOOLEAN
    BY <1>0, LifecycleAssumption DEF Begin, IndInv, TypeOK
  <2>2. gate' \in GateFile
    BY LifecycleAssumption DEF Start, StartRun, StartResume, IndInv, TypeOK
  <2>3. /\ status' \in [Tasks -> Plan!Statuses]
        /\ output' \in [Tasks -> {"empty"} \cup Modes]
    BY DEF Start, StartRun, StartResume, Plan!Statuses
  <2> QED
    BY <1>a, <1>b, <2>1, <2>2, <2>3 DEF IndInv, TypeOK, Places
<1>2. \A t \in Tasks : status'[t] \in {"pending", "passed"}
  BY DEF Start, StartRun, StartResume
<1>3. \A t \in Tasks : status'[t] = "passed" => t \in Passed(savedPacket)
  BY DEF Start, StartRun, StartResume, Carried, Passed
<1>4. IdleInv' /\ ClearInv'
  BY <1>a DEF IdleInv, ClearInv, Delivering, Archiving
<1>5. JudgedInv' /\ WholeInv'
  BY <1>a, <1>2
  DEF IndInv, JudgedInv, WholeInv, PassedIsWhole, Delivering, Archiving, Blank
<1>6. KeptInv'
  <2>1. ASSUME resumed' PROVE \A t \in Passed(savedPacket) : status'[t] = "passed"
    BY <2>1, <1>0 DEF Start, StartRun, StartResume, Begin, Carried, Passed
  <2> QED
    BY <1>a, <2>1 DEF KeptInv, Passed
<1>7. RanInv'
  <2>1. Earned(packet)' /\ Earned(savedPacket)'
    BY <1>a DEF IndInv, RanInv, Earned, Passed
  <2>2. Earned(out)'
    BY <1>a, <1>b DEF Earned, Passed
  <2>3. ASSUME NEW t \in Tasks, status'[t] \in {"running", "passed"}
        PROVE  passedIn'[t] # {} /\ \A d \in Plan!Deps(t) : status'[d] = "passed"
    <3>1. t \in Passed(savedPacket)
      BY <1>2, <1>3, <2>3
    <3>2. passedIn[t] # {} /\ \A d \in Plan!Deps(t) : d \in Passed(savedPacket)
      BY <3>1 DEF IndInv, RanInv, Earned
    <3>3. StartResume
      BY <2>3 DEF Start, StartRun
    <3>4. \A d \in Passed(savedPacket) : status'[d] = "passed"
      BY <3>3 DEF StartResume, Carried, Passed
    <3> QED
      BY <1>a, <3>2, <3>4
  <2> QED
    BY <2>1, <2>2, <2>3 DEF RanInv
<1> QED
  BY <1>1, <1>4, <1>5, <1>6, <1>7 DEF IndInv

-----------------------------------------------------------------------------
(* A passed workcell stays so, and the run goes on as RanInv says.         *)
LEMMA RunWorkcellsStep == IndInv /\ RunWorkcells => IndInv'
<1> SUFFICES ASSUME IndInv, RunWorkcells PROVE IndInv'
  OBVIOUS
<1> USE DEF IndInv, checks, archiveVars, endVars
<1>a. /\ pc = "run" /\ pc' = "run" /\ Plan!PlanNext
      /\ UNCHANGED <<checks, faults, approved, receipt, packet, evidence, archiveVars, endVars,
                     stored>>
  BY DEF RunWorkcells
<1>b. /\ status' \in [Tasks -> Plan!Statuses]
      /\ \A t \in Tasks :
           \/ status'[t] = status[t]
           \/ Plan!Starts(t)
           \/ Plan!Settles(t)
           \/ Plan!PassedOver(t)
      /\ Plan!Judge
  BY <1>a DEF Plan!PlanNext
<1>c. /\ output' = [t \in Tasks |-> IF Ended(t) THEN Mode ELSE output[t]]
      /\ passedIn' = [t \in Tasks |->
           passedIn[t] \cup (IF Ended(t) /\ status'[t] = "passed" THEN {Mode} ELSE {})]
  BY DEF RunWorkcells
<1>1. TypeOK'
  <2>1. Mode \in Modes
    BY DEF Mode, Modes
  <2>2. output' \in [Tasks -> {"empty"} \cup Modes]
    BY <1>c, <2>1 DEF TypeOK
  <2>3. passedIn' \in [Tasks -> SUBSET Modes]
    BY <1>c, <2>1 DEF TypeOK
  <2>4. verdict' \in Tasks \cup {NoTask}
    BY <1>b DEF Plan!Judge, TypeOK
  <2> QED
    BY <1>a, <1>b, <2>2, <2>3, <2>4 DEF TypeOK
<1>2. IdleInv' /\ ClearInv'
  BY <1>a DEF IdleInv, ClearInv, Cleared, Unauthorized, Confirmed, Delivering, Archiving
<1>3. JudgedInv'
  <2>1. verdict' = NoTask => \A t \in Tasks : status'[t] # "failed"
    BY <1>b, LifecycleAssumption DEF Plan!Judge
  <2> QED
    BY <1>a, <2>1 DEF JudgedInv, Delivering, Archiving
<1>4. WholeInv'
  BY <1>a DEF WholeInv, PassedIsWhole
<1>5. \A t \in Tasks : status[t] = "passed" => status'[t] = "passed"
  BY <1>b DEF Plan!Starts, Plan!Settles, Plan!PassedOver
<1>6. \A t \in Tasks : passedIn[t] \subseteq passedIn'[t]
  BY <1>c
<1>7. RanInv'
  <2>1. Earned(packet)' /\ Earned(savedPacket)' /\ Earned(out)'
    <3>1. ASSUME NEW p, Earned(p) PROVE Earned(p)'
      BY <3>1, <1>6 DEF Earned, Passed
    <3> QED
      BY <1>a, <1>6 DEF RanInv, Earned, Passed
  <2>2. ASSUME NEW t \in Tasks, status'[t] = "passed" PROVE passedIn'[t] # {}
    <3>1. CASE status[t] = "passed"
      BY <3>1, <1>6 DEF RanInv
    <3>2. CASE status[t] # "passed"
      BY <1>b, <1>c, <2>2, <3>2
      DEF Plan!Starts, Plan!Settles, Plan!PassedOver, Ended
    <3> QED
      BY <3>1, <3>2
  <2>3. ASSUME NEW t \in Tasks, status'[t] \in {"running", "passed"}
        PROVE  \A d \in Plan!Deps(t) : status'[d] = "passed"
    <3>1. \A d \in Plan!Deps(t) : status[d] = "passed"
      <4>1. CASE status[t] \in {"running", "passed"}
        BY <4>1 DEF RanInv
      <4>2. CASE status[t] \notin {"running", "passed"}
        BY <1>b, <2>3, <4>2 DEF Plan!Starts, Plan!Settles, Plan!PassedOver
      <4> QED
        BY <4>1, <4>2
    <3> QED
      BY <3>1, <1>5, DependsOnTasks
  <2> QED
    BY <2>1, <2>2, <2>3 DEF RanInv
<1>8. KeptInv'
  BY <1>a, <1>5 DEF KeptInv, Passed, TypeOK, Packet
<1> QED
  BY <1>1, <1>2, <1>3, <1>4, <1>7, <1>8

LEMMA RunReturnsStep == IndInv /\ RunReturns => IndInv'
<1> SUFFICES ASSUME IndInv, RunReturns PROVE IndInv'
  OBVIOUS
<1> USE DEF RunReturns, IndInv, checks, runVars, archiveVars, endVars
<1>1. TypeOK'
  BY DEF TypeOK, Places
<1>2. IdleInv' /\ ClearInv'
  BY DEF IdleInv, ClearInv, Cleared, Unauthorized, Confirmed, Delivering, Archiving
<1>3. JudgedInv' /\ WholeInv' /\ KeptInv'
  BY DEF JudgedInv, WholeInv, PassedIsWhole, KeptInv, Passed, Delivering, Archiving
<1>4. RanInv'
  BY DEF RanInv, Earned, Passed
<1> QED
  BY <1>1, <1>2, <1>3, <1>4

(* A run that failed, or that is not passed for another reason.            *)
LEMMA FailClosedStep ==
  ASSUME IndInv, pc \in {"collect", "readback", "fetch"}, NEW s \in {"failed", "blocked"},
         FailClosed(s),
         UNCHANGED <<checks, approved, runVars, receipt, archiveVars, endVars>>,
         faults' \in Nat, stored' \subseteq OperatorPacket, evidence' \in [Dirs -> [Tasks -> Contents]]
  PROVE  IndInv'
<1>1. /\ packet' \in Packet /\ pc' = "plan"
      /\ packet'.status = s /\ packet'.cells = status
  BY StatusCells, DeliverPacket DEF FailClosed
<1> USE DEF IndInv, checks, runVars, archiveVars, endVars
<1>2. TypeOK'
  BY <1>1 DEF TypeOK, Places
<1>3. IdleInv' /\ ClearInv'
  BY <1>1 DEF IdleInv, ClearInv
<1>4. JudgedInv' /\ WholeInv'
  BY <1>1 DEF JudgedInv, WholeInv, PassedIsWhole
<1>5. RanInv'
  <2>1. Earned(packet)'
    BY <1>1, DependsOnTasks DEF RanInv, Earned, Passed
  <2> QED
    BY <2>1 DEF RanInv, Earned, Passed
<1>6. KeptInv'
  BY <1>1 DEF KeptInv, Passed, Archiving
<1> QED
  BY <1>2, <1>3, <1>4, <1>5, <1>6

LEMMA CollectStep == IndInv /\ Collect => IndInv'
<1> SUFFICES ASSUME IndInv, Collect PROVE IndInv'
  OBVIOUS
<1> USE DEF checks, runVars, archiveVars, endVars
<1>1. evidence' \in [Dirs -> [Tasks -> Contents]]
  <2>1. ASSUME NEW written \in SUBSET Tasks, NEW torn \in SUBSET Tasks
        PROVE  Written(written, torn) \in [Dirs -> [Tasks -> Contents]]
    <3>1. Dir \in Dirs
      BY DEF Dir, Dirs
    <3>2. evidence \in [Dirs -> [Tasks -> Contents]] /\ output \in [Tasks -> Contents]
      BY DEF IndInv, TypeOK, Contents
    <3> DEFINE files ==
          [t \in Tasks |-> IF t \in torn THEN "torn"
                           ELSE IF t \in written THEN output[t] ELSE evidence[Dir][t]]
    <3>3. evidence[Dir] \in [Tasks -> Contents]
      BY <3>1, <3>2
    <3>4. files \in [Tasks -> Contents]
      BY <3>2, <3>3 DEF Contents
    <3>5. Written(written, torn) = [evidence EXCEPT ![Dir] = files]
      BY <3>1, <3>2 DEF Written
    <3> QED
      BY <3>1, <3>2, <3>4, <3>5
  <2>2. HasEvidence \subseteq Tasks
    BY DEF HasEvidence
  <2> QED
    <3>1. CASE evidence' = Written(HasEvidence, {})
      BY <2>1, <2>2, <3>1
    <3>2. CASE UNCHANGED evidence
      BY <3>2 DEF IndInv, TypeOK
    <3>3. ASSUME NEW t \in HasEvidence, NEW torn \in BOOLEAN,
                 NEW written \in SUBSET (HasEvidence \ {t}),
                 evidence' = Written(written, IF torn THEN {t} ELSE {})
          PROVE  evidence' \in [Dirs -> [Tasks -> Contents]]
      <4>1. (IF torn THEN {t} ELSE {}) \in SUBSET Tasks /\ written \in SUBSET Tasks
        BY <2>2
      <4> QED
        BY <2>1, <3>3, <4>1
    <3> QED
      BY <3>1, <3>2, <3>3 DEF Collect
<1>2. faults' \in Nat
  BY DEF Collect, Fault, IndInv, TypeOK
<1>3. CASE FailClosed("failed")
  BY <1>1, <1>2, <1>3, FailClosedStep DEF Collect, IndInv, TypeOK
<1>4. CASE verdict = NoTask /\ pc' = "readback" /\ UNCHANGED packet
  <2>1. pc = "collect" /\ UNCHANGED <<checks, approved, runVars, receipt, archiveVars,
                                      endVars, stored>>
    BY DEF Collect
  <2> USE <1>4, <2>1 DEF IndInv
  <2>2. TypeOK'
    BY <1>1, <1>2 DEF TypeOK, Places
  <2>3. IdleInv' /\ ClearInv'
    BY DEF IdleInv, ClearInv, Cleared, Unauthorized, Confirmed, Delivering, Archiving
  <2>4. JudgedInv' /\ WholeInv' /\ KeptInv'
    BY DEF JudgedInv, WholeInv, PassedIsWhole, KeptInv, Passed, Delivering, Archiving
  <2>5. RanInv'
    BY DEF RanInv, Earned, Passed
  <2> QED
    BY <2>2, <2>3, <2>4, <2>5
<1> QED
  BY <1>3, <1>4 DEF Collect

LEMMA PassStep ==
  ASSUME IndInv, pc \in {"readback", "fetch"}, NEW proof \in BOOLEAN, Pass(proof),
         RequireReadback => proof,
         UNCHANGED <<checks, approved, runVars, evidence, archiveVars, endVars>>,
         faults' \in Nat, stored' \subseteq OperatorPacket
  PROVE  IndInv'
<1>1. /\ packet' \in Packet /\ pc' = "plan"
      /\ packet'.status = "passed" /\ packet'.cells = status /\ packet'.receipt = proof
      /\ receipt' = proof
  BY StatusCells, DeliverPacket DEF Pass
<1> USE DEF IndInv, checks, runVars, archiveVars, endVars
<1>2. TypeOK'
  BY <1>1 DEF TypeOK, Places
<1>3. IdleInv' /\ ClearInv'
  BY <1>1 DEF IdleInv, ClearInv, Cleared, Unauthorized, Confirmed
<1>4. JudgedInv'
  BY <1>1 DEF JudgedInv
<1>5. WholeInv'
  <2>1. \A t \in Tasks : status[t] \in {"passed", "skipped"}
    BY DEF JudgedInv, Plan!Settled
  <2> QED
    BY <1>1, <2>1 DEF WholeInv, PassedIsWhole
<1>6. RanInv'
  <2>1. Earned(packet)'
    BY <1>1, DependsOnTasks DEF RanInv, Earned, Passed
  <2> QED
    BY <2>1 DEF RanInv, Earned, Passed
<1>7. KeptInv'
  BY <1>1 DEF KeptInv, Passed, Archiving
<1> QED
  BY <1>2, <1>3, <1>4, <1>5, <1>6, <1>7

(* OwnPacket is what a control plane can hold.                             *)
LEMMA OwnPacketSent == IndInv => OwnPacket \in OperatorPacket
  BY DEF IndInv, TypeOK, OwnPacket, OperatorPacket, Contents, Modes

LEMMA NoReceiptStep ==
  ASSUME IndInv, pc \in {"readback", "fetch"}, NEW s \in {"failed", "blocked"}, NoReceipt(s),
         UNCHANGED <<checks, approved, runVars, evidence, archiveVars, endVars>>,
         faults' \in Nat, stored' \subseteq OperatorPacket
  PROVE  IndInv'
<1>1. CASE RequireReadback /\ FailClosed(s) /\ UNCHANGED receipt
  BY <1>1, FailClosedStep DEF IndInv, TypeOK
<1>2. CASE ~RequireReadback /\ Pass(FALSE)
  BY <1>2, PassStep
<1> QED
  BY <1>1, <1>2 DEF NoReceipt

LEMMA UploadStep == IndInv /\ Upload => IndInv'
<1> SUFFICES ASSUME IndInv, Upload PROVE IndInv'
  OBVIOUS
<1>1. stored' \subseteq OperatorPacket /\ faults' \in Nat
  BY OwnPacketSent DEF Upload, IndInv, TypeOK
<1>2. CASE NoReceipt("blocked")
  BY <1>1, <1>2, NoReceiptStep DEF Upload
<1>3. CASE pc' = "fetch" /\ UNCHANGED <<receipt, packet>>
  <2>1. pc = "readback" /\ UNCHANGED <<checks, faults, approved, runVars, evidence, archiveVars,
                                       endVars>>
    BY DEF Upload
  <2> USE <1>1, <1>3, <2>1 DEF IndInv, checks, runVars, archiveVars, endVars
  <2>2. TypeOK'
    BY DEF TypeOK, Places
  <2>3. IdleInv' /\ ClearInv'
    BY DEF IdleInv, ClearInv, Cleared, Unauthorized, Confirmed, Delivering, Archiving
  <2>4. JudgedInv' /\ WholeInv' /\ KeptInv'
    BY DEF JudgedInv, WholeInv, PassedIsWhole, KeptInv, Passed, Delivering, Archiving
  <2>5. RanInv'
    BY DEF RanInv, Earned, Passed
  <2> QED
    BY <2>2, <2>3, <2>4, <2>5
<1> QED
  BY <1>2, <1>3 DEF Upload

LEMMA FetchStep == IndInv /\ Fetch => IndInv'
<1> SUFFICES ASSUME IndInv, Fetch PROVE IndInv'
  OBVIOUS
<1>1. faults' \in Nat /\ stored' \subseteq OperatorPacket
  <2>1. faults \in Nat /\ stored \subseteq OperatorPacket
    BY DEF IndInv, TypeOK
  <2>2. stored' = stored /\ (UNCHANGED faults \/ Fault)
    BY DEF Fetch
  <2> QED
    BY <2>1, <2>2 DEF Fault
<1>2. pc = "fetch" /\ UNCHANGED <<checks, approved, runVars, evidence, archiveVars, endVars>>
  BY DEF Fetch
<1>3. CASE Pass(TRUE)
  BY <1>1, <1>2, <1>3, PassStep
<1>4. ASSUME NEW s \in {"failed", "blocked"}, NoReceipt(s) PROVE IndInv'
  BY <1>1, <1>2, <1>4, NoReceiptStep
<1> QED
  BY <1>3, <1>4 DEF Fetch

-----------------------------------------------------------------------------
(* What the archive keeps of a packet.                                     *)
LEMMA ArchiveStep == IndInv /\ Archive => IndInv'
<1> SUFFICES ASSUME IndInv, Archive PROVE IndInv'
  OBVIOUS
<1> USE DEF IndInv, checks, runVars, archiveVars, endVars
<1>1. CASE ArchivePlan \/ ArchiveGate \/ ArchiveEvidence
  <2>1. /\ pc \in Archiving /\ pc' \in Archiving
        /\ UNCHANGED <<checks, approved, runVars, receipt, packet, savedPacket, endVars,
                       stored>>
    BY <1>1 DEF ArchivePlan, ArchiveGate, ArchiveEvidence, Archiving
  <2>2. faults' \in Nat
    BY <1>1 DEF ArchivePlan, ArchiveGate, ArchiveEvidence, Save, Fault, TypeOK
  <2>3. savedPlan' \in {"none", "torn", "whole"} /\ savedGate' \in GateFile
    <3>1. savedPlan' \in {savedPlan, "whole", "torn"}
      BY <1>1 DEF ArchivePlan, ArchiveGate, ArchiveEvidence, Save
    <3>2. savedGate' \in {savedGate, gate, TornGate}
      BY <1>1 DEF ArchivePlan, ArchiveGate, ArchiveEvidence, Save
    <3>3. TornGate \in GateFile
      BY DEF TornGate, GateFile
    <3>4. savedPlan \in {"none", "torn", "whole"} /\ savedGate \in GateFile /\ gate \in GateFile
      BY DEF TypeOK
    <3> QED
      BY <3>1, <3>2, <3>3, <3>4
  <2>4. evidence' \in [Dirs -> [Tasks -> Contents]]
    <3>1. Source \in Dirs
      BY DEF Source, Dir, Dirs
    <3>2. ASSUME NEW copied \in SUBSET Tasks
          PROVE  Copied(copied) \in [Dirs -> [Tasks -> Contents]]
      <4>1. evidence[Source] \in [Tasks -> Contents] /\ evidence["archive"] \in [Tasks -> Contents]
        BY <3>1 DEF TypeOK, Dirs
      <4> DEFINE files ==
            [t \in Tasks |-> IF t \in copied THEN evidence[Source][t]
                             ELSE evidence["archive"][t]]
      <4>2. files \in [Tasks -> Contents]
        BY <4>1
      <4>3. Copied(copied) = [evidence EXCEPT !["archive"] = files]
        BY DEF Copied, TypeOK, Dirs
      <4> QED
        BY <4>2, <4>3 DEF TypeOK
    <3>3. ASSUME NEW e \in [Dirs -> [Tasks -> Contents]], NEW t \in Tasks
          PROVE  [e EXCEPT !["archive"][t] = "torn"] \in [Dirs -> [Tasks -> Contents]]
      BY DEF Contents
    <3>4. Found \subseteq Tasks
      BY DEF Found
    <3>5. CASE ArchiveEvidence
      <4>1. CASE evidence' = Copied(Found)
        BY <3>2, <3>4, <4>1
      <4>2. ASSUME NEW t \in Found, evidence' = Copied(Found \ {t})
            PROVE  evidence' \in [Dirs -> [Tasks -> Contents]]
        BY <3>2, <3>4, <4>2
      <4>3. ASSUME NEW t \in Found,
                   evidence' = [Copied(Found) EXCEPT !["archive"][t] = "torn"]
            PROVE  evidence' \in [Dirs -> [Tasks -> Contents]]
        BY <3>2, <3>3, <3>4, <4>3
      <4> QED
        BY <3>5, <4>1, <4>2, <4>3 DEF ArchiveEvidence
    <3>6. CASE ArchivePlan \/ ArchiveGate
      BY <3>6 DEF ArchivePlan, ArchiveGate, TypeOK
    <3> QED
      BY <1>1, <3>5, <3>6
  <2>5. TypeOK'
    BY <2>1, <2>2, <2>3, <2>4 DEF TypeOK, Places, Archiving
  <2>6. IdleInv' /\ ClearInv'
    BY <2>1 DEF IdleInv, ClearInv, Cleared, Unauthorized, Confirmed, Delivering, Archiving
  <2>7. JudgedInv' /\ WholeInv' /\ KeptInv'
    BY <2>1 DEF JudgedInv, WholeInv, PassedIsWhole, KeptInv, Passed, Delivering, Archiving
  <2>8. RanInv'
    BY <2>1 DEF RanInv, Earned, Passed
  <2> QED
    BY <2>5, <2>6, <2>7, <2>8
<1>2. CASE ArchivePacket
  <2>1. /\ pc = "packet"
        /\ UNCHANGED <<checks, approved, runVars, receipt, packet, evidence, savedPlan,
                       savedGate, endVars, stored>>
        /\ savedPacket' \in {packet, savedPacket, Blank("torn")}
        /\ faults' \in Nat
    BY <1>2 DEF ArchivePacket, Save, Fault, TypeOK
  <2>2. /\ pc' \in {"release", "write"}
        /\ pc' = "release" => packet.status = "passed" /\ Confirmed
    BY <1>2 DEF ArchivePacket
  <2>3. Blank("torn") \in Packet /\ Passed(Blank("torn")) = {}
    BY BlankPacket
  <2>4. TypeOK'
    BY <2>1, <2>2, <2>3 DEF TypeOK, Places
  <2>5. IdleInv' /\ ClearInv'
    BY <2>1, <2>2
    DEF IdleInv, ClearInv, Cleared, Unauthorized, Confirmed, Delivering, Archiving
  <2>6. JudgedInv' /\ KeptInv'
    BY <2>1, <2>2 DEF JudgedInv, KeptInv, Delivering, Archiving
  <2>7. WholeInv'
    <3>1. PassedIsWhole(Blank("torn"))
      BY DEF PassedIsWhole, Blank
    <3> QED
      BY <2>1, <3>1 DEF WholeInv, PassedIsWhole
  <2>8. RanInv'
    <3>1. Earned(Blank("torn"))
      BY <2>3 DEF Earned
    <3> QED
      BY <2>1, <3>1 DEF RanInv, Earned, Passed
  <2> QED
    BY <2>4, <2>5, <2>6, <2>7, <2>8
<1> QED
  BY <1>1, <1>2 DEF Archive

(* A command ends, or is killed.                                           *)
LEMMA ReturnStep ==
  ASSUME IndInv, NEW r \in {"ok", "failed", "killed"}, NEW p \in {packet, Blank("none")},
         Return(r, p), r = "ok" => p.status = "passed",
         UNCHANGED <<commands, passedIn, evidence, archiveVars, stored>>,
         faults' \in Nat
  PROVE  IndInv'
<1> USE DEF IndInv, archiveVars
<1>1. Blank("none") \in Packet /\ Passed(Blank("none")) = {}
  BY BlankPacket
<1>2. TypeOK'
  <2>1. p \in Packet
    BY <1>1 DEF TypeOK
  <2>2. pc' \in Places /\ cmd' \in Flags /\ gate' \in GateFile
    BY DEF Return, NoFlags, NoGate, Flags, GateFile, Places
  <2>3. /\ status' \in [Tasks -> Plan!Statuses]
        /\ verdict' \in Tasks \cup {NoTask}
        /\ output' \in [Tasks -> {"empty"} \cup Modes]
    BY DEF Return, Plan!Statuses
  <2>4. /\ resumed' \in BOOLEAN /\ approved' \in BOOLEAN /\ receipt' \in BOOLEAN
        /\ packet' \in Packet /\ out' \in Packet
        /\ result' \in {"none", "ok", "failed", "killed"}
    BY <1>1, <2>1 DEF Return
  <2> QED
    BY <2>2, <2>3, <2>4 DEF TypeOK
<1>3. IdleInv' /\ ClearInv' /\ JudgedInv' /\ KeptInv'
  BY DEF Return, IdleInv, ClearInv, JudgedInv, KeptInv, Blank, Delivering, Archiving
<1>4. WholeInv'
  <2>1. PassedIsWhole(Blank("none"))
    BY DEF PassedIsWhole, Blank
  <2> QED
    BY <2>1 DEF Return, WholeInv, PassedIsWhole
<1>5. RanInv'
  <2>1. Earned(Blank("none"))
    BY <1>1 DEF Earned
  <2>2. Earned(packet)' /\ Earned(savedPacket)' /\ Earned(out)'
    BY <2>1 DEF Return, RanInv, Earned, Passed
  <2> QED
    BY <2>2 DEF Return, RanInv
<1> QED
  BY <1>2, <1>3, <1>4, <1>5

LEMMA EndStep == IndInv /\ (Release \/ WriteOut \/ Kill) => IndInv'
<1> SUFFICES ASSUME IndInv, Release \/ WriteOut \/ Kill PROVE IndInv'
  OBVIOUS
<1> USE DEF archiveVars
<1>1. CASE Release
  <2>1. CASE pc' = "write"
    <3>1. UNCHANGED <<checks, faults, approved, runVars, receipt, packet, endVars, evidence,
                      archiveVars, stored>> /\ pc = "release"
      BY <1>1, <2>1 DEF Release, Return, IndInv, TypeOK, Places
    <3> USE <2>1, <3>1 DEF IndInv, checks, runVars, endVars
    <3>2. TypeOK'
      BY DEF TypeOK, Places
    <3>3. IdleInv' /\ ClearInv'
      BY DEF IdleInv, ClearInv, Cleared, Unauthorized, Confirmed, Delivering, Archiving
    <3>4. JudgedInv' /\ WholeInv' /\ KeptInv'
      BY DEF JudgedInv, WholeInv, PassedIsWhole, KeptInv, Delivering, Archiving
    <3>5. RanInv'
      BY DEF RanInv, Earned, Passed
    <3> QED
      BY <3>2, <3>3, <3>4, <3>5
  <2>2. CASE Return("failed", Blank("none")) /\ UNCHANGED <<commands, passedIn>>
    BY <1>1, <2>2, ReturnStep DEF Release, IndInv, TypeOK
  <2> QED
    BY <1>1, <2>1, <2>2 DEF Release
<1>2. CASE WriteOut
  BY <1>2, ReturnStep DEF WriteOut, Fault, IndInv, TypeOK
<1>3. CASE Kill
  BY <1>3, ReturnStep DEF Kill, IndInv, TypeOK
<1> QED
  BY <1>1, <1>2, <1>3

LEMMA StutterStep == IndInv /\ UNCHANGED vars => IndInv'
<1> SUFFICES ASSUME IndInv, UNCHANGED vars PROVE IndInv'
  OBVIOUS
<1> USE DEF vars, IndInv
<1>1. TypeOK' /\ IdleInv' /\ JudgedInv'
  BY DEF TypeOK, IdleInv, JudgedInv
<1>2. ClearInv' /\ WholeInv'
  BY DEF ClearInv, Cleared, Unauthorized, Confirmed, WholeInv, PassedIsWhole
<1>3. RanInv' /\ KeptInv'
  BY DEF RanInv, Earned, KeptInv, Passed
<1> QED
  BY <1>1, <1>2, <1>3

LEMMA NextInd == IndInv /\ [Next]_vars => IndInv'
  BY StartStep, AdmitStep, RunWorkcellsStep, RunReturnsStep, CollectStep, UploadStep, FetchStep,
     ArchiveStep, EndStep, StutterStep
  DEF Next, Execute

LEMMA Invariance == Spec => []IndInv
<1>1. Init => IndInv
  BY InitInd
<1>2. IndInv /\ [Next]_vars => IndInv'
  BY NextInd
<1> QED
  BY <1>1, <1>2, PTL DEF Spec

-----------------------------------------------------------------------------
(* Receipts.  ReceiptInv is an invariant of its own, on top of IndInv.     *)
Proved(p) == \E sent \in stored : Passed(p) = {t \in Tasks : sent[t] # "none"}

ReceiptInv ==
  \A p \in {packet, savedPacket, out} : p.receipt => Proved(p)

(* What is proved stays so: the control plane forgets nothing.             *)
LEMMA StoreGrows == [Next]_vars => stored \subseteq stored'
  BY DEF Next, Start, StartRun, StartResume, Begin, Admit, RefuseRelease, RefuseGate, Override,
         Proceed, Execute, RunWorkcells, RunReturns, Collect, Upload, Fetch, Archive,
         ArchivePlan, ArchiveGate, ArchiveEvidence, ArchivePacket, Release, WriteOut, Kill,
         vars

LEMMA NotProved ==
  ASSUME NEW s, Refuse(s) \/ FailClosed(s) \/ NoReceipt(s)
  PROVE  packet'.receipt = FALSE
<1>1. ASSUME NEW q, NEW cells, Deliver(q, cells, FALSE) PROVE packet'.receipt = FALSE
  BY <1>1 DEF Deliver
<1> QED
  BY <1>1 DEF Refuse, FailClosed, NoReceipt, Pass

(* A step keeps each packet, blanks it, hands it on or delivers one.       *)
LEMMA PacketsFrom ==
  ASSUME IndInv, [Next]_vars, NEW p \in {packet', savedPacket', out'}, p.receipt
  PROVE  \/ p \in {packet, savedPacket, out}
         \/ p = packet' /\ Fetch /\ Pass(TRUE) /\ OwnPacket \in stored
<1>1. \A s : Blank(s).receipt = FALSE
  BY DEF Blank
<1>2. CASE Start
  <2>1. PICK o, again : Begin(o, again)
    <3>1. CASE StartRun
      BY ONLY <3>1 DEF StartRun
    <3>2. CASE StartResume
      BY ONLY <3>2 DEF StartResume
    <3> QED
      BY <1>2, <3>1, <3>2 DEF Start
  <2>2. UNCHANGED <<packet, savedPacket>> /\ out' = Blank("none")
    BY <2>1 DEF Begin, archiveVars
  <2> QED
    BY <1>1, <2>2
<1>3. CASE Admit
  BY <1>3, NotProved DEF Admit, RefuseRelease, RefuseGate, Override, Proceed, archiveVars, endVars
<1>4. CASE RunWorkcells \/ RunReturns
  BY <1>4 DEF RunWorkcells, RunReturns, archiveVars, endVars
<1>5. CASE Collect
  <2>1. UNCHANGED <<savedPacket, out>>
    BY <1>5 DEF Collect, archiveVars, endVars
  <2>2. FailClosed("failed") \/ UNCHANGED packet
    BY <1>5 DEF Collect
  <2>3. packet'.receipt = FALSE \/ UNCHANGED packet
    BY <2>2, NotProved
  <2> QED
    BY <2>1, <2>3
<1>6. CASE Upload
  BY <1>6, NotProved DEF Upload, archiveVars, endVars
<1>7. CASE Fetch
  <2>1. CASE OwnPacket \in stored /\ Pass(TRUE)
    BY <1>7, <2>1 DEF Fetch, archiveVars, endVars
  <2>2. CASE NoReceipt("blocked") \/ NoReceipt("failed")
    BY <1>7, <2>2, NotProved DEF Fetch, archiveVars, endVars
  <2> QED
    BY <1>7, <2>1, <2>2 DEF Fetch
<1>8. CASE Archive
  BY <1>1, <1>8
  DEF Archive, ArchivePlan, ArchiveGate, ArchiveEvidence, ArchivePacket, Save, endVars,
      archiveVars
<1>9. CASE Release \/ WriteOut \/ Kill
  BY <1>1, <1>9 DEF Release, WriteOut, Kill, Return, archiveVars, endVars
<1>10. CASE UNCHANGED vars
  BY <1>10 DEF vars
<1> QED
  BY <1>2, <1>3, <1>4, <1>5, <1>6, <1>7, <1>8, <1>9, <1>10 DEF Next, Execute

LEMMA ReceiptStep == IndInv /\ ReceiptInv /\ [Next]_vars => ReceiptInv'
<1> DEFINE proved(p) ==
      \E sent \in stored' : Passed(p) = {t \in Tasks : sent[t] # "none"}
<1> SUFFICES ASSUME IndInv, ReceiptInv, [Next]_vars,
                    NEW p \in {packet', savedPacket', out'}, p.receipt
             PROVE  proved(p)
  <2>1. (\A p \in {packet', savedPacket', out'} : p.receipt => proved(p)) => ReceiptInv'
    BY Zenon DEF ReceiptInv, Proved, Passed
  <2> QED
    BY <2>1
<1>1. CASE p \in {packet, savedPacket, out}
  <2>1. Proved(p)
    BY <1>1 DEF ReceiptInv
  <2>2. PICK sent \in stored : Passed(p) = {t \in Tasks : sent[t] # "none"}
    BY <2>1 DEF Proved
  <2> QED
    BY <2>2, StoreGrows
<1>2. CASE p = packet' /\ Fetch /\ Pass(TRUE) /\ OwnPacket \in stored
  <2>1. p.cells = status
    BY <1>2 DEF Pass, Deliver
  <2>2. \A t \in Tasks : status[t] # "failed"
    BY <1>2 DEF Fetch, IndInv, JudgedInv
  <2>3. \A t \in Tasks : output[t] # "none"
    BY DEF IndInv, TypeOK, Modes
  <2>4. HasEvidence = Passed(p)
    BY <2>1, <2>2 DEF HasEvidence, Passed
  <2>5. {t \in Tasks : OwnPacket[t] # "none"} = HasEvidence
    BY <2>3 DEF OwnPacket, HasEvidence
  <2> QED
    BY <1>2, <2>4, <2>5, StoreGrows
<1> QED
  BY <1>1, <1>2, PacketsFrom

-----------------------------------------------------------------------------
(* The hand-over to the scheduler.  A command comes to its workcells with  *)
(* none of them under way, ended or passed over.                           *)
FreshInv == pc = "admit" => status \in [Tasks -> {"pending", "passed"}]

LEMMA FreshStep == IndInv /\ FreshInv /\ [Next]_vars => FreshInv'
<1> SUFFICES ASSUME IndInv, FreshInv, [Next]_vars, pc' = "admit" PROVE FreshInv'
  BY DEF FreshInv
<1>1. CASE Start
  BY <1>1 DEF Start, StartRun, StartResume, FreshInv
<1>2. CASE pc = "admit" /\ UNCHANGED status
  BY <1>2 DEF FreshInv
<1>3. Start \/ (pc = "admit" /\ UNCHANGED status)
  BY DEF Next, Admit, RefuseRelease, RefuseGate, Override, Proceed, Refuse, Execute,
         RunWorkcells, RunReturns, Collect, FailClosed, Upload, Fetch, NoReceipt, Pass, Deliver,
         Archive, ArchivePlan, ArchiveGate, ArchiveEvidence, ArchivePacket, Release, WriteOut,
         Kill, Return, runVars, vars
<1> QED
  BY <1>1, <1>2, <1>3

(* What executePlanRun asks of the scheduler is what PlanRun describes: it *)
(* hands over a plan on which nothing is under way and of which the        *)
(* workcells that are taken over are closed under their dependencies,      *)
(* whatever archive they come from; it leaves the statuses to the          *)
(* scheduler until it returns, and goes on with those it returned, all of  *)
(* them settled.                                                           *)
HandsOver ==
  [][/\ pc # "run" /\ pc' = "run" => (Plan!PlanInit)'
     /\ pc = "run" => \/ Plan!PlanNext
                      \/ UNCHANGED <<status, verdict>>
                      \/ pc' = "idle" /\ result' = "killed"
     /\ pc = "run" /\ pc' = "collect" =>
          /\ \A t \in Tasks : status[t] \in Plan!Settled
          /\ UNCHANGED <<status, verdict>>]_vars

-----------------------------------------------------------------------------
(* Theorems.                                                               *)

(* Every reachable state has the types that the code's packets, files and  *)
(* statuses have, torn files included.                                     *)
THEOREM LifecycleTypeCorrect == Spec => []TypeOK
<1>1. IndInv => TypeOK
  BY DEF IndInv
<1> QED
  BY <1>1, Invariance, PTL

(* No sequence of runs, resumes, overrides and kills brings a command to   *)
(* its workcells that its own gate, confirmation, audit or operator did    *)
(* not clear.                                                              *)
THEOREM LifecycleCleared == Spec => []OnlyClearedRuns
<1>1. IndInv => OnlyClearedRuns
  BY DEF IndInv, ClearInv, Cleared, Unauthorized, Confirmed, OnlyClearedRuns, TypeOK, Flags
<1> QED
  BY <1>1, Invariance, PTL

(* What a packet calls passed has been passed by an execution, and so has  *)
(* all that it depends on, whatever was archived, torn and resumed.        *)
THEOREM LifecyclePassedWasRun == Spec => []PassedWasRun
<1>1. IndInv => PassedWasRun
  BY DEF IndInv, RanInv, Earned, PassedWasRun
<1> QED
  BY <1>1, Invariance, PTL

(* A packet that calls its run passed is complete and has the receipt it   *)
(* requires.                                                               *)
THEOREM LifecycleComplete == Spec => []PassedPacketsComplete
<1>1. IndInv => PassedPacketsComplete
  BY DEF IndInv, WholeInv, PassedIsWhole, PassedPacketsComplete
<1> QED
  BY <1>1, Invariance, PTL

(* A receipt, kept or delivered, is for a packet that the control plane    *)
(* holds and that reports the workcells called passed, whatever uploads    *)
(* and answers were lost and whichever commands were killed.               *)
THEOREM LifecycleReceipts == Spec => []ReceiptsReadBack
<1>1. Init => ReceiptInv
  BY DEF Init, ReceiptInv, Blank
<1>2. ReceiptInv => ReceiptsReadBack
  BY DEF ReceiptInv, Proved, ReceiptsReadBack
<1> QED
  BY <1>1, <1>2, ReceiptStep, Invariance, PTL DEF Spec

(* A release is begun for nothing but a passed run, by a command that is   *)
(* live, confirmed and audited and was let through by its gate.            *)
THEOREM LifecycleReleaseEarned == Spec => []ReleaseEarned
<1>1. ASSUME IndInv, pc = "release" PROVE ReleaseEarned
  <2>1. packet.status = "passed" /\ Confirmed /\ Cleared
    BY <1>1 DEF IndInv, ClearInv, Delivering
  <2>2. packet.cells = status /\ verdict = NoTask
    BY <1>1, <2>1 DEF IndInv, JudgedInv, Delivering
  <2>3. RequireReadback => packet.receipt
    BY <1>1, <2>1 DEF IndInv, WholeInv, PassedIsWhole
  <2>4. \A t \in Passed(packet) : passedIn[t] # {}
    BY <1>1 DEF IndInv, RanInv, Earned
  <2> QED
    BY <2>1, <2>2, <2>3, <2>4 DEF ReleaseEarned, Cleared, Confirmed, Unauthorized
<1>2. IndInv => ReleaseEarned
  BY <1>1 DEF ReleaseEarned
<1> QED
  BY <1>2, Invariance, PTL

(* The workcells of every run and resume run as a PlanRun, which is what   *)
(* the scheduler implements, from the start that PlanRun allows to its     *)
(* end.                                                                    *)
THEOREM LifecycleHandsOver == Spec => HandsOver
<1>1. ASSUME IndInv, FreshInv, [Next]_vars, pc # "run", pc' = "run"
      PROVE  (Plan!PlanInit)'
  <2>1. Proceed
    BY <1>1
    DEF Next, Start, StartRun, StartResume, Admit, RefuseRelease, RefuseGate, Override, Refuse,
        Execute, RunWorkcells, RunReturns, Collect, FailClosed, Upload, Fetch, NoReceipt, Pass,
        Deliver, Archive, ArchivePlan, ArchiveGate, ArchiveEvidence, ArchivePacket, Release,
        WriteOut, Kill, Return, vars
  <2>2. pc = "admit" /\ UNCHANGED <<status, verdict>>
    BY <2>1 DEF Proceed, runVars
  <2>3. /\ status \in [Tasks -> {"pending", "passed"}] /\ verdict = NoTask
        /\ \A t \in Tasks : status[t] = "passed" => \A d \in Plan!Deps(t) : status[d] = "passed"
    BY <1>1, <2>2 DEF FreshInv, IndInv, IdleInv, RanInv
  <2>4. Plan!PlanInit
    BY <2>3 DEF Plan!PlanInit
  <2> QED
    BY <2>2, <2>3 DEF Plan!PlanInit, Plan!Deps
<1>2. ASSUME [Next]_vars, pc = "run"
      PROVE  /\ \/ Plan!PlanNext
                \/ UNCHANGED <<status, verdict>>
                \/ pc' = "idle" /\ result' = "killed"
             /\ pc' = "collect" =>
                  /\ \A t \in Tasks : status[t] \in Plan!Settled
                  /\ UNCHANGED <<status, verdict>>
  <2>1. RunWorkcells \/ RunReturns \/ Kill \/ UNCHANGED vars
    BY <1>2
    DEF Next, Start, StartRun, StartResume, Begin, Admit, RefuseRelease, RefuseGate, Override,
        Proceed, Execute, Collect, Upload, Fetch, Archive, ArchivePlan, ArchiveGate,
        ArchiveEvidence, ArchivePacket, Release, WriteOut
  <2>2. CASE RunWorkcells
    BY <1>2, <2>2 DEF RunWorkcells
  <2>3. CASE RunReturns
    BY <2>3 DEF RunReturns, runVars
  <2>4. CASE Kill
    BY <2>4 DEF Kill, Return
  <2>5. CASE UNCHANGED vars
    BY <1>2, <2>5 DEF vars
  <2> QED
    BY <2>1, <2>2, <2>3, <2>4, <2>5
<1>3. Init => FreshInv
  BY DEF Init, FreshInv
<1> QED
  BY <1>1, <1>2, <1>3, FreshStep, Invariance, PTL DEF Spec, HandsOver

(* Progress is lost to no resume that got as far as its workcells.         *)
THEOREM LifecycleKeepsProgress == Spec => ResumeKeepsProgress
<1>1. ASSUME IndInv, [Next]_vars, resumed, savedPacket' # savedPacket,
             savedPacket'.cells = status
      PROVE  Passed(savedPacket) \subseteq Passed(savedPacket')
  <2>1. pc = "packet"
    BY <1>1
    DEF Next, Start, StartRun, StartResume, Begin, Admit, RefuseRelease, RefuseGate, Override,
        Proceed, Execute, RunWorkcells, RunReturns, Collect, Upload, Fetch, Archive, ArchivePlan,
        ArchiveGate, ArchiveEvidence, ArchivePacket, Release, WriteOut, Kill, vars,
        archiveVars
  <2>2. \A t \in Passed(savedPacket) : status[t] = "passed"
    BY <1>1, <2>1 DEF IndInv, KeptInv, Archiving
  <2> QED
    BY <1>1, <2>2 DEF Passed
<1> QED
  BY <1>1, Invariance, PTL DEF Spec, ResumeKeepsProgress

=============================================================================
