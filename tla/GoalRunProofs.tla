---------------------------- MODULE GoalRunProofs ----------------------------
(***************************************************************************)
(* Theorems about GoalRun, for any processes, documents, artifacts and     *)
(* commands.                                                               *)
(***************************************************************************)
EXTENDS GoalRun, TLAPS

Holding == {"verify", "attach", "writing", "ready"}

(* What LineageLawful says of one document, which has been in its phase.   *)
Lawful(doc) ==
  Readable(doc) =>
    /\ doc.phase \in doc.came
    /\ \A phase \in doc.came : isTerminalGoalRunPhase(phase) => doc.phase = phase
    /\ "complete" \in doc.came => "verification" \in doc.came

(* The evidence of a document is what the artifacts contain, but for some. *)
FreshDoc(doc, except) ==
  \A e \in Listed(doc) : e \notin except => doc.evidence[e] = content[e]

LineageInv ==
  /\ \A f \in Files : Lawful(file[f])
  /\ \A p \in Procs : Lawful(goal[p])

FreshFiles == \A f \in Files : Readable(file[f]) => FreshDoc(file[f], loose[f])
FreshMemory ==
  \A p \in Procs : pc[p] \in Holding => FreshDoc(goal[p], left[p] \cup touched[p])

(* What a process has behind it at each place.                             *)
PlaceReached(p) ==
  /\ pc[p] \in {"writing", "ready"} => left[p] = {}
  /\ pc[p] \in {"verify", "ready"} => Acceptable(cmd[p], goal[p])
  /\ pc[p] = "ready" => cmd[p].kind = "readiness"

(* While nobody writes to its GoalRun, an audit holds what is there.       *)
AuditCurrent(p) ==
  /\ pc[p] \in {"verify", "ready"}
  /\ cmd[p].src \notin touched[p]
  => file[cmd[p].src] = goal[p]

IndInv ==
  /\ TypeOK
  /\ LineageInv
  /\ FreshFiles
  /\ FreshMemory
  /\ \A p \in Procs : PlaceReached(p)
  /\ \A p \in Procs : AuditCurrent(p)

-----------------------------------------------------------------------------
(* The phase table, row by row.                                            *)

LEMMA TableKnown ==
  ASSUME NEW phase \in Phases
  PROVE  allowedGoalRunNextPhases(phase) \subseteq Phases
  BY DEF allowedGoalRunNextPhases, Phases

LEMMA TableTerminal ==
  ASSUME NEW phase \in Phases, isTerminalGoalRunPhase(phase)
  PROVE  allowedGoalRunNextPhases(phase) = {}
  BY DEF allowedGoalRunNextPhases, isTerminalGoalRunPhase

LEMMA TableComplete ==
  ASSUME NEW phase \in Phases, "complete" \in allowedGoalRunNextPhases(phase)
  PROVE  phase = "verification"
  BY DEF allowedGoalRunNextPhases, Phases

(* What a command can be, and what stands for none.                        *)
LEMMA CommandTypes ==
  ASSUME NEW c \in Commands
  PROVE  /\ c.kind \in {"update", "readiness"}
         /\ c.src \in Files /\ c.out \in Files
         /\ c.phase \in Phases \cup {NoPhase}
         /\ c.attach \in SUBSET Evidence
         /\ c.iteration \in BOOLEAN
  BY DEF Commands, Updates, Readinesses

LEMMA NoCommandTypes ==
  ASSUME Files # {}
  PROVE  NoCommand \in Commands
<1>1. PICK f \in Files : TRUE
  OBVIOUS
<1>2. [kind |-> "readiness", src |-> f, out |-> f, phase |-> NoPhase, attach |-> {},
       iteration |-> FALSE] \in Readinesses
  BY <1>1 DEF Readinesses
<1> QED
  BY <1>2 DEF NoCommand, Commands

LEMMA UnreadableTypes ==
  ASSUME NEW why \in {"absent", "emptied", "torn"}
  PROVE  /\ Unreadable(why) \in Docs
         /\ ~Readable(Unreadable(why))
         /\ Listed(Unreadable(why)) = {}
<1>1. 0 \in Contents
  BY GoalAssumption DEF Contents
<1>2. NoEvidence \in [Evidence -> Contents]
  BY <1>1 DEF NoEvidence
<1>3. Unreadable(why) \in Docs
  BY <1>2 DEF Unreadable, Docs
<1>4. ~Readable(Unreadable(why))
  BY DEF Unreadable, Readable, Phases
<1>5. Listed(Unreadable(why)) = {}
  BY DEF Unreadable, Listed, NoEvidence
<1> QED
  BY <1>3, <1>4, <1>5

LEMMA DocTypes ==
  ASSUME NEW doc \in Docs
  PROVE  /\ doc.phase \in Phases \cup {"absent", "emptied", "torn"}
         /\ doc.iterated \in BOOLEAN
         /\ doc.evidence \in [Evidence -> Contents]
         /\ doc.came \in SUBSET Phases
         /\ Listed(doc) \subseteq Evidence
  BY DEF Docs, Listed

LEMMA IndInit == Init => IndInv
<1> SUFFICES ASSUME Init PROVE IndInv
  OBVIOUS
<1>1. /\ NoGoal \in Docs
      /\ ~Readable(NoGoal)
  BY UnreadableTypes DEF NoGoal
<1>2. PICK f \in Files, phase \in {"implementation", "verification"},
           iterated \in BOOLEAN, listed \in SUBSET Evidence :
        /\ listed # {} => iterated
        /\ file = [g \in Files |->
                     IF g = f
                     THEN [phase |-> phase, iterated |-> iterated,
                           evidence |-> [e \in Evidence |-> IF e \in listed THEN 1 ELSE 0],
                           came |-> {phase}]
                     ELSE Unreadable("absent")]
  BY DEF Init
<1> DEFINE Evidenced == [e \in Evidence |-> IF e \in listed THEN 1 ELSE 0]
           First == [phase |-> phase, iterated |-> iterated, evidence |-> Evidenced,
                     came |-> {phase}]
<1>3. {0, 1} \subseteq Contents
  BY GoalAssumption DEF Contents
<1>4. First \in Docs
  <2>1. Evidenced \in [Evidence -> Contents]
    BY <1>3
  <2> QED
    BY <2>1 DEF Docs, Phases
<1>5. \A g \in Files : file[g] = IF g = f THEN First ELSE NoGoal
  BY <1>2 DEF NoGoal
<1>6. TypeOK
  <2>1. file \in [Files -> Docs]
    BY <1>1, <1>2, <1>4 DEF NoGoal
  <2>2. NoCommand \in Commands
    BY NoCommandTypes
  <2>3. content \in [Evidence -> Contents]
    BY <1>3 DEF Init
  <2>4. edits \in 0..MaxEdits /\ started \in 0..MaxCommands
    BY GoalAssumption DEF Init
  <2>5. /\ pc \in [Procs -> Places] /\ cmd \in [Procs -> Commands]
        /\ goal \in [Procs -> Docs] /\ hashed \in [Procs -> Docs]
        /\ left \in [Procs -> SUBSET Evidence]
        /\ touched \in [Procs -> SUBSET (Files \cup Evidence)]
        /\ loose \in [Files -> SUBSET Evidence]
    BY <1>1, <2>2 DEF Init, Places
  <2> QED
    BY <2>1, <2>3, <2>4, <2>5 DEF TypeOK
<1>7. LineageInv
  <2>1. Lawful(First)
    BY DEF Lawful, isTerminalGoalRunPhase
  <2>2. Lawful(NoGoal)
    BY <1>1 DEF Lawful
  <2> QED
    BY <1>5, <2>1, <2>2 DEF LineageInv, Init
<1>8. FreshFiles
  <2>1. FreshDoc(First, loose[f])
    BY DEF FreshDoc, Listed, Init
  <2> QED
    BY <1>1, <1>5, <2>1 DEF FreshFiles
<1>9. FreshMemory /\ \A p \in Procs : PlaceReached(p) /\ AuditCurrent(p)
  BY DEF Init, FreshMemory, Holding, PlaceReached, AuditCurrent
<1> QED
  BY <1>6, <1>7, <1>8, <1>9 DEF IndInv

-----------------------------------------------------------------------------
(* Types.                                                                  *)

TypesOfProcesses ==
  /\ pc \in [Procs -> Places]
  /\ cmd \in [Procs -> Commands]
  /\ goal \in [Procs -> Docs]
  /\ hashed \in [Procs -> Docs]
  /\ left \in [Procs -> SUBSET Evidence]

LEMMA StopTypes ==
  ASSUME TypeOK, NEW p \in Procs, NEW from, Stop(p, from)
  PROVE  TypesOfProcesses'
<1>1. cmd[p].src \in Files
  BY CommandTypes DEF TypeOK
<1>2. NoCommand \in Commands
  BY <1>1, NoCommandTypes
<1>3. NoGoal \in Docs
  BY UnreadableTypes DEF NoGoal
<1> QED
  BY <1>2, <1>3 DEF TypeOK, TypesOfProcesses, Stop, Goes, Forget, Places

LEMMA TouchTypes ==
  ASSUME TypeOK, NEW p \in Procs, NEW path \in Files, Touch(p, path)
  PROVE  touched' \in [Procs -> SUBSET (Files \cup Evidence)]
  BY DEF TypeOK, Touch

LEMMA UpdatedTypes ==
  ASSUME TypeOK, NEW p \in Procs
  PROVE  Updated(p) \in Docs
<1>1. goal[p] \in Docs /\ cmd[p] \in Commands
  BY DEF TypeOK
<1>2. cmd[p].phase \in Phases \cup {NoPhase} /\ cmd[p].iteration \in BOOLEAN
  BY <1>1, CommandTypes
<1> QED
  BY <1>1, <1>2 DEF Updated, Moves, Docs

LEMMA TypeProcess ==
  ASSUME TypeOK, NEW p \in Procs,
         Start(p) \/ runGoalUpdate(p) \/ runGoalReadiness(p) \/ Kill(p)
  PROVE  TypeOK'
<1> USE DEF TypeOK
<1>1. cmd[p] \in Commands /\ goal[p] \in Docs
  OBVIOUS
<1>2. cmd[p].src \in Files /\ cmd[p].out \in Files /\ cmd[p].attach \in SUBSET Evidence
  BY <1>1, CommandTypes
<1>3. file[cmd[p].src] \in Docs
  BY <1>2
<1>4. NoGoal \in Docs /\ Unreadable("emptied") \in Docs /\ Unreadable("torn") \in Docs
  BY UnreadableTypes DEF NoGoal
<1>5. CASE Start(p)
  <2>1. started' \in 0..MaxCommands
    BY <1>5, GoalAssumption DEF Start
  <2>2. cmd' \in [Procs -> Commands]
    BY <1>5, CommandAssumption DEF Start
  <2>3. pc' \in [Procs -> Places]
    BY <1>5 DEF Start, Goes, Places
  <2> QED
    BY <1>4, <1>5, <2>1, <2>2, <2>3 DEF Start, Forget, artifacts
<1>6. CASE HashGoal(p)
  BY <1>3, <1>6 DEF HashGoal, Goes, Places, artifacts
<1>7. CASE ValidateGoal(p)
  BY <1>7, StopTypes
  DEF ValidateGoal, TypesOfProcesses, Goes, Places, artifacts, memory
<1>8. CASE ReadGoal(p)
  <2>1. Listed(file[cmd[p].src]) \in SUBSET Evidence
    BY <1>3, DocTypes
  <2> QED
    BY <1>3, <1>8, <2>1, StopTypes
    DEF ReadGoal, TypesOfProcesses, Goes, Places, artifacts
<1>9. CASE VerifyEvidence(p)
  BY <1>9, StopTypes
  DEF VerifyEvidence, TypesOfProcesses, Goes, Places, artifacts, memory
<1>10. CASE Audit(p)
  BY <1>10, StopTypes DEF Audit, TypesOfProcesses, Goes, Places, artifacts, memory
<1>11. CASE ApplyUpdate(p)
  BY <1>2, <1>11, StopTypes, UpdatedTypes
  DEF ApplyUpdate, TypesOfProcesses, Goes, Places, artifacts
<1>12. CASE AttachEvidence(p)
  <2>1. PICK e \in left[p] :
          \/ goal' = [goal EXCEPT ![p].evidence[e] = content[e]]
          \/ Stop(p, "attach")
    BY <1>12 DEF AttachEvidence
  <2>2. e \in Evidence /\ content[e] \in Contents
    OBVIOUS
  <2>3. [goal[p] EXCEPT !.evidence[e] = content[e]] \in Docs
    BY <1>1, <2>2 DEF Docs
  <2>4. TypesOfProcesses'
    BY <1>12, <2>1, <2>3, StopTypes
    DEF AttachEvidence, TypesOfProcesses, Goes, Places
  <2> QED
    BY <1>12, <2>4 DEF AttachEvidence, TypesOfProcesses, artifacts
<1>13. CASE OpenOut(p)
  BY <1>2, <1>4, <1>13, TouchTypes DEF OpenOut, Goes, Places, artifacts, memory
<1>14. CASE WriteOut(p)
  <2>1. file' \in [Files -> Docs]
    BY <1>1, <1>2, <1>4, <1>14 DEF WriteOut
  <2>2. loose' \in [Files -> SUBSET Evidence]
    BY <1>2, <1>14 DEF WriteOut
  <2> QED
    BY <1>2, <1>14, <2>1, <2>2, StopTypes, TouchTypes
    DEF WriteOut, TypesOfProcesses, artifacts
<1>15. CASE Kill(p)
  BY <1>2, <1>4, <1>15, StopTypes, TouchTypes DEF Kill, TypesOfProcesses, artifacts
<1> QED
  BY <1>5, <1>6, <1>7, <1>8, <1>9, <1>10, <1>11, <1>12, <1>13, <1>14, <1>15
  DEF runGoalUpdate, runGoalReadiness

LEMMA TypeStep == TypeOK /\ [Next]_vars => TypeOK'
<1> SUFFICES ASSUME TypeOK, [Next]_vars PROVE TypeOK'
  OBVIOUS
<1>1. ASSUME NEW e \in Evidence, Edit(e) PROVE TypeOK'
  BY <1>1, GoalAssumption DEF Edit, TypeOK, memory
<1>2. CASE UNCHANGED vars
  BY <1>2 DEF vars, TypeOK, artifacts, memory
<1> QED
  BY <1>1, <1>2, TypeProcess DEF Next

-----------------------------------------------------------------------------
(* What a step of one process leaves as it is, and what it can do.         *)

ProcessStep(p) == Start(p) \/ runGoalUpdate(p) \/ runGoalReadiness(p) \/ Kill(p)

(* The memory of the others stays, and they are told of what was written.  *)
LEMMA OthersKept ==
  ASSUME TypeOK, NEW p \in Procs, ProcessStep(p), NEW q \in Procs, q # p
  PROVE  /\ pc'[q] = pc[q] /\ cmd'[q] = cmd[q] /\ goal'[q] = goal[q]
         /\ left'[q] = left[q]
         /\ touched[q] \subseteq touched'[q]
         /\ \A f \in Files : f \notin touched'[q] => file'[f] = file[f]
<1> USE DEF TypeOK
<1>1. CASE OpenOut(p) \/ WriteOut(p) \/ Kill(p)
  BY <1>1 DEF OpenOut, WriteOut, Kill, Touch, Stop, Forget, Goes, memory
<1>2. CASE Start(p)
  BY <1>2 DEF Start, Forget, Goes
<1>3. CASE HashGoal(p) \/ ValidateGoal(p) \/ ReadGoal(p) \/ VerifyEvidence(p)
  BY <1>3 DEF HashGoal, ValidateGoal, ReadGoal, VerifyEvidence, Stop, Forget, Goes, memory
<1>4. CASE Audit(p) \/ ApplyUpdate(p) \/ AttachEvidence(p)
  BY <1>4 DEF Audit, ApplyUpdate, AttachEvidence, Stop, Forget, Goes, memory
<1> QED
  BY <1>1, <1>2, <1>3, <1>4 DEF ProcessStep, runGoalUpdate, runGoalReadiness

LEMMA ContentKept ==
  ASSUME NEW p \in Procs, ProcessStep(p)
  PROVE  content' = content
  BY DEF ProcessStep, runGoalUpdate, runGoalReadiness, Start, HashGoal, ValidateGoal,
         ReadGoal, VerifyEvidence, Audit, ApplyUpdate, AttachEvidence, OpenOut, WriteOut,
         Kill, artifacts

(* A document stays, becomes unreadable, or is the one p was writing.      *)
LEMMA FilesChange ==
  ASSUME TypeOK, NEW p \in Procs, ProcessStep(p), NEW f \in Files
  PROVE  \/ file'[f] = file[f] /\ loose'[f] = loose[f]
         \/ ~Readable(file'[f])
         \/ /\ pc[p] = "writing"
            /\ file'[f] = goal[p]
            /\ loose'[f] = touched[p] \cap Evidence
<1> USE DEF TypeOK
<1>1. ~Readable(Unreadable("emptied")) /\ ~Readable(Unreadable("torn"))
  BY UnreadableTypes
<1>2. CASE OpenOut(p) \/ WriteOut(p) \/ Kill(p)
  BY <1>1, <1>2 DEF OpenOut, WriteOut, Kill, Stop, Goes
<1>3. CASE ~(OpenOut(p) \/ WriteOut(p) \/ Kill(p))
  BY <1>3 DEF ProcessStep, runGoalUpdate, runGoalReadiness, Start, HashGoal, ValidateGoal,
              ReadGoal, VerifyEvidence, Audit, ApplyUpdate, AttachEvidence
<1> QED
  BY <1>2, <1>3

-----------------------------------------------------------------------------
(* Phases.                                                                 *)

LEMMA UpdatedLawful ==
  ASSUME TypeOK, NEW p \in Procs, Readable(goal[p]), Lawful(goal[p]), UpdateAllowed(p)
  PROVE  Lawful(Updated(p))
<1>1. /\ goal[p].phase \in Phases
      /\ goal[p].phase \in goal[p].came
      /\ \A phase \in goal[p].came :
           isTerminalGoalRunPhase(phase) => goal[p].phase = phase
      /\ "complete" \in goal[p].came => "verification" \in goal[p].came
  BY DEF Readable, Lawful
<1>2. goal[p] \in Docs
  BY DEF TypeOK
<1>3. CASE ~Moves(p)
  <2>1. Updated(p).phase = goal[p].phase /\ Updated(p).came = goal[p].came
    BY <1>2, <1>3 DEF Updated, Docs
  <2> QED
    BY <1>1, <2>1 DEF Lawful
<1>4. CASE Moves(p)
  <2>1. cmd[p].phase \in allowedGoalRunNextPhases(goal[p].phase)
    BY <1>4 DEF UpdateAllowed, TransitionAllowed
  <2>2. /\ Updated(p).phase = cmd[p].phase
        /\ Updated(p).came = goal[p].came \cup {cmd[p].phase}
    BY <1>2, <1>4 DEF Updated, Docs
  <2>3. ~isTerminalGoalRunPhase(goal[p].phase)
    BY <1>1, <2>1, TableTerminal
  <2>4. \A phase \in goal[p].came : ~isTerminalGoalRunPhase(phase)
    BY <1>1, <2>3
  <2>5. cmd[p].phase = "complete" => goal[p].phase = "verification"
    BY <1>1, <2>1, TableComplete
  <2> QED
    BY <1>1, <2>2, <2>4, <2>5 DEF Lawful
<1> QED
  BY <1>3, <1>4

LEMMA LineageProcess ==
  ASSUME IndInv, NEW p \in Procs, ProcessStep(p)
  PROVE  LineageInv'
<1> USE DEF IndInv
<1>1. ASSUME NEW f \in Files PROVE Lawful(file[f])'
  BY FilesChange DEF LineageInv, Lawful
<1>2. Lawful(goal[p])'
  <2> USE DEF TypeOK
  <2>1. Lawful(NoGoal)
    BY UnreadableTypes DEF NoGoal, Lawful
  <2>2. CASE goal'[p] = NoGoal
    BY <2>1, <2>2 DEF Lawful
  <2>3. CASE goal'[p] = goal[p]
    BY <2>3 DEF LineageInv, Lawful
  <2>4. CASE ReadGoal(p) /\ goal'[p] # NoGoal
    <3>1. cmd[p].src \in Files
      BY CommandTypes
    <3>2. goal'[p] = file[cmd[p].src]
      BY <2>4 DEF ReadGoal, Stop, Forget
    <3> QED
      BY <3>1, <3>2 DEF LineageInv, Lawful
  <2>5. CASE ApplyUpdate(p) /\ goal'[p] # NoGoal
    <3>1. UpdateAllowed(p) /\ goal'[p] = Updated(p) /\ pc[p] = "verify"
      BY <2>5 DEF ApplyUpdate, Stop, Forget, Goes
    <3>2. Readable(goal[p])
      BY <3>1 DEF PlaceReached, Acceptable
    <3>3. Lawful(Updated(p))
      BY <3>1, <3>2, UpdatedLawful DEF LineageInv
    <3> QED
      BY <3>1, <3>3 DEF Lawful
  <2>6. CASE AttachEvidence(p) /\ goal'[p] # NoGoal
    <3>1. PICK e \in left[p] : goal' = [goal EXCEPT ![p].evidence[e] = content[e]]
      BY <2>6 DEF AttachEvidence, Stop, Forget
    <3>2. goal'[p].phase = goal[p].phase /\ goal'[p].came = goal[p].came
      BY <3>1 DEF Docs
    <3> QED
      BY <3>2 DEF LineageInv, Lawful, Readable
  <2>7. goal'[p] \in {NoGoal, goal[p]} \/ ReadGoal(p) \/ ApplyUpdate(p) \/ AttachEvidence(p)
    BY DEF ProcessStep, runGoalUpdate, runGoalReadiness, Start, HashGoal, ValidateGoal,
           VerifyEvidence, Audit, OpenOut, WriteOut, Kill, Stop, Forget, memory
  <2> QED
    BY <2>2, <2>3, <2>4, <2>5, <2>6, <2>7
<1>3. ASSUME NEW q \in Procs, q # p PROVE Lawful(goal[q])'
  BY <1>3, OthersKept DEF LineageInv, Lawful
<1> QED
  BY <1>1, <1>2, <1>3 DEF LineageInv

-----------------------------------------------------------------------------
(* Places and evidence.                                                    *)

LEMMA PlaceProcess ==
  ASSUME IndInv, NEW p \in Procs, ProcessStep(p), NEW q \in Procs
  PROVE  PlaceReached(q)'
<1> USE DEF IndInv, TypeOK
<1>1. CASE q # p
  BY <1>1, OthersKept DEF PlaceReached, Acceptable
<1>2. CASE q = p
  <2>1. CASE Start(p) \/ HashGoal(p) \/ ValidateGoal(p) \/ WriteOut(p) \/ Kill(p)
    BY <1>2, <2>1 DEF Start, HashGoal, ValidateGoal, WriteOut, Kill, Stop, Goes, PlaceReached
  <2>2. CASE ReadGoal(p)
    BY <1>2, <2>2 DEF ReadGoal, Stop, Goes, PlaceReached, Acceptable
  <2>3. CASE VerifyEvidence(p)
    BY <1>2, <2>3 DEF VerifyEvidence, Stop, Goes, memory, PlaceReached, Acceptable
  <2>4. CASE Audit(p)
    BY <1>2, <2>4 DEF Audit, Stop, Goes, memory, PlaceReached, Acceptable
  <2>5. CASE ApplyUpdate(p) \/ AttachEvidence(p)
    BY <1>2, <2>5 DEF ApplyUpdate, AttachEvidence, Stop, Goes, PlaceReached
  <2>6. CASE OpenOut(p)
    BY <1>2, <2>6 DEF OpenOut, Goes, PlaceReached
  <2> QED
    BY <2>1, <2>2, <2>3, <2>4, <2>5, <2>6 DEF ProcessStep, runGoalUpdate, runGoalReadiness
<1> QED
  BY <1>1, <1>2

LEMMA AuditProcess ==
  ASSUME IndInv, NEW p \in Procs, ProcessStep(p), NEW q \in Procs
  PROVE  AuditCurrent(q)'
<1> USE DEF IndInv, TypeOK
<1>1. CASE q # p
  <2>1. cmd[q].src \in Files
    BY CommandTypes
  <2> QED
    BY <1>1, <2>1, OthersKept DEF AuditCurrent
<1>2. CASE q = p
  <2>1. CASE Start(p) \/ HashGoal(p) \/ ValidateGoal(p) \/ WriteOut(p) \/ Kill(p)
    BY <1>2, <2>1 DEF Start, HashGoal, ValidateGoal, WriteOut, Kill, Stop, Goes, AuditCurrent
  <2>2. CASE ReadGoal(p)
    BY <1>2, <2>2 DEF ReadGoal, Stop, Goes, AuditCurrent
  <2>3. CASE VerifyEvidence(p) \/ Audit(p)
    BY <1>2, <2>3 DEF VerifyEvidence, Audit, Stop, Goes, memory, AuditCurrent
  <2>4. CASE ApplyUpdate(p) \/ AttachEvidence(p) \/ OpenOut(p)
    BY <1>2, <2>4 DEF ApplyUpdate, AttachEvidence, OpenOut, Stop, Goes, AuditCurrent
  <2> QED
    BY <2>1, <2>2, <2>3, <2>4 DEF ProcessStep, runGoalUpdate, runGoalReadiness
<1> QED
  BY <1>1, <1>2

LEMMA FreshProcess ==
  ASSUME IndInv, NEW p \in Procs, ProcessStep(p)
  PROVE  FreshFiles' /\ FreshMemory'
<1> USE DEF IndInv, TypeOK
<1>1. content' = content
  BY ContentKept
<1>2. ASSUME NEW f \in Files, Readable(file'[f]), NEW e \in Listed(file'[f]),
             e \notin loose'[f]
      PROVE  file'[f].evidence[e] = content'[e]
  <2>1. CASE file'[f] = file[f] /\ loose'[f] = loose[f]
    BY <1>1, <1>2, <2>1 DEF FreshFiles, FreshDoc
  <2>2. CASE /\ pc[p] = "writing"
             /\ file'[f] = goal[p]
             /\ loose'[f] = touched[p] \cap Evidence
    <3>1. e \in Evidence /\ e \notin left[p] \cup touched[p]
      BY <1>2, <2>2 DEF Listed, PlaceReached
    <3> QED
      BY <1>1, <1>2, <2>2, <3>1 DEF FreshMemory, FreshDoc, Holding
  <2> QED
    BY <1>2, <2>1, <2>2, FilesChange
<1>3. FreshFiles'
  BY <1>2 DEF FreshFiles, FreshDoc, Readable, Listed
<1>4. ASSUME NEW q \in Procs, q # p, pc'[q] \in Holding
      PROVE  FreshDoc(goal[q], left[q] \cup touched[q])'
  BY <1>1, <1>4, OthersKept DEF FreshMemory, FreshDoc, Listed
<1>5. ASSUME pc'[p] \in Holding
      PROVE  FreshDoc(goal[p], left[p] \cup touched[p])'
  <2>1. CASE ReadGoal(p)
    BY <1>5, <2>1 DEF ReadGoal, Stop, Goes, Holding, FreshDoc, Listed
  <2>2. CASE VerifyEvidence(p)
    BY <1>1, <1>5, <2>2
    DEF VerifyEvidence, Matches, Stop, Goes, memory, Holding, FreshMemory, FreshDoc, Listed
  <2>3. CASE Audit(p)
    BY <1>1, <1>5, <2>3
    DEF Audit, Stop, Goes, memory, Holding, FreshMemory, FreshDoc, Listed
  <2>4. CASE ApplyUpdate(p)
    <3>1. goal'[p] = Updated(p) /\ left[p] = {} /\ pc[p] = "verify" /\ touched' = touched
      BY <1>5, <2>4 DEF ApplyUpdate, Stop, Goes, Holding
    <3>2. goal'[p].evidence = goal[p].evidence
      BY <3>1 DEF Updated, Docs
    <3> QED
      BY <1>1, <3>1, <3>2 DEF Holding, FreshMemory, FreshDoc, Listed
  <2>5. CASE AttachEvidence(p)
    <3>1. PICK e \in left[p] :
            /\ goal' = [goal EXCEPT ![p].evidence[e] = content[e]]
            /\ left' = [left EXCEPT ![p] = @ \ {e}]
      BY <1>5, <2>5 DEF AttachEvidence, Stop, Goes, Holding
    <3>2. pc[p] = "attach" /\ touched' = touched
      BY <2>5 DEF AttachEvidence, Stop, Goes
    <3>3. goal'[p].evidence = [goal[p].evidence EXCEPT ![e] = content[e]]
      BY <3>1 DEF Docs
    <3>4. goal[p].evidence \in [Evidence -> Contents]
      BY DocTypes
    <3> QED
      BY <1>1, <3>1, <3>2, <3>3, <3>4 DEF Holding, FreshMemory, FreshDoc, Listed
  <2>6. CASE OpenOut(p)
    BY <1>1, <1>5, <2>6
    DEF OpenOut, Touch, Goes, memory, Holding, FreshMemory, FreshDoc, Listed
  <2>7. CASE Start(p) \/ HashGoal(p) \/ ValidateGoal(p) \/ WriteOut(p) \/ Kill(p)
    BY <1>5, <2>7 DEF Start, HashGoal, ValidateGoal, WriteOut, Kill, Stop, Goes, Holding
  <2> QED
    BY <2>1, <2>2, <2>3, <2>4, <2>5, <2>6, <2>7
    DEF ProcessStep, runGoalUpdate, runGoalReadiness
<1> QED
  BY <1>3, <1>4, <1>5 DEF FreshMemory

LEMMA IndEdit ==
  ASSUME IndInv, NEW e \in Evidence, Edit(e)
  PROVE  IndInv'
<1> USE DEF IndInv
<1>1. TypeOK'
  BY TypeStep DEF Next
<1>2. UNCHANGED <<file, pc, cmd, goal, left>>
  BY DEF Edit, memory
<1>3. \A a \in Evidence \ {e} : content'[a] = content[a]
  BY DEF Edit, TypeOK
<1>4. /\ \A p \in Procs : touched'[p] = touched[p] \cup {e}
      /\ \A f \in Files : loose'[f] = loose[f] \cup {e}
  BY DEF Edit
<1>5. LineageInv'
  BY <1>2 DEF LineageInv, Lawful
<1>6. FreshFiles'
  BY <1>2, <1>3, <1>4 DEF FreshFiles, FreshDoc, Listed
<1>7. FreshMemory'
  BY <1>2, <1>3, <1>4 DEF FreshMemory, FreshDoc, Listed
<1>8. \A p \in Procs : PlaceReached(p)' /\ AuditCurrent(p)'
  BY <1>2, <1>4 DEF PlaceReached, Acceptable, AuditCurrent
<1> QED
  BY <1>1, <1>5, <1>6, <1>7, <1>8

LEMMA IndStep == IndInv /\ [Next]_vars => IndInv'
<1> SUFFICES ASSUME IndInv, [Next]_vars PROVE IndInv'
  OBVIOUS
<1>1. ASSUME NEW p \in Procs, ProcessStep(p) PROVE IndInv'
  <2>1. TypeOK'
    BY <1>1, TypeProcess DEF IndInv, ProcessStep
  <2> QED
    BY <1>1, <2>1, LineageProcess, FreshProcess, PlaceProcess, AuditProcess DEF IndInv
<1>2. CASE UNCHANGED vars
  BY <1>2, TypeStep
  DEF vars, artifacts, memory, IndInv, LineageInv, Lawful, FreshFiles, FreshMemory,
      FreshDoc, PlaceReached, Acceptable, AuditCurrent
<1> QED
  BY <1>1, <1>2, IndEdit DEF Next, ProcessStep

-----------------------------------------------------------------------------
(* What is proved of the specification.                                    *)

(* The inductive invariant.                                                *)
THEOREM Inductive == Spec => []IndInv
  BY IndInit, IndStep, PTL DEF Spec

(* The variables keep their types: every document is one the program can   *)
(* have made or found, or is torn.                                         *)
THEOREM Typed == Spec => []TypeOK
<1>1. IndInv => TypeOK
  BY DEF IndInv
<1> QED
  BY <1>1, Inductive, PTL

(* However many updates race (runGoalUpdate), no document leaves a         *)
(* terminal phase and none is complete without verification.               *)
THEOREM LineageStays == Spec => []LineageLawful
<1>1. IndInv => LineageLawful
  BY DEF IndInv, LineageInv, Lawful, LineageLawful
<1> QED
  BY <1>1, Inductive, PTL

(* What a document lists is what the artifacts contained while the         *)
(* command that wrote it ran.                                              *)
THEOREM EvidenceFresh == Spec => []FreshEvidence
<1>1. IndInv => FreshEvidence
  BY DEF IndInv, FreshFiles, FreshDoc, FreshEvidence
<1> QED
  BY <1>1, Inductive, PTL

(* A passed audit (runGoalReadiness) holds of the GoalRun for as long as   *)
(* nobody writes to what it read.                                          *)
THEOREM AuditsHold == Spec => []ReadinessHolds
<1>1. ASSUME IndInv PROVE ReadinessHolds
  <2>1. SUFFICES ASSUME NEW p \in Procs, pc[p] = "ready", cmd[p].src \notin touched[p]
                 PROVE  LET doc == file[cmd[p].src] IN
                        /\ Readable(doc)
                        /\ cmd[p].phase # NoPhase =>
                             cmd[p].phase \in allowedGoalRunNextPhases(doc.phase)
                        /\ \A e \in Listed(doc) :
                             /\ e \notin Scratch
                             /\ e \notin touched[p] => doc.evidence[e] = content[e]
    BY DEF ReadinessHolds
  <2>2. file[cmd[p].src] = goal[p]
    BY <1>1, <2>1 DEF IndInv, AuditCurrent
  <2>3. /\ Readable(goal[p]) /\ LintPasses(goal[p])
        /\ cmd[p].phase # NoPhase => TransitionAllowed(goal[p], cmd[p].phase)
    BY <1>1, <2>1 DEF IndInv, PlaceReached, Acceptable
  <2>4. \A e \in Listed(goal[p]) :
          e \notin touched[p] => goal[p].evidence[e] = content[e]
    BY <1>1, <2>1 DEF IndInv, PlaceReached, FreshMemory, FreshDoc, Holding
  <2> QED
    BY <2>2, <2>3, <2>4 DEF LintPasses, TransitionAllowed
<1> QED
  BY <1>1, Inductive, PTL

=============================================================================
