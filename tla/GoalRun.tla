------------------------------ MODULE GoalRun -------------------------------
(***************************************************************************)
(* forge goal update and forge goal readiness (internal/cli/goal_*.go).    *)
(* GoalRun documents are plain files: an update reads one, checks the      *)
(* evidence it lists, changes phase and evidence in memory and writes a    *)
(* candidate to another path, without a lock and without a rename.  Other  *)
(* commands, and whoever edits the artifacts, come between any two of its  *)
(* file accesses.  An artifact and a document stand for their SHA-256.     *)
(***************************************************************************)
EXTENDS Integers, FiniteSets

CONSTANTS
  Procs,       \* the forge processes
  Files,       \* the paths of GoalRun documents
  Evidence,    \* the paths of evidence artifacts
  Scratch,     \* those that lint rejects: temporary, absolute, home, parent
  Given,       \* bound: the commands that are given
  MaxContent,  \* bound on the contents an artifact can have
  MaxCommands, \* bound on the commands given
  MaxEdits     \* bound on the edits of artifacts

Phases ==
  {"planning", "implementation", "verification", "blocked", "backoff",
   "stopped", "complete"}
NoPhase == "none"

ASSUME GoalAssumption ==
  /\ Scratch \subseteq Evidence
  /\ {MaxContent, MaxCommands, MaxEdits} \subseteq Nat \ {0}

(* goalRunPhaseTransitions.                                                *)
allowedGoalRunNextPhases(phase) ==
  CASE phase = "planning" -> {"implementation", "blocked", "backoff", "stopped"}
    [] phase = "implementation" -> {"verification", "blocked", "backoff", "stopped"}
    [] phase = "verification" ->
         {"implementation", "complete", "blocked", "backoff", "stopped"}
    [] phase \in {"blocked", "backoff"} -> {"planning", "stopped"}
    [] OTHER -> {}
isTerminalGoalRunPhase(phase) == phase \in {"complete", "stopped"}

(* A document, or what is in its place; evidence maps each path it lists   *)
(* to the content it had, and every other to 0, which is no content.       *)
(* iterated: it has a last_iteration.  came: history, the phases it and    *)
(* the documents it was made from have had.                                *)
Contents == 0..MaxContent
NoEvidence == [e \in Evidence |-> 0]
Docs ==
  [phase : Phases \cup {"absent", "emptied", "torn"}, iterated : BOOLEAN,
   evidence : [Evidence -> Contents], came : SUBSET Phases]
Unreadable(why) ==
  [phase |-> why, iterated |-> FALSE, evidence |-> NoEvidence, came |-> {}]
Readable(doc) == doc.phase \in Phases
Listed(doc) == {e \in Evidence : doc.evidence[e] # 0}

(* The arguments that parseGoalUpdateFlags and parseGoalReadinessFlags     *)
(* accept; iteration: a status and a summary of the last iteration are     *)
(* given.  Other texts, the next task for one, may be given or not.        *)
Updates ==
  {c \in [kind : {"update"}, src : Files, out : Files, phase : Phases \cup {NoPhase},
          attach : SUBSET Evidence, iteration : BOOLEAN] :
     c.src # c.out}
Readinesses ==
  {c \in [kind : {"readiness"}, src : Files, out : Files, phase : Phases \cup {NoPhase},
          attach : {{}}, iteration : {FALSE}] : c.src = c.out}
Commands == Updates \cup Readinesses

ASSUME CommandAssumption == Given \subseteq Commands

VARIABLES
  file,     \* the document at each path
  content,  \* the content of each artifact, 0 when there is none
  edits,    \* how often artifacts were edited
  started,  \* how many commands were given
  pc,       \* where each process stands
  cmd,      \* its command
  goal,     \* the document it works on
  hashed,   \* the document whose hash its readiness audit records
  left,     \* the evidence it has still to verify, or to attach
  touched,  \* history: paths that others wrote since its command started
  loose     \* history: artifacts edited since the command that wrote a file started

artifacts == <<content, edits>>
memory == <<cmd, goal, hashed>>
vars == <<file, artifacts, started, pc, memory, left, touched, loose>>

Places ==
  {"idle", "hash", "validate", "read", "verify", "attach", "writing", "ready"}

TypeOK ==
  /\ file \in [Files -> Docs]
  /\ content \in [Evidence -> Contents]
  /\ edits \in 0..MaxEdits
  /\ started \in 0..MaxCommands
  /\ pc \in [Procs -> Places]
  /\ cmd \in [Procs -> Commands]
  /\ goal \in [Procs -> Docs]
  /\ hashed \in [Procs -> Docs]
  /\ left \in [Procs -> SUBSET Evidence]
  /\ touched \in [Procs -> SUBSET (Files \cup Evidence)]
  /\ loose \in [Files -> SUBSET Evidence]

NoGoal == Unreadable("absent")
NoCommand == CHOOSE c \in Readinesses : TRUE

(* One document that an operator has approved, with its evidence.          *)
Init ==
  /\ \E f \in Files, phase \in {"implementation", "verification"},
        iterated \in BOOLEAN, listed \in SUBSET Evidence :
       /\ listed # {} => iterated
       /\ file = [g \in Files |->
                    IF g = f
                    THEN [phase |-> phase, iterated |-> iterated,
                          evidence |-> [e \in Evidence |-> IF e \in listed THEN 1 ELSE 0],
                          came |-> {phase}]
                    ELSE Unreadable("absent")]
  /\ content = [e \in Evidence |-> 1]
  /\ edits = 0
  /\ started = 0
  /\ pc = [p \in Procs |-> "idle"]
  /\ cmd = [p \in Procs |-> NoCommand]
  /\ goal = [p \in Procs |-> NoGoal]
  /\ hashed = [p \in Procs |-> NoGoal]
  /\ left = [p \in Procs |-> {}]
  /\ touched = [p \in Procs |-> {}]
  /\ loose = [f \in Files |-> {}]

-----------------------------------------------------------------------------
Goes(p, from, to) == pc[p] = from /\ pc' = [pc EXCEPT ![p] = to]

(* The command ends, and what it held in memory is gone.                   *)
Forget(p) ==
  /\ goal' = [goal EXCEPT ![p] = NoGoal]
  /\ hashed' = [hashed EXCEPT ![p] = NoGoal]
  /\ left' = [left EXCEPT ![p] = {}]
Stop(p, from) ==
  /\ Goes(p, from, "idle")
  /\ cmd' = [cmd EXCEPT ![p] = NoCommand]
  /\ Forget(p)

(* p writes a path that others may be looking at.                          *)
Touch(p, path) ==
  touched' = [q \in Procs |-> IF q = p THEN touched[q] ELSE touched[q] \cup {path}]

Start(p) ==
  /\ started < MaxCommands
  /\ started' = started + 1
  /\ \E c \in Given :
       /\ \E from \in {"idle", "ready"} :
            Goes(p, from, IF c.kind = "update" THEN "validate" ELSE "hash")
       /\ cmd' = [cmd EXCEPT ![p] = c]
  /\ Forget(p)
  /\ touched' = [touched EXCEPT ![p] = {}]
  /\ UNCHANGED <<file, artifacts, loose>>

(* sha256File, the first of three readings of the file in an audit.        *)
HashGoal(p) ==
  /\ Goes(p, "hash", "validate")
  /\ hashed' = [hashed EXCEPT ![p] = file[cmd[p].src]]
  /\ UNCHANGED <<file, artifacts, started, cmd, goal, left, touched, loose>>

(* validateJSONSchemaDocument reads the file ...                           *)
ValidateGoal(p) ==
  /\ \/ /\ Readable(file[cmd[p].src])
        /\ Goes(p, "validate", "read")
        /\ UNCHANGED <<memory, left>>
     \/ ~Readable(file[cmd[p].src]) /\ Stop(p, "validate")
  /\ UNCHANGED <<file, artifacts, started, touched, loose>>

LintPasses(doc) == Listed(doc) \cap Scratch = {}
TransitionAllowed(doc, phase) == phase \in allowedGoalRunNextPhases(doc.phase)

(* Broken: the phase an audit is asked for need only be known.             *)
AcceptableKnown(c, doc) == Readable(doc) /\ LintPasses(doc)

(* The documents are those the schema accepts: their next_action_guard is  *)
(* enabled, for the schema has only that, so its check refuses none.       *)
Acceptable(c, doc) ==
  /\ Readable(doc)
  /\ LintPasses(doc)
  /\ c.kind = "readiness" /\ c.phase # NoPhase => TransitionAllowed(doc, c.phase)

(* ... and readGoalRun reads it again.                                     *)
ReadGoal(p) ==
  /\ LET doc == file[cmd[p].src] IN
       \/ /\ Acceptable(cmd[p], doc)
          /\ Goes(p, "read", "verify")
          /\ goal' = [goal EXCEPT ![p] = doc]
          /\ left' = [left EXCEPT ![p] = Listed(doc)]
          /\ UNCHANGED <<cmd, hashed>>
       \/ ~Acceptable(cmd[p], doc) /\ Stop(p, "read")
  /\ UNCHANGED <<file, artifacts, started, touched, loose>>

(* Broken: the artifact need only be there.                                *)
MatchesAny(p, e) == content[e] # 0

Matches(p, e) == content[e] = goal[p].evidence[e]

(* verifyGoalRunEvidence, one artifact after another.                      *)
VerifyEvidence(p) ==
  /\ \E e \in left[p] :
       \/ /\ Matches(p, e)
          /\ Goes(p, "verify", "verify")
          /\ left' = [left EXCEPT ![p] = @ \ {e}]
          /\ UNCHANGED memory
       \/ ~Matches(p, e) /\ Stop(p, "verify")
  /\ UNCHANGED <<file, artifacts, started, touched, loose>>

(* Any listed artifact may be a retained one, which the audit finds        *)
(* malformed, or of a later date.                                          *)
RetentionMayFail(doc) == Listed(doc) # {}

Audit(p) ==
  /\ cmd[p].kind = "readiness" /\ left[p] = {}
  /\ \/ Goes(p, "verify", "ready") /\ UNCHANGED <<memory, left>>
     \/ RetentionMayFail(goal[p]) /\ Stop(p, "verify")
  /\ UNCHANGED <<file, artifacts, started, touched, loose>>

Moves(p) == cmd[p].phase \notin {NoPhase, goal[p].phase}

(* Broken: the requested phase need only be known.                         *)
UpdateAllowedKnown(p) == TRUE

(* What applyGoalRunUpdate refuses ...                                     *)
UpdateAllowed(p) ==
  /\ Moves(p) => TransitionAllowed(goal[p], cmd[p].phase)
  /\ cmd[p].attach # {} => goal[p].iterated \/ cmd[p].iteration

(* ... and what may turn out to be no change, and is refused, too: the     *)
(* texts given can be those of the document.                               *)
MayChangeNothing(p) ==
  /\ ~Moves(p)
  /\ cmd[p].attach = {}
  /\ cmd[p].iteration => goal[p].iterated

Updated(p) ==
  [goal[p] EXCEPT
     !.phase = IF Moves(p) THEN cmd[p].phase ELSE @,
     !.came = IF Moves(p) THEN @ \cup {cmd[p].phase} ELSE @,
     !.iterated = @ \/ cmd[p].iteration]

ApplyUpdate(p) ==
  /\ cmd[p].kind = "update" /\ left[p] = {}
  /\ \/ /\ UpdateAllowed(p)
        /\ Goes(p, "verify", "attach")
        /\ goal' = [goal EXCEPT ![p] = Updated(p)]
        /\ left' = [left EXCEPT ![p] = cmd[p].attach]
        /\ UNCHANGED <<cmd, hashed>>
     \/ (~UpdateAllowed(p) \/ MayChangeNothing(p)) /\ Stop(p, "verify")
  /\ UNCHANGED <<file, artifacts, started, touched, loose>>

(* buildGoalRunEvidence, one artifact after another.                       *)
AttachEvidence(p) ==
  /\ \E e \in left[p] :
       LET attachable == content[e] # 0 /\ goal[p].evidence[e] = 0 IN
       \/ /\ attachable
          /\ Goes(p, "attach", "attach")
          /\ goal' = [goal EXCEPT ![p].evidence[e] = content[e]]
          /\ left' = [left EXCEPT ![p] = @ \ {e}]
          /\ UNCHANGED <<cmd, hashed>>
       \/ ~attachable /\ Stop(p, "attach")
  /\ UNCHANGED <<file, artifacts, started, touched, loose>>

(* writeFile: os.WriteFile empties the file ...                            *)
OpenOut(p) ==
  /\ left[p] = {}
  /\ Goes(p, "attach", "writing")
  /\ file' = [file EXCEPT ![cmd[p].out] = Unreadable("emptied")]
  /\ Touch(p, cmd[p].out)
  /\ UNCHANGED <<artifacts, started, memory, left, loose>>

(* ... and fills it, over what another writer that had opened it, too, has *)
(* written since: what is longer than the document stays behind it.        *)
WriteOut(p) ==
  /\ LET out == cmd[p].out IN
       /\ \/ file' = [file EXCEPT ![out] = goal[p]]
          \/ /\ file[out].phase # "emptied"
             /\ file' = [file EXCEPT ![out] = Unreadable("torn")]
       /\ loose' = [loose EXCEPT ![out] = touched[p] \cap Evidence]
       /\ Touch(p, out)
  /\ Stop(p, "writing")
  /\ UNCHANGED <<artifacts, started>>

-----------------------------------------------------------------------------
(* The process is killed, or a file access fails: a document it was        *)
(* writing is empty or torn.                                               *)
Kill(p) ==
  /\ pc[p] \notin {"idle", "ready"}
  /\ Stop(p, pc[p])
  /\ \/ UNCHANGED <<file, touched>>
     \/ /\ pc[p] = "writing"
        /\ file' = [file EXCEPT ![cmd[p].out] = Unreadable("torn")]
        /\ Touch(p, cmd[p].out)
  /\ UNCHANGED <<artifacts, started, loose>>

(* Anybody edits or deletes an artifact.                                   *)
Edit(e) ==
  /\ edits < MaxEdits
  /\ edits' = edits + 1
  /\ \E c \in Contents \ {content[e]} : content' = [content EXCEPT ![e] = c]
  /\ touched' = [p \in Procs |-> touched[p] \cup {e}]
  /\ loose' = [f \in Files |-> loose[f] \cup {e}]
  /\ UNCHANGED <<file, started, pc, memory, left>>

runGoalUpdate(p) ==
  \/ ValidateGoal(p)
  \/ ReadGoal(p)
  \/ VerifyEvidence(p)
  \/ ApplyUpdate(p)
  \/ AttachEvidence(p)
  \/ OpenOut(p)
  \/ WriteOut(p)

(* The readings of runGoalUpdate, with the two ends of its own.            *)
runGoalReadiness(p) == HashGoal(p) \/ Audit(p)

Next ==
  \/ \E p \in Procs : Start(p) \/ runGoalUpdate(p) \/ runGoalReadiness(p) \/ Kill(p)
  \/ \E e \in Evidence : Edit(e)

Spec == Init /\ [][Next]_vars

-----------------------------------------------------------------------------
(* Properties.                                                             *)

(* "stopped and complete are terminal states": whatever candidates race,   *)
(* no document descends from a stopped or complete one in another phase,   *)
(* and none is complete that was not in verification before.               *)
LineageLawful ==
  \A f \in Files : LET doc == file[f] IN
    Readable(doc) =>
      /\ \A phase \in doc.came : isTerminalGoalRunPhase(phase) => doc.phase = phase
      /\ "complete" \in doc.came => "verification" \in doc.came

(* "If existing evidence is stale, missing, or recorded under a denied     *)
(* path, the update fails before any candidate is written": a document     *)
(* lists, of the artifacts nobody has edited since the command that wrote  *)
(* it began, only what they contain.                                       *)
FreshEvidence ==
  \A f \in Files : Readable(file[f]) =>
    \A e \in Listed(file[f]) \ loose[f] : file[f].evidence[e] = content[e]

(* A passed audit holds of the GoalRun as it is, as long as nobody writes  *)
(* to what it looked at: the phase may be entered, the evidence is durable *)
(* and unchanged.                                                          *)
ReadinessHolds ==
  \A p \in Procs : pc[p] = "ready" /\ cmd[p].src \notin touched[p] =>
    LET doc == file[cmd[p].src] IN
    /\ Readable(doc)
    /\ cmd[p].phase # NoPhase => cmd[p].phase \in allowedGoalRunNextPhases(doc.phase)
    /\ \A e \in Listed(doc) :
         e \notin Scratch /\ (e \notin touched[p] => doc.evidence[e] = content[e])

(* "Retained readiness audits must include provenance hashes for the       *)
(* GoalRun and evidence bytes they summarize": the hash a passed audit     *)
(* records is that of the document it summarizes.                          *)
ProvenanceMatches ==
  \A p \in Procs : pc[p] = "ready" =>
    [hashed[p] EXCEPT !.came = {}] = [goal[p] EXCEPT !.came = {}]

=============================================================================
