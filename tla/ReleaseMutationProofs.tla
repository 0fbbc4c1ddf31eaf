------------------------ MODULE ReleaseMutationProofs ------------------------
(***************************************************************************)
(* Theorems about ReleaseMutation, for any number of commands and commits. *)
(***************************************************************************)
EXTENDS ReleaseMutation, TLAPS

Before == {"idle", "working", "head", "check", "tag", "push", "gh"}
Tagged == {"push", "gh", "api", "released"}
Pushed == {"gh", "api", "released"}

(* Origin has no other tag than the workspace.                             *)
OneTag == remoteTag # NoCommit => remoteTag = localTag

(* A command has got as far as its place says.                             *)
PlaceReached(c) ==
  /\ pc[c] \in Tagged => localTag # NoCommit
  /\ pc[c] \in Pushed => remoteTag # NoCommit
  /\ drafts[c] > 0 => remoteTag # NoCommit
  /\ pc[c] \in Before => drafts[c] = 0
  /\ pc[c] = "api" => drafts[c] <= 1
  /\ pc[c] = "released" => drafts[c] > 0

(* The commit a command is about to release, or has released, is no older  *)
(* than the audited one, and is that one while HEAD has not moved.         *)
AuditKept(c) ==
  /\ pc[c] \in {"working", "head"} =>
       audited[c] <= head /\ (~moved[c] => head = audited[c])
  /\ pc[c] \in {"check", "tag"} =>
       /\ audited[c] <= read[c] /\ read[c] <= head
       /\ ~moved[c] => head = audited[c]
  /\ pc[c] \in Tagged =>
       audited[c] <= localTag /\ (~moved[c] => localTag = audited[c])

IndInv ==
  /\ TypeOK
  /\ OneTag
  /\ \A c \in Commands : PlaceReached(c)
  /\ \A c \in Commands : AuditKept(c)

LEMMA IndInit == Init => IndInv
  BY ReleaseAssumption
  DEF Init, IndInv, TypeOK, OneTag, PlaceReached, AuditKept, Commits, Tags, NoCommit,
      Steps, Before, Tagged, Pushed

(* The workspace and the preview change no command's place.                *)
LEMMA IndWorkspace ==
  IndInv /\ (Commit \/ PreviewHead \/ PreviewWrite \/ UNCHANGED vars) => IndInv'
<1> SUFFICES ASSUME IndInv,
                    Commit \/ PreviewHead \/ PreviewWrite \/ UNCHANGED vars
             PROVE  IndInv'
  OBVIOUS
<1> USE ReleaseAssumption DEF IndInv, Commits, Tags, NoCommit
<1>1. CASE Commit
  <2>1. TypeOK'
    BY <1>1 DEF Commit, TypeOK, preview
  <2>2. OneTag' /\ \A c \in Commands : PlaceReached(c)'
    BY <1>1 DEF Commit, TypeOK, preview, OneTag, PlaceReached
  <2>3. ASSUME NEW c \in Commands PROVE AuditKept(c)'
    <3>1. CASE pc[c] \in Ended \ {"released"}
      BY <1>1, <3>1 DEF Commit, TypeOK, AuditKept, Tagged, Ended
    <3>2. CASE pc[c] = "released"
      <4>1. moved'[c] = moved[c]
        BY <1>1, <3>2 DEF Commit, TypeOK, Ended
      <4> QED
        BY <1>1, <3>2, <4>1 DEF Commit, TypeOK, AuditKept, Tagged
    <3>3. CASE pc[c] \notin Ended
      <4>1. moved'[c]
        BY <1>1, <3>3 DEF Commit, TypeOK
      <4>2. audited[c] \in Int /\ read[c] \in Int /\ head \in Int /\ head' = head + 1
        BY <1>1 DEF Commit, TypeOK
      <4>3. pc'[c] = pc[c] /\ audited'[c] = audited[c] /\ read'[c] = read[c]
            /\ localTag' = localTag
        BY <1>1 DEF Commit
      <4> QED
        BY <4>1, <4>2, <4>3 DEF AuditKept
    <3> QED
      BY <3>1, <3>2, <3>3 DEF Ended
  <2> QED
    BY <2>1, <2>2, <2>3
<1>2. CASE PreviewHead \/ PreviewWrite
  BY <1>2 DEF PreviewHead, PreviewWrite, TypeOK, OneTag, PlaceReached, AuditKept,
              repo, command
<1>3. CASE UNCHANGED vars
  BY <1>3 DEF vars, TypeOK, OneTag, PlaceReached, AuditKept, repo, preview, command
<1> QED
  BY <1>1, <1>2, <1>3

CommandStep(c) ==
  Validate(c) \/ RunPlan(c) \/ performReleaseMutation(c) \/ Kill(c)

LEMMA TypeCommand ==
  ASSUME IndInv, NEW c \in Commands, CommandStep(c)
  PROVE  TypeOK'
<1> USE DEF IndInv, TypeOK, Tags, Steps, repo, preview, Goes
<1>1. CASE Validate(c)
  BY <1>1 DEF Validate
<1>2. CASE RunPlan(c)
  BY <1>2 DEF RunPlan
<1>3. CASE ReadHead(c)
  BY <1>3 DEF ReadHead
<1>4. CASE CheckTag(c)
  BY <1>4 DEF CheckTag
<1>5. CASE CreateTag(c)
  BY <1>5 DEF CreateTag
<1>6. CASE Push(c)
  BY <1>6 DEF Push
<1>7. CASE GhCreate(c) \/ ApiCreate(c)
  <2>1. drafts[c] \in {0, 1}
    BY <1>7 DEF PlaceReached, Before, GhCreate, ApiCreate
  <2> QED
    BY <1>7, <2>1 DEF GhCreate, ApiCreate, Draft
<1>8. CASE Kill(c)
  BY <1>8 DEF Kill
<1> QED
  BY <1>1, <1>2, <1>3, <1>4, <1>5, <1>6, <1>7, <1>8
  DEF CommandStep, performReleaseMutation

(* A tag that was made stays; origin gets it and no other.                 *)
LEMMA TagStep ==
  ASSUME IndInv, [Next]_vars
  PROVE  /\ localTag # NoCommit => localTag' = localTag
         /\ remoteTag # NoCommit => remoteTag' = remoteTag
         /\ OneTag'
<1> USE DEF IndInv, OneTag, repo, NoCommit
<1>1. CASE Commit \/ PreviewHead \/ PreviewWrite \/ UNCHANGED vars
  BY <1>1 DEF Commit, PreviewHead, PreviewWrite, vars
<1>2. ASSUME NEW c \in Commands, CommandStep(c)
      PROVE  /\ localTag # NoCommit => localTag' = localTag
             /\ remoteTag # NoCommit => remoteTag' = remoteTag
             /\ OneTag'
  <2>1. CASE CreateTag(c)
    BY <2>1 DEF CreateTag
  <2>2. CASE Push(c)
    BY <2>2 DEF Push
  <2>3. CASE ~CreateTag(c) /\ ~Push(c)
    BY <1>2, <2>3 DEF CommandStep, performReleaseMutation, Validate, RunPlan, ReadHead,
                      CheckTag, GhCreate, ApiCreate, Kill
  <2> QED
    BY <2>1, <2>2, <2>3
<1> QED
  BY <1>1, <1>2 DEF Next, CommandStep

(* What a step of c leaves alone in every other command.                   *)
Apart(c) ==
  /\ head' = head
  /\ \A d \in Commands \ {c} :
       /\ pc'[d] = pc[d]
       /\ audited'[d] = audited[d]
       /\ read'[d] = read[d]
       /\ drafts'[d] = drafts[d]
       /\ moved'[d] = moved[d]

LEMMA StepApart ==
  ASSUME IndInv, NEW c \in Commands, CommandStep(c)
  PROVE  Apart(c)
<1> USE DEF IndInv, TypeOK, Apart, repo, Goes
<1>1. CASE Validate(c) \/ RunPlan(c) \/ Kill(c)
  BY <1>1 DEF Validate, RunPlan, Kill
<1>2. CASE ReadHead(c) \/ CheckTag(c)
  BY <1>2 DEF ReadHead, CheckTag
<1>3. CASE CreateTag(c) \/ Push(c)
  BY <1>3 DEF CreateTag, Push
<1>4. CASE GhCreate(c) \/ ApiCreate(c)
  BY <1>4 DEF GhCreate, ApiCreate, Draft
<1> QED
  BY <1>1, <1>2, <1>3, <1>4 DEF CommandStep, performReleaseMutation

(* The other commands keep their invariants: a tag they rely on stays.     *)
LEMMA OthersKept ==
  ASSUME IndInv, NEW c \in Commands, CommandStep(c), NEW d \in Commands \ {c}
  PROVE  PlaceReached(d)' /\ AuditKept(d)'
<1>1. Apart(c)
  BY StepApart
<1>2. /\ localTag # NoCommit => localTag' = localTag
      /\ remoteTag # NoCommit => remoteTag' = remoteTag
  BY TagStep DEF Next, CommandStep
<1>3. PlaceReached(d) /\ AuditKept(d)
  BY DEF IndInv
<1>4. PlaceReached(d)'
  BY <1>1, <1>2, <1>3 DEF PlaceReached, Apart
<1>5. AuditKept(d)'
  BY <1>1, <1>2, <1>3 DEF PlaceReached, AuditKept, Apart
<1> QED
  BY <1>4, <1>5

(* The command that steps gets one place further, with what that place     *)
(* asks for.                                                               *)
LEMMA OwnPlace ==
  ASSUME IndInv, NEW c \in Commands, CommandStep(c)
  PROVE  PlaceReached(c)'
<1> USE DEF IndInv, TypeOK, PlaceReached, OneTag, Before, Tagged, Pushed, Goes, repo
<1>1. CASE Validate(c)
  BY <1>1 DEF Validate
<1>2. CASE RunPlan(c)
  BY <1>2 DEF RunPlan
<1>3. CASE ReadHead(c)
  BY <1>3 DEF ReadHead
<1>4. CASE CheckTag(c)
  BY <1>4 DEF CheckTag
<1>5. CASE CreateTag(c)
  <2>1. head # NoCommit
    BY ReleaseAssumption DEF Commits, NoCommit
  <2> QED
    BY <1>5, <2>1 DEF CreateTag
<1>6. CASE Push(c)
  BY <1>6 DEF Push
<1>7. CASE GhCreate(c)
  <2>1. drafts[c] = 0
    BY <1>7 DEF GhCreate
  <2> QED
    BY <1>7, <2>1 DEF GhCreate, Draft
<1>8. CASE ApiCreate(c)
  BY <1>8 DEF ApiCreate, Draft
<1>9. CASE Kill(c)
  BY <1>9 DEF Kill
<1> QED
  BY <1>1, <1>2, <1>3, <1>4, <1>5, <1>6, <1>7, <1>8, <1>9
  DEF CommandStep, performReleaseMutation

(* From the audit it accepts to the release, the command's commit is the   *)
(* audited one unless HEAD moves, and then a newer one.                    *)
LEMMA OwnAudit ==
  ASSUME IndInv, NEW c \in Commands, CommandStep(c)
  PROVE  AuditKept(c)'
<1> USE DEF IndInv, TypeOK, AuditKept, Tagged, Goes, repo
<1>a. head \in Int /\ localTag \in Int /\ audited[c] \in Int /\ read[c] \in Int
  BY ReleaseAssumption DEF Commits, Tags, NoCommit
<1>1. CASE Validate(c)
  BY <1>a, <1>1 DEF Validate, AuditHolds
<1>2. CASE RunPlan(c)
  BY <1>2 DEF RunPlan
<1>3. CASE ReadHead(c)
  BY <1>a, <1>3 DEF ReadHead
<1>4. CASE CheckTag(c)
  BY <1>a, <1>4 DEF CheckTag
<1>5. CASE CreateTag(c)
  BY <1>a, <1>5 DEF CreateTag
<1>6. CASE Push(c)
  BY <1>6 DEF Push
<1>7. CASE GhCreate(c) \/ ApiCreate(c)
  BY <1>7 DEF GhCreate, ApiCreate
<1>8. CASE Kill(c)
  BY <1>8 DEF Kill
<1> QED
  BY <1>1, <1>2, <1>3, <1>4, <1>5, <1>6, <1>7, <1>8
  DEF CommandStep, performReleaseMutation

LEMMA IndStep == IndInv /\ [Next]_vars => IndInv'
<1> SUFFICES ASSUME IndInv, [Next]_vars
             PROVE  IndInv'
  OBVIOUS
<1>1. CASE Commit \/ PreviewHead \/ PreviewWrite \/ UNCHANGED vars
  BY <1>1, IndWorkspace
<1>2. ASSUME NEW c \in Commands, CommandStep(c)
      PROVE  IndInv'
  <2>1. TypeOK'
    BY <1>2, TypeCommand
  <2>2. OneTag'
    BY TagStep
  <2>3. PlaceReached(c)' /\ AuditKept(c)'
    BY <1>2, OwnPlace, OwnAudit
  <2>4. \A d \in Commands \ {c} : PlaceReached(d)' /\ AuditKept(d)'
    BY <1>2, OthersKept
  <2> QED
    BY <2>1, <2>2, <2>3, <2>4 DEF IndInv
<1> QED
  BY <1>1, <1>2 DEF Next, CommandStep

THEOREM Inductive == Spec => []IndInv
<1> QED
  BY IndInit, IndStep, PTL DEF Spec

-----------------------------------------------------------------------------
(* Every variable keeps its type.                                          *)
THEOREM TypeCorrect == Spec => []TypeOK
<1>1. IndInv => TypeOK
  BY DEF IndInv
<1> QED
  BY <1>1, Inductive, PTL

(* No draft without the pushed tag it is for, for any number of commands   *)
(* that fail, are retried or are killed anywhere in performReleaseMutation.*)
THEOREM DraftsPushed == Spec => []PushedBeforeDraft
<1>1. IndInv => PushedBeforeDraft
  BY DEF IndInv, PlaceReached, OneTag, PushedBeforeDraft
<1> QED
  BY <1>1, Inductive, PTL

(* A reported release has its draft, for the commit whose audit            *)
(* validateReleasePreviewAuditForPlan accepted or, if HEAD moved, a newer  *)
(* one.                                                                    *)
THEOREM ReleaseWhole == Spec => []ReleasedIsWhole
<1>1. IndInv => ReleasedIsWhole
  <2> SUFFICES ASSUME IndInv, NEW c \in Commands, pc[c] = "released"
               PROVE  /\ drafts[c] > 0
                      /\ localTag >= audited[c]
                      /\ ~moved[c] => localTag = audited[c]
    BY DEF ReleasedIsWhole
  <2>1. localTag \in Int /\ audited[c] \in Int
    BY ReleaseAssumption DEF IndInv, TypeOK, Commits, Tags, NoCommit
  <2> QED
    BY <2>1 DEF IndInv, PlaceReached, AuditKept, Tagged
<1> QED
  BY <1>1, Inductive, PTL

(* performReleaseMutation never moves a tag, here or at origin.            *)
THEOREM TagsForGood == Spec => TagsStay
<1>1. IndInv /\ [Next]_vars =>
        [/\ localTag # NoCommit => localTag' = localTag
         /\ remoteTag # NoCommit => remoteTag' = remoteTag]_vars
  BY TagStep
<1> QED
  BY <1>1, Inductive, PTL DEF Spec, TagsStay

=============================================================================
