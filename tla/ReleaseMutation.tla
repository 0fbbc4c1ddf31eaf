--------------------------- MODULE ReleaseMutation ---------------------------
(***************************************************************************)
(* The confirmed release (validateReleasePreviewAuditForPlan and           *)
(* performReleaseMutation in internal/cli/cli.go): live, confirmed         *)
(* commands in one workspace check the release-preview audit, run their    *)
(* workcells, tag HEAD, push the tag and make the draft release.  Commits  *)
(* are numbered in the order they are made, and anybody makes them at any  *)
(* time: workcells, an operator, another command; HEAD is never reset.     *)
(***************************************************************************)
EXTENDS Integers, FiniteSets

CONSTANTS
  Commands,   \* the commands given, one attempt each
  MaxCommits  \* bound on the commits made

ASSUME ReleaseAssumption == MaxCommits \in Nat \ {0}

Commits == 1..MaxCommits
NoCommit == 0
Tags == Commits \cup {NoCommit}

VARIABLES
  head,        \* HEAD of the workspace
  localTag,    \* the commit the release tag names there
  remoteTag,   \* and at origin
  previewing,  \* the HEAD a running forge release-preview has read
  audit,       \* the audit file it writes
  pc,          \* where each command stands
  audited,     \* the commit whose audit each command accepted
  read,        \* the HEAD its release found (commitHash)
  drafts,      \* the drafts it has made at GitHub
  moved        \* history: HEAD moved since it accepted the audit

repo == <<head, localTag, remoteTag>>
preview == <<previewing, audit>>
command == <<pc, audited, read, drafts, moved>>
vars == <<repo, preview, command>>

Steps ==
  {"idle", "working", "head", "check", "tag", "push", "gh", "api",
   "released", "failed", "killed"}
Ended == {"idle", "released", "failed", "killed"}

TypeOK ==
  /\ head \in Commits
  /\ localTag \in Tags
  /\ remoteTag \in Tags
  /\ previewing \in Tags
  /\ audit \in [passed : BOOLEAN, head : Tags]
  /\ pc \in [Commands -> Steps]
  /\ audited \in [Commands -> Tags]
  /\ read \in [Commands -> Tags]
  /\ drafts \in [Commands -> 0..2]
  /\ moved \in [Commands -> BOOLEAN]

Init ==
  /\ head = 1
  /\ localTag = NoCommit
  /\ remoteTag = NoCommit
  /\ previewing = NoCommit
  /\ audit = [passed |-> FALSE, head |-> NoCommit]
  /\ pc = [c \in Commands |-> "idle"]
  /\ audited = [c \in Commands |-> NoCommit]
  /\ read = [c \in Commands |-> NoCommit]
  /\ drafts = [c \in Commands |-> 0]
  /\ moved = [c \in Commands |-> FALSE]

-----------------------------------------------------------------------------
(* The workspace and its preview.                                          *)

Commit ==
  /\ head < MaxCommits
  /\ head' = head + 1
  /\ moved' = [c \in Commands |-> moved[c] \/ pc[c] \notin Ended]
  /\ UNCHANGED <<localTag, remoteTag, preview, pc, audited, read, drafts>>

PreviewHead ==
  /\ previewing = NoCommit
  /\ previewing' = head
  /\ UNCHANGED <<repo, audit, command>>

(* The audit passes when the tag is free or names the HEAD it has read,    *)
(* and nothing else is wrong with the workspace.                           *)
PreviewWrite ==
  /\ previewing # NoCommit
  /\ \E passed \in BOOLEAN :
       /\ passed => localTag \in {NoCommit, previewing}
       /\ audit' = [passed |-> passed, head |-> previewing]
  /\ previewing' = NoCommit
  /\ UNCHANGED <<repo, command>>

-----------------------------------------------------------------------------
(* One command.                                                            *)

Goes(c, from, to) == pc[c] = from /\ pc' = [pc EXCEPT ![c] = to]

(* Broken: the audited commit is not compared with HEAD.                   *)
AuditHoldsStale == audit.passed

AuditHolds == audit.passed /\ audit.head = head

Validate(c) ==
  /\ Goes(c, "idle", IF AuditHolds THEN "working" ELSE "failed")
  /\ audited' = [audited EXCEPT ![c] = IF AuditHolds THEN audit.head ELSE NoCommit]
  /\ UNCHANGED <<repo, preview, read, drafts, moved>>

(* The workcells, the evidence and the archive (RunLifecycle).             *)
RunPlan(c) ==
  /\ \E end \in {"head", "failed"} : Goes(c, "working", end)
  /\ UNCHANGED <<repo, preview, audited, read, drafts, moved>>

ReadHead(c) ==
  /\ Goes(c, "head", "check")
  /\ read' = [read EXCEPT ![c] = head]
  /\ UNCHANGED <<repo, preview, audited, drafts, moved>>

CheckTag(c) ==
  /\ \/ localTag = NoCommit /\ Goes(c, "check", "tag")
     \/ localTag # NoCommit /\ localTag = read[c] /\ Goes(c, "check", "push")
     \/ localTag \notin {NoCommit, read[c]} /\ Goes(c, "check", "failed")
  /\ UNCHANGED <<repo, preview, audited, read, drafts, moved>>

(* Broken: git tag --force.                                                *)
CreateTagForced(c) ==
  /\ Goes(c, "tag", "push")
  /\ localTag' = head
  /\ UNCHANGED <<head, remoteTag, preview, audited, read, drafts, moved>>

(* git tag names HEAD as it is now, and refuses to move a tag.             *)
CreateTag(c) ==
  /\ \/ /\ localTag = NoCommit
        /\ Goes(c, "tag", "push")
        /\ localTag' = head
     \/ /\ Goes(c, "tag", "failed")
        /\ UNCHANGED localTag
  /\ UNCHANGED <<head, remoteTag, preview, audited, read, drafts, moved>>

(* Broken: a failed push is a warning.                                     *)
PushLenient(c) ==
  /\ Goes(c, "push", "gh")
  /\ remoteTag' \in {remoteTag, localTag}
  /\ UNCHANGED <<head, localTag, preview, audited, read, drafts, moved>>

(* A push may fail, and may fail to say that it succeeded; origin refuses  *)
(* to move a tag.                                                          *)
Push(c) ==
  /\ \/ /\ remoteTag \in {NoCommit, localTag}
        /\ \E end \in {"gh", "failed"} : Goes(c, "push", end)
        /\ remoteTag' = localTag
     \/ /\ Goes(c, "push", "failed")
        /\ UNCHANGED remoteTag
  /\ UNCHANGED <<head, localTag, preview, audited, read, drafts, moved>>

Draft(c) == drafts' = [drafts EXCEPT ![c] = @ + 1]

(* gh release create, or no gh: an error may hide a draft that was made.   *)
GhCreate(c) ==
  /\ \/ Goes(c, "gh", "released") /\ Draft(c)
     \/ Goes(c, "gh", "api") /\ (Draft(c) \/ UNCHANGED drafts)
  /\ UNCHANGED <<repo, preview, audited, read, moved>>

(* publishReleaseViaAPI, with a token: a timeout may hide a draft too.     *)
ApiCreate(c) ==
  /\ \/ Goes(c, "api", "released") /\ Draft(c)
     \/ Goes(c, "api", "failed") /\ (Draft(c) \/ UNCHANGED drafts)
  /\ UNCHANGED <<repo, preview, audited, read, moved>>

Kill(c) ==
  /\ pc[c] \notin Ended
  /\ pc' = [pc EXCEPT ![c] = "killed"]
  /\ UNCHANGED <<repo, preview, audited, read, drafts, moved>>

-----------------------------------------------------------------------------
performReleaseMutation(c) ==
  \/ ReadHead(c)
  \/ CheckTag(c)
  \/ CreateTag(c)
  \/ Push(c)
  \/ GhCreate(c)
  \/ ApiCreate(c)

Next ==
  \/ Commit
  \/ PreviewHead
  \/ PreviewWrite
  \/ \E c \in Commands :
       Validate(c) \/ RunPlan(c) \/ performReleaseMutation(c) \/ Kill(c)

Spec == Init /\ [][Next]_vars

-----------------------------------------------------------------------------
(* Properties.                                                             *)

(* "Push must succeed before any public release publishing can proceed":   *)
(* whatever fails, is retried or is killed, there is no draft without the  *)
(* pushed tag it is for.                                                   *)
PushedBeforeDraft ==
  \A c \in Commands : drafts[c] > 0 => remoteTag # NoCommit /\ remoteTag = localTag

(* A release tag, once made, names the same commit for ever, here and at   *)
(* origin, through retries and racing commands.                            *)
TagsStay ==
  [][/\ localTag # NoCommit => localTag' = localTag
     /\ remoteTag # NoCommit => remoteTag' = remoteTag]_vars

(* A command that reports a release has made its draft, for a tag that is  *)
(* no older than the commit it accepted the audit of, and is that commit   *)
(* when HEAD stayed where it was.                                          *)
ReleasedIsWhole ==
  \A c \in Commands : pc[c] = "released" =>
    /\ drafts[c] > 0
    /\ localTag >= audited[c]
    /\ ~moved[c] => localTag = audited[c]

(* The audit is "bound to the same workspace, tag, and HEAD commit before  *)
(* release mutation can proceed" (docs/release/PREVIEW-RELEASE.md): the    *)
(* commit released is the commit audited.                                  *)
ReleasedIsAudited ==
  \A c \in Commands : pc[c] = "released" => localTag = audited[c]

=============================================================================
