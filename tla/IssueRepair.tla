----------------------------- MODULE IssueRepair -----------------------------
(***************************************************************************)
(* The governed issue-repair execution (internal/issuerepair).  Several    *)
(* processes share one checkpoint file guarded by a non-blocking file      *)
(* lock; the checkpoint carries a lease, a budget and an append-only       *)
(* ledger of the steps of one repair.  An Execution is what one process    *)
(* holds after Open or Resume; its mutex makes the calls on it sequential, *)
(* so a process has at most one call in progress.                          *)
(*                                                                         *)
(* A call is cut where another process, the clock, a crash or a power loss *)
(* can come between: Resume's unlocked read, the locked read with the      *)
(* first clock check, the second clock check, the rename of the new        *)
(* checkpoint over the old, and the directory sync.                        *)
(***************************************************************************)
EXTENDS Integers, FiniteSets, SequencesExt

CONSTANTS
  Procs,            \* processes that open or resume the run
  Workers,          \* worker identities named in leases
  WorkerOf,         \* the worker identity each process runs under
  TTL,              \* State.LeaseTTL
  MaxPages,         \* Policy.MaxPages
  MaxWrites,        \* Policy.MaxWrites
  PushAuthorized,   \* Policy.PushAuthorized
  PRAuthorized,     \* Policy.PRAuthorized
  MaxEvents,        \* events that fit in maxStateBytes
  Skew,             \* how far a caller's "now" may run ahead of the clock
  MaxClock,         \* bound on the clock
  MaxTokens,        \* bound on the lease tokens drawn
  NoState,          \* no checkpoint: an absent file, or no Execution
  Nobody            \* nobody holds the file lock

ASSUME ProcAssumption ==
  /\ WorkerOf \in [Procs -> Workers]
  /\ Nobody \notin Procs

ASSUME PolicyAssumption ==
  /\ TTL \in Nat \ {0}
  /\ MaxPages \in Nat \ {0}
  /\ MaxWrites \in Nat \ {0}
  /\ PushAuthorized \in BOOLEAN
  /\ PRAuthorized \in BOOLEAN

ASSUME BoundAssumption ==
  /\ MaxEvents \in Nat \ {0}
  /\ Skew \in Nat
  /\ MaxClock \in Nat
  /\ MaxTokens \in Nat

-----------------------------------------------------------------------------
(* The checkpoint.  Digests, paths and command text are constant over a    *)
(* run and are left out; an event is identified by its kind and, for       *)
(* page events, the page number.                                           *)

StageOf ==
  [run_created                |-> "created",
   page_completed             |-> "discovery",
   clone_completed            |-> "cloned",
   pre_patch_failure_observed |-> "reproduced",
   patch_recorded             |-> "patched",
   push_recorded              |-> "pushed",
   pull_request_recorded      |-> "pr_opened"]

Kinds == DOMAIN StageOf
Stages == {StageOf[k] : k \in Kinds}
WriteKinds == {"patch_recorded", "push_recorded", "pull_request_recorded"}

Event == [kind : Kinds, page : Nat]
Lease == [worker : Workers, token : Nat, issuedAt : Nat, expiresAt : Nat]

State ==
  [stage              : Stages,
   nextPage           : Nat,
   cloneComplete      : BOOLEAN,
   reproductionFailed : BOOLEAN,
   patchRecorded      : BOOLEAN,
   ledger             : Seq(Event),
   pagesUsed          : Nat,
   writesUsed         : Nat,
   exhausted          : BOOLEAN,
   lease              : Lease]

ASSUME NoStateAssumption == NoState \notin State

PageEvent(n) == [kind |-> "page_completed", page |-> n]
PhaseEvent(k) == [kind |-> k, page |-> 0]

Has(ledger, event) == \E i \in DOMAIN ledger : ledger[i] = event

(* What a call asks to record.  A caller may name any page, but only the   *)
(* pages from 1 on are steps of a repair.                                  *)
Asked == [kind : Kinds, page : Int]
IsStep(event) == event.kind = "page_completed" => event.page >= 1
CallerPages == -1..(MaxPages + 2)

(* The step each step of the chain needs, as the validator replays it.     *)
Requires ==
  [pre_patch_failure_observed |-> "clone_completed",
   patch_recorded             |-> "pre_patch_failure_observed",
   push_recorded              |-> "patch_recorded",
   pull_request_recorded      |-> "push_recorded"]

Before(ledger, i, k) == \E j \in 1..(i - 1) : ledger[j].kind = k
CountIn(ledger, kinds, i) ==
  Cardinality({j \in 1..i : ledger[j].kind \in kinds})

EventInOrder(ledger, i) ==
  LET k == ledger[i].kind IN
  /\ k = "run_created" => i = 1
  /\ k = "page_completed" =>
       /\ ~Before(ledger, i, "clone_completed")
       /\ ledger[i].page = CountIn(ledger, {"page_completed"}, i)
  /\ k # "page_completed" => ledger[i].page = 0
  /\ k \in DOMAIN Requires => Before(ledger, i, Requires[k])
  /\ k = "push_recorded" => PushAuthorized
  /\ k = "pull_request_recorded" => PRAuthorized

LedgerValid(ledger) ==
  /\ ledger # <<>>
  /\ \A i, j \in DOMAIN ledger : ledger[i] = ledger[j] => i = j
  /\ \A i \in DOMAIN ledger : EventInOrder(ledger, i)

ValidState(s) ==
  LET recorded(k) == Before(s.ledger, Len(s.ledger) + 1, k) IN
  /\ s.pagesUsed <= MaxPages
  /\ s.writesUsed <= MaxWrites
  /\ s.lease.expiresAt - s.lease.issuedAt = TTL
  /\ LedgerValid(s.ledger)
  /\ s.pagesUsed = CountIn(s.ledger, {"page_completed"}, Len(s.ledger))
  /\ s.nextPage = s.pagesUsed + 1
  /\ s.writesUsed = CountIn(s.ledger, WriteKinds, Len(s.ledger))
  /\ s.cloneComplete <=> recorded("clone_completed")
  /\ s.reproductionFailed <=> recorded("pre_patch_failure_observed")
  /\ s.patchRecorded <=> recorded("patch_recorded")
  /\ s.stage = StageOf[s.ledger[Len(s.ledger)].kind]

-----------------------------------------------------------------------------
VARIABLES
  file,     \* the checkpoint every process reads
  stable,   \* the checkpoint that would survive a power loss
  clock,    \* the wall clock
  issued,   \* lease tokens drawn so far; a token is its number
  lock,     \* the process that holds the file lock
  pc,       \* where each process stands in its call
  exec,     \* execution.state: what each Execution holds in memory
  cand,     \* the candidate state of the call in progress
  outcome,  \* what the call will return once the candidate is durable
  req,      \* the now and the expected token of a Resume in progress
  reply     \* what the step just taken returned to its caller

vars == <<file, stable, clock, issued, lock, pc, exec, cand, outcome, req, reply>>
callVars == <<pc, cand, outcome, lock>>

Outcomes ==
  {"ok", "ErrLeaseConflict", "ErrDuplicateEvent", "ErrCheckpointMismatch",
   "ErrReproductionRequired", "ErrUnsafeWorkspace", "ErrPushDenied",
   "ErrPRDenied", "ErrBudgetExhausted", "io"}

NoRequest == [now |-> 0, token |-> 0]
NoEvent == [kind |-> "none", page |-> 0]
NoReply == [proc |-> Nobody, outcome |-> "none", event |-> NoEvent]
Replies == [proc : Procs, outcome : Outcomes, event : Asked \cup {NoEvent}]
Locations == {"idle", "resuming", "changed", "replace", "sync"}
InLock == {"changed", "replace", "sync"}

TypeOK ==
  /\ file \in State \cup {NoState}
  /\ stable \in State \cup {NoState}
  /\ clock \in Nat
  /\ issued \in Nat
  /\ lock \in Procs \cup {Nobody}
  /\ pc \in [Procs -> Locations]
  /\ exec \in [Procs -> State \cup {NoState}]
  /\ cand \in [Procs -> State \cup {NoState}]
  /\ outcome \in [Procs -> Outcomes]
  /\ req \in [Procs -> [now : Nat, token : Nat]]
  /\ reply \in Replies \cup {NoReply}

Init ==
  /\ file = NoState
  /\ stable = NoState
  /\ clock = 0
  /\ issued = 0
  /\ lock = Nobody
  /\ pc = [p \in Procs |-> "idle"]
  /\ exec = [p \in Procs |-> NoState]
  /\ cand = [p \in Procs |-> NoState]
  /\ outcome = [p \in Procs |-> "ok"]
  /\ req = [p \in Procs |-> NoRequest]
  /\ reply = NoReply

-----------------------------------------------------------------------------
(* The ends of a call.                                                     *)

Reply(p, o, event) == reply' = [proc |-> p, outcome |-> o, event |-> event]

(* An early return that changed nothing and had no lock to keep.           *)
Refuse(p, o, event) ==
  /\ Reply(p, o, event)
  /\ UNCHANGED <<file, stable, clock, issued, exec, req>>
  /\ UNCHANGED callVars

(* The deferred lock.Close of Open, Resume and mutate, and the return.     *)
Release(p, o) ==
  /\ lock' = Nobody
  /\ pc' = [pc EXCEPT ![p] = "idle"]
  /\ cand' = [cand EXCEPT ![p] = NoState]
  /\ outcome' = [outcome EXCEPT ![p] = "ok"]
  /\ Reply(p, o, NoEvent)

(* Takes the lock and carries a candidate towards the checkpoint.          *)
Submit(p, s, o, at) ==
  /\ lock' = p
  /\ pc' = [pc EXCEPT ![p] = at]
  /\ cand' = [cand EXCEPT ![p] = s]
  /\ outcome' = [outcome EXCEPT ![p] = o]
  /\ reply' = NoReply

-----------------------------------------------------------------------------
(* Leases.                                                                 *)

(* Broken: a renewed lease keeps the token of the lease it replaces.       *)
newLeaseSameToken(w, now) ==
  [worker |-> w, token |-> IF file = NoState THEN 1 ELSE file.lease.token,
   issuedAt |-> now, expiresAt |-> now + TTL]

newLease(w, now) ==
  [worker |-> w, token |-> issued + 1, issuedAt |-> now, expiresAt |-> now + TTL]

(* Broken: off by one at the expiry.                                       *)
LeaseFreeEarly(lease, w, now) == lease.worker = w \/ now + 1 >= lease.expiresAt

LeaseFree(lease, w, now) == lease.worker = w \/ now >= lease.expiresAt

(* A caller reads its clock before the call: "now" is at best current,     *)
(* and ahead of the clock by no more than Skew.                            *)
CallerTimes == 0..(clock + Skew)

-----------------------------------------------------------------------------
(* Open and Resume.                                                        *)

NewRun(lease) ==
  [stage |-> "created", nextPage |-> 1, cloneComplete |-> FALSE,
   reproductionFailed |-> FALSE, patchRecorded |-> FALSE,
   ledger |-> <<PhaseEvent("run_created")>>,
   pagesUsed |-> 0, writesUsed |-> 0, exhausted |-> FALSE, lease |-> lease]

OpenRefusal ==
  IF lock # Nobody THEN "ErrLeaseConflict"
  ELSE IF file # NoState THEN "ErrDuplicateEvent"
  ELSE "ok"

(* Open holds the lock from its check that no checkpoint exists to its     *)
(* first write of one.                                                     *)
Open(p, now) ==
  /\ pc[p] = "idle"
  /\ \/ /\ OpenRefusal # "ok"
        /\ Refuse(p, OpenRefusal, PhaseEvent("run_created"))
     \/ /\ OpenRefusal = "ok"
        /\ issued < MaxTokens
        /\ issued' = issued + 1
        /\ Submit(p, NewRun(newLease(WorkerOf[p], now)), "ok", "replace")
        /\ UNCHANGED <<file, stable, clock, exec, req>>

(* What readState, validateState and the expected token ask of the file.   *)
ResumeRefusal(token) ==
  IF file = NoState THEN "ErrCheckpointMismatch"
  ELSE IF ~ValidState(file) THEN "ErrCheckpointMismatch"
  ELSE IF file.lease.token # token THEN "ErrLeaseConflict"
  ELSE "ok"

(* The first half of Resume reads the checkpoint without the lock.         *)
ResumeRead(p, token) ==
  LET refusal == ResumeRefusal(token) IN
  /\ pc[p] = "idle"
  /\ \/ /\ refusal # "ok"
        /\ Refuse(p, refusal, NoEvent)
     \/ /\ refusal = "ok"
        /\ pc' = [pc EXCEPT ![p] = "resuming"]
        /\ \E now \in CallerTimes :
             req' = [req EXCEPT ![p] = [now |-> now, token |-> token]]
        /\ reply' = NoReply
        /\ UNCHANGED <<file, stable, clock, issued, lock, exec, cand, outcome>>

(* Broken: the lock is not asked for.                                      *)
LockedRefusalUnlocked(p) ==
  IF ResumeRefusal(req[p].token) # "ok" THEN ResumeRefusal(req[p].token)
  ELSE IF ~LeaseFree(file.lease, WorkerOf[p], req[p].now) THEN "ErrLeaseConflict"
  ELSE "ok"

LockedRefusal(p) ==
  IF lock # Nobody THEN "ErrLeaseConflict"
  ELSE IF ResumeRefusal(req[p].token) # "ok" THEN ResumeRefusal(req[p].token)
  ELSE IF ~LeaseFree(file.lease, WorkerOf[p], req[p].now) THEN "ErrLeaseConflict"
  ELSE "ok"

(* The second half takes the lock, reads again and renews the lease.       *)
ResumeLocked(p) ==
  LET refusal == LockedRefusal(p) IN
  /\ pc[p] = "resuming"
  /\ req' = [req EXCEPT ![p] = NoRequest]
  /\ \/ /\ refusal # "ok"
        /\ pc' = [pc EXCEPT ![p] = "idle"]
        /\ Reply(p, refusal, NoEvent)
        /\ UNCHANGED <<file, stable, clock, issued, lock, exec, cand, outcome>>
     \/ /\ refusal = "ok"
        /\ issued < MaxTokens
        /\ issued' = issued + 1
        /\ Submit(p, [file EXCEPT !.lease = newLease(WorkerOf[p], req[p].now)],
                  "ok", "replace")
        /\ UNCHANGED <<file, stable, clock, exec>>

-----------------------------------------------------------------------------
(* mutate: the shared frame of the Record operations.                      *)

Running(p) == pc[p] = "idle" /\ exec[p] # NoState

(* Broken: the worker's name is taken for its lease.                       *)
LeaseHeldByName(p) ==
  file.lease.worker = exec[p].lease.worker /\ clock < file.lease.expiresAt

(* The durable lease is this Execution's lease, and still runs.            *)
LeaseHeld(p) ==
  /\ file.lease.token = exec[p].lease.token
  /\ file.lease.worker = exec[p].lease.worker
  /\ clock < file.lease.expiresAt

MutateRefusal(p) ==
  IF lock # Nobody THEN "ErrLeaseConflict"
  ELSE IF file = NoState THEN "ErrCheckpointMismatch"
  ELSE IF ~ValidState(file) THEN "ErrCheckpointMismatch"
  ELSE IF ~LeaseHeld(p) THEN "ErrLeaseConflict"
  ELSE "ok"

(* What follows are the change functions of the Record operations: mutate  *)
(* runs one on the durable state it read and accepted.                     *)

(* change succeeded: Ledger.Append is its last call.                       *)
Accept(p, s, event) ==
  IF Has(s.ledger, event)
  THEN Refuse(p, "ErrDuplicateEvent", event)
  ELSE /\ Submit(p, [s EXCEPT !.ledger = Append(@, event),
                              !.stage = StageOf[event.kind]], "ok", "changed")
       /\ UNCHANGED <<file, stable, clock, issued, exec, req>>

(* change failed with persistOnError: the spent budget is written, and the *)
(* error returned after it.                                                *)
Exhaust(p) ==
  /\ Submit(p, [file EXCEPT !.exhausted = TRUE], "ErrBudgetExhausted", "changed")
  /\ UNCHANGED <<file, stable, clock, issued, exec, req>>

(* A change that costs nothing, and one that is charged to a budget.       *)
Change(p, refusal, s, event) ==
  \/ refusal # "ok" /\ Refuse(p, refusal, event)
  \/ refusal = "ok" /\ Accept(p, s, event)

Charge(p, refusal, left, s, event) ==
  \/ refusal # "ok" /\ Refuse(p, refusal, event)
  \/ refusal = "ok" /\ left /\ Accept(p, s, event)
  \/ refusal = "ok" /\ ~left /\ Exhaust(p)

(* Broken: off by one at the page limit.                                   *)
PageBudgetLeftOver(s) == ~s.exhausted /\ s.pagesUsed <= MaxPages

PageBudgetLeft(s) == ~s.exhausted /\ s.pagesUsed < MaxPages
(* Broken: an exhausted flag is ignored.                                   *)
WriteBudgetLeftForgiving(s) == s.writesUsed < MaxWrites

WriteBudgetLeft(s) == ~s.exhausted /\ s.writesUsed < MaxWrites

(* Broken: pages are taken at any stage.                                   *)
PageRefusalAnyStage(s, page) ==
  IF page < s.nextPage THEN "ErrDuplicateEvent"
  ELSE IF page > s.nextPage THEN "ErrCheckpointMismatch"
  ELSE "ok"

PageRefusal(s, page) ==
  IF page < s.nextPage THEN "ErrDuplicateEvent"
  ELSE IF page > s.nextPage THEN "ErrCheckpointMismatch"
  ELSE IF s.stage \notin {"created", "discovery"} THEN "ErrCheckpointMismatch"
  ELSE "ok"

(* A cursor that is too long is a mismatch, whatever the page.             *)
RecordPage(p, page) ==
  \E refusal \in {PageRefusal(file, page), "ErrCheckpointMismatch"} :
    Charge(p, refusal, PageBudgetLeft(file),
           [file EXCEPT !.pagesUsed = @ + 1, !.nextPage = @ + 1],
           PageEvent(page))

(* What git or the reproduction command answers is the environment's.      *)
CloneRefusal(s, answer) ==
  IF Has(s.ledger, PhaseEvent("clone_completed")) THEN "ErrDuplicateEvent"
  ELSE IF s.stage \notin {"created", "discovery"} THEN "ErrCheckpointMismatch"
  ELSE answer

RecordClone(p) ==
  \E answer \in {"ok", "ErrUnsafeWorkspace"} :
    Change(p, CloneRefusal(file, answer), [file EXCEPT !.cloneComplete = TRUE],
           PhaseEvent("clone_completed"))

ReproductionRefusal(s, answer) ==
  IF Has(s.ledger, PhaseEvent("pre_patch_failure_observed")) THEN "ErrDuplicateEvent"
  ELSE IF s.stage # "cloned" \/ ~s.cloneComplete THEN "ErrReproductionRequired"
  ELSE answer

RecordReproduction(p) ==
  \E answer \in {"ok", "ErrUnsafeWorkspace", "ErrReproductionRequired"} :
    Change(p, ReproductionRefusal(file, answer),
           [file EXCEPT !.reproductionFailed = TRUE],
           PhaseEvent("pre_patch_failure_observed"))

PatchRefusal(s, answer) ==
  IF Has(s.ledger, PhaseEvent("patch_recorded")) THEN "ErrDuplicateEvent"
  ELSE IF s.stage # "reproduced" \/ ~s.reproductionFailed THEN "ErrReproductionRequired"
  ELSE answer

RecordPatch(p) ==
  \E answer \in {"ok", "ErrUnsafeWorkspace"} :
    Charge(p, PatchRefusal(file, answer), WriteBudgetLeft(file),
           [file EXCEPT !.writesUsed = @ + 1, !.patchRecorded = TRUE],
           PhaseEvent("patch_recorded"))

PushRefusal(s) ==
  IF Has(s.ledger, PhaseEvent("push_recorded")) THEN "ErrDuplicateEvent"
  ELSE IF ~PushAuthorized THEN "ErrPushDenied"
  ELSE IF s.stage # "patched" \/ ~s.patchRecorded THEN "ErrReproductionRequired"
  ELSE "ok"

RecordPush(p) ==
  Charge(p, PushRefusal(file), WriteBudgetLeft(file),
         [file EXCEPT !.writesUsed = @ + 1], PhaseEvent("push_recorded"))

(* Broken: a pull request is opened on a patch that was not pushed.        *)
PRRefusalUnpushed(s) ==
  IF Has(s.ledger, PhaseEvent("pull_request_recorded")) THEN "ErrDuplicateEvent"
  ELSE IF ~PRAuthorized THEN "ErrPRDenied"
  ELSE IF s.stage \notin {"patched", "pushed"} THEN "ErrPushDenied"
  ELSE "ok"

PRRefusal(s) ==
  IF Has(s.ledger, PhaseEvent("pull_request_recorded")) THEN "ErrDuplicateEvent"
  ELSE IF ~PRAuthorized THEN "ErrPRDenied"
  ELSE IF s.stage # "pushed" THEN "ErrPushDenied"
  ELSE "ok"

RecordPR(p) ==
  Charge(p, PRRefusal(file), WriteBudgetLeft(file),
         [file EXCEPT !.writesUsed = @ + 1], PhaseEvent("pull_request_recorded"))

(* The second clock check, after change and before the write.              *)
Recheck(p) ==
  /\ pc[p] = "changed"
  /\ \/ /\ clock < cand[p].lease.expiresAt
        /\ pc' = [pc EXCEPT ![p] = "replace"]
        /\ reply' = NoReply
        /\ UNCHANGED <<lock, cand, outcome>>
     \/ /\ clock >= cand[p].lease.expiresAt
        /\ Release(p, "ErrLeaseConflict")
  /\ UNCHANGED <<file, stable, clock, issued, exec, req>>

-----------------------------------------------------------------------------
(* persistState.                                                           *)

Fits(s) == Len(s.ledger) <= MaxEvents

(* The body is over maxStateBytes: nothing is written.                     *)
Oversize(p) ==
  /\ pc[p] = "replace"
  /\ ~Fits(cand[p])
  /\ Release(p, "ErrBudgetExhausted")
  /\ UNCHANGED <<file, stable, clock, issued, exec, req>>

(* The temporary cannot be created, written, synced or renamed.            *)
WriteFails(p) ==
  /\ pc[p] = "replace"
  /\ Fits(cand[p])
  /\ Release(p, "io")
  /\ UNCHANGED <<file, stable, clock, issued, exec, req>>

(* os.Rename: readers see the new checkpoint from here on.                 *)
Rename(p) ==
  /\ pc[p] = "replace"
  /\ Fits(cand[p])
  /\ file' = cand[p]
  /\ pc' = [pc EXCEPT ![p] = "sync"]
  /\ reply' = NoReply
  /\ UNCHANGED <<stable, clock, issued, lock, exec, cand, outcome, req>>

(* Broken: success is reported without a directory sync.                   *)
SyncDirectorySkipped(p) ==
  /\ pc[p] = "sync"
  /\ exec' = [exec EXCEPT ![p] = cand[p]]
  /\ Release(p, outcome[p])
  /\ UNCHANGED <<file, stable, clock, issued, req>>

(* directory.Sync returned: the caller's memory advances with its answer.  *)
SyncDirectory(p) ==
  /\ pc[p] = "sync"
  /\ stable' = file
  /\ exec' = [exec EXCEPT ![p] = cand[p]]
  /\ Release(p, outcome[p])
  /\ UNCHANGED <<file, clock, issued, req>>

(* Broken: the error of the directory sync is dropped.                     *)
SyncFailsIgnored(p) ==
  /\ pc[p] = "sync"
  /\ Release(p, outcome[p])
  /\ UNCHANGED <<file, stable, clock, issued, exec, req>>

(* The directory cannot be opened or synced: the caller is told of a       *)
(* failure although the new checkpoint is in place.                        *)
SyncFails(p) ==
  /\ pc[p] = "sync"
  /\ Release(p, "io")
  /\ UNCHANGED <<file, stable, clock, issued, exec, req>>

-----------------------------------------------------------------------------
(* The world around the calls.                                             *)

Tick ==
  /\ clock < MaxClock
  /\ clock' = clock + 1
  /\ reply' = NoReply
  /\ UNCHANGED <<file, stable, issued, lock, pc, exec, cand, outcome, req>>

(* The kernel writes the directory back in its own time.                   *)
Writeback ==
  /\ stable # file
  /\ stable' = file
  /\ reply' = NoReply
  /\ UNCHANGED <<file, clock, issued, lock, pc, exec, cand, outcome, req>>

(* A process dies: the kernel drops its lock, its memory is gone.          *)
Crash(p) ==
  /\ pc[p] # "idle" \/ exec[p] # NoState
  /\ lock' = IF lock = p THEN Nobody ELSE lock
  /\ pc' = [pc EXCEPT ![p] = "idle"]
  /\ exec' = [exec EXCEPT ![p] = NoState]
  /\ cand' = [cand EXCEPT ![p] = NoState]
  /\ outcome' = [outcome EXCEPT ![p] = "ok"]
  /\ req' = [req EXCEPT ![p] = NoRequest]
  /\ reply' = NoReply
  /\ UNCHANGED <<file, stable, clock, issued>>

(* The machine stops: every process dies, and what was not written back    *)
(* is lost.                                                                *)
PowerLoss ==
  /\ file' = stable
  /\ lock' = Nobody
  /\ pc' = [p \in Procs |-> "idle"]
  /\ exec' = [p \in Procs |-> NoState]
  /\ cand' = [p \in Procs |-> NoState]
  /\ outcome' = [p \in Procs |-> "ok"]
  /\ req' = [p \in Procs |-> NoRequest]
  /\ reply' = NoReply
  /\ UNCHANGED <<stable, clock, issued>>

Mutate(p) ==
  LET refusal == MutateRefusal(p) IN
  /\ Running(p)
  /\ \/ refusal # "ok" /\ Refuse(p, refusal, NoEvent)
     \/ /\ refusal = "ok"
        /\ \/ \E page \in CallerPages : RecordPage(p, page)
           \/ RecordClone(p)
           \/ RecordReproduction(p)
           \/ RecordPatch(p)
           \/ RecordPush(p)
           \/ RecordPR(p)

Acquire(p) ==
  \/ \E now \in CallerTimes : Open(p, now)
  \/ \E token \in 1..issued : ResumeRead(p, token)
  \/ ResumeLocked(p)

Persist(p) ==
  \/ Recheck(p)
  \/ Oversize(p)
  \/ WriteFails(p)
  \/ Rename(p)
  \/ SyncDirectory(p)
  \/ SyncFails(p)

Next ==
  \/ \E p \in Procs : Acquire(p) \/ Mutate(p) \/ Persist(p) \/ Crash(p)
  \/ Tick
  \/ Writeback
  \/ PowerLoss

Spec == Init /\ [][Next]_vars

-----------------------------------------------------------------------------
(* Safety.                                                                 *)

(* A process is inside the locked part of Open, Resume or mutate exactly   *)
(* when it holds the file lock: every return and every crash gives the     *)
(* lock up, and nobody writes without it.                                  *)
LockDiscipline == \A p \in Procs : pc[p] \in InLock <=> lock = p

(* Whatever the Record operations, Resume, failed writes, crashes and      *)
(* power losses leave behind passes validateState: a run never locks       *)
(* itself out of its own checkpoint.                                       *)
CheckpointValid ==
  /\ file # NoState => ValidState(file)
  /\ stable # NoState => ValidState(stable)

(* At most one Execution holds the lease the checkpoint names: takeover by *)
(* another worker, and a restart under the same worker name, revoke every  *)
(* Execution that was there before.                                        *)
OneHolder ==
  \A p, q \in Procs :
    /\ exec[p] # NoState /\ exec[q] # NoState /\ file # NoState
    /\ exec[p].lease.token = file.lease.token
    /\ exec[q].lease.token = file.lease.token
    => p = q

(* t carries everything s does: its ledger, its exhaustion, its lease or a *)
(* newer one.                                                              *)
Continues(t, s) ==
  /\ IsPrefix(s.ledger, t.ledger)
  /\ s.exhausted => t.exhausted
  /\ s.lease.token <= t.lease.token

(* What a caller was told is recorded survives: everything an Execution    *)
(* holds in memory is in the checkpoint a power loss would leave.          *)
AcknowledgedIsStable ==
  \A p \in Procs : exec[p] # NoState =>
    stable # NoState /\ Continues(stable, exec[p])

(* The candidate of the call in the lock is the checkpoint plus at most    *)
(* one event: no write loses an event another process recorded.            *)
NoLostUpdate ==
  \A p \in Procs : pc[p] \in {"changed", "replace"} /\ file # NoState =>
    /\ Continues(cand[p], file)
    /\ Len(cand[p].ledger) <= Len(file.ledger) + 1

(* A pull request is opened only on a run that has cloned, reproduced the  *)
(* failure before the patch, patched and pushed, each exactly once and in  *)
(* that order, and was authorised to push and to open it.                  *)
RepairOrder ==
  LET chain == <<"clone_completed", "pre_patch_failure_observed",
                 "patch_recorded", "push_recorded", "pull_request_recorded">>
      At(k) == {i \in DOMAIN file.ledger : file.ledger[i].kind = k}
  IN file # NoState =>
       /\ \A n \in 1..5 : Cardinality(At(chain[n])) <= 1
       /\ \A n \in 1..4 : \A j \in At(chain[n + 1]) : \E i \in At(chain[n]) : i < j
       /\ At("push_recorded") # {} => PushAuthorized
       /\ At("pull_request_recorded") # {} => PushAuthorized /\ PRAuthorized

(* A call told "ok" leaves its memory, the checkpoint and the disk         *)
(* agreeing; a retry told "duplicate" finds its own step in the            *)
(* checkpoint, however its first attempt ended.  RecordPage also answers   *)
(* "duplicate" to a page below 1, which is no step and in no checkpoint.   *)
RepliesTruthful ==
  [][/\ reply'.outcome = "ok" => file' = exec'[reply'.proc] /\ stable' = file'
     /\ reply'.outcome = "ErrDuplicateEvent" /\ IsStep(reply'.event) =>
          file' # NoState /\ Has(file'.ledger, reply'.event)]_vars

(* Between two power losses the ledger only grows, by at most one event a  *)
(* step, and exhaustion, once recorded, is never withdrawn.                *)
LedgerAppendOnly ==
  [][file # NoState /\ ~PowerLoss =>
       /\ file' # NoState
       /\ Continues(file', file)
       /\ Len(file'.ledger) <= Len(file.ledger) + 1]_vars

(* Fencing: a step that changes the checkpoint under its lease is a write  *)
(* of the one Execution that holds this lease.  A worker whose lease was   *)
(* taken over writes nothing more, however late it wakes up.               *)
OnlyHolderWrites ==
  [][file # NoState /\ file' # file /\ ~PowerLoss /\ file'.lease = file.lease =>
       \E p \in Procs :
         /\ lock = p
         /\ exec[p] # NoState
         /\ exec[p].lease.token = file.lease.token
         /\ exec[p].lease.worker = file.lease.worker]_vars

(* A lease passes to another worker only once it has expired by the        *)
(* clock, give or take the callers' skew, and always under a newer token.  *)
(* Its holder and its rivals agree about the instant: no write passes the  *)
(* last check of the clock when another worker could have the lease.       *)
LiveLeaseKept ==
  [][/\ file # NoState /\ ~PowerLoss /\ file'.lease # file.lease =>
          /\ file'.lease.token > file.lease.token
          /\ file'.lease.worker # file.lease.worker =>
               clock + Skew >= file.lease.expiresAt
     /\ \A p \in Procs : pc[p] = "changed" /\ pc'[p] = "replace" =>
          \A w \in Workers \ {cand[p].lease.worker} :
            ~LeaseFree(cand[p].lease, w, clock)]_vars

(* An exhausted run records no further page, patch, push or pull request.  *)
ExhaustedIsFinal ==
  [][file # NoState /\ file.exhausted /\ ~PowerLoss =>
       /\ file'.pagesUsed = file.pagesUsed
       /\ file'.writesUsed = file.writesUsed]_vars

(* The checkpoint, seen as the run its workers share.                      *)
RunOf(s) ==
  IF s = NoState THEN NoState
  ELSE [log |-> s.ledger, holder |-> s.lease.worker,
        epoch |-> s.lease.token, spent |-> s.exhausted]

(* No checkpoint is no run.                                                *)
ASSUME NoRunAssumption ==
  NoState \notin [log : Seq(Event), holder : Workers, epoch : Nat, spent : BOOLEAN]

Run == INSTANCE RepairRun
         WITH run <- RunOf(file), safe <- RunOf(stable), NoRun <- NoState

(* Files, locks, clocks and crashes together implement the shared run.     *)
ImplementsRun == Run!RunSpec

=============================================================================
