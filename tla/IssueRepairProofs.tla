------------------------- MODULE IssueRepairProofs -------------------------
(***************************************************************************)
(* Theorems of IssueRepair, for every number of processes, workers, pages, *)
(* writes, tokens and every bound on the clock.                            *)
(***************************************************************************)
EXTENDS IssueRepair, SequenceTheorems, TLAPS

USE DEF InLock

-----------------------------------------------------------------------------
(* The relation between a checkpoint and a later one.                      *)

(* A sequence is a prefix of itself and of itself with one element more.   *)
LEMMA PrefixAppend ==
  ASSUME NEW S, NEW s \in Seq(S), NEW e \in S
  PROVE  /\ IsPrefix(s, s)
         /\ IsPrefix(s, Append(s, e))
BY DEF IsPrefix

(* Being a prefix is transitive.                                           *)
LEMMA PrefixTransitive ==
  ASSUME NEW S, NEW s \in Seq(S), NEW t \in Seq(S), NEW u \in Seq(S),
         IsPrefix(s, t), IsPrefix(t, u)
  PROVE  IsPrefix(s, u)
BY DEF IsPrefix

(* A state carries on from itself.                                         *)
LEMMA ContinuesReflexive ==
  ASSUME NEW s \in State
  PROVE  Continues(s, s)
BY PrefixAppend DEF Continues, State, Lease, IsPrefix

(* Carrying on composes.                                                   *)
LEMMA ContinuesTransitive ==
  ASSUME NEW s \in State, NEW t \in State, NEW u \in State,
         Continues(t, s), Continues(u, t)
  PROVE  Continues(u, s)
<1>1. s.ledger \in Seq(Event) /\ t.ledger \in Seq(Event) /\ u.ledger \in Seq(Event)
  BY DEF State
<1>2. IsPrefix(s.ledger, u.ledger)
  BY <1>1, PrefixTransitive DEF Continues
<1>3. s.exhausted => u.exhausted
  BY DEF Continues
<1>4. s.lease.token \in Nat /\ t.lease.token \in Nat /\ u.lease.token \in Nat
  BY DEF State, Lease
<1>5. s.lease.token <= u.lease.token
  BY <1>4 DEF Continues
<1> QED
  BY <1>2, <1>3, <1>5 DEF Continues

-----------------------------------------------------------------------------
(* What a Record operation does to the state, whichever it is: it refuses  *)
(* and changes nothing, or it takes the lock with a candidate that carries *)
(* on the checkpoint under the same lease.                                 *)

Refused ==
  /\ reply' \in Replies
  /\ UNCHANGED <<file, stable, clock, issued, lock, pc, exec, cand, outcome, req>>

CarriesOn(s) ==
  /\ s \in State
  /\ s.lease = file.lease
  /\ Continues(s, file)
  /\ Len(s.ledger) <= Len(file.ledger) + 1

Submitted(p) ==
  /\ \E s \in State, o \in Outcomes : CarriesOn(s) /\ Submit(p, s, o, "changed")
  /\ UNCHANGED <<file, stable, clock, issued, exec, req>>

(* Refuse answers and changes nothing else.                                *)
LEMMA RefuseShape ==
  ASSUME NEW p \in Procs, NEW o \in Outcomes, NEW e \in Asked \cup {NoEvent},
         Refuse(p, o, e)
  PROVE  Refused
BY DEF Refuse, Reply, Refused, Replies, callVars

(* An exhausted budget carries on from the checkpoint.                     *)
LEMMA ExhaustShape ==
  ASSUME NEW p \in Procs, file \in State, Exhaust(p)
  PROVE  Submitted(p)
<1> DEFINE s == [file EXCEPT !.exhausted = TRUE]
<1>1. s \in State /\ s.lease = file.lease /\ s.ledger = file.ledger /\ s.exhausted
  BY DEF State
<1>2. file.ledger \in Seq(Event) /\ file.lease.token \in Nat
  BY DEF State, Lease
<1>3. CarriesOn(s)
  BY <1>1, <1>2, PrefixAppend DEF CarriesOn, Continues, IsPrefix
<1> QED
  BY <1>1, <1>3 DEF Exhaust, Submitted, Outcomes

(* An event of a ledger is one a call may ask for.                         *)
LEMMA EventAsked == Event \subseteq Asked
BY DEF Event, Asked

(* An appended event carries on from the checkpoint, or is refused.        *)
LEMMA AcceptShape ==
  ASSUME NEW p \in Procs, file \in State, NEW s \in State, NEW e \in Event,
         s.lease = file.lease, s.ledger = file.ledger, s.exhausted = file.exhausted,
         Accept(p, s, e)
  PROVE  Refused \/ Submitted(p)
<1>1. CASE Has(s.ledger, e)
  BY <1>1, RefuseShape, EventAsked DEF Accept, Outcomes
<1>2. CASE ~Has(s.ledger, e)
  <2> DEFINE t == [s EXCEPT !.ledger = Append(@, e), !.stage = StageOf[e.kind]]
  <2>1. file.ledger \in Seq(Event) /\ file.lease.token \in Nat
    BY DEF State, Lease
  <2>2. StageOf[e.kind] \in Stages
    BY DEF Event, Kinds, Stages
  <2>3. t \in State /\ t.lease = file.lease /\ t.exhausted = file.exhausted
        /\ t.ledger = Append(file.ledger, e)
    <3>1. Append(file.ledger, e) \in Seq(Event)
      BY <2>1
    <3> QED
      BY <2>1, <2>2, <3>1 DEF State
  <2>4. Continues(t, file)
    <3>1. IsPrefix(file.ledger, Append(file.ledger, e))
      BY <2>1, PrefixAppend
    <3> HIDE DEF t
    <3> QED
      BY <2>1, <2>3, <3>1 DEF Continues
  <2>5. CarriesOn(t)
    <3> HIDE DEF t
    <3> QED
      BY <2>1, <2>3, <2>4 DEF CarriesOn
  <2> QED
    <3>1. Submit(p, t, "ok", "changed")
      BY <1>2 DEF Accept
    <3>2. UNCHANGED <<file, stable, clock, issued, exec, req>>
      BY <1>2 DEF Accept
    <3> HIDE DEF t
    <3> QED
      BY <2>3, <2>5, <3>1, <3>2 DEF Submitted, Outcomes
<1> QED
  BY <1>1, <1>2

(* Both kinds of change refuse, or submit such a candidate.                *)
LEMMA ChangeShape ==
  ASSUME NEW p \in Procs, file \in State, NEW r \in Outcomes,
         NEW s \in State, NEW e \in Asked, r = "ok" => e \in Event,
         s.lease = file.lease, s.ledger = file.ledger, s.exhausted = file.exhausted,
         \/ Change(p, r, s, e)
         \/ \E left \in BOOLEAN : Charge(p, r, left, s, e)
  PROVE  Refused \/ Submitted(p)
<1>1. CASE Refuse(p, r, e)
  BY <1>1, RefuseShape
<1>2. CASE r = "ok" /\ Accept(p, s, e)
  BY <1>2, AcceptShape
<1>3. CASE Exhaust(p)
  BY <1>3, ExhaustShape
<1> QED
  BY <1>1, <1>2, <1>3 DEF Change, Charge

(* So does each of the six Record operations.                              *)
LEMMA RecordShape ==
  ASSUME NEW p \in Procs, file \in State,
         \/ \E page \in CallerPages : RecordPage(p, page)
         \/ RecordClone(p)
         \/ RecordReproduction(p)
         \/ RecordPatch(p)
         \/ RecordPush(p)
         \/ RecordPR(p)
  PROVE  Refused \/ Submitted(p)
<1> USE DEF Outcomes
<1> USE EventAsked
<1>1. ASSUME NEW page \in CallerPages, RecordPage(p, page)
      PROVE  Refused \/ Submitted(p)
  <2> DEFINE t == [file EXCEPT !.pagesUsed = @ + 1]
             s == [file EXCEPT !.pagesUsed = @ + 1, !.nextPage = @ + 1]
  <2>1. page \in Int
    BY PolicyAssumption DEF CallerPages
  <2>5. PageEvent(page) \in Asked
    BY <2>1 DEF PageEvent, Asked, Kinds, StageOf
  <2>2. s \in State /\ s.lease = file.lease /\ s.ledger = file.ledger
        /\ s.exhausted = file.exhausted
    <3>1. t \in State /\ t.lease = file.lease /\ t.ledger = file.ledger
          /\ t.exhausted = file.exhausted
      BY DEF State
    <3>2. s = [t EXCEPT !.nextPage = file.nextPage + 1]
      BY SMTT(30)
    <3>3. file.nextPage + 1 \in Nat
      BY DEF State
    <3> HIDE DEF t, s
    <3> QED
      BY <3>1, <3>2, <3>3 DEF State
  <2>3. PageRefusal(file, page) \in Outcomes /\ PageBudgetLeft(file) \in BOOLEAN
    BY DEF PageRefusal, PageBudgetLeft
  <2>4. PICK r \in {PageRefusal(file, page), "ErrCheckpointMismatch"} :
          Charge(p, r, PageBudgetLeft(file), s, PageEvent(page))
    BY <1>1 DEF RecordPage
  <2>6. r \in Outcomes
    BY <2>3, <2>4
  <2>7. ASSUME r = "ok"
        PROVE  PageEvent(page) \in Event
    <3>1. PageRefusal(file, page) = "ok"
      BY <2>4, <2>7
    <3>2. file.nextPage \in Nat
      BY DEF State
    <3>3. page = file.nextPage
      BY <2>1, <3>1, <3>2 DEF PageRefusal
    <3> QED
      BY <3>2, <3>3 DEF PageEvent, Event, Kinds, StageOf
  <2> HIDE DEF s, Outcomes
  <2> QED
    BY <2>2, <2>3, <2>4, <2>5, <2>6, <2>7, ChangeShape
<1>2. CASE RecordClone(p)
  <2> DEFINE s == [file EXCEPT !.cloneComplete = TRUE]
             e == PhaseEvent("clone_completed")
  <2>1. e \in Event
    BY DEF PhaseEvent, Event, Kinds, StageOf
  <2>2. s \in State /\ s.lease = file.lease /\ s.ledger = file.ledger
        /\ s.exhausted = file.exhausted
    BY DEF State
  <2>3. PICK answer \in {"ok", "ErrUnsafeWorkspace"} :
          Change(p, CloneRefusal(file, answer), s, e)
    BY <1>2 DEF RecordClone
  <2>4. CloneRefusal(file, answer) \in Outcomes
    BY DEF CloneRefusal
  <2> HIDE DEF s, e, Outcomes
  <2> QED
    BY <2>1, <2>2, <2>3, <2>4, ChangeShape
<1>3. CASE RecordReproduction(p)
  <2> DEFINE s == [file EXCEPT !.reproductionFailed = TRUE]
             e == PhaseEvent("pre_patch_failure_observed")
  <2>1. e \in Event
    BY DEF PhaseEvent, Event, Kinds, StageOf
  <2>2. s \in State /\ s.lease = file.lease /\ s.ledger = file.ledger
        /\ s.exhausted = file.exhausted
    BY DEF State
  <2>3. PICK answer \in {"ok", "ErrUnsafeWorkspace", "ErrReproductionRequired"} :
          Change(p, ReproductionRefusal(file, answer), s, e)
    BY <1>3 DEF RecordReproduction
  <2>4. ReproductionRefusal(file, answer) \in Outcomes
    BY DEF ReproductionRefusal
  <2> HIDE DEF s, e, Outcomes
  <2> QED
    BY <2>1, <2>2, <2>3, <2>4, ChangeShape
<1>4. CASE RecordPatch(p)
  <2> DEFINE t == [file EXCEPT !.writesUsed = @ + 1]
             s == [file EXCEPT !.writesUsed = @ + 1, !.patchRecorded = TRUE]
             e == PhaseEvent("patch_recorded")
  <2>1. e \in Event
    BY DEF PhaseEvent, Event, Kinds, StageOf
  <2>2. s \in State /\ s.lease = file.lease /\ s.ledger = file.ledger
        /\ s.exhausted = file.exhausted
    <3>1. t \in State /\ t.lease = file.lease /\ t.ledger = file.ledger
          /\ t.exhausted = file.exhausted
      BY DEF State
    <3>2. s = [t EXCEPT !.patchRecorded = TRUE]
      OBVIOUS
    <3> HIDE DEF t, s
    <3> QED
      BY <3>1, <3>2 DEF State
  <2>3. PICK answer \in {"ok", "ErrUnsafeWorkspace"} :
          Charge(p, PatchRefusal(file, answer), WriteBudgetLeft(file), s, e)
    BY <1>4 DEF RecordPatch
  <2>4. PatchRefusal(file, answer) \in Outcomes /\ WriteBudgetLeft(file) \in BOOLEAN
    BY DEF PatchRefusal, WriteBudgetLeft
  <2> HIDE DEF s, e, Outcomes
  <2> QED
    BY <2>1, <2>2, <2>3, <2>4, ChangeShape
<1>5. ASSUME NEW k \in {"push_recorded", "pull_request_recorded"},
             NEW r \in Outcomes,
             Charge(p, r, WriteBudgetLeft(file),
                    [file EXCEPT !.writesUsed = @ + 1], PhaseEvent(k))
      PROVE  Refused \/ Submitted(p)
  <2> DEFINE s == [file EXCEPT !.writesUsed = @ + 1]
             e == PhaseEvent(k)
  <2>1. e \in Event
    BY DEF PhaseEvent, Event, Kinds, StageOf
  <2>2. s \in State /\ s.lease = file.lease /\ s.ledger = file.ledger
        /\ s.exhausted = file.exhausted
    BY DEF State
  <2>3. WriteBudgetLeft(file) \in BOOLEAN
    BY DEF WriteBudgetLeft
  <2>4. Charge(p, r, WriteBudgetLeft(file), s, e)
    BY <1>5
  <2> HIDE DEF s, e, Outcomes
  <2> QED
    BY <2>1, <2>2, <2>3, <2>4, ChangeShape
<1>6. CASE RecordPush(p)
  <2>1. PushRefusal(file) \in Outcomes
    BY DEF PushRefusal
  <2> QED
    BY <1>5, <1>6, <2>1 DEF RecordPush
<1>7. CASE RecordPR(p)
  <2>1. PRRefusal(file) \in Outcomes
    BY DEF PRRefusal
  <2> QED
    BY <1>5, <1>7, <2>1 DEF RecordPR
<1> QED
  BY <1>1, <1>2, <1>3, <1>4, <1>6, <1>7

(* mutate admits a call only on an unlocked checkpoint whose lease is the  *)
(* caller's.                                                               *)
LEMMA MutateShape ==
  ASSUME TypeOK, NEW p \in Procs, Mutate(p)
  PROVE  \/ Refused
         \/ /\ Submitted(p)
            /\ pc[p] = "idle" /\ lock = Nobody
            /\ file \in State /\ exec[p] \in State
            /\ LeaseHeld(p)
<1>1. CASE MutateRefusal(p) # "ok"
  <2>1. MutateRefusal(p) \in Outcomes
    BY DEF MutateRefusal, Outcomes
  <2> QED
    BY <1>1, <2>1, RefuseShape DEF Mutate
<1>2. CASE MutateRefusal(p) = "ok"
  <2>1. pc[p] = "idle" /\ exec[p] # NoState
    BY DEF Mutate, Running
  <2>2. lock = Nobody /\ file # NoState /\ LeaseHeld(p)
    BY <1>2 DEF MutateRefusal
  <2>3. file \in State /\ exec[p] \in State
    BY <2>1, <2>2 DEF TypeOK
  <2>4. Refused \/ Submitted(p)
    BY <1>2, <2>3, RecordShape DEF Mutate
  <2> QED
    BY <2>1, <2>2, <2>3, <2>4
<1> QED
  BY <1>1, <1>2

-----------------------------------------------------------------------------
(* Type correctness.                                                       *)

(* Submit keeps the types of what it assigns.                              *)
LEMMA SubmitTyped ==
  ASSUME TypeOK, NEW p \in Procs, NEW s \in State, NEW o \in Outcomes,
         NEW at \in Locations, Submit(p, s, o, at)
  PROVE  /\ lock' \in Procs \cup {Nobody}
         /\ pc' \in [Procs -> Locations]
         /\ cand' \in [Procs -> State \cup {NoState}]
         /\ outcome' \in [Procs -> Outcomes]
         /\ reply' \in Replies \cup {NoReply}
BY DEF TypeOK, Submit

(* Release keeps the types of what it assigns.                             *)
LEMMA ReleaseTyped ==
  ASSUME TypeOK, NEW p \in Procs, NEW o \in Outcomes, Release(p, o)
  PROVE  /\ lock' \in Procs \cup {Nobody}
         /\ pc' \in [Procs -> Locations]
         /\ cand' \in [Procs -> State \cup {NoState}]
         /\ outcome' \in [Procs -> Outcomes]
         /\ reply' \in Replies \cup {NoReply}
BY DEF TypeOK, Release, Reply, Replies, Locations, Outcomes

(* A refusal keeps every type.                                             *)
LEMMA RefusedTyped ==
  ASSUME TypeOK, Refused
  PROVE  TypeOK'
BY DEF TypeOK, Refused

(* A lease newly drawn is a lease.                                         *)
LEMMA NewLeaseTyped ==
  ASSUME TypeOK, NEW p \in Procs, NEW now \in Nat
  PROVE  newLease(WorkerOf[p], now) \in Lease
BY ProcAssumption, PolicyAssumption DEF TypeOK, newLease, Lease

(* The state Open writes is a state, under the lease it was given.         *)
LEMMA NewRunTyped ==
  ASSUME NEW lease \in Lease
  PROVE  /\ NewRun(lease) \in State
         /\ NewRun(lease).lease = lease
<1>1. PhaseEvent("run_created") \in Event
  BY DEF PhaseEvent, Event, Kinds, StageOf
<1>2. <<PhaseEvent("run_created")>> \in Seq(Event)
  BY <1>1
<1>3. "created" \in Stages
  BY DEF Stages, Kinds, StageOf
<1> QED
  BY <1>2, <1>3 DEF NewRun, State

(* Renewing the lease changes nothing but the lease.                       *)
LEMMA RenewedTyped ==
  ASSUME NEW s \in State, NEW lease \in Lease
  PROVE  /\ [s EXCEPT !.lease = lease] \in State
         /\ [s EXCEPT !.lease = lease].lease = lease
         /\ [s EXCEPT !.lease = lease].ledger = s.ledger
         /\ [s EXCEPT !.lease = lease].exhausted = s.exhausted
BY DEF State

(* Every step keeps the types.                                             *)
LEMMA TypeStep == TypeOK /\ [Next]_vars => TypeOK'
<1> SUFFICES ASSUME TypeOK, [Next]_vars
             PROVE  TypeOK'
  OBVIOUS
<1>1. ASSUME NEW p \in Procs, NEW now \in CallerTimes, Open(p, now)
      PROVE  TypeOK'
  <2>1. OpenRefusal \in Outcomes /\ PhaseEvent("run_created") \in Event
    BY DEF OpenRefusal, Outcomes, PhaseEvent, Event, Kinds, StageOf
  <2>2. CASE OpenRefusal # "ok"
    BY <1>1, <2>1, <2>2, EventAsked, RefuseShape, RefusedTyped DEF Open
  <2>3. CASE OpenRefusal = "ok"
    <3>1. now \in Nat
      BY BoundAssumption DEF CallerTimes, TypeOK
    <3>2. NewRun(newLease(WorkerOf[p], now)) \in State
      BY <3>1, NewLeaseTyped, NewRunTyped
    <3>3. Submit(p, NewRun(newLease(WorkerOf[p], now)), "ok", "replace")
      BY <1>1, <2>3 DEF Open
    <3>4. "ok" \in Outcomes /\ "replace" \in Locations
      BY DEF Outcomes, Locations
    <3>5. issued' \in Nat /\ UNCHANGED <<file, stable, clock, exec, req>>
      BY <1>1, <2>3 DEF Open, TypeOK
    <3> QED
      BY <3>2, <3>3, <3>4, <3>5, SubmitTyped DEF TypeOK
  <2> QED
    BY <2>2, <2>3
<1>2. ASSUME NEW p \in Procs, NEW token \in 1..issued, ResumeRead(p, token)
      PROVE  TypeOK'
  <2>1. ResumeRefusal(token) \in Outcomes
    BY DEF ResumeRefusal, Outcomes
  <2>2. CASE ResumeRefusal(token) # "ok"
    BY <1>2, <2>1, <2>2, RefuseShape, RefusedTyped DEF ResumeRead
  <2>3. CASE ResumeRefusal(token) = "ok"
    <3>1. PICK now \in CallerTimes :
            req' = [req EXCEPT ![p] = [now |-> now, token |-> token]]
      BY <1>2, <2>3 DEF ResumeRead
    <3>2. now \in Nat /\ token \in Nat
      BY BoundAssumption DEF CallerTimes, TypeOK
    <3> QED
      BY <1>2, <2>3, <3>1, <3>2 DEF ResumeRead, TypeOK, Locations
  <2> QED
    BY <2>2, <2>3
<1>3. ASSUME NEW p \in Procs, ResumeLocked(p)
      PROVE  TypeOK'
  <2>1. LockedRefusal(p) \in Outcomes
    BY DEF LockedRefusal, ResumeRefusal, Outcomes
  <2>2. req' \in [Procs -> [now : Nat, token : Nat]]
    BY <1>3 DEF ResumeLocked, NoRequest, TypeOK
  <2>3. CASE LockedRefusal(p) # "ok"
    BY <1>3, <2>1, <2>2, <2>3
    DEF ResumeLocked, Reply, TypeOK, Replies, Locations, InLock
  <2>4. CASE LockedRefusal(p) = "ok"
    <3>1. file \in State
      BY <2>4 DEF LockedRefusal, ResumeRefusal, TypeOK
    <3>2. req[p].now \in Nat
      BY DEF TypeOK
    <3>3. [file EXCEPT !.lease = newLease(WorkerOf[p], req[p].now)] \in State
      BY <3>1, <3>2, NewLeaseTyped, RenewedTyped
    <3>4. Submit(p, [file EXCEPT !.lease = newLease(WorkerOf[p], req[p].now)],
                 "ok", "replace")
      BY <1>3, <2>4 DEF ResumeLocked
    <3>5. "ok" \in Outcomes /\ "replace" \in Locations
      BY DEF Outcomes, Locations
    <3>6. issued' \in Nat /\ UNCHANGED <<file, stable, clock, exec>>
      BY <1>3, <2>4 DEF ResumeLocked, TypeOK
    <3> QED
      BY <2>2, <3>3, <3>4, <3>5, <3>6, SubmitTyped DEF TypeOK
  <2> QED
    BY <2>3, <2>4
<1>4. ASSUME NEW p \in Procs, Mutate(p)
      PROVE  TypeOK'
  <2>1. CASE Refused
    BY <2>1, RefusedTyped
  <2>2. CASE Submitted(p)
    <3>1. PICK s \in State, o \in Outcomes : Submit(p, s, o, "changed")
      BY <2>2 DEF Submitted
    <3>2. "changed" \in Locations
      BY DEF Locations
    <3> QED
      BY <2>2, <3>1, <3>2, SubmitTyped DEF Submitted, TypeOK
  <2> QED
    BY <1>4, <2>1, <2>2, MutateShape
<1>5. ASSUME NEW p \in Procs, Persist(p)
      PROVE  TypeOK'
  <2> USE DEF TypeOK, Outcomes, Locations
  <2>1. CASE Recheck(p)
    BY <1>5, <2>1, ReleaseTyped DEF Recheck
  <2>2. CASE Oversize(p)
    BY <2>2, ReleaseTyped DEF Oversize
  <2>3. CASE WriteFails(p)
    BY <2>3, ReleaseTyped DEF WriteFails
  <2>4. CASE Rename(p)
    BY <2>4 DEF Rename
  <2>5. CASE SyncDirectory(p)
    BY <2>5, ReleaseTyped DEF SyncDirectory
  <2>6. CASE SyncFails(p)
    BY <2>6, ReleaseTyped DEF SyncFails
  <2> QED
    BY <1>5, <2>1, <2>2, <2>3, <2>4, <2>5, <2>6 DEF Persist
<1>6. ASSUME NEW p \in Procs, Crash(p)
      PROVE  TypeOK'
  BY <1>6 DEF Crash, TypeOK, NoRequest, Locations, Outcomes
<1>7. CASE Tick
  BY <1>7 DEF Tick, TypeOK
<1>8. CASE Writeback
  BY <1>8 DEF Writeback, TypeOK
<1>9. CASE PowerLoss
  BY <1>9 DEF PowerLoss, TypeOK, NoRequest, Locations, Outcomes
<1>10. CASE UNCHANGED vars
  BY <1>10 DEF vars, TypeOK
<1> QED
  BY <1>1, <1>2, <1>3, <1>4, <1>5, <1>6, <1>7, <1>8, <1>9, <1>10 DEF Next, Acquire

(* The types hold at the start.                                            *)
LEMMA TypeInit == Init => TypeOK
BY DEF Init, TypeOK, NoRequest, Locations, Outcomes

(* Every value a run of the system can hold is of its type, and so is      *)
(* every checkpoint it writes.                                             *)
THEOREM TypeCorrect == Spec => []TypeOK
BY TypeInit, TypeStep, PTL DEF Spec

-----------------------------------------------------------------------------
(* The inductive invariant, in three layers: who is in the lock, which     *)
(* lease each party holds, and what each checkpoint carries.               *)

CandidateInLock ==
  \A p \in Procs : pc[p] \in InLock => cand[p] # NoState

(* After the rename, the checkpoint is the renamer's candidate.            *)
RenamedIsFile ==
  \A p \in Procs : pc[p] = "sync" => file = cand[p]

LockInv == LockDiscipline /\ CandidateInLock /\ RenamedIsFile

(* No token is drawn twice.                                                *)
TokensDrawn ==
  /\ file # NoState => file.lease.token <= issued
  /\ stable # NoState => stable.lease.token <= issued
  /\ \A p \in Procs : exec[p] # NoState => exec[p].lease.token <= issued
  /\ \A p \in Procs : cand[p] # NoState => cand[p].lease.token <= issued

TokensDistinct ==
  \A p, q \in Procs :
    exec[p] # NoState /\ exec[q] # NoState
      /\ exec[p].lease.token = exec[q].lease.token => p = q

(* A Resume carries a time no later than the clock and the skew.           *)
RequestTimes ==
  \A p \in Procs : pc[p] = "resuming" => req[p].now <= clock + Skew

(* The candidate of a mutate is under the lease of its own Execution,      *)
(* which is the checkpoint's lease until the rename.                       *)
OwnLease(p) ==
  /\ exec[p] # NoState
  /\ exec[p].lease.token = cand[p].lease.token
  /\ exec[p].lease.worker = cand[p].lease.worker
  /\ pc[p] # "sync" => file # NoState /\ file.lease = cand[p].lease

(* The candidate of an Open or a Resume is under a lease nobody has had,   *)
(* and takes over only an expired one.                                     *)
FreshLease(p) ==
  /\ \A q \in Procs : exec[q] # NoState => exec[q].lease.token # cand[p].lease.token
  /\ pc[p] # "sync" /\ file # NoState =>
       /\ file.lease.token < cand[p].lease.token
       /\ file.lease.worker # cand[p].lease.worker => clock + Skew >= file.lease.expiresAt

CandidateLease ==
  \A p \in Procs : pc[p] \in InLock => OwnLease(p) \/ FreshLease(p)

LeaseInv == TokensDrawn /\ TokensDistinct /\ RequestTimes /\ CandidateLease

(* What is on the disk is not ahead of what readers see.                   *)
StableBehind ==
  stable # NoState => file # NoState /\ Continues(file, stable)

LedgerInv == NoLostUpdate /\ StableBehind /\ AcknowledgedIsStable

IndInv == TypeOK /\ LockInv /\ LeaseInv /\ LedgerInv

-----------------------------------------------------------------------------
(* Who is in the lock.                                                     *)

(* A free lock means nobody is in it.                                      *)
LEMMA NobodyInLock ==
  ASSUME TypeOK, LockInv, lock = Nobody
  PROVE  \A p \in Procs : pc[p] \notin InLock
BY ProcAssumption DEF LockInv, LockDiscipline

(* Whoever is in the lock is there alone.                                  *)
LEMMA OneInLock ==
  ASSUME TypeOK, LockInv, NEW p \in Procs, pc[p] \in InLock
  PROVE  /\ lock = p
         /\ \A q \in Procs : q # p => pc[q] \notin InLock
BY DEF LockInv, LockDiscipline

(* Taking the free lock with a candidate keeps the lock layer.             *)
LEMMA SubmitLock ==
  ASSUME TypeOK, LockInv, lock = Nobody, NEW p \in Procs, NEW s \in State, NEW o,
         NEW at \in {"changed", "replace"}, Submit(p, s, o, at)
  PROVE  LockInv'
<1>1. \A q \in Procs : pc[q] \notin InLock
  BY NobodyInLock
<1>2. /\ lock' = p
      /\ pc' = [pc EXCEPT ![p] = at]
      /\ cand' = [cand EXCEPT ![p] = s]
  BY DEF Submit
<1>3. LockDiscipline'
  BY <1>1, <1>2 DEF LockDiscipline, TypeOK
<1>4. CandidateInLock'
  BY <1>1, <1>2, NoStateAssumption DEF CandidateInLock, TypeOK
<1>5. RenamedIsFile'
  BY <1>1, <1>2 DEF RenamedIsFile, TypeOK
<1> QED
  BY <1>3, <1>4, <1>5 DEF LockInv

(* Giving the lock back keeps the lock layer.                              *)
LEMMA ReleaseLock ==
  ASSUME TypeOK, LockInv, NEW p \in Procs, NEW o, pc[p] \in InLock,
         Release(p, o), UNCHANGED file
  PROVE  LockInv'
<1>1. lock = p /\ \A q \in Procs : q # p => pc[q] \notin InLock
  BY OneInLock
<1>2. \A q \in Procs : pc'[q] \notin InLock
  BY <1>1 DEF Release, TypeOK
<1>3. lock' = Nobody
  BY DEF Release
<1> QED
  BY <1>2, <1>3, ProcAssumption
  DEF LockInv, LockDiscipline, CandidateInLock, RenamedIsFile

(* Steps that leave the lock, the file, the candidates and everybody in    *)
(* the lock where they were.                                               *)
LEMMA QuietLock ==
  ASSUME LockInv, UNCHANGED <<file, lock, cand>>,
         \A p \in Procs : pc'[p] \in InLock \/ pc[p] \in InLock => pc'[p] = pc[p]
  PROVE  LockInv'
<1>1. LockDiscipline'
  BY DEF LockInv, LockDiscipline
<1>2. CandidateInLock'
  BY DEF LockInv, CandidateInLock
<1>3. RenamedIsFile'
  BY DEF LockInv, RenamedIsFile
<1> QED
  BY <1>1, <1>2, <1>3 DEF LockInv

(* Every step keeps the lock layer.                                        *)
LEMMA LockStep == TypeOK /\ LockInv /\ [Next]_vars => LockInv'
<1> SUFFICES ASSUME TypeOK, LockInv, [Next]_vars
             PROVE  LockInv'
  OBVIOUS
<1>1. ASSUME NEW p \in Procs, NEW now \in CallerTimes, Open(p, now)
      PROVE  LockInv'
  <2>1. CASE OpenRefusal # "ok"
    BY <1>1, <2>1, QuietLock DEF Open, Refuse, callVars
  <2>2. CASE OpenRefusal = "ok"
    <3>1. lock = Nobody
      BY <2>2 DEF OpenRefusal
    <3>2. now \in Nat
      BY BoundAssumption DEF CallerTimes, TypeOK
    <3>3. NewRun(newLease(WorkerOf[p], now)) \in State
      BY <3>2, NewLeaseTyped, NewRunTyped
    <3> QED
      BY <1>1, <2>2, <3>1, <3>3, SubmitLock DEF Open
  <2> QED
    BY <2>1, <2>2
<1>2. ASSUME NEW p \in Procs, NEW token \in 1..issued, ResumeRead(p, token)
      PROVE  LockInv'
  <2>1. pc' = pc \/ pc' = [pc EXCEPT ![p] = "resuming"]
    BY <1>2 DEF ResumeRead, Refuse, callVars
  <2>2. UNCHANGED <<file, lock, cand>> /\ pc[p] = "idle"
    BY <1>2 DEF ResumeRead, Refuse, callVars
  <2> QED
    BY <2>1, <2>2, QuietLock DEF TypeOK
<1>3. ASSUME NEW p \in Procs, ResumeLocked(p)
      PROVE  LockInv'
  <2>1. CASE LockedRefusal(p) # "ok"
    <3>1. pc' = [pc EXCEPT ![p] = "idle"] /\ pc[p] = "resuming"
      BY <1>3, <2>1 DEF ResumeLocked
    <3>2. UNCHANGED <<file, lock, cand>>
      BY <1>3, <2>1 DEF ResumeLocked
    <3> QED
      BY <3>1, <3>2, QuietLock DEF TypeOK
  <2>2. CASE LockedRefusal(p) = "ok"
    <3>1. lock = Nobody /\ file \in State
      BY <2>2 DEF LockedRefusal, ResumeRefusal, TypeOK
    <3>2. req[p].now \in Nat
      BY DEF TypeOK
    <3>3. [file EXCEPT !.lease = newLease(WorkerOf[p], req[p].now)] \in State
      BY <3>1, <3>2, NewLeaseTyped, RenewedTyped
    <3> QED
      BY <1>3, <2>2, <3>1, <3>3, SubmitLock DEF ResumeLocked
  <2> QED
    BY <2>1, <2>2
<1>4. ASSUME NEW p \in Procs, Mutate(p)
      PROVE  LockInv'
  <2>1. CASE Refused
    BY <2>1, QuietLock DEF Refused
  <2>2. CASE Submitted(p) /\ lock = Nobody
    BY <2>2, SubmitLock DEF Submitted
  <2> QED
    BY <1>4, <2>1, <2>2, MutateShape
<1>5. ASSUME NEW p \in Procs, Persist(p)
      PROVE  LockInv'
  <2>1. CASE /\ Recheck(p)
             /\ pc' = [pc EXCEPT ![p] = "replace"]
             /\ UNCHANGED <<lock, cand, outcome>>
    <3>1. pc[p] = "changed" /\ pc' = [pc EXCEPT ![p] = "replace"]
          /\ UNCHANGED <<file, lock, cand>>
      BY <2>1 DEF Recheck
    <3>2. LockDiscipline' /\ CandidateInLock' /\ RenamedIsFile'
      BY <3>1 DEF LockInv, LockDiscipline, CandidateInLock, RenamedIsFile, TypeOK
    <3> QED
      BY <3>2 DEF LockInv
  <2>2. CASE Recheck(p) /\ Release(p, "ErrLeaseConflict")
    BY <2>2, ReleaseLock DEF Recheck
  <2>3. CASE Oversize(p)
    BY <2>3, ReleaseLock DEF Oversize
  <2>4. CASE WriteFails(p)
    BY <2>4, ReleaseLock DEF WriteFails
  <2>5. CASE Rename(p)
    <3>1. pc[p] = "replace" /\ pc' = [pc EXCEPT ![p] = "sync"]
          /\ file' = cand[p] /\ UNCHANGED <<lock, cand>>
      BY <2>5 DEF Rename
    <3>2. \A q \in Procs : q # p => pc[q] \notin InLock
      BY <3>1, OneInLock
    <3>3. LockDiscipline' /\ CandidateInLock' /\ RenamedIsFile'
      BY <3>1, <3>2 DEF LockInv, LockDiscipline, CandidateInLock, RenamedIsFile, TypeOK
    <3> QED
      BY <3>3 DEF LockInv
  <2>6. CASE SyncDirectory(p)
    BY <2>6, ReleaseLock DEF SyncDirectory
  <2>7. CASE SyncFails(p)
    BY <2>7, ReleaseLock DEF SyncFails
  <2> QED
    BY <1>5, <2>1, <2>2, <2>3, <2>4, <2>5, <2>6, <2>7 DEF Persist, Recheck
<1>6. ASSUME NEW p \in Procs, Crash(p)
      PROVE  LockInv'
  <2>1. /\ lock' = IF lock = p THEN Nobody ELSE lock
        /\ pc' = [pc EXCEPT ![p] = "idle"]
        /\ cand' = [cand EXCEPT ![p] = NoState]
        /\ file' = file
    BY <1>6 DEF Crash
  <2>2. LockDiscipline'
    BY <2>1, ProcAssumption DEF LockInv, LockDiscipline, TypeOK
  <2>3. CandidateInLock'
    BY <2>1 DEF LockInv, CandidateInLock, TypeOK
  <2>4. RenamedIsFile'
    BY <2>1 DEF LockInv, RenamedIsFile, TypeOK
  <2> QED
    BY <2>2, <2>3, <2>4 DEF LockInv
<1>7. CASE Tick
  BY <1>7, QuietLock DEF Tick
<1>8. CASE Writeback
  BY <1>8, QuietLock DEF Writeback
<1>9. CASE PowerLoss
  BY <1>9, ProcAssumption
  DEF PowerLoss, LockInv, LockDiscipline, CandidateInLock, RenamedIsFile
<1>10. CASE UNCHANGED vars
  BY <1>10, QuietLock DEF vars
<1> QED
  BY <1>1, <1>2, <1>3, <1>4, <1>5, <1>6, <1>7, <1>8, <1>9, <1>10 DEF Next, Acquire

-----------------------------------------------------------------------------
(* Which lease each party holds.                                           *)

(* Steps that draw no token and rename nothing: a process keeps what it    *)
(* has, or drops it with its place in the lock.                            *)
LEMMA QuietLease ==
  ASSUME TypeOK, LeaseInv, TypeOK',
         UNCHANGED <<file, issued>>, stable' \in {stable, file}, clock <= clock',
         \A p \in Procs :
           \/ exec'[p] = exec[p] /\ cand'[p] = cand[p]
           \/ /\ pc'[p] \notin InLock
              /\ exec'[p] \in {exec[p], NoState}
              /\ cand'[p] \in {cand[p], NoState},
         \A p \in Procs : pc'[p] \in InLock =>
           pc[p] \in InLock /\ (pc[p] = "sync" => pc'[p] = "sync"),
         \A p \in Procs : pc'[p] = "resuming" => req'[p].now <= clock' + Skew
  PROVE  LeaseInv'
<1>1. TokensDrawn'
  BY DEF LeaseInv, TokensDrawn
<1>2. TokensDistinct'
  BY DEF LeaseInv, TokensDistinct
<1>3. RequestTimes'
  BY DEF RequestTimes
<1>4. ASSUME NEW p \in Procs, pc'[p] \in InLock
      PROVE  OwnLease(p)' \/ FreshLease(p)'
  <2>1. exec'[p] = exec[p] /\ cand'[p] = cand[p] /\ pc[p] \in InLock
        /\ (pc'[p] # "sync" => pc[p] # "sync")
    BY <1>4
  <2>2. CASE OwnLease(p)
    BY <2>1, <2>2 DEF OwnLease
  <2>3. CASE FreshLease(p)
    <3>1. \A q \in Procs : exec'[q] # NoState =>
            exec'[q].lease.token # cand'[p].lease.token
      BY <2>1, <2>3 DEF FreshLease
    <3>2. clock \in Nat /\ clock' \in Nat
      BY DEF TypeOK
    <3>3. ASSUME file # NoState
          PROVE  file.lease.expiresAt \in Nat
      BY <3>3 DEF TypeOK, State, Lease
    <3>4. ASSUME pc'[p] # "sync", file # NoState
          PROVE  /\ file.lease.token < cand'[p].lease.token
                 /\ file.lease.worker # cand'[p].lease.worker =>
                      clock' + Skew >= file.lease.expiresAt
      BY <2>1, <2>3, <3>2, <3>3, <3>4, BoundAssumption DEF FreshLease
    <3> QED
      BY <3>1, <3>4 DEF FreshLease
  <2> QED
    BY <2>1, <2>2, <2>3 DEF LeaseInv, CandidateLease
<1> QED
  BY <1>1, <1>2, <1>3, <1>4 DEF LeaseInv, CandidateLease

(* A newly drawn token is newer than any lease in the system.              *)
LEMMA DrawLease ==
  ASSUME TypeOK, LockInv, LeaseInv, lock = Nobody, TypeOK',
         NEW p \in Procs, NEW s \in State,
         s.lease.token = issued + 1, issued' = issued + 1,
         file # NoState /\ file.lease.worker # s.lease.worker =>
           clock + Skew >= file.lease.expiresAt,
         Submit(p, s, "ok", "replace"),
         UNCHANGED <<file, stable, clock, exec>>,
         \A q \in Procs : pc'[q] = "resuming" => req'[q] = req[q]
  PROVE  LeaseInv'
<1>1. /\ pc' = [pc EXCEPT ![p] = "replace"]
      /\ cand' = [cand EXCEPT ![p] = s]
  BY DEF Submit
<1>2. issued \in Nat
  BY DEF TypeOK
<1>3. file # NoState => file.lease.token \in Nat /\ file.lease.token <= issued
  BY DEF LeaseInv, TokensDrawn, TypeOK, State, Lease
<1>4. stable # NoState => stable.lease.token \in Nat /\ stable.lease.token <= issued
  BY DEF LeaseInv, TokensDrawn, TypeOK, State, Lease
<1>5. \A q \in Procs : exec[q] # NoState =>
        exec[q].lease.token \in Nat /\ exec[q].lease.token <= issued
  BY DEF LeaseInv, TokensDrawn, TypeOK, State, Lease
<1>6. \A q \in Procs : cand[q] # NoState =>
        cand[q].lease.token \in Nat /\ cand[q].lease.token <= issued
  BY DEF LeaseInv, TokensDrawn, TypeOK, State, Lease
<1>7. TokensDrawn'
  <2>1. \A q \in Procs : cand'[q] # NoState => cand'[q].lease.token <= issued'
    BY <1>1, <1>2, <1>6 DEF TypeOK
  <2> QED
    BY <1>2, <1>3, <1>4, <1>5, <2>1 DEF TokensDrawn
<1>8. TokensDistinct'
  BY DEF LeaseInv, TokensDistinct
<1>9. RequestTimes'
  BY <1>1 DEF LeaseInv, RequestTimes, TypeOK
<1>10. FreshLease(p)'
  <2>1. cand'[p] = s
    BY <1>1 DEF TypeOK
  <2>2. \A q \in Procs : exec'[q] # NoState => exec'[q].lease.token # s.lease.token
    BY <1>2, <1>5
  <2>3. file # NoState => file.lease.token < s.lease.token
    BY <1>2, <1>3
  <2> QED
    BY <2>1, <2>2, <2>3 DEF FreshLease
<1>11. \A q \in Procs : q # p => pc'[q] \notin InLock
  BY <1>1, NobodyInLock DEF TypeOK
<1> QED
  BY <1>7, <1>8, <1>9, <1>10, <1>11 DEF LeaseInv, CandidateLease

(* Every step keeps the lease layer: a drawn token is new, a mutate keeps  *)
(* its own, and a crash takes the candidate and the lease it held away.    *)
LEMMA LeaseStep == TypeOK /\ LockInv /\ LeaseInv /\ [Next]_vars => LeaseInv'
<1> SUFFICES ASSUME TypeOK, LockInv, LeaseInv, [Next]_vars
             PROVE  LeaseInv'
  OBVIOUS
<1> TypeOK'
  BY TypeStep
<1> clock \in Nat /\ issued \in Nat
  BY DEF TypeOK
<1>1. ASSUME NEW p \in Procs, NEW now \in CallerTimes, Open(p, now)
      PROVE  LeaseInv'
  <2>1. CASE OpenRefusal # "ok"
    BY <1>1, <2>1, QuietLease DEF Open, Refuse, callVars, LeaseInv, RequestTimes
  <2>2. CASE OpenRefusal = "ok"
    <3> DEFINE s == NewRun(newLease(WorkerOf[p], now))
    <3>1. lock = Nobody /\ file = NoState
      BY <2>2 DEF OpenRefusal
    <3>2. now \in Nat
      BY BoundAssumption DEF CallerTimes, TypeOK
    <3>3. s \in State /\ s.lease = newLease(WorkerOf[p], now)
      BY <3>2, NewLeaseTyped, NewRunTyped
    <3>4. s.lease.token = issued + 1
      BY <3>3 DEF newLease
    <3>5. /\ Submit(p, s, "ok", "replace")
          /\ issued' = issued + 1
          /\ UNCHANGED <<file, stable, clock, exec, req>>
      BY <1>1, <2>2 DEF Open
    <3> HIDE DEF s
    <3> QED
      BY <3>1, <3>3, <3>4, <3>5, DrawLease
  <2> QED
    BY <2>1, <2>2
<1>2. ASSUME NEW p \in Procs, NEW token \in 1..issued, ResumeRead(p, token)
      PROVE  LeaseInv'
  <2>1. CASE ResumeRefusal(token) # "ok"
    BY <1>2, <2>1, QuietLease DEF ResumeRead, Refuse, callVars, LeaseInv, RequestTimes
  <2>2. CASE ResumeRefusal(token) = "ok"
    <3>1. /\ pc[p] = "idle"
          /\ pc' = [pc EXCEPT ![p] = "resuming"]
          /\ UNCHANGED <<file, stable, clock, issued, lock, exec, cand, outcome>>
      BY <1>2, <2>2 DEF ResumeRead
    <3>2. PICK now \in CallerTimes :
            req' = [req EXCEPT ![p] = [now |-> now, token |-> token]]
      BY <1>2, <2>2 DEF ResumeRead
    <3>3. now <= clock + Skew
      BY BoundAssumption DEF CallerTimes
    <3>4. \A q \in Procs : pc'[q] = "resuming" => req'[q].now <= clock' + Skew
      BY <3>1, <3>2, <3>3 DEF LeaseInv, RequestTimes, TypeOK
    <3>5. \A q \in Procs : pc'[q] \in InLock => pc'[q] = pc[q]
      BY <3>1 DEF TypeOK
    <3> QED
      BY <3>1, <3>4, <3>5, QuietLease
  <2> QED
    BY <2>1, <2>2
<1>3. ASSUME NEW p \in Procs, ResumeLocked(p)
      PROVE  LeaseInv'
  <2>1. pc[p] = "resuming" /\ req' = [req EXCEPT ![p] = NoRequest]
    BY <1>3 DEF ResumeLocked
  <2>2. CASE LockedRefusal(p) # "ok"
    <3>1. /\ pc' = [pc EXCEPT ![p] = "idle"]
          /\ UNCHANGED <<file, stable, clock, issued, lock, exec, cand, outcome>>
      BY <1>3, <2>2 DEF ResumeLocked
    <3>2. \A q \in Procs : pc'[q] = "resuming" => req'[q].now <= clock' + Skew
      BY <2>1, <3>1 DEF LeaseInv, RequestTimes, TypeOK
    <3>3. \A q \in Procs : pc'[q] \in InLock => pc'[q] = pc[q]
      BY <3>1 DEF TypeOK
    <3> QED
      BY <3>1, <3>2, <3>3, QuietLease
  <2>3. CASE LockedRefusal(p) = "ok"
    <3> DEFINE s == [file EXCEPT !.lease = newLease(WorkerOf[p], req[p].now)]
    <3>1. /\ lock = Nobody
          /\ file \in State
          /\ LeaseFree(file.lease, WorkerOf[p], req[p].now)
      BY <2>3 DEF LockedRefusal, ResumeRefusal, TypeOK
    <3>2. req[p].now \in Nat /\ req[p].now <= clock + Skew
      BY <2>1 DEF TypeOK, LeaseInv, RequestTimes
    <3>3. s \in State /\ s.lease = newLease(WorkerOf[p], req[p].now)
      BY <3>1, <3>2, NewLeaseTyped, RenewedTyped
    <3>4. s.lease.token = issued + 1 /\ s.lease.worker = WorkerOf[p]
      BY <3>3 DEF newLease
    <3>5. file.lease.worker # s.lease.worker => clock + Skew >= file.lease.expiresAt
      <4>1. file.lease.expiresAt \in Nat
        BY <3>1 DEF State, Lease
      <4> QED
        BY <3>1, <3>2, <3>4, <4>1, BoundAssumption DEF LeaseFree
    <3>6. /\ Submit(p, s, "ok", "replace")
          /\ issued' = issued + 1
          /\ UNCHANGED <<file, stable, clock, exec>>
      BY <1>3, <2>3 DEF ResumeLocked
    <3>7. \A q \in Procs : pc'[q] = "resuming" => req'[q] = req[q]
      BY <2>1, <3>6 DEF Submit, TypeOK
    <3> HIDE DEF s
    <3> QED
      BY <3>1, <3>3, <3>4, <3>5, <3>6, <3>7, DrawLease
  <2> QED
    BY <2>2, <2>3
<1>4. ASSUME NEW p \in Procs, Mutate(p)
      PROVE  LeaseInv'
  <2>1. CASE Refused
    BY <2>1, QuietLease DEF Refused, LeaseInv, RequestTimes
  <2>2. CASE /\ Submitted(p) /\ pc[p] = "idle" /\ lock = Nobody
             /\ file \in State /\ exec[p] \in State /\ LeaseHeld(p)
    <3>1. PICK s \in State, o \in Outcomes :
            CarriesOn(s) /\ Submit(p, s, o, "changed")
      BY <2>2 DEF Submitted
    <3>2. /\ pc' = [pc EXCEPT ![p] = "changed"]
          /\ cand' = [cand EXCEPT ![p] = s]
          /\ UNCHANGED <<file, stable, clock, issued, exec, req>>
      BY <2>2, <3>1 DEF Submit, Submitted
    <3>3. s.lease = file.lease
      BY <3>1 DEF CarriesOn
    <3>4. TokensDrawn'
      <4>1. \A q \in Procs : cand'[q] # NoState => cand'[q].lease.token <= issued'
        BY <2>2, <3>2, <3>3, NoStateAssumption DEF LeaseInv, TokensDrawn, TypeOK
      <4> QED
        BY <3>2, <4>1 DEF LeaseInv, TokensDrawn
    <3>5. TokensDistinct' /\ RequestTimes'
      BY <3>2 DEF LeaseInv, TokensDistinct, RequestTimes, TypeOK
    <3>6. OwnLease(p)'
      BY <2>2, <3>2, <3>3, NoStateAssumption DEF OwnLease, LeaseHeld, TypeOK
    <3>7. \A q \in Procs : q # p => pc'[q] \notin InLock
      BY <2>2, <3>2, NobodyInLock DEF TypeOK
    <3> QED
      BY <3>4, <3>5, <3>6, <3>7 DEF LeaseInv, CandidateLease
  <2> QED
    BY <1>4, <2>1, <2>2, MutateShape
<1>5. ASSUME NEW p \in Procs, NEW o, pc[p] \in InLock, Release(p, o),
             UNCHANGED <<file, stable, clock, issued, exec, req>>
      PROVE  LeaseInv'
  <2>1. /\ pc' = [pc EXCEPT ![p] = "idle"]
        /\ cand' = [cand EXCEPT ![p] = NoState]
    BY <1>5 DEF Release
  <2>2. \A q \in Procs : pc'[q] = "resuming" => req'[q].now <= clock' + Skew
    BY <1>5, <2>1 DEF LeaseInv, RequestTimes, TypeOK
  <2>3. \A q \in Procs :
          \/ exec'[q] = exec[q] /\ cand'[q] = cand[q]
          \/ pc'[q] \notin InLock /\ exec'[q] = exec[q] /\ cand'[q] \in {cand[q], NoState}
    BY <1>5, <2>1 DEF TypeOK
  <2>4. \A q \in Procs : pc'[q] \in InLock => pc'[q] = pc[q]
    BY <2>1 DEF TypeOK
  <2> QED
    BY <1>5, <2>2, <2>3, <2>4, QuietLease
<1>6. ASSUME NEW p \in Procs, Rename(p)
      PROVE  LeaseInv'
  <2>1. /\ pc[p] = "replace"
        /\ pc' = [pc EXCEPT ![p] = "sync"]
        /\ file' = cand[p]
        /\ UNCHANGED <<stable, clock, issued, lock, exec, cand, outcome, req>>
    BY <1>6 DEF Rename
  <2>2. TokensDrawn'
    BY <2>1 DEF LeaseInv, TokensDrawn
  <2>3. TokensDistinct' /\ RequestTimes'
    BY <2>1 DEF LeaseInv, TokensDistinct, RequestTimes, TypeOK
  <2>4. OwnLease(p)' \/ FreshLease(p)'
    BY <2>1 DEF LeaseInv, CandidateLease, OwnLease, FreshLease, TypeOK
  <2>5. \A q \in Procs : q # p => pc'[q] \notin InLock
    BY <2>1, OneInLock DEF TypeOK
  <2> QED
    BY <2>2, <2>3, <2>4, <2>5 DEF LeaseInv, CandidateLease
<1>7. ASSUME NEW p \in Procs, SyncDirectory(p)
      PROVE  LeaseInv'
  <2>1. /\ pc[p] = "sync"
        /\ stable' = file
        /\ exec' = [exec EXCEPT ![p] = cand[p]]
        /\ pc' = [pc EXCEPT ![p] = "idle"]
        /\ cand' = [cand EXCEPT ![p] = NoState]
        /\ UNCHANGED <<file, clock, issued, req>>
    BY <1>7 DEF SyncDirectory, Release
  <2>2. TokensDrawn'
    <3>1. \A q \in Procs : exec'[q] # NoState => exec'[q].lease.token <= issued'
      BY <2>1 DEF LeaseInv, TokensDrawn, TypeOK
    <3>2. \A q \in Procs : cand'[q] # NoState => cand'[q].lease.token <= issued'
      BY <2>1 DEF LeaseInv, TokensDrawn, TypeOK
    <3> QED
      BY <2>1, <3>1, <3>2 DEF LeaseInv, TokensDrawn
  <2>3. TokensDistinct'
    <3>1. ASSUME NEW q \in Procs, q # p, exec[q] # NoState
          PROVE  exec[q].lease.token # cand[p].lease.token
      <4>1. CASE OwnLease(p)
        BY <3>1, <4>1 DEF OwnLease, LeaseInv, TokensDistinct
      <4>2. CASE FreshLease(p)
        BY <3>1, <4>2 DEF FreshLease
      <4> QED
        BY <2>1, <4>1, <4>2 DEF LeaseInv, CandidateLease
    <3>2. \A q \in Procs : exec'[q] = IF q = p THEN cand[p] ELSE exec[q]
      BY <2>1 DEF TypeOK
    <3> QED
      BY <3>1, <3>2 DEF LeaseInv, TokensDistinct
  <2>4. RequestTimes'
    BY <2>1 DEF LeaseInv, RequestTimes, TypeOK
  <2>5. \A q \in Procs : pc'[q] \notin InLock
    BY <2>1, OneInLock DEF TypeOK
  <2> QED
    BY <2>2, <2>3, <2>4, <2>5 DEF LeaseInv, CandidateLease
<1>8. ASSUME NEW p \in Procs, Recheck(p), pc' = [pc EXCEPT ![p] = "replace"],
             UNCHANGED cand
      PROVE  LeaseInv'
  <2>1. pc[p] = "changed" /\ UNCHANGED <<file, stable, clock, issued, exec, req>>
    BY <1>8 DEF Recheck
  <2>2. \A q \in Procs : pc'[q] = "resuming" => req'[q].now <= clock' + Skew
    BY <1>8, <2>1 DEF LeaseInv, RequestTimes, TypeOK
  <2>3. \A q \in Procs : pc'[q] \in InLock =>
          pc[q] \in InLock /\ (pc[q] = "sync" => pc'[q] = "sync")
    BY <1>8, <2>1 DEF TypeOK
  <2> QED
    BY <1>8, <2>1, <2>2, <2>3, QuietLease
<1>9. ASSUME NEW p \in Procs, Persist(p)
      PROVE  LeaseInv'
  BY <1>5, <1>6, <1>7, <1>8, <1>9
  DEF Persist, Recheck, Oversize, WriteFails, SyncFails
<1>10. ASSUME NEW p \in Procs, Crash(p)
       PROVE  LeaseInv'
  <2>1. /\ pc' = [pc EXCEPT ![p] = "idle"]
        /\ exec' = [exec EXCEPT ![p] = NoState]
        /\ cand' = [cand EXCEPT ![p] = NoState]
        /\ req' = [req EXCEPT ![p] = NoRequest]
        /\ UNCHANGED <<file, stable, clock, issued>>
    BY <1>10 DEF Crash
  <2>2. \A q \in Procs : pc'[q] = "resuming" => req'[q].now <= clock' + Skew
    BY <2>1 DEF LeaseInv, RequestTimes, TypeOK
  <2>3. \A q \in Procs : pc'[q] \in InLock => pc'[q] = pc[q]
    BY <2>1 DEF TypeOK
  <2>4. \A q \in Procs :
          \/ exec'[q] = exec[q] /\ cand'[q] = cand[q]
          \/ pc'[q] \notin InLock /\ exec'[q] = NoState /\ cand'[q] = NoState
    <3>1. \A q \in Procs : q # p => exec'[q] = exec[q] /\ cand'[q] = cand[q]
      BY <2>1 DEF TypeOK
    <3>2. pc'[p] = "idle" /\ exec'[p] = NoState /\ cand'[p] = NoState
      BY <2>1 DEF TypeOK
    <3> QED
      BY <3>1, <3>2
  <2> QED
    BY <2>1, <2>2, <2>3, <2>4, QuietLease
<1>11. CASE Tick
  <2>1. \A q \in Procs : pc'[q] = "resuming" => req'[q].now <= clock' + Skew
    BY <1>11, BoundAssumption DEF Tick, LeaseInv, RequestTimes, TypeOK
  <2> QED
    BY <1>11, <2>1, QuietLease DEF Tick
<1>12. CASE Writeback
  BY <1>12, QuietLease DEF Writeback, LeaseInv, RequestTimes
<1>13. CASE PowerLoss
  <2>1. \A p \in Procs : pc'[p] = "idle" /\ exec'[p] = NoState /\ cand'[p] = NoState
    BY <1>13 DEF PowerLoss
  <2>2. file' = stable /\ UNCHANGED <<stable, issued>>
    BY <1>13 DEF PowerLoss
  <2> QED
    BY <2>1, <2>2
    DEF LeaseInv, TokensDrawn, TokensDistinct, RequestTimes, CandidateLease
<1>14. CASE UNCHANGED vars
  BY <1>14, QuietLease DEF vars, LeaseInv, RequestTimes
<1> QED
  BY <1>1, <1>2, <1>3, <1>4, <1>9, <1>10, <1>11, <1>12, <1>13, <1>14 DEF Next, Acquire

-----------------------------------------------------------------------------
(* What the checkpoints carry.                                             *)

(* A step that leaves the checkpoint alone, and lets the disk catch up at  *)
(* most, keeps the ledgers together.                                       *)
LEMMA QuietLedger ==
  ASSUME TypeOK, LedgerInv, UNCHANGED file, stable' \in {stable, file},
         \A p \in Procs : pc'[p] \in {"changed", "replace"} =>
           pc[p] \in {"changed", "replace"} /\ cand'[p] = cand[p],
         \A p \in Procs : exec'[p] \in {exec[p], NoState}
  PROVE  LedgerInv'
<1>1. NoLostUpdate'
  BY DEF LedgerInv, NoLostUpdate
<1>2. file # NoState => Continues(file, file)
  BY ContinuesReflexive DEF TypeOK
<1>3. StableBehind'
  BY <1>2 DEF LedgerInv, StableBehind
<1>4. ASSUME NEW p \in Procs, exec[p] # NoState
      PROVE  file # NoState /\ Continues(file, exec[p])
  <2>1. /\ stable \in State /\ Continues(stable, exec[p])
        /\ file \in State /\ Continues(file, stable)
        /\ exec[p] \in State
    BY <1>4 DEF LedgerInv, AcknowledgedIsStable, StableBehind, TypeOK
  <2> QED
    BY <2>1, ContinuesTransitive, NoStateAssumption
<1>5. AcknowledgedIsStable'
  BY <1>4 DEF LedgerInv, AcknowledgedIsStable
<1> QED
  BY <1>1, <1>3, <1>5 DEF LedgerInv

(* A call that takes the free lock with a candidate that carries on from   *)
(* the checkpoint keeps them together too.                                 *)
LEMMA SubmitLedger ==
  ASSUME TypeOK, LockInv, LedgerInv, lock = Nobody,
         NEW p \in Procs, NEW s \in State, NEW o, NEW at, Submit(p, s, o, at),
         file # NoState => Continues(s, file) /\ Len(s.ledger) <= Len(file.ledger) + 1,
         UNCHANGED <<file, stable, exec>>
  PROVE  LedgerInv'
<1>1. /\ pc' = [pc EXCEPT ![p] = at]
      /\ cand' = [cand EXCEPT ![p] = s]
  BY DEF Submit
<1>2. \A q \in Procs : q # p => pc'[q] \notin InLock
  BY <1>1, NobodyInLock DEF TypeOK
<1>3. cand'[p] = s
  BY <1>1 DEF TypeOK
<1>4. NoLostUpdate'
  BY <1>2, <1>3 DEF NoLostUpdate
<1>5. StableBehind' /\ AcknowledgedIsStable'
  BY DEF LedgerInv, StableBehind, AcknowledgedIsStable
<1> QED
  BY <1>4, <1>5 DEF LedgerInv

(* Every step keeps the ledger layer; the rename and the directory sync    *)
(* are the two that move a checkpoint forward.                             *)
LEMMA LedgerStep ==
  TypeOK /\ LockInv /\ LeaseInv /\ LedgerInv /\ [Next]_vars => LedgerInv'
<1> SUFFICES ASSUME TypeOK, LockInv, LeaseInv, LedgerInv, [Next]_vars
             PROVE  LedgerInv'
  OBVIOUS
<1>1. ASSUME NEW p \in Procs, NEW now \in CallerTimes, Open(p, now)
      PROVE  LedgerInv'
  <2>1. CASE OpenRefusal # "ok"
    BY <1>1, <2>1, QuietLedger DEF Open, Refuse, callVars
  <2>2. CASE OpenRefusal = "ok"
    <3> DEFINE s == NewRun(newLease(WorkerOf[p], now))
    <3>1. lock = Nobody /\ file = NoState
      BY <2>2 DEF OpenRefusal
    <3>2. now \in Nat
      BY BoundAssumption DEF CallerTimes, TypeOK
    <3>3. s \in State
      BY <3>2, NewLeaseTyped, NewRunTyped
    <3>4. Submit(p, s, "ok", "replace") /\ UNCHANGED <<file, stable, exec>>
      BY <1>1, <2>2 DEF Open
    <3> HIDE DEF s
    <3> QED
      BY <3>1, <3>3, <3>4, SubmitLedger
  <2> QED
    BY <2>1, <2>2
<1>2. ASSUME NEW p \in Procs, NEW token \in 1..issued, ResumeRead(p, token)
      PROVE  LedgerInv'
  <2>1. CASE ResumeRefusal(token) # "ok"
    BY <1>2, <2>1, QuietLedger DEF ResumeRead, Refuse, callVars
  <2>2. CASE ResumeRefusal(token) = "ok"
    <3>1. /\ pc' = [pc EXCEPT ![p] = "resuming"]
          /\ UNCHANGED <<file, stable, exec, cand>>
      BY <1>2, <2>2 DEF ResumeRead
    <3>2. \A q \in Procs : pc'[q] \in {"changed", "replace"} => pc'[q] = pc[q]
      BY <3>1 DEF TypeOK
    <3> QED
      BY <3>1, <3>2, QuietLedger
  <2> QED
    BY <2>1, <2>2
<1>3. ASSUME NEW p \in Procs, ResumeLocked(p)
      PROVE  LedgerInv'
  <2>1. pc[p] = "resuming"
    BY <1>3 DEF ResumeLocked
  <2>2. CASE LockedRefusal(p) # "ok"
    <3>1. /\ pc' = [pc EXCEPT ![p] = "idle"]
          /\ UNCHANGED <<file, stable, exec, cand>>
      BY <1>3, <2>2 DEF ResumeLocked
    <3>2. \A q \in Procs : pc'[q] \in {"changed", "replace"} => pc'[q] = pc[q]
      BY <3>1 DEF TypeOK
    <3> QED
      BY <3>1, <3>2, QuietLedger
  <2>3. CASE LockedRefusal(p) = "ok"
    <3> DEFINE lease == newLease(WorkerOf[p], req[p].now)
               s == [file EXCEPT !.lease = lease]
    <3>1. lock = Nobody /\ file \in State
      BY <2>3 DEF LockedRefusal, ResumeRefusal, TypeOK
    <3>2. lease \in Lease /\ lease.token = issued + 1
      BY NewLeaseTyped DEF newLease, TypeOK
    <3>3. Submit(p, s, "ok", "replace") /\ UNCHANGED <<file, stable, exec>>
      BY <1>3, <2>3 DEF ResumeLocked
    <3> HIDE DEF lease
    <3>4. /\ s \in State
          /\ s.lease = lease /\ s.ledger = file.ledger /\ s.exhausted = file.exhausted
      BY <3>1, <3>2, RenewedTyped
    <3> HIDE DEF s
    <3>5. file.lease.token \in Nat /\ file.lease.token <= issued /\ issued \in Nat
      BY <3>1, NoStateAssumption DEF LeaseInv, TokensDrawn, TypeOK, State, Lease
    <3>6. Continues(s, file)
      BY <3>1, <3>2, <3>4, <3>5, ContinuesReflexive DEF Continues
    <3>7. Len(s.ledger) <= Len(file.ledger) + 1
      BY <3>1, <3>4 DEF State
    <3> QED
      BY <3>1, <3>3, <3>4, <3>6, <3>7, SubmitLedger
  <2> QED
    BY <2>2, <2>3
<1>4. ASSUME NEW p \in Procs, Mutate(p)
      PROVE  LedgerInv'
  <2>1. CASE Refused
    BY <2>1, QuietLedger DEF Refused
  <2>2. CASE Submitted(p) /\ lock = Nobody
    <3>1. PICK s \in State, o \in Outcomes :
            CarriesOn(s) /\ Submit(p, s, o, "changed")
      BY <2>2 DEF Submitted
    <3> QED
      BY <2>2, <3>1, SubmitLedger DEF Submitted, CarriesOn
  <2> QED
    BY <1>4, <2>1, <2>2, MutateShape
<1>5. ASSUME NEW p \in Procs, NEW o, pc[p] \in InLock, Release(p, o),
             UNCHANGED <<file, stable, exec>>
      PROVE  LedgerInv'
  <2>1. /\ pc' = [pc EXCEPT ![p] = "idle"]
        /\ cand' = [cand EXCEPT ![p] = NoState]
    BY <1>5 DEF Release
  <2>2. \A q \in Procs : pc'[q] \in {"changed", "replace"} =>
          pc'[q] = pc[q] /\ cand'[q] = cand[q]
    BY <2>1 DEF TypeOK
  <2> QED
    BY <1>5, <2>2, QuietLedger
<1>6. ASSUME NEW p \in Procs, Rename(p)
      PROVE  LedgerInv'
  <2>1. /\ pc[p] = "replace"
        /\ pc' = [pc EXCEPT ![p] = "sync"]
        /\ file' = cand[p]
        /\ UNCHANGED <<stable, exec, cand>>
    BY <1>6 DEF Rename
  <2>2. \A q \in Procs : pc'[q] \notin {"changed", "replace"}
    BY <2>1, OneInLock DEF TypeOK
  <2>3. NoLostUpdate'
    BY <2>2 DEF NoLostUpdate
  <2>4. cand[p] \in State /\ file' \in State
    BY <2>1 DEF LockInv, CandidateInLock, TypeOK
  <2>5. ASSUME stable # NoState
        PROVE  Continues(file', stable)
    <3>1. /\ stable \in State /\ file \in State
          /\ Continues(file, stable) /\ Continues(cand[p], file)
      BY <2>1, <2>5 DEF LedgerInv, StableBehind, NoLostUpdate, TypeOK
    <3> QED
      BY <2>1, <2>4, <3>1, ContinuesTransitive
  <2>6. StableBehind'
    BY <2>1, <2>4, <2>5, NoStateAssumption DEF StableBehind
  <2>7. AcknowledgedIsStable'
    BY <2>1 DEF LedgerInv, AcknowledgedIsStable
  <2> QED
    BY <2>3, <2>6, <2>7 DEF LedgerInv
<1>7. ASSUME NEW p \in Procs, SyncDirectory(p)
      PROVE  LedgerInv'
  <2>1. /\ pc[p] = "sync"
        /\ stable' = file /\ file' = file
        /\ exec' = [exec EXCEPT ![p] = cand[p]]
        /\ pc' = [pc EXCEPT ![p] = "idle"]
    BY <1>7 DEF SyncDirectory, Release
  <2>2. NoLostUpdate'
    BY <2>1, OneInLock DEF NoLostUpdate, TypeOK
  <2>3. file \in State /\ file = cand[p]
    BY <2>1 DEF LockInv, CandidateInLock, RenamedIsFile, TypeOK
  <2>4. Continues(file, file)
    BY <2>3, ContinuesReflexive
  <2>5. StableBehind'
    BY <2>1, <2>3, <2>4, NoStateAssumption DEF StableBehind
  <2>6. ASSUME NEW q \in Procs, exec'[q] # NoState
        PROVE  Continues(stable', exec'[q])
    <3>1. CASE q = p
      BY <2>1, <2>3, <2>4, <3>1 DEF TypeOK
    <3>2. CASE q # p
      <4>1. exec'[q] = exec[q]
        BY <2>1, <3>2 DEF TypeOK
      <4>2. /\ exec[q] \in State /\ stable \in State
            /\ Continues(stable, exec[q]) /\ Continues(file, stable)
        BY <2>6, <4>1 DEF LedgerInv, AcknowledgedIsStable, StableBehind, TypeOK
      <4> QED
        BY <2>1, <2>3, <4>1, <4>2, ContinuesTransitive
    <3> QED
      BY <3>1, <3>2
  <2>7. AcknowledgedIsStable'
    BY <2>1, <2>3, <2>6, NoStateAssumption DEF AcknowledgedIsStable
  <2> QED
    BY <2>2, <2>5, <2>7 DEF LedgerInv
<1>8. ASSUME NEW p \in Procs, Recheck(p), pc' = [pc EXCEPT ![p] = "replace"],
             UNCHANGED cand
      PROVE  LedgerInv'
  <2>1. pc[p] = "changed" /\ UNCHANGED <<file, stable, exec>>
    BY <1>8 DEF Recheck
  <2>2. \A q \in Procs : pc'[q] \in {"changed", "replace"} =>
          pc[q] \in {"changed", "replace"}
    BY <1>8, <2>1 DEF TypeOK
  <2> QED
    BY <1>8, <2>1, <2>2, QuietLedger
<1>9. ASSUME NEW p \in Procs, Persist(p)
      PROVE  LedgerInv'
  BY <1>5, <1>6, <1>7, <1>8, <1>9
  DEF Persist, Recheck, Oversize, WriteFails, SyncFails
<1>10. ASSUME NEW p \in Procs, Crash(p)
       PROVE  LedgerInv'
  <2>1. /\ pc' = [pc EXCEPT ![p] = "idle"]
        /\ exec' = [exec EXCEPT ![p] = NoState]
        /\ cand' = [cand EXCEPT ![p] = NoState]
        /\ UNCHANGED <<file, stable>>
    BY <1>10 DEF Crash
  <2>2. \A q \in Procs : pc'[q] \in {"changed", "replace"} =>
          pc'[q] = pc[q] /\ cand'[q] = cand[q]
    BY <2>1 DEF TypeOK
  <2>3. \A q \in Procs : exec'[q] \in {exec[q], NoState}
    BY <2>1 DEF TypeOK
  <2> QED
    BY <2>1, <2>2, <2>3, QuietLedger
<1>11. CASE Tick
  BY <1>11, QuietLedger DEF Tick
<1>12. CASE Writeback
  BY <1>12, QuietLedger DEF Writeback
<1>13. CASE PowerLoss
  <2>1. \A p \in Procs : pc'[p] = "idle" /\ exec'[p] = NoState
    BY <1>13 DEF PowerLoss
  <2>2. file' = stable /\ stable' = stable
    BY <1>13 DEF PowerLoss
  <2>3. stable # NoState => Continues(stable, stable)
    BY ContinuesReflexive DEF TypeOK
  <2> QED
    BY <2>1, <2>2, <2>3
    DEF LedgerInv, NoLostUpdate, StableBehind, AcknowledgedIsStable
<1>14. CASE UNCHANGED vars
  BY <1>14, QuietLedger DEF vars
<1> QED
  BY <1>1, <1>2, <1>3, <1>4, <1>9, <1>10, <1>11, <1>12, <1>13, <1>14 DEF Next, Acquire

-----------------------------------------------------------------------------
(* The theorems.                                                           *)

(* The inductive invariant holds at the start.                             *)
LEMMA IndInit == Init => IndInv
<1> SUFFICES ASSUME Init
             PROVE  IndInv
  OBVIOUS
<1>1. /\ file = NoState /\ stable = NoState /\ lock = Nobody
      /\ \A p \in Procs : pc[p] = "idle" /\ exec[p] = NoState /\ cand[p] = NoState
  BY DEF Init
<1>2. LockInv
  BY <1>1, ProcAssumption DEF LockInv, LockDiscipline, CandidateInLock, RenamedIsFile
<1>3. LeaseInv
  BY <1>1 DEF LeaseInv, TokensDrawn, TokensDistinct, RequestTimes, CandidateLease
<1>4. LedgerInv
  BY <1>1 DEF LedgerInv, NoLostUpdate, StableBehind, AcknowledgedIsStable
<1> QED
  BY <1>2, <1>3, <1>4, TypeInit DEF IndInv

(* Every step keeps the inductive invariant.                               *)
LEMMA IndStep == IndInv /\ [Next]_vars => IndInv'
BY TypeStep, LockStep, LeaseStep, LedgerStep DEF IndInv

(* The three layers and the types together are inductive.                  *)
THEOREM Inductive == Spec => []IndInv
BY IndInit, IndStep, PTL DEF Spec

(* A process writes, and changes state in Open, Resume or mutate, exactly  *)
(* while it holds the file lock.                                           *)
THEOREM LockSafe == Spec => []LockDiscipline
<1>1. IndInv => LockDiscipline
  BY DEF IndInv, LockInv
<1> QED
  BY <1>1, Inductive, PTL

(* At most one Execution holds the lease the checkpoint names.             *)
THEOREM HolderUnique == Spec => []OneHolder
<1>1. IndInv => OneHolder
  BY DEF IndInv, LeaseInv, TokensDistinct, OneHolder
<1> QED
  BY <1>1, Inductive, PTL

(* What a caller was told is recorded survives every crash and power loss. *)
THEOREM AcknowledgedSurvives == Spec => []AcknowledgedIsStable
<1>1. IndInv => AcknowledgedIsStable
  BY DEF IndInv, LedgerInv
<1> QED
  BY <1>1, Inductive, PTL

(* No write of persistState drops an event another process recorded.       *)
THEOREM WritesCarryOn == Spec => []NoLostUpdate
<1>1. IndInv => NoLostUpdate
  BY DEF IndInv, LedgerInv
<1> QED
  BY <1>1, Inductive, PTL

(* Short of a power loss, the checkpoint changes by a rename alone.        *)
LEMMA FileStep ==
  ASSUME IndInv, [Next]_vars, ~PowerLoss
  PROVE  UNCHANGED file \/ \E p \in Procs : Rename(p)
<1>1. ASSUME NEW p \in Procs, Acquire(p)
      PROVE  UNCHANGED file
  BY <1>1 DEF Acquire, Open, ResumeRead, ResumeLocked, Refuse
<1>2. ASSUME NEW p \in Procs, Mutate(p)
      PROVE  UNCHANGED file
  BY <1>2, MutateShape DEF IndInv, Refused, Submitted
<1>3. ASSUME NEW p \in Procs, Persist(p)
      PROVE  UNCHANGED file \/ Rename(p)
  BY <1>3 DEF Persist, Recheck, Oversize, WriteFails, SyncDirectory, SyncFails
<1>4. ASSUME NEW p \in Procs, Crash(p)
      PROVE  UNCHANGED file
  BY <1>4 DEF Crash
<1>5. Tick \/ Writeback \/ UNCHANGED vars => UNCHANGED file
  BY DEF Tick, Writeback, vars
<1> QED
  BY <1>1, <1>2, <1>3, <1>4, <1>5 DEF Next

(* The rename puts in place a candidate that carries on from the file.     *)
LEMMA RenameStep ==
  ASSUME IndInv, NEW p \in Procs, Rename(p), file # NoState
  PROVE  /\ lock = p /\ pc[p] = "replace"
         /\ file' = cand[p] /\ file' # NoState
         /\ Continues(file', file)
         /\ Len(file'.ledger) <= Len(file.ledger) + 1
         /\ OwnLease(p) \/ FreshLease(p)
<1>1. pc[p] = "replace" /\ file' = cand[p]
  BY DEF Rename
<1>2. lock = p
  BY <1>1, OneInLock DEF IndInv
<1>3. cand[p] # NoState
  BY <1>1 DEF IndInv, LockInv, CandidateInLock
<1>4. Continues(cand[p], file) /\ Len(cand[p].ledger) <= Len(file.ledger) + 1
  BY <1>1 DEF IndInv, LedgerInv, NoLostUpdate
<1>5. OwnLease(p) \/ FreshLease(p)
  BY <1>1 DEF IndInv, LeaseInv, CandidateLease
<1> QED
  BY <1>1, <1>2, <1>3, <1>4, <1>5

(* Between two power losses the ledger only grows, one event at a time,    *)
(* and exhaustion is never withdrawn.                                      *)
THEOREM LedgerGrows == Spec => LedgerAppendOnly
<1> DEFINE Grows ==
      file # NoState /\ ~PowerLoss =>
        /\ file' # NoState
        /\ Continues(file', file)
        /\ Len(file'.ledger) <= Len(file.ledger) + 1
<1>1. IndInv /\ [Next]_vars => Grows
  <2> SUFFICES ASSUME IndInv, [Next]_vars, file # NoState, ~PowerLoss
               PROVE  /\ file' # NoState
                      /\ Continues(file', file)
                      /\ Len(file'.ledger) <= Len(file.ledger) + 1
    OBVIOUS
  <2>1. CASE UNCHANGED file
    <3>1. file \in State
      BY DEF IndInv, TypeOK
    <3>2. Len(file.ledger) \in Nat
      BY <3>1 DEF State
    <3> QED
      BY <2>1, <3>1, <3>2, ContinuesReflexive
  <2>2. CASE \E p \in Procs : Rename(p)
    BY <2>2, RenameStep
  <2> QED
    BY <2>1, <2>2, FileStep
<1>2. IndInv /\ [Next]_vars => [Grows]_vars
  BY <1>1
<1> QED
  BY <1>2, Inductive, PTL DEF Spec, LedgerAppendOnly

(* Fencing: only the Execution that holds the checkpoint's lease changes   *)
(* the checkpoint under it.                                                *)
THEOREM Fenced == Spec => OnlyHolderWrites
<1> DEFINE Holder ==
      file # NoState /\ file' # file /\ ~PowerLoss /\ file'.lease = file.lease =>
        \E p \in Procs :
          /\ lock = p
          /\ exec[p] # NoState
          /\ exec[p].lease.token = file.lease.token
          /\ exec[p].lease.worker = file.lease.worker
<1>1. IndInv /\ [Next]_vars => Holder
  <2> SUFFICES ASSUME IndInv, [Next]_vars, file # NoState, file' # file,
                      ~PowerLoss, file'.lease = file.lease
               PROVE  \E p \in Procs :
                        /\ lock = p
                        /\ exec[p] # NoState
                        /\ exec[p].lease.token = file.lease.token
                        /\ exec[p].lease.worker = file.lease.worker
    OBVIOUS
  <2>1. PICK p \in Procs : Rename(p)
    BY FileStep
  <2>2. /\ lock = p /\ pc[p] = "replace" /\ file' = cand[p]
        /\ OwnLease(p) \/ FreshLease(p)
    BY <2>1, RenameStep
  <2>3. file.lease.token \in Nat
    BY DEF IndInv, TypeOK, State, Lease
  <2>4. ~FreshLease(p)
    BY <2>2, <2>3 DEF FreshLease
  <2>5. OwnLease(p)
    BY <2>2, <2>4
  <2> QED
    BY <2>2, <2>5 DEF OwnLease
<1>2. IndInv /\ [Next]_vars => [Holder]_vars
  BY <1>1
<1> QED
  BY <1>2, Inductive, PTL DEF Spec, OnlyHolderWrites

(* A write goes from "changed" to "replace" by its second clock check. *)
LEMMA RecheckOnly ==
  ASSUME IndInv, [Next]_vars, NEW p \in Procs, pc[p] = "changed", pc'[p] = "replace"
  PROVE  Recheck(p) /\ clock < cand[p].lease.expiresAt
<1> TypeOK
  BY DEF IndInv
<1>1. UNCHANGED pc => FALSE
  OBVIOUS
<1>3. pc' # [pc EXCEPT ![p] = "idle"] /\ pc' # [pc EXCEPT ![p] = "sync"]
  BY DEF TypeOK
<1>4. ASSUME NEW q \in Procs, Acquire(q)
      PROVE  FALSE
  <2>1. q # p
    BY <1>4 DEF Acquire, Open, ResumeRead, ResumeLocked
  <2>2. UNCHANGED pc \/ \E at : pc' = [pc EXCEPT ![q] = at]
    BY <1>4 DEF Acquire, Open, ResumeRead, ResumeLocked, Refuse, Submit, callVars
  <2> QED
    BY <1>1, <2>1, <2>2 DEF TypeOK
<1>5. ASSUME NEW q \in Procs, Mutate(q)
      PROVE  FALSE
  <2>1. q # p
    BY <1>5 DEF Mutate, Running
  <2>2. UNCHANGED pc \/ \E at : pc' = [pc EXCEPT ![q] = at]
    BY <1>5, MutateShape DEF Refused, Submitted, Submit
  <2> QED
    BY <1>1, <2>1, <2>2 DEF TypeOK
<1>6. ASSUME NEW q \in Procs, Persist(q)
      PROVE  Recheck(p) /\ clock < cand[p].lease.expiresAt
  <2>1. CASE q # p
    <3>1. \E at : pc' = [pc EXCEPT ![q] = at]
      BY <1>6 DEF Persist, Recheck, Oversize, WriteFails, Rename, SyncDirectory,
                  SyncFails, Release
    <3> QED
      BY <2>1, <3>1 DEF TypeOK
  <2>2. CASE q = p
    BY <1>3, <1>6, <2>2
    DEF Persist, Recheck, Oversize, WriteFails, Rename, SyncDirectory, SyncFails, Release
  <2> QED
    BY <2>1, <2>2
<1>7. ASSUME NEW q \in Procs, Crash(q)
      PROVE  FALSE
  BY <1>7 DEF Crash, TypeOK
<1>8. Tick \/ Writeback \/ PowerLoss \/ UNCHANGED vars => FALSE
  BY DEF Tick, Writeback, PowerLoss, vars
<1> QED
  BY <1>4, <1>5, <1>6, <1>7, <1>8 DEF Next

(* A lease passes to another worker only once it has expired, and always   *)
(* under a newer token; no write passes its last check later than that.    *)
THEOREM LeaseRespected == Spec => LiveLeaseKept
<1> DEFINE Kept ==
      file # NoState /\ ~PowerLoss /\ file'.lease # file.lease =>
        /\ file'.lease.token > file.lease.token
        /\ file'.lease.worker # file.lease.worker =>
             clock + Skew >= file.lease.expiresAt
           Agreed ==
      \A p \in Procs : pc[p] = "changed" /\ pc'[p] = "replace" =>
        \A w \in Workers \ {cand[p].lease.worker} :
          ~LeaseFree(cand[p].lease, w, clock)
<1>1. IndInv /\ [Next]_vars => Kept
  <2> SUFFICES ASSUME IndInv, [Next]_vars, file # NoState,
                      ~PowerLoss, file'.lease # file.lease
               PROVE  /\ file'.lease.token > file.lease.token
                      /\ file'.lease.worker # file.lease.worker =>
                           clock + Skew >= file.lease.expiresAt
    OBVIOUS
  <2>1. PICK p \in Procs : Rename(p)
    BY FileStep
  <2>2. /\ pc[p] = "replace" /\ file' = cand[p]
        /\ OwnLease(p) \/ FreshLease(p)
    BY <2>1, RenameStep
  <2>3. FreshLease(p)
    BY <2>2 DEF OwnLease
  <2>4. /\ file.lease.token < cand[p].lease.token
        /\ file.lease.worker # cand[p].lease.worker =>
             clock + Skew >= file.lease.expiresAt
    BY <2>2, <2>3 DEF FreshLease
  <2>5. file.lease.token \in Nat /\ cand[p].lease.token \in Nat
    <3>1. file \in State /\ cand[p] \in State
      BY <2>2 DEF IndInv, TypeOK, LockInv, CandidateInLock
    <3> QED
      BY <3>1 DEF State, Lease
  <2> QED
    BY <2>2, <2>4, <2>5
<1>2. IndInv /\ [Next]_vars => Agreed
  <2> SUFFICES ASSUME IndInv, [Next]_vars, NEW p \in Procs,
                      pc[p] = "changed", pc'[p] = "replace",
                      NEW w \in Workers \ {cand[p].lease.worker}
               PROVE  ~LeaseFree(cand[p].lease, w, clock)
    OBVIOUS
  <2>1. Recheck(p) /\ clock < cand[p].lease.expiresAt
    BY RecheckOnly
  <2>2. cand[p].lease.expiresAt \in Nat /\ clock \in Nat
    <3>1. cand[p] \in State /\ clock \in Nat
      BY DEF IndInv, TypeOK, LockInv, CandidateInLock
    <3> QED
      BY <3>1 DEF State, Lease
  <2> QED
    BY <2>1, <2>2 DEF LeaseFree
<1>3. IndInv /\ [Next]_vars => [Kept /\ Agreed]_vars
  BY <1>1, <1>2
<1> QED
  BY <1>3, Inductive, PTL DEF Spec, LiveLeaseKept

=============================================================================
