----------------------- MODULE IssueRepairLedgerProofs -----------------------
(***************************************************************************)
(* Theorems of IssueRepair that rest on what a ledger looks like: its      *)
(* creation, the pages in order, then the first few phases of the repair.  *)
(* How many there are of each says all the rest of a checkpoint.           *)
(***************************************************************************)
EXTENDS IssueRepairProofs, FiniteSetTheorems

PhaseAt(k) ==
  IF k = 1 THEN "clone_completed"
  ELSE IF k = 2 THEN "pre_patch_failure_observed"
  ELSE IF k = 3 THEN "patch_recorded"
  ELSE IF k = 4 THEN "push_recorded"
  ELSE "pull_request_recorded"

(* The i-th event of a ledger with n pages.                                *)
EventAt(i, n) ==
  IF i = 1 THEN PhaseEvent("run_created")
  ELSE IF i <= n + 1 THEN PageEvent(i - 1)
  ELSE PhaseEvent(PhaseAt(i - n - 1))

(* The stage after n pages and m phases, and the writes they took.         *)
StageAt(n, m) ==
  IF m > 0 THEN StageOf[PhaseAt(m)] ELSE IF n > 0 THEN "discovery" ELSE "created"

WritesAt(m) == IF m < 3 THEN 0 ELSE m - 2

Logged(s, n, m) ==
  /\ Len(s.ledger) = n + m + 1
  /\ \A i \in 1..n + m + 1 : s.ledger[i] = EventAt(i, n)

Counted(s, n, m) ==
  /\ s.pagesUsed = n
  /\ s.nextPage = n + 1
  /\ s.cloneComplete <=> m >= 1
  /\ s.reproductionFailed <=> m >= 2
  /\ s.patchRecorded <=> m >= 3
  /\ s.writesUsed = WritesAt(m)
  /\ WritesAt(m) <= MaxWrites
  /\ m >= 4 => PushAuthorized
  /\ m >= 5 => PRAuthorized
  /\ s.lease.expiresAt - s.lease.issuedAt = TTL

Reached(s, n, m) ==
  /\ n \in 0..MaxPages
  /\ m \in 0..5
  /\ Logged(s, n, m)
  /\ Counted(s, n, m)
  /\ s.stage = StageAt(n, m)

Shaped(s) == \E n \in 0..MaxPages, m \in 0..5 : Reached(s, n, m)

-----------------------------------------------------------------------------
(* What the shape says of a checkpoint.                                    *)

(* Where which kind of event is.                                           *)
KindAt(s, n, i) ==
  /\ s.ledger[i].kind = "run_created" <=> i = 1
  /\ s.ledger[i].kind = "page_completed" <=> i \in 2..n + 1
  /\ s.ledger[i].kind = "clone_completed" <=> i = n + 2
  /\ s.ledger[i].kind = "pre_patch_failure_observed" <=> i = n + 3
  /\ s.ledger[i].kind = "patch_recorded" <=> i = n + 4
  /\ s.ledger[i].kind = "push_recorded" <=> i = n + 5
  /\ s.ledger[i].kind = "pull_request_recorded" <=> i = n + 6
  /\ s.ledger[i].page = IF i \in 2..n + 1 THEN i - 1 ELSE 0

LEMMA KindsAt ==
  ASSUME NEW s \in State, NEW n \in 0..MaxPages, NEW m \in 0..5, Logged(s, n, m),
         NEW i \in 1..n + m + 1
  PROVE  KindAt(s, n, i)
<1> USE DEF KindAt
<1>1. s.ledger[i] = EventAt(i, n) /\ n \in Nat /\ m \in Nat /\ i \in Nat
  BY PolicyAssumption DEF Logged
<1>2. CASE i = 1
  BY <1>1, <1>2 DEF EventAt, PhaseEvent
<1>3. CASE i \in 2..n + 1
  BY <1>1, <1>3 DEF EventAt, PageEvent
<1>4. CASE i > n + 1
  <2>1. i - n - 1 \in 1..5
    BY <1>1, <1>4
  <2>2. s.ledger[i] = PhaseEvent(PhaseAt(i - n - 1)) /\ i # 1 /\ i \notin 2..n + 1
    BY <1>1, <1>4 DEF EventAt
  <2>3. s.ledger[i].kind = PhaseAt(i - n - 1) /\ s.ledger[i].page = 0
    BY <2>2 DEF PhaseEvent
  <2> QED
    BY <1>1, <2>1, <2>2, <2>3 DEF PhaseAt
<1> QED
  BY <1>1, <1>2, <1>3, <1>4

(* How many numbers an interval has.                                       *)
LEMMA IntervalCount ==
  ASSUME NEW a \in Int, NEW b \in Int, a <= b + 1
  PROVE  Cardinality(a..b) = b - a + 1
<1>1. Cardinality(a..b) = IF a > b THEN 0 ELSE b - a + 1
  BY FS_Interval
<1> QED
  BY <1>1

(* How many events there are from the second one to a later one.           *)
LEMMA FromSecond ==
  ASSUME NEW b \in Int, b >= 1
  PROVE  Cardinality(2..b) = b - 1
<1>1. 2 \in Int /\ 2 <= b + 1
  OBVIOUS
<1>2. Cardinality(2..b) = b - 2 + 1
  BY ONLY <1>1, b \in Int, IntervalCount
<1> QED
  BY ONLY <1>2, b \in Int

(* How many pages there are up to each event, and how many writes in all.  *)
LEMMA CountAt ==
  ASSUME NEW s \in State, NEW n \in 0..MaxPages, NEW m \in 0..5, Logged(s, n, m)
  PROVE  /\ \A i \in 1..n + m + 1 :
              CountIn(s.ledger, {"page_completed"}, i) = IF i <= n + 1 THEN i - 1 ELSE n
         /\ CountIn(s.ledger, WriteKinds, n + m + 1) = WritesAt(m)
<1> n \in Nat /\ m \in Nat
  BY PolicyAssumption
<1>1. ASSUME NEW i \in 1..n + m + 1
      PROVE  CountIn(s.ledger, {"page_completed"}, i) = IF i <= n + 1 THEN i - 1 ELSE n
  <2> DEFINE b == IF i <= n + 1 THEN i ELSE n + 1
  <2>1. b \in Int /\ b >= 1 /\ b = IF i <= n + 1 THEN i ELSE n + 1
    OBVIOUS
  <2> HIDE DEF b
  <2>2. \A j \in 1..i : s.ledger[j].kind \in {"page_completed"} <=> j \in 2..n + 1
    BY KindsAt DEF KindAt
  <2>3. {j \in 1..i : s.ledger[j].kind \in {"page_completed"}} = {j \in 1..i : j \in 2..n + 1}
    BY <2>2
  <2>4. {j \in 1..i : j \in 2..n + 1} = 2..b
    BY <2>1
  <2>5. Cardinality(2..b) = b - 1
    BY ONLY <2>1, FromSecond
  <2>6. b - 1 = IF i <= n + 1 THEN i - 1 ELSE n
    BY <2>1
  <2>7. CountIn(s.ledger, {"page_completed"}, i) = b - 1
    BY <2>3, <2>4, <2>5 DEF CountIn
  <2> QED
    BY <2>6, <2>7
<1>2. CountIn(s.ledger, WriteKinds, n + m + 1) = WritesAt(m)
  <2>1. \A j \in 1..n + m + 1 : s.ledger[j].kind \in WriteKinds <=> j >= n + 4
    <3> SUFFICES ASSUME NEW j \in 1..n + m + 1
                 PROVE  s.ledger[j].kind \in WriteKinds <=> j >= n + 4
      OBVIOUS
    <3>1. j <= n + 6
      OBVIOUS
    <3>2. KindAt(s, n, j)
      BY KindsAt
    <3> QED
      BY <3>1, <3>2 DEF WriteKinds, KindAt
  <2>2. {j \in 1..n + m + 1 : s.ledger[j].kind \in WriteKinds}
          = {j \in 1..n + m + 1 : j >= n + 4}
    BY <2>1
  <2>3. {j \in 1..n + m + 1 : j >= n + 4} = n + 4..n + m + 1
    OBVIOUS
  <2>4. Cardinality(n + 4..n + m + 1)
          = IF n + 4 > n + m + 1 THEN 0 ELSE (n + m + 1) - (n + 4) + 1
    BY FS_Interval
  <2>5. Cardinality(n + 4..n + m + 1) = WritesAt(m)
    BY <2>4 DEF WritesAt
  <2> QED
    BY <2>2, <2>3, <2>5 DEF CountIn
<1> QED
  BY <1>1, <1>2

(* Each step has the one it requires before it, in its place.              *)
LEMMA ShapeOrdered ==
  ASSUME NEW s \in State, NEW n \in 0..MaxPages, NEW m \in 0..5, Reached(s, n, m)
  PROVE  LedgerValid(s.ledger)
<1> n \in Nat /\ m \in Nat
  BY PolicyAssumption
<1> s.ledger \in Seq(Event)
  BY DEF State
<1>1. Logged(s, n, m)
  BY DEF Reached
<1>2. Len(s.ledger) = n + m + 1 /\ DOMAIN s.ledger = 1..n + m + 1
  BY <1>1 DEF Logged
<1>3. s.ledger # <<>>
  BY <1>2
<1>4. ASSUME NEW i \in 1..n + m + 1, NEW j \in 1..n + m + 1, s.ledger[i] = s.ledger[j]
      PROVE  i = j
  <2>1. i \in 1..n + 6 /\ j \in 1..n + 6
    OBVIOUS
  <2>2. KindAt(s, n, i) /\ KindAt(s, n, j)
    BY <1>1, KindsAt
  <2>3. CASE i \in 2..n + 1
    BY <1>4, <2>2, <2>3 DEF KindAt
  <2>4. CASE i \notin 2..n + 1
    <3>1. i \in {1, n + 2, n + 3, n + 4, n + 5, n + 6}
      BY <2>1, <2>4
    <3> QED
      BY <1>4, <2>2, <3>1 DEF KindAt
  <2> QED
    BY <2>3, <2>4
<1>5. ASSUME NEW i \in 1..n + m + 1
      PROVE  EventInOrder(s.ledger, i)
  <2> DEFINE k == s.ledger[i].kind
  <2>1. i \in 1..n + 6 /\ i <= n + m + 1
    OBVIOUS
  <2> KindAt(s, n, i)
    BY <1>1, KindsAt
  <2>2. k = "run_created" => i = 1
    BY DEF KindAt
  <2>3. ASSUME k = "page_completed"
        PROVE  /\ ~Before(s.ledger, i, "clone_completed")
               /\ s.ledger[i].page = CountIn(s.ledger, {"page_completed"}, i)
    <3>1. i \in 2..n + 1
      BY <2>3 DEF KindAt
    <3>2. s.ledger[i].page = i - 1
      BY <3>1 DEF KindAt
    <3>3. CountIn(s.ledger, {"page_completed"}, i) = i - 1
      BY <1>1, <3>1, CountAt
    <3>4. \A j \in 1..i - 1 : s.ledger[j].kind # "clone_completed"
      <4> SUFFICES ASSUME NEW j \in 1..i - 1
                   PROVE  s.ledger[j].kind # "clone_completed"
        OBVIOUS
      <4>1. j \in 1..n + m + 1 /\ j # n + 2
        BY <3>1
      <4> QED
        BY <1>1, <4>1, KindsAt DEF KindAt
    <3> QED
      BY <3>2, <3>3, <3>4 DEF Before
  <2>4. k # "page_completed" => s.ledger[i].page = 0
    BY DEF KindAt
  <2>5. ASSUME k \in DOMAIN Requires
        PROVE  Before(s.ledger, i, Requires[k])
    <3>1. k \in {"pre_patch_failure_observed", "patch_recorded", "push_recorded",
                 "pull_request_recorded"}
      BY <2>5 DEF Requires
    <3>2. i \in n + 3..n + 6 /\ i - 1 \in 1..n + m + 1 /\ i - 1 \in 1..i - 1
      BY <2>1, <3>1 DEF KindAt
    <3> KindAt(s, n, i - 1)
      BY <1>1, <3>2, KindsAt
    <3>3. s.ledger[i - 1].kind = Requires[k]
      <4>1. CASE k = "pre_patch_failure_observed"
        BY <3>2, <4>1 DEF Requires, KindAt
      <4>2. CASE k = "patch_recorded"
        BY <3>2, <4>2 DEF Requires, KindAt
      <4>3. CASE k = "push_recorded"
        BY <3>2, <4>3 DEF Requires, KindAt
      <4>4. CASE k = "pull_request_recorded"
        BY <3>2, <4>4 DEF Requires, KindAt
      <4> QED
        BY <3>1, <4>1, <4>2, <4>3, <4>4
    <3> QED
      BY <3>2, <3>3 DEF Before
  <2>6. ASSUME k = "push_recorded"
        PROVE  PushAuthorized
    <3>1. i = n + 5
      BY <2>6 DEF KindAt
    <3>2. m >= 4
      BY <2>1, <3>1
    <3> QED
      BY <3>2 DEF Reached, Counted
  <2>7. ASSUME k = "pull_request_recorded"
        PROVE  PRAuthorized
    <3>1. i = n + 6
      BY <2>7 DEF KindAt
    <3>2. m >= 5
      BY <2>1, <3>1
    <3> QED
      BY <3>2 DEF Reached, Counted
  <2> QED
    BY <2>2, <2>3, <2>4, <2>5, <2>6, <2>7 DEF EventInOrder
<1> QED
  BY <1>2, <1>3, <1>4, <1>5 DEF LedgerValid

(* Such a checkpoint is valid.                                             *)
LEMMA ShapeValid ==
  ASSUME NEW s \in State, Shaped(s)
  PROVE  ValidState(s)
<1>1. PICK n \in 0..MaxPages, m \in 0..5 : Reached(s, n, m)
  BY DEF Shaped
<1> n \in Nat /\ m \in Nat /\ s.ledger \in Seq(Event)
  BY PolicyAssumption DEF State
<1>2. Logged(s, n, m) /\ Counted(s, n, m) /\ s.stage = StageAt(n, m)
  BY <1>1 DEF Reached
<1>3. Len(s.ledger) = n + m + 1
  BY <1>2 DEF Logged
<1>4. LedgerValid(s.ledger)
  BY <1>1, ShapeOrdered
<1>5. s.pagesUsed = CountIn(s.ledger, {"page_completed"}, Len(s.ledger))
  <2>1. CountIn(s.ledger, {"page_completed"}, n + m + 1) = n
    BY <1>2, CountAt
  <2> QED
    BY <1>2, <1>3, <2>1 DEF Counted
<1>6. s.writesUsed = CountIn(s.ledger, WriteKinds, Len(s.ledger))
  BY <1>2, <1>3, CountAt DEF Counted
<1>7. \A i \in 1..n + m + 1 : KindAt(s, n, i)
  BY <1>2, KindsAt
<1>8. Before(s.ledger, Len(s.ledger) + 1, "clone_completed") <=> m >= 1
  <2>1. \A i \in 1..n + m + 1 : s.ledger[i].kind = "clone_completed" <=> i = n + 2
    BY <1>7 DEF KindAt
  <2>2. Before(s.ledger, Len(s.ledger) + 1, "clone_completed") <=> n + 2 \in 1..n + m + 1
    BY <1>3, <2>1 DEF Before
  <2> QED
    BY <2>2
<1>9. Before(s.ledger, Len(s.ledger) + 1, "pre_patch_failure_observed") <=> m >= 2
  <2>1. \A i \in 1..n + m + 1 : s.ledger[i].kind = "pre_patch_failure_observed" <=> i = n + 3
    BY <1>7 DEF KindAt
  <2>2. Before(s.ledger, Len(s.ledger) + 1, "pre_patch_failure_observed") <=> n + 3 \in 1..n + m + 1
    BY <1>3, <2>1 DEF Before
  <2> QED
    BY <2>2
<1>10. Before(s.ledger, Len(s.ledger) + 1, "patch_recorded") <=> m >= 3
  <2>1. \A i \in 1..n + m + 1 : s.ledger[i].kind = "patch_recorded" <=> i = n + 4
    BY <1>7 DEF KindAt
  <2>2. Before(s.ledger, Len(s.ledger) + 1, "patch_recorded") <=> n + 4 \in 1..n + m + 1
    BY <1>3, <2>1 DEF Before
  <2> QED
    BY <2>2
<1>11. s.stage = StageOf[s.ledger[Len(s.ledger)].kind]
  <2>1. s.ledger[Len(s.ledger)] = EventAt(n + m + 1, n)
    BY <1>2, <1>3 DEF Logged
  <2>2. CASE m = 0 /\ n = 0
    BY <1>2, <2>1, <2>2 DEF EventAt, StageAt, PhaseEvent, StageOf
  <2>3. CASE m = 0 /\ n > 0
    BY <1>2, <2>1, <2>3 DEF EventAt, StageAt, PageEvent, StageOf
  <2>4. CASE m > 0
    <3>1. EventAt(n + m + 1, n) = PhaseEvent(PhaseAt(m))
      BY <2>4 DEF EventAt
    <3> QED
      BY <1>2, <2>1, <2>4, <3>1 DEF StageAt, PhaseEvent
  <2> QED
    BY <2>2, <2>3, <2>4
<1>12. s.cloneComplete <=> Before(s.ledger, Len(s.ledger) + 1, "clone_completed")
  BY <1>2, <1>8 DEF Counted
<1>13. s.reproductionFailed
         <=> Before(s.ledger, Len(s.ledger) + 1, "pre_patch_failure_observed")
  BY <1>2, <1>9 DEF Counted
<1>14. s.patchRecorded <=> Before(s.ledger, Len(s.ledger) + 1, "patch_recorded")
  BY <1>2, <1>10 DEF Counted
<1>15. /\ s.pagesUsed <= MaxPages
       /\ s.writesUsed <= MaxWrites
       /\ s.lease.expiresAt - s.lease.issuedAt = TTL
       /\ s.nextPage = s.pagesUsed + 1
  BY <1>2 DEF Counted
<1> QED
  BY <1>4, <1>5, <1>6, <1>11, <1>12, <1>13, <1>14, <1>15 DEF ValidState

(* The steps of the repair are in it once each, in their order.            *)
LEMMA ShapeOrder ==
  ASSUME TypeOK, file # NoState => Shaped(file)
  PROVE  RepairOrder
<1> DEFINE chain == <<"clone_completed", "pre_patch_failure_observed",
                      "patch_recorded", "push_recorded", "pull_request_recorded">>
           At(k) == {i \in DOMAIN file.ledger : file.ledger[i].kind = k}
<1> SUFFICES ASSUME file # NoState
             PROVE  /\ \A x \in 1..5 : Cardinality(At(chain[x])) <= 1
                    /\ \A x \in 1..4 : \A j \in At(chain[x + 1]) :
                         \E i \in At(chain[x]) : i < j
                    /\ At("push_recorded") # {} => PushAuthorized
                    /\ At("pull_request_recorded") # {} => PushAuthorized /\ PRAuthorized
  BY DEF RepairOrder
<1> file \in State /\ file.ledger \in Seq(Event)
  BY DEF TypeOK, State
<1>1. PICK n \in 0..MaxPages, m \in 0..5 : Reached(file, n, m)
  BY DEF Shaped
<1> n \in Nat /\ m \in Nat
  BY PolicyAssumption
<1>2. Logged(file, n, m) /\ Counted(file, n, m)
  BY <1>1 DEF Reached
<1>3. DOMAIN file.ledger = 1..n + m + 1
  BY <1>2 DEF Logged
<1>4. \A x \in 1..5 : At(chain[x]) = {i \in 1..n + m + 1 : i = n + 1 + x}
  <2> SUFFICES ASSUME NEW x \in 1..5, NEW i \in 1..n + m + 1
               PROVE  file.ledger[i].kind = chain[x] <=> i = n + 1 + x
    BY <1>3
  <2> KindAt(file, n, i)
    BY <1>2, KindsAt
  <2>1. CASE x = 1
    BY <2>1 DEF KindAt
  <2>2. CASE x = 2
    BY <2>2 DEF KindAt
  <2>3. CASE x = 3
    BY <2>3 DEF KindAt
  <2>4. CASE x = 4
    BY <2>4 DEF KindAt
  <2>5. CASE x = 5
    BY <2>5 DEF KindAt
  <2> QED
    BY <2>1, <2>2, <2>3, <2>4, <2>5
<1>5. At("push_recorded") = At(chain[4]) /\ At("pull_request_recorded") = At(chain[5])
  OBVIOUS
<1> HIDE DEF At, chain
<1>6. ASSUME NEW x \in 1..5
      PROVE  Cardinality(At(chain[x])) <= 1
  <2>1. CASE At(chain[x]) = {}
    BY <2>1, FS_EmptySet
  <2>2. CASE At(chain[x]) # {}
    <3>1. At(chain[x]) = {n + 1 + x}
      BY <1>4, <2>2
    <3>2. Cardinality({n + 1 + x}) = 1
      BY FS_Singleton
    <3> QED
      BY <3>1, <3>2
  <2> QED
    BY <2>1, <2>2
<1>7. ASSUME NEW x \in 1..4, NEW j \in At(chain[x + 1])
      PROVE  \E i \in At(chain[x]) : i < j
  <2>1. j = n + 2 + x /\ j \in 1..n + m + 1
    BY <1>4
  <2>2. n + 1 + x \in 1..n + m + 1 /\ x \in 1..5
    BY <2>1
  <2>3. n + 1 + x \in At(chain[x])
    BY <1>4, <2>2
  <2> QED
    BY <2>1, <2>3
<1>8. At("push_recorded") # {} => m >= 4
  BY <1>4, <1>5
<1>9. At("pull_request_recorded") # {} => m >= 5
  BY <1>4, <1>5
<1> QED
  BY <1>2, <1>6, <1>7, <1>8, <1>9 DEF Counted

-----------------------------------------------------------------------------
(* How one checkpoint follows another.                                     *)

Renewed(t, s) ==
  /\ t = [s EXCEPT !.lease = t.lease]
  /\ t.lease.token > s.lease.token

Spent(t, s) == t = [s EXCEPT !.exhausted = TRUE]

(* One page, or one phase, more: what is paid for is not paid for by a     *)
(* run that is spent.                                                      *)
Turned(t, s, n, m) ==
  /\ m = 0
  /\ ~s.exhausted
  /\ Reached(t, n + 1, 0)
  /\ t.ledger = Append(s.ledger, PageEvent(n + 1))

Advanced(t, s, n, m) ==
  /\ m < 5
  /\ m >= 2 => ~s.exhausted
  /\ Reached(t, n, m + 1)
  /\ t.ledger = Append(s.ledger, PhaseEvent(PhaseAt(m + 1)))

Extended(t, s) ==
  /\ t.lease = s.lease
  /\ t.exhausted = s.exhausted
  /\ \E n \in 0..MaxPages, m \in 0..5 :
       Reached(s, n, m) /\ (Turned(t, s, n, m) \/ Advanced(t, s, n, m))

Follows(t, s) == Renewed(t, s) \/ Spent(t, s) \/ Extended(t, s)

(* The first checkpoint.                                                   *)
LEMMA CreatedShaped ==
  ASSUME NEW lease \in Lease, lease.expiresAt - lease.issuedAt = TTL
  PROVE  Shaped(NewRun(lease))
<1> DEFINE s == NewRun(lease)
<1>1. Len(s.ledger) = 1 /\ s.ledger[1] = PhaseEvent("run_created")
  BY DEF NewRun
<1>2. Logged(s, 0, 0)
  BY <1>1 DEF Logged, EventAt
<1>3. Counted(s, 0, 0)
  BY PolicyAssumption DEF Counted, NewRun, WritesAt
<1>4. s.stage = StageAt(0, 0)
  BY DEF NewRun, StageAt
<1>5. Reached(s, 0, 0)
  BY <1>2, <1>3, <1>4, PolicyAssumption DEF Reached
<1> QED
  BY <1>5, PolicyAssumption DEF Shaped

(* A new lease, or a spent budget, is no event.                            *)
LEMMA SameShape ==
  ASSUME NEW s \in State, NEW t \in State, Shaped(s),
         \/ Spent(t, s)
         \/ Renewed(t, s) /\ t.lease.expiresAt - t.lease.issuedAt = TTL
  PROVE  Shaped(t)
<1>1. PICK n \in 0..MaxPages, m \in 0..5 : Reached(s, n, m)
  BY DEF Shaped
<1>2. /\ t.stage = s.stage /\ t.ledger = s.ledger
      /\ t.pagesUsed = s.pagesUsed /\ t.nextPage = s.nextPage
      /\ t.cloneComplete = s.cloneComplete
      /\ t.reproductionFailed = s.reproductionFailed
      /\ t.patchRecorded = s.patchRecorded
      /\ t.writesUsed = s.writesUsed
      /\ t.lease.expiresAt - t.lease.issuedAt = TTL
  <2>1. CASE Spent(t, s)
    BY <1>1, <2>1 DEF Spent, State, Reached, Counted
  <2>2. CASE Renewed(t, s)
    <3>1. t = [s EXCEPT !.lease = t.lease]
      BY <2>2 DEF Renewed
    <3>2. /\ t.stage = s.stage /\ t.ledger = s.ledger
          /\ t.pagesUsed = s.pagesUsed /\ t.nextPage = s.nextPage
          /\ t.cloneComplete = s.cloneComplete
          /\ t.reproductionFailed = s.reproductionFailed
          /\ t.patchRecorded = s.patchRecorded
          /\ t.writesUsed = s.writesUsed
      BY <3>1 DEF State
    <3>3. t.lease.expiresAt - t.lease.issuedAt = TTL
      BY <1>1, <3>1 DEF Spent, State, Reached, Counted
    <3> QED
      BY <3>2, <3>3
  <2> QED
    BY <2>1, <2>2
<1>3. Reached(t, n, m)
  BY <1>1, <1>2 DEF Reached, Logged, Counted
<1> QED
  BY <1>3 DEF Shaped

(* The event that comes next, at the end of the ledger.                    *)
LEMMA AppendLogged ==
  ASSUME NEW s \in State, NEW t \in State,
         NEW n \in 0..MaxPages, NEW m \in 0..5, Logged(s, n, m)
  PROVE  /\ m = 0 /\ t.ledger = Append(s.ledger, PageEvent(n + 1)) => Logged(t, n + 1, 0)
         /\ m < 5 /\ t.ledger = Append(s.ledger, PhaseEvent(PhaseAt(m + 1)))
              => Logged(t, n, m + 1)
<1> n \in Nat /\ m \in Nat /\ s.ledger \in Seq(Event)
  BY PolicyAssumption DEF State
<1>1. Len(s.ledger) = n + m + 1
      /\ \A i \in 1..n + m + 1 : s.ledger[i] = EventAt(i, n)
  BY DEF Logged
<1>2. ASSUME m = 0, t.ledger = Append(s.ledger, PageEvent(n + 1))
      PROVE  Logged(t, n + 1, 0)
  <2>1. /\ Len(t.ledger) = n + 2
        /\ t.ledger[n + 2] = PageEvent(n + 1)
        /\ \A i \in 1..n + 1 : t.ledger[i] = s.ledger[i]
    BY <1>1, <1>2
  <2>2. \A i \in 1..n + 1 : EventAt(i, n) = EventAt(i, n + 1)
    BY DEF EventAt
  <2>3. EventAt(n + 2, n + 1) = PageEvent(n + 1)
    BY DEF EventAt
  <2>4. \A i \in 1..n + 2 : t.ledger[i] = EventAt(i, n + 1)
    BY <1>1, <1>2, <2>1, <2>2, <2>3
  <2> QED
    BY <2>1, <2>4 DEF Logged
<1>3. ASSUME m < 5, t.ledger = Append(s.ledger, PhaseEvent(PhaseAt(m + 1)))
      PROVE  Logged(t, n, m + 1)
  <2>1. /\ Len(t.ledger) = n + m + 2
        /\ t.ledger[n + m + 2] = PhaseEvent(PhaseAt(m + 1))
        /\ \A i \in 1..n + m + 1 : t.ledger[i] = s.ledger[i]
    BY <1>1, <1>3
  <2>2. EventAt(n + m + 2, n) = PhaseEvent(PhaseAt(m + 1))
    <3>1. (n + m + 2) - n - 1 = m + 1 /\ n + m + 2 # 1 /\ ~(n + m + 2 <= n + 1)
      OBVIOUS
    <3> QED
      BY <3>1 DEF EventAt
  <2>3. ASSUME NEW i \in 1..n + m + 2
        PROVE  t.ledger[i] = EventAt(i, n)
    <3>1. CASE i \in 1..n + m + 1
      BY <1>1, <2>1, <3>1
    <3>2. CASE i = n + m + 2
      BY <2>1, <2>2, <3>2
    <3> QED
      BY <3>1, <3>2
  <2> QED
    BY <2>1, <2>3 DEF Logged
<1> QED
  BY <1>2, <1>3

-----------------------------------------------------------------------------
(* The Record operations: each answers truthfully and changes nothing, or  *)
(* submits the checkpoint that follows.                                    *)

Answered ==
  /\ reply'.outcome # "ok"
  /\ reply'.outcome = "ErrDuplicateEvent" /\ IsStep(reply'.event) =>
       file # NoState /\ Has(file.ledger, reply'.event)
  /\ UNCHANGED <<file, stable, clock, issued, lock, pc, exec, cand, outcome, req>>

Moved(p) ==
  /\ \E s \in State, o \in {"ok", "ErrBudgetExhausted"} :
       /\ Shaped(s)
       /\ Spent(s, file) \/ Extended(s, file)
       /\ Submit(p, s, o, "changed")
  /\ UNCHANGED <<file, stable, clock, issued, exec, req>>

(* The counts of s are those after the event e.                            *)
Coming(s, e, n, m) ==
  \/ /\ m = 0 /\ n < MaxPages /\ ~file.exhausted
     /\ e = PageEvent(n + 1)
     /\ Counted(s, n + 1, 0)
  \/ /\ m < 5 /\ (m >= 2 => ~file.exhausted)
     /\ e = PhaseEvent(PhaseAt(m + 1))
     /\ Counted(s, n, m + 1)

(* Which stage means how many phases.                                      *)
LEMMA StagePhases ==
  ASSUME NEW s \in State, NEW n \in 0..MaxPages, NEW m \in 0..5, Reached(s, n, m)
  PROVE  /\ s.stage \in {"created", "discovery"} => m = 0
         /\ s.stage = "cloned" => m = 1
         /\ s.stage = "reproduced" => m = 2
         /\ s.stage = "patched" => m = 3
         /\ s.stage = "pushed" => m = 4
<1>1. s.stage = StageAt(n, m) /\ m \in {0, 1, 2, 3, 4, 5}
  BY DEF Reached
<1>2. CASE m = 0
  BY <1>1, <1>2 DEF StageAt
<1>3. CASE m = 1
  BY <1>1, <1>3 DEF StageAt, PhaseAt, StageOf
<1>4. CASE m = 2
  BY <1>1, <1>4 DEF StageAt, PhaseAt, StageOf
<1>5. CASE m = 3
  BY <1>1, <1>5 DEF StageAt, PhaseAt, StageOf
<1>6. CASE m = 4
  BY <1>1, <1>6 DEF StageAt, PhaseAt, StageOf
<1>7. CASE m = 5
  BY <1>1, <1>7 DEF StageAt, PhaseAt, StageOf
<1> QED
  BY <1>1, <1>2, <1>3, <1>4, <1>5, <1>6, <1>7

(* An accepted event extends the checkpoint.                               *)
LEMMA AcceptMoves ==
  ASSUME NEW p \in Procs, file \in State, NEW n \in 0..MaxPages, NEW m \in 0..5,
         Reached(file, n, m), NEW s \in State, NEW e \in Event,
         s.lease = file.lease, s.ledger = file.ledger, s.exhausted = file.exhausted,
         Coming(s, e, n, m), Accept(p, s, e)
  PROVE  Answered \/ Moved(p)
<1> n \in Nat /\ m \in Nat
  BY PolicyAssumption
<1>1. CASE Has(s.ledger, e)
  BY <1>1, NoStateAssumption DEF Accept, Refuse, Reply, callVars, Answered
<1>2. CASE ~Has(s.ledger, e)
  <2> DEFINE t == [s EXCEPT !.ledger = Append(@, e), !.stage = StageOf[e.kind]]
  <2>1. file.ledger \in Seq(Event) /\ StageOf[e.kind] \in Stages
    BY DEF Event, Kinds, Stages, State
  <2>2. /\ t \in State
        /\ t.lease = s.lease /\ t.exhausted = s.exhausted
        /\ t.ledger = Append(s.ledger, e) /\ t.stage = StageOf[e.kind]
        /\ t.pagesUsed = s.pagesUsed /\ t.nextPage = s.nextPage
        /\ t.cloneComplete = s.cloneComplete
        /\ t.reproductionFailed = s.reproductionFailed
        /\ t.patchRecorded = s.patchRecorded
        /\ t.writesUsed = s.writesUsed
    <3> DEFINE u == [s EXCEPT !.ledger = Append(@, e)]
    <3>1. Append(s.ledger, e) \in Seq(Event)
      BY <2>1
    <3>2. /\ u \in State
          /\ u.lease = s.lease /\ u.exhausted = s.exhausted
          /\ u.ledger = Append(s.ledger, e)
          /\ u.pagesUsed = s.pagesUsed /\ u.nextPage = s.nextPage
          /\ u.cloneComplete = s.cloneComplete
          /\ u.reproductionFailed = s.reproductionFailed
          /\ u.patchRecorded = s.patchRecorded
          /\ u.writesUsed = s.writesUsed
      BY <3>1 DEF State
    <3>3. t = [u EXCEPT !.stage = StageOf[e.kind]]
      OBVIOUS
    <3> HIDE DEF t, u
    <3> QED
      BY <2>1, <3>2, <3>3 DEF State
  <2>3. Submit(p, t, "ok", "changed") /\ UNCHANGED <<file, stable, clock, issued, exec, req>>
    BY <1>2 DEF Accept
  <2> HIDE DEF t
  <2>4. \A x, y : Counted(s, x, y) => Counted(t, x, y)
    BY <2>2 DEF Counted
  <2>5. Extended(t, file) /\ Shaped(t)
    <3>1. CASE /\ m = 0 /\ n < MaxPages /\ ~file.exhausted
               /\ e = PageEvent(n + 1)
               /\ Counted(s, n + 1, 0)
      <4>1. Logged(t, n + 1, 0)
        BY <2>2, <3>1, AppendLogged DEF Reached
      <4>2. t.stage = StageAt(n + 1, 0)
        BY <2>2, <3>1 DEF StageAt, PageEvent, StageOf
      <4>3. Reached(t, n + 1, 0)
        BY <2>4, <3>1, <4>1, <4>2, PolicyAssumption DEF Reached
      <4>4. Turned(t, file, n, m)
        BY <2>2, <3>1, <4>3 DEF Turned
      <4> QED
        BY <2>2, <3>1, <4>3, <4>4, PolicyAssumption DEF Extended, Shaped
    <3>2. CASE /\ m < 5 /\ (m >= 2 => ~file.exhausted)
               /\ e = PhaseEvent(PhaseAt(m + 1))
               /\ Counted(s, n, m + 1)
      <4>1. Logged(t, n, m + 1)
        BY <2>2, <3>2, AppendLogged DEF Reached
      <4>2. t.stage = StageAt(n, m + 1)
        BY <2>2, <3>2 DEF StageAt, PhaseEvent
      <4>3. Reached(t, n, m + 1) /\ m + 1 \in 0..5
        BY <2>4, <3>2, <4>1, <4>2 DEF Reached
      <4>4. Advanced(t, file, n, m)
        BY <2>2, <3>2, <4>3 DEF Advanced
      <4> QED
        BY <2>2, <3>2, <4>3, <4>4 DEF Extended, Shaped
    <3> QED
      BY <3>1, <3>2 DEF Coming
  <2> QED
    BY <2>2, <2>3, <2>5 DEF Moved
<1> QED
  BY <1>1, <1>2

(* Both kinds of change answer or move.                                    *)
LEMMA ChangeMoves ==
  ASSUME NEW p \in Procs, file \in State, NEW n \in 0..MaxPages, NEW m \in 0..5,
         Reached(file, n, m), NEW s \in State, NEW e,
         s.lease = file.lease, s.ledger = file.ledger, s.exhausted = file.exhausted,
         NEW r, r = "ok" => e \in Event,
         r = "ErrDuplicateEvent" /\ IsStep(e) => Has(file.ledger, e),
         \/ Change(p, r, s, e) /\ (r = "ok" => Coming(s, e, n, m))
         \/ \E left \in BOOLEAN :
              Charge(p, r, left, s, e) /\ (r = "ok" /\ left => Coming(s, e, n, m))
  PROVE  Answered \/ Moved(p)
<1>1. CASE r # "ok" /\ Refuse(p, r, e)
  BY <1>1, NoStateAssumption DEF Refuse, Reply, callVars, Answered
<1>2. CASE r = "ok" /\ Coming(s, e, n, m) /\ Accept(p, s, e)
  BY <1>2, AcceptMoves
<1>3. CASE Exhaust(p)
  <2> DEFINE t == [file EXCEPT !.exhausted = TRUE]
  <2>1. t \in State
    BY DEF State
  <2>2. Shaped(file)
    BY DEF Shaped
  <2>3. Spent(t, file)
    BY DEF Spent
  <2>4. Shaped(t)
    BY <2>1, <2>2, <2>3, SameShape
  <2> QED
    BY <1>3, <2>1, <2>3, <2>4 DEF Exhaust, Moved
<1> QED
  BY <1>1, <1>2, <1>3 DEF Change, Charge

(* The n-th page turned, or one page too many.                             *)
LEMMA PageMoves ==
  ASSUME NEW p \in Procs, file \in State, NEW n \in 0..MaxPages, NEW m \in 0..5,
         Reached(file, n, m),
         NEW page \in CallerPages, RecordPage(p, page)
  PROVE  Answered \/ Moved(p)
<1> DEFINE t == [file EXCEPT !.pagesUsed = @ + 1]
           s == [file EXCEPT !.pagesUsed = @ + 1, !.nextPage = @ + 1]
           e == PageEvent(page)
<1> n \in Nat /\ m \in Nat /\ page \in Int
  BY PolicyAssumption DEF CallerPages
<1>1. PICK r \in {PageRefusal(file, page), "ErrCheckpointMismatch"} :
        Charge(p, r, PageBudgetLeft(file), s, e)
  BY DEF RecordPage
<1>2. /\ s \in State
      /\ s.lease = file.lease /\ s.ledger = file.ledger /\ s.exhausted = file.exhausted
      /\ s.pagesUsed = file.pagesUsed + 1 /\ s.nextPage = file.nextPage + 1
      /\ s.cloneComplete = file.cloneComplete
      /\ s.reproductionFailed = file.reproductionFailed
      /\ s.patchRecorded = file.patchRecorded
      /\ s.writesUsed = file.writesUsed
  <2>1. /\ t \in State
        /\ t.lease = file.lease /\ t.ledger = file.ledger /\ t.exhausted = file.exhausted
        /\ t.pagesUsed = file.pagesUsed + 1 /\ t.nextPage = file.nextPage
        /\ t.cloneComplete = file.cloneComplete
        /\ t.reproductionFailed = file.reproductionFailed
        /\ t.patchRecorded = file.patchRecorded
        /\ t.writesUsed = file.writesUsed
    BY SMTT(30) DEF State
  <2>2. s = [t EXCEPT !.nextPage = file.nextPage + 1]
    BY SMTT(30)
  <2>3. file.nextPage + 1 \in Nat
    BY DEF State
  <2> HIDE DEF t, s
  <2> QED
    BY <2>1, <2>2, <2>3 DEF State
<1>3. Logged(file, n, m) /\ Counted(file, n, m)
  BY DEF Reached
<1>4. ASSUME r = "ErrDuplicateEvent", IsStep(e)
      PROVE  Has(file.ledger, e)
  <2>1. page < n + 1
    BY <1>1, <1>3, <1>4 DEF PageRefusal, Counted
  <2>2. page >= 1
    BY <1>4 DEF IsStep, PageEvent
  <2>3. page + 1 \in 1..n + m + 1 /\ EventAt(page + 1, n) = PageEvent(page)
    BY <2>1, <2>2 DEF EventAt
  <2>4. DOMAIN file.ledger = 1..n + m + 1
    BY <1>3 DEF State, Logged
  <2> QED
    BY <1>3, <2>3, <2>4 DEF Has, Logged
<1>5. ASSUME r = "ok"
      PROVE  page = n + 1 /\ m = 0 /\ e \in Event
  <2>1. /\ ~(page < file.nextPage) /\ ~(page > file.nextPage)
        /\ file.stage \in {"created", "discovery"}
    BY <1>1, <1>5 DEF PageRefusal
  <2>2. page = n + 1 /\ m = 0
    BY <1>3, <2>1, StagePhases DEF Counted
  <2> QED
    BY <2>2 DEF PageEvent, Event, Kinds, StageOf
<1>6. ASSUME r = "ok", PageBudgetLeft(file)
      PROVE  Coming(s, e, n, m)
  <2>1. n < MaxPages /\ ~file.exhausted
    BY <1>3, <1>6 DEF PageBudgetLeft, Counted
  <2>2. page = n + 1 /\ m = 0
    BY <1>5, <1>6
  <2> HIDE DEF s
  <2>3. Counted(s, n + 1, 0)
    BY <1>2, <1>3, <2>2 DEF Counted
  <2> QED
    BY <2>1, <2>2, <2>3 DEF Coming
<1>7. PageBudgetLeft(file) \in BOOLEAN
  BY DEF PageBudgetLeft
<1> HIDE DEF s, e
<1>8. \E left \in BOOLEAN :
        /\ Charge(p, r, left, s, e)
        /\ r = "ok" /\ left => Coming(s, e, n, m)
  BY <1>1, <1>6, <1>7
<1>9. /\ r = "ok" => e \in Event
      /\ r = "ErrDuplicateEvent" /\ IsStep(e) => Has(file.ledger, e)
  BY <1>4, <1>5
<1>10. /\ s \in State
       /\ s.lease = file.lease /\ s.ledger = file.ledger /\ s.exhausted = file.exhausted
  BY <1>2
<1> QED
  BY <1>8, <1>9, <1>10, ChangeMoves

(* The clone and the reproduction, which cost nothing.                     *)
LEMMA FreeMoves ==
  ASSUME NEW p \in Procs, file \in State, NEW n \in 0..MaxPages, NEW m \in 0..5,
         Reached(file, n, m), RecordClone(p) \/ RecordReproduction(p)
  PROVE  Answered \/ Moved(p)
<1> n \in Nat /\ m \in Nat
  BY PolicyAssumption
<1>1. Counted(file, n, m)
  BY DEF Reached
<1>2. CASE RecordClone(p)
  <2> DEFINE s == [file EXCEPT !.cloneComplete = TRUE]
             e == PhaseEvent("clone_completed")
  <2>1. e \in Event
    BY DEF PhaseEvent, Event, Kinds, StageOf
  <2>2. /\ s \in State
        /\ s.lease = file.lease /\ s.ledger = file.ledger /\ s.exhausted = file.exhausted
        /\ s.pagesUsed = file.pagesUsed /\ s.nextPage = file.nextPage
        /\ s.cloneComplete
        /\ s.reproductionFailed = file.reproductionFailed
        /\ s.patchRecorded = file.patchRecorded
        /\ s.writesUsed = file.writesUsed
    BY DEF State
  <2>3. PICK answer \in {"ok", "ErrUnsafeWorkspace"} :
          Change(p, CloneRefusal(file, answer), s, e)
    BY <1>2 DEF RecordClone
  <2> DEFINE r == CloneRefusal(file, answer)
  <2>4. r = "ErrDuplicateEvent" => Has(file.ledger, e)
    BY DEF CloneRefusal
  <2>5. ASSUME r = "ok"
        PROVE  Coming(s, e, n, m)
    <3>1. m = 0
      BY <2>5, StagePhases DEF CloneRefusal
    <3>2. e = PhaseEvent(PhaseAt(m + 1))
      BY <3>1 DEF PhaseAt
    <3> HIDE DEF s, e
    <3>3. Counted(s, n, m + 1)
      BY <1>1, <2>2, <3>1 DEF Counted, WritesAt
    <3> QED
      BY <3>1, <3>2, <3>3 DEF Coming
  <2> HIDE DEF s, e, r
  <2> QED
    BY <2>1, <2>2, <2>3, <2>4, <2>5, ChangeMoves DEF r
<1>3. CASE RecordReproduction(p)
  <2> DEFINE s == [file EXCEPT !.reproductionFailed = TRUE]
             e == PhaseEvent("pre_patch_failure_observed")
  <2>1. e \in Event
    BY DEF PhaseEvent, Event, Kinds, StageOf
  <2>2. /\ s \in State
        /\ s.lease = file.lease /\ s.ledger = file.ledger /\ s.exhausted = file.exhausted
        /\ s.pagesUsed = file.pagesUsed /\ s.nextPage = file.nextPage
        /\ s.cloneComplete = file.cloneComplete
        /\ s.reproductionFailed
        /\ s.patchRecorded = file.patchRecorded
        /\ s.writesUsed = file.writesUsed
    BY DEF State
  <2>3. PICK answer \in {"ok", "ErrUnsafeWorkspace", "ErrReproductionRequired"} :
          Change(p, ReproductionRefusal(file, answer), s, e)
    BY <1>3 DEF RecordReproduction
  <2> DEFINE r == ReproductionRefusal(file, answer)
  <2>4. r = "ErrDuplicateEvent" => Has(file.ledger, e)
    BY DEF ReproductionRefusal
  <2>5. ASSUME r = "ok"
        PROVE  Coming(s, e, n, m)
    <3>1. m = 1
      BY <2>5, StagePhases DEF ReproductionRefusal
    <3>2. e = PhaseEvent(PhaseAt(m + 1))
      BY <3>1 DEF PhaseAt
    <3> HIDE DEF s, e
    <3>3. Counted(s, n, m + 1)
      BY <1>1, <2>2, <3>1 DEF Counted, WritesAt
    <3> QED
      BY <3>1, <3>2, <3>3 DEF Coming
  <2> HIDE DEF s, e, r
  <2> QED
    BY <2>1, <2>2, <2>3, <2>4, <2>5, ChangeMoves DEF r
<1> QED
  BY <1>2, <1>3

(* The patch, the push and the pull request, each charged as a write.      *)
LEMMA WriteMoves ==
  ASSUME NEW p \in Procs, file \in State, NEW n \in 0..MaxPages, NEW m \in 0..5,
         Reached(file, n, m), RecordPatch(p) \/ RecordPush(p) \/ RecordPR(p)
  PROVE  Answered \/ Moved(p)
<1> n \in Nat /\ m \in Nat /\ MaxWrites \in Nat
  BY PolicyAssumption
<1>1. Counted(file, n, m)
  BY DEF Reached
<1>2. WriteBudgetLeft(file) => ~file.exhausted /\ file.writesUsed < MaxWrites
  BY DEF WriteBudgetLeft
<1>3. WriteBudgetLeft(file) \in BOOLEAN
  BY DEF WriteBudgetLeft
<1>4. CASE RecordPatch(p)
  <2> DEFINE t == [file EXCEPT !.writesUsed = @ + 1]
             s == [file EXCEPT !.writesUsed = @ + 1, !.patchRecorded = TRUE]
             e == PhaseEvent("patch_recorded")
  <2>1. e \in Event
    BY DEF PhaseEvent, Event, Kinds, StageOf
  <2>2. /\ s \in State
        /\ s.lease = file.lease /\ s.ledger = file.ledger /\ s.exhausted = file.exhausted
        /\ s.pagesUsed = file.pagesUsed /\ s.nextPage = file.nextPage
        /\ s.cloneComplete = file.cloneComplete
        /\ s.reproductionFailed = file.reproductionFailed
        /\ s.patchRecorded
        /\ s.writesUsed = file.writesUsed + 1
    <3>1. /\ t \in State
          /\ t.lease = file.lease /\ t.ledger = file.ledger /\ t.exhausted = file.exhausted
          /\ t.pagesUsed = file.pagesUsed /\ t.nextPage = file.nextPage
          /\ t.cloneComplete = file.cloneComplete
          /\ t.reproductionFailed = file.reproductionFailed
          /\ t.writesUsed = file.writesUsed + 1
      BY SMTT(30) DEF State
    <3>2. s = [t EXCEPT !.patchRecorded = TRUE]
      BY SMTT(30)
    <3> HIDE DEF t, s
    <3> QED
      BY <3>1, <3>2 DEF State
  <2>3. PICK answer \in {"ok", "ErrUnsafeWorkspace"} :
          Charge(p, PatchRefusal(file, answer), WriteBudgetLeft(file), s, e)
    BY <1>4 DEF RecordPatch
  <2> DEFINE r == PatchRefusal(file, answer)
  <2>4. r = "ErrDuplicateEvent" => Has(file.ledger, e)
    BY DEF PatchRefusal
  <2>5. ASSUME r = "ok", WriteBudgetLeft(file)
        PROVE  Coming(s, e, n, m)
    <3>1. m = 2
      BY <2>5, StagePhases DEF PatchRefusal
    <3>2. e = PhaseEvent(PhaseAt(m + 1))
      BY <3>1 DEF PhaseAt
    <3> HIDE DEF s, e
    <3>3. Counted(s, n, m + 1)
      BY <1>1, <1>2, <2>2, <2>5, <3>1 DEF Counted, WritesAt
    <3> QED
      BY <1>2, <2>5, <3>1, <3>2, <3>3 DEF Coming
  <2> HIDE DEF s, e, r
  <2> QED
    BY <1>3, <2>1, <2>2, <2>3, <2>4, <2>5, ChangeMoves DEF r
<1>5. ASSUME NEW k \in {"push_recorded", "pull_request_recorded"}, NEW r,
             r = "ErrDuplicateEvent" => Has(file.ledger, PhaseEvent(k)),
             r = "ok" => \/ k = "push_recorded" /\ m = 3 /\ PushAuthorized
                         \/ k = "pull_request_recorded" /\ m = 4 /\ PRAuthorized,
             Charge(p, r, WriteBudgetLeft(file),
                    [file EXCEPT !.writesUsed = @ + 1], PhaseEvent(k))
      PROVE  Answered \/ Moved(p)
  <2> DEFINE s == [file EXCEPT !.writesUsed = @ + 1]
             e == PhaseEvent(k)
  <2>1. e \in Event
    BY DEF PhaseEvent, Event, Kinds, StageOf
  <2>2. /\ s \in State
        /\ s.lease = file.lease /\ s.ledger = file.ledger /\ s.exhausted = file.exhausted
        /\ s.pagesUsed = file.pagesUsed /\ s.nextPage = file.nextPage
        /\ s.cloneComplete = file.cloneComplete
        /\ s.reproductionFailed = file.reproductionFailed
        /\ s.patchRecorded = file.patchRecorded
        /\ s.writesUsed = file.writesUsed + 1
    BY DEF State
  <2>3. Charge(p, r, WriteBudgetLeft(file), s, e)
    BY <1>5
  <2>4. ASSUME r = "ok", WriteBudgetLeft(file)
        PROVE  Coming(s, e, n, m)
    <3>1. m \in {3, 4} /\ (m = 3 => PushAuthorized) /\ (m = 4 => PRAuthorized)
      BY <1>5, <2>4
    <3>2. e = PhaseEvent(PhaseAt(m + 1))
      BY <1>5, <2>4 DEF PhaseAt
    <3> HIDE DEF s, e
    <3>3. Counted(s, n, m + 1)
      BY <1>1, <1>2, <2>2, <2>4, <3>1 DEF Counted, WritesAt
    <3> QED
      BY <1>2, <2>4, <3>1, <3>2, <3>3 DEF Coming
  <2> HIDE DEF s, e
  <2>5. \E left \in BOOLEAN :
          Charge(p, r, left, s, e) /\ (r = "ok" /\ left => Coming(s, e, n, m))
    BY <1>3, <2>3, <2>4
  <2>6. r = "ErrDuplicateEvent" => Has(file.ledger, e)
    BY <1>5 DEF e
  <2> QED
    BY <2>1, <2>2, <2>5, <2>6, ChangeMoves
<1>6. CASE RecordPush(p)
  <2> DEFINE r == PushRefusal(file)
  <2>1. r = "ErrDuplicateEvent" => Has(file.ledger, PhaseEvent("push_recorded"))
    BY DEF PushRefusal
  <2>2. r = "ok" => m = 3 /\ PushAuthorized
    BY StagePhases DEF PushRefusal
  <2>3. Charge(p, r, WriteBudgetLeft(file),
               [file EXCEPT !.writesUsed = @ + 1], PhaseEvent("push_recorded"))
    BY <1>6 DEF RecordPush
  <2> HIDE DEF r
  <2> QED
    BY <1>5, <2>1, <2>2, <2>3
<1>7. CASE RecordPR(p)
  <2> DEFINE r == PRRefusal(file)
  <2>1. r = "ErrDuplicateEvent" => Has(file.ledger, PhaseEvent("pull_request_recorded"))
    BY DEF PRRefusal
  <2>2. r = "ok" => m = 4 /\ PRAuthorized
    BY StagePhases DEF PRRefusal
  <2>3. Charge(p, r, WriteBudgetLeft(file),
               [file EXCEPT !.writesUsed = @ + 1], PhaseEvent("pull_request_recorded"))
    BY <1>7 DEF RecordPR
  <2> HIDE DEF r
  <2> QED
    BY <1>5, <2>1, <2>2, <2>3
<1> QED
  BY <1>4, <1>6, <1>7

(* mutate answers, or submits what follows on the checkpoint it found.     *)
LEMMA MutateMoves ==
  ASSUME TypeOK, NEW p \in Procs, file # NoState => Shaped(file), Mutate(p)
  PROVE  Answered \/ (Moved(p) /\ file \in State /\ lock = Nobody)
<1>1. CASE MutateRefusal(p) # "ok"
  <2>1. MutateRefusal(p) # "ErrDuplicateEvent"
    BY DEF MutateRefusal
  <2> QED
    BY <1>1, <2>1 DEF Mutate, Refuse, Reply, callVars, Answered
<1>2. CASE MutateRefusal(p) = "ok"
  <2>1. lock = Nobody /\ file # NoState
    BY <1>2 DEF MutateRefusal
  <2>2. file \in State
    BY <2>1 DEF TypeOK
  <2>3. PICK n \in 0..MaxPages, m \in 0..5 : Reached(file, n, m)
    BY <2>1 DEF Shaped
  <2> QED
    BY <1>2, <2>1, <2>2, <2>3, PageMoves, FreeMoves, WriteMoves DEF Mutate
<1> QED
  BY <1>1, <1>2

-----------------------------------------------------------------------------
(* The inductive invariant: every checkpoint there is has the shape, and   *)
(* the candidate of a write follows the checkpoint it will replace.        *)

USE DEF InLock

FilesShaped ==
  /\ file # NoState => Shaped(file)
  /\ stable # NoState => Shaped(stable)

CandidateShaped == \A p \in Procs : pc[p] \in InLock => Shaped(cand[p])

Succeeds(s) ==
  IF file = NoState THEN \E lease \in Lease : s = NewRun(lease) ELSE Follows(s, file)

CandidateSucceeds ==
  \A p \in Procs : pc[p] \in {"changed", "replace"} => Succeeds(cand[p])

OutcomeKnown ==
  \A p \in Procs : pc[p] \in InLock => outcome[p] \in {"ok", "ErrBudgetExhausted"}

ShapeInv == FilesShaped /\ CandidateShaped /\ CandidateSucceeds /\ OutcomeKnown

(* Steps that leave the file and everybody in the lock as they were.       *)
LEMMA QuietShape ==
  ASSUME ShapeInv, UNCHANGED file, stable' \in {stable, file},
         \A p \in Procs : pc'[p] \in InLock =>
           /\ pc[p] \in InLock
           /\ pc'[p] # "sync" => pc[p] # "sync"
           /\ cand'[p] = cand[p] /\ outcome'[p] = outcome[p]
  PROVE  ShapeInv'
<1>1. FilesShaped'
  BY DEF ShapeInv, FilesShaped, Shaped
<1>2. CandidateShaped'
  BY DEF ShapeInv, CandidateShaped
<1>3. CandidateSucceeds'
  <2> SUFFICES ASSUME NEW p \in Procs, pc'[p] \in {"changed", "replace"}
               PROVE  Succeeds(cand[p])' /\ TRUE
    BY DEF CandidateSucceeds
  <2>1. pc[p] \in {"changed", "replace"} /\ cand'[p] = cand[p]
    OBVIOUS
  <2>2. Succeeds(cand[p])
    BY <2>1 DEF ShapeInv, CandidateSucceeds
  <2> QED
    BY <2>1, <2>2 DEF Succeeds
<1>4. OutcomeKnown'
  BY DEF ShapeInv, OutcomeKnown
<1> QED
  BY <1>1, <1>2, <1>3, <1>4 DEF ShapeInv

(* Giving the lock back.                                                   *)
LEMMA ReleaseShape ==
  ASSUME TypeOK, LockInv, ShapeInv, NEW p \in Procs, NEW o, pc[p] \in InLock,
         Release(p, o), UNCHANGED file, stable' \in {stable, file}
  PROVE  ShapeInv'
<1>1. \A q \in Procs : q # p => pc[q] \notin InLock
  BY OneInLock
<1>2. \A q \in Procs : pc'[q] \notin InLock
  BY <1>1 DEF Release, TypeOK
<1> QED
  BY <1>2, QuietShape

(* Taking the lock with a candidate that succeeds the checkpoint.          *)
LEMMA SubmitShape ==
  ASSUME TypeOK, LockInv, ShapeInv, lock = Nobody, NEW p \in Procs,
         NEW s \in State, Shaped(s), Succeeds(s),
         NEW o \in {"ok", "ErrBudgetExhausted"}, NEW at \in {"changed", "replace"},
         Submit(p, s, o, at), UNCHANGED <<file, stable>>
  PROVE  ShapeInv'
<1>1. \A q \in Procs : pc[q] \notin InLock
  BY NobodyInLock
<1>2. /\ pc' = [pc EXCEPT ![p] = at]
      /\ cand' = [cand EXCEPT ![p] = s]
      /\ outcome' = [outcome EXCEPT ![p] = o]
  BY DEF Submit
<1>3. \A q \in Procs : pc'[q] \in InLock => q = p
  BY <1>1, <1>2 DEF TypeOK
<1>4. cand'[p] = s /\ outcome'[p] = o
  BY <1>2 DEF TypeOK
<1>5. FilesShaped'
  BY DEF ShapeInv, FilesShaped, Shaped
<1>6. CandidateShaped'
  BY <1>3, <1>4 DEF CandidateShaped
<1>7. CandidateSucceeds'
  <2>1. Succeeds(cand[p])'
    BY <1>4 DEF Succeeds
  <2> QED
    BY <1>3, <2>1 DEF CandidateSucceeds
<1>8. OutcomeKnown'
  BY <1>3, <1>4 DEF OutcomeKnown
<1> QED
  BY <1>5, <1>6, <1>7, <1>8 DEF ShapeInv

(* The lease newly drawn runs for its TTL.                                 *)
LEMMA LeaseRuns ==
  ASSUME TypeOK, NEW p \in Procs, NEW now \in Nat
  PROVE  LET lease == newLease(WorkerOf[p], now)
         IN  lease.expiresAt - lease.issuedAt = TTL
BY PolicyAssumption DEF newLease

(* Every step keeps the shape.                                             *)
LEMMA ShapeStep == IndInv /\ ShapeInv /\ [Next]_vars => ShapeInv'
<1> SUFFICES ASSUME IndInv, ShapeInv, [Next]_vars
             PROVE  ShapeInv'
  OBVIOUS
<1> TypeOK /\ LockInv /\ LeaseInv
  BY DEF IndInv
<1>1. ASSUME NEW p \in Procs, NEW now \in CallerTimes, Open(p, now)
      PROVE  ShapeInv'
  <2>1. CASE OpenRefusal # "ok"
    BY <1>1, <2>1, QuietShape DEF Open, Refuse, callVars
  <2>2. CASE OpenRefusal = "ok"
    <3> DEFINE lease == newLease(WorkerOf[p], now)
               s == NewRun(lease)
    <3>1. lock = Nobody /\ file = NoState
      BY <2>2 DEF OpenRefusal
    <3>2. now \in Nat
      BY BoundAssumption DEF CallerTimes, TypeOK
    <3>3. lease \in Lease /\ s \in State /\ lease.expiresAt - lease.issuedAt = TTL
      BY <3>2, NewLeaseTyped, NewRunTyped, LeaseRuns
    <3>4. Submit(p, s, "ok", "replace") /\ UNCHANGED <<file, stable>>
      BY <1>1, <2>2 DEF Open
    <3> HIDE DEF lease
    <3>5. Shaped(s)
      BY <3>3, CreatedShaped
    <3>6. Succeeds(s)
      BY <3>1, <3>3 DEF Succeeds
    <3> HIDE DEF s
    <3> QED
      BY <3>1, <3>3, <3>4, <3>5, <3>6, SubmitShape
  <2> QED
    BY <2>1, <2>2
<1>2. ASSUME NEW p \in Procs, NEW token \in 1..issued, ResumeRead(p, token)
      PROVE  ShapeInv'
  <2>1. pc' = pc \/ pc' = [pc EXCEPT ![p] = "resuming"]
    BY <1>2 DEF ResumeRead, Refuse, callVars
  <2>2. UNCHANGED <<file, stable, cand, outcome>>
    BY <1>2 DEF ResumeRead, Refuse, callVars
  <2>3. \A q \in Procs : pc'[q] \in InLock => pc'[q] = pc[q]
    BY <2>1 DEF TypeOK
  <2> QED
    BY <2>2, <2>3, QuietShape
<1>3. ASSUME NEW p \in Procs, ResumeLocked(p)
      PROVE  ShapeInv'
  <2>1. CASE LockedRefusal(p) # "ok"
    <3>1. pc' = [pc EXCEPT ![p] = "idle"] /\ UNCHANGED <<file, stable, cand, outcome>>
      BY <1>3, <2>1 DEF ResumeLocked
    <3>2. \A q \in Procs : pc'[q] \in InLock => pc'[q] = pc[q]
      BY <3>1 DEF TypeOK
    <3> QED
      BY <3>1, <3>2, QuietShape
  <2>2. CASE LockedRefusal(p) = "ok"
    <3> DEFINE lease == newLease(WorkerOf[p], req[p].now)
               s == [file EXCEPT !.lease = lease]
    <3>1. lock = Nobody /\ file \in State /\ file # NoState
      BY <2>2 DEF LockedRefusal, ResumeRefusal, TypeOK
    <3>2. req[p].now \in Nat
      BY DEF TypeOK
    <3>3. /\ lease \in Lease /\ lease.expiresAt - lease.issuedAt = TTL
          /\ lease.token = issued + 1
      BY <3>2, NewLeaseTyped, LeaseRuns DEF newLease
    <3>4. Submit(p, s, "ok", "replace") /\ UNCHANGED <<file, stable>>
      BY <1>3, <2>2 DEF ResumeLocked
    <3> HIDE DEF lease
    <3>5. s \in State /\ s.lease = lease
      BY <3>1, <3>3, RenewedTyped
    <3>6. file.lease.token \in Nat /\ file.lease.token <= issued /\ issued \in Nat
      BY <3>1 DEF LeaseInv, TokensDrawn, TypeOK, State, Lease
    <3>7. Renewed(s, file)
      BY <3>3, <3>5, <3>6 DEF Renewed
    <3> HIDE DEF s
    <3>8. Shaped(file)
      BY <3>1 DEF ShapeInv, FilesShaped
    <3>9. Shaped(s)
      BY <3>1, <3>3, <3>5, <3>7, <3>8, SameShape
    <3>10. Succeeds(s)
      BY <3>1, <3>7 DEF Succeeds, Follows
    <3> QED
      BY <3>1, <3>4, <3>5, <3>9, <3>10, SubmitShape
  <2> QED
    BY <2>1, <2>2
<1>4. ASSUME NEW p \in Procs, Mutate(p)
      PROVE  ShapeInv'
  <2>1. CASE Answered
    BY <2>1, QuietShape DEF Answered
  <2>2. CASE Moved(p) /\ file \in State /\ lock = Nobody
    <3>1. PICK s \in State, o \in {"ok", "ErrBudgetExhausted"} :
            /\ Shaped(s)
            /\ Spent(s, file) \/ Extended(s, file)
            /\ Submit(p, s, o, "changed")
      BY <2>2 DEF Moved
    <3>2. Succeeds(s)
      BY <2>2, <3>1, NoStateAssumption DEF Succeeds, Follows
    <3>3. UNCHANGED <<file, stable>>
      BY <2>2 DEF Moved
    <3> QED
      BY <2>2, <3>1, <3>2, <3>3, SubmitShape
  <2>3. file # NoState => Shaped(file)
    BY DEF ShapeInv, FilesShaped
  <2> QED
    BY <1>4, <2>1, <2>2, <2>3, MutateMoves
<1>5. ASSUME NEW p \in Procs, Rename(p)
      PROVE  ShapeInv'
  <2>1. /\ pc[p] = "replace" /\ pc' = [pc EXCEPT ![p] = "sync"]
        /\ file' = cand[p] /\ UNCHANGED <<stable, cand, outcome>>
    BY <1>5 DEF Rename
  <2>2. \A q \in Procs : q # p => pc[q] \notin InLock
    BY <2>1, OneInLock
  <2>3. \A q \in Procs : pc'[q] \in InLock => q = p /\ pc'[q] = "sync"
    BY <2>1, <2>2 DEF TypeOK
  <2>4. Shaped(cand[p]) /\ outcome[p] \in {"ok", "ErrBudgetExhausted"}
    BY <2>1 DEF ShapeInv, CandidateShaped, OutcomeKnown
  <2>5. FilesShaped'
    BY <2>1, <2>4 DEF ShapeInv, FilesShaped, Shaped
  <2>6. CandidateShaped' /\ OutcomeKnown'
    BY <2>1, <2>3, <2>4 DEF CandidateShaped, OutcomeKnown
  <2>7. CandidateSucceeds'
    BY <2>3 DEF CandidateSucceeds
  <2> QED
    BY <2>5, <2>6, <2>7 DEF ShapeInv
<1>6. ASSUME NEW p \in Procs, Persist(p)
      PROVE  ShapeInv'
  <2>1. CASE /\ Recheck(p)
             /\ pc' = [pc EXCEPT ![p] = "replace"]
             /\ UNCHANGED <<lock, cand, outcome>>
    <3>1. /\ pc[p] = "changed" /\ pc' = [pc EXCEPT ![p] = "replace"]
          /\ UNCHANGED <<file, stable, cand, outcome>>
      BY <2>1 DEF Recheck
    <3>2. \A q \in Procs : pc'[q] \in InLock =>
            pc[q] \in InLock /\ (pc'[q] # "sync" => pc[q] # "sync")
      BY <3>1 DEF TypeOK
    <3> QED
      BY <3>1, <3>2, QuietShape
  <2>2. CASE Recheck(p) /\ Release(p, "ErrLeaseConflict")
    BY <2>2, ReleaseShape DEF Recheck
  <2>3. CASE Oversize(p)
    BY <2>3, ReleaseShape DEF Oversize
  <2>4. CASE WriteFails(p)
    BY <2>4, ReleaseShape DEF WriteFails
  <2>5. CASE SyncDirectory(p)
    BY <2>5, ReleaseShape DEF SyncDirectory
  <2>6. CASE SyncFails(p)
    BY <2>6, ReleaseShape DEF SyncFails
  <2> QED
    BY <1>5, <1>6, <2>1, <2>2, <2>3, <2>4, <2>5, <2>6 DEF Persist, Recheck
<1>7. ASSUME NEW p \in Procs, Crash(p)
      PROVE  ShapeInv'
  <2>1. /\ pc' = [pc EXCEPT ![p] = "idle"]
        /\ cand' = [cand EXCEPT ![p] = NoState]
        /\ outcome' = [outcome EXCEPT ![p] = "ok"]
        /\ UNCHANGED <<file, stable>>
    BY <1>7 DEF Crash
  <2>2. \A q \in Procs : pc'[q] \in InLock =>
          pc'[q] = pc[q] /\ cand'[q] = cand[q] /\ outcome'[q] = outcome[q]
    BY <2>1 DEF TypeOK
  <2> QED
    BY <2>1, <2>2, QuietShape
<1>8. CASE Tick
  BY <1>8, QuietShape DEF Tick
<1>9. CASE Writeback
  BY <1>9, QuietShape DEF Writeback
<1>10. CASE PowerLoss
  <2>1. \A q \in Procs : pc'[q] \notin InLock
    BY <1>10 DEF PowerLoss
  <2>2. file' = stable /\ stable' = stable
    BY <1>10 DEF PowerLoss
  <2> QED
    BY <2>1, <2>2
    DEF ShapeInv, FilesShaped, Shaped, CandidateShaped, CandidateSucceeds, OutcomeKnown
<1>11. CASE UNCHANGED vars
  BY <1>11, QuietShape DEF vars
<1> QED
  BY <1>1, <1>2, <1>3, <1>4, <1>6, <1>7, <1>8, <1>9, <1>10, <1>11 DEF Next, Acquire

LEMMA ShapeInit == Init => ShapeInv
BY DEF Init, ShapeInv, FilesShaped, CandidateShaped, CandidateSucceeds, OutcomeKnown

(* Every checkpoint in memory, in the file and on the disk has the shape.  *)
THEOREM ShapeKept == Spec => [](IndInv /\ ShapeInv)
BY IndInit, IndStep, ShapeInit, ShapeStep, PTL DEF Spec

-----------------------------------------------------------------------------
(* The theorems.                                                           *)

(* validateState accepts every checkpoint the program leaves behind.       *)
THEOREM AlwaysValid == Spec => []CheckpointValid
<1>1. IndInv /\ ShapeInv => CheckpointValid
  BY ShapeValid DEF IndInv, TypeOK, ShapeInv, FilesShaped, CheckpointValid
<1> QED
  BY <1>1, ShapeKept, PTL

(* The steps of the repair are recorded once each, in order, as far as     *)
(* the policy authorises them.                                             *)
THEOREM OrderKept == Spec => []RepairOrder
<1>1. IndInv /\ ShapeInv => RepairOrder
  BY ShapeOrder DEF IndInv, ShapeInv, FilesShaped
<1> QED
  BY <1>1, ShapeKept, PTL

(* A call told "ok" leaves memory, checkpoint and disk agreeing, and one   *)
(* told "duplicate" finds its step in the checkpoint.                      *)
THEOREM AnswersTrue == Spec => RepliesTruthful
<1> DEFINE Truthful ==
      /\ reply'.outcome = "ok" => file' = exec'[reply'.proc] /\ stable' = file'
      /\ reply'.outcome = "ErrDuplicateEvent" /\ IsStep(reply'.event) =>
           file' # NoState /\ Has(file'.ledger, reply'.event)
           Silent == reply'.outcome \notin {"ok", "ErrDuplicateEvent"}
<1>1. IndInv /\ ShapeInv /\ [Next]_vars => [Truthful]_vars
  <2> SUFFICES ASSUME IndInv, ShapeInv, Next
               PROVE  Truthful
    OBVIOUS
  <2> TypeOK /\ LockInv
    BY DEF IndInv
  <2>1. Silent => Truthful
    OBVIOUS
  <2>2. reply' = NoReply => Silent
    BY DEF NoReply
  <2>3. ASSUME NEW p \in Procs, NEW now \in CallerTimes, Open(p, now)
        PROVE  Truthful
    <3>1. CASE OpenRefusal = "ErrDuplicateEvent"
      <4> DEFINE e == PhaseEvent("run_created")
      <4>1. file # NoState /\ file \in State
        BY <3>1 DEF OpenRefusal, TypeOK
      <4>2. PICK n \in 0..MaxPages, m \in 0..5 : Reached(file, n, m)
        BY <4>1 DEF ShapeInv, FilesShaped, Shaped
      <4>3. 1 \in 1..n + m + 1 /\ EventAt(1, n) = e
        BY PolicyAssumption DEF EventAt
      <4>4. file.ledger[1] = e /\ 1 \in DOMAIN file.ledger
        BY <4>1, <4>2, <4>3, PolicyAssumption DEF Reached, Logged, State
      <4>5. Has(file.ledger, e)
        BY <4>4 DEF Has
      <4>6. /\ reply' = [proc |-> p, outcome |-> "ErrDuplicateEvent", event |-> e]
            /\ file' = file
        BY <2>3, <3>1 DEF Open, Refuse, Reply
      <4> HIDE DEF e
      <4> QED
        BY <4>1, <4>5, <4>6
    <3>2. CASE OpenRefusal # "ErrDuplicateEvent"
      <4>1. OpenRefusal \in {"ok", "ErrLeaseConflict"}
        BY <3>2 DEF OpenRefusal
      <4>2. Silent
        BY <2>2, <2>3, <4>1 DEF Open, Refuse, Reply, Submit
      <4> QED
        BY <2>1, <4>2
    <3> QED
      BY <3>1, <3>2
  <2>4. ASSUME NEW token, NEW p \in Procs, ResumeRead(p, token)
        PROVE  Silent
    <3>1. ResumeRefusal(token) \in {"ok", "ErrCheckpointMismatch", "ErrLeaseConflict"}
      BY DEF ResumeRefusal
    <3> QED
      BY <2>2, <2>4, <3>1 DEF ResumeRead, Refuse, Reply
  <2>5. ASSUME NEW p \in Procs, ResumeLocked(p)
        PROVE  Silent
    <3>1. LockedRefusal(p) \in {"ok", "ErrCheckpointMismatch", "ErrLeaseConflict"}
      BY DEF LockedRefusal, ResumeRefusal
    <3> QED
      BY <2>2, <2>5, <3>1 DEF ResumeLocked, Reply, Submit
  <2>6. ASSUME NEW p \in Procs, Mutate(p)
        PROVE  Truthful
    <3>1. CASE Answered
      BY <3>1 DEF Answered
    <3>2. CASE Moved(p)
      BY <2>1, <2>2, <3>2 DEF Moved, Submit
    <3> QED
      BY <2>6, <3>1, <3>2, MutateMoves DEF ShapeInv, FilesShaped
  <2>7. ASSUME NEW p \in Procs, SyncDirectory(p)
        PROVE  Truthful
    <3>1. /\ pc[p] = "sync" /\ file' = file /\ stable' = file
          /\ exec' = [exec EXCEPT ![p] = cand[p]]
          /\ reply' = [proc |-> p, outcome |-> outcome[p], event |-> NoEvent]
      BY <2>7 DEF SyncDirectory, Release, Reply
    <3>2. file = cand[p] /\ outcome[p] \in {"ok", "ErrBudgetExhausted"}
      BY <3>1 DEF LockInv, RenamedIsFile, ShapeInv, OutcomeKnown
    <3>3. exec'[p] = cand[p]
      BY <3>1 DEF TypeOK
    <3> QED
      BY <3>1, <3>2, <3>3
  <2>8. ASSUME NEW p \in Procs, Persist(p), ~SyncDirectory(p)
        PROVE  Silent
    BY <2>2, <2>8
    DEF Persist, Recheck, Oversize, WriteFails, Rename, SyncFails, Release, Reply
  <2>9. ASSUME NEW p \in Procs, Crash(p)
        PROVE  Silent
    BY <2>2, <2>9 DEF Crash
  <2>10. Tick \/ Writeback \/ PowerLoss => Silent
    BY <2>2 DEF Tick, Writeback, PowerLoss
  <2> HIDE DEF Truthful, Silent
  <2> QED
    BY <2>1, <2>3, <2>4, <2>5, <2>6, <2>7, <2>8, <2>9, <2>10 DEF Next, Acquire
<1> QED
  BY <1>1, ShapeKept, PTL DEF Spec, RepliesTruthful

(* What a rename puts in place follows what was there.                     *)
LEMMA RenameFollows ==
  ASSUME IndInv, ShapeInv, NEW p \in Procs, Rename(p)
  PROVE  /\ file' = cand[p] /\ cand[p] \in State /\ UNCHANGED stable
         /\ Succeeds(cand[p])
<1>1. pc[p] = "replace" /\ file' = cand[p] /\ UNCHANGED stable
  BY DEF Rename
<1>2. cand[p] \in State
  BY <1>1 DEF IndInv, TypeOK, LockInv, CandidateInLock
<1> QED
  BY <1>1, <1>2 DEF ShapeInv, CandidateSucceeds

(* A checkpoint that follows a spent one has paid for nothing more.        *)
LEMMA SpentPaysNothing ==
  ASSUME NEW s \in State, NEW t \in State, s.exhausted, Follows(t, s)
  PROVE  t.pagesUsed = s.pagesUsed /\ t.writesUsed = s.writesUsed
<1>1. CASE Renewed(t, s)
  <2>1. t = [s EXCEPT !.lease = t.lease]
    BY <1>1 DEF Renewed
  <2> QED
    BY <2>1 DEF State
<1>2. CASE Spent(t, s)
  BY <1>2 DEF Spent, State
<1>3. CASE Extended(t, s)
  <2>1. PICK n \in 0..MaxPages, m \in 0..5 :
          Reached(s, n, m) /\ (Turned(t, s, n, m) \/ Advanced(t, s, n, m))
    BY <1>3 DEF Extended
  <2>2. Advanced(t, s, n, m) /\ m < 2
    BY <2>1 DEF Turned, Advanced
  <2>3. Reached(s, n, m) /\ Reached(t, n, m + 1)
    BY <2>1, <2>2 DEF Advanced
  <2>4. s.writesUsed = 0 /\ t.writesUsed = 0
    BY <2>2, <2>3 DEF Reached, Counted, WritesAt
  <2> QED
    BY <2>3, <2>4 DEF Reached, Counted
<1> QED
  BY <1>1, <1>2, <1>3 DEF Follows

(* An exhausted run records no further page, patch, push or pull request.  *)
THEOREM SpentForGood == Spec => ExhaustedIsFinal
<1> DEFINE Final ==
      file # NoState /\ file.exhausted /\ ~PowerLoss =>
        /\ file'.pagesUsed = file.pagesUsed
        /\ file'.writesUsed = file.writesUsed
<1>1. IndInv /\ ShapeInv /\ [Next]_vars => Final
  <2> SUFFICES ASSUME IndInv, ShapeInv, [Next]_vars,
                      file # NoState, file.exhausted, ~PowerLoss
               PROVE  /\ file'.pagesUsed = file.pagesUsed
                      /\ file'.writesUsed = file.writesUsed
    OBVIOUS
  <2>1. CASE UNCHANGED file
    BY <2>1
  <2>2. CASE \E p \in Procs : Rename(p)
    <3>1. PICK p \in Procs : Rename(p)
      BY <2>2
    <3>2. /\ file' = cand[p] /\ cand[p] \in State
          /\ Follows(cand[p], file)
      BY <3>1, RenameFollows DEF Succeeds
    <3>3. file \in State
      BY DEF IndInv, TypeOK
    <3> QED
      BY <3>2, <3>3, SpentPaysNothing
  <2> QED
    BY <2>1, <2>2, FileStep
<1>2. IndInv /\ ShapeInv /\ [Next]_vars => [Final]_vars
  BY <1>1
<1> QED
  BY <1>2, ShapeKept, PTL DEF Spec, ExhaustedIsFinal

-----------------------------------------------------------------------------
(* The refinement: a rename is a step of the shared run, and the disk      *)
(* catches up with it or, at a power loss, brings it back.                 *)

(* The run a checkpoint stands for.                                        *)
LEMMA RunTyped ==
  ASSUME NEW s \in State
  PROVE  /\ RunOf(s) = [log |-> s.ledger, holder |-> s.lease.worker,
                        epoch |-> s.lease.token, spent |-> s.exhausted]
         /\ RunOf(s) # NoState
<1>1. s # NoState
  BY NoStateAssumption
<1>2. RunOf(s) = [log |-> s.ledger, holder |-> s.lease.worker,
                  epoch |-> s.lease.token, spent |-> s.exhausted]
  BY <1>1 DEF RunOf
<1>3. RunOf(s) \in [log : Seq(Event), holder : Workers, epoch : Nat, spent : BOOLEAN]
  BY <1>2 DEF State, Lease
<1> QED
  BY <1>2, <1>3, NoRunAssumption

(* The first checkpoint creates the run.                                   *)
LEMMA CreateStep ==
  ASSUME file = NoState, file' \in State, UNCHANGED stable,
         NEW lease \in Lease, file' = NewRun(lease)
  PROVE  Run!Create
<1>1. RunOf(file) = NoState
  BY DEF RunOf
<1>2. /\ RunOf(file)' = [log |-> file'.ledger, holder |-> file'.lease.worker,
                         epoch |-> file'.lease.token, spent |-> file'.exhausted]
      /\ RunOf(file)' # NoState
  BY RunTyped DEF RunOf
<1>3. /\ file'.ledger = <<[kind |-> "run_created", page |-> 0]>>
      /\ file'.lease.worker \in Workers
      /\ ~file'.exhausted
  BY DEF NewRun, PhaseEvent, Lease
<1>4. UNCHANGED RunOf(stable)
  BY DEF RunOf
<1> QED
  BY <1>1, <1>2, <1>3, <1>4 DEF Run!Create

(* One event more is a step of the repair, in order and affordable.        *)
LEMMA ExtendStep ==
  ASSUME file \in State, file' \in State, UNCHANGED stable, Extended(file', file)
  PROVE  Run!Step
<1>1. /\ RunOf(file) = [log |-> file.ledger, holder |-> file.lease.worker,
                         epoch |-> file.lease.token, spent |-> file.exhausted]
      /\ RunOf(file) # NoState
  BY RunTyped
<1>2. RunOf(file)' = [log |-> file'.ledger, holder |-> file'.lease.worker,
                      epoch |-> file'.lease.token, spent |-> file'.exhausted]
  BY RunTyped DEF RunOf
<1>3. PICK n \in 0..MaxPages, m \in 0..5 :
        Reached(file, n, m) /\ (Turned(file', file, n, m) \/ Advanced(file', file, n, m))
  BY DEF Extended
<1> n \in Nat /\ m \in Nat /\ file.ledger \in Seq(Event)
  BY PolicyAssumption DEF State
<1>4. Logged(file, n, m)
  BY <1>3 DEF Reached
<1>5. Run!LastStep(RunOf(file)) = EventAt(n + m + 1, n)
  <2>1. Len(file.ledger) = n + m + 1 /\ file.ledger[n + m + 1] = EventAt(n + m + 1, n)
    BY <1>4 DEF Logged
  <2> QED
    BY <1>1, <2>1 DEF Run!LastStep
<1>6. ASSUME NEW step \in Event, file'.ledger = Append(file.ledger, step)
      PROVE  RunOf(file)' = [RunOf(file) EXCEPT !.log = Append(@, step)]
  <2>1. file'.lease = file.lease /\ file'.exhausted = file.exhausted
    BY DEF Extended
  <2>2. RunOf(file)' = [log |-> Append(file.ledger, step), holder |-> file.lease.worker,
                        epoch |-> file.lease.token, spent |-> file.exhausted]
    BY <1>2, <1>6, <2>1
  <2>3. PICK log, holder, epoch, spent :
          /\ log = file.ledger /\ holder = file.lease.worker
          /\ epoch = file.lease.token /\ spent = file.exhausted
    <3> WITNESS file.ledger, file.lease.worker, file.lease.token, file.exhausted
    <3> QED
      OBVIOUS
  <2>4. RunOf(file) = [log |-> log, holder |-> holder, epoch |-> epoch, spent |-> spent]
    BY <1>1, <2>3
  <2>5. RunOf(file)' = [log |-> Append(log, step), holder |-> holder, epoch |-> epoch,
                        spent |-> spent]
    BY <2>2, <2>3
  <2>6. [RunOf(file) EXCEPT !.log = Append(@, step)]
          = [[log |-> log, holder |-> holder, epoch |-> epoch, spent |-> spent]
               EXCEPT !.log = Append(@, step)]
    BY ONLY <2>4, Zenon
  <2>7. [[log |-> log, holder |-> holder, epoch |-> epoch, spent |-> spent]
           EXCEPT !.log = Append(@, step)]
          = [log |-> Append(log, step), holder |-> holder, epoch |-> epoch, spent |-> spent]
    BY ONLY SMTT(30)
  <2> QED
    BY ONLY <2>5, <2>6, <2>7, Zenon
<1>7. UNCHANGED RunOf(stable)
  BY DEF RunOf
<1>8. CASE Turned(file', file, n, m)
  <2> DEFINE step == PageEvent(n + 1)
  <2>1. m = 0 /\ ~file.exhausted /\ file'.ledger = Append(file.ledger, step)
        /\ n + 1 \in 0..MaxPages
    BY <1>8 DEF Turned, Reached
  <2>2. step \in Event /\ step \in [kind : Run!StepKinds, page : 0..MaxPages]
    BY <2>1 DEF PageEvent, Event, Kinds, StageOf, Run!StepKinds
  <2>3. Run!LastStep(RunOf(file))
          = IF n = 0 THEN PhaseEvent("run_created") ELSE PageEvent(n)
    BY <1>5, <2>1 DEF EventAt
  <2>4. Run!Follows(Run!LastStep(RunOf(file)), step)
    <3>1. CASE n = 0
      BY <2>3, <3>1 DEF Run!Follows, Run!Predecessors, PageEvent, PhaseEvent
    <3>2. CASE n # 0
      BY <2>3, <3>2 DEF Run!Follows, Run!Predecessors, PageEvent
    <3> QED
      BY <3>1, <3>2
  <2>5. Run!Affordable(RunOf(file), step)
    BY <1>1, <2>1 DEF Run!Affordable, PageEvent
  <2> HIDE DEF step
  <2>6. RunOf(file)' = [RunOf(file) EXCEPT !.log = Append(@, step)]
    BY <1>6, <2>1, <2>2
  <2> QED
    BY <1>1, <1>7, <2>2, <2>4, <2>5, <2>6 DEF Run!Step
<1>9. CASE Advanced(file', file, n, m)
  <2> DEFINE step == PhaseEvent(PhaseAt(m + 1))
  <2>1. /\ m \in {0, 1, 2, 3, 4} /\ (m >= 2 => ~file.exhausted)
        /\ file'.ledger = Append(file.ledger, step)
        /\ Counted(file', n, m + 1)
    BY <1>9 DEF Advanced, Reached
  <2>2. step \in Event /\ step \in [kind : Run!StepKinds, page : 0..MaxPages]
    BY <2>1, PolicyAssumption
    DEF PhaseEvent, PhaseAt, Event, Kinds, StageOf, Run!StepKinds
  <2>3. /\ m + 1 >= 4 => PushAuthorized
        /\ m + 1 >= 5 => PRAuthorized
        /\ WritesAt(m + 1) <= MaxWrites
    BY <2>1 DEF Counted
  <2>4. Run!LastStep(RunOf(file)).kind
          \in IF m = 0 THEN {"run_created", "page_completed"} ELSE {PhaseAt(m)}
    <3>1. CASE m = 0
      BY <1>5, <3>1 DEF EventAt, PhaseEvent, PageEvent
    <3>2. CASE m # 0
      <4>1. (n + m + 1) - n - 1 = m /\ n + m + 1 # 1 /\ ~(n + m + 1 <= n + 1)
        BY <3>2
      <4> QED
        BY <1>5, <3>2, <4>1 DEF EventAt, PhaseEvent
    <3> QED
      BY <3>1, <3>2
  <2>5. Run!Follows(Run!LastStep(RunOf(file)), step)
        /\ Run!Affordable(RunOf(file), step)
    <3> DEFINE last == Run!LastStep(RunOf(file))
    <3>1. RunOf(file).spent = file.exhausted
      BY <1>1
    <3> HIDE DEF last
    <3>2. last.kind \in IF m = 0 THEN {"run_created", "page_completed"} ELSE {PhaseAt(m)}
      BY <2>4 DEF last
    <3> USE DEF Run!Follows, Run!Affordable, Run!Predecessors, PhaseEvent, PhaseAt, WritesAt
    <3>3. CASE m = 0
      BY <3>2, <3>3 DEF last
    <3>4. CASE m = 1
      BY <3>2, <3>4 DEF last
    <3>5. CASE m = 2
      BY <2>1, <2>3, <3>1, <3>2, <3>5, PolicyAssumption DEF last
    <3>6. CASE m = 3
      BY <2>1, <2>3, <3>1, <3>2, <3>6, PolicyAssumption DEF last
    <3>7. CASE m = 4
      BY <2>1, <2>3, <3>1, <3>2, <3>7, PolicyAssumption DEF last
    <3> QED
      BY <2>1, <3>3, <3>4, <3>5, <3>6, <3>7
  <2> HIDE DEF step
  <2>6. RunOf(file)' = [RunOf(file) EXCEPT !.log = Append(@, step)]
    BY <1>6, <2>1, <2>2
  <2> QED
    BY <1>1, <1>7, <2>2, <2>5, <2>6 DEF Run!Step
<1> QED
  BY <1>3, <1>8, <1>9

(* A renewed lease takes the run over; an exhausted budget spends it.      *)
LEMMA RenewStep ==
  ASSUME file \in State, file' \in State, UNCHANGED stable,
         Renewed(file', file) \/ Spent(file', file)
  PROVE  Run!TakeOver \/ Run!Spend
<1>1. /\ RunOf(file) = [log |-> file.ledger, holder |-> file.lease.worker,
                        epoch |-> file.lease.token, spent |-> file.exhausted]
      /\ RunOf(file) # NoState
  BY RunTyped
<1>2. /\ RunOf(file)' = [log |-> file'.ledger, holder |-> file'.lease.worker,
                         epoch |-> file'.lease.token, spent |-> file'.exhausted]
      /\ RunOf(file)' # NoState
  BY RunTyped DEF RunOf
<1>3. UNCHANGED RunOf(stable)
  BY DEF RunOf
<1>4. CASE Renewed(file', file)
  <2>1. file' = [file EXCEPT !.lease = file'.lease]
        /\ file'.lease.token > file.lease.token
    BY <1>4 DEF Renewed
  <2>2. file'.ledger = file.ledger /\ file'.exhausted = file.exhausted
    BY <2>1 DEF State
  <2>3. file'.lease.worker \in Workers
    BY DEF State, Lease
  <2> DEFINE r == RunOf(file)
             t == RunOf(file)'
  <2>4. t.epoch > r.epoch /\ t.holder \in Workers
    BY <1>1, <1>2, <2>1, <2>3
  <2>5. t = [r EXCEPT !.epoch = t.epoch, !.holder = t.holder]
    <3>1. t.epoch = file'.lease.token /\ t.holder = file'.lease.worker
      BY <1>2
    <3>2. t = [log |-> file.ledger, holder |-> file'.lease.worker,
               epoch |-> file'.lease.token, spent |-> file.exhausted]
      BY <1>2, <2>2
    <3> DEFINE u == [[log |-> file.ledger, holder |-> file.lease.worker,
                      epoch |-> file.lease.token, spent |-> file.exhausted]
                       EXCEPT !.epoch = t.epoch]
    <3>3. u = [log |-> file.ledger, holder |-> file.lease.worker,
               epoch |-> t.epoch, spent |-> file.exhausted]
      OBVIOUS
    <3>4. [r EXCEPT !.epoch = t.epoch, !.holder = t.holder] = [u EXCEPT !.holder = t.holder]
      BY <1>1
    <3> HIDE DEF u, t
    <3>5. [u EXCEPT !.holder = t.holder]
            = [log |-> file.ledger, holder |-> t.holder,
               epoch |-> t.epoch, spent |-> file.exhausted]
      BY <3>3
    <3> QED
      BY <3>1, <3>2, <3>4, <3>5
  <2> QED
    BY <1>1, <1>2, <1>3, <2>4, <2>5 DEF Run!TakeOver
<1>5. CASE Spent(file', file)
  <2>1. /\ file'.ledger = file.ledger /\ file'.lease = file.lease
        /\ file'.exhausted = TRUE
    BY <1>5 DEF Spent, State
  <2> DEFINE r == [log |-> file.ledger, holder |-> file.lease.worker,
                   epoch |-> file.lease.token, spent |-> file.exhausted]
             spent == file'.exhausted
  <2> HIDE DEF spent
  <2>2. RunOf(file)' = [log |-> file.ledger, holder |-> file.lease.worker,
                        epoch |-> file.lease.token, spent |-> spent]
    BY <1>2, <2>1 DEF spent
  <2>3. [r EXCEPT !.spent = spent]
          = [log |-> file.ledger, holder |-> file.lease.worker,
             epoch |-> file.lease.token, spent |-> spent]
    OBVIOUS
  <2> HIDE DEF r
  <2>4. RunOf(file)' = [RunOf(file) EXCEPT !.spent = TRUE]
    <3>1. RunOf(file)' = [RunOf(file) EXCEPT !.spent = spent]
      BY <1>1, <2>2, <2>3 DEF r
    <3>2. spent = TRUE
      BY <2>1 DEF spent
    <3> QED
      BY <3>1, <3>2, Zenon
  <2> QED
    BY <1>1, <1>3, <2>4 DEF Run!Spend
<1> QED
  BY <1>4, <1>5

(* The disk catches up with the file, or stays where it was.               *)
LEMMA StableStep ==
  ASSUME IndInv, [Next]_vars
  PROVE  UNCHANGED stable \/ (stable' = file /\ UNCHANGED file)
<1>1. ASSUME NEW p \in Procs, Acquire(p)
      PROVE  UNCHANGED stable
  BY <1>1 DEF Acquire, Open, ResumeRead, ResumeLocked, Refuse
<1>2. ASSUME NEW p \in Procs, Mutate(p)
      PROVE  UNCHANGED stable
  BY <1>2, MutateShape DEF IndInv, Refused, Submitted
<1>3. ASSUME NEW p \in Procs, Persist(p)
      PROVE  UNCHANGED stable \/ (stable' = file /\ UNCHANGED file)
  BY <1>3 DEF Persist, Recheck, Oversize, WriteFails, Rename, SyncDirectory, SyncFails
<1>4. ASSUME NEW p \in Procs, Crash(p)
      PROVE  UNCHANGED stable
  BY <1>4 DEF Crash
<1>5. Tick \/ PowerLoss \/ UNCHANGED vars => UNCHANGED stable
  BY DEF Tick, PowerLoss, vars
<1>6. Writeback => stable' = file /\ UNCHANGED file
  BY DEF Writeback
<1> QED
  BY <1>1, <1>2, <1>3, <1>4, <1>5, <1>6 DEF Next

(* Files, locks, leases, crashes and power losses implement one shared     *)
(* run: RepairRun.                                                         *)
THEOREM ImplementsRepairRun == Spec => ImplementsRun
<1>1. Init => Run!RunInit
  BY DEF Init, RunOf, Run!RunInit
<1>2. IndInv /\ ShapeInv /\ [Next]_vars => [Run!RunNext]_Run!runVars
  <2> SUFFICES ASSUME IndInv, ShapeInv, [Next]_vars
               PROVE  Run!RunNext \/ UNCHANGED Run!runVars
    OBVIOUS
  <2>1. CASE PowerLoss
    <3>1. file' = stable /\ stable' = stable
      BY <2>1 DEF PowerLoss
    <3>2. RunOf(file)' = RunOf(stable) /\ UNCHANGED RunOf(stable)
      BY <3>1 DEF RunOf
    <3> QED
      BY <3>2 DEF Run!RunNext, Run!PowerFails
  <2>2. CASE UNCHANGED file
    <3>1. UNCHANGED RunOf(file)
      BY <2>2 DEF RunOf
    <3>2. CASE UNCHANGED stable
      BY <3>1, <3>2 DEF Run!runVars, RunOf
    <3>3. CASE stable' = file
      <4>1. RunOf(stable)' = RunOf(file)
        BY <3>3 DEF RunOf
      <4> QED
        BY <3>1, <4>1 DEF Run!RunNext, Run!Settle
    <3> QED
      BY <3>2, <3>3, StableStep
  <2>3. ASSUME NEW p \in Procs, Rename(p)
        PROVE  Run!RunNext
    <3>1. file' = cand[p] /\ cand[p] \in State /\ UNCHANGED stable /\ Succeeds(cand[p])
      BY <2>3, RenameFollows
    <3>2. CASE file = NoState
      <4>1. PICK lease \in Lease : file' = NewRun(lease)
        BY <3>1, <3>2 DEF Succeeds
      <4> QED
        BY <3>1, <3>2, <4>1, CreateStep DEF Run!RunNext
    <3>3. CASE file # NoState
      <4>1. file \in State /\ file' \in State /\ Follows(file', file)
        BY <3>1, <3>3 DEF Succeeds, IndInv, TypeOK
      <4> QED
        BY <3>1, <4>1, ExtendStep, RenewStep DEF Follows, Run!RunNext
    <3> QED
      BY <3>2, <3>3
  <2> QED
    BY <2>1, <2>2, <2>3, FileStep
<1> QED
  BY <1>1, <1>2, ShapeKept, PTL DEF Spec, ImplementsRun, Run!RunSpec

=============================================================================
