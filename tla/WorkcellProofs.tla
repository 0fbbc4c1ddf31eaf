---------------------------- MODULE WorkcellProofs ----------------------------
(***************************************************************************)
(* Theorems about Workcell, for any workcells and outputs, any number of   *)
(* peers, repairs and calls.                                               *)
(***************************************************************************)
EXTENDS Workcell, FiniteSetTheorems, WellFoundedInduction, TLAPS

(* Where the peers stand: outside of their own phases all have settled,    *)
(* and in the phase that grades them every one has.                        *)
PeerInv ==
  /\ PeersSettled
  /\ phase \in {"fill", "peers", "grade"} =>
       DOMAIN peers = Indices /\ cell.peers > 1 /\ cell.executor = "agy-swarms"
  /\ \A i \in DOMAIN peers :
       /\ peers[i].at = "passed" => peers[i].out.ok
       /\ peers[i].at \in {"ended", "passed"} => peers[i].out \in Outputs
       /\ phase = "fill" => peers[i].at = "nil"

(* The best of the candidates graded so far.                               *)
BestOfGraded ==
  /\ winner # NoPeer => winner < graded /\ IsValid(peers[winner])
  /\ \A i \in Indices : i < graded /\ IsValid(peers[i]) =>
       /\ winner # NoPeer
       /\ Coverage(i) <= Coverage(winner)
       /\ i < winner => Coverage(i) < Coverage(winner)

GradeInv == phase = "grade" => graded <= cell.peers /\ BestOfGraded

(* What is checked was satisfied, and is the winner's if there were peers. *)
OutputInv ==
  /\ phase \in {"check", "passed"} =>
       /\ output \in Outputs /\ Satisfied(output)
       /\ cell.peers > 1 => DOMAIN peers = Indices
  /\ phase = "passed" => RubricHolds(output)
  /\ phase = "running" => cell.peers <= 1
  /\ phase \notin {"call", "failed"} => ~Refused(cell)
  /\ WinnerIsBest

(* An attempt that is about to begin is still owed.                        *)
AttemptInv ==
  /\ repairs <= cell.repairs
  /\ attempt <= calls + repairs
  /\ phase \in {"call", "reset", "repair", "repairing"} => attempt < calls + repairs

IndInv == TypeOK /\ PeerInv /\ GradeInv /\ OutputInv /\ AttemptInv

-----------------------------------------------------------------------------
LEMMA CellFacts ==
  ASSUME TypeOK
  PROVE  /\ cell.executor \in {"ao2", "agy-swarms"} /\ cell.peers \in Nat
         /\ cell.repairs \in Nat /\ cell.patterns \in BOOLEAN
         /\ cell.minimum \in Int
  BY WorkcellAssumption DEF TypeOK, Cell, Unmeasured

LEMMA OutputFacts ==
  ASSUME NEW o \in Outputs
  PROVE  o \in Output /\ o.ran /\ o.ok \in BOOLEAN /\ o.coverage \in Int
         /\ (o.coverage # Unmeasured => o.coverage \in Nat)
  BY WorkcellAssumption DEF Output, Unmeasured

LEMMA BlankFacts == Blank.coverage = Unmeasured /\ ~Blank.ok /\ ~Blank.ran
  BY DEF Blank

LEMMA CoverageFacts ==
  ASSUME TypeOK, NEW i \in DOMAIN peers
  PROVE  Coverage(i) \in Int
<1>1. peers[i] \in Peer
  BY DEF TypeOK
<1>2. peers[i].out \in Outputs \cup {Blank}
  BY <1>1 DEF Peer
<1> QED
  BY <1>2, OutputFacts, BlankFacts DEF Coverage, Unmeasured

LEMMA InitInd == Init => IndInv
<1> SUFFICES ASSUME Init PROVE IndInv
  OBVIOUS
<1>1. NoPeers = [i \in {} |-> [at |-> "nil", out |-> Blank]] /\ DOMAIN NoPeers = {}
  BY DEF NoPeers
<1>2. TypeOK
  <2>1. peers \in [DOMAIN peers -> Peer] /\ DOMAIN peers = {}
    BY <1>1 DEF Init
  <2>2. calls \in 1..MaxCalls
    BY WorkcellAssumption DEF Init
  <2> QED
    BY <2>1, <2>2 DEF Init, TypeOK, Phases, NoPeer
<1>3. PeerInv /\ GradeInv /\ OutputInv
  BY <1>1 DEF Init, PeerInv, PeersSettled, GradeInv, OutputInv, WinnerIsBest
<1>4. AttemptInv
  BY <1>2, CellFacts DEF Init, AttemptInv
<1> QED
  BY <1>2, <1>3, <1>4 DEF IndInv

(* A step that leaves peers, winner and output alone, and does not go to   *)
(* where they are looked at.                                               *)
Elsewhere == {"call", "reset", "launch", "running", "erred", "repair", "repairing", "failed"}

LEMMA PlainStep ==
  ASSUME IndInv, UNCHANGED <<cell, peerVars>>, phase' \in Elsewhere,
         phase \notin {"fill", "peers", "crashed"},
         TypeOK', AttemptInv',
         phase' = "running" => cell.peers <= 1,
         phase' \notin {"call", "failed"} => ~Refused(cell)
  PROVE  IndInv'
<1> USE DEF IndInv, peerVars, Elsewhere
<1>1. PeerInv' /\ GradeInv'
  BY DEF PeerInv, PeersSettled, GradeInv, Indices
<1>2. OutputInv'
  BY DEF OutputInv, WinnerIsBest
<1> QED
  BY <1>1, <1>2

LEMMA EnterStep == IndInv /\ Enter => IndInv'
<1> SUFFICES ASSUME IndInv, Enter PROVE IndInv'
  OBVIOUS
<1> USE DEF Enter, callVars, peerVars
<1>1. TypeOK'
  BY DEF IndInv, TypeOK, Phases, Indices
<1>2. AttemptInv'
  BY DEF IndInv, AttemptInv
<1> QED
  BY <1>1, <1>2, PlainStep DEF Elsewhere

LEMMA ResetStep == IndInv /\ Reset => IndInv'
<1> SUFFICES ASSUME IndInv, Reset PROVE IndInv'
  OBVIOUS
<1> USE DEF Reset, callVars, peerVars
<1>1. TypeOK'
  BY DEF IndInv, TypeOK, Phases, Indices
<1>2. AttemptInv'
  BY DEF IndInv, AttemptInv, TypeOK
<1>3. ~Refused(cell)
  BY DEF IndInv, OutputInv
<1> QED
  BY <1>1, <1>2, <1>3, PlainStep DEF Elsewhere

LEMMA LaunchStep == IndInv /\ (CannotLaunch \/ LaunchOne) => IndInv'
<1> SUFFICES ASSUME IndInv, CannotLaunch \/ LaunchOne PROVE IndInv'
  OBVIOUS
<1> USE DEF CannotLaunch, LaunchOne, callVars, peerVars
<1>1. TypeOK'
  BY DEF IndInv, TypeOK, Phases, Indices
<1>2. AttemptInv'
  BY DEF IndInv, AttemptInv
<1>3. ~Refused(cell)
  BY DEF IndInv, OutputInv
<1> QED
  BY <1>1, <1>2, <1>3, PlainStep DEF Elsewhere

LEMMA OneEndsStep == IndInv /\ OneEnds => IndInv'
<1> SUFFICES ASSUME IndInv, OneEnds PROVE IndInv'
  OBVIOUS
<1> USE DEF OneEnds, callVars, peerVars
<1>1. TypeOK'
  BY DEF IndInv, TypeOK, Phases, Indices
<1>2. AttemptInv'
  BY DEF IndInv, AttemptInv
<1>3. ~Refused(cell) /\ cell.peers <= 1
  BY DEF IndInv, OutputInv
<1>4. PeerInv' /\ GradeInv'
  BY DEF IndInv, PeerInv, PeersSettled, GradeInv, Indices
<1>5. OutputInv'
  <2>1. ~(cell.peers > 1)
    BY <1>3, CellFacts DEF IndInv
  <2> QED
    BY <1>3, <2>1 DEF OutputInv, WinnerIsBest, Satisfied
<1> QED
  BY <1>1, <1>2, <1>4, <1>5 DEF IndInv

-----------------------------------------------------------------------------
(* Peers.                                                                  *)

LEMMA MakePeersStep == IndInv /\ MakePeers => IndInv'
<1> SUFFICES ASSUME IndInv, MakePeers PROVE IndInv'
  OBVIOUS
<1> USE DEF MakePeers, callVars
<1>1. DOMAIN peers' = Indices /\ Indices' = Indices
      /\ \A i \in Indices : peers'[i] = [at |-> "nil", out |-> Blank]
  BY DEF Indices
<1>2. TypeOK'
  BY <1>1 DEF IndInv, TypeOK, Phases, Peer, Places
<1>3. PeerInv' /\ GradeInv'
  <2>1. cell.executor = "agy-swarms" /\ cell.peers > 1
    BY CellFacts DEF IndInv, OutputInv, Refused
  <2> QED
    BY <1>1, <2>1 DEF PeerInv, PeersSettled, GradeInv
<1>4. OutputInv'
  BY DEF IndInv, OutputInv, WinnerIsBest
<1>5. AttemptInv'
  BY DEF IndInv, AttemptInv
<1> QED
  BY <1>2, <1>3, <1>4, <1>5 DEF IndInv

LEMMA FillPeersStep == IndInv /\ FillPeers => IndInv'
<1> SUFFICES ASSUME IndInv, FillPeers PROVE IndInv'
  OBVIOUS
<1> USE DEF FillPeers, callVars
<1>1. DOMAIN peers' = Indices /\ Indices' = Indices
      /\ \A i \in Indices : peers'[i] = [at |-> "pending", out |-> Blank]
  BY DEF Indices
<1>2. TypeOK'
  BY <1>1 DEF IndInv, TypeOK, Phases, Peer, Places
<1>3. cell.executor = "agy-swarms" /\ cell.peers > 1
  BY DEF IndInv, PeerInv
<1>4. PeerInv' /\ GradeInv'
  BY <1>1, <1>3 DEF PeerInv, PeersSettled, GradeInv
<1>5. OutputInv'
  BY DEF IndInv, OutputInv, WinnerIsBest
<1>6. AttemptInv'
  BY DEF IndInv, AttemptInv
<1> QED
  BY <1>2, <1>4, <1>5, <1>6 DEF IndInv

LEMMA RenderNilStep == IndInv /\ RenderNil => IndInv'
<1> SUFFICES ASSUME IndInv, RenderNil PROVE IndInv'
  OBVIOUS
<1> USE DEF RenderNil, callVars, peerVars
<1>1. TypeOK'
  BY DEF IndInv, TypeOK, Phases, Indices
<1>2. PeerInv' /\ GradeInv' /\ OutputInv' /\ AttemptInv'
  BY DEF IndInv, PeerInv, PeersSettled, GradeInv, OutputInv, WinnerIsBest, AttemptInv
<1> QED
  BY <1>1, <1>2 DEF IndInv

(* Only between their start and the end of the wait do peers do anything.  *)
LEMMA PeerPhase ==
  ASSUME IndInv, NEW i \in DOMAIN peers, PeerStep(i)
  PROVE  phase \in {"peers", "crashed"} /\ DOMAIN peers = Indices
<1>1. peers[i].at \notin Settled /\ peers[i].at # "nil"
  BY DEF PeerStep, PeerStart, PeerLaunch, PeerEnds, PeerSettles, Goes, Settled
<1> QED
  BY <1>1 DEF IndInv, PeerInv, PeersSettled, TypeOK

LEMMA PeerStepInd ==
  ASSUME IndInv, NEW i \in DOMAIN peers, PeerStep(i)
  PROVE  IndInv'
<1> USE DEF PeerStep, callVars
<1>1. phase \in {"peers", "crashed"} /\ phase' = phase /\ DOMAIN peers = Indices
  BY PeerPhase
<1>2. /\ DOMAIN peers' = DOMAIN peers /\ Indices' = Indices
      /\ \A j \in DOMAIN peers \ {i} : peers'[j] = peers[j]
  BY DEF PeerStart, PeerLaunch, PeerEnds, PeerSettles, Goes, Indices, TypeOK
<1>3. /\ peers'[i] \in Peer
      /\ peers'[i].at = "passed" => peers'[i].out.ok
      /\ peers'[i].at \in {"ended", "passed"} => peers'[i].out \in Outputs
  <2>1. peers[i] \in Peer /\ peers \in [DOMAIN peers -> Peer]
        /\ (peers[i].at = "ended" => peers[i].out \in Outputs)
    BY DEF IndInv, TypeOK, PeerInv
  <2>2. CASE PeerStart(i) \/ PeerLaunch(i)
    BY <2>1, <2>2 DEF PeerStart, PeerLaunch, Goes, Peer, Places
  <2>3. CASE PeerEnds(i)
    BY <2>1, <2>3 DEF PeerEnds, Peer, Places
  <2>4. CASE PeerSettles(i)
    BY <2>1, <2>4 DEF PeerSettles, Goes, Peer, Places
  <2> QED
    BY <2>2, <2>3, <2>4
<1>4. TypeOK'
  <2>1. peers' \in [DOMAIN peers' -> Peer]
    BY <1>2, <1>3 DEF IndInv, TypeOK, PeerStart, PeerLaunch, PeerEnds, PeerSettles, Goes
  <2> QED
    BY <1>1, <1>2, <2>1 DEF IndInv, TypeOK
<1>5. PeerInv'
  BY <1>1, <1>2, <1>3 DEF IndInv, PeerInv, PeersSettled
<1>6. GradeInv' /\ OutputInv' /\ AttemptInv'
  BY <1>1 DEF IndInv, GradeInv, OutputInv, WinnerIsBest, AttemptInv
<1> QED
  BY <1>4, <1>5, <1>6 DEF IndInv

LEMMA BeginGradingStep == IndInv /\ BeginGrading => IndInv'
<1> SUFFICES ASSUME IndInv, BeginGrading PROVE IndInv'
  OBVIOUS
<1> USE DEF BeginGrading, callVars
<1>1. TypeOK'
  BY DEF IndInv, TypeOK, Phases, Indices
<1>2. PeerInv'
  BY DEF IndInv, PeerInv, PeersSettled, Awaited, Indices
<1>3. GradeInv'
  BY CellFacts DEF IndInv, GradeInv, BestOfGraded, Indices
<1>4. OutputInv' /\ AttemptInv'
  BY DEF IndInv, OutputInv, WinnerIsBest, AttemptInv
<1> QED
  BY <1>1, <1>2, <1>3, <1>4 DEF IndInv

LEMMA GradeStep == IndInv /\ Grade => IndInv'
<1> SUFFICES ASSUME IndInv, Grade PROVE IndInv'
  OBVIOUS
<1> USE DEF Grade, callVars
<1>1. /\ cell' = cell /\ Indices' = Indices /\ peers' = peers /\ DOMAIN peers = Indices
      /\ phase' = "grade" /\ graded' = graded + 1
      /\ winner' = IF IsValid(peers[graded]) /\ Beats(graded) THEN graded ELSE winner
  BY DEF Indices, IndInv, PeerInv
<1>2. /\ graded \in Int /\ cell.peers \in Int /\ graded < cell.peers /\ graded >= 0
      /\ graded \in Indices
  BY CellFacts DEF IndInv, TypeOK, Indices
<1>3. TypeOK'
  BY <1>1, <1>2 DEF IndInv, TypeOK
<1>4. PeerInv'
  BY <1>1 DEF IndInv, PeerInv, PeersSettled
<1>5. \A i \in Indices : Coverage(i) \in Int /\ Coverage(i)' = Coverage(i) /\ i \in Int
  BY <1>1, CoverageFacts DEF IndInv, Coverage, Indices
<1>6. \A p : IsValid(p)' <=> IsValid(p)
  BY <1>1 DEF IsValid
<1>7. BestOfGraded /\ winner \in Indices \cup {NoPeer} /\ NoPeer \notin Indices
  BY DEF IndInv, GradeInv, TypeOK, NoPeer, Indices
<1>8. BestOfGraded'
  <2>1. CASE IsValid(peers[graded]) /\ Beats(graded)
    <3>1. winner' = graded /\ winner' # NoPeer
      BY <1>1, <1>2, <1>7, <2>1
    <3>2. ASSUME NEW i \in Indices, i < graded + 1, IsValid(peers[i])
          PROVE  Coverage(i) <= Coverage(graded) /\ (i < graded => Coverage(i) < Coverage(graded))
      <4>1. CASE i = graded
        BY <4>1, <1>2, <1>5
      <4>2. CASE i < graded
        <5>1. winner # NoPeer /\ Coverage(i) <= Coverage(winner)
          BY <4>2, <3>2, <1>7 DEF BestOfGraded
        <5>2. Coverage(graded) > Coverage(winner)
          BY <5>1, <2>1 DEF Beats
        <5>3. Coverage(i) \in Int /\ Coverage(winner) \in Int /\ Coverage(graded) \in Int
          BY <1>2, <1>5, <1>7, <5>1
        <5> QED
          BY <5>1, <5>2, <5>3
      <4> QED
        BY <3>2, <4>1, <4>2, <1>2, <1>5
    <3>3. winner' < graded' /\ IsValid(peers[winner'])
      BY <1>1, <1>2, <2>1, <3>1
    <3> QED
      BY <1>1, <1>2, <1>5, <1>6, <3>1, <3>2, <3>3 DEF BestOfGraded
  <2>2. CASE ~(IsValid(peers[graded]) /\ Beats(graded))
    <3>1. winner' = winner
      BY <1>1, <2>2
    <3>2. ASSUME NEW i \in Indices, i < graded + 1, IsValid(peers[i])
          PROVE  /\ winner # NoPeer
                 /\ Coverage(i) <= Coverage(winner)
                 /\ i < winner => Coverage(i) < Coverage(winner)
      <4>1. CASE i = graded
        <5>1. winner # NoPeer /\ ~(Coverage(graded) > Coverage(winner))
          BY <4>1, <3>2, <2>2 DEF Beats
        <5>2. winner < graded /\ winner \in Int
          BY <5>1, <1>5, <1>7 DEF BestOfGraded
        <5>3. Coverage(winner) \in Int /\ Coverage(graded) \in Int
          BY <1>2, <1>5, <1>7, <5>1
        <5> QED
          BY <4>1, <5>1, <5>2, <5>3, <1>2
      <4>2. CASE i < graded
        BY <4>2, <3>2, <1>7 DEF BestOfGraded
      <4> QED
        BY <3>2, <4>1, <4>2, <1>2, <1>5
    <3>3. winner # NoPeer => winner < graded + 1 /\ IsValid(peers[winner])
      BY <1>2, <1>5, <1>7 DEF BestOfGraded
    <3> QED
      BY <1>1, <1>5, <1>6, <1>7, <3>1, <3>2, <3>3 DEF BestOfGraded
  <2> QED
    BY <2>1, <2>2
<1>9. GradeInv'
  BY <1>1, <1>2, <1>8 DEF GradeInv
<1>10. OutputInv' /\ AttemptInv'
  BY <1>1 DEF IndInv, OutputInv, WinnerIsBest, AttemptInv
<1> QED
  BY <1>3, <1>4, <1>9, <1>10 DEF IndInv

(* IsValid and checkRubric agree on a candidate.                           *)
LEMMA RubricsAgree ==
  ASSUME IndInv, NEW i \in DOMAIN peers
  PROVE  IsValid(peers[i]) <=> peers[i].at = "passed" /\ RubricHolds(peers[i].out)
<1>1. ASSUME peers[i].at = "passed"
      PROVE  peers[i].out \in Outputs
  BY <1>1 DEF IndInv, PeerInv
<1> QED
  BY <1>1 DEF IsValid, RubricHolds

LEMMA PromoteStep == IndInv /\ Promote => IndInv'
<1> SUFFICES ASSUME IndInv, Promote PROVE IndInv'
  OBVIOUS
<1> USE DEF Promote, callVars, peerVars
<1>1. /\ phase = "grade" /\ graded = cell.peers /\ DOMAIN peers = Indices
      /\ cell.peers > 1 /\ cell.executor = "agy-swarms" /\ BestOfGraded
  BY DEF IndInv, PeerInv, GradeInv
<1>2. AttemptInv'
  BY DEF IndInv, AttemptInv
<1>3. CASE winner = NoPeer /\ phase' = "erred" /\ UNCHANGED output
  <2>1. TypeOK'
    BY <1>3 DEF IndInv, TypeOK, Phases, Indices
  <2>2. ~Refused(cell)
    BY <1>1 DEF IndInv, OutputInv
  <2> QED
    BY <1>1, <1>2, <1>3, <2>1, <2>2, PlainStep DEF Elsewhere
<1>4. CASE winner # NoPeer /\ phase' = "check" /\ output' = peers[winner].out
  <2>1. winner \in Indices /\ IsValid(peers[winner])
    BY <1>1, <1>4 DEF IndInv, TypeOK, BestOfGraded
  <2>2. /\ peers[winner].at = "passed" /\ RubricHolds(peers[winner].out)
        /\ peers[winner].out \in Outputs /\ peers[winner].out.ok
    BY <1>1, <2>1, RubricsAgree DEF IndInv, PeerInv
  <2>3. TypeOK'
    BY <1>4, <2>2 DEF IndInv, TypeOK, Phases, Indices
  <2>4. PeerInv' /\ GradeInv'
    BY <1>1, <1>4 DEF IndInv, PeerInv, PeersSettled, GradeInv, Indices
  <2>5. Satisfied(output')
    BY <1>1, <1>4, <2>2 DEF Satisfied
  <2>6. ~Refused(cell)
    BY <1>1 DEF IndInv, OutputInv
  <2>7. \A i \in Indices : peers[i].at = "passed" /\ RubricHolds(peers[i].out) =>
          Coverage(i) <= Coverage(winner) /\ (i < winner => Coverage(i) < Coverage(winner))
    <3>1. ASSUME NEW i \in Indices PROVE i < graded
      BY <1>1, CellFacts DEF IndInv, Indices
    <3> QED
      BY <1>1, <1>4, <3>1, RubricsAgree DEF BestOfGraded
  <2>8. WinnerIsBest'
    BY <1>4, <2>1, <2>2, <2>7 DEF WinnerIsBest, Indices, Coverage, RubricHolds
  <2>9. OutputInv'
    BY <1>1, <1>4, <2>2, <2>5, <2>6, <2>8 DEF OutputInv, Satisfied, Indices
  <2> QED
    BY <1>2, <2>3, <2>4, <2>9 DEF IndInv
<1> QED
  BY <1>3, <1>4

-----------------------------------------------------------------------------
LEMMA CheckRubricStep == IndInv /\ CheckRubric => IndInv'
<1> SUFFICES ASSUME IndInv, CheckRubric PROVE IndInv'
  OBVIOUS
<1> USE DEF CheckRubric, callVars, peerVars
<1>1. TypeOK'
  BY DEF IndInv, TypeOK, Phases, Indices
<1>2. AttemptInv'
  BY DEF IndInv, AttemptInv
<1>3. PeerInv' /\ GradeInv'
  BY DEF IndInv, PeerInv, PeersSettled, GradeInv, Indices
<1>4. OutputInv'
  BY DEF IndInv, OutputInv, WinnerIsBest, Satisfied, RubricHolds, Indices, Coverage
<1> QED
  BY <1>1, <1>2, <1>3, <1>4 DEF IndInv

LEMMA AssessStep == IndInv /\ Assess => IndInv'
<1> SUFFICES ASSUME IndInv, Assess PROVE IndInv'
  OBVIOUS
<1> USE DEF Assess, callVars, peerVars
<1>0. repairs \in Int /\ attempt \in Int /\ calls \in Int /\ cell.repairs \in Int
  BY CellFacts DEF IndInv, TypeOK
<1>1. TypeOK'
  BY DEF IndInv, TypeOK, Phases, Indices
<1>2. AttemptInv'
  BY <1>0 DEF IndInv, AttemptInv, RepairLeft
<1>3. ~Refused(cell)
  BY DEF IndInv, OutputInv
<1> QED
  BY <1>1, <1>2, <1>3, PlainStep DEF Elsewhere

LEMMA RepairStep == IndInv /\ Repair => IndInv'
<1> SUFFICES ASSUME IndInv, Repair PROVE IndInv'
  OBVIOUS
<1> USE DEF Repair, callVars, peerVars
<1>1. TypeOK'
  BY DEF IndInv, TypeOK, Phases, Indices
<1>2. AttemptInv'
  BY DEF IndInv, AttemptInv
<1>3. ~Refused(cell)
  BY DEF IndInv, OutputInv
<1> QED
  BY <1>1, <1>2, <1>3, PlainStep DEF Elsewhere

LEMMA AgainStep == IndInv /\ Again => IndInv'
<1> SUFFICES ASSUME IndInv, Again PROVE IndInv'
  OBVIOUS
<1> USE DEF Again, peerVars
<1>0. repairs \in Int /\ attempt \in Int /\ calls \in Int
  BY DEF IndInv, TypeOK
<1>1. TypeOK'
  BY WorkcellAssumption DEF IndInv, TypeOK, Phases, Indices
<1>2. AttemptInv'
  BY <1>0 DEF IndInv, AttemptInv
<1> QED
  BY <1>1, <1>2, PlainStep DEF Elsewhere

(* A cancellation, or nothing, changes only what no part looks at.         *)
LEMMA QuietStep == IndInv /\ (Cancel \/ UNCHANGED vars) => IndInv'
<1> SUFFICES ASSUME IndInv, Cancel \/ UNCHANGED vars PROVE IndInv'
  OBVIOUS
<1>1. /\ UNCHANGED <<cell, phase, calls, attempt, repairs, peers, graded, winner, output>>
      /\ cancelled' \in BOOLEAN
  BY DEF Cancel, vars, peerVars, IndInv, TypeOK
<1>2. Indices' = Indices
  BY <1>1 DEF Indices
<1>3. TypeOK' /\ AttemptInv'
  BY <1>1, <1>2 DEF IndInv, TypeOK, AttemptInv
<1>4. PeerInv'
  BY <1>1, <1>2 DEF IndInv, PeerInv, PeersSettled
<1>5. GradeInv'
  BY <1>1, <1>2 DEF IndInv, GradeInv, BestOfGraded, IsValid, Coverage
<1>6. OutputInv'
  BY <1>1, <1>2 DEF IndInv, OutputInv, WinnerIsBest, Satisfied, RubricHolds, Coverage
<1> QED
  BY <1>3, <1>4, <1>5, <1>6 DEF IndInv

LEMMA NextInd == IndInv /\ [Next]_vars => IndInv'
  BY EnterStep, ResetStep, LaunchStep, OneEndsStep, MakePeersStep, FillPeersStep,
     RenderNilStep, PeerStepInd, BeginGradingStep, GradeStep, PromoteStep,
     CheckRubricStep, AssessStep, RepairStep, AgainStep, QuietStep
  DEF Next, Step, Attempt

LEMMA Invariance == Spec => []IndInv
<1>1. Init => IndInv
  BY InitInd
<1>2. IndInv /\ [Next]_vars => IndInv'
  BY NextInd
<1> QED
  BY <1>1, <1>2, PTL DEF Spec

-----------------------------------------------------------------------------
(* Theorems.                                                               *)

(* Every reachable state has the declared types: a peer ends as passed or  *)
(* failed, never with a status of its report.                              *)
THEOREM WorkcellTypeCorrect == Spec => []TypeOK
<1>1. IndInv => TypeOK
  BY DEF IndInv
<1> QED
  BY <1>1, Invariance, PTL

(* Nothing of an attempt works on when its candidates are graded, repaired *)
(* or tried again.                                                         *)
THEOREM WorkcellPeersSettled == Spec => []PeersSettled
<1>1. IndInv => PeersSettled
  BY DEF IndInv, PeerInv
<1> QED
  BY <1>1, Invariance, PTL

(* However the peers' commands end, the winner is the first of the best    *)
(* that the rubric accepts, and both copies of the rubric accept it.       *)
THEOREM WorkcellWinnerIsBest == Spec => []WinnerIsBest
<1>1. IndInv => WinnerIsBest
  BY DEF IndInv, OutputInv
<1> QED
  BY <1>1, Invariance, PTL

(* Nothing passes that did not run, succeed and satisfy its rubric.        *)
THEOREM WorkcellPassedEarned == Spec => []PassedEarned
<1>1. ASSUME IndInv, phase = "passed"
      PROVE  /\ output.ran /\ output.ok
             /\ cell.executor = "ao2" => output.accepted
             /\ RubricHolds(output)
  BY <1>1, OutputFacts DEF IndInv, OutputInv, Satisfied
<1>2. IndInv => PassedEarned
  BY <1>1 DEF PassedEarned
<1> QED
  BY <1>2, Invariance, PTL

(* However often the operator repeats the call, repairs stay within the    *)
(* plan's limit and every attempt is paid for.                             *)
THEOREM WorkcellAttemptsPaid == Spec => []AttemptsPaid
<1>1. IndInv => AttemptsPaid
  BY DEF IndInv, AttemptInv, AttemptsPaid
<1> QED
  BY <1>1, Invariance, PTL

-----------------------------------------------------------------------------
(* The refinement.                                                         *)

(* What a step of the call does to where the call stands.                  *)
Moves(from, to) == Stand = from /\ Stand' = to

(* A move that Scheduler's goroutine can make.                             *)
Allowed ==
  \/ /\ UNCHANGED repairs
     /\ \/ Refused(cell) /\ Moves("start", "failing")
        \/ ~Refused(cell) /\ ~cancelled /\ Moves("start", "running")
        \/ ~Refused(cell) /\ Moves("start", "erred")
        \/ Moves("running", "succeeded")
        \/ Moves("running", "erred")
        \/ repairs >= cell.repairs /\ Moves("erred", "failing")
        \/ ~cancelled /\ Moves("repair", "repairing")
        \/ Moves("repair", "failing")
        \/ Moves("repairing", "start")
        \/ Moves("repairing", "failing")
  \/ /\ repairs < cell.repairs
     /\ repairs' = repairs + 1
     /\ Moves("erred", "repair")

LEMMA AllowedExecutes ==
  ASSUME IndInv, Allowed, cell' = cell, cancelled' = cancelled
  PROVE  S!Execute(cell)
<1> DEFINE place == [c \in Cells |-> IF c = cell THEN Stand ELSE "none"]
           paid == [c \in Cells |-> IF c = cell THEN repairs ELSE 0]
<1>1. cell \in Cells /\ repairs \in Int /\ cell.repairs \in Int
  BY CellFacts DEF IndInv, TypeOK
<1>2. place[cell] = Stand /\ place' = [place EXCEPT ![cell] = Stand']
  BY <1>1
<1>3. /\ paid[cell] = repairs
      /\ paid' = [paid EXCEPT ![cell] = repairs']
  BY <1>1
<1>4. [c \in Cells |-> c.repairs][cell] = cell.repairs
  BY <1>1
<1>5. UNCHANGED repairs => paid' = paid
  OBVIOUS
<1>6. ASSUME NEW from, NEW to, Moves(from, to)
      PROVE  S!Goes(cell, from, to)
  BY <1>2, <1>6 DEF S!Goes, Moves
<1>7. cell \in {c \in Cells : Refused(c)} <=> Refused(cell)
  BY <1>1
<1>8. UNCHANGED <<[c \in Cells |-> "running"], "idle", S!operatorVars, cancelled, NoPeer>>
  BY DEF S!operatorVars
<1>9. CASE UNCHANGED repairs /\ ~Moves("erred", "failing")
  <2>1. UNCHANGED paid
    BY <1>9
  <2>2. CASE Refused(cell) /\ Moves("start", "failing")
    <3>1. S!Goes(cell, "start", "failing")
      BY <1>6, <2>2
    <3>2. S!Refuse(cell)
      BY <1>7, <1>8, <2>1, <2>2, <3>1 DEF S!Refuse
    <3> QED
      BY <3>2 DEF S!Execute
  <2>3. CASE /\ ~Refused(cell)
             /\ \/ ~cancelled /\ Moves("start", "running")
                \/ Moves("start", "erred")
    <3>1. (~cancelled /\ S!Goes(cell, "start", "running")) \/ S!Goes(cell, "start", "erred")
      BY <1>6, <2>3
    <3>2. S!Launch(cell)
      BY <1>7, <1>8, <2>1, <2>3, <3>1 DEF S!Launch
    <3> QED
      BY <3>2 DEF S!Execute
  <2>4. CASE Moves("running", "succeeded") \/ Moves("running", "erred")
    <3>1. S!Goes(cell, "running", "succeeded") \/ S!Goes(cell, "running", "erred")
      BY <1>6, <2>4
    <3>2. S!Ends(cell)
      BY <1>8, <2>1, <3>1 DEF S!Ends
    <3> QED
      BY <3>2 DEF S!Execute
  <2>5. CASE \/ ~cancelled /\ Moves("repair", "repairing")
             \/ Moves("repair", "failing")
             \/ Moves("repairing", "start")
             \/ Moves("repairing", "failing")
    <3>1. \/ ~cancelled /\ S!Goes(cell, "repair", "repairing")
          \/ S!Goes(cell, "repair", "failing")
          \/ S!Goes(cell, "repairing", "start")
          \/ S!Goes(cell, "repairing", "failing")
      BY <1>6, <2>5
    <3>2. S!Repair(cell)
      BY <1>8, <2>1, <3>1 DEF S!Repair
    <3> QED
      BY <3>2 DEF S!Execute
  <2> QED
    BY <1>1, <1>9, <2>2, <2>3, <2>4, <2>5 DEF Allowed
<1>10. CASE repairs >= cell.repairs /\ UNCHANGED repairs /\ Moves("erred", "failing")
  <2>1. ~S!RepairLeft(cell)
    BY <1>1, <1>3, <1>4, <1>10 DEF S!RepairLeft
  <2>2. S!Goes(cell, "erred", "failing") /\ UNCHANGED paid
    BY <1>6, <1>10
  <2>3. S!Assess(cell)
    BY <1>8, <2>1, <2>2 DEF S!Assess
  <2> QED
    BY <2>3 DEF S!Execute
<1>11. CASE repairs < cell.repairs /\ repairs' = repairs + 1 /\ Moves("erred", "repair")
  <2>1. S!RepairLeft(cell)
    BY <1>1, <1>3, <1>4, <1>11 DEF S!RepairLeft
  <2>2. S!Goes(cell, "erred", "repair") /\ paid' = [paid EXCEPT ![cell] = @ + 1]
    BY <1>3, <1>6, <1>11
  <2>3. S!Assess(cell)
    BY <1>8, <2>1, <2>2 DEF S!Assess
  <2> QED
    BY <2>3 DEF S!Execute
<1> QED
  BY <1>9, <1>10, <1>11 DEF Allowed, Moves

(* Stand, phase by phase.                                                  *)
LEMMA StandOf ==
  /\ phase \in {"call", "reset", "launch", "fill", "crashed"} => Stand = "start"
  /\ phase \in {"peers", "grade"} => Stand = IF Started THEN "running" ELSE "start"
  /\ phase \in {"running", "check"} => Stand = "running"
  /\ phase = "failed" => Stand = "failing"
  /\ phase = "passed" => Stand = "succeeded"
  /\ phase \in {"erred", "repair", "repairing"} => Stand = phase
  BY DEF Stand

(* A peer step starts the first command, or changes nothing to see.        *)
LEMMA PeerStands ==
  ASSUME IndInv, NEW i \in DOMAIN peers, PeerStep(i)
  PROVE  Allowed \/ UNCHANGED <<Stand, repairs>>
<1> USE DEF PeerStep, callVars
<1>1. phase \in {"peers", "crashed"} /\ phase' = phase /\ DOMAIN peers' = DOMAIN peers
      /\ repairs' = repairs
  BY PeerPhase DEF PeerStart, PeerLaunch, PeerEnds, PeerSettles, Goes
<1>2. Stand' = IF phase = "crashed" THEN "start" ELSE IF Started' THEN "running" ELSE "start"
  BY <1>1 DEF Stand
<1>3. peers \in [DOMAIN peers -> Peer]
      /\ (peers[i].at = "ended" => peers[i].out \in Outputs)
  BY DEF IndInv, TypeOK, PeerInv
<1>4. ASSUME Started PROVE Started'
  <2>1. PICK j \in DOMAIN peers : peers[j].at = "executing" \/ peers[j].out.ran
    BY <1>4 DEF Started
  <2>2. peers'[j].at = "executing" \/ peers'[j].out.ran
    <3>1. CASE j # i
      BY <2>1, <3>1 DEF PeerStart, PeerLaunch, PeerEnds, PeerSettles, Goes
    <3>2. CASE j = i /\ (PeerStart(i) \/ PeerLaunch(i) \/ PeerSettles(i))
      BY <1>3, <2>1, <3>2 DEF PeerStart, PeerLaunch, PeerSettles, Goes, Peer
    <3>3. CASE j = i /\ PeerEnds(i)
      BY <1>3, <3>3, OutputFacts DEF PeerEnds, Peer
    <3> QED
      BY <3>1, <3>2, <3>3
  <2> QED
    BY <1>1, <2>1, <2>2 DEF Started
<1>5. ASSUME ~Started, Started' PROVE ~cancelled
  <2>1. PICK j \in DOMAIN peers : peers'[j].at = "executing" \/ peers'[j].out.ran
    BY <1>1, <1>5 DEF Started
  <2>2. ~(peers[j].at = "executing") /\ ~peers[j].out.ran
    BY <1>5, <2>1 DEF Started
  <2>3. j = i
    BY <2>1, <2>2 DEF PeerStart, PeerLaunch, PeerEnds, PeerSettles, Goes
  <2> QED
    BY <1>3, <2>1, <2>2, <2>3 DEF PeerStart, PeerLaunch, PeerEnds, PeerSettles, Goes, Peer
<1>6. CASE phase = "crashed" \/ Started \/ ~Started'
  BY <1>1, <1>2, <1>4, <1>6, StandOf
<1>7. CASE phase = "peers" /\ ~Started /\ Started'
  <2>1. ~Refused(cell)
    BY <1>7 DEF IndInv, OutputInv
  <2> QED
    BY <1>1, <1>2, <1>5, <1>7, <2>1, StandOf DEF Allowed, Moves
<1> QED
  BY <1>1, <1>6, <1>7

(* So does every step of the call itself.                                  *)
LEMMA AttemptStands ==
  ASSUME IndInv, Attempt
  PROVE  Allowed \/ UNCHANGED <<Stand, repairs>>
<1> USE DEF callVars, peerVars
<1>0. phase \notin {"call", "failed"} => ~Refused(cell)
  BY DEF IndInv, OutputInv
<1>1. CASE Enter \/ Reset
  BY <1>0, <1>1, StandOf DEF Enter, Reset, Allowed, Moves, Stand
<1>2. CASE CannotLaunch \/ LaunchOne
  BY <1>0, <1>2, StandOf DEF CannotLaunch, LaunchOne, Allowed, Moves, Stand
<1>3. CASE OneEnds
  BY <1>3, StandOf DEF OneEnds, Allowed, Moves, Stand
<1>4. CASE MakePeers
  BY <1>4, StandOf DEF MakePeers, Stand
<1>5. CASE FillPeers
  <2>1. ~Started'
    BY <1>5, BlankFacts DEF FillPeers, Started
  <2> QED
    BY <1>5, <2>1, StandOf DEF FillPeers, Stand
<1>6. CASE BeginGrading \/ Grade
  <2>1. Started' <=> Started
    BY <1>6 DEF BeginGrading, Grade, Started
  <2> QED
    BY <1>6, <2>1, StandOf DEF BeginGrading, Grade, Stand
<1>7. CASE Promote
  <2>1. CASE winner = NoPeer
    BY <1>0, <1>7, <2>1, StandOf DEF Promote, Allowed, Moves, Stand
  <2>2. CASE winner # NoPeer
    <3>1. winner \in DOMAIN peers /\ peers[winner].at = "passed"
      BY <1>7, <2>2
      DEF Promote, IndInv, TypeOK, PeerInv, GradeInv, BestOfGraded, IsValid
    <3>2. Started
      BY <3>1, OutputFacts DEF IndInv, PeerInv, Started
    <3> QED
      BY <1>7, <2>2, <3>2, StandOf DEF Promote, Stand
  <2> QED
    BY <2>1, <2>2
<1>8. CASE CheckRubric
  BY <1>8, StandOf DEF CheckRubric, Allowed, Moves, Stand
<1>9. CASE Assess
  <2>1. repairs \in Int /\ cell.repairs \in Nat /\ repairs >= 0
    BY CellFacts DEF IndInv, TypeOK
  <2>2. CASE RepairLeft
    BY <1>9, <2>1, <2>2, StandOf DEF Assess, RepairLeft, Allowed, Moves, Stand
  <2>3. CASE ~RepairLeft
    <3>1. repairs >= cell.repairs
      BY <2>1, <2>3 DEF RepairLeft
    <3> QED
      BY <1>9, <2>3, <3>1, StandOf DEF Assess, Allowed, Moves, Stand
  <2> QED
    BY <2>2, <2>3
<1>10. CASE Repair
  BY <1>10, StandOf DEF Repair, Allowed, Moves, Stand
<1> QED
  BY <1>1, <1>2, <1>3, <1>4, <1>5, <1>6, <1>7, <1>8, <1>9, <1>10 DEF Attempt

(* Scheduler's model of an execution stands for this one: peers, rubric    *)
(* and repairs are moves that its goroutine can make, and a repeated call  *)
(* begins anew.                                                            *)
THEOREM WorkcellImplementsExecute == Spec => ImplementsExecute
<1>1. ASSUME IndInv, [Next]_vars
      PROVE  [S!Execute(cell) \/ Again]_<<Stand, repairs>>
  <2>1. CASE Attempt
    <3>1. cell' = cell /\ cancelled' = cancelled
      BY <2>1
      DEF Attempt, Enter, Reset, CannotLaunch, LaunchOne, OneEnds, MakePeers, FillPeers,
          BeginGrading, Grade, Promote, CheckRubric, Assess, Repair, callVars
    <3> QED
      BY <1>1, <2>1, <3>1, AttemptStands, AllowedExecutes
  <2>2. ASSUME NEW i \in DOMAIN peers, PeerStep(i)
        PROVE  [S!Execute(cell) \/ Again]_<<Stand, repairs>>
    <3>1. cell' = cell /\ cancelled' = cancelled
      BY <2>2 DEF PeerStep, callVars
    <3> QED
      BY <1>1, <2>2, <3>1, PeerStands, AllowedExecutes
  <2>3. CASE RenderNil \/ Cancel \/ UNCHANGED vars
    BY <2>3 DEF RenderNil, Cancel, vars, callVars, peerVars, Stand, Started
  <2>4. CASE Again
    BY <2>4
  <2> QED
    BY <1>1, <2>1, <2>2, <2>3, <2>4 DEF Next, Step
<1> QED
  BY <1>1, Invariance, PTL DEF Spec, ImplementsExecute

-----------------------------------------------------------------------------
(* Why a call ends.  Fairness apart, that takes two facts: some step of    *)
(* the call can be taken until it is over, and every step brings its end   *)
(* nearer, the repairs that lead to another attempt too.                   *)

Over == {"failed", "passed", "crashed"}

(* What the attempt and its peers wait for: wg.Wait for the peers, the     *)
(* loop over the candidates for nothing.                                   *)
PeerCanStep(i) == peers[i].at \in {"pending", "running", "executing", "ended"}

CanWork ==
  \/ phase \in {"call", "reset", "launch", "fill", "check", "erred", "repair", "repairing"}
  \/ phase = "running" /\ Outputs # {}
  \/ /\ phase = "peers"
     /\ \/ Awaited
        \/ \E i \in DOMAIN peers :
             PeerCanStep(i) /\ (peers[i].at = "executing" => Outputs # {})
  \/ phase = "grade" /\ graded <= cell.peers

GoesOn == phase \notin Over => CanWork

(* How far the attempt is from its end.                                    *)
Rank ==
  CASE phase = "call" -> 12 [] phase = "repair" -> 11 [] phase = "repairing" -> 10
    [] phase = "reset" -> 9 [] phase = "launch" -> 8 [] phase = "fill" -> 7
    [] phase = "peers" -> 6 [] phase = "grade" -> 5 [] phase = "running" -> 4
    [] phase = "check" -> 3 [] phase = "erred" -> 2 [] OTHER -> 0

(* The peers that stand at one of these places.                            *)
Behind(places) == {i \in DOMAIN peers : peers[i].at \in places}

(* Each peer counts once for each of the places it has yet to leave.       *)
ToStart == Cardinality(Behind({"pending"}))
ToLaunch == Cardinality(Behind({"pending", "running"}))
ToEnd == Cardinality(Behind({"pending", "running", "executing"}))
ToSettle == Cardinality(Behind({"pending", "running", "executing", "ended"}))
PeersAhead == ToStart + ToLaunch + ToEnd + ToSettle

TurnsAhead ==
  CASE phase = "peers" -> PeersAhead [] phase = "grade" -> cell.peers - graded [] OTHER -> 0

Ahead ==
  <<cell.repairs - repairs, Rank, TurnsAhead, IF cancelled THEN 0 ELSE 1>>

(* Lexicographic: a repair takes the attempt back to its beginning, and    *)
(* one repair less is left.                                                *)
Below == LexProductOrdering(OpToRel(<, Nat), Nat, 4)

Descends == [][phase \notin Over => <<Ahead', Ahead>> \in Below]_vars

(* Peers that are waited for have all been made.                           *)
PeersMade == phase = "peers" => \A i \in DOMAIN peers : peers[i].at # "nil"

LEMMA PeersMadeStep == IndInv /\ PeersMade /\ [Next]_vars => PeersMade'
<1> SUFFICES ASSUME IndInv, PeersMade, [Next]_vars, phase' = "peers"
             PROVE  \A i \in DOMAIN peers' : peers'[i].at # "nil"
  BY DEF PeersMade
<1>1. CASE FillPeers
  BY <1>1 DEF FillPeers
<1>2. ASSUME NEW i \in DOMAIN peers, PeerStep(i)
      PROVE  \A j \in DOMAIN peers' : peers'[j].at # "nil"
  <2>1. /\ DOMAIN peers' = DOMAIN peers /\ phase' = phase
        /\ \A j \in DOMAIN peers \ {i} : peers'[j] = peers[j]
    BY <1>2 DEF PeerStep, PeerStart, PeerLaunch, PeerEnds, PeerSettles, Goes, IndInv, TypeOK
  <2>2. peers'[i].at # "nil"
    BY <1>2 DEF PeerStep, PeerStart, PeerLaunch, PeerEnds, PeerSettles, Goes, IndInv, TypeOK,
                Peer
  <2> QED
    BY <2>1, <2>2 DEF PeersMade
<1>3. CASE Cancel \/ UNCHANGED vars
  BY <1>3 DEF Cancel, vars, peerVars, PeersMade
<1>4. Enter \/ Reset \/ CannotLaunch \/ LaunchOne \/ OneEnds \/ MakePeers => phase' # "peers"
  BY DEF Enter, Reset, CannotLaunch, LaunchOne, OneEnds, MakePeers
<1>5. BeginGrading \/ Grade \/ Promote \/ CheckRubric \/ Assess \/ Repair \/ RenderNil \/ Again
        => phase' # "peers"
  BY DEF BeginGrading, Grade, Promote, CheckRubric, Assess, Repair, RenderNil, Again
<1> QED
  BY <1>1, <1>2, <1>3, <1>4, <1>5 DEF Next, Step, Attempt

LEMMA CallGoesOn == IndInv /\ PeersMade => GoesOn
<1> SUFFICES ASSUME IndInv, PeersMade, phase \notin Over PROVE CanWork
  BY DEF GoesOn
<1>1. phase \in Phases \ Over /\ Outputs # {}
  BY WorkcellAssumption DEF IndInv, TypeOK
<1>2. CASE phase = "peers"
  <2>1. \A i \in DOMAIN peers : peers[i].at \in Places \ {"nil"}
    BY <1>2 DEF IndInv, TypeOK, Peer, PeersMade
  <2>2. \A i \in DOMAIN peers : peers[i].at \in Settled \/ PeerCanStep(i)
    BY <2>1 DEF Places, Settled, PeerCanStep
  <2>3. DOMAIN peers = Indices
    BY <1>2 DEF IndInv, PeerInv
  <2> QED
    BY <1>1, <1>2, <2>2, <2>3 DEF CanWork, Awaited
<1>3. CASE phase = "grade"
  BY <1>3 DEF IndInv, GradeInv, CanWork
<1>4. CASE phase \notin {"peers", "grade"}
  BY <1>1, <1>4 DEF CanWork, Phases, Over
<1> QED
  BY <1>2, <1>3, <1>4

LEMMA BelowEnds == IsWellFoundedOn(Below, [1..4 -> Nat])
<1> DEFINE less == OpToRel(<, Nat)
<1>1. IsWellFoundedOn(less, Nat)
  BY NatLessThanWellFounded
<1>2. 4 \in Nat
  OBVIOUS
<1> HIDE DEF less
<1>3. IsWellFoundedOn(LexProductOrdering(less, Nat, 4), [1..4 -> Nat])
  BY <1>1, <1>2, WFLexProductOrdering, Zenon
<1> QED
  BY <1>3, Zenon DEF less, Below

LEMMA Lower ==
  ASSUME NEW a \in Nat, NEW b \in Nat, NEW c \in Nat, NEW d \in Nat,
         NEW p \in Nat, NEW q \in Nat, NEW r \in Nat, NEW s \in Nat,
         \/ p < a
         \/ p = a /\ q < b
         \/ p = a /\ q = b /\ r < c
         \/ p = a /\ q = b /\ r = c /\ s < d
  PROVE  <<<<p, q, r, s>>, <<a, b, c, d>>>> \in Below
<1> DEFINE f == <<a, b, c, d>>
           g == <<p, q, r, s>>
           less == OpToRel(<, Nat)
<1>1. /\ f \in [1..4 -> Nat] /\ f[1] = a /\ f[2] = b /\ f[3] = c /\ f[4] = d
      /\ g \in [1..4 -> Nat] /\ g[1] = p /\ g[2] = q /\ g[3] = r /\ g[4] = s
  OBVIOUS
<1>2. \A m, n \in Nat : m < n => <<m, n>> \in less
  BY SMT DEF OpToRel
<1> HIDE DEF f, g, less
<1>3. \E j \in 1..4 : (\A i \in 1..(j - 1) : g[i] = f[i]) /\ g[j] < f[j]
  <2>1. CASE p < a
    BY <1>1, <2>1
  <2>2. CASE p = a /\ q < b
    BY <1>1, <2>2
  <2>3. CASE p = a /\ q = b /\ r < c
    BY <1>1, <2>3
  <2>4. CASE p = a /\ q = b /\ r = c /\ s < d
    BY <1>1, <2>4
  <2> QED
    BY <2>1, <2>2, <2>3, <2>4
<1>4. PICK j \in 1..4 : (\A i \in 1..(j - 1) : g[i] = f[i]) /\ g[j] < f[j]
  BY <1>3
<1>5. <<g[j], f[j]>> \in less
  BY <1>1, <1>2, <1>4
<1>6. <<g, f>> \in LexProductOrdering(less, Nat, 4)
  BY <1>1, <1>4, <1>5 DEF LexProductOrdering
<1> QED
  BY <1>6 DEF f, g, less, Below

(* A set that loses elements has fewer of them.                            *)
LEMMA Fewer ==
  ASSUME NEW all, IsFiniteSet(all), NEW some, some \subseteq all, NEW x \in all, x \notin some
  PROVE  Cardinality(some) \in Nat /\ Cardinality(all) \in Nat /\ Cardinality(some) < Cardinality(all)
<1>1. some \in SUBSET all /\ some # all
  OBVIOUS
<1>2. IsFiniteSet(some) /\ Cardinality(some) <= Cardinality(all) /\ Cardinality(some) # Cardinality(all)
  BY <1>1, FS_Subset
<1>3. Cardinality(some) \in Nat /\ Cardinality(all) \in Nat
  BY <1>2, FS_CardinalityType
<1> QED
  BY <1>2, <1>3

(* All that is left can be counted.                                        *)
Counts ==
  /\ IsFiniteSet(DOMAIN peers)
  /\ cell.repairs - repairs \in Nat
  /\ Rank \in Nat
  /\ TurnsAhead \in Nat

LEMMA BehindCounts ==
  ASSUME IsFiniteSet(DOMAIN peers), NEW places
  PROVE  IsFiniteSet(Behind(places)) /\ Cardinality(Behind(places)) \in Nat
BY FS_Subset, FS_CardinalityType DEF Behind

LEMMA CountsHold == IndInv => Counts
<1> SUFFICES ASSUME IndInv PROVE Counts
  OBVIOUS
<1>1. IsFiniteSet(DOMAIN peers)
  <2>1. cell.peers \in Nat
    BY CellFacts DEF IndInv
  <2>2. IsFiniteSet(0..cell.peers - 1)
    BY <2>1, FS_Interval
  <2> QED
    BY <2>2, FS_EmptySet DEF IndInv, TypeOK, Indices
<1>2. cell.repairs - repairs \in Nat
  <2>1. cell.repairs \in Nat /\ repairs \in Nat /\ repairs <= cell.repairs
    BY CellFacts DEF IndInv, TypeOK, AttemptInv
  <2> QED
    BY <2>1
<1>3. Rank \in Nat
  BY DEF Rank
<1>4. TurnsAhead \in Nat
  <2>1. PeersAhead \in Nat
    <3>1. ToStart \in Nat /\ ToLaunch \in Nat /\ ToEnd \in Nat /\ ToSettle \in Nat
      BY <1>1, BehindCounts DEF ToStart, ToLaunch, ToEnd, ToSettle
    <3> QED
      BY <3>1 DEF PeersAhead
  <2>2. phase = "grade" => cell.peers - graded \in Nat
    <3>1. cell.peers \in Nat /\ graded \in Nat
      BY CellFacts DEF IndInv, TypeOK
    <3>2. phase = "grade" => graded <= cell.peers
      BY DEF IndInv, GradeInv
    <3> QED
      BY <3>1, <3>2
  <2> QED
    BY <2>1, <2>2 DEF TurnsAhead
<1> QED
  BY <1>1, <1>2, <1>3, <1>4 DEF Counts

(* A peer that moves on goes out of the sets it was in.                    *)
LEMMA BehindFalls ==
  ASSUME IndInv, Counts, NEW i \in DOMAIN peers, PeerStep(i), NEW P,
         peers'[i].at \in P => peers[i].at \in P
  PROVE  /\ Cardinality(Behind(P)) \in Nat /\ Cardinality(Behind(P)') \in Nat
         /\ Cardinality(Behind(P)') <= Cardinality(Behind(P))
         /\ peers[i].at \in P /\ peers'[i].at \notin P =>
              Cardinality(Behind(P)') < Cardinality(Behind(P))
<1>1. /\ DOMAIN peers' = DOMAIN peers
      /\ \A j \in DOMAIN peers \ {i} : peers'[j] = peers[j]
  BY DEF PeerStep, PeerStart, PeerLaunch, PeerEnds, PeerSettles, Goes, IndInv, TypeOK
<1>2. Behind(P)' \subseteq Behind(P)
  BY <1>1 DEF Behind
<1>3. IsFiniteSet(Behind(P)) /\ Cardinality(Behind(P)) \in Nat
  BY BehindCounts DEF Counts
<1>4. Cardinality(Behind(P)') \in Nat /\ Cardinality(Behind(P)') <= Cardinality(Behind(P))
  BY <1>2, <1>3, FS_Subset, FS_CardinalityType
<1>5. ASSUME peers[i].at \in P, peers'[i].at \notin P
      PROVE  Cardinality(Behind(P)') < Cardinality(Behind(P))
  <2>1. i \in Behind(P) /\ i \notin Behind(P)'
    BY <1>5 DEF Behind
  <2> QED
    BY <1>2, <1>3, <2>1, Fewer
<1> QED
  BY <1>3, <1>4, <1>5

LEMMA SumFalls ==
  ASSUME NEW a \in Nat, NEW b \in Nat, NEW c \in Nat, NEW d \in Nat,
         NEW p \in Nat, NEW q \in Nat, NEW r \in Nat, NEW s \in Nat,
         p <= a, q <= b, r <= c, s <= d,
         p < a \/ q < b \/ r < c \/ s < d
  PROVE  p + q + r + s < a + b + c + d
OBVIOUS

LEMMA PeerLowers ==
  ASSUME IndInv, Counts, NEW i \in DOMAIN peers, PeerStep(i)
  PROVE  PeersAhead' < PeersAhead
<1>1. \/ peers[i].at = "pending" /\ peers'[i].at = "running"
      \/ peers[i].at = "running" /\ peers'[i].at \in {"executing", "failed"}
      \/ peers[i].at = "executing" /\ peers'[i].at = "ended"
      \/ peers[i].at = "ended" /\ peers'[i].at \in {"passed", "failed"}
  <2>1. peers[i] \in Peer /\ peers \in [DOMAIN peers -> Peer]
    BY DEF IndInv, TypeOK
  <2> QED
    BY <2>1 DEF PeerStep, PeerStart, PeerLaunch, PeerEnds, PeerSettles, Goes, Peer
<1>2. /\ ToStart \in Nat /\ ToStart' \in Nat /\ ToStart' <= ToStart
      /\ peers[i].at = "pending" => ToStart' < ToStart
  BY <1>1, BehindFalls DEF ToStart
<1>3. /\ ToLaunch \in Nat /\ ToLaunch' \in Nat /\ ToLaunch' <= ToLaunch
      /\ peers[i].at = "running" => ToLaunch' < ToLaunch
  BY <1>1, BehindFalls DEF ToLaunch
<1>4. /\ ToEnd \in Nat /\ ToEnd' \in Nat /\ ToEnd' <= ToEnd
      /\ peers[i].at = "executing" => ToEnd' < ToEnd
  BY <1>1, BehindFalls DEF ToEnd
<1>5. /\ ToSettle \in Nat /\ ToSettle' \in Nat /\ ToSettle' <= ToSettle
      /\ peers[i].at = "ended" => ToSettle' < ToSettle
  BY <1>1, BehindFalls DEF ToSettle
<1>6. ToStart' < ToStart \/ ToLaunch' < ToLaunch \/ ToEnd' < ToEnd \/ ToSettle' < ToSettle
  BY <1>1, <1>2, <1>3, <1>4, <1>5
<1>7. ToStart' + ToLaunch' + ToEnd' + ToSettle' < ToStart + ToLaunch + ToEnd + ToSettle
  BY <1>2, <1>3, <1>4, <1>5, <1>6, SumFalls
<1> QED
  BY <1>7 DEF PeersAhead

(* What a step of a call brings nearer.                                    *)
CallLower ==
  \/ cell.repairs - repairs' < cell.repairs - repairs
  \/ /\ repairs' = repairs
     /\ \/ Rank' < Rank
        \/ Rank' = Rank /\ TurnsAhead' < TurnsAhead
        \/ Rank' = Rank /\ TurnsAhead' = TurnsAhead /\ ~cancelled /\ cancelled'

LEMMA AttemptLowers ==
  ASSUME IndInv, Attempt \/ RenderNil
  PROVE  CallLower
<1>1. CASE Enter \/ Reset \/ CannotLaunch \/ LaunchOne \/ OneEnds
  BY <1>1 DEF Enter, Reset, CannotLaunch, LaunchOne, OneEnds, callVars, CallLower, Rank
<1>2. CASE MakePeers \/ FillPeers \/ RenderNil \/ BeginGrading
  BY <1>2 DEF MakePeers, FillPeers, RenderNil, BeginGrading, callVars, CallLower, Rank
<1>3. CASE Promote \/ CheckRubric \/ Repair
  BY <1>3 DEF Promote, CheckRubric, Repair, callVars, CallLower, Rank
<1>4. CASE Grade
  <2>1. cell.peers \in Nat /\ graded \in Nat
    BY CellFacts DEF IndInv, TypeOK
  <2>2. /\ phase = "grade" /\ phase' = "grade" /\ repairs' = repairs
        /\ cell' = cell /\ graded' = graded + 1
    BY <1>4 DEF Grade, callVars
  <2>3. TurnsAhead = cell.peers - graded /\ TurnsAhead' = cell.peers - (graded + 1)
    BY <2>2 DEF TurnsAhead
  <2>4. TurnsAhead' < TurnsAhead /\ Rank' = Rank
    BY <2>1, <2>2, <2>3 DEF Rank
  <2> QED
    BY <2>2, <2>4 DEF CallLower
<1>5. CASE Assess
  <2>1. cell.repairs \in Nat /\ repairs \in Nat
    BY CellFacts DEF IndInv, TypeOK
  <2>2. CASE repairs' = repairs + 1
    <3>1. cell.repairs - repairs' < cell.repairs - repairs
      BY <2>1, <2>2
    <3> QED
      BY <3>1 DEF CallLower
  <2>3. CASE phase = "erred" /\ phase' = "failed" /\ repairs' = repairs
    BY <2>3 DEF CallLower, Rank
  <2> QED
    BY <1>5, <2>2, <2>3 DEF Assess
<1> QED
  BY <1>1, <1>2, <1>3, <1>4, <1>5 DEF Attempt

LEMMA CallLowers ==
  ASSUME IndInv, Counts', phase \notin Over, Next
  PROVE  <<Ahead', Ahead>> \in Below
<1>c. Counts
  BY CountsHold
<1>1. ASSUME CallLower, cell' = cell
      PROVE  <<Ahead', Ahead>> \in Below
  <2> DEFINE open == IF cancelled THEN 0 ELSE 1
  <2>1. open \in Nat /\ open' \in Nat /\ (~cancelled /\ cancelled' => open' < open)
    OBVIOUS
  <2>2. /\ cell.repairs - repairs \in Nat /\ cell.repairs - repairs' \in Nat
        /\ Rank \in Nat /\ Rank' \in Nat /\ TurnsAhead \in Nat /\ TurnsAhead' \in Nat
    BY <1>1, <1>c DEF Counts
  <2>3. /\ Ahead = <<cell.repairs - repairs, Rank, TurnsAhead, open>>
        /\ Ahead' = <<cell.repairs - repairs', Rank', TurnsAhead', open'>>
    BY <1>1 DEF Ahead
  <2> HIDE DEF open
  <2> QED
    BY <1>1, <2>1, <2>2, <2>3, Lower DEF CallLower
<1>2. CASE Attempt \/ RenderNil
  <2>1. cell' = cell
    BY <1>2 DEF Attempt, RenderNil, Enter, Reset, CannotLaunch, LaunchOne, OneEnds, MakePeers,
                FillPeers, BeginGrading, Grade, Promote, CheckRubric, Assess, Repair, callVars
  <2> QED
    BY <1>1, <1>2, <2>1, AttemptLowers
<1>3. ASSUME NEW i \in DOMAIN peers, PeerStep(i)
      PROVE  <<Ahead', Ahead>> \in Below
  <2>1. phase = "peers" /\ phase' = "peers" /\ UNCHANGED callVars
    BY <1>3, PeerPhase DEF PeerStep, Over
  <2>2. TurnsAhead' < TurnsAhead
    BY <1>3, <1>c, <2>1, PeerLowers DEF TurnsAhead
  <2>3. Rank' = Rank
    BY <2>1 DEF Rank
  <2> QED
    BY <1>1, <2>1, <2>2, <2>3 DEF CallLower, callVars
<1>4. CASE Cancel
  <2>1. UNCHANGED <<cell, phase, repairs, peers, graded>> /\ ~cancelled /\ cancelled'
    BY <1>4 DEF Cancel, peerVars
  <2>2. Rank' = Rank /\ TurnsAhead' = TurnsAhead
    BY <2>1 DEF Rank, TurnsAhead, PeersAhead, ToStart, ToLaunch, ToEnd, ToSettle, Behind
  <2> QED
    BY <1>1, <2>1, <2>2 DEF CallLower
<1>5. ~Again
  BY DEF Again, Over
<1> QED
  BY <1>2, <1>3, <1>4, <1>5 DEF Next, Step

(* Every call of a workcell ends, however many peers, repairs and cancels  *)
(* there are, but for the fairness that has goroutines run and commands    *)
(* return: until it is over it or one of its peers can take a step, and    *)
(* every step brings it nearer to an end that cannot recede for ever.      *)
THEOREM WorkcellApproachesEnd ==
  /\ Spec => []GoesOn /\ Descends
  /\ IsWellFoundedOn(Below, [1..4 -> Nat])
<1>1. Init => PeersMade
  BY DEF Init, PeersMade
<1>2. Spec => []PeersMade
  BY <1>1, Invariance, PeersMadeStep, PTL DEF Spec
<1>3. Spec => []GoesOn
  BY <1>2, Invariance, CallGoesOn, PTL
<1>4. IndInv /\ Counts' /\ [Next]_vars =>
        [phase \notin Over => <<Ahead', Ahead>> \in Below]_vars
  BY CallLowers
<1>5. Spec => Descends
  BY <1>4, CountsHold, Invariance, PTL DEF Spec, Descends
<1> QED
  BY <1>3, <1>5, BelowEnds

=============================================================================
