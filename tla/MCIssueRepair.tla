--------------------------- MODULE MCIssueRepair ---------------------------
(* Small instances of IssueRepair for TLC.                                 *)
EXTENDS IssueRepair

CONSTANTS p1, p2, p3, w1, w2

(* Two processes of different workers.                                     *)
TwoWorkers == p1 :> w1 @@ p2 :> w2

(* Renaming the two workers together with their processes changes nothing. *)
SwapWorkers ==
  {p1 :> p1 @@ p2 :> p2 @@ w1 :> w1 @@ w2 :> w2,
   p1 :> p2 @@ p2 :> p1 @@ w1 :> w2 @@ w2 :> w1}

(* Which answer was last given decides nothing that follows: properties    *)
(* that read at most the answer of the step leave it out of the state.     *)
WithoutReply == <<file, stable, clock, issued, lock, pc, exec, cand, outcome, req>>

(* A worker restarted under its own name (p1, p2) beside another (p3).     *)
RestartedWorker == p1 :> w1 @@ p2 :> w1 @@ p3 :> w2

(* The two processes of one worker are interchangeable.                    *)
SwapRestarts == Permutations({p1, p2})
=============================================================================
