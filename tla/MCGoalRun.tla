----------------------------- MODULE MCGoalRun ------------------------------
(* A small instance of GoalRun for TLC.                                    *)
EXTENDS GoalRun, TLC

CONSTANTS one, two, here, there, kept, tmp

Anyone == Permutations({one, two})

(* One artifact at a time; a first iteration only with the kept one.       *)
OneAtATime ==
  {c \in Commands :
     /\ c.kind = "update" =>
          /\ c.phase \in {NoPhase, "verification", "complete"}
          /\ Cardinality(c.attach) <= 1
          /\ c.iteration <=> c.attach = {kept}
     /\ c.kind = "readiness" => c.phase \in {NoPhase, "verification"}}
=============================================================================
