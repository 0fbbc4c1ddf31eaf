---------------------------- MODULE MCScheduler -----------------------------
(* A small plan for TLC.                                                   *)
EXTENDS Scheduler, TLC

CONSTANTS a, b, c, d

(* b after a, c beside them, and d after b and c.                          *)
Join == a :> <<>> @@ b :> <<a>> @@ c :> <<>> @@ d :> <<b, c>>

RepairEach == [t \in Tasks |-> 1]
=============================================================================
