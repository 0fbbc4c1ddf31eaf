----------------------------- MODULE MCWorkcell -----------------------------
(* Small instances of Workcell for TLC.                                    *)
EXTENDS Workcell

Of(executor, n, limit, patterns, minimum) ==
  [executor |-> executor, peers |-> n, repairs |-> limit, patterns |-> patterns,
   minimum |-> minimum]

(* AO2 with and without a rubric, a swarm, two and three peers with a      *)
(* rubric, two without one, and peers of an executor that has none.        *)
FewCells ==
  {Of("ao2", 0, 1, FALSE, Unmeasured), Of("ao2", 1, 2, TRUE, Unmeasured),
   Of("agy-swarms", 1, 1, TRUE, 2), Of("agy-swarms", 2, 1, TRUE, 1),
   Of("agy-swarms", 3, 1, TRUE, Unmeasured), Of("agy-swarms", 2, 0, FALSE, Unmeasured),
   Of("ao2", 2, 1, FALSE, Unmeasured)}

Ran(ok, accepted, required, forbidden, coverage) ==
  [ran |-> TRUE, ok |-> ok, accepted |-> accepted, required |-> required,
   forbidden |-> forbidden, coverage |-> coverage]

FewOutputs ==
  {Ran(TRUE, TRUE, TRUE, FALSE, 1), Ran(TRUE, TRUE, TRUE, FALSE, 2),
   Ran(TRUE, FALSE, TRUE, FALSE, Unmeasured), Ran(TRUE, TRUE, TRUE, TRUE, 2),
   Ran(FALSE, TRUE, TRUE, FALSE, 2), Ran(TRUE, TRUE, FALSE, FALSE, 1)}
=============================================================================
