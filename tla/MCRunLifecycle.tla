--------------------------- MODULE MCRunLifecycle ---------------------------
(* Small instances of RunLifecycle for TLC.                                *)
EXTENDS RunLifecycle, TLC

CONSTANTS a, b

(* One workcell after another.                                             *)
Chain == a :> <<>> @@ b :> <<a>>

Flag(live, confirm, audited, attended) ==
  [live |-> live, confirm |-> confirm, audited |-> audited,
   attended |-> attended, elsewhere |-> FALSE]
Elsewhere(flags) == [flags EXCEPT !.elsewhere = TRUE]

(* Dry runs, and live ones with all, some or none of what a release needs. *)
ReleaseFlags ==
  {Flag(FALSE, FALSE, FALSE, FALSE), Flag(TRUE, FALSE, TRUE, TRUE),
   Flag(TRUE, TRUE, FALSE, TRUE), Flag(TRUE, TRUE, TRUE, TRUE)}

(* Nothing but where the packet goes.                                      *)
PlainFlags ==
  {Flag(FALSE, FALSE, FALSE, FALSE), Elsewhere(Flag(FALSE, FALSE, FALSE, FALSE))}

Decision(verdictOf, aboutRelease) == [status |-> verdictOf, release |-> aboutRelease]

(* One gate result of every kind; the malformed ones are torn.             *)
ReleaseGates ==
  {Decision("allowed", FALSE), Decision("denied", FALSE), Decision("blocked", FALSE),
   Decision("blocked", TRUE)}

AllowedGate == {Decision("allowed", FALSE)}
=============================================================================
