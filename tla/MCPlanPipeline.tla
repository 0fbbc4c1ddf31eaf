--------------------------- MODULE MCPlanPipeline ---------------------------
(* Small instances of PlanPipeline for TLC.                                *)
EXTENDS PlanPipeline

CONSTANTS a, b, c, d

On(n, deps) == [id |-> n, deps |-> deps]

(* A chain, a diamond, and a duplicate that hides a cycle.                 *)
Chain == <<On(a, <<>>), On(b, <<a>>)>>
Diamond == <<On(d, <<b, c>>), On(c, <<a>>), On(b, <<a>>), On(a, <<>>)>>
Hidden == <<On(a, <<b>>), On(b, <<a>>), On(c, <<b>>), On(a, <<>>)>>

(* A cycle behind a diamond, and a duplicate that hides an unknown         *)
(* dependency.                                                             *)
Bad ==
  {<<On(d, <<b, c>>), On(c, <<a>>), On(b, <<a>>), On(a, <<c>>)>>,
   <<On(a, <<d>>), On(b, <<a>>), On(a, <<>>)>>}

Single == <<On(a, <<>>)>>

Lists == {<<>>, Single, Chain, Diamond, Hidden} \cup Bad
Planned == {Chain, Single}

Of(name, release, mutation, network, list) ==
  [name |-> name, release |-> release, mutation |-> mutation, network |-> network,
   cells |-> list]

(* A brief for every list but one, and one for every answer of Covenant.   *)
LocalBrief == Of("local", FALSE, FALSE, FALSE, Chain)
ReleaseBrief == Of("release", TRUE, TRUE, FALSE, Chain)
AllBriefs ==
  {LocalBrief, ReleaseBrief, Of("mutation", FALSE, TRUE, FALSE, Diamond),
   Of("network", TRUE, FALSE, TRUE, Hidden)}
  \cup {Of("local", FALSE, FALSE, FALSE, l) : l \in Bad}

Decision(target, decision, about) ==
  [target |-> target, decision |-> decision, aboutRelease |-> about]

FewDecisions ==
  {Decision(ReleaseBrief, "indeterminate", TRUE), Decision(LocalBrief, "allow", FALSE),
   Decision(LocalBrief, "malformed", FALSE)}
=============================================================================
