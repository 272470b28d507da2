-------------------------- MODULE MCTenantRegistry --------------------------
(* Small instances of TenantRegistry for TLC.                              *)
EXTENDS TenantRegistry, TLC

CONSTANTS w1, w2

MCWorkers2 == {w1, w2}
Symmetry2  == Permutations(MCWorkers2)

Config(profile, labels, map) == [profile |-> profile, labels |-> labels, map |-> map]

MCDemoConfig == "bank_demo" :> Config("demo", "it-support", "demo")

\* A demo tenant is edited, a new one created, updated and given no labels, and
\* an id of blanks.
MCPosts ==
  {[tenant |-> "bank_demo", config |-> Config("own", "own", "demo")],
   [tenant |-> "acme", config |-> Config("own", "none", "demo")],
   [tenant |-> "acme", config |-> Config("demo", "own", "own")],
   [tenant |-> "", config |-> Config("own", "own", "demo")]}

\* The label map alone, the labels alone, both.
MCPatches ==
  {[tenant |-> t, labels |-> l, map |-> m] : t \in {"bank_demo", "acme"},
     l \in {"none", "unchanged"}, m \in {"own", "unchanged"}}
=============================================================================
