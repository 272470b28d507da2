-------------------------- MODULE MCEmailPipeline --------------------------
(* Small instances of EmailPipeline for TLC.                               *)
EXTENDS EmailPipeline, TLC

CONSTANTS w1, w2, w3

\* "bank_demo" is seeded, "acme" may be registered while the system runs;
\* "bank" is a plus-address alias.
MCTenantIds == {"bank_demo", "acme"}
MCSeeded    == {"bank_demo"}
MCAlias     == "bank" :> "bank_demo"

From(h, b, t) == [header |-> h, body |-> b, token |-> t]

\* A tenant in the header, one not registered yet in the body, an aliased
\* address shadowed by a blank body, an address with a late tenant's token,
\* and no tenant at all.
AllEnvelopes == {From("bank_demo", "acme", "none"), From("none", "acme", "none"),
                 From("none", "blank", "bank"), From("none", "none", "bank"),
                 From("none", "none", "acme"), From("none", "none", "none")}
\* A tenant at once, a tenant later, a tenant never.
FewEnvelopes == {From("bank_demo", "none", "none"), From("none", "acme", "none")}

MCWorkers2 == {w1, w2}

Symmetry2  == Permutations(MCWorkers2)
=============================================================================
