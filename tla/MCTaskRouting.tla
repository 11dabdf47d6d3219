----------------------------- MODULE MCTaskRouting -----------------------------
(* Every task specification; policies that differ in what a step depends on.   *)
EXTENDS TaskRouting

CONSTANTS luna, terra, sol

Names == <<luna, terra, sol>>
P(tier, cap, attempts, escalations, allowed, project) ==
    [models |-> Names, ranks |-> <<1, 2, 3>>, tier |-> tier,
     defaults |-> [cap |-> cap, attempts |-> attempts, escalations |-> escalations],
     allowed |-> allowed, project |-> project]
Own(cap, attempts, escalations) ==
    [cap |-> cap, attempts |-> attempts, escalations |-> escalations]
Nothing == Own(Absent, Absent, Absent)
All == {luna, terra, sol}

MCPolicies ==
    {P(1, 2, 2, 1, All, Nothing),              \* as shipped
     P(2, 3, 3, 2, All, Nothing),
     P(1, 3, 1, 0, All, Nothing),               \* no step up
     P(1, 2, 2, 1, All, Own(3, 3, 2)),
     P(1, 3, 3, 2, {luna, sol}, Own(Absent, 2, Absent)),    \* invalid: 2 steps, 2 attempts
     P(1, 3, 3, 2, {luna, sol}, Own(Absent, Absent, 1)),
     P(1, 3, 3, 2, {terra, sol}, Own(2, 2, 1)),
     [P(2, 3, 3, 2, All, Nothing) EXCEPT !.models = <<luna, sol, terra>>],
     [P(2, 3, 3, 2, All, Nothing) EXCEPT !.ranks = <<1, 3, 2>>]}
MCTaskSpecs == TaskSpec
=============================================================================
