----------------------------- MODULE TaskRouting -----------------------------
(***************************************************************************)
(* bin/task_routing.py: which model a worker of an owner task gets, and    *)
(* which one after a failure.  A worker is spawned with a decision that    *)
(* route_task derives from its TaskSpec and the policy of the moment; the  *)
(* decision is frozen in a receipt.  Later the operator may edit the       *)
(* policy, and next_route steps the frozen decision up under the policy    *)
(* of that moment, without the TaskSpec.                                   *)
(*                                                                         *)
(* Tiers economy, standard, strong, the task classes simple,               *)
(* implementation, critical and the risks low, medium, high are 1, 2, 3.   *)
(* 0 stands for a hint that is not given and for no tier.  The processes   *)
(* around a step are RoutingEscalation's; identities, digests and the      *)
(* syntax of the fields are left out.                                      *)
(***************************************************************************)
EXTENDS Naturals, FiniteSets, FiniteSetsExt

CONSTANTS
    Model,
    Absent,     \* a limit that the policy leaves to its defaults
    Policies,   \* bound: the policies an operator writes
    TaskSpecs,  \* bound: the task specifications
    Failure,    \* what a worker reports
    Backend     \* what a caller may name as backend

Tier  == 1..3
Class == 1..3
Risk  == 1..3
Signal == {"critical", "implementation", "simple"}
Escalatable == {"verification_failed", "implementation_blocked",
                "model_capability_insufficient"}

Limits == [cap : Tier \cup {Absent}, attempts : Nat \cup {Absent},
           escalations : Nat \cup {Absent}]
Policy == [models : [Tier -> Model], ranks : [Tier -> Nat], tier : Tier,
           defaults : Limits, allowed : SUBSET Model, project : Limits]
TaskSpec == [signals : SUBSET Signal, class : {0} \cup Class, risk : {0} \cup Risk,
             maxTier : {0} \cup Tier, structural : BOOLEAN]

ASSUME InputAssumption == Policies \subseteq Policy /\ TaskSpecs \subseteq TaskSpec
ASSUME AbsentAssumption == Absent \notin Nat

Larger(a, b)  == IF a >= b THEN a ELSE b
Smaller(a, b) == IF a <= b THEN a ELSE b

-----------------------------------------------------------------------------
(***************************************************************************)
(* The policy.                                                             *)
(***************************************************************************)

Given(value, default) == IF value = Absent THEN default ELSE value

Cap(p)         == Given(p.project.cap, p.defaults.cap)
Attempts(p)    == Given(p.project.attempts, p.defaults.attempts)
Escalations(p) == Given(p.project.escalations, p.defaults.escalations)

ValidLimits(cap, attempts, escalations) ==
    /\ cap \in Tier /\ attempts \in Nat \ {0} /\ escalations \in Nat
    /\ escalations <= attempts - 1

ValidPolicy(p) ==
    /\ p.ranks[1] > 0 /\ p.ranks[1] < p.ranks[2] /\ p.ranks[2] < p.ranks[3]
    /\ \A s, t \in Tier : s /= t => p.models[s] /= p.models[t]
    /\ ValidLimits(p.defaults.cap, p.defaults.attempts, p.defaults.escalations)
    /\ p.tier <= p.defaults.cap
    /\ p.allowed /= {} /\ p.allowed \subseteq {p.models[t] : t \in Tier}
    /\ ValidLimits(Cap(p), Attempts(p), Escalations(p))

Permitted(p, t, ceiling) == t <= ceiling /\ p.models[t] \in p.allowed

NextTier(p, t, ceiling) ==
    IF t + 1 \in Tier /\ Permitted(p, t + 1, ceiling) THEN t + 1 ELSE 0

-----------------------------------------------------------------------------
(***************************************************************************)
(* _classify: the strongest signal in the text, which hints may only       *)
(* raise; several commands to verify raise the risk by one.                *)
(***************************************************************************)

SignalClass(s) ==
    IF "critical" \in s.signals THEN 3 ELSE IF "implementation" \in s.signals THEN 2 ELSE 1

\* Mutant: an explicit class replaces what the text says.
TaskClassHint(s) == IF s.class = 0 THEN SignalClass(s) ELSE s.class

TaskClass(s) == Larger(SignalClass(s), s.class)

TaskRisk(s) ==
    LET hinted == Larger(TaskClass(s), s.risk)
    IN  IF s.structural THEN Smaller(hinted + 1, 3) ELSE hinted

Desired(s, p) ==
    LET ranked == Larger(TaskClass(s), TaskRisk(s))
    IN  IF s.signals = {} THEN Larger(ranked, p.tier) ELSE ranked

Ceiling(s, p) == IF s.maxTier = 0 THEN Cap(p) ELSE Smaller(Cap(p), s.maxTier)

-----------------------------------------------------------------------------
(***************************************************************************)
(* Decisions.                                                              *)
(***************************************************************************)

Reason == {"tier_ceiling", "task_tier_ceiling", "model_allowlist_floor", "manual_model"}
Decision == [class : Class, risk : Risk, tier : Tier, model : Model,
             selection : {"automatic", "manual", "automatic_escalation"},
             reasons : SUBSET Reason, maxAttempts : Nat, maxEscalations : Nat,
             attempts : Nat, escalations : Nat, next : {0} \cup Tier]
None == <<>>

\* canonical_decision_bytes: what a receipt must satisfy to be written or read.
Canonical(d) ==
    /\ d.maxEscalations <= d.maxAttempts - 1
    /\ d.attempts \in 1..d.maxAttempts
    /\ d.escalations <= Smaller(d.maxEscalations, d.attempts - 1)

\* The tiers that _automatic_tier may choose from: from the desired one, or
\* the ceiling below it, up to the ceiling.
Candidates(s, p) ==
    {t \in Smaller(Desired(s, p), Ceiling(s, p))..Ceiling(s, p) :
        Permitted(p, t, Ceiling(s, p))}

Reasons(s, p, t, manual) ==
    {r \in Reason :
        \/ r = "task_tier_ceiling" /\ s.maxTier /= 0 /\ s.maxTier < Cap(p)
        \/ r = "manual_model" /\ manual
        \/ r = "tier_ceiling" /\ ~ manual /\ Ceiling(s, p) < Desired(s, p)
        \/ r = "model_allowlist_floor" /\ ~ manual
                /\ t /= Smaller(Desired(s, p), Ceiling(s, p))}

Decide(s, p, t, manual) ==
    [class |-> TaskClass(s), risk |-> TaskRisk(s), tier |-> t, model |-> p.models[t],
     selection |-> IF manual THEN "manual" ELSE "automatic",
     reasons |-> Reasons(s, p, t, manual),
     maxAttempts |-> Attempts(p), maxEscalations |-> Escalations(p),
     attempts |-> 1, escalations |-> 0, next |-> NextTier(p, t, Ceiling(s, p))]

Automatic(s, p) ==
    IF Candidates(s, p) = {} THEN {} ELSE {Decide(s, p, Min(Candidates(s, p)), FALSE)}
Manual(s, p, m) ==
    {Decide(s, p, t, TRUE) : t \in {u \in Tier : p.models[u] = m /\ Permitted(p, u, Ceiling(s, p))}}

\* What route_task and next_route return: one decision, or none.
RouteTask(s, p, requested) ==
    IF ~ ValidPolicy(p) THEN {}
    ELSE IF requested = Absent THEN Automatic(s, p) ELSE Manual(s, p, requested)

\* Mutant: the last attempt of the budget is not counted.
BudgetedLax(d, p) ==
    /\ d.attempts <= Smaller(d.maxAttempts, Attempts(p))
    /\ d.escalations <= Smaller(d.maxEscalations, Escalations(p))

\* Mutant: only the budget frozen in the receipt counts.
BudgetedFrozen(d, p) == d.attempts < d.maxAttempts /\ d.escalations < d.maxEscalations

Budgeted(d, p) ==
    /\ d.attempts < Smaller(d.maxAttempts, Attempts(p))
    /\ d.escalations < Smaller(d.maxEscalations, Escalations(p))

Expected(d, p) == NextTier(p, d.tier, Cap(p))

\* Mutant: the step does not ask which tier the receipt announced.
NextRouteAny(d, p) ==
    IF /\ ValidPolicy(p) /\ Canonical(d)
       /\ p.models[d.tier] = d.model /\ d.model \in p.allowed
       /\ Budgeted(d, p)
       /\ Expected(d, p) /= 0
    THEN {[d EXCEPT !.tier = Expected(d, p), !.model = p.models[Expected(d, p)],
                    !.selection = "automatic_escalation",
                    !.attempts = @ + 1, !.escalations = @ + 1,
                    !.next = NextTier(p, Expected(d, p), Cap(p))]}
    ELSE {}

NextRoute(d, p) ==
    IF /\ ValidPolicy(p) /\ Canonical(d)
       /\ p.models[d.tier] = d.model /\ d.model \in p.allowed
       /\ Budgeted(d, p)
       /\ Expected(d, p) /= 0 /\ d.next = Expected(d, p)
    THEN {[d EXCEPT !.tier = Expected(d, p), !.model = p.models[Expected(d, p)],
                    !.selection = "automatic_escalation",
                    !.attempts = @ + 1, !.escalations = @ + 1,
                    !.next = NextTier(p, Expected(d, p), Cap(p))]}
    ELSE {}

\* resolve_backend: the one named, else Codex when a provider profile is bound;
\* nothing for an unsupported name or when neither is there.
Backends(explicit, bound) ==
    {b \in {"codex", "claude"} : IF explicit = Absent THEN bound /\ b = "codex" ELSE b = explicit}

-----------------------------------------------------------------------------

VARIABLES
    policy,     \* run/routing-policy.json
    task,       \* the TaskSpec of the worker
    decision    \* the receipt of the worker, or None

routingVars == <<policy, task, decision>>

RoutingInit == policy \in Policies /\ task \in TaskSpecs /\ decision = None

EditPolicy == policy' \in Policies /\ UNCHANGED <<task, decision>>

\* The spawn of a worker for the task, perhaps with a model asked for.  Only
\* Codex workers are routed.
SpawnRouted ==
    /\ decision = None
    /\ \E explicit \in Backend \cup {Absent}, bound \in BOOLEAN :
        "codex" \in Backends(explicit, bound)
    /\ \E requested \in {Absent} \cup Model :
        \E d \in RouteTask(task, policy, requested) : Canonical(d) /\ decision' = d
    /\ UNCHANGED <<policy, task>>

Escalate ==
    /\ decision /= None
    /\ \E f \in Failure \cap Escalatable : \E d \in NextRoute(decision, policy) : decision' = d
    /\ UNCHANGED <<policy, task>>

\* The worker is gone; the task may get another one.
Retire ==
    /\ decision /= None
    /\ decision' = None /\ UNCHANGED <<policy, task>>

RoutingNext == EditPolicy \/ SpawnRouted \/ Escalate \/ Retire
RoutingSpec == RoutingInit /\ [][RoutingNext]_routingVars

-----------------------------------------------------------------------------

\* The decision is a record that its reader accepts, and neither route_task nor
\* next_route ever makes one that write_decision refuses after the fact.
RoutingTypeOK ==
    /\ policy \in Policies /\ task \in TaskSpecs
    /\ decision /= None => decision \in Decision /\ Canonical(decision)
    /\ \A d \in RouteTask(task, policy, Absent) : Canonical(d)

\* A worker chosen automatically is as strong as the text of its task, the
\* hints and the verification demand, unless the receipt says that a ceiling
\* cut it: hints raise the demand and never lower it.  And the ceiling a task
\* was given holds up to the first step up, whatever the policy became.
Demand(s) ==
    Max({SignalClass(s), s.class, s.risk} \cup
        (IF s.structural THEN {Smaller(Max({SignalClass(s), s.class, s.risk}) + 1, 3)} ELSE {}))
RouteFitsTask ==
    decision /= None =>
        /\ decision.selection = "automatic" =>
            \/ decision.tier >= Demand(task)
            \/ "tier_ceiling" \in decision.reasons
        /\ task.maxTier /= 0 /\ decision.escalations <= 1 =>
            decision.tier <= task.maxTier

\* Whenever a worker gets a model, at the spawn or by a step up, the policy of
\* that moment allows the model and its tier; a step leads to the next tier
\* and stays in the budget of the receipt and of that policy.
EveryRouteIsAllowed ==
    [][ decision' /= decision /\ decision' /= None =>
            /\ decision'.model = policy.models[decision'.tier]
            /\ decision'.model \in policy.allowed /\ decision'.tier <= Cap(policy)
            /\ decision /= None =>
                /\ decision'.tier = decision.tier + 1
                /\ decision'.attempts <= Smaller(decision.maxAttempts, Attempts(policy))
                /\ decision'.escalations
                     <= Smaller(decision.maxEscalations, Escalations(policy)) ]_routingVars

=============================================================================
