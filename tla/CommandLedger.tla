---------------------------- MODULE CommandLedger ----------------------------
(***************************************************************************)
(* What the control queue promises about side effects, without its         *)
(* journal, handlers and clients.  A person who submits or retries a       *)
(* command grants one permit to run it; every execution spends a permit.   *)
(* Anything may destroy permits (a crash, a lost reply, a failed write):   *)
(* the command then waits for a person.  Nothing else makes one.           *)
(***************************************************************************)
EXTENDS Naturals

CONSTANT Command

VARIABLES
    granted,    \* permits people ever granted, by command
    permits,    \* permits that may still be spent
    ran         \* executions

Init ==
    /\ granted = [c \in Command |-> 0]
    /\ permits = [c \in Command |-> 0]
    /\ ran = [c \in Command |-> 0]

\* Of the permits in p some, all or none are left.
AtMost(p) ==
    /\ permits' \in [Command -> Nat]
    /\ \A c \in Command : permits'[c] <= p[c]

\* The journal write that records a grant may destroy permits of others: it
\* replaces a journal in which they were still queued.
Grant(c) ==
    /\ granted' = [granted EXCEPT ![c] = @ + 1]
    /\ AtMost([permits EXCEPT ![c] = @ + 1])
    /\ UNCHANGED ran

Run(c) ==
    /\ permits[c] > 0
    /\ permits' = [permits EXCEPT ![c] = @ - 1]
    /\ ran' = [ran EXCEPT ![c] = @ + 1]
    /\ UNCHANGED granted

Lose == AtMost(permits) /\ UNCHANGED <<granted, ran>>

Next == Lose \/ \E c \in Command : Grant(c) \/ Run(c)

Spec == Init /\ [][Next]_<<granted, permits, ran>>
=============================================================================
