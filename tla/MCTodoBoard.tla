----------------------------- MODULE MCTodoBoard -----------------------------
(* Small instances of TodoBoard for TLC.                                     *)
EXTENDS TodoBoard, TLC

CONSTANTS c1, c2, a1

Working == [NewCard EXCEPT !.state = "working", !.owner = a1]
Closed  == [Working EXCEPT !.state = "done", !.verified = TRUE, !.proof = TRUE]
Row(c, status) == a1 :> [card |-> c, status |-> status]

\* An empty board; one with a card at work; and one whose closed card had the
\* owner that was then spawned for the other card.
Starts ==
    {[board |-> <<>>, roster |-> Row(c1, "missing")],
     [board |-> (c1 :> Working) @@ (c2 :> NewCard), roster |-> Row(c1, "working")],
     [board |-> (c1 :> Closed) @@ (c2 :> NewCard), roster |-> Row(c2, "working")]}
=============================================================================
