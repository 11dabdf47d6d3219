--------------------------- MODULE MCMemoryComparison ---------------------------
(* Two pairs in the two orders, a controller, and an operator's window.     *)
EXTENDS MemoryComparison

MCPlan == <<[alias |-> "exact", order |-> <<"baseline", "memory">>],
            [alias |-> "contradiction", order |-> <<"memory", "baseline">>]>>
MCGold == [exact |-> [allowed |-> {"a"}, rejected |-> {}, decision |-> "d", commands |-> {"t"}],
           contradiction |-> [allowed |-> {"a"}, rejected |-> {"r"}, decision |-> "d",
                              commands |-> {"t"}]]

R(w, c, v) == [worker |-> w, card |-> c, conversation |-> v]
MCResource == {R(1, 1, 1), R(2, 2, 2), R(2, 3, 1), R(3, 3, 3), R(4, 4, 4)}
MCOffered == [s \in Slot |->
    CASE s = <<"exact", "baseline">> -> {R(1, 1, 1)}
      [] s = <<"exact", "memory">> -> {R(2, 2, 2), R(2, 3, 1)}
      [] s = <<"contradiction", "memory">> -> {R(3, 3, 3)}
      [] OTHER -> {R(4, 4, 4)}]

E(d, sel, rej, bad) == [decision |-> d, selected |-> sel, rejected |-> rej,
                        ran |-> {"t"}, passed |-> {"t"}, violations |-> bad]
MCAnswers == [s \in Slot |->
    CASE s = <<"exact", "baseline">> -> {E("d", {"a", "r"}, {}, FALSE)}
      [] s = <<"exact", "memory">> -> {E("d", {"a"}, {}, FALSE), E("d", {"a"}, {"a"}, FALSE)}
      [] s = <<"contradiction", "memory">> -> {E("d", {"a"}, {"r"}, FALSE)}
      [] OTHER -> {E("d", {}, {"r"}, FALSE)}]

Ops == {"initialize", "start_arm", "submit_result", "cleanup", "complete_pair",
        "complete_run", "abort"}
MCAsks == [controller |-> Ops \ {"abort"}, operator |-> Ops]
=============================================================================
