---------------------------- MODULE MCTaskLaunch ----------------------------
(* Two launches, for two cards of the project that ask for the memory      *)
(* canary; one forgot its question and is the baseline arm of a comparison *)
EXTENDS TaskLaunch, TLC

CONSTANTS l1, l2, u1, c1, c2

TwoCards ==
    [c \in {c1, c2} |->
        [slug |-> Project, canary |-> TRUE, question |-> c = c1, baseline |-> c = c2]]

Good == [slug |-> Project, secret |-> FALSE, fields |-> "exact", revision |-> 1,
         commands |-> "plain", topK |-> 2, hops |-> 0, url |-> "canary",
         reference |-> "file", enabled |-> TRUE, token |-> TRUE, room |-> 1]

\* A profile that works, with room for one claim and for none, and each way in
\* which a profile fails.
Files ==
    {Good, [Good EXCEPT !.room = 0],
     [Good EXCEPT !.room = -1],
     [Good EXCEPT !.secret = TRUE], [Good EXCEPT !.fields = "unknown"],
     [Good EXCEPT !.revision = 0], [Good EXCEPT !.commands = "shell"],
     [Good EXCEPT !.topK = 4], [Good EXCEPT !.hops = 1],
     [Good EXCEPT !.url = "http-local"], [Good EXCEPT !.url = "http"],
     [Good EXCEPT !.reference = "text"], [Good EXCEPT !.slug = "other"]}

Symmetry == Permutations({l1, l2})
=============================================================================
