--------------------------- MODULE MCProviderSwitch ---------------------------
(* A small instance of ProviderSwitch for TLC.                                 *)
EXTENDS ProviderSwitch

CONSTANTS a1, a2, p1, p2, s1

\* One agent to the other profile, all agents, and an agent back to the global
\* profile.  The second agent has a profile of its own to begin with, so that
\* a switch of all agents has two targets.
MCRequests == {[agent |-> a1, profile |-> p2], [agent |-> All, profile |-> p2],
               [agent |-> a2, profile |-> Inherit]}
================================================================================
