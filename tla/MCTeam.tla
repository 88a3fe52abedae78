------------------------------- MODULE MCTeam -------------------------------
(* Instances of Team for TLC: the requests a team is given.                *)
EXTENDS Team, TLC

CONSTANTS a, b, c, d

(* `/team run` over every naming of the tasks, with and without --chain.   *)
TeamRuns == {Chained(f) : f \in [Tasks -> Titles]} \cup {Independent(f) : f \in [Tasks -> Titles]}

(* A workflow phase: task ids are distinct, dependencies name others.      *)
PhaseTitles == CHOOSE f \in [Tasks -> Titles] : \A t, u \in Tasks : f[t] = f[u] => t = u
Phases == [title : {PhaseTitles}, after : [Tasks -> SUBSET Titles]]

AllRequests == TeamRuns \cup Phases

(* The caps: max_subagents and max_activations.                            *)
Caps(S, A) == [spawns : S, activations : A]

TightAndLoose == Caps({0, 3, 4, 9}, {2, 9})
=============================================================================
