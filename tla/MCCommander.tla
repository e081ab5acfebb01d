---------------------------- MODULE MCCommander -----------------------------
(* Instances of Commander for TLC. *)
EXTENDS Commander, FiniteSets, TLC

Symmetry ==
    Permutations(FunctionIds) \cup Permutations(InstanceIds)
        \cup Permutations(RunnerAddrs) \cup Permutations(Requests)

KnownRunners == {r \in RunnerAddrs : runner[r] # "down" \/ r \in registered}
UsedIds == {i \in InstanceIds : life[i] # "fresh"}

\* The bound of the safety run: with one runner and one instance there is room
\* for one of a crash, a second runner and a second instance.
SafetyBound ==
    crashes + Cardinality(KnownRunners) + Cardinality(UsedIds) <= 3
=============================================================================
