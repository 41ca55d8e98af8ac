----------------------------- MODULE MCRolloutGate -----------------------------
(* Instance of RolloutGate for TLC: a workspace gate that two operators change *)
(* and a global gate that a third one changes, one invocation in the workspace *)
(* that is evaluated twice.                                                    *)
EXTENDS RolloutGate, TLC

CONSTANTS workspaceGate, globalGate, inside, q1, q2, c1, c2, c3

OneInvocation == [q \in Request |-> inside]
TwoGates == [c \in Change |-> IF c = c3 THEN globalGate ELSE workspaceGate]
MCCandidates == [i \in Invocation |-> <<workspaceGate, globalGate>>]

Symmetry == Permutations(Request) \union Permutations(Change \ {c3})

================================================================================
