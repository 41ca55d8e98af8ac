---------------------------- MODULE MCRoomOrderClaims ----------------------------
(***************************************************************************)
(* TLC instance of RoomOrderClaims.                                        *)
(***************************************************************************)
EXTENDS RoomOrderClaims, TLC

CONSTANTS
  s1, s2, p1, p2, n1, n2,
  MaxStarted   \* bound: invocations under way or ended in a behaviour

StartedBound == Cardinality({i \in Invocation : pc[i] # "claim"}) <= MaxStarted

(* Invocations of one workflow are interchangeable.                        *)
Symmetry == Permutations(Sender) \union Permutations(Pinner) \union Permutations(Navigator)

=============================================================================
