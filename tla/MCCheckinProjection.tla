------------------------- MODULE MCCheckinProjection -------------------------
(* TLC instance of CheckinProjection: two invocations by one member, as a     *)
(* button pressed twice starts them, and one by another member.               *)
EXTENDS CheckinProjection, TLC

CONSTANTS
  m1, m2, i1, i2, i3,
  MaxUnderWay   \* bound: invocations under way at once

TwiceAndOnce == i1 :> m1 @@ i2 :> m1 @@ i3 :> m2

UnderWayBound ==
  Cardinality({i \in Invocation : pc[i] \notin {"authorize", "succeeded", "failed"}})
    <= MaxUnderWay

Symmetry == Permutations({i1, i2})

===============================================================================
