----------------------------- MODULE MCBotDelivery -----------------------------
(* Instances of BotDelivery for TLC: requests that replay one input, and a    *)
(* last request that brings the Delivery Key together with another input.     *)
EXTENDS BotDelivery, TLC

CONSTANTS k1, k2, k3, write, otherWrite

SameWrite == [k \in Call |-> write]
Collision == [k \in Call |-> IF k = k3 THEN otherWrite ELSE write]

Symmetry == Permutations(Call) \union Permutations(Operator)

================================================================================
