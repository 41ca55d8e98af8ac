--------------------------- MODULE MCTeamSubmissions ---------------------------
(* TLC instance of TeamSubmissions: a message that is posted and edited once.  *)
EXTENDS TeamSubmissions, TLC

CONSTANTS i1, i2, a, b

Symmetry == Permutations({i1, i2}) \union Permutations({a, b})

================================================================================
