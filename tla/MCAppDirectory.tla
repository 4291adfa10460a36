--------------------------- MODULE MCAppDirectory ---------------------------
(* TLC instances of AppDirectory: the names of promotions and deletions.   *)
EXTENDS AppDirectory, TLC

CONSTANTS p1, p2, d1, d2

(* Promotions, like deletions, differ only in their names.                 *)
NameSymmetry == Permutations(Promos) \cup Permutations(Dels)
=============================================================================
