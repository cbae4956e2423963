------------------------------ MODULE UnitsMC ------------------------------
(* Two calls at a time on two units and two usernames.                     *)
EXTENDS Units, TLC

CONSTANTS c1, c2, i1, i2, n1, n2

MCSymmetry == Permutations(Clients) \cup Permutations(Ids)
                \cup Permutations(UserNames)
=============================================================================
