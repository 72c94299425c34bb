-------------------------- MODULE MCInteractions ---------------------------
(* Three requests that may overlap anywhere, on the rows two users and one   *)
(* comment have in one scheme: a row toggled twice, a comment deleted twice, *)
(* and a third request that waits for the counter of either.                 *)
EXTENDS Interactions, TLC

Symmetry == Permutations(Users) \cup Permutations(Reqs)
=============================================================================
