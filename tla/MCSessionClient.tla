--------------------------- MODULE MCSessionClient --------------------------
(* Two screens calling the API with one account on one device, up to three   *)
(* tokens: a sign-in and two rotations, or two sign-ins and a rotation.      *)
EXTENDS SessionClient, TLC

Symmetry == Permutations(Calls)
=============================================================================
