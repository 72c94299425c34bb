--------------------------- MODULE MCAuthSessions ---------------------------
(* Two requests at a time over two accounts and three tokens: a rotation,    *)
(* the reuse of the rotated token and a second rotation, all overlapping.    *)
EXTENDS AuthSessions, TLC

\* Accounts and request slots are interchangeable; no liveness is checked here.
Symmetry == Permutations(Users) \cup Permutations(Reqs)
=============================================================================
