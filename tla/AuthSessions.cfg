CONSTANTS
  Users = {u1, u2}
  Tokens = {t1, t2, t3}
  Reqs = {r1, r2}
  NoUser = NoUser
  NoToken = NoToken
SPECIFICATION Spec
INVARIANTS TypeOK ChainSound ReuseKillsAll StallsAreSweeps
PROPERTIES DeactivationCloses SessionsImplemented
SYMMETRY Symmetry
\* Every request is refused once the pool of tokens is used up.
CHECK_DEADLOCK FALSE
