CONSTANTS
  Users = {u1}
  Tokens = {t1, t2, t3}
  Calls = {c1, c2}
  Auth = auth
  Reqs = {c1, c2, auth}
  Faults = 1
  NoUser = NoUser
  NoToken = NoToken
SPECIFICATION ClientSpec

PROPERTY ClearedOnlyWhenDead
SYMMETRY Symmetry
\* The pool of tokens and the bound on faults run out.
CHECK_DEADLOCK FALSE
