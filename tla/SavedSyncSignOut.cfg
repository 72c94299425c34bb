CONSTANTS
  Users = {u1, u2}
  Schemes = {s1, s2}
  Ops = {o1, o2}
  Mishaps = 1
  NoUser = NoUser
SPECIFICATION Spec
INVARIANT SignedOutShowsOwn
