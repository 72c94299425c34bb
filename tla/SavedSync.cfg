CONSTANTS
  Users = {u1, u2}
  Schemes = {s1, s2}
  Ops = {o1, o2, o3}
  Mishaps = 1
  NoUser = NoUser
SPECIFICATION Spec
INVARIANTS TypeOK ScreenFollowsAccount
SYMMETRY MCSymmetry
