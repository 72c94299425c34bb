CONSTANTS
  Users = {u1, u2}
  Schemes = {s1}
  Comments = {c1}
  Reqs = {r1, r2, r3}
  NoUser = NoUser
  NoRow = NoRow
SPECIFICATION Spec
INVARIANTS TypeOK CountsExact NoStall
PROPERTIES WithdrawalCloses CountersImplemented
SYMMETRY Symmetry
