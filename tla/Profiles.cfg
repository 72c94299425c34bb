CONSTANTS
  KL = KL
  MH = MH
  digits = digits
  word = word
  widow = widow
  youth = youth
  local = local
  anyone = anyone
  odd = odd
  Schemes = {widow, youth, local, anyone, odd}
  Attributes = {"is_woman", "is_farmer", "is_govt_employee", "age", "state_code"}
  Kind <- MCKind
  Flags <- MCFlags
  Bounds <- MCBounds
  Source <- MCSource
  Curated <- MCCurated
  Yes = Yes
  No = No
  Numbers = {1, 32, 120, 130, 176}
  Texts = {KL, MH, digits, word}
  Float <- MCFloat
  NaN = NaN
  Unanswered = Unanswered
  Reqs = {r1, r2}
  Storable <- MCStorable
  Updates <- MCUpdates
  Submitted <- MCSubmitted
  Vision <- MCVision
  Documents <- MCDocuments
  Identities = {10}
  StateCodes <- MCStateCodes
  ThisYear = 2026
  None = None
  Found <- MCFound
  Untouched = Untouched
  NoRow = NoRow
SPECIFICATION Spec
INVARIANTS TypeOK VerdictSound VerdictsLast MissingIsEnough RankedNotFiltered
PROPERTIES NamedKeysOnly ReadingsStored
SYMMETRY Symmetry
