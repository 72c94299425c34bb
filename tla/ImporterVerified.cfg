CONSTANTS
  s1 = s1
  s2 = s2
  s3 = s3
  earlier = earlier
  later = later
  goat = goat
  Schemes = {s1, s2, s3}
  Words = {goat}
  Name <- MCName
  Files = {earlier, later}
  Records <- MCRecords
  farm = farm
  loan = loan
  Terms <- MCTerms
  BatchSize = 2
  Runs = {r1, r2}
  Absent = Absent
  Manual = Manual
  NoSlug = NoSlug
SPECIFICATION Spec
PROPERTIES NeverClobbered
CHECK_DEADLOCK FALSE
