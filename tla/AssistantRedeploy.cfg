SPECIFICATION Spec
CONSTANTS
  farmer = farmer
  pension = pension
  housing = housing
  Threads = {t1, t2}
  stopwords = stopwords
  Queries = {farmer, pension, housing, stopwords}
  Wordless = {stopwords}
  Popular <- MCPopular
  SearchTTL = 2
  MaxSize = 1
  Evict = 2
  MaxClock = 2
  MaxBegun = 3
  Messages = {hello}
  Limit = 1
  ReplyTTL = 2
  Fallbacks = 1
  Models = 2
  Attempts = 2
  Day = 2
  NoReply = NoReply
INVARIANTS SlotsWithinLimit
CHECK_DEADLOCK FALSE
SYMMETRY MCSymmetry
