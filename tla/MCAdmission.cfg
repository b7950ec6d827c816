SPECIFICATION Spec
CONSTANTS
  h1 = h1
  h2 = h2
  key = key
  u1 = u1
  NoKey = NoKey
  Handlers = {h1, h2}
  Ids = {key, u1}
  Keys = {key}
  Chains <- MCChains
  Limit <- MCLimit
  Window = 4
  MaxLag = 2
  MaxClock = 8
  MaxRequests = 3
  Dates = {2, 9}
  MaxEdits = 2
SYMMETRY Symmetry
INVARIANTS TypeOK TwiceAtMost RefusedForRecent ExpiredForCause
PROPERTIES ShutStaysShut
CHECK_DEADLOCK FALSE
