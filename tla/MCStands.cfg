SPECIFICATION Spec
CONSTANTS
  p1 = p1
  p2 = p2
  p3 = p3
  w1 = w1
  w2 = w2
  k1 = k1
  req = req
  Keys = {k1}
  KeyOf <- MCKeyOf
  ReqOf <- MCReqOf
  Price <- MCPrice
  Credits <- MCCredits
  NoReq = NoReq
  NoMsg = NoMsg
  Posts = {p1}
  Workers = {w1, w2}
  Callbacks = {p1}
  MaxRetries = 1
  Faults = {"crash"}
  MaxFaults = 1
SYMMETRY Symmetry
INVARIANTS StandsOrRefunded
CHECK_DEADLOCK FALSE
