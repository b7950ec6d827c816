SPECIFICATION ReportSpec
CONSTANTS
  k1 = k1
  t1 = t1
  t2 = t2
  s1 = s1
  s2 = s2
  KeyOf <- MCKeyOf
  Price <- MCPrice
  TopupAmounts = {3}
  MaxCredits = 5
  MaxMoves = 3
  NoTask = NoTask
  Free = Free
  NoRow = NoRow
  NoPrice = NoPrice
  NoDate = NoDate
  Keys = {k1}
  Tasks = {t1, t2}
  Sessions = {s1, s2}
  MaxReports = 1
  Limit = 2
  Periods <- MCPeriods
  CreatedAt <- MCCreatedAt
SYMMETRY Symmetry
INVARIANTS ReportTypeOK Explained
