SPECIFICATION FairSpec
CONSTANTS
  k1 = k1
  t1 = t1
  t2 = t2
  s1 = s1
  s2 = s2
  s3 = s3
  KeyOf <- MCKeyOf
  Price <- MCPrice
  TopupAmounts = {3}
  MaxCredits = 5
  MaxMoves = 2
  NoTask = NoTask
  Free = Free
  NoRow = NoRow
  NoPrice = NoPrice
  Keys = {k1}
  Tasks = {t1, t2}
  Sessions = {s1, s2, s3}
INVARIANTS TypeOK BalanceInRange LedgerChain ChargedOnce AuditAfterCharge
PROPERTIES LedgerSpec OperationsEnd
