SPECIFICATION FairSpec
CONSTANTS
  c1 = c1
  k1 = k1
  r1 = r1
  s1 = s1
  s2 = s2
  none = none
  Customers <- OneCustomer
  Amounts <- UnitAmounts
  Refs <- OneRef
  NoRef = none
  Keys <- OneKey
  NoKey = none
  Sessions <- TwoSessions
  NoSession = none
  MaxEntries = 2
INVARIANTS BalanceMatchesLedger IdempotencyKeyUnique AckedIsPosted
PROPERTIES ImplementsAtomicLedger CallsReturn
