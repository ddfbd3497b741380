\* Two callers of the router and of the key set, three of the IAM resolver.
SPECIFICATION CredSpec
CONSTANTS
  Callers = {c1, c2}
  Resolvers = {r1, r2, r3}
  Lifetimes = {0, 2, 4}
  Buffer = 2
  StsTimeout = 2
  MaxRetries = 2
  BudgetCap = 1
  Refill = 2
  MaxTime = 4
SYMMETRY CredSymmetry
INVARIANTS SpentBounded UnsafeSentOnce NothingDead Dependable Vouched
PROPERTY Disciplined
\* The clocks are bounded.
CHECK_DEADLOCK FALSE
