\* Two escrows, two deposits and two jobs contended by two invocations.
SPECIFICATION Spec
CONSTANTS
  e1 = e1  e2 = e2  i1 = i1  i2 = i2  i3 = i3  d1 = d1  d2 = d2
  h1 = h1  h2 = h2  h3 = h3
  j1 = j1  j2 = j2  a1 = a1  a2 = a2  w1 = w1  w2 = w2
  None = None
  EscrowIds = {e1, e2}
  Invocations = {i1, i2}
  Deposits = {d1, d2}
  Paid <- MCPaid
  Hashes = {h1, h2, h3}
  DepositOf <- MCDepositOf
  Jobs = {j1, j2}
  Agents = {a1}
  Amounts = {100}
  Wallets = {w1, w2}
  Sealable <- FailedThenDelivered
  StatusCheck <- WideStatusCheck
SYMMETRY Interchangeable
INVARIANTS
  TypeOK HashFundsOne PaidOnce PaidAgainstDelivery ReleasedMeansPaid LogMatchesChain
PROPERTIES
  MovesForward KeepsPromise
