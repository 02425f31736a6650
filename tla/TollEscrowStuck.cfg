\* The CHECK constraint of schema.sql.
SPECIFICATION FairSpec
CONSTANTS
  e1 = e1  e2 = e2  i1 = i1  i2 = i2  i3 = i3  d1 = d1  d2 = d2
  h1 = h1  h2 = h2  h3 = h3
  j1 = j1  j2 = j2  a1 = a1  a2 = a2  w1 = w1  w2 = w2
  None = None
  EscrowIds = {e1}
  Invocations = {i1, i2}
  Deposits = {d1}
  Paid <- OnePaid
  Hashes = {h1}
  DepositOf <- OneDepositOf
  Jobs = {j1}
  Agents = {a1}
  Amounts = {100}
  Wallets = {w1}
  Sealable <- OneDelivered
  StatusCheck <- RepoStatusCheck
PROPERTY DeliveredIsPaid
