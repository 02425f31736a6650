\* One slash, its answer lost, and the client's retry.
SPECIFICATION Spec
CONSTANTS
  b1 = b1  b2 = b2  i1 = i1  i2 = i2  d1 = d1  h1 = h1  h2 = h2  w1 = w1  w2 = w2
  None = None
  BondIds = {b1}
  Invocations = {i1, i2}
  Deposits = {d1}
  Paid <- MCPaid
  Hashes = {h1}
  DepositOf <- OneDepositOf
  Offers <- HalfOffers
  OldOffers <- HalfOffers
  Triggers <- MCTriggers
  Wallets = {w1, w2}
  Sealable <- DisputeSealed
INVARIANT EvidenceSlashesOnce
