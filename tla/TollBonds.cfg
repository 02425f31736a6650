\* One deposit contended by two bonds; what it funds, or an older bond, is
\* slashed by two racing invocations, under one condition or two.
SPECIFICATION Spec
CONSTANTS
  b1 = b1  b2 = b2  i1 = i1  i2 = i2  d1 = d1  h1 = h1  h2 = h2  w1 = w1  w2 = w2
  None = None
  BondIds = {b1, b2}
  Invocations = {i1, i2}
  Deposits = {d1}
  Paid <- MCPaid
  Hashes = {h1, h2}
  DepositOf <- MCDepositOf
  Offers <- MCOffers
  OldOffers <- OneOldOffer
  Triggers <- MCTriggers
  Wallets = {w1}
  Sealable <- BothSealed
SYMMETRY Interchangeable
INVARIANTS
  TypeOK HashFundsOne ReceiptMeansFee
  BalanceBacked SlashIsEvidenced OnePath
