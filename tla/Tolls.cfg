SPECIFICATION Spec
CONSTANTS
  merchant = merchant
  agent = agent
  w1 = w1
  w2 = w2
  g1 = g1
  p1 = p1
  p2 = p2
  d1 = d1
  d2 = d2
  r1 = r1
  r2 = r2
  sb = sb
  None = None
  Workers = {w1, w2}
  Payers = {merchant, agent}
  Customers = {merchant}
  FreeCalls = 1
  Months = 2
  MaxCalls = 2
  Grants = {g1}
  Terms <- MCTerms
  Actions = {"pay", "other"}
  Amounts = {2}
  SigningKeys = {k1, k2}
  FirstKey = k1
  MaxAge = 1
  MaxChecks = 2
  Payments = {p1, p2}
  Worth <- MCWorth
  Funded = {p1}
  HopAmounts <- MCHopAmounts
  MaxHops = 3
  LockAmounts = {99, 199, 250}
  Partials = {0, 1, 197, 198}
  DisputeFee = 5
  Disputes = {d1, d2}
  Budgets <- MCBudgets
  Categories = {"x", "y"}
  Charges = {1, 2}
  MaxClock = 3
  Riders = {r1, r2, sb}
  Claims <- MCClaims
  WindowLimits <- MCWindowLimits
  ListLimit = 2
  Stale = 1
  DoorCalls <- MCMaxCalls
  MaxTime = 2
  Ttls = {2, 9}
  MaxTtl = 4
  Margin = 1
  MaxSeconds = 4
  Hashes = {d1, d2}
  Processes = {s1, s2}
  First = s1
  MaxMinted = 3
  Spenders = {merchant, agent}
  MaxCents = 2
  MaxUntil = 2
  MaxNarrowings = 2
  AgentIds = {n1, n2, n3}
  MaxAliases = 2
  RegisteredIds = {n1, n3}
  Walkers = {s1}
  MaxRemints = 2
  MaxDms = 2
SYMMETRY Symmetry
INVARIANTS
  Types
  CallsKeep
  GrantHolds
  HopPaidOnce
  PlansBalance
  RevokedIsRefused
  ClientKeeps
  RegistryAgrees
  HistoryKept
