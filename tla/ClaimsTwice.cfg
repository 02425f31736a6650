SPECIFICATION Spec
CONSTANTS
  a = a
  b = b
  c = c
  n1 = n1
  n2 = n2
  e1 = e1
  i1 = i1
  i2 = i2
  s1 = s1
  s2 = s2
  c1 = c1
  None = None
  Participants = {a, n1, n2, poster}
  Poster = poster
  Starts <- MCStarts
  Crowd = 0
  Invocations = {i1, i2}
  Code = Code
  MaxRedemptions = 3
  MaxReferrals = 1
  Events = {e1}
  Bought <- MCBought
  Credit = 2
  Amounts = {12}
  Services = {"generate", "priority"}
  Units <- MCUnits
  WarrantCaps = {None, 10}
  MaxCalls <- MCMaxCalls
  Subscriptions = {s1, s2}
  Promotes <- MCPromotes
  Capabilities = {c1}
  MaxWork = 4
  Agents = {a, b, c}
  Author = a
  Mates = {b}
  Roster = {b, c}
  StakeAmounts = {2}
  McpAmounts <- MCMcpAmounts
  Ratings = {1, 5}
  ThreadLimit = 2
  Present <- MCPresent
  MaxBegun = 3
  Workers = {i1, i2}
SYMMETRY Symmetry
INVARIANT
  ResolvedOnce
