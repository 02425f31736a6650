\* A holder revokes while a renewal is between its two writes.
SPECIFICATION Spec
CONSTANTS
  a1 = a1  a2 = a2  t1 = t1  t2 = t2  t3 = t3  c1 = c1  c2 = c2
  i1 = i1  i2 = i2
  None = None
  Agents = {a1}
  LongLived = {}
  Claims = {"L1"}
  Tokens = {t1, t2, t3}
  Chains = {c1}
  Invocations = {i1, i2}
CHECK_DEADLOCK FALSE
SYMMETRY Alike
INVARIANT RevokeKillsChain
