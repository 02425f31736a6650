SPECIFICATION Spec
CONSTANTS
  t1 = t1
  poster = poster
  worker = worker
  treasury = treasury
  i1 = i1
  i2 = i2
  None = None
  Tasks <- MCTasks
  Participants <- MCParticipants
  Callers = {poster, worker}
  Treasury = treasury
  ReferredBy <- MCReferredBy
  Rewards = {20}
  Start <- MCStart
  Invocations = {i1}
  MaxWrites <- MCTwoRefunds
INVARIANTS RefundedOnce
CHECK_DEADLOCK FALSE
