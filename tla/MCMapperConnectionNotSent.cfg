CONSTANTS
  r1 = r1
  r2 = r2
  m1 = m1
  k1 = k1
  k2 = k2
  None = None
  Sub <- MCSmallSub
  Mutation <- MCMutation
  Socket <- MCSocket
  MaxBacklog = 1
  MaxWaiting = 1
SPECIFICATION Spec
INVARIANTS
  NotSentProvesNothingAccepted
