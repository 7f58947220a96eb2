CONSTANTS
  r1 = r1
  r2 = r2
  m1 = m1
  k1 = k1
  k2 = k2
  None = None
  Sub <- MCSub
  Mutation <- MCMutation
  Socket <- MCSocket
  MaxBacklog = 1
  MaxWaiting = 1
SPECIFICATION Spec
SYMMETRY Symmetry
INVARIANTS
  MutationSentAtMostOnce
  NeverStranded
  FrameReachesSender
  NoConsumerHangs
  OutageAnnounced
PROPERTIES
  ReadsSurviveOutage
  ImplementsDelivery
