CONSTANTS
  a1 = a1
  a2 = a2
  q1 = q1
  s1 = s1
  alarm1 = alarm1
  Query <- MCQuery
  Alarm <- MCAlarm
  Stream <- MCStream
  AlarmOf <- MCAlarmOf
  Shared = Shared
  MaxSession = 1
  MaxToken = 3
  MaxChallenges = 3
SPECIFICATION ApisSpec
CHECK_DEADLOCK FALSE
INVARIANTS
  ShownIsNewest
  AlarmAskedOnce
  SocketsUseSession
PROPERTIES
  LoginEnds
  QueriesEnd
