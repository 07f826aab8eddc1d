SPECIFICATION Spec
CONSTANTS
  t1 = t1  t2 = t2  t3 = t3  t4 = t4  t5 = t5
  g1 = g1  g2 = g2  a1 = a1  a2 = a2  s1 = s1  s2 = s2
  Task = {t1, t2}
  App = {a1, a2}
  Callback = Callback
  Group = {g1}
  OrderedGroup = {}
  NoTask = NoTask
  NoGroup = NoGroup
  GroupOf <- PairGroup
  KindOf <- PairKind
  Packets <- PairPackets
  RequiredGroups <- PairRequired
  Program <- PairProgram
  Syncer <- PairSyncer
  Segment = {s1, s2}
PROPERTIES SyncAlwaysReturns
CHECK_DEADLOCK FALSE
