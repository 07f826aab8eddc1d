SPECIFICATION Spec
CONSTANTS
  t1 = t1  t2 = t2  t3 = t3  t4 = t4  t5 = t5
  g1 = g1  g2 = g2  a1 = a1  a2 = a2  s1 = s1  s2 = s2
  Task = {t1, t2, t3, t4, t5}
  App = {a1}
  Callback = Callback
  Group = {g1, g2}
  OrderedGroup = {g2}
  NoTask = NoTask
  NoGroup = NoGroup
  GroupOf <- MixedGroup
  KindOf <- MixedKind
  Packets <- MixedPackets
  RequiredGroups <- MixedRequired
  Program <- MixedProgram
  Syncer <- MixedSyncer
  Segment = {s1}
INVARIANTS TypeOK SegmentsExclusive HandlerComes TaskCountExact SyncedFinished
PROPERTIES SyncReturns
CHECK_DEADLOCK FALSE
