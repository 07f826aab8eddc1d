SPECIFICATION Spec
CONSTANTS
  t1 = t1  t2 = t2  t3 = t3  t4 = t4
  k1 = k1  k2 = k2  g1 = g1  g2 = g2  a1 = a1  a2 = a2
  Task = {t1, t2, t3}
  App = {a1, a2}
  Callback = cb
  Group = {g1}
  OrderedGroup = {g1}
  Kernel = {k1, k2}
  ArgKernel = {}
  Signal = {s1, s2}
  NoTask = NoTask
  NoSignal = NoSignal
  Callers <- AnyApp
  GroupOf <- InOneGroup
  KindOf <- MixedKind
  KernelOf <- InK1
  SegmentCount <- OneSegment
  Packets <- OnePacket
  Requires <- AfterT1
  Created = {t1}
  Synchronous = {}
INVARIANTS ResourcesExclusive OrderedListExact EnqueueOrder TasksRunOnce
PROPERTIES StatesAdvance SubmittedComplete
