SPECIFICATION Spec
CONSTANTS
  t1 = t1  t2 = t2  t3 = t3  t4 = t4  t5 = t5
  g1 = g1  g2 = g2  a1 = a1  q1 = q1  q2 = q2  s1 = s1  s2 = s2
  Task = {t1, t2, t3, t4, t5}
  App = {a1}
  Callback = Callback
  Group = {g1, g2}
  OrderedGroup = {g2}
  NoTask = NoTask
  NoGroup = NoGroup
  GroupOf <- FiveGroupOf
  KindOf <- FiveKindOf
  Requires <- FiveRequires
  Queue = {q1, q2}
  QueueOf <- FiveQueueOf
  Created = {t1}
  Program <- FiveProgram
  Pool <- TwoSignals
INVARIANTS TypeOK BatchesFinished CreatedExact SignalsExclusive DependenciesRespected
PROPERTIES WaitReturns
CONSTRAINT BeforeOverlap
CHECK_DEADLOCK FALSE
