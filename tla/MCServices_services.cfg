SPECIFICATION Spec
CONSTANTS
  a1 = a1  a2 = a2  h1 = h1  h2 = h2  h3 = h3  h4 = h4  x = x  y = y
  b1 = b1  b2 = b2  b3 = b3  t1 = t1  t2 = t2  t3 = t3  t4 = t4  t5 = t5
  r1 = r1  r2 = r2  c1 = c1  c2 = c2  c3 = c3  d1 = d1  k1 = k1  k2 = k2
  g1 = g1  g2 = g2
  App = {a1, a2}
  Copy = {t1, t2, t3, t4, t5}
  Programs <- AllPrograms
  Plain = {h1, h2, h3, h4}
  Pointer = {x, y}
  Block = {b1, b2, b3}
  Junk = Junk
  Dest <- DestOf
  Src <- SrcOf
  Requires <- RequiresOf
  Groupable = {t4, t5}
  Instance = {r1, r2, c1, c2, c3, d1}
  Host = Host
  Parent <- ParentOf
  TaskOf <- TaskOfInstance
  Kernel = {k1, k2}
  KernelOf <- KernelOfInstance
  QueueSize = 2
  MaxSegments = 2
  GroupName = {g1, g2}
  MaxKernelTypes = 3
  l1 = l1  l2 = l2
  KernelLaunch = {l1, l2}
  GpuCount = 2
  ImplicitSize = 4
  GridSize = 2
  NoKernel = NoKernel
  NoMachine = NoMachine
INVARIANTS TypeOK CopiesDelivered TrackerExact LaunchesCovered ArgumentsArrive RuntimeUsable MachineUsable
PROPERTIES CallsReturn
CONSTRAINT BeforeOverlap
CHECK_DEADLOCK FALSE
