SPECIFICATION Spec
CONSTANTS
  t1 = t1
  t2 = t2
  t3 = t3
  w1 = w1
  w2 = w2
  c1 = c1
  c2 = c2
  Task = {t1, t2}
  Worker = {w1}
  Gpu = {0, 1}
  Container = {c1, c2}
  MaxUnits = 1
  UnitCount <- GpuUnits
  WorkerOf <- GpuWorker
  ContainerOf <- GpuContainer
  GpuCount <- GpuNeed
  Ticker = {k1, k2}
  Faults = {}
  Qualification = FALSE
  NoTask = NoTask
INVARIANTS
  ExclusiveLeases
