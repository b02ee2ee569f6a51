SPECIFICATION Spec
CONSTANTS
  t1 = t1
  t2 = t2
  t3 = t3
  w1 = w1
  w2 = w2
  c1 = c1
  c2 = c2
  Task = {t1, t2}
  Worker = {w1}
  Gpu = {0, 1}
  Container = {c1, c2}
  MaxUnits = 1
  UnitCount <- GpuUnits
  WorkerOf <- GpuWorker
  ContainerOf <- GpuContainer
  GpuCount <- GpuNeed
  Ticker = {k1}
  Faults = {"cancel", "cancel_race", "early_reconcile", "lost_reply", "time"}
  Qualification = TRUE
  NoTask = NoTask
INVARIANTS
  ExclusiveLeases
  HoldsAreTheDispatchers
  NoTaskForgotten
