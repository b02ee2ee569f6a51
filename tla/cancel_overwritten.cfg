SPECIFICATION Spec
CONSTANTS
  t1 = t1
  t2 = t2
  t3 = t3
  w1 = w1
  w2 = w2
  c1 = c1
  c2 = c2
  Task = {t1, t2}
  Worker = {w1, w2}
  Gpu = {0}
  Container = {c1}
  MaxUnits = 2
  UnitCount <- GangUnits
  WorkerOf <- GangWorker
  ContainerOf <- GangContainer
  GpuCount <- GangNeed
  Ticker = {k1}
  Faults = {"cancel", "cancel_race"}
  Qualification = FALSE
  NoTask = NoTask
PROPERTIES
  OutcomesAreFinal
