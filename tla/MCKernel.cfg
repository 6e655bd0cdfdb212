CONSTANTS
  Jobs <- ThreeJobs
  Ring = 2
  Startup = 1
  Service <- OneOrTwo
  WorkerCount = 2
  SetSlots = 2
  QueueCap = 1
  MaxThrows = 1
SPECIFICATION FairSpec
INVARIANTS NothingStranded
PROPERTIES LifecycleSpec RetiresIdle ShutdownEnds
