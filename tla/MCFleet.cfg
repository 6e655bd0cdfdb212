CONSTANTS
  Workers <- OneWorker
  MaxJobs = 3
  BreakerFailures = 2
  MaxRestarts = 2
  MaxResets = 3
SPECIFICATION FairSpec
INVARIANTS ProbeTracked
PROPERTIES TripsOnVerdicts NeverStranded
