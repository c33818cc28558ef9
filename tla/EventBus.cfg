SPECIFICATION LiveSpec
CONSTANTS
  Jobs = {j1, j2}
  AsyncJobs = {j1}
  Workers = 2
  Capacity = 2
  MaxEvents = 2
  PollBatch = 2
  MaxProgress = 2
  NoJob = NoJob
CHECK_DEADLOCK FALSE
INVARIANTS
  TypeOK
  CriticalKept
  GetJobSeesNoGap
PROPERTY FinishReported
