SPECIFICATION LiveSpec
CONSTANTS
  Jobs = {j1, j2}
  AsyncJobs = {j1, j2}
  Workers = 2
  Capacity = 1
  MaxEvents = 1
  PollBatch = 1
  MaxProgress = 1
  NoJob = NoJob
CHECK_DEADLOCK FALSE
PROPERTY FinishReported
