CONSTANTS
  MaxRetries = 1
  MaxCalls = 2
SPECIFICATION Spec
INVARIANTS PipelineTypeOK ArchivedOnlyValid StagedWhenNeeded Settled
PROPERTY ResultsStay
CHECK_DEADLOCK FALSE
