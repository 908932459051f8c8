SPECIFICATION FairSpec
CONSTANTS
  run_id = "run_1"
  Workflows <- MCWorkflows
  MaxChunks = 2
  MaxCites = 2
INVARIANTS TypeOK ToldIsPersisted StreamReconciles UnfailedIsWholeAndGrounded CloseLeavesNoHalf
PROPERTIES ImplementsOutcome EndsTold
