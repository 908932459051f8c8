SPECIFICATION Spec
CONSTANTS
  run_id = "run_1"
  Workflows <- MCFundamental
  MaxChunks = 1
  MaxCites = 1
INVARIANT AuditedWasAudited
