SPECIFICATION Spec
CONSTANTS
  run_id = "run_1"
  Workflows <- MCWorkflows
  MaxChunks = 1
  MaxCites = 1
INVARIANT SafeStream
