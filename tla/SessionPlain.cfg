SPECIFICATION Spec
CONSTANTS
  alice = alice
  bob = bob
  Requests <- MCTriple
  Users <- MCUsers
  UserOf <- MCTripleUserOf
  GlobalLimit = 2
  PerUserLimit = 1
  OffloadLimit = 1
  Heartbeats = FALSE
  Script <- MCScript
INVARIANT DisconnectCancelsExecution
PROPERTY ImplementsOutcome
