SPECIFICATION Spec
CONSTANTS
  alice = alice
  bob = bob
  Requests <- MCPair
  Users <- MCUsers
  UserOf <- MCPairUserOf
  GlobalLimit = 2
  PerUserLimit = 1
  OffloadLimit = 1
  Heartbeats = TRUE
  Script <- MCScript
INVARIANT DisconnectCancelsExecution
