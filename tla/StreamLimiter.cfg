SPECIFICATION Spec
CONSTANTS
  alice = alice
  bob = bob
  Leases <- MCLeases
  Users <- MCUsers
  UserOf <- MCUserOf
  GlobalLimit = 3
  PerUserLimit = 2
INVARIANTS TypeOK CountersExact
PROPERTY ImplementsPool
