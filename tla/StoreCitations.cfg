SPECIFICATION Spec
CONSTANTS
  run1 = run1
  run2 = run2
  ann = ann
  ben = ben
  NoTitle = NoTitle
  RunIds <- MCOneRun
  Clients <- MCClients
  CiteIds <- MCCiteIds
  MaxCrashes = 0
INVARIANT CitationsMatch
