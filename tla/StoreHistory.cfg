SPECIFICATION Spec
CONSTANTS
  run1 = run1
  run2 = run2
  ann = ann
  ben = ben
  NoTitle = NoTitle
  RunIds <- MCRunIds
  Clients <- MCClients
  CiteIds <- MCOneCite
  MaxCrashes = 1
INVARIANTS TypeOK ColumnsAgree CitationsFollowRun DeletedOnce
PROPERTY ImplementsShelf
