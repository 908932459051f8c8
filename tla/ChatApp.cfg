SPECIFICATION Spec
CONSTANTS
  run1 = run1
  run2 = run2
  ask = ask
  NoTitle = NoTitle
  title1 = title1
  title2 = title2
  NoId = NoId
  Starts <- MCStarts
  Asks <- MCAsks
  Titles <- MCTitles
  Slots <- MCSlots
  Script <- MCScript
  Record <- MCRecord
  MaxMoves = 3
INVARIANTS TypeOK ShowsOwnRun HistoryIsStored
PROPERTIES NothingVanishes OnlyLiveSessionsChange PendingEnds
CHECK_DEADLOCK FALSE
