SPECIFICATION Spec
CONSTANTS
  Raised = Raised
  NoRow = NoRow
  Null = Null
  NoDate = NoDate
  BadDate = BadDate
  Today = 40
  YearDays = 4
  Cases <- MCCases
INVARIANTS TypeOK EachGroupOnItsOwn FailureIsTold SkillsSeeTheirData
  CitationsShowWhatWasSeen FiguresAgree PatternsAreSound ChartIsTheSeries ReadsWhatWasSent
CHECK_DEADLOCK FALSE
