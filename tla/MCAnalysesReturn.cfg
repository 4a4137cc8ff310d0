CONSTANTS
  r1 = r1  r2 = r2  r3 = r3
  Record <- MCRecord
  Field <- MCField
  Value <- MCValue
  Unset = Unset
  NotString = NotString
  Missing = Missing
  attr <- MCAttr
  at <- MCAt
  Containing <- MCContaining
  MaxPageSize <- MCMaxPageSize
  DefaultPageSize = 1
  DefaultLimit = 2
  AnalysisSize = 3
  CustomSize = 2
  MaxRecords = 2
  IntBits = 5
  Span <- MCSpan
  Day = 3
  Launch = 8
  MaxNow = 9
  Ask <- MCAsk
  Where <- MCWhere
  Conditions <- MCConditions
SPECIFICATION Spec
INVARIANT AnalysesReturn
