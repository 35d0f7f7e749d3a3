SPECIFICATION Spec
CONSTANTS
  Keys = {1, 2, 3, 4, 5}
  Finding <- Reports
  Labels = {1, 2}
  MaxRaw = 4
  Configs <- SomeConfigs
  Samples = {5}
  MatchSize <- MatchSizes
  ContextSize <- ContextSizes
  LabelSize = 5
  RenderPerFinding = 2
  MaxMatchChars = 30
  TruncMark = 4
INVARIANTS OrderIndependent HandledOnce CallsFit
CHECK_DEADLOCK FALSE
