SPECIFICATION Spec
CONSTANTS
  Paths = {"a", "b"}
  NoPath = "none"
  OddPath = "odd"
  Starts = {1, 3}
  Texts = {"short", "long", "plus", "huge"}
  Lookalikes = {"plus"}
  Overlong = {"huge"}
  Unchanged = "context"
  Size <- Sizes
  ContextLines = 1
  MaxRead = 6
  HeaderSize <- Headers
  WindowTokens = 4
  SharedTokens = 4
  MinDeepWindowTokens = 3
  MaxWindows = 2
  MaxAddedLines = 3
INVARIANTS Located IndexAgrees WindowsTile WindowsFit OneFilePerWindow CompleteReadsTidyDiffs
CHECK_DEADLOCK FALSE
