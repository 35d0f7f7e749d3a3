SPECIFICATION Spec
CONSTANTS
  Paths = {"a"}
  NoPath = "none"
  OddPath = "odd"
  Starts = {1}
  Texts = {"short", "huge"}
  Lookalikes = {}
  Overlong = {"huge"}
  Unchanged = "context"
  Size <- Sizes
  ContextLines = 1
  MaxRead = 5
  HeaderSize <- Headers
  WindowTokens = 4
  SharedTokens = 4
  MinDeepWindowTokens = 3
  MaxWindows = 0
  MaxAddedLines = 0
INVARIANTS CompleteCoversDiff
CHECK_DEADLOCK FALSE
