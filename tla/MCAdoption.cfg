CHECK_DEADLOCK FALSE
SPECIFICATION ReadingSpec
CONSTANTS
  Archives <- MCArchives
  Trees <- MCTrees
  Space = 4
  MaxPresses = 2
  MaxToggles = 2
  MaxTokens = 5
  Pages <- MCForms
  Texts = {"x"}
  Special = {}
  Fuel = 12
  LongestName = 4
INVARIANTS
  BookmarkIsFound
