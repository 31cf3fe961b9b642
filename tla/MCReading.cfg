CHECK_DEADLOCK FALSE
SPECIFICATION ReadingSpec
CONSTANTS
  Archives <- MCArchives
  Trees <- MCTrees
  Space = 4
  MaxPresses = 2
  MaxToggles = 2
  MaxTokens = 5
  Fuel = 12
  LongestName = 4
  Pages <- MCForms
  Texts = {"x", "x&y"}
  Special = {"x&y"}
INVARIANTS
  PageIsRead
  TreeIsSound
  TextIsKept
  FormIsSent
  LinksLeadThere
  UnzippedAsChosen
PROPERTIES
  SettingsAreTheUsers
