SPECIFICATION ScreenSpec
CONSTANTS
  Sites = {"a", "b"}
  MaxHistory = 3
  MaxBookmarks = 1
  PageParts <- MCPageParts
  Images <- MCImages
  Titles = {0, 1}
  BoxWidth = 8
  Screen = 4
  Padding = 1
  Arrow = 1
  MinHandle = 1
  Increment = 2
  Whole = 4
  Documents <- MCDocuments
  WifiIcons = {"NOT_CONNECTED", "CONNECTED"}
  MaxMoves = 2
  MaxChanges = 1
INVARIANT PaintedAsMarked LinkIsFollowed InReadingOrder NeverStuck IconsShowState
PROPERTY EditsAsShown ScreenShowsPage PlaceIsKept SettingsLeaveHistory
CHECK_DEADLOCK FALSE
