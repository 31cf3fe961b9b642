\* The clock, the downloads, the answers and the cookies are bounded.
CHECK_DEADLOCK FALSE
SPECIFICATION NetworkSpec
CONSTANTS
  URIs <- MCURIs
  Images <- MCImages
  Controls <- MCControls
  DefaultTime = 2
  Fraction = 2
  MaxNow = 2
  MaxVersion = 2
  MaxOps = 2
  MaxDepth = 2
  Window = 2
  MaxAnswers = 2
  Servers <- MCServers
  TopLevel <- MCTopLevel
  Names = {"x"}
  Kinds <- MCKinds
  Places <- MCPlaces
  Under <- MCUnder
  Lifetimes = {1}
  MaxTime = 2
  MaxValue = 2
INVARIANTS
  TypesKept
  PageIsTheAnswer
  JarIsOnDisk
PROPERTIES
  CopyIsOneAnswer
  CopiesUsedWhileGood
  FlushesEnd
  SavedCookiesSent
