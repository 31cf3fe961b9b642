\* A behaviour ends when the user has done MaxOps things.
CHECK_DEADLOCK FALSE
SPECIFICATION FairSpec
CONSTANTS
  a = a
  b = b
  picture = picture
  local = local
  HttpPages <- MCHttpPages
  LocalPages <- MCLocalPages
  Images <- MCImages
  ErrorPage = ErrorPage
  MaxRedirects = 1
  MaxOps = 4
  MaxDepth = 3
INVARIANTS
  TypeInvariant
  SettledWhenIdle
PROPERTIES
  PagesMixOnlyWhenOvertaken
  LoadsSettle
  ImplementsHistory
