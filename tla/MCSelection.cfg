SPECIFICATION MCSpec
CONSTANTS
  AllClasses = {"string", "generic"}
  Extra = {"missed"}
  Suffix <- MCSuffix
  NoSuffix = "none"
  Own <- MCOwn
  KeyMatch <- GlobMatch
  KeyMeans <- Means
  AnyKey <- MCAnyKey
  Events <- MCEvents
  FilterTexts <- MCFilterTexts
  KeyTexts <- MCKeyTexts
  DbTexts <- MCDbTexts
  Window = 2
  Times <- MCTimes
  MaxSteps = 6
CHECK_DEADLOCK FALSE
INVARIANT CapturedAsConfigured
INVARIANT AcceptedIsSubscribed
INVARIANT LoadFilterAccepted
INVARIANT ReportsExact
