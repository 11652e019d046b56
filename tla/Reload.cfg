SPECIFICATION FairSpec
CONSTANTS
  r1 = r1
  r2 = r2
  v1 = v1
  q1 = q1
  Reloads <- MCReloads
  Views <- MCViews
  Proxied <- MCProxied
  Bearers <- MCBearers
  Targets <- MCTargets
  HasPath = TRUE
  MaxEdits = 1
  Files <- MCFiles
  Parsed <- MCParsed
  Started <- MCStarted
  Saved <- MCSaved
  Component <- MCComponent
  Lower <- MCLower
  Trimmed <- MCTrimmed
  Oddities <- MCOddities
  Env <- MCEnv
  Readable <- MCReadable
  Loopback <- MCLoopback
  Reserved <- MCReserved
INVARIANTS
  ActiveIsSound
  CopiesAgree
  ViewNotOlder
  AnswersTruthful
  AdminGuarded
  RoutedRight
  ChainExact
PROPERTIES
  RequestsAnswered
CHECK_DEADLOCK FALSE
