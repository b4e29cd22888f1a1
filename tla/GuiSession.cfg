SPECIFICATION Spec
CONSTANTS
  Fold <- MCFold
  MinBatch = 2
  DefaultRules <- MCDefaultRules
  Bins = 2
  TopNames = 2
  MaxRows = 2
  ChannelCap = 2
  DrainMax = 2
  LiveFeed <- MCLiveFeed
  Files <- MCFiles
  FirstConfig <- MCFirst
  Configs <- MCConfigs
  Images <- MCImages
  Units <- MCUnits
  Searches <- MCSearches
  DialogRules <- MCDialogRules
  QuickActions <- MCQuickActions
  MaxOps = 3
INVARIANT SessionTrue
INVARIANT SummariesTrue
PROPERTY BookmarksStay
PROPERTY FileShown
CHECK_DEADLOCK FALSE
