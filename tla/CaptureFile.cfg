SPECIFICATION Spec
CONSTANTS
  Volumes <- MCVolumes
  MountedLater <- MCMountedLater
  SystemRoot <- MCSystemRoot
  CurrentSid <- MCSid
  Toolhelp <- MCToolhelp
  KernelModules <- MCKernelModules
  Host <- MCHost
  DefaultHost <- MCDefaultHost
  Versions <- MCVersions
  Numbers <- MCNumbers
  Lower <- MCLower
  Collation <- MCCollation
  ColumnOf <- MCColumnOf
  Aliases <- MCAliases
  FieldOf <- MCFieldOf
  Bins = 3
  Significant <- MCSignificant
  Names <- MCNames
  Seeds = {}
  Launched = {}
  IncludeChildren = TRUE
  Monitors <- MCMonitors
  Wanted <- MCWanted
  OwnPid = 20
  MaxBytes = 40
  Duration = 1
  Sessions <- MCSessions
  Before <- MCBefore
  PendingWindow = 1
  MetaOf <- MCMetaOf
INVARIANTS
  Reopened
  PrefixRefused
  FollowedWritten
  StacksOwn
PROPERTIES
  StopEnds
CHECK_DEADLOCK FALSE
