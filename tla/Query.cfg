SPECIFICATION Spec
CONSTANTS
  Volumes <- MCVolumes
  MountedLater <- MCMountedLater
  SystemRoot <- MCSystemRoot
  CurrentSid <- MCSid
  Toolhelp <- MCToolhelp
  KernelModules <- MCKernelModules
  Host <- MCHost
  DefaultHost <- MCDefaultHost
  Versions <- MCVersions
  Numbers <- MCNumbers
  Lower <- MCLower
  Collation <- MCCollation
  ColumnOf <- MCColumnOf
  Aliases <- MCAliases
  FieldOf <- MCFieldOf
  Bins = 3
  MaxField = 1
  MaxQueryLimit = 100
  Budget = 7
  Significant <- MCSignificant
  Mapping <- MCMapping
  File <- MCFile
  Captured <- MCCaptured
  LiveTable <- MCLiveTable
  Atoms <- MCAtoms
  Label <- MCLabel
  MaxParts = 3
  Limit = 2
  Pids = {1, 2, 3}
  MaxItems = 4
INVARIANTS
  ParsesBack
  PagesPartition
  SubsetFaithful
  ViewsAgree
CHECK_DEADLOCK FALSE
