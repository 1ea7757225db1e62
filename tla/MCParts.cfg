CONSTANTS
  Items = {a, b, c, d}
  MaxCap <- MCMaxCap
  Home <- MCHome
  SystemDirs <- MCSystemDirs
  SecretHosts = {":s3,secret:"}
  NoBackup = NoBackup
  Sources <- MCSources
  Destinations <- MCDestinations
  Backups <- MCBackups
  CustomFlags <- MCFlags
  Toggled = {"checksum", "resync"}
  MaxEdits = 3
  LinksBefore <- MCBefore
  LinksAfter <- MCAfter
  Demo <- MCDemo
  NoJob = NoJob
  MaxMounts = 2
  MountPoints <- MCMountPoints
  MountLinks <- MCMountLinks
  MaxUnmounts = 2
  MaxLines = 3
  MaxEvents = 1
  MaxStarts = 2
  OldLogs <- MCOldLogs
  Processes = {"p", "q"}
  QueueJobs = {"a"}
  MaxRuns = 2
  MaxWindows = 2
  MaxStartups = 3
  MaxFailures = 1
  NoProcess = NoProcess
  Shown = {"scheduler", "form", "mounts", "log", "startup"}
SPECIFICATION PartsSpec
INVARIANTS
  TypeOK
  SlotsAccounted
  NoDuplicates
  CommandMeansForm
  ContainmentIsWarned
  StoredJobReturns
  UnaskedIsHarmless
  RunningHasRow
  NoKeyMaterial
  OnlyKeysSwallowed
  LiveLogKept
  LoneStartOpensStore
  RunRowsTrue
  NoSecretsServed
PROPERTIES
  NoOvertaking
  StartsFillSlots
  MountRowEnds
CHECK_DEADLOCK FALSE
