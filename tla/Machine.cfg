SPECIFICATION MachineSpec
CONSTANTS
  MaxStarts = 3
  MaxCrashes = 2
  Windows = {w1, w2}
  Schedules = {"off", "daily"}
  Retentions = {3, 14}
  DefaultRetention = 14
  NoFile = NoFile
  TornFile = TornFile
  Down = Down
  MaxSettingFaults = 1
  Askers = {a1, a2, a3}
  Ids = {u1, u2, u3}
  NoIdFile = NoIdFile
  TornIdFile = TornIdFile
  MaxIdFaults = 2
  Updaters = {m1, m2}
  Releases <- MCReleases
  FirstInstalled <- MCFirstInstalled
  NoRelease = NoRelease
  Handlers = {h1, h2}
  Images = {i1, i2}
  NoImage = NoImage
  MaxMediaFaults = 2
  Attempts = {s1, s2, s3}
  LoginKeys = {k2}
  MaxFailures = 2
  LoginWindow = 1
  MaxClock = 4
  SomeDates <- MCSomeDates
  Intervals = {1, 2}
  NoDue = NoDue
  Horizon <- MCHorizon
INVARIANTS MachineTypeOK OfflineWhenStopped PruneOnlyAsConfigured IdentityIsStable DeletedLeavesNothing GuessesAreBounded
PROPERTIES StopNeverUndone PendingSettles SettledScheduleIsFollowed LoneLaunchIsVerified DueIsFirstOnGrid
CHECK_DEADLOCK FALSE
