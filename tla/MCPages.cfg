CONSTANTS
  AllRemotes <- MCAllRemotes
  MaxDepth = 1
  MaxCalls = 3
  Nothing = Nothing
  Dialogs = {d1, d2}
  Dashboard = Dashboard
  MaxClicks = 3
  MaxFaults = 1
  None = None
SPECIFICATION FairSpec
INVARIANTS
  PickSendsWhatIsNamed
  ArmedPairMatches
  LiveWasAgreed
PROPERTIES
  ScheduledIsArmed
  FilesChangeUnarmed
  WaitsEnd
