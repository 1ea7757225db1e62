CONSTANTS
  AllRemotes <- MCAllRemotes
  MaxDepth = 1
  MaxCalls = 2
  Nothing = Nothing
  Dialogs = {d1, d2}
  Dashboard = Dashboard
  MaxClicks = 2
  MaxFaults = 1
  None = None
SPECIFICATION Spec
PROPERTY StoppedBeforeReplaced
