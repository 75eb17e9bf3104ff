SPECIFICATION MCSpec
CONSTANTS
  MaxStates = 3
  HooksFirst = FALSE
  MayAbandon = TRUE
  Resolved = TRUE
  Folders = {"a", "b"}
  Keys = {1, 27, 45, 87}
  MouseButtons = {1}
  Insert = 45
  Escape = 27
  Plugins = {"a", "b"}
  MaxWrapped = 2
INVARIANTS OrderlyManager RomIgnoredUnlessLate SandboxFollowsList
PROPERTIES DestroyedWhileOpen PickedKeyIsFresh UnloadedListRight
CHECK_DEADLOCK FALSE
