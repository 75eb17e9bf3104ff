SPECIFICATION MCFairSpec
CONSTANTS
  Render = Render
  Script = Script
  NoThread = NoThread
  MaxTasks = 2
  CloseButton = TRUE
  ScriptToggles = TRUE
  ModCallbacks = TRUE
  Waves = TRUE
INVARIANTS FreezeFollowsOverlay MouseUnlessUnseen
PROPERTIES WindowOnOneManager ThawsUnlessButton
