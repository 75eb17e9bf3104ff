SPECIFICATION MCSpec
CONSTANTS
  Scripts = {"Main", "Room", "Color"}
  Main = "Main"
  Files = {"file"}
  Loader = loader
  Workers = {worker}
  TopImports <- MCTopImports
  Imports <- MCImports
  FilesImport = TRUE
  CallbacksImport = TRUE
  PluginsTrip = TRUE
  CallbacksTrip = TRUE
  MaxNesting = 4
  NoEnv = NoEnv
  Uncompiled = Uncompiled
INVARIANTS TypeOK DepthIsNesting StagedEnvHasOwner WorkersGetNothing
INVARIANTS EnvStaysUnlessReentered CrashClearedUnlessPlugins
