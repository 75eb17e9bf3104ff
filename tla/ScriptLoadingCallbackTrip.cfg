SPECIFICATION MCSpec
CONSTANTS
  Scripts = {"Main", "Room", "Color"}
  Main = "Main"
  Files = {"file"}
  Loader = loader
  Workers = {worker}
  TopImports <- MCTopImports
  Imports <- MCImports
  FilesImport = FALSE
  CallbacksImport = FALSE
  PluginsTrip = FALSE
  CallbacksTrip = TRUE
  MaxNesting = 4
  NoEnv = NoEnv
  Uncompiled = Uncompiled
INVARIANT CallbackCannotBlockLoad
