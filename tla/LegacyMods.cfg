\* Two mods, two included modfiles, two sources, two scripts, two waves.
CONSTANTS
  Mods <- MCMods
  Worlds <- MCWorlds
  Folder <- MCFolder
  Sources = {"x", "y", "config1", "config2"}
  Scripts = {"A", "B"}
  DefaultTarget = "A"
  DefaultPriority = 100
  MaxDepth = 2
  MaxScans = 2
  Configs = {"config1", "config2"}
  Libs = {"B"}
  Keys <- MCKeys
  Rank <- MCRank
  ImportsIn <- MCImportsIn
  NoScript = NoScript
  Edited = "edited"
SPECIFICATION MCSpec
INVARIANTS ConfigTypeOK AppliesAsModImporter DeclaresAll CfgHoldsOwnTable
PROPERTIES PlayersEditWins ScanEnds
CHECK_DEADLOCK FALSE
