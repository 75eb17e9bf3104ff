\* Two game threads, two exports of which the system has one, and the PDBs of MCPdbs.
CONSTANTS
  Games = {g1, g2}
  Exports = {"CreateDevice", "OpenAdapter10"}
  Provided = {"CreateDevice"}
  Pdbs <- MCPdbs
  Options = {"UseAnalytics", "EnableLuaMessageHook", "AudioMemoryPoolSize"}
  MaxAttaches = 2
SPECIFICATION MCSpec
INVARIANTS LandsHomeUnlessRaced HooksDegradeAlone PatchesOwned
PROPERTY ComesUp
CHECK_DEADLOCK FALSE
