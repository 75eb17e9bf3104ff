\* Two mods, nine files of which any may be there, seven requests.
CONSTANTS
  Mods <- MCMods
  Files <- MCFiles
  Lower <- MCLower
  Requests <- MCRequests
  Symbol = TRUE
SPECIFICATION FilesSpec
INVARIANT PairsFromOneMod
PROPERTY ServesWhatModsOffer
