SPECIFICATION MCSpec
CONSTANTS
  lootPkg = lootPkg
  gamePkg = gamePkg
  modA = modA
  modB = modB
  modC = modC
  Packages <- MCPackages
  GamePackages <- MCGamePackages
  Mods <- MCMods
  Target <- MCTarget
  Order <- MCOrder
  Profiles <- MCProfiles
  MaxVersion = 2
  MayCrash = TRUE
  MayFail = TRUE
  FolderMayGo = TRUE
INVARIANT RecordedUnlessUpset
PROPERTIES GameFilesUntouched OnlyWantedUnlessUpset CurrentUnlessFailed
