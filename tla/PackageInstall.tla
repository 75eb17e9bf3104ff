----------------------------- MODULE PackageInstall ----------------------------
(* Installing the packages of Content/Mods into the game's own Content folder:  *)
(* begin_package_install, install_package and finish_package_install            *)
(* (src/src/hades1/legacy_packages.cpp) as scan_legacy_mods calls them          *)
(* (src/src/hades1/legacy_mods.cpp), over launches, waves and crashes.          *)
EXTENDS Naturals, Sequences

CONSTANTS
  Packages,      \* the targets under Content the mods name
  GamePackages,  \* those the game ships
  Mods,          \* each with one package, to keep it short ...
  Target,        \* ... Target[m]
  Order,         \* the mods as scan_legacy_mods sorts them
  Profiles,      \* r2modman profiles: each has a record, all share Content
  MaxVersion,    \* bound on the versions of a mod's package
  MayCrash,      \* may the game die at any step?
  MayFail,       \* may a copy, a removal or opening the record fail?
  FolderMayGo    \* may Content/Mods be deleted, or its loading turned off?

ASSUME ModsAssumption ==
  /\ GamePackages \subseteq Packages
  /\ Target \in [Mods -> Packages]
  /\ Order \in Seq(Mods) /\ Mods = {Order[i] : i \in DOMAIN Order}
  /\ MaxVersion \in Nat \ {0}

\* What a file holds.
None == <<"none">>
Game == <<"game">>
Torn == <<"torn">>                     \* a copy that never finished
Source(m, v) == <<"mod", m, v>>

NoProfile == "none"
ASSUME ProfilesAssumption == NoProfile \notin Profiles

VARIABLES
  content,    \* the game's Content folder
  record,     \* per profile, legacy_packages.txt
  present,    \* the mods in Content/Mods
  version,    \* per mod, the version of its package
  loading,    \* is there a Content/Mods, and is it to be loaded?
  profile,    \* the profile the game runs with
  pc,         \* "off", "scan", "install", "copying", "remove", "write", "done"
  at,         \* the mod scan_legacy_mods has come to
  last,       \* g_installed_last_run
  this,       \* g_installed_this_run
  redirected  \* the mods whose package is redirected instead

outside == <<present, version, loading>>
process == <<profile, pc, at, last, this, redirected>>
vars == <<content, record, outside, process>>

TypeOK ==
  /\ content \in [Packages -> {None, Game, Torn}
                              \cup {Source(m, v) : m \in Mods, v \in 1..MaxVersion}]
  /\ record \in [Profiles -> SUBSET Packages]
  /\ present \subseteq Mods
  /\ version \in [Mods -> 1..MaxVersion]
  /\ loading \in BOOLEAN
  /\ profile \in Profiles \cup {NoProfile}
  /\ pc \in {"off", "scan", "install", "copying", "remove", "write", "done"}
  /\ pc = "off" <=> profile = NoProfile
  /\ at \in 1..Len(Order) + 1 /\ (pc = "copying" => at <= Len(Order))
  /\ {last, this} \subseteq SUBSET Packages
  /\ redirected \subseteq Mods

Init ==
  /\ content = [k \in Packages |-> IF k \in GamePackages THEN Game ELSE None]
  /\ record = [p \in Profiles |-> {}]
  /\ present \in SUBSET Mods
  /\ version = [m \in Mods |-> 1]
  /\ loading = TRUE
  /\ profile = NoProfile /\ pc = "off"
  /\ at = 1
  /\ last = {} /\ this = {} /\ redirected = {}

--------------------------------------------------------------------------------
(* The user and the game.                                                       *)

\* Mods are installed, removed and updated, also while the game runs.
ChangeMods ==
  /\ pc \in {"off", "done"}
  /\ loading' \in IF FolderMayGo THEN BOOLEAN ELSE {TRUE}
  /\ present' \in SUBSET Mods
  /\ \/ UNCHANGED version
     \/ \E m \in Mods : /\ version[m] < MaxVersion
                        /\ version' = [version EXCEPT ![m] = @ + 1]
  /\ UNCHANGED <<content, record, process>>

Launch(p) ==
  /\ pc = "off"
  /\ profile' = p /\ pc' = "scan"
  /\ UNCHANGED <<content, record, outside, at, last, this, redirected>>

\* Every Main.lua scans again.
NextWave ==
  /\ pc = "done"
  /\ pc' = "scan"
  /\ UNCHANGED <<content, record, outside, profile, at, last, this, redirected>>

\* The process ends, with all it knew.
Stop ==
  /\ pc # "off"
  /\ MayCrash \/ pc = "done"
  /\ pc' = "off" /\ profile' = NoProfile
  /\ at' = 1 /\ last' = {} /\ this' = {} /\ redirected' = {}
  /\ UNCHANGED <<content, record, outside>>

--------------------------------------------------------------------------------
(* A scan.                                                                      *)

\* scan_legacy_mods returns early without a folder to load; otherwise
\* begin_package_install reads the record.
Begin ==
  /\ pc = "scan"
  /\ redirected' = {}
  /\ IF loading
     THEN pc' = "install" /\ at' = 1 /\ last' = record[profile] /\ this' = {}
     ELSE pc' = "done" /\ UNCHANGED <<at, last, this>>
  /\ UNCHANGED <<content, record, outside, profile>>

Mod == Order[at]
Key == Target[Mod]
Wanted == Source(Mod, version[Mod])

\* "A file the loader did not put there": there, and not in the record.
Foreign == content[Key] # None /\ Key \notin last

Coming == pc = "install" /\ at <= Len(Order)

\* install_package returned false: the redirect serves the mod's file.
Redirect == redirected' = redirected \cup {Mod} /\ UNCHANGED this
Install  == this' = this \cup {Key} /\ UNCHANGED redirected

SkipAbsent ==
  /\ Coming /\ Mod \notin present
  /\ at' = at + 1
  /\ UNCHANGED <<content, record, outside, profile, pc, last, this, redirected>>

RefuseForeign ==
  /\ Coming /\ Mod \in present /\ Foreign
  /\ Redirect
  /\ at' = at + 1
  /\ UNCHANGED <<content, record, outside, profile, pc, last>>

\* Variant: whatever is there counts as current.
KeepStale ==
  /\ Coming /\ Mod \in present /\ ~Foreign /\ content[Key] # None
  /\ Install
  /\ at' = at + 1
  /\ UNCHANGED <<content, record, outside, profile, pc, last>>
\* needs_copy says no.
KeepCurrent ==
  /\ Coming /\ Mod \in present /\ ~Foreign /\ content[Key] = Wanted
  /\ Install
  /\ at' = at + 1
  /\ UNCHANGED <<content, record, outside, profile, pc, last>>

\* Variant: only the record of this run is consulted.
CopyAnything ==
  /\ Coming /\ Mod \in present /\ Key \notin this /\ content[Key] # Wanted
  /\ content' = [content EXCEPT ![Key] = Torn]
  /\ pc' = "copying"
  /\ UNCHANGED <<record, outside, profile, at, last, this, redirected>>
\* copy_file opens the destination ...
StartCopy ==
  /\ Coming /\ Mod \in present /\ ~Foreign /\ content[Key] # Wanted
  /\ content' = [content EXCEPT ![Key] = Torn]
  /\ pc' = "copying"
  /\ UNCHANGED <<record, outside, profile, at, last, this, redirected>>

\* Variant: an installed package is not noted.
CopyUnnoted ==
  /\ pc = "copying"
  /\ content' = [content EXCEPT ![Key] = Wanted]
  /\ pc' = "install" /\ at' = at + 1
  /\ UNCHANGED <<record, outside, profile, last, this, redirected>>
\* ... and fills it.
FinishCopy ==
  /\ pc = "copying"
  /\ content' = [content EXCEPT ![Key] = Wanted]
  /\ Install
  /\ pc' = "install" /\ at' = at + 1
  /\ UNCHANGED <<record, outside, profile, last>>

FailCopy ==
  /\ MayFail /\ pc = "copying"
  /\ Redirect
  /\ pc' = "install" /\ at' = at + 1
  /\ UNCHANGED <<content, record, outside, profile, last>>

\* finish_package_install.
Finish ==
  /\ pc = "install" /\ at > Len(Order)
  /\ pc' = "remove"
  /\ UNCHANGED <<content, record, outside, profile, at, last, this, redirected>>

\* Variant: the two sets are swapped.
StaleSwapped == {k \in this \ last : content[k] # None}
Stale == {k \in last \ this : content[k] # None}

\* What was installed before and is not wanted now is removed ...
RemoveStale(k) ==
  /\ pc = "remove" /\ k \in Stale
  /\ content' = [content EXCEPT ![k] = None]
  /\ UNCHANGED <<record, outside, process>>

\* ... but for what cannot be. Then the record is opened, which empties it ...
OpenRecord ==
  /\ pc = "remove" /\ (Stale = {} \/ MayFail)
  /\ \/ pc' = "write" /\ record' = [record EXCEPT ![profile] = {}]
     \/ MayFail /\ pc' = "done" /\ UNCHANGED record
  /\ UNCHANGED <<content, outside, profile, at, last, this, redirected>>

\* ... and written.
WriteRecord ==
  /\ pc = "write"
  /\ record' = [record EXCEPT ![profile] = this]
  /\ pc' = "done"
  /\ UNCHANGED <<content, outside, profile, at, last, this, redirected>>

Next ==
  \/ ChangeMods \/ NextWave \/ Stop
  \/ \E p \in Profiles : Launch(p)
  \/ Begin
  \/ SkipAbsent \/ RefuseForeign \/ KeepCurrent
  \/ StartCopy \/ FinishCopy \/ FailCopy
  \/ Finish \/ OpenRecord \/ WriteRecord
  \/ \E k \in Packages : RemoveStale(k)

Spec == Init /\ [][Next]_vars

--------------------------------------------------------------------------------
(* Properties.                                                                  *)

Loaders == {k \in Packages : content[k] \notin {None, Game}}

\* "A file the loader did not put there is never overwritten", nor removed:
\* whatever the mods name, and whenever a crash leaves the record behind.
GameFilesUntouched ==
  [][\A k \in Packages : content[k] = Game => content'[k] = Game]_vars

\* "Everything installed is recorded": between scans, the record of some profile
\* knows every file the loader put there.
EverythingRecorded ==
  pc \in {"off", "done"} => Loaders \subseteq UNION {record[p] : p \in Profiles}
================================================================================
