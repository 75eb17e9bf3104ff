---------------------------- MODULE MCPackageInstall ---------------------------
(* PackageInstall for TLC: two mods bring the same new package, a third        *)
(* replaces one of the game's; two profiles, crashes and failures; and a record *)
(* of what has happened, for the promises that depend on it.                    *)
EXTENDS PackageInstall

CONSTANTS lootPkg, gamePkg, modA, modB, modC

MCPackages     == {lootPkg, gamePkg}
MCGamePackages == {gamePkg}
MCMods         == {modA, modB, modC}
MCTarget       == [m \in MCMods |-> IF m = modC THEN gamePkg ELSE lootPkg]
MCOrder        == <<modA, modC, modB>>
MCProfiles     == {"default", "second"}

VARIABLES
  crashed,  \* has the game died inside a scan?
  failed,   \* has a copy, a removal or opening the record failed?
  skipped,  \* has a scan found nothing to load?
  first     \* the only profile launched so far; NoProfile after a second one

MCInit ==
  Init /\ crashed = FALSE /\ failed = FALSE /\ skipped = FALSE /\ first \in Profiles

MCNext ==
  /\ Next
  /\ crashed' = (crashed \/ (pc \notin {"off", "done"} /\ pc' = "off"))
  /\ failed' = (failed \/ FailCopy \/ (OpenRecord /\ (Stale # {} \/ pc' = "done")))
  /\ skipped' = (skipped \/ (pc = "scan" /\ pc' = "done"))
  /\ first' = IF profile' \in {NoProfile, first} THEN first ELSE NoProfile

MCSpec == MCInit /\ [][MCNext]_<<vars, crashed, failed, skipped, first>>

\* "Everything installed is recorded", unless a scan died or failed: each file
\* the loader put into Content is in the record of some profile.
RecordedUnlessUpset == crashed \/ failed \/ EverythingRecorded

\* With one profile, no crash or failure, and Content/Mods in place: a scan
\* leaves no package of a mod that has since been removed.
OnlyWantedUnlessUpset ==
  [][pc # "done" /\ pc' = "done" =>
       \/ crashed' \/ failed' \/ skipped' \/ first' = NoProfile
       \/ \A k \in Loaders' : \E m \in present : Target[m] = k]_vars

\* Unless something failed, and whatever crashes and profiles came before: after
\* a scan a mod's package is served in its current version, or redirected, or
\* another mod owns the file.
CurrentUnlessFailed ==
  [][pc = "write" /\ pc' = "done" =>
       \/ failed'
       \/ \A m \in present :
            \/ m \in redirected
            \/ \E n \in present : /\ Target[n] = Target[m]
                                  /\ content[Target[m]] = Source(n, version[n])]_vars
================================================================================
