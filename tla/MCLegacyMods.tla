------------------------------ MODULE MCLegacyMods -----------------------------
(* LegacyConfig, and with it LegacyMods, for TLC. Mod 1 has any root of up to    *)
(* two of seven commands, mod 2 one of four roots, and both may Include a file  *)
(* that itself Includes: itself, a folder, or a file that cannot be read. In    *)
(* one world more both mods have a config.lua, and the one of mod 1 Imports the *)
(* script the one of mod 2 is imported for, which adds a table too.             *)
EXTENDS MCLegacyConfig, LegacyMeaning

\* The modfiles: the roots 1 and 2, and the files 3 and 4 they may include.
MCMods == {1, 2}
MCFolder == [i \in {"common", "folder", "lost"} |->
  CASE i = "common" -> {3} [] i = "folder" -> {3, 4} [] i = "lost" -> {5}]

C(cmd, args) == [cmd |-> cmd, args |-> args]
Commands == {C("To", <<"B", "A">>), C("Include", <<"common">>), C("Import", <<"x", "y">>),
             C("TopImport", <<"x">>), C("Replace", <<"y">>), C("Priority", <<90>>),
             C("Priority", <<110>>)}

Roots1 == UNION {[1..n -> Commands] : n \in 0..2}
Roots2 == { <<C("Import", <<"y">>)>>,
            <<C("Priority", <<90>>), C("To", <<"B">>), C("Replace", <<"x">>), C("TopImport", <<"y">>)>>,
            <<C("To", <<"B">>), C("Include", <<"folder">>), C("To", <<>>), C("Import", <<"x">>)>>,
            <<C("Priority", <<90>>), C("Priority", <<>>), C("XML", <<>>), C("Include", <<"lost">>), C("Include", <<"common">>),
              C("SJSON", <<"y">>), C("Replace", <<"x">>)>> }
Commons == { <<C("Import", <<"y">>)>>,
             <<C("Priority", <<80>>), C("Include", <<"common">>), C("Import", <<"x">>)>> }

\* Mod 1 has config1, mod 2 config2; a config.lua is a Top Import.
ConfigWorlds ==
  {<<<<C("TopImport", <<"config1">>)>>, <<C("To", <<"B">>), C("TopImport", <<"config2">>)>> >>}
MCKeys == [t \in {"config1", "config2", "B"} |->
  CASE t = "config1" -> {"k1"} [] t = "config2" -> {"k2"} [] t = "B" -> {"kB"}]
MCRank == [t \in {"config1", "config2", "B"} |->
  CASE t = "config1" -> 3 [] t = "config2" -> 2 [] t = "B" -> 1]
MCImportsIn == [c \in {"config1", "config2"} |-> IF c = "config1" THEN "B" ELSE NoScript]

WorldOf(r1, r2, c) == <<r1, r2, c, <<C("Replace", <<"y">>)>> >>
MCWorlds == {WorldOf(r1, r2, c) : r1 \in Roots1, r2 \in Roots2, c \in Commons}
            \cup {(2 :> <<C("Import", <<"x">>)>>)}
            \cup ConfigWorlds

--------------------------------------------------------------------------------
\* A scan ends, even when a modfile includes itself.
ScanEnds == pc = "dir" ~> pc = "ready"

\* In the worlds with a config.lua the player edits settings, not Content/Mods.
Settled == body \in ConfigWorlds => enabled /\ exists = Named(body)
MCInit == MixedInit /\ Settled
MCNext == MixedNext /\ Settled'
MCSpec == MCInit /\ [][MCNext]_mcVars /\ WF_mcVars(Scan /\ UNCHANGED <<configVars, mixed>>)
================================================================================
