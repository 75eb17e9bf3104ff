---------------------------- MODULE MCScriptLoading ----------------------------
(* Instances of ScriptLoading for TLC: Main.lua, a script a legacy mod imports *)
(* around (Room) and one it does not (Color), one legacy file, one worker, and  *)
(* a record of what mods have done, for the promises that depend on it.         *)
EXTENDS ScriptLoading

\* The legacy mod Top Imports its file before Room, and Imports it after Color.
MCTopImports == [s \in Scripts |-> IF s = "Room" THEN <<"file">> ELSE <<>>]
MCImports    == [s \in Scripts |-> IF s = "Color" THEN <<"file">> ELSE <<>>]

VARIABLES
  reentered,  \* has a callback, a plugin or a legacy file Imported a script?
  tripped     \* has a plugin's main chunk set HAS_CRASHED?

MCInit == Init /\ reentered = FALSE /\ tripped = FALSE

ModCode == At("snapshot") \/ At("pre") \/ At("post") \/ (At("body") /\ Top.chunk \in Files)
MCNext ==
  /\ Next
  /\ reentered' = (reentered \/ (ModCode /\ Len(stack') > Len(stack)))
  /\ tripped' = (tripped \/ (At("snapshot") /\ hasCrashed' /\ ~hasCrashed))

MCSpec == MCInit /\ [][MCNext]_<<vars, reentered, tripped>>

\* As long as only scripts Import scripts: an _ENV staged for one of them is
\* never attached to another (apply_staged_env and the safety net).
EnvStaysUnlessReentered == reentered \/ EnvStaysWithItsScript

\* Unless a plugin's main chunk set it, before the snapshot: HAS_CRASHED is on
\* its way to being cleared, and clear once script loading is over (load_detour).
CrashClearedUnlessPlugins == tripped \/ CrashWillBeCleared
================================================================================
