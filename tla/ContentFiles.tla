------------------------------ MODULE ContentFiles -----------------------------
(* The files ReturnOfModding plugins put in plugins_data in place of the game's *)
(* own: the assets, known by their bare name (hades1/plugin_data_files.cpp),    *)
(* and the .sjson overlays, known by the path they stand for                    *)
(* (hades1/sjson_overlay.cpp). They are indexed once, beside the starting game, *)
(* and served where the engine assembles a path (fsAppendPathComponent).        *)
(*                                                                              *)
(* A file is a record: its mod, whether it is under the mod's overlay folder,   *)
(* what its extension makes of it, its bare name, the path it would stand for,  *)
(* and whether its full path is too long for the engine's buffer.               *)
EXTENDS FiniteSets

CONSTANTS
  Mods, Files,
  Lower,     \* name -> the name in lower case
  Requests,  \* what the engine assembles: [leaf, path], path "" outside Content
  Symbol     \* is fsAppendPathComponent in the symbol map?

ASSUME SymbolAssumption == Symbol \in BOOLEAN

Own == [mod |-> "game"]   \* the game's own file

VARIABLES
  disk,      \* the files there are, of those whose status can be read
  assets,    \* g_assets: bare name -> file
  index,     \* g_path_index: lower-case path -> file
  walk,      \* files recursive_directory_iterator has still to yield
  seen,      \* history: the files the walk that is for them has come to
  mod,       \* the mod whose folder it is in
  hooked,    \* is fsAppendPathComponent hooked?
  asked,     \* the last path the engine assembled
  served,    \* and what it opens there
  scanPc

scan == <<disk, assets, index, walk, seen, mod, scanPc>>
fileVars == <<scan, hooked, asked, served>>

NoMod == "none"
NoRequest == [leaf |-> "", path |-> ""]

FilesInit ==
  /\ disk \in SUBSET Files
  /\ assets = <<>> /\ index = <<>> /\ walk = {} /\ seen = {}
  /\ mod = NoMod /\ hooked = FALSE
  /\ asked = NoRequest /\ served = Own
  /\ scanPc = "start"

\* map, with f at key.
Put(map, key, f) == [k \in DOMAIN map \cup {key} |-> IF k = key THEN f ELSE map[k]]

--------------------------------------------------------------------------------
(* scan_plugin_data_files, on late_init's thread *)

\* Without a plugins_data, or one that can be looked at, there is nothing to do.
Start ==
  /\ scanPc = "start"
  /\ \/ walk' = disk /\ scanPc' = "assets"
     \/ scanPc' = "done" /\ UNCHANGED walk
  /\ UNCHANGED <<disk, assets, index, seen, mod, hooked, asked, served>>

\* Variant: the walk does not stay in a mod's folder until it is done.
EnterAny(f) == TRUE
\* The walk yields the folder of one mod after the other, in any order.
Enter(f) == f.mod = mod \/ \A g \in walk : g.mod # mod

\* Variant: the overlay folder is swept up too.
IsAssetAnywhere(f) == f.ext = "asset"
\* Overlay folders are left to the other index; of the rest, what the engine opens.
IsAsset(f) == ~f.overlay /\ f.ext = "asset"

\* A later file takes over a name.
ScanAsset(f) ==
  /\ scanPc = "assets" /\ f \in walk /\ Enter(f)
  /\ assets' = IF IsAsset(f) THEN Put(assets, f.leaf, f) ELSE assets
  /\ walk' = walk \ {f}
  /\ seen' = IF f.overlay THEN seen ELSE seen \cup {f}
  /\ mod' = f.mod
  /\ UNCHANGED <<disk, index, hooked, asked, served, scanPc>>

\* it.increment(ec) fails: an iterator with an error is at its end, so the loop is
\* over, without the warning in its body, and the scan goes on to the hook.
BreakAssets ==
  /\ scanPc = "assets" /\ walk # {}
  /\ walk' = {}
  /\ UNCHANGED <<disk, assets, index, seen, mod, hooked, asked, served, scanPc>>

EndAssets ==
  /\ scanPc = "assets" /\ walk = {}
  /\ walk' = disk
  /\ mod' = NoMod
  /\ scanPc' = "overlays"
  /\ UNCHANGED <<disk, assets, index, seen, hooked, asked, served>>

\* scan_one_mod: the .sjson files of the overlay folder.
IsOverlay(f) == f.overlay /\ f.ext = "sjson"
\* register_file: the first file to name a path keeps it. A path the game does not
\* have is taken all the same, with a warning.
Registered(f) == IF Lower[f.path] \in DOMAIN index THEN index ELSE Put(index, Lower[f.path], f)

ScanOverlay(f) ==
  /\ scanPc = "overlays" /\ f \in walk /\ Enter(f)
  /\ index' = IF IsOverlay(f) THEN Registered(f) ELSE index
  /\ walk' = walk \ {f}
  /\ seen' = IF f.overlay THEN seen \cup {f} ELSE seen
  /\ mod' = f.mod
  /\ UNCHANGED <<disk, assets, hooked, asked, served, scanPc>>

\* The same of scan_one_mod's walk, which loses the rest of its mod, and of
\* scan_all_plugin_data's, between two mods, which loses all that are left.
BreakOverlays ==
  /\ scanPc = "overlays"
  /\ \/ \E f \in walk : /\ Enter(f)
                        /\ walk' = {g \in walk : g.mod # f.mod}
                        /\ mod' = f.mod
     \/ walk # {} /\ (\A g \in walk : g.mod # mod) /\ walk' = {} /\ mod' = mod
  /\ UNCHANGED <<disk, assets, index, seen, hooked, asked, served, scanPc>>

EndOverlays ==
  /\ scanPc = "overlays" /\ walk = {}
  /\ mod' = NoMod
  /\ scanPc' = "hook"
  /\ UNCHANGED <<disk, assets, index, walk, seen, hooked, asked, served>>

\* install_append_path_hook, if there is anything to serve; it may be refused.
InstallHook ==
  /\ scanPc = "hook"
  /\ hooked' \in {FALSE, Symbol /\ DOMAIN assets \cup DOMAIN index # {}}
  /\ scanPc' = "done"
  /\ UNCHANGED <<disk, assets, index, walk, seen, mod, asked, served>>

--------------------------------------------------------------------------------
(* append_path_detour, on the engine's file threads *)

\* The engine's buffer holds 512 bytes: a longer path is refused.
Fits(f) == IF f.long THEN Own ELSE f

Lookup(key) == IF key \in DOMAIN index THEN Fits(index[key]) ELSE Own
\* The path after the last "Content/", in lower case.
SubstituteOverlay(r) == IF r.path = "" THEN Own ELSE Lookup(Lower[r.path])
\* The bare name first, as it is spelled.
Substitute(r) ==
  IF ~hooked THEN Own
  ELSE IF r.leaf \in DOMAIN assets THEN Fits(assets[r.leaf])
  ELSE SubstituteOverlay(r)

AppendPath(r) ==
  /\ asked' = r
  /\ served' = Substitute(r)
  /\ UNCHANGED <<scan, hooked>>

FilesNext ==
  \/ Start \/ BreakAssets \/ EndAssets \/ BreakOverlays \/ EndOverlays \/ InstallHook
  \/ \E f \in walk : ScanAsset(f) \/ ScanOverlay(f)
  \/ \E r \in Requests : AppendPath(r)

FilesSpec == FilesInit /\ [][FilesNext]_fileVars
================================================================================
