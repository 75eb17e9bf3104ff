------------------------------ MODULE LegacyConfig -----------------------------
(* The config.lua of a Content/Mods mod, and the config/<Mod>.cfg the loader    *)
(* keeps for it: snapshot_globals and bind_legacy_config of                     *)
(* src/src/hades1/legacy_config.cpp, called by fire_legacy_imports around the   *)
(* import of that file, and the Config tab of the overlay that edits the .cfg.  *)
(*                                                                              *)
(* A config.lua, named by its source, adds one global table to _G, and so does  *)
(* a script in Libs; the settings of table t are Keys[t]. Where a value comes   *)
(* from is the value: the default of a setting of t is t. A .cfg is a partial   *)
(* function from settings to values. The names of _G come in the order of       *)
(* std::set: t before u if Rank[t] < Rank[u].                                   *)
EXTENDS LegacyMods

CONSTANTS
  Configs,    \* the sources called config.lua
  Libs,       \* the scripts that add a table
  Keys,       \* table -> its settings, those of nested tables too
  Rank,       \* table -> the place of its name in _G
  ImportsIn,  \* config -> the script it Imports while it runs, or NoScript
  NoScript,
  Edited      \* the value a player gives a setting

ASSUME ConfigsAssumption == Configs \subseteq Sources /\ Libs \subseteq Scripts
ASSUME NoScriptAssumption == /\ NoScript \notin Scripts
                            /\ ImportsIn \in [Configs -> Scripts \cup {NoScript}]
ASSUME RankAssumption == Rank \in [Configs \cup Libs -> Nat]

VARIABLES
  tables,    \* the tables in _G: table -> setting -> value
  before,    \* g_globals_before
  running,   \* the config.lua being imported, the innermost last, with what was
             \* in hand when it Imported a script
  files,     \* g_legacy_files: mod -> the settings bound, and the values held
  saved,     \* the .cfg files: mod -> setting -> value
  edits      \* history: the settings the player set, mod -> settings

configVars == <<tables, before, running, files, saved, edits>>
allVars == <<vars, configVars>>

Tables == Configs \cup Libs
Settings == UNION {Keys[t] : t \in Tables}
IsCfg(f) == DOMAIN f \subseteq Settings /\ \A k \in DOMAIN f : f[k] \in Tables \cup {Edited}

ConfigTypeOK ==
  /\ TypeOK
  /\ DOMAIN tables \subseteq Tables
  /\ \A t \in DOMAIN tables : IsCfg(tables[t]) /\ DOMAIN tables[t] = Keys[t]
  /\ before \subseteq Tables
  /\ \A i \in DOMAIN running : running[i].import \in Entry /\ running[i].import.source \in Configs
  /\ DOMAIN files \subseteq DOMAIN saved /\ DOMAIN saved \subseteq Mods
  /\ \A m \in DOMAIN saved : IsCfg(saved[m])
  /\ \A m \in DOMAIN files : IsCfg(files[m].values) /\ files[m].entries \subseteq DOMAIN files[m].values

ConfigInit ==
  /\ Init
  /\ tables = <<>> /\ before = {} /\ running = <<>>
  /\ files = <<>> /\ saved = <<>> /\ edits = [m \in Mods |-> {}]

--------------------------------------------------------------------------------
(* fire_legacy_imports, when the next import is a config.lua *)

Inner == Last(running)
\* The chunk of the innermost config.lua is where the script thread is.
InChunk == running # <<>> /\ Inner.todo = <<>>
SetInner(frame) == running' = Append(Front(running), frame)

\* global_keys: the names in _G now.
Globals == DOMAIN tables
\* Variant: the globals are remembered once, at the first config.lua.
SnapshotOnce == before' = IF before = {} THEN Globals ELSE before
\* snapshot_globals, whatever was remembered before.
SnapshotGlobals == before' = Globals

\* The engine runs a file once in a lua_State (LOADED_SCRIPT_FILES).
Loaded(t) == t \in DOMAIN tables

NextIsConfig == pc = "fire" /\ pending # <<>> /\ Head(pending).source \in Configs \cap exists

\* The import starts; that a config.lua is not imported inside itself is a bound.
ImportConfig ==
  /\ ~InChunk /\ NextIsConfig
  /\ \A i \in DOMAIN running : running[i].import.source # Head(pending).source
  /\ SnapshotGlobals
  /\ fired' = Append(fired, Head(pending))
  /\ pending' = Tail(pending)
  /\ running' = Append(running, [import |-> Head(pending), todo |-> <<>>,
                                  may |-> IF Loaded(Head(pending).source) THEN {} ELSE {"add", "import"},
                                  pending |-> <<>>, fired |-> <<>>, call |-> NoCall])
  /\ UNCHANGED <<world, mods, dir, mod, stack, registered, call, scans, pc, tables, files, saved, edits>>

\* f with v at x.
Put(f, x, v) == [y \in DOMAIN f \cup {x} |-> IF y = x THEN v ELSE f[y]]

Defaults(t) == [k \in Keys[t] |-> t]
\* A file that adds t runs, if it has not yet.
AddTable(t) == tables' = IF Loaded(t) THEN tables ELSE Put(tables, t, Defaults(t))

\* The chunk assigns its table. One that fails ends without.
AddsTable ==
  /\ InChunk /\ "add" \in Inner.may
  /\ AddTable(Inner.import.source)
  /\ SetInner([Inner EXCEPT !.may = @ \ {"add"}])
  /\ UNCHANGED <<vars, before, files, saved, edits>>

NestedScript == ImportsIn[Inner.import.source]
\* load_detour comes to the imports that target the script of the chunk.
FireNested(top) ==
  /\ call' = [script |-> NestedScript, top |-> top]
  /\ pending' = ImportsOf(NestedScript, top)
  /\ fired' = <<>>

\* The chunk Imports a script: load_detour makes the imports that target it
\* before its body and after, and then the chunk goes on.
ImportsScript ==
  /\ InChunk /\ "import" \in Inner.may /\ NestedScript # NoScript
  /\ SetInner([Inner EXCEPT !.may = @ \ {"import"}, !.todo = <<"body", "post", "end">>,
                             !.pending = pending, !.fired = fired, !.call = call])
  /\ FireNested(TRUE)
  /\ UNCHANGED <<world, mods, dir, mod, stack, registered, scans, pc, tables, before, files, saved, edits>>

NestedAt(step) ==
  running # <<>> /\ Inner.todo # <<>> /\ Head(Inner.todo) = step /\ pending = <<>>

\* The engine's own Load, which comes back without reading a script it has loaded.
RunBody(script) == IF script \in Libs THEN AddTable(script) ELSE UNCHANGED tables

NestedBody ==
  /\ NestedAt("body")
  /\ RunBody(NestedScript)
  /\ SetInner([Inner EXCEPT !.todo = Tail(@)])
  /\ UNCHANGED <<vars, before, files, saved, edits>>

NestedPost ==
  /\ NestedAt("post")
  /\ FireNested(FALSE)
  /\ SetInner([Inner EXCEPT !.todo = Tail(@)])
  /\ UNCHANGED <<world, mods, dir, mod, stack, registered, scans, pc, tables, before, files, saved, edits>>

NestedEnd ==
  /\ NestedAt("end")
  /\ pending' = Inner.pending /\ fired' = Inner.fired /\ call' = Inner.call
  /\ SetInner([Inner EXCEPT !.todo = <<>>, !.pending = <<>>, !.fired = <<>>, !.call = NoCall])
  /\ UNCHANGED <<world, mods, dir, mod, stack, registered, scans, pc, tables, before, files, saved, edits>>

--------------------------------------------------------------------------------
(* bind_legacy_config *)

\* find_config_table: the first table, by name, that was not there before.
Added == Globals \ before
ConfigTable == CHOOSE t \in Added : \A u \in Added : Rank[t] <= Rank[u]

\* file_for: the file the loader holds, or what is on disk, read now.
FileFor(m) ==
  IF m \in DOMAIN files THEN files[m]
  ELSE [entries |-> {}, values |-> IF m \in DOMAIN saved THEN saved[m] ELSE <<>>]

\* f, and g where f has nothing.
Over(f, g) == [x \in DOMAIN f \cup DOMAIN g |-> IF x \in DOMAIN f THEN f[x] ELSE g[x]]

\* Variant: the mod's defaults are written over the file.
BindTableOver(t, file) ==
  [entries |-> file.entries \cup DOMAIN tables[t], values |-> Over(tables[t], file.values)]
\* bind_table: every setting gets an entry; a value the file has is kept.
BindTable(t, file) ==
  [entries |-> file.entries \cup DOMAIN tables[t], values |-> Over(file.values, tables[t])]

\* The chunk is over: what it added is bound into the .cfg of the mod, saved,
\* and given back the values the .cfg holds.
BindConfig ==
  /\ InChunk
  /\ running' = Front(running)
  /\ LET m == Inner.import.mod
         t == ConfigTable
         file == BindTable(t, FileFor(m))
     IN IF Added = {} THEN UNCHANGED <<tables, files, saved>>
        ELSE /\ files' = Put(files, m, file)
             /\ saved' = Put(saved, m, file.values)
             /\ tables' = [tables EXCEPT ![t] = [k \in DOMAIN @ |-> file.values[k]]]
  /\ UNCHANGED <<vars, before, edits>>

--------------------------------------------------------------------------------
(* The Config tab, the player, and the process *)

\* draw_config_entry: the entry takes the value, and the file is written at once.
EditInOverlay(m, k) ==
  /\ m \in DOMAIN files /\ k \in files[m].entries /\ files[m].values[k] # Edited
  /\ files' = [files EXCEPT ![m].values[k] = Edited]
  /\ saved' = [saved EXCEPT ![m] = files'[m].values]
  /\ edits' = [edits EXCEPT ![m] = @ \cup {k}]
  /\ UNCHANGED <<vars, tables, before, running>>

\* The player edits the .cfg itself; a loader that holds it will not know.
EditByHand(m, k) ==
  /\ pc = "ready" /\ m \in DOMAIN saved /\ k \in DOMAIN saved[m] /\ saved[m][k] # Edited
  /\ saved' = [saved EXCEPT ![m][k] = Edited]
  /\ edits' = IF m \in DOMAIN files THEN edits ELSE [edits EXCEPT ![m] = @ \cup {k}]
  /\ UNCHANGED <<vars, tables, before, running, files>>

\* The game is closed, or dies, anywhere, and is started again: Content/Mods and
\* the .cfg files are what is left.
Restart ==
  /\ scans < MaxScans
  /\ mods' = <<>> /\ dir' = {} /\ mod' = NewMod(0) /\ stack' = <<>>
  /\ pending' = <<>> /\ registered' = <<>> /\ call' = NoCall /\ fired' = <<>> /\ pc' = "ready"
  /\ tables' = <<>> /\ before' = {} /\ running' = <<>> /\ files' = <<>>
  /\ UNCHANGED <<world, scans, saved, edits>>

\* A wave starts in a new lua_State: what the scripts left in _G is gone.
StartWave == StartScan /\ tables' = <<>> /\ UNCHANGED <<before, running, files, saved, edits>>

\* The imports before a script are followed by its body.
EndOfImports ==
  /\ running = <<>> /\ EndFire
  /\ IF call.top THEN RunBody(call.script) ELSE UNCHANGED tables
  /\ UNCHANGED <<before, running, files, saved, edits>>

ConfigNext ==
  \/ StartWave
  \/ /\ \/ Scan \/ Edit
        \/ \E script \in Scripts, top \in BOOLEAN : Fire(script, top)
        \/ ~InChunk /\ ~NextIsConfig /\ FireNext
     /\ UNCHANGED configVars
  \/ EndOfImports
  \/ ImportConfig \/ AddsTable \/ ImportsScript
  \/ NestedBody \/ NestedPost \/ NestedEnd
  \/ BindConfig
  \/ \E m \in Mods, k \in Settings : EditInOverlay(m, k) \/ EditByHand(m, k)
  \/ Restart

ConfigSpec ==
  /\ ConfigInit /\ [][ConfigNext]_allVars
  /\ WF_allVars(Scan /\ UNCHANGED configVars)

--------------------------------------------------------------------------------
\* What the player set is in the .cfg ("the .cfg authoritative over the mod's own
\* defaults").
EditsKept == \A m \in Mods : \A k \in edits[m] :
  m \in DOMAIN saved /\ k \in DOMAIN saved[m] /\ saved[m][k] = Edited
================================================================================
