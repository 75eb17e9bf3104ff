----------------------------- MODULE ScriptLoading -----------------------------
(* The detours the loader puts around the engine's script loading:            *)
(* ScriptManager::Load (load_detour) and luaL_loadbufferx (loadbufferx_detour) *)
(* of src/src/hades1/script_hook.cpp, with the staged _ENV of                  *)
(* src/src/lua_extensions/lua_manager_extension.cpp and the imports of         *)
(* Content/Mods that src/src/hades1/legacy_mods.cpp fires from inside Load.    *)
(*                                                                             *)
(* Load nests: a script Imports others while its own Load is in progress.  The *)
(* calls in progress on the loading thread are a stack of frames, of two       *)
(* kinds: a "detour" frame is a call of load_detour, an "engine" frame a call  *)
(* of the engine's own Load (which load_detour makes once, and                 *)
(* load_game_script makes for every file a legacy mod imports).                *)
EXTENDS Naturals, Sequences, FiniteSets

CONSTANTS
  Scripts,         \* scripts of the game's Content/Scripts
  Main,            \* Main.lua, the first script of every wave
  Files,           \* Lua files of the mods in Content/Mods
  Loader,          \* the thread that loads scripts
  Workers,         \* threads that compile Lua outside any Load
  TopImports,      \* script -> the files imported before it ("Top Import")
  Imports,         \* script -> the files imported after it ("Import")
  FilesImport,     \* may a legacy file Import scripts itself?
  CallbacksImport, \* may a mod's callback or main chunk Import scripts?
  PluginsTrip,     \* may a plugin's main chunk set HAS_CRASHED?
  CallbacksTrip,   \* may a mod's callback set HAS_CRASHED?
  MaxNesting,      \* bound on the calls in progress at once
  NoEnv,           \* no environment
  Uncompiled       \* a chunk that is not compiled in this lua_State

ASSUME ScriptsAssumption == /\ Main \in Scripts
                            /\ Scripts \cap Files = {}
                            /\ (Scripts \cup Files) \cap Workers = {}
ASSUME ThreadsAssumption == Loader \notin Workers
ASSUME MarkersAssumption == /\ NoEnv \notin Scripts \cup {Uncompiled}
                            /\ Uncompiled \notin Scripts
ASSUME ImportsAssumption == /\ TopImports \in [Scripts -> Seq(Files)]
                            /\ Imports \in [Scripts -> Seq(Files)]
ASSUME SwitchesAssumption ==
  {FilesImport, CallbacksImport, PluginsTrip, CallbacksTrip} \subseteq BOOLEAN
ASSUME NestingAssumption == MaxNesting \in Nat

VARIABLES
  stack,       \* the calls in progress on Loader, innermost last
  depth,       \* g_script_load_depth, thread_local
  env,         \* g_env_to_add: the script whose _ENV is staged, or NoEnv
  managerUp,   \* is_lua_state_valid()
  hasCrashed,  \* the engine's HAS_CRASHED
  loaded,      \* the engine's LOADED_SCRIPT_FILES
  installed    \* chunk -> the environment attached to it when it was compiled

vars == <<stack, depth, env, managerUp, hasCrashed, loaded, installed>>

Threads == {Loader} \cup Workers
Chunks  == Scripts \cup Files \cup Workers

\* The statements of load_detour, then those of the engine's Load.
DetourPcs == {"enter", "snapshot", "pre", "top", "original", "post", "bottom"}
EnginePcs == {"load", "body"}
Frames == [kind : {"detour", "engine"}, chunk : Scripts \cup Files,
           pc : DetourPcs \cup EnginePcs, todo : Seq(Files),
           crashedBefore : BOOLEAN]

DetourFrame(s) == [kind |-> "detour", chunk |-> s, pc |-> "enter",
                   todo |-> <<>>, crashedBefore |-> FALSE]
EngineFrame(c) == [kind |-> "engine", chunk |-> c, pc |-> "load",
                   todo |-> <<>>, crashedBefore |-> FALSE]

AtRest   == stack = <<>>
Top      == stack[Len(stack)]
At(pc)   == ~AtRest /\ Top.pc = pc
Push(f)  == Append(stack, f)
Pop      == SubSeq(stack, 1, Len(stack) - 1)
Set(f)   == [stack EXCEPT ![Len(stack)] = f]
GoTo(pc) == Set([Top EXCEPT !.pc = pc])

TypeOK ==
  /\ stack \in Seq(Frames)
  /\ depth \in [Threads -> Nat]
  /\ env \in Scripts \cup {NoEnv}
  /\ managerUp \in BOOLEAN
  /\ hasCrashed \in BOOLEAN
  /\ loaded \subseteq Scripts \cup Files
  /\ installed \in [Chunks -> Scripts \cup {NoEnv, Uncompiled}]

Init ==
  /\ stack = <<>>
  /\ depth = [t \in Threads |-> 0]
  /\ env = NoEnv
  /\ managerUp = FALSE
  /\ hasCrashed = FALSE
  /\ loaded = {}
  /\ installed = [c \in Chunks |-> Uncompiled]

--------------------------------------------------------------------------------
(* Compiling. *)

\* loadbufferx_detour followed by apply_staged_env: a successful compile on
\* thread t takes the staged environment if t is inside load_detour.
TakesEnvAnywhere(t) == env # NoEnv  \* variant: g_script_load_depth not tested
TakesEnv(t) == depth[t] > 0 /\ env # NoEnv

\* Variant: the environment stays staged once it is attached.
CompileKeepsEnv(t, c) ==
  /\ installed' = [installed EXCEPT ![c] = IF TakesEnv(t) THEN env ELSE NoEnv]
  /\ env' = env
Compile(t, c) ==
  /\ installed' = [installed EXCEPT ![c] = IF TakesEnv(t) THEN env ELSE NoEnv]
  /\ env' = IF TakesEnv(t) THEN NoEnv ELSE env

\* A worker compiles a chunk of its own (deserialising a save, for one) and
\* later drops it.
WorkerCompile(w) ==
  /\ installed[w] = Uncompiled
  /\ Compile(w, w)
  /\ UNCHANGED <<stack, depth, managerUp, hasCrashed, loaded>>

WorkerDone(w) ==
  /\ installed[w] # Uncompiled
  /\ installed' = [installed EXCEPT ![w] = Uncompiled]
  /\ UNCHANGED <<stack, depth, env, managerUp, hasCrashed, loaded>>

--------------------------------------------------------------------------------
(* The engine. *)

\* The engine starts loading a script: Main.lua first, then the others.
GameLoads(s) ==
  /\ AtRest
  /\ s = Main \/ Main \in loaded
  /\ stack' = Push(DetourFrame(s))
  /\ UNCHANGED <<depth, env, managerUp, hasCrashed, loaded, installed>>

\* A call of Import reaches load_detour again.  Nothing Imports Main.lua.
CallImport(s) ==
  /\ Len(stack) + 2 <= MaxNesting
  /\ s # Main
  /\ stack' = Push(DetourFrame(s))
  /\ UNCHANGED <<depth, env, managerUp, hasCrashed, loaded, installed>>

\* Load returns false, without reading the script, after a crash and for a
\* script it has loaded already.
EngineRefuses ==
  /\ At("load")
  /\ hasCrashed \/ Top.chunk \in loaded
  /\ stack' = Pop
  /\ UNCHANGED <<depth, env, managerUp, hasCrashed, loaded, installed>>

EngineCompiles ==
  /\ At("load")
  /\ ~hasCrashed /\ Top.chunk \notin loaded
  /\ loaded' = loaded \cup {Top.chunk}
  /\ Compile(Loader, Top.chunk)
  /\ stack' = GoTo("body")
  /\ UNCHANGED <<depth, managerUp, hasCrashed>>

\* The script does not compile: there is no chunk to attach anything to.
EngineRejects ==
  /\ At("load")
  /\ ~hasCrashed /\ Top.chunk \notin loaded
  /\ stack' = Pop
  /\ hasCrashed' \in BOOLEAN
  /\ UNCHANGED <<depth, env, managerUp, loaded, installed>>

\* The chunk runs: it Imports other scripts, then ends or fails.
BodyImports(s) ==
  /\ At("body")
  /\ Top.chunk \in Files => FilesImport
  /\ CallImport(s)

BodyEnds ==
  /\ At("body")
  /\ stack' = Pop
  /\ hasCrashed' \in BOOLEAN /\ (hasCrashed => hasCrashed')
  /\ UNCHANGED <<depth, env, managerUp, loaded, installed>>

\* Between two waves the game closes its lua_State: lua_close_detour shuts the
\* manager down, which clears the staged environment.
CloseLua ==
  /\ AtRest
  /\ loaded # {}
  /\ managerUp' = FALSE
  /\ env' = IF managerUp THEN NoEnv ELSE env
  /\ loaded' = {}
  /\ installed' = [c \in Chunks |-> IF c \in Workers THEN installed[c]
                                                     ELSE Uncompiled]
  /\ UNCHANGED <<stack, depth, hasCrashed>>

--------------------------------------------------------------------------------
(* load_detour, statement by statement. *)

\* Main.lua: the manager is rebuilt against the new state.  It is not valid
\* while the plugins' main chunks run.
EnterMain ==
  /\ At("enter") /\ Top.chunk = Main
  /\ managerUp' = FALSE
  /\ stack' = GoTo("snapshot")
  /\ UNCHANGED <<depth, env, hasCrashed, loaded, installed>>

PluginImports(s) ==
  /\ At("snapshot") /\ Top.chunk = Main
  /\ CallbacksImport
  /\ CallImport(s)

PluginTrips ==
  /\ At("snapshot") /\ Top.chunk = Main
  /\ PluginsTrip
  /\ hasCrashed' = TRUE
  /\ UNCHANGED <<stack, depth, env, managerUp, loaded, installed>>

\* HAS_CRASHED is read, then on_import.pre starts.  For Main.lua the manager has
\* just become valid.
Snapshot ==
  /\ At("snapshot") \/ (At("enter") /\ Top.chunk # Main)
  /\ managerUp' = (managerUp \/ Top.chunk = Main)
  /\ stack' = Set([Top EXCEPT !.pc = "pre",
                               !.crashedBefore = hasCrashed])
  /\ UNCHANGED <<depth, env, hasCrashed, loaded, installed>>

\* fire_on_pre_import: a callback returns an _ENV for the script, Imports
\* another script, or trips HAS_CRASHED.  (One that returns nil or throws
\* changes nothing.)
PreCallbackStages ==
  /\ At("pre") /\ managerUp
  /\ env' = Top.chunk
  /\ UNCHANGED <<stack, depth, managerUp, hasCrashed, loaded, installed>>

CallbackImports(s) ==
  /\ At("pre") \/ At("post")
  /\ managerUp /\ CallbacksImport
  /\ CallImport(s)

CallbackTrips ==
  /\ At("pre") \/ At("post")
  /\ managerUp /\ CallbacksTrip
  /\ hasCrashed' = TRUE
  /\ UNCHANGED <<stack, depth, env, managerUp, loaded, installed>>

\* The callbacks have run; fire_legacy_imports(path, true) starts.
PreDone ==
  /\ At("pre")
  /\ stack' = Set([Top EXCEPT !.pc = "top",
                               !.todo = TopImports[Top.chunk]])
  /\ UNCHANGED <<depth, env, managerUp, hasCrashed, loaded, installed>>

\* One step of fire_legacy_imports: the next file is loaded through the
\* trampoline, which skips load_detour, or is missing and is skipped.
Advanced == Set([Top EXCEPT !.todo = Tail(@)])

ImportFile ==
  /\ At("top") \/ At("bottom")
  /\ Top.todo # <<>>
  /\ \/ stack' = Advanced
     \/ stack' = Append(Advanced, EngineFrame(Head(Top.todo)))
  /\ UNCHANGED <<depth, env, managerUp, hasCrashed, loaded, installed>>

\* Variant: no ++g_script_load_depth.
CallOriginalUncounted ==
  /\ At("top") /\ Top.todo = <<>>
  /\ stack' = Append(GoTo("original"), EngineFrame(Top.chunk))
  /\ UNCHANGED <<depth, env, managerUp, hasCrashed, loaded, installed>>
\* ++g_script_load_depth; g_load_hook.call(path)
CallOriginal ==
  /\ At("top") /\ Top.todo = <<>>
  /\ depth' = [depth EXCEPT ![Loader] = @ + 1]
  /\ stack' = Append(GoTo("original"), EngineFrame(Top.chunk))
  /\ UNCHANGED <<env, managerUp, hasCrashed, loaded, installed>>

\* Variant: the depth is a flag, cleared on the way out.
ReturnClearsDepth ==
  /\ At("original")
  /\ depth' = [depth EXCEPT ![Loader] = 0]
  /\ env' = NoEnv
  /\ stack' = GoTo("post")
  /\ UNCHANGED <<managerUp, hasCrashed, loaded, installed>>
\* Variant: fire_on_post_import leaves the staged environment alone.
ReturnKeepsEnv ==
  /\ At("original")
  /\ depth' = [depth EXCEPT ![Loader] = @ - 1]
  /\ stack' = GoTo("post")
  /\ UNCHANGED <<env, managerUp, hasCrashed, loaded, installed>>
\* --g_script_load_depth; fire_on_post_import, which drops whatever is still
\* staged before it calls anyone.
ReturnFromOriginal ==
  /\ At("original")
  /\ depth' = [depth EXCEPT ![Loader] = @ - 1]
  /\ env' = NoEnv
  /\ stack' = GoTo("post")
  /\ UNCHANGED <<managerUp, hasCrashed, loaded, installed>>

\* The post callbacks have run; fire_legacy_imports(path, false) starts.
PostDone ==
  /\ At("post")
  /\ stack' = Set([Top EXCEPT !.pc = "bottom",
                               !.todo = Imports[Top.chunk]])
  /\ UNCHANGED <<depth, env, managerUp, hasCrashed, loaded, installed>>

\* Variant: HAS_CRASHED is left as it is.
LeaveCrashed ==
  /\ At("bottom") /\ Top.todo = <<>>
  /\ stack' = Pop
  /\ UNCHANGED <<depth, env, managerUp, hasCrashed, loaded, installed>>
\* HAS_CRASHED is put back if it was not set when this Load began.
Leave ==
  /\ At("bottom") /\ Top.todo = <<>>
  /\ hasCrashed' = (hasCrashed /\ Top.crashedBefore)
  /\ stack' = Pop
  /\ UNCHANGED <<depth, env, managerUp, loaded, installed>>

--------------------------------------------------------------------------------
EngineStep ==
  \/ EngineRefuses \/ EngineCompiles \/ EngineRejects \/ BodyEnds \/ CloseLua
  \/ \E s \in Scripts : GameLoads(s) \/ BodyImports(s)

DetourStep ==
  \/ EnterMain \/ PluginTrips \/ Snapshot
  \/ PreCallbackStages \/ CallbackTrips \/ PreDone
  \/ ImportFile \/ CallOriginal \/ ReturnFromOriginal \/ PostDone \/ Leave
  \/ \E s \in Scripts : PluginImports(s) \/ CallbackImports(s)

WorkerStep == \E w \in Workers : WorkerCompile(w) \/ WorkerDone(w)

Next == EngineStep \/ DetourStep \/ WorkerStep

Spec == Init /\ [][Next]_vars

--------------------------------------------------------------------------------
(* Properties. *)

InOriginal == {i \in DOMAIN stack : stack[i].pc = "original"}

\* g_script_load_depth counts the Load detours whose original is running on the
\* thread, at any nesting, and is 0 on a thread that is not loading a script:
\* nothing in the nested returns, refusals and failures unbalances it.
DepthIsNesting ==
  /\ depth[Loader] = Cardinality(InOriginal)
  /\ \A w \in Workers : depth[w] = 0

\* A staged _ENV always belongs to a Load that is still in progress and has not
\* reached on_import.post: whatever order callbacks, legacy imports, refused
\* loads and failed compiles come in, none outlives the Load it was staged for.
Owns(f, s) == /\ f.kind = "detour" /\ f.chunk = s
              /\ f.pc \in {"pre", "top", "original"}
StagedEnvHasOwner ==
  env # NoEnv => \E i \in DOMAIN stack : Owns(stack[i], env)

\* A chunk compiled by a worker thread never gets a staged _ENV, even while a
\* Load is in progress with one staged (the crash in luabins_load that
\* g_script_load_depth is thread_local for).
WorkersGetNothing ==
  \A w \in Workers : installed[w] \in {NoEnv, Uncompiled}

\* An _ENV staged for one game script is never attached to another one, such as
\* a script it Imports (apply_staged_env consumes it at its own compile).
EnvStaysWithItsScript ==
  \A s \in Scripts : installed[s] \in {s, NoEnv, Uncompiled}

\* HAS_CRASHED, once set by anything that happens inside load_detour, is on
\* its way to being cleared: some Load in progress found it unset, and will put
\* it back.  So it is never left set once script loading is over.
Cleans(f) == /\ f.kind = "detour" /\ ~f.crashedBefore
             /\ f.pc \notin {"enter", "snapshot"}
CrashWillBeCleared ==
  hasCrashed => \E i \in DOMAIN stack : Cleans(stack[i])

\* HAS_CRASHED is restored around the callbacks: one that trips it does not keep
\* the engine from loading the script the callback was fired for.
CallbackCannotBlockLoad ==
  At("load") /\ Len(stack) > 1 /\ stack[Len(stack) - 1].pc = "original"
             /\ ~stack[Len(stack) - 1].crashedBefore
    => ~hasCrashed
================================================================================
