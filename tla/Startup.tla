-------------------------------- MODULE Startup --------------------------------
(* How the loader comes up beside a game that is already starting: DllMain and  *)
(* my_main on the thread that loads the DLL, late_init on a thread of its own   *)
(* (src/src/main.cpp), the symbol map it reads from the PDB                     *)
(* (hades1/game_pdb.cpp, pdb_symbol_map.hpp), the hooks it puts on the symbols, *)
(* and the game's threads calling the exports of d3d11.dll through the stubs of *)
(* dll_proxy.cpp.                                                               *)
(*                                                                              *)
(* A symbol name is a sequence: <<"f">>, and <<"f", 2>> for f_2. An address is  *)
(* a number, 0 none.                                                            *)
EXTENDS Naturals, Sequences, FiniteSets, TLC, FiniteSetsExt

CONSTANTS
  Games,        \* the threads of the game that call Direct3D
  Exports,      \* what the stubs export
  Provided,     \* those the system's d3d11.dll has
  Pdbs,         \* the symbols the PDB may hold: <<globals, publics, modules>>
  Options,      \* the engine's options the settings ask for (config_options.cpp)
  MaxAttaches   \* bound on the calls of DllMain

ASSUME ProvidedAssumption == Provided \subseteq Exports
ASSUME AttachesAssumption == MaxAttaches \in Nat
\* Three passes, each a sequence of records, each with a name of one or two parts.
ASSUME PdbsAssumption == \A p \in Pdbs :
  /\ p = <<p[1], p[2], p[3]>>
  /\ \A pass \in 1..3 :
       /\ p[pass] \in Seq({p[pass][i] : i \in DOMAIN p[pass]})
       /\ \A i \in DOMAIN p[pass] : LET name == p[pass][i].name
                                  IN name = <<name[1]>> \/ name = <<name[1], name[2]>>

Null == "null"

VARIABLES
  attaches, main,     \* calls of DllMain, and where the current one is
  executed,           \* already_executed
  system,             \* does the system's d3d11.dll load?
  original,           \* D3D11.o<export>
  PA, at, call,       \* the stub's target; each game thread's place and export
  landed,             \* where runASM took it
  late, threads,      \* where late_init is; how many were started
  watching, captured, \* are swap-chain creation, and then Present, hooked?
  unread, symbols,    \* the records still to read; hades1_symbol_to_address
  known,              \* g_symbols: the names resolve_known_symbols has found
  todo, hooked,       \* the hooks still to install; hook -> its address
  options,            \* the options the loader has written to the engine
  traced,             \* was the message hook on when InitLua last built a state?
  audio, studio       \* is FMOD's System::update hooked? g_studio_system captured?

boot   == <<attaches, main, executed, system, original, threads>>
renderer == <<watching, captured>>
proxy  == <<PA, at, call, landed>>
loader == <<unread, symbols, known, todo, hooked>>
extras == <<options, traced, audio, studio>>
vars == <<boot, proxy, renderer, late, loader, extras>>

\* The hooks in the order they are installed: install_script_hook's, then those
\* late_init asks for one by one.
ScriptHooks == <<"Update", "Load", "loadbufferx", "InitLua", "lua_close">>
OtherHooks  == <<"PlatformOpenFile", "fsGetFilesWithExtension", "Log::Write">>
Hooks == {ScriptHooks[i] : i \in 1..5} \cup {OtherHooks[i] : i \in 1..3}
\* Those found through g_symbols, the others through game_symbol.
Known == {"Update", "Load", "InitLua"}

Init ==
  /\ attaches = 0 /\ main = "out" /\ executed = FALSE
  /\ system \in BOOLEAN
  /\ original = [e \in Exports |-> Null]
  /\ PA = Null /\ at = [t \in Games |-> "out"]
  /\ call = [t \in Games |-> Null] /\ landed = [t \in Games |-> Null]
  /\ late = "unborn" /\ threads = 0
  /\ watching = FALSE /\ captured = FALSE
  /\ unread \in Pdbs /\ symbols = <<>> /\ known = {}
  /\ todo = ScriptHooks \o OtherHooks /\ hooked = [h \in Hooks |-> 0]
  /\ options = {} /\ traced = FALSE /\ audio = FALSE /\ studio = FALSE

--------------------------------------------------------------------------------
(* DllMain, under the loader lock *)

\* Windows calls it to attach, and again when the process ends; my_main runs once.
DllMain ==
  /\ main = "out" /\ attaches < MaxAttaches
  /\ attaches' = attaches + 1
  /\ executed' = TRUE
  /\ main' = IF executed THEN "out" ELSE "proxy"
  /\ UNCHANGED <<system, original, threads, proxy, renderer, late, loader, extras>>

\* Variant: the originals are left for late_init to load.
ProxyInitLater ==
  /\ main = "proxy"
  /\ main' = "enabled"
  /\ UNCHANGED <<attaches, executed, system, original, threads, proxy, renderer, late, loader, extras>>
\* dll_proxy::init: the system's exports, if its d3d11.dll loads.
ProxyInit ==
  /\ main = "proxy"
  /\ original' = [e \in Exports |-> IF system /\ e \in Provided THEN e ELSE Null]
  /\ main' = "enabled"
  /\ UNCHANGED <<attaches, executed, system, threads, proxy, renderer, late, loader, extras>>

\* rom::is_rom_enabled: the loader may be switched off.
RomEnabled ==
  /\ main = "enabled"
  /\ main' \in {"out", "thread"}
  /\ UNCHANGED <<attaches, executed, system, original, threads, proxy, renderer, late, loader, extras>>

CreateLateThread ==
  /\ main = "thread"
  /\ late' = "settings"
  /\ threads' = threads + 1
  /\ main' = "out"
  /\ UNCHANGED <<attaches, executed, system, original, proxy, renderer, loader, extras>>

--------------------------------------------------------------------------------
(* The stubs: f<export> sets PA, runASM jumps through it. The game runs once    *)
(* its imports are resolved.                                                    *)

Call(t, e) ==
  /\ attaches > 0 /\ main = "out" /\ at[t] = "out"
  /\ at' = [at EXCEPT ![t] = "stub"]
  /\ call' = [call EXCEPT ![t] = e]
  /\ UNCHANGED <<boot, PA, landed, renderer, late, loader, extras>>

SetPA(t) ==
  /\ at[t] = "stub"
  /\ PA' = original[call[t]]
  /\ at' = [at EXCEPT ![t] = "jump"]
  /\ UNCHANGED <<boot, call, landed, renderer, late, loader, extras>>

RunASM(t) ==
  /\ at[t] = "jump"
  /\ landed' = [landed EXCEPT ![t] = PA]
  /\ at' = [at EXCEPT ![t] = "landed"]
  /\ UNCHANGED <<boot, PA, call, renderer, late, loader, extras>>

Return(t) ==
  /\ at[t] = "landed" /\ landed[t] # Null
  /\ at' = [at EXCEPT ![t] = "out"]
  /\ call' = [call EXCEPT ![t] = Null] /\ landed' = [landed EXCEPT ![t] = Null]
  /\ UNCHANGED <<boot, PA, renderer, late, loader, extras>>

\* create_swapchain_detour: the first chain created while we watch is the one
\* whose Present draws the overlay (hook_present_on).
CreateSwapChain(t) ==
  /\ attaches > 0 /\ main = "out" /\ at[t] = "out"
  /\ captured' = (captured \/ watching)
  /\ UNCHANGED <<boot, proxy, watching, late, loader, extras>>

\* set_flag and set_int: one byte, or four, if the symbol is known.
Settable(names) == {o \in names : <<o>> \in DOMAIN symbols}

MessageHook == "EnableLuaMessageHook"
\* InitLua builds a state, and looks at the option then; init_lua_detour sets it.
InitLua ==
  /\ attaches > 0 /\ main = "out"
  /\ options' = IF hooked["InitLua"] = 0 THEN options
                ELSE options \cup Settable(Options \cap {MessageHook})
  /\ traced' = (MessageHook \in options')
  /\ UNCHANGED <<boot, proxy, renderer, late, loader, audio, studio>>

\* FMOD updates every frame; update_detour keeps the first System it sees.
AudioUpdate ==
  /\ attaches > 0 /\ main = "out"
  /\ studio' = (studio \/ audio)
  /\ UNCHANGED <<boot, proxy, renderer, late, loader, options, traced, audio>>

Game(t) == \/ \E e \in Exports : Call(t, e)
           \/ SetPA(t) \/ RunASM(t) \/ Return(t) \/ CreateSwapChain(t)

--------------------------------------------------------------------------------
(* late_init *)

LateMoves(from, to) == late = from /\ late' = to /\ UNCHANGED <<boot, proxy, loader, extras>>
LateStep(from, to)  == LateMoves(from, to) /\ UNCHANGED renderer

Settings == LateStep("settings", "renderer")

\* init_renderer: a factory of its own, for the two ways to create a swap chain;
\* failing costs the overlay only.
InitRenderer ==
  /\ LateMoves("renderer", "logger")
  /\ watching' \in BOOLEAN
  /\ UNCHANGED captured

\* The logger; lovely's patches, before the hook that uses them.
Logger   == LateStep("logger", "lovely")
Lovely   == LateStep("lovely", "pdb")

\* read_game_pdb: the engine's module is awaited for 30 seconds, then the PDB
\* opened and validated; without it no hook is installed.
AwaitEngine == LateStep("pdb", "open") \/ LateStep("pdb", "focus")
OpenPdb     == LateStep("open", "read") \/ LateStep("open", "focus")

Put(map, name, address) ==
  [n \in DOMAIN map \cup {name} |-> IF n = name THEN address ELSE map[n]]
\* Variant: a later record overwrites an earlier one.
InsertOver(map, name, address) == Put(map, name, address)
\* insert_unique: the first record of a name keeps it, the next get _2, _3, ...
InsertUnique(map, name, address) ==
  IF name \notin DOMAIN map THEN Put(map, name, address)
  ELSE LET free == {n \in 2..Cardinality(DOMAIN map) + 2 : Append(name, n) \notin DOMAIN map}
       IN Put(map, Append(name, Min(free)), address)

\* The three passes: global symbols, public symbols, the modules' own. A record
\* without an address is passed over.
ReadRecord ==
  /\ late = "read"
  /\ \E pass \in DOMAIN unread :
       /\ unread[pass] # <<>> /\ \A p \in 1..pass - 1 : unread[p] = <<>>
       /\ LET r == Head(unread[pass])
          IN symbols' = IF r.rva = 0 THEN symbols ELSE InsertUnique(symbols, r.name, r.rva)
       /\ unread' = [unread EXCEPT ![pass] = Tail(@)]
  /\ UNCHANGED <<boot, proxy, renderer, late, known, todo, hooked, extras>>

PdbRead == (\A p \in DOMAIN unread : unread[p] = <<>>) /\ LateStep("read", "resolve")

\* Variant: waits until all of them are found.
ResolveWaits ==
  /\ late = "resolve"
  /\ \A n \in Known : <<n>> \in DOMAIN symbols
  /\ known' = Known
  /\ late' = "options"
  /\ UNCHANGED <<boot, proxy, renderer, unread, symbols, todo, hooked, extras>>
\* resolve_known_symbols: what is missing is reported, the rest is used.
Resolve ==
  /\ late = "resolve"
  /\ known' = {n \in Known : <<n>> \in DOMAIN symbols}
  /\ late' = "options"
  /\ UNCHANGED <<boot, proxy, renderer, unread, symbols, todo, hooked, extras>>

\* apply_config_options
ApplyOptions ==
  /\ late = "options" /\ late' = "hook"
  /\ options' = options \cup Settable(Options \ {MessageHook})
  /\ UNCHANGED <<boot, proxy, renderer, loader, traced, audio, studio>>

Found(h) == IF h \in Known THEN h \in known ELSE <<h>> \in DOMAIN symbols

\* The next hook, if its symbol is known and safetyhook takes it. Without Update,
\* install_script_hook gives up; any other is missed alone.
InstallHook ==
  /\ late = "hook" /\ todo # <<>>
  /\ LET h == Head(todo)
     IN \/ /\ Found(h)
           /\ hooked' = [hooked EXCEPT ![h] = symbols[<<h>>]]
           /\ todo' = Tail(todo)
        \/ /\ UNCHANGED hooked
           /\ todo' = IF h = "Update" THEN OtherHooks ELSE Tail(todo)
  /\ UNCHANGED <<boot, proxy, renderer, late, unread, symbols, known, extras>>

HooksDone == todo = <<>> /\ LateStep("hook", "audio")

\* audio::install_hooks: fmodstudio.dll and its export are there or not.
HookAudio ==
  /\ late = "audio" /\ late' = "focus"
  /\ audio' \in BOOLEAN
  /\ UNCHANGED <<boot, proxy, renderer, loader, options, traced, studio>>

\* hand_console_focus_back_to_game: at most a minute for the window to appear.
Focus == LateStep("focus", "done")

Late == \/ Settings \/ InitRenderer \/ Logger \/ Lovely \/ AwaitEngine \/ OpenPdb
        \/ ReadRecord \/ PdbRead \/ Resolve \/ ApplyOptions \/ InstallHook \/ HooksDone
        \/ HookAudio \/ Focus

Next == \/ DllMain \/ ProxyInit \/ RomEnabled \/ CreateLateThread
        \/ \E t \in Games : Game(t)
        \/ InitLua \/ AudioUpdate
        \/ Late

Spec == Init /\ [][Next]_vars
\* A thread of its own, that nothing else holds up; and FMOD is updated every
\* frame.
FairSpec == Spec /\ WF_vars(Late) /\ WF_vars(AudioUpdate)
================================================================================
