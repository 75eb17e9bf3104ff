---------------------------- MODULE ManagerLifecycle ---------------------------
(* The life of the lua_manager across the lua_States the game opens and closes: *)
(* init_lua_manager_for_game_state and shutdown_lua_manager of                  *)
(* src/src/hades1/hades_lua.cpp, driven by the hooks install_script_hook puts   *)
(* in place one after the other (src/src/hades1/script_hook.cpp) while the game *)
(* is already running, and register_loader_save_ignores.                        *)
(*                                                                              *)
(* lua_States are numbered in the order they are opened; 0 is no state.         *)
EXTENDS Naturals, FiniteSets

CONSTANTS
  MaxStates,    \* bound on the states the game ever opens
  HooksFirst,   \* are the hooks in place before the game opens its first state?
  MayAbandon,   \* may the game drop a state without lua_close?
  Resolved      \* did LUA_INTERFACE and the sentinels resolve?

ASSUME BoundAssumption == MaxStates \in Nat
ASSUME SwitchesAssumption == {HooksFirst, MayAbandon, Resolved} \subseteq BOOLEAN

VARIABLES
  hooked,    \* how many of the hooks are installed
  opened,    \* the number of states opened so far
  open,      \* the states that are open
  game,      \* LUA_INTERFACE.state
  instance,  \* the state g_lua_manager_instance was made for
  last,      \* g_last_state
  valid,     \* g_is_lua_state_valid
  mainRan,   \* states whose Main.lua has run: SaveIgnores exists there
  leaked,    \* states whose manager was leaked
  rom,       \* states that hold the loader's global "rom"
  ignored,   \* states whose SaveIgnores lists "rom"
  ticked,    \* the first Update has been seen
  pc,        \* what the script thread is doing
  closing    \* the state being closed

engine  == <<opened, open, game, mainRan>>
manager == <<instance, last, valid, leaked, rom>>
vars == <<hooked, engine, manager, ignored, ticked, pc, closing>>

NoState == 0
States  == 1..MaxStates

\* The order of install_script_hook.
HookOrder == <<"Update", "Load", "loadbufferx", "InitLua", "lua_close">>
Hooked(h) == \E i \in 1..hooked : HookOrder[i] = h

TypeOK ==
  /\ hooked \in 0..5
  /\ opened \in 0..MaxStates
  /\ open \subseteq States
  /\ {game, instance, last, closing} \subseteq States \cup {NoState}
  /\ valid \in BOOLEAN /\ ticked \in BOOLEAN
  /\ mainRan \cup rom \cup ignored \cup leaked \subseteq States
  /\ valid => instance # NoState
  /\ pc \in {"close", "closed"} <=> closing # NoState
  /\ pc \in {"idle", "main", "body", "plain", "ignores", "close", "closed"}

Init ==
  /\ hooked = IF HooksFirst THEN 5 ELSE 0
  /\ opened = 0 /\ open = {} /\ game = NoState
  /\ instance = NoState /\ last = NoState /\ valid = FALSE /\ leaked = {}
  /\ mainRan = {} /\ rom = {} /\ ignored = {}
  /\ ticked = FALSE
  /\ pc = "idle"
  /\ closing = NoState

--------------------------------------------------------------------------------
(* The functions of hades_lua.cpp, each under g_manager_mutex. *)

\* point_sentinels_at_game_lua: nothing of our Lua runs unless both sentinels
\* were found in the game's.
PointSentinels == Resolved

\* The early returns: the VM is not up yet, or its sentinels are out of reach.
CanInit == game # NoState /\ PointSentinels

\* init_lua_api puts the loader's table, and whatever library the game left
\* out, into a state's globals.
InitLuaApi(s) == rom' = rom \cup {s}

\* Variant: the previous manager is destroyed, as assigning the unique_ptr would.
InitManagerDestroys ==
  IF CanInit
  THEN /\ instance' = game /\ last' = game /\ valid' = TRUE
       /\ InitLuaApi(game)
       /\ UNCHANGED leaked
  ELSE UNCHANGED manager
\* init_lua_manager_for_game_state: a previous manager is leaked, never
\* destroyed.
InitManager ==
  IF CanInit
  THEN /\ instance' = game /\ last' = game /\ valid' = TRUE
       /\ InitLuaApi(game)
       /\ leaked' = leaked \cup ({instance} \ {NoState})
  ELSE UNCHANGED manager

\* Variant: any lua_close tears the manager down.
ShutdownAny(s) ==
  IF instance # NoState
  THEN instance' = NoState /\ last' = NoState /\ valid' = FALSE
       /\ UNCHANGED <<leaked, rom>>
  ELSE UNCHANGED manager
\* shutdown_lua_manager(closing_state): only for the manager's own state.
Shutdown(s) ==
  IF instance # NoState /\ s = last
  THEN instance' = NoState /\ last' = NoState /\ valid' = FALSE
       /\ UNCHANGED <<leaked, rom>>
  ELSE UNCHANGED manager

--------------------------------------------------------------------------------
(* late_init: the hooks appear one by one. *)
InstallHook ==
  /\ hooked < 5
  /\ hooked' = hooked + 1
  /\ UNCHANGED <<engine, manager, ignored, ticked, pc, closing>>

(* The game. *)

\* InitLua: the game opens the state of a wave.
GameOpens ==
  /\ pc = "idle" /\ game = NoState /\ opened < MaxStates
  /\ opened' = opened + 1
  /\ open' = open \cup {opened + 1}
  /\ game' = opened + 1
  /\ UNCHANGED <<hooked, manager, mainRan, ignored, ticked, pc, closing>>

\* The engine opens a state of its own that is not LUA_INTERFACE.state.
EngineOpensOther ==
  /\ pc = "idle" /\ opened < MaxStates
  /\ opened' = opened + 1
  /\ open' = open \cup {opened + 1}
  /\ UNCHANGED <<hooked, game, manager, mainRan, ignored, ticked, pc, closing>>

\* The game drops its state without closing it and opens another: what the
\* leak in init_lua_manager_for_game_state is for.
GameAbandons ==
  /\ MayAbandon
  /\ pc = "idle" /\ game # NoState /\ opened < MaxStates
  /\ opened' = opened + 1
  /\ open' = (open \ {game}) \cup {opened + 1}
  /\ game' = opened + 1
  /\ UNCHANGED <<hooked, manager, mainRan, ignored, ticked, pc, closing>>

\* The game loads Main.lua, through load_detour if the hook is in place.
LoadMain ==
  /\ pc = "idle" /\ game # NoState /\ game \notin mainRan
  /\ pc' = IF Hooked("Load") THEN "main" ELSE "plain"
  /\ UNCHANGED <<hooked, engine, manager, ignored, ticked, closing>>

\* load_detour: Main.lua rebuilds the manager.
DetourInit ==
  /\ pc = "main"
  /\ InitManager
  /\ pc' = "body"
  /\ UNCHANGED <<hooked, engine, ignored, ticked, closing>>

\* Main.lua itself runs and defines SaveIgnores, or fails to.
MainBody ==
  /\ pc \in {"body", "plain"}
  /\ mainRan' \in {mainRan, mainRan \cup {game}}
  /\ pc' = IF pc = "body" THEN "ignores" ELSE "idle"
  /\ UNCHANGED <<hooked, opened, open, game, manager, ignored, ticked, closing>>

\* Variant: load_detour does not register the loader's globals.
IgnoresSkipped ==
  /\ pc = "ignores"
  /\ pc' = "idle"
  /\ UNCHANGED <<hooked, engine, manager, ignored, ticked, closing>>
\* register_loader_save_ignores: "rom" goes into the SaveIgnores of g_last_state
\* if the manager is up, the table exists and "rom" does.
RegisterIgnores ==
  /\ pc = "ignores"
  /\ ignored' = IF valid /\ last \in mainRan \cap rom THEN ignored \cup {last}
                                                      ELSE ignored
  /\ pc' = "idle"
  /\ UNCHANGED <<hooked, engine, manager, ticked, closing>>

\* update_detour: the first tick brings the manager up if nothing else has.
Update ==
  /\ pc = "idle" /\ Hooked("Update") /\ ~ticked
  /\ ticked' = TRUE
  /\ IF valid THEN UNCHANGED manager ELSE InitManager
  /\ UNCHANGED <<hooked, engine, ignored, pc, closing>>

\* lua_close(s): the detour shuts the manager down, then calls the original.
BeginClose(s) ==
  /\ pc = "idle"
  /\ closing' = s
  /\ pc' = IF Hooked("lua_close") THEN "close" ELSE "closed"
  /\ UNCHANGED <<hooked, engine, manager, ignored, ticked>>

CloseDetour ==
  /\ pc = "close"
  /\ Shutdown(closing)
  /\ pc' = "closed"
  /\ UNCHANGED <<hooked, engine, ignored, ticked, closing>>

CloseOriginal ==
  /\ pc = "closed"
  /\ open' = open \ {closing}
  /\ game' = IF game = closing THEN NoState ELSE game
  /\ closing' = NoState
  /\ pc' = "idle"
  /\ UNCHANGED <<hooked, opened, mainRan, manager, ignored, ticked>>

Next ==
  \/ InstallHook
  \/ GameOpens \/ EngineOpensOther \/ GameAbandons
  \/ LoadMain \/ DetourInit \/ MainBody \/ RegisterIgnores
  \/ Update
  \/ \E s \in open : BeginClose(s)
  \/ CloseDetour \/ CloseOriginal

Spec == Init /\ [][Next]_vars

--------------------------------------------------------------------------------
(* Properties. *)

\* While the manager is up, the state its registry refs and every user of
\* g_last_state point into is open, and is the manager's own.
ManagerOnOpenState == valid => /\ last \in open
                               /\ instance = last

\* The manager of a state survives whatever else the game opens and closes: a
\* state that holds the loader's globals has a live manager until it closes.
ManagerSurvives ==
  game \in rom /\ closing # game => valid /\ last = game

\* A manager is only ever destroyed while its state is open.
DestroyedWhileOpen ==
  [][instance \notin leaked' \cup {NoState, instance'} => instance \in open]_vars

\* The game's Save never meets the loader's own global: once Main.lua has run in
\* a state with a manager, SaveIgnores lists it.
RomIsIgnored ==
  pc = "idle" /\ game \in rom \cap mainRan => game \in ignored
================================================================================
