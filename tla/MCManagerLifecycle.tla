--------------------------- MODULE MCManagerLifecycle --------------------------
(* ManagerLifecycle for TLC, with the window of the overlay and the sandbox of  *)
(* each lua_State: three lua_States are enough for a wave, another state closed *)
(* in the middle of it, and the next wave. Each behaviour has one player: one   *)
(* who presses keys, in the only wave there is; one who moves folders in        *)
(* plugins/; or one who edits the list of mods allowed unsafe Lua.              *)
EXTENDS ModsWindow, LuaSandbox

VARIABLES
  player,    \* what the player does: "keys", "folders" or "list"
  late,      \* was a state opened before all the hooks were in place?
  abandoned, \* has the game dropped a state without closing it?
  fresh,     \* the keys pressed since the last frame
  left,      \* has a frame gone without the picker, while a key was being picked?
  built,     \* the folders left alone since the manager was made, and there then
  sameCount, \* was it made with as many modules as are listed?
  remade     \* the states it was made for twice

history == <<player, late, abandoned, fresh, left, built, sameCount, remade>>
mcVars == <<vars, windowVars, sandboxVars, history>>

MCInit ==
  /\ WindowInit /\ SandboxInit
  /\ player \in {"keys", "folders", "list"}
  /\ player # "folders" => folders = {}
  /\ player # "keys" => ~collapsed
  /\ late = FALSE /\ abandoned = FALSE /\ fresh = {} /\ left = FALSE
  /\ built = {} /\ sameCount = FALSE /\ remade = {}

Pressing(k) ==
  /\ player = "keys" \/ (player = "folders" /\ k = toggleKey /\ ~shown)
  /\ Press(k)
  /\ fresh' = fresh \cup {k}
  /\ UNCHANGED <<sandboxVars, left, built, sameCount>>

Framing ==
  /\ player \in {"keys", "folders"}
  /\ Frame
  /\ player = "folders" => shown' = ShownNow /\ tab' = tab /\ ~collapsed'
  /\ fresh' = {}
  /\ left' = (rebinding' /\ (left \/ (rebinding /\ ~EntryDrawn)))
  /\ sameCount' = (sameCount /\ unloaded' = unloaded /\ lastCount' = lastCount)
  /\ UNCHANGED <<sandboxVars, built>>

Managing ==
  /\ ManagerStep
  /\ player = "keys" => opened' <= 1
  /\ player # "list" => opened' = 0 \/ hooked = 5
  /\ WrapWhenMade(Makes)
  /\ built' = IF Makes THEN folders ELSE built
  /\ sameCount' = IF Makes THEN Cardinality(modules') = lastCount ELSE sameCount
  /\ UNCHANGED <<listed, fresh, left>>

MCNext ==
  /\ \/ Managing
     \/ \E k \in Keys : Pressing(k)
     \/ Framing
     \/ /\ player = "folders"
        /\ \E f \in Folders : MoveFolder(f) /\ built' = built \ {f}
        /\ UNCHANGED <<sandboxVars, fresh, left, sameCount>>
     \/ /\ player = "list" /\ \E p \in Plugins : EditList(p)
        /\ UNCHANGED <<windowVars, fresh, left, built, sameCount>>
  /\ UNCHANGED player
  /\ late' = (late \/ (opened' # opened /\ hooked < 5))
  /\ abandoned' = (abandoned \/ (pc = "idle" /\ open \ open' # {}))
  /\ remade' = IF Makes /\ game \in rom THEN remade \cup {game} ELSE remade

MCSpec == MCInit /\ [][MCNext]_mcVars

\* With the hooks in place before the first state and every state closed by
\* lua_close: the manager that is up points into an open state, its own, and
\* survives whatever else the game opens and closes
\* (init_lua_manager_for_game_state, shutdown_lua_manager).
OrderlyManager == ~late /\ ~abandoned => ManagerOnOpenState /\ ManagerSurvives

\* With the hooks in place before the first state: the game's Save never meets
\* the loader's own global (register_loader_save_ignores).
RomIgnoredUnlessLate == ~late => RomIsIgnored

\* A key that becomes the toggle key went down while the player was looking at
\* the picker, and not before; unless a frame went by, while the key was being
\* picked, that did not draw the picker: the window closed or collapsed, the tabs
\* gone with the manager, the other tab chosen, or the header folded
\* (draw_config_entry: "discard the click that just got us here, and anything else
\* pressed earlier in the session"; poll_pressed_key: no mouse button, ever).
PickedKeyIsFresh ==
  [][toggleKey' \notin {toggleKey, Insert} => left \/ toggleKey' \in fresh \ MouseButtons]_mcVars

\* Whenever the list is drawn: a mod that is loaded is not in it, and every folder
\* that was there when the manager was made, and is not loaded, is; unless the
\* manager has been made again with as many modules as were listed (draw_mods_tab:
\* "the set only changes when the manager is rebuilt").
UnloadedListRight ==
  [][Frame /\ Drawn("Mods") /\ ~sameCount =>
       unloaded' \cap modules = {} /\ built \ modules \subseteq unloaded']_mcVars

\* In every state that has the loader's libraries, a mod is given a blocked
\* function exactly when the player's list names it now: one that is not in it
\* never, and one that is, in a state the manager was made for once, whenever it
\* calls from its own chunk, under a name with forward slashes
\* (sandbox_lua_state, blocked_lua_function, calling_mod_guid).
SandboxFollowsList ==
  \A s \in open \cap rom : \A c \in Call :
    /\ Runs(s, c) => c.mod \in listed
    /\ c.mod \in listed /\ c.direct /\ c.slashes = "forward" /\ s \notin remade => Runs(s, c)
================================================================================
