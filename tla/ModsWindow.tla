------------------------------- MODULE ModsWindow ------------------------------
(* What the overlay's window draws and takes from the player, frame by frame,   *)
(* while ManagerLifecycle rebuilds the manager under it: the key picker of the  *)
(* Config tab (draw_config_entry, flush_key_state, poll_pressed_key) and the    *)
(* list of mods that are not loaded of the Mods tab (draw_mods_tab), both of    *)
(* src/src/gui/gui.cpp. draw_mods_window holds g_manager_mutex, as the functions*)
(* of hades_lua.cpp do, so a frame is one step. What opening and closing does   *)
(* to the mouse and to the game is Overlay.                                     *)
(*                                                                              *)
(* A key is its virtual-key code.                                               *)
EXTENDS ManagerLifecycle, FiniteSets

CONSTANTS
  Folders,       \* the folders a player may put into plugins/
  Keys,          \* the virtual-key codes of the keyboard and the mouse
  MouseButtons,
  Insert, Escape

ASSUME FoldersAssumption == IsFiniteSet(Folders)
ASSUME KeysAssumption == /\ Keys \subseteq Nat /\ MouseButtons \subseteq Keys
                         /\ {Insert, Escape} \subseteq Keys \ MouseButtons
                         /\ Insert # Escape

VARIABLES
  shown,      \* g_is_open
  tab,        \* the tab in front
  collapsed,  \* is the window collapsed to its title bar? (kept in imgui.ini)
  folded,     \* is the "Hell1Modding" header of the Config tab closed?
  toggleKey,  \* "Toggle Key"
  rebinding,  \* is g_rebinding set?
  down,       \* the keys that went down since GetAsyncKeyState was last asked for them
  folders,    \* the folders of plugins/ with a manifest
  modules,    \* m_modules: the folders that became a module
  lastCount,  \* last_module_count
  unloaded    \* the cached list

view == <<shown, tab, collapsed, folded>>
pick == <<toggleKey, rebinding, down>>
list == <<lastCount, unloaded>>
windowVars == <<view, pick, folders, modules, list>>

NeverListed == Cardinality(Folders) + 1    \* SIZE_MAX

WindowTypeOK ==
  /\ TypeOK
  /\ {shown, collapsed, folded, rebinding} \subseteq BOOLEAN /\ tab \in {"Mods", "Config"}
  /\ toggleKey \in Keys \ (MouseButtons \cup {Escape}) /\ down \subseteq Keys
  /\ {folders, modules, unloaded} \subseteq SUBSET Folders
  /\ lastCount \in 0..NeverListed

WindowInit ==
  /\ Init
  /\ shown = FALSE /\ tab = "Mods" /\ collapsed \in BOOLEAN /\ folded = TRUE
  /\ toggleKey = Insert /\ rebinding = FALSE /\ down = {}
  /\ folders \in SUBSET Folders /\ modules = {}
  /\ lastCount = NeverListed /\ unloaded = {}

--------------------------------------------------------------------------------
(* The manager: it loads what is in plugins/ when it is made. *)

\* The step makes a manager: Main.lua's, or the first Update's.
Makes == /\ CanInit
         /\ \/ pc = "main" /\ pc' = "body"
            \/ ticked' # ticked /\ ~valid

\* Which folders become modules, their dependencies decide.
LoadModules == IF Makes THEN modules' \in SUBSET folders ELSE UNCHANGED modules

ManagerStep ==
  /\ Next
  /\ LoadModules
  /\ UNCHANGED <<view, pick, folders, list>>

--------------------------------------------------------------------------------
(* The player *)

Press(k) ==
  /\ down' = down \cup {k}
  /\ UNCHANGED <<vars, view, toggleKey, rebinding, folders, modules, list>>

MoveFolder(f) ==
  /\ folders' \in {folders \cup {f}, folders \ {f}}
  /\ UNCHANGED <<vars, view, pick, modules, list>>

--------------------------------------------------------------------------------
(* A frame: the toggle key, then the window if it is shown. *)

ShownNow == IF toggleKey \in down THEN ~shown ELSE shown
\* What is down once the toggle key has been asked for.
Asked    == down \ {toggleKey}
\* draw_mods_window draws nothing but a title bar of a collapsed window, and the
\* tabs only while the manager is up. A click that collapses or folds is taken by
\* the call that draws, hence the primes.
Content    == ShownNow /\ ~collapsed' /\ valid
Drawn(t)   == Content /\ tab = t
\* draw_config_file: the entries under a header are drawn while it is open.
EntryDrawn == Drawn("Config") /\ ~folded'

\* The keys poll_pressed_key may take, and the one it takes, if there is one: the
\* first in the order of the codes.
Pressed  == Asked \ MouseButtons
FirstKey == {k \in Pressed : \A j \in Pressed : k <= j}

\* draw_config_entry, for the toggle key while one is being picked: a key that is
\* down ends it.
PollKey ==
  /\ down' = Asked \ FirstKey
  /\ IF Pressed = {} THEN UNCHANGED <<toggleKey, rebinding>>
     ELSE /\ toggleKey' \in IF Escape \in FirstKey THEN {toggleKey} ELSE FirstKey
          /\ rebinding' = FALSE

\* Variant: what was pressed before the click is not discarded.
NoFlush == down' = Asked
\* flush_key_state
Flush == down' = {}

\* The player clicks the button of the toggle key.
ClickPick ==
  /\ EntryDrawn /\ ~rebinding
  /\ rebinding' = TRUE
  /\ Flush
  /\ UNCHANGED toggleKey

\* The player clicks Reset; a key being picked is polled for in the same frame.
ClickReset ==
  /\ EntryDrawn
  /\ toggleKey' = Insert /\ rebinding' = FALSE
  /\ down' = IF rebinding THEN Asked \ FirstKey ELSE Asked

\* Nothing of the entry is clicked.
DrawConfig ==
  /\ EntryDrawn
  /\ IF rebinding THEN PollKey ELSE down' = Asked /\ UNCHANGED <<toggleKey, rebinding>>

\* Variant: the folder is listed once.
ListOnce == lastCount = NeverListed
\* When draw_mods_tab looks at the folder again.
ListAgain == lastCount # Cardinality(modules)

\* find_unloaded_mods, when the number of modules is another.
DrawMods ==
  /\ Drawn("Mods")
  /\ IF ListAgain THEN lastCount' = Cardinality(modules) /\ unloaded' = folders \ modules
                  ELSE UNCHANGED list
  /\ down' = Asked
  /\ UNCHANGED <<toggleKey, rebinding>>

\* Neither the list nor the entry is drawn: the window is hidden, or collapsed, or
\* has no manager to show, or the header is folded. A key may still be being picked.
DrawNothing ==
  /\ ~Drawn("Mods") /\ ~EntryDrawn
  /\ down' = Asked
  /\ UNCHANGED <<toggleKey, rebinding>>

\* The window may be closed with its button, collapsed or expanded, the header
\* folded or unfolded, or a tab chosen, in the same frame.
Frame ==
  /\ collapsed' \in IF ShownNow THEN BOOLEAN ELSE {collapsed}
  /\ folded' \in IF Drawn("Config") THEN BOOLEAN ELSE {folded}
  /\ \/ (ClickPick \/ ClickReset \/ DrawConfig \/ DrawNothing) /\ UNCHANGED list
     \/ DrawMods
  /\ shown' \in {ShownNow, FALSE}
  /\ tab' \in IF Content THEN {"Mods", "Config"} ELSE {tab}
  /\ UNCHANGED <<vars, folders, modules>>

WindowNext ==
  \/ ManagerStep
  \/ \E k \in Keys : Press(k)
  \/ \E f \in Folders : MoveFolder(f)
  \/ Frame
================================================================================
