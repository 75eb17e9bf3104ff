--------------------------------- MODULE Overlay -------------------------------
(* The overlay of src/src/gui/gui.cpp: the draw callback the render thread runs *)
(* in every present, toggle() and the freeze it asks the script thread for,     *)
(* while that thread rebuilds the lua_manager wave after wave.                  *)
(*                                                                              *)
(* g_tasks is the FIFO that TaskQueue is shown to implement; g_callback_mutex,  *)
(* held by every frame and by nobody else once init is over, is left out.       *)
EXTENDS Naturals, Sequences

CONSTANTS
  Render, Script,   \* the threads
  NoThread,
  MaxTasks,         \* bound on the tasks waiting
  CloseButton,      \* does the player use the window's close button?
  ScriptToggles,    \* do mods call gui.toggle on the script thread?
  ModCallbacks,     \* "Mod Lua Gui Callbacks": do mods draw, and toggle there?
  Waves             \* does the game close states and start and end runs?

ASSUME ThreadsAssumption == Render # Script /\ NoThread \notin {Render, Script}
ASSUME SwitchesAssumption ==
  MaxTasks \in Nat /\ {CloseButton, ScriptToggles, ModCallbacks, Waves} \subseteq BOOLEAN

VARIABLES
  open,       \* g_is_open
  cursor,     \* ImGui's MouseDrawCursor
  noMouse,    \* ImGui's NoMouse and NoMouseCursorChange, set and cleared together
  context,    \* does the ImGui context exist?
  target,     \* is there a g_render_target?
  onboarded,  \* "Onboarding Shown"
  frame,      \* where the draw callback is
  wasOpen,    \* its was_open
  drawn,      \* has the window been drawn since it last opened?
  tpc,        \* per thread, where it is in toggle
  arg,        \* per thread, toggle's argument
  changed,    \* per thread, toggle's changed
  tasks,      \* g_tasks: TRUE freezes, FALSE unfreezes
  manager,    \* the owner of g_manager_mutex
  valid,      \* g_is_lua_state_valid
  running,    \* is there a CurrentRun?
  frozen      \* FreezeInputKeys["Hell1Modding"] of its hero

mouse == <<cursor, noMouse>>
window == <<onboarded, frame, wasOpen, drawn>>
toggling == <<tpc, arg, changed>>
game == <<valid, running, frozen>>
screen == <<context, target>>
vars == <<open, mouse, screen, window, toggling, tasks, manager, game>>

Threads == {Render, Script}

TypeOK ==
  /\ {open, cursor, noMouse, context, target} \subseteq BOOLEAN
  /\ onboarded \in BOOLEAN /\ wasOpen \in BOOLEAN /\ drawn \in BOOLEAN
  /\ frame \in {"out", "key", "was", "mods", "onboard", "begin", "window",
               "drawing", "welcome", "close"}
  /\ tpc \in [Threads -> {"no", "set", "mouse", "post"}]
  /\ arg \in [Threads -> BOOLEAN] /\ changed \in [Threads -> BOOLEAN]
  /\ tasks \in Seq(BOOLEAN)
  /\ manager \in Threads \cup {NoThread}
  /\ valid \in BOOLEAN /\ running \in BOOLEAN /\ frozen \in BOOLEAN
  /\ frozen => running /\ valid

Init ==
  /\ open = FALSE /\ cursor = FALSE /\ noMouse = FALSE /\ context = FALSE /\ target = FALSE
  /\ onboarded \in BOOLEAN
  /\ frame = "out" /\ wasOpen = FALSE /\ drawn = FALSE
  /\ tpc = [t \in Threads |-> "no"]
  /\ arg = [t \in Threads |-> FALSE] /\ changed = [t \in Threads |-> FALSE]
  /\ tasks = <<>>
  /\ manager = NoThread
  /\ valid = ~Waves /\ running = ~Waves /\ frozen = FALSE

--------------------------------------------------------------------------------
(* toggle(want), on either thread: g_is_open is a plain bool, so the two may    *)
(* interleave anywhere.                                                         *)

Call(t, want) ==
  /\ tpc[t] = "no" /\ Len(tasks) < MaxTasks
  /\ tpc' = [tpc EXCEPT ![t] = "set"]
  /\ arg' = [arg EXCEPT ![t] = want]
  /\ UNCHANGED changed

\* changed = (open != g_is_open); g_is_open = open
ToggleSet(t) ==
  /\ tpc[t] = "set"
  /\ changed' = [changed EXCEPT ![t] = arg[t] # open]
  /\ open' = arg[t]
  /\ tpc' = [tpc EXCEPT ![t] = "mouse"]
  /\ UNCHANGED <<mouse, screen, window, arg, tasks, manager, game>>

\* toggle_mouse: an open overlay has the cursor drawn and the mouse's input let
\* through, a closed one neither.
ToggleMouse(t) ==
  /\ tpc[t] = "mouse"
  /\ IF context THEN cursor' = open /\ noMouse' = ~open ELSE UNCHANGED mouse
  /\ tpc' = [tpc EXCEPT ![t] = "post"]
  /\ UNCHANGED <<open, screen, window, arg, changed, tasks, manager, game>>

\* Variant: opening freezes the player, closing does not unfreeze it.
OnlyFreezes(t) ==
  /\ tpc[t] = "post"
  /\ tasks' = IF changed[t] /\ arg[t] THEN Append(tasks, arg[t]) ELSE tasks
  /\ tpc' = [tpc EXCEPT ![t] = "no"]
  /\ UNCHANGED <<open, mouse, screen, window, arg, changed, manager, game>>
\* if (changed) set_player_frozen(open)
TogglePost(t) ==
  /\ tpc[t] = "post"
  /\ tasks' = IF changed[t] THEN Append(tasks, arg[t]) ELSE tasks
  /\ tpc' = [tpc EXCEPT ![t] = "no"]
  /\ UNCHANGED <<open, mouse, screen, window, arg, changed, manager, game>>

--------------------------------------------------------------------------------
(* A frame: draw_overlay, then the callback of gui::init.                       *)

At(f) == frame = f /\ tpc[Render] = "no"

\* init_imgui: the first present creates the ImGui context, and a render target
\* unless that fails. The new context's flags are those of Init: ImGui takes the
\* mouse's input, though the overlay is closed. Without a device nothing is
\* created, and the next present tries again.
InitImgui ==
  /\ At("out") /\ ~context
  /\ context' = TRUE /\ target' \in BOOLEAN
  /\ UNCHANGED <<open, mouse, window, toggling, tasks, manager, game>>

\* resize_buffers_detour: the target is dropped and made anew, unless that fails.
ResizeBuffers ==
  /\ At("out") /\ context
  /\ target' \in BOOLEAN
  /\ UNCHANGED <<open, mouse, context, window, toggling, tasks, manager, game>>

\* draw_overlay: without a target there is no frame.
BeginFrame ==
  /\ At("out") /\ context /\ target
  /\ frame' = "key"
  /\ UNCHANGED <<open, mouse, screen, onboarded, wasOpen, drawn, toggling, tasks, manager, game>>

\* The toggle key, or not; mod UI is drawn later in the frame.
PollKey ==
  /\ At("key")
  /\ frame' = "was"
  /\ Call(Render, ~open) \/ UNCHANGED toggling
  /\ UNCHANGED <<open, mouse, screen, onboarded, wasOpen, drawn, tasks, manager, game>>

SaveWasOpen ==
  /\ At("was")
  /\ wasOpen' = open
  /\ frame' = IF ModCallbacks /\ valid THEN "mods" ELSE "onboard"
  /\ ModCallbacks => manager = NoThread
  /\ manager' = IF ModCallbacks /\ valid THEN Render ELSE manager
  /\ UNCHANGED <<open, mouse, screen, onboarded, drawn, toggling, tasks, game>>

\* draw_mod_gui_elements, under g_manager_mutex: a mod may call gui.toggle.
ModToggles ==
  /\ At("mods") /\ Call(Render, ~open)
  /\ UNCHANGED <<open, mouse, screen, window, tasks, manager, game>>

ModsDrawn ==
  /\ At("mods")
  /\ frame' = "onboard" /\ manager' = NoThread
  /\ UNCHANGED <<open, mouse, screen, onboarded, wasOpen, drawn, toggling, tasks, game>>

\* The first run opens the overlay by itself.
Onboard ==
  /\ At("onboard")
  /\ frame' = "begin"
  /\ IF ~onboarded /\ ~open THEN Call(Render, TRUE) ELSE UNCHANGED toggling
  /\ UNCHANGED <<open, mouse, screen, onboarded, wasOpen, drawn, tasks, manager, game>>

\* ImGui::Begin("Hell1Modding", &g_is_open): its close button writes g_is_open.
\* Pressing it takes a frame that drew the window, and no welcome over it.
Begin ==
  /\ At("begin")
  /\ frame' = IF open THEN "window" ELSE "close"
  /\ drawn' = open
  /\ open' \in {open, IF CloseButton /\ drawn /\ onboarded THEN FALSE ELSE open}
  /\ UNCHANGED <<mouse, screen, onboarded, wasOpen, toggling, tasks, manager, game>>

\* Variant: the window does not wait for g_manager_mutex.
WindowUnlocked ==
  /\ At("window")
  /\ frame' \in {"drawing", "welcome"}
  /\ UNCHANGED <<open, mouse, screen, onboarded, wasOpen, drawn, toggling, tasks,
                 manager, game>>
\* draw_mods_window: a collapsed window returns, any other waits for
\* g_manager_mutex and lists the manager's mods, if there is one.
Window ==
  /\ At("window")
  /\ \/ frame' = "welcome" /\ UNCHANGED manager
     \/ manager = NoThread /\ manager' = Render /\ frame' = "drawing"
  /\ UNCHANGED <<open, mouse, screen, onboarded, wasOpen, drawn, toggling, tasks, game>>

WindowDrawn ==
  /\ At("drawing")
  /\ frame' = "welcome" /\ manager' = NoThread
  /\ UNCHANGED <<open, mouse, screen, onboarded, wasOpen, drawn, toggling, tasks, game>>

\* draw_onboarding: "Got it" is pressed, or not.
Welcome ==
  /\ At("welcome")
  /\ frame' = "close"
  /\ onboarded' \in {onboarded, TRUE}
  /\ UNCHANGED <<open, mouse, screen, wasOpen, drawn, toggling, tasks, manager, game>>

\* Variant: the close button runs no teardown.
NoTeardown ==
  /\ At("close")
  /\ frame' = "out"
  /\ UNCHANGED <<open, mouse, screen, onboarded, wasOpen, drawn, toggling, tasks,
                 manager, game>>
\* if (was_open && !g_is_open) toggle(false)
CatchClose ==
  /\ At("close")
  /\ frame' = "out"
  /\ IF wasOpen /\ ~open THEN Call(Render, FALSE) ELSE UNCHANGED toggling
  /\ UNCHANGED <<open, mouse, screen, onboarded, wasOpen, drawn, tasks, manager, game>>

--------------------------------------------------------------------------------
(* The script thread.                                                           *)

Free == tpc[Script] = "no"

ScriptModToggles ==
  /\ ScriptToggles /\ Call(Script, ~open)
  /\ UNCHANGED <<open, mouse, screen, window, tasks, manager, game>>

\* The task of set_player_frozen: nothing without a valid state, and the game's
\* functions do nothing without a run.
RunTask ==
  /\ Free /\ manager # Script /\ tasks # <<>>
  /\ frozen' = IF valid /\ running THEN Head(tasks) ELSE frozen
  /\ tasks' = Tail(tasks)
  /\ UNCHANGED <<open, mouse, screen, window, toggling, manager, valid, running>>

\* shutdown_lua_manager, then the state is gone.
CloseWave ==
  /\ Waves /\ Free /\ valid /\ manager = NoThread
  /\ valid' = FALSE /\ running' = FALSE /\ frozen' = FALSE
  /\ UNCHANGED <<open, mouse, screen, window, toggling, tasks, manager>>

\* init_lua_manager_for_game_state holds g_manager_mutex while plugins load.
BeginWave ==
  /\ Waves /\ Free /\ ~valid /\ manager = NoThread
  /\ manager' = Script
  /\ UNCHANGED <<open, mouse, screen, window, toggling, tasks, game>>

ManagerUp ==
  /\ Free /\ manager = Script
  /\ manager' = NoThread /\ valid' = TRUE
  /\ UNCHANGED <<open, mouse, screen, window, toggling, tasks, running, frozen>>

\* The game starts a run, or ends it: the hero is a new one.
RunChanges ==
  /\ Waves /\ Free /\ valid
  /\ running' = ~running /\ frozen' = FALSE
  /\ UNCHANGED <<open, mouse, screen, window, toggling, tasks, manager, valid>>

RenderSteps ==
  \/ InitImgui \/ BeginFrame \/ PollKey \/ SaveWasOpen \/ ModsDrawn \/ Onboard \/ Begin
  \/ Window \/ WindowDrawn \/ Welcome \/ CatchClose
  \/ ToggleSet(Render) \/ ToggleMouse(Render) \/ TogglePost(Render)

ScriptSteps ==
  RunTask \/ ManagerUp \/ ToggleSet(Script) \/ ToggleMouse(Script) \/ TogglePost(Script)

Next ==
  \/ RenderSteps \/ ResizeBuffers \/ ModToggles
  \/ ScriptSteps \/ ScriptModToggles \/ CloseWave \/ BeginWave \/ RunChanges

Spec == Init /\ [][Next]_vars

\* The game presents frames and updates for as long as it runs, and the
\* threads that can go on do; strong fairness on frames, for the mutex.
FairSpec == Spec /\ SF_vars(RenderSteps) /\ WF_vars(ScriptSteps)

--------------------------------------------------------------------------------
(* Properties. *)

\* Nothing is under way: no frame, no toggle, no task waiting.
Settled == frame = "out" /\ tasks = <<>> /\ \A t \in Threads : tpc[t] = "no"

\* Closing the overlay gives the player control back.
UnfrozenWhenClosed == Settled /\ ~open => ~frozen

\* While the overlay is open in a run, the player is frozen.
FrozenWhenOpen == Settled /\ open /\ valid /\ running => frozen

\* ImGui draws the mouse exactly while the overlay is open, the close button
\* included, and takes its input while it is.
MouseFollowsOverlay == Settled => cursor = open /\ (open => ~noMouse)

\* The manager whose mods the window lists does not change or go while it does.
WindowOnOneManager ==
  [][frame = "drawing" /\ frame' = "drawing" => valid' = valid]_vars

\* A freeze does not outlast the overlay: once it stays closed, the player is
\* free for good.
ThawsEventually == <>[]~open => <>[]~frozen
================================================================================
