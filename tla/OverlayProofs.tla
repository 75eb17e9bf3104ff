------------------------------ MODULE OverlayProofs ----------------------------
(* Proofs about the overlay, for any bound on the waiting tasks and whatever    *)
(* the player, the mods and the game do (the switches of Overlay): the mouse    *)
(* and the freeze follow the overlay, under the conditions MCOverlay records.   *)
EXTENDS MCOverlay, SequenceTheorems, TLAPS

mcVars == <<vars, button, unseen, raced, used, missed>>

--------------------------------------------------------------------------------
(* Types, and the thread in a toggle *)

\* What TypeOK says of the variables the promises are about, and the types of the
\* records of MCOverlay.
Types ==
  /\ open \in BOOLEAN /\ context \in BOOLEAN /\ wasOpen \in BOOLEAN
  /\ cursor \in BOOLEAN /\ noMouse \in BOOLEAN
  /\ valid \in BOOLEAN /\ running \in BOOLEAN /\ frozen \in BOOLEAN
  /\ button \in BOOLEAN /\ unseen \in BOOLEAN /\ raced \in BOOLEAN /\ missed \in BOOLEAN
  /\ used \in BOOLEAN
  /\ tpc \in [Threads -> {"no", "set", "mouse", "post"}]
  /\ arg \in [Threads -> BOOLEAN] /\ changed \in [Threads -> BOOLEAN]
  /\ tasks \in Seq(BOOLEAN)
\* A run is of a state, and the frozen hero of a run.
GameInv ==
  /\ running => valid
  /\ frozen => running

\* Toggled on the render thread only, a toggle under way has the overlay to
\* itself once it has set it.
Alone ==
  ~raced => /\ tpc[Script] = "no"
            /\ tpc[Render] \in {"mouse", "post"} => arg[Render] = open

Base == Types /\ GameInv /\ Alone

LEMMA BaseInit == MCInit => Base
<1>. SUFFICES ASSUME MCInit PROVE Base
  OBVIOUS
<1>1. Waves \in BOOLEAN /\ Render \in Threads /\ Script \in Threads
  BY SwitchesAssumption DEF Threads
<1>2. /\ open = FALSE /\ cursor = FALSE /\ noMouse = FALSE /\ used = FALSE /\ context = FALSE /\ wasOpen = FALSE /\ frozen = FALSE
      /\ tpc = [t \in Threads |-> "no"] /\ tasks = <<>>
      /\ arg = [t \in Threads |-> FALSE] /\ changed = [t \in Threads |-> FALSE]
      /\ valid = ~Waves /\ running = ~Waves
      /\ button = FALSE /\ unseen = FALSE /\ raced = FALSE /\ missed = FALSE
  BY DEF MCInit, Init
<1>3. tasks \in Seq(BOOLEAN)
  BY <1>2
<1>4. Types
  BY <1>1, <1>2, <1>3 DEF Types
<1>5. GameInv /\ Alone
  BY <1>1, <1>2 DEF GameInv, Alone
<1>6. QED
  BY <1>4, <1>5 DEF Base

\* What MCOverlay adds to a step.
Recorded ==
  /\ button' = (button \/ Closes)
  /\ unseen' = (unseen \/ (Closes /\ ~wasOpen))
  /\ raced' = (raced \/ tpc'[Script] # "no")
  /\ used' = (used \/ Reaches)
  /\ missed' = ((missed \/ running' # running) /\ ~(open' /\ ~open))

LEMMA RecordTypes == Types /\ Recorded =>
  /\ button' \in BOOLEAN /\ unseen' \in BOOLEAN /\ raced' \in BOOLEAN /\ missed' \in BOOLEAN
  /\ used' \in BOOLEAN
BY DEF Types, Recorded, Reaches

\* The steps that are neither of a toggle nor of a call of one.
Quiet ==
  \/ InitImgui \/ BeginFrame \/ ResizeBuffers \/ SaveWasOpen \/ ModsDrawn \/ Begin \/ Window
  \/ WindowDrawn \/ Welcome \/ RunTask \/ ManagerUp \/ CloseWave \/ BeginWave \/ RunChanges
Calls == PollKey \/ ModToggles \/ Onboard \/ CatchClose \/ ScriptModToggles

LEMMA QuietStep == ASSUME Base, Quiet, Recorded PROVE Base' /\ UNCHANGED toggling
<1>. USE DEF Base, Types, GameInv, Alone, mouse
<1>1. UNCHANGED toggling
  BY DEF Quiet, InitImgui, BeginFrame, ResizeBuffers, SaveWasOpen, ModsDrawn, Begin, Window,
     WindowDrawn, Welcome, RunTask, ManagerUp, CloseWave, BeginWave, RunChanges
<1>2. CASE InitImgui \/ BeginFrame \/ ResizeBuffers \/ SaveWasOpen \/ ModsDrawn \/ Window
           \/ WindowDrawn \/ Welcome
  <2>1. /\ UNCHANGED <<open, mouse, tasks, valid, running, frozen>>
        /\ context' \in BOOLEAN /\ wasOpen' \in BOOLEAN
    BY <1>2 DEF InitImgui, BeginFrame, ResizeBuffers, SaveWasOpen, ModsDrawn, Window,
                WindowDrawn, Welcome, game, screen, window
  <2>2. QED
    BY <1>1, <2>1, RecordTypes DEF Recorded, toggling
<1>3. CASE Begin
  <2>1. /\ UNCHANGED <<mouse, context, wasOpen, tasks, valid, running, frozen>>
        /\ open' \in BOOLEAN /\ tpc[Render] = "no"
    BY <1>3 DEF Begin, At, screen, game
  <2>2. QED
    BY <1>1, <2>1, RecordTypes DEF Recorded, toggling
<1>4. CASE RunTask
  <2>1. /\ UNCHANGED <<open, mouse, context, wasOpen, valid, running>>
        /\ tasks # <<>> /\ tasks' = Tail(tasks)
        /\ frozen' = IF valid /\ running THEN Head(tasks) ELSE frozen
    BY <1>4 DEF RunTask, screen, window
  <2>2. tasks' \in Seq(BOOLEAN) /\ frozen' \in BOOLEAN /\ (frozen' => running)
    BY <2>1
  <2>3. QED
    BY <1>1, <2>1, <2>2, RecordTypes DEF Recorded, toggling
<1>5. CASE ManagerUp \/ CloseWave \/ BeginWave \/ RunChanges
  <2>1. /\ UNCHANGED <<open, mouse, context, wasOpen, tasks>>
        /\ valid' \in BOOLEAN /\ running' \in BOOLEAN /\ frozen' \in BOOLEAN /\ GameInv'
    <3>1. CASE ManagerUp
      BY <3>1 DEF ManagerUp, screen, window
    <3>2. CASE CloseWave
      BY <3>2 DEF CloseWave, screen, window
    <3>3. CASE RunChanges
      BY <3>3 DEF RunChanges, screen, window
    <3>4. CASE BeginWave
      BY <3>4 DEF BeginWave, game, screen, window
    <3>5. QED
      BY <1>5, <3>1, <3>2, <3>3, <3>4
  <2>2. QED
    BY <1>1, <2>1, RecordTypes DEF Recorded, toggling
<1>6. QED
  BY <1>1, <1>2, <1>3, <1>4, <1>5 DEF Quiet

LEMMA CallsStep == ASSUME Base, Calls, Recorded PROVE Base'
<1>. USE DEF Base, Types, GameInv, Alone, mouse
<1>1. /\ UNCHANGED <<open, mouse, context, wasOpen, tasks, valid, running, frozen, changed>>
      /\ \/ tpc' = tpc /\ arg' = arg
         \/ /\ tpc[Render] = "no" /\ tpc' = [tpc EXCEPT ![Render] = "set"]
            /\ \E want \in BOOLEAN : arg' = [arg EXCEPT ![Render] = want]
         \/ /\ tpc' = [tpc EXCEPT ![Script] = "set"]
            /\ \E want \in BOOLEAN : arg' = [arg EXCEPT ![Script] = want]
  BY DEF Calls, PollKey, ModToggles, Onboard, CatchClose, ScriptModToggles, Call, At,
         game, screen, window, toggling
<1>2. Render \in Threads /\ Script \in Threads /\ Render # Script
  BY ThreadsAssumption DEF Threads
<1>3. Types'
  BY <1>1, <1>2, RecordTypes
<1>4. Alone'
  BY <1>1, <1>2 DEF Recorded
<1>5. QED
  BY <1>1, <1>3, <1>4

LEMMA ToggleStep ==
  ASSUME Base, NEW t \in Threads, ToggleSet(t) \/ ToggleMouse(t) \/ TogglePost(t), Recorded
  PROVE  Base'
<1>. USE DEF Base, Types, GameInv, Alone, mouse
<1>1. UNCHANGED <<context, wasOpen, valid, running, frozen, arg>>
  BY DEF ToggleSet, ToggleMouse, TogglePost, game, screen, window
<1>2. Render \in Threads /\ Script \in Threads /\ Render # Script /\ t \in {Render, Script}
  BY ThreadsAssumption DEF Threads
<1>3. raced \in BOOLEAN /\ raced' = (raced \/ tpc'[Script] # "no")
  BY DEF Recorded
<1>4. CASE ToggleSet(t)
  <2>1. Types'
    BY <1>1, <1>2, <1>4, RecordTypes DEF ToggleSet
  <2>2. Alone'
    BY <1>1, <1>2, <1>3, <1>4 DEF ToggleSet
  <2>3. QED
    BY <1>1, <2>1, <2>2
<1>5. CASE ToggleMouse(t)
  <2>1. Types'
    BY <1>1, <1>2, <1>5, RecordTypes DEF ToggleMouse
  <2>2. Alone'
    BY <1>1, <1>2, <1>3, <1>5 DEF ToggleMouse
  <2>3. QED
    BY <1>1, <2>1, <2>2
<1>6. CASE TogglePost(t)
  <2>1. tasks' \in Seq(BOOLEAN)
    <3>1. arg[t] \in BOOLEAN
      OBVIOUS
    <3>2. tasks' = Append(tasks, arg[t]) \/ tasks' = tasks
      BY <1>6 DEF TogglePost
    <3>3. Append(tasks, arg[t]) \in Seq(BOOLEAN)
      BY <3>1
    <3>4. QED
      BY <3>2, <3>3
  <2>2. Types'
    BY <1>1, <1>2, <1>6, <2>1, RecordTypes DEF TogglePost
  <2>3. Alone'
    BY <1>1, <1>2, <1>3, <1>6 DEF TogglePost
  <2>4. QED
    BY <1>1, <2>2, <2>3
<1>7. QED
  BY <1>4, <1>5, <1>6

\* Every step of MCOverlay is one of these.
LEMMA StepKinds ==
  ASSUME MCNext
  PROVE  /\ Recorded
         /\ \/ Quiet
            \/ Calls
            \/ \E t \in Threads : ToggleSet(t) \/ ToggleMouse(t) \/ TogglePost(t)
BY DEF MCNext, Recorded, Next, RenderSteps, ScriptSteps, Quiet, Calls, Threads

LEMMA BaseStep == Base /\ [MCNext]_mcVars => Base'
<1>. SUFFICES ASSUME Base, [MCNext]_mcVars PROVE Base'
  OBVIOUS
<1>1. CASE MCNext
  BY <1>1, StepKinds, QuietStep, CallsStep, ToggleStep
<1>2. CASE UNCHANGED mcVars
  BY <1>2 DEF mcVars, vars, mouse, screen, window, toggling, game, Base, Types, GameInv, Alone
<1>3. QED
  BY <1>1, <1>2

\* The rest of TypeOK.
ScreenTypes ==
  /\ onboarded \in BOOLEAN /\ drawn \in BOOLEAN /\ target \in BOOLEAN
  /\ frame \in {"out", "key", "was", "mods", "onboard", "begin", "window",
               "drawing", "welcome", "close"}
  /\ manager \in Threads \cup {NoThread}

LEMMA ScreenTypesInit == MCInit => ScreenTypes
BY DEF MCInit, Init, ScreenTypes

LEMMA ScreenTypesStep == Types /\ ScreenTypes /\ [MCNext]_mcVars => ScreenTypes'
<1>. SUFFICES ASSUME Types, ScreenTypes, [MCNext]_mcVars PROVE ScreenTypes'
  OBVIOUS
<1>. USE DEF ScreenTypes, Threads
<1>1. CASE UNCHANGED mcVars
  BY <1>1 DEF mcVars, vars, screen, window
<1>2. CASE InitImgui \/ ResizeBuffers \/ BeginFrame
  BY <1>2 DEF InitImgui, ResizeBuffers, BeginFrame, screen, window
<1>3. CASE SaveWasOpen \/ ModsDrawn \/ Window \/ WindowDrawn
  BY <1>3 DEF SaveWasOpen, ModsDrawn, Window, WindowDrawn, screen
<1>4. CASE Begin \/ Welcome
  BY <1>4 DEF Begin, Welcome, screen, Types
<1>5. CASE RunTask \/ ManagerUp \/ CloseWave \/ BeginWave \/ RunChanges
  BY <1>5 DEF RunTask, ManagerUp, CloseWave, BeginWave, RunChanges, screen, window
<1>6. CASE Calls
  BY <1>6 DEF Calls, PollKey, ModToggles, Onboard, CatchClose, ScriptModToggles, screen, window
<1>7. ASSUME NEW t \in Threads, ToggleSet(t) \/ ToggleMouse(t) \/ TogglePost(t) PROVE ScreenTypes'
  BY <1>7 DEF ToggleSet, ToggleMouse, TogglePost, screen, window
<1>8. QED
  BY <1>1, <1>2, <1>3, <1>4, <1>5, <1>6, <1>7, StepKinds DEF Quiet

\* The overlay keeps to its types, and a frozen hero is of a run that is on.
THEOREM OverlayTypes == MCSpec => []TypeOK
<1>1. Base /\ ScreenTypes => TypeOK
  BY DEF Base, Types, GameInv, ScreenTypes, TypeOK
<1>2. Base => Types
  BY DEF Base
<1>3. QED
  BY <1>1, <1>2, BaseInit, BaseStep, ScreenTypesInit, ScreenTypesStep, PTL DEF MCSpec, mcVars

--------------------------------------------------------------------------------
(* The mouse *)

\* The close button has been used in this frame, which will see it in CatchClose.
Noticed == ~open /\ wasOpen /\ frame \in {"window", "drawing", "welcome", "close"}

\* What the last toggle leaves, and what there is before the first.
MouseRight == cursor = open /\ noMouse = (used /\ ~open)

MouseInv ==
  ~raced /\ ~unseen =>
    /\ context \/ (frame = "out" /\ tpc[Render] = "no" /\ ~open /\ ~used)
    /\ tpc[Render] = "post" => MouseRight
    /\ tpc[Render] = "no" => MouseRight \/ Noticed

LEMMA MouseInvInit == MCInit => MouseInv
BY DEF MCInit, Init, MouseInv, MouseRight, Threads

LEMMA MouseInvStep == Base /\ MouseInv /\ [MCNext]_mcVars => MouseInv'
<1>. SUFFICES ASSUME Base, MouseInv, [MCNext]_mcVars, ~raced', ~unseen' PROVE MouseInv'
  BY DEF MouseInv
<1>. USE DEF MouseInv, MouseRight, Noticed, mouse
<1>0. Render \in Threads /\ Script \in Threads /\ Render # Script /\ Threads = {Render, Script}
  BY ThreadsAssumption DEF Threads
<1>1. CASE UNCHANGED mcVars
  BY <1>1 DEF mcVars, vars, screen, window, toggling
<1>2. CASE MCNext
  <2>1. Recorded /\ ~raced /\ ~unseen /\ tpc[Script] = "no" /\ tpc'[Script] = "no"
    BY <1>2, StepKinds DEF Recorded, Base, Types, Alone
  <2>2. tpc \in [Threads -> {"no", "set", "mouse", "post"}] /\ used \in BOOLEAN
    BY DEF Base, Types
  <2>0. \/ used' = used
        \/ tpc[Render] = "mouse" /\ tpc'[Render] = "post" /\ used' = TRUE
    BY <1>0, <2>1, <2>2 DEF Recorded, Reaches
  <2>3. CASE InitImgui \/ BeginFrame \/ ResizeBuffers \/ SaveWasOpen \/ ModsDrawn \/ Window
             \/ WindowDrawn \/ Welcome
    <3>1. tpc' = tpc /\ UNCHANGED <<open, cursor, noMouse>>
      BY <2>3 DEF InitImgui, BeginFrame, ResizeBuffers, SaveWasOpen, ModsDrawn, Window,
         WindowDrawn, Welcome, toggling
    <3>2. used' = used
      BY <2>0, <3>1
    <3>3. QED
      BY <2>1, <2>3, <3>1, <3>2 DEF InitImgui, BeginFrame, ResizeBuffers, SaveWasOpen, ModsDrawn,
         Window, WindowDrawn, Welcome, screen, window, At
  <2>4. CASE Begin
    <3>1. /\ tpc[Render] = "no" /\ tpc'[Render] = "no" /\ frame = "begin"
          /\ UNCHANGED <<mouse, context, wasOpen>>
          /\ frame' = IF open THEN "window" ELSE "close"
      BY <2>4 DEF Begin, At, screen, toggling
    <3>2. open' = open \/ open' = FALSE
      BY <2>4 DEF Begin
    <3>3. open /\ ~open' => wasOpen
      BY <2>1, <2>4 DEF Recorded, Closes, Begin
    <3>4. context /\ MouseRight /\ used' = used
      BY <2>1, <2>0, <3>1
    <3>5. open \in BOOLEAN
      BY DEF Base, Types
    <3>6. CASE open' = open
      BY <3>1, <3>4, <3>6
    <3>7. CASE open' = FALSE /\ open = TRUE
      BY <3>1, <3>3, <3>4, <3>7
    <3>8. QED
      BY <3>2, <3>5, <3>6, <3>7
  <2>5. CASE RunTask \/ ManagerUp \/ CloseWave \/ BeginWave \/ RunChanges
    BY <2>1, <2>0, <2>5 DEF RunTask, ManagerUp, CloseWave, BeginWave, RunChanges, screen, window, toggling
  <2>6. CASE PollKey \/ ModToggles \/ Onboard \/ CatchClose
    <3>1. /\ tpc[Render] = "no" /\ UNCHANGED <<open, cursor, noMouse, context, wasOpen>>
          /\ tpc'[Render] \in {"no", "set"}
          /\ frame' \in {"was", "begin", "out", frame} /\ frame # "out"
          /\ frame = "close" => tpc'[Render] = "set" \/ ~(wasOpen /\ ~open)
          /\ frame \in {"key", "onboard", "close", "mods"}
      BY <1>0, <2>1, <2>2, <2>6
      DEF PollKey, ModToggles, Onboard, CatchClose, Call, At, screen, window, toggling
    <3>2. used' = used
      BY <2>0, <3>1
    <3>3. QED
      BY <2>1, <3>1, <3>2
  <2>7. CASE ScriptModToggles
    BY <1>0, <2>1, <2>2, <2>7 DEF ScriptModToggles, Call
  <2>8. CASE ToggleSet(Render) \/ ToggleMouse(Render) \/ TogglePost(Render)
    <3>1. CASE ToggleSet(Render)
      BY <1>0, <2>1, <2>2, <2>0, <3>1 DEF ToggleSet, screen, window
    <3>2. CASE ToggleMouse(Render)
      <4>1. context /\ tpc[Render] = "mouse" /\ tpc'[Render] = "post" /\ open' = open
        BY <1>0, <2>1, <2>2, <3>2 DEF ToggleMouse
      <4>2. used' = TRUE
        BY <1>0, <2>1, <4>1 DEF Recorded, Reaches
      <4>3. cursor' = open /\ noMouse' = ~open /\ context' = context
        BY <3>2, <4>1 DEF ToggleMouse, screen
      <4>4. QED
        BY <4>1, <4>2, <4>3 DEF Base, Types
    <3>3. CASE TogglePost(Render)
      BY <1>0, <2>1, <2>2, <2>0, <3>3 DEF TogglePost, screen, window
    <3>4. QED
      BY <2>8, <3>1, <3>2, <3>3
  <2>9. CASE ToggleSet(Script) \/ ToggleMouse(Script) \/ TogglePost(Script)
    BY <2>1, <2>9 DEF ToggleSet, ToggleMouse, TogglePost
  <2>10. QED
    BY <1>0, <1>2, <2>3, <2>4, <2>5, <2>6, <2>7, <2>8, <2>9, StepKinds DEF Quiet, Calls
<1>3. QED
  BY <1>1, <1>2

\* ImGui draws the mouse exactly while the overlay is open and takes its input then,
\* and, from the first toggle on, not while it is closed; whatever the bound on the
\* tasks, the player, the mods and the waves do, unless mod UI opened the overlay in
\* the frame of the click on its close button, or the script thread toggles it.
THEOREM MouseFollows == MCSpec => []MouseUnlessUnseen
<1>1. MouseInv => MouseUnlessUnseen
  BY DEF MouseInv, MouseRight, MouseUnlessUnseen, MouseFollowsOverlay, Settled, Noticed, Threads
<1>2. QED
  BY <1>1, BaseInit, BaseStep, MouseInvInit, MouseInvStep, PTL DEF MCSpec, mcVars

--------------------------------------------------------------------------------
(* The freeze *)

Newest == tasks[Len(tasks)]

\* A toggle that has set g_is_open has yet to post what it changed.
Posting == tpc[Render] \in {"mouse", "post"} /\ changed[Render]

\* What the tasks will have done when they are all run.
ThawInv ==
  ~raced /\ ~button /\ ~Posting =>
    IF tasks = <<>> THEN frozen => open ELSE Newest = open
FreezeInv ==
  ~raced /\ ~missed /\ ~Posting /\ open /\ running =>
    IF tasks = <<>> THEN frozen ELSE Newest

FreezesInv == ThawInv /\ FreezeInv

\* The newest task is still there when an older one has run, and is the one that
\* runs last; a task that is posted is the newest.
LEMMA NewestStays ==
  ASSUME NEW s \in Seq(BOOLEAN), s # <<>>
  PROVE  IF Tail(s) = <<>> THEN Head(s) = s[Len(s)] ELSE Tail(s)[Len(Tail(s))] = s[Len(s)]
<1>1. /\ Tail(s) \in Seq(BOOLEAN) /\ Len(Tail(s)) = Len(s) - 1 /\ Head(s) = s[1]
      /\ \A i \in 1..Len(Tail(s)) : Tail(s)[i] = s[i + 1]
  BY HeadTailProperties
<1>2. Len(s) \in Nat \ {0} /\ (Tail(s) = <<>> <=> Len(Tail(s)) = 0)
  BY <1>1, EmptySeq, LenProperties
<1>3. QED
  BY <1>1, <1>2

LEMMA NewestPosted ==
  ASSUME NEW s \in Seq(BOOLEAN), NEW b \in BOOLEAN
  PROVE  Append(s, b) # <<>> /\ Append(s, b)[Len(Append(s, b))] = b
OBVIOUS

LEMMA FreezesInvInit == MCInit => FreezesInv
BY DEF MCInit, Init, FreezesInv, ThawInv, FreezeInv

\* Nothing but open, the tasks, the freeze, the run and the toggles matters.
LEMMA FreezesElsewhere ==
  ASSUME FreezesInv, Base, Recorded, UNCHANGED <<open, tasks, frozen, running, tpc, changed>>
  PROVE  FreezesInv'
BY DEF FreezesInv, ThawInv, FreezeInv, Newest, Posting, Recorded, Base, Types

LEMMA FreezesInvStep == Base /\ FreezesInv /\ [MCNext]_mcVars => FreezesInv'
<1>. SUFFICES ASSUME Base, FreezesInv, [MCNext]_mcVars PROVE FreezesInv'
  OBVIOUS
<1>. USE DEF FreezesInv, ThawInv, FreezeInv, Newest, Posting
<1>0. Render \in Threads /\ Script \in Threads /\ Render # Script /\ Threads = {Render, Script}
  BY ThreadsAssumption DEF Threads
<1>1. CASE UNCHANGED mcVars
  BY <1>1 DEF mcVars, vars, toggling, game
<1>2. CASE MCNext
  <2>1. Recorded
    BY <1>2, StepKinds
  <2>2. Types
    BY DEF Base
  <2>3. CASE InitImgui \/ BeginFrame \/ ResizeBuffers \/ SaveWasOpen \/ ModsDrawn \/ Window
             \/ WindowDrawn \/ Welcome \/ ManagerUp \/ BeginWave
    BY <2>1, <2>3, FreezesElsewhere
    DEF InitImgui, BeginFrame, ResizeBuffers, SaveWasOpen, ModsDrawn, Window, WindowDrawn,
        Welcome, ManagerUp, BeginWave, toggling, game
  <2>4. CASE Begin
    BY <2>1, <2>2, <2>4 DEF Begin, At, Recorded, Closes, toggling, game, Types
  <2>5. CASE RunTask
    BY <2>1, <2>2, <2>5, NewestStays DEF RunTask, Recorded, toggling, Base, Types, GameInv
  <2>6. CASE CloseWave \/ RunChanges
    BY <2>1, <2>2, <2>6 DEF CloseWave, RunChanges, Recorded, toggling, Types
  <2>7. CASE PollKey \/ ModToggles \/ Onboard \/ CatchClose
    BY <1>0, <2>1, <2>2, <2>7
    DEF PollKey, ModToggles, Onboard, CatchClose, Call, At, Recorded, toggling, game, Types
  <2>8. CASE ScriptModToggles
    BY <1>0, <2>1, <2>2, <2>8 DEF ScriptModToggles, Call, Recorded, Types
  <2>9. CASE ToggleSet(Render)
    BY <1>0, <2>1, <2>2, <2>9 DEF ToggleSet, Recorded, game, Types
  <2>10. CASE ToggleMouse(Render)
    BY <1>0, <2>1, <2>2, <2>10 DEF ToggleMouse, Recorded, game, Types
  <2>11. CASE TogglePost(Render)
    BY <1>0, <2>1, <2>2, <2>11, NewestPosted DEF TogglePost, Recorded, game, Types, Base, Alone
  <2>12. CASE ToggleSet(Script) \/ ToggleMouse(Script) \/ TogglePost(Script)
    BY <2>1, <2>12 DEF ToggleSet, ToggleMouse, TogglePost, Base, Alone, Recorded, Types
  <2>13. QED
    BY <1>0, <1>2, <2>3, <2>4, <2>5, <2>6, <2>7, <2>8, <2>9, <2>10, <2>11, <2>12, StepKinds
    DEF Quiet, Calls
<1>3. QED
  BY <1>1, <1>2

\* Toggled on the render thread, however many tasks wait: the player is frozen
\* while the overlay is open in a run that was on when it opened, and free once it
\* is closed by anything but its button.
THEOREM FreezeFollows == MCSpec => []FreezeFollowsOverlay
<1>1. FreezesInv => FreezeFollowsOverlay
  BY DEF FreezesInv, ThawInv, FreezeInv, Posting, FreezeFollowsOverlay, UnfrozenWhenClosed,
         FrozenWhenOpen, Settled, Threads
<1>2. QED
  BY <1>1, BaseInit, BaseStep, FreezesInvInit, FreezesInvStep, PTL DEF MCSpec, mcVars

--------------------------------------------------------------------------------
(* The mods the window lists *)

\* g_manager_mutex is the render thread's while it draws mods.
LockInv ==
  /\ frame \in {"mods", "drawing"} <=> manager = Render
  /\ manager = Script => ~valid

LEMMA LockInvInit == MCInit => LockInv
BY ThreadsAssumption DEF MCInit, Init, LockInv

LEMMA LockInvStep == LockInv /\ [MCNext]_mcVars => LockInv'
<1>. SUFFICES ASSUME LockInv, [MCNext]_mcVars PROVE LockInv'
  OBVIOUS
<1>. USE ThreadsAssumption DEF LockInv
<1>1. CASE UNCHANGED mcVars
  BY <1>1 DEF mcVars, vars, window, game
<1>2. CASE Quiet
  <2>1. CASE InitImgui \/ BeginFrame \/ ResizeBuffers \/ Welcome
    <3>1. /\ frame \in {"out", "welcome"} /\ frame' \in {"out", "key", "close"}
          /\ UNCHANGED <<manager, valid>>
      BY <2>1 DEF InitImgui, BeginFrame, ResizeBuffers, Welcome, At, window, game
    <3>2. QED
      BY <3>1
  <2>2. CASE Begin
    BY <2>2 DEF Begin, At, game
  <2>3. CASE SaveWasOpen
    BY <2>3 DEF SaveWasOpen, At, game
  <2>4. CASE Window
    BY <2>4 DEF Window, At, game
  <2>5. CASE ModsDrawn \/ WindowDrawn
    BY <2>5 DEF ModsDrawn, WindowDrawn, At, game
  <2>6. CASE RunTask \/ CloseWave \/ RunChanges
    BY <2>6 DEF RunTask, CloseWave, RunChanges, window
  <2>7. CASE BeginWave \/ ManagerUp
    BY <2>7 DEF BeginWave, ManagerUp, window, game
  <2>8. QED
    BY <1>2, <2>1, <2>2, <2>3, <2>4, <2>5, <2>6, <2>7 DEF Quiet
<1>3. CASE Calls
  <2>1. CASE PollKey \/ Onboard \/ CatchClose
    <3>1. /\ frame \in {"key", "onboard", "close"} /\ frame' \in {"was", "begin", "out"}
          /\ UNCHANGED <<manager, valid>>
      BY <2>1 DEF PollKey, Onboard, CatchClose, At, game
    <3>2. QED
      BY <3>1
  <2>2. CASE ModToggles \/ ScriptModToggles
    BY <2>2 DEF ModToggles, ScriptModToggles, window, game
  <2>3. QED
    BY <1>3, <2>1, <2>2 DEF Calls
<1>4. ASSUME NEW t \in Threads, ToggleSet(t) \/ ToggleMouse(t) \/ TogglePost(t) PROVE LockInv'
  BY <1>4 DEF ToggleSet, ToggleMouse, TogglePost, window, game
<1>5. QED
  BY <1>1, <1>2, <1>3, <1>4, StepKinds

\* While the window lists the manager's mods the script thread, which would make a
\* manager or shut one down, waits for the mutex.
THEOREM OneManagerListed == MCSpec => WindowOnOneManager
<1>1. LockInv /\ [MCNext]_mcVars => [frame = "drawing" /\ frame' = "drawing" => valid' = valid]_vars
  <2>. SUFFICES ASSUME LockInv, MCNext, frame = "drawing" PROVE valid' = valid
    BY DEF mcVars
  <2>1. manager = Render /\ manager \notin {NoThread, Script}
    BY ThreadsAssumption DEF LockInv
  <2>2. CASE Quiet
    BY <2>1, <2>2
    DEF Quiet, InitImgui, BeginFrame, ResizeBuffers, SaveWasOpen, ModsDrawn, Begin, Window,
        WindowDrawn, Welcome, RunTask, ManagerUp, CloseWave, BeginWave, RunChanges, game
  <2>3. CASE Calls
    BY <2>3 DEF Calls, PollKey, ModToggles, Onboard, CatchClose, ScriptModToggles, game
  <2>4. ASSUME NEW t \in Threads, ToggleSet(t) \/ ToggleMouse(t) \/ TogglePost(t)
        PROVE  valid' = valid
    BY <2>4 DEF ToggleSet, ToggleMouse, TogglePost, game
  <2>5. QED
    BY <2>2, <2>3, <2>4, StepKinds
<1>2. QED
  BY <1>1, LockInvInit, LockInvStep, PTL DEF MCSpec, mcVars, WindowOnOneManager
================================================================================
