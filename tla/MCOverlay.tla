------------------------------- MODULE MCOverlay -------------------------------
(* Overlay for TLC, with everything allowed at once: the close button, toggles  *)
(* on both threads, mod UI, waves and runs; and a record of what has happened,  *)
(* for the promises that depend on it.                                          *)
EXTENDS Overlay

VARIABLES
  button,  \* has the window's close button been used?
  unseen,  \* ... in a frame that had found the overlay closed (was_open)?
  raced,   \* has gui.toggle been called on the script thread?
  used,    \* has a toggle reached ImGui's mouse?
  missed   \* has a run begun or ended since the overlay was last opened?

MCInit ==
  Init /\ button = FALSE /\ unseen = FALSE /\ raced = FALSE /\ used = FALSE /\ missed = FALSE

Closes  == At("begin") /\ open /\ ~open'
Reaches == context /\ \E t \in Threads : tpc[t] = "mouse" /\ tpc'[t] = "post"

MCNext ==
  /\ Next
  /\ button' = (button \/ Closes)
  /\ unseen' = (unseen \/ (Closes /\ ~wasOpen))
  /\ raced' = (raced \/ tpc'[Script] # "no")
  /\ used' = (used \/ Reaches)
  /\ missed' = ((missed \/ running' # running) /\ ~(open' /\ ~open))

MCSpec == MCInit /\ [][MCNext]_<<vars, button, unseen, raced, used, missed>>
MCFairSpec == MCSpec /\ SF_vars(RenderSteps) /\ WF_vars(ScriptSteps)

\* Toggled on the render thread: while the overlay is open, in a run that was on
\* when it opened, the player is frozen; closed by anything but its own button,
\* it gives the player control back (toggle, set_player_frozen).
FreezeFollowsOverlay ==
  ~raced => /\ ~button => UnfrozenWhenClosed
            /\ ~missed => FrozenWhenOpen

\* Toggled on the render thread: ImGui draws the mouse exactly while the overlay is
\* open, the close button included, and takes its input then; once the overlay has
\* been toggled for the first time, it takes none while it is closed (before, it
\* does: init_imgui leaves the flags clear). Unless mod UI opened the overlay in
\* the very frame of the click, after was_open was read.
MouseUnlessUnseen ==
  ~raced /\ ~unseen => /\ MouseFollowsOverlay
                      /\ (Settled /\ used => noMouse = ~open)

\* Toggled on the render thread and not by the close button: an overlay that
\* stays closed leaves the player free for good, whatever was still queued.
ThawsUnlessButton == [](~button /\ ~raced) => ThawsEventually
================================================================================
