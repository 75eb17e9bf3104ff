----------------------------- MODULE LovelyPatches -----------------------------
(* lovely rewriting scripts as the engine compiles them: lovely::init in        *)
(* late_init, and the patched_buffer that loadbufferx_detour makes for one      *)
(* compile (src/src/lovely/lovely.cpp, src/src/hades1/script_hook.cpp), on any  *)
(* thread of the game, while Startup brings the hooks up.                       *)
EXTENDS Startup

\* What lovely_apply_buffer_patches comes back with: "failed" is each of the
\* statuses that are failures, "nothing" a null result.
Statuses == {"ok", "original", "binary", "failed", "nothing"}

VARIABLES
  table,    \* lovely's patch table: "unread", "read", or "empty" when init failed
  step,     \* where each thread is in loadbufferx_detour
  text,     \* m_data: the game's buffer or lovely's
  owns,     \* m_owns_data
  heap,     \* what lovely has allocated for it
  misfreed  \* has a buffer of the game's been released?

lovelyVars == <<table, step, text, owns, heap, misfreed>>

LovelyInit ==
  /\ Init
  /\ table = "unread"
  /\ step = [t \in Games |-> "no"] /\ text = [t \in Games |-> "game"]
  /\ owns = [t \in Games |-> FALSE] /\ heap = [t \in Games |-> {}]
  /\ misfreed = FALSE

\* lovely::init, which is not tried again when it fails.
ReadTable ==
  table' \in IF late = "lovely" /\ late' # late THEN {"read", "empty"} ELSE {table}

\* The engine compiles a script, through the detour if it is in place.
BeginCompile(t) ==
  /\ attaches > 0 /\ main = "out" /\ at[t] = "out" /\ step[t] = "no"
  /\ hooked["loadbufferx"] # 0
  /\ step' = [step EXCEPT ![t] = "patch"]
  /\ UNCHANGED <<vars, table, text, owns, heap, misfreed>>

\* Variant: whatever lovely looked at is taken to be lovely's.
OwnedUnlessOriginal(status) == status \notin {"original", "nothing"}
\* The only status with a new allocation for the text.
Owned(status) == status = "ok"

\* The constructor of patched_buffer.
Patch(t) ==
  /\ step[t] = "patch"
  /\ step' = [step EXCEPT ![t] = "compile"]
  /\ \E status \in IF table = "unread" THEN {"nothing"}
                   ELSE IF table = "empty" THEN {"original", "binary", "nothing"} ELSE Statuses :
       /\ heap' = [heap EXCEPT ![t] = CASE status = "nothing" -> {}
                                        [] status = "ok" -> {"result", "patched"}
                                        [] OTHER -> {"result"}]
       /\ text' = [text EXCEPT ![t] = IF status = "ok" THEN "patched" ELSE "game"]
       /\ owns' = [owns EXCEPT ![t] = Owned(status)]
  /\ UNCHANGED <<vars, table, misfreed>>

\* The original luaL_loadbufferx reads the text and keeps nothing of it.
Compile(t) ==
  /\ step[t] = "compile"
  /\ step' = [step EXCEPT ![t] = "release"]
  /\ UNCHANGED <<vars, table, text, owns, heap, misfreed>>

\* The destructor.
Release(t) ==
  /\ step[t] = "release"
  /\ step' = [step EXCEPT ![t] = "no"]
  /\ heap' = [heap EXCEPT ![t] = @ \ ({"result"} \cup IF owns[t] THEN {text[t]} ELSE {})]
  /\ misfreed' = (misfreed \/ (owns[t] /\ text[t] = "game"))
  /\ text' = [text EXCEPT ![t] = "game"] /\ owns' = [owns EXCEPT ![t] = FALSE]
  /\ UNCHANGED <<vars, table>>

LovelyNext ==
  \/ Next /\ ReadTable /\ UNCHANGED <<step, text, owns, heap, misfreed>>
  \/ \E t \in Games : BeginCompile(t) \/ Patch(t) \/ Compile(t) \/ Release(t)
LovelySpec == LovelyInit /\ [][LovelyNext]_<<vars, lovelyVars>>

--------------------------------------------------------------------------------
\* A script is compiled through the hook only once the patches have been read, and
\* from a text that is alive; what lovely allocated for a compile is gone after it,
\* and the game's own buffer is never released (late_init: "the patch table has to
\* be loaded before the luaL_loadbufferx hook that consumes it can fire";
\* patched_buffer).
PatchesOwned ==
  /\ ~misfreed
  /\ \A t \in Games :
       /\ step[t] # "no" => table # "unread"
       /\ step[t] = "compile" /\ text[t] = "patched" => "patched" \in heap[t]
       /\ step[t] = "no" => heap[t] = {}
================================================================================
