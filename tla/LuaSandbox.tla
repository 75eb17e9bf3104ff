------------------------------- MODULE LuaSandbox ------------------------------
(* The functions of the standard libraries a mod may call only if the player    *)
(* lists it - os.execute, io.popen, package.loadlib - in every lua_State the    *)
(* manager is made for: sandbox_lua_state, blocked_lua_function and             *)
(* calling_mod_guid of src/src/lua_extensions/lua_manager_extension.cpp.        *)
(*                                                                              *)
(* The three functions are treated alike, so they are one.                      *)
EXTENDS ManagerLifecycle

CONSTANTS
  Plugins,     \* the mods, by GUID
  MaxWrapped   \* bound on the wrappers told apart

NoMod == ""   \* nobody's GUID

ASSUME WrappedAssumption == MaxWrapped \in Nat \ {0}
ASSUME PluginsAssumption == NoMod \notin Plugins

VARIABLES
  wrapped,  \* state -> how many times the function has been wrapped there
  listed    \* "Allow Unsafe Lua For": the GUIDs in it

sandboxVars == <<wrapped, listed>>

SandboxTypeOK == wrapped \in [States -> 0..MaxWrapped] /\ listed \subseteq Plugins
SandboxInit == wrapped = [s \in States |-> 0] /\ listed = {}

\* Variant: a state is wrapped only if none has been.
WrapFirstState(s) ==
  wrapped' = IF \E t \in States : wrapped[t] > 0 THEN wrapped ELSE [wrapped EXCEPT ![s] = 1]
\* sandbox_lua_state: whatever function is there is wrapped; a wrapper is one.
Wrap(s) == wrapped' = [wrapped EXCEPT ![s] = IF @ = MaxWrapped THEN @ ELSE @ + 1]

\* init_lua_api runs whenever a manager is made.
WrapWhenMade(made) == IF made THEN Wrap(game) ELSE UNCHANGED wrapped

\* The player edits the list, at any time; it is read at every call.
EditList(p) ==
  /\ listed' \in {listed \cup {p}, listed \ {p}}
  /\ UNCHANGED <<vars, wrapped>>

\* A call: the mod whose chunk makes it, how the path in the chunk's name is
\* written, and whether it is made from the chunk or through a C function.
Call == [mod : Plugins, slashes : {"forward", "back"}, direct : BOOLEAN]

\* calling_mod_guid: what stands between "plugins" and the next forward slash. A
\* name with backslashes has none, and what is left of it is nobody's GUID.
Guid(c) == IF c.direct /\ c.slashes = "forward" THEN c.mod ELSE NoMod

\* blocked_lua_function, wrapped n times: each wrapper asks who calls it, and all
\* but the outermost are called by a wrapper.
Runs(s, c) ==
  CASE wrapped[s] = 0 -> TRUE
    [] wrapped[s] = 1 -> Guid(c) \in listed
    [] OTHER -> FALSE
================================================================================
