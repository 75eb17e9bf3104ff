-------------------------------- MODULE MCStartup ------------------------------
(* Startup, with lovely's patches, for TLC: two threads of the game, an export  *)
(* the system does not have, and PDBs that hold a name twice, in one pass or in *)
(* two, and a symbol that is really called f_2. In each behaviour the game does *)
(* one thing while the loader comes up: it calls Direct3D, with one PDB, or     *)
(* runs scripts and FMOD.                                                       *)
EXTENDS LovelyPatches

R(name, rva) == [name |-> name, rva |-> rva]
Publics == {<<>>, <<R(<<"Update">>, 11), R(<<"lua_close">>, 12)>>,
            <<R(<<"Update">>, 0), R(<<"lua_close">>, 12), R(<<"lua_close">>, 13)>>}
Modules == {<<R(<<"Update">>, 21), R(<<"Load">>, 22), R(<<"Load">>, 23)>>,
            <<R(<<"lua_close", 2>>, 21), R(<<"UseAnalytics">>, 22)>>,
            <<R(<<"Update">>, 21), R(<<"loadbufferx">>, 22), R(<<"InitLua">>, 23), R(<<"EnableLuaMessageHook">>, 24)>>}
UpdateOnly == <<<<>>, <<>>, <<R(<<"Update">>, 21)>> >>
MCPdbs == {<<g, p, m>> : g \in {<<>>, <<R(<<"Load">>, 1), R(<<"Log::Write">>, 2)>>},
                         p \in Publics, m \in Modules}
          \cup {UpdateOnly}

VARIABLES
  game,    \* what the game does: "draws" or "scripts"
  pdb,     \* what the PDB held
  refused, \* the hooks safetyhook would not install
  raced    \* has a thread set PA while another was about to jump through it?

mcVars == <<vars, lovelyVars, game, pdb, refused, raced>>

MCInit ==
  /\ LovelyInit
  /\ game \in {"draws", "scripts"} /\ pdb = unread
  /\ IF game = "draws" THEN pdb = UpdateOnly ELSE system
  /\ refused = {} /\ raced = FALSE
\* One thread compiles: what they compile with is their own.
Compiler == CHOOSE t \in Games : TRUE
MCNext ==
  /\ LovelyNext
  /\ IF game = "draws" THEN UNCHANGED <<step, options, traced, studio>> \/ late' # late
     ELSE UNCHANGED <<at, captured>> /\ \A t \in Games \ {Compiler} : step'[t] = step[t]
  /\ UNCHANGED <<game, pdb>>
  /\ refused' = IF late = "hook" /\ todo' # todo /\ Found(Head(todo)) /\ hooked' = hooked
                THEN refused \cup {Head(todo)} ELSE refused
  /\ raced' = (raced \/ \E t, u \in Games : t # u /\ at[t] = "jump" /\ at[u] = "stub" /\ at'[u] = "jump")
MCSpec == MCInit /\ [][MCNext]_mcVars /\ WF_mcVars(Late /\ MCNext) /\ WF_mcVars(AudioUpdate /\ MCNext)

--------------------------------------------------------------------------------
\* A call of an export reaches the system's own export of that name, or nothing
\* if the system has none: the originals are loaded before the game can call -
\* unless two threads were in the stubs at once, for PA is one for all
\* (DEFINE_STUB, my_main).
LandsHomeUnlessRaced ==
  ~raced => \A t \in Games : at[t] = "landed" =>
    landed[t] = IF system /\ call[t] \in Provided THEN call[t] ELSE Null

\* The records of the PDB in the order of the passes, and the address of the first
\* that has the name, and an address.
Records == pdb[1] \o pdb[2] \o pdb[3]
Named(name) == {i \in DOMAIN Records : Records[i].name = name /\ Records[i].rva # 0}
FirstOf(name) == IF Named(name) = {} THEN 0 ELSE Records[Min(Named(name))].rva

\* Every hook is on the first symbol of its name, whatever the duplicates; one
\* that is missing or refused is missed alone, except Update, which takes the
\* other script hooks with it; and an option the settings ask for is written if
\* its symbol is there, whatever became of the hooks, except the one InitLua looks
\* at, which goes with the hook on InitLua and is on in every state built through
\* it (insert_unique, install_script_hook, late_init, apply_config_options,
\* apply_pre_init_lua_config_options).
Present(o) == o \in Options /\ FirstOf(<<o>>) # 0
HooksDegradeAlone ==
  todo = <<>> =>
    /\ options \ {MessageHook} = {o \in Options \ {MessageHook} : Present(o)}
    /\ traced => hooked["InitLua"] # 0 /\ Present(MessageHook)
    /\ \A h \in Hooks :
      hooked[h] = IF \/ h \in refused
                     \/ /\ \E i \in 1..5 : ScriptHooks[i] = h
                        /\ FirstOf(<<"Update">>) = 0 \/ "Update" \in refused
                  THEN 0 ELSE FirstOf(<<h>>)

\* The loader comes up, or gives up, whatever is missing: late_init ends; and once
\* FMOD's update is hooked, its System is known to load_bank from then on
\* (late_init; update_detour of audio.cpp: "no race against audio startup").
ComesUp ==
  /\ late = "settings" ~> late = "done"
  /\ game = "scripts" /\ audio ~> []studio
================================================================================
