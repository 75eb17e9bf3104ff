----------------------------- MODULE MCLegacyConfig ----------------------------
(* LegacyConfig with what its conditional properties speak of: which config.lua *)
(* ran undisturbed, and which sources a mod's own modfiles name.                *)
EXTENDS LegacyConfig

VARIABLE mixed  \* history: the mods during whose config.lua another ran, or a library
mcVars == <<allVars, mixed>>

\* The modfiles a root may come to, by the Includes of those it comes to.
Modfiles == Mods \cup UNION {Folder[a] : a \in DOMAIN Folder}
Closed(names) ==
  \A f \in names \cap DOMAIN body : \A i \in DOMAIN body[f] :
    body[f][i].cmd = "Include" => \A a \in ToSet(body[f][i].args) : Folder[a] \subseteq names
ModfilesOf(m) == {f \in Modfiles : \A s \in SUBSET Modfiles : m \in s /\ Closed(s) => f \in s}
\* The sources those name, and the config.lua among them.
SourcesOf(m) ==
  {s \in Sources : \E f \in ModfilesOf(m) \cap DOMAIN body : \E i \in DOMAIN body[f] :
     /\ body[f][i].cmd \in {"Import", "TopImport", "Replace", "SJSON"}
     /\ s \in ToSet(body[f][i].args)}
OwnSettings(m) == UNION {Keys[c] : c \in Configs \cap SourcesOf(m)}

MixedInit == ConfigInit /\ mixed = {}
MixedNext ==
  /\ ConfigNext
  /\ mixed' = IF running # <<>> /\ (Len(running') > Len(running) \/ (NestedBody /\ tables' # tables))
              THEN mixed \cup {Inner.import.mod} ELSE mixed
MixedSpec == MixedInit /\ [][MixedNext]_mcVars

\* A mod's .cfg holds the settings of its own config.lua, unless another
\* config.lua, or a library with a table, ran while that one did: what was added
\* to _G is then not what it added (snapshot_globals, find_config_table).
CfgHoldsOwnTable ==
  \A m \in DOMAIN saved \ mixed : DOMAIN saved[m] \subseteq OwnSettings(m)

\* What the player sets, in the overlay, or in the file while the loader does not
\* hold it, is never lost from the .cfg, in every later wave and run of the game;
\* and each time a config.lua has been imported its table holds what the player
\* set: unless it was there before, the file having been imported already, or the
\* config.lua of some mod was mixed (bind_table; "the .cfg authoritative over the
\* mod's own defaults").
ImportOver == running # <<>> /\ running' = Front(running) /\ pc' = "fire"
PlayersEditWins ==
  [][/\ EditsKept'
     /\ ImportOver /\ mixed = {} /\ Inner.import.source \in DOMAIN tables \ before =>
          \A k \in edits[Inner.import.mod] \cap Keys[Inner.import.source] :
            tables'[Inner.import.source][k] = Edited]_mcVars
================================================================================
