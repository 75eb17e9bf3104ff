----------------------------- MODULE MCContentFiles ----------------------------
(* ContentFiles for TLC: two mods that replace the same package and its         *)
(* manifest and overlay the same .sjson, spelled differently; a second manifest *)
(* of one of them, with too long a path; a package inside an overlay folder, a  *)
(* .sjson outside one, and a package asked for in another case.                 *)
EXTENDS ContentFiles

F(m, overlay, ext, leaf, path, long) ==
  [mod |-> m, overlay |-> overlay, ext |-> ext, leaf |-> leaf, path |-> path, long |-> long]

MCMods == {"m1", "m2"}
MCFiles ==
  {F(m, FALSE, "asset", l, "", FALSE) : m \in MCMods, l \in {"GUI.pkg", "GUI.pkg_manifest"}}
  \cup {F("m1", TRUE, "asset", "GUI.pkg", "Game/GUI.pkg", FALSE),
        F("m2", FALSE, "asset", "GUI.pkg_manifest", "", TRUE),
        F("m1", TRUE, "sjson", "Fx.sjson", "Game/Fx.sjson", FALSE),
        F("m2", TRUE, "sjson", "fx.sjson", "Game/fx.sjson", FALSE),
        F("m2", FALSE, "sjson", "Fx.sjson", "", FALSE)}

MCLower == [p \in {"Game/GUI.pkg", "Game/Fx.sjson", "Game/fx.sjson", "Game/gui/Fx.sjson"} |->
  CASE p = "Game/GUI.pkg" -> "game/gui.pkg"
    [] p = "Game/gui/Fx.sjson" -> "game/gui/fx.sjson"
    [] OTHER -> "game/fx.sjson"]

Q(leaf, path) == [leaf |-> leaf, path |-> path]
MCRequests == {Q("GUI.pkg", ""), Q("GUI.pkg", "Game/GUI.pkg"), Q("gui.pkg", ""),
               Q("GUI.pkg_manifest", ""), Q("Fx.sjson", "Game/Fx.sjson"),
               Q("Fx.sjson", "Game/gui/Fx.sjson"), Q("Fx.sjson", "")}

--------------------------------------------------------------------------------
\* What the mods have for a request, of what the walks came to: the assets of its
\* bare name, or else the overlays of its path, whatever their spelling.
Offers(r) ==
  LET named == {f \in seen : ~f.overlay /\ f.ext = "asset" /\ f.leaf = r.leaf}
      pathed == {f \in seen : f.overlay /\ f.ext = "sjson" /\ r.path # ""
                              /\ Lower[f.path] = Lower[r.path]}
  IN IF named # {} THEN named ELSE pathed

\* Once the hook is in, what the engine opens is a file a mod offers for what it
\* asked, and its own only if no mod offers one, or one of theirs it cannot name:
\* an asset stands for its bare name, a file in an overlay folder for its own path
\* and nothing else. A walk that an error ends early offers what it had come to
\* (append_path_detour, scan_plugin_data_files, scan_all_plugin_data).
ServesWhatModsOffer ==
  [][\A r \in Requests : hooked /\ AppendPath(r) =>
       \/ served' \in {f \in Offers(r) : ~f.long}
       \/ served' = Own /\ (Offers(r) = {} \/ \E f \in Offers(r) : f.long)]_fileVars

\* Two names that the same mods were seen to replace, as a package and its
\* manifest, are served from one mod, wherever an error ends the walk; unless the
\* path that wins one of them is too long for the engine's buffer, which leaves the
\* engine its own file for that one. A mod that was seen with only one of the two,
\* because it has no other or the walk ended between them, may split the pair
\* (append_path_detour, scan_plugin_data_files).
PairsFromOneMod ==
  LET Has(m, l) == \E f \in seen : IsAsset(f) /\ f.mod = m /\ f.leaf = l
      Gets(l)   == Substitute([leaf |-> l, path |-> ""])
  IN hooked => \A l, k \in DOMAIN assets :
       (\A f \in seen : Has(f.mod, l) <=> Has(f.mod, k)) =>
         Gets(l).mod = Gets(k).mod \/ \E n \in {l, k} : assets[n].long /\ Gets(n) = Own
================================================================================
