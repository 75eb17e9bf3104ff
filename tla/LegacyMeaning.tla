------------------------------ MODULE LegacyMeaning ----------------------------
(* What the modfiles of Content/Mods declare, and the order ModImporter applies *)
(* it in, said without following parse_modfile. An entry has an origin: the     *)
(* route of Includes that leads to a modfile, a line of that modfile, one of    *)
(* the targets in force there and one of the arguments.                         *)
EXTENDS LegacyMods

ImportKinds == {"Import", "TopImport"}
FileKinds   == {"Replace", "SJSON"}

\* A step of a route: a line that Includes, one of its arguments, and a modfile
\* that one names, if it can be read.
StepsOf(f) ==
  UNION {UNION {{[at |-> i, arg |-> a, file |-> g] : g \in Folder[body[f][i].args[a]] \cap DOMAIN body}
                : a \in DOMAIN body[f][i].args}
         : i \in {i \in DOMAIN body[f] : body[f][i].cmd = "Include"}}
Steps == UNION {StepsOf(f) : f \in DOMAIN body}

\* Where k steps of a route lead, from the root of mod m.
FileAt(m, route, k) == IF k = 0 THEN m ELSE route[k].file
Reached(m, route) == FileAt(m, route, Len(route))

\* ModImporter's modfiles may nest MaxDepth deep.
Routes(m) ==
  {r \in UNION {[1..n -> Steps] : n \in 0..MaxDepth} :
     m \in DOMAIN body /\ \A k \in DOMAIN r : r[k] \in StepsOf(FileAt(m, r, k - 1))}

\* What is in force at a line: the last To, the last Load Priority before it.
Above(f, cmd, at) == {i \in 1..(at - 1) : body[f][i].cmd = cmd}
LastArgs(f, cmd, at) ==
  IF Above(f, cmd, at) = {} THEN <<>> ELSE body[f][Max(Above(f, cmd, at))].args
TargetsAt(f, at) == IF LastArgs(f, "To", at) = <<>> THEN <<DefaultTarget>> ELSE LastArgs(f, "To", at)
PriorityAt(f, at) ==
  IF LastArgs(f, "Priority", at) = <<>> THEN DefaultPriority ELSE LastArgs(f, "Priority", at)[1]

\* The origins of what m declares with a command of some kinds.
OriginsAt(f, route, at) ==
  {[route |-> route, at |-> at, target |-> t, arg |-> a] :
     t \in DOMAIN TargetsAt(f, at), a \in DOMAIN body[f][at].args}
Origins(m, kinds) ==
  UNION {UNION {OriginsAt(Reached(m, r), r, i)
                : i \in {i \in DOMAIN body[Reached(m, r)] : body[Reached(m, r)][i].cmd \in kinds}}
         : r \in Routes(m)}
Declared(m) == Origins(m, ImportKinds \cup FileKinds)

EntryOf(m, o) ==
  LET f == Reached(m, o.route)
  IN  [target |-> TargetsAt(f, o.at)[o.target], source |-> body[f][o.at].args[o.arg],
       priority |-> PriorityAt(f, o.at), kind |-> body[f][o.at].cmd, mod |-> m]

--------------------------------------------------------------------------------
(* As written: where two origins part, one is on an earlier line, or has an     *)
(* earlier target, or an earlier argument.                                      *)

Place(o, k) == IF k <= Len(o.route) THEN <<o.route[k].at, o.route[k].arg, 0>>
                                    ELSE <<o.at, o.target, o.arg>>
Less(p, q) == \/ p[1] < q[1]
              \/ p[1] = q[1] /\ (p[2] < q[2] \/ (p[2] = q[2] /\ p[3] < q[3]))
Share(o, q, k) == k <= Len(o.route) /\ k <= Len(q.route) /\ \A i \in 1..k : o.route[i] = q.route[i]
Precedes(o, q) == \E k \in 0..Len(o.route) : Share(o, q, k) /\ Less(Place(o, k + 1), Place(q, k + 1))

\* ModImporter's order: by the priority of each command, then by mod, then as
\* written.
Earlier(x, y) ==
  LET p == EntryOf(x[1], x[2]).priority
      q == EntryOf(y[1], y[2]).priority
  IN  p < q \/ (p = q /\ (x[1] < y[1] \/ (x[1] = y[1] /\ Precedes(x[2], y[2]))))

\* s is the entries of A, in that order.
AppliesInOrder(s, A) ==
  /\ Len(s) = Cardinality(A)
  /\ \A x \in A : s[1 + Cardinality({y \in A : Earlier(y, x)})] = EntryOf(x[1], x[2])

\* Each mod keeps to one priority, no later than the default, and no folder it
\* includes holds several modfiles.
OnePriorityEach ==
  \A m \in Mods : \A o, q \in Declared(m) : /\ EntryOf(m, o).priority = EntryOf(m, q).priority
                                            /\ EntryOf(m, o).priority <= DefaultPriority
NoFolders == \A f \in DOMAIN body : \A i \in DOMAIN body[f] :
  body[f][i].cmd = "Include" => \A a \in DOMAIN body[f][i].args :
    \A g, h \in Folder[body[f][i].args[a]] : g = h

--------------------------------------------------------------------------------
\* Declared, there now, and of the kind asked for: a file to register, or an
\* import for the script that is being loaded.
Wanted(e) ==
  /\ e.source \in exists
  /\ IF pc = "files" THEN e.kind = "Replace"
     ELSE /\ e.kind = IF call.top THEN "TopImport" ELSE "Import"
          /\ e.target = call.script
Meant == {x \in UNION {{<<m, o>> : o \in Declared(m)} : m \in Mods} : Wanted(EntryOf(x[1], x[2]))}

\* When each mod keeps to one priority no higher than 100: the imports made for
\* a script, and the files registered, are those of every mod that exist now, in
\* the order of ModImporter - whatever the order of the folders on disk, the
\* Includes, and the mistakes of the other mods; so that the last claim to a file
\* is ModImporter's last (parse_modfile, scan_legacy_mods, fire_legacy_imports).
AppliesAsModImporter ==
  pc \in {"fire", "files"} /\ pending = <<>> /\ OnePriorityEach /\ NoFolders =>
    AppliesInOrder(IF pc = "fire" THEN fired ELSE registered, Meant)

\* s holds each entry as often as m declares it.
HoldsAll(s, m, kinds) ==
  LET origins == Origins(m, kinds)
  IN  \A e \in ToSet(s) \cup {EntryOf(m, o) : o \in origins} :
        Cardinality({i \in DOMAIN s : s[i] = e}) = Cardinality({o \in origins : EntryOf(m, o) = e})

\* Nothing a mod declares is lost or made twice, whatever the priorities and the
\* folders, and a mod is listed once, unless it declares nothing (parse_modfile,
\* scan_legacy_mods).
DeclaresAll ==
  pc = "files" =>
    /\ \A m \in Mods : Cardinality({i \in DOMAIN mods : mods[i].name = m})
                         = IF Declared(m) = {} THEN 0 ELSE 1
    /\ \A i \in DOMAIN mods : /\ HoldsAll(mods[i].imports, mods[i].name, ImportKinds)
                              /\ HoldsAll(mods[i].files, mods[i].name, FileKinds)
================================================================================
