------------------------------ MODULE FileRedirect -----------------------------
(* Serving a mod's file when the engine opens the one it replaces: the table of *)
(* src/src/hades1/file_redirect.cpp, rebuilt by scan_legacy_mods on the script  *)
(* thread in every wave, and open_file_detour on whichever thread opens a file. *)
(*                                                                              *)
(* A path is the sequence of its components, normalised: what is a suffix at a  *)
(* path boundary, and which overlap is longest, is the same counted in          *)
(* components. A file is its path under Content. The engine opens it with a     *)
(* ResourceDirectory, the first components of that path, and the rest; or from  *)
(* the directory above Content, with a path that begins with Content.           *)
EXTENDS Integers, Sequences, SequencesExt

CONSTANTS
  Paths,         \* the files the engine opens
  Names,         \* what folders and files are called
  Depths,        \* per file, how many components the ResourceDirectory may take:
                 \* -1 if it is the one above Content
  Lists,         \* what a scan may register: sequences of [target, source]
  Openers        \* the threads that open files

\* What the engine opens has a name, whatever directory it opens it in.
ASSUME PathsAssumption ==
  \A f \in Paths : f \in Seq(Names) /\ Depths[f] \subseteq -1..(Len(f) - 1)
ASSUME ListsAssumption == \A l \in Lists : l \in Seq([target : Seq(Names), source : STRING])
ASSUME NamesAssumption == "Content" \in Names

VARIABLES
  redirects,  \* g_redirects
  list,       \* history: what the current wave's scan registers
  added,      \* how much of list is registered
  step,       \* per thread: "idle", "found", "done"
  request,    \* per thread: the file, the depth and the mode
  entry,      \* per thread, find_redirect's pointer: an index, 0 for nullptr
  stale,      \* per thread: has g_redirects changed since?
  got,        \* per thread, what the engine got
  refused,    \* history: per thread, was the replacement reached, and did not open?
  due         \* history: what the wave's list says it should get

table == <<redirects, list, added>>
opening == <<step, request, entry, stale, got, refused, due>>
redirectVars == <<table, opening>>

GameFile == "the game's own file"
NoOpen == [file |-> <<>>, depth |-> 0, write |-> FALSE]
Opens == {[file |-> f, depth |-> d, write |-> w] :
               f \in Paths, d \in UNION {Depths[g] : g \in Paths}, w \in BOOLEAN}

Sources == {e.source : e \in UNION {ToSet(l) : l \in Lists}}

TypeOK ==
  /\ redirects \in Seq(UNION {ToSet(l) : l \in Lists})
  /\ list \in Lists \cup {<<>>} /\ added \in 0..Len(list)
  /\ Len(redirects) <= added
  /\ \A i, j \in 1..Len(redirects) : redirects[i].target = redirects[j].target => i = j
  /\ step \in [Openers -> {"idle", "found", "done"}]
  /\ request \in [Openers -> Opens \cup {NoOpen}]
  /\ entry \in [Openers -> Nat] /\ {stale, refused} \subseteq [Openers -> BOOLEAN]
  /\ {got, due} \subseteq [Openers -> Sources \cup {GameFile}]

RedirectInit ==
  /\ redirects = <<>> /\ list = <<>> /\ added = 0
  /\ step = [o \in Openers |-> "idle"]
  /\ request = [o \in Openers |-> NoOpen]
  /\ entry = [o \in Openers |-> 0]
  /\ stale = [o \in Openers |-> FALSE] /\ refused = [o \in Openers |-> FALSE]
  /\ got = [o \in Openers |-> GameFile]
  /\ due = [o \in Openers |-> GameFile]

\* What a list of replacements means: the last mod to claim a file gets it.
Answer(l, r) ==
  LET claims == {i \in 1..Len(l) : l[i].target = r.file}
  IN  IF claims = {} \/ r.write THEN GameFile
      ELSE l[CHOOSE i \in claims : \A j \in claims : j <= i].source

--------------------------------------------------------------------------------
(* scan_legacy_mods, on the script thread.                                      *)

\* Every pointer into the vector dangles once it changes.
Dangle == stale' = [o \in Openers |-> stale[o] \/ step[o] = "found"]

\* clear_file_redirects.
Clear ==
  /\ added = Len(list)
  /\ list' \in Lists
  /\ redirects' = <<>> /\ added' = 0
  /\ Dangle
  /\ UNCHANGED <<step, request, entry, got, refused, due>>

Claimed(t) == {i \in 1..Len(redirects) : redirects[i].target = t}

\* Variant: a second claim is a second entry.
AddTwice ==
  /\ added < Len(list)
  /\ redirects' = Append(redirects, list[added + 1])
  /\ added' = added + 1
  /\ Dangle
  /\ UNCHANGED <<list, step, request, entry, got, refused, due>>
\* add_file_redirect: a later claim on a target takes over the earlier entry.
Add ==
  /\ added < Len(list)
  /\ LET new == list[added + 1]
     IN  redirects' = IF Claimed(new.target) # {}
                      THEN [i \in 1..Len(redirects) |->
                              IF i \in Claimed(new.target) THEN new ELSE redirects[i]]
                      ELSE Append(redirects, new)
  /\ added' = added + 1
  /\ Dangle
  /\ UNCHANGED <<list, step, request, entry, got, refused, due>>

--------------------------------------------------------------------------------
(* open_file_detour.                                                            *)

\* The path the engine asks with.
Wanted(r) == IF r.depth < 0 THEN <<"Content">> \o r.file
             ELSE SubSeq(r.file, r.depth + 1, Len(r.file))

Shorter(a, b) == IF Len(a) < Len(b) THEN Len(a) ELSE Len(b)

\* Request and target match if either is a suffix of the other, and not empty.
Match(t, w) == (IsSuffix(t, w) \/ IsSuffix(w, t)) /\ Shorter(w, t) > 0

\* Variant: the first match is taken.
FirstMatch(w) ==
  LET matches == {i \in 1..Len(redirects) : Match(redirects[i].target, w)}
  IN  IF matches = {} THEN 0 ELSE CHOOSE i \in matches : \A j \in matches : i <= j
\* find_redirect: the longest overlap, and of those the first.
FindRedirect(w) ==
  LET matches == {i \in 1..Len(redirects) : Match(redirects[i].target, w)}
      overlap(i) == Shorter(w, redirects[i].target)
  IN  IF matches = {} THEN 0
      ELSE CHOOSE i \in matches :
             \A j \in matches : /\ overlap(j) <= overlap(i)
                                /\ overlap(j) = overlap(i) => i <= j

\* The lookup, under g_mutex. It returns a pointer into g_redirects.
Find(o, r) ==
  /\ step[o] = "idle"
  /\ request' = [request EXCEPT ![o] = r]
  /\ entry' = [entry EXCEPT ![o] = FindRedirect(Wanted(r))]
  /\ stale' = [stale EXCEPT ![o] = FALSE]
  /\ due' = [due EXCEPT ![o] = Answer(list, r)]
  /\ step' = [step EXCEPT ![o] = "found"]
  /\ UNCHANGED <<table, got, refused>>

\* Only reads are substituted.
PassThrough(o) ==
  /\ step[o] = "found" /\ (entry[o] = 0 \/ request[o].write)
  /\ got' = [got EXCEPT ![o] = GameFile]
  /\ step' = [step EXCEPT ![o] = "done"]
  /\ UNCHANGED <<table, request, entry, stale, refused, due>>

\* rebase_for_resource_dir climbs out of the directory the target has beyond the
\* request, and from Content for a request as long as the target or longer; the
\* engine resolves that from the directory it asked in. Content/Mods is reached if
\* the two are as deep, never from above Content; otherwise the open fails.
Reached(e, r) ==
  LET climbs == IF Len(Wanted(r)) >= Len(e.target) THEN 0
                ELSE Len(e.target) - Len(Wanted(r))
  IN  climbs = r.depth

\* The entry is read after the lock is released. If the table has changed since,
\* the read is of freed or reused memory: the entry now in that place, or
\* nothing that opens. A replacement may be reached and fail to open all the same
\* (deleted, locked): whatever fails, the game's own file is opened instead.
Read(o) ==
  /\ step[o] = "found" /\ entry[o] # 0 /\ ~request[o].write
  /\ \E e \in ToSet(redirects) \cup {[target |-> <<>>, source |-> GameFile]},
        opens \in BOOLEAN :
       /\ ~stale[o] => e = redirects[entry[o]]
       /\ got' = [got EXCEPT ![o] = IF Reached(e, request[o]) /\ opens THEN e.source ELSE GameFile]
       /\ refused' = [refused EXCEPT ![o] = Reached(e, request[o]) /\ ~opens]
  /\ step' = [step EXCEPT ![o] = "done"]
  /\ UNCHANGED <<table, request, entry, stale, due>>

Close(o) ==
  /\ step[o] = "done"
  /\ step' = [step EXCEPT ![o] = "idle"]
  /\ request' = [request EXCEPT ![o] = NoOpen]
  /\ entry' = [entry EXCEPT ![o] = 0]
  /\ stale' = [stale EXCEPT ![o] = FALSE] /\ refused' = [refused EXCEPT ![o] = FALSE]
  /\ got' = [got EXCEPT ![o] = GameFile] /\ due' = [due EXCEPT ![o] = GameFile]
  /\ UNCHANGED table

RedirectNext ==
  \/ Clear \/ Add
  \/ \E o \in Openers :
       \/ \E r \in Opens : r.depth \in Depths[r.file] /\ Find(o, r)
       \/ PassThrough(o) \/ Read(o) \/ Close(o)

RedirectSpec == RedirectInit /\ [][RedirectNext]_redirectVars
================================================================================
