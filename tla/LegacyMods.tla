------------------------------- MODULE LegacyMods ------------------------------
(* The ModImporter-style mods of Content/Mods: parse_modfile, scan_legacy_mods  *)
(* and fire_legacy_imports of src/src/hades1/legacy_mods.cpp, one command, one  *)
(* file and one import at a time.                                               *)
(*                                                                              *)
(* A mod is a number, so that names are ordered; its root modfile has the same  *)
(* number. What the text of a modfile says is body[f], a sequence of commands   *)
(* (how it is read from the text is ModfileText); a file outside DOMAIN body    *)
(* cannot be read. Paths are names: two spellings of one path are one name, and *)
(* a source that exists is one engine_script_path can spell. What becomes of a  *)
(* registered file is PackageInstall and FileRedirect; what an import runs is   *)
(* ScriptLoading.                                                               *)
EXTENDS Integers, SequencesExt

CONSTANTS
  Mods,         \* the folders of Content/Mods
  Worlds,       \* the contents Content/Mods may have: modfile -> commands
  Folder,       \* what an Include argument names: a set of modfiles
  Sources,      \* the files the commands name
  Scripts,      \* the scripts they target
  DefaultTarget,
  DefaultPriority,
  MaxDepth,     \* 8 in the code
  MaxScans      \* bound on the waves

ASSUME NumbersAssumption == /\ Mods \subseteq Nat
                            /\ DefaultPriority \in Int
                            /\ {MaxDepth, MaxScans} \subseteq Nat
ASSUME TargetAssumption == DefaultTarget \in Scripts
\* A modfile is a sequence of commands, each with arguments of its own kind.
ASSUME WorldsAssumption ==
  \A w \in Worlds : \A f \in DOMAIN w :
    /\ w[f] \in Seq(ToSet(w[f]))
    /\ \A i \in DOMAIN w[f] :
         LET c == w[f][i]
         IN  /\ c.cmd = "To" => c.args \in Seq(Scripts)
             /\ c.cmd = "Priority" => c.args \in Seq(Int)
             /\ c.cmd = "Include" => c.args \in Seq(DOMAIN Folder)
             /\ c.cmd \in {"Import", "TopImport", "Replace", "SJSON"} => c.args \in Seq(Sources)

VARIABLES
  body,        \* what is in Content/Mods
  exists,      \* the sources that exist now
  enabled,     \* "Load Content Mods Folder"
  mods,        \* g_legacy_mods
  dir,         \* folders directory_iterator has still to yield
  mod,         \* the mod being parsed
  stack,       \* the modfiles being parsed, the innermost Include last
  pending,     \* files still to register, or imports still to fire
  registered,  \* the files handed to install_package or add_file_redirect
  call,        \* the script being loaded, and whether before its body (top)
  fired,       \* the imports made for it
  scans, pc

world == <<body, exists, enabled>>
vars == <<world, mods, dir, mod, stack, pending, registered, call, fired, scans, pc>>

Entry == [target : Scripts, source : Sources, priority : Int, mod : Mods,
          kind : {"Import", "TopImport", "Replace", "SJSON"}]
NoCall == [script |-> DefaultTarget, top |-> FALSE]

TypeOK ==
  /\ body \in Worlds /\ exists \subseteq Sources /\ enabled \in BOOLEAN
  /\ \A i \in DOMAIN mods : /\ mods[i].name \in Mods
                            /\ mods[i].imports \in Seq(Entry)
                            /\ mods[i].files \in Seq(Entry)
  /\ dir \subseteq Mods
  /\ Len(stack) <= MaxDepth + 1
  /\ {pending, registered, fired} \subseteq Seq(Entry)
  /\ call \in [script : Scripts, top : BOOLEAN]
  /\ scans \in 0..MaxScans
  /\ pc \in {"ready", "dir", "parse", "files", "fire"}

NewMod(m) == [name |-> m, priority |-> DefaultPriority, imports |-> <<>>, files |-> <<>>, missing |-> 0]

\* The sources a world names: whether the others exist does not show.
Named(files) ==
  {s \in Sources : \E f \in DOMAIN files : \E i \in DOMAIN files[f] :
     /\ files[f][i].cmd \notin {"To", "Priority", "Include"}
     /\ s \in ToSet(files[f][i].args)}

Init ==
  /\ body \in Worlds /\ exists \in SUBSET Named(body) /\ enabled \in BOOLEAN
  /\ mods = <<>> /\ dir = {} /\ mod = NewMod(0) /\ stack = <<>>
  /\ pending = <<>> /\ registered = <<>> /\ call = NoCall /\ fired = <<>>
  /\ scans = 0 /\ pc = "ready"

--------------------------------------------------------------------------------
(* parse_modfile *)

\* Variant: an included modfile goes on with the target and the priority of the
\* one that includes it.
NewFrameInherits(f, st) ==
  IF st = <<>> THEN [file |-> f, at |-> 1, todo |-> <<>>,
                     targets |-> <<DefaultTarget>>, priority |-> DefaultPriority]
               ELSE [Last(st) EXCEPT !.file = f, !.at = 1, !.todo = <<>>]
\* Every modfile starts from the game's default target and priority.
NewFrame(f, st) == [file |-> f, at |-> 1, todo |-> <<>>,
                    targets |-> <<DefaultTarget>>, priority |-> DefaultPriority]

\* Variant: one level more.
OpenDeeper(f, st) ==
  IF Len(st) > MaxDepth + 1 \/ f \notin DOMAIN body THEN st ELSE Append(st, NewFrame(f, st))
\* Opens a modfile on top of st, unless it is nested too deeply or unreadable.
Open(f, st) ==
  IF Len(st) > MaxDepth \/ f \notin DOMAIN body THEN st ELSE Append(st, NewFrame(f, st))

Frame   == Last(stack)
Reading == pc = "parse" /\ stack # <<>> /\ Frame.todo = <<>>
Command == body[Frame.file][Frame.at]
At(cmd) == Reading /\ Frame.at \in DOMAIN body[Frame.file] /\ Command.cmd = cmd
Past(frame) == Append(Front(stack), [frame EXCEPT !.at = @ + 1])
KeepScan == UNCHANGED <<world, mods, dir, pending, registered, call, fired, scans, pc>>

\* `To` with no argument resets to the game's default.
To ==
  /\ At("To")
  /\ stack' = Past([Frame EXCEPT !.targets = IF Command.args = <<>> THEN <<DefaultTarget>>
                                                                     ELSE Command.args])
  /\ UNCHANGED mod
  /\ KeepScan

\* `Load Priority` with no readable number (args is empty) means the default.
Priority ==
  /\ At("Priority")
  /\ stack' = Past([Frame EXCEPT !.priority = IF Command.args = <<>> THEN DefaultPriority
                                                                      ELSE Command.args[1]])
  /\ UNCHANGED mod
  /\ KeepScan

Include ==
  /\ At("Include")
  /\ stack' = Past([Frame EXCEPT !.todo = [i \in DOMAIN Command.args |-> Folder[Command.args[i]]]])
  /\ UNCHANGED mod
  /\ KeepScan

\* Variant: a modfile that cannot be opened is tried again.
OpenIncludedAgain ==
  /\ pc = "parse" /\ stack # <<>> /\ Frame.todo # <<>>
  /\ LET todo == IF Head(Frame.todo) = {} THEN Tail(Frame.todo) ELSE Frame.todo
     IN IF Head(Frame.todo) = {}
        THEN stack' = Append(Front(stack), [Frame EXCEPT !.todo = todo])
        ELSE \E f \in Head(Frame.todo) :
               LET st == Append(Front(stack), [Frame EXCEPT !.todo[1] = @ \ {f}])
               IN stack' = IF Open(f, st) = st THEN stack ELSE Open(f, st)
  /\ UNCHANGED mod
  /\ KeepScan
\* The next modfile an Include names; a folder yields its files in any order.
OpenIncluded ==
  /\ pc = "parse" /\ stack # <<>> /\ Frame.todo # <<>>
  /\ IF Head(Frame.todo) = {}
     THEN stack' = Append(Front(stack), [Frame EXCEPT !.todo = Tail(@)])
     ELSE \E f \in Head(Frame.todo) :
            stack' = Open(f, Append(Front(stack), [Frame EXCEPT !.todo[1] = @ \ {f}]))
  /\ UNCHANGED mod
  /\ KeepScan

\* One entry per target and argument, the targets outermost.
Entries(frame, c) ==
  FlattenSeq([i \in DOMAIN frame.targets |->
    [j \in DOMAIN c.args |-> [target |-> frame.targets[i], source |-> c.args[j],
                              priority |-> frame.priority, kind |-> c.cmd,
                              mod |-> mod.name]]])

Import ==
  /\ At("Import") \/ At("TopImport")
  /\ mod' = [mod EXCEPT !.imports = @ \o Entries(Frame, Command)]
  /\ stack' = Past(Frame)
  /\ KeepScan

\* Replace, and SJSON, which differ in what becomes of the entry.
AddFiles ==
  /\ At("Replace") \/ At("SJSON")
  /\ mod' = [mod EXCEPT !.files = @ \o Entries(Frame, Command)]
  /\ stack' = Past(Frame)
  /\ KeepScan

\* XML, CSV, Map, and what is not a command at all: a warning, and on.
Ignored ==
  /\ At("XML")
  /\ stack' = Past(Frame)
  /\ UNCHANGED mod
  /\ KeepScan

EndOfModfile ==
  /\ Reading /\ Frame.at \notin DOMAIN body[Frame.file]
  /\ stack' = Front(stack)
  /\ UNCHANGED mod
  /\ KeepScan

Parse == \/ To \/ Priority \/ Include \/ OpenIncluded \/ Import \/ AddFiles
         \/ Ignored \/ EndOfModfile

--------------------------------------------------------------------------------
(* scan_legacy_mods *)

\* A wave starts: nothing is left of the last one, enabled or not.
StartScan ==
  /\ pc = "ready" /\ scans < MaxScans
  /\ scans' = scans + 1
  /\ mods' = <<>> /\ registered' = <<>>
  /\ IF enabled THEN dir' = Mods /\ pc' = "dir" ELSE UNCHANGED <<dir, pc>>
  /\ UNCHANGED <<world, mod, stack, pending, call, fired>>

\* directory_iterator yields a folder; one without a modfile.txt is skipped.
Visit(m) ==
  /\ pc = "dir" /\ m \in dir
  /\ dir' = dir \ {m}
  /\ mod' = NewMod(m)
  /\ stack' = Open(m, <<>>)
  /\ pc' = IF m \in DOMAIN body THEN "parse" ELSE "dir"
  /\ UNCHANGED <<world, mods, pending, registered, call, fired, scans>>

Missing(entries) == Cardinality({i \in DOMAIN entries : entries[i].source \notin exists})
Lowest(entries) == Min({DefaultPriority} \cup {entries[i].priority : i \in DOMAIN entries})

\* The mod joins g_legacy_mods, unless it declares nothing.
EndOfMod ==
  /\ pc = "parse" /\ stack = <<>>
  /\ LET entries == mod.imports \o mod.files
     IN mods' = IF entries = <<>> THEN mods
                ELSE Append(mods, [mod EXCEPT !.priority = Lowest(entries), !.missing = Missing(entries)])
  /\ pc' = "dir"
  /\ UNCHANGED <<world, dir, mod, stack, pending, registered, call, fired, scans>>

\* Variant: the name does not break ties.
BeforeByPriority(a, b) == a.priority < b.priority
\* Lower priority first; the name breaks ties.
Before(a, b) == IF a.priority # b.priority THEN a.priority < b.priority ELSE a.name < b.name

\* std::sort: nothing is said of the order of two of which neither is before the
\* other.
EndOfFolder ==
  /\ pc = "dir" /\ dir = {}
  /\ \E place \in Bijection(DOMAIN mods, DOMAIN mods) :
       mods' = [i \in DOMAIN mods |-> mods[place[i]]]
  /\ \A i, j \in DOMAIN mods : i < j => ~Before(mods'[j], mods'[i])
  /\ pending' = FlattenSeq([i \in DOMAIN mods |-> mods'[i].files])
  /\ mod' = NewMod(0)
  /\ pc' = "files"
  /\ UNCHANGED <<world, dir, stack, registered, call, fired, scans>>

\* The next file is registered; one that does not exist is reported and skipped,
\* and so is a merge, which is not supported.
Register ==
  /\ pc = "files" /\ pending # <<>>
  /\ registered' = IF Head(pending).source \in exists /\ Head(pending).kind = "Replace"
                   THEN Append(registered, Head(pending))
                   ELSE registered
  /\ pending' = Tail(pending)
  /\ UNCHANGED <<world, mods, dir, mod, stack, call, fired, scans, pc>>

EndScan ==
  /\ pc = "files" /\ pending = <<>>
  /\ pc' = "ready"
  /\ UNCHANGED <<world, mods, dir, mod, stack, pending, registered, call, fired, scans>>

Scan == \/ \E m \in Mods : Visit(m)
        \/ Parse \/ EndOfMod \/ EndOfFolder \/ Register \/ EndScan

--------------------------------------------------------------------------------
(* fire_legacy_imports *)

\* The imports that target a script, in the order of the mods.
ImportsOf(script, top) ==
  LET IfMeant(e) == IF (e.kind = "TopImport") = top /\ e.target = script THEN <<e>> ELSE <<>>
      Meant(imports) == FlattenSeq([i \in DOMAIN imports |-> IfMeant(imports[i])])
  IN  FlattenSeq([i \in DOMAIN mods |-> Meant(mods[i].imports)])

\* The engine loads a script: the imports that target it are made, before its
\* body (top) or after.
Fire(script, top) ==
  /\ pc = "ready" /\ mods # <<>>
  /\ call' = [script |-> script, top |-> top]
  /\ fired' = <<>>
  /\ pending' = ImportsOf(script, top)
  /\ pc' = "fire"
  /\ UNCHANGED <<world, mods, dir, mod, stack, registered, scans>>

\* The next import: checked again now, not trusted from the scan.
FireNext ==
  /\ pc = "fire" /\ pending # <<>>
  /\ fired' = IF Head(pending).source \in exists THEN Append(fired, Head(pending)) ELSE fired
  /\ pending' = Tail(pending)
  /\ UNCHANGED <<world, mods, dir, mod, stack, registered, call, scans, pc>>

EndFire ==
  /\ pc = "fire" /\ pending = <<>>
  /\ call' = NoCall /\ fired' = <<>>
  /\ pc' = "ready"
  /\ UNCHANGED <<world, mods, dir, mod, stack, pending, registered, scans>>

\* The player edits Content/Mods, or the setting, while nothing is scanned.
Edit ==
  /\ pc = "ready"
  /\ \/ \E s \in Named(body) : exists' \in {exists \cup {s}, exists \ {s}} /\ UNCHANGED enabled
     \/ enabled' = ~enabled /\ UNCHANGED exists
  /\ UNCHANGED <<body, mods, dir, mod, stack, pending, registered, call, fired, scans, pc>>

Next == \/ StartScan \/ Scan
        \/ \E script \in Scripts, top \in BOOLEAN : Fire(script, top)
        \/ FireNext \/ EndFire
        \/ Edit

Spec == Init /\ [][Next]_vars
\* The scan runs on the game's own thread, inside the load of Main.lua: it is
\* not left until it is done.
FairSpec == Spec /\ WF_vars(Scan)
================================================================================
