--------------------------- MODULE LegacyConfigProofs --------------------------
(* Proofs about LegacyMods and LegacyConfig, for any mods, modfiles, config.lua, *)
(* tables and settings: what the scan and the imports handle (ScanTypes), that a *)
(* .cfg is its mod's own, and that what the player sets wins over the mods'      *)
(* defaults.                                                                     *)
EXTENDS MCLegacyConfig, LegacyMeaning, SequenceTheorems, FiniteSetTheorems, TLAPS

--------------------------------------------------------------------------------
(* Sequences made of sequences.                                                 *)

\* A set of numbers has a least one.
LEMMA LeastOne ==
  ASSUME NEW T \in SUBSET Nat, T # {}
  PROVE  \E n \in T : \A m \in T : n <= m
<1>. DEFINE Below == {0..n : n \in T}
<1>1. Below \subseteq FiniteSubsetsOf(Nat) /\ Below # {}
  <2>1. \A n \in T : IsFiniteSet(0..n) /\ 0..n \subseteq Nat
    BY FS_Interval
  <2>2. QED
    BY <2>1 DEF FiniteSubsetsOf
<1>2. PICK X \in Below : \A Y \in Below : <<Y, X>> \notin StrictSubsetOrdering(Nat)
  <2>. HIDE DEF Below
  <2>1. QED
    BY <1>1, FS_StrictSubsetOrderingWellFounded, WFMin
<1>3. PICK n \in T : X = 0..n
  BY <1>2
<1>4. ASSUME NEW m \in T, m < n PROVE FALSE
  <2>1. 0..m \subseteq 0..n /\ n \in 0..n /\ n \notin 0..m /\ 0..n \subseteq Nat
    BY <1>4
  <2>2. 0..m \in Below /\ <<0..m, X>> \in StrictSubsetOrdering(Nat)
    BY <1>3, <2>1 DEF StrictSubsetOrdering
  <2>3. QED
    BY <1>2, <2>2
<1>5. QED
  BY <1>4

\* What FlattenSeq makes of the first n sequences of s.
Unfolds(g, s, n) == g = [i \in 1..n |-> IF i = 1 THEN s[i] ELSE g[i - 1] \o s[i]]

LEMMA UnfoldsOne ==
  ASSUME NEW s, NEW n \in Nat, NEW g, Unfolds(g, s, n)
  PROVE  \E h : Unfolds(h, s, n + 1)
<1>1. PICK last : last = IF n = 0 THEN s[n + 1] ELSE g[n] \o s[n + 1]
  OBVIOUS
<1>2. PICK h : h = [i \in 1..(n + 1) |-> IF i = n + 1 THEN last ELSE g[i]]
  OBVIOUS
<1>3. \A i \in 1..n : g[i] = IF i = 1 THEN s[i] ELSE g[i - 1] \o s[i]
  BY DEF Unfolds
<1>4. h[n + 1] = last /\ \A i \in 1..n : h[i] = g[i]
  BY <1>2
<1>5. ASSUME NEW i \in 1..(n + 1) PROVE h[i] = IF i = 1 THEN s[i] ELSE h[i - 1] \o s[i]
  <2>1. CASE i = n + 1 /\ i = 1
    BY <1>1, <1>4, <2>1
  <2>2. CASE i = n + 1 /\ n \in 1..n
    <3>1. i - 1 = n /\ i # 1 /\ n # 0
      BY <2>2
    <3>2. h[i] = g[n] \o s[i] /\ h[i - 1] = g[n]
      BY <1>1, <1>4, <2>2, <3>1
    <3>3. QED
      BY <3>1, <3>2
  <2>3. CASE i \in 1..n
    <3>1. CASE i = 1
      BY <1>3, <1>4, <2>3, <3>1
    <3>2. CASE i # 1
      <4>1. i - 1 \in 1..n
        BY <2>3, <3>2
      <4>2. QED
        BY <1>3, <1>4, <2>3, <3>2, <4>1
    <3>3. QED
      BY <3>1, <3>2
  <2>4. QED
    BY <2>1, <2>2, <2>3
<1>6. h = [i \in 1..(n + 1) |-> h[i]]
  BY <1>2
<1>7. Unfolds(h, s, n + 1)
  BY <1>5, <1>6 DEF Unfolds
<1>8. QED
  BY <1>7

LEMMA UnfoldsAll ==
  ASSUME NEW s, NEW n \in Nat
  PROVE  \E g : Unfolds(g, s, n)
<1>. DEFINE T == {m \in Nat : ~\E g : Unfolds(g, s, m)}
<1>1. SUFFICES ASSUME T # {} PROVE FALSE
  OBVIOUS
<1>2. PICK m \in T : \A k \in T : m <= k
  <2>1. T \in SUBSET Nat
    OBVIOUS
  <2>. HIDE DEF T
  <2>2. QED
    BY <1>1, <2>1, LeastOne
<1>3. CASE m = 0
  <2>1. Unfolds([i \in 1..0 |-> 0], s, 0)
    BY DEF Unfolds
  <2>2. QED
    BY <1>3, <2>1
<1>4. CASE m # 0
  <2>1. m - 1 \in Nat /\ m - 1 \notin T /\ (m - 1) + 1 = m
    BY <1>2, <1>4
  <2>2. PICK g : Unfolds(g, s, m - 1)
    BY <2>1
  <2>3. \E h : Unfolds(h, s, (m - 1) + 1)
    BY <2>1, <2>2, UnfoldsOne
  <2>4. QED
    BY <2>1, <2>3
<1>5. QED
  BY <1>3, <1>4

\* Sequences over S make a sequence over S.
LEMMA FlattenType ==
  ASSUME NEW S, NEW s \in Seq(Seq(S))
  PROVE  FlattenSeq(s) \in Seq(S)
<1>1. CASE Len(s) = 0
  BY <1>1 DEF FlattenSeq
<1>2. CASE Len(s) # 0
  <2>1. Len(s) \in Nat /\ Len(s) > 0 /\ \A i \in 1..Len(s) : s[i] \in Seq(S)
    BY <1>2
  <2>2. PICK g : Unfolds(g, s, Len(s)) /\ FlattenSeq(s) = g[Len(s)]
    BY <1>2, <2>1, UnfoldsAll DEF FlattenSeq, Unfolds
  <2>3. \A i \in 1..Len(s) : g[i] = IF i = 1 THEN s[i] ELSE g[i - 1] \o s[i]
    BY <2>2 DEF Unfolds
  <2>. DEFINE T == {i \in 1..Len(s) : g[i] \notin Seq(S)}
  <2>4. ASSUME T # {} PROVE FALSE
    <3>1. T \in SUBSET Nat
      OBVIOUS
    <3>. HIDE DEF T
    <3>2. PICK i \in T : \A j \in T : i <= j
      BY <2>4, <3>1, LeastOne
    <3>. USE DEF T
    <3>3. i \in 1..Len(s) /\ g[i] \notin Seq(S) /\ i # 1
      BY <2>1, <2>3
    <3>4. i - 1 \in 1..Len(s) /\ i - 1 \notin T
      BY <2>1, <3>2, <3>3
    <3>5. g[i - 1] \in Seq(S) /\ s[i] \in Seq(S)
      BY <2>1, <3>3, <3>4
    <3>6. g[i] = g[i - 1] \o s[i]
      BY <2>3, <3>3
    <3>7. QED
      BY <3>3, <3>5, <3>6, ConcatProperties
  <2>5. QED
    BY <2>1, <2>2, <2>4
<1>3. QED
  BY <1>1, <1>2

LEMMA FrontLast ==
  ASSUME NEW S, NEW s \in Seq(S), s # <<>>
  PROVE  /\ Front(s) \in Seq(S) /\ Len(Front(s)) = Len(s) - 1 /\ Len(s) \in Nat \ {0}
         /\ \A i \in 1..(Len(s) - 1) : Front(s)[i] = s[i]
         /\ Last(s) = s[Len(s)] /\ Last(s) \in S
<1>1. Len(s) \in Nat \ {0}
  BY EmptySeq, LenProperties
<1>2. Front(s) = SubSeq(s, 1, Len(s) - 1) /\ Last(s) = s[Len(s)]
  BY DEF Front, Last
<1>3. \A i \in 1..(Len(s) - 1) : s[i] \in S
  BY <1>1
<1>4. /\ Front(s) \in Seq(S)
      /\ Len(Front(s)) = IF 1 <= Len(s) - 1 THEN (Len(s) - 1) - 1 + 1 ELSE 0
      /\ \A i \in 1..((Len(s) - 1) - 1 + 1) : Front(s)[i] = s[1 + i - 1]
  <2>1. 1 \in Int /\ Len(s) - 1 \in Int
    BY <1>1
  <2>2. QED
    BY <1>2, <1>3, <2>1, SubSeqProperties
<1>5. s[Len(s)] \in S
  BY <1>1
<1>6. (Len(s) - 1) - 1 + 1 = Len(s) - 1 /\ \A i \in 1..(Len(s) - 1) : 1 + i - 1 = i
  BY <1>1
<1>7. QED
  BY <1>1, <1>2, <1>4, <1>5, <1>6

\* The last of a sequence, replaced.
LEMMA ReplaceLast ==
  ASSUME NEW S, NEW s \in Seq(S), s # <<>>, NEW x \in S
  PROVE  /\ Append(Front(s), x) \in Seq(S) /\ Len(Append(Front(s), x)) = Len(s)
         /\ Append(Front(s), x)[Len(s)] = x
         /\ \A i \in 1..(Len(s) - 1) : Append(Front(s), x)[i] = s[i]
BY FrontLast, AppendProperties

--------------------------------------------------------------------------------
(* The scan and the imports: each entry names a source of a modfile of its mod. *)

OwnEntry == {e \in Entry : e.source \in SourcesOf(e.mod)}
ParsedMod == [name : Mods \cup {0}, priority : {DefaultPriority}, imports : Seq(OwnEntry),
              files : Seq(OwnEntry), missing : {0}]
\* In the list, with whatever the lowest priority comes to.
ListedMod == [name : Mods, priority : {Lowest(s) : s \in Seq(OwnEntry)}, imports : Seq(OwnEntry),
              files : Seq(OwnEntry), missing : Nat]
ParseFrame(m) ==
  [file : ModfilesOf(m) \cap DOMAIN body, at : Nat, todo : Seq(SUBSET ModfilesOf(m)),
   targets : Seq(Scripts), priority : Int]
Call == [script : Scripts, top : BOOLEAN]

ScanTypes ==
  /\ body \in Worlds /\ exists \subseteq Sources /\ enabled \in BOOLEAN
  /\ mods \in Seq(ListedMod) /\ mod \in ParsedMod
  /\ dir \subseteq Mods
  /\ stack \in Seq(ParseFrame(mod.name)) /\ Len(stack) <= MaxDepth + 1
  /\ stack # <<>> => pc = "parse"
  /\ pc = "parse" => mod.name \in Mods
  /\ {pending, registered, fired} \subseteq Seq(OwnEntry)
  /\ call \in Call
  /\ scans \in 0..MaxScans
  /\ pc \in {"ready", "dir", "parse", "files", "fire"}

LEMMA ScanTypesMean == ScanTypes => TypeOK
<1> SUFFICES ASSUME ScanTypes PROVE TypeOK
  OBVIOUS
<1>1. OwnEntry \subseteq Entry /\ Seq(OwnEntry) \subseteq Seq(Entry)
  BY DEF OwnEntry
<1>2. \A i \in DOMAIN mods : /\ mods[i].name \in Mods
                             /\ mods[i].imports \in Seq(Entry)
                             /\ mods[i].files \in Seq(Entry)
  <2>1. \A i \in DOMAIN mods : mods[i] \in ListedMod
    BY DEF ScanTypes
  <2>2. QED
    BY <1>1, <2>1 DEF ListedMod
<1>3. QED
  BY <1>1, <1>2 DEF ScanTypes, TypeOK, Call

\* None of this depends on more than what is in Content/Mods.
LEMMA SameWorld ==
  ASSUME body' = body
  PROVE  /\ OwnEntry' = OwnEntry /\ ParsedMod' = ParsedMod
         /\ \A m : /\ ModfilesOf(m)' = ModfilesOf(m) /\ SourcesOf(m)' = SourcesOf(m)
                   /\ ParseFrame(m)' = ParseFrame(m)
BY DEF OwnEntry, ParsedMod, ParseFrame, ModfilesOf, SourcesOf, Closed

\* A mod's modfiles are closed under Include.
LEMMA IncludedToo ==
  ASSUME NEW m, NEW f \in ModfilesOf(m) \cap DOMAIN body, NEW i \in DOMAIN body[f],
         body[f][i].cmd = "Include", NEW a \in DOMAIN Folder, a \in ToSet(body[f][i].args)
  PROVE  Folder[a] \subseteq ModfilesOf(m)
<1>1. Folder[a] \subseteq Modfiles
  BY DEF Modfiles
<1>2. ASSUME NEW s \in SUBSET Modfiles, m \in s, Closed(s) PROVE Folder[a] \subseteq s
  BY <1>2 DEF Closed, ModfilesOf
<1>3. QED
  BY <1>1, <1>2 DEF ModfilesOf

LEMMA RootIsOwn == \A m \in Mods : m \in ModfilesOf(m)
BY DEF ModfilesOf, Modfiles

LEMMA OpenTypes ==
  ASSUME NEW m, NEW f \in ModfilesOf(m), NEW st \in Seq(ParseFrame(m)), Len(st) <= MaxDepth + 1
  PROVE  Open(f, st) \in Seq(ParseFrame(m)) /\ Len(Open(f, st)) <= MaxDepth + 1
<1>1. MaxDepth \in Nat /\ DefaultTarget \in Scripts /\ DefaultPriority \in Int
  BY NumbersAssumption, TargetAssumption
<1>2. CASE Len(st) > MaxDepth \/ f \notin DOMAIN body
  BY <1>2 DEF Open
<1>3. CASE ~(Len(st) > MaxDepth \/ f \notin DOMAIN body)
  <2>1. NewFrame(f, st) \in ParseFrame(m)
    BY <1>1, <1>3 DEF NewFrame, ParseFrame
  <2>2. Open(f, st) = Append(st, NewFrame(f, st)) /\ Len(st) <= MaxDepth
    BY <1>1, <1>3 DEF Open
  <2>3. QED
    BY <1>1, <2>1, <2>2, AppendProperties
<1>4. QED
  BY <1>2, <1>3

\* What a reading frame and its command are.
LEMMA FrameIs ==
  ASSUME ScanTypes, stack # <<>>
  PROVE  /\ Frame \in ParseFrame(mod.name) /\ pc = "parse" /\ mod.name \in Mods
         /\ Front(stack) \in Seq(ParseFrame(mod.name)) /\ Len(Front(stack)) <= MaxDepth + 1
         /\ \A f \in ParseFrame(mod.name) :
              /\ Append(Front(stack), f) \in Seq(ParseFrame(mod.name))
              /\ Len(Append(Front(stack), f)) = Len(stack)
<1>1. stack \in Seq(ParseFrame(mod.name)) /\ Len(stack) <= MaxDepth + 1
      /\ pc = "parse" /\ mod.name \in Mods /\ MaxDepth \in Nat
  BY NumbersAssumption DEF ScanTypes
<1>2. QED
  BY <1>1, FrontLast, ReplaceLast DEF Frame

\* A step of parse_modfile keeps the rest.
LEMMA KeptByParse ==
  ASSUME ScanTypes, KeepScan, pc = "parse", mod' \in ParsedMod, mod'.name = mod.name,
         stack' \in Seq(ParseFrame(mod.name)), Len(stack') <= MaxDepth + 1
  PROVE  ScanTypes'
<1>1. body' = body
  BY DEF KeepScan, world
<1>2. /\ ParsedMod' = ParsedMod /\ OwnEntry' = OwnEntry /\ ListedMod' = ListedMod
      /\ ParseFrame(mod.name)' = ParseFrame(mod.name)
  <2>1. /\ ParsedMod' = ParsedMod /\ OwnEntry' = OwnEntry
        /\ \A m : ParseFrame(m)' = ParseFrame(m)
    BY <1>1, SameWorld
  <2>2. ListedMod' = ListedMod
    BY <2>1 DEF ListedMod, Lowest
  <2>3. QED
    BY <2>1, <2>2
<1>3. QED
  BY <1>1, <1>2 DEF ScanTypes, KeepScan, world, Call

\* The arguments of the command at hand are of its kind.
LEMMA CommandIs ==
  ASSUME ScanTypes, Reading, Frame.at \in DOMAIN body[Frame.file]
  PROVE  /\ Command.cmd = "To" => Command.args \in Seq(Scripts)
         /\ Command.cmd = "Priority" => Command.args \in Seq(Int)
         /\ Command.cmd = "Include" => Command.args \in Seq(DOMAIN Folder)
         /\ Command.cmd \in {"Import", "TopImport", "Replace", "SJSON"}
              => Command.args \in Seq(Sources)
<1>1. Frame.file \in DOMAIN body /\ body \in Worlds
  BY FrameIs DEF ScanTypes, ParseFrame, Reading
<1>2. QED
  BY <1>1, WorldsAssumption DEF Command

LEMMA EntriesTypes ==
  ASSUME ScanTypes, Reading, Frame.at \in DOMAIN body[Frame.file],
         Command.cmd \in {"Import", "TopImport", "Replace", "SJSON"}
  PROVE  Entries(Frame, Command) \in Seq(OwnEntry)
<1>. DEFINE made(i, j) == [target |-> Frame.targets[i], source |-> Command.args[j],
                           priority |-> Frame.priority, kind |-> Command.cmd, mod |-> mod.name]
            line(i) == [j \in DOMAIN Command.args |-> made(i, j)]
            all == [i \in DOMAIN Frame.targets |-> line(i)]
<1>1. /\ Frame \in ParseFrame(mod.name) /\ mod.name \in Mods
      /\ Command.args \in Seq(Sources)
  BY FrameIs, CommandIs DEF Reading
<1>2. Frame.targets \in Seq(Scripts) /\ Frame.priority \in Int
      /\ Frame.file \in ModfilesOf(mod.name) \cap DOMAIN body
  BY <1>1 DEF ParseFrame
<1>3. \A s \in Sources : s \in ToSet(Command.args) => s \in SourcesOf(mod.name)
  BY <1>2 DEF SourcesOf, Command
<1>4. ASSUME NEW i \in DOMAIN Frame.targets, NEW j \in DOMAIN Command.args
      PROVE  made(i, j) \in OwnEntry
  <2>1. Command.args[j] \in Sources /\ Command.args[j] \in ToSet(Command.args)
    BY <1>1 DEF ToSet
  <2>2. Frame.targets[i] \in Scripts
    BY <1>2
  <2>3. made(i, j) \in Entry
    BY <1>1, <1>2, <2>1, <2>2 DEF Entry
  <2>4. made(i, j).source \in SourcesOf(made(i, j).mod)
    BY <1>3, <2>1
  <2>5. QED
    BY <2>3, <2>4 DEF OwnEntry
<1>. HIDE DEF made
<1>5. ASSUME NEW i \in DOMAIN Frame.targets PROVE line(i) \in Seq(OwnEntry)
  <2>1. DOMAIN Command.args = 1..Len(Command.args) /\ Len(Command.args) \in Nat
    BY <1>1
  <2>2. line(i) \in [1..Len(Command.args) -> OwnEntry]
    BY <1>4, <2>1
  <2>3. QED
    BY <2>1, <2>2
<1>. HIDE DEF line
<1>6. all \in Seq(Seq(OwnEntry))
  <2>1. DOMAIN Frame.targets = 1..Len(Frame.targets) /\ Len(Frame.targets) \in Nat
    BY <1>2
  <2>2. all \in [1..Len(Frame.targets) -> Seq(OwnEntry)]
    BY <1>5, <2>1
  <2>3. QED
    BY <2>1, <2>2
<1>7. Entries(Frame, Command) = FlattenSeq(all)
  BY DEF Entries, all, line, made
<1>. HIDE DEF all
<1>8. QED
  BY <1>6, <1>7, FlattenType

LEMMA ParseStep == ScanTypes /\ Parse => ScanTypes'
<1> SUFFICES ASSUME ScanTypes, Parse PROVE ScanTypes'
  OBVIOUS
<1>1. KeepScan /\ stack # <<>>
  BY DEF Parse, To, Priority, Include, OpenIncluded, Import, AddFiles, Ignored, EndOfModfile,
         At, Reading
<1>2. /\ Frame \in ParseFrame(mod.name) /\ pc = "parse" /\ mod.name \in Mods
      /\ Front(stack) \in Seq(ParseFrame(mod.name)) /\ Len(Front(stack)) <= MaxDepth + 1
      /\ mod \in ParsedMod /\ Len(stack) <= MaxDepth + 1
      /\ \A f \in ParseFrame(mod.name) :
           /\ Append(Front(stack), f) \in Seq(ParseFrame(mod.name))
           /\ Len(Append(Front(stack), f)) = Len(stack)
  BY <1>1, FrameIs DEF ScanTypes
<1>3. /\ Frame.file \in ModfilesOf(mod.name) \cap DOMAIN body /\ Frame.at \in Nat
      /\ Frame.todo \in Seq(SUBSET ModfilesOf(mod.name))
      /\ Frame.targets \in Seq(Scripts) /\ Frame.priority \in Int
  BY <1>2 DEF ParseFrame
<1>4. ASSUME NEW f \in ParseFrame(mod.name), stack' = Past(f), mod' \in ParsedMod, mod'.name = mod.name
      PROVE  ScanTypes'
  <2>1. [f EXCEPT !.at = @ + 1] \in ParseFrame(mod.name)
    BY DEF ParseFrame
  <2>2. QED
    BY <1>1, <1>2, <1>4, <2>1, KeptByParse DEF Past
<1>5. CASE To
  <2>1. Command.args \in Seq(Scripts)
    BY <1>5, CommandIs DEF To, At
  <2>2. <<DefaultTarget>> \in Seq(Scripts)
    BY TargetAssumption
  <2>3. [Frame EXCEPT !.targets = IF Command.args = <<>> THEN <<DefaultTarget>> ELSE Command.args]
          \in ParseFrame(mod.name)
    BY <1>2, <2>1, <2>2 DEF ParseFrame
  <2>4. QED
    BY <1>2, <1>4, <1>5, <2>3 DEF To
<1>6. CASE Priority
  <2>1. Command.args \in Seq(Int) /\ DefaultPriority \in Int
    BY <1>6, CommandIs, NumbersAssumption DEF Priority, At
  <2>2. Command.args # <<>> => Command.args[1] \in Int
    BY <2>1
  <2>3. [Frame EXCEPT !.priority = IF Command.args = <<>> THEN DefaultPriority ELSE Command.args[1]]
          \in ParseFrame(mod.name)
    BY <1>2, <2>1, <2>2 DEF ParseFrame
  <2>4. QED
    BY <1>2, <1>4, <1>6, <2>3 DEF Priority
<1>7. CASE Include
  <2>. DEFINE todo == [i \in DOMAIN Command.args |-> Folder[Command.args[i]]]
  <2>1. Command.args \in Seq(DOMAIN Folder) /\ Command.cmd = "Include"
        /\ Frame.at \in DOMAIN body[Frame.file]
    BY <1>7, CommandIs DEF Include, At
  <2>2. ASSUME NEW i \in DOMAIN Command.args PROVE Folder[Command.args[i]] \subseteq ModfilesOf(mod.name)
    <3>1. Command.args[i] \in DOMAIN Folder /\ Command.args[i] \in ToSet(Command.args)
      BY <2>1 DEF ToSet
    <3>2. QED
      BY <1>3, <2>1, <3>1, IncludedToo DEF Command
  <2>3. DOMAIN Command.args = 1..Len(Command.args) /\ Len(Command.args) \in Nat
    BY <2>1
  <2>4. todo \in [1..Len(Command.args) -> SUBSET ModfilesOf(mod.name)]
    BY <2>2, <2>3
  <2>5. todo \in Seq(SUBSET ModfilesOf(mod.name))
    BY <2>3, <2>4
  <2>. HIDE DEF todo
  <2>6. [Frame EXCEPT !.todo = todo] \in ParseFrame(mod.name)
    BY <1>2, <2>5 DEF ParseFrame
  <2>7. stack' = Past([Frame EXCEPT !.todo = todo]) /\ mod' = mod
    BY <1>7 DEF Include, todo
  <2>8. QED
    BY <1>2, <1>4, <2>6, <2>7
<1>8. CASE OpenIncluded
  <2>1. Frame.todo # <<>> /\ mod' = mod
    BY <1>8 DEF OpenIncluded
  <2>2. /\ Head(Frame.todo) \subseteq ModfilesOf(mod.name) /\ Head(Frame.todo) = Frame.todo[1]
        /\ Tail(Frame.todo) \in Seq(SUBSET ModfilesOf(mod.name)) /\ 1 \in DOMAIN Frame.todo
    BY <1>3, <2>1
  <2>3. CASE Head(Frame.todo) = {}
    <3>1. stack' = Append(Front(stack), [Frame EXCEPT !.todo = Tail(@)])
      BY <1>8, <2>3 DEF OpenIncluded
    <3>2. [Frame EXCEPT !.todo = Tail(@)] \in ParseFrame(mod.name)
      BY <1>2, <2>2 DEF ParseFrame
    <3>3. QED
      BY <1>1, <1>2, <2>1, <3>1, <3>2, KeptByParse
  <2>4. CASE Head(Frame.todo) # {}
    <3>1. PICK f \in Head(Frame.todo) :
            stack' = Open(f, Append(Front(stack), [Frame EXCEPT !.todo[1] = @ \ {f}]))
      BY <1>8, <2>4 DEF OpenIncluded
    <3>2. [Frame.todo EXCEPT ![1] = @ \ {f}] \in Seq(SUBSET ModfilesOf(mod.name))
      <4>1. Frame.todo[1] \ {f} \in SUBSET ModfilesOf(mod.name)
        BY <2>2
      <4>2. QED
        BY <1>3, <2>2, <4>1, ExceptSeq
    <3>3. [Frame EXCEPT !.todo[1] = @ \ {f}] = [Frame EXCEPT !.todo = [Frame.todo EXCEPT ![1] = @ \ {f}]]
      OBVIOUS
    <3>4. [Frame EXCEPT !.todo[1] = @ \ {f}] \in ParseFrame(mod.name)
      <4>. DEFINE todo == [Frame.todo EXCEPT ![1] = @ \ {f}]
      <4>. HIDE DEF todo
      <4>1. [Frame EXCEPT !.todo = todo] \in ParseFrame(mod.name)
        BY <1>2, <3>2 DEF ParseFrame, todo
      <4>2. QED
        BY <3>3, <4>1 DEF todo
    <3>5. stack' \in Seq(ParseFrame(mod.name)) /\ Len(stack') <= MaxDepth + 1
      <4>. DEFINE x == [Frame EXCEPT !.todo[1] = @ \ {f}]
      <4>. HIDE DEF x
      <4>1. x \in ParseFrame(mod.name) /\ stack' = Open(f, Append(Front(stack), x))
        BY <3>1, <3>4 DEF x
      <4>2. f \in ModfilesOf(mod.name)
        BY <2>2
      <4>3. QED
        BY <1>2, <4>1, <4>2, OpenTypes
    <3>6. QED
      BY <1>1, <1>2, <2>1, <3>5, KeptByParse
  <2>5. QED
    BY <2>3, <2>4
<1>9. CASE Import \/ AddFiles
  <2>1. /\ Command.cmd \in {"Import", "TopImport", "Replace", "SJSON"} /\ Reading
        /\ Frame.at \in DOMAIN body[Frame.file] /\ stack' = Past(Frame)
    BY <1>9 DEF Import, AddFiles, At
  <2>2. Entries(Frame, Command) \in Seq(OwnEntry)
    BY <2>1, EntriesTypes
  <2>3. mod.imports \in Seq(OwnEntry) /\ mod.files \in Seq(OwnEntry)
    BY <1>2 DEF ParsedMod
  <2>4. /\ mod.imports \o Entries(Frame, Command) \in Seq(OwnEntry)
        /\ mod.files \o Entries(Frame, Command) \in Seq(OwnEntry)
    BY <2>2, <2>3, ConcatProperties
  <2>5. \/ mod' = [mod EXCEPT !.imports = mod.imports \o Entries(Frame, Command)]
        \/ mod' = [mod EXCEPT !.files = mod.files \o Entries(Frame, Command)]
    BY <1>9 DEF Import, AddFiles
  <2>6. mod' \in ParsedMod /\ mod'.name = mod.name
    BY <1>2, <2>4, <2>5 DEF ParsedMod
  <2>7. QED
    BY <1>2, <1>4, <2>1, <2>6
<1>10. CASE Ignored
  BY <1>2, <1>4, <1>10 DEF Ignored
<1>11. CASE EndOfModfile
  BY <1>1, <1>2, <1>11, KeptByParse DEF EndOfModfile
<1>12. QED
  BY <1>5, <1>6, <1>7, <1>8, <1>9, <1>10, <1>11 DEF Parse

\* EndOfMod: the mod in the list.
LEMMA ListedTypes ==
  ASSUME ScanTypes, pc = "parse"
  PROVE  LET entries == mod.imports \o mod.files
         IN  [mod EXCEPT !.priority = Lowest(entries), !.missing = Missing(entries)] \in ListedMod
<1>. DEFINE entries == mod.imports \o mod.files
<1>1. /\ mod \in ParsedMod /\ mod.name \in Mods
      /\ mod.imports \in Seq(OwnEntry) /\ mod.files \in Seq(OwnEntry)
  BY DEF ScanTypes, ParsedMod
<1>2. entries \in Seq(OwnEntry)
  BY <1>1, ConcatProperties
<1>. HIDE DEF entries
<1>3. Missing(entries) \in Nat
  <2>1. {i \in DOMAIN entries : entries[i].source \notin exists} \subseteq 1..Len(entries)
    BY <1>2
  <2>2. IsFiniteSet(1..Len(entries))
    BY <1>2, FS_Interval
  <2>3. QED
    BY <2>1, <2>2, FS_Subset, FS_CardinalityType DEF Missing
<1>4. [mod EXCEPT !.priority = Lowest(entries), !.missing = Missing(entries)] \in ListedMod
  BY <1>1, <1>2, <1>3 DEF ParsedMod, ListedMod
<1>5. QED
  BY <1>4 DEF entries

\* EndOfFolder: all the files of the list.
LEMMA FilesTypes ==
  ASSUME NEW list \in Seq(ListedMod)
  PROVE  FlattenSeq([i \in DOMAIN list |-> list[i].files]) \in Seq(OwnEntry)
<1>. DEFINE s == [i \in DOMAIN list |-> list[i].files]
<1>1. DOMAIN list = 1..Len(list) /\ Len(list) \in Nat /\ \A i \in DOMAIN list : list[i] \in ListedMod
  OBVIOUS
<1>2. \A i \in DOMAIN list : list[i].files \in Seq(OwnEntry)
  BY <1>1 DEF ListedMod
<1>3. s \in [1..Len(list) -> Seq(OwnEntry)]
  BY <1>1, <1>2
<1>4. s \in Seq(Seq(OwnEntry))
  BY <1>1, <1>3
<1>. HIDE DEF s
<1>5. FlattenSeq(s) \in Seq(OwnEntry)
  BY <1>4, FlattenType
<1>6. QED
  BY <1>5 DEF s

\* fire_legacy_imports: the imports of the list that target a script.
LEMMA ImportsTypes ==
  ASSUME ScanTypes, NEW script, NEW top
  PROVE  ImportsOf(script, top) \in Seq(OwnEntry)
<1>. DEFINE if(e) == IF (e.kind = "TopImport") = top /\ e.target = script THEN <<e>> ELSE <<>>
            meant(l) == FlattenSeq([i \in DOMAIN l |-> if(l[i])])
            s == [i \in DOMAIN mods |-> meant(mods[i].imports)]
<1>1. DOMAIN mods = 1..Len(mods) /\ Len(mods) \in Nat /\ \A i \in DOMAIN mods : mods[i] \in ListedMod
  BY DEF ScanTypes
<1>2. \A i \in DOMAIN mods : mods[i].imports \in Seq(OwnEntry)
  BY <1>1 DEF ListedMod
<1>3. ImportsOf(script, top) = FlattenSeq(s)
  BY DEF ImportsOf
<1>4. \A e \in OwnEntry : if(e) \in Seq(OwnEntry)
  OBVIOUS
<1>. HIDE DEF if
<1>5. ASSUME NEW l \in Seq(OwnEntry) PROVE meant(l) \in Seq(OwnEntry)
  <2>. DEFINE t == [i \in DOMAIN l |-> if(l[i])]
  <2>1. DOMAIN l = 1..Len(l) /\ Len(l) \in Nat /\ \A i \in DOMAIN l : l[i] \in OwnEntry
    OBVIOUS
  <2>2. t \in [1..Len(l) -> Seq(OwnEntry)]
    BY <1>4, <2>1
  <2>3. t \in Seq(Seq(OwnEntry))
    BY <2>1, <2>2
  <2>. HIDE DEF t
  <2>4. FlattenSeq(t) \in Seq(OwnEntry)
    BY <2>3, FlattenType
  <2>5. QED
    BY <2>4 DEF t, meant
<1>. HIDE DEF meant
<1>6. s \in [1..Len(mods) -> Seq(OwnEntry)]
  BY <1>1, <1>2, <1>5
<1>7. s \in Seq(Seq(OwnEntry))
  BY <1>1, <1>6
<1>. HIDE DEF s
<1>8. QED
  BY <1>3, <1>7, FlattenType

LEMMA NewModIs == ParsedMod' = ParsedMod => \A m \in Mods \cup {0} : NewMod(m) \in ParsedMod
BY DEF NewMod, ParsedMod

LEMMA HeadTailOwn ==
  ASSUME NEW s \in Seq(OwnEntry), s # <<>>
  PROVE  Head(s) \in OwnEntry /\ Tail(s) \in Seq(OwnEntry)
OBVIOUS

LEMMA ScanInit == Init => ScanTypes
<1> SUFFICES ASSUME Init PROVE ScanTypes
  OBVIOUS
<1>1. body \in Worlds /\ exists \in SUBSET Named(body) /\ enabled \in BOOLEAN
  BY DEF Init
<1>2. exists \subseteq Sources
  BY <1>1 DEF Named
<1>3. mod \in ParsedMod
  BY DEF Init, NewMod, ParsedMod
<1>4. call \in Call
  BY TargetAssumption DEF Init, NoCall, Call
<1>5. QED
  BY <1>1, <1>2, <1>3, <1>4, NumbersAssumption DEF Init, ScanTypes

LEMMA ScanStep == ScanTypes /\ [Next]_vars => ScanTypes'
<1> SUFFICES ASSUME ScanTypes, [Next]_vars PROVE ScanTypes'
  OBVIOUS
<1>1. body' = body
  BY DEF Next, vars, world, StartScan, Scan, Visit, Parse, EndOfMod, EndOfFolder, Register,
         EndScan, Fire, FireNext, EndFire, Edit, KeepScan, To, Priority, Include, OpenIncluded,
         Import, AddFiles, Ignored, EndOfModfile
<1>2. /\ ParsedMod' = ParsedMod /\ OwnEntry' = OwnEntry
      /\ \A m : ParseFrame(m)' = ParseFrame(m)
  BY <1>1, SameWorld
<1>3. ListedMod' = ListedMod
  BY <1>2 DEF ListedMod, Lowest
<1>4. /\ <<>> \in Seq(OwnEntry) /\ <<>> \in Seq(ListedMod) /\ Len(<<>>) = 0 /\ MaxDepth \in Nat
      /\ \A m : <<>> \in Seq(ParseFrame(m))
  BY NumbersAssumption
<1>5. \A m \in Mods \cup {0} : NewMod(m) \in ParsedMod
  BY <1>2, NewModIs
<1>6. CASE Parse
  BY <1>6, ParseStep
<1>7. CASE StartScan
  <2>1. /\ UNCHANGED <<world, mod, stack, pending, call, fired>>
        /\ mods' = <<>> /\ registered' = <<>> /\ pc = "ready"
        /\ scans < MaxScans /\ scans' = scans + 1
        /\ \/ pc' = "dir" /\ dir' = Mods
           \/ pc' = pc /\ dir' = dir
    BY <1>7 DEF StartScan
  <2>2. scans' \in 0..MaxScans
    BY <2>1, NumbersAssumption DEF ScanTypes
  <2>3. QED
    BY <1>2, <1>3, <1>4, <2>1, <2>2 DEF ScanTypes, world, Call
<1>8. ASSUME NEW m \in Mods, Visit(m) PROVE ScanTypes'
  <2>1. /\ UNCHANGED <<world, mods, pending, registered, call, fired, scans>>
        /\ dir' \subseteq Mods /\ mod' = NewMod(m) /\ stack' = Open(m, <<>>)
        /\ pc' = IF m \in DOMAIN body THEN "parse" ELSE "dir"
    BY <1>8 DEF Visit, ScanTypes
  <2>2. mod'.name = m /\ mod' \in ParsedMod
    BY <1>5, <2>1 DEF NewMod
  <2>3. stack' \in Seq(ParseFrame(m)) /\ Len(stack') <= MaxDepth + 1
    <3>1. m \in ModfilesOf(m) /\ 0 <= MaxDepth + 1
      BY <1>4, RootIsOwn
    <3>2. QED
      BY <1>4, <2>1, <3>1, OpenTypes
  <2>4. stack' # <<>> => pc' = "parse"
    BY <2>1 DEF Open
  <2>5. QED
    BY <1>2, <1>3, <2>1, <2>2, <2>3, <2>4 DEF ScanTypes, world, Call
<1>9. CASE EndOfMod
  <2>. DEFINE x == [mod EXCEPT !.priority = Lowest(mod.imports \o mod.files),
                              !.missing = Missing(mod.imports \o mod.files)]
  <2>1. x \in ListedMod
    BY <1>9, ListedTypes DEF EndOfMod
  <2>2. /\ UNCHANGED <<world, dir, mod, stack, pending, registered, call, fired, scans>>
        /\ mods' = mods \/ mods' = Append(mods, x)
        /\ pc' = "dir" /\ stack = <<>>
    BY <1>9 DEF EndOfMod
  <2>. HIDE DEF x
  <2>3. mods' \in Seq(ListedMod)
    <3>1. mods \in Seq(ListedMod)
      BY DEF ScanTypes
    <3>2. Append(mods, x) \in Seq(ListedMod)
      BY <2>1, <3>1, AppendProperties
    <3>3. QED
      BY <2>2, <3>1, <3>2
  <2>4. QED
    BY <1>2, <1>3, <2>2, <2>3 DEF ScanTypes, world, Call
<1>10. CASE EndOfFolder
  <2>1. /\ UNCHANGED <<world, dir, stack, registered, call, fired, scans>>
        /\ pending' = FlattenSeq([i \in DOMAIN mods |-> mods'[i].files])
        /\ mod' = NewMod(0) /\ pc = "dir" /\ pc' = "files"
    BY <1>10 DEF EndOfFolder
  <2>2. PICK place \in Bijection(DOMAIN mods, DOMAIN mods) :
          mods' = [i \in DOMAIN mods |-> mods[place[i]]]
    BY <1>10 DEF EndOfFolder
  <2>3. DOMAIN mods = 1..Len(mods) /\ Len(mods) \in Nat /\ \A i \in DOMAIN mods : mods[i] \in ListedMod
    BY DEF ScanTypes
  <2>4. \A i \in DOMAIN mods : place[i] \in DOMAIN mods
    BY DEF Bijection, Injection, Surjection
  <2>5. mods' \in [1..Len(mods) -> ListedMod] /\ DOMAIN mods' = DOMAIN mods
    BY <2>2, <2>3, <2>4
  <2>6. mods' \in Seq(ListedMod)
    BY <2>3, <2>5
  <2>7. pending' \in Seq(OwnEntry)
    BY <2>1, <2>5, <2>6, FilesTypes
  <2>8. stack' = <<>> /\ mod' \in ParsedMod
    BY <1>5, <2>1 DEF ScanTypes
  <2>9. QED
    BY <1>2, <1>3, <1>4, <2>1, <2>6, <2>7, <2>8 DEF ScanTypes, world, Call
<1>11. CASE Register \/ FireNext
  <2>1. /\ UNCHANGED <<world, mods, dir, mod, stack, call, scans, pc>>
        /\ pending # <<>> /\ pending' = Tail(pending)
        /\ registered' \in {registered, Append(registered, Head(pending))}
        /\ fired' \in {fired, Append(fired, Head(pending))}
    BY <1>11 DEF Register, FireNext
  <2>2. pending' \in Seq(OwnEntry) /\ registered' \in Seq(OwnEntry) /\ fired' \in Seq(OwnEntry)
    <3>1. Head(pending) \in OwnEntry /\ Tail(pending) \in Seq(OwnEntry)
      BY <2>1, HeadTailOwn DEF ScanTypes
    <3>2. registered \in Seq(OwnEntry) /\ fired \in Seq(OwnEntry)
      BY DEF ScanTypes
    <3>3. /\ Append(registered, Head(pending)) \in Seq(OwnEntry)
          /\ Append(fired, Head(pending)) \in Seq(OwnEntry)
      BY <3>1, <3>2, AppendProperties
    <3>4. QED
      BY <2>1, <3>1, <3>2, <3>3
  <2>3. QED
    BY <1>2, <1>3, <2>1, <2>2 DEF ScanTypes, world, Call
<1>12. CASE EndScan
  BY <1>2, <1>3, <1>12 DEF EndScan, ScanTypes, world, Call
<1>13. ASSUME NEW script \in Scripts, NEW top \in BOOLEAN, Fire(script, top) PROVE ScanTypes'
  <2>1. ImportsOf(script, top) \in Seq(OwnEntry)
    BY ImportsTypes
  <2>2. QED
    BY <1>2, <1>3, <1>4, <1>13, <2>1 DEF Fire, ScanTypes, world, Call
<1>14. CASE EndFire
  <2>1. NoCall \in Call
    BY TargetAssumption DEF NoCall, Call
  <2>2. QED
    BY <1>2, <1>3, <1>4, <1>14, <2>1 DEF EndFire, ScanTypes, world, Call
<1>15. CASE Edit
  <2>1. UNCHANGED <<body, mods, dir, mod, stack, pending, registered, call, fired, scans, pc>>
        /\ exists' \subseteq Sources /\ enabled' \in BOOLEAN
    BY <1>15 DEF Edit, ScanTypes, Named
  <2>2. QED
    BY <1>2, <1>3, <2>1 DEF ScanTypes, Call
<1>16. CASE UNCHANGED vars
  BY <1>2, <1>3, <1>16 DEF vars, ScanTypes, world, Call
<1>17. QED
  BY <1>6, <1>7, <1>8, <1>9, <1>10, <1>11, <1>12, <1>13, <1>14, <1>15, <1>16 DEF Next, Scan

--------------------------------------------------------------------------------
(* The config.lua being imported.                                               *)

RunFrame == [import : {e \in OwnEntry : e.source \in Configs},
             todo : Seq({"body", "post", "end"}), may : SUBSET {"add", "import"},
             pending : Seq(OwnEntry), fired : Seq(OwnEntry), call : Call]
Within(f) == f.todo # <<>> => ImportsIn[f.import.source] \in Scripts
RunTypes == running \in Seq(RunFrame) /\ \A i \in 1..Len(running) : Within(running[i])

LEMMA InnerIs ==
  ASSUME RunTypes, running # <<>>
  PROVE  /\ Inner \in RunFrame /\ Within(Inner) /\ Inner = running[Len(running)]
         /\ Len(running) \in Nat \ {0}
         /\ Front(running) \in Seq(RunFrame) /\ Len(Front(running)) = Len(running) - 1
         /\ \A i \in 1..(Len(running) - 1) : Front(running)[i] = running[i]
<1>1. running \in Seq(RunFrame) /\ Len(running) \in Nat \ {0}
  BY FrontLast DEF RunTypes
<1>2. Within(running[Len(running)])
  BY <1>1 DEF RunTypes
<1>3. QED
  BY <1>1, <1>2, FrontLast DEF Inner

\* Without the innermost.
LEMMA PopTypes ==
  ASSUME RunTypes, running # <<>>, body' = body, running' = Front(running)
  PROVE  RunTypes'
<1>1. RunFrame' = RunFrame /\ \A f : Within(f)' = Within(f)
  BY SameWorld DEF RunFrame, Call, Within
<1>2. \A i \in 1..Len(running') : Within(running'[i])
  BY InnerIs DEF RunTypes
<1>3. QED
  BY <1>1, <1>2, InnerIs DEF RunTypes, Within

\* With the innermost changed.
LEMMA SetTypes ==
  ASSUME RunTypes, running # <<>>, body' = body, NEW f \in RunFrame, Within(f), SetInner(f)
  PROVE  RunTypes'
<1>1. RunFrame' = RunFrame /\ running' = Append(Front(running), f)
  BY SameWorld DEF RunFrame, Call, SetInner
<1>2. /\ running' \in Seq(RunFrame) /\ Len(running') = Len(running)
      /\ running'[Len(running)] = f
      /\ \A i \in 1..(Len(running) - 1) : running'[i] = running[i]
  BY <1>1, ReplaceLast DEF RunTypes
<1>3. \A i \in 1..Len(running') : Within(running'[i])
  BY <1>2, InnerIs DEF RunTypes
<1>4. QED
  BY <1>1, <1>2, <1>3 DEF RunTypes, Within

\* With one more.
LEMMA PushTypes ==
  ASSUME RunTypes, body' = body, NEW f \in RunFrame, Within(f), running' = Append(running, f)
  PROVE  RunTypes'
<1>1. RunFrame' = RunFrame
  BY SameWorld DEF RunFrame, Call
<1>2. /\ running' \in Seq(RunFrame) /\ Len(running') = Len(running) + 1 /\ Len(running) \in Nat
      /\ running'[Len(running) + 1] = f
      /\ \A i \in 1..Len(running) : running'[i] = running[i]
  BY AppendProperties DEF RunTypes
<1>3. \A i \in 1..Len(running') : Within(running'[i])
  BY <1>2 DEF RunTypes
<1>4. QED
  BY <1>1, <1>2, <1>3 DEF RunTypes, Within

LEMMA SameTypes ==
  ASSUME RunTypes, body' = body, running' = running
  PROVE  RunTypes'
<1>1. RunFrame' = RunFrame
  BY SameWorld DEF RunFrame, Call
<1>2. QED
  BY <1>1 DEF RunTypes, Within

LEMMA NoneTypes ==
  ASSUME running' = <<>>
  PROVE  RunTypes'
<1>1. <<>> \in Seq(RunFrame') /\ Len(<<>>) = 0
  OBVIOUS
<1>2. QED
  BY <1>1 DEF RunTypes, Within

\* What an import in progress changes of the state of the scan.
LEMMA KeptByImport ==
  ASSUME ScanTypes, UNCHANGED <<world, mods, dir, mod, stack, registered, scans, pc>>,
         pending' \in Seq(OwnEntry), fired' \in Seq(OwnEntry), call' \in Call
  PROVE  ScanTypes'
<1>1. body' = body
  BY DEF world
<1>2. /\ ParsedMod' = ParsedMod /\ OwnEntry' = OwnEntry /\ \A m : ParseFrame(m)' = ParseFrame(m)
  BY <1>1, SameWorld
<1>3. ListedMod' = ListedMod
  BY <1>2 DEF ListedMod, Lowest
<1>4. QED
  BY <1>1, <1>2, <1>3 DEF ScanTypes, world, Call

LEMMA RestartTypes ==
  ASSUME ScanTypes, Restart
  PROVE  ScanTypes' /\ RunTypes'
<1>1. body' = body /\ exists' = exists /\ enabled' = enabled /\ scans' = scans
  BY DEF Restart, world
<1>2. ParsedMod' = ParsedMod /\ mod' = NewMod(0)
  BY <1>1, SameWorld DEF Restart
<1>3. mod' \in ParsedMod
  BY <1>2, NewModIs
<1>4. /\ mods' = <<>> /\ dir' = {} /\ stack' = <<>> /\ pending' = <<>> /\ registered' = <<>>
      /\ call' = NoCall /\ fired' = <<>> /\ pc' = "ready"
  BY DEF Restart
<1>5. NoCall \in Call
  BY TargetAssumption DEF NoCall, Call
<1>6. <<>> \in Seq(ListedMod') /\ Len(<<>>) = 0 /\ <<>> \in Seq(OwnEntry') /\ 0 <= MaxDepth + 1
      /\ <<>> \in Seq(ParseFrame(mod.name)')
  BY NumbersAssumption
<1>7. ScanTypes'
  BY <1>1, <1>2, <1>3, <1>4, <1>5, <1>6 DEF ScanTypes, Call
<1>8. QED
  BY <1>7, NoneTypes DEF Restart

\* The next step of the innermost.
LEMMA StepOver ==
  ASSUME RunTypes, running # <<>>, Inner.todo # <<>>
  PROVE  LET f == [Inner EXCEPT !.todo = Tail(@)]
         IN  f \in RunFrame /\ Within(f)
<1>1. Inner \in RunFrame /\ Within(Inner)
  BY InnerIs
<1>2. Inner.todo \in Seq({"body", "post", "end"})
  BY <1>1 DEF RunFrame
<1>3. Tail(Inner.todo) \in Seq({"body", "post", "end"})
  BY <1>2
<1>4. PICK f : f = [Inner EXCEPT !.todo = Tail(@)]
  OBVIOUS
<1>5. f \in RunFrame /\ f.import = Inner.import
  BY <1>1, <1>3, <1>4 DEF RunFrame
<1>6. QED
  BY <1>1, <1>4, <1>5 DEF Within

\* The imports for the script of a chunk.
LEMMA FireNestedTypes ==
  ASSUME ScanTypes, NestedScript \in Scripts, NEW top \in BOOLEAN, FireNested(top)
  PROVE  pending' \in Seq(OwnEntry) /\ fired' \in Seq(OwnEntry) /\ call' \in Call
<1>1. pending' \in Seq(OwnEntry)
  BY ImportsTypes DEF FireNested
<1>2. QED
  BY <1>1 DEF FireNested, Call

LEMMA BodyStays == [ConfigNext]_allVars => body' = body
BY DEF ConfigNext, allVars, vars, world, StartWave, EndOfImports, ImportConfig, AddsTable,
       ImportsScript, NestedPost, NestedBody, NestedEnd, BindConfig, EditInOverlay, EditByHand,
       Restart, StartScan, Scan, Visit, Parse, EndOfMod, EndOfFolder, Register, EndScan, Fire,
       FireNext, EndFire, Edit, KeepScan, To, Priority, Include, OpenIncluded, Import, AddFiles,
       Ignored, EndOfModfile

LEMMA RunStep == ScanTypes /\ RunTypes /\ [ConfigNext]_allVars => ScanTypes' /\ RunTypes'
<1> SUFFICES ASSUME ScanTypes, RunTypes, [ConfigNext]_allVars PROVE ScanTypes' /\ RunTypes'
  OBVIOUS
<1>1. body' = body
  BY BodyStays
<1>2. pending \in Seq(OwnEntry) /\ fired \in Seq(OwnEntry) /\ call \in Call /\ <<>> \in Seq(OwnEntry)
  BY DEF ScanTypes
<1>3. CASE Next /\ running' = running
  BY <1>1, <1>3, ScanStep, SameTypes
<1>4. CASE UNCHANGED vars /\ running' = running
  BY <1>1, <1>4, ScanStep, SameTypes
<1>5. CASE ImportConfig
  <2>. DEFINE e == Head(pending)
              f == [import |-> e, todo |-> <<>>,
                    may |-> IF Loaded(e.source) THEN {} ELSE {"add", "import"},
                    pending |-> <<>>, fired |-> <<>>, call |-> NoCall]
  <2>1. pending # <<>> /\ e.source \in Configs
    BY <1>5 DEF ImportConfig, NextIsConfig
  <2>2. e \in OwnEntry /\ Tail(pending) \in Seq(OwnEntry)
    BY <1>2, <2>1, HeadTailOwn
  <2>3. NoCall \in Call
    BY TargetAssumption DEF NoCall, Call
  <2>4. f \in RunFrame /\ Within(f)
    BY <1>2, <2>1, <2>2, <2>3 DEF RunFrame, Within
  <2>5. running' = Append(running, f) /\ fired' = Append(fired, e) /\ pending' = Tail(pending)
        /\ UNCHANGED <<world, mods, dir, mod, stack, registered, call, scans, pc>>
    BY <1>5 DEF ImportConfig
  <2>. HIDE DEF e, f
  <2>6. fired' \in Seq(OwnEntry) /\ pending' \in Seq(OwnEntry)
    BY <1>2, <2>2, <2>5, AppendProperties
  <2>7. QED
    BY <1>1, <1>2, <2>4, <2>5, <2>6, PushTypes, KeptByImport
<1>6. CASE AddsTable
  <2>1. running # <<>> /\ UNCHANGED vars /\ SetInner([Inner EXCEPT !.may = @ \ {"add"}])
    BY <1>6 DEF AddsTable, InChunk
  <2>2. [Inner EXCEPT !.may = @ \ {"add"}] \in RunFrame /\ Within([Inner EXCEPT !.may = @ \ {"add"}])
    BY <2>1, InnerIs DEF RunFrame, Within
  <2>3. QED
    BY <1>1, <2>1, <2>2, ScanStep, SetTypes
<1>7. CASE ImportsScript
  <2>. DEFINE f == [Inner EXCEPT !.may = @ \ {"import"}, !.todo = <<"body", "post", "end">>,
                                 !.pending = pending, !.fired = fired, !.call = call]
  <2>1. running # <<>> /\ SetInner(f) /\ NestedScript # NoScript /\ FireNested(TRUE)
        /\ UNCHANGED <<world, mods, dir, mod, stack, registered, scans, pc>>
    BY <1>7 DEF ImportsScript, InChunk
  <2>2. Inner \in RunFrame
    BY <2>1, InnerIs
  <2>3. Inner.import.source \in Configs
    BY <2>2 DEF RunFrame
  <2>4. NestedScript \in Scripts
    BY <2>1, <2>3, NoScriptAssumption DEF NestedScript
  <2>5. <<"body", "post", "end">> \in Seq({"body", "post", "end"})
    OBVIOUS
  <2>6. f \in RunFrame /\ f.import = Inner.import
    BY <1>2, <2>2, <2>5 DEF RunFrame
  <2>. HIDE DEF f
  <2>7. Within(f)
    BY <2>4, <2>6 DEF Within, NestedScript
  <2>8. pending' \in Seq(OwnEntry) /\ fired' \in Seq(OwnEntry) /\ call' \in Call
    BY <2>1, <2>4, FireNestedTypes
  <2>9. QED
    BY <1>1, <2>1, <2>6, <2>7, <2>8, SetTypes, KeptByImport
<1>8. CASE NestedPost
  <2>1. running # <<>> /\ Inner.todo # <<>> /\ SetInner([Inner EXCEPT !.todo = Tail(@)])
        /\ FireNested(FALSE)
        /\ UNCHANGED <<world, mods, dir, mod, stack, registered, scans, pc>>
    BY <1>8 DEF NestedPost, NestedAt
  <2>2. NestedScript \in Scripts
    BY <2>1, InnerIs DEF Within, NestedScript
  <2>3. pending' \in Seq(OwnEntry) /\ fired' \in Seq(OwnEntry) /\ call' \in Call
    BY <2>1, <2>2, FireNestedTypes
  <2>4. [Inner EXCEPT !.todo = Tail(@)] \in RunFrame /\ Within([Inner EXCEPT !.todo = Tail(@)])
    BY <2>1, StepOver
  <2>5. QED
    BY <1>1, <2>1, <2>3, <2>4, SetTypes, KeptByImport
<1>9. CASE NestedBody
  <2>1. running # <<>> /\ Inner.todo # <<>> /\ SetInner([Inner EXCEPT !.todo = Tail(@)]) /\ UNCHANGED vars
    BY <1>9 DEF NestedBody, NestedAt
  <2>2. [Inner EXCEPT !.todo = Tail(@)] \in RunFrame /\ Within([Inner EXCEPT !.todo = Tail(@)])
    BY <2>1, StepOver
  <2>3. QED
    BY <1>1, <2>1, <2>2, ScanStep, SetTypes
<1>10. CASE NestedEnd
  <2>. DEFINE f == [Inner EXCEPT !.todo = <<>>, !.pending = <<>>, !.fired = <<>>, !.call = NoCall]
  <2>1. running # <<>> /\ SetInner(f)
        /\ pending' = Inner.pending /\ fired' = Inner.fired /\ call' = Inner.call
        /\ UNCHANGED <<world, mods, dir, mod, stack, registered, scans, pc>>
    BY <1>10 DEF NestedEnd, NestedAt
  <2>2. Inner \in RunFrame
    BY <2>1, InnerIs
  <2>3. pending' \in Seq(OwnEntry) /\ fired' \in Seq(OwnEntry) /\ call' \in Call
    BY <2>1, <2>2 DEF RunFrame
  <2>4. NoCall \in Call
    BY TargetAssumption DEF NoCall, Call
  <2>5. <<>> \in Seq({"body", "post", "end"}) /\ f.todo = <<>>
    BY <2>2 DEF RunFrame
  <2>6. f \in RunFrame /\ Within(f)
    BY <1>2, <2>2, <2>4, <2>5 DEF RunFrame, Within
  <2>. HIDE DEF f
  <2>7. QED
    BY <1>1, <2>1, <2>3, <2>6, SetTypes, KeptByImport
<1>11. CASE BindConfig
  <2>1. running # <<>> /\ running' = Front(running) /\ UNCHANGED vars
    BY <1>11 DEF BindConfig, InChunk
  <2>2. QED
    BY <1>1, <2>1, ScanStep, PopTypes
<1>12. CASE Restart
  BY <1>12, RestartTypes
<1>13. QED
  <2>1. CASE StartWave
    BY <1>3, <2>1 DEF StartWave, Next
  <2>2. CASE /\ \/ Scan \/ Edit
                \/ \E script \in Scripts, top \in BOOLEAN : Fire(script, top)
                \/ ~InChunk /\ ~NextIsConfig /\ FireNext
             /\ UNCHANGED configVars
    BY <1>3, <2>2 DEF Next, configVars
  <2>3. CASE EndOfImports
    BY <1>3, <2>3 DEF EndOfImports, Next
  <2>4. CASE UNCHANGED allVars
    BY <1>4, <2>4 DEF allVars, configVars
  <2>5. CASE \E m \in Mods, k \in Settings : EditInOverlay(m, k) \/ EditByHand(m, k)
    BY <1>4, <2>5 DEF EditInOverlay, EditByHand
  <2>6. QED
    BY <1>5, <1>6, <1>7, <1>8, <1>9, <1>10, <1>11, <1>12, <2>1, <2>2, <2>3, <2>4, <2>5 DEF ConfigNext

--------------------------------------------------------------------------------
(* What the player sets stays in the .cfg.                                      *)

\* A setting of EditsKept is also in the copy the loader holds, which the next
\* bind writes over the .cfg.
EditsHeld == \A m \in Mods \cap DOMAIN files : \A k \in edits[m] :
  k \in DOMAIN files[m].values /\ files[m].values[k] = Edited

\* What the loader holds, it has saved; an entry has a value.
FilesSaved == \A m \in DOMAIN files :
  /\ m \in DOMAIN saved
  /\ files[m] = [entries |-> files[m].entries, values |-> files[m].values]
  /\ files[m].entries \subseteq DOMAIN files[m].values

Kept == DOMAIN edits = Mods /\ EditsKept /\ EditsHeld /\ FilesSaved

\* A default is bound only where the file has no value.
LEMMA BindKeeps ==
  ASSUME NEW t, NEW file, NEW k \in DOMAIN file.values
  PROVE  /\ k \in DOMAIN BindTable(t, file).values
         /\ BindTable(t, file).values[k] = file.values[k]
  BY DEF BindTable, Over

\* What file_for returns holds what the player set.
LEMMA FileForHolds ==
  ASSUME Kept, NEW m \in Mods, NEW k \in edits[m]
  PROVE  k \in DOMAIN FileFor(m).values /\ FileFor(m).values[k] = Edited
  BY DEF Kept, EditsKept, EditsHeld, FileFor

LEMMA FileForSaved ==
  ASSUME Kept, NEW m
  PROVE  FileFor(m).entries \subseteq DOMAIN FileFor(m).values
  BY DEF Kept, FilesSaved, FileFor

LEMMA BindKept ==
  ASSUME Kept, BindConfig
  PROVE  Kept'
<1> DEFINE m == Inner.import.mod
           file == BindTable(ConfigTable, FileFor(m))
<1>1. edits' = edits
  BY DEF BindConfig
<1>2. CASE Added = {}
  BY <1>1, <1>2 DEF BindConfig, Kept, EditsKept, EditsHeld, FilesSaved
<1>3. CASE Added # {}
  <2>1. files' = Put(files, m, file) /\ saved' = Put(saved, m, file.values)
    BY <1>3 DEF BindConfig
  <2>2. ASSUME NEW n \in Mods, NEW k \in edits[n], n = m
        PROVE  k \in DOMAIN file.values /\ file.values[k] = Edited
    <3>1. k \in DOMAIN FileFor(m).values /\ FileFor(m).values[k] = Edited
      BY <2>2, FileForHolds
    <3>2. QED
      BY <3>1, BindKeeps
  <2> HIDE DEF file
  <2>3. /\ DOMAIN files' = {m} \cup DOMAIN files /\ DOMAIN saved' = {m} \cup DOMAIN saved
        /\ files'[m] = file /\ saved'[m] = file.values
        /\ \A n \in DOMAIN files \ {m} : files'[n] = files[n]
        /\ \A n \in DOMAIN saved \ {m} : saved'[n] = saved[n]
    BY <2>1 DEF Put
  <2>4. EditsKept'
    BY <1>1, <2>2, <2>3 DEF Kept, EditsKept
  <2>5. EditsHeld'
    BY <1>1, <2>2, <2>3 DEF Kept, EditsHeld
  <2>6. /\ file = [entries |-> file.entries, values |-> file.values]
        /\ file.entries \subseteq DOMAIN file.values
    BY FileForSaved DEF file, BindTable, Over
  <2>7. FilesSaved'
    BY <2>3, <2>6 DEF Kept, FilesSaved
  <2>8. QED
    BY <1>1, <2>4, <2>5, <2>7 DEF Kept
<1>4. QED
  BY <1>2, <1>3

LEMMA EditKept ==
  ASSUME Kept, NEW m \in Mods, NEW k \in Settings, EditInOverlay(m, k) \/ EditByHand(m, k)
  PROVE  Kept'
<1>1. CASE EditInOverlay(m, k)
  <2>1. /\ m \in DOMAIN files /\ m \in DOMAIN saved /\ k \in DOMAIN files[m].values
        /\ files[m] = [entries |-> files[m].entries, values |-> files[m].values]
        /\ files[m].entries \subseteq DOMAIN files[m].values
    BY <1>1 DEF EditInOverlay, Kept, FilesSaved
  <2> DEFINE new == [files[m].values EXCEPT ![k] = Edited]
  <2>2. /\ DOMAIN files' = DOMAIN files /\ \A n \in DOMAIN files \ {m} : files'[n] = files[n]
        /\ files'[m] = [entries |-> files[m].entries, values |-> new]
    <3>1. files' = [files EXCEPT ![m] = [files[m] EXCEPT !.values = new]]
      BY <1>1 DEF EditInOverlay
    <3>2. [files[m] EXCEPT !.values = new] = [entries |-> files[m].entries, values |-> new]
      BY <2>1
    <3>3. QED
      BY <2>1, <3>1, <3>2
  <2>3. saved' = [saved EXCEPT ![m] = new]
    BY <1>1, <2>2 DEF EditInOverlay
  <2>4. edits' = [edits EXCEPT ![m] = @ \cup {k}]
    BY <1>1 DEF EditInOverlay
  <2>5. DOMAIN new = DOMAIN files[m].values /\ new[k] = Edited
        /\ \A j \in DOMAIN new \ {k} : new[j] = files[m].values[j]
    BY <2>1
  <2> HIDE DEF new
  <2>6. \A j \in edits'[m] : j \in DOMAIN new /\ new[j] = Edited
    BY <2>1, <2>4, <2>5 DEF Kept, EditsHeld
  <2>7. EditsKept'
    BY <2>1, <2>3, <2>4, <2>6 DEF Kept, EditsKept
  <2>8. EditsHeld'
    BY <2>1, <2>2, <2>4, <2>6 DEF Kept, EditsHeld
  <2>9. FilesSaved'
    BY <2>1, <2>2, <2>3, <2>5 DEF Kept, FilesSaved
  <2>10. QED
    BY <2>4, <2>7, <2>8, <2>9 DEF Kept
<1>2. CASE EditByHand(m, k)
  BY <1>2 DEF EditByHand, Kept, EditsKept, EditsHeld, FilesSaved
<1>3. QED
  BY <1>1, <1>2

LEMMA RestartKept == Kept /\ Restart => Kept'
  BY DEF Restart, Kept, EditsKept, EditsHeld, FilesSaved

LEMMA ElseKept ==
  ASSUME Kept, UNCHANGED <<files, saved, edits>>
  PROVE  Kept'
  BY DEF Kept, EditsKept, EditsHeld, FilesSaved

LEMMA StepKept == Kept /\ [ConfigNext]_allVars => Kept'
<1> SUFFICES ASSUME Kept, [ConfigNext]_allVars PROVE Kept'
  OBVIOUS
<1>1. CASE StartWave \/ EndOfImports \/ ImportConfig \/ AddsTable \/ ImportsScript \/ NestedBody \/ NestedEnd
  BY <1>1, ElseKept DEF StartWave, EndOfImports, ImportConfig, AddsTable, ImportsScript, NestedBody, NestedEnd
<1>2. CASE UNCHANGED configVars \/ NestedPost
  BY <1>2, ElseKept DEF configVars, NestedPost
<1>3. CASE BindConfig
  BY <1>3, BindKept
<1>4. CASE \E m \in Mods, k \in Settings : EditInOverlay(m, k) \/ EditByHand(m, k)
  BY <1>4, EditKept
<1>5. CASE Restart
  BY <1>5, RestartKept
<1>6. CASE UNCHANGED allVars
  BY <1>6, ElseKept DEF allVars, configVars
<1>7. QED
  BY <1>1, <1>2, <1>3, <1>4, <1>5, <1>6 DEF ConfigNext

\* A setting the player made is in the .cfg for good, whatever the mods bind over
\* it in this wave or a later one, whosever table a .cfg is given, and wherever the
\* game is closed (bind_legacy_config, draw_config_entry): the part of
\* PlayersEditWins that is about the file.
THEOREM EditsAreKept == ConfigSpec => []EditsKept
<1>1. ConfigInit => Kept
  BY DEF ConfigInit, Kept, EditsKept, EditsHeld, FilesSaved
<1>2. Kept => EditsKept
  BY DEF Kept
<1>3. QED
  BY <1>1, <1>2, StepKept, PTL DEF ConfigSpec

--------------------------------------------------------------------------------
(* The tables in _G and the .cfg files.                                         *)

TablesOK ==
  /\ DOMAIN tables \subseteq Tables
  /\ \A t \in DOMAIN tables : IsCfg(tables[t]) /\ DOMAIN tables[t] = Keys[t]
CfgTypes ==
  /\ TablesOK
  /\ before \subseteq Tables
  /\ DOMAIN files \subseteq DOMAIN saved /\ DOMAIN saved \subseteq Mods
  /\ \A m \in DOMAIN saved : IsCfg(saved[m])
  /\ \A m \in DOMAIN files : IsCfg(files[m].values) /\ files[m].entries \subseteq DOMAIN files[m].values

ConfigInv == ScanTypes /\ RunTypes /\ Kept /\ CfgTypes

LEMMA ConfigTypesMean == ConfigInv => ConfigTypeOK
<1> SUFFICES ASSUME ConfigInv PROVE ConfigTypeOK
  OBVIOUS
<1>1. \A i \in DOMAIN running : running[i].import \in Entry /\ running[i].import.source \in Configs
  <2>1. \A i \in DOMAIN running : running[i] \in RunFrame
    BY DEF ConfigInv, RunTypes
  <2>2. QED
    BY <2>1 DEF RunFrame, OwnEntry
<1>2. QED
  BY <1>1, ScanTypesMean DEF ConfigInv, CfgTypes, TablesOK, ConfigTypeOK

\* A file that adds a table adds one with its own settings.
LEMMA AddTableIs ==
  ASSUME TablesOK, NEW t \in Tables, AddTable(t)
  PROVE  TablesOK' /\ DOMAIN tables' = DOMAIN tables \cup {t}
<1>1. CASE Loaded(t)
  BY <1>1 DEF AddTable, Loaded, TablesOK, IsCfg
<1>2. CASE ~Loaded(t)
  <2>1. /\ DOMAIN tables' = DOMAIN tables \cup {t} /\ tables'[t] = Defaults(t)
        /\ \A u \in DOMAIN tables : tables'[u] = tables[u]
    BY <1>2 DEF AddTable, Loaded, Put
  <2>2. DOMAIN Defaults(t) = Keys[t] /\ \A k \in Keys[t] : Defaults(t)[k] = t
    BY DEF Defaults
  <2>3. IsCfg(Defaults(t))
    BY <2>2 DEF IsCfg, Settings
  <2>4. QED
    BY <2>1, <2>2, <2>3 DEF TablesOK, IsCfg
<1>3. QED
  BY <1>1, <1>2

\* find_config_table returns a table that was added, if there is one.
LEMMA TableIs ==
  ASSUME TablesOK, Added # {}
  PROVE  ConfigTable \in Added
<1>1. \A t \in Added : Rank[t] \in Nat
  BY RankAssumption DEF Added, Globals, TablesOK, Tables
<1>. DEFINE ranks == {Rank[t] : t \in Added}
<1>2. ranks \in SUBSET Nat /\ ranks # {}
  BY <1>1
<1>. HIDE DEF ranks
<1>3. PICK n \in ranks : \A k \in ranks : n <= k
  BY <1>2, LeastOne
<1>4. \E t \in Added : \A u \in Added : Rank[t] <= Rank[u]
  BY <1>3 DEF ranks
<1>5. QED
  BY <1>4 DEF ConfigTable

\* What bind_legacy_config leaves, if there is a table.
LEMMA BoundIs ==
  ASSUME ConfigInv, BindConfig, Added # {}
  PROVE  LET m == Inner.import.mod
             t == ConfigTable
             file == BindTable(t, FileFor(m))
         IN  /\ m \in Mods /\ t \in DOMAIN tables \ before
             /\ DOMAIN file.values = DOMAIN FileFor(m).values \cup Keys[t]
             /\ IsCfg(file.values) /\ file.entries \subseteq DOMAIN file.values
             /\ DOMAIN files' = DOMAIN files \cup {m} /\ files'[m] = file
             /\ DOMAIN saved' = DOMAIN saved \cup {m} /\ saved'[m] = file.values
             /\ \A n \in DOMAIN files \ {m} : files'[n] = files[n]
             /\ \A n \in DOMAIN saved \ {m} : saved'[n] = saved[n]
             /\ DOMAIN tables' = DOMAIN tables
             /\ tables'[t] = [k \in Keys[t] |-> file.values[k]]
             /\ \A u \in DOMAIN tables \ {t} : tables'[u] = tables[u]
<1>1. PICK m, t, old : m = Inner.import.mod /\ t = ConfigTable /\ old = FileFor(m)
  OBVIOUS
<1>2. PICK file : file = BindTable(t, old)
  OBVIOUS
<1>3. m \in Mods
  <2>1. Inner \in RunFrame
    BY InnerIs DEF ConfigInv, BindConfig, InChunk
  <2>2. QED
    BY <1>1, <2>1 DEF RunFrame, OwnEntry, Entry
<1>4. t \in DOMAIN tables \ before /\ IsCfg(tables[t]) /\ DOMAIN tables[t] = Keys[t]
  BY <1>1, TableIs DEF ConfigInv, CfgTypes, TablesOK, Added, Globals
<1>5. IsCfg(old.values) /\ old.entries \subseteq DOMAIN old.values
  BY <1>1 DEF ConfigInv, CfgTypes, FileFor, IsCfg
<1>6. /\ file.entries = old.entries \cup Keys[t]
      /\ DOMAIN file.values = DOMAIN old.values \cup Keys[t]
      /\ \A k \in DOMAIN file.values :
           file.values[k] = IF k \in DOMAIN old.values THEN old.values[k] ELSE tables[t][k]
  BY <1>2, <1>4 DEF BindTable, Over
<1>7. IsCfg(file.values) /\ file.entries \subseteq DOMAIN file.values
  BY <1>4, <1>5, <1>6 DEF IsCfg
<1>8. /\ files' = Put(files, m, file) /\ saved' = Put(saved, m, file.values)
      /\ tables' = [tables EXCEPT ![t] = [k \in DOMAIN @ |-> file.values[k]]]
  BY <1>1, <1>2 DEF BindConfig
<1>9. /\ DOMAIN files' = DOMAIN files \cup {m} /\ files'[m] = file
      /\ DOMAIN saved' = DOMAIN saved \cup {m} /\ saved'[m] = file.values
      /\ \A n \in DOMAIN files \ {m} : files'[n] = files[n]
      /\ \A n \in DOMAIN saved \ {m} : saved'[n] = saved[n]
  BY <1>8 DEF Put
<1>10. /\ DOMAIN tables' = DOMAIN tables
       /\ tables'[t] = [k \in Keys[t] |-> file.values[k]]
       /\ \A u \in DOMAIN tables \ {t} : tables'[u] = tables[u]
  BY <1>4, <1>8
<1>11. QED
  BY <1>1, <1>2, <1>3, <1>4, <1>6, <1>7, <1>9, <1>10

LEMMA BindTypes ==
  ASSUME ConfigInv, BindConfig
  PROVE  CfgTypes'
<1>1. CASE Added = {}
  <2>1. UNCHANGED <<tables, before, files, saved>>
    BY <1>1 DEF BindConfig
  <2>2. QED
    BY <2>1 DEF ConfigInv, CfgTypes, TablesOK, IsCfg
<1>2. CASE Added # {}
  <2>1. PICK m, t, file : m = Inner.import.mod /\ t = ConfigTable /\ file = BindTable(t, FileFor(m))
    OBVIOUS
  <2>2. /\ m \in Mods /\ t \in DOMAIN tables \ before
        /\ DOMAIN file.values = DOMAIN FileFor(m).values \cup Keys[t]
        /\ IsCfg(file.values) /\ file.entries \subseteq DOMAIN file.values
        /\ DOMAIN files' = DOMAIN files \cup {m} /\ files'[m] = file
        /\ DOMAIN saved' = DOMAIN saved \cup {m} /\ saved'[m] = file.values
        /\ \A n \in DOMAIN files \ {m} : files'[n] = files[n]
        /\ \A n \in DOMAIN saved \ {m} : saved'[n] = saved[n]
        /\ DOMAIN tables' = DOMAIN tables
        /\ tables'[t] = [k \in Keys[t] |-> file.values[k]]
        /\ \A u \in DOMAIN tables \ {t} : tables'[u] = tables[u]
    BY <1>2, <2>1, BoundIs
  <2>3. IsCfg(tables'[t]) /\ DOMAIN tables'[t] = Keys[t]
    BY <2>2 DEF IsCfg
  <2>4. TablesOK'
    BY <2>2, <2>3 DEF ConfigInv, CfgTypes, TablesOK, IsCfg
  <2>5. before' = before
    BY DEF BindConfig
  <2>6. QED
    BY <2>2, <2>4, <2>5 DEF ConfigInv, CfgTypes, IsCfg
<1>3. QED
  BY <1>1, <1>2

LEMMA EditTypes ==
  ASSUME ConfigInv, NEW m \in Mods, NEW k \in Settings, EditInOverlay(m, k) \/ EditByHand(m, k)
  PROVE  /\ CfgTypes' /\ UNCHANGED <<tables, before, running>>
         /\ DOMAIN files' = DOMAIN files /\ DOMAIN saved' = DOMAIN saved
         /\ \A n \in DOMAIN saved : DOMAIN saved'[n] \in {DOMAIN saved[n], DOMAIN files'[n].values}
         /\ \A n \in DOMAIN saved \ DOMAIN files : DOMAIN saved'[n] = DOMAIN saved[n]
         /\ \A n \in DOMAIN files : DOMAIN files'[n].values = DOMAIN files[n].values
<1>1. CASE EditInOverlay(m, k)
  <2>1. /\ m \in DOMAIN files /\ m \in DOMAIN saved /\ k \in files[m].entries
        /\ files[m] = [entries |-> files[m].entries, values |-> files[m].values]
        /\ files[m].entries \subseteq DOMAIN files[m].values /\ IsCfg(files[m].values)
    BY <1>1 DEF EditInOverlay, ConfigInv, Kept, FilesSaved, CfgTypes
  <2>2. PICK new : new = [files[m].values EXCEPT ![k] = Edited]
    OBVIOUS
  <2>3. /\ DOMAIN files' = DOMAIN files /\ \A n \in DOMAIN files \ {m} : files'[n] = files[n]
        /\ files'[m] = [entries |-> files[m].entries, values |-> new]
    <3>1. files' = [files EXCEPT ![m] = [files[m] EXCEPT !.values = new]]
      BY <1>1, <2>2 DEF EditInOverlay
    <3>2. [files[m] EXCEPT !.values = new] = [entries |-> files[m].entries, values |-> new]
      BY <2>1
    <3>3. QED
      BY <2>1, <3>1, <3>2
  <2>4. /\ DOMAIN saved' = DOMAIN saved /\ saved'[m] = new
        /\ \A n \in DOMAIN saved \ {m} : saved'[n] = saved[n]
    BY <1>1, <2>1, <2>3 DEF EditInOverlay
  <2>5. DOMAIN new = DOMAIN files[m].values /\ IsCfg(new)
    BY <2>1, <2>2 DEF IsCfg
  <2>6. UNCHANGED <<tables, before, running>>
    BY <1>1 DEF EditInOverlay
  <2>7. CfgTypes'
    BY <2>1, <2>3, <2>4, <2>5, <2>6 DEF ConfigInv, CfgTypes, TablesOK, IsCfg
  <2>8. /\ DOMAIN saved'[m] = DOMAIN files'[m].values
        /\ DOMAIN files'[m].values = DOMAIN files[m].values
    BY <2>3, <2>4, <2>5
  <2>9. \A n \in DOMAIN saved : DOMAIN saved'[n] \in {DOMAIN saved[n], DOMAIN files'[n].values}
    BY <2>4, <2>8
  <2>10. \A n \in DOMAIN saved \ DOMAIN files : DOMAIN saved'[n] = DOMAIN saved[n]
    BY <2>1, <2>4
  <2>11. \A n \in DOMAIN files : DOMAIN files'[n].values = DOMAIN files[n].values
    BY <2>3, <2>8
  <2>12. DOMAIN files' = DOMAIN files /\ DOMAIN saved' = DOMAIN saved
    BY <2>3, <2>4
  <2>13. QED
    BY <2>6, <2>7, <2>9, <2>10, <2>11, <2>12
<1>2. CASE EditByHand(m, k)
  <2>1. m \in DOMAIN saved /\ UNCHANGED <<tables, before, running, files>>
    BY <1>2 DEF EditByHand
  <2>2. PICK new : new = [saved[m] EXCEPT ![k] = Edited]
    OBVIOUS
  <2>3. saved' = [saved EXCEPT ![m] = new]
    BY <1>2, <2>2 DEF EditByHand
  <2>4. IsCfg(saved[m])
    BY <2>1 DEF ConfigInv, CfgTypes
  <2>5. DOMAIN new = DOMAIN saved[m] /\ IsCfg(new)
    BY <2>2, <2>4 DEF IsCfg
  <2>6. /\ DOMAIN saved' = DOMAIN saved /\ saved'[m] = new
        /\ \A n \in DOMAIN saved \ {m} : saved'[n] = saved[n]
    BY <2>1, <2>3
  <2>7. CfgTypes'
    BY <2>1, <2>5, <2>6 DEF ConfigInv, CfgTypes, TablesOK, IsCfg
  <2>8. QED
    BY <2>1, <2>5, <2>6, <2>7
<1>3. QED
  BY <1>1, <1>2

LEMMA CfgStep == ConfigInv /\ [ConfigNext]_allVars => CfgTypes'
<1> SUFFICES ASSUME ConfigInv, [ConfigNext]_allVars PROVE CfgTypes'
  OBVIOUS
<1>1. CfgTypes /\ TablesOK /\ RunTypes
  BY DEF ConfigInv, CfgTypes
<1>2. ASSUME UNCHANGED <<before, files, saved>>, TablesOK' PROVE CfgTypes'
  BY <1>1, <1>2 DEF CfgTypes, IsCfg
<1>3. CASE UNCHANGED <<tables, before, files, saved>>
  BY <1>1, <1>3 DEF CfgTypes, TablesOK, IsCfg
<1>4. CASE StartWave
  <2>1. DOMAIN tables' = {} /\ UNCHANGED <<before, files, saved>>
    BY <1>4 DEF StartWave
  <2>2. TablesOK'
    BY <2>1 DEF TablesOK
  <2>3. QED
    BY <1>2, <2>1, <2>2
<1>5. ASSUME NEW script, RunBody(script) PROVE TablesOK'
  <2>1. CASE script \in Libs
    BY <1>1, <1>5, <2>1, AddTableIs DEF RunBody, Tables
  <2>2. CASE script \notin Libs
    BY <1>1, <1>5, <2>2 DEF RunBody, TablesOK, IsCfg
  <2>3. QED
    BY <2>1, <2>2
<1>6. CASE EndOfImports
  <2>1. TablesOK' \/ tables' = tables
    BY <1>5, <1>6 DEF EndOfImports
  <2>2. QED
    BY <1>2, <1>3, <1>6, <2>1 DEF EndOfImports
<1>7. CASE ImportConfig
  <2>1. before' = DOMAIN tables /\ UNCHANGED <<tables, files, saved>>
    BY <1>7 DEF ImportConfig, SnapshotGlobals, Globals
  <2>2. QED
    BY <1>1, <2>1 DEF CfgTypes, TablesOK, IsCfg
<1>8. CASE AddsTable
  <2>1. Inner.import.source \in Tables
    BY <1>1, <1>8, InnerIs DEF AddsTable, InChunk, RunFrame, Tables
  <2>2. QED
    BY <1>1, <1>2, <1>8, <2>1, AddTableIs DEF AddsTable
<1>9. CASE NestedBody
  BY <1>2, <1>5, <1>9 DEF NestedBody
<1>10. CASE ImportsScript \/ NestedEnd \/ NestedPost
  BY <1>3, <1>10 DEF ImportsScript, NestedEnd, NestedPost
<1>11. CASE BindConfig
  BY <1>11, BindTypes
<1>12. CASE \E m \in Mods, k \in Settings : EditInOverlay(m, k) \/ EditByHand(m, k)
  BY <1>12, EditTypes
<1>13. CASE Restart
  <2>1. DOMAIN tables' = {} /\ before' = {} /\ DOMAIN files' = {} /\ saved' = saved
    BY <1>13 DEF Restart
  <2>2. QED
    BY <1>1, <2>1 DEF CfgTypes, TablesOK, IsCfg
<1>14. CASE UNCHANGED configVars \/ UNCHANGED allVars
  BY <1>3, <1>14 DEF allVars, configVars
<1>15. QED
  BY <1>4, <1>6, <1>7, <1>8, <1>9, <1>10, <1>11, <1>12, <1>13, <1>14 DEF ConfigNext

LEMMA ConfigInvInit == ConfigInit => ConfigInv
<1> SUFFICES ASSUME ConfigInit PROVE ConfigInv
  OBVIOUS
<1>1. ScanTypes
  BY ScanInit DEF ConfigInit
<1>2. running = <<>> /\ DOMAIN tables = {} /\ before = {} /\ DOMAIN files = {} /\ DOMAIN saved = {}
      /\ edits = [m \in Mods |-> {}]
  BY DEF ConfigInit
<1>3. RunTypes
  <2>1. <<>> \in Seq(RunFrame) /\ Len(<<>>) = 0
    OBVIOUS
  <2>2. QED
    BY <1>2, <2>1 DEF RunTypes
<1>4. Kept
  BY <1>2 DEF Kept, EditsKept, EditsHeld, FilesSaved
<1>5. CfgTypes
  BY <1>2 DEF CfgTypes, TablesOK
<1>6. QED
  BY <1>1, <1>3, <1>4, <1>5 DEF ConfigInv

LEMMA ConfigInvStep == ConfigInv /\ [ConfigNext]_allVars => ConfigInv'
BY RunStep, StepKept, CfgStep DEF ConfigInv

\* For any mods and modfiles: whatever is listed, registered, fired or imported is
\* an entry of its kind, the Includes nest no deeper than the limit, and every
\* .cfg and table holds settings and values there are.
THEOREM ConfigTypes == ConfigSpec => []ConfigTypeOK
<1>1. QED
  BY ConfigInvInit, ConfigInvStep, ConfigTypesMean, PTL DEF ConfigSpec

--------------------------------------------------------------------------------
(* Whose settings are in a .cfg.                                                *)

\* All the config.lua in progress but the innermost are mixed already; if that one
\* is not, the only table there is since its snapshot is its own.
MixInv ==
  /\ \A i \in 1..(Len(running) - 1) : running[i].import.mod \in mixed
  /\ running # <<>> /\ Inner.import.mod \notin mixed => Added \subseteq {Inner.import.source}

OwnFiles ==
  /\ \A m \in DOMAIN saved \ mixed : DOMAIN saved[m] \subseteq OwnSettings(m)
  /\ \A m \in DOMAIN files \ mixed : DOMAIN files[m].values \subseteq OwnSettings(m)

\* The table that is bound for a config.lua that is not mixed is its own.
LEMMA OwnTable ==
  ASSUME ConfigInv, MixInv, running # <<>>, Inner.import.mod \notin mixed, Added # {}
  PROVE  /\ ConfigTable = Inner.import.source
         /\ Keys[ConfigTable] \subseteq OwnSettings(Inner.import.mod)
<1>1. ConfigTable = Inner.import.source
  BY TableIs DEF ConfigInv, CfgTypes, MixInv
<1>2. Inner.import.source \in Configs \cap SourcesOf(Inner.import.mod)
  BY InnerIs DEF ConfigInv, RunFrame, OwnEntry
<1>3. QED
  BY <1>1, <1>2 DEF OwnSettings

LEMMA MixedGrows ==
  ASSUME [MixedNext]_mcVars, Len(running) \in Nat
  PROVE  /\ mixed \subseteq mixed'
         /\ running # <<>> /\ Len(running') > Len(running) => Inner.import.mod \in mixed'
         /\ NestedBody /\ tables' # tables => Inner.import.mod \in mixed'
<1>1. CASE MixedNext
  BY <1>1 DEF MixedNext, NestedBody, NestedAt
<1>2. CASE UNCHANGED mcVars
  BY <1>2 DEF mcVars, allVars, configVars
<1>3. QED
  BY <1>1, <1>2

LEMMA MixStep ==
  ASSUME ConfigInv, MixInv, [MixedNext]_mcVars
  PROVE  MixInv'
<1>1. RunTypes /\ TablesOK /\ Len(running) \in Nat
  BY DEF ConfigInv, CfgTypes, RunTypes
<1>2. /\ mixed \subseteq mixed'
      /\ running # <<>> /\ Len(running') > Len(running) => Inner.import.mod \in mixed'
      /\ NestedBody /\ tables' # tables => Inner.import.mod \in mixed'
  BY <1>1, MixedGrows
<1>3. ASSUME running' = running, Added' \subseteq Added PROVE MixInv'
  BY <1>2, <1>3 DEF MixInv, Inner
<1>4. CASE running' = <<>>
  <2>1. Len(running') = 0
    BY <1>4
  <2>2. QED
    BY <1>4, <2>1 DEF MixInv
<1>5. ASSUME running # <<>>, NEW f, f.import = Inner.import, SetInner(f),
             Inner.import.mod \notin mixed' => Added' \subseteq Added \cup {Inner.import.source}
      PROVE  MixInv'
  <2>1. /\ running' = Append(Front(running), f) /\ Len(running) \in Nat \ {0}
        /\ Len(Front(running)) = Len(running) - 1 /\ Front(running) \in Seq(RunFrame)
        /\ \A i \in 1..(Len(running) - 1) : Front(running)[i] = running[i]
    BY <1>1, <1>5, InnerIs DEF SetInner
  <2>2. Len(running') = Len(running) /\ running'[Len(running)] = f
        /\ \A i \in 1..(Len(running) - 1) : running'[i] = running[i]
    <3>1. Front(running) \in Seq(RunFrame \cup {f}) /\ f \in RunFrame \cup {f}
      BY <2>1
    <3>2. QED
      BY <2>1, <3>1, AppendProperties
  <2>3. Inner' = f
    BY <2>2 DEF Inner, Last
  <2>4. \A i \in 1..(Len(running') - 1) : running'[i].import.mod \in mixed'
    BY <1>2, <2>2 DEF MixInv
  <2>5. Inner'.import.mod \notin mixed' => Added' \subseteq {Inner'.import.source}
    BY <1>2, <1>5, <2>3 DEF MixInv
  <2>6. QED
    BY <2>4, <2>5 DEF MixInv
<1>6. CASE ImportConfig
  <2>1. PICK f : running' = Append(running, f)
    BY <1>6 DEF ImportConfig
  <2>2. Added' = {}
    BY <1>6 DEF ImportConfig, SnapshotGlobals, Added, Globals
  <2>3. running \in Seq(RunFrame \cup {f}) /\ f \in RunFrame \cup {f}
    BY <1>1 DEF RunTypes
  <2>4. /\ Len(running') = Len(running) + 1
        /\ \A i \in 1..Len(running) : running'[i] = running[i]
    BY <2>1, <2>3, AppendProperties
  <2>5. ASSUME NEW i \in 1..Len(running) PROVE running[i].import.mod \in mixed'
    <3>1. running # <<>> /\ Len(running') > Len(running)
      BY <1>1, <2>4
    <3>2. i \in 1..(Len(running) - 1) \/ running[i] = Inner
      BY <1>1, <3>1, InnerIs
    <3>3. QED
      BY <1>2, <3>1, <3>2 DEF MixInv
  <2>6. QED
    BY <1>1, <2>2, <2>4, <2>5 DEF MixInv
<1>7. CASE AddsTable
  <2>1. running # <<>> /\ AddTable(Inner.import.source) /\ before' = before
        /\ SetInner([Inner EXCEPT !.may = @ \ {"add"}])
    BY <1>7 DEF AddsTable, InChunk
  <2>2. Inner \in RunFrame
    BY <1>1, <2>1, InnerIs
  <2>3. Inner.import.source \in Tables
    BY <2>2 DEF RunFrame, Tables
  <2>4. Added' \subseteq Added \cup {Inner.import.source}
    BY <1>1, <2>1, <2>3, AddTableIs DEF Added, Globals
  <2>5. [Inner EXCEPT !.may = @ \ {"add"}].import = Inner.import
    BY <2>2 DEF RunFrame
  <2>6. QED
    BY <1>5, <2>1, <2>4, <2>5
<1>8. CASE ImportsScript
  <2>1. PICK f : f = [Inner EXCEPT !.may = @ \ {"import"}, !.todo = <<"body", "post", "end">>,
                                   !.pending = pending, !.fired = fired, !.call = call]
    OBVIOUS
  <2>2. running # <<>> /\ SetInner(f) /\ UNCHANGED <<tables, before>>
    BY <1>8, <2>1 DEF ImportsScript, InChunk
  <2>3. f.import = Inner.import
    BY <1>1, <2>1, <2>2, InnerIs DEF RunFrame
  <2>4. QED
    BY <1>5, <2>2, <2>3 DEF Added, Globals
<1>9. CASE NestedBody \/ NestedPost
  <2>1. PICK f : f = [Inner EXCEPT !.todo = Tail(@)]
    OBVIOUS
  <2>2. running # <<>> /\ SetInner(f) /\ before' = before
    BY <1>9, <2>1 DEF NestedBody, NestedPost, NestedAt
  <2>3. Inner.import.mod \notin mixed' => tables' = tables
    BY <1>2, <1>9 DEF NestedPost
  <2>4. f.import = Inner.import
    BY <1>1, <2>1, <2>2, InnerIs DEF RunFrame
  <2>5. QED
    BY <1>5, <2>2, <2>3, <2>4 DEF Added, Globals
<1>10. CASE NestedEnd
  <2>1. PICK f : f = [Inner EXCEPT !.todo = <<>>, !.pending = <<>>, !.fired = <<>>, !.call = NoCall]
    OBVIOUS
  <2>2. running # <<>> /\ SetInner(f) /\ UNCHANGED <<tables, before>>
    BY <1>10, <2>1 DEF NestedEnd, NestedAt
  <2>3. f.import = Inner.import
    BY <1>1, <2>1, <2>2, InnerIs DEF RunFrame
  <2>4. QED
    BY <1>5, <2>2, <2>3 DEF Added, Globals
<1>11. CASE BindConfig
  <2>1. running # <<>> /\ running' = Front(running)
    BY <1>11 DEF BindConfig, InChunk
  <2>2. /\ Len(running') = Len(running) - 1 /\ Len(running) \in Nat \ {0}
        /\ \A i \in 1..(Len(running) - 1) : running'[i] = running[i]
    BY <1>1, <2>1, InnerIs
  <2>3. \A i \in 1..Len(running') : running'[i].import.mod \in mixed'
    BY <1>2, <2>2 DEF MixInv
  <2>4. CASE running' # <<>>
    <3>1. Len(running') # 0
      BY <1>1, <2>1, <2>4, InnerIs
    <3>2. Len(running') \in 1..Len(running') /\ Inner' = running'[Len(running')]
      BY <2>2, <3>1 DEF Inner, Last
    <3>3. Inner'.import.mod \in mixed'
      BY <2>3, <3>2
    <3>4. QED
      BY <2>2, <2>3, <3>3 DEF MixInv
  <2>5. QED
    BY <1>4, <2>4
<1>12. CASE \E m \in Mods, k \in Settings : EditInOverlay(m, k) \/ EditByHand(m, k)
  <2>1. UNCHANGED <<tables, before, running>>
    BY <1>12 DEF EditInOverlay, EditByHand
  <2>2. QED
    BY <1>3, <2>1 DEF Added, Globals
<1>13. CASE StartWave
  BY <1>3, <1>13 DEF StartWave, Added, Globals
<1>14. CASE EndOfImports \/ Restart
  BY <1>4, <1>14 DEF EndOfImports, Restart
<1>15. CASE UNCHANGED configVars \/ UNCHANGED mcVars
  <2>1. UNCHANGED <<tables, before, running>>
    BY <1>15 DEF configVars, mcVars, allVars
  <2>2. QED
    BY <1>3, <2>1 DEF Added, Globals
<1>16. QED
  BY <1>2, <1>6, <1>7, <1>8, <1>9, <1>10, <1>11, <1>12, <1>13, <1>14, <1>15 DEF MixedNext, ConfigNext

\* What bind_legacy_config writes for a config.lua that is not mixed is its own.
LEMMA BindOwn ==
  ASSUME ConfigInv, MixInv, OwnFiles, BindConfig, mixed' = mixed, body' = body
  PROVE  OwnFiles'
<1>1. \A n : OwnSettings(n)' = OwnSettings(n)
  BY SameWorld DEF OwnSettings
<1>2. CASE Added = {}
  BY <1>1, <1>2 DEF BindConfig, OwnFiles
<1>3. CASE Added # {}
  <2>1. PICK m, t, file : m = Inner.import.mod /\ t = ConfigTable /\ file = BindTable(t, FileFor(m))
    OBVIOUS
  <2>2. /\ DOMAIN file.values = DOMAIN FileFor(m).values \cup Keys[t]
        /\ DOMAIN files' = DOMAIN files \cup {m} /\ files'[m] = file
        /\ DOMAIN saved' = DOMAIN saved \cup {m} /\ saved'[m] = file.values
        /\ \A n \in DOMAIN files \ {m} : files'[n] = files[n]
        /\ \A n \in DOMAIN saved \ {m} : saved'[n] = saved[n]
    BY <1>3, <2>1, BoundIs
  <2>3. m \notin mixed => Keys[t] \subseteq OwnSettings(m)
    BY <1>3, <2>1, OwnTable DEF BindConfig, InChunk
  <2>4. m \notin mixed => DOMAIN FileFor(m).values \subseteq OwnSettings(m)
    BY DEF OwnFiles, FileFor
  <2>5. m \notin mixed => DOMAIN file.values \subseteq OwnSettings(m)
    BY <2>2, <2>3, <2>4
  <2>6. QED
    BY <1>1, <2>2, <2>5 DEF OwnFiles
<1>4. QED
  BY <1>2, <1>3

LEMMA OwnFilesStep ==
  ASSUME ConfigInv, MixInv, OwnFiles, [MixedNext]_mcVars
  PROVE  OwnFiles'
<1>1. mixed \subseteq mixed'
  BY MixedGrows DEF ConfigInv, RunTypes
<1>2. [ConfigNext]_allVars
  BY DEF MixedNext, mcVars
<1>3. body' = body
  BY <1>2, BodyStays
<1>4. \A n : OwnSettings(n)' = OwnSettings(n)
  BY <1>3, SameWorld DEF OwnSettings
<1>5. CASE UNCHANGED <<files, saved>>
  BY <1>1, <1>4, <1>5 DEF OwnFiles
<1>6. CASE BindConfig
  <2>1. running # <<>> /\ running' = Front(running) /\ UNCHANGED vars
    BY <1>6 DEF BindConfig, InChunk
  <2>2. ~(Len(running') > Len(running))
    BY <2>1, InnerIs DEF ConfigInv
  <2>3. ~NestedBody
    BY <1>6 DEF BindConfig, InChunk, NestedBody, NestedAt
  <2>4. mixed' = mixed
    BY <2>2, <2>3 DEF MixedNext, mcVars
  <2>5. QED
    BY <1>3, <1>6, <2>4, BindOwn
<1>7. ASSUME NEW m \in Mods, NEW k \in Settings, EditInOverlay(m, k) \/ EditByHand(m, k)
      PROVE  OwnFiles'
  <2>1. /\ DOMAIN files' = DOMAIN files /\ DOMAIN saved' = DOMAIN saved
        /\ \A n \in DOMAIN saved : DOMAIN saved'[n] \in {DOMAIN saved[n], DOMAIN files'[n].values}
        /\ \A n \in DOMAIN saved \ DOMAIN files : DOMAIN saved'[n] = DOMAIN saved[n]
        /\ \A n \in DOMAIN files : DOMAIN files'[n].values = DOMAIN files[n].values
    BY <1>7, EditTypes
  <2>2. QED
    BY <1>1, <1>4, <2>1 DEF OwnFiles
<1>8. CASE Restart
  <2>1. DOMAIN files' = {} /\ saved' = saved
    BY <1>8 DEF Restart
  <2>2. QED
    BY <1>1, <1>4, <2>1 DEF OwnFiles
<1>9. CASE StartWave \/ EndOfImports \/ ImportConfig \/ AddsTable \/ ImportsScript \/ NestedBody \/ NestedEnd
  BY <1>5, <1>9 DEF StartWave, EndOfImports, ImportConfig, AddsTable, ImportsScript, NestedBody, NestedEnd
<1>10. CASE UNCHANGED configVars \/ UNCHANGED allVars \/ NestedPost
  BY <1>5, <1>10 DEF configVars, allVars, NestedPost
<1>11. QED
  BY <1>2, <1>6, <1>7, <1>8, <1>9, <1>10 DEF ConfigNext

MixedInv == ConfigInv /\ MixInv /\ OwnFiles

LEMMA MixedInvInit == MixedInit => MixedInv
<1> SUFFICES ASSUME MixedInit PROVE MixedInv
  OBVIOUS
<1>1. ConfigInv
  BY ConfigInvInit DEF MixedInit
<1>2. running = <<>> /\ Len(<<>>) = 0 /\ DOMAIN files = {} /\ DOMAIN saved = {}
  BY DEF MixedInit, ConfigInit
<1>3. QED
  BY <1>1, <1>2 DEF MixedInv, MixInv, OwnFiles

LEMMA MixedInvStep == MixedInv /\ [MixedNext]_mcVars => MixedInv'
<1> SUFFICES ASSUME MixedInv, [MixedNext]_mcVars PROVE MixedInv'
  OBVIOUS
<1>1. [ConfigNext]_allVars
  BY DEF MixedNext, mcVars
<1>2. QED
  BY <1>1, ConfigInvStep, MixStep, OwnFilesStep DEF MixedInv

\* For any mods, any config.lua and any nesting of imports: a mod's .cfg holds the
\* settings of the config.lua its own modfiles name, unless another config.lua, or
\* a library with a table, ran while one of its own did (snapshot_globals,
\* find_config_table).
THEOREM CfgIsOwn == MixedSpec => []CfgHoldsOwnTable
<1>1. MixedInv => CfgHoldsOwnTable
  BY DEF MixedInv, OwnFiles, CfgHoldsOwnTable
<1>2. QED
  BY <1>1, MixedInvInit, MixedInvStep, PTL DEF MixedSpec

\* Only the end of a config.lua, and the end of the game, take it off running.
LEMMA OnlyBindPops ==
  ASSUME ConfigInv, ConfigNext, ImportOver
  PROVE  BindConfig
<1>1. /\ running # <<>> /\ pc' = "fire" /\ Len(running) \in Nat \ {0}
      /\ Len(running') = Len(running) - 1 /\ Front(running) \in Seq(RunFrame)
  BY InnerIs DEF ConfigInv, ImportOver
<1>2. running' # running
  BY <1>1
<1>3. ASSUME NEW f, SetInner(f) PROVE FALSE
  <2>1. Front(running) \in Seq(RunFrame \cup {f}) /\ f \in RunFrame \cup {f}
    BY <1>1
  <2>2. Len(running') = Len(Front(running)) + 1
    BY <1>3, <2>1, AppendProperties DEF SetInner
  <2>3. QED
    BY <1>1, <2>2 DEF ImportOver
<1>4. ASSUME NEW f, running' = Append(running, f) PROVE FALSE
  <2>1. running \in Seq(RunFrame \cup {f}) /\ f \in RunFrame \cup {f}
    BY DEF ConfigInv, RunTypes
  <2>2. Len(running') = Len(running) + 1
    BY <1>4, <2>1, AppendProperties
  <2>3. QED
    BY <1>1, <2>2
<1>5. ~(AddsTable \/ ImportsScript \/ NestedBody \/ NestedEnd \/ NestedPost)
  BY <1>3 DEF AddsTable, ImportsScript, NestedBody, NestedEnd, NestedPost
<1>6. ~ImportConfig
  BY <1>4 DEF ImportConfig
<1>7. ~(StartWave \/ EndOfImports \/ UNCHANGED configVars)
  BY <1>2 DEF StartWave, EndOfImports, configVars
<1>8. ~(\E m \in Mods, k \in Settings : EditInOverlay(m, k) \/ EditByHand(m, k))
  BY <1>2 DEF EditInOverlay, EditByHand
<1>9. ~Restart
  BY <1>1 DEF Restart
<1>10. QED
  BY <1>5, <1>6, <1>7, <1>8, <1>9 DEF ConfigNext

\* For any mods and any config.lua: no setting the player made is lost, and a table
\* that was not mixed with another holds, once its config.lua has been imported,
\* what the player set (bind_table; "the .cfg authoritative over the mod's own
\* defaults").
THEOREM EditsWin == MixedSpec => PlayersEditWins
<1>1. ASSUME MixedInv, [MixedNext]_mcVars
      PROVE  [/\ EditsKept'
              /\ ImportOver /\ mixed = {} /\ Inner.import.source \in DOMAIN tables \ before =>
                   \A k \in edits[Inner.import.mod] \cap Keys[Inner.import.source] :
                     tables'[Inner.import.source][k] = Edited]_mcVars
  <2>1. SUFFICES ASSUME MixedNext
        PROVE  /\ EditsKept'
               /\ ImportOver /\ mixed = {} /\ Inner.import.source \in DOMAIN tables \ before =>
                    \A k \in edits[Inner.import.mod] \cap Keys[Inner.import.source] :
                      tables'[Inner.import.source][k] = Edited
    BY <1>1
  <2>2. ConfigInv /\ MixInv /\ ConfigNext
    BY <1>1, <2>1 DEF MixedInv, MixedNext
  <2>3. EditsKept'
    BY <2>2, ConfigInvStep DEF ConfigInv, Kept
  <2>4. ASSUME ImportOver, mixed = {}, Inner.import.source \in DOMAIN tables \ before,
               NEW k \in edits[Inner.import.mod] \cap Keys[Inner.import.source]
        PROVE  tables'[Inner.import.source][k] = Edited
    <3>1. BindConfig
      BY <2>2, <2>4, OnlyBindPops
    <3>2. Added # {} /\ running # <<>>
      BY <2>4 DEF Added, Globals, ImportOver
    <3>3. ConfigTable = Inner.import.source
      BY <2>2, <2>4, <3>2, OwnTable
    <3>4. PICK m, t, file : m = Inner.import.mod /\ t = ConfigTable /\ file = BindTable(t, FileFor(m))
      OBVIOUS
    <3>5. m \in Mods /\ tables'[t] = [j \in Keys[t] |-> file.values[j]]
      BY <2>2, <3>1, <3>2, <3>4, BoundIs
    <3>6. k \in DOMAIN FileFor(m).values /\ FileFor(m).values[k] = Edited
      BY <2>2, <2>4, <3>4, <3>5, FileForHolds DEF ConfigInv
    <3>7. file.values[k] = Edited
      BY <3>4, <3>6, BindKeeps
    <3>8. QED
      BY <2>4, <3>3, <3>4, <3>5, <3>7
  <2>5. QED
    BY <2>3, <2>4
<1>2. QED
  BY <1>1, MixedInvInit, MixedInvStep, PTL DEF MixedSpec, PlayersEditWins
================================================================================
