-------------------------- MODULE ScriptLoadingProofs --------------------------
(* Proofs about ScriptLoading, for every set of scripts, files and workers,    *)
(* every table of legacy imports and every bound on the nesting. (MCScriptLoading *)
(* adds the history its conditional properties speak of.)                      *)
EXTENDS MCScriptLoading, FiniteSetTheorems, SequenceTheorems, TLAPS

\* load_detour has read HAS_CRASHED: from here to Leave it is responsible for it.
Started(f) == f.kind = "detour" /\ f.pc \notin {"enter", "snapshot"}

\* Each kind of frame is at a statement of its own function, and only scripts
\* go through load_detour.
FramesOK(s) ==
  \A i \in DOMAIN s :
     /\ s[i].kind = "detour" => s[i].chunk \in Scripts /\ s[i].pc \in DetourPcs
     /\ s[i].kind = "engine" => s[i].pc \in EnginePcs

\* The engine's Load runs only inside a Load detour that has started.
CallersOK(s) ==
  \A i \in DOMAIN s : s[i].kind = "engine" =>
     \E j \in DOMAIN s : j < i /\ Started(s[j])

StackOK(s) == FramesOK(s) /\ CallersOK(s)

\* A Load that found HAS_CRASHED set runs inside one that did not.
CleanersOK(s) ==
  \A i \in DOMAIN s : Started(s[i]) /\ s[i].crashedBefore =>
     \E j \in DOMAIN s : j < i /\ Cleans(s[j])

--------------------------------------------------------------------------------
(* What the operations on the stack of calls do to its frames. *)

\* A prefix of a sequence.
LEMMA Prefix ==
  ASSUME NEW s, NEW n \in Nat, \A i \in 1..n : s[i] \in Frames
  PROVE  /\ SubSeq(s, 1, n) \in Seq(Frames)
         /\ Len(SubSeq(s, 1, n)) = n
         /\ \A i \in 1..n : SubSeq(s, 1, n)[i] = s[i]
<1>1. /\ SubSeq(s, 1, n) \in Seq(Frames)
      /\ Len(SubSeq(s, 1, n)) = IF 1 <= n THEN n - 1 + 1 ELSE 0
      /\ \A i \in 1 .. n - 1 + 1 : SubSeq(s, 1, n)[i] = s[1 + i - 1]
  BY SubSeqProperties
<1>2. Len(SubSeq(s, 1, n)) = n
  BY <1>1
<1>3. ASSUME NEW i \in 1..n PROVE SubSeq(s, 1, n)[i] = s[i]
  <2>1. i \in 1 .. n - 1 + 1 /\ 1 + i - 1 = i
    OBVIOUS
  <2>2. QED
    BY <1>1, <2>1
<1>4. QED
  BY <1>1, <1>2, <1>3

\* Returning from the innermost call leaves the others as they were.
LEMMA PopFrames ==
  ASSUME NEW s \in Seq(Frames), s # <<>>
  PROVE  LET t == SubSeq(s, 1, Len(s) - 1) IN
         /\ t \in Seq(Frames)
         /\ Len(t) = Len(s) - 1
         /\ \A i \in 1..Len(t) : t[i] = s[i]
<1>1. Len(s) - 1 \in Nat /\ \A i \in 1..(Len(s) - 1) : s[i] \in Frames
  BY EmptySeq, LenProperties
<1>2. QED
  BY <1>1, Prefix

\* A call leaves the frames below it as they were.
LEMMA PushFrames ==
  ASSUME NEW s \in Seq(Frames), NEW f \in Frames
  PROVE  /\ Append(s, f) \in Seq(Frames)
         /\ Len(Append(s, f)) = Len(s) + 1
         /\ \A i \in 1..Len(s) : Append(s, f)[i] = s[i]
         /\ Append(s, f)[Len(s) + 1] = f
  OBVIOUS

\* A step of the innermost call leaves the frames below it as they were.
LEMMA ChangeTop ==
  ASSUME NEW s \in Seq(Frames), s # <<>>, NEW g \in Frames
  PROVE  LET t == [s EXCEPT ![Len(s)] = g] IN
         /\ t \in Seq(Frames)
         /\ Len(t) = Len(s)
         /\ t[Len(s)] = g
         /\ \A i \in 1..(Len(s) - 1) : t[i] = s[i]
  OBVIOUS

LEMMA StackAfterPop ==
  ASSUME NEW s \in Seq(Frames), s # <<>>, StackOK(s)
  PROVE  LET t == SubSeq(s, 1, Len(s) - 1) IN
         StackOK(t) /\ (CleanersOK(s) => CleanersOK(t))
<1>. DEFINE t == SubSeq(s, 1, Len(s) - 1)
<1>1. /\ DOMAIN t = 1..(Len(s) - 1)
      /\ DOMAIN s = 1..Len(s)
      /\ Len(s) \in Nat
      /\ \A i \in DOMAIN t : t[i] = s[i]
  BY PopFrames, LenProperties
<1>. HIDE DEF t
<1>2. FramesOK(t) /\ CallersOK(t) /\ (CleanersOK(s) => CleanersOK(t))
  BY <1>1 DEF StackOK, FramesOK, CallersOK, CleanersOK
<1>3. QED
  BY <1>2 DEF StackOK, t

LEMMA StackAfterPush ==
  ASSUME NEW s \in Seq(Frames), StackOK(s), NEW f \in Frames,
         \/ f.kind = "detour" /\ f.chunk \in Scripts /\ f.pc = "enter"
         \/ /\ f.kind = "engine" /\ f.pc = "load"
            /\ s # <<>> /\ Started(s[Len(s)])
  PROVE  StackOK(Append(s, f)) /\ (CleanersOK(s) => CleanersOK(Append(s, f)))
  BY PushFrames
  DEF StackOK, FramesOK, CallersOK, CleanersOK, DetourPcs, EnginePcs, Started

--------------------------------------------------------------------------------
(* Types. *)

LEMMA TopFrame ==
  ASSUME TypeOK, ~AtRest
  PROVE  /\ Len(stack) \in Nat \ {0}
         /\ DOMAIN stack = 1..Len(stack)
         /\ Top \in Frames
         /\ Pop \in Seq(Frames)
  BY EmptySeq, LenProperties, PopFrames DEF TypeOK, AtRest, Top, Pop

\* Only scripts go through load_detour.
LEMMA TopKind ==
  ASSUME TypeOK, StackOK(stack), ~AtRest
  PROVE  /\ Top.pc \in DetourPcs => Top.kind = "detour" /\ Top.chunk \in Scripts
         /\ Top.pc \in EnginePcs => Top.kind = "engine"
  BY TopFrame DEF StackOK, FramesOK, Top, Frames, DetourPcs, EnginePcs

LEMMA NewFrames ==
  /\ \A c \in Scripts : DetourFrame(c) \in Frames
  /\ \A c \in Scripts \cup Files : EngineFrame(c) \in Frames
  BY DEF DetourFrame, EngineFrame, Frames, DetourPcs, EnginePcs

\* The frames a step of load_detour makes of the innermost one.
LEMMA NextFrames ==
  ASSUME NEW f \in Frames
  PROVE  /\ \A pc \in DetourPcs \cup EnginePcs : [f EXCEPT !.pc = pc] \in Frames
         /\ \A pc \in DetourPcs, b \in BOOLEAN :
              [f EXCEPT !.pc = pc, !.crashedBefore = b] \in Frames
         /\ \A pc \in DetourPcs, q \in Seq(Files) :
              [f EXCEPT !.pc = pc, !.todo = q] \in Frames
         /\ f.todo # <<>> => /\ Head(f.todo) \in Files
                             /\ [f EXCEPT !.todo = Tail(@)] \in Frames
<1>1. f.todo # <<>> => Head(f.todo) \in Files /\ Tail(f.todo) \in Seq(Files)
  BY HeadTailProperties DEF Frames
<1>2. QED
  BY <1>1 DEF Frames

LEMMA SetFrames ==
  ASSUME TypeOK, ~AtRest, NEW f \in Frames
  PROVE  /\ Set(f) \in Seq(Frames)
         /\ Len(Set(f)) = Len(stack)
         /\ DOMAIN Set(f) = 1..Len(stack)
         /\ Set(f)[Len(stack)] = f
         /\ \A i \in 1..(Len(stack) - 1) : Set(f)[i] = stack[i]
  BY TopFrame, ChangeTop, LenProperties DEF TypeOK, Set, AtRest

\* The steps that only move the innermost call to its next statement.
LocalStep == EngineCompiles \/ EnterMain \/ Snapshot \/ PreDone \/ PostDone

LEMMA LocalStepFrame ==
  ASSUME TypeOK, StackOK(stack), LocalStep
  PROVE  /\ ~AtRest /\ Top \in Frames /\ depth' = depth
         /\ \E f \in Frames :
              /\ stack' = Set(f)
              /\ f.kind = Top.kind /\ f.chunk = Top.chunk
              /\ \/ EngineCompiles /\ Top.pc = "load" /\ f.pc = "body"
                 \/ EnterMain /\ Top.pc = "enter" /\ f.pc = "snapshot"
                 \/ /\ Snapshot /\ Top.pc \in {"enter", "snapshot"}
                    /\ f.pc = "pre"
                 \/ PreDone /\ Top.pc = "pre" /\ f.pc = "top"
                 \/ PostDone /\ Top.pc = "post" /\ f.pc = "bottom"
              /\ f.crashedBefore = IF Snapshot THEN hasCrashed
                                               ELSE Top.crashedBefore
<1>1. ~AtRest /\ Top \in Frames /\ depth' = depth
  BY TopFrame
  DEF LocalStep, EngineCompiles, EnterMain, Snapshot, PreDone, PostDone, At
<1>2. CASE EngineCompiles
  <2>1. [Top EXCEPT !.pc = "body"] \in Frames /\ ~Snapshot
    BY <1>1, <1>2, NextFrames DEF EngineCompiles, Snapshot, At, EnginePcs
  <2>2. QED
    BY <1>1, <1>2, <2>1 DEF EngineCompiles, At, GoTo, Frames
<1>3. CASE EnterMain
  <2>1. [Top EXCEPT !.pc = "snapshot"] \in Frames /\ ~Snapshot
    BY <1>1, <1>3, NextFrames DEF EnterMain, Snapshot, At, DetourPcs
  <2>2. QED
    BY <1>1, <1>3, <2>1 DEF EnterMain, At, GoTo, Frames
<1>4. CASE Snapshot
  <2>1. [Top EXCEPT !.pc = "pre", !.crashedBefore = hasCrashed] \in Frames
    BY <1>1, NextFrames DEF DetourPcs, TypeOK
  <2>2. QED
    BY <1>1, <1>4, <2>1 DEF Snapshot, At, Frames
<1>5. CASE PreDone
  <2>. DEFINE f == [Top EXCEPT !.pc = "top", !.todo = TopImports[Top.chunk]]
  <2>1. TopImports[Top.chunk] \in Seq(Files) /\ ~Snapshot
    BY <1>1, <1>5, TopKind, ImportsAssumption DEF PreDone, Snapshot, At, DetourPcs
  <2>2. f \in Frames
    BY <1>1, <2>1, NextFrames DEF DetourPcs
  <2>3. /\ f.kind = Top.kind /\ f.chunk = Top.chunk /\ f.pc = "top"
        /\ f.crashedBefore = Top.crashedBefore
    BY <1>1 DEF Frames
  <2>4. stack' = Set(f) /\ Top.pc = "pre"
    BY <1>5 DEF PreDone, At
  <2>. HIDE DEF f
  <2>5. QED
    BY <1>1, <1>5, <2>1, <2>2, <2>3, <2>4
<1>6. CASE PostDone
  <2>. DEFINE f == [Top EXCEPT !.pc = "bottom", !.todo = Imports[Top.chunk]]
  <2>1. Imports[Top.chunk] \in Seq(Files) /\ ~Snapshot
    BY <1>1, <1>6, TopKind, ImportsAssumption DEF PostDone, Snapshot, At, DetourPcs
  <2>2. f \in Frames
    BY <1>1, <2>1, NextFrames DEF DetourPcs
  <2>3. /\ f.kind = Top.kind /\ f.chunk = Top.chunk /\ f.pc = "bottom"
        /\ f.crashedBefore = Top.crashedBefore
    BY <1>1 DEF Frames
  <2>4. stack' = Set(f) /\ Top.pc = "post"
    BY <1>6 DEF PostDone, At
  <2>. HIDE DEF f
  <2>5. QED
    BY <1>1, <1>6, <2>1, <2>2, <2>3, <2>4
<1>7. QED
  BY <1>2, <1>3, <1>4, <1>5, <1>6 DEF LocalStep

\* depth is positive while an original is running, so it never goes below 0.
LEMMA DepthPositive ==
  ASSUME TypeOK, DepthIsNesting, At("original")
  PROVE  depth[Loader] \in Nat \ {0}
<1>1. IsFiniteSet(1..Len(stack)) /\ Len(stack) \in InOriginal
  BY TopFrame, FS_Interval DEF At, Top, InOriginal
<1>2. IsFiniteSet(InOriginal)
  BY <1>1, TopFrame, FS_Subset DEF InOriginal, At
<1>3. Cardinality(InOriginal) \in Nat /\ Cardinality(InOriginal) # 0
  BY <1>1, <1>2, FS_CardinalityType, FS_EmptySet
<1>4. QED
  BY <1>3 DEF DepthIsNesting

LEMMA CompileTypes ==
  ASSUME TypeOK, NEW t, NEW c, Compile(t, c)
  PROVE  /\ installed' \in [Chunks -> Scripts \cup {NoEnv, Uncompiled}]
         /\ env' \in Scripts \cup {NoEnv}
  BY DEF TypeOK, Compile

LEMMA TypeStep ==
  ASSUME TypeOK, StackOK(stack), DepthIsNesting, [Next]_vars
  PROVE  TypeOK'
<1>. USE DEF TypeOK
<1>1. ASSUME NEW s \in Scripts, GameLoads(s) \/ CallImport(s)
      PROVE  TypeOK'
  BY <1>1, NewFrames, PushFrames DEF GameLoads, CallImport, Push
<1>2. CASE EngineRefuses
  BY <1>2, TopFrame DEF EngineRefuses, At
<1>3. CASE EngineCompiles
  <2>1. stack' \in Seq(Frames)
    BY <1>3, TopFrame, NextFrames, SetFrames
    DEF EngineCompiles, At, GoTo, EnginePcs
  <2>2. loaded' \subseteq Scripts \cup Files
    BY <1>3, TopFrame DEF EngineCompiles, At, Frames
  <2>3. QED
    BY <1>3, <2>1, <2>2, CompileTypes DEF EngineCompiles
<1>4. CASE EngineRejects
  BY <1>4, TopFrame DEF EngineRejects, At
<1>5. CASE BodyEnds
  BY <1>5, TopFrame DEF BodyEnds, At
<1>6. CASE CloseLua
  BY <1>6 DEF CloseLua
<1>7. CASE EnterMain
  BY <1>7, TopFrame, NextFrames, SetFrames DEF EnterMain, At, GoTo, DetourPcs
<1>8. CASE PluginTrips \/ CallbackTrips
  BY <1>8 DEF PluginTrips, CallbackTrips
<1>9. CASE Snapshot
  <2>1. [Top EXCEPT !.pc = "pre", !.crashedBefore = hasCrashed] \in Frames
    BY <1>9, TopFrame, NextFrames DEF Snapshot, At, DetourPcs
  <2>2. stack' \in Seq(Frames)
    BY <1>9, <2>1, SetFrames DEF Snapshot, At
  <2>3. managerUp' \in BOOLEAN
    BY <1>9, Zenon DEF Snapshot
  <2>4. UNCHANGED <<depth, env, hasCrashed, loaded, installed>>
    BY <1>9 DEF Snapshot
  <2>5. QED
    BY <2>2, <2>3, <2>4, Zenon
<1>10. CASE PreCallbackStages
  BY <1>10, TopKind DEF PreCallbackStages, At, DetourPcs
<1>11. CASE PreDone
  <2>1. TopImports[Top.chunk] \in Seq(Files)
    BY <1>11, TopKind, ImportsAssumption DEF PreDone, At, DetourPcs
  <2>2. [Top EXCEPT !.pc = "top", !.todo = TopImports[Top.chunk]] \in Frames
    BY <1>11, <2>1, TopFrame, NextFrames DEF PreDone, At, DetourPcs
  <2>3. stack' \in Seq(Frames)
    BY <1>11, <2>2, SetFrames DEF PreDone, At
  <2>4. QED
    BY <1>11, <2>3 DEF PreDone
<1>12. CASE ImportFile
  <2>1. Advanced \in Seq(Frames) /\ Head(Top.todo) \in Files
    BY <1>12, TopFrame, NextFrames, SetFrames DEF ImportFile, At, Advanced
  <2>2. Append(Advanced, EngineFrame(Head(Top.todo))) \in Seq(Frames)
    BY <2>1, NewFrames, PushFrames
  <2>3. QED
    BY <1>12, <2>1, <2>2 DEF ImportFile
<1>13. CASE CallOriginal
  <2>1. GoTo("original") \in Seq(Frames) /\ EngineFrame(Top.chunk) \in Frames
    BY <1>13, TopFrame, TopKind, NextFrames, SetFrames, NewFrames
    DEF CallOriginal, At, GoTo, DetourPcs
  <2>2. depth' \in [Threads -> Nat]
    BY <1>13 DEF CallOriginal, Threads
  <2>3. QED
    BY <1>13, <2>1, <2>2, PushFrames DEF CallOriginal
<1>14. CASE ReturnFromOriginal
  <2>1. stack' \in Seq(Frames)
    BY <1>14, TopFrame, NextFrames, SetFrames
    DEF ReturnFromOriginal, At, GoTo, DetourPcs
  <2>2. depth[Loader] - 1 \in Nat
    BY <1>14, DepthPositive DEF ReturnFromOriginal
  <2>3. depth' \in [Threads -> Nat]
    BY <1>14, <2>2 DEF ReturnFromOriginal
  <2>4. QED
    BY <1>14, <2>1, <2>3 DEF ReturnFromOriginal
<1>15. CASE PostDone
  <2>1. Imports[Top.chunk] \in Seq(Files)
    BY <1>15, TopKind, ImportsAssumption DEF PostDone, At, DetourPcs
  <2>2. [Top EXCEPT !.pc = "bottom", !.todo = Imports[Top.chunk]] \in Frames
    BY <1>15, <2>1, TopFrame, NextFrames DEF PostDone, At, DetourPcs
  <2>3. stack' \in Seq(Frames)
    BY <1>15, <2>2, SetFrames DEF PostDone, At
  <2>4. QED
    BY <1>15, <2>3 DEF PostDone
<1>16. CASE Leave
  <2>1. (hasCrashed /\ Top.crashedBefore) \in BOOLEAN
    BY <1>16, TopFrame DEF Leave, At, Frames
  <2>2. QED
    BY <1>16, <2>1, TopFrame DEF Leave, At
<1>17. ASSUME NEW w \in Workers, WorkerCompile(w) \/ WorkerDone(w)
       PROVE  TypeOK'
  BY <1>17, CompileTypes DEF WorkerCompile, WorkerDone
<1>18. CASE UNCHANGED vars
  BY <1>18 DEF vars
<1>19. QED
  BY <1>1, <1>2, <1>3, <1>4, <1>5, <1>6, <1>7, <1>8, <1>9, <1>10, <1>11, <1>12,
     <1>13, <1>14, <1>15, <1>16, <1>17, <1>18
  DEF Next, EngineStep, DetourStep, WorkerStep,
      BodyImports, PluginImports, CallbackImports

--------------------------------------------------------------------------------
(* The stack of calls. *)

CleanerOfTop ==
  \/ Started(Top) /\ Top.crashedBefore
  \/ \E j \in DOMAIN stack : j < Len(stack) /\ Cleans(stack[j])

\* A step of the innermost call that leaves its function and its argument alone.
LEMMA StackAfterSet ==
  ASSUME TypeOK, StackOK(stack), ~AtRest, NEW f \in Frames,
         f.kind = Top.kind, f.chunk = Top.chunk,
         f.kind = "detour" => f.pc \in DetourPcs,
         f.kind = "engine" => f.pc \in EnginePcs
  PROVE  /\ StackOK(Set(f))
         /\ CleanersOK(stack) /\ (Started(f) /\ f.crashedBefore => CleanerOfTop)
              => CleanersOK(Set(f))
<1>1. /\ DOMAIN stack = 1..Len(stack)
      /\ DOMAIN Set(f) = 1..Len(stack)
      /\ Len(stack) \in Nat \ {0}
      /\ Set(f)[Len(stack)] = f
      /\ \A i \in 1..(Len(stack) - 1) : Set(f)[i] = stack[i]
  BY TopFrame, SetFrames
<1>. HIDE DEF Set
<1>2. FramesOK(Set(f))
  BY <1>1 DEF StackOK, FramesOK, Top
<1>3. CallersOK(Set(f))
  BY <1>1 DEF StackOK, CallersOK, Top
<1>4. CleanersOK(stack) /\ (Started(f) /\ f.crashedBefore => CleanerOfTop)
        => CleanersOK(Set(f))
  BY <1>1 DEF CleanersOK, CleanerOfTop, Top
<1>5. QED
  BY <1>2, <1>3, <1>4 DEF StackOK

\* The cleaners stay, as long as a HAS_CRASHED that is set has one.
Tidy == CleanersOK(stack) /\ CrashWillBeCleared => CleanersOK(stack')

LEMMA StackStep ==
  ASSUME TypeOK, StackOK(stack), [Next]_vars
  PROVE  StackOK(stack') /\ Tidy
<1>. USE DEF Tidy
<1>1. ASSUME NEW s \in Scripts, GameLoads(s) \/ CallImport(s)
      PROVE  StackOK(stack') /\ Tidy
  <2>1. stack' = Append(stack, DetourFrame(s)) /\ DetourFrame(s) \in Frames
    BY <1>1, NewFrames DEF GameLoads, CallImport, Push
  <2>2. QED
    BY <2>1, StackAfterPush DEF TypeOK, DetourFrame
<1>2. CASE EngineRefuses \/ EngineRejects \/ BodyEnds \/ Leave
  BY <1>2, StackAfterPop
  DEF TypeOK, EngineRefuses, EngineRejects, BodyEnds, Leave, At, AtRest, Pop
<1>3. CASE LocalStep
  <2>1. PICK f \in Frames :
              /\ stack' = Set(f)
              /\ f.kind = Top.kind /\ f.chunk = Top.chunk
              /\ \/ EngineCompiles /\ Top.pc = "load" /\ f.pc = "body"
                 \/ EnterMain /\ Top.pc = "enter" /\ f.pc = "snapshot"
                 \/ /\ Snapshot /\ Top.pc \in {"enter", "snapshot"}
                    /\ f.pc = "pre"
                 \/ PreDone /\ Top.pc = "pre" /\ f.pc = "top"
                 \/ PostDone /\ Top.pc = "post" /\ f.pc = "bottom"
              /\ f.crashedBefore = IF Snapshot THEN hasCrashed
                                               ELSE Top.crashedBefore
    BY <1>3, LocalStepFrame
  <2>2. ~AtRest /\ (Top.kind = "detour" \/ Top.kind = "engine")
    BY <1>3, LocalStepFrame DEF Frames
  <2>3. /\ f.kind = "detour" => f.pc \in DetourPcs
        /\ f.kind = "engine" => f.pc \in EnginePcs
    BY <2>1, <2>2, TopKind DEF DetourPcs, EnginePcs
  <2>4. ASSUME CrashWillBeCleared, Started(f), f.crashedBefore
        PROVE  CleanerOfTop
    <3>1. CASE Snapshot /\ Top.pc \in {"enter", "snapshot"}
      <4>1. PICK j \in DOMAIN stack : Cleans(stack[j])
        BY <2>1, <2>4, <3>1 DEF CrashWillBeCleared
      <4>2. j # Len(stack)
        BY <3>1, <4>1 DEF Cleans, Top
      <4>3. QED
        BY <2>2, <4>1, <4>2, TopFrame DEF CleanerOfTop
    <3>2. CASE ~Snapshot
      BY <2>1, <2>4, <3>2 DEF Started, CleanerOfTop
    <3>3. QED
      BY <2>1, <3>1, <3>2 DEF Snapshot, At
  <2>5. QED
    BY <2>1, <2>2, <2>3, <2>4, StackAfterSet
<1>4. CASE ImportFile
  <2>. DEFINE f == [Top EXCEPT !.todo = Tail(@)]
  <2>1. /\ ~AtRest /\ Top.kind = "detour" /\ Top \in Frames
        /\ f \in Frames /\ Head(Top.todo) \in Files
        /\ Top.pc \in {"top", "bottom"}
    BY <1>4, TopFrame, TopKind, NextFrames DEF ImportFile, At, DetourPcs
  <2>2. /\ f.kind = "detour" /\ f.chunk = Top.chunk /\ f.pc = Top.pc
        /\ f.crashedBefore = Top.crashedBefore
    BY <2>1 DEF Frames
  <2>. HIDE DEF f
  <2>3. StackOK(Set(f)) /\ (CleanersOK(stack) => CleanersOK(Set(f)))
    BY <2>1, <2>2, StackAfterSet DEF Started, DetourPcs, CleanerOfTop
  <2>4. /\ Set(f) \in Seq(Frames) /\ Set(f) # <<>>
        /\ Set(f)[Len(Set(f))] = f
    BY <2>1, SetFrames, TopFrame
  <2>. DEFINE t == Append(Set(f), EngineFrame(Head(Top.todo)))
  <2>5. StackOK(t) /\ (CleanersOK(Set(f)) => CleanersOK(t))
    BY <2>1, <2>2, <2>3, <2>4, NewFrames, StackAfterPush
    DEF EngineFrame, Started
  <2>6. QED
    BY <1>4, <2>3, <2>5 DEF ImportFile, Advanced, f
<1>5. CASE CallOriginal
  <2>. DEFINE f == [Top EXCEPT !.pc = "original"]
  <2>1. /\ ~AtRest /\ Top.kind = "detour" /\ Top \in Frames
        /\ f \in Frames /\ Top.chunk \in Scripts /\ Top.pc = "top"
    BY <1>5, TopFrame, TopKind, NextFrames DEF CallOriginal, At, DetourPcs
  <2>2. /\ f.kind = "detour" /\ f.chunk = Top.chunk /\ f.pc = "original"
        /\ f.crashedBefore = Top.crashedBefore
    BY <2>1 DEF Frames
  <2>. HIDE DEF f
  <2>3. StackOK(Set(f)) /\ (CleanersOK(stack) => CleanersOK(Set(f)))
    BY <2>1, <2>2, StackAfterSet DEF Started, DetourPcs, CleanerOfTop
  <2>4. /\ Set(f) \in Seq(Frames) /\ Set(f) # <<>>
        /\ Set(f)[Len(Set(f))] = f
    BY <2>1, SetFrames, TopFrame
  <2>. DEFINE t == Append(Set(f), EngineFrame(Top.chunk))
  <2>5. StackOK(t) /\ (CleanersOK(Set(f)) => CleanersOK(t))
    BY <2>1, <2>2, <2>3, <2>4, NewFrames, StackAfterPush
    DEF EngineFrame, Started
  <2>6. QED
    BY <1>5, <2>3, <2>5 DEF CallOriginal, GoTo, f
<1>6. CASE ReturnFromOriginal
  <2>1. /\ ~AtRest /\ Top.kind = "detour" /\ Top \in Frames
        /\ stack' = Set([Top EXCEPT !.pc = "post"]) /\ Top.pc = "original"
        /\ [Top EXCEPT !.pc = "post"] \in Frames
    BY <1>6, TopFrame, TopKind, NextFrames
    DEF ReturnFromOriginal, At, GoTo, DetourPcs
  <2>2. QED
    BY <2>1, StackAfterSet DEF Frames, DetourPcs, Started, CleanerOfTop
<1>7. CASE \/ CloseLua \/ PluginTrips \/ CallbackTrips \/ PreCallbackStages
            \/ WorkerStep \/ UNCHANGED vars
  BY <1>7
  DEF CloseLua, PluginTrips, CallbackTrips, PreCallbackStages, WorkerStep,
      WorkerCompile, WorkerDone, vars
<1>8. QED
  BY <1>1, <1>2, <1>3, <1>4, <1>5, <1>6, <1>7
  DEF Next, EngineStep, DetourStep, LocalStep, BodyImports, PluginImports, CallbackImports

--------------------------------------------------------------------------------
(* The depth counter. *)

Originals(s) == {i \in DOMAIN s : s[i].pc = "original"}

LEMMA OriginalsFinite ==
  ASSUME TypeOK
  PROVE  IsFiniteSet(Originals(stack)) /\ Originals(stack) \subseteq 1..Len(stack)
<1>1. DOMAIN stack = 1..Len(stack) /\ Len(stack) \in Nat
  BY LenProperties DEF TypeOK
<1>2. Originals(stack) \in SUBSET (1..Len(stack)) /\ IsFiniteSet(1..Len(stack))
  BY <1>1, FS_Interval DEF Originals
<1>3. QED
  BY <1>2, FS_Subset

LEMMA OriginalsKept ==
  ASSUME NEW s \in Seq(Frames)
  PROVE  /\ \A f \in Frames : f.pc # "original" =>
              Originals(Append(s, f)) = Originals(s)
         /\ s # <<>> /\ s[Len(s)].pc # "original" =>
              Originals(SubSeq(s, 1, Len(s) - 1)) = Originals(s)
<1>1. ASSUME NEW f \in Frames, f.pc # "original"
      PROVE  Originals(Append(s, f)) = Originals(s)
  BY <1>1, PushFrames, LenProperties DEF Originals
<1>2. ASSUME s # <<>>, s[Len(s)].pc # "original"
      PROVE  Originals(SubSeq(s, 1, Len(s) - 1)) = Originals(s)
  <2>. DEFINE t == SubSeq(s, 1, Len(s) - 1)
  <2>1. /\ DOMAIN t = 1..(Len(s) - 1)
        /\ DOMAIN s = 1..Len(s) /\ Len(s) \in Nat \ {0}
        /\ \A i \in DOMAIN t : t[i] = s[i]
    BY <1>2, PopFrames, LenProperties, EmptySeq
  <2>. HIDE DEF t
  <2>2. Originals(t) = Originals(s)
    BY <1>2, <2>1 DEF Originals
  <2>3. QED
    BY <2>2 DEF t
<1>3. QED
  BY <1>1, <1>2

LEMMA OriginalsSet ==
  ASSUME TypeOK, ~AtRest, NEW f \in Frames
  PROVE  Originals(Set(f)) =
           IF f.pc = "original" THEN Originals(stack) \cup {Len(stack)}
                                ELSE Originals(stack) \ {Len(stack)}
<1>1. /\ DOMAIN stack = 1..Len(stack)
      /\ DOMAIN Set(f) = 1..Len(stack)
      /\ Len(stack) \in Nat \ {0}
      /\ Set(f)[Len(stack)] = f
      /\ \A i \in 1..(Len(stack) - 1) : Set(f)[i] = stack[i]
  BY TopFrame, SetFrames
<1>. HIDE DEF Set
<1>2. QED
  BY <1>1 DEF Originals

\* A step that leaves the depth and the running originals alone.
LEMMA DepthKept ==
  ASSUME DepthIsNesting, depth' = depth, Originals(stack') = Originals(stack)
  PROVE  DepthIsNesting'
  BY DEF DepthIsNesting, InOriginal, Originals

LEMMA DepthStep ==
  ASSUME TypeOK, StackOK(stack), DepthIsNesting, [Next]_vars
  PROVE  DepthIsNesting'
<1>1. ASSUME NEW s \in Scripts, GameLoads(s) \/ CallImport(s)
      PROVE  DepthIsNesting'
  <2>1. /\ stack' = Append(stack, DetourFrame(s)) /\ DetourFrame(s) \in Frames
        /\ depth' = depth
    BY <1>1, NewFrames DEF GameLoads, CallImport, Push
  <2>2. DetourFrame(s).pc # "original"
    BY DEF DetourFrame
  <2>3. QED
    BY <2>1, <2>2, OriginalsKept, DepthKept DEF TypeOK
<1>2. CASE EngineRefuses \/ EngineRejects \/ BodyEnds \/ Leave
  <2>1. /\ stack # <<>> /\ stack' = SubSeq(stack, 1, Len(stack) - 1)
        /\ depth' = depth /\ stack[Len(stack)].pc # "original"
    BY <1>2
    DEF EngineRefuses, EngineRejects, BodyEnds, Leave, At, AtRest, Pop, Top
  <2>2. QED
    BY <2>1, OriginalsKept, DepthKept DEF TypeOK
<1>3. CASE LocalStep
  <2>1. PICK f \in Frames : /\ stack' = Set(f) /\ ~AtRest /\ depth' = depth
                            /\ f.pc # "original" /\ Top.pc # "original"
    BY <1>3, LocalStepFrame
  <2>2. Len(stack) \notin Originals(stack)
    BY <2>1 DEF Originals, Top
  <2>3. QED
    BY <2>1, <2>2, OriginalsSet, DepthKept
<1>4. CASE ImportFile
  <2>. DEFINE f == [Top EXCEPT !.todo = Tail(@)]
  <2>1. /\ ~AtRest /\ f \in Frames /\ Top \in Frames
        /\ Top.pc # "original" /\ depth' = depth
        /\ Head(Top.todo) \in Files
    BY <1>4, TopFrame, NextFrames DEF ImportFile, At
  <2>2. f.pc # "original"
    BY <2>1 DEF Frames
  <2>3. /\ EngineFrame(Head(Top.todo)) \in Frames
        /\ EngineFrame(Head(Top.todo)).pc # "original"
    BY <2>1, NewFrames DEF EngineFrame
  <2>. HIDE DEF f
  <2>4. Len(stack) \notin Originals(stack)
    BY <2>1 DEF Originals, Top
  <2>5. Originals(Set(f)) = Originals(stack) /\ Set(f) \in Seq(Frames)
    BY <2>1, <2>2, <2>4, OriginalsSet, SetFrames
  <2>6. Originals(Append(Set(f), EngineFrame(Head(Top.todo)))) = Originals(stack)
    BY <2>3, <2>5, OriginalsKept
  <2>7. QED
    BY <1>4, <2>1, <2>5, <2>6, DepthKept DEF ImportFile, Advanced, f
<1>5. CASE CallOriginal
  <2>. DEFINE f == [Top EXCEPT !.pc = "original"]
  <2>1. /\ ~AtRest /\ f \in Frames /\ Top \in Frames /\ Top.pc = "top"
        /\ depth' = [depth EXCEPT ![Loader] = @ + 1]
        /\ EngineFrame(Top.chunk) \in Frames
    BY <1>5, TopFrame, TopKind, NextFrames, NewFrames
    DEF CallOriginal, At, DetourPcs
  <2>2. f.pc = "original" /\ EngineFrame(Top.chunk).pc # "original"
    BY <2>1 DEF Frames, EngineFrame
  <2>. HIDE DEF f
  <2>3. /\ Originals(Set(f)) = Originals(stack) \cup {Len(stack)}
        /\ Set(f) \in Seq(Frames)
        /\ Len(stack) \notin Originals(stack)
    BY <2>1, <2>2, OriginalsSet, SetFrames DEF Originals, Top
  <2>4. Originals(stack') = Originals(stack) \cup {Len(stack)}
    BY <1>5, <2>1, <2>2, <2>3, OriginalsKept DEF CallOriginal, GoTo, f
  <2>5. Cardinality(Originals(stack')) = Cardinality(Originals(stack)) + 1
    BY <2>3, <2>4, OriginalsFinite, FS_AddElement
  <2>6. /\ depth'[Loader] = depth[Loader] + 1
        /\ \A w \in Workers : depth'[w] = depth[w]
    BY <2>1, ThreadsAssumption DEF TypeOK, Threads
  <2>7. QED
    BY <2>5, <2>6 DEF DepthIsNesting, InOriginal, Originals
<1>6. CASE ReturnFromOriginal
  <2>. DEFINE f == [Top EXCEPT !.pc = "post"]
  <2>1. ~AtRest /\ Top \in Frames /\ Top.pc = "original"
    BY <1>6, TopFrame DEF ReturnFromOriginal, At
  <2>2. f \in Frames /\ f.pc = "post"
    BY <2>1 DEF Frames, DetourPcs
  <2>3. stack' = Set(f) /\ depth' = [depth EXCEPT ![Loader] = @ - 1]
    BY <1>6 DEF ReturnFromOriginal, GoTo
  <2>. HIDE DEF f
  <2>4. /\ Originals(stack') = Originals(stack) \ {Len(stack)}
        /\ Len(stack) \in Originals(stack)
    BY <2>1, <2>2, <2>3, TopFrame, OriginalsSet DEF Originals, Top
  <2>5. Cardinality(Originals(stack')) = Cardinality(Originals(stack)) - 1
    BY <2>4, OriginalsFinite, FS_RemoveElement
  <2>6. /\ depth'[Loader] = depth[Loader] - 1
        /\ \A w \in Workers : depth'[w] = depth[w]
    BY <2>3, ThreadsAssumption DEF TypeOK, Threads
  <2>7. QED
    BY <2>5, <2>6 DEF DepthIsNesting, InOriginal, Originals
<1>7. CASE \/ CloseLua \/ PluginTrips \/ CallbackTrips \/ PreCallbackStages
           \/ WorkerStep \/ UNCHANGED vars
  BY <1>7
  DEF CloseLua, PluginTrips, CallbackTrips, PreCallbackStages, WorkerStep,
      WorkerCompile, WorkerDone, vars, DepthIsNesting, InOriginal
<1>8. QED
  BY <1>1, <1>2, <1>3, <1>4, <1>5, <1>6, <1>7
  DEF Next, EngineStep, DetourStep, LocalStep,
      BodyImports, PluginImports, CallbackImports

--------------------------------------------------------------------------------
(* The staged environment and HAS_CRASHED. *)

\* What a step does to the frames: those below the innermost one are kept, and
\* so is the innermost one unless it returns or moves on.
Kept(i) == i \in DOMAIN stack' /\ stack'[i] = stack[i]

LEMMA KeptByPush ==
  ASSUME TypeOK, NEW f \in Frames, stack' = Append(stack, f)
  PROVE  \A i \in DOMAIN stack : Kept(i)
  BY PushFrames, LenProperties DEF TypeOK, Kept

LEMMA KeptByPop ==
  ASSUME TypeOK, ~AtRest, stack' = Pop
  PROVE  \A i \in DOMAIN stack : i # Len(stack) => Kept(i)
<1>1. /\ DOMAIN stack = 1..Len(stack) /\ Len(stack) \in Nat \ {0}
      /\ DOMAIN stack' = 1..(Len(stack) - 1)
      /\ \A i \in DOMAIN stack' : stack'[i] = stack[i]
  BY TopFrame, PopFrames, LenProperties DEF TypeOK, Pop, AtRest
<1>2. QED
  BY <1>1 DEF Kept

LEMMA KeptBySet ==
  ASSUME TypeOK, ~AtRest, NEW f \in Frames, NEW g \in Frames,
         \/ stack' = Set(f)
         \/ stack' = Append(Set(f), g)
  PROVE  /\ \A i \in DOMAIN stack : i # Len(stack) => Kept(i)
         /\ Len(stack) \in DOMAIN stack' /\ stack'[Len(stack)] = f
<1>1. /\ DOMAIN stack = 1..Len(stack) /\ Len(stack) \in Nat \ {0}
      /\ DOMAIN Set(f) = 1..Len(stack) /\ Len(Set(f)) = Len(stack)
      /\ Set(f)[Len(stack)] = f /\ Set(f) \in Seq(Frames)
      /\ \A i \in 1..(Len(stack) - 1) : Set(f)[i] = stack[i]
  BY TopFrame, SetFrames
<1>2. /\ DOMAIN Append(Set(f), g) = 1..(Len(stack) + 1)
      /\ \A i \in 1..Len(stack) : Append(Set(f), g)[i] = Set(f)[i]
  BY <1>1, PushFrames, LenProperties
<1>. HIDE DEF Set
<1>3. QED
  BY <1>1, <1>2 DEF Kept

\* The steps of load_detour inside which the engine's Load is called.
CallStep == ImportFile \/ CallOriginal

LEMMA CallStepFrame ==
  ASSUME TypeOK, StackOK(stack), CallStep
  PROVE  /\ ~AtRest /\ Top.kind = "detour" /\ Top.pc \in {"top", "bottom"}
         /\ UNCHANGED <<env, hasCrashed, installed>>
         /\ \E f, g \in Frames :
              /\ stack' = Set(f) \/ stack' = Append(Set(f), g)
              /\ f.kind = "detour" /\ f.chunk = Top.chunk
              /\ f.crashedBefore = Top.crashedBefore
              /\ f.pc = Top.pc \/ (Top.pc = "top" /\ f.pc = "original")
<1>1. /\ ~AtRest /\ Top \in Frames
      /\ Top.pc \in {"top", "bottom"}
      /\ UNCHANGED <<env, hasCrashed, installed>>
  BY TopFrame DEF CallStep, ImportFile, CallOriginal, At
<1>2. Top.kind = "detour" /\ Top.chunk \in Scripts
  BY <1>1, TopKind DEF DetourPcs
<1>3. CASE ImportFile
  <2>. DEFINE f == [Top EXCEPT !.todo = Tail(@)]
              g == EngineFrame(Head(Top.todo))
  <2>1. f \in Frames /\ g \in Frames
    BY <1>1, <1>3, NextFrames, NewFrames DEF ImportFile
  <2>2. /\ f.kind = Top.kind /\ f.chunk = Top.chunk /\ f.pc = Top.pc
        /\ f.crashedBefore = Top.crashedBefore
    BY <1>1 DEF Frames
  <2>3. stack' = Set(f) \/ stack' = Append(Set(f), g)
    BY <1>3 DEF ImportFile, Advanced
  <2>. HIDE DEF f, g
  <2>4. QED
    BY <1>1, <1>2, <2>1, <2>2, <2>3
<1>4. CASE CallOriginal
  <2>. DEFINE f == [Top EXCEPT !.pc = "original"]
              g == EngineFrame(Top.chunk)
  <2>1. f \in Frames /\ g \in Frames
    BY <1>1, <1>2, NextFrames, NewFrames DEF DetourPcs
  <2>2. /\ f.kind = Top.kind /\ f.chunk = Top.chunk /\ f.pc = "original"
        /\ f.crashedBefore = Top.crashedBefore
    BY <1>1 DEF Frames
  <2>3. stack' = Append(Set(f), g) /\ Top.pc = "top"
    BY <1>4 DEF CallOriginal, GoTo, At
  <2>. HIDE DEF f, g
  <2>4. QED
    BY <1>1, <1>2, <2>1, <2>2, <2>3
<1>5. QED
  BY <1>3, <1>4 DEF CallStep

LEMMA OwnerStep ==
  ASSUME TypeOK, StackOK(stack), DepthIsNesting, StagedEnvHasOwner, [Next]_vars
  PROVE  StagedEnvHasOwner'
<1>1. SUFFICES ASSUME env' # NoEnv
               PROVE  \E i \in DOMAIN stack' : Owns(stack'[i], env')
  BY DEF StagedEnvHasOwner
<1>2. ASSUME env' = env,
             \A i \in DOMAIN stack : Owns(stack[i], env) =>
               \E j \in DOMAIN stack' : Owns(stack'[j], env)
      PROVE  \E i \in DOMAIN stack' : Owns(stack'[i], env')
  BY <1>1, <1>2 DEF StagedEnvHasOwner
<1>3. ASSUME NEW s \in Scripts, GameLoads(s) \/ CallImport(s)
      PROVE  \E i \in DOMAIN stack' : Owns(stack'[i], env')
  <2>1. /\ stack' = Append(stack, DetourFrame(s)) /\ DetourFrame(s) \in Frames
        /\ env' = env
    BY <1>3, NewFrames DEF GameLoads, CallImport, Push
  <2>2. \A i \in DOMAIN stack : Kept(i)
    BY <2>1, KeptByPush
  <2>3. QED
    BY <1>2, <2>1, <2>2 DEF Kept
<1>4. CASE EngineRefuses \/ EngineRejects \/ BodyEnds \/ Leave
  <2>1. ~AtRest /\ stack' = Pop /\ env' = env /\ Top.pc \in EnginePcs \cup {"bottom"}
    BY <1>4 DEF EngineRefuses, EngineRejects, BodyEnds, Leave, At, EnginePcs
  <2>2. ~Owns(Top, env)
    BY <2>1 DEF Owns, EnginePcs
  <2>3. \A i \in DOMAIN stack : i # Len(stack) => Kept(i)
    BY <2>1, KeptByPop
  <2>4. QED
    BY <1>2, <2>1, <2>2, <2>3 DEF Kept, Top
<1>5. CASE LocalStep
  <2>1. PICK f \in Frames :
              /\ stack' = Set(f)
              /\ f.kind = Top.kind /\ f.chunk = Top.chunk
              /\ \/ Top.pc \notin {"pre", "top", "original"}
                 \/ Top.pc = "pre" /\ f.pc = "top"
    BY <1>5, LocalStepFrame
  <2>2. ~AtRest /\ env' = env
    <3>1. ~AtRest
      BY <1>5, LocalStepFrame
    <3>2. env' = env
      BY <1>1, <1>5
      DEF LocalStep, EngineCompiles, Compile, EnterMain, Snapshot, PreDone,
          PostDone
    <3>3. QED
      BY <3>1, <3>2
  <2>3. /\ \A i \in DOMAIN stack : i # Len(stack) => Kept(i)
        /\ Len(stack) \in DOMAIN stack' /\ stack'[Len(stack)] = f
    BY <2>1, <2>2, KeptBySet
  <2>4. Owns(Top, env) => Owns(f, env)
    BY <2>1 DEF Owns
  <2>5. QED
    BY <1>2, <2>2, <2>3, <2>4 DEF Kept, Top
<1>6. CASE CallStep
  <2>1. /\ ~AtRest /\ Top.kind = "detour" /\ Top.pc \in {"top", "bottom"}
        /\ env' = env
    BY <1>6, CallStepFrame
  <2>2. PICK f, g \in Frames :
              /\ stack' = Set(f) \/ stack' = Append(Set(f), g)
              /\ f.kind = "detour" /\ f.chunk = Top.chunk
              /\ f.pc = Top.pc \/ (Top.pc = "top" /\ f.pc = "original")
    BY <1>6, CallStepFrame
  <2>3. /\ \A i \in DOMAIN stack : i # Len(stack) => Kept(i)
        /\ Len(stack) \in DOMAIN stack' /\ stack'[Len(stack)] = f
    BY <2>1, <2>2, KeptBySet
  <2>4. Owns(Top, env) => Owns(f, env)
    BY <2>1, <2>2 DEF Owns
  <2>5. QED
    BY <1>2, <2>1, <2>3, <2>4 DEF Kept, Top
<1>7. CASE PreCallbackStages
  <2>1. /\ Top.kind = "detour" /\ Top.pc = "pre"
        /\ stack' = stack /\ env' = Top.chunk
        /\ Len(stack) \in DOMAIN stack
    BY <1>7, TopKind, TopFrame DEF PreCallbackStages, At, DetourPcs
  <2>2. QED
    BY <2>1 DEF Owns, Top
<1>8. CASE ReturnFromOriginal
  BY <1>1, <1>8 DEF ReturnFromOriginal
<1>9. CASE CloseLua \/ PluginTrips \/ CallbackTrips \/ UNCHANGED vars
  BY <1>1, <1>2, <1>9 DEF CloseLua, PluginTrips, CallbackTrips, vars
<1>10. CASE WorkerStep
  BY <1>2, <1>10
  DEF WorkerStep, WorkerCompile, WorkerDone, Compile, TakesEnv, DepthIsNesting
<1>11. QED
  BY <1>3, <1>4, <1>5, <1>6, <1>7, <1>8, <1>9, <1>10
  DEF Next, EngineStep, DetourStep, LocalStep, CallStep,
      BodyImports, PluginImports, CallbackImports

\* A Load that has started, or one around it, will put HAS_CRASHED back.
LEMMA CleanerBelow ==
  ASSUME TypeOK, StackOK(stack), CleanersOK(stack),
         NEW i \in DOMAIN stack, Started(stack[i])
  PROVE  \E j \in DOMAIN stack : j <= i /\ Cleans(stack[j])
<1>1. i \in Nat
  BY LenProperties DEF TypeOK
<1>2. CASE stack[i].crashedBefore
  BY <1>1, <1>2, LenProperties DEF StackOK, CleanersOK, TypeOK
<1>3. CASE ~stack[i].crashedBefore
  BY <1>1, <1>3 DEF Cleans, Started
<1>4. QED
  BY <1>2, <1>3

LEMMA CrashStep ==
  ASSUME TypeOK, StackOK(stack), CleanersOK(stack), CrashWillBeCleared, [Next]_vars,
         ~(At("snapshot") /\ hasCrashed' /\ ~hasCrashed)
  PROVE  CrashWillBeCleared'
<1>1. SUFFICES ASSUME hasCrashed'
               PROVE  \E i \in DOMAIN stack' : Cleans(stack'[i])
  BY DEF CrashWillBeCleared
<1>2. ASSUME hasCrashed' = hasCrashed,
             \A i \in DOMAIN stack : Cleans(stack[i]) =>
               \E j \in DOMAIN stack' : Cleans(stack'[j])
      PROVE  \E i \in DOMAIN stack' : Cleans(stack'[i])
  BY <1>1, <1>2 DEF CrashWillBeCleared
<1>3. ASSUME NEW s \in Scripts, GameLoads(s) \/ CallImport(s)
      PROVE  \E i \in DOMAIN stack' : Cleans(stack'[i])
  <2>1. /\ stack' = Append(stack, DetourFrame(s)) /\ DetourFrame(s) \in Frames
        /\ hasCrashed' = hasCrashed
    BY <1>3, NewFrames DEF GameLoads, CallImport, Push
  <2>2. \A i \in DOMAIN stack : Kept(i)
    BY <2>1, KeptByPush
  <2>3. QED
    BY <1>2, <2>1, <2>2 DEF Kept
<1>4. CASE EngineRefuses \/ EngineRejects \/ BodyEnds
  \* The engine's Load was called by a Load detour that has started.
  <2>1. ~AtRest /\ stack' = Pop /\ Top.pc \in EnginePcs
    BY <1>4 DEF EngineRefuses, EngineRejects, BodyEnds, At, EnginePcs
  <2>2. Top.kind = "engine" /\ Len(stack) \in DOMAIN stack
    BY <2>1, TopKind, TopFrame
  <2>3. PICK j \in DOMAIN stack : j < Len(stack) /\ Started(stack[j])
    BY <2>2 DEF StackOK, CallersOK, Top
  <2>4. PICK k \in DOMAIN stack : k <= j /\ Cleans(stack[k])
    BY <2>3, CleanerBelow
  <2>5. k # Len(stack)
    BY <2>2, <2>4 DEF Cleans, Top
  <2>6. Kept(k)
    BY <2>1, <2>5, KeptByPop
  <2>7. QED
    BY <2>4, <2>6 DEF Kept
<1>5. CASE Leave
  <2>1. ~AtRest /\ stack' = Pop /\ Top.pc = "bottom" /\ Top.crashedBefore
    BY <1>1, <1>5 DEF Leave, At
  <2>2. Started(Top) /\ Len(stack) \in DOMAIN stack
    BY <2>1, TopKind, TopFrame DEF Started, DetourPcs
  <2>3. PICK j \in DOMAIN stack : j < Len(stack) /\ Cleans(stack[j])
    BY <2>1, <2>2 DEF StackOK, CleanersOK, Top
  <2>4. Kept(j)
    BY <2>1, <2>2, <2>3, KeptByPop, TopFrame
  <2>5. QED
    BY <2>3, <2>4 DEF Kept
<1>6. CASE LocalStep
  <2>1. PICK f \in Frames :
              /\ stack' = Set(f)
              /\ f.kind = Top.kind
              /\ \/ Top.pc \in {"load", "enter", "snapshot"}
                 \/ /\ f.pc \in {"top", "bottom"}
                    /\ f.crashedBefore = Top.crashedBefore
    <3>1. PreDone \/ PostDone => ~Snapshot
      BY DEF PreDone, PostDone, Snapshot, At
    <3>2. QED
      BY <1>6, <3>1, LocalStepFrame
  <2>2. ~AtRest /\ hasCrashed' = hasCrashed
    <3>1. ~AtRest
      BY <1>6, LocalStepFrame
    <3>2. hasCrashed' = hasCrashed
      BY <1>6
      DEF LocalStep, EngineCompiles, EnterMain, Snapshot, PreDone, PostDone
    <3>3. QED
      BY <3>1, <3>2
  <2>3. /\ \A i \in DOMAIN stack : i # Len(stack) => Kept(i)
        /\ Len(stack) \in DOMAIN stack' /\ stack'[Len(stack)] = f
    BY <2>1, <2>2, KeptBySet
  <2>4. Cleans(Top) => Cleans(f)
    <3>1. Top.pc = "load" => Top.kind = "engine"
      BY <2>2, TopKind DEF EnginePcs
    <3>2. QED
      BY <2>1, <3>1 DEF Cleans
  <2>5. QED
    BY <1>2, <2>2, <2>3, <2>4 DEF Kept, Top
<1>7. CASE CallStep
  <2>1. /\ ~AtRest /\ Top.kind = "detour" /\ Top.pc \in {"top", "bottom"}
        /\ hasCrashed' = hasCrashed
    BY <1>7, CallStepFrame
  <2>2. PICK f, g \in Frames :
              /\ stack' = Set(f) \/ stack' = Append(Set(f), g)
              /\ f.kind = "detour"
              /\ f.crashedBefore = Top.crashedBefore
              /\ f.pc = Top.pc \/ (Top.pc = "top" /\ f.pc = "original")
    BY <1>7, CallStepFrame
  <2>3. /\ \A i \in DOMAIN stack : i # Len(stack) => Kept(i)
        /\ Len(stack) \in DOMAIN stack' /\ stack'[Len(stack)] = f
    BY <2>1, <2>2, KeptBySet
  <2>4. Cleans(Top) => Cleans(f)
    BY <2>1, <2>2 DEF Cleans
  <2>5. QED
    BY <1>2, <2>1, <2>3, <2>4 DEF Kept, Top
<1>8. CASE CallbackTrips
  <2>1. /\ ~AtRest /\ stack' = stack /\ Top.pc \in {"pre", "post"}
    BY <1>8 DEF CallbackTrips, At
  <2>2. Started(stack[Len(stack)]) /\ Len(stack) \in DOMAIN stack
    BY <2>1, TopKind, TopFrame DEF Started, DetourPcs, Top
  <2>3. QED
    BY <2>1, <2>2, CleanerBelow
<1>9. CASE ReturnFromOriginal
  <2>. DEFINE f == [Top EXCEPT !.pc = "post"]
  <2>1. ~AtRest /\ Top \in Frames /\ Top.pc = "original"
    BY <1>9, TopFrame DEF ReturnFromOriginal, At
  <2>2. /\ f \in Frames /\ f.pc = "post" /\ f.kind = Top.kind
        /\ f.crashedBefore = Top.crashedBefore
    BY <2>1 DEF Frames, DetourPcs
  <2>3. stack' = Set(f) /\ hasCrashed' = hasCrashed
    BY <1>9 DEF ReturnFromOriginal, GoTo
  <2>. HIDE DEF f
  <2>4. /\ \A i \in DOMAIN stack : i # Len(stack) => Kept(i)
        /\ Len(stack) \in DOMAIN stack' /\ stack'[Len(stack)] = f
    BY <2>1, <2>2, <2>3, KeptBySet
  <2>5. Cleans(Top) => Cleans(f)
    BY <2>2 DEF Cleans
  <2>6. QED
    BY <1>2, <2>3, <2>4, <2>5 DEF Kept, Top
<1>10. CASE \/ CloseLua \/ PreCallbackStages \/ PluginTrips
            \/ WorkerStep \/ UNCHANGED vars
  BY <1>1, <1>2, <1>10
  DEF CloseLua, PreCallbackStages, PluginTrips, WorkerStep, WorkerCompile,
      WorkerDone, vars
<1>11. QED
  BY <1>3, <1>4, <1>5, <1>6, <1>7, <1>8, <1>9, <1>10
  DEF Next, EngineStep, DetourStep, LocalStep, CallStep,
      BodyImports, PluginImports, CallbackImports

\* A worker compiles at depth 0, and the loading thread never compiles a
\* worker's chunk.
LEMMA WorkersStep ==
  ASSUME TypeOK, StackOK(stack), DepthIsNesting, WorkersGetNothing, [Next]_vars
  PROVE  WorkersGetNothing'
<1>1. CASE EngineCompiles
  <2>1. Top.chunk \notin Workers
    BY <1>1, TopFrame, ScriptsAssumption DEF EngineCompiles, At, Frames
  <2>2. \A w \in Workers : installed'[w] = installed[w]
    BY <1>1, <2>1 DEF EngineCompiles, Compile, TypeOK, Chunks
  <2>3. QED
    BY <2>2 DEF WorkersGetNothing
<1>2. CASE WorkerStep
  BY <1>2
  DEF WorkerStep, WorkerCompile, WorkerDone, Compile, TakesEnv, DepthIsNesting,
      WorkersGetNothing, TypeOK, Chunks
<1>3. CASE CloseLua
  BY <1>3 DEF CloseLua, WorkersGetNothing, Chunks
<1>4. CASE UNCHANGED installed
  BY <1>4 DEF WorkersGetNothing
<1>5. QED
  BY <1>1, <1>2, <1>3, <1>4
  DEF Next, EngineStep, DetourStep, vars, GameLoads, CallImport, BodyImports,
      EngineRefuses, EngineRejects, BodyEnds, EnterMain, PluginImports,
      PluginTrips, Snapshot, PreCallbackStages, CallbackImports, CallbackTrips,
      PreDone, ImportFile, CallOriginal, ReturnFromOriginal, PostDone, Leave

--------------------------------------------------------------------------------
(* The inductive invariant, and what follows from it. *)

IInv ==
  /\ TypeOK
  /\ StackOK(stack)
  /\ DepthIsNesting
  /\ StagedEnvHasOwner
  /\ WorkersGetNothing

LEMMA InitIInv == Init => IInv
<1>. SUFFICES ASSUME Init PROVE IInv
  OBVIOUS
<1>1. stack = <<>> /\ DOMAIN stack = {} /\ <<>> \in Seq(Frames)
  BY EmptySeq, LenProperties DEF Init
<1>2. TypeOK
  BY <1>1 DEF Init, TypeOK
<1>3. StackOK(stack)
  BY <1>1 DEF StackOK, FramesOK, CallersOK
<1>4. DepthIsNesting
  <2>1. InOriginal = {}
    BY <1>1 DEF InOriginal
  <2>2. QED
    BY <2>1, FS_EmptySet DEF DepthIsNesting, Init, Threads
<1>5. StagedEnvHasOwner /\ WorkersGetNothing
  BY DEF Init, StagedEnvHasOwner, WorkersGetNothing, Chunks
<1>6. QED
  BY <1>2, <1>3, <1>4, <1>5 DEF IInv

LEMMA StepIInv == IInv /\ [Next]_vars => IInv'
<1>. SUFFICES ASSUME IInv, [Next]_vars PROVE IInv'
  OBVIOUS
<1>1. TypeOK'
  BY TypeStep DEF IInv
<1>2. StackOK(stack)'
  BY StackStep DEF IInv
<1>3. DepthIsNesting'
  BY DepthStep DEF IInv
<1>4. StagedEnvHasOwner'
  BY OwnerStep DEF IInv
<1>5. WorkersGetNothing'
  BY WorkersStep DEF IInv
<1>6. QED
  BY <1>1, <1>2, <1>3, <1>4, <1>5 DEF IInv

LEMMA Inductive == Spec => []IInv
  BY InitIInv, StepIInv, PTL DEF Spec

\* Every variable keeps its type; in particular g_script_load_depth never goes
\* below zero, however loads nest, fail and are refused.
THEOREM TypeCorrect == Spec => []TypeOK
<1>1. IInv => TypeOK
  BY DEF IInv
<1>2. QED
  BY <1>1, Inductive, PTL

\* g_script_load_depth counts the originals running on the thread.
THEOREM DepthCorrect == Spec => []DepthIsNesting
<1>1. IInv => DepthIsNesting
  BY DEF IInv
<1>2. QED
  BY <1>1, Inductive, PTL

\* No staged environment outlives the Load it was staged for.
THEOREM StagedEnvOwned == Spec => []StagedEnvHasOwner
<1>1. IInv => StagedEnvHasOwner
  BY DEF IInv
<1>2. QED
  BY <1>1, Inductive, PTL

\* No worker thread's chunk ever gets an environment.
THEOREM WorkersSafe == Spec => []WorkersGetNothing
<1>1. IInv => WorkersGetNothing
  BY DEF IInv
<1>2. QED
  BY <1>1, Inductive, PTL

--------------------------------------------------------------------------------
(* HAS_CRASHED, whatever the callbacks and scripts do with it.                 *)

CrashInv == ~tripped => CleanersOK(stack) /\ CrashWillBeCleared

LEMMA CrashInvStep ==
  IInv /\ CrashInv /\ [MCNext]_<<vars, reentered, tripped>> => CrashInv'
<1>. SUFFICES ASSUME IInv, CrashInv, [MCNext]_<<vars, reentered, tripped>>, ~tripped'
              PROVE  CleanersOK(stack') /\ CrashWillBeCleared'
  BY DEF CrashInv, CleanersOK
<1>1. CASE MCNext
  <2>1. ~tripped /\ ~(At("snapshot") /\ hasCrashed' /\ ~hasCrashed) /\ [Next]_vars
    BY <1>1 DEF MCNext
  <2>2. CleanersOK(stack) /\ CrashWillBeCleared
    BY <2>1 DEF CrashInv
  <2>3. CleanersOK(stack')
    BY <2>1, <2>2, StackStep DEF IInv, Tidy
  <2>4. CrashWillBeCleared'
    BY <2>1, <2>2, CrashStep DEF IInv
  <2>5. QED
    BY <2>3, <2>4
<1>2. CASE UNCHANGED <<vars, reentered, tripped>>
  BY <1>2 DEF vars, CrashInv, CleanersOK, CrashWillBeCleared
<1>3. QED
  BY <1>1, <1>2

NoCrashLeftBehind == AtRest => ~hasCrashed

\* Unless a plugin's main chunk sets HAS_CRASHED, before the snapshot: whatever
\* else sets it inside a Load is undone before the outermost Load returns.
THEOREM CrashCleared ==
  MCSpec => [](CrashClearedUnlessPlugins /\ (tripped \/ NoCrashLeftBehind))
<1>1. MCInit => IInv /\ CrashInv
  <2>. SUFFICES ASSUME MCInit PROVE IInv /\ CrashInv
    OBVIOUS
  <2>1. Init /\ stack = <<>> /\ DOMAIN stack = {} /\ ~hasCrashed
    BY LenProperties, EmptySeq DEF MCInit, Init
  <2>2. QED
    BY <2>1, InitIInv DEF CrashInv, CleanersOK, CrashWillBeCleared
<1>2. IInv /\ CrashInv /\ [MCNext]_<<vars, reentered, tripped>> => IInv' /\ CrashInv'
  BY StepIInv, CrashInvStep DEF MCNext
<1>3. IInv /\ CrashInv => CrashClearedUnlessPlugins /\ (tripped \/ NoCrashLeftBehind)
  <2>. SUFFICES ASSUME IInv, CrashInv, ~tripped PROVE CrashWillBeCleared /\ NoCrashLeftBehind
    BY DEF CrashClearedUnlessPlugins
  <2>1. AtRest => DOMAIN stack = {}
    BY LenProperties DEF IInv, TypeOK, AtRest
  <2>2. QED
    BY <2>1 DEF CrashInv, CrashWillBeCleared, NoCrashLeftBehind
<1>4. QED
  BY <1>1, <1>2, <1>3, PTL DEF MCSpec

--------------------------------------------------------------------------------
(* A staged environment stays with its script.                                 *)

\* As long as only scripts Import scripts, a staged environment is the innermost
\* Load's: its detour is on top, or under a call of the engine's Load, for a
\* legacy file or for the script itself.
InnermostOwns ==
  env # NoEnv =>
    /\ ~AtRest
    /\ \/ Owns(Top, env)
       \/ /\ Len(stack) > 1 /\ Owns(stack[Len(stack) - 1], env)
          /\ Top.kind = "engine"
          /\ Top.chunk \notin Files => /\ Top.chunk = env /\ Top.pc = "load"
                                       /\ stack[Len(stack) - 1].pc = "original"

EnvInv == ~reentered => InnermostOwns /\ EnvStaysWithItsScript

\* An original that is running anywhere on the stack keeps the count above 0.
LEMMA DepthInside ==
  ASSUME TypeOK, DepthIsNesting, NEW i \in DOMAIN stack, stack[i].pc = "original"
  PROVE  depth[Loader] > 0
<1>0. Len(stack) \in Nat /\ DOMAIN stack = 1..Len(stack)
  BY LenProperties DEF TypeOK
<1>1. IsFiniteSet(1..Len(stack)) /\ i \in InOriginal /\ InOriginal \subseteq 1..Len(stack)
  BY <1>0, FS_Interval DEF InOriginal
<1>2. IsFiniteSet(InOriginal)
  BY <1>1, FS_Subset
<1>3. Cardinality(InOriginal) \in Nat /\ Cardinality(InOriginal) # 0
  BY <1>1, <1>2, FS_CardinalityType, FS_EmptySet
<1>4. QED
  BY <1>3 DEF DepthIsNesting

\* Two frames of the stack after each kind of step: the innermost, and its caller.
LEMMA TopAfterPush ==
  ASSUME TypeOK, NEW f \in Frames, stack' = Append(stack, f)
  PROVE  /\ ~AtRest' /\ Top' = f /\ Len(stack') = Len(stack) + 1
         /\ ~AtRest => Len(stack') > 1 /\ stack'[Len(stack') - 1] = Top
  BY PushFrames, EmptySeq DEF TypeOK, AtRest, Top

LEMMA TopAfterPop ==
  ASSUME TypeOK, Len(stack) > 1, stack' = Pop
  PROVE  ~AtRest' /\ Top' = stack[Len(stack) - 1]
<1>1. /\ Len(stack) \in Nat /\ stack # <<>>
      /\ Len(stack') = Len(stack) - 1 /\ stack' \in Seq(Frames)
      /\ \A i \in 1..Len(stack') : stack'[i] = stack[i]
  BY PopFrames, EmptySeq, LenProperties DEF TypeOK, Pop
<1>2. QED
  BY <1>1, EmptySeq DEF AtRest, Top

LEMMA TopAfterSet ==
  ASSUME TypeOK, ~AtRest, NEW f \in Frames, stack' = Set(f)
  PROVE  /\ ~AtRest' /\ Top' = f /\ Len(stack') = Len(stack)
         /\ Len(stack) > 1 => stack'[Len(stack') - 1] = stack[Len(stack) - 1]
<1>1. /\ Len(stack) \in Nat \ {0} /\ Set(f) \in Seq(Frames) /\ Len(Set(f)) = Len(stack)
      /\ Set(f)[Len(stack)] = f
      /\ \A i \in 1..(Len(stack) - 1) : Set(f)[i] = stack[i]
  BY TopFrame, SetFrames
<1>. HIDE DEF Set
<1>2. QED
  BY <1>1, EmptySeq DEF AtRest, Top

LEMMA TopAfterCall ==
  ASSUME TypeOK, ~AtRest, NEW f \in Frames, NEW g \in Frames, stack' = Append(Set(f), g)
  PROVE  ~AtRest' /\ Top' = g /\ Len(stack') > 1 /\ stack'[Len(stack') - 1] = f
<1>1. /\ Len(stack) \in Nat \ {0} /\ Set(f) \in Seq(Frames) /\ Len(Set(f)) = Len(stack)
      /\ Set(f)[Len(stack)] = f
  BY TopFrame, SetFrames
<1>. HIDE DEF Set
<1>2. /\ Len(stack') = Len(stack) + 1 /\ stack' \in Seq(Frames)
      /\ stack'[Len(stack)] = f /\ stack'[Len(stack) + 1] = g
  BY <1>1, PushFrames
<1>3. QED
  BY <1>1, <1>2, EmptySeq DEF AtRest, Top

\* A staged environment stays where it is looked for.
LEMMA OwnerStays ==
  ASSUME IInv, InnermostOwns, [MCNext]_<<vars, reentered, tripped>>, ~reentered'
  PROVE  InnermostOwns'
<1>. USE DEF InnermostOwns, IInv
<1>1. CASE UNCHANGED vars
  BY <1>1 DEF vars, AtRest, Top
<1>. SUFFICES ASSUME Next, ~(ModCode /\ Len(stack') > Len(stack)), env' # NoEnv
              PROVE  InnermostOwns'
  BY <1>1 DEF MCNext, vars
<1>2. ASSUME NEW s \in Scripts, GameLoads(s) PROVE InnermostOwns'
  BY <1>2 DEF GameLoads
<1>3. ASSUME NEW s \in Scripts, CallImport(s), ~ModCode, At("body") PROVE InnermostOwns'
  BY <1>3 DEF CallImport, ModCode, At, Owns
<1>4. ASSUME NEW s \in Scripts, CallImport(s), ModCode PROVE InnermostOwns'
  <2>1. Len(stack') = Len(stack) + 1
    BY <1>4, NewFrames, TopAfterPush DEF CallImport, Push
  <2>2. QED
    BY <1>4, <2>1, LenProperties DEF TypeOK
<1>5. CASE EngineRefuses \/ EngineRejects \/ BodyEnds
  <2>1. env' = env /\ stack' = Pop /\ Top.pc \in EnginePcs
    BY <1>5 DEF EngineRefuses, EngineRejects, BodyEnds, At, EnginePcs
  <2>2. Len(stack) > 1 /\ Owns(stack[Len(stack) - 1], env)
    BY <2>1 DEF Owns, EnginePcs
  <2>3. QED
    BY <2>1, <2>2, TopAfterPop
<1>6. CASE EngineCompiles
  <2>1. ~TakesEnv(Loader) /\ env' = env /\ Top.pc = "load"
    BY <1>6 DEF EngineCompiles, Compile, At
  <2>2. /\ Len(stack) > 1 /\ Owns(stack[Len(stack) - 1], env)
        /\ Top.kind = "engine" /\ ~AtRest
        /\ Top.chunk \notin Files => stack[Len(stack) - 1].pc = "original"
    BY <2>1 DEF Owns
  <2>3. Top.chunk \in Files
    <3>1. Len(stack) - 1 \in DOMAIN stack
      BY <2>2, TopFrame
    <3>2. QED
      BY <2>1, <2>2, <3>1, DepthInside DEF TakesEnv
  <2>4. PICK f \in Frames : stack' = Set(f) /\ f.kind = Top.kind /\ f.chunk = Top.chunk
    BY <1>6, LocalStepFrame DEF LocalStep
  <2>5. QED
    BY <2>1, <2>2, <2>3, <2>4, TopAfterSet
<1>7. CASE EnterMain \/ Snapshot \/ PostDone \/ Leave
  BY <1>7, TopKind DEF EnterMain, Snapshot, PostDone, Leave, At, Owns, DetourPcs
<1>8. CASE PreDone
  <2>1. PICK f \in Frames : /\ stack' = Set(f) /\ f.kind = Top.kind /\ f.chunk = Top.chunk
                            /\ f.pc = "top"
    BY <1>8, LocalStepFrame DEF LocalStep, PreDone, EngineCompiles, EnterMain, Snapshot, PostDone, At
  <2>2. ~AtRest /\ env' = env /\ Top.kind = "detour"
    BY <1>8, TopKind DEF PreDone, At, DetourPcs
  <2>3. QED
    BY <2>1, <2>2, TopAfterSet DEF Owns
<1>9. CASE PreCallbackStages
  <2>1. ~AtRest /\ Top.pc = "pre" /\ Top.kind = "detour" /\ env' = Top.chunk /\ stack' = stack
    BY <1>9, TopKind DEF PreCallbackStages, At, DetourPcs
  <2>2. QED
    BY <2>1 DEF Owns, AtRest, Top
<1>10. CASE ImportFile
  <2>. DEFINE f == [Top EXCEPT !.todo = Tail(@)]
              g == EngineFrame(Head(Top.todo))
  <2>1. /\ ~AtRest /\ Top.kind = "detour" /\ Top \in Frames /\ Top.pc \in {"top", "bottom"}
        /\ f \in Frames /\ g \in Frames /\ Head(Top.todo) \in Files /\ env' = env
    BY <1>10, TopFrame, TopKind, NextFrames, NewFrames DEF ImportFile, At, DetourPcs
  <2>2. /\ f.kind = "detour" /\ f.chunk = Top.chunk /\ f.pc = Top.pc
        /\ g.kind = "engine" /\ g.chunk \in Files
    BY <2>1 DEF Frames, EngineFrame
  <2>3. stack' = Set(f) \/ stack' = Append(Set(f), g)
    BY <1>10 DEF ImportFile, Advanced
  <2>4. Owns(Top, env)
    BY <2>1
  <2>. HIDE DEF f, g
  <2>5. Owns(f, env)
    BY <2>1, <2>2, <2>4 DEF Owns
  <2>6. QED
    BY <2>1, <2>2, <2>3, <2>5, TopAfterSet, TopAfterCall
<1>11. CASE CallOriginal
  <2>. DEFINE f == [Top EXCEPT !.pc = "original"]
              g == EngineFrame(Top.chunk)
  <2>1. /\ ~AtRest /\ Top.kind = "detour" /\ Top.chunk \in Scripts /\ Top \in Frames
        /\ f \in Frames /\ g \in Frames /\ env' = env /\ Top.pc = "top"
    BY <1>11, TopFrame, TopKind, NextFrames, NewFrames DEF CallOriginal, At, DetourPcs
  <2>2. /\ f.kind = "detour" /\ f.chunk = Top.chunk /\ f.pc = "original"
        /\ g.kind = "engine" /\ g.chunk = Top.chunk /\ g.pc = "load"
    BY <2>1 DEF Frames, EngineFrame
  <2>3. stack' = Append(Set(f), g)
    BY <1>11 DEF CallOriginal, GoTo
  <2>4. Owns(Top, env)
    BY <2>1
  <2>. HIDE DEF f, g
  <2>5. Owns(f, env) /\ f.chunk = env
    BY <2>2, <2>4 DEF Owns
  <2>6. QED
    BY <2>1, <2>2, <2>3, <2>5, TopAfterCall
<1>12. CASE ReturnFromOriginal
  BY <1>12 DEF ReturnFromOriginal
<1>13. CASE PluginTrips \/ CallbackTrips
  BY <1>13 DEF PluginTrips, CallbackTrips, AtRest, Top
<1>14. CASE CloseLua
  BY <1>14 DEF CloseLua
<1>15. CASE WorkerStep
  <2>1. env' = env /\ stack' = stack
    BY <1>15 DEF WorkerStep, WorkerCompile, WorkerDone, Compile, TakesEnv, DepthIsNesting
  <2>2. QED
    BY <2>1 DEF AtRest, Top
<1>16. QED
  BY <1>2, <1>3, <1>4, <1>5, <1>6, <1>7, <1>8, <1>9, <1>10, <1>11, <1>12, <1>13, <1>14, <1>15
  DEF Next, EngineStep, DetourStep, BodyImports, PluginImports, CallbackImports, ModCode

LEMMA StaysStep ==
  ASSUME IInv, InnermostOwns, EnvStaysWithItsScript, [Next]_vars
  PROVE  EnvStaysWithItsScript'
<1>1. CASE EngineCompiles
  <2>1. /\ ~AtRest /\ Top.pc = "load" /\ Compile(Loader, Top.chunk)
        /\ Top.chunk \in Scripts \cup Files
    BY <1>1, TopFrame DEF EngineCompiles, At, IInv, Frames
  <2>2. TakesEnv(Loader) => Top.chunk \in Files \/ Top.chunk = env
    BY <2>1 DEF TakesEnv, InnermostOwns, Owns
  <2>3. installed' = [installed EXCEPT ![Top.chunk] = IF TakesEnv(Loader) THEN env ELSE NoEnv]
    BY <2>1 DEF Compile
  <2>4. ASSUME NEW s \in Scripts PROVE installed'[s] \in {s, NoEnv, Uncompiled}
    <3>1. CASE s = Top.chunk
      BY <2>2, <2>3, <3>1, ScriptsAssumption DEF IInv, TypeOK, Chunks
    <3>2. CASE s # Top.chunk
      BY <2>3, <3>2 DEF IInv, TypeOK, Chunks, EnvStaysWithItsScript
    <3>3. QED
      BY <3>1, <3>2
  <2>5. QED
    BY <2>4 DEF EnvStaysWithItsScript
<1>2. CASE WorkerStep
  <2>1. PICK w \in Workers : WorkerCompile(w) \/ WorkerDone(w)
    BY <1>2 DEF WorkerStep
  <2>2. \A s \in Scripts : installed'[s] = installed[s]
    BY <2>1, ScriptsAssumption
    DEF WorkerCompile, WorkerDone, Compile, IInv, TypeOK, Chunks
  <2>3. QED
    BY <2>2 DEF EnvStaysWithItsScript
<1>3. CASE CloseLua
  BY <1>3, ScriptsAssumption DEF CloseLua, EnvStaysWithItsScript, Chunks
<1>4. CASE UNCHANGED installed
  BY <1>4 DEF EnvStaysWithItsScript
<1>5. QED
  BY <1>1, <1>2, <1>3, <1>4
  DEF Next, EngineStep, DetourStep, vars, GameLoads, CallImport, BodyImports,
      EngineRefuses, EngineRejects, BodyEnds, EnterMain, PluginImports,
      PluginTrips, Snapshot, PreCallbackStages, CallbackImports, CallbackTrips,
      PreDone, ImportFile, CallOriginal, ReturnFromOriginal, PostDone, Leave

LEMMA EnvInvStep ==
  IInv /\ EnvInv /\ [MCNext]_<<vars, reentered, tripped>> => EnvInv'
<1>. SUFFICES ASSUME IInv, EnvInv, [MCNext]_<<vars, reentered, tripped>>, ~reentered'
              PROVE  InnermostOwns' /\ EnvStaysWithItsScript'
  BY DEF EnvInv
<1>1. CASE MCNext
  <2>1. ~reentered /\ [Next]_vars
    BY <1>1 DEF MCNext
  <2>2. QED
    BY <2>1, OwnerStays, StaysStep DEF EnvInv
<1>2. CASE UNCHANGED <<vars, reentered, tripped>>
  <2>1. ~reentered /\ [Next]_vars
    BY <1>2
  <2>2. QED
    BY <2>1, OwnerStays, StaysStep DEF EnvInv
<1>3. QED
  BY <1>1, <1>2

\* As long as only scripts Import scripts, an environment staged for one script
\* is never attached to another, whatever legacy files are imported around it,
\* refused, rejected or failing in between.
THEOREM EnvStays == MCSpec => []EnvStaysUnlessReentered
<1>1. MCInit => IInv /\ EnvInv
  BY InitIInv
  DEF MCInit, Init, EnvInv, InnermostOwns, EnvStaysWithItsScript, Chunks
<1>2. IInv /\ EnvInv /\ [MCNext]_<<vars, reentered, tripped>> => IInv' /\ EnvInv'
  BY StepIInv, EnvInvStep DEF MCNext
<1>3. EnvInv => EnvStaysUnlessReentered
  BY DEF EnvInv, EnvStaysUnlessReentered
<1>4. QED
  BY <1>1, <1>2, <1>3, PTL DEF MCSpec

================================================================================
