------------------------- MODULE ManagerLifecycleProofs ------------------------
(* Proofs about ManagerLifecycle, for every number of states, and about what    *)
(* lives on the manager: the sandbox of each lua_State, the key picker and the  *)
(* list of mods that are not loaded, for any number of mods, folders and keys;  *)
(* and about the queue of tasks that run where the manager runs.                *)
EXTENDS MCManagerLifecycle, TaskQueue, FiniteSetTheorems, SequenceTheorems, TLAPS

\* What holds of the hooks and of the states, whatever the game does.
StatesOK ==
  /\ hooked \in 0..5
  /\ opened \in Nat
  /\ closing \in open \cup {NoState}
  /\ pc \in {"idle", "main", "body", "plain", "ignores", "close", "closed"}
  /\ pc \in {"close", "closed"} <=> closing # NoState
  /\ open \subseteq 1..opened
  /\ game \in open \cup {NoState}
  /\ pc \in {"main", "body", "plain", "ignores"} => game # NoState
  /\ instance = last
  /\ valid \in BOOLEAN
  /\ valid <=> instance # NoState
  /\ rom \subseteq 1..opened /\ mainRan \subseteq 1..opened
  /\ ~Resolved => rom = {}

LEMMA StatesOKInit == Init => StatesOK
<1>. SUFFICES ASSUME Init PROVE StatesOK
  OBVIOUS
<1>1. /\ hooked \in {0, 5} /\ opened = 0 /\ open = {} /\ game = NoState
      /\ instance = NoState /\ last = NoState /\ valid = FALSE
      /\ closing = NoState /\ pc = "idle" /\ rom = {} /\ mainRan = {}
  BY DEF Init
<1>2. open \subseteq 1..opened /\ rom \subseteq 1..opened /\ mainRan \subseteq 1..opened
  BY <1>1
<1>3. hooked \in 0..5
  BY <1>1
<1>4. QED
  BY <1>1, <1>2, <1>3 DEF StatesOK, NoState

\* What making a manager changes, where it is made at all.
Made == /\ Resolved /\ game # NoState
        /\ instance' = game /\ last' = game /\ valid' = TRUE
        /\ rom' = rom \cup {game}
NotMade == UNCHANGED <<instance, last, valid, rom>>

LEMMA InitManagerDoes ==
  ASSUME InitManager
  PROVE  Made \/ (NotMade /\ ~(Resolved /\ game # NoState))
BY DEF InitManager, InitLuaApi, CanInit, PointSentinels, Made, NotMade, manager

LEMMA DetourDoes ==
  ASSUME DetourInit
  PROVE  /\ pc = "main" /\ pc' = "body"
         /\ UNCHANGED <<hooked, opened, open, game, mainRan, ignored, closing>>
         /\ Made \/ (NotMade /\ ~(Resolved /\ game # NoState))
BY InitManagerDoes DEF DetourInit, engine

LEMMA UpdateDoes ==
  ASSUME Update
  PROVE  /\ pc = "idle"
         /\ UNCHANGED <<hooked, opened, open, game, mainRan, ignored, pc, closing>>
         /\ NotMade \/ (~valid /\ Made)
<1>1. pc = "idle" /\ UNCHANGED <<hooked, opened, open, game, mainRan, ignored, pc, closing>>
  BY DEF Update, engine
<1>2. CASE valid
  BY <1>1, <1>2 DEF Update, NotMade, manager
<1>3. CASE ~valid
  BY <1>1, <1>3, InitManagerDoes DEF Update
<1>4. QED
  BY <1>2, <1>3

LEMMA StatesOKStep == StatesOK /\ [Next]_vars => StatesOK'
<1>. SUFFICES ASSUME StatesOK, [Next]_vars PROVE StatesOK'
  OBVIOUS
<1>. USE DEF StatesOK, NoState, engine, manager
<1>1. CASE GameOpens \/ EngineOpensOther \/ GameAbandons
  <2>1. /\ opened' = opened + 1
        /\ open' \subseteq open \cup {opened + 1}
        /\ \/ game' = opened + 1 /\ opened + 1 \in open'
           \/ game' = game /\ open \subseteq open'
        /\ pc = "idle"
        /\ UNCHANGED <<hooked, pc, closing, instance, last, valid, rom, mainRan>>
    BY <1>1 DEF GameOpens, EngineOpensOther, GameAbandons
  <2>2. /\ opened' \in Nat /\ open' \subseteq 1..opened'
        /\ rom' \subseteq 1..opened' /\ mainRan' \subseteq 1..opened'
    BY <2>1
  <2>3. QED
    BY <2>1, <2>2
<1>2. CASE DetourInit
  <2>1. CASE Made
    <3>1. game \in 1..opened /\ valid' = TRUE /\ instance' = last' /\ Resolved
      BY <2>1 DEF Made
    <3>2. rom' \subseteq 1..opened /\ instance' # NoState
      BY <2>1, <3>1 DEF Made
    <3>3. QED
      BY <1>2, <3>1, <3>2, DetourDoes
  <2>2. CASE NotMade
    BY <1>2, <2>2, DetourDoes DEF NotMade
  <2>3. QED
    BY <1>2, <2>1, <2>2, DetourDoes
<1>3. CASE Update
  <2>1. CASE Made
    <3>1. game \in 1..opened /\ valid' = TRUE /\ instance' = last' /\ Resolved
      BY <2>1 DEF Made
    <3>2. rom' \subseteq 1..opened /\ instance' # NoState
      BY <2>1, <3>1 DEF Made
    <3>3. QED
      BY <1>3, <3>1, <3>2, UpdateDoes
  <2>2. CASE NotMade
    BY <1>3, <2>2, UpdateDoes DEF NotMade
  <2>3. QED
    BY <1>3, <2>1, <2>2, UpdateDoes
<1>4. CASE CloseDetour
  BY <1>4 DEF CloseDetour, Shutdown
<1>5. CASE CloseOriginal
  BY <1>5 DEF CloseOriginal
<1>6. ASSUME NEW s \in open, BeginClose(s) PROVE StatesOK'
  BY <1>6 DEF BeginClose
<1>7. CASE MainBody
  BY <1>7 DEF MainBody
<1>8. CASE LoadMain \/ RegisterIgnores
  <2>1. /\ UNCHANGED <<hooked, opened, open, game, instance, last, valid, rom, mainRan, closing>>
        /\ pc' \in {"main", "plain", "idle"} /\ pc \in {"idle", "ignores"}
        /\ pc' # "idle" => game # NoState
    BY <1>8 DEF LoadMain, RegisterIgnores
  <2>2. QED
    BY <2>1
<1>9. CASE InstallHook
  BY <1>9 DEF InstallHook
<1>10. CASE UNCHANGED vars
  BY <1>10 DEF vars
<1>11. QED
  BY <1>1, <1>2, <1>3, <1>4, <1>5, <1>6, <1>7, <1>8, <1>9, <1>10 DEF Next

\* Whatever order the hooks, the waves and the abandoned states come in, a
\* lua_manager is only ever destroyed while its own state is open: one whose
\* state may be gone is leaked.
THEOREM NeverDestroyedLate == Spec => DestroyedWhileOpen
<1>1. StatesOK /\ [Next]_vars =>
        [instance \notin leaked' \cup {NoState, instance'} => instance \in open]_vars
  <2>. SUFFICES ASSUME StatesOK, Next, instance # instance', instance # NoState,
                       instance \notin leaked'
                PROVE  instance \in open
    BY DEF vars, manager
  <2>1. CASE DetourInit \/ Update
    BY <2>1 DEF DetourInit, Update, InitManager, InitLuaApi, manager
  <2>2. CASE CloseDetour
    BY <2>2 DEF CloseDetour, Shutdown, StatesOK, manager
  <2>3. CASE ~(DetourInit \/ Update \/ CloseDetour)
    BY <2>3
    DEF Next, InstallHook, GameOpens, EngineOpensOther, GameAbandons, LoadMain,
        MainBody, RegisterIgnores, BeginClose, CloseOriginal, manager
  <2>4. QED
    BY <2>1, <2>2, <2>3
<1>2. QED
  BY <1>1, StatesOKInit, StatesOKStep, PTL DEF Spec, DestroyedWhileOpen

--------------------------------------------------------------------------------
(* Waves, with every hook in place before the first state is opened.            *)

HooksUp == opened # 0 => hooked = 5

\* Each step of a wave goes through its hook: "rom" is put into a state before
\* its Main.lua defines SaveIgnores, and listed there before anything else runs,
\* and no state is closed under its manager.
HookedInv ==
  /\ pc # "plain"
  /\ pc = "closed" => closing # last
  /\ pc \in {"body", "ignores"} /\ Resolved => valid /\ last = game /\ game \in rom
  /\ Resolved /\ game \in mainRan => game \in rom
  /\ pc # "ignores" => game \notin rom \cap mainRan \/ game \in ignored

OrderlyInv == ManagerOnOpenState /\ ManagerSurvives

LEMMA AllHooked == hooked = 5 => Hooked("Load") /\ Hooked("lua_close")
BY DEF Hooked, HookOrder

LEMMA HookedInvStep ==
  ASSUME StatesOK, HooksUp, HookedInv, [Next]_vars
  PROVE  HookedInv'
<1>. USE DEF StatesOK, HookedInv, NoState, engine, manager
<1>1. CASE GameOpens \/ EngineOpensOther \/ GameAbandons
  <2>1. /\ opened' = opened + 1 /\ pc = "idle"
        /\ game' \in {game, opened + 1}
        /\ UNCHANGED <<pc, closing, last, valid, rom, mainRan, ignored>>
    BY <1>1 DEF GameOpens, EngineOpensOther, GameAbandons
  <2>2. opened + 1 \notin rom \cup mainRan
    OBVIOUS
  <2>3. QED
    BY <2>1, <2>2
<1>2. CASE DetourInit
  <2>1. CASE Made
    BY <1>2, <2>1, DetourDoes DEF Made
  <2>2. CASE NotMade /\ ~(Resolved /\ game # NoState)
    BY <1>2, <2>2, DetourDoes DEF NotMade
  <2>3. QED
    BY <1>2, <2>1, <2>2, DetourDoes
<1>3. CASE Update
  <2>1. CASE Made
    BY <1>3, <2>1, UpdateDoes DEF Made
  <2>2. CASE NotMade
    BY <1>3, <2>2, UpdateDoes DEF NotMade
  <2>3. QED
    BY <1>3, <2>1, <2>2, UpdateDoes
<1>4. CASE CloseDetour
  <2>1. /\ closing' = closing /\ closing # NoState /\ pc = "close" /\ pc' = "closed"
        /\ UNCHANGED <<game, mainRan, rom, ignored>>
        /\ closing # last'
    BY <1>4 DEF CloseDetour, Shutdown
  <2>2. QED
    BY <2>1
<1>5. CASE CloseOriginal
  BY <1>5 DEF CloseOriginal
<1>6. ASSUME NEW s \in open, BeginClose(s) PROVE HookedInv'
  <2>1. Hooked("lua_close")
    BY AllHooked DEF HooksUp
  <2>2. QED
    BY <1>6, <2>1 DEF BeginClose
<1>7. CASE LoadMain
  <2>1. game \in open /\ opened # 0
    BY <1>7 DEF LoadMain
  <2>2. Hooked("Load")
    BY <2>1, AllHooked DEF HooksUp
  <2>3. QED
    BY <1>7, <2>2 DEF LoadMain
<1>8. CASE MainBody
  BY <1>8 DEF MainBody
<1>9. CASE RegisterIgnores
  BY <1>9 DEF RegisterIgnores
<1>10. CASE InstallHook \/ UNCHANGED vars
  BY <1>10 DEF InstallHook, vars
<1>11. QED
  BY <1>1, <1>2, <1>3, <1>4, <1>5, <1>6, <1>7, <1>8, <1>9, <1>10 DEF Next

LEMMA OrderlyInvStep ==
  ASSUME StatesOK, HookedInv, OrderlyInv, [Next]_vars, ~GameAbandons
  PROVE  OrderlyInv'
<1>. USE DEF StatesOK, OrderlyInv, ManagerOnOpenState, ManagerSurvives, NoState,
             engine, manager
<1>1. CASE GameOpens \/ EngineOpensOther
  <2>1. /\ open \subseteq open' /\ game' \in {game, opened + 1}
        /\ UNCHANGED <<closing, last, instance, valid, rom>>
    BY <1>1 DEF GameOpens, EngineOpensOther
  <2>2. opened + 1 \notin rom
    OBVIOUS
  <2>3. QED
    BY <2>1, <2>2
<1>2. CASE DetourInit
  <2>1. CASE Made
    BY <1>2, <2>1, DetourDoes DEF Made
  <2>2. CASE NotMade
    BY <1>2, <2>2, DetourDoes DEF NotMade
  <2>3. QED
    BY <1>2, <2>1, <2>2, DetourDoes
<1>3. CASE Update
  <2>1. CASE Made
    BY <1>3, <2>1, UpdateDoes DEF Made
  <2>2. CASE NotMade
    BY <1>3, <2>2, UpdateDoes DEF NotMade
  <2>3. QED
    BY <1>3, <2>1, <2>2, UpdateDoes
<1>4. CASE CloseDetour
  <2>1. UNCHANGED <<open, game, rom, closing>>
    BY <1>4 DEF CloseDetour, Shutdown
  <2>2. CASE instance # NoState /\ closing = last
    <3>1. valid' = FALSE
      BY <1>4, <2>2 DEF CloseDetour, Shutdown
    <3>2. QED
      BY <2>1, <2>2, <3>1
  <2>3. CASE ~(instance # NoState /\ closing = last)
    <3>1. UNCHANGED manager
      BY <1>4, <2>3 DEF CloseDetour, Shutdown
    <3>2. QED
      BY <2>1, <3>1
  <2>4. QED
    BY <2>2, <2>3
<1>5. CASE CloseOriginal
  BY <1>5 DEF CloseOriginal, HookedInv
<1>6. ASSUME NEW s \in open, BeginClose(s) PROVE OrderlyInv'
  BY <1>6 DEF BeginClose
<1>7. CASE InstallHook \/ LoadMain \/ MainBody \/ RegisterIgnores \/ UNCHANGED vars
  BY <1>7 DEF InstallHook, LoadMain, MainBody, RegisterIgnores, vars
<1>8. QED
  BY <1>1, <1>2, <1>3, <1>4, <1>5, <1>6, <1>7 DEF Next

LEMMA HookedInit == Init => HookedInv /\ OrderlyInv
BY DEF Init, HookedInv, OrderlyInv, ManagerOnOpenState, ManagerSurvives

LEMMA HookedMeans == StatesOK /\ HookedInv => RomIsIgnored
BY DEF HookedInv, RomIsIgnored

\* With the hooks in place before the first wave and every state closed by
\* lua_close, the manager never points into a closed state, lives exactly as
\* long as its state, and its global is never left in the way of the game's
\* Save.
THEOREM WavesCorrect ==
  ASSUME HooksFirst, ~MayAbandon
  PROVE  Spec => [](ManagerOnOpenState /\ ManagerSurvives /\ RomIsIgnored)
<1>. DEFINE WInv == hooked = 5 /\ StatesOK /\ HookedInv /\ OrderlyInv
<1>1. Init => WInv
  BY StatesOKInit, HookedInit DEF Init
<1>2. WInv /\ [Next]_vars => WInv'
  <2>. SUFFICES ASSUME WInv, [Next]_vars PROVE WInv'
    OBVIOUS
  <2>1. hooked' = 5
    BY DEF Next, vars, InstallHook, GameOpens, EngineOpensOther, GameAbandons,
       LoadMain, DetourInit, MainBody, RegisterIgnores, Update, BeginClose,
       CloseDetour, CloseOriginal
  <2>2. HooksUp /\ ~GameAbandons
    BY DEF HooksUp, GameAbandons
  <2>3. QED
    BY <2>1, <2>2, StatesOKStep, HookedInvStep, OrderlyInvStep
<1>3. WInv => ManagerOnOpenState /\ ManagerSurvives /\ RomIsIgnored
  BY HookedMeans DEF OrderlyInv
<1>4. QED
  BY <1>1, <1>2, <1>3, PTL DEF Spec

--------------------------------------------------------------------------------
(* The same, of any behaviour, until something goes wrong in it: a state is     *)
(* opened before the hooks are all in place, or dropped without being closed.   *)

LateInv ==
  /\ StatesOK
  /\ ~late => HooksUp /\ HookedInv
  /\ ~late /\ ~abandoned => OrderlyInv

LEMMA LateInvInit == MCInit => LateInv
<1>. SUFFICES ASSUME MCInit PROVE LateInv
  OBVIOUS
<1>1. Init
  BY DEF MCInit, WindowInit
<1>2. HooksUp
  BY <1>1 DEF Init, HooksUp
<1>3. QED
  BY <1>1, <1>2, StatesOKInit, HookedInit DEF LateInv

LEMMA LateInvStep == LateInv /\ [MCNext]_mcVars => LateInv'
<1>. SUFFICES ASSUME LateInv, [MCNext]_mcVars PROVE LateInv'
  OBVIOUS
<1>1. StatesOK /\ [Next]_vars
  BY DEF LateInv, MCNext, mcVars, Managing, ManagerStep, Pressing, Press, Framing,
         Frame, MoveFolder, EditList
<1>2. StatesOK'
  BY <1>1, StatesOKStep
<1>0. [/\ late' = (late \/ (opened' # opened /\ hooked < 5))
       /\ abandoned' = (abandoned \/ (pc = "idle" /\ open \ open' # {}))]_mcVars
  BY DEF MCNext
<1>3. ~late' => ~late /\ (opened' # opened => ~(hooked < 5))
  BY <1>0 DEF mcVars, vars, engine, history
<1>4. ~late' => HooksUp'
  <2>. SUFFICES ASSUME ~late', opened' # 0 PROVE hooked' = 5
    BY DEF HooksUp
  <2>1. hooked = 5
    BY <1>1, <1>3 DEF LateInv, HooksUp, StatesOK
  <2>2. QED
    BY <1>1, <2>1
    DEF Next, vars, InstallHook, GameOpens, EngineOpensOther, GameAbandons,
       LoadMain, DetourInit, MainBody, RegisterIgnores, Update, BeginClose,
       CloseDetour, CloseOriginal
<1>5. ~late' => HookedInv'
  BY <1>1, <1>3, HookedInvStep DEF LateInv
<1>6. ~late' /\ ~abandoned' => OrderlyInv'
  <2>. SUFFICES ASSUME ~late', ~abandoned' PROVE OrderlyInv'
    OBVIOUS
  <2>1. ~abandoned
    BY <1>0 DEF mcVars, history
  <2>2. ~GameAbandons
    <3>. SUFFICES ASSUME GameAbandons PROVE FALSE
      OBVIOUS
    <3>1. pc = "idle" /\ game \in open /\ game \notin open' /\ opened' # opened
      BY <1>1 DEF GameAbandons, StatesOK, NoState
    <3>2. QED
      BY <1>0, <3>1 DEF mcVars, vars, engine
  <2>3. QED
    BY <1>1, <1>3, <2>1, <2>2, OrderlyInvStep DEF LateInv
<1>7. QED
  BY <1>2, <1>3, <1>4, <1>5, <1>6 DEF LateInv

\* Whatever else the game opens and closes, in whatever order: until a state comes
\* before the hooks or is dropped, the manager that is up points into its own
\* open state and lives as long as it does.
THEOREM ManagerOrderly == MCSpec => []OrderlyManager
<1>1. LateInv => OrderlyManager
  BY DEF LateInv, OrderlyInv, OrderlyManager
<1>2. QED
  BY <1>1, LateInvInit, LateInvStep, PTL DEF MCSpec

\* Until a state comes before the hooks, the game's Save never meets the loader's
\* global: even when states are dropped and their managers leaked.
THEOREM RomIgnored == MCSpec => []RomIgnoredUnlessLate
<1>1. LateInv => RomIgnoredUnlessLate
  BY HookedMeans DEF LateInv, RomIgnoredUnlessLate
<1>2. QED
  BY <1>1, LateInvInit, LateInvStep, PTL DEF MCSpec

--------------------------------------------------------------------------------
(* Types *)

\* A script is loaded only into the game's own state, which stays while it runs.
Loading == pc \in {"main", "body", "plain", "ignores"} => game # NoState

LEMMA TypesInit == MCInit => WindowTypeOK /\ Loading
<1>. SUFFICES ASSUME MCInit PROVE WindowTypeOK /\ Loading
  OBVIOUS
<1>1. Init /\ WindowInit
  BY DEF MCInit, WindowInit
<1>2. TypeOK
  <2>1. /\ hooked \in 0..5 /\ opened = 0 /\ open = {} /\ pc = "idle"
        /\ game = 0 /\ instance = 0 /\ last = 0 /\ closing = 0
        /\ valid = FALSE /\ ticked = FALSE
        /\ mainRan \cup rom \cup ignored \cup leaked = {}
    BY <1>1 DEF Init, NoState
  <2>2. /\ opened \in 0..MaxStates /\ open \subseteq States
        /\ mainRan \cup rom \cup ignored \cup leaked \subseteq States
        /\ {game, instance, last, closing} \subseteq States \cup {NoState}
    BY <2>1, BoundAssumption DEF States, NoState
  <2>3. valid \in BOOLEAN /\ ticked \in BOOLEAN /\ (valid => instance # NoState)
    BY <2>1
  <2>4. /\ pc \in {"close", "closed"} <=> closing # NoState
        /\ pc \in {"idle", "main", "body", "plain", "ignores", "close", "closed"}
    BY <2>1 DEF NoState
  <2>5. QED
    BY <2>1, <2>2, <2>3, <2>4 DEF TypeOK
<1>3. NeverListed \in 0..NeverListed
  BY FoldersAssumption, FS_CardinalityType DEF NeverListed
<1>4. QED
  BY <1>1, <1>2, <1>3, KeysAssumption DEF WindowInit, Init, WindowTypeOK, Loading

LEMMA ManagerTypes == TypeOK /\ Loading /\ Next => TypeOK' /\ Loading'
<1>. SUFFICES ASSUME TypeOK, Loading, Next PROVE TypeOK' /\ Loading'
  OBVIOUS
<1>. USE BoundAssumption DEF TypeOK, Loading, States, NoState, engine, manager
<1>1. CASE InstallHook
  BY <1>1 DEF InstallHook
<1>2. CASE GameOpens \/ EngineOpensOther \/ GameAbandons
  <2>1. /\ pc = "idle" /\ opened < MaxStates /\ opened' = opened + 1
        /\ game' \in {game, opened + 1} /\ open' \subseteq open \cup {opened + 1}
        /\ UNCHANGED <<hooked, instance, last, valid, leaked, rom, mainRan, ignored, ticked, pc, closing>>
    BY <1>2 DEF GameOpens, EngineOpensOther, GameAbandons
  <2>2. opened + 1 \in States
    BY <2>1
  <2>3. QED
    BY <2>1, <2>2
<1>3. CASE LoadMain
  BY <1>3 DEF LoadMain
<1>4. CASE DetourInit \/ Update
  <2>1. /\ UNCHANGED <<hooked, opened, open, game, mainRan, ignored, closing>>
        /\ ticked' \in {ticked, TRUE}
        /\ pc \in {"main", "idle"} /\ pc' = IF pc = "main" THEN "body" ELSE "idle"
    <3>1. CASE DetourInit
      BY <3>1 DEF DetourInit
    <3>2. CASE Update
      BY <3>2 DEF Update
    <3>3. QED
      BY <1>4, <3>1, <3>2
  <2>2. \/ UNCHANGED <<instance, last, valid, leaked, rom>>
        \/ /\ game # NoState
           /\ instance' = game /\ last' = game /\ valid' = TRUE /\ rom' = rom \cup {game}
           /\ leaked' = leaked \cup ({instance} \ {NoState})
    <3>1. InitManager \/ UNCHANGED manager
      BY <1>4 DEF DetourInit, Update
    <3>2. CASE InitManager
      BY <3>2 DEF InitManager, InitLuaApi, CanInit
    <3>3. QED
      BY <3>1, <3>2
  <2>3. CASE UNCHANGED <<instance, last, valid, leaked, rom>>
    BY <2>1, <2>3
  <2>4. CASE ~UNCHANGED <<instance, last, valid, leaked, rom>>
    BY <2>1, <2>2, <2>4
  <2>5. QED
    BY <2>3, <2>4
<1>5. CASE MainBody
  <2>1. game \in States
    BY <1>5 DEF MainBody
  <2>2. QED
    BY <1>5, <2>1 DEF MainBody
<1>6. CASE RegisterIgnores
  BY <1>6 DEF RegisterIgnores
<1>7. ASSUME NEW s \in open, BeginClose(s) PROVE TypeOK' /\ Loading'
  BY <1>7 DEF BeginClose
<1>8. CASE CloseDetour
  BY <1>8 DEF CloseDetour, Shutdown
<1>9. CASE CloseOriginal
  BY <1>9 DEF CloseOriginal
<1>10. QED
  BY <1>1, <1>2, <1>3, <1>4, <1>5, <1>6, <1>7, <1>8, <1>9 DEF Next

LEMMA FrameTypes ==
  ASSUME WindowTypeOK, Frame
  PROVE  WindowTypeOK'
<1>. USE KeysAssumption DEF WindowTypeOK, Asked, Pressed, FirstKey
<1>1. TypeOK' /\ UNCHANGED <<folders, modules>>
  BY DEF Frame, TypeOK, vars, engine, manager
<1>2. {shown', collapsed', folded'} \subseteq BOOLEAN /\ tab' \in {"Mods", "Config"}
  BY DEF Frame, ShownNow
<1>3. /\ toggleKey' \in Keys \ (MouseButtons \cup {Escape}) /\ rebinding' \in BOOLEAN
      /\ down' \subseteq Keys
  <2>1. CASE ClickPick \/ ClickReset
    BY <2>1 DEF ClickPick, ClickReset, Flush
  <2>2. CASE DrawConfig
    BY <2>2 DEF DrawConfig, PollKey
  <2>3. CASE DrawNothing \/ DrawMods
    BY <2>3 DEF DrawNothing, DrawMods
  <2>4. QED
    BY <2>1, <2>2, <2>3 DEF Frame
<1>4. unloaded' \in SUBSET Folders /\ lastCount' \in 0..NeverListed
  <2>1. Cardinality(modules) \in 0..NeverListed
    BY FoldersAssumption, FS_CardinalityType, FS_Subset DEF NeverListed
  <2>2. CASE UNCHANGED list
    BY <2>2 DEF list
  <2>3. CASE DrawMods
    BY <2>1, <2>3 DEF DrawMods, list
  <2>4. QED
    BY <2>2, <2>3 DEF Frame
<1>5. QED
  BY <1>1, <1>2, <1>3, <1>4

LEMMA TypesStep == WindowTypeOK /\ Loading /\ [MCNext]_mcVars => WindowTypeOK' /\ Loading'
<1>. SUFFICES ASSUME WindowTypeOK, Loading, [MCNext]_mcVars PROVE WindowTypeOK' /\ Loading'
  OBVIOUS
<1>1. CASE Managing
  <2>1. Next /\ UNCHANGED <<view, pick, folders, list>> /\ modules' \in SUBSET Folders
    BY <1>1 DEF Managing, ManagerStep, LoadModules, WindowTypeOK
  <2>2. TypeOK' /\ Loading'
    BY <2>1, ManagerTypes DEF WindowTypeOK
  <2>3. QED
    BY <2>1, <2>2 DEF WindowTypeOK, view, pick, list
<1>2. CASE Framing
  <2>1. Frame /\ UNCHANGED vars
    BY <1>2 DEF Framing, Frame
  <2>2. QED
    BY <2>1, FrameTypes DEF Loading, vars, engine
<1>3. CASE UNCHANGED vars /\ ~Framing
  <2>1. TypeOK' /\ Loading'
    BY <1>3 DEF TypeOK, Loading, WindowTypeOK, vars, engine, manager
  <2>2. ASSUME NEW k \in Keys, Pressing(k) PROVE WindowTypeOK'
    BY <2>1, <2>2 DEF Pressing, Press, WindowTypeOK, view, list
  <2>3. ASSUME NEW f \in Folders, MoveFolder(f) PROVE WindowTypeOK'
    BY <2>1, <2>3 DEF MoveFolder, WindowTypeOK, view, list, pick
  <2>4. CASE UNCHANGED windowVars
    BY <2>1, <2>4 DEF WindowTypeOK, windowVars, view, list, pick
  <2>5. QED
    BY <1>3, <2>1, <2>2, <2>3, <2>4, <1>1 DEF MCNext, mcVars
<1>4. QED
  BY <1>1, <1>2, <1>3 DEF MCNext, mcVars, Pressing, Press, MoveFolder, EditList

\* The manager, the window and the picker keep to their types; the toggle key is
\* never a mouse button or Escape, so the overlay can always be opened with it.
THEOREM WindowTypes == MCSpec => []WindowTypeOK
BY TypesInit, TypesStep, PTL DEF MCSpec

--------------------------------------------------------------------------------
(* The sandbox *)

\* How often a state has been wrapped, and the player's list.
SandboxInv ==
  /\ opened \in 0..MaxStates /\ game \in 0..opened /\ open \subseteq 1..opened
  /\ SandboxTypeOK
  /\ \A s \in States : s \in rom <=> wrapped[s] # 0
  /\ \A s \in States \ remade : wrapped[s] <= 1

LEMMA SandboxInvInit == MCInit => SandboxInv
<1>. SUFFICES ASSUME MCInit PROVE SandboxInv
  OBVIOUS
<1>1. /\ opened = 0 /\ game = 0 /\ open = {} /\ rom = {} /\ listed = {}
      /\ wrapped = [s \in States |-> 0]
  BY DEF MCInit, WindowInit, Init, SandboxInit, NoState
<1>2. QED
  BY <1>1, BoundAssumption, WrappedAssumption DEF SandboxInv, SandboxTypeOK, States

\* The global of a state appears when a manager is made for it, and then only.
LEMMA RomStep ==
  ASSUME Next
  PROVE  rom' = IF Makes THEN rom \cup {game} ELSE rom
<1>. USE DEF Makes
<1>1. CASE DetourInit
  BY <1>1 DEF DetourInit, InitManager, InitLuaApi, manager
<1>2. CASE Update
  <2>1. pc = "idle" /\ pc' = "idle" /\ ticked' # ticked
    BY <1>2 DEF Update
  <2>2. CASE valid
    BY <1>2, <2>1, <2>2 DEF Update, manager
  <2>3. CASE ~valid
    BY <1>2, <2>1, <2>3 DEF Update, InitManager, InitLuaApi, manager
  <2>4. QED
    BY <2>2, <2>3
<1>3. CASE InstallHook \/ GameOpens \/ EngineOpensOther \/ GameAbandons \/ LoadMain \/ MainBody
           \/ RegisterIgnores \/ CloseDetour \/ CloseOriginal
  BY <1>3 DEF InstallHook, GameOpens, EngineOpensOther, GameAbandons, LoadMain, MainBody,
     RegisterIgnores, CloseDetour, Shutdown, CloseOriginal, manager
<1>4. ASSUME NEW s \in open, BeginClose(s) PROVE rom' = rom /\ ~Makes
  BY <1>4 DEF BeginClose, manager
<1>5. QED
  BY <1>1, <1>2, <1>3, <1>4 DEF Next

LEMMA GameStep ==
  ASSUME opened \in 0..MaxStates, game \in 0..opened, open \subseteq 1..opened, Next
  PROVE  opened' \in 0..MaxStates /\ game' \in 0..opened' /\ open' \subseteq 1..opened'
<1>. USE BoundAssumption
<1>1. CASE GameOpens \/ EngineOpensOther \/ GameAbandons
  <2>1. /\ opened < MaxStates /\ opened' = opened + 1 /\ game' \in {game, opened + 1}
        /\ open' \subseteq open \cup {opened + 1}
    BY <1>1 DEF GameOpens, EngineOpensOther, GameAbandons
  <2>2. open' \subseteq 1..opened'
    BY <2>1
  <2>3. QED
    BY <2>1, <2>2
<1>2. CASE CloseOriginal
  <2>1. opened' = opened /\ game' \in {game, 0} /\ open' \subseteq open
    BY <1>2 DEF CloseOriginal, NoState
  <2>2. QED
    BY <2>1
<1>3. CASE InstallHook \/ LoadMain \/ DetourInit \/ MainBody \/ RegisterIgnores \/ Update
           \/ CloseDetour
  BY <1>3 DEF InstallHook, LoadMain, DetourInit, MainBody, RegisterIgnores, Update, CloseDetour, engine
<1>4. ASSUME NEW s \in open, BeginClose(s) PROVE UNCHANGED <<opened, game, open>>
  BY <1>4 DEF BeginClose, engine
<1>5. QED
  BY <1>1, <1>2, <1>3, <1>4 DEF Next

LEMMA SandboxInvStep == SandboxInv /\ [MCNext]_mcVars => SandboxInv'
<1>. SUFFICES ASSUME SandboxInv, [MCNext]_mcVars PROVE SandboxInv'
  OBVIOUS
<1>. USE DEF SandboxInv, SandboxTypeOK
<1>1. CASE UNCHANGED mcVars
  BY <1>1 DEF mcVars, vars, sandboxVars, history, engine, manager, States
<1>2. CASE MCNext
  <2>1. remade' = IF Makes /\ game \in rom THEN remade \cup {game} ELSE remade
    BY <1>2 DEF MCNext
  <2>2. ASSUME UNCHANGED <<vars, wrapped>>, listed' \subseteq Plugins PROVE SandboxInv'
    <3>1. ~Makes /\ UNCHANGED <<opened, game, open, rom, wrapped>>
      BY <2>2 DEF vars, Makes, engine, manager
    <3>2. QED
      BY <2>1, <2>2, <3>1 DEF States
  <2>3. CASE Managing
    <3>1. Next /\ listed' = listed /\ WrapWhenMade(Makes)
      BY <2>3 DEF Managing, ManagerStep
    <3>2. rom' = IF Makes THEN rom \cup {game} ELSE rom
      BY <3>1, RomStep
    <3>3. opened' \in 0..MaxStates /\ game' \in 0..opened' /\ open' \subseteq 1..opened'
      BY <3>1, GameStep
    <3>4. CASE Makes
      <4>1. game \in States
        BY <3>4, BoundAssumption DEF Makes, CanInit, NoState, States
      <4>2. wrapped' = [wrapped EXCEPT ![game] = IF @ = MaxWrapped THEN @ ELSE @ + 1]
        BY <3>1, <3>4 DEF WrapWhenMade, Wrap
      <4>3. wrapped' \in [States -> 0..MaxWrapped] /\ wrapped'[game] # 0
        BY <4>1, <4>2, WrappedAssumption
      <4>4. ASSUME NEW s \in States
            PROVE  (s \in rom' <=> wrapped'[s] # 0) /\ (s \notin remade' => wrapped'[s] <= 1)
        <5>1. CASE s = game
          BY <2>1, <3>2, <3>4, <4>1, <4>2, <4>3, <5>1, WrappedAssumption
        <5>2. CASE s # game
          BY <2>1, <3>2, <3>4, <4>1, <4>2, <5>2
        <5>3. QED
          BY <5>1, <5>2
      <4>5. QED
        BY <3>1, <3>3, <4>3, <4>4 DEF States
    <3>5. CASE ~Makes
      BY <2>1, <3>1, <3>2, <3>3, <3>5 DEF WrapWhenMade, States
    <3>6. QED
      BY <3>4, <3>5
  <2>4. ASSUME NEW k \in Keys, Pressing(k) PROVE SandboxInv'
    BY <2>2, <2>4 DEF Pressing, Press, sandboxVars
  <2>5. CASE Framing
    BY <2>2, <2>5 DEF Framing, Frame, sandboxVars
  <2>6. ASSUME NEW f \in Folders, MoveFolder(f), UNCHANGED sandboxVars PROVE SandboxInv'
    BY <2>2, <2>6 DEF MoveFolder, sandboxVars
  <2>7. ASSUME NEW p \in Plugins, EditList(p) PROVE SandboxInv'
    <3>1. listed' \subseteq Plugins
      BY <2>7 DEF EditList
    <3>2. QED
      BY <2>2, <2>7, <3>1 DEF EditList
  <2>8. QED
    BY <1>2, <2>3, <2>4, <2>5, <2>6, <2>7 DEF MCNext
<1>3. QED
  BY <1>1, <1>2

\* For any number of states, however the manager is made and the list edited: the
\* sandbox of every state that has the loader's libraries follows the list.
THEOREM SandboxFollows == MCSpec => []SandboxFollowsList
<1>1. SandboxInv => SandboxFollowsList
  <2>. SUFFICES ASSUME SandboxInv, NEW s \in open \cap rom, NEW c \in Call
                PROVE  /\ Runs(s, c) => c.mod \in listed
                       /\ c.mod \in listed /\ c.direct /\ c.slashes = "forward" /\ s \notin remade
                            => Runs(s, c)
    BY DEF SandboxFollowsList
  <2>. USE DEF SandboxInv, SandboxTypeOK, Runs, Guid
  <2>1. s \in States
    BY BoundAssumption DEF States
  <2>2. wrapped[s] \in 1..MaxWrapped
    BY <2>1, WrappedAssumption
  <2>3. c.mod \in Plugins /\ NoMod \notin listed
    BY PluginsAssumption DEF Call
  <2>4. QED
    BY <2>1, <2>2, <2>3
<1>2. QED
  BY <1>1, SandboxInvInit, SandboxInvStep, PTL DEF MCSpec

--------------------------------------------------------------------------------
(* The key picker *)

\* While the picker is looked at, only mouse buttons are left from before.
PickInv == rebinding /\ ~left => down \subseteq fresh \cup MouseButtons

LEMMA PickInvInit == MCInit => PickInv
BY DEF MCInit, WindowInit, PickInv

\* A frame that goes on picking was drawn with nothing but mouse buttons down, or
\* has just discarded what was.
LEMMA PickingFrame ==
  ASSUME Frame, rebinding'
  PROVE  down' = {} \/ (rebinding /\ (EntryDrawn => down' \subseteq MouseButtons))
<1>1. CASE ClickPick
  BY <1>1 DEF ClickPick, Flush
<1>2. CASE ClickReset
  BY <1>2 DEF ClickReset
<1>3. CASE DrawConfig
  <2>1. CASE ~rebinding
    BY <1>3, <2>1 DEF DrawConfig
  <2>2. CASE rebinding
    BY <1>3, <2>2 DEF DrawConfig, PollKey, Pressed
  <2>3. QED
    BY <2>1, <2>2
<1>4. CASE DrawNothing \/ DrawMods
  BY <1>4 DEF DrawNothing, DrawMods, Drawn, EntryDrawn
<1>5. QED
  BY <1>1, <1>2, <1>3, <1>4 DEF Frame

LEMMA PickInvStep == PickInv /\ [MCNext]_mcVars => PickInv'
<1>. SUFFICES ASSUME PickInv, [MCNext]_mcVars, rebinding', ~left'
              PROVE  down' \subseteq fresh' \cup MouseButtons
  BY DEF PickInv
<1>. USE DEF PickInv
<1>1. CASE Framing
  <2>1. Frame /\ left' = (rebinding' /\ (left \/ (rebinding /\ ~EntryDrawn)))
    BY <1>1 DEF Framing
  <2>2. QED
    BY <2>1, PickingFrame
<1>2. ASSUME NEW k \in Keys, Pressing(k) PROVE down' \subseteq fresh' \cup MouseButtons
  BY <1>2 DEF Pressing, Press
<1>3. CASE Managing
  BY <1>3 DEF Managing, ManagerStep, pick
<1>4. ASSUME NEW f \in Folders, MoveFolder(f), UNCHANGED <<sandboxVars, fresh, left, sameCount>>
      PROVE  down' \subseteq fresh' \cup MouseButtons
  BY <1>4 DEF MoveFolder, pick
<1>5. CASE UNCHANGED <<windowVars, fresh, left, built, sameCount>> \/ UNCHANGED mcVars
  BY <1>5 DEF mcVars, windowVars, pick, history
<1>6. QED
  BY <1>1, <1>2, <1>3, <1>4, <1>5 DEF MCNext

\* A key a frame takes is one that was down in it, and no mouse button.
LEMMA TakenKey ==
  ASSUME Frame, toggleKey' \notin {toggleKey, Insert}
  PROVE  rebinding /\ toggleKey' \in down \ MouseButtons
<1>1. CASE DrawConfig
  BY <1>1 DEF DrawConfig, PollKey, FirstKey, Pressed, Asked
<1>2. CASE ClickPick \/ ClickReset \/ DrawNothing \/ DrawMods
  BY <1>2 DEF ClickPick, ClickReset, DrawNothing, DrawMods
<1>3. QED
  BY <1>1, <1>2 DEF Frame

\* Whatever the keyboard and however long the player takes: while every frame draws
\* the picker that waits for a key, what was pressed before it asked, or clicked,
\* never becomes the toggle key.
THEOREM PickedKeyFresh == MCSpec => PickedKeyIsFresh
<1>1. PickInv /\ [MCNext]_mcVars =>
        [toggleKey' \notin {toggleKey, Insert} => left \/ toggleKey' \in fresh \ MouseButtons]_mcVars
  <2>. SUFFICES ASSUME PickInv, MCNext, toggleKey' \notin {toggleKey, Insert}, ~left
                PROVE  toggleKey' \in fresh \ MouseButtons
    OBVIOUS
  <2>1. CASE Framing
    BY <2>1, TakenKey DEF Framing, PickInv
  <2>2. CASE ~Framing
    BY <2>2 DEF MCNext, Managing, ManagerStep, Pressing, Press, MoveFolder, windowVars, pick
  <2>3. QED
    BY <2>1, <2>2
<1>2. QED
  BY <1>1, PickInvInit, PickInvStep, PTL DEF MCSpec, PickedKeyIsFresh

--------------------------------------------------------------------------------
(* The list of mods that are not loaded *)

ListRight == unloaded \cap modules = {} /\ built \ modules \subseteq unloaded

\* A cached list that will be drawn as it is, is right.
ListInv ==
  /\ built \subseteq folders
  /\ sameCount \/ lastCount # Cardinality(modules) \/ ListRight

LEMMA ListInvInit == MCInit => ListInv
BY DEF MCInit, WindowInit, ListInv, ListRight

\* What a frame leaves of the list when no mod tab is drawn is what there was.
LEMMA ListFrame ==
  ASSUME Frame
  PROVE  UNCHANGED <<folders, modules>>
         /\ \/ UNCHANGED list /\ (Drawn("Mods") => ~ListAgain)
            \/ lastCount' = Cardinality(modules) /\ unloaded' = folders \ modules
<1>1. CASE DrawMods
  BY <1>1 DEF Frame, DrawMods
<1>2. CASE (ClickPick \/ ClickReset \/ DrawConfig \/ DrawNothing) /\ UNCHANGED list
  <2>1. ~Drawn("Mods")
    BY <1>2 DEF ClickPick, ClickReset, DrawConfig, DrawNothing, EntryDrawn, Drawn
  <2>2. QED
    BY <1>2, <2>1 DEF Frame
<1>3. QED
  BY <1>1, <1>2 DEF Frame

LEMMA ListInvStep == ListInv /\ [MCNext]_mcVars => ListInv'
<1>. SUFFICES ASSUME ListInv, [MCNext]_mcVars PROVE ListInv'
  OBVIOUS
<1>. USE DEF ListInv, ListRight
<1>1. CASE Framing
  <2>1. Frame /\ UNCHANGED built
        /\ sameCount' = (sameCount /\ unloaded' = unloaded /\ lastCount' = lastCount)
    BY <1>1 DEF Framing
  <2>2. UNCHANGED <<folders, modules>>
    BY <2>1, ListFrame
  <2>3. CASE UNCHANGED list
    BY <2>1, <2>2, <2>3 DEF list
  <2>4. CASE lastCount' = Cardinality(modules) /\ unloaded' = folders \ modules
    BY <2>1, <2>2, <2>4
  <2>5. QED
    BY <2>1, <2>3, <2>4, ListFrame
<1>2. CASE Managing
  <2>1. /\ UNCHANGED <<folders, lastCount, unloaded>>
        /\ built' = IF Makes THEN folders ELSE built
        /\ sameCount' = IF Makes THEN Cardinality(modules') = lastCount ELSE sameCount
        /\ Makes \/ UNCHANGED modules
    BY <1>2 DEF Managing, ManagerStep, LoadModules, list
  <2>2. CASE Makes
    BY <2>1, <2>2
  <2>3. CASE ~Makes
    BY <2>1, <2>3
  <2>4. QED
    BY <2>2, <2>3
<1>3. ASSUME NEW k \in Keys, Pressing(k) PROVE ListInv'
  BY <1>3 DEF Pressing, Press, list
<1>4. ASSUME NEW f \in Folders, MoveFolder(f), built' = built \ {f},
             UNCHANGED <<sandboxVars, fresh, left, sameCount>>
      PROVE  ListInv'
  <2>1. UNCHANGED <<modules, lastCount, unloaded, sameCount>>
        /\ folders' \in {folders \cup {f}, folders \ {f}}
    BY <1>4 DEF MoveFolder, list
  <2>2. QED
    BY <1>4, <2>1
<1>5. CASE UNCHANGED <<windowVars, fresh, left, built, sameCount>> \/ UNCHANGED mcVars
  BY <1>5 DEF mcVars, windowVars, list, history
<1>6. QED
  BY <1>1, <1>2, <1>3, <1>4, <1>5 DEF MCNext

\* However the manager is rebuilt and folders come and go: the cached list is right
\* when it is drawn, but for a manager made again with as many modules.
THEOREM UnloadedListed == MCSpec => UnloadedListRight
<1>1. ListInv /\ [MCNext]_mcVars =>
        [Frame /\ Drawn("Mods") /\ ~sameCount =>
           unloaded' \cap modules = {} /\ built \ modules \subseteq unloaded']_mcVars
  <2>. SUFFICES ASSUME ListInv, Frame, Drawn("Mods"), ~sameCount
                PROVE  unloaded' \cap modules = {} /\ built \ modules \subseteq unloaded'
    OBVIOUS
  <2>1. CASE UNCHANGED list
    <3>1. lastCount = Cardinality(modules) /\ unloaded' = unloaded
      BY <2>1, ListFrame DEF ListAgain, list
    <3>2. QED
      BY <3>1 DEF ListInv, ListRight
  <2>2. CASE unloaded' = folders \ modules
    BY <2>2 DEF ListInv
  <2>3. QED
    BY <2>1, <2>2, ListFrame
<1>2. QED
  BY <1>1, ListInvInit, ListInvStep, PTL DEF MCSpec, UnloadedListRight

--------------------------------------------------------------------------------
(* The queue of the script thread (TaskQueue), which shares no variable with    *)
(* the manager, for any tasks and any number of posting threads.                *)

\* What the mutex guarantees: its owner is inside one of the two sections, and
\* while a thread pushes nobody has touched the vector it read.
MutexInv ==
  /\ \A p \in Threads : post[p] = "push" => lock = p /\ seen[p] = tasks
  /\ \A p \in Threads : post[p] # "no" => want[p] \in Tasks
  /\ script = "swap" => lock = Script
  /\ lock = Script => script = "swap" \/ post[Script] = "push"
  /\ script # "body" => post[Script] = "no"
  /\ script = "drain" => batch # <<>>

QInv == QueueTypeOK /\ MutexInv

LEMMA QInvInit == QueueInit => QInv
<1>. SUFFICES ASSUME QueueInit PROVE QInv
  OBVIOUS
<1>1. QueueTypeOK
  BY DEF QueueInit, QueueTypeOK
<1>2. MutexInv
  BY NamesAssumption DEF QueueInit, MutexInv, Threads
<1>3. QED
  BY <1>1, <1>2 DEF QInv

LEMMA ConcatTail ==
  ASSUME NEW s \in Seq(Tasks), NEW t \in Seq(Tasks), s # <<>>
  PROVE  s \o t # <<>> /\ Head(s \o t) = Head(s) /\ Tail(s \o t) = Tail(s) \o t
<1>1. /\ s \o t \in Seq(Tasks) /\ Tail(s) \in Seq(Tasks) /\ Len(s) \in Nat \ {0}
      /\ Len(t) \in Nat
  BY ConcatProperties, HeadTailProperties, EmptySeq, LenProperties
<1>2. Len(s \o t) = Len(s) + Len(t) /\ s \o t # <<>>
  BY <1>1, ConcatProperties, ConcatEqualIffEmpty
<1>3. Head(s \o t) = Head(s)
  BY <1>1, <1>2, ConcatProperties
<1>4. /\ Tail(s \o t) \in Seq(Tasks) /\ Tail(s) \o t \in Seq(Tasks)
      /\ Len(Tail(s \o t)) = Len(s) + Len(t) - 1
      /\ Len(Tail(s) \o t) = Len(s) + Len(t) - 1
      /\ Len(Tail(s)) = Len(s) - 1
  BY <1>1, <1>2, ConcatProperties, HeadTailProperties
<1>5. ASSUME NEW i \in 1 .. Len(s) + Len(t) - 1
      PROVE  Tail(s \o t)[i] = (Tail(s) \o t)[i]
  <2>1. Tail(s \o t)[i] = (s \o t)[i + 1]
    BY <1>1, <1>2, <1>4, HeadTailProperties
  <2>2. (s \o t)[i + 1] = IF i + 1 <= Len(s) THEN s[i + 1] ELSE t[i + 1 - Len(s)]
    BY <1>1, ConcatProperties
  <2>3. (Tail(s) \o t)[i] = IF i <= Len(s) - 1 THEN Tail(s)[i] ELSE t[i - (Len(s) - 1)]
    BY <1>1, <1>4, ConcatProperties
  <2>4. CASE i <= Len(s) - 1
    <3>1. Tail(s)[i] = s[i + 1]
      BY <1>1, <1>4, <2>4, HeadTailProperties
    <3>2. QED
      BY <1>1, <2>1, <2>2, <2>3, <2>4, <3>1
  <2>5. CASE ~(i <= Len(s) - 1)
    <3>1. i + 1 - Len(s) = i - (Len(s) - 1) /\ ~(i + 1 <= Len(s))
      BY <1>1, <2>5
    <3>2. QED
      BY <2>1, <2>2, <2>3, <2>5, <3>1
  <2>6. QED
    BY <2>4, <2>5
<1>6. Tail(s \o t) = Tail(s) \o t
  BY <1>4, <1>5, SeqEqual
<1>7. QED
  BY <1>2, <1>3, <1>6

LEMMA ConcatAppend ==
  ASSUME NEW s \in Seq(Tasks), NEW t \in Seq(Tasks), NEW e \in Tasks
  PROVE  s \o Append(t, e) = Append(s \o t, e)
<1>1. <<e>> \in Seq(Tasks) /\ s \o t \in Seq(Tasks)
  BY ConcatProperties
<1>2. s \o Append(t, e) = s \o (t \o <<e>>)
  BY AppendIsConcat
<1>3. Append(s \o t, e) = (s \o t) \o <<e>>
  BY <1>1, AppendIsConcat
<1>4. QED
  BY <1>1, <1>2, <1>3, ConcatAssociative

LEMMA QInvStep == QInv /\ [QueueNext]_queueVars => QInv'
<1>. SUFFICES ASSUME QInv, [QueueNext]_queueVars PROVE QInv'
  OBVIOUS
<1>. USE NamesAssumption DEF QInv, QueueTypeOK, MutexInv, poster
<1>0. Script \in Threads /\ NoThread \notin Threads
  BY DEF Threads
<1>. USE <1>0
<1>1. ASSUME NEW p \in Threads, NEW t \in Tasks, CallPost(p, t) PROVE QInv'
  BY <1>1 DEF CallPost
<1>2. ASSUME NEW p \in Threads, LockPost(p) PROVE QInv'
  BY <1>2 DEF LockPost
<1>3. ASSUME NEW p \in Threads, Push(p) PROVE QInv'
  <2>1. lock = p /\ seen[p] = tasks /\ want[p] \in Tasks
    BY <1>3 DEF Push
  <2>2. tasks' \in Seq(Tasks)
    BY <1>3, <2>1, AppendProperties DEF Push
  <2>3. QueueTypeOK'
    BY <1>3, <2>2 DEF Push
  <2>4. \A q \in Threads : post'[q] # "push"
    BY <1>3, <2>1 DEF Push
  <2>5. MutexInv'
    BY <1>3, <2>1, <2>4 DEF Push
  <2>6. QED
    BY <2>3, <2>5
<1>4. CASE LockDrain
  BY <1>4 DEF LockDrain
<1>5. CASE Swap
  BY <1>5 DEF Swap
<1>6. CASE StartTask
  <2>1. ran' \in Seq(Tasks) /\ batch' \in Seq(Tasks)
    BY <1>6, HeadTailProperties, AppendProperties DEF StartTask
  <2>2. QueueTypeOK'
    BY <1>6, <2>1 DEF StartTask
  <2>3. MutexInv'
    BY <1>6 DEF StartTask
  <2>4. QED
    BY <2>2, <2>3
<1>7. CASE EndTask
  BY <1>7 DEF EndTask
<1>8. CASE UNCHANGED queueVars
  BY <1>8 DEF queueVars
<1>9. QED
  BY <1>1, <1>2, <1>3, <1>4, <1>5, <1>6, <1>7, <1>8 DEF QueueNext

\* Every variable keeps its type, whatever the threads do.
THEOREM QueueTypes == QueueSpec => []QueueTypeOK
<1>1. QInv => QueueTypeOK
  BY DEF QInv
<1>2. QED
  BY <1>1, QInvInit, QInvStep, PTL DEF QueueSpec

\* run_pending_tasks never waits, from inside a task, for the mutex it holds.
THEOREM NoSelfDeadlock == QueueSpec => []NeverWaitsForItself
<1>1. QInv => NeverWaitsForItself
  <2>. SUFFICES ASSUME QInv, lock = Script, post[Script] = "wait" PROVE FALSE
    BY DEF NeverWaitsForItself
  <2>1. QED
    BY DEF QInv, MutexInv
<1>2. QED
  BY <1>1, QInvInit, QInvStep, PTL DEF QueueSpec

\* The mutex, the vector, the swap and the loop implement the queue of TaskFifo.
THEOREM ImplementsFifo == QueueSpec => Fifo!Safety
<1>1. QueueInit => Fifo!Init
  BY DEF QueueInit, Fifo!Init
<1>2. QInv /\ [QueueNext]_queueVars => [Fifo!Next]_(Fifo!vars)
  <2>. SUFFICES ASSUME QInv, [QueueNext]_queueVars PROVE [Fifo!Next]_(Fifo!vars)
    OBVIOUS
  <2>. USE DEF Fifo!Next, Fifo!vars
  <2>0. tasks \in Seq(Tasks) /\ batch \in Seq(Tasks)
    BY DEF QInv, QueueTypeOK
  <2>1. ASSUME NEW p \in Threads, Push(p) PROVE [Fifo!Next]_(Fifo!vars)
    <3>1. want[p] \in Tasks /\ tasks' = Append(tasks, want[p])
      BY <2>1 DEF Push, QInv, MutexInv
    <3>2. batch' \o tasks' = Append(batch \o tasks, want[p])
      BY <2>0, <2>1, <3>1, ConcatAppend DEF Push
    <3>3. Fifo!Post(want[p])
      BY <2>1, <3>2 DEF Push, Fifo!Post
    <3>4. QED
      BY <3>1, <3>3
  <2>2. CASE StartTask
    <3>1. batch # <<>>
      BY <2>2 DEF StartTask, QInv, MutexInv
    <3>2. Fifo!Run
      BY <2>0, <2>2, <3>1, ConcatTail DEF StartTask, poster, Fifo!Run
    <3>3. QED
      BY <3>2
  <2>3. CASE Swap
    <3>1. batch = <<>>
      BY <2>3 DEF Swap, QInv, QueueTypeOK
    <3>2. batch' \o tasks' = batch \o tasks
      BY <2>0, <2>3, <3>1, ConcatEmptySeq DEF Swap
    <3>3. QED
      BY <2>3, <3>2 DEF Swap
  <2>4. ASSUME NEW p \in Threads,
               LockPost(p) \/ \E t \in Tasks : CallPost(p, t)
        PROVE  [Fifo!Next]_(Fifo!vars)
    BY <2>4 DEF LockPost, CallPost
  <2>5. CASE LockDrain \/ EndTask \/ UNCHANGED queueVars
    BY <2>5 DEF LockDrain, EndTask, queueVars
  <2>6. QED
    BY <2>1, <2>2, <2>3, <2>4, <2>5 DEF QueueNext
<1>3. QED
  BY <1>1, <1>2, QInvInit, QInvStep, PTL DEF QueueSpec, Fifo!Safety
================================================================================
