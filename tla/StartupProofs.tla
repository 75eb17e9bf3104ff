------------------------------ MODULE StartupProofs ----------------------------
(* Proofs about Startup with lovely's patches: the text of every compile is     *)
(* owned by exactly one side (LovelyPatches), and a call of an export lands on  *)
(* the system's own (MCStartup, for its variable raced).                        *)
EXTENDS MCStartup, SequenceTheorems, TLAPS

--------------------------------------------------------------------------------
(* lovely's buffers *)

\* late_init before the patch table is read.
Early == {"unborn", "settings", "renderer", "logger", "lovely"}

\* Past lovely::init there is a table, and so there is behind the hook.
TableFirst ==
  /\ late \in Early \/ table # "unread"
  /\ hooked["loadbufferx"] # 0 => table # "unread"

\* What one thread's patched_buffer holds at each place of the detour.
Buffer(t) ==
  /\ step[t] # "no" => table # "unread"
  /\ step[t] \in {"no", "patch"} => heap[t] = {} /\ ~owns[t]
  /\ step[t] \in {"compile", "release"} =>
       IF owns[t] THEN text[t] = "patched" /\ heap[t] = {"result", "patched"}
                  ELSE text[t] = "game" /\ heap[t] \subseteq {"result"}

LovelyTypeOK ==
  /\ step \in [Games -> {"no", "patch", "compile", "release"}]
  /\ text \in [Games -> {"game", "patched"}]
  /\ owns \in [Games -> BOOLEAN]
  /\ heap \in [Games -> SUBSET {"result", "patched"}]

LovelyInv ==
  /\ LovelyTypeOK
  /\ TableFirst
  /\ \A t \in Games : Buffer(t)
  /\ ~misfreed

LEMMA LovelyInvInit == LovelyInit => LovelyInv
<1>. SUFFICES ASSUME LovelyInit PROVE LovelyInv
  OBVIOUS
<1>1. "loadbufferx" \in Hooks
  BY DEF Hooks, ScriptHooks
<1>2. TableFirst
  BY <1>1 DEF LovelyInit, Init, TableFirst, Early
<1>3. QED
  BY <1>2 DEF LovelyInit, LovelyInv, LovelyTypeOK, Buffer

\* A step of Startup: the hooks change in late_init only, at a place of it where
\* the table is there; leaving "lovely" makes one.
LEMMA TableFirstStep ==
  LovelyInv /\ Next /\ ReadTable => TableFirst' /\ (table # "unread" => table' # "unread")
<1>. SUFFICES ASSUME LovelyInv, Next, ReadTable
              PROVE TableFirst' /\ (table # "unread" => table' # "unread")
  OBVIOUS
<1>. USE DEF LovelyInv, TableFirst, Early, ReadTable
<1>1. CASE DllMain \/ ProxyInit \/ RomEnabled
  BY <1>1 DEF DllMain, ProxyInit, RomEnabled, loader
<1>2. CASE CreateLateThread
  BY <1>2 DEF CreateLateThread, loader
<1>3. ASSUME NEW t \in Games, Game(t) PROVE TableFirst' /\ (table # "unread" => table' # "unread")
  BY <1>3 DEF Game, Call, SetPA, RunASM, Return, CreateSwapChain, loader
<1>4. CASE InitLua \/ AudioUpdate
  BY <1>4 DEF InitLua, AudioUpdate, loader
<1>5. CASE Late
  <2>1. CASE Settings \/ InitRenderer \/ Logger
    BY <2>1 DEF Settings, InitRenderer, Logger, LateStep, LateMoves, loader
  <2>2. CASE Lovely
    BY <2>2 DEF Lovely, LateStep, LateMoves, loader
  <2>3. CASE AwaitEngine \/ OpenPdb \/ PdbRead \/ HooksDone \/ Focus
    BY <2>3 DEF AwaitEngine, OpenPdb, PdbRead, HooksDone, Focus, LateStep, LateMoves, loader
  <2>4. CASE ReadRecord \/ Resolve
    BY <2>4 DEF ReadRecord, Resolve
  <2>5. CASE ApplyOptions \/ HookAudio
    BY <2>5 DEF ApplyOptions, HookAudio, loader
  <2>6. CASE InstallHook
    BY <2>6 DEF InstallHook
  <2>7. QED
    BY <1>5, <2>1, <2>2, <2>3, <2>4, <2>5, <2>6 DEF Late
<1>6. QED
  BY <1>1, <1>2, <1>3, <1>4, <1>5 DEF Next

\* A step of the detour touches the buffer of its own thread alone.
LEMMA DetourStep ==
  ASSUME LovelyInv, NEW t \in Games, BeginCompile(t) \/ Patch(t) \/ Compile(t) \/ Release(t)
  PROVE LovelyInv'
<1>. USE DEF LovelyInv, LovelyTypeOK, TableFirst, Buffer
<1>1. UNCHANGED vars /\ UNCHANGED table
  BY DEF BeginCompile, Patch, Compile, Release
<1>2. TableFirst'
  BY <1>1 DEF vars, loader
<1>3. CASE BeginCompile(t)
  BY <1>1, <1>2, <1>3 DEF BeginCompile
<1>4. CASE Patch(t)
  <2>1. PICK status \in Statuses :
          /\ heap' = [heap EXCEPT ![t] = IF status = "nothing" THEN {}
                        ELSE IF status = "ok" THEN {"result", "patched"} ELSE {"result"}]
          /\ text' = [text EXCEPT ![t] = IF status = "ok" THEN "patched" ELSE "game"]
          /\ owns' = [owns EXCEPT ![t] = status = "ok"]
    BY <1>4 DEF Patch, Owned, Statuses
  <2>2. step[t] = "patch" /\ step' = [step EXCEPT ![t] = "compile"] /\ UNCHANGED misfreed
    BY <1>4 DEF Patch
  <2>3. LovelyTypeOK'
    BY <2>1, <2>2
  <2>4. ASSUME NEW u \in Games PROVE Buffer(u)'
    BY <1>1, <2>1, <2>2, <2>4
  <2>5. QED
    BY <1>1, <1>2, <2>2, <2>3, <2>4
<1>5. CASE Compile(t)
  BY <1>1, <1>2, <1>5 DEF Compile
<1>6. CASE Release(t)
  <2>1. LovelyTypeOK'
    BY <1>6 DEF Release
  <2>2. ~misfreed'
    BY <1>6 DEF Release
  <2>3. ASSUME NEW u \in Games PROVE Buffer(u)'
    BY <1>1, <1>6, <2>3 DEF Release
  <2>4. QED
    BY <1>2, <2>1, <2>2, <2>3
<1>7. QED
  BY <1>3, <1>4, <1>5, <1>6

LEMMA LovelyInvStep == LovelyInv /\ [LovelyNext]_<<vars, lovelyVars>> => LovelyInv'
<1>. SUFFICES ASSUME LovelyInv, [LovelyNext]_<<vars, lovelyVars>> PROVE LovelyInv'
  OBVIOUS
<1>1. CASE Next /\ ReadTable /\ UNCHANGED <<step, text, owns, heap, misfreed>>
  BY <1>1, TableFirstStep DEF LovelyInv, LovelyTypeOK, Buffer
<1>2. ASSUME NEW t \in Games, BeginCompile(t) \/ Patch(t) \/ Compile(t) \/ Release(t)
      PROVE LovelyInv'
  BY <1>2, DetourStep
<1>3. CASE UNCHANGED <<vars, lovelyVars>>
  BY <1>3 DEF LovelyInv, LovelyTypeOK, TableFirst, Buffer, vars, lovelyVars, loader
<1>4. QED
  BY <1>1, <1>2, <1>3 DEF LovelyNext

\* However the threads of the game compile while the loader comes up, and whatever
\* lovely answers, the patches are read before a script meets them and each text
\* is released once, by its owner.
THEOREM LovelyOwnsItsText == LovelySpec => []PatchesOwned
<1>1. LovelyInv => PatchesOwned
  BY DEF LovelyInv, LovelyTypeOK, Buffer, PatchesOwned
<1>2. QED
  BY <1>1, LovelyInvInit, LovelyInvStep, PTL DEF LovelySpec

--------------------------------------------------------------------------------
(* The stubs *)

Home(e) == IF system /\ e \in Provided THEN e ELSE Null
Loaded  == original = [e \in Exports |-> Home(e)]

\* The originals are loaded by the first DllMain, before it returns to the game.
OriginalsFirst ==
  /\ attaches \in Nat /\ executed \in BOOLEAN
  /\ attaches > 0 => executed
  /\ main = "proxy" => executed /\ \A t \in Games : at[t] = "out"
  /\ main \in {"enabled", "thread"} => executed
  /\ executed /\ main # "proxy" => Loaded

\* Where a thread is in a stub; PA is its own while it is the last to have set it.
InStub(t) ==
  /\ at[t] # "out" => executed /\ main # "proxy" /\ call[t] \in Exports
  /\ ~raced /\ at[t] = "jump" => PA = original[call[t]]
  /\ ~raced /\ at[t] = "landed" => landed[t] = original[call[t]]

StubInv ==
  /\ at \in [Games -> {"out", "stub", "jump", "landed"}]
  /\ DOMAIN call = Games /\ DOMAIN landed = Games
  /\ raced \in BOOLEAN
  /\ OriginalsFirst
  /\ \A t \in Games : InStub(t)

LEMMA StubInvInit == MCInit => StubInv
<1>. SUFFICES ASSUME MCInit PROVE StubInv
  OBVIOUS
<1>1. /\ attaches = 0 /\ main = "out" /\ executed = FALSE /\ raced = FALSE
      /\ at = [t \in Games |-> "out"]
      /\ call = [t \in Games |-> Null] /\ landed = [t \in Games |-> Null]
  BY DEF MCInit, LovelyInit, Init
<1>2. OriginalsFirst
  <2>1. attaches \in Nat /\ ~(attaches > 0)
    BY <1>1
  <2>2. main = "out" /\ main # "proxy" /\ main \notin {"enabled", "thread"}
    BY <1>1
  <2>3. QED
    BY <1>1, <2>1, <2>2, Zenon DEF OriginalsFirst
<1>3. at \in [Games -> {"out", "stub", "jump", "landed"}]
  BY <1>1
<1>4. ASSUME NEW t \in Games PROVE InStub(t)
  BY <1>1, <1>4 DEF InStub
<1>5. QED
  BY <1>1, <1>2, <1>3, <1>4 DEF StubInv

\* Everything but DllMain and the threads in the stubs leaves what StubInv is
\* about alone.
LEMMA ElsewhereStep ==
  ASSUME UNCHANGED <<attaches, executed, system, original, PA, at, call, landed>>,
         main' = main \/ (main = "enabled" /\ main' \in {"out", "thread"})
                      \/ (main = "thread" /\ main' = "out"),
         raced' = raced, StubInv
  PROVE  StubInv'
BY DEF StubInv, OriginalsFirst, InStub, Loaded, Home

\* DllMain and dll_proxy::init.
LEMMA AttachStep ==
  ASSUME StubInv, DllMain \/ ProxyInit, raced' = raced
  PROVE  StubInv'
<1>. USE DEF StubInv, OriginalsFirst, InStub, Loaded, Home
<1>1. CASE DllMain
  <2>1. UNCHANGED <<system, original, PA, at, call, landed>>
    BY <1>1 DEF DllMain, proxy
  <2>2. CASE executed
    BY <1>1, <2>1, <2>2 DEF DllMain
  <2>3. CASE ~executed
    BY <1>1, <2>1, <2>3 DEF DllMain
  <2>4. QED
    BY <2>2, <2>3
<1>2. CASE ProxyInit
  <2>1. /\ UNCHANGED <<attaches, executed, system, PA, at, call, landed>>
        /\ main = "proxy" /\ main' = "enabled"
        /\ Loaded'
    BY <1>2 DEF ProxyInit, proxy
  <2>2. QED
    BY <2>1
<1>3. QED
  BY <1>1, <1>2

\* A thread in a stub: when it sets PA while another is about to jump, they race.
LEMMA StubStep ==
  ASSUME StubInv, NEW t \in Games, Game(t),
         raced' = (raced \/ \E u, v \in Games : u # v /\ at[u] = "jump" /\ at[v] = "stub" /\ at'[v] = "jump")
  PROVE  StubInv'
<1>. USE DEF StubInv, OriginalsFirst, InStub
<1>1. UNCHANGED boot
  BY DEF Game, Call, SetPA, RunASM, Return, CreateSwapChain
<1>2. raced => raced'
  OBVIOUS
<1>3. ASSUME NEW e \in Exports, Call(t, e) PROVE StubInv'
  <2>1. attaches > 0 /\ main = "out"
    BY <1>3 DEF Call
  <2>2. QED
    BY <1>1, <1>2, <1>3, <2>1 DEF Call, boot, Loaded, Home
<1>4. CASE SetPA(t)
  <2>1. ASSUME ~raced' PROVE \A u \in Games \ {t} : at[u] # "jump"
    BY <1>4, <2>1 DEF SetPA
  <2>2. QED
    BY <1>1, <1>2, <1>4, <2>1 DEF SetPA, boot, Loaded, Home
<1>5. CASE RunASM(t)
  BY <1>1, <1>2, <1>5 DEF RunASM, boot, Loaded, Home
<1>6. CASE Return(t)
  BY <1>1, <1>2, <1>6 DEF Return, boot, Loaded, Home
<1>7. CASE CreateSwapChain(t)
  BY <1>1, <1>2, <1>7 DEF CreateSwapChain, proxy, boot, Loaded, Home
<1>8. QED
  BY <1>3, <1>4, <1>5, <1>6, <1>7 DEF Game

LEMMA StubInvStep == StubInv /\ [MCNext]_mcVars => StubInv'
<1>. SUFFICES ASSUME StubInv, [MCNext]_mcVars PROVE StubInv'
  OBVIOUS
<1>0. ASSUME UNCHANGED <<boot, proxy>>, raced' = raced PROVE StubInv'
  BY <1>0, ElsewhereStep DEF boot, proxy
<1>1. CASE UNCHANGED mcVars
  BY <1>0, <1>1 DEF mcVars, vars
<1>2. CASE MCNext
  <2>1. raced' = (raced \/ \E t, u \in Games : t # u /\ at[t] = "jump" /\ at[u] = "stub" /\ at'[u] = "jump")
    BY <1>2 DEF MCNext
  <2>2. ASSUME at' = at PROVE raced' = raced
    BY <2>1, <2>2 DEF StubInv
  <2>3. CASE DllMain \/ ProxyInit
    BY <2>2, <2>3, AttachStep DEF DllMain, ProxyInit, proxy
  <2>4. CASE RomEnabled \/ CreateLateThread
    BY <2>2, <2>4, ElsewhereStep DEF RomEnabled, CreateLateThread, proxy
  <2>5. ASSUME NEW t \in Games, Game(t) PROVE StubInv'
    BY <2>1, <2>5, StubStep
  <2>6. CASE InitLua \/ AudioUpdate
    BY <1>0, <2>2, <2>6 DEF InitLua, AudioUpdate, proxy
  <2>7. CASE Late
    <3>1. UNCHANGED <<boot, proxy>>
      BY <2>7 DEF Late, Settings, InitRenderer, Logger, Lovely, AwaitEngine, OpenPdb, ReadRecord,
         PdbRead, Resolve, ApplyOptions, InstallHook, HooksDone, HookAudio, Focus, LateStep, LateMoves
    <3>2. QED
      BY <1>0, <2>2, <3>1 DEF proxy
  <2>8. ASSUME NEW t \in Games, BeginCompile(t) \/ Patch(t) \/ Compile(t) \/ Release(t)
        PROVE StubInv'
    <3>1. UNCHANGED <<boot, proxy>>
      BY <2>8 DEF BeginCompile, Patch, Compile, Release, vars
    <3>2. QED
      BY <1>0, <2>2, <3>1 DEF proxy
  <2>9. QED
    BY <1>2, <2>3, <2>4, <2>5, <2>6, <2>7, <2>8 DEF MCNext, LovelyNext, Next
<1>3. QED
  BY <1>1, <1>2

\* For any number of threads and any exports: a call that is not raced lands on
\* the system's own function of that name, whenever in the start it is made.
THEOREM CallsLandHome == MCSpec => []LandsHomeUnlessRaced
<1>1. StubInv => LandsHomeUnlessRaced
  BY DEF StubInv, OriginalsFirst, InStub, Loaded, Home, LandsHomeUnlessRaced
<1>2. QED
  BY <1>1, StubInvInit, StubInvStep, PTL DEF MCSpec

--------------------------------------------------------------------------------
(* The symbol map *)

\* What is still to read, in order.
Rest == unread[1] \o unread[2] \o unread[3]

ThreePasses(p) == /\ p = <<p[1], p[2], p[3]>>
                  /\ \A pass \in 1..3 : p[pass] \in Seq(Range(Records))

\* Some of the PDB is read, and the rest is not.
Reading ==
  /\ ThreePasses(unread)
  /\ Rest \in Seq(Range(Records))
  /\ Len(Rest) <= Len(Records)
  /\ \A i \in 1..Len(Rest) : Rest[i] = Records[Len(Records) - Len(Rest) + i]
ReadTo == Len(Records) - Len(Rest)

\* A symbol whose name has one part is the first record of that name so far.
FirstRead(name) ==
  IF name \in DOMAIN symbols
  THEN \E i \in 1..ReadTo : /\ i \in Named(name) /\ symbols[name] = Records[i].rva
                            /\ \A j \in 1..i - 1 : j \notin Named(name)
  ELSE \A i \in 1..ReadTo : i \notin Named(name)

\* The PDB as it was.
IsName(name) == name = <<name[1]>> \/ name = <<name[1], name[2]>>
PdbOK ==
  /\ Records \in Seq(Range(Records))
  /\ \A i \in DOMAIN Records : IsName(Records[i].name)

SymbolInv == PdbOK /\ Reading /\ \A h : FirstRead(<<h>>)

LEMMA PdbRecords ==
  ASSUME NEW p \in Pdbs, pdb = p, unread = p
  PROVE  PdbOK /\ Reading /\ Rest = Records
<1>1. /\ p = <<p[1], p[2], p[3]>>
      /\ \A pass \in 1..3 :
           /\ p[pass] \in Seq({p[pass][i] : i \in DOMAIN p[pass]})
           /\ \A i \in DOMAIN p[pass] : IsName(p[pass][i].name)
  BY PdbsAssumption DEF IsName
<1> DEFINE U == {p[1][i] : i \in DOMAIN p[1]} \cup {p[2][i] : i \in DOMAIN p[2]} \cup {p[3][i] : i \in DOMAIN p[3]}
           a == p[1]  b == p[2]  c == p[3]
<1>3. a \in Seq(U) /\ b \in Seq(U) /\ c \in Seq(U)
  <2>1. ASSUME NEW S, NEW T, S \subseteq T PROVE Seq(S) \subseteq Seq(T)
    BY <2>1, SeqMonotonic
  <2>2. QED
    BY <1>1, <2>1
<1>4. Records = a \o b \o c /\ Rest = a \o b \o c
  BY DEF Records, Rest
<1>5. /\ Records \in Seq(U)
      /\ \A i \in DOMAIN Records : Records[i] \in U
      /\ U \subseteq Range(Records)
  <2>1. /\ a \o b \o c \in Seq(U)
        /\ Len(a \o b \o c) = Len(a) + Len(b) + Len(c)
        /\ \A i \in 1..Len(a) : (a \o b \o c)[i] = a[i]
        /\ \A i \in 1..Len(b) : (a \o b \o c)[Len(a) + i] = b[i]
        /\ \A i \in 1..Len(c) : (a \o b \o c)[Len(a) + Len(b) + i] = c[i]
    <3> HIDE DEF a, b, c, U
    <3> QED BY <1>3
  <2>2. \A i \in DOMAIN Records : Records[i] \in U
    <3> HIDE DEF a, b, c, U
    <3> QED BY <1>4, <2>1
  <2>3. /\ \A i \in DOMAIN a : a[i] = Records[i] /\ i \in DOMAIN Records
        /\ \A i \in DOMAIN b : b[i] = Records[Len(a) + i] /\ Len(a) + i \in DOMAIN Records
        /\ \A i \in DOMAIN c : c[i] = Records[Len(a) + Len(b) + i] /\ Len(a) + Len(b) + i \in DOMAIN Records
    <3> HIDE DEF a, b, c, U
    <3> QED BY <1>3, <1>4, <2>1
  <2>4. ASSUME NEW u \in U PROVE \E i \in DOMAIN Records : u = Records[i]
    <3>1. \/ \E i \in DOMAIN a : u = a[i]
          \/ \E i \in DOMAIN b : u = b[i]
          \/ \E i \in DOMAIN c : u = c[i]
      BY <2>4
    <3> HIDE DEF a, b, c, U
    <3>2. QED
      BY <2>3, <3>1
  <2> HIDE DEF a, b, c, U
  <2>5. QED
    BY <1>4, <2>1, <2>2, <2>4 DEF Range
<1>6. ASSUME NEW s \in Seq(U) PROVE s \in Seq(Range(Records))
  BY <1>5, <1>6, SeqMonotonic
<1>7. PdbOK
  <2>1. \A u \in U : IsName(u.name)
    BY <1>1
  <2> HIDE DEF U
  <2>2. QED
    BY <1>5, <1>6, <2>1 DEF PdbOK
<1>8. Reading
  BY <1>1, <1>3, <1>4, <1>5, <1>6 DEF Reading, ThreePasses
<1>9. QED
  BY <1>4, <1>7, <1>8

\* insert_unique keeps what is there, and a name of two or three parts is no
\* symbol's that is looked for.
Keeps(map, name, address, new, h) ==
  /\ <<h>> \in DOMAIN map => <<h>> \in DOMAIN new /\ new[<<h>>] = map[<<h>>]
  /\ <<h>> \notin DOMAIN map /\ name = <<h>> => <<h>> \in DOMAIN new /\ new[<<h>>] = address
  /\ <<h>> \notin DOMAIN map /\ name # <<h>> => <<h>> \notin DOMAIN new

LEMMA InsertKeeps ==
  ASSUME NEW map, NEW name, NEW address, NEW h, IsName(name)
  PROVE  Keeps(map, name, address, InsertUnique(map, name, address), h)
<1> USE DEF Keeps, IsName
<1>1. CASE name \notin DOMAIN map
  BY <1>1 DEF InsertUnique, Put
<1>2. CASE name \in DOMAIN map
  <2>1. ASSUME NEW n PROVE Append(name, n) # <<h>>
    <3>1. PICK x, y : name = <<x>> \/ name = <<x, y>>
      OBVIOUS
    <3>2. <<x>> \in Seq({x, y, n}) /\ <<x, y>> \in Seq({x, y, n}) /\ Len(<<x>>) = 1 /\ Len(<<x, y>>) = 2
      OBVIOUS
    <3>3. Len(Append(<<x>>, n)) = 2 /\ Len(Append(<<x, y>>, n)) = 3
      BY <3>2, AppendProperties
    <3>4. Len(<<h>>) = 1
      OBVIOUS
    <3>5. Len(Append(name, n)) \in {2, 3}
      <4>1. CASE name = <<x>>
        BY <3>3, <4>1
      <4>2. CASE name = <<x, y>>
        BY <3>3, <4>2
      <4>3. QED
        BY <3>1, <4>1, <4>2
    <3>6. Append(name, n) = <<h>> => Len(Append(name, n)) = 1
      BY <3>4
    <3>7. QED
      BY <3>5, <3>6
  <2>2. PICK n : InsertUnique(map, name, address) = Put(map, Append(name, n), address)
    BY <1>2 DEF InsertUnique
  <2>3. QED
    BY <1>2, <2>1, <2>2 DEF Put
<1>3. QED
  BY <1>1, <1>2

\* The next record is the next one of the PDB.
LEMMA NextRecord ==
  ASSUME Reading, NEW pass \in 1..3, unread[pass] # <<>>, \A p \in 1..pass - 1 : unread[p] = <<>>,
         unread' = [unread EXCEPT ![pass] = Tail(@)], UNCHANGED pdb
  PROVE  /\ Len(Rest) > 0 /\ Head(unread[pass]) = Rest[1] /\ Rest' = Tail(Rest)
         /\ ThreePasses(unread)'
<1>1. PICK a, b, c \in Seq(Range(Records)) : unread = <<a, b, c>>
  BY DEF Reading, ThreePasses
<1>2. Rest = a \o b \o c /\ Records' = Records
  BY <1>1 DEF Rest, Records
<1>3. CASE pass = 1
  <2>1. a # <<>> /\ unread' = <<Tail(a), b, c>>
    BY <1>1, <1>3
  <2>2. Rest' = Tail(a) \o b \o c /\ Head(unread[pass]) = Head(a)
    BY <1>1, <1>3, <2>1 DEF Rest
  <2>3. /\ Tail(a) \o b \o c = Tail(a \o b \o c)
        /\ Head(a) = (a \o b \o c)[1] /\ Len(a \o b \o c) > 0 /\ Tail(a) \in Seq(Range(Records))
    BY <1>1, <2>1
  <2>4. ThreePasses(unread)'
    BY <1>1, <1>2, <2>1, <2>3 DEF ThreePasses
  <2>5. QED
    BY <1>2, <2>2, <2>3, <2>4
<1>4. CASE pass = 2
  <2>1. a = <<>> /\ b # <<>> /\ unread' = <<a, Tail(b), c>>
    BY <1>1, <1>4
  <2>2. Rest' = a \o Tail(b) \o c /\ Head(unread[pass]) = Head(b)
    BY <1>1, <1>4, <2>1 DEF Rest
  <2>3. /\ a \o Tail(b) \o c = Tail(a \o b \o c)
        /\ Head(b) = (a \o b \o c)[1] /\ Len(a \o b \o c) > 0 /\ Tail(b) \in Seq(Range(Records))
    BY <1>1, <2>1
  <2>4. ThreePasses(unread)'
    <3>1. PICK t \in Seq(Range(Records)) : unread' = <<a, t, c>>
      BY <2>1, <2>3
    <3>2. QED
      BY <1>1, <1>2, <3>1 DEF ThreePasses
  <2>5. QED
    BY <1>2, <2>2, <2>3, <2>4
<1>5. CASE pass = 3
  <2>1. a = <<>> /\ b = <<>> /\ c # <<>> /\ unread' = <<a, b, Tail(c)>>
    BY <1>1, <1>5
  <2>2. Rest' = a \o b \o Tail(c) /\ Head(unread[pass]) = Head(c)
    BY <1>1, <1>5, <2>1 DEF Rest
  <2>3. /\ a \o b \o Tail(c) = Tail(a \o b \o c)
        /\ Head(c) = (a \o b \o c)[1] /\ Len(a \o b \o c) > 0 /\ Tail(c) \in Seq(Range(Records))
    BY <1>1, <2>1
  <2>4. ThreePasses(unread)'
    <3>1. PICK t \in Seq(Range(Records)) : unread' = <<a, b, t>>
      BY <2>1, <2>3
    <3>2. QED
      BY <1>1, <1>2, <3>1 DEF ThreePasses
  <2>5. QED
    BY <1>2, <2>2, <2>3, <2>4
<1>6. QED
  BY <1>3, <1>4, <1>5

\* A record is read.
LEMMA ReadStep == 
  ASSUME SymbolInv, ReadRecord, UNCHANGED pdb
  PROVE  SymbolInv'
<1>1. PICK pass \in 1..3 :
        /\ unread[pass] # <<>> /\ \A p \in 1..pass - 1 : unread[p] = <<>>
        /\ symbols' = IF Head(unread[pass]).rva = 0 THEN symbols
                      ELSE InsertUnique(symbols, Head(unread[pass]).name, Head(unread[pass]).rva)
        /\ unread' = [unread EXCEPT ![pass] = Tail(@)]
  <2>1. DOMAIN unread = 1..3
    BY DEF SymbolInv, Reading, ThreePasses
  <2>2. QED
    BY <2>1 DEF ReadRecord
<1> DEFINE r == Head(unread[pass])  n == ReadTo + 1
<1>2. Len(Rest) > 0 /\ r = Rest[1] /\ Rest' = Tail(Rest) /\ ThreePasses(unread)'
  BY <1>1, NextRecord DEF SymbolInv
<1>3. Records' = Records /\ \A name : Named(name)' = Named(name)
  BY DEF Records, Named
<1>4. PdbOK' /\ Reading'
  <2>1. PdbOK'
    BY <1>3 DEF SymbolInv, PdbOK
  <2>2. /\ Rest \in Seq(Range(Records)) /\ Len(Rest) \in Nat /\ Len(Records) \in Nat
        /\ Len(Rest) <= Len(Records)
        /\ \A i \in 1..Len(Rest) : Rest[i] = Records[Len(Records) - Len(Rest) + i]
    BY LenProperties DEF SymbolInv, PdbOK, Reading
  <2>3. /\ Tail(Rest) \in Seq(Range(Records)) /\ Len(Tail(Rest)) = Len(Rest) - 1
        /\ \A i \in 1..Len(Rest) - 1 : Tail(Rest)[i] = Rest[i + 1]
    BY <1>2, <2>2
  <2>4. \A i \in 1..Len(Rest) - 1 : Rest[i + 1] = Records[Len(Records) - (Len(Rest) - 1) + i]
    BY <2>2
  <2>5. Reading'
    BY <1>2, <1>3, <2>2, <2>3, <2>4 DEF Reading
  <2>6. QED
    BY <2>1, <2>5
<1>5. n \in DOMAIN Records /\ r = Records[n] /\ ReadTo' = n /\ ReadTo \in Nat
  <2>1. /\ Len(Rest) \in Nat /\ Len(Records) \in Nat /\ Len(Rest) > 0 /\ Len(Rest) <= Len(Records)
        /\ DOMAIN Records = 1..Len(Records) /\ Rest \in Seq(Range(Records))
    BY <1>2, LenProperties DEF SymbolInv, PdbOK, Reading
  <2>2. ReadTo \in Nat /\ n \in DOMAIN Records
    BY <2>1 DEF ReadTo
  <2>3. r = Records[n]
    BY <1>2, <2>1 DEF SymbolInv, Reading, ReadTo
  <2>4. ReadTo' = n
    <3>1. Len(Tail(Rest)) = Len(Rest) - 1
      BY <2>1
    <3>2. Len(Rest') = Len(Rest) - 1 /\ Len(Records') = Len(Records)
      BY <1>2, <1>3, <3>1
    <3>3. QED
      BY <2>1, <3>2 DEF ReadTo
  <2>5. QED
    BY <2>2, <2>3, <2>4
<1>6. IsName(r.name)
  BY <1>5 DEF SymbolInv, PdbOK, IsName
<1>7. ASSUME NEW h PROVE FirstRead(<<h>>)'
  <2>1. FirstRead(<<h>>)
    BY DEF SymbolInv
  <2>2. n \in Named(<<h>>) <=> r.name = <<h>> /\ r.rva # 0
    BY <1>5 DEF Named
  <2> HIDE DEF r, n
  <2>3. \A j \in 1..n : j = n \/ j \in 1..ReadTo
    BY <1>5 DEF n
  <2>4. \A j \in 1..ReadTo : j \in 1..n
    BY <1>5 DEF n
  <2>5. CASE r.rva = 0
    BY <1>1, <1>3, <1>5, <2>1, <2>2, <2>3, <2>4, <2>5 DEF FirstRead, r
  <2>6. CASE r.rva # 0
    <3> DEFINE new == InsertUnique(symbols, r.name, r.rva)
    <3>1. symbols' = new
      BY <1>1, <2>6 DEF r
    <3>2. Keeps(symbols, r.name, r.rva, new, h)
      BY <1>6, InsertKeeps
    <3> HIDE DEF new
    <3>3. CASE <<h>> \in DOMAIN symbols
      BY <1>3, <1>5, <2>1, <2>4, <3>1, <3>2, <3>3 DEF FirstRead, Keeps
    <3>4. CASE <<h>> \notin DOMAIN symbols /\ r.name = <<h>>
      <4>1. \A j \in 1..n - 1 : j \notin Named(<<h>>)
        BY <1>5, <2>1, <3>4 DEF FirstRead, Keeps, n
      <4>2. n \in 1..n
        BY <1>5 DEF n
      <4>3. QED
        BY <1>3, <1>5, <2>2, <2>6, <3>1, <3>2, <3>4, <4>1, <4>2 DEF FirstRead, Keeps
    <3>5. CASE <<h>> \notin DOMAIN symbols /\ r.name # <<h>>
      BY <1>3, <1>5, <2>1, <2>2, <2>3, <3>1, <3>2, <3>5 DEF FirstRead, Keeps
    <3>6. QED
      BY <3>3, <3>4, <3>5
  <2>7. QED
    BY <2>5, <2>6
<1>8. QED
  BY <1>4, <1>7 DEF SymbolInv

\* Once all is read, a name of one part has the address of its first record.
Ready == \A pass \in 1..3 : unread[pass] = <<>>
Complete == \A h : /\ FirstOf(<<h>>) = IF <<h>> \in DOMAIN symbols THEN symbols[<<h>>] ELSE 0
                   /\ <<h>> \in DOMAIN symbols => symbols[<<h>>] # 0

LEMMA ReadyComplete == SymbolInv /\ Ready => Complete
<1> SUFFICES ASSUME SymbolInv, Ready PROVE Complete
  OBVIOUS
<1>1. Len(Rest) = 0
  <2>1. Rest = <<>> \o <<>> \o <<>>
    BY DEF Ready, Rest
  <2>2. QED
    BY <2>1
<1>2. Len(Records) \in Nat /\ ReadTo = Len(Records) /\ DOMAIN Records = 1..Len(Records)
  BY <1>1, LenProperties DEF ReadTo, SymbolInv, PdbOK
<1>3. ASSUME NEW h PROVE /\ FirstOf(<<h>>) = IF <<h>> \in DOMAIN symbols THEN symbols[<<h>>] ELSE 0
                         /\ <<h>> \in DOMAIN symbols => symbols[<<h>>] # 0
  <2>1. FirstRead(<<h>>)
    BY DEF SymbolInv
  <2>2. Named(<<h>>) \subseteq 1..Len(Records)
    BY <1>2 DEF Named
  <2>3. CASE <<h>> \notin DOMAIN symbols
    BY <1>2, <2>1, <2>2, <2>3 DEF FirstRead, FirstOf
  <2>4. CASE <<h>> \in DOMAIN symbols
    <3>1. PICK i \in Named(<<h>>) : /\ symbols[<<h>>] = Records[i].rva
                                    /\ \A j \in 1..i - 1 : j \notin Named(<<h>>)
      BY <2>1, <2>4 DEF FirstRead
    <3>2. \A j \in Named(<<h>>) : i <= j
      BY <1>2, <2>2, <3>1
    <3>3. Min(Named(<<h>>)) = i
      <4>1. \A k \in Named(<<h>>) : (\A j \in Named(<<h>>) : k <= j) => k = i
        BY <1>2, <2>2, <3>2
      <4>2. QED
        BY <3>2, <4>1 DEF Min
    <3>4. Records[i].rva # 0
      BY <3>1 DEF Named
    <3>5. QED
      BY <2>4, <3>1, <3>3, <3>4 DEF FirstOf
  <2>5. QED
    BY <2>3, <2>4
<1>4. QED
  BY <1>3 DEF Complete

--------------------------------------------------------------------------------
(* The hooks *)

AllHooks == ScriptHooks \o OtherHooks
ScriptSet == {"Update", "Load", "loadbufferx", "InitLua", "lua_close"}
OtherSet == {"PlatformOpenFile", "fsGetFilesWithExtension", "Log::Write"}

\* What todo may be, as a set: some hooks at the end of the list.
Left(t) ==
  /\ Range(t) \subseteq Hooks
  /\ "Update" \in Range(t) => t = AllHooks
  /\ t # <<>> => /\ Head(t) \in Range(t)
                 /\ Range(Tail(t)) = Range(t) \ {Head(t)}

Tails == {AllHooks, OtherHooks, <<>>,
          <<"Load", "loadbufferx", "InitLua", "lua_close", "PlatformOpenFile", "fsGetFilesWithExtension", "Log::Write">>,
          <<"loadbufferx", "InitLua", "lua_close", "PlatformOpenFile", "fsGetFilesWithExtension", "Log::Write">>,
          <<"InitLua", "lua_close", "PlatformOpenFile", "fsGetFilesWithExtension", "Log::Write">>,
          <<"lua_close", "PlatformOpenFile", "fsGetFilesWithExtension", "Log::Write">>,
          <<"fsGetFilesWithExtension", "Log::Write">>,
          <<"Log::Write">>}

LEMMA HookSets ==
  /\ Hooks = ScriptSet \cup OtherSet
  /\ AllHooks = <<"Update", "Load", "loadbufferx", "InitLua", "lua_close",
                  "PlatformOpenFile", "fsGetFilesWithExtension", "Log::Write">>
  /\ Range(AllHooks) = Hooks /\ Range(OtherHooks) = OtherSet /\ Range(<<>>) = {}
  /\ \A h : (\E i \in 1..5 : ScriptHooks[i] = h) <=> h \in ScriptSet
<1>1. AllHooks = <<"Update", "Load", "loadbufferx", "InitLua", "lua_close",
                   "PlatformOpenFile", "fsGetFilesWithExtension", "Log::Write">>
  <2>1. /\ ScriptHooks \in Seq(ScriptSet \cup OtherSet) /\ OtherHooks \in Seq(ScriptSet \cup OtherSet)
        /\ Len(ScriptHooks) = 5 /\ Len(OtherHooks) = 3
    BY DEF ScriptHooks, OtherHooks, ScriptSet, OtherSet
  <2>2. /\ AllHooks \in Seq(ScriptSet \cup OtherSet) /\ Len(AllHooks) = 8
        /\ \A i \in 1..5 : AllHooks[i] = ScriptHooks[i]
        /\ \A i \in 1..3 : AllHooks[5 + i] = OtherHooks[i]
    <3>1. /\ ScriptHooks \o OtherHooks \in Seq(ScriptSet \cup OtherSet)
          /\ Len(ScriptHooks \o OtherHooks) = Len(ScriptHooks) + Len(OtherHooks)
          /\ \A i \in 1..Len(ScriptHooks) + Len(OtherHooks) :
               (ScriptHooks \o OtherHooks)[i] = IF i <= Len(ScriptHooks) THEN ScriptHooks[i]
                                                ELSE OtherHooks[i - Len(ScriptHooks)]
      BY <2>1, ConcatProperties
    <3>2. QED
      BY <2>1, <3>1 DEF AllHooks
  <2>3. /\ AllHooks[1] = "Update" /\ AllHooks[2] = "Load" /\ AllHooks[3] = "loadbufferx"
        /\ AllHooks[4] = "InitLua" /\ AllHooks[5] = "lua_close"
    BY <2>2 DEF ScriptHooks
  <2>4. AllHooks[6] = "PlatformOpenFile" /\ AllHooks[7] = "fsGetFilesWithExtension" /\ AllHooks[8] = "Log::Write"
    <3>1. AllHooks[5 + 1] = OtherHooks[1] /\ AllHooks[5 + 2] = OtherHooks[2] /\ AllHooks[5 + 3] = OtherHooks[3]
      BY <2>2
    <3>2. QED
      BY <3>1 DEF OtherHooks
  <2>5. QED
    BY <2>2, <2>3, <2>4
<1>2. \A h : (\E i \in 1..5 : ScriptHooks[i] = h) <=> h \in ScriptSet
  BY DEF ScriptHooks, ScriptSet
<1>3. Hooks = ScriptSet \cup OtherSet
  BY <1>2 DEF Hooks, OtherHooks, OtherSet
<1>4. Range(AllHooks) = ScriptSet \cup OtherSet
  BY <1>1 DEF Range, ScriptSet, OtherSet
<1>5. Range(OtherHooks) = OtherSet
  BY DEF Range, OtherHooks, OtherSet
<1>6. Range(<<>>) = {}
  BY DEF Range
<1>7. QED
  BY <1>1, <1>2, <1>3, <1>4, <1>5, <1>6

LEMMA TailsLeft == ASSUME NEW t \in Tails PROVE Left(t) /\ (t # <<>> => Tail(t) \in Tails)
<1>. USE DEF Left, Range, ScriptSet, OtherSet, Tails
<1>0. Hooks = ScriptSet \cup OtherSet
  BY HookSets
<1>1. CASE t = AllHooks
  <2>1. Tail(t) = <<"Load", "loadbufferx", "InitLua", "lua_close", "PlatformOpenFile", "fsGetFilesWithExtension", "Log::Write">>
    BY <1>1, HookSets
  <2>2. QED
  BY <1>0, <1>1, <2>1, HookSets
<1>2. CASE t = OtherHooks
  BY <1>0, <1>2, HookSets DEF OtherHooks
<1>3. CASE t = <<>>
  BY <1>0, <1>3, HookSets
<1>4. CASE t = <<"Load", "loadbufferx", "InitLua", "lua_close", "PlatformOpenFile", "fsGetFilesWithExtension", "Log::Write">>
  BY <1>0, <1>4 DEF OtherHooks
<1>5. CASE t = <<"loadbufferx", "InitLua", "lua_close", "PlatformOpenFile", "fsGetFilesWithExtension", "Log::Write">>
  BY <1>0, <1>5 DEF OtherHooks
<1>6. CASE t = <<"InitLua", "lua_close", "PlatformOpenFile", "fsGetFilesWithExtension", "Log::Write">>
  BY <1>0, <1>6 DEF OtherHooks
<1>7. CASE t = <<"lua_close", "PlatformOpenFile", "fsGetFilesWithExtension", "Log::Write">>
  BY <1>0, <1>7 DEF OtherHooks
<1>8. CASE t = <<"fsGetFilesWithExtension", "Log::Write">>
  BY <1>0, <1>8 DEF OtherHooks
<1>9. CASE t = <<"Log::Write">>
  BY <1>0, <1>9 DEF OtherHooks
<1>10. QED
  BY <1>1, <1>2, <1>3, <1>4, <1>5, <1>6, <1>7, <1>8, <1>9 DEF OtherHooks

\* What becomes of a hook, once it has had its turn.
UpdateLost == FirstOf(<<"Update">>) = 0 \/ "Update" \in refused
Due(h) == IF h \in refused \/ (h \in ScriptSet /\ UpdateLost) THEN 0 ELSE FirstOf(<<h>>)

HooksSoFar ==
  /\ todo \in Tails
  /\ DOMAIN hooked = Hooks
  /\ \A h \in Hooks : IF h \in Range(todo) THEN hooked[h] = 0 /\ h \notin refused
                                           ELSE hooked[h] = Due(h)
  /\ "Update" \in Range(todo) \/ Range(todo) \cap ScriptSet = {} \/ ~UpdateLost

OptionsSoFar ==
  /\ options \ {MessageHook} = {o \in Options \ {MessageHook} : Present(o)}
  /\ (MessageHook \in options \/ traced) => hooked["InitLua"] # 0 /\ Present(MessageHook)

\* Before the PDB is read, or without it.
Untouched == /\ todo = AllHooks /\ hooked = [h \in Hooks |-> 0]
             /\ refused = {} /\ options = {} /\ ~traced

HookInv ==
  /\ SymbolInv
  /\ main # "out" => executed /\ late = "unborn"
  /\ ~executed => late = "unborn"
  /\ late \in {"unborn", "settings", "renderer", "logger", "lovely", "pdb", "open", "read",
               "resolve", "options"} => Untouched
  /\ late \in {"resolve", "options", "hook", "audio"} => Ready
  /\ late \in {"hook", "audio"} => HooksSoFar /\ OptionsSoFar
  /\ late \in {"focus", "done"} => Untouched \/ (Ready /\ HooksSoFar /\ OptionsSoFar)
  /\ late \in {"unborn", "settings", "renderer", "logger", "lovely", "pdb", "open", "read",
               "resolve", "options", "hook", "audio", "focus", "done"}
  /\ late \in {"options", "hook"} => known = {n \in Known : <<n>> \in DOMAIN symbols}

LEMMA HookInvInit == MCInit => HookInv
<1> SUFFICES ASSUME MCInit PROVE HookInv
  OBVIOUS
<1>1. PdbOK /\ Reading /\ Rest = Records
  <2>1. unread \in Pdbs /\ pdb = unread
    BY DEF MCInit, LovelyInit, Init
  <2>2. QED
    BY <2>1, PdbRecords
<1>2. symbols = <<>> /\ ReadTo = 0
  <2>1. Len(Records) \in Nat
    BY <1>1, LenProperties DEF PdbOK
  <2>2. QED
    BY <1>1, <2>1 DEF MCInit, LovelyInit, Init, ReadTo
<1>3. SymbolInv
  BY <1>1, <1>2 DEF SymbolInv, FirstRead
<1>4. Untouched
  BY DEF MCInit, LovelyInit, Init, Untouched, AllHooks
<1>5. late = "unborn" /\ main = "out"
  BY DEF MCInit, LovelyInit, Init
<1>6. QED
  BY <1>3, <1>4, <1>5 DEF HookInv

\* The next hook goes in, or is missed.
LEMMA HookStep ==
  ASSUME Complete, HooksSoFar, OptionsSoFar, InstallHook, UNCHANGED pdb,
         known = {n \in Known : <<n>> \in DOMAIN symbols},
         refused' = IF todo' # todo /\ Found(Head(todo)) /\ hooked' = hooked
                    THEN refused \cup {Head(todo)} ELSE refused
  PROVE  HooksSoFar' /\ OptionsSoFar'
<1>0. PICK h : h = Head(todo)
  OBVIOUS
<1>1. todo # <<>> /\ todo \in Tails /\ UNCHANGED <<options, traced>>
  BY DEF InstallHook, HooksSoFar, extras
<1>2. /\ Range(todo) \subseteq Hooks /\ h \in Range(todo) /\ Range(Tail(todo)) = Range(todo) \ {h}
      /\ "Update" \in Range(todo) => todo = AllHooks
      /\ Tail(todo) \in Tails /\ OtherHooks \in Tails
      /\ Tail(todo) # todo /\ (h = "Update" => OtherHooks # todo)
  <2>1. Left(todo) /\ Tail(todo) \in Tails
    BY <1>1, TailsLeft
  <2>2. Tail(todo) # todo
    BY <1>1, <2>1 DEF Left
  <2>3. h = "Update" => OtherHooks # todo
    BY <1>0, <1>1, <2>1, HookSets DEF Left, OtherSet
  <2>4. QED
    BY <1>0, <1>1, <2>1, <2>2, <2>3 DEF Left, Tails
<1>3. /\ UNCHANGED <<symbols, known>>
      /\ \A name : FirstOf(name)' = FirstOf(name)
      /\ \A o : Present(o)' <=> Present(o)
  BY DEF InstallHook, FirstOf, Named, Records, Present
<1>4. Found(h) <=> FirstOf(<<h>>) # 0
  BY <1>0 DEF Found, Complete
<1>5. hooked[h] = 0 /\ h \notin refused /\ h \in Hooks
  BY <1>2 DEF HooksSoFar
<1>6. CASE Found(h) /\ hooked' = [hooked EXCEPT ![h] = symbols[<<h>>]] /\ todo' = Tail(todo)
  <2>1. symbols[<<h>>] = FirstOf(<<h>>) /\ FirstOf(<<h>>) # 0
    BY <1>4, <1>6 DEF Complete
  <2>2. hooked' # hooked
    BY <1>5, <1>6, <2>1 DEF HooksSoFar
  <2>3. refused' = refused
    BY <1>0, <1>6, <2>2
  <2>4. UpdateLost' = UpdateLost
    BY <1>3, <2>3 DEF UpdateLost
  <2>5. ~(h \in ScriptSet /\ UpdateLost)
    <3>1. "Update" \in Range(todo) => h = "Update"
      BY <1>0, <1>2, HookSets
    <3>2. QED
      BY <1>2, <1>5, <2>1, <3>1 DEF HooksSoFar, UpdateLost
  <2>6. HooksSoFar'
    <3>1. \A k : Due(k)' = Due(k)
      BY <1>3, <2>3, <2>4 DEF Due
    <3>2. Due(h) = FirstOf(<<h>>)
      BY <1>5, <2>5 DEF Due
    <3>3. Range(todo') = Range(todo) \ {h} /\ todo' \in Tails
      BY <1>2, <1>6
    <3>4. ASSUME NEW k \in Hooks
          PROVE IF k \in Range(todo') THEN hooked'[k] = 0 /\ k \notin refused' ELSE hooked'[k] = Due(k)'
      BY <1>5, <1>6, <2>1, <2>3, <3>1, <3>2, <3>3 DEF HooksSoFar
    <3>5. "Update" \in Range(todo') \/ Range(todo') \cap ScriptSet = {} \/ ~UpdateLost'
      BY <2>4, <2>5, <3>3 DEF HooksSoFar, ScriptSet
    <3>6. DOMAIN hooked' = Hooks
      BY <1>6 DEF HooksSoFar
    <3>7. QED
      BY <3>3, <3>4, <3>5, <3>6 DEF HooksSoFar
  <2>7. \A k \in Hooks : hooked[k] # 0 => hooked'[k] # 0
    BY <1>6, <2>1 DEF HooksSoFar
  <2>8. OptionsSoFar'
    BY <1>1, <1>3, <2>7, HookSets DEF OptionsSoFar, ScriptSet
  <2>9. QED
    BY <2>6, <2>8
<1>7. CASE hooked' = hooked /\ todo' = IF h = "Update" THEN OtherHooks ELSE Tail(todo)
  <2>1. todo' # todo /\ refused' = IF Found(h) THEN refused \cup {h} ELSE refused
    BY <1>0, <1>2, <1>7
  <2>2. OptionsSoFar'
    BY <1>1, <1>3, <1>7 DEF OptionsSoFar
  <2>3. CASE h = "Update"
    <3>1. UpdateLost'
      BY <1>3, <1>4, <2>1, <2>3 DEF UpdateLost
    <3>2. \A k \in Hooks : hooked[k] = 0
      BY <1>2, <2>3, HookSets DEF HooksSoFar
    <3>3. todo = AllHooks /\ todo' = OtherHooks
      BY <1>2, <1>7, <2>3
    <3>4. \A k \in Hooks : k \notin refused
      BY <3>3, HookSets DEF HooksSoFar
    <3>5. \A k \in OtherSet : k \notin refused' /\ k # h
      BY <2>1, <2>3, <3>4, HookSets DEF OtherSet
    <3>6. HooksSoFar'
      BY <1>2, <1>7, <3>1, <3>2, <3>3, <3>5, HookSets DEF HooksSoFar, Due, ScriptSet, OtherSet
    <3>7. QED
      BY <2>2, <3>6
  <2>4. CASE h # "Update"
    <3>1. UpdateLost' = UpdateLost
      BY <1>3, <2>1, <2>4 DEF UpdateLost
    <3>2. Due(h)' = 0
      BY <1>3, <1>4, <2>1 DEF Due
    <3>3. \A k \in Hooks \ {h} : Due(k)' = Due(k)
      BY <1>3, <2>1, <3>1 DEF Due
    <3>4. todo' = Tail(todo) /\ Range(todo') = Range(todo) \ {h} /\ todo' \in Tails
      BY <1>2, <1>7, <2>4
    <3>5. ASSUME NEW k \in Hooks
          PROVE IF k \in Range(todo') THEN hooked'[k] = 0 /\ k \notin refused' ELSE hooked'[k] = Due(k)'
      BY <1>5, <1>7, <2>1, <3>2, <3>3, <3>4 DEF HooksSoFar
    <3>6. "Update" \in Range(todo') \/ Range(todo') \cap ScriptSet = {} \/ ~UpdateLost'
      BY <2>4, <3>1, <3>4 DEF HooksSoFar
    <3>7. HooksSoFar'
      BY <1>7, <3>4, <3>5, <3>6 DEF HooksSoFar
    <3>8. QED
      BY <2>2, <3>7
  <2>5. QED
    BY <2>3, <2>4
<1>8. QED
  BY <1>0, <1>6, <1>7 DEF InstallHook

\* The rest of late_init, and the game meanwhile.
LEMMA SymbolsStay ==
  ASSUME SymbolInv, UNCHANGED <<unread, symbols, pdb>>
  PROVE  /\ SymbolInv' /\ Ready' = Ready
         /\ \A name : FirstOf(name)' = FirstOf(name)
         /\ \A o : Present(o)' <=> Present(o)
  BY DEF SymbolInv, PdbOK, Reading, ThreePasses, FirstRead, ReadTo, Rest, Ready, Records, Named,
         FirstOf, Present

LEMMA NothingTouched ==
  ASSUME HookInv, UNCHANGED <<unread, symbols, pdb, todo, hooked, refused, options, traced>>
  PROVE  /\ SymbolInv' /\ Ready' = Ready /\ Untouched' = Untouched
         /\ HooksSoFar' = HooksSoFar /\ OptionsSoFar' = OptionsSoFar
<1>1. SymbolInv
  BY DEF HookInv
<1>2. /\ SymbolInv' /\ Ready' = Ready
      /\ \A name : FirstOf(name)' = FirstOf(name)
      /\ \A o : Present(o)' <=> Present(o)
  BY <1>1, SymbolsStay
<1>3. UpdateLost' = UpdateLost /\ \A h : Due(h)' = Due(h)
  BY <1>2 DEF UpdateLost, Due
<1>4. HooksSoFar' = HooksSoFar
  BY <1>3 DEF HooksSoFar
<1>5. OptionsSoFar' = OptionsSoFar
  BY <1>2 DEF OptionsSoFar
<1>6. QED
  BY <1>2, <1>4, <1>5 DEF Untouched

LEMMA HookInvStep == HookInv /\ [MCNext]_mcVars => HookInv'
<1> SUFFICES ASSUME HookInv, [MCNext]_mcVars PROVE HookInv'
  OBVIOUS
<1> DEFINE Kept == UNCHANGED <<unread, symbols, pdb, todo, hooked, refused, options, traced>>
<1>0. ASSUME Kept, UNCHANGED <<main, executed, late, known>> PROVE HookInv'
  BY <1>0, NothingTouched DEF HookInv
<1>1. CASE UNCHANGED mcVars
  BY <1>0, <1>1 DEF mcVars, vars, boot, loader, extras
<1>2. CASE MCNext
  <2>1. /\ UNCHANGED pdb
        /\ refused' = IF late = "hook" /\ todo' # todo /\ Found(Head(todo)) /\ hooked' = hooked
                      THEN refused \cup {Head(todo)} ELSE refused
    BY <1>2 DEF MCNext
  <2>2. todo' = todo => refused' = refused
    BY <2>1
  <2>3. CASE DllMain \/ ProxyInit \/ RomEnabled \/ CreateLateThread
    <3>1. Kept /\ UNCHANGED known
      BY <2>1, <2>2, <2>3 DEF DllMain, ProxyInit, RomEnabled, CreateLateThread, loader, extras
    <3>2. QED
      BY <2>3, <3>1, NothingTouched DEF HookInv, DllMain, ProxyInit, RomEnabled, CreateLateThread
  <2>4. ASSUME NEW t \in Games, Game(t) PROVE HookInv'
    BY <1>0, <2>1, <2>2, <2>4 DEF Game, Call, SetPA, RunASM, Return, CreateSwapChain, loader, extras, boot
  <2>5. ASSUME NEW t \in Games, BeginCompile(t) \/ Patch(t) \/ Compile(t) \/ Release(t)
        PROVE HookInv'
    <3>1. UNCHANGED vars
      BY <2>5 DEF BeginCompile, Patch, Compile, Release
    <3>2. QED
      BY <1>0, <2>1, <2>2, <3>1 DEF vars, boot, loader, extras
  <2>6. CASE AudioUpdate
    BY <1>0, <2>1, <2>2, <2>6 DEF AudioUpdate, boot, loader
  <2>7. CASE InitLua
    <3>1. UNCHANGED <<unread, symbols, pdb, todo, hooked, refused, main, executed, late, known>>
      BY <2>1, <2>2, <2>7 DEF InitLua, boot, loader
    <3>2. /\ SymbolInv' /\ Ready' = Ready
          /\ \A name : FirstOf(name)' = FirstOf(name)
          /\ \A o : Present(o)' <=> Present(o)
      BY <3>1, SymbolsStay DEF HookInv
    <3>3. Untouched => Untouched'
      <4>1. SUFFICES ASSUME Untouched PROVE Untouched'
        OBVIOUS
      <4>2. hooked["InitLua"] = 0
        BY <4>1, HookSets DEF Untouched, ScriptSet
      <4>3. options' = {} /\ traced' = (MessageHook \in {})
        BY <2>7, <4>1, <4>2 DEF InitLua, Untouched
      <4>4. ~traced'
        BY <4>3
      <4>5. QED
        BY <3>1, <4>1, <4>3, <4>4 DEF Untouched
    <3>4. HooksSoFar => HooksSoFar'
      BY <3>1, <3>2 DEF HooksSoFar, Due, UpdateLost
    <3>5. Ready /\ OptionsSoFar => OptionsSoFar'
      <4>1. SUFFICES ASSUME Ready, OptionsSoFar PROVE OptionsSoFar'
        OBVIOUS
      <4>2. Complete
        BY <4>1, ReadyComplete DEF HookInv
      <4>3. options' = options \/ (/\ hooked["InitLua"] # 0
                                   /\ options' = options \cup Settable(Options \cap {MessageHook}))
        BY <2>7 DEF InitLua
      <4>4. \A o \in Settable(Options \cap {MessageHook}) : o = MessageHook /\ Present(o)
        BY <4>2 DEF Settable, Present, Complete
      <4>5. traced' => MessageHook \in options'
        BY <2>7 DEF InitLua
      <4>6. QED
        BY <3>1, <3>2, <4>1, <4>3, <4>4, <4>5 DEF OptionsSoFar
    <3>6. QED
      BY <3>1, <3>2, <3>3, <3>4, <3>5 DEF HookInv
  <2>8. CASE Late
    <3>1. UNCHANGED <<main, executed>>
      BY <2>8 DEF Late, Settings, InitRenderer, Logger, Lovely, AwaitEngine, OpenPdb, ReadRecord,
         PdbRead, Resolve, ApplyOptions, InstallHook, HooksDone, HookAudio, Focus, LateStep, LateMoves, boot
    <3>2. CASE Settings \/ InitRenderer \/ Logger \/ Lovely \/ AwaitEngine \/ OpenPdb \/ HooksDone \/ HookAudio \/ Focus
      <4>1. Kept
        BY <2>1, <2>2, <3>2 DEF Settings, InitRenderer, Logger, Lovely, AwaitEngine, OpenPdb,
           HooksDone, HookAudio, Focus, LateStep, LateMoves, loader, extras
      <4>2. \/ late' \in {"renderer", "logger", "lovely", "pdb", "open", "read"} /\ 
               late \in {"settings", "renderer", "logger", "lovely", "pdb", "open"}
            \/ late' = "focus" /\ late \in {"pdb", "open", "audio"}
            \/ late' = "audio" /\ late = "hook"
            \/ late' = "done" /\ late = "focus"
        BY <3>2 DEF Settings, InitRenderer, Logger, Lovely, AwaitEngine, OpenPdb,
           HooksDone, HookAudio, Focus, LateStep, LateMoves
      <4>3. /\ SymbolInv' /\ Ready' = Ready /\ Untouched' = Untouched
            /\ HooksSoFar' = HooksSoFar /\ OptionsSoFar' = OptionsSoFar /\ known' = known
        BY <3>2, <4>1, NothingTouched DEF Settings, InitRenderer, Logger, Lovely, AwaitEngine, OpenPdb,
           HooksDone, HookAudio, Focus, LateStep, LateMoves, loader
      <4>4. CASE late \in {"settings", "renderer", "logger", "lovely", "pdb", "open"}
        BY <3>1, <4>2, <4>3, <4>4 DEF HookInv
      <4>5. CASE late \in {"hook", "audio", "focus"}
        BY <3>1, <4>2, <4>3, <4>5 DEF HookInv
      <4>6. QED
        BY <4>2, <4>4, <4>5
    <3>3. CASE PdbRead
      <4>1. Kept /\ late = "read" /\ late' = "resolve" /\ \A p \in DOMAIN unread : unread[p] = <<>>
        BY <2>1, <2>2, <3>3 DEF PdbRead, LateStep, LateMoves, loader, extras
      <4>2. DOMAIN unread = 1..3
        BY DEF HookInv, SymbolInv, Reading, ThreePasses
      <4>3. Ready
        BY <4>1, <4>2 DEF Ready
      <4>4. Untouched
        BY <4>1 DEF HookInv
      <4>5. SymbolInv' /\ Ready' = Ready /\ Untouched' = Untouched
        BY <4>1, NothingTouched
      <4>6. QED
        BY <3>1, <4>1, <4>3, <4>4, <4>5 DEF HookInv
    <3>4. CASE ReadRecord
      <4>1. SymbolInv'
        BY <2>1, <3>4, ReadStep DEF HookInv
      <4>2. UNCHANGED <<late, todo, hooked, refused, options, traced>> /\ late = "read"
        BY <2>1, <2>2, <3>4 DEF ReadRecord, extras
      <4>3. QED
        BY <3>1, <4>1, <4>2 DEF HookInv, Untouched
    <3>5. CASE Resolve
      <4>1. Kept
        BY <2>1, <2>2, <3>5 DEF Resolve, extras
      <4>2. /\ late = "resolve" /\ late' = "options" /\ symbols' = symbols
            /\ known' = {n \in Known : <<n>> \in DOMAIN symbols}
        BY <3>5 DEF Resolve
      <4>3. Untouched /\ Ready
        BY <4>2 DEF HookInv
      <4>4. SymbolInv' /\ Ready' = Ready /\ Untouched' = Untouched
        BY <4>1, NothingTouched
      <4>5. QED
        BY <3>1, <4>2, <4>3, <4>4 DEF HookInv
    <3>6. CASE ApplyOptions
      <4>1. /\ UNCHANGED <<unread, symbols, pdb, todo, hooked, refused, known, traced>>
            /\ late = "options" /\ late' = "hook"
            /\ options' = options \cup Settable(Options \ {MessageHook})
        BY <2>1, <2>2, <3>6 DEF ApplyOptions, loader
      <4>2. /\ SymbolInv' /\ Ready' = Ready
            /\ \A name : FirstOf(name)' = FirstOf(name)
            /\ \A o : Present(o)' <=> Present(o)
        BY <4>1, SymbolsStay DEF HookInv
      <4>3. Untouched /\ Ready /\ Complete
        BY <4>1, ReadyComplete DEF HookInv
      <4>4. Settable(Options \ {MessageHook}) = {o \in Options \ {MessageHook} : Present(o)}
        BY <4>3 DEF Settable, Complete, Present
      <4>5. OptionsSoFar'
        BY <4>1, <4>2, <4>3, <4>4 DEF OptionsSoFar, Untouched
      <4>6. HooksSoFar'
        BY <4>1, <4>3, HookSets DEF HooksSoFar, Untouched, Tails, ScriptSet
      <4>7. QED
        BY <3>1, <4>1, <4>2, <4>3, <4>5, <4>6 DEF HookInv
    <3>7. CASE InstallHook
      <4>1. /\ late = "hook" /\ UNCHANGED <<late, unread, symbols, known>>
        BY <3>7 DEF InstallHook
      <4>2. Ready /\ HooksSoFar /\ OptionsSoFar /\ known = {n \in Known : <<n>> \in DOMAIN symbols} /\ Complete
        BY <4>1, ReadyComplete DEF HookInv
      <4>3. HooksSoFar' /\ OptionsSoFar'
        BY <2>1, <3>7, <4>1, <4>2, HookStep
      <4>4. SymbolInv' /\ Ready' = Ready
        BY <2>1, <4>1, SymbolsStay DEF HookInv
      <4>5. QED
        BY <3>1, <4>1, <4>2, <4>3, <4>4 DEF HookInv
    <3>8. QED
      BY <2>8, <3>2, <3>3, <3>4, <3>5, <3>6, <3>7 DEF Late
  <2>9. QED
    BY <1>2, <2>3, <2>4, <2>5, <2>6, <2>7, <2>8 DEF MCNext, LovelyNext, Next
<1>3. QED
  BY <1>1, <1>2

\* For any PDB, any duplicates in it, and whatever safetyhook refuses: each hook is
\* on the first symbol of its name and is missed alone, but for Update; and the
\* options that are asked for and there are on, whatever became of the hooks.
THEOREM HooksAlone == MCSpec => []HooksDegradeAlone
<1>1. HookInv => HooksDegradeAlone
  <2> SUFFICES ASSUME HookInv, todo = <<>> PROVE HooksDegradeAlone
    BY DEF HooksDegradeAlone
  <2>1. HooksSoFar /\ OptionsSoFar
    BY HookSets DEF HookInv, Untouched
  <2>2. ASSUME NEW h \in Hooks
        PROVE hooked[h] = IF h \in refused \/ (h \in ScriptSet /\ UpdateLost) THEN 0 ELSE FirstOf(<<h>>)
    BY <2>1, HookSets DEF HooksSoFar, Due
  <2>3. QED
    BY <2>1, <2>2, HookSets DEF HooksDegradeAlone, OptionsSoFar, UpdateLost
<1>2. QED
  BY <1>1, HookInvInit, HookInvStep, PTL DEF MCSpec
================================================================================
