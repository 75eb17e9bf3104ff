-------------------------- MODULE PackageInstallProofs -------------------------
(* Proofs about PackageInstall, for any mods, packages and profiles, with any  *)
(* crash and any failure.                                                      *)
EXTENDS MCPackageInstall, SequenceTheorems, TLAPS

\* What the loader believes it owns is never a file of the game: the keys it
\* holds in memory, those in the record of any profile, and the one it is
\* copying over.
OwnsNoGameFile ==
  /\ \A k \in last \cup this : content[k] # Game
  /\ \A p \in Profiles : \A k \in record[p] : content[k] # Game
  /\ pc = "copying" => content[Key] # Game

PInv == TypeOK /\ OwnsNoGameFile

LEMMA GameIsGame ==
  None # Game /\ Torn # Game /\ \A m, v : Source(m, v) # Game
BY DEF None, Torn, Game, Source

LEMMA OrderLen == Len(Order) \in Nat
BY ModsAssumption, LenProperties

LEMMA KeyIsPackage ==
  ASSUME TypeOK, at <= Len(Order)
  PROVE  Mod \in Mods /\ Key \in Packages
<1>1. at \in 1..Len(Order)
  BY OrderLen DEF TypeOK
<1>2. QED
  BY <1>1, ModsAssumption, ElementOfSeq DEF Mod, Key

LEMMA PInvInit == Init => PInv
<1>. SUFFICES ASSUME Init PROVE PInv
  OBVIOUS
<1>1. 1 \in 1..Len(Order) + 1
  BY OrderLen
<1>2. TypeOK
  BY <1>1, ProfilesAssumption, ModsAssumption DEF Init, TypeOK
<1>3. OwnsNoGameFile
  BY DEF Init, OwnsNoGameFile
<1>4. QED
  BY <1>2, <1>3 DEF PInv

--------------------------------------------------------------------------------

LEMMA TypeStep == TypeOK /\ [Next]_vars => TypeOK'
<1>. SUFFICES ASSUME TypeOK, [Next]_vars PROVE TypeOK'
  OBVIOUS
<1>. USE OrderLen DEF TypeOK
<1>1. CASE ChangeMods
  <2>1. loading' \in BOOLEAN /\ present' \subseteq Mods
    BY <1>1 DEF ChangeMods
  <2>2. version' \in [Mods -> 1..MaxVersion]
    <3>1. CASE UNCHANGED version
      BY <3>1
    <3>2. ASSUME NEW m \in Mods, version[m] < MaxVersion,
                 version' = [version EXCEPT ![m] = @ + 1]
          PROVE  version' \in [Mods -> 1..MaxVersion]
      <4>1. version[m] + 1 \in 1..MaxVersion
        BY <3>2, ModsAssumption
      <4>2. QED
        BY <3>2, <4>1
    <3>3. QED
      BY <1>1, <3>1, <3>2 DEF ChangeMods
  <2>3. UNCHANGED <<content, record, profile, pc, at, last, this, redirected>>
    BY <1>1 DEF ChangeMods, process
  <2>4. QED
    BY <2>1, <2>2, <2>3
<1>2. ASSUME NEW p \in Profiles, Launch(p) PROVE TypeOK'
  BY <1>2, ProfilesAssumption DEF Launch, outside
<1>3. CASE NextWave
  BY <1>3 DEF NextWave, outside
<1>4. CASE Stop
  BY <1>4 DEF Stop, outside
<1>5. CASE Begin
  BY <1>5 DEF Begin, outside
<1>6. CASE SkipAbsent
  BY <1>6 DEF SkipAbsent, Coming, outside
<1>7. CASE RefuseForeign
  <2>1. at <= Len(Order) /\ redirected' = redirected \cup {Mod} /\ this' = this
    BY <1>7 DEF RefuseForeign, Coming, Redirect
  <2>2. QED
    BY <1>7, <2>1, KeyIsPackage DEF RefuseForeign, Coming, outside
<1>8. CASE KeepCurrent
  <2>1. at <= Len(Order) /\ this' = this \cup {Key} /\ redirected' = redirected
    BY <1>8 DEF KeepCurrent, Coming, Install
  <2>2. QED
    BY <1>8, <2>1, KeyIsPackage DEF KeepCurrent, Coming, outside
<1>9. CASE StartCopy
  BY <1>9, KeyIsPackage DEF StartCopy, Coming, outside
<1>10. CASE FinishCopy
  <2>1. at <= Len(Order) /\ this' = this \cup {Key} /\ redirected' = redirected
    BY <1>10 DEF FinishCopy, Install
  <2>2. Mod \in Mods /\ Key \in Packages
    BY <2>1, KeyIsPackage
  <2>3. version[Mod] \in 1..MaxVersion
    BY <2>2
  <2>4. QED
    BY <1>10, <2>1, <2>2, <2>3 DEF FinishCopy, Wanted, outside
<1>11. CASE FailCopy
  <2>1. at <= Len(Order) /\ redirected' = redirected \cup {Mod} /\ this' = this
    BY <1>11 DEF FailCopy, Redirect
  <2>2. QED
    BY <1>11, <2>1, KeyIsPackage DEF FailCopy, outside
<1>12. CASE Finish
  BY <1>12 DEF Finish, outside
<1>13. ASSUME NEW k \in Packages, RemoveStale(k) PROVE TypeOK'
  BY <1>13 DEF RemoveStale, outside, process
<1>14. CASE OpenRecord
  BY <1>14 DEF OpenRecord, outside
<1>15. CASE WriteRecord
  BY <1>15 DEF WriteRecord, outside
<1>16. CASE UNCHANGED vars
  BY <1>16 DEF vars, outside, process
<1>17. QED
  BY <1>1, <1>2, <1>3, <1>4, <1>5, <1>6, <1>7, <1>8, <1>9, <1>10, <1>11, <1>12,
     <1>13, <1>14, <1>15, <1>16
  DEF Next

LEMMA OwnStep == PInv /\ [Next]_vars => OwnsNoGameFile'
<1>. SUFFICES ASSUME PInv, [Next]_vars PROVE OwnsNoGameFile'
  OBVIOUS
<1>. TypeOK /\ OwnsNoGameFile
  BY DEF PInv
<1>. USE DEF OwnsNoGameFile
<1>1. CASE ChangeMods
  BY <1>1 DEF ChangeMods, process
<1>2. ASSUME NEW p \in Profiles, Launch(p) PROVE OwnsNoGameFile'
  BY <1>2 DEF Launch, outside
<1>3. CASE NextWave
  BY <1>3 DEF NextWave, outside
<1>4. CASE Stop
  BY <1>4 DEF Stop, outside
<1>5. CASE Begin
  BY <1>5 DEF Begin, outside, TypeOK
<1>6. CASE SkipAbsent
  BY <1>6 DEF SkipAbsent, Coming, outside
<1>7. CASE RefuseForeign
  BY <1>7 DEF RefuseForeign, Coming, Redirect, outside
<1>8. CASE KeepCurrent
  <2>1. this' = this \cup {Key} /\ UNCHANGED <<content, record, pc, last>> /\ pc = "install"
    BY <1>8 DEF KeepCurrent, Coming, Install
  <2>2. content[Key] # Game
    BY <1>8, GameIsGame DEF KeepCurrent, Wanted
  <2>3. QED
    BY <2>1, <2>2
<1>. DEFINE Keeps == \A k \in Packages : content[k] # Game => content'[k] # Game
<1>0. ASSUME Keeps PROVE /\ \A k \in last \cup this : content'[k] # Game
                         /\ \A p \in Profiles : \A k \in record[p] : content'[k] # Game
  BY <1>0 DEF TypeOK
<1>9. CASE StartCopy
  <2>1. /\ Key \in Packages
        /\ content' = [content EXCEPT ![Key] = Torn]
        /\ UNCHANGED <<record, last, this, at>>
    BY <1>9, KeyIsPackage DEF StartCopy, Coming
  <2>2. content'[Key] # Game /\ Keeps
    BY <2>1, GameIsGame DEF TypeOK
  <2>3. Key' = Key
    BY <2>1 DEF Key, Mod
  <2>4. QED
    BY <1>0, <2>1, <2>2, <2>3
<1>10. CASE FinishCopy
  <2>1. /\ Key \in Packages
        /\ content' = [content EXCEPT ![Key] = Wanted]
        /\ this' = this \cup {Key} /\ UNCHANGED <<record, last>> /\ pc' = "install"
    BY <1>10, KeyIsPackage DEF FinishCopy, Install, TypeOK
  <2>2. content'[Key] # Game /\ Keeps
    BY <2>1, GameIsGame DEF TypeOK, Wanted
  <2>3. QED
    BY <1>0, <2>1, <2>2
<1>11. CASE FailCopy
  BY <1>11 DEF FailCopy, Redirect, outside
<1>12. CASE Finish
  BY <1>12 DEF Finish, outside
<1>13. ASSUME NEW k \in Packages, RemoveStale(k) PROVE OwnsNoGameFile'
  <2>1. /\ content' = [content EXCEPT ![k] = None]
        /\ UNCHANGED <<record, last, this>> /\ pc' = "remove"
    BY <1>13 DEF RemoveStale, process
  <2>2. Keeps
    BY <2>1, GameIsGame DEF TypeOK
  <2>3. QED
    BY <1>0, <2>1, <2>2
<1>14. CASE OpenRecord
  BY <1>14 DEF OpenRecord, outside, TypeOK
<1>15. CASE WriteRecord
  BY <1>15 DEF WriteRecord, outside, TypeOK
<1>16. CASE UNCHANGED vars
  <2>1. UNCHANGED <<content, record, at, last, this, pc>>
    BY <1>16 DEF vars, process
  <2>2. Key' = Key
    BY <2>1 DEF Key, Mod
  <2>3. QED
    BY <2>1, <2>2
<1>17. QED
  BY <1>1, <1>2, <1>3, <1>4, <1>5, <1>6, <1>7, <1>8, <1>9, <1>10, <1>11, <1>12,
     <1>13, <1>14, <1>15, <1>16
  DEF Next

\* Every variable keeps its type.
THEOREM PackageTypes == Spec => []TypeOK
<1>1. Init => TypeOK
  BY PInvInit DEF PInv
<1>2. QED
  BY <1>1, TypeStep, PTL DEF Spec

\* No file of the game is overwritten or removed, whatever the mods name, the
\* profiles record, fails or crashes.
THEOREM GameFilesSafe == Spec => GameFilesUntouched
<1>1. PInv /\ [Next]_vars => PInv'
  BY TypeStep, OwnStep DEF PInv
<1>2. PInv /\ [Next]_vars =>
        [\A k \in Packages : content[k] = Game => content'[k] = Game]_vars
  <2>. SUFFICES ASSUME PInv, Next, NEW k \in Packages, content[k] = Game
                PROVE  content'[k] = Game
    OBVIOUS
  <2>. TypeOK /\ OwnsNoGameFile
    BY DEF PInv
  <2>1. CASE StartCopy
    <3>1. Key # k
      BY <2>1, GameIsGame DEF StartCopy, Foreign, OwnsNoGameFile
    <3>2. QED
      BY <2>1, <3>1 DEF StartCopy, TypeOK
  <2>2. CASE FinishCopy
    <3>1. Key # k
      BY <2>2 DEF FinishCopy, OwnsNoGameFile
    <3>2. QED
      BY <2>2, <3>1 DEF FinishCopy, TypeOK
  <2>3. ASSUME NEW s \in Packages, RemoveStale(s) PROVE content'[k] = Game
    <3>1. s # k
      BY <2>3 DEF RemoveStale, Stale, OwnsNoGameFile
    <3>2. QED
      BY <2>3, <3>1 DEF RemoveStale, TypeOK
  <2>4. CASE UNCHANGED content
    BY <2>4
  <2>5. QED
    BY <2>1, <2>2, <2>3, <2>4
    DEF Next, ChangeMods, Launch, NextWave, Stop, Begin, SkipAbsent, RefuseForeign,
        KeepCurrent, FailCopy, Finish, OpenRecord, WriteRecord
<1>3. QED
  BY <1>1, <1>2, PInvInit, PTL DEF Spec, GameFilesUntouched

--------------------------------------------------------------------------------
(* The record and what is in Content, unless something died or failed.         *)

Scanning == pc \in {"install", "copying", "remove", "write"}

Known == UNION {record[p] : p \in Profiles}

\* Installed by the scan in progress, and in no record yet.
Pending == CASE pc \in {"install", "remove", "write"} -> this
             [] pc = "copying" -> this \cup {Key}
             [] OTHER -> {}

\* The record is what begin_package_install read, until it is opened; from then
\* on it is empty, and only `this` knows what it held and is still wanted.
RecordRead ==
  /\ pc \in {"install", "copying", "remove"} => last = record[profile]
  /\ pc = "write" => record[profile] = {}

Accounted == crashed \/ failed \/ Loaders \subseteq Known \cup Pending

\* Nothing but the first profile has a record, until a second one is launched.
OneProfile ==
  /\ first \in Profiles \cup {NoProfile}
  /\ first # NoProfile => /\ profile \in {first, NoProfile}
                          /\ \A q \in Profiles \ {first} : record[q] = {}

\* What a scan installs is wanted: the mods do not change under it.
OnlyWanted ==
  /\ Scanning => this \subseteq {Target[m] : m \in present}
  /\ pc = "copying" => Mod \in present

\* The mods a scan has come past: each is redirected, or its target is
\* installed, and holds the current version of some mod's package.
Past(m) == \E i \in 1..Len(Order) : i < at /\ Order[i] = m
Served(m) ==
  /\ Target[m] \in this
  /\ \E n \in present : Target[n] = Target[m]
                        /\ content[Target[m]] = Source(n, version[n])
CurrentSoFar ==
  /\ pc \in {"remove", "write"} => at > Len(Order)
  /\ Scanning /\ ~failed =>
       \A m \in present :
         Past(m) => \/ m \in redirected
                    \/ Served(m)
                    \/ pc = "copying" /\ Target[m] = Key

RInv == TypeOK /\ RecordRead /\ Accounted /\ OneProfile /\ OnlyWanted /\ CurrentSoFar

LEMMA NotLoaders == None # Torn /\ \A m, v : Source(m, v) \notin {None, Game, Torn}
BY DEF None, Torn, Game, Source

\* The mod a scan has come to: what `at + 1` adds to the mods it is past.
LEMMA PastNext ==
  ASSUME TypeOK, at <= Len(Order), at' = at + 1, NEW m \in Mods, Past(m)', m # Mod
  PROVE  Past(m)
<1>1. at \in 1..Len(Order) /\ Len(Order) \in Nat
  BY OrderLen DEF TypeOK
<1>2. QED
  BY <1>1 DEF Past, Mod

\* Order names every mod.
LEMMA AllPast ==
  ASSUME TypeOK, at > Len(Order), NEW m \in Mods
  PROVE  Past(m)
<1>1. DOMAIN Order = 1..Len(Order) /\ Len(Order) \in Nat
  BY OrderLen, ModsAssumption, LenProperties
<1>2. PICK i \in 1..Len(Order) : Order[i] = m
  BY <1>1, ModsAssumption
<1>3. QED
  BY <1>1, <1>2 DEF Past, TypeOK

LEMMA RInvInit == MCInit => RInv
<1>. SUFFICES ASSUME MCInit PROVE RInv
  OBVIOUS
<1>1. Init /\ TypeOK /\ first \in Profiles
  BY PInvInit DEF MCInit, PInv
<1>2. Loaders = {}
  BY <1>1 DEF Init, Loaders
<1>3. RecordRead /\ Accounted /\ OnlyWanted /\ CurrentSoFar
  BY <1>1, <1>2 DEF Init, RecordRead, Accounted, OnlyWanted, CurrentSoFar, Scanning
<1>4. OneProfile
  BY <1>1 DEF Init, OneProfile
<1>5. QED
  BY <1>1, <1>3, <1>4 DEF RInv

--------------------------------------------------------------------------------

LEMMA RecordReadStep == TypeOK /\ RecordRead /\ [Next]_vars => RecordRead'
<1>. SUFFICES ASSUME TypeOK, RecordRead, [Next]_vars PROVE RecordRead'
  OBVIOUS
<1>. USE DEF RecordRead
<1>1. CASE Begin
  BY <1>1 DEF Begin
<1>2. CASE OpenRecord \/ WriteRecord
  <2>1. profile \in Profiles /\ profile' = profile
    BY <1>2 DEF TypeOK, OpenRecord, WriteRecord
  <2>2. QED
    BY <1>2, <2>1 DEF TypeOK, OpenRecord, WriteRecord
<1>3. CASE /\ UNCHANGED record
           /\ pc' \in {"install", "copying", "remove", "write"} =>
                /\ UNCHANGED <<last, profile>>
                /\ pc' = "write" => pc = "write"
                /\ pc \in {"install", "copying", "remove", "write"}
                /\ pc' # "write" => pc # "write"
  BY <1>3
<1>4. QED
  BY <1>1, <1>2, <1>3
  DEF Next, ChangeMods, NextWave, Stop, Launch, SkipAbsent, RefuseForeign,
      KeepCurrent, StartCopy, FinishCopy, FailCopy, Finish, RemoveStale, Coming,
      vars, process, outside

LEMMA OneProfileStep ==
  TypeOK /\ OneProfile /\ [MCNext]_<<vars, crashed, failed, skipped, first>> => OneProfile'
<1>. SUFFICES ASSUME TypeOK, OneProfile,
                     [MCNext]_<<vars, crashed, failed, skipped, first>>
              PROVE  OneProfile'
  OBVIOUS
<1>. USE ProfilesAssumption DEF OneProfile
<1>1. CASE MCNext
  <2>1. first' = IF profile' \in {NoProfile, first} THEN first ELSE NoProfile
    BY <1>1 DEF MCNext
  <2>2. CASE UNCHANGED record
    BY <2>1, <2>2
  <2>3. CASE OpenRecord \/ WriteRecord
    <3>1. /\ pc # "off" /\ profile' = profile
          /\ \E r : record' = [record EXCEPT ![profile] = r]
             \/ UNCHANGED record
      BY <2>3 DEF OpenRecord, WriteRecord
    <3>2. profile \in Profiles
      BY <3>1 DEF TypeOK
    <3>3. QED
      BY <2>1, <3>1, <3>2 DEF TypeOK
  <2>4. QED
    BY <1>1, <2>2, <2>3
    DEF MCNext, Next, ChangeMods, NextWave, Stop, Launch, Begin, SkipAbsent,
        RefuseForeign, KeepCurrent, StartCopy, FinishCopy, FailCopy, Finish,
        RemoveStale
<1>2. CASE UNCHANGED <<vars, crashed, failed, skipped, first>>
  BY <1>2 DEF vars, process
<1>3. QED
  BY <1>1, <1>2

LEMMA OnlyWantedStep == TypeOK /\ OnlyWanted /\ [Next]_vars => OnlyWanted'
<1>. SUFFICES ASSUME TypeOK, OnlyWanted, [Next]_vars PROVE OnlyWanted'
  OBVIOUS
<1>. USE DEF OnlyWanted, Scanning
<1>1. CASE KeepCurrent \/ FinishCopy
  <2>1. /\ Mod \in present /\ this' = this \cup {Key} /\ UNCHANGED present
        /\ pc \in {"install", "copying"} /\ pc' # "copying"
    BY <1>1 DEF KeepCurrent, FinishCopy, Install, Coming, outside
  <2>2. QED
    BY <2>1 DEF Key
<1>2. CASE StartCopy
  <2>1. Mod \in present /\ UNCHANGED <<this, present, at>> /\ pc = "install"
    BY <1>2 DEF StartCopy, Coming, outside
  <2>2. QED
    BY <2>1 DEF Mod
<1>3. CASE Begin
  BY <1>3 DEF Begin
<1>4. CASE /\ UNCHANGED <<this, present, at>>
           /\ Scanning' => Scanning
           /\ pc' = "copying" => pc = "copying"
  BY <1>4 DEF Mod
<1>5. CASE pc' \in {"off", "scan", "done"}
  BY <1>5
<1>6. CASE (SkipAbsent \/ RefuseForeign \/ FailCopy) /\ ~Begin
  BY <1>6 DEF SkipAbsent, RefuseForeign, FailCopy, Coming, Redirect, outside
<1>7. QED
  BY <1>1, <1>2, <1>3, <1>4, <1>5, <1>6
  DEF Next, ChangeMods, NextWave, Stop, Launch, Finish, OpenRecord, WriteRecord,
      RemoveStale, Begin, SkipAbsent, RefuseForeign, FailCopy, Coming,
      vars, process, outside

--------------------------------------------------------------------------------

LEMMA AccountedStep ==
  ASSUME TypeOK, RecordRead, Accounted,
         [MCNext]_<<vars, crashed, failed, skipped, first>>
  PROVE  Accounted'
<1>. SUFFICES ASSUME ~crashed', ~failed'
              PROVE  Loaders' \subseteq Known' \cup Pending'
  BY DEF Accounted
<1>1. CASE UNCHANGED <<vars, crashed, failed, skipped, first>>
  BY <1>1 DEF vars, process, Accounted, Loaders, Known, Pending, Key, Mod
<1>2. CASE MCNext
  <2>1. /\ ~crashed /\ ~failed /\ Next
        /\ ~FailCopy /\ ~(OpenRecord /\ (Stale # {} \/ pc' = "done"))
        /\ ~(pc \notin {"off", "done"} /\ pc' = "off")
    BY <1>2 DEF MCNext
  <2>2. Loaders \subseteq Known \cup Pending
    BY <2>1 DEF Accounted
  <2>3. CASE StartCopy \/ FinishCopy
    <3>1. /\ at <= Len(Order) /\ Known' = Known
          /\ \E x : content' = [content EXCEPT ![Key] = x]
      BY <2>3 DEF StartCopy, FinishCopy, Coming, TypeOK, Known
    <3>2. Loaders' \subseteq Loaders \cup {Key} /\ Key \in Packages
      BY <3>1, KeyIsPackage DEF Loaders, TypeOK
    <3>3. CASE StartCopy
      <4>1. Pending' = Pending \cup {Key}
        BY <3>3 DEF StartCopy, Coming, Pending, Key, Mod
      <4>2. QED
        BY <2>2, <3>1, <3>2, <4>1
    <3>4. CASE FinishCopy
      <4>1. Pending' = Pending
        BY <3>4 DEF FinishCopy, Install, Pending
      <4>2. Key \in Pending
        BY <3>4 DEF FinishCopy, Pending
      <4>3. QED
        BY <2>2, <3>1, <3>2, <4>1, <4>2
    <3>5. QED
      BY <2>3, <3>3, <3>4
  <2>4. ASSUME NEW k \in Packages, RemoveStale(k)
        PROVE  Loaders' \subseteq Known' \cup Pending'
    <3>1. Known' = Known /\ Pending' = Pending
      BY <2>4 DEF RemoveStale, process, Known, Pending
    <3>2. Loaders' \subseteq Loaders
      BY <2>4 DEF RemoveStale, Loaders, TypeOK
    <3>3. QED
      BY <2>2, <3>1, <3>2
  <2>5. CASE OpenRecord
    <3>1. /\ pc = "remove" /\ pc' = "write" /\ Stale = {}
          /\ record' = [record EXCEPT ![profile] = {}]
          /\ UNCHANGED <<content, this, last, profile>>
      BY <2>1, <2>5 DEF OpenRecord
    <3>2. profile \in Profiles /\ last = record[profile]
      BY <3>1 DEF TypeOK, RecordRead
    <3>3. Loaders' = Loaders /\ Pending' = this /\ Pending = this
      BY <3>1 DEF Loaders, Pending
    <3>4. ASSUME NEW k \in Loaders, k \notin this PROVE k \in Known'
      <4>1. k \notin last
        BY <3>1, <3>4 DEF Stale, Loaders
      <4>2. PICK p \in Profiles : k \in record[p]
        BY <2>2, <3>3, <3>4 DEF Known
      <4>3. record'[p] = record[p]
        BY <3>1, <3>2, <4>1, <4>2 DEF TypeOK
      <4>4. QED
        BY <4>2, <4>3 DEF Known
    <3>5. QED
      BY <2>2, <3>3, <3>4
  <2>6. CASE WriteRecord
    <3>1. /\ pc = "write" /\ pc' = "done" /\ record[profile] = {}
          /\ record' = [record EXCEPT ![profile] = this]
          /\ profile \in Profiles /\ UNCHANGED content
      BY <2>6 DEF WriteRecord, TypeOK, RecordRead
    <3>2. Loaders' = Loaders /\ Pending = this
      BY <3>1 DEF Loaders, Pending
    <3>3. Known \cup this \subseteq Known'
      BY <3>1 DEF Known, TypeOK
    <3>4. QED
      BY <2>2, <3>2, <3>3
  <2>7. CASE Begin
    <3>1. Pending = {} /\ UNCHANGED <<content, record>>
      BY <2>7 DEF Begin, Pending
    <3>2. QED
      BY <2>2, <3>1 DEF Loaders, Known
  <2>8. CASE /\ UNCHANGED <<content, record>> /\ Pending \subseteq Pending'
    BY <2>2, <2>8 DEF Loaders, Known
  <2>9. CASE Stop
    <3>1. Pending = {} /\ UNCHANGED <<content, record>>
      BY <2>1, <2>9 DEF Stop, Pending
    <3>2. QED
      BY <2>2, <3>1 DEF Loaders, Known
  <2>10. ChangeMods \/ NextWave \/ (\E p \in Profiles : Launch(p)) \/ SkipAbsent
         \/ RefuseForeign \/ KeepCurrent \/ Finish
           => UNCHANGED <<content, record>> /\ Pending \subseteq Pending'
    BY DEF ChangeMods, NextWave, Launch, SkipAbsent, RefuseForeign, KeepCurrent,
           Finish, Coming, Redirect, Install, process, Pending
  <2>11. QED
    BY <2>1, <2>3, <2>4, <2>5, <2>6, <2>7, <2>8, <2>9, <2>10 DEF Next
<1>3. QED
  BY <1>1, <1>2

\* What a mod that was passed keeps, when its target is left as it is.
LEMMA StillServed ==
  ASSUME NEW m \in Mods, UNCHANGED <<present, version>>,
         this \subseteq this', redirected \subseteq redirected',
         content'[Target[m]] = content[Target[m]],
         m \in redirected \/ Served(m)
  PROVE  m \in redirected' \/ Served(m)'
BY DEF Served

LEMMA CurrentStep ==
  ASSUME TypeOK, CurrentSoFar, OnlyWanted,
         [MCNext]_<<vars, crashed, failed, skipped, first>>
  PROVE  CurrentSoFar'
<1>1. CASE UNCHANGED <<vars, crashed, failed, skipped, first>>
  BY <1>1 DEF vars, outside, process, CurrentSoFar, Scanning, Past, Served, Key, Mod
<1>2. CASE MCNext
  <2>. USE OrderLen
  <2>0. Next
    BY <1>2 DEF MCNext
  <2>1. pc' \in {"remove", "write"} => at' > Len(Order)
    BY <2>0
    DEF CurrentSoFar, Next, ChangeMods, NextWave, Stop, Launch, Begin, SkipAbsent,
        RefuseForeign, KeepCurrent, StartCopy, FinishCopy, FailCopy, Finish,
        OpenRecord, WriteRecord, RemoveStale, Coming, process
  <2>. SUFFICES ASSUME Scanning', ~failed', NEW m \in present', Past(m)'
                PROVE  \/ m \in redirected'
                       \/ Served(m)'
                       \/ pc' = "copying" /\ Target[m] = Key'
    BY <2>1 DEF CurrentSoFar
  <2>2. ~failed /\ ~FailCopy
    BY <1>2 DEF MCNext
  <2>3. CASE Begin
    BY <2>3 DEF Begin, Past, Scanning
  <2>4. ASSUME ~Begin PROVE Scanning /\ UNCHANGED <<present, version>>
    BY <2>0, <2>4
    DEF Next, ChangeMods, NextWave, Stop, Launch, SkipAbsent, RefuseForeign,
        KeepCurrent, StartCopy, FinishCopy, FailCopy, Finish, OpenRecord,
        WriteRecord, RemoveStale, Coming, outside, process, Scanning
  <2>. SUFFICES ASSUME ~Begin
                PROVE  \/ m \in redirected'
                       \/ Served(m)'
                       \/ pc' = "copying" /\ Target[m] = Key'
    BY <2>3
  <2>5. /\ Scanning /\ m \in present /\ m \in Mods
        /\ UNCHANGED <<present, version>>
        /\ Past(m) => m \in redirected \/ Served(m)
                      \/ (pc = "copying" /\ Target[m] = Key)
    BY <2>2, <2>4 DEF CurrentSoFar, TypeOK
  <2>6. CASE SkipAbsent
    <3>1. /\ m # Mod /\ at <= Len(Order) /\ at' = at + 1 /\ pc = "install"
          /\ UNCHANGED <<content, this, redirected>>
      BY <2>5, <2>6 DEF SkipAbsent, Coming
    <3>2. QED
      BY <3>1, <2>5, PastNext, StillServed
  <2>7. CASE RefuseForeign
    <3>1. /\ at <= Len(Order) /\ at' = at + 1 /\ pc = "install"
          /\ redirected' = redirected \cup {Mod} /\ UNCHANGED <<content, this>>
      BY <2>7 DEF RefuseForeign, Coming, Redirect
    <3>2. CASE m = Mod
      BY <3>1, <3>2
    <3>3. CASE m # Mod
      BY <3>1, <3>3, <2>5, PastNext, StillServed
    <3>4. QED
      BY <3>2, <3>3
  <2>8. CASE KeepCurrent
    <3>1. /\ at <= Len(Order) /\ at' = at + 1 /\ pc = "install"
          /\ this' = this \cup {Key} /\ UNCHANGED <<content, redirected>>
          /\ content[Key] = Wanted
      BY <2>8 DEF KeepCurrent, Coming, Install
    <3>2. CASE m = Mod
      BY <3>1, <3>2, <2>5 DEF Served, Wanted, Key
    <3>3. CASE m # Mod
      BY <3>1, <3>3, <2>5, PastNext, StillServed
    <3>4. QED
      BY <3>2, <3>3
  <2>9. CASE StartCopy
    <3>1. /\ at <= Len(Order) /\ UNCHANGED <<at, this, redirected>>
          /\ pc = "install" /\ pc' = "copying"
          /\ content' = [content EXCEPT ![Key] = Torn]
      BY <2>9 DEF StartCopy, Coming
    <3>2. Past(m) /\ Key' = Key
      BY <3>1 DEF Past, Key, Mod
    <3>3. CASE Target[m] # Key
      <4>1. content'[Target[m]] = content[Target[m]]
        BY <3>1, <3>3, <2>5, ModsAssumption DEF TypeOK
      <4>2. QED
        BY <3>1, <3>2, <4>1, <2>5, StillServed
    <3>4. QED
      BY <3>1, <3>2, <3>3
  <2>10. CASE FinishCopy
    <3>1. /\ at <= Len(Order) /\ at' = at + 1
          /\ this' = this \cup {Key} /\ UNCHANGED redirected
          /\ content' = [content EXCEPT ![Key] = Wanted]
          /\ Mod \in present /\ Mod \in Mods /\ Key \in Packages
      BY <2>10, KeyIsPackage DEF FinishCopy, Install, TypeOK, OnlyWanted
    <3>2. CASE Target[m] = Key
      <4>1. content'[Target[m]] = Source(Mod, version[Mod])
        BY <3>1, <3>2 DEF TypeOK, Wanted
      <4>2. Target[Mod] = Target[m] /\ Target[m] \in this'
        BY <3>1, <3>2 DEF Key
      <4>3. QED
        BY <4>1, <4>2, <3>1, <2>5 DEF Served
    <3>3. CASE Target[m] # Key
      <4>1. content'[Target[m]] = content[Target[m]] /\ m # Mod
        BY <3>1, <3>3, <2>5, ModsAssumption DEF TypeOK, Key
      <4>2. QED
        BY <3>1, <3>3, <4>1, <2>5, PastNext, StillServed
    <3>4. QED
      BY <3>2, <3>3
  <2>11. ASSUME NEW k \in Packages, RemoveStale(k)
         PROVE  m \in redirected' \/ Served(m)'
    <3>1. /\ k \notin this /\ UNCHANGED <<at, this, redirected>> /\ pc = "remove"
          /\ content' = [content EXCEPT ![k] = None]
      BY <2>11 DEF RemoveStale, Stale, process
    <3>2. Past(m)
      BY <3>1 DEF Past
    <3>3. CASE Served(m)
      <4>1. content'[Target[m]] = content[Target[m]]
        BY <3>1, <3>3, <2>5, ModsAssumption DEF Served, TypeOK
      <4>2. QED
        BY <4>1, <3>1, <3>3, <2>5, StillServed
    <3>4. QED
      BY <3>1, <3>2, <3>3, <2>5
  <2>12. CASE Finish \/ OpenRecord
    <3>1. UNCHANGED <<content, at, this, redirected>> /\ pc # "copying"
      BY <2>12 DEF Finish, OpenRecord
    <3>2. Past(m)
      BY <3>1 DEF Past
    <3>3. QED
      BY <3>1, <3>2, <2>5, StillServed
  <2>13. ~(ChangeMods \/ NextWave \/ Stop \/ WriteRecord \/ \E p \in Profiles : Launch(p))
    BY <2>5 DEF ChangeMods, NextWave, Stop, WriteRecord, Launch, Scanning, process
  <2>14. QED
    BY <2>0, <2>2, <2>6, <2>7, <2>8, <2>9, <2>10, <2>11, <2>12, <2>13 DEF Next
<1>3. QED
  BY <1>1, <1>2

LEMMA RInvStep ==
  RInv /\ [MCNext]_<<vars, crashed, failed, skipped, first>> => RInv'
<1>. SUFFICES ASSUME RInv, [MCNext]_<<vars, crashed, failed, skipped, first>>
              PROVE  RInv'
  OBVIOUS
<1>1. [Next]_vars
  BY DEF MCNext
<1>2. QED
  BY <1>1, TypeStep, RecordReadStep, AccountedStep, OneProfileStep, OnlyWantedStep,
     CurrentStep
  DEF RInv

--------------------------------------------------------------------------------

\* A file the loader put into Content is in the record of some profile whenever
\* no scan is under way, unless a scan has died or failed.
THEOREM Recorded == MCSpec => []RecordedUnlessUpset
<1>1. RInv => RecordedUnlessUpset
  <2>. SUFFICES ASSUME RInv, ~crashed, ~failed, pc \in {"off", "done"}
                PROVE  Loaders \subseteq Known
    BY DEF RecordedUnlessUpset, EverythingRecorded, Known
  <2>1. Pending = {}
    BY DEF Pending
  <2>2. QED
    BY <2>1 DEF RInv, Accounted
<1>2. QED
  BY <1>1, RInvInit, RInvStep, PTL DEF MCSpec

\* With one profile, nothing that dies or fails and a folder to load, a scan
\* leaves none of the packages of the mods that were removed.
THEOREM NothingStays == MCSpec => OnlyWantedUnlessUpset
<1>1. RInv /\ [MCNext]_<<vars, crashed, failed, skipped, first>> =>
        [pc # "done" /\ pc' = "done" =>
           \/ crashed' \/ failed' \/ skipped' \/ first' = NoProfile
           \/ \A k \in Loaders' : \E m \in present : Target[m] = k]_vars
  <2>. SUFFICES ASSUME RInv, MCNext, pc # "done", pc' = "done",
                       ~crashed', ~failed', ~skipped', first' # NoProfile,
                       NEW k \in Loaders'
                PROVE  \E m \in present : Target[m] = k
    BY DEF vars
  <2>1. /\ Next /\ ~crashed /\ ~failed /\ first # NoProfile
        /\ ~(OpenRecord /\ (Stale # {} \/ pc' = "done"))
        /\ ~(pc = "scan" /\ pc' = "done")
    BY DEF MCNext
  <2>2. WriteRecord
    BY <2>1 DEF Next, ChangeMods, NextWave, Stop, Launch, Begin, SkipAbsent,
        RefuseForeign, KeepCurrent, StartCopy, FinishCopy, FailCopy, Finish,
        RemoveStale, Coming, process
  <2>3. /\ pc = "write" /\ content' = content /\ record[profile] = {}
        /\ profile = first /\ first \in Profiles
    BY <2>1, <2>2 DEF WriteRecord, RInv, RecordRead, OneProfile, TypeOK
  <2>4. Known = {}
    BY <2>1, <2>3 DEF RInv, OneProfile, Known
  <2>5. k \in this
    BY <2>1, <2>3, <2>4 DEF RInv, Accounted, Pending, Loaders
  <2>6. QED
    BY <2>3, <2>5 DEF RInv, OnlyWanted, Scanning
<1>2. QED
  BY <1>1, RInvInit, RInvStep, PTL DEF MCSpec, OnlyWantedUnlessUpset

\* Unless something failed: a scan serves each mod's package in its current
\* version, redirects it, or leaves the file to another mod; whatever crashes
\* and other profiles left behind.
THEOREM CurrentServed == MCSpec => CurrentUnlessFailed
<1>1. RInv /\ [MCNext]_<<vars, crashed, failed, skipped, first>> =>
        [pc = "write" /\ pc' = "done" =>
           \/ failed'
           \/ \A m \in present :
                \/ m \in redirected
                \/ \E n \in present : /\ Target[n] = Target[m]
                                      /\ content[Target[m]] = Source(n, version[n])]_vars
  <2>. SUFFICES ASSUME RInv, MCNext, pc = "write", ~failed', NEW m \in present,
                       m \notin redirected
                PROVE  \E n \in present : /\ Target[n] = Target[m]
                                          /\ content[Target[m]] = Source(n, version[n])
    OBVIOUS
  <2>1. ~failed
    BY DEF MCNext
  <2>2. TypeOK /\ CurrentSoFar
    BY DEF RInv
  <2>3. m \in Mods /\ at > Len(Order)
    BY <2>2 DEF TypeOK, CurrentSoFar
  <2>4. Past(m)
    BY <2>2, <2>3, AllPast
  <2>5. QED
    BY <2>1, <2>2, <2>4 DEF CurrentSoFar, Scanning, Served
<1>2. QED
  BY <1>1, RInvInit, RInvStep, PTL DEF MCSpec, CurrentUnlessFailed
================================================================================
