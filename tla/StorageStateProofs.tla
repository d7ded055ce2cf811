------------------------- MODULE StorageStateProofs -------------------------
(***************************************************************************)
(* Proofs about StorageState for any number of sessions and any number of  *)
(* files that go bad.                                                      *)
(***************************************************************************)
EXTENDS StorageState, SequenceTheorems, TLAPS

\* Whoever is inside a load or a commit holds the flock.
Holders == \A s \in Sessions : at[s] \in LoadPoints \cup CommitPoints => lock = s

\* The committed files are the versions, and the last two are on disk.
Committed ==
    /\ manifest = Len(versions)
    /\ \A n \in DOMAIN files : n <= manifest => files[n] = versions[n]
    /\ \A n \in {manifest - 1, manifest} : n > 0 => n \in DOMAIN files

\* What a session in the middle of a load relies on.
Importing(s) ==
    /\ at[s] \in {"importing", "imported"} => manifest = 0 /\ legacy = "whole"
    /\ at[s] = "imported" => 1 \in DOMAIN files /\ files[1] = {Legacy}
    /\ at[s] = "archiving" => manifest = 1

\* What a session relies on from the snapshot to the end of its commit.
Following(s) ==
    /\ at[s] \in {"opening", "using"} => loaded[s] <= manifest
    /\ at[s] \in {"saving", "published"} => loaded[s] = manifest
    /\ at[s] = "published" =>
         manifest + 1 \in DOMAIN files /\ files[manifest + 1] = jar[s]
    /\ at[s] = "pruning" => manifest = loaded[s] + 1
    /\ at[s] \in {"using", "saving", "published"} /\ loaded[s] > 0 =>
         versions[loaded[s]] \subseteq jar[s]

\* While the old file waits for its import nobody has a snapshot.
Unimported ==
    manifest = 0 /\ legacy = "whole" =>
        \A s \in Sessions : at[s] \in {"idle", "over", "importing", "imported"}

StorageInv ==
    /\ TypeOK
    /\ Holders
    /\ Committed
    /\ \A s \in Sessions : Importing(s) /\ Following(s)
    /\ Unimported

-----------------------------------------------------------------------------
(* What the pieces of a step do *)

\* Replacing one state file leaves the other files alone.
LEMMA WrittenState ==
    ASSUME TypeOK, NEW n \in 1 .. manifest + 1, NEW logins \in SUBSET Logins,
           WriteState(n, logins), manifest' = manifest
    PROVE  /\ DOMAIN files' = DOMAIN files \cup {n}
           /\ files'[n] = logins
           /\ \A m \in DOMAIN files : m # n => files'[m] = files[m]
           /\ DOMAIN files' \subseteq 1 .. manifest' + 1
           /\ files' \in [DOMAIN files' -> SUBSET Logins]
           /\ damaged' \subseteq DOMAIN files' \cup {ManifestFile}
BY DEF TypeOK, WriteState

\* Appending a version keeps those there are.
LEMMA Appended ==
    ASSUME versions \in Seq(SUBSET Logins), NEW logins \in SUBSET Logins,
           versions' = Append(versions, logins)
    PROVE  /\ versions' \in Seq(SUBSET Logins)
           /\ Len(versions') = Len(versions) + 1
           /\ versions'[Len(versions) + 1] = logins
           /\ \A n \in 1 .. Len(versions) : versions'[n] = versions[n]
OBVIOUS

-----------------------------------------------------------------------------
(* The invariant *)

LEMMA InitInv == Init => StorageInv
BY NamesAssumption DEF Init, StorageInv, TypeOK, Holders, Committed, Importing, Following,
       Unimported, Points, LoadPoints, CommitPoints, Logins

\* A session that ends, with nothing else changed, disturbs nobody.
LEMMA RefuseInv ==
    ASSUME StorageInv, NEW s \in Sessions, Refuse(s)
    PROVE  StorageInv'
<1> USE DEF StorageInv, Refuse, Finish, Goto, disk
<1>1. TypeOK'
  BY DEF TypeOK, Points
<1>2. Holders'
  BY DEF TypeOK, Holders, LoadPoints, CommitPoints
<1>3. Committed'
  BY DEF Committed
<1>4. ASSUME NEW u \in Sessions PROVE (Importing(u) /\ Following(u))'
  BY <1>4 DEF TypeOK, Importing, Following
<1>5. Unimported'
  BY DEF TypeOK, Unimported
<1> QED BY <1>1, <1>2, <1>3, <1>4, <1>5

\* Steps of load that write no file.
LEMMA LoadInv ==
    ASSUME StorageInv, NEW s \in Sessions,
           Load(s) \/ LoadAbsent(s) \/ LoadLegacy(s) \/ ArchiveLegacy(s)
    PROVE  StorageInv'
<1> USE DEF StorageInv, Load, LoadAbsent, LoadLegacy, ArchiveLegacy, Loaded, Goto, Free, disk
<1>1. TypeOK'
  <2>1. CASE Load(s)
    BY <2>1 DEF TypeOK, Points
  <2>2. CASE LoadAbsent(s)
    BY <2>2 DEF TypeOK, Points
  <2>3. CASE LoadLegacy(s)
    BY <2>3 DEF TypeOK, Points, LoadPoints
  <2>4. CASE ArchiveLegacy(s)
    BY <2>4 DEF TypeOK, Points
  <2> QED BY <2>1, <2>2, <2>3, <2>4
<1>2. Holders'
  BY NamesAssumption DEF TypeOK, Holders, LoadPoints, CommitPoints
<1>3. Committed'
  BY DEF Committed
<1>4. ASSUME NEW u \in Sessions PROVE (Importing(u) /\ Following(u))'
  BY <1>4, NamesAssumption DEF TypeOK, Importing, Following, Holders, LoadPoints, CommitPoints
<1>5. Unimported'
  BY DEF TypeOK, Unimported, Importing
<1> QED BY <1>1, <1>2, <1>3, <1>4, <1>5

\* The two writes of a migration.
LEMMA ImportInv ==
    ASSUME StorageInv, NEW s \in Sessions, ImportState(s) \/ ImportManifest(s)
    PROVE  StorageInv'
<1> USE DEF StorageInv, Goto
<1>0. /\ manifest = 0 /\ legacy = "whole" /\ lock = s
      /\ at[s] = "imported" => 1 \in DOMAIN files /\ files[1] = {Legacy}
      /\ {Legacy} \in SUBSET Logins
      /\ at[s] \in {"importing", "imported"}
  BY DEF ImportState, ImportManifest, Importing, Holders, LoadPoints, Logins
<1>1. CASE ImportState(s)
  <2>1. /\ DOMAIN files' = DOMAIN files \cup {1}
        /\ files'[1] = {Legacy}
        /\ DOMAIN files' \subseteq 1 .. manifest' + 1
        /\ files' \in [DOMAIN files' -> SUBSET Logins]
        /\ damaged' \subseteq DOMAIN files' \cup {ManifestFile}
    <3>1. TypeOK /\ 1 \in 1 .. manifest + 1 /\ manifest' = manifest
      BY <1>0, <1>1 DEF ImportState
    <3>2. WriteState(1, {Legacy})
      BY <1>1 DEF ImportState
    <3> QED BY <1>0, <3>1, <3>2, WrittenState
  <2>2. TypeOK'
    BY <1>1, <2>1 DEF ImportState, TypeOK, Points, LoadPoints
  <2>3. Holders'
    BY <1>0, <1>1 DEF ImportState, Holders, TypeOK
  <2>4. Committed'
    <3>1. manifest' = 0 /\ versions' = versions /\ 0 = Len(versions)
      BY <1>0, <1>1 DEF ImportState, Committed
    <3>2. \A n \in DOMAIN files' : n \in 1 .. 1
      BY <2>1, <3>1
    <3>3. \A n \in {manifest' - 1, manifest'} : ~(n > 0)
      BY <3>1
    <3>4. \A n \in DOMAIN files' : ~(n <= manifest')
      BY <3>1, <3>2
    <3> QED BY <3>1, <3>3, <3>4 DEF Committed
  <2>5. ASSUME NEW u \in Sessions PROVE (Importing(u) /\ Following(u))'
    BY <1>0, <1>1, <2>1, <2>5
       DEF ImportState, Importing, Following, Holders, LoadPoints, CommitPoints, TypeOK
  <2>6. Unimported'
    BY <1>0, <1>1 DEF ImportState, Unimported, TypeOK
  <2> QED BY <2>2, <2>3, <2>4, <2>5, <2>6
<1>2. CASE ImportManifest(s)
  <2>1. versions' \in Seq(SUBSET Logins) /\ Len(versions') = 1 /\ versions'[1] = {Legacy}
    <3>1. versions \in Seq(SUBSET Logins) /\ Len(versions) = 0
      BY <1>0 DEF Committed, TypeOK
    <3>2. versions' = Append(versions, {Legacy})
      BY <1>2 DEF ImportManifest
    <3> QED BY <1>0, <3>1, <3>2, Appended
  <2>2. TypeOK'
    BY <1>0, <1>2, <2>1 DEF ImportManifest, WriteManifest, TypeOK, Points, LoadPoints
  <2>3. Holders'
    BY <1>0, <1>2 DEF ImportManifest, Holders, TypeOK
  <2>4. Committed'
    BY <1>0, <1>2, <2>1 DEF ImportManifest, WriteManifest, Committed, TypeOK
  <2>5. ASSUME NEW u \in Sessions PROVE (Importing(u) /\ Following(u))'
    BY <1>0, <1>2, <2>1, <2>5
       DEF ImportManifest, WriteManifest, Importing, Following, Holders, Unimported,
           LoadPoints, CommitPoints, TypeOK
  <2>6. Unimported'
    BY <1>0, <1>2 DEF ImportManifest, WriteManifest, Unimported, TypeOK
  <2> QED BY <2>2, <2>3, <2>4, <2>5, <2>6
<1> QED BY <1>1, <1>2

\* Opening, signing in, and taking the lock to commit.
LEMMA UseInv ==
    ASSUME StorageInv, NEW s \in Sessions, Open(s) \/ SignIn(s) \/ CommitCheck(s)
    PROVE  StorageInv'
<1> USE DEF StorageInv, Open, SignIn, CommitCheck, Unchanged, Goto, Free, disk
<1>0. at[s] = "opening" /\ loaded[s] > 0 /\ Readable(loaded[s]) =>
        files[loaded[s]] = versions[loaded[s]] /\ files[loaded[s]] \in SUBSET Logins
  BY DEF TypeOK, Committed, Following, Readable
<1>1. TypeOK'
  <2>1. CASE Open(s)
    <3>1. (IF loaded[s] = 0 THEN {} ELSE files[loaded[s]]) \in SUBSET Logins
      BY <1>0, <2>1 DEF TypeOK
    <3>2. jar' \in [Sessions -> SUBSET Logins]
      BY <2>1, <3>1 DEF TypeOK
    <3> QED BY <2>1, <3>2 DEF TypeOK, Points
  <2>2. CASE SignIn(s)
    BY <2>2 DEF TypeOK, Logins
  <2>3. CASE CommitCheck(s)
    BY <2>3 DEF TypeOK, Points, CommitPoints
  <2> QED BY <2>1, <2>2, <2>3
<1>2. Holders'
  BY NamesAssumption DEF TypeOK, Holders, LoadPoints, CommitPoints
<1>3. Committed'
  BY DEF Committed
<1>4. ASSUME NEW u \in Sessions PROVE (Importing(u) /\ Following(u))'
  BY <1>0, <1>4, NamesAssumption
     DEF TypeOK, Importing, Following, Holders, LoadPoints, CommitPoints
<1>5. Unimported'
  BY DEF TypeOK, Unimported
<1> QED BY <1>1, <1>2, <1>3, <1>4, <1>5

\* The state file of a commit.
LEMMA PublishInv ==
    ASSUME StorageInv, NEW s \in Sessions, Publish(s)
    PROVE  StorageInv'
<1> USE DEF StorageInv, Goto, NewGeneration
<1>0. /\ at[s] = "saving" /\ lock = s /\ loaded[s] = manifest
      /\ manifest \in Nat /\ jar[s] \in SUBSET Logins
  BY DEF Publish, Holders, Following, CommitPoints, TypeOK
<1>1. /\ DOMAIN files' = DOMAIN files \cup {manifest + 1}
      /\ files'[manifest + 1] = jar[s]
      /\ \A m \in DOMAIN files : m # manifest + 1 => files'[m] = files[m]
      /\ DOMAIN files' \subseteq 1 .. manifest' + 1
      /\ files' \in [DOMAIN files' -> SUBSET Logins]
      /\ damaged' \subseteq DOMAIN files' \cup {ManifestFile}
  <2>1. /\ TypeOK /\ manifest + 1 \in 1 .. manifest + 1 /\ manifest' = manifest
        /\ WriteState(manifest + 1, jar[s])
    BY <1>0 DEF Publish
  <2> QED BY <1>0, <2>1, WrittenState
<1>2. TypeOK'
  BY <1>1 DEF Publish, TypeOK, Points, CommitPoints
<1>3. Holders'
  BY <1>0 DEF Publish, Holders, TypeOK
<1>4. Committed'
  BY <1>0, <1>1 DEF Publish, Committed
<1>5. ASSUME NEW u \in Sessions PROVE (Importing(u) /\ Following(u))'
  BY <1>0, <1>1, <1>5
     DEF Publish, Importing, Following, Holders, LoadPoints, CommitPoints, TypeOK
<1>6. Unimported'
  BY <1>0 DEF Publish, Unimported, TypeOK
<1> QED BY <1>2, <1>3, <1>4, <1>5, <1>6

\* The manifest of a commit.
LEMMA ReplaceInv ==
    ASSUME StorageInv, NEW s \in Sessions, ReplaceManifest(s)
    PROVE  StorageInv'
<1> USE DEF StorageInv, Goto, NewGeneration
<1>0. /\ at[s] = "published" /\ lock = s /\ loaded[s] = manifest
      /\ manifest \in Nat /\ manifest' = manifest + 1 /\ jar[s] \in SUBSET Logins
      /\ manifest + 1 \in DOMAIN files /\ files[manifest + 1] = jar[s]
  BY DEF ReplaceManifest, WriteManifest, Holders, Following, CommitPoints, TypeOK
<1>1. /\ versions' \in Seq(SUBSET Logins)
      /\ Len(versions') = manifest + 1
      /\ versions'[manifest + 1] = jar[s]
      /\ \A n \in 1 .. manifest : versions'[n] = versions[n]
  BY <1>0, Appended DEF ReplaceManifest, Committed, TypeOK
<1>2. TypeOK'
  BY <1>0, <1>1 DEF ReplaceManifest, WriteManifest, TypeOK, Points, CommitPoints
<1>3. Holders'
  BY <1>0 DEF ReplaceManifest, Holders, TypeOK
<1>4. Committed'
  BY <1>0, <1>1 DEF ReplaceManifest, Committed, TypeOK
<1>5. ASSUME NEW u \in Sessions PROVE (Importing(u) /\ Following(u))'
  <2>1. CASE u = s
    BY <1>0, <2>1 DEF ReplaceManifest, Importing, Following, TypeOK
  <2>2. CASE u # s
    <3>1. at'[u] = at[u] /\ at[u] \notin LoadPoints \cup CommitPoints
      BY <1>0, <1>5, <2>2 DEF ReplaceManifest, Holders, TypeOK
    <3>2. at[u] = "using" /\ loaded[u] > 0 => versions'[loaded[u]] \subseteq jar[u]
      BY <1>0, <1>1, <1>5 DEF Following, TypeOK
    <3>3. loaded'[u] = loaded[u] /\ jar'[u] = jar[u] /\ loaded[u] \in Nat
      BY <1>5 DEF ReplaceManifest, TypeOK
    <3>4. Importing(u)'
      BY <3>1 DEF Importing, LoadPoints
    <3>5. Following(u)'
      BY <1>0, <1>5, <3>1, <3>2, <3>3 DEF Following, CommitPoints
    <3> QED BY <3>4, <3>5
  <2> QED BY <2>1, <2>2
<1>6. Unimported'
  BY <1>0 DEF Unimported
<1> QED BY <1>2, <1>3, <1>4, <1>5, <1>6

\* Unlinking files older than the last two.
LEMMA PruneInv ==
    ASSUME StorageInv, NEW s \in Sessions, Prune(s)
    PROVE  StorageInv'
<1> USE DEF StorageInv, Finish, Goto
<1>0. /\ at[s] = "pruning" /\ lock = s /\ manifest = loaded[s] + 1
      /\ manifest \in Nat /\ loaded[s] \in Nat /\ manifest' = manifest
  BY DEF Prune, Holders, Following, CommitPoints, TypeOK
<1>1. PICK gone \in SUBSET (DOMAIN files \ Kept(s)) :
        /\ files' = [n \in DOMAIN files \ gone |-> files[n]]
        /\ damaged' = damaged \ gone
  BY DEF Prune
<1>2. manifest \notin gone /\ manifest - 1 \notin gone
  BY <1>0, <1>1 DEF Kept, NewGeneration
<1>3. TypeOK'
  BY <1>0, <1>1 DEF Prune, TypeOK, Points
<1>4. Holders'
  BY <1>0 DEF Prune, Holders, TypeOK, LoadPoints, CommitPoints
<1>5. Committed'
  BY <1>0, <1>1, <1>2 DEF Prune, Committed
<1>6. ASSUME NEW u \in Sessions PROVE (Importing(u) /\ Following(u))'
  BY <1>0, <1>6
     DEF Prune, Importing, Following, Holders, LoadPoints, CommitPoints, TypeOK
<1>7. Unimported'
  BY <1>0 DEF Prune, Unimported, TypeOK
<1> QED BY <1>3, <1>4, <1>5, <1>6, <1>7

\* A file going bad changes no logins.
LEMMA DamageInv ==
    ASSUME StorageInv, Damage
    PROVE  StorageInv'
BY DEF StorageInv, Damage, TypeOK, Holders, Committed, Importing, Following, Unimported

\* A stuttering step.
LEMMA StutterInv ==
    ASSUME StorageInv, UNCHANGED vars
    PROVE  StorageInv'
BY DEF StorageInv, vars, disk, TypeOK, Holders, Committed, Importing, Following, Unimported

LEMMA NextInv == StorageInv /\ [Next]_vars => StorageInv'
<1> SUFFICES ASSUME StorageInv, [Next]_vars PROVE StorageInv'
  OBVIOUS
<1>1. ASSUME NEW s \in Sessions, LoadStep(s) PROVE StorageInv'
  BY <1>1, RefuseInv, LoadInv, ImportInv DEF LoadStep, LoadProblem, ImportFails
<1>2. ASSUME NEW s \in Sessions, Open(s) \/ OpenFails(s) \/ SignIn(s) PROVE StorageInv'
  BY <1>2, RefuseInv, UseInv DEF OpenFails
<1>3. ASSUME NEW s \in Sessions, CommitStep(s) PROVE StorageInv'
  BY <1>3, RefuseInv, UseInv, PublishInv, ReplaceInv, PruneInv
     DEF CommitStep, CommitSkipped, CommitFails
<1>4. ASSUME NEW s \in Sessions, Crash(s) PROVE StorageInv'
  BY <1>4, RefuseInv DEF Crash
<1> QED BY <1>1, <1>2, <1>3, <1>4, DamageInv, StutterInv DEF Next

\* The flock and the order of the writes keep the store consistent.
THEOREM StorageInvariance == Spec => []StorageInv
BY InitInv, NextInv, PTL DEF Spec

-----------------------------------------------------------------------------
(* The properties *)

\* Every variable keeps its type; in particular no state file is more than
\* one generation ahead of the manifest.
THEOREM StorageTypeCorrect == Spec => []TypeOK
<1>1. StorageInv => TypeOK
  BY DEF StorageInv
<1> QED BY StorageInvariance, <1>1, PTL

\* The manifest names a whole file after any crash.
THEOREM StorageWhole == Spec => []ManifestIsWhole
<1>1. StorageInv => ManifestIsWhole
  BY DEF StorageInv, TypeOK, Committed, ManifestIsWhole
<1> QED BY StorageInvariance, <1>1, PTL

\* One commit may overtake a session that is opening, and its file is there.
THEOREM StorageSnapshots == Spec => []SnapshotSurvives
<1>1. StorageInv => SnapshotSurvives
  BY DEF StorageInv, TypeOK, Committed, Following, SnapshotSurvives
<1> QED BY StorageInvariance, <1>1, PTL

\* A step that changes neither the manifest, the files nor the old file.
LEMMA SameLogins ==
    ASSUME UNCHANGED <<legacy, files, manifest>>
    PROVE  CurrentLogins' = CurrentLogins
BY DEF CurrentLogins

\* The logins of the current generation only grow.
LEMMA LoginsStep == StorageInv /\ [Next]_vars => CurrentLogins \subseteq CurrentLogins'
<1> SUFFICES ASSUME StorageInv, [Next]_vars PROVE CurrentLogins \subseteq CurrentLogins'
  OBVIOUS
<1>0. TypeOK /\ Committed /\ manifest \in Nat /\ (manifest > 0 => manifest \in DOMAIN files)
  BY DEF StorageInv, TypeOK, Committed
<1>1. ASSUME NEW s \in Sessions, ImportState(s) PROVE CurrentLogins \subseteq CurrentLogins'
  <2>1. manifest = 0 /\ manifest' = 0 /\ legacy' = legacy
    BY <1>1 DEF ImportState, StorageInv, Importing
  <2> QED BY <2>1 DEF CurrentLogins
<1>2. ASSUME NEW s \in Sessions, ImportManifest(s) PROVE CurrentLogins \subseteq CurrentLogins'
  <2>1. manifest = 0 /\ manifest' = 1 /\ files' = files /\ files[1] = {Legacy}
    BY <1>2 DEF ImportManifest, WriteManifest, StorageInv, Importing
  <2> QED BY <2>1 DEF CurrentLogins
<1>3. ASSUME NEW s \in Sessions, ArchiveLegacy(s) PROVE CurrentLogins \subseteq CurrentLogins'
  <2>1. manifest = 1 /\ manifest' = 1 /\ files' = files
    BY <1>3 DEF ArchiveLegacy, StorageInv, Importing
  <2> QED BY <2>1 DEF CurrentLogins
<1>4. ASSUME NEW s \in Sessions, Publish(s) PROVE CurrentLogins \subseteq CurrentLogins'
  <2>1. loaded[s] = manifest
    BY <1>4 DEF Publish, StorageInv, Following
  <2>2. manifest > 0 => files'[manifest] = files[manifest]
    BY <1>0, <1>4, <2>1 DEF Publish, WriteState, NewGeneration
  <2> QED BY <1>4, <2>2 DEF Publish, CurrentLogins
<1>5. ASSUME NEW s \in Sessions, ReplaceManifest(s) PROVE CurrentLogins \subseteq CurrentLogins'
  <2>1. /\ at[s] = "published" /\ loaded[s] = manifest
        /\ manifest' = manifest + 1 /\ files' = files /\ files[manifest + 1] = jar[s]
    BY <1>5 DEF ReplaceManifest, WriteManifest, NewGeneration, StorageInv, Following
  <2>2. manifest > 0 => files[manifest] \subseteq jar[s]
    BY <1>0, <2>1 DEF StorageInv, Following, Committed
  <2>3. manifest = 0 => legacy # "whole"
    BY <2>1 DEF StorageInv, Unimported
  <2>4. CurrentLogins' = jar[s]
    BY <1>0, <2>1 DEF CurrentLogins
  <2> QED BY <1>0, <2>2, <2>3, <2>4 DEF CurrentLogins
<1>6. ASSUME NEW s \in Sessions, Prune(s) PROVE CurrentLogins \subseteq CurrentLogins'
  <2>1. /\ at[s] = "pruning" /\ manifest = loaded[s] + 1 /\ manifest' = manifest
        /\ legacy' = legacy
    BY <1>6 DEF Prune, StorageInv, Following
  <2>2. manifest > 0 => files'[manifest] = files[manifest]
    BY <1>0, <1>6, <2>1 DEF Prune, Kept, NewGeneration
  <2> QED BY <2>1, <2>2 DEF CurrentLogins
<1>7. CASE Damage \/ UNCHANGED vars
  BY <1>7, SameLogins DEF Damage, vars, disk
<1>8. ASSUME NEW s \in Sessions,
             \/ Load(s) \/ LoadAbsent(s) \/ LoadLegacy(s) \/ Open(s) \/ SignIn(s)
             \/ CommitCheck(s) \/ Refuse(s)
      PROVE  CurrentLogins \subseteq CurrentLogins'
  BY <1>8, SameLogins DEF Load, LoadAbsent, LoadLegacy, Open, SignIn, CommitCheck, Refuse, disk
<1> QED
  BY <1>1, <1>2, <1>3, <1>4, <1>5, <1>6, <1>7, <1>8
     DEF Next, LoadStep, CommitStep, LoadProblem, ImportFails, OpenFails, CommitSkipped,
         CommitFails, Crash

\* Last writer does not win, and no import comes between.
THEOREM StorageKeepsLogins == Spec => LoginsAreKept
<1>1. StorageInv /\ [Next]_vars => [CurrentLogins \subseteq CurrentLogins']_vars
  BY LoginsStep
<1> QED BY StorageInvariance, <1>1, PTL DEF Spec, LoginsAreKept

\* The ways a session gets to its next point.
LEMMA Moves ==
    ASSUME StorageInv, [Next]_vars, NEW s \in Sessions
    PROVE  \/ at'[s] = at[s]
           \/ at'[s] \in Points \ {"opening", "using"}
           \/ Load(s) \/ LoadAbsent(s) \/ ArchiveLegacy(s) \/ Open(s)
<1>1. at \in [Sessions -> Points]
  BY DEF StorageInv, TypeOK
<1>2. CASE UNCHANGED at
  BY <1>2
<1>3. ASSUME NEW u \in Sessions, NEW p \in Points \ {"opening", "using"}, Goto(u, p)
      PROVE  at'[s] = at[s] \/ at'[s] \in Points \ {"opening", "using"}
  BY <1>1, <1>3 DEF Goto
<1>4. ASSUME NEW u \in Sessions, Load(u) \/ LoadAbsent(u) \/ ArchiveLegacy(u) \/ Open(u), u # s
      PROVE  at'[s] = at[s]
  BY <1>1, <1>4 DEF Load, LoadAbsent, ArchiveLegacy, Open, Loaded, Goto
<1>5. {"over", "importing", "imported", "archiving", "saving", "published", "pruning"}
        \subseteq Points \ {"opening", "using"}
  BY DEF Points, LoadPoints, CommitPoints
<1>6. ASSUME NEW u \in Sessions, LoadStep(u)
      PROVE  \/ Load(u) \/ LoadAbsent(u) \/ ArchiveLegacy(u)
             \/ \E p \in Points \ {"opening", "using"} : Goto(u, p)
  BY <1>5, <1>6 DEF LoadStep, LoadProblem, LoadLegacy, ImportState, ImportManifest,
                    ImportFails, Refuse, Finish
<1>7. ASSUME NEW u \in Sessions, CommitStep(u)
      PROVE  \E p \in Points \ {"opening", "using"} : Goto(u, p)
  BY <1>5, <1>7 DEF CommitStep, CommitCheck, CommitSkipped, Publish, ReplaceManifest,
                    CommitFails, Prune, Refuse, Finish
<1>8. ASSUME NEW u \in Sessions, OpenFails(u) \/ Crash(u)
      PROVE  \E p \in Points \ {"opening", "using"} : Goto(u, p)
  BY <1>5, <1>8 DEF OpenFails, Crash, Refuse, Finish
<1>9. (\E u \in Sessions : SignIn(u)) \/ Damage \/ UNCHANGED vars => UNCHANGED at
  BY DEF SignIn, Damage, vars
<1> QED
  BY <1>2, <1>3, <1>4, <1>6, <1>7, <1>8, <1>9 DEF Next

\* A corrupt store fails closed, and nothing opens with less than it loaded.
THEOREM StorageFailsClosed == Spec => NeverLoggedOut
<1>1. ASSUME StorageInv, [Next]_vars, NEW s \in Sessions
      PROVE  /\ at[s] = "idle" /\ at'[s] = "opening" /\ loaded'[s] = 0 =>
                  versions = << >> /\ legacy = "absent"
             /\ at[s] = "opening" /\ at'[s] = "using" /\ loaded[s] > 0 =>
                  jar'[s] = versions[loaded[s]]
  <2>1. /\ loaded \in [Sessions -> Nat] /\ jar \in [Sessions -> SUBSET Logins]
        /\ versions \in Seq(SUBSET Logins) /\ manifest = Len(versions)
    BY <1>1 DEF StorageInv, TypeOK, Committed
  <2>2. ASSUME at[s] = "idle", at'[s] = "opening", loaded'[s] = 0
        PROVE  versions = << >> /\ legacy = "absent"
    <3>1. Load(s) \/ LoadAbsent(s)
      BY <1>1, <2>2, Moves DEF ArchiveLegacy, Open
    <3>2. ~Load(s)
      BY <2>1, <2>2 DEF Load, Loaded
    <3>3. legacy = "absent" /\ Len(versions) = 0
      BY <2>1, <3>1, <3>2 DEF LoadAbsent
    <3> QED BY <2>1, <3>3, EmptySeq
  <2>3. ASSUME at[s] = "opening", at'[s] = "using", loaded[s] > 0
        PROVE  jar'[s] = versions[loaded[s]]
    <3>1. Open(s)
      BY <1>1, <2>3, Moves DEF Load, LoadAbsent, ArchiveLegacy
    <3>2. jar'[s] = files[loaded[s]] /\ loaded[s] \in DOMAIN files
      BY <2>1, <2>3, <3>1 DEF Open, Readable
    <3>3. loaded[s] <= manifest
      BY <1>1, <2>3 DEF StorageInv, Following
    <3> QED BY <1>1, <3>2, <3>3 DEF StorageInv, Committed
  <2> QED BY <2>2, <2>3
<1>2. StorageInv /\ [Next]_vars =>
        [\A s \in Sessions :
           /\ at[s] = "idle" /\ at'[s] = "opening" /\ loaded'[s] = 0 =>
                versions = << >> /\ legacy = "absent"
           /\ at[s] = "opening" /\ at'[s] = "using" /\ loaded[s] > 0 =>
                jar'[s] = versions[loaded[s]]]_vars
  BY <1>1
<1> QED BY StorageInvariance, <1>2, PTL DEF Spec, NeverLoggedOut

-----------------------------------------------------------------------------
(* Refinement *)

MappedStage == [u \in Sessions |-> StageAt(at[u])]
MappedSeen == [u \in Sessions |-> IF at[u] = "pruning" THEN 0 ELSE loaded[u]]
MappedHeld == [u \in Sessions |-> IF at[u] = "pruning" THEN {} ELSE jar[u]]

\* A step that moves one session to a point moves its stage.
LEMMA GotoMaps ==
    ASSUME StorageInv, NEW s \in Sessions, NEW p \in Points, Goto(s, p)
    PROVE  MappedStage' = [MappedStage EXCEPT ![s] = StageAt(p)]
<1>1. at \in [Sessions -> Points]
  BY DEF StorageInv, TypeOK
<1>2. ASSUME NEW u \in Sessions PROVE at'[u] = IF u = s THEN p ELSE at[u]
  BY <1>1 DEF Goto
<1> QED BY <1>2 DEF MappedStage

\* What the mapping makes of the three variables of a session.
LEMMA SameMapping ==
    ASSUME StorageInv, UNCHANGED <<loaded, jar>>, NEW s \in Sessions, NEW p \in Points,
           Goto(s, p), at[s] # "pruning", p # "pruning"
    PROVE  MappedSeen' = MappedSeen /\ MappedHeld' = MappedHeld
<1>1. at \in [Sessions -> Points]
  BY DEF StorageInv, TypeOK
<1>2. ASSUME NEW u \in Sessions PROVE (at'[u] = "pruning") <=> (at[u] = "pruning")
  BY <1>1 DEF Goto
<1> QED BY <1>2 DEF MappedSeen, MappedHeld

\* A session that ends leaves the register.
LEMMA FinishMaps ==
    ASSUME StorageInv, NEW s \in Sessions, Finish(s)
    PROVE  Register!Over(s)
<1>1. /\ at \in [Sessions -> Points] /\ loaded \in [Sessions -> Nat]
      /\ jar \in [Sessions -> SUBSET Logins]
  BY DEF StorageInv, TypeOK
<1>2. MappedStage' = [MappedStage EXCEPT ![s] = "over"]
  <2>1. "over" \in Points /\ StageAt("over") = "over"
    BY DEF Points, StageAt, LoadPoints
  <2> QED BY <2>1, GotoMaps DEF Finish
<1>3. MappedSeen' = [MappedSeen EXCEPT ![s] = 0]
  BY <1>1 DEF Finish, Goto, MappedSeen
<1>4. MappedHeld' = [MappedHeld EXCEPT ![s] = {}]
  BY <1>1 DEF Finish, Goto, MappedHeld
<1> QED BY <1>2, <1>3, <1>4 DEF Register!Over, MappedStage, MappedSeen, MappedHeld

\* Load hands out the current version.
LEMMA LoadMaps ==
    ASSUME StorageInv, NEW s \in Sessions, Load(s) \/ LoadAbsent(s)
    PROVE  Register!See(s)
<1>1. /\ at \in [Sessions -> Points] /\ loaded \in [Sessions -> Nat]
      /\ at[s] = "idle" /\ Goto(s, "opening") /\ manifest = Len(versions)
      /\ loaded' = [loaded EXCEPT ![s] = manifest]
      /\ jar' = jar /\ versions' = versions
  BY DEF StorageInv, TypeOK, Committed, Load, LoadAbsent, Loaded
<1>2. MappedStage[s] = "new" /\ StageAt("opening") = "seeing" /\ "opening" \in Points
  BY <1>1 DEF MappedStage, StageAt, Points, LoadPoints
<1>3. MappedStage' = [MappedStage EXCEPT ![s] = "seeing"]
  BY <1>1, <1>2, GotoMaps
<1>4. ASSUME NEW u \in Sessions
      PROVE  /\ (at'[u] = "pruning") <=> (at[u] = "pruning")
             /\ at'[s] # "pruning"
             /\ loaded'[u] = IF u = s THEN Len(versions) ELSE loaded[u]
  BY <1>1 DEF Goto
<1>5. MappedSeen' = [MappedSeen EXCEPT ![s] = Len(versions)]
  BY <1>1, <1>4 DEF MappedSeen
<1>6. MappedHeld' = MappedHeld
  BY <1>1, <1>4 DEF MappedHeld
<1> QED BY <1>1, <1>2, <1>3, <1>5, <1>6 DEF Register!See, MappedStage, MappedSeen, MappedHeld

\* Archiving ends a load that imported the first version.
LEMMA ArchiveMaps ==
    ASSUME StorageInv, NEW s \in Sessions, ArchiveLegacy(s)
    PROVE  Register!See(s)
<1>1. /\ at \in [Sessions -> Points] /\ loaded \in [Sessions -> Nat]
      /\ at[s] = "archiving" /\ Goto(s, "opening") /\ Len(versions) = 1
      /\ loaded' = [loaded EXCEPT ![s] = 1]
      /\ jar' = jar /\ versions' = versions
  BY DEF StorageInv, TypeOK, Committed, Importing, ArchiveLegacy, Loaded
<1>2. MappedStage[s] = "new" /\ StageAt("opening") = "seeing" /\ "opening" \in Points
  BY <1>1 DEF MappedStage, StageAt, Points, LoadPoints
<1>3. MappedStage' = [MappedStage EXCEPT ![s] = "seeing"]
  BY <1>1, <1>2, GotoMaps
<1>4. ASSUME NEW u \in Sessions
      PROVE  /\ (at'[u] = "pruning") <=> (at[u] = "pruning")
             /\ at'[s] # "pruning"
             /\ loaded'[u] = IF u = s THEN Len(versions) ELSE loaded[u]
  BY <1>1 DEF Goto
<1>5. MappedSeen' = [MappedSeen EXCEPT ![s] = Len(versions)]
  BY <1>1, <1>4 DEF MappedSeen
<1>6. MappedHeld' = MappedHeld
  BY <1>1, <1>4 DEF MappedHeld
<1> QED BY <1>1, <1>2, <1>3, <1>5, <1>6 DEF Register!See, MappedStage, MappedSeen, MappedHeld

\* The manifest of a migration imports.
LEMMA ImportMaps ==
    ASSUME StorageInv, NEW s \in Sessions, ImportManifest(s)
    PROVE  Register!Import
<1>1. /\ versions \in Seq(SUBSET Logins) /\ Len(versions) = 0
      /\ versions' = Append(versions, {Legacy})
      /\ at[s] = "imported" /\ Goto(s, "archiving") /\ UNCHANGED <<loaded, jar>>
  BY DEF StorageInv, TypeOK, Committed, Importing, ImportManifest
<1>2. versions = << >>
  BY <1>1, EmptySeq
<1>3. versions' = << {Legacy} >>
  BY <1>1, <1>2
<1>4. /\ StageAt("archiving") = "new" /\ MappedStage[s] = "new" /\ "archiving" \in Points
      /\ at[s] # "pruning"
  BY <1>1 DEF MappedStage, StageAt, Points, LoadPoints
<1>5. MappedStage' = MappedStage
  BY <1>1, <1>4, GotoMaps DEF MappedStage
<1>6. MappedSeen' = MappedSeen /\ MappedHeld' = MappedHeld
  BY <1>1, <1>4, SameMapping
<1> QED BY <1>2, <1>3, <1>5, <1>6 DEF Register!Import, MappedStage, MappedSeen, MappedHeld

\* The browser starts from the version that was handed out.
LEMMA OpenMaps ==
    ASSUME StorageInv, NEW s \in Sessions, Open(s)
    PROVE  Register!Hold(s)
<1>1. /\ at \in [Sessions -> Points] /\ jar \in [Sessions -> SUBSET Logins]
      /\ loaded[s] \in Nat /\ loaded[s] <= manifest
      /\ at[s] = "opening" /\ Goto(s, "using")
      /\ loaded' = loaded /\ versions' = versions
  BY DEF StorageInv, TypeOK, Following, Open
<1>2. /\ MappedStage[s] = "seeing" /\ StageAt("using") = "holding" /\ "using" \in Points
      /\ MappedSeen[s] = loaded[s]
  BY <1>1 DEF MappedStage, MappedSeen, StageAt, Points, LoadPoints
<1>3. MappedStage' = [MappedStage EXCEPT ![s] = "holding"]
  BY <1>1, <1>2, GotoMaps
<1>4. jar' = [jar EXCEPT ![s] = Register!At(MappedSeen[s])]
  <2>1. loaded[s] > 0 => files[loaded[s]] = versions[loaded[s]]
    BY <1>1 DEF StorageInv, Committed, Open, Readable
  <2>2. (IF loaded[s] = 0 THEN {} ELSE files[loaded[s]]) = Register!At(loaded[s])
    BY <1>1, <2>1 DEF Register!At
  <2> QED BY <1>2, <2>2 DEF Open
<1>5. ASSUME NEW u \in Sessions
      PROVE  /\ (at'[u] = "pruning") <=> (at[u] = "pruning")
             /\ at'[s] # "pruning"
             /\ jar'[u] = IF u = s THEN Register!At(MappedSeen[s]) ELSE jar[u]
  BY <1>1, <1>4 DEF Goto
<1>6. MappedSeen' = MappedSeen
  BY <1>1, <1>5 DEF MappedSeen
<1>7. MappedHeld' = [MappedHeld EXCEPT ![s] = Register!At(MappedSeen[s])]
  BY <1>5 DEF MappedHeld
<1> QED BY <1>1, <1>2, <1>3, <1>6, <1>7 DEF Register!Hold, MappedStage, MappedSeen, MappedHeld

\* Signing in is the work of a session.
LEMMA SignInMaps ==
    ASSUME StorageInv, NEW s \in Sessions, SignIn(s)
    PROVE  Register!Work(s)
<1>1. /\ jar \in [Sessions -> SUBSET Logins] /\ at[s] = "using"
      /\ at' = at /\ loaded' = loaded /\ versions' = versions
      /\ jar' = [jar EXCEPT ![s] = @ \cup {s}]
  BY DEF StorageInv, TypeOK, SignIn
<1>2. MappedStage[s] = "holding" /\ MappedHeld[s] = jar[s]
  BY <1>1 DEF MappedStage, MappedHeld, StageAt, LoadPoints
<1>3. MappedStage' = MappedStage /\ MappedSeen' = MappedSeen
  BY <1>1 DEF MappedStage, MappedSeen
<1>4. MappedHeld' = [MappedHeld EXCEPT ![s] = @ \cup {s}]
  BY <1>1, <1>2 DEF MappedHeld
<1> QED BY <1>1, <1>2, <1>3, <1>4 DEF Register!Work, MappedStage, MappedSeen, MappedHeld

\* Replacing the manifest is the compare and swap.
LEMMA ReplaceMaps ==
    ASSUME StorageInv, NEW s \in Sessions, ReplaceManifest(s)
    PROVE  Register!Swap(s)
<1>1. /\ at \in [Sessions -> Points] /\ at[s] = "published" /\ Goto(s, "pruning")
      /\ loaded' = loaded /\ jar' = jar /\ loaded[s] = Len(versions)
      /\ versions' = Append(versions, jar[s])
  BY DEF StorageInv, TypeOK, Committed, Following, ReplaceManifest
<1>2. /\ MappedStage[s] = "holding" /\ MappedSeen[s] = loaded[s] /\ MappedHeld[s] = jar[s]
      /\ StageAt("pruning") = "over" /\ "pruning" \in Points
  BY <1>1 DEF MappedStage, MappedSeen, MappedHeld, StageAt, Points, LoadPoints, CommitPoints
<1>3. MappedStage' = [MappedStage EXCEPT ![s] = "over"]
  BY <1>1, <1>2, GotoMaps
<1>4. ASSUME NEW u \in Sessions
      PROVE  (at'[u] = "pruning") <=> (u = s \/ at[u] = "pruning")
  BY <1>1 DEF Goto
<1>5. MappedSeen' = [MappedSeen EXCEPT ![s] = 0]
  BY <1>1, <1>4 DEF MappedSeen
<1>6. MappedHeld' = [MappedHeld EXCEPT ![s] = {}]
  BY <1>1, <1>4 DEF MappedHeld
<1> QED BY <1>1, <1>2, <1>3, <1>5, <1>6
        DEF Register!Swap, Register!Over, MappedStage, MappedSeen, MappedHeld

\* The other steps of load and commit do not show.
LEMMA HiddenSteps ==
    ASSUME StorageInv, NEW s \in Sessions,
           LoadLegacy(s) \/ ImportState(s) \/ CommitCheck(s) \/ Publish(s)
    PROVE  UNCHANGED Register!vars
<1>1. PICK p \in {"importing", "imported", "saving", "published"} :
        /\ Goto(s, p) /\ UNCHANGED <<loaded, jar, versions>>
        /\ StageAt(p) = StageAt(at[s]) /\ at[s] # "pruning"
  BY DEF LoadLegacy, ImportState, CommitCheck, Publish, StageAt, LoadPoints
<1>2. p \in Points /\ p # "pruning"
  BY DEF Points, LoadPoints, CommitPoints
<1>3. MappedStage' = MappedStage
  BY <1>1, <1>2, GotoMaps DEF MappedStage
<1>4. MappedSeen' = MappedSeen /\ MappedHeld' = MappedHeld
  BY <1>1, <1>2, SameMapping
<1> QED BY <1>1, <1>3, <1>4 DEF Register!vars, MappedStage, MappedSeen, MappedHeld

\* The store of files implements the register.
THEOREM StorageRefines == Spec => RefinesRegister
<1>1. Init => Register!Init
  BY DEF Init, Register!Init, StageAt, LoadPoints
<1>2. ASSUME StorageInv, [Next]_vars PROVE [Register!Next]_(Register!vars)
  <2>1. ASSUME NEW s \in Sessions, Refuse(s) PROVE Register!Next
    BY <1>2, <2>1, FinishMaps DEF Refuse, Register!Next, Register!Leave
  <2>2. ASSUME NEW s \in Sessions, Prune(s) PROVE Register!Next
    BY <1>2, <2>2, FinishMaps DEF Prune, Register!Next, Register!Leave
  <2>3. ASSUME NEW s \in Sessions, LoadStep(s) PROVE Register!Next \/ UNCHANGED Register!vars
    BY <1>2, <2>1, <2>3, LoadMaps, ArchiveMaps, ImportMaps, HiddenSteps
       DEF LoadStep, LoadProblem, ImportFails, Register!Next
  <2>4. ASSUME NEW s \in Sessions, CommitStep(s) PROVE Register!Next \/ UNCHANGED Register!vars
    BY <1>2, <2>1, <2>2, <2>4, ReplaceMaps, HiddenSteps
       DEF CommitStep, CommitSkipped, CommitFails, Register!Next
  <2>5. ASSUME NEW s \in Sessions, Open(s) \/ OpenFails(s) \/ SignIn(s) \/ Crash(s)
        PROVE  Register!Next
    BY <1>2, <2>1, <2>5, OpenMaps, SignInMaps DEF OpenFails, Crash, Register!Next
  <2>6. CASE Damage \/ UNCHANGED vars
    BY <2>6 DEF Damage, vars, Register!vars
  <2> QED BY <1>2, <2>3, <2>4, <2>5, <2>6 DEF Next
<1>3. StorageInv /\ [Next]_vars => [Register!Next]_(Register!vars)
  BY <1>2
<1> QED BY StorageInvariance, <1>1, <1>3, PTL DEF Spec, RefinesRegister, Register!Spec
=============================================================================
