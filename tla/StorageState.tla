---------------------------- MODULE StorageState ----------------------------
(***************************************************************************)
(* Saved browser logins: the generations of storage state that Playwright  *)
(* sessions load and commit (plugins/browsers/playwright_persistence.py,   *)
(* opened and closed by plugins/browsers/playwright_backend.py).           *)
(*                                                                         *)
(* On disk: immutable files state-N.json, a manifest that names one of     *)
(* them, the file an earlier release left at the configured path, and a    *)
(* flock that any process over the same path takes.  A session is used     *)
(* once (its id is a ULID); sessions of one backend open one at a time,    *)
(* those of other backends and processes in any order, so every order is   *)
(* allowed here.                                                           *)
(*                                                                         *)
(* A temporary sibling is written first and replaces its target in one     *)
(* step, so a crash leaves either the old file or the new one; the         *)
(* temporary files themselves are read by nobody and left out.             *)
(***************************************************************************)
EXTENDS Integers, Sequences

CONSTANTS
    Sessions,       \* browser sessions over one configured path
    Legacy,         \* the login carried by an earlier release's file
    NoSession,
    MaxDamage       \* bound: files that go bad on disk

ASSUME NamesAssumption ==
    /\ NoSession \notin Sessions
    /\ Legacy \notin Sessions

ASSUME BoundsAssumption == MaxDamage \in Nat

VARIABLES
    legacy,     \* the file at the configured path
    files,      \* files[n]: the logins in state-n.json
    manifest,   \* the generation current.json names, 0 when there is none
    damaged,    \* files nobody can read or parse, the manifest is number 0
    lock,       \* the session whose load or commit holds the flock
    at,         \* at[s]: how far s is, see Points
    loaded,     \* loaded[s]: the generation s loaded
    jar,        \* jar[s]: the logins of the browser context of s
    damages,    \* files that went bad so far
    versions    \* history: the logins each generation was committed with

disk == <<legacy, files, manifest, damaged>>
vars == <<disk, lock, at, loaded, jar, damages, versions>>

\* importing, imported, archiving: migrating the earlier release's file.
\* opening: load has returned and the context is not there yet.  saving: the
\* context is asked for its state.  published: its file is in place and the
\* manifest is not.  pruning: the manifest is.
LoadPoints == {"importing", "imported", "archiving"}
CommitPoints == {"saving", "published", "pruning"}
Points == {"idle", "opening", "using", "over"} \cup LoadPoints \cup CommitPoints

Logins == Sessions \cup {Legacy}
ManifestFile == 0

TypeOK ==
    /\ legacy \in {"absent", "whole", "broken"}
    /\ manifest \in Nat
    /\ DOMAIN files \subseteq 1 .. manifest + 1
    /\ files \in [DOMAIN files -> SUBSET Logins]
    /\ damaged \subseteq DOMAIN files \cup {ManifestFile}
    /\ lock \in Sessions \cup {NoSession}
    /\ at \in [Sessions -> Points]
    /\ loaded \in [Sessions -> Nat]
    /\ jar \in [Sessions -> SUBSET Logins]
    /\ damages \in Nat
    /\ versions \in Seq(SUBSET Logins)

Init ==
    /\ legacy \in {"absent", "whole", "broken"}
    /\ files = << >>
    /\ manifest = 0
    /\ damaged = {}
    /\ lock = NoSession
    /\ at = [s \in Sessions |-> "idle"]
    /\ loaded = [s \in Sessions |-> 0]
    /\ jar = [s \in Sessions |-> {}]
    /\ damages = 0
    /\ versions = << >>

-----------------------------------------------------------------------------
(* Files and the lock *)

NoFlock == TRUE                         \* mutant: stores do not see each other

Free == lock = NoSession

Readable(n) == n \in DOMAIN files \ damaged

ManifestProblem == ManifestFile \in damaged

\* Atomic replacement of state-n.json.
WriteState(n, logins) ==
    /\ files' = [m \in DOMAIN files \cup {n} |-> IF m = n THEN logins ELSE files[m]]
    /\ damaged' = damaged \ {n}

\* Atomic replacement of the manifest.
WriteManifest(n) ==
    /\ manifest' = n
    /\ damaged' = damaged \ {ManifestFile}

Goto(s, point) == at' = [at EXCEPT ![s] = point]

\* s is done, the lock goes if s held it.
Finish(s) ==
    /\ Goto(s, "over")
    /\ loaded' = [loaded EXCEPT ![s] = 0]
    /\ jar' = [jar EXCEPT ![s] = {}]
    /\ lock' = IF lock = s THEN NoSession ELSE lock

\* open_session raises what load raised.
Refuse(s) == Finish(s) /\ UNCHANGED <<disk, damages, versions>>

-----------------------------------------------------------------------------
(* Loading *)

\* load returns generation n, none for 0.
Loaded(s, n) ==
    /\ Goto(s, "opening")
    /\ loaded' = [loaded EXCEPT ![s] = n]
    /\ lock' = NoSession

Load(s) ==
    /\ at[s] = "idle" /\ Free
    /\ manifest > 0 /\ ~ManifestProblem /\ Readable(manifest)
    /\ Loaded(s, manifest)
    /\ UNCHANGED <<disk, jar, damages, versions>>

LoadProblem(s) ==
    /\ at[s] = "idle" /\ Free
    /\ IF manifest = 0 THEN legacy = "broken"
                       ELSE ManifestProblem \/ ~Readable(manifest)
    /\ Refuse(s)

LoadProblemAsAbsent(s) ==               \* mutant: a bad manifest is no manifest
    /\ at[s] = "idle" /\ Free
    /\ \/ manifest = 0 /\ legacy = "absent"
       \/ ManifestProblem
    /\ Loaded(s, 0)
    /\ UNCHANGED <<disk, jar, damages, versions>>

LoadAbsent(s) ==
    /\ at[s] = "idle" /\ Free
    /\ manifest = 0 /\ legacy = "absent"
    /\ Loaded(s, 0)
    /\ UNCHANGED <<disk, jar, damages, versions>>

\* No manifest yet and a readable file of an earlier release: import it.
LoadLegacy(s) ==
    /\ at[s] = "idle" /\ Free
    /\ manifest = 0 /\ legacy = "whole"
    /\ lock' = s
    /\ Goto(s, "importing")
    /\ UNCHANGED <<disk, loaded, jar, damages, versions>>

ImportState(s) ==
    /\ at[s] = "importing"
    /\ WriteState(1, {Legacy})
    /\ Goto(s, "imported")
    /\ UNCHANGED <<legacy, manifest, lock, loaded, jar, damages, versions>>

ImportManifest(s) ==
    /\ at[s] = "imported"
    /\ WriteManifest(1)
    /\ versions' = Append(versions, {Legacy})
    /\ Goto(s, "archiving")
    /\ UNCHANGED <<legacy, files, lock, loaded, jar, damages>>

ImportFails(s) ==                       \* the disk refuses either write
    /\ at[s] \in {"importing", "imported"}
    /\ Refuse(s)

ArchiveEarly(s) ==                      \* mutant: the old file goes first
    /\ at[s] \in {"importing", "archiving"}
    /\ legacy' \in {legacy, "absent"}
    /\ IF at[s] = "archiving" THEN Loaded(s, 1) ELSE UNCHANGED <<at, loaded, lock>>
    /\ UNCHANGED <<files, manifest, damaged, jar, damages, versions>>

\* Renaming the imported file may fail, which is only logged.
ArchiveLegacy(s) ==
    /\ at[s] = "archiving"
    /\ legacy' \in {legacy, "absent"}
    /\ Loaded(s, 1)
    /\ UNCHANGED <<files, manifest, damaged, jar, damages, versions>>

\* The browser reads the file after load has let go of the lock.
Open(s) ==
    /\ at[s] = "opening"
    /\ loaded[s] > 0 => Readable(loaded[s])
    /\ jar' = [jar EXCEPT ![s] = IF loaded[s] = 0 THEN {} ELSE files[loaded[s]]]
    /\ Goto(s, "using")
    /\ UNCHANGED <<disk, lock, loaded, damages, versions>>

OpenFails(s) ==                         \* no such file, or any browser failure
    /\ at[s] = "opening"
    /\ Refuse(s)

\* The session signs in somewhere.
SignIn(s) ==
    /\ at[s] = "using"
    /\ jar' = [jar EXCEPT ![s] = @ \cup {s}]
    /\ UNCHANGED <<disk, lock, at, loaded, damages, versions>>

-----------------------------------------------------------------------------
(* Committing, on close *)

AnyGeneration(s) == TRUE                \* mutant: last writer wins

Unchanged(s) == manifest = loaded[s]

\* Under the lock: the manifest still names the generation s loaded.
CommitCheck(s) ==
    /\ at[s] = "using" /\ Free
    /\ ~ManifestProblem /\ Unchanged(s)
    /\ lock' = s
    /\ Goto(s, "saving")
    /\ UNCHANGED <<disk, loaded, jar, damages, versions>>

\* A bad manifest or a newer generation: nothing is written, close goes on.
CommitSkipped(s) ==
    /\ at[s] = "using" /\ Free
    /\ ManifestProblem \/ ~Unchanged(s)
    /\ Refuse(s)

SkippedGeneration(s) == loaded[s] + 2   \* mutant: counted twice

NewGeneration(s) == loaded[s] + 1

\* The context wrote its state to a temporary file, which becomes the next
\* state file; an orphan of that name is replaced.
Publish(s) ==
    /\ at[s] = "saving"
    /\ WriteState(NewGeneration(s), jar[s])
    /\ Goto(s, "published")
    /\ UNCHANGED <<legacy, manifest, lock, loaded, jar, damages, versions>>

ReplaceManifest(s) ==
    /\ at[s] = "published"
    /\ WriteManifest(NewGeneration(s))
    /\ versions' = Append(versions, jar[s])
    /\ Goto(s, "pruning")
    /\ UNCHANGED <<legacy, files, lock, loaded, jar, damages>>

CommitFails(s) ==                       \* before either replacement; only logged
    /\ at[s] \in {"saving", "published"}
    /\ Refuse(s)

KeptNewest(s) == {NewGeneration(s)}     \* mutant: nothing for those still opening
KeptPrevious(s) == {loaded[s]}          \* mutant: off by one

Kept(s) == {NewGeneration(s), NewGeneration(s) - 1}

\* Every other state file is unlinked, those that cannot be stay.
Prune(s) ==
    /\ at[s] = "pruning"
    /\ \E gone \in SUBSET (DOMAIN files \ Kept(s)) :
         /\ files' = [n \in DOMAIN files \ gone |-> files[n]]
         /\ damaged' = damaged \ gone
    /\ Finish(s)
    /\ UNCHANGED <<legacy, manifest, damages, versions>>

-----------------------------------------------------------------------------
(* The environment *)

\* The process of s dies; the kernel lets go of its flock.
Crash(s) ==
    /\ at[s] \notin {"idle", "over"}
    /\ Refuse(s)

\* A state file or the manifest is cut short, overwritten or removed from
\* outside.
Damage ==
    /\ damages < MaxDamage
    /\ \E n \in DOMAIN files \cup (IF manifest > 0 THEN {ManifestFile} ELSE {}) :
         damaged' = damaged \cup {n}
    /\ damages' = damages + 1
    /\ UNCHANGED <<legacy, files, manifest, lock, at, loaded, jar, versions>>

LoadStep(s) ==
    \/ Load(s) \/ LoadProblem(s) \/ LoadAbsent(s)
    \/ LoadLegacy(s) \/ ImportState(s) \/ ImportManifest(s)
    \/ ImportFails(s) \/ ArchiveLegacy(s)

CommitStep(s) ==
    \/ CommitCheck(s) \/ CommitSkipped(s) \/ Publish(s)
    \/ ReplaceManifest(s) \/ CommitFails(s) \/ Prune(s)

Next ==
    \/ \E s \in Sessions :
         LoadStep(s) \/ Open(s) \/ OpenFails(s) \/ SignIn(s) \/ CommitStep(s) \/ Crash(s)
    \/ Damage

Spec == Init /\ [][Next]_vars

-----------------------------------------------------------------------------
(* Properties *)

\* Whatever crashed between two writes, the manifest names a state file that
\* exists and holds exactly what the session that committed it had
\* (_commit_locked publishes the file before the manifest).
ManifestIsWhole ==
    manifest > 0 => /\ manifest \in DOMAIN files
                    /\ manifest = Len(versions)
                    /\ files[manifest] = versions[manifest]

\* A snapshot that load has handed out is there for new_context, which reads
\* it after the lock is gone, unless two commits came in between: _prune keeps
\* the generation before the new one.
SnapshotSurvives ==
    \A s \in Sessions :
        at[s] = "opening" /\ loaded[s] > 0 /\ manifest <= loaded[s] + 1 =>
            /\ loaded[s] \in DOMAIN files
            /\ files[loaded[s]] = versions[loaded[s]]

\* A corrupt store fails closed: load says "nothing saved" only to a session
\* that comes before every commit and finds no earlier file, and a browser
\* starts with exactly the logins of the generation load named, never with
\* fewer because a file went bad or was pruned in between.
NeverLoggedOut ==
    [][\A s \in Sessions :
         /\ at[s] = "idle" /\ at'[s] = "opening" /\ loaded'[s] = 0 =>
              versions = << >> /\ legacy = "absent"
         /\ at[s] = "opening" /\ at'[s] = "using" /\ loaded[s] > 0 =>
              jar'[s] = versions[loaded[s]]]_vars

\* The logins the next session will get: those of the current generation, or
\* of the file that is still to be imported.
CurrentLogins ==
    IF manifest > 0 THEN files[manifest]
    ELSE IF legacy = "whole" THEN {Legacy} ELSE {}

\* No crash, no slow session and no import ever takes back a login that was
\* saved (the generation check of _commit_locked: last writer does not win).
LoginsAreKept == [][CurrentLogins \subseteq CurrentLogins']_vars

\* What a point of the code is for the register: a commit is over once the
\* manifest is replaced.
StageAt(point) ==
    CASE point \in {"idle"} \cup LoadPoints -> "new"
      [] point = "opening" -> "seeing"
      [] point \in {"using", "saving", "published"} -> "holding"
      [] point \in {"over", "pruning"} -> "over"

Register ==
    INSTANCE StorageRegister WITH
        stage <- [s \in Sessions |-> StageAt(at[s])],
        seen <- [s \in Sessions |-> IF at[s] = "pruning" THEN 0 ELSE loaded[s]],
        held <- [s \in Sessions |-> IF at[s] = "pruning" THEN {} ELSE jar[s]]

\* The files, the manifest and the flock together are a compare-and-swap
\* register, whichever process dies where and whatever goes bad on disk.
RefinesRegister == Register!Spec
=============================================================================
