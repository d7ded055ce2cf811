-------------------------- MODULE JobPipelineProofs ---------------------------
(***************************************************************************)
(* From the sources to a submission, and what is remembered of it. In the  *)
(* order of the module:                                                    *)
(*   - a submission stays on record: a session may write what it computed  *)
(*     from an application it read long ago, but the mark of a submission  *)
(*     is only ever written to set it, and a session that read it as set   *)
(*     may rely on it;                                                     *)
(*   - merging keeps the best copy of an opening: one upsert does, so      *)
(*     every prefix of what a run is delivered does;                       *)
(*   - knowledge is earned: every lesson is sound when it is written and   *)
(*     stays so while the others change;                                   *)
(*   - nothing is missed in silence: a source accounts for what its boards *)
(*     offered, posting by posting, and a run for its sources;             *)
(*   - a model changes no fact: a reply moves the score of a posting by no *)
(*     more than the maximum and unblocks none, and what it writes into a  *)
(*     resume goes through the guard;                                      *)
(*   - a reply is read as it was sent: the scan of a text ends where the   *)
(*     object in it does, and the provider asked is an enabled one;        *)
(*   - a posting is read as it is written: after each token and each line  *)
(*     the lines and the lists are those of what stands there so far.      *)
(***************************************************************************)
EXTENDS JobPipeline, LessonMemory, SourceIntake, ModelAdvice, ModelCalls, PostingText,
        FiniteSetTheorems, SequenceTheorems, TLAPS

\* What a session read as submitted still is.
ReadsStand ==
    \A u \in Sessions : request[u] # Idle =>
        /\ request[u].job \in Jobs
        /\ request[u].submitted => submitted[request[u].job]

SubmittedIsDated == \A j \in Jobs : state[j] \in SUBMITTED_STATES => submitted[j]

RecordInv ==
    /\ state = [j \in Jobs |-> state[j]] /\ submitted \in [Jobs -> BOOLEAN]
    /\ request = [u \in Sessions |-> request[u]]
    /\ ReadsStand /\ SubmittedIsDated

\* The mark of a submission is only ever set.
Kept == \A j \in Jobs : submitted[j] => submitted'[j]

Step == RecordInv' /\ Kept

(* A score leaves an application that was submitted where it is, and moves *)
(* none there (ScoringService._apply_recommendation).                      *)
LEMMA ScoreSubmitsNothing ==
    ASSUME NEW s, NEW recommendation, Recommended(s, recommendation) \in SUBMITTED_STATES
    PROVE  s \in SUBMITTED_STATES
    BY DEF Recommended, TargetState, SUBMITTED_STATES

(* Saving a copy dates a submission and undates none (save).               *)
LEMMA SaveKeeps ==
    ASSUME RecordInv, NEW j \in Jobs, NEW read, NEW to, Save(j, read, to),
           read.submitted => submitted[j]
    PROVE  /\ state' = [i \in Jobs |-> state'[i]] /\ submitted' \in [Jobs -> BOOLEAN]
           /\ SubmittedIsDated' /\ Kept
<1> USE DEF RecordInv, SubmittedIsDated, Kept
<1>1. /\ submitted' \in [Jobs -> BOOLEAN]
      /\ \A i \in Jobs : submitted[i] => submitted'[i]
      /\ to \in SUBMITTED_STATES => submitted'[j]
    BY DEF Save, transition
<1>2. /\ state' = [i \in Jobs |-> state'[i]]
      /\ \A i \in Jobs : state'[i] = state[i] \/ (i = j /\ state'[i] = to)
    BY DEF Save, transition
<1> QED
    BY <1>1, <1>2

(* A session that ends, or goes on with what it read, leaves the other     *)
(* sessions' reads standing.                                               *)
LEMMA ReadsStandStep ==
    ASSUME RecordInv, Kept, NEW u \in Sessions,
           \/ request' = request
           \/ request' = [request EXCEPT ![u] = Idle]
           \/ \E what : \E j \in Jobs : request' = [request EXCEPT ![u] =
                  [op |-> what, job |-> j, state |-> state[j], submitted |-> submitted[j]]]
    PROVE  ReadsStand' /\ request' = [v \in Sessions |-> request'[v]]
<1> USE DEF RecordInv, ReadsStand, Kept
<1>1. CASE request' = request
    BY <1>1
<1>2. CASE request' = [request EXCEPT ![u] = Idle]
    BY <1>2
<1>3. ASSUME NEW what, NEW j \in Jobs,
             request' = [request EXCEPT ![u] =
                 [op |-> what, job |-> j, state |-> state[j], submitted |-> submitted[j]]]
      PROVE  ReadsStand' /\ request' = [v \in Sessions |-> request'[v]]
    BY <1>3
<1> QED
    BY <1>1, <1>2, <1>3

(* Every step of every session keeps the record.                           *)
LEMMA RecordStep ==
    ASSUME RecordInv, [Next]_vars
    PROVE  Step
<1> USE DEF Step
<1>1. CASE UNCHANGED <<applications, request>>
    BY <1>1 DEF applications, RecordInv, ReadsStand, SubmittedIsDated, Kept
<1>2. CASE UNCHANGED vars \/ StartDiscovery \/ RunLost
             \/ (\E delivered \in Delivered : FinishDiscovery(delivered))
             \/ (\E kind \in {"fresh", "rescore"} : StartScoring(kind))
    BY <1>1, <1>2 DEF vars, StartDiscovery, RunLost, FinishDiscovery, StartScoring
<1>3. ASSUME NEW kind, NEW results, FinishScoring(kind, results)
      PROVE  Step
    <2>1. submitted' = submitted /\ request' = request
        BY <1>3 DEF FinishScoring
    <2>2. /\ state' = [j \in Jobs |-> state'[j]]
          /\ \A j \in Jobs : state'[j] = state[j] \/ \E r : state'[j] = Recommended(state[j], r)
        BY <1>3 DEF FinishScoring
    <2>3. SubmittedIsDated'
        BY <2>1, <2>2, ScoreSubmitsNothing DEF RecordInv, SubmittedIsDated
    <2> QED
        BY <2>1, <2>2, <2>3 DEF RecordInv, ReadsStand, Kept
<1>4. ASSUME NEW u \in Sessions, NEW what, NEW j \in Jobs, Read(u, what, j)
      PROVE  Step
    <2>1. state' = state /\ submitted' = submitted
        BY <1>4 DEF Read, applications
    <2>2. Kept /\ SubmittedIsDated'
        BY <2>1 DEF Kept, RecordInv, SubmittedIsDated
    <2>3. ReadsStand' /\ request' = [v \in Sessions |-> request'[v]]
        BY <1>4, <2>2, ReadsStandStep DEF Read
    <2>4. /\ state' = [i \in Jobs |-> state'[i]]
          /\ submitted' \in [Jobs -> BOOLEAN]
        BY <2>1 DEF RecordInv
    <2> QED
        BY <2>2, <2>3, <2>4 DEF RecordInv
<1>5. ASSUME NEW u \in Sessions, EndSession(u), NEW what \in {"user", "start"}, Asked(u, what),
             UNCHANGED <<state, submitted>> \/ \E to : Save(request[u].job, request[u], to)
      PROVE  Step
    <2>1. request[u].job \in Jobs /\ (request[u].submitted => submitted[request[u].job])
        BY <1>5 DEF RecordInv, ReadsStand, Asked, Idle
    <2>2. /\ state' = [i \in Jobs |-> state'[i]] /\ submitted' \in [Jobs -> BOOLEAN]
          /\ SubmittedIsDated' /\ Kept
        <3>1. CASE UNCHANGED <<state, submitted>>
            BY <3>1 DEF RecordInv, SubmittedIsDated, Kept
        <3>2. ASSUME NEW to, Save(request[u].job, request[u], to)
              PROVE  /\ state' = [i \in Jobs |-> state'[i]] /\ submitted' \in [Jobs -> BOOLEAN]
                     /\ SubmittedIsDated' /\ Kept
            BY <2>1, <3>2, SaveKeeps
        <3> QED
            BY <1>5, <3>1, <3>2
    <2>3. ReadsStand' /\ request' = [v \in Sessions |-> request'[v]]
        BY <1>5, <2>2, ReadsStandStep DEF EndSession
    <2> QED
        BY <2>2, <2>3 DEF RecordInv
<1>6. ASSUME NEW u \in Sessions, NEW to, UserMoves(u, to)
      PROVE  Step
    BY <1>5, <1>6 DEF UserMoves
<1>7. ASSUME NEW u \in Sessions, AttemptStarts(u)
      PROVE  Step
    <2>1. UNCHANGED <<state, submitted>> \/ \E to : Save(request[u].job, request[u], to)
        BY <1>7 DEF AttemptStarts, applications
    <2> QED
        BY <1>5, <1>7, <2>1 DEF AttemptStarts
<1>8. ASSUME NEW u \in Sessions, SessionLost(u)
      PROVE  Step
    <2>1. Kept /\ SubmittedIsDated' /\ UNCHANGED <<state, submitted>>
        BY <1>8 DEF SessionLost, applications, Kept, RecordInv, SubmittedIsDated
    <2>2. ReadsStand' /\ request' = [v \in Sessions |-> request'[v]]
        BY <1>8, <2>1, ReadsStandStep DEF SessionLost, EndSession
    <2> QED
        BY <2>1, <2>2 DEF RecordInv
<1>9. ASSUME NEW j \in Jobs, NEW how, AttemptEnds(j, how)
      PROVE  Step
    <2> DEFINE read == [state |-> state[j], submitted |-> submitted[j]]
    <2>1. read.submitted => submitted[j]
        OBVIOUS
    <2>2. Save(j, read, reconcile(state[j], how)) /\ request' = request
        BY <1>9 DEF AttemptEnds
    <2> HIDE DEF read
    <2>3. /\ state' = [i \in Jobs |-> state'[i]] /\ submitted' \in [Jobs -> BOOLEAN]
          /\ SubmittedIsDated' /\ Kept
        BY <2>1, <2>2, SaveKeeps
    <2> QED
        BY <2>2, <2>3 DEF RecordInv, ReadsStand, Kept
<1> QED
    BY <1>2, <1>3, <1>4, <1>6, <1>7, <1>8, <1>9 DEF Next

(* Every submission stays on record, and every application past its        *)
(* submission has one, whatever its sessions read before they wrote        *)
(* (ApplicationService.transition, AttemptService.start_for_job,           *)
(* ScoringService, the worker's reconciliation).                           *)
THEOREM SubmissionStaysOnRecordAlways == Spec => SubmissionStaysOnRecord
<1>1. Init => RecordInv
    BY DEF Init, RecordInv, ReadsStand, SubmittedIsDated, SUBMITTED_STATES
<1>2. RecordInv /\ [Next]_vars => RecordInv'
    BY RecordStep DEF Step
<1>3. RecordInv /\ [Next]_vars =>
          [\A j \in Jobs : /\ submitted[j] => submitted'[j]
                           /\ state'[j] \in SUBMITTED_STATES => submitted'[j]]_vars
    BY RecordStep DEF Step, Kept, RecordInv, SubmittedIsDated
<1> QED
    BY <1>1, <1>2, <1>3, PTL DEF Spec, SubmissionStaysOnRecord

-----------------------------------------------------------------------------
(* Numbers and finite sets have least elements: induction over either is   *)
(* had by looking at the least one that fails.                             *)

LEMMA SmallestSet ==
    ASSUME NEW T, T # {}, \A S \in T : IsFiniteSet(S)
    PROVE  \E S \in T : \A R \in T : R \subseteq S => R = S
<1> DEFINE U == UNION T
<1>1. T \subseteq FiniteSubsetsOf(U)
  BY DEF FiniteSubsetsOf
<1>2. IsWellFoundedOn(StrictSubsetOrdering(U), FiniteSubsetsOf(U))
  BY FS_StrictSubsetOrderingWellFounded
<1>3. PICK S \in T : \A R \in T : ~(<<R, S>> \in StrictSubsetOrdering(U))
  BY <1>1, <1>2, WFMin
<1> QED BY <1>3 DEF StrictSubsetOrdering

LEMMA SmallestNumber ==
    ASSUME NEW T \in SUBSET Nat, T # {}
    PROVE  \E x \in T : \A y \in T : x <= y
<1> DEFINE I == {0 .. n : n \in T}
<1>1. ASSUME NEW n \in T PROVE IsFiniteSet(0 .. n)
  BY FS_Interval
<1>2. \A S \in I : IsFiniteSet(S) /\ \E n \in T : S = 0 .. n
  BY <1>1
<1>3. I # {} /\ \A n \in T : 0 .. n \in I
  OBVIOUS
<1> HIDE DEF I
<1>4. PICK S \in I : \A R \in I : R \subseteq S => R = S
  BY <1>2, <1>3, SmallestSet, SMTT(30)
<1>5. PICK x \in T : S = 0 .. x
  BY <1>2
<1>6. ASSUME NEW y \in T, ~(x <= y) PROVE FALSE
  <2>1. y \in Nat /\ x \in Nat /\ y < x
    BY <1>6
  <2>2. 0 .. y \subseteq 0 .. x
    BY <2>1
  <2>3. 0 .. y = 0 .. x
    BY <1>3, <1>4, <1>5, <2>2
  <2> QED BY <2>1, <2>3
<1> QED BY <1>6

\* What holds at first and is kept by every step up to a bound holds up to it.
LEMMA UpTo ==
    ASSUME NEW N \in Nat, NEW T \in SUBSET (0 .. N), 0 \in T,
           \A n \in 1 .. N : n - 1 \in T => n \in T
    PROVE  T = 0 .. N
<1> DEFINE Rest == (0 .. N) \ T
<1>1. CASE Rest = {}
  BY <1>1
<1>2. CASE Rest # {}
  <2>1. Rest \in SUBSET Nat
    OBVIOUS
  <2>2. PICK n \in Rest : \A m \in Rest : n <= m
    BY <1>2, <2>1, SmallestNumber
  <2>3. n \in 1 .. N /\ n - 1 \in 0 .. N /\ ~(n <= n - 1)
    BY <2>2
  <2>4. n - 1 \in T
    BY <2>2, <2>3
  <2> QED BY <2>2, <2>3, <2>4
<1> QED BY <1>1, <1>2

-----------------------------------------------------------------------------
(* Discovery. The values of a row are those of a source as close to the    *)
(* employer as any it is listed by; a posting wins over all of them or one *)
(* of them keeps it from winning. What is on record under an opening stays *)
(* there unless the run breaks a constraint and is lost.                   *)

Tables ==
    [canon : [Jobs -> Sources \cup {"none"}], stage : [Jobs -> Stages \cup {"none"}],
     listed : [Records -> Jobs \cup {"none"}], broken : BOOLEAN]

\* An opening that is listed has a row, and shows the best of its sources.
BestShown(t) ==
    \A r \in Records : t.listed[r] # "none" =>
        /\ t.canon[t.listed[r]] # "none"
        /\ Tier[t.canon[t.listed[r]]] >= Tier[r[1]]

\* No observation that t has is another one's in u.
Remembers(t, u) == \A r \in Records : t.listed[r] # "none" => u.listed[r] = t.listed[r]

RowsInv == OnRecord \in Tables /\ BestShown(OnRecord)

LEMMA UpsertKeepsTheBest ==
    ASSUME NEW t \in Tables, NEW posting \in Posting
    PROVE  LET u == upsert(t, posting)
           IN  /\ u \in Tables
               /\ u.listed[posting.record] = posting.job
               /\ ~u.broken => ~t.broken /\ Remembers(t, u)
               /\ BestShown(t) => BestShown(u)
<1> DEFINE u == upsert(t, posting)
           j == posting.job
           s == Source(posting)
           wins == t.canon[j] = "none" \/ IncomingWins(t, posting)
           known == t.canon[j] # "none" /\ Known(t, posting)
<1>1. /\ posting.record \in Records /\ j \in Jobs /\ s = posting.record[1] /\ s \in Sources
      /\ j # "none" /\ s # "none"
  BY PipelineAssumption DEF Posting, Source
<1>2. \A x \in Sources : Tier[x] \in Nat
  BY PipelineAssumption
<1>3. /\ u.canon = IF wins THEN [t.canon EXCEPT ![j] = s] ELSE t.canon
      /\ u.stage = [t.stage EXCEPT ![j] = DeliveredStage]
      /\ u.listed = IF known THEN t.listed ELSE [t.listed EXCEPT ![posting.record] = j]
      /\ u.broken = (t.broken \/ (~known /\ t.listed[posting.record] # "none"))
      /\ u = [canon |-> u.canon, stage |-> u.stage, listed |-> u.listed, broken |-> u.broken]
  BY DEF upsert
<1>4. /\ t.canon \in [Jobs -> Sources \cup {"none"}] /\ t.stage \in [Jobs -> Stages \cup {"none"}]
      /\ t.listed \in [Records -> Jobs \cup {"none"}] /\ t.broken \in BOOLEAN
  BY DEF Tables
<1> HIDE DEF u
<1>5. u \in Tables
  <2>1. u.canon \in [Jobs -> Sources \cup {"none"}]
    BY <1>1, <1>3, <1>4
  <2>2. u.stage \in [Jobs -> Stages \cup {"none"}]
    BY <1>1, <1>3, <1>4 DEF DeliveredStage, Stages
  <2>3. u.listed \in [Records -> Jobs \cup {"none"}]
    BY <1>1, <1>3, <1>4
  <2>4. u.broken \in BOOLEAN
    BY <1>3, <1>4
  <2> QED BY <1>3, <2>1, <2>2, <2>3, <2>4 DEF Tables
<1>6. u.listed[posting.record] = j
  BY <1>1, <1>3, <1>4 DEF Known
<1>7. ASSUME ~u.broken PROVE ~t.broken /\ Remembers(t, u)
  BY <1>1, <1>3, <1>4, <1>7 DEF Remembers, Known
<1>8. \A r \in Records : r # posting.record => u.listed[r] = t.listed[r]
  BY <1>1, <1>3, <1>4
<1>9. \A i \in Jobs : u.canon[i] = IF wins /\ i = j THEN s ELSE t.canon[i]
  BY <1>1, <1>3, <1>4
<1> DEFINE SourceOf(r) == r[1]
<1>10. \A r \in Records : SourceOf(r) \in Sources
  BY PipelineAssumption
<1>11. s = SourceOf(posting.record)
  BY <1>1
<1>12. IncomingWins(t, posting) =
          \A r \in Records : t.listed[r] = j => Tier[s] > Tier[SourceOf(r)]
  BY DEF IncomingWins
<1>13. BestShown(t) = \A r \in Records : t.listed[r] # "none" =>
            /\ t.canon[t.listed[r]] # "none"
            /\ Tier[t.canon[t.listed[r]]] >= Tier[SourceOf(r)]
  BY DEF BestShown
<1>14. BestShown(u) = \A r \in Records : u.listed[r] # "none" =>
            /\ u.canon[u.listed[r]] # "none"
            /\ Tier[u.canon[u.listed[r]]] >= Tier[SourceOf(r)]
  BY DEF BestShown
<1> HIDE DEF SourceOf, s, j
\* What the row of the posting shows is no worse than any record of it.
<1>15. ASSUME BestShown(t)
       PROVE  /\ u.canon[j] # "none"
              /\ Tier[u.canon[j]] >= Tier[s]
              /\ \A r \in Records : t.listed[r] = j => Tier[u.canon[j]] >= Tier[SourceOf(r)]
  <2>1. CASE t.canon[j] = "none"
    <3>1. u.canon[j] = s
      BY <1>1, <1>9, <2>1
    <3>2. \A r \in Records : t.listed[r] # j
      BY <1>1, <1>13, <1>15, <2>1
    <3>3. Tier[s] >= Tier[s]
      BY <1>1, <1>2
    <3> QED BY <1>1, <3>1, <3>2, <3>3
  <2>2. CASE IncomingWins(t, posting)
    <3>1. u.canon[j] = s
      BY <1>1, <1>9, <2>2
    <3>2. ASSUME NEW r \in Records, t.listed[r] = j PROVE Tier[s] >= Tier[SourceOf(r)]
      <4>1. Tier[s] > Tier[SourceOf(r)]
        BY <1>12, <2>2, <3>2
      <4> QED BY <1>1, <1>2, <1>10, <4>1
    <3>3. Tier[s] >= Tier[s]
      BY <1>1, <1>2
    <3> QED BY <1>1, <3>1, <3>2, <3>3
  <2>3. CASE t.canon[j] # "none" /\ ~IncomingWins(t, posting)
    <3>1. PICK r \in Records : t.listed[r] = j /\ ~(Tier[s] > Tier[SourceOf(r)])
      BY <1>12, <2>3
    <3>2. u.canon[j] = t.canon[j] /\ t.canon[j] \in Sources
      BY <1>1, <1>4, <1>9, <2>3
    <3>3. Tier[t.canon[j]] >= Tier[SourceOf(r)]
      BY <1>1, <1>13, <1>15, <3>1
    <3>4. Tier[t.canon[j]] >= Tier[s]
      BY <1>1, <1>2, <1>10, <3>1, <3>2, <3>3
    <3> QED BY <1>1, <1>13, <1>15, <2>3, <3>2, <3>4
  <2> QED BY <2>1, <2>2, <2>3
<1>16. ASSUME BestShown(t) PROVE BestShown(u)
  <2>1. ASSUME NEW r \in Records, u.listed[r] # "none"
        PROVE  /\ u.canon[u.listed[r]] # "none"
               /\ Tier[u.canon[u.listed[r]]] >= Tier[SourceOf(r)]
    <3>1. CASE r = posting.record
      BY <1>6, <1>11, <1>15, <1>16, <3>1
    <3>2. CASE r # posting.record /\ t.listed[r] = j
      BY <1>8, <1>15, <1>16, <3>2
    <3>3. CASE r # posting.record /\ t.listed[r] # j
      <4>1. u.listed[r] = t.listed[r] /\ t.listed[r] \in Jobs
        BY <1>4, <1>8, <2>1, <3>3
      <4>2. u.canon[t.listed[r]] = t.canon[t.listed[r]]
        BY <1>9, <3>3, <4>1
      <4> QED BY <1>13, <1>16, <2>1, <4>1, <4>2
    <3> QED BY <3>1, <3>2, <3>3
  <2> QED BY <1>14, <2>1
<1> QED BY <1>5, <1>6, <1>7, <1>16 DEF u, j

(* The tables after each posting of a run are what the recursion says.     *)
LEMMA PersistedIsStepwise ==
    ASSUME NEW delivered, Len(delivered) \in Nat
    PROVE  \E after :
              /\ after[0] = OnRecord
              /\ \A n \in 1 .. Len(delivered) : after[n] = upsert(after[n - 1], delivered[n])
              /\ Persisted(delivered) = after[Len(delivered)]
<1> DEFINE N == Len(delivered)
           Next1(f, n) == IF n = 0 THEN OnRecord ELSE upsert(f[n - 1], delivered[n])
           Good(f, n) == f = [m \in 0 .. n |-> Next1(f, m)]
           T == {n \in 0 .. N : \E f : Good(f, n)}
<1>1. 0 \in T
  <2>1. Good([m \in 0 .. 0 |-> OnRecord], 0)
    OBVIOUS
  <2>2. 0 \in 0 .. N
    OBVIOUS
  <2> HIDE DEF Good
  <2> QED BY <2>1, <2>2
<1>2. ASSUME NEW n \in 1 .. N, n - 1 \in T PROVE n \in T
  <2>1. PICK f : Good(f, n - 1)
    BY <1>2
  <2> DEFINE g == [m \in 0 .. n |-> IF m = n THEN Next1(f, n) ELSE f[m]]
  <2>2. \A m \in 0 .. n : Next1(g, m) = Next1(f, m)
    <3>1. \A m \in 1 .. n : m - 1 \in 0 .. n /\ m - 1 # n
      OBVIOUS
    <3>2. \A k \in 0 .. n : k # n => g[k] = f[k]
      OBVIOUS
    <3> HIDE DEF g
    <3>4. \A m \in 1 .. n : g[m - 1] = f[m - 1]
      BY <3>1, <3>2
    <3>3. \A m \in 0 .. n : m = 0 \/ m \in 1 .. n
      OBVIOUS
    <3> QED BY <3>3, <3>4
  <2>3. \A m \in 0 .. n : m = n \/ m \in 0 .. (n - 1)
    OBVIOUS
  <2> HIDE DEF Next1
  <2>4. \A m \in 0 .. (n - 1) : f[m] = Next1(f, m)
    BY <2>1
  <2>5. \A m \in 0 .. n : g[m] = Next1(g, m)
    BY <2>2, <2>3, <2>4
  <2>6. g = [m \in 0 .. n |-> g[m]]
    OBVIOUS
  <2>7. Good(g, n)
    BY <2>5, <2>6
  <2>8. n \in 0 .. N
    OBVIOUS
  <2> HIDE DEF Good
  <2> QED BY <2>7, <2>8
<1>3. N \in T
  <2>1. T = 0 .. N
    <3> HIDE DEF T
    <3>1. T \in SUBSET (0 .. N)
      BY DEF T
    <3> QED BY <1>1, <1>2, <3>1, UpTo
  <2> QED BY <2>1
<1> DEFINE after == CHOOSE f : f = [m \in 0 .. N |->
                       IF m = 0 THEN OnRecord ELSE upsert(f[m - 1], delivered[m])]
<1>4. after = [m \in 0 .. N |-> IF m = 0 THEN OnRecord ELSE upsert(after[m - 1], delivered[m])]
  BY <1>3
<1>5. Persisted(delivered) = after[N]
  BY DEF Persisted
<1> HIDE DEF after
<1>6. after[0] = OnRecord /\ \A n \in 1 .. N : after[n] = upsert(after[n - 1], delivered[n])
  BY <1>4
<1> QED BY <1>5, <1>6

(* What a run leaves, unless it breaks a constraint: every posting under   *)
(* its own opening, every earlier one where it was, and the best shown.    *)
LEMMA PersistedKeepsTheBest ==
    ASSUME RowsInv, NEW delivered \in Delivered
    PROVE  LET t == Persisted(delivered)
           IN  /\ t \in Tables
               /\ ~t.broken =>
                     /\ BestShown(t) /\ Remembers(OnRecord, t)
                     /\ \A i \in DOMAIN delivered : t.listed[delivered[i].record] = delivered[i].job
<1>1. PICK m \in 0 .. MaxDelivered : delivered \in [1 .. m -> Posting]
  BY DEF Delivered, SeqOf
<1>2. Len(delivered) \in Nat /\ DOMAIN delivered = 1 .. Len(delivered)
      /\ \A i \in 1 .. Len(delivered) : delivered[i] \in Posting
  <2>1. m \in Nat
    BY PipelineAssumption
  <2> QED BY <1>1, <2>1
<1> DEFINE N == Len(delivered)
<1>3. PICK after : /\ after[0] = OnRecord
                   /\ \A n \in 1 .. N : after[n] = upsert(after[n - 1], delivered[n])
                   /\ Persisted(delivered) = after[N]
  BY <1>2, PersistedIsStepwise
<1> DEFINE Holds(n) ==
              /\ after[n] \in Tables
              /\ BestShown(after[n])
              /\ ~after[n].broken =>
                    /\ Remembers(OnRecord, after[n])
                    /\ \A i \in 1 .. n : after[n].listed[delivered[i].record] = delivered[i].job
           T == {n \in 0 .. N : Holds(n)}
<1>4. Holds(0)
  BY <1>3 DEF RowsInv, Remembers
<1>5. ASSUME NEW n \in 1 .. N, Holds(n - 1) PROVE Holds(n)
  <2> DEFINE t == after[n - 1]
             u == after[n]
  <2>1. u = upsert(t, delivered[n]) /\ delivered[n] \in Posting
    BY <1>2, <1>3
  <2> HIDE DEF u
  <2>2. t \in Tables /\ BestShown(t)
    BY <1>5
  <2> HIDE DEF t
  <2>3. /\ u \in Tables /\ BestShown(u)
        /\ u.listed[delivered[n].record] = delivered[n].job
        /\ ~u.broken => ~t.broken /\ Remembers(t, u)
    BY <2>1, <2>2, UpsertKeepsTheBest
  <2>4. ASSUME ~u.broken
        PROVE  /\ Remembers(OnRecord, u)
               /\ \A i \in 1 .. n : u.listed[delivered[i].record] = delivered[i].job
    <3>1. Remembers(OnRecord, t) /\ Remembers(t, u)
      BY <1>5, <2>3, <2>4 DEF t
    <3>2. Remembers(OnRecord, u)
      BY <3>1 DEF Remembers
    <3>3. ASSUME NEW i \in 1 .. (n - 1) PROVE u.listed[delivered[i].record] = delivered[i].job
      <4>1. t.listed[delivered[i].record] = delivered[i].job
        BY <1>5, <2>3, <2>4 DEF t
      <4>2. delivered[i].job \in Jobs /\ delivered[i].record \in Records
        BY <1>2 DEF Posting
      <4> QED BY <3>1, <4>1, <4>2, PipelineAssumption DEF Remembers
    <3>4. \A i \in 1 .. n : i = n \/ i \in 1 .. (n - 1)
      OBVIOUS
    <3> QED BY <2>3, <3>2, <3>3, <3>4
  <2> QED BY <2>3, <2>4 DEF u
<1>6. Holds(N)
  <2> HIDE DEF Holds
  <2>1. N \in 0 .. N /\ 0 \in 0 .. N /\ \A n \in 1 .. N : n \in 0 .. N
    BY <1>2
  <2>2. 0 \in T /\ T \in SUBSET (0 .. N) /\ \A n \in 1 .. N : n - 1 \in T => n \in T
    BY <1>4, <1>5, <2>1
  <2>3. T = 0 .. N
    <3> HIDE DEF T
    <3> QED BY <1>2, <2>2, UpTo
  <2> QED BY <2>1, <2>3
<1> QED BY <1>2, <1>3, <1>6

LEMMA RowsStep ==
    ASSUME RowsInv, [Next]_vars
    PROVE  RowsInv'
<1>1. /\ canon \in [Jobs -> Sources \cup {"none"}] /\ stage \in [Jobs -> Stages \cup {"none"}]
      /\ listed \in [Records -> Jobs \cup {"none"}]
  BY DEF RowsInv, OnRecord, Tables
<1>2. ASSUME canon' = canon, listed' = listed, stage' \in [Jobs -> Stages \cup {"none"}]
      PROVE  RowsInv'
  BY <1>1, <1>2 DEF RowsInv, OnRecord, Tables, BestShown
<1>3. CASE UNCHANGED rows
  BY <1>1, <1>2, <1>3 DEF rows
<1>4. ASSUME NEW delivered \in Delivered, FinishDiscovery(delivered) PROVE RowsInv'
  <2> DEFINE t == Persisted(delivered)
  <2>1. t \in Tables /\ (~t.broken => BestShown(t))
    BY PersistedKeepsTheBest
  <2>2. \/ UNCHANGED rows
        \/ ~t.broken /\ canon' = t.canon /\ stage' = t.stage /\ listed' = t.listed
    BY <1>4 DEF FinishDiscovery
  <2> HIDE DEF t
  <2>3. ASSUME ~t.broken, canon' = t.canon, stage' = t.stage, listed' = t.listed PROVE RowsInv'
    BY <2>1, <2>3 DEF RowsInv, OnRecord, Tables, BestShown
  <2> QED BY <1>3, <2>2, <2>3
<1>5. ASSUME NEW kind, NEW results, FinishScoring(kind, results) PROVE RowsInv'
  <2>1. /\ canon' = canon /\ listed' = listed
        /\ stage' = [j \in Jobs |-> IF j \in DOMAIN results /\ results[j] # "error"
                                    THEN "scored" ELSE stage[j]]
    BY <1>5 DEF FinishScoring
  <2>2. stage' \in [Jobs -> Stages \cup {"none"}]
    BY <1>1, <2>1 DEF Stages
  <2> QED BY <1>2, <2>1, <2>2
<1>6. CASE \/ StartDiscovery \/ RunLost
           \/ \E kind \in {"fresh", "rescore"} : StartScoring(kind)
           \/ \E u \in Sessions :
                 \/ \E what \in {"user", "start"}, j \in Jobs : Read(u, what, j)
                 \/ \E to \in Moves : UserMoves(u, to)
                 \/ AttemptStarts(u) \/ SessionLost(u)
           \/ \E j \in Jobs, how \in {"completed", "cancelled"} : AttemptEnds(j, how)
  BY <1>3, <1>6 DEF StartDiscovery, RunLost, StartScoring, Read, UserMoves, AttemptStarts,
     SessionLost, AttemptEnds, EndSession, rows
<1>7. CASE UNCHANGED vars
  BY <1>3, <1>7 DEF vars, rows
<1> QED BY <1>4, <1>5, <1>6, <1>7 DEF Next

(* Every opening that is listed has a row, which shows the values of the   *)
(* best of its sources.                                                    *)
THEOREM RowsInvAlways == Spec => []RowsInv
<1>1. Init => RowsInv
  BY DEF Init, RowsInv, OnRecord, Tables, BestShown
<1>2. RowsInv /\ [Next]_vars => RowsInv'
  BY RowsStep
<1> QED BY <1>1, <1>2, PTL DEF Spec

(* Whatever order the copies of an opening arrive in, its row shows the    *)
(* best of them, and no run that commits discards an observation           *)
(* (JobRepository.upsert, DiscoveryService._persist).                      *)
THEOREM MergingKeepsTheBestAlways == Spec => []MergingKeepsTheBest
<1>1. ASSUME RowsInv PROVE MergingKeepsTheBest
  <2>1. \A j \in Stored : \A r \in Records : listed[r] = j => Tier[canon[j]] >= Tier[r[1]]
    BY <1>1, PipelineAssumption DEF RowsInv, OnRecord, BestShown, Stored
  <2>2. ASSUME NEW delivered \in Delivered, ~Persisted(delivered).broken
        PROVE  /\ \A i \in DOMAIN delivered :
                     Persisted(delivered).listed[delivered[i].record] = delivered[i].job
               /\ \A r \in Records : listed[r] # "none" => Persisted(delivered).listed[r] = listed[r]
    BY <1>1, <2>2, PersistedKeepsTheBest DEF Remembers, OnRecord
  <2> QED BY <2>1, <2>2 DEF MergingKeepsTheBest
<1> QED BY <1>1, RowsInvAlways, PTL

-----------------------------------------------------------------------------
(* Lessons. No two were written at the same moment, since the clock ticks  *)
(* between any two readings; so of two lessons one always comes before the *)
(* other, and a bundle is what leads that order.                           *)

LessonRecords ==
    [address : Addresses, level : AssertionLevel, size : Nat, supporting : Nat,
     contradicting : Nat, by : Nat, at : Nat, vouched : BOOLEAN]

MemoryType ==
    memory \in [lessons : Seq(LessonRecords), clock : Nat, raised : BOOLEAN,
                claim : [level : AssertionLevel, stands : BOOLEAN, vouched : BOOLEAN]]

\* The lesson r, at position i, when there are n lessons.
Sound(r, i, n) ==
    /\ r.by = 0 => r.supporting >= r.contradicting
    /\ r.by # 0 => r.by \in 1 .. n /\ r.by > i
    /\ r.level \in FACTUAL_LEVELS => r.vouched

\* The lessons at a time, pointing to no more than n of them.
SoundLessons(records, time, n) ==
    /\ records \in Seq(LessonRecords) /\ Len(records) <= n
    /\ \A i \in DOMAIN records : Sound(records[i], i, n) /\ records[i].at <= time
    /\ \A i, j \in DOMAIN records : records[i].at = records[j].at => i = j

KnowledgeInv ==
    /\ MemoryType
    /\ SoundLessons(lessons, memory.clock, Len(lessons))
    /\ is_factual(memory.claim) => memory.claim.vouched

LEMMA AppendedIsSound ==
    ASSUME NEW records, NEW time \in Nat, NEW later \in Nat, NEW n \in Nat,
           SoundLessons(records, time, n), NEW r \in LessonRecords,
           r.at <= later, time <= later, \A i \in DOMAIN records : records[i].at # r.at,
           Len(records) + 1 <= n, Sound(r, Len(records) + 1, n)
    PROVE  SoundLessons(Append(records, r), later, n)
<1> DEFINE all == Append(records, r)
           N == Len(records)
<1>1. /\ all \in Seq(LessonRecords) /\ N \in Nat /\ Len(all) = N + 1
      /\ DOMAIN all = 1 .. (N + 1) /\ DOMAIN records = 1 .. N
      /\ all[N + 1] = r /\ \A i \in 1 .. N : all[i] = records[i]
  BY DEF SoundLessons
<1>2. \A i \in 1 .. N : Sound(records[i], i, n) /\ records[i].at <= time /\ records[i].at \in Nat
  <2>1. \A i \in 1 .. N : records[i] \in LessonRecords
    BY <1>1 DEF SoundLessons
  <2> QED BY <1>1, <2>1 DEF SoundLessons, LessonRecords
<1>3. \A i, j \in 1 .. N : records[i].at = records[j].at => i = j
  BY <1>1 DEF SoundLessons
<1>4. \A i \in 1 .. (N + 1) : i = N + 1 \/ i \in 1 .. N
  BY <1>1
<1> HIDE DEF all, N
<1>5. \A i \in DOMAIN all : Sound(all[i], i, n) /\ all[i].at <= later
  <2>1. \A i \in 1 .. N : records[i].at <= later
    BY <1>2
  <2> QED BY <1>1, <1>2, <1>4, <2>1 DEF N
<1>6. \A i, j \in DOMAIN all : all[i].at = all[j].at => i = j
  BY <1>1, <1>3, <1>4
<1> QED BY <1>1, <1>5, <1>6 DEF SoundLessons, N, all

LEMMA ReplacedIsSound ==
    ASSUME NEW records, NEW time \in Nat, NEW later \in Nat, NEW n \in Nat, NEW m \in Nat,
           SoundLessons(records, time, n), NEW k \in DOMAIN records, NEW r \in LessonRecords,
           r.at <= later, time <= later, \A i \in DOMAIN records : records[i].at # r.at,
           n <= m, Sound(r, k, m)
    PROVE  SoundLessons([records EXCEPT ![k] = r], later, m)
<1> DEFINE all == [records EXCEPT ![k] = r]
           N == Len(records)
<1>1. /\ all \in Seq(LessonRecords) /\ N \in Nat /\ Len(all) = N
      /\ DOMAIN all = 1 .. N /\ DOMAIN records = 1 .. N /\ N <= n
      /\ all[k] = r /\ \A i \in 1 .. N : i # k => all[i] = records[i]
  BY DEF SoundLessons
<1>2. \A i \in 1 .. N : Sound(records[i], i, n) /\ records[i].at <= time
                        /\ records[i].at \in Nat /\ records[i].by \in Nat
  <2>1. \A i \in 1 .. N : records[i] \in LessonRecords
    BY <1>1 DEF SoundLessons
  <2> QED BY <1>1, <2>1 DEF SoundLessons, LessonRecords
<1>3. \A i, j \in 1 .. N : records[i].at = records[j].at => i = j
  BY <1>1 DEF SoundLessons
<1> HIDE DEF all, N
<1>4. \A i \in DOMAIN all : Sound(all[i], i, m) /\ all[i].at <= later
  <2>1. ASSUME NEW i \in 1 .. N, i # k PROVE Sound(records[i], i, m) /\ records[i].at <= later
    <3>1. records[i].by # 0 => records[i].by \in 1 .. m
      BY <1>2 DEF Sound
    <3> QED BY <1>2, <3>1 DEF Sound
  <2> QED BY <1>1, <2>1
<1>5. \A i, j \in DOMAIN all : all[i].at = all[j].at => i = j
  BY <1>1, <1>3
<1>6. Len(all) <= m
  BY <1>1
<1> QED BY <1>1, <1>4, <1>5, <1>6 DEF SoundLessons, all

\* A lesson with one field written anew.
LEMMA LessonWritten ==
    ASSUME NEW r \in LessonRecords, NEW x \in Nat
    PROVE  /\ [r EXCEPT !.supporting = x] \in LessonRecords
           /\ [r EXCEPT !.contradicting = x] \in LessonRecords
           /\ [r EXCEPT !.size = x] \in LessonRecords
           /\ [r EXCEPT !.at = x] \in LessonRecords
           /\ [r EXCEPT !.by = x] \in LessonRecords
<1>1. [r EXCEPT !.supporting = x] \in LessonRecords
  BY DEF LessonRecords
<1>2. [r EXCEPT !.contradicting = x] \in LessonRecords
  BY DEF LessonRecords
<1>3. [r EXCEPT !.size = x] \in LessonRecords
  BY DEF LessonRecords
<1>4. [r EXCEPT !.at = x] \in LessonRecords
  BY DEF LessonRecords
<1>5. [r EXCEPT !.by = x] \in LessonRecords
  BY DEF LessonRecords
<1> QED BY <1>1, <1>2, <1>3, <1>4, <1>5

LEMMA KnowledgeFacts ==
    ASSUME KnowledgeInv
    PROVE  /\ memory.clock \in Nat /\ Len(lessons) \in Nat
           /\ lessons \in Seq(LessonRecords) /\ Ids = 1 .. Len(lessons)
           /\ SoundLessons(lessons, memory.clock, Len(lessons))
           /\ \A i \in Ids : /\ lessons[i] \in LessonRecords
                             /\ Sound(lessons[i], i, Len(lessons))
                             /\ lessons[i].at \in Nat /\ lessons[i].at <= memory.clock
           /\ \A i, j \in Ids : lessons[i].at = lessons[j].at => i = j
<1>1. /\ memory.clock \in Nat /\ lessons \in Seq(LessonRecords)
      /\ SoundLessons(lessons, memory.clock, Len(lessons))
  BY DEF KnowledgeInv, MemoryType, lessons
<1>2. Len(lessons) \in Nat /\ Ids = 1 .. Len(lessons)
  BY <1>1 DEF Ids
<1>3. \A i \in 1 .. Len(lessons) : lessons[i] \in LessonRecords
  BY <1>1
<1>4. \A i \in Ids : lessons[i].at \in Nat
  BY <1>2, <1>3 DEF LessonRecords
<1> QED BY <1>1, <1>2, <1>3, <1>4 DEF SoundLessons, Ids

(* The lesson that is found is one of those that are there.                *)
LEMMA FindFinds ==
    ASSUME KnowledgeInv, NEW address, find(address) # 0
    PROVE  find(address) \in Ids
<1> DEFINE found == {i \in Ids : lessons[i].address = address}
           ages == {memory.clock - lessons[i].at : i \in found}
<1>1. /\ found # {}
      /\ find(address) = CHOOSE i \in found : \A j \in found : lessons[j].at <= lessons[i].at
  BY DEF find
<1>2. \A i \in found : lessons[i].at \in Nat /\ lessons[i].at <= memory.clock
  BY KnowledgeFacts
<1>3. memory.clock \in Nat
  BY KnowledgeFacts
<1> HIDE DEF found
<1>4. ages \in SUBSET Nat /\ ages # {}
  BY <1>1, <1>2, <1>3
<1>5. PICK age \in ages : \A other \in ages : age <= other
  <2> HIDE DEF ages
  <2> QED BY <1>4, SmallestNumber
<1>6. PICK i \in found : age = memory.clock - lessons[i].at
  OBVIOUS
<1>7. \A j \in found : lessons[j].at <= lessons[i].at
  BY <1>2, <1>3, <1>5, <1>6
<1>8. find(address) \in found
  BY <1>1, <1>7
<1> QED BY <1>8 DEF found

\* What a step leaves of the memory.
LEMMA KnowledgeKept ==
    ASSUME KnowledgeInv, NEW records, NEW time \in Nat, NEW raised \in BOOLEAN,
           SoundLessons(records, time, Len(records)),
           memory' = [memory EXCEPT !.clock = time, !.raised = raised, !.lessons = records]
    PROVE  KnowledgeInv'
<1>1. records \in Seq(LessonRecords)
  BY DEF SoundLessons
<1>2. /\ memory'.lessons = records /\ memory'.clock = time /\ memory'.claim = memory.claim
      /\ MemoryType'
  BY <1>1 DEF KnowledgeInv, MemoryType
<1> QED BY <1>2 DEF KnowledgeInv, lessons, is_factual

LEMMA RaisingKeeps == ASSUME KnowledgeInv, RaisesError PROVE KnowledgeInv'
  BY DEF RaisesError, KnowledgeInv, MemoryType, lessons, is_factual

LEMMA RememberStep ==
    ASSUME KnowledgeInv, NEW address \in Addresses, NEW level \in AssertionLevel,
           NEW size \in Nat, NEW by_user \in BOOLEAN, remember(address, level, size, by_user)
    PROVE  KnowledgeInv'
<1>1. CASE RaisesError
  BY <1>1, RaisingKeeps
<1>2. CASE /\ by_user \/ ~RefusesMachine(level)
           /\ memory' = [memory EXCEPT !.clock = @ + 1, !.raised = FALSE,
                            !.lessons = Remembered(address, level, size, by_user)]
  <2> DEFINE moment == memory.clock + 1
             records == Remembered(address, level, size, by_user)
  <2>1. /\ memory.clock \in Nat /\ moment \in Nat /\ memory.clock <= moment /\ moment <= moment
        /\ Len(lessons) \in Nat /\ Len(lessons) + 1 \in Nat /\ Len(lessons) + 1 <= Len(lessons) + 1
        /\ Len(lessons) <= Len(lessons)
    BY KnowledgeFacts
  <2>2. \A i \in Ids : lessons[i].at # moment
    BY <2>1, KnowledgeFacts
  <2>3. CASE find(address) = 0
    <3> DEFINE r == Lesson(address, level, size, by_user, moment)
    <3>1. level \in FACTUAL_LEVELS => by_user
      BY <1>2 DEF RefusesMachine, can_auto_promote, FACTUAL_LEVELS
    <3>2. r \in LessonRecords /\ r.at = moment /\ Sound(r, Len(lessons) + 1, Len(lessons) + 1)
      BY <2>1, <3>1 DEF Lesson, LessonRecords, Sound
    <3>3. SoundLessons(lessons, memory.clock, Len(lessons) + 1)
      <4>1. \A i \in Ids : Sound(lessons[i], i, Len(lessons) + 1)
        <5>1. \A x \in 1 .. Len(lessons) : x \in 1 .. (Len(lessons) + 1)
          BY <2>1
        <5> QED BY <5>1, KnowledgeFacts DEF Sound
      <4> QED BY <2>1, <4>1, KnowledgeFacts DEF SoundLessons, Ids
    <3> HIDE DEF r, moment
    <3>4. SoundLessons(Append(lessons, r), moment, Len(lessons) + 1)
      BY <2>1, <2>2, <3>2, <3>3, AppendedIsSound DEF Ids
    <3>5. records = Append(lessons, r) /\ Len(records) = Len(lessons) + 1
      BY <2>3, KnowledgeFacts DEF Remembered, r, moment
    <3> QED BY Zenon, <1>2, <2>1, <3>4, <3>5, KnowledgeKept DEF moment
  <2>4. CASE find(address) # 0
    <3> DEFINE k == find(address)
               r == reinforced(lessons[k], size, moment)
    <3>1. k \in Ids /\ lessons[k] \in LessonRecords /\ Sound(lessons[k], k, Len(lessons))
      BY <2>4, FindFinds, KnowledgeFacts
    <3>2. /\ r \in LessonRecords /\ r.at = moment /\ r.by = lessons[k].by
          /\ r.supporting = lessons[k].supporting + 1 /\ r.contradicting = lessons[k].contradicting
          /\ r.level = lessons[k].level /\ r.vouched = lessons[k].vouched
      <4> DEFINE one == [lessons[k] EXCEPT !.supporting = @ + 1]
                 two == [one EXCEPT !.size = size]
      <4>1. lessons[k].supporting + 1 \in Nat
        BY <3>1 DEF LessonRecords
      <4>2. one \in LessonRecords
        BY <3>1, <4>1, LessonWritten
      <4>3. two \in LessonRecords
        <5> HIDE DEF one
        <5> QED BY <4>2, LessonWritten
      <4>4. [two EXCEPT !.at = moment] \in LessonRecords
        <5> HIDE DEF two
        <5> QED BY <2>1, <4>3, LessonWritten
      <4>5. r = [two EXCEPT !.at = moment]
        BY DEF reinforced
      <4> QED BY <3>1, <4>4, <4>5 DEF LessonRecords
    <3>3. Sound(r, k, Len(lessons))
      BY <3>1, <3>2 DEF Sound, LessonRecords
    <3>4. records = [lessons EXCEPT ![k] = r]
      BY <2>4, <3>1 DEF Remembered, Ids
    <3> HIDE DEF r, moment, k
    <3>5. SoundLessons([lessons EXCEPT ![k] = r], moment, Len(lessons))
      BY <2>1, <2>2, <3>1, <3>2, <3>3, ReplacedIsSound, KnowledgeFacts DEF Ids
    <3>6. Len(records) = Len(lessons)
      BY <3>4, KnowledgeFacts
    <3> QED BY Zenon, <1>2, <2>1, <3>4, <3>5, <3>6, KnowledgeKept DEF moment
  <2> QED BY <2>3, <2>4
<1> QED BY <1>1, <1>2 DEF remember

LEMMA ContradictStep ==
    ASSUME KnowledgeInv, NEW address, contradict(address)
    PROVE  KnowledgeInv'
<1> DEFINE k == find(address)
           now == memory.clock
           N == Len(lessons)
           r == [lessons[k] EXCEPT !.contradicting = @ + 1, !.at = now + 1]
           fallen == [r EXCEPT !.by = N + 1]
           fresh == Replacement(r, now + 2)
<1>1. k \in Ids /\ lessons[k] \in LessonRecords /\ Sound(lessons[k], k, N)
  BY FindFinds, KnowledgeFacts DEF contradict
<1>2. /\ now \in Nat /\ now + 1 \in Nat /\ now + 2 \in Nat /\ now <= now + 1 /\ now + 1 <= now + 1
      /\ now + 1 <= now + 2 /\ now + 2 <= now + 2
      /\ N \in Nat /\ N + 1 \in Nat /\ N <= N /\ N <= N + 1 /\ N + 1 <= N + 1 /\ Ids = 1 .. N
  BY KnowledgeFacts
<1>3. \A i \in Ids : lessons[i].at # now + 1 /\ lessons[i].at # now + 2
  BY <1>2, KnowledgeFacts
<1>4. /\ r \in LessonRecords /\ r.at = now + 1 /\ r.by = lessons[k].by
      /\ r.supporting = lessons[k].supporting /\ r.contradicting = lessons[k].contradicting + 1
      /\ r.level = lessons[k].level /\ r.vouched = lessons[k].vouched
  <2> DEFINE one == [lessons[k] EXCEPT !.contradicting = @ + 1]
  <2>1. lessons[k].contradicting + 1 \in Nat
    BY <1>1 DEF LessonRecords
  <2>2. one \in LessonRecords
    BY <1>1, <2>1, LessonWritten
  <2>3. [one EXCEPT !.at = now + 1] \in LessonRecords
    <3> HIDE DEF one
    <3> QED BY <1>2, <2>2, LessonWritten
  <2> QED BY <1>1, <2>3 DEF LessonRecords
<1>5. /\ r.supporting \in Nat /\ r.contradicting \in Nat
      /\ k \in DOMAIN lessons /\ DOMAIN lessons = Ids /\ SoundLessons(lessons, now, N)
  BY <1>1, <1>4, KnowledgeFacts DEF LessonRecords, Ids
<1>6. CASE ~Tipped(r, lessons[k]) /\
           memory' = [memory EXCEPT !.clock = @ + 1, !.lessons[k] = r, !.raised = FALSE]
  <2>1. r.supporting >= r.contradicting
    BY <1>5, <1>6 DEF Tipped, Confident
  <2>2. Sound(r, k, N)
    BY <1>1, <1>4, <2>1 DEF Sound
  <2> HIDE DEF r, k
  <2>3. SoundLessons([lessons EXCEPT ![k] = r], now + 1, N)
    BY <1>2, <1>3, <1>4, <1>5, <2>2, ReplacedIsSound
  <2>4. Len([lessons EXCEPT ![k] = r]) = N
    BY KnowledgeFacts
  <2>5. memory' = [memory EXCEPT !.clock = now + 1, !.raised = FALSE,
                                 !.lessons = [lessons EXCEPT ![k] = r]]
    BY <1>6 DEF lessons, KnowledgeInv, MemoryType
  <2> QED BY Zenon, <1>2, <2>3, <2>4, <2>5, KnowledgeKept
<1>7. CASE memory' = [memory EXCEPT !.clock = @ + 2, !.raised = FALSE,
                         !.lessons = Append([@ EXCEPT ![k] = [r EXCEPT !.by = Len(lessons) + 1]],
                                            Replacement(r, now + 1 + 1))]
  <2>1. /\ fallen \in LessonRecords /\ fallen.at = now + 1 /\ fallen.by = N + 1
        /\ fallen.level = r.level /\ fallen.vouched = r.vouched
    BY <1>2, <1>4 DEF LessonRecords
  <2>2. Sound(fallen, k, N + 1)
    BY <1>1, <1>2, <1>4, <2>1 DEF Sound
  <2>3. /\ fresh \in LessonRecords /\ fresh.at = now + 2
        /\ Sound(fresh, N + 1, N + 1)
    <3>1. r.address \in Addresses /\ r.size \in Nat /\ "inferred" \in AssertionLevel
      BY <1>4 DEF LessonRecords, AssertionLevel, LEVEL_RANK
    <3> HIDE DEF r
    <3> QED BY <1>2, <3>1 DEF Replacement, FACTUAL_LEVELS, Lesson, LessonRecords, Sound
  <2> DEFINE some == [lessons EXCEPT ![k] = fallen]
             records == Append(some, fresh)
  <2> HIDE DEF fallen, fresh, k
  <2>4. SoundLessons(some, now + 1, N + 1)
    BY <1>2, <1>3, <1>5, <2>1, <2>2, ReplacedIsSound
  <2>5. DOMAIN some = Ids /\ Len(some) = N /\ some \in Seq(LessonRecords)
    BY <2>4, KnowledgeFacts DEF Ids, SoundLessons
  <2>6. \A i \in Ids : some[i].at # now + 2
    BY <1>2, <2>4, <2>5, KnowledgeFacts DEF SoundLessons
  <2> HIDE DEF some
  <2>7. SoundLessons(records, now + 2, N + 1)
    BY <1>2, <2>3, <2>4, <2>5, <2>6, AppendedIsSound
  <2>8. Len(records) = N + 1
    BY <2>5
  <2>9. memory' = [memory EXCEPT !.clock = now + 2, !.raised = FALSE, !.lessons = records]
    <3>1. now + 1 + 1 = now + 2
      BY <1>2
    <3> QED BY <1>7, <3>1 DEF lessons, some, fallen, fresh, k
  <2> HIDE DEF records
  <2> QED BY Zenon, <1>2, <2>7, <2>8, <2>9, KnowledgeKept
<1> QED BY <1>6, <1>7 DEF contradict

LEMMA SupersedeStep ==
    ASSUME KnowledgeInv, NEW k \in Ids, NEW address \in Addresses, supersede(k, address, "user_approved", 1)
    PROVE  KnowledgeInv'
<1> DEFINE now == memory.clock
           N == Len(lessons)
           old == [lessons[k] EXCEPT !.by = N + 1, !.at = now + 2]
           fresh == Lesson(address, "user_approved", 1, TRUE, now + 1)
           found == lessons[k].address.kind = address.kind /\ lessons[k].by = 0
           some == IF found THEN [lessons EXCEPT ![k] = old] ELSE lessons
           records == Append(some, fresh)
<1>1. lessons[k] \in LessonRecords /\ Sound(lessons[k], k, N)
  BY KnowledgeFacts
<1>2. /\ now \in Nat /\ now + 1 \in Nat /\ now + 2 \in Nat /\ now <= now + 2 /\ now + 1 <= now + 2
      /\ now + 2 <= now + 2
      /\ N \in Nat /\ N + 1 \in Nat /\ N <= N /\ N <= N + 1 /\ N + 1 <= N + 1 /\ Ids = 1 .. N
  BY KnowledgeFacts
<1>3. \A i \in Ids : lessons[i].at # now + 1 /\ lessons[i].at # now + 2
  BY <1>2, KnowledgeFacts
<1>4. /\ old \in LessonRecords /\ old.at = now + 2 /\ old.by = N + 1
      /\ old.level = lessons[k].level /\ old.vouched = lessons[k].vouched
  BY <1>1, <1>2 DEF LessonRecords
<1>5. Sound(old, k, N + 1)
  BY <1>1, <1>2, <1>4 DEF Sound
<1>6. fresh \in LessonRecords /\ fresh.at = now + 1 /\ Sound(fresh, N + 1, N + 1)
  <2>1. "user_approved" \in AssertionLevel /\ 1 \in Nat
    BY DEF AssertionLevel, LEVEL_RANK
  <2> QED BY <1>2, <2>1 DEF Lesson, LessonRecords, Sound
<1>7. memory' = [memory EXCEPT !.clock = now + 2, !.raised = FALSE, !.lessons = records]
  BY DEF supersede, lessons
<1>8. k \in DOMAIN lessons /\ DOMAIN lessons = Ids /\ SoundLessons(lessons, now, N)
  BY KnowledgeFacts DEF Ids
<1> HIDE DEF old, fresh, found
<1>9. SoundLessons(some, now + 2, N + 1) /\ Len(some) = N /\ DOMAIN some = Ids
      /\ \A i \in Ids : some[i].at # now + 1
  <2>1. CASE found
    <3>1. SoundLessons([lessons EXCEPT ![k] = old], now + 2, N + 1)
      BY <1>2, <1>3, <1>4, <1>5, <1>8, ReplacedIsSound
    <3>2. /\ Len(some) = N /\ DOMAIN some = Ids
          /\ some[k] = old /\ \A i \in Ids : i # k => some[i] = lessons[i]
      BY <2>1, KnowledgeFacts DEF Ids
    <3>3. \A i \in Ids : some[i].at # now + 1
      BY <1>2, <1>3, <1>4, <3>2
    <3> QED BY <2>1, <3>1, <3>2, <3>3
  <2>2. CASE ~found
    <3>1. SoundLessons(lessons, now + 2, N + 1)
      <4>1. \A i \in Ids : Sound(lessons[i], i, N + 1)
        <5>1. \A x \in 1 .. N : x \in 1 .. (N + 1)
          BY <1>2
        <5> QED BY <5>1, KnowledgeFacts DEF Sound
      <4>2. \A i \in Ids : lessons[i].at <= now + 2
        BY <1>2, KnowledgeFacts
      <4> QED BY <1>2, <1>8, <4>1, <4>2, KnowledgeFacts DEF SoundLessons
    <3> QED BY <1>3, <2>2, <3>1 DEF Ids
  <2> QED BY <2>1, <2>2
<1> HIDE DEF some
<1>10. SoundLessons(records, now + 2, N + 1)
  BY <1>2, <1>6, <1>9, AppendedIsSound
<1>11. Len(records) = N + 1
  BY <1>2, <1>9 DEF SoundLessons
<1> HIDE DEF records
<1> QED BY Zenon, <1>2, <1>7, <1>10, <1>11, KnowledgeKept

LEMMA KnowledgeStep ==
    ASSUME KnowledgeInv, [LessonNext \/ ClaimNext]_memory
    PROVE  KnowledgeInv'
<1>0. /\ {"verified", "inferred", "preference"} \subseteq AssertionLevel
      /\ 1 \in Nat /\ 2 \in Nat /\ TRUE \in BOOLEAN /\ FALSE \in BOOLEAN
  BY DEF AssertionLevel, LEVEL_RANK
<1>1. CASE UNCHANGED memory
  BY <1>1 DEF KnowledgeInv, MemoryType, lessons, is_factual
<1>2. ASSUME NEW a \in Addresses, remember(a, "verified", 1, TRUE) PROVE KnowledgeInv'
  BY <1>0, <1>2, RememberStep
<1>3. ASSUME NEW a \in Addresses, contradict(a) PROVE KnowledgeInv'
  BY <1>3, ContradictStep
<1>4. ASSUME NEW i \in Ids, NEW a \in Addresses, supersede(i, a, "user_approved", 1)
      PROVE  KnowledgeInv'
  BY <1>4, SupersedeStep
<1>5. ASSUME NEW edit \in Edits, apply_signal(edit) PROVE KnowledgeInv'
  <2>1. RaisesError \/ \E a \in Addresses : remember(a, "inferred", 2, FALSE)
    BY <1>5 DEF apply_signal
  <2> QED BY <1>0, <2>1, RaisingKeeps, RememberStep
<1>6. ASSUME NEW days_known \in BOOLEAN, record_outcome(days_known) PROVE KnowledgeInv'
  <2>1. RaisesError \/ \E a \in Addresses : remember(a, "inferred", 2, FALSE)
    BY <1>6 DEF record_outcome
  <2> QED BY <1>0, <2>1, RaisingKeeps, RememberStep
<1>7. CASE record_failure
  BY <1>0, <1>7, RememberStep DEF record_failure
<1>8. CASE record_approval
  <2>1. RefusesMachine("preference")
    BY DEF RefusesMachine, can_auto_promote, FACTUAL_LEVELS, LEVEL_RANK
  <2>2. RaisesError
    BY <1>8, <2>1 DEF record_approval, remember
  <2> QED BY <2>2, RaisingKeeps
<1>9. CASE Retire
  BY <1>9 DEF Retire, KnowledgeInv, MemoryType, lessons, is_factual
<1>10. ASSUME NEW target \in AssertionLevel, NEW by_user \in BOOLEAN, promote(target, by_user)
       PROVE  KnowledgeInv'
  <2>1. CASE RaisesError
    BY <2>1, RaisingKeeps
  <2>2. CASE /\ by_user \/ can_auto_promote(memory.claim.level, target)
             /\ memory' = [memory EXCEPT !.raised = FALSE, !.claim.level = target,
                   !.claim.vouched = IF by_user THEN TRUE ELSE @ /\ target = memory.claim.level]
    <3>1. /\ memory'.lessons = memory.lessons /\ memory'.clock = memory.clock
          /\ memory'.claim.stands = memory.claim.stands /\ memory'.claim.level = target
          /\ memory'.claim.vouched = (by_user \/ (memory.claim.vouched /\ target = memory.claim.level))
          /\ MemoryType'
      BY <2>2 DEF KnowledgeInv, MemoryType
    <3>2. is_factual(memory.claim)' => memory'.claim.vouched
      BY <2>2, <3>1 DEF KnowledgeInv, is_factual, can_auto_promote
    <3> QED BY <3>1, <3>2 DEF KnowledgeInv, lessons
  <2> QED BY <1>10, <2>1, <2>2 DEF promote
<1> QED BY <1>1, <1>2, <1>3, <1>4, <1>5, <1>6, <1>7, <1>8, <1>9, <1>10 DEF LessonNext, ClaimNext

(* The ratios a / b, c / d and e / f are compared across.                  *)
LEMMA RatiosAreOrdered ==
    ASSUME NEW a \in Nat, NEW b \in Nat \ {0}, NEW c \in Nat, NEW d \in Nat \ {0},
           NEW e \in Nat, NEW f \in Nat \ {0}, a * d >= c * b, c * f >= e * d
    PROVE  /\ a * f >= e * b
           /\ a * d > c * b \/ c * f > e * d => a * f > e * b
<1>1. /\ a * d \in Int /\ c * b \in Int /\ c * f \in Int /\ e * d \in Int
      /\ a * f \in Int /\ e * b \in Int
  OBVIOUS
<1>2. ASSUME NEW x \in Int, NEW y \in Int, NEW z \in Nat \ {0}
      PROVE  /\ x >= y <=> x * z >= y * z
             /\ x > y <=> x * z > y * z
  BY <1>2
<1>3. /\ (a * d) * f = (a * f) * d /\ (c * b) * f = (c * f) * b /\ (e * d) * b = (e * b) * d
  BY <1>1
<1>4. (a * d) * f >= (c * b) * f /\ (c * f) * b >= (e * d) * b
  BY <1>1, <1>2
<1>5. (a * f) * d >= (e * b) * d
  BY <1>1, <1>3, <1>4
<1>6. ASSUME a * d > c * b \/ c * f > e * d PROVE (a * f) * d > (e * b) * d
  <2>1. (a * d) * f > (c * b) * f \/ (c * f) * b > (e * d) * b
    BY <1>1, <1>2, <1>6
  <2> QED BY <1>1, <1>3, <1>4, <2>1
<1> QED BY <1>1, <1>2, <1>5, <1>6

(* The order of confidence.                                                *)
LEMMA ConfidenceIsOrdered ==
    ASSUME NEW r \in LessonRecords, NEW s \in LessonRecords, NEW t \in LessonRecords
    PROVE  /\ MoreConfident(r, s) => ~MoreConfident(s, r)
           /\ MoreConfident(r, s) /\ ~MoreConfident(t, s) => MoreConfident(r, t)
           /\ ~MoreConfident(s, r) /\ MoreConfident(s, t) => MoreConfident(r, t)
           /\ ~MoreConfident(s, r) /\ ~MoreConfident(t, s) => ~MoreConfident(t, r)
           /\ ~MoreConfident(s, r) /\ Confident(s, 3, 10) => Confident(r, 3, 10)
<1> DEFINE up(x) == x.supporting + 1
           down(x) == x.supporting + x.contradicting + 2
<1>1. \A x \in LessonRecords : up(x) \in Nat /\ down(x) \in Nat \ {0}
  BY DEF LessonRecords
<1>2. /\ \A x, y : MoreConfident(x, y) <=> (up(x) * down(y) > up(y) * down(x))
      /\ Confident(s, 3, 10) <=> (10 * up(s) >= 3 * down(s))
      /\ Confident(r, 3, 10) <=> (10 * up(r) >= 3 * down(r))
  BY DEF MoreConfident, Confident
<1> HIDE DEF up, down
<1>3. \A x, y \in LessonRecords : up(x) * down(y) \in Int
  BY <1>1
<1>4. \A x, y \in LessonRecords : ~MoreConfident(y, x) <=> up(x) * down(y) >= up(y) * down(x)
  BY <1>2, <1>3
<1>5. MoreConfident(r, s) => ~MoreConfident(s, r)
  BY <1>2, <1>3
<1>6. ASSUME ~MoreConfident(s, r), ~MoreConfident(t, s)
      PROVE  /\ ~MoreConfident(t, r)
             /\ MoreConfident(r, s) \/ MoreConfident(s, t) => MoreConfident(r, t)
  <2>1. up(r) * down(s) >= up(s) * down(r) /\ up(s) * down(t) >= up(t) * down(s)
    BY <1>4, <1>6
  <2>2. /\ up(r) * down(t) >= up(t) * down(r)
        /\ up(r) * down(s) > up(s) * down(r) \/ up(s) * down(t) > up(t) * down(s)
              => up(r) * down(t) > up(t) * down(r)
    BY <1>1, <2>1, RatiosAreOrdered
  <2> QED BY <1>2, <1>4, <2>2
<1>7. MoreConfident(s, t) => ~MoreConfident(t, s)
  BY <1>2, <1>3
<1>8. ASSUME ~MoreConfident(s, r), Confident(s, 3, 10) PROVE Confident(r, 3, 10)
  <2>1. up(r) * down(s) >= up(s) * down(r) /\ up(s) * 10 >= 3 * down(s)
    BY <1>1, <1>2, <1>4, <1>8
  <2>2. 3 \in Nat /\ 10 \in Nat \ {0}
    OBVIOUS
  <2>3. up(r) * 10 >= 3 * down(r)
    BY <1>1, <2>1, <2>2, RatiosAreOrdered
  <2> QED BY <1>1, <1>2, <2>3
<1> QED BY <1>5, <1>6, <1>7, <1>8

LEMMA LessonsAreOrdered ==
    ASSUME KnowledgeInv
    PROVE  /\ \A i, j \in Ids : Before(i, j) => ~Before(j, i)
           /\ \A i, j \in Ids : i # j => Before(i, j) \/ Before(j, i)
           /\ \A i, j, k \in Ids : Before(i, j) /\ Before(j, k) => Before(i, k)
           /\ \A i, j \in Ids : Before(i, j) /\ Confident(lessons[j], 3, 10)
                                    => Confident(lessons[i], 3, 10)
<1> DEFINE More(i, j) == MoreConfident(lessons[i], lessons[j])
           When(i) == lessons[i].at
<1>1. /\ \A i \in Ids : lessons[i] \in LessonRecords /\ When(i) \in Nat
      /\ \A i, j \in Ids : When(i) = When(j) => i = j
  BY KnowledgeFacts
<1>2. \A i, j : Before(i, j) <=> (More(i, j) \/ (~More(j, i) /\ When(i) > When(j)))
  BY DEF Before
<1>3. ASSUME NEW i \in Ids, NEW j \in Ids, NEW k \in Ids
      PROVE  /\ More(i, j) => ~More(j, i)
             /\ More(i, j) /\ ~More(k, j) => More(i, k)
             /\ ~More(j, i) /\ More(j, k) => More(i, k)
             /\ ~More(j, i) /\ ~More(k, j) => ~More(k, i)
             /\ ~More(j, i) /\ Confident(lessons[j], 3, 10) => Confident(lessons[i], 3, 10)
  BY <1>1, ConfidenceIsOrdered
<1> HIDE DEF More, When
<1>4. ASSUME NEW i \in Ids, NEW j \in Ids, Before(i, j) PROVE ~Before(j, i) /\ ~More(j, i)
  BY <1>1, <1>2, <1>3, <1>4
<1>5. ASSUME NEW i \in Ids, NEW j \in Ids, i # j PROVE Before(i, j) \/ Before(j, i)
  BY <1>1, <1>2, <1>5
<1>6. ASSUME NEW i \in Ids, NEW j \in Ids, NEW k \in Ids, Before(i, j), Before(j, k)
      PROVE  Before(i, k)
  <2>1. ~More(j, i) /\ ~More(k, j)
    BY <1>4, <1>6
  <2>2. CASE More(i, j) \/ More(j, k)
    BY <1>2, <1>3, <2>1, <2>2
  <2>3. CASE ~More(i, j) /\ ~More(j, k)
    <3>1. When(i) > When(j) /\ When(j) > When(k)
      BY <1>2, <1>6, <2>3
    <3> QED BY <1>1, <1>2, <1>3, <2>1, <3>1
  <2> QED BY <2>2, <2>3
<1> QED BY <1>3, <1>4, <1>5, <1>6

(* A finite set that is ordered has a least member.                        *)
LEMMA FirstOfOrder ==
    ASSUME NEW S, IsFiniteSet(S), S # {}, NEW R,
           \A x, y, z \in S : <<x, y>> \in R /\ <<y, z>> \in R => <<x, z>> \in R,
           \A x, y \in S : <<x, y>> \in R => <<y, x>> \notin R,
           \A x, y \in S : x # y => <<x, y>> \in R \/ <<y, x>> \in R
    PROVE  \E m \in S : \A x \in S : x = m \/ <<m, x>> \in R
<1> DEFINE below(x) == {y \in S : <<y, x>> \in R}
           T == {below(x) : x \in S}
<1>1. \A x \in S : IsFiniteSet(below(x))
  BY FS_Subset
<1>0. \A x \in S : \A y : y \in below(x) <=> y \in S /\ <<y, x>> \in R
  OBVIOUS
<1> HIDE DEF below
<1>2. T # {} /\ \A B \in T : IsFiniteSet(B)
  BY <1>1
<1>3. PICK B \in T : \A C \in T : C \subseteq B => C = B
  <2> HIDE DEF T
  <2> QED BY <1>2, SmallestSet
<1>4. PICK m \in S : B = below(m)
  BY <1>3
<1>5. ASSUME NEW y \in below(m) PROVE FALSE
  <2>1. y \in S /\ <<y, m>> \in R /\ below(y) \in T
    BY <1>0, <1>5
  <2>2. below(y) \subseteq below(m) /\ y \notin below(y)
    BY <1>0, <2>1
  <2>3. below(y) = below(m)
    <3> HIDE DEF T
    <3> QED BY <1>3, <1>4, <2>1, <2>2
  <2> QED BY <1>5, <2>2, <2>3
<1>6. \A x \in S : x # m => <<m, x>> \in R
  BY <1>0, <1>5
<1> QED BY <1>6

(* What more lessons take is no less.                                      *)
LEMMA SizesGrow ==
    ASSUME KnowledgeInv, NEW S \in SUBSET Ids, NEW some \in SUBSET S
    PROVE  SizeOf(some) \in Nat /\ SizeOf(S) \in Nat /\ SizeOf(some) <= SizeOf(S)
<1> DEFINE N == Len(lessons)
           units(ids) == UNION {{i} \X (1 .. lessons[i].size) : i \in ids}
           T == {n \in 0 .. N : IsFiniteSet(units(1 .. n))}
<1>1. N \in Nat /\ Ids = 1 .. N /\ \A i \in 1 .. N : lessons[i].size \in Nat
  BY KnowledgeFacts DEF LessonRecords
<1>2. 0 \in T
  <2>1. units(1 .. 0) = {}
    OBVIOUS
  <2>2. 0 \in 0 .. N
    BY <1>1
  <2> HIDE DEF units
  <2> QED BY <2>1, <2>2, FS_EmptySet
<1>3. ASSUME NEW n \in 1 .. N, n - 1 \in T PROVE n \in T
  <2>1. 1 .. n = (1 .. (n - 1)) \cup {n}
    BY <1>1
  <2>2. units(1 .. n) = units(1 .. (n - 1)) \cup ({n} \X (1 .. lessons[n].size))
    <3>1. ASSUME NEW A, NEW B PROVE units(A \cup B) = units(A) \cup units(B)
      OBVIOUS
    <3>2. units({n}) = {n} \X (1 .. lessons[n].size)
      OBVIOUS
    <3> HIDE DEF units
    <3> QED BY <2>1, <3>1, <3>2
  <2>3. IsFiniteSet({n} \X (1 .. lessons[n].size))
    <3>1. IsFiniteSet({n})
      BY FS_Singleton
    <3>2. IsFiniteSet(1 .. lessons[n].size)
      <4>1. 1 \in Int /\ lessons[n].size \in Int
        BY <1>1
      <4> QED BY <4>1, FS_Interval
    <3> QED BY <3>1, <3>2, FS_Product
  <2>4. IsFiniteSet(units(1 .. (n - 1)))
    BY <1>3
  <2>5. IsFiniteSet(units(1 .. n))
    <3> DEFINE A == units(1 .. (n - 1))
               B == {n} \X (1 .. lessons[n].size)
    <3>0. units(1 .. n) = A \cup B
      BY <2>2
    <3> HIDE DEF units, A, B
    <3>1. IsFiniteSet(A) /\ IsFiniteSet(B) /\ units(1 .. n) = A \cup B
      BY <2>3, <2>4, <3>0 DEF A, B
    <3> QED BY <3>1, FS_Union
  <2>6. n \in 0 .. N
    BY <1>1
  <2> HIDE DEF units
  <2> QED BY <2>5, <2>6
<1>4. IsFiniteSet(units(Ids))
  <2>1. T \in SUBSET (0 .. N)
    OBVIOUS
  <2>2. T = 0 .. N
    <3> HIDE DEF T
    <3> QED BY <1>1, <1>2, <1>3, <2>1, UpTo
  <2> HIDE DEF units
  <2>3. N \in 0 .. N
    BY <1>1
  <2> QED BY <1>1, <2>2, <2>3
<1>5. units(some) \subseteq units(S) /\ units(S) \subseteq units(Ids)
  OBVIOUS
<1>6. SizeOf(some) = Cardinality(units(some)) /\ SizeOf(S) = Cardinality(units(S))
  BY DEF SizeOf
<1> HIDE DEF units
<1>7. IsFiniteSet(units(S))
  BY <1>4, <1>5, FS_Subset
<1>8. IsFiniteSet(units(some)) /\ Cardinality(units(some)) <= Cardinality(units(S))
  BY <1>5, <1>7, FS_Subset
<1> QED BY <1>6, <1>7, <1>8, FS_CardinalityType

LEMMA KeptIsTheBest == ASSUME KnowledgeInv PROVE BundleIsTheBest
<1> DEFINE wanted == {a.kind : a \in Addresses}
           kept == bundle(wanted)
           U == Unique(wanted)
           all == {i \in Ids : lessons[i].by = 0 /\ Confident(lessons[i], 3, 10)}
           lead(i) == {j \in U : Before(j, i)} \cup {i}
           same(i, j) == lessons[i].address = lessons[j].address
<1>1. \A i \in Ids : lessons[i].address \in Addresses
  BY KnowledgeFacts DEF LessonRecords
<1>2. UNION {recall(k) : k \in wanted} = all
  <2>1. ASSUME NEW k \in wanted, NEW i \in recall(k) PROVE i \in all
    BY <2>1 DEF recall, Standing
  <2>2. ASSUME NEW i \in all PROVE \E k \in wanted : i \in recall(k)
    <3>1. lessons[i].address.kind \in wanted
      BY <1>1
    <3>2. i \in recall(lessons[i].address.kind)
      BY DEF recall, Standing
    <3> QED BY <3>1, <3>2
  <2> HIDE DEF wanted, all
  <2> QED BY <2>1, <2>2
<1>3. U = {i \in all : \A j \in all : same(j, i) => ~Before(j, i)}
  BY <1>2 DEF Unique
<1>4. kept = {i \in U : SizeOf(lead(i)) <= MaxBundled}
  BY DEF bundle
<1>5. all \subseteq Ids /\ U \subseteq all /\ U \in SUBSET Ids /\ kept \in SUBSET U
  BY <1>3, <1>4
<1>6. IsFiniteSet(Ids)
  BY KnowledgeFacts, FS_Interval
<1>7. /\ \A i, j \in Ids : Before(i, j) => ~Before(j, i)
      /\ \A i, j \in Ids : i # j => Before(i, j) \/ Before(j, i)
      /\ \A i, j, k \in Ids : Before(i, j) /\ Before(j, k) => Before(i, k)
      /\ \A i, j \in Ids : Before(i, j) /\ Confident(lessons[j], 3, 10)
                               => Confident(lessons[i], 3, 10)
  BY LessonsAreOrdered
<1> HIDE DEF kept, U, all
<1>8. SizeOf(kept) <= MaxBundled
  <2>1. CASE kept = {}
    <3>1. SizeOf(kept) = 0
      BY <2>1, FS_EmptySet DEF SizeOf
    <3> QED BY <3>1, MemoryAssumption
  <2>2. CASE kept # {}
    <3> DEFINE R == {p \in Ids \X Ids : Before(p[2], p[1])}
    <3>1. \A x, y \in Ids : <<x, y>> \in R <=> Before(y, x)
      OBVIOUS
    <3> HIDE DEF R
    <3>2. kept \subseteq Ids /\ IsFiniteSet(kept)
      BY <1>5, <1>6, FS_Subset
    <3>3. PICK m \in kept : \A x \in kept : x = m \/ <<m, x>> \in R
      <4>1. /\ \A x, y, z \in kept : <<x, y>> \in R /\ <<y, z>> \in R => <<x, z>> \in R
            /\ \A x, y \in kept : <<x, y>> \in R => <<y, x>> \notin R
            /\ \A x, y \in kept : x # y => <<x, y>> \in R \/ <<y, x>> \in R
        BY <1>7, <3>1, <3>2
      <4> QED BY <2>2, <3>2, <4>1, FirstOfOrder
    <3>4. kept \in SUBSET lead(m) /\ lead(m) \in SUBSET Ids
      BY <1>5, <3>1, <3>2, <3>3
    <3> HIDE DEF lead
    <3>5. SizeOf(kept) \in Nat /\ SizeOf(lead(m)) \in Nat /\ SizeOf(kept) <= SizeOf(lead(m))
      BY <3>4, SizesGrow
    <3>6. SizeOf(lead(m)) <= MaxBundled
      BY <1>4
    <3> QED BY <3>5, <3>6, MemoryAssumption
  <2> QED BY <2>1, <2>2
<1>9. ASSUME NEW i \in kept, NEW j \in kept, same(i, j) PROVE i = j
  BY <1>3, <1>5, <1>7, <1>9
<1>10. ASSUME NEW i \in kept, NEW j \in Ids \ kept, Before(j, i), lessons[j].by = 0
       PROVE  \E k \in kept : same(k, j)
  <2>1. i \in Ids /\ i \in all /\ Confident(lessons[i], 3, 10)
    BY <1>5 DEF all
  <2>2. j \in all
    BY <1>7, <1>10, <2>1 DEF all
  <2> DEFINE A == {k \in all : same(k, j)}
             R == {p \in Ids \X Ids : Before(p[1], p[2])}
  <2>3. \A x, y \in Ids : <<x, y>> \in R <=> Before(x, y)
    OBVIOUS
  <2>4. A \subseteq Ids /\ j \in A
    BY <1>5, <2>2
  <2>5. IsFiniteSet(A)
    BY <1>6, <2>4, FS_Subset
  <2>6. \A k \in A : k \in all /\ same(k, j)
    OBVIOUS
  <2>7. \A k \in all : same(k, j) => k \in A
    OBVIOUS
  <2> HIDE DEF A, R
  <2>8. PICK k \in A : \A x \in A : x = k \/ <<k, x>> \in R
    <3>1. /\ \A x, y, z \in A : <<x, y>> \in R /\ <<y, z>> \in R => <<x, z>> \in R
          /\ \A x, y \in A : <<x, y>> \in R => <<y, x>> \notin R
          /\ \A x, y \in A : x # y => <<x, y>> \in R \/ <<y, x>> \in R
      BY <1>7, <2>3, <2>4, SMTT(30)
    <3> QED BY <2>4, <2>5, <3>1, FirstOfOrder, SMTT(30)
  <2>9. k \in Ids /\ \A x \in A : x = k \/ Before(k, x)
    BY <2>3, <2>4, <2>8
  <2>10. k \in U
    <3>1. ASSUME NEW x \in all, same(x, k) PROVE ~Before(x, k)
      <4>1. x \in A /\ x \in Ids
        BY <1>5, <2>6, <2>7, <3>1
      <4> QED BY <1>7, <2>9, <4>1
    <3> QED BY <1>3, <2>6, <3>1
  <2>11. Before(k, i)
    BY <1>7, <1>10, <2>1, <2>4, <2>9
  <2>12. lead(k) \in SUBSET lead(i) /\ lead(i) \in SUBSET Ids
    BY <1>5, <1>7, <2>1, <2>9, <2>10, <2>11
  <2>13. SizeOf(lead(i)) <= MaxBundled
    BY <1>4
  <2> HIDE DEF lead
  <2>14. SizeOf(lead(k)) <= MaxBundled
    <3>1. SizeOf(lead(k)) \in Nat /\ SizeOf(lead(i)) \in Nat /\ SizeOf(lead(k)) <= SizeOf(lead(i))
      BY <2>12, SizesGrow
    <3> QED BY <2>13, <3>1, MemoryAssumption
  <2> QED BY <1>4, <2>6, <2>10, <2>14
<1> QED BY <1>8, <1>9, <1>10 DEF BundleIsTheBest, kept

(* The memory is sound: levels, pointers and moments are as they should be.*)
THEOREM KnowledgeInvAlways == MemorySpec => []KnowledgeInv
<1>1. MemoryInit => KnowledgeInv
  <2> SUFFICES ASSUME MemoryInit PROVE KnowledgeInv
    OBVIOUS
  <2>1. PICK level \in AssertionLevel :
          memory = [lessons |-> <<>>, clock |-> 0, raised |-> FALSE,
                    claim |-> [level |-> level, stands |-> TRUE,
                               vouched |-> level \in FACTUAL_LEVELS]]
    BY DEF MemoryInit
  <2>2. MemoryType
    BY <2>1 DEF MemoryType
  <2>3. SoundLessons(lessons, memory.clock, Len(lessons))
    BY <2>1 DEF SoundLessons, lessons
  <2> QED BY <2>1, <2>2, <2>3 DEF KnowledgeInv, is_factual
<1>2. KnowledgeInv /\ [LessonNext \/ ClaimNext]_memory => KnowledgeInv'
  BY KnowledgeStep
<1> QED BY <1>1, <1>2, PTL DEF MemorySpec

(* What stands was confirmed as often as it was contradicted, what fell    *)
(* leads to what replaced it, a fact is the person's, and a generation is  *)
(* grounded in the best of it (MemoryStore, MemoryRetriever.bundle,        *)
(* provenance).                                                            *)
THEOREM KnowledgeIsEarnedAlways == MemorySpec => []KnowledgeIsEarned
<1>1. ASSUME KnowledgeInv PROVE KnowledgeIsEarned
  <2>1. LessonsStandOrFall
    BY <1>1, KnowledgeFacts DEF LessonsStandOrFall, Sound
  <2>2. FactsAreThePersons
    BY <1>1, KnowledgeFacts DEF FactsAreThePersons, Sound, KnowledgeInv
  <2>3. BundleIsTheBest
    BY <1>1, KeptIsTheBest
  <2> QED BY <2>1, <2>2, <2>3 DEF KnowledgeIsEarned
<1> QED BY <1>1, KnowledgeInvAlways, PTL

-----------------------------------------------------------------------------
(* Discovery. As long as nothing raised, what a source delivers is all it  *)
(* was offered up to the limit, board by board and posting by posting; a   *)
(* board that fails offers nothing.                                        *)

Shortest(a, b) == IF a <= b THEN a ELSE b
Errors == {"ok", "rate_limited", "automation_blocked", "authentication_required",
           "endpoint_unavailable", "transient_network"}
Accounts == [jobs : 0 .. MaxResults, failed : SUBSET Errors, raised : BOOLEAN, offered : Nat]

\* How many of the first n are postings.
Counted(postings, n) == Cardinality({i \in 1 .. n : postings[i] = "posting"})

\* A recursive function over the first numbers exists.
Follows(f, N, base, step) ==
    f[0] = base /\ \A n \in 1 .. N : f[n] = step[<<n, f[n - 1]>>]

LEMMA Recursion ==
    ASSUME NEW N \in Nat, NEW D, NEW base \in D, NEW step,
           \A n \in 1 .. N : \A x \in D : step[<<n, x>>] \in D
    PROVE  \E f \in [0 .. N -> D] : Follows(f, N, base, step)
<1> DEFINE Good(f, n) == /\ f \in [0 .. n -> D] /\ f[0] = base
                         /\ \A m \in 1 .. n : f[m] = step[<<m, f[m - 1]>>]
           T == {n \in 0 .. N : \E f : Good(f, n)}
<1>1. 0 \in T
  <2>1. Good([m \in 0 .. 0 |-> base], 0)
    OBVIOUS
  <2>2. 0 \in 0 .. N
    OBVIOUS
  <2> HIDE DEF Good
  <2> QED BY <2>1, <2>2
<1>2. ASSUME NEW n \in 1 .. N, n - 1 \in T PROVE n \in T
  <2>1. PICK f : Good(f, n - 1)
    BY <1>2
  <2> DEFINE x == step[<<n, f[n - 1]>>]
             g == [m \in 0 .. n |-> IF m = n THEN x ELSE f[m]]
  <2>2. n - 1 \in 0 .. (n - 1) /\ n \in 0 .. N
    OBVIOUS
  <2>3. x \in D
    BY <2>1, <2>2
  <2> HIDE DEF x
  <2>4. \A m \in 0 .. n : m = n \/ m \in 0 .. (n - 1)
    OBVIOUS
  <2>5. g \in [0 .. n -> D]
    BY <2>1, <2>3, <2>4
  <2>6. g[n] = x /\ \A m \in 0 .. (n - 1) : g[m] = f[m]
    OBVIOUS
  <2> HIDE DEF g
  <2>7. /\ \A m \in 1 .. n : m - 1 \in 0 .. (n - 1) /\ (m = n \/ m \in 1 .. (n - 1))
        /\ \A m \in 1 .. (n - 1) : m \in 0 .. (n - 1)
        /\ 0 \in 0 .. (n - 1)
    OBVIOUS
  <2>8. \A m \in 1 .. n : g[m] = step[<<m, g[m - 1]>>]
    BY <2>1, <2>6, <2>7 DEF x
  <2>9. g[0] = base
    BY <2>1, <2>6, <2>7
  <2>10. Good(g, n)
    BY <2>5, <2>8, <2>9
  <2> HIDE DEF Good
  <2> QED BY <2>2, <2>10
<1>3. T \in SUBSET (0 .. N) /\ N \in 0 .. N
  OBVIOUS
<1> HIDE DEF T
<1>4. N \in T
  BY <1>1, <1>2, <1>3, UpTo
<1>5. PICK f : Good(f, N)
  BY <1>4 DEF T
<1> QED BY <1>5 DEF Follows

LEMMA CountedGrows ==
    ASSUME NEW postings, NEW n \in Nat \ {0}
    PROVE  /\ Counted(postings, n - 1) \in Nat /\ Counted(postings, 0) = 0
           /\ Counted(postings, n) =
                 Counted(postings, n - 1) + (IF postings[n] = "posting" THEN 1 ELSE 0)
<1> DEFINE C(m) == {i \in 1 .. m : postings[i] = "posting"}
<1>1. IsFiniteSet(1 .. (n - 1)) /\ C(n - 1) \subseteq 1 .. (n - 1)
  BY FS_Interval
<1>2. IsFiniteSet(C(n - 1))
  <2> HIDE DEF C
  <2> QED BY <1>1, FS_Subset
<1>3. n \notin C(n - 1) /\ C(0) = {}
  OBVIOUS
<1>4. \A i \in 1 .. n : i = n \/ i \in 1 .. (n - 1)
  OBVIOUS
<1>5. C(n) = IF postings[n] = "posting" THEN C(n - 1) \cup {n} ELSE C(n - 1)
  BY <1>4
<1>6. /\ Counted(postings, n) = Cardinality(C(n))
      /\ Counted(postings, n - 1) = Cardinality(C(n - 1))
      /\ Counted(postings, 0) = Cardinality(C(0))
  BY DEF Counted
<1> HIDE DEF C
<1>7. Cardinality(C(n - 1)) \in Nat /\ Cardinality(C(0)) = 0
  BY <1>2, <1>3, FS_CardinalityType, FS_EmptySet
<1>8. Cardinality(C(n - 1) \cup {n}) = Cardinality(C(n - 1)) + 1
  BY <1>2, <1>3, FS_AddElement
<1> QED BY <1>5, <1>6, <1>7, <1>8

LEMMA NormaliseStep ==
    ASSUME NEW acc \in Accounts, NEW posting, NEW u, u = normalise(acc, posting)
    PROVE  /\ u \in Accounts /\ u.failed = acc.failed /\ u.offered = acc.offered
           /\ acc.raised => u.raised
           /\ ~u.raised => u.jobs = Shortest(MaxResults,
                              acc.jobs + (IF posting = "posting" THEN 1 ELSE 0))
<1>1. MaxResults \in Nat \ {0}
  BY IntakeAssumption
<1>2. /\ acc.jobs \in 0 .. MaxResults /\ acc.failed \in SUBSET Errors
      /\ acc.raised \in BOOLEAN /\ acc.offered \in Nat
      /\ acc = [jobs |-> acc.jobs, failed |-> acc.failed, raised |-> acc.raised,
                offered |-> acc.offered]
  BY DEF Accounts
<1>3. CASE acc.raised \/ acc.jobs >= MaxResults
  BY <1>1, <1>2, <1>3 DEF normalise, Shortest
<1>4. CASE ~acc.raised /\ ~(acc.jobs >= MaxResults)
  <2>1. u = [jobs |-> IF posting = "posting" THEN acc.jobs + 1 ELSE acc.jobs,
             failed |-> acc.failed, raised |-> posting = "broken", offered |-> acc.offered]
    BY <1>2, <1>4 DEF normalise
  <2> QED BY <1>1, <1>2, <1>4, <2>1 DEF Accounts, Shortest
<1> QED BY <1>3, <1>4

LEMMA NormalisedCounts ==
    ASSUME NEW acc \in Accounts, NEW postings \in Seq(Kinds), NEW u, u = normalised(acc, postings)
    PROVE  /\ u \in Accounts /\ u.failed = acc.failed /\ u.offered = acc.offered
           /\ acc.raised => u.raised
           /\ ~u.raised => u.jobs = Shortest(MaxResults, acc.jobs + Counted(postings, Len(postings)))
<1> DEFINE N == Len(postings)
           step == [p \in (1 .. N) \X Accounts |-> normalise(p[2], postings[p[1]])]
<1>1. N \in Nat
  OBVIOUS
<1>2. \A n \in 1 .. N : \A x \in Accounts : step[<<n, x>>] = normalise(x, postings[n])
  OBVIOUS
<1> HIDE DEF step
<1>3. \A n \in 1 .. N : \A x \in Accounts : step[<<n, x>>] \in Accounts
  <2>1. ASSUME NEW n \in 1 .. N, NEW x \in Accounts PROVE step[<<n, x>>] \in Accounts
    <3>1. x \in Accounts /\ normalise(x, postings[n]) \in Accounts
      BY NormaliseStep
    <3> QED BY <1>2, <3>1
  <2> QED BY Zenon, <2>1
<1>4. PICK f \in [0 .. N -> Accounts] : Follows(f, N, acc, step)
  <2> HIDE DEF N
  <2> QED BY <1>1, <1>3, Recursion
<1>5. \A n \in 1 .. N : n - 1 \in 0 .. N /\ n \in 0 .. N /\ n # 0
  BY <1>1
<1> DEFINE G(g) == [n \in 0 .. N |-> IF n = 0 THEN acc ELSE normalise(g[n - 1], postings[n])]
<1>6. f = G(f)
  <2>1. \A n \in 0 .. N : n = 0 \/ n \in 1 .. N
    BY <1>1
  <2>2. \A n \in 1 .. N : f[n - 1] \in Accounts
    BY <1>4, <1>5
  <2>3. \A n \in 0 .. N : f[n] = IF n = 0 THEN acc ELSE normalise(f[n - 1], postings[n])
    BY <1>2, <1>4, <1>5, <2>1, <2>2 DEF Follows
  <2> QED BY <1>4, <2>3
<1> DEFINE after == CHOOSE g : g = G(g)
<1>7. after = G(after)
  <2> HIDE DEF G
  <2> QED BY <1>6
<1>8. u = after[N]
  BY DEF normalised
<1> HIDE DEF after
<1> DEFINE Holds(n) ==
              /\ after[n] \in Accounts /\ after[n].failed = acc.failed
              /\ after[n].offered = acc.offered /\ (acc.raised => after[n].raised)
              /\ ~after[n].raised => after[n].jobs = Shortest(MaxResults, acc.jobs + Counted(postings, n))
           T == {n \in 0 .. N : Holds(n)}
<1>9. acc.jobs \in Nat /\ acc.jobs <= MaxResults /\ MaxResults \in Nat
  BY IntakeAssumption DEF Accounts
<1>10. Holds(0)
  <2>1. after[0] = acc
    BY <1>1, <1>7
  <2>2. Counted(postings, 0) = 0
    <3>1. 1 \in Nat \ {0}
      OBVIOUS
    <3> QED BY <3>1, CountedGrows
  <2> QED BY <1>9, <2>1, <2>2 DEF Shortest
<1>11. ASSUME NEW n \in 1 .. N, Holds(n - 1) PROVE Holds(n)
  <2> DEFINE x == after[n - 1]
             c == Counted(postings, n - 1)
             d == IF postings[n] = "posting" THEN 1 ELSE 0
  <2>1. after[n] = normalise(x, postings[n]) /\ x \in Accounts
    BY <1>5, <1>7, <1>11
  <2>2. /\ after[n] \in Accounts /\ after[n].failed = x.failed /\ after[n].offered = x.offered
        /\ x.raised => after[n].raised
        /\ ~after[n].raised => after[n].jobs = Shortest(MaxResults, x.jobs + d)
    BY <2>1, NormaliseStep
  <2>3. c \in Nat /\ Counted(postings, n) = c + d /\ d \in {0, 1}
    <3>1. n \in Nat \ {0}
      BY <1>1
    <3> QED BY <3>1, CountedGrows
  <2>4. x.raised \in BOOLEAN
    BY <2>1 DEF Accounts
  <2> HIDE DEF c, d, x
  <2>5. ASSUME ~after[n].raised
        PROVE  after[n].jobs = Shortest(MaxResults, acc.jobs + Counted(postings, n))
    <3>1. x.jobs = Shortest(MaxResults, acc.jobs + c)
      BY <1>11, <2>2, <2>4, <2>5 DEF x, c
    <3>2. Shortest(MaxResults, Shortest(MaxResults, acc.jobs + c) + d)
             = Shortest(MaxResults, acc.jobs + (c + d))
      BY <1>9, <2>3, SMTT(30) DEF Shortest
    <3> QED BY <2>2, <2>3, <2>5, <3>1, <3>2
  <2> QED BY <1>11, <2>2, <2>5 DEF x
<1>12. Holds(N)
  <2> HIDE DEF Holds, N
  <2>1. N \in 0 .. N /\ 0 \in 0 .. N
    BY <1>1
  <2>2. 0 \in T /\ T \in SUBSET (0 .. N) /\ \A n \in 1 .. N : n - 1 \in T => n \in T
    BY <1>5, <1>10, <1>11, <2>1
  <2> HIDE DEF T
  <2>3. T = 0 .. N
    BY <1>1, <2>2, UpTo
  <2> QED BY <2>1, <2>3 DEF T
<1> QED BY <1>8, <1>12

LEMMA ListingCounts ==
    ASSUME NEW s, NEW acc \in Accounts, NEW answer, answer.postings \in Seq(Kinds),
           NEW u, u = listing(s, acc, answer)
    PROVE  /\ u \in Accounts /\ u.offered = acc.offered /\ Offered(s, answer) \in Nat
           /\ acc.raised => u.raised
           /\ ~u.raised => u.jobs = Shortest(MaxResults, acc.jobs + Offered(s, answer))
<1>1. MaxResults \in Nat \ {0}
  BY IntakeAssumption
<1>2. /\ acc.jobs \in 0 .. MaxResults /\ acc.failed \in SUBSET Errors
      /\ acc.raised \in BOOLEAN /\ acc.offered \in Nat
      /\ acc = [jobs |-> acc.jobs, failed |-> acc.failed, raised |-> acc.raised,
                offered |-> acc.offered]
  BY DEF Accounts
<1>3. Postings(s, answer) \in Seq(Kinds)
  BY DEF Postings
<1>4. Offered(s, answer) = Counted(Postings(s, answer), Len(Postings(s, answer)))
  <2> DEFINE p == Postings(s, answer)
  <2>1. DOMAIN p = 1 .. Len(p)
    BY <1>3
  <2>2. /\ Offered(s, answer) = Cardinality({i \in DOMAIN p : p[i] = "posting"})
        /\ Counted(p, Len(p)) = Cardinality({i \in 1 .. Len(p) : p[i] = "posting"})
    BY DEF Offered, Counted
  <2> QED BY <2>1, <2>2
<1>5. Offered(s, answer) \in Nat
  <2> DEFINE p == Postings(s, answer)
             C == {i \in 1 .. Len(p) : p[i] = "posting"}
  <2>1. Len(p) \in Nat /\ C \subseteq 1 .. Len(p)
    BY <1>3
  <2>2. IsFiniteSet(1 .. Len(p))
    BY <2>1, FS_Interval
  <2>3. Offered(s, answer) = Cardinality(C)
    BY <1>4 DEF Counted
  <2> HIDE DEF C
  <2> QED BY <2>1, <2>2, <2>3, FS_Subset, FS_CardinalityType
<1>6. CASE acc.raised \/ acc.jobs >= MaxResults
  BY <1>1, <1>2, <1>5, <1>6 DEF listing, Shortest
<1>7. CASE ~acc.raised /\ ~(acc.jobs >= MaxResults) /\ heard(s, answer) # "ok"
  <2>1. heard(s, answer) \in Errors
    BY DEF heard, load, get_json, translate, Errors
  <2>2. u = [acc EXCEPT !.failed = @ \cup {heard(s, answer)}]
    BY <1>7 DEF listing
  <2>3. Postings(s, answer) = <<>>
    BY <1>7 DEF Postings
  <2>4. Offered(s, answer) = 0
    <3>1. 1 \in Nat \ {0} /\ Len(<<>>) = 0
      OBVIOUS
    <3> QED BY <1>4, <2>3, <3>1, CountedGrows
  <2> HIDE DEF Errors
  <2>5. u = [jobs |-> acc.jobs, failed |-> acc.failed \cup {heard(s, answer)},
             raised |-> acc.raised, offered |-> acc.offered]
    BY <1>2, <2>2
  <2>6. u \in Accounts
    BY <1>2, <2>1, <2>5 DEF Accounts
  <2> QED BY <1>1, <1>2, <1>5, <2>4, <2>5, <2>6 DEF Shortest
<1>8. CASE /\ ~acc.raised /\ ~(acc.jobs >= MaxResults) /\ heard(s, answer) = "ok"
           /\ Raises(s, answer)
  <2>1. u = [jobs |-> acc.jobs, failed |-> acc.failed, raised |-> TRUE, offered |-> acc.offered]
    BY <1>2, <1>8 DEF listing
  <2> QED BY <1>2, <1>5, <2>1 DEF Accounts
<1>9. CASE /\ ~acc.raised /\ ~(acc.jobs >= MaxResults) /\ heard(s, answer) = "ok"
           /\ ~Raises(s, answer)
  <2>1. u = normalised(acc, Postings(s, answer))
    BY <1>9 DEF listing
  <2> QED BY <1>3, <1>4, <1>5, <2>1, NormalisedCounts
<1> QED BY <1>6, <1>7, <1>8, <1>9

\* What a result says of what was offered.
Reported(r) ==
    /\ r.jobs \in 0 .. MaxResults /\ r.offered \in Nat /\ r.raised \in BOOLEAN
    /\ r.raised => r.failed # {} /\ r.jobs = 0
    /\ ~r.raised => r.jobs = Shortest(MaxResults, r.offered)
    /\ r.jobs < r.offered => r.failed # {} \/ r.truncated

LEMMA DiscoverReports ==
    ASSUME NEW s, NEW N \in Nat, NEW D, NEW answers \in [1 .. N -> D],
           \A a \in D : a.postings \in Seq(Kinds), NEW r, r = discover(s, answers)
    PROVE  /\ r.jobs \in 0 .. MaxResults /\ r.offered \in Nat /\ r.raised \in BOOLEAN
           /\ (r.truncated <=> r.jobs >= MaxResults)
           /\ ~r.raised => r.jobs = Shortest(MaxResults, r.offered)
           /\ r = [jobs |-> r.jobs, failed |-> r.failed, raised |-> r.raised,
                   truncated |-> r.truncated, offered |-> r.offered]
<1> DEFINE after1(x, a) == [listing(s, x, a) EXCEPT !.offered = x.offered + Offered(s, a)]
           Told(x) == x \in Accounts /\ (~x.raised => x.jobs = Shortest(MaxResults, x.offered))
           D1 == {x \in Accounts : Told(x)}
           step == [p \in (1 .. N) \X D1 |-> after1(p[2], answers[p[1]])]
<1>0. MaxResults \in Nat /\ MaxResults # 0
  BY IntakeAssumption
<1>1. NothingHeard \in D1
  <2>1. NothingHeard \in Accounts
    BY <1>0 DEF NothingHeard, Accounts
  <2>2. NothingHeard.jobs = Shortest(MaxResults, NothingHeard.offered)
    BY <1>0 DEF NothingHeard, Shortest
  <2> HIDE DEF Accounts
  <2> QED BY <2>1, <2>2
<1>2. \A n \in 1 .. N : \A x \in D1 : step[<<n, x>>] = after1(x, answers[n])
  OBVIOUS
<1>3. ASSUME NEW n \in 1 .. N, NEW x \in D1 PROVE after1(x, answers[n]) \in D1
  <2> DEFINE a == answers[n]
             y == listing(s, x, a)
             z == [y EXCEPT !.offered = x.offered + Offered(s, a)]
  <2>1. a.postings \in Seq(Kinds)
    OBVIOUS
  <2>2. x \in Accounts /\ (~x.raised => x.jobs = Shortest(MaxResults, x.offered))
    OBVIOUS
  <2> HIDE DEF a
  <2>3. /\ y \in Accounts /\ Offered(s, a) \in Nat /\ (x.raised => y.raised)
        /\ ~y.raised => y.jobs = Shortest(MaxResults, x.jobs + Offered(s, a))
    BY <2>1, <2>2, ListingCounts
  <2> HIDE DEF y
  <2>4. x.offered \in Nat /\ x.jobs \in Nat /\ x.raised \in BOOLEAN /\ y.raised \in BOOLEAN
    BY <2>2, <2>3 DEF Accounts
  <2>5. /\ z \in Accounts /\ z.raised = y.raised /\ z.jobs = y.jobs
        /\ z.offered = x.offered + Offered(s, a)
    BY <2>3, <2>4, SMTT(30) DEF Accounts
  <2>6. ~z.raised => z.jobs = Shortest(MaxResults, z.offered)
    <3>1. ASSUME ~z.raised PROVE z.jobs = Shortest(MaxResults, z.offered)
      <4>1. /\ y.jobs = Shortest(MaxResults, x.jobs + Offered(s, a))
            /\ x.jobs = Shortest(MaxResults, x.offered)
        BY <2>2, <2>3, <2>4, <2>5, <3>1
      <4>2. Shortest(MaxResults, Shortest(MaxResults, x.offered) + Offered(s, a))
               = Shortest(MaxResults, x.offered + Offered(s, a))
        BY <1>0, <2>3, <2>4 DEF Shortest
      <4> QED BY <2>5, <4>1, <4>2
    <3> QED BY <3>1
  <2> HIDE DEF z
  <2>7. z \in D1
    BY <2>5, <2>6
  <2> QED BY <2>7 DEF z, y, a
<1> HIDE DEF step, D1
<1>4. \A n \in 1 .. N : \A x \in D1 : step[<<n, x>>] \in D1
  BY Zenon, <1>2, <1>3
<1>5. PICK f \in [0 .. N -> D1] : Follows(f, N, NothingHeard, step)
  BY <1>1, <1>4, Recursion
<1>6. \A n \in 1 .. N : n - 1 \in 0 .. N /\ n \in 0 .. N /\ n # 0
  OBVIOUS
<1>7. \A n \in 0 .. N : n = 0 \/ n \in 1 .. N
  OBVIOUS
<1> DEFINE G(g) == [n \in 0 .. N |-> IF n = 0 THEN NothingHeard ELSE after1(g[n - 1], answers[n])]
<1>8. f = G(f)
  <2>1. \A n \in 1 .. N : f[n - 1] \in D1
    BY <1>5, <1>6
  <2> HIDE DEF after1
  <2>2. \A n \in 0 .. N : f[n] = IF n = 0 THEN NothingHeard ELSE after1(f[n - 1], answers[n])
    BY <1>2, <1>5, <1>6, <1>7, <2>1 DEF Follows
  <2> QED BY <1>5, <2>2
<1> DEFINE after == CHOOSE g : g = G(g)
<1>9. after = G(after)
  <2> HIDE DEF G
  <2> QED BY <1>8
<1>10. Len(answers) = N
  OBVIOUS
<1>11. r = [jobs |-> after[N].jobs, failed |-> after[N].failed, raised |-> after[N].raised,
            truncated |-> after[N].jobs >= MaxResults, offered |-> after[N].offered]
  BY <1>10 DEF discover
<1> HIDE DEF after
<1>12. after[N] \in D1
  <2> DEFINE T == {n \in 0 .. N : after[n] \in D1}
  <2>1. after[0] = NothingHeard /\ \A n \in 1 .. N : after[n] = after1(after[n - 1], answers[n])
    <3> HIDE DEF after1
    <3> QED BY <1>6, <1>9
  <2> HIDE DEF after1
  <2>2. 0 \in T /\ T \in SUBSET (0 .. N) /\ \A n \in 1 .. N : n - 1 \in T => n \in T
    BY <1>1, <1>3, <1>6, <2>1
  <2>3. N \in 0 .. N
    OBVIOUS
  <2> HIDE DEF T
  <2>4. T = 0 .. N
    BY <2>2, UpTo
  <2> QED BY <2>3, <2>4 DEF T
<1>13. /\ after[N].jobs \in 0 .. MaxResults /\ after[N].offered \in Nat
       /\ after[N].raised \in BOOLEAN
       /\ ~after[N].raised => after[N].jobs = Shortest(MaxResults, after[N].offered)
  BY <1>12 DEF D1, Accounts
<1> DEFINE x == after[N]
<1>14. r = [jobs |-> x.jobs, failed |-> x.failed, raised |-> x.raised,
            truncated |-> x.jobs >= MaxResults, offered |-> x.offered]
  BY <1>11
<1>15. /\ x.jobs \in 0 .. MaxResults /\ x.offered \in Nat /\ x.raised \in BOOLEAN
       /\ ~x.raised => x.jobs = Shortest(MaxResults, x.offered)
  BY <1>13
<1> HIDE DEF x
<1>16. /\ r.jobs = x.jobs /\ r.failed = x.failed /\ r.raised = x.raised
       /\ r.offered = x.offered /\ r.truncated = (x.jobs >= MaxResults)
  BY <1>14
<1>17. r = [jobs |-> r.jobs, failed |-> r.failed, raised |-> r.raised,
            truncated |-> r.truncated, offered |-> r.offered]
  BY <1>14, <1>16
<1>18. r.truncated <=> r.jobs >= MaxResults
  BY <1>16
<1> QED BY <1>15, <1>16, <1>17, <1>18

LEMMA FetchReports ==
    ASSUME NEW s, NEW options, NEW N \in Nat, NEW D, NEW answers \in [1 .. N -> D],
           \A a \in D : a.postings \in Seq(Kinds)
    PROVE  Reported(fetch(s, options, answers))
<1>1. MaxResults \in Nat \ {0}
  BY IntakeAssumption
<1>2. CASE options = Invalid
  <2>1. fetch(s, options, answers) = [jobs |-> 0, failed |-> {"configuration"}, raised |-> TRUE,
                                      truncated |-> FALSE, offered |-> 0]
    BY <1>2 DEF fetch
  <2> QED BY <1>1, <2>1 DEF Reported
<1>3. CASE options # Invalid
  <2> DEFINE r == discover(s, answers)
  <2>1. /\ r.jobs \in 0 .. MaxResults /\ r.offered \in Nat /\ r.raised \in BOOLEAN
        /\ (r.truncated <=> r.jobs >= MaxResults)
        /\ ~r.raised => r.jobs = Shortest(MaxResults, r.offered)
        /\ r = [jobs |-> r.jobs, failed |-> r.failed, raised |-> r.raised,
                truncated |-> r.truncated, offered |-> r.offered]
    BY DiscoverReports
  <2>2. fetch(s, options, answers) =
            IF r.raised THEN [r EXCEPT !.jobs = 0, !.failed = {"unknown"}, !.truncated = FALSE] ELSE r
    BY <1>3 DEF fetch
  <2> HIDE DEF r
  <2>3. CASE r.raised
    <3>1. fetch(s, options, answers) = [jobs |-> 0, failed |-> {"unknown"}, raised |-> r.raised,
                                        truncated |-> FALSE, offered |-> r.offered]
      BY <2>1, <2>2, <2>3
    <3> QED BY <1>1, <2>1, <2>3, <3>1 DEF Reported
  <2>4. CASE ~r.raised
    <3>1. r.jobs < r.offered => r.truncated
      BY <1>1, <2>1, <2>4 DEF Shortest
    <3> QED BY <2>1, <2>2, <2>4, <3>1 DEF Reported
  <2> QED BY <2>1, <2>3, <2>4
<1> QED BY <1>2, <1>3

RowOk(r) == "options" \in DOMAIN r /\ Len(r.options) \in Nat
RowsOk(table) == \A s \in DOMAIN table : RowOk(table[s])

\* The rows' writers keep every row's options a list.
LEMMA RowsAreKept ==
    ASSUME NEW table, RowsOk(table), NEW s
    PROVE  /\ RowOk(row_of(table, s))
           /\ \A enabled, options : Len(options) \in Nat =>
                 LET after == set_enabled(table, s, enabled, options)
                 IN  RowsOk(after) /\ RowOk(after[s]) /\ DOMAIN table \subseteq DOMAIN after
           /\ \A found : RowOk(record_health(table, s, found)[s])
           /\ \A jobs, failed : RowOk(record_run(table, s, jobs, failed)[s])
<1>1. RowOk(row_of(table, s))
  <2>1. CASE s \in DOMAIN table
    BY <2>1 DEF row_of, RowsOk
  <2>2. CASE s \notin DOMAIN table
    <3>1. row_of(table, s) = NewRow
      BY <2>2 DEF row_of
    <3>2. NewRow.options = <<>> /\ "options" \in DOMAIN NewRow /\ Len(<<>>) = 0
      BY DEF NewRow
    <3> QED BY <3>1, <3>2 DEF RowOk
  <2> QED BY <2>1, <2>2
<1> DEFINE row == row_of(table, s)
<1>2. \A x : /\ put(table, s, x)[s] = x
             /\ DOMAIN put(table, s, x) = DOMAIN table \cup {s}
             /\ \A t \in DOMAIN table \ {s} : put(table, s, x)[t] = table[t]
  BY DEF put
<1>3. ASSUME NEW enabled, NEW options, Len(options) \in Nat
      PROVE  LET after == set_enabled(table, s, enabled, options)
             IN  RowsOk(after) /\ RowOk(after[s]) /\ DOMAIN table \subseteq DOMAIN after
  <2> DEFINE x == [row EXCEPT !.enabled = enabled, !.options = IF options = Keep THEN @ ELSE options]
  <2> HIDE DEF row
  <2>1. /\ DOMAIN x = DOMAIN row
        /\ "options" \in DOMAIN row => x.options = IF options = Keep THEN row.options ELSE options
    OBVIOUS
  <2>2. RowOk(x)
    BY <1>1, <1>3, <2>1 DEF RowOk, row
  <2>3. set_enabled(table, s, enabled, options) = put(table, s, x)
    BY DEF set_enabled, row
  <2> HIDE DEF x
  <2> QED BY <1>2, <2>2, <2>3 DEF RowsOk
<1>4. ASSUME NEW found PROVE RowOk(record_health(table, s, found)[s])
  <2> HIDE DEF row
  <2>1. RowOk([row EXCEPT !.health = found])
    BY <1>1 DEF RowOk, row
  <2>2. record_health(table, s, found) = put(table, s, [row EXCEPT !.health = found])
    BY DEF record_health, row
  <2> QED BY <1>2, <2>1, <2>2
<1>5. ASSUME NEW jobs, NEW failed PROVE RowOk(record_run(table, s, jobs, failed)[s])
  <2> DEFINE x == [row EXCEPT !.last_jobs = jobs, !.streak = IF failed THEN @ + 1 ELSE 0]
  <2> HIDE DEF row
  <2>1. RowOk(x)
    BY <1>1 DEF RowOk, row
  <2>2. record_run(table, s, jobs, failed) = put(table, s, x)
    BY DEF record_run, row
  <2> HIDE DEF x
  <2> QED BY <1>2, <2>1, <2>2
<1> QED BY <1>1, <1>3, <1>4, <1>5

Told(results, ending) ==
    ending \in {"succeeded", "partial", "failed"} =>
       /\ ending = "succeeded" => \A s \in DOMAIN results : results[s].jobs = results[s].offered
       /\ (\E s \in DOMAIN results : results[s].jobs > 0) => ending # "failed"

\* The inductive invariant of a run over the sources: every result heard so
\* far accounts for itself, a run with sources to hear has no verdict yet, and
\* the verdict of the run before stands for what it heard.
IntakeInv ==
    /\ intake = [rows |-> intake.rows, selected |-> intake.selected, results |-> intake.results,
                 run |-> intake.run, runs |-> intake.runs, visits |-> intake.visits]
    /\ RowsOk(intake.rows)
    /\ intake.selected \subseteq registry \cap DOMAIN intake.rows
    /\ \A s \in DOMAIN intake.results : Reported(intake.results[s])
    /\ intake.selected # {} => intake.run.state = "running"
    /\ Told(intake.results, intake.run.state)

LEMMA OptionsAreLists ==
    /\ \A s \in registry : OptionSets[s] \subseteq Seq(STRING)
    /\ \A s \in registry : \A a \in BoardAnswers[s] : a.postings \in Seq(Kinds)
    /\ \A s \in DOMAIN Config : Config[s].options \in Seq(STRING)
    /\ BuiltIn \subseteq registry /\ Len(Keep) \in Nat /\ IsFiniteSet(registry)
    /\ MaxResults \in Nat \ {0}
<1>1. IsFiniteSet(registry)
  <2> DEFINE I == {s \in DOMAIN Installed : Installed[s] = "descriptor"}
  <2>1. I \subseteq DOMAIN Installed /\ IsFiniteSet(DOMAIN Installed)
    BY IntakeAssumption
  <2>2. registry = (({"greenhouse"} \cup {"lever"}) \cup {"local_feed"}) \cup I
    BY DEF registry, BuiltIn
  <2> HIDE DEF I
  <2>3. /\ IsFiniteSet(I) /\ IsFiniteSet({"greenhouse"}) /\ IsFiniteSet({"lever"})
        /\ IsFiniteSet({"local_feed"})
    BY <2>1, FS_Subset, FS_Singleton
  <2>4. IsFiniteSet({"greenhouse"} \cup {"lever"})
    BY <2>3, FS_Union
  <2>5. IsFiniteSet(({"greenhouse"} \cup {"lever"}) \cup {"local_feed"})
    BY <2>3, <2>4, FS_Union
  <2> QED BY <2>2, <2>3, <2>5, FS_Union
<1>2. BuiltIn \subseteq registry
  BY DEF registry
<1>3. Len(Keep) \in Nat
  BY DEF Keep
<1> HIDE DEF registry
<1> QED BY <1>1, <1>2, <1>3, IntakeAssumption

\* The verdict of a run that has heard every source.
LEMMA VerdictTells ==
    ASSUME NEW results, \A s \in DOMAIN results : Reported(results[s]),
           DOMAIN results \subseteq registry, NEW run,
           run.failures <=> \E s \in DOMAIN results : results[s].failed # {} \/ results[s].truncated,
           run.discovered = Cardinality(UNION {{s} \X (1 .. results[s].jobs) : s \in DOMAIN results})
    PROVE  Told(results, verdict(run))
<1> DEFINE S == DOMAIN results
           units == UNION {{s} \X (1 .. results[s].jobs) : s \in S}
           box == S \X (1 .. MaxResults)
<1>1. MaxResults \in Nat /\ \A s \in S : results[s].jobs \in 0 .. MaxResults
  BY OptionsAreLists DEF Reported
<1>2. IsFiniteSet(box)
  <2>1. IsFiniteSet(S)
    BY OptionsAreLists, FS_Subset
  <2>2. IsFiniteSet(1 .. MaxResults)
    BY <1>1, FS_Interval
  <2> HIDE DEF S
  <2> QED BY <2>1, <2>2, FS_Product
<1>3. \A u \in units : u \in box
  <2>1. ASSUME NEW u \in units PROVE u \in box
    <3>1. PICK s \in S : u \in {s} \X (1 .. results[s].jobs)
      OBVIOUS
    <3>2. u = <<s, u[2]>> /\ u[2] \in 1 .. results[s].jobs
      BY <3>1
    <3>3. u[2] \in 1 .. MaxResults
      BY <1>1, <3>2
    <3> QED BY <3>2, <3>3
  <2> QED BY <2>1
<1>4. \A s \in S : results[s].jobs > 0 => units # {}
  <2>1. ASSUME NEW s \in S, results[s].jobs > 0 PROVE <<s, 1>> \in units
    <3>1. 1 \in 1 .. results[s].jobs
      BY <1>1, <2>1
    <3>2. <<s, 1>> \in {s} \X (1 .. results[s].jobs)
      BY <3>1
    <3> QED BY <3>2
  <2> HIDE DEF units
  <2> QED BY <2>1
<1>5. \A s \in S : results[s].jobs > 0 => run.discovered # 0
  <2>1. run.discovered = Cardinality(units)
    OBVIOUS
  <2> HIDE DEF units, box
  <2>2. IsFiniteSet(units)
    BY <1>2, <1>3, FS_Subset
  <2> QED BY <1>4, <2>1, <2>2, FS_EmptySet
<1>6. ASSUME verdict(run) = "succeeded", NEW s \in S PROVE results[s].jobs = results[s].offered
  <2>1. ~run.failures
    BY <1>6 DEF verdict
  <2>2. results[s].failed = {} /\ ~results[s].truncated
    BY <2>1
  <2>3. Reported(results[s])
    OBVIOUS
  <2> QED BY <1>1, <2>2, <2>3 DEF Reported, Shortest
<1>7. ASSUME NEW s \in S, results[s].jobs > 0 PROVE verdict(run) # "failed"
  BY <1>5, <1>7 DEF verdict
<1> QED BY <1>6, <1>7 DEF Told

LEMMA IntakeInitially == IntakeInit => IntakeInv
<1> SUFFICES ASSUME IntakeInit PROVE IntakeInv
  OBVIOUS
<1>1. PICK on \in SUBSET BuiltIn,
           had \in {r \in [BuiltIn -> UNION {OptionSets[s] : s \in BuiltIn}] :
                       \A s \in BuiltIn : r[s] \in OptionSets[s]} :
        intake = [rows |-> [s \in on |-> [NewRow EXCEPT !.enabled = TRUE, !.options = had[s]]],
                  selected |-> {}, results |-> <<>>, run |-> NoRun, runs |-> 0, visits |-> 0]
  BY Zenon DEF IntakeInit
<1>2. \A s \in on : Len(had[s]) \in Nat
  BY OptionsAreLists
<1>3. \A s \in on : RowOk([NewRow EXCEPT !.enabled = TRUE, !.options = had[s]])
  BY <1>2 DEF RowOk, NewRow
<1>4. /\ intake.rows = [s \in on |-> [NewRow EXCEPT !.enabled = TRUE, !.options = had[s]]]
      /\ intake.selected = {} /\ intake.results = <<>> /\ intake.run = NoRun
  BY Zenon, <1>1
<1>5. RowsOk(intake.rows)
  BY Zenon, <1>3, <1>4 DEF RowsOk
<1>6. intake = [rows |-> intake.rows, selected |-> intake.selected, results |-> intake.results,
                run |-> intake.run, runs |-> intake.runs, visits |-> intake.visits]
  BY Zenon, <1>1
<1>7. intake.run.state = "none" /\ DOMAIN intake.results = {}
  <2>1. NoRun.state = "none"
    BY DEF NoRun
  <2>2. DOMAIN <<>> = {}
    OBVIOUS
  <2> QED BY Zenon, <1>4, <2>1, <2>2
<1>8. Told(intake.results, intake.run.state)
  BY <1>7 DEF Told
<1> QED BY Zenon, <1>4, <1>5, <1>6, <1>7, <1>8 DEF IntakeInv

\* A change of the rows between runs.
LEMMA RowsChange ==
    ASSUME IntakeInv, Resting, NEW table, NEW visits, RowsOk(table),
           intake' = [intake EXCEPT !.rows = table, !.visits = visits]
    PROVE  IntakeInv'
<1>1. /\ intake'.rows = table /\ intake'.selected = intake.selected
      /\ intake'.results = intake.results /\ intake'.run = intake.run
      /\ intake' = [rows |-> intake'.rows, selected |-> intake'.selected, results |-> intake'.results,
                    run |-> intake'.run, runs |-> intake'.runs, visits |-> intake'.visits]
  BY DEF IntakeInv
<1>2. intake'.selected = {}
  BY <1>1 DEF Resting
<1> QED BY <1>1, <1>2 DEF IntakeInv

LEMMA StartupKeeps == ASSUME IntakeInv, Startup PROVE IntakeInv'
<1> DEFINE mentioned == {s \in DOMAIN Config : s \in registry}
           after == [s \in DOMAIN intake.rows \cup mentioned |->
                        IF s \in mentioned
                        THEN set_enabled(intake.rows, s, Config[s].enabled, Config[s].options)[s]
                        ELSE intake.rows[s]]
<1>1. Resting /\ intake' = [intake EXCEPT !.rows = after, !.visits = @ + 1]
  BY DEF Startup, Visit
<1>2. RowsOk(intake.rows)
  BY DEF IntakeInv
<1>3. ASSUME NEW s \in DOMAIN after PROVE RowOk(after[s])
  <2>1. CASE s \in mentioned
    <3>1. Len(Config[s].options) \in Nat
      BY <2>1, OptionsAreLists
    <3>2. RowOk(set_enabled(intake.rows, s, Config[s].enabled, Config[s].options)[s])
      BY <1>2, <3>1, RowsAreKept
    <3> QED BY <2>1, <3>2
  <2>2. CASE s \notin mentioned
    BY <1>2, <2>2 DEF RowsOk
  <2> QED BY <2>1, <2>2
<1>4. RowsOk(after)
  <2> HIDE DEF after
  <2> QED BY <1>3 DEF RowsOk
<1> HIDE DEF after
<1> QED BY Zenon, <1>1, <1>4, RowsChange

LEMMA ToggleKeeps == ASSUME IntakeInv, NEW s \in registry, Toggle(s) PROVE IntakeInv'
<1>1. PICK enabled \in BOOLEAN, options \in (OptionSets[s] \ {Invalid}) \cup {Keep} :
          intake' = [intake EXCEPT !.rows = set_enabled(@, s, enabled, options), !.visits = @ + 1]
  BY Zenon DEF Toggle
<1>2. Len(options) \in Nat
  BY OptionsAreLists
<1> DEFINE after == set_enabled(intake.rows, s, enabled, options)
<1>3. RowsOk(after)
  BY <1>2, RowsAreKept DEF IntakeInv
<1>4. Resting /\ intake' = [intake EXCEPT !.rows = after, !.visits = intake.visits + 1]
  BY <1>1 DEF Toggle, Visit
<1> HIDE DEF after
<1> QED BY Zenon, <1>3, <1>4, RowsChange

LEMMA ProbeKeeps == ASSUME IntakeInv, Probe PROVE IntakeInv'
<1>1. PICK answers \in [registry -> UNION {BoardAnswers[s] : s \in DOMAIN BoardAnswers}] :
          intake' = [intake EXCEPT
                !.rows = [s \in DOMAIN @ \cup registry |->
                             IF s \in registry
                             THEN record_health(@, s, health(s, row_of(@, s).options, answers[s]))[s]
                             ELSE @[s]],
                !.visits = @ + 1]
  BY Zenon DEF Probe
<1> DEFINE found(s) == health(s, row_of(intake.rows, s).options, answers[s])
           after == [s \in DOMAIN intake.rows \cup registry |->
                        IF s \in registry THEN record_health(intake.rows, s, found(s))[s]
                        ELSE intake.rows[s]]
<1>2. Resting /\ intake' = [intake EXCEPT !.rows = after, !.visits = intake.visits + 1]
  BY <1>1 DEF Probe, Visit
<1>3. RowsOk(intake.rows)
  BY DEF IntakeInv
<1>4. ASSUME NEW s \in DOMAIN after PROVE RowOk(after[s])
  <2> HIDE DEF found
  <2>1. RowOk(record_health(intake.rows, s, found(s))[s])
    BY <1>3, RowsAreKept
  <2> QED BY <1>3, <2>1 DEF RowsOk
<1>5. RowsOk(after)
  <2> HIDE DEF after
  <2> QED BY <1>4 DEF RowsOk
<1> HIDE DEF after
<1> QED BY Zenon, <1>2, <1>5, RowsChange

LEMMA BeginRunKeeps == ASSUME IntakeInv, BeginRun PROVE IntakeInv'
<1>1. PICK named \in SUBSET registry :
          LET selected == IF named = {} THEN enabled_sources(intake.rows)
                          ELSE enabled_sources(intake.rows) \cap named
          IN  intake' = [intake EXCEPT !.selected = selected, !.results = <<>>, !.runs = @ + 1,
                            !.run = IF selected = {}
                                    THEN [state |-> "failed", failures |-> TRUE, discovered |-> 0]
                                    ELSE [NoRun EXCEPT !.state = "running"]]
  BY Zenon DEF BeginRun
<1> DEFINE selected == IF named = {} THEN enabled_sources(intake.rows)
                       ELSE enabled_sources(intake.rows) \cap named
           run == IF selected = {} THEN [state |-> "failed", failures |-> TRUE, discovered |-> 0]
                  ELSE [NoRun EXCEPT !.state = "running"]
<1>2. selected \subseteq registry \cap DOMAIN intake.rows
  BY DEF enabled_sources
<1>3. selected # {} => run.state = "running"
  BY DEF NoRun
<1>4. intake' = [intake EXCEPT !.selected = selected, !.results = <<>>,
                              !.runs = intake.runs + 1, !.run = run]
  BY <1>1
<1> HIDE DEF selected, run
<1>5. /\ intake'.rows = intake.rows /\ intake'.selected = selected /\ intake'.results = <<>>
      /\ intake'.run = run
      /\ intake' = [rows |-> intake'.rows, selected |-> intake'.selected, results |-> intake'.results,
                    run |-> intake'.run, runs |-> intake'.runs, visits |-> intake'.visits]
  BY <1>4 DEF IntakeInv
<1>6. DOMAIN intake'.results = {}
  BY <1>5
<1>7. Told(intake'.results, intake'.run.state)
  <2>1. selected = {} => run.state = "failed"
    BY DEF run
  <2> QED BY <1>3, <1>5, <1>6, <2>1 DEF Told
<1> QED BY <1>2, <1>3, <1>5, <1>6, <1>7 DEF IntakeInv

LEMMA FetchKeeps == ASSUME IntakeInv, NEW s \in registry, Fetch(s) PROVE IntakeInv'
<1> DEFINE options == intake.rows[s].options
           N == IF options = Invalid THEN 0 ELSE Len(options)
           D == BoardAnswers[s]
<1>1. PICK answers \in [1 .. N -> D] :
          intake' = [intake EXCEPT !.results = put(@, s, fetch(s, options, answers))]
  BY DEF Fetch
<1>2. s \in intake.selected /\ s \in DOMAIN intake.rows
  BY DEF Fetch, IntakeInv
<1>3. N \in Nat
  BY <1>2 DEF IntakeInv, RowsOk, RowOk
<1>4. \A a \in D : a.postings \in Seq(Kinds)
  BY OptionsAreLists
<1> DEFINE r == fetch(s, options, answers)
<1>5. Reported(r)
  <2> HIDE DEF N, D, options
  <2> QED BY <1>3, <1>4, FetchReports
<1>6. intake' = [intake EXCEPT !.results = put(intake.results, s, r)]
  BY <1>1
<1> HIDE DEF r
<1>7. /\ intake'.rows = intake.rows /\ intake'.selected = intake.selected
      /\ intake'.results = put(intake.results, s, r) /\ intake'.run = intake.run
      /\ intake' = [rows |-> intake'.rows, selected |-> intake'.selected, results |-> intake'.results,
                    run |-> intake'.run, runs |-> intake'.runs, visits |-> intake'.visits]
  BY <1>6 DEF IntakeInv
<1>8. \A t \in DOMAIN intake'.results : Reported(intake'.results[t])
  <2>1. \A t \in DOMAIN intake.results \cup {s} :
           put(intake.results, s, r)[t] = IF t = s THEN r ELSE intake.results[t]
    BY DEF put
  <2>2. DOMAIN put(intake.results, s, r) = DOMAIN intake.results \cup {s}
    BY DEF put
  <2>3. \A t \in DOMAIN intake.results : Reported(intake.results[t])
    BY DEF IntakeInv
  <2> QED BY <1>5, <1>7, <2>1, <2>2, <2>3
<1>9. intake'.run.state = "running"
  BY <1>2, <1>7 DEF IntakeInv
<1> QED BY <1>7, <1>8, <1>9 DEF IntakeInv, Told

LEMMA FinishRunKeeps == ASSUME IntakeInv, FinishRun PROVE IntakeInv'
<1> DEFINE results == intake.results
           after == [s \in DOMAIN intake.rows |->
                        IF s \in intake.selected
                        THEN record_run(intake.rows, s, results[s].jobs, results[s].failed # {})[s]
                        ELSE intake.rows[s]]
           run == [state |-> "running",
                   failures |-> \E s \in intake.selected :
                                   results[s].failed # {} \/ results[s].truncated,
                   discovered |-> Cardinality(UNION {{s} \X (1 .. results[s].jobs) :
                                                         s \in intake.selected})]
<1>1. /\ DOMAIN results = intake.selected
      /\ intake' = [intake EXCEPT !.rows = after, !.selected = {},
                                  !.run = [run EXCEPT !.state = verdict(run)]]
  BY DEF FinishRun, Heard
<1>2. RowsOk(intake.rows)
  BY DEF IntakeInv
<1>3. ASSUME NEW s \in DOMAIN after PROVE RowOk(after[s])
  <2>1. RowOk(record_run(intake.rows, s, results[s].jobs, results[s].failed # {})[s])
    BY <1>2, RowsAreKept
  <2> QED BY <1>2, <2>1 DEF RowsOk
<1>4. RowsOk(after)
  <2> HIDE DEF after
  <2> QED BY <1>3 DEF RowsOk
<1> HIDE DEF after
<1>5. Told(results, verdict(run))
  <2>1. /\ run.failures <=> \E s \in DOMAIN results : results[s].failed # {} \/ results[s].truncated
        /\ run.discovered = Cardinality(UNION {{s} \X (1 .. results[s].jobs) : s \in DOMAIN results})
    BY <1>1
  <2>2. (\A s \in DOMAIN results : Reported(results[s])) /\ DOMAIN results \subseteq registry
    BY <1>1 DEF IntakeInv
  <2> HIDE DEF run, results
  <2> QED BY <2>1, <2>2, VerdictTells
<1>6. [run EXCEPT !.state = verdict(run)].state = verdict(run)
  OBVIOUS
<1> HIDE DEF run
<1>7. /\ intake'.rows = after /\ intake'.selected = {} /\ intake'.results = results
      /\ intake'.run.state = verdict(run)
      /\ intake' = [rows |-> intake'.rows, selected |-> intake'.selected, results |-> intake'.results,
                    run |-> intake'.run, runs |-> intake'.runs, visits |-> intake'.visits]
  BY <1>1, <1>6 DEF IntakeInv
<1> QED BY <1>4, <1>5, <1>7 DEF IntakeInv

LEMMA RunDroppedKeeps == ASSUME IntakeInv, RunDropped PROVE IntakeInv'
<1>1. /\ intake'.rows = intake.rows /\ intake'.selected = {} /\ intake'.results = <<>>
      /\ intake'.run = NoRun
      /\ intake' = [rows |-> intake'.rows, selected |-> intake'.selected, results |-> intake'.results,
                    run |-> intake'.run, runs |-> intake'.runs, visits |-> intake'.visits]
  BY DEF IntakeInv, RunDropped
<1>2. DOMAIN intake'.results = {} /\ intake'.run.state = "none"
  BY <1>1 DEF NoRun
<1> QED BY <1>1, <1>2 DEF IntakeInv, Told

\* Every result a run has heard accounts for itself and the verdict for them all, for
\* every registry, every set of options and every answer of a board (SourceService,
\* DiscoveryService).
THEOREM IntakeInvAlways == IntakeSpec => []IntakeInv
<1>1. IntakeInv /\ [IntakeNext]_intake => IntakeInv'
  <2> SUFFICES ASSUME IntakeInv, [IntakeNext]_intake PROVE IntakeInv'
    OBVIOUS
  <2>1. CASE Startup
    BY <2>1, StartupKeeps
  <2>2. CASE Probe
    BY <2>2, ProbeKeeps
  <2>3. CASE BeginRun
    BY <2>3, BeginRunKeeps
  <2>4. CASE FinishRun
    BY <2>4, FinishRunKeeps
  <2>5. CASE RunDropped
    BY <2>5, RunDroppedKeeps
  <2>6. ASSUME NEW s \in registry, Toggle(s) PROVE IntakeInv'
    BY <2>6, ToggleKeeps
  <2>7. ASSUME NEW s \in registry, Fetch(s) PROVE IntakeInv'
    BY <2>7, FetchKeeps
  <2>8. CASE UNCHANGED intake
    BY <2>8 DEF IntakeInv
  <2> QED BY <2>1, <2>2, <2>3, <2>4, <2>5, <2>6, <2>7, <2>8 DEF IntakeNext
<1> QED BY <1>1, IntakeInitially, PTL DEF IntakeSpec

\* A board that fails costs a run that board only, and what is not delivered is told:
\* by its source's failures or truncation, and by the run's verdict (the discover
\* methods of the plugins, DiscoveryService._fetch_all, _persist, _finish).
THEOREM NothingIsMissedInSilenceAlways == IntakeSpec => []NothingIsMissedInSilence
<1>1. IntakeInv => NothingIsMissedInSilence
  <2> SUFFICES ASSUME IntakeInv PROVE NothingIsMissedInSilence
    OBVIOUS
  <2>1. ASSUME NEW s \in DOMAIN intake.results
        PROVE  LET r == intake.results[s]
               IN  /\ r.jobs < r.offered => r.failed # {} \/ r.truncated
                   /\ ~r.raised => r.jobs = IF MaxResults <= r.offered THEN MaxResults ELSE r.offered
    BY DEF IntakeInv, Reported, Shortest
  <2>2. Told(intake.results, intake.run.state)
    BY DEF IntakeInv
  <2> QED BY <2>1, <2>2 DEF NothingIsMissedInSilence, Told
<1> QED BY <1>1, IntakeInvAlways, PTL

-----------------------------------------------------------------------------
(* FitScoring. What a model answers moves the dimensions of a score, and   *)
(* each by no more than the maximum: the score is a weighted mean of them. *)

\* Thousandths of a whole.
Shares == {n \in Int : 0 <= n /\ n <= 1000}
Judgement == [score : Shares, confidence : Shares]
Dimensions == [ScoreDimension -> Judgement]

\* A part of a whole, as a share of k.
LEMMA ShareOf ==
    ASSUME NEW a \in Nat, NEW b \in Nat \ {0}, NEW k \in Nat, a <= k * b
    PROVE  (a \div b) \in 0 .. k
<1> DEFINE q == a \div b
<1>1. q \in Int /\ b * q <= a /\ a < b * q + b
  OBVIOUS
<1> HIDE DEF q
<1>2. q >= 0
  <2>1. ASSUME q <= -1 PROVE FALSE
    <3>1. b * q <= b * (-1)
      BY <1>1, <2>1
    <3> QED BY <1>1, <3>1
  <2> QED BY <1>1, <2>1
<1>3. q <= k
  <2>1. ASSUME q >= k + 1 PROVE FALSE
    <3>1. b * q >= b * (k + 1)
      BY <1>1, <2>1
    <3>2. b * (k + 1) = k * b + b
      OBVIOUS
    <3> QED BY <1>1, <3>1, <3>2
  <2> QED BY <1>1, <2>1
<1> QED BY <1>1, <1>2, <1>3 DEF q

\* A score is capped at the whole (min in the score functions).
LEMMA LesserOf ==
    ASSUME NEW x \in Nat PROVE MinOf(1000, x) \in Shares
BY DEF MinOf, Shares

\* The dimensions of a score by name (ScoreDimension).
LEMMA DimensionNames ==
    ScoreDimension =
        {"title_match", "seniority_match", "required_skills", "preferred_skills",
         "demonstrated_experience", "domain_overlap", "compensation", "location",
         "employment_type", "work_authorization", "user_preference"}
BY DEF ScoreDimension, DEFAULT_WEIGHTS

(* Every dimension of a score is judged within bounds (score_dimensions).  *)
LEMMA JudgedWithinBounds ==
    ASSUME NEW f \in Facts, NEW s \in Strategies
    PROVE  score_dimensions(f, s) \in Dimensions
<1>1. f \in KnownFacts
  BY FitAssumption
<1>w. Whole = 1000
  BY DEF Whole
<1>i. Whole \in Int
  BY DEF Whole
<1>2. s.title_exploration \in Shares /\ s.seniority_tolerance_levels \in Nat
  <2>1. s.title_exploration \in 0 .. Whole /\ s.seniority_tolerance_levels \in Nat
    BY FitAssumption
  <2>2. s.title_exploration \in Int /\ 0 <= s.title_exploration /\ s.title_exploration <= Whole
    BY <1>i, <2>1
  <2> QED BY <1>w, <2>1, <2>2 DEF Shares
<1>3. f.title # -1 => f.title \in Shares
  <2>1. f.title \in -1 .. Whole
    BY <1>1 DEF KnownFacts
  <2>2. f.title \in Int /\ -1 <= f.title /\ f.title <= Whole
    BY <1>i, <2>1
  <2> QED BY <1>w, <2>2 DEF Shares
<1>p. f.preferred # -1 => f.preferred \in Shares
  <2>1. f.preferred \in -1 .. Whole
    BY <1>1 DEF KnownFacts
  <2>2. f.preferred \in Int /\ -1 <= f.preferred /\ f.preferred <= Whole
    BY <1>i, <2>1
  <2> QED BY <1>w, <2>2 DEF Shares
<1>4. Unknown \in Judgement
  BY DEF Unknown, At, Judgement, Shares
<1>j. \A x \in Shares : At(x, 700) \in Judgement /\ At(x, 500) \in Judgement
  BY DEF At, Judgement, Shares
<1>5. title_match(f, s) \in Judgement
  <2> DEFINE title == f.title
             widened == s.title_exploration \div 5
             score == MinOf(1000, title + widened)
             shown == IF f.anti_title THEN (score * 6) \div 10 ELSE score
  <2>1. CASE f.title = -1
    BY <1>4, <2>1 DEF title_match
  <2>2. CASE f.title # -1
    <3>1. title \in Shares
      BY <1>3, <2>2
    <3>2. widened \in 0 .. 200
      BY <1>2 DEF Shares
    <3> HIDE DEF title, widened
    <3>3. score \in Shares
      <4> DEFINE sum == title + widened
      <4>1. sum \in Nat
        BY <3>1, <3>2 DEF Shares
      <4> HIDE DEF sum
      <4>2. MinOf(1000, sum) \in Shares
        BY <4>1, LesserOf
      <4> QED BY <4>2 DEF sum
    <3> HIDE DEF score
    <3>4. shown \in Shares
      BY <3>3 DEF Shares
    <3>5. title_match(f, s) = At(shown, 700)
      BY <2>2 DEF title_match, score, title, widened
    <3> HIDE DEF shown
    <3> QED BY <3>4, <3>5 DEF At, Judgement, Shares
  <2> QED BY <2>1, <2>2
<1>6. seniority(f, s) \in Judgement
  <2> DEFINE d == f.seniority
             tolerance == s.seniority_tolerance_levels
             less == (d * 500) \div (tolerance + 1)
  <2>1. d \in Nat \cup {-1} /\ tolerance \in Nat
    BY <1>1, <1>2 DEF KnownFacts
  <2>2. seniority(f, s) = IF d = -1 THEN Unknown
                          ELSE IF d = 0 THEN At(1000, 900)
                          ELSE IF d <= tolerance THEN At(1000 - less, 700)
                          ELSE At(100, 800)
    BY DEF seniority
  <2>3. ASSUME d \in Nat, d <= tolerance PROVE 1000 - less \in Shares
    <3> HIDE DEF d, tolerance
    <3> DEFINE part == d * 500
               whole == tolerance + 1
    <3>1. part \in Nat /\ whole \in Nat \ {0} /\ 500 \in Nat /\ part <= 500 * whole
      BY <2>1, <2>3
    <3>2. less = part \div whole
      OBVIOUS
    <3> HIDE DEF less, part, whole
    <3>3. part \div whole \in 0 .. 500
      BY <3>1, ShareOf
    <3>4. less \in 0 .. 500
      BY <3>2, <3>3
    <3> QED BY <3>4 DEF Shares
  <2>4. d = -1 \/ d \in Nat
    BY <2>1
  <2> HIDE DEF d, tolerance, less
  <2> QED BY <1>4, <2>2, <2>3, <2>4 DEF At, Judgement, Shares
<1>7. required_skills(f) \in Judgement
  <2> DEFINE matched == f.requirements[1]
             lines == f.requirements[2]
             whole == MaxOf(lines, 1)
             part == matched * 1000
  <2>1. matched \in Nat /\ lines \in Nat /\ matched <= lines
    BY <1>1, FitAssumption DEF KnownFacts
  <2>2. required_skills(f) = At(part \div whole, IF lines = 0 THEN 300 ELSE 600)
    BY DEF required_skills
  <2> HIDE DEF matched, lines
  <2>3. part \in Nat /\ whole \in Nat \ {0} /\ Whole \in Nat /\ part <= Whole * whole
    BY <1>w, <2>1 DEF MaxOf
  <2> HIDE DEF whole, part
  <2>4. part \div whole \in 0 .. Whole
    BY <2>3, ShareOf
  <2>5. part \div whole \in Shares
    BY <1>w, <2>4 DEF Shares
  <2> QED BY <2>2, <2>5 DEF At, Judgement, Shares
<1>8. preferred_skills(f) \in Judgement
  BY <1>4, <1>p DEF preferred_skills, At, Judgement, Shares
<1>9. demonstrated_experience(f) \in Judgement /\ domain_overlap(f) \in Judgement
  <2> DEFINE experience == MinOf(1000, f.experience)
             domain == MinOf(1000, f.domain)
  <2>2. (f.experience = -1 \/ f.experience \in Nat) /\ (f.domain = -1 \/ f.domain \in Nat)
    BY <1>1 DEF KnownFacts
  <2>1. /\ f.experience # -1 => experience \in Shares
        /\ f.domain # -1 => domain \in Shares
    <3>1. f.experience # -1 => f.experience \in Nat
      BY <2>2
    <3>2. f.domain # -1 => f.domain \in Nat
      BY <2>2
    <3> QED BY <3>1, <3>2, LesserOf
  <2>5. /\ demonstrated_experience(f) = IF f.experience = -1 THEN Unknown ELSE At(experience, 700)
        /\ domain_overlap(f) = IF f.domain = -1 THEN Unknown ELSE At(domain, 500)
    BY DEF demonstrated_experience, domain_overlap
  <2> HIDE DEF experience, domain
  <2>3. demonstrated_experience(f) \in Judgement
    BY <1>4, <1>j, <2>1, <2>5
  <2>4. domain_overlap(f) \in Judgement
    BY <1>4, <1>j, <2>1, <2>5
  <2> QED BY <2>3, <2>4
<1>10. compensation(f) \in Judgement /\ employment_type(f) \in Judgement
       /\ user_preference(f) \in Judgement
  <2>1. At(500, 200) \in Judgement /\ At(900, 800) \in Judgement /\ At(100, 800) \in Judgement
    BY DEF At, Judgement, Shares
  <2>2. At(1000, 700) \in Judgement /\ At(100, 700) \in Judgement
    BY DEF At, Judgement, Shares
  <2>3. /\ At(0, 900) \in Judgement /\ At(1000, 900) \in Judgement
        /\ At(800, 600) \in Judgement /\ At(500, 400) \in Judgement
    BY DEF At, Judgement, Shares
  <2>4. /\ f.pay \in {"no_floor", "not_stated", "other_currency", "enough", "below"}
        /\ f.employment \in {"unknown", "wanted", "other"}
        /\ f.company \in {"excluded", "preferred", "preferred_industry", "other"}
    BY <1>1 DEF KnownFacts
  <2>5. compensation(f) \in Judgement
    BY <1>4, <2>1, <2>4 DEF compensation
  <2>6. employment_type(f) \in Judgement
    BY <1>4, <2>2, <2>4 DEF employment_type
  <2>7. user_preference(f) \in Judgement
    BY <2>3, <2>4 DEF user_preference
  <2> QED BY <2>5, <2>6, <2>7
<1>11. location(f, s) \in Judgement
  BY DEF location, MaxOf, At, Judgement, Shares
<1>12. work_authorization(f) \in Judgement
  BY <1>4 DEF work_authorization, At, Judgement, Shares
<1>13. DOMAIN score_dimensions(f, s) = ScoreDimension
  BY DEF score_dimensions, ScoreDimension, DEFAULT_WEIGHTS
<1> QED BY <1>5, <1>6, <1>7, <1>8, <1>9, <1>10, <1>11, <1>12, <1>13, DimensionNames
        DEF score_dimensions, Dimensions

\* What a judged dimension holds (DimensionScore).
LEMMA JudgementFacts ==
    ASSUME NEW j \in Judgement
    PROVE  /\ j.score \in Int /\ 0 <= j.score /\ j.score <= 1000
           /\ j.confidence \in Shares
<1>1. j.score \in Shares /\ j.confidence \in Shares
  BY DEF Judgement
<1> DEFINE x == j.score
<1> HIDE DEF x
<1>2. x \in Int /\ 0 <= x /\ x <= 1000
  BY <1>1 DEF x, Shares
<1> QED BY <1>1, <1>2 DEF x

\* What is moved by at most the maximum either way.
Near(x, y) == x <= y + 200 /\ y <= x + 200

\* Weights that add up to 100 move a mean by no more than the most its parts move.
LEMMA WeightedMoves ==
    ASSUME NEW u \in [ScoreDimension -> Int], NEW v \in [ScoreDimension -> Int],
           \A d \in ScoreDimension : Near(u[d], v[d])
    PROVE  /\ Weighted(u) \in Int /\ Weighted(v) \in Int
           /\ Weighted(v) <= Weighted(u) + 20000 /\ Weighted(u) <= Weighted(v) + 20000
<1>1. \A x : Weighted(x) =
            18 * x["title_match"] + 10 * x["seniority_match"] + 20 * x["required_skills"]
            + 6 * x["preferred_skills"] + 14 * x["demonstrated_experience"]
            + 6 * x["domain_overlap"] + 8 * x["compensation"] + 8 * x["location"]
            + 3 * x["employment_type"] + 4 * x["work_authorization"]
            + 3 * x["user_preference"]
  BY DEF Weighted, DEFAULT_WEIGHTS
<1>2. \A d \in ScoreDimension : u[d] \in Int /\ v[d] \in Int /\ u[d] <= v[d] + 200 /\ v[d] <= u[d] + 200
  BY DEF Near
<1>3. /\ "title_match" \in ScoreDimension /\ "seniority_match" \in ScoreDimension
      /\ "required_skills" \in ScoreDimension /\ "preferred_skills" \in ScoreDimension
      /\ "demonstrated_experience" \in ScoreDimension /\ "domain_overlap" \in ScoreDimension
      /\ "compensation" \in ScoreDimension /\ "location" \in ScoreDimension
      /\ "employment_type" \in ScoreDimension /\ "work_authorization" \in ScoreDimension
      /\ "user_preference" \in ScoreDimension
  BY DimensionNames
<1>4. Weighted(u) \in Int /\ Weighted(v) \in Int
  BY <1>1, <1>2, <1>3
<1>5. Weighted(v) <= Weighted(u) + 20000
  BY <1>1, <1>2, <1>3
<1>6. Weighted(u) <= Weighted(v) + 20000
  BY <1>1, <1>2, <1>3
<1> QED BY <1>4, <1>5, <1>6

(* One adjustment moves one dimension, by no more than the maximum         *)
(* (_clamp_delta, _apply_adjustments).                                     *)
LEMMA AdjustedMoves ==
    ASSUME NEW dims \in Dimensions, NEW a, a.delta \in Int, NEW e, e = adjusted(dims, a)
    PROVE  /\ e \in Dimensions
           /\ \A d \in ScoreDimension :
                 /\ d # a.dimension => e[d] = dims[d]
                 /\ Near(e[d].score, dims[d].score)
<1>0. \A d \in ScoreDimension : dims[d] \in Judgement
  BY DEF Dimensions
<1>1. \A d \in ScoreDimension : Near(dims[d].score, dims[d].score)
  BY <1>0, JudgementFacts DEF Near
<1>2. CASE a.dimension \notin ScoreDimension
  BY <1>1, <1>2 DEF adjusted
<1>3. CASE a.dimension \in ScoreDimension
  <2> DEFINE n == a.dimension
             by == clamp_delta(a.delta)
             j == dims[n]
             new == MaxOf(0, MinOf(1000, j.score + by))
             k == [j EXCEPT !.score = new]
  <2>1. by \in Int /\ -200 <= by /\ by <= 200
    BY DEF clamp_delta, MAX_ADJUSTMENT, MaxOf, MinOf
  <2>2. j \in Judgement
    BY <1>0, <1>3
  <2> HIDE DEF by
  <2>3. e = [dims EXCEPT ![n] = k]
    BY <1>3 DEF adjusted, Dimensions, by
  <2> HIDE DEF j, n
  <2>4. new \in Shares /\ Near(new, j.score)
    <3>1. j.score \in Int /\ 0 <= j.score /\ j.score <= 1000
      BY <2>2, JudgementFacts
    <3> DEFINE x == j.score
    <3> HIDE DEF x
    <3>2. x \in Int /\ 0 <= x /\ x <= 1000 /\ new = MaxOf(0, MinOf(1000, x + by))
      BY <3>1 DEF x
    <3> HIDE DEF new
    <3>3. new \in Shares /\ Near(new, x)
      BY <2>1, <3>2 DEF MaxOf, MinOf, Near, Shares
    <3> QED BY <3>3 DEF x
  <2> HIDE DEF new
  <2>5. k \in Judgement /\ k.score = new
    BY <2>2, <2>4 DEF Judgement
  <2> HIDE DEF k
  <2>6. e \in Dimensions /\ e[n] = k /\ \A d \in ScoreDimension : d # n => e[d] = dims[d]
    BY <1>3, <2>3, <2>5 DEF Dimensions, n
  <2>7. \A d \in ScoreDimension : Near(e[d].score, dims[d].score)
    <3>1. Near(e[n].score, dims[n].score)
      BY <2>4, <2>5, <2>6 DEF j
    <3> QED BY <1>1, <2>6, <3>1
  <2> QED BY <2>6, <2>7 DEF n
<1> QED BY <1>2, <1>3

\* What a reply asks of one dimension (_Adjustment).
Adjustment == [dimension : STRING, delta : Int]

\* The adjustments of a reply that names each dimension once.
LEMMA AdjustmentsMove ==
    ASSUME NEW dims \in Dimensions, NEW adjustments \in Seq(Adjustment),
           NEW e, e = apply_adjustments(dims, adjustments)
    PROVE  /\ e \in Dimensions
           /\ NamedOnce(adjustments) =>
                 \A d \in ScoreDimension : Near(e[d].score, dims[d].score)
<1> DEFINE N == Len(adjustments)
           step == [p \in (1 .. N) \X Dimensions |-> adjusted(p[2], adjustments[p[1]])]
<1>1. N \in Nat /\ \A n \in 1 .. N : adjustments[n].delta \in Int
  <2>1. N \in Nat /\ \A n \in 1 .. N : adjustments[n] \in Adjustment
    OBVIOUS
  <2>2. \A a \in Adjustment : a.delta \in Int
    BY DEF Adjustment
  <2> QED BY <2>1, <2>2
<1>2. \A n \in 1 .. N : \A x \in Dimensions : step[<<n, x>>] = adjusted(x, adjustments[n])
  OBVIOUS
<1> HIDE DEF step
<1>3. ASSUME NEW n \in 1 .. N, NEW x \in Dimensions PROVE step[<<n, x>>] \in Dimensions
  <2> DEFINE y == adjusted(x, adjustments[n])
  <2>1. adjustments[n].delta \in Int
    BY <1>1
  <2> HIDE DEF y
  <2>2. y \in Dimensions
    BY <2>1, AdjustedMoves DEF y
  <2> QED BY <1>2, <2>2 DEF y
<1>4. PICK f \in [0 .. N -> Dimensions] : Follows(f, N, dims, step)
  <2>1. \A n \in 1 .. N : \A x \in Dimensions : step[<<n, x>>] \in Dimensions
    BY Zenon, <1>3
  <2> HIDE DEF N
  <2> QED BY <1>1, <2>1, Recursion
<1>5. \A n \in 1 .. N : n - 1 \in 0 .. N /\ n \in 0 .. N /\ n # 0
  BY <1>1
<1> DEFINE G(g) == [n \in 0 .. N |-> IF n = 0 THEN dims ELSE adjusted(g[n - 1], adjustments[n])]
<1>6. f = G(f)
  <2>1. \A n \in 0 .. N : n = 0 \/ n \in 1 .. N
    BY <1>1
  <2>2. \A n \in 1 .. N : f[n - 1] \in Dimensions
    BY <1>4, <1>5
  <2>3. \A n \in 0 .. N : f[n] = IF n = 0 THEN dims ELSE adjusted(f[n - 1], adjustments[n])
    BY <1>2, <1>4, <1>5, <2>1, <2>2 DEF Follows
  <2> QED BY <1>4, <2>3
<1> DEFINE after == CHOOSE g : g = G(g)
<1>7. after = G(after)
  <2> HIDE DEF G
  <2> QED BY <1>6
<1>8. e = after[N]
  BY DEF apply_adjustments
<1> HIDE DEF after
\* What was named already moved once, and the rest not at all.
<1> DEFINE Moved(n) ==
              \A d \in ScoreDimension :
                 /\ Near(after[n][d].score, dims[d].score)
                 /\ (\A i \in 1 .. n : adjustments[i].dimension # d) => after[n][d] = dims[d]
           Holds(n) == after[n] \in Dimensions /\ (NamedOnce(adjustments) => Moved(n))
           T == {n \in 0 .. N : Holds(n)}
<1>9. Holds(0)
  <2>1. after[0] = dims
    BY <1>1, <1>7
  <2>2. \A d \in ScoreDimension : Near(dims[d].score, dims[d].score)
    <3>1. \A d \in ScoreDimension : dims[d] \in Judgement
      BY DEF Dimensions
    <3> QED BY <3>1, JudgementFacts DEF Near
  <2> QED BY <2>1, <2>2
<1>10. ASSUME NEW n \in 1 .. N, Holds(n - 1) PROVE Holds(n)
  <2> DEFINE x == after[n - 1]
             y == after[n]
             a == adjustments[n]
  <2>1. y = adjusted(x, a) /\ x \in Dimensions /\ a.delta \in Int
    BY <1>1, <1>5, <1>7, <1>10
  <2> HIDE DEF x, y, a
  <2>2. /\ y \in Dimensions
        /\ \A d \in ScoreDimension :
              /\ d # a.dimension => y[d] = x[d]
              /\ Near(y[d].score, x[d].score)
    BY <2>1, AdjustedMoves
  <2>3. ASSUME NamedOnce(adjustments) PROVE Moved(n)
    <3>1. Moved(n - 1)
      BY <1>10, <2>3
    <3>2. ASSUME NEW d \in ScoreDimension, d # a.dimension
          PROVE  /\ Near(y[d].score, dims[d].score)
                 /\ (\A i \in 1 .. n : adjustments[i].dimension # d) => y[d] = dims[d]
      <4>1. y[d] = x[d]
        BY <2>2, <3>2
      <4>2. \A i \in 1 .. (n - 1) : i \in 1 .. n
        OBVIOUS
      <4> QED BY <3>1, <4>1, <4>2 DEF x
    <3>3. ASSUME NEW d \in ScoreDimension, d = a.dimension
          PROVE  /\ Near(y[d].score, dims[d].score)
                 /\ ~ \A i \in 1 .. n : adjustments[i].dimension # d
      <4>1. \A i \in 1 .. (n - 1) : adjustments[i].dimension # d
        <5>1. \A i \in 1 .. (n - 1) : i \in DOMAIN adjustments /\ n \in DOMAIN adjustments /\ i # n
          BY <1>1
        <5> QED BY <2>3, <3>3, <5>1 DEF NamedOnce, a
      <4>2. x[d] = dims[d]
        BY <3>1, <4>1 DEF x
      <4>3. n \in 1 .. n
        BY <1>1
      <4> QED BY <2>2, <3>3, <4>2, <4>3 DEF a
    <3> QED BY <3>2, <3>3 DEF y
  <2> QED BY <2>2, <2>3 DEF y
<1>11. Holds(N)
  <2> HIDE DEF Holds, N
  <2>1. N \in 0 .. N /\ 0 \in 0 .. N
    BY <1>1
  <2>2. 0 \in T /\ T \in SUBSET (0 .. N) /\ \A n \in 1 .. N : n - 1 \in T => n \in T
    BY <1>5, <1>9, <1>10, <2>1
  <2> HIDE DEF T
  <2>3. T = 0 .. N
    BY <1>1, <2>2, UpTo
  <2> QED BY <2>1, <2>3 DEF T
<1> QED BY <1>8, <1>11

\* A verdict keeps the dimensions and requirements it is given, and caps what is
\* blocked (CandidateScore.recommendation, HARD_BLOCKER_CAP).
LEMMA VerdictFacts ==
    ASSUME NEW dims \in Dimensions, NEW missing, NEW t, NEW v, v = Verdict(dims, missing, t)
    PROVE  /\ v.dimensions = dims /\ v.missing = missing
           /\ overall_of(dims) \in Int
           /\ v.overall = IF Blocked(missing) THEN MinOf(overall_of(dims), HARD_BLOCKER_CAP)
                          ELSE overall_of(dims)
           /\ Blocked(missing) => v.recommendation = "skip" /\ v.overall <= HARD_BLOCKER_CAP
<1>1. overall_of(dims) \in Int
  <2> DEFINE u == [d \in ScoreDimension |-> dims[d].score]
  <2>1. \A d \in ScoreDimension : dims[d] \in Judgement
    BY DEF Dimensions
  <2>2. \A d \in ScoreDimension : dims[d].score \in Int /\ Near(dims[d].score, dims[d].score)
    BY <2>1, JudgementFacts DEF Near
  <2>3. u \in [ScoreDimension -> Int] /\ \A d \in ScoreDimension : Near(u[d], u[d])
    BY <2>2
  <2> HIDE DEF u
  <2>4. Weighted(u) \in Int
    BY <2>3, WeightedMoves
  <2> QED BY <2>4 DEF overall_of, u
<1> DEFINE overall == overall_of(dims)
<1> HIDE DEF overall
<1>2. /\ v.dimensions = dims /\ v.missing = missing
      /\ v.overall = IF Blocked(missing) THEN MinOf(overall, HARD_BLOCKER_CAP) ELSE overall
      /\ Blocked(missing) => v.recommendation = "skip"
  BY DEF Verdict, overall
<1>3. MinOf(overall, HARD_BLOCKER_CAP) <= HARD_BLOCKER_CAP
  BY <1>1 DEF MinOf, HARD_BLOCKER_CAP, overall
<1> QED BY <1>1, <1>2, <1>3 DEF overall

\* Dimensions that move by at most the maximum move the overall score by no more.
LEMMA OverallMoves ==
    ASSUME NEW d1 \in Dimensions, NEW d2 \in Dimensions,
           \A d \in ScoreDimension : Near(d2[d].score, d1[d].score)
    PROVE  overall_of(d2) <= overall_of(d1) + 20000 /\ overall_of(d1) <= overall_of(d2) + 20000
<1> DEFINE u == [d \in ScoreDimension |-> d1[d].score]
           v == [d \in ScoreDimension |-> d2[d].score]
<1>1. \A d \in ScoreDimension : d1[d] \in Judgement /\ d2[d] \in Judgement
  BY DEF Dimensions
<1>2. \A d \in ScoreDimension : d1[d].score \in Int /\ d2[d].score \in Int
  BY <1>1, JudgementFacts
<1>3. /\ u \in [ScoreDimension -> Int] /\ v \in [ScoreDimension -> Int]
      /\ \A d \in ScoreDimension : Near(u[d], v[d])
  BY <1>2 DEF Near
<1> HIDE DEF u, v
<1>4. Weighted(v) <= Weighted(u) + 20000 /\ Weighted(u) <= Weighted(v) + 20000
  BY <1>3, WeightedMoves
<1> QED BY <1>4 DEF overall_of, u, v

(* A posting that may not be worked at or pays too little is blocked, and  *)
(* no reply unblocks it (_work_authorization, _compensation, has_hard_     *)
(* blocker, _merge_missing).                                               *)
Barred(f, s) ==
    \/ s.work_authorization_is_hard_blocker /\ \E i \in DOMAIN f.countries : f.countries[i] = "not_authorized"
    \/ s.compensation_strictness = "hard" /\ f.pay = "below"

LEMMA BarredIsBlocked ==
    ASSUME NEW f, NEW s, Barred(f, s) PROVE Blocked(missing_requirements(f, s))
<1> DEFINE all == missing_requirements(f, s)
<1>1. CASE s.work_authorization_is_hard_blocker /\ \E i \in DOMAIN f.countries : f.countries[i] = "not_authorized"
  <2>1. Gaps(f) # {}
    BY <1>1 DEF Gaps
  <2>2. Missing("authorization", "hard") \in all
    BY <1>1, <2>1 DEF missing_requirements
  <2>3. Missing("authorization", "hard").severity = "hard"
    BY DEF Missing
  <2> QED BY <2>2, <2>3 DEF Blocked
<1>2. CASE s.compensation_strictness = "hard" /\ f.pay = "below"
  <2>1. Missing("compensation", "hard") \in all
    BY <1>2 DEF missing_requirements
  <2>2. Missing("compensation", "hard").severity = "hard"
    BY DEF Missing
  <2> QED BY <2>1, <2>2 DEF Blocked
<1> QED BY <1>1, <1>2 DEF Barred

\* What a reply adds takes no requirement away (_merge_missing).
LEMMA MergedIsBlocked ==
    ASSUME NEW existing, NEW additions, Blocked(existing)
    PROVE  Blocked(merge_missing(existing, additions))
BY DEF Blocked, merge_missing

\* The score is the one the rules give, or what a reply made of it.
Scored == score_job(fit.facts, fit.strategy)

\* The stages of a score, and where its value came from (ScoringService._score_one).
FitInv ==
    /\ fit = [facts |-> fit.facts, strategy |-> fit.strategy, score |-> fit.score,
              baseline |-> fit.baseline, reply |-> fit.reply, stage |-> fit.stage]
    /\ fit.facts \in Facts /\ fit.strategy \in Strategies
    /\ fit.stage \in {"new", "scored", "enriched", "not_enriched"}
    /\ fit.stage # "new" => fit.baseline = Scored.overall
    /\ fit.stage \in {"scored", "not_enriched"} => fit.score = Scored
    /\ fit.stage = "enriched" =>
          \E reply \in Replies : fit.reply = reply.adjustments /\ fit.score = enrich_score(Scored, reply)

\* Scoring, a reply and a failed call each keep to it.
LEMMA FitStep == ASSUME FitInv, [FitNext]_fit PROVE FitInv'
<1>1. CASE UNCHANGED fit
  <2>1. fit' = fit
    BY <1>1
  <2> QED BY <2>1 DEF FitInv, Scored
<1>2. CASE ScoreJob
  <2>1. fit' = [facts |-> fit.facts, strategy |-> fit.strategy, score |-> Scored,
                baseline |-> Scored.overall, reply |-> fit.reply, stage |-> "scored"]
    BY <1>2 DEF ScoreJob, FitInv, Scored
  <2>2. Scored' = Scored
    BY <2>1 DEF Scored
  <2> QED BY <2>1, <2>2 DEF FitInv
<1>3. CASE Enrich
  <2>1. PICK reply \in Replies :
          fit' = [fit EXCEPT !.score = enrich_score(fit.score, reply),
                             !.reply = reply.adjustments, !.stage = "enriched"]
    BY Zenon, <1>3 DEF Enrich
  <2>2. fit.stage = "scored" /\ fit.score = Scored
    BY <1>3 DEF Enrich, FitInv
  <2>3. fit' = [facts |-> fit.facts, strategy |-> fit.strategy, score |-> enrich_score(Scored, reply),
                baseline |-> fit.baseline, reply |-> reply.adjustments, stage |-> "enriched"]
    BY <2>1, <2>2 DEF FitInv
  <2>4. Scored' = Scored
    BY <2>3 DEF Scored
  <2> QED BY <2>2, <2>3, <2>4 DEF FitInv
<1>4. CASE EnrichFails
  <2>1. fit' = [facts |-> fit.facts, strategy |-> fit.strategy, score |-> fit.score,
                baseline |-> fit.baseline, reply |-> fit.reply, stage |-> "not_enriched"]
        /\ fit.stage = "scored"
    BY <1>4 DEF EnrichFails, FitInv
  <2>2. Scored' = Scored
    BY <2>1 DEF Scored
  <2> QED BY <2>1, <2>2 DEF FitInv
<1> QED BY <1>1, <1>2, <1>3, <1>4 DEF FitNext

\* So a reply moves the overall score within the maximum and unblocks nothing.
LEMMA FitOnlyAdjusts == ASSUME FitInv PROVE ModelOnlyAdjusts
<1> DEFINE f == fit.facts
           s == fit.strategy
           d1 == score_dimensions(f, s)
           m1 == missing_requirements(f, s)
<1>1. f \in Facts /\ s \in Strategies
  BY DEF FitInv
<1>2. d1 \in Dimensions
  BY <1>1, JudgedWithinBounds
<1>3. (MayNotWork \/ PaysTooLittle) => Blocked(m1)
  BY BarredIsBlocked DEF MayNotWork, PaysTooLittle, Barred
<1>4. Scored = Verdict(d1, m1, s)
  BY DEF Scored, score_job
<1> HIDE DEF f, s, d1, m1
<1>5. /\ Scored.dimensions = d1 /\ Scored.missing = m1 /\ overall_of(d1) \in Int
      /\ Scored.overall = IF Blocked(m1) THEN MinOf(overall_of(d1), HARD_BLOCKER_CAP) ELSE overall_of(d1)
      /\ Blocked(m1) => Scored.recommendation = "skip" /\ Scored.overall <= HARD_BLOCKER_CAP
  BY <1>2, <1>4, VerdictFacts
<1>6. CASE fit.stage = "new"
  BY <1>6 DEF ModelOnlyAdjusts
<1>7. CASE fit.stage \in {"scored", "not_enriched"}
  <2>1. fit.score = Scored /\ fit.stage # "enriched"
    BY <1>7 DEF FitInv
  <2> QED BY <1>3, <1>5, <2>1 DEF ModelOnlyAdjusts
<1>8. CASE fit.stage = "enriched"
  <2>1. PICK reply \in Replies : fit.reply = reply.adjustments /\ fit.score = enrich_score(Scored, reply)
    BY <1>8 DEF FitInv
  <2> DEFINE d2 == apply_adjustments(d1, reply.adjustments)
             m2 == merge_missing(m1, reply.missing)
  <2>2. reply.adjustments \in Seq(Adjustment)
    BY FitAssumption DEF Adjustment
  <2>3. fit.score = Verdict(d2, m2, EnrichThresholds)
    BY <1>5, <2>1 DEF enrich_score
  <2>4. d2 \in Dimensions /\ (NamedOnce(fit.reply) => \A d \in ScoreDimension : Near(d2[d].score, d1[d].score))
    BY <1>2, <2>1, <2>2, AdjustmentsMove
  <2>5. Blocked(m1) => Blocked(m2)
    BY MergedIsBlocked
  <2> HIDE DEF d2, m2
  <2>6. /\ fit.score.missing = m2 /\ overall_of(d2) \in Int
        /\ fit.score.overall = IF Blocked(m2) THEN MinOf(overall_of(d2), HARD_BLOCKER_CAP) ELSE overall_of(d2)
        /\ Blocked(m2) => fit.score.recommendation = "skip" /\ fit.score.overall <= HARD_BLOCKER_CAP
    BY <2>3, <2>4, VerdictFacts
  <2>7. ASSUME NamedOnce(fit.reply)
        PROVE  /\ fit.score.overall <= fit.baseline + 100 * MAX_ADJUSTMENT
               /\ Blocked(fit.score.missing) \/ fit.score.overall >= fit.baseline - 100 * MAX_ADJUSTMENT
    <3> DEFINE x == overall_of(d1)
               y == overall_of(d2)
    <3>1. y <= x + 20000 /\ x <= y + 20000
      BY <1>2, <2>4, <2>7, OverallMoves
    <3>2. fit.baseline = Scored.overall
      BY <1>8 DEF FitInv
    <3> HIDE DEF x, y
    <3>3. x \in Int /\ y \in Int
      BY <1>5, <2>6 DEF x, y
    <3>4. fit.baseline = IF Blocked(m1) THEN MinOf(x, HARD_BLOCKER_CAP) ELSE x
      BY <1>5, <3>2 DEF x
    <3>5. fit.score.overall = IF Blocked(m2) THEN MinOf(y, HARD_BLOCKER_CAP) ELSE y
      BY <2>6 DEF y
    <3>6. 100 * MAX_ADJUSTMENT = 20000
      BY DEF MAX_ADJUSTMENT
    <3> QED BY <2>5, <2>6, <3>1, <3>3, <3>4, <3>5, <3>6 DEF MinOf, HARD_BLOCKER_CAP
  <2> QED BY <1>3, <1>8, <2>5, <2>6, <2>7 DEF ModelOnlyAdjusts
<1> QED BY <1>6, <1>7, <1>8 DEF FitInv

(* What holds of a score at every stage of ScoringService._score_one: it   *)
(* is the one the rules give, or what one reply of the model made of it.   *)
THEOREM FitInvAlways == FitSpec => []FitInv
<1>1. FitInit => FitInv
  BY DEF FitInit, FitInv
<1>2. FitInv /\ [FitNext]_fit => FitInv'
  BY FitStep
<1> QED BY <1>1, <1>2, PTL DEF FitSpec

-----------------------------------------------------------------------------
(* ResumeTailor. What is put in order is only put in order, and what a     *)
(* model writes goes through the guard.                                    *)

\* order lists all of 1 .. N, those with the higher keys first.
Ranks(order, N, keys) ==
    /\ order \in [1 .. N -> 1 .. N]
    /\ \A i \in 1 .. N : \E k \in 1 .. N : order[k] = i
    /\ \A k, l \in 1 .. N : k < l => keys[order[k]] >= keys[order[l]]

\* BestFirst puts every element in a place of its own, the higher keys first.
LEMMA BestFirstRanks ==
    ASSUME NEW s, NEW N \in Nat, DOMAIN s = 1 .. N, NEW keys, \A i \in 1 .. N : keys[i] \in Int
    PROVE  \E order : Ranks(order, N, keys) /\ BestFirst(s, keys) = [k \in 1 .. N |-> s[order[k]]]
<1> DEFINE Precedes(i, j) == keys[i] > keys[j] \/ (keys[i] = keys[j] /\ i < j)
           Ahead(i) == {j \in 1 .. N : Precedes(j, i)}
           Place(i) == Cardinality(Ahead(i)) + 1
           place == [i \in 1 .. N |-> Place(i)]
           order == [k \in 1 .. N |-> CHOOSE i \in 1 .. N : Place(i) = k]
<1>1. IsFiniteSet(1 .. N) /\ Cardinality(1 .. N) = N
  BY FS_Interval
<1>2. /\ \A i \in 1 .. N : ~Precedes(i, i)
      /\ \A i, j \in 1 .. N : Precedes(i, j) => ~Precedes(j, i)
      /\ \A i, j \in 1 .. N : i # j => Precedes(i, j) \/ Precedes(j, i)
      /\ \A i, j, k \in 1 .. N : Precedes(i, j) /\ Precedes(j, k) => Precedes(i, k)
  OBVIOUS
<1>3. BestFirst(s, keys) = [k \in 1 .. N |-> s[CHOOSE i \in 1 .. N : Place(i) = k]]
  BY DEF BestFirst
<1>4. \A k, l \in 1 .. N : ~(keys[k] >= keys[l]) => Precedes(l, k)
  OBVIOUS
<1> HIDE DEF Precedes
<1>5. ASSUME NEW i \in 1 .. N PROVE Place(i) \in 1 .. N /\ IsFiniteSet(Ahead(i)) /\ Cardinality(Ahead(i)) \in Nat
  <2>1. Ahead(i) \subseteq (1 .. N) \ {i}
    BY <1>2
  <2> HIDE DEF Ahead
  <2>2. IsFiniteSet((1 .. N) \ {i}) /\ Cardinality((1 .. N) \ {i}) = N - 1
    BY <1>1, FS_RemoveElement
  <2>3. IsFiniteSet(Ahead(i)) /\ Cardinality(Ahead(i)) <= N - 1
    BY <2>1, <2>2, FS_Subset
  <2>4. Cardinality(Ahead(i)) \in Nat
    BY <2>3, FS_CardinalityType
  <2> QED BY <2>3, <2>4
<1>6. ASSUME NEW i \in 1 .. N, NEW j \in 1 .. N, Precedes(i, j) PROVE Place(i) < Place(j)
  <2>1. Ahead(i) \cup {i} \subseteq Ahead(j) /\ i \notin Ahead(i)
    BY <1>2, <1>6
  <2> HIDE DEF Ahead
  <2>2. Cardinality(Ahead(i) \cup {i}) = Cardinality(Ahead(i)) + 1
    BY <1>5, <2>1, FS_AddElement
  <2>3. Cardinality(Ahead(i) \cup {i}) <= Cardinality(Ahead(j))
    BY <1>5, <2>1, FS_Subset
  <2> QED BY <1>5, <2>2, <2>3
<1> HIDE DEF Ahead
<1>7. \A i, j \in 1 .. N : Place(i) = Place(j) => i = j
  <2>1. ASSUME NEW i \in 1 .. N, NEW j \in 1 .. N, Precedes(i, j) PROVE Place(i) # Place(j)
    <3>1. Place(i) < Place(j) /\ Place(i) \in 1 .. N /\ Place(j) \in 1 .. N
      BY <1>5, <1>6, <2>1
    <3> HIDE DEF Place
    <3> QED BY <3>1
  <2> HIDE DEF Place
  <2> QED BY <1>2, <2>1
<1>8. place \in Injection(1 .. N, 1 .. N)
  BY <1>5, <1>7 DEF Injection, IsInjective
<1>9. place \in Surjection(1 .. N, 1 .. N)
  <2> HIDE DEF place
  <2> QED BY <1>1, <1>8, FS_Injection
<1>10. \A k \in 1 .. N : \E i \in 1 .. N : Place(i) = k
  BY <1>9 DEF Surjection
<1> HIDE DEF Place
<1>11. \A k \in 1 .. N : order[k] \in 1 .. N /\ Place(order[k]) = k
  BY <1>10
<1>12. BestFirst(s, keys) = [k \in 1 .. N |-> s[order[k]]]
  BY <1>3
<1>13. order \in [1 .. N -> 1 .. N]
  BY <1>10
<1> HIDE DEF order
<1>14. ASSUME NEW i \in 1 .. N PROVE \E k \in 1 .. N : order[k] = i
  <2>1. Place(i) \in 1 .. N
    BY <1>5
  <2> QED BY <1>7, <1>11, <2>1
<1>15. ASSUME NEW k \in 1 .. N, NEW l \in 1 .. N, k < l PROVE keys[order[k]] >= keys[order[l]]
  <2>1. SUFFICES ASSUME ~(keys[order[k]] >= keys[order[l]]) PROVE FALSE
    OBVIOUS
  <2>2. Precedes(order[l], order[k])
    BY <1>4, <1>11, <2>1
  <2>3. Place(order[l]) < Place(order[k])
    BY <1>6, <1>11, <2>2
  <2> QED BY <1>11, <1>15, <2>3
<1>16. Ranks(order, N, keys)
  BY <1>13, <1>14, <1>15 DEF Ranks
<1> QED BY <1>12, <1>16

\* The fits of a role's bullets add up to a number (_score_work).
LEMMA WorkFitIsANumber ==
    ASSUME NEW work \in Roles
    PROVE  WorkFit(work) \in Int
<1> DEFINE N == Len(work.highlights)
           step == [x \in (1 .. N) \X Int |-> x[2] + work.highlights[x[1]].fit]
           Sums(f) == f = [n \in 0 .. N |-> IF n = 0 THEN 0
                                            ELSE f[n - 1] + work.highlights[n].fit]
           sum == CHOOSE f : Sums(f)
<1>1. N \in Nat /\ \A n \in 1 .. N : work.highlights[n].fit \in Nat
  <2>1. work.highlights \in Seq(Bullets)
    BY DEF Roles
  <2>2. N \in Nat /\ \A n \in 1 .. N : work.highlights[n] \in Bullets
    BY <2>1
  <2> QED BY <2>2 DEF Bullets
<1>2. \A n \in 1 .. N : \A x \in Int : step[<<n, x>>] = x + work.highlights[n].fit
  BY <1>1
<1>3. \A n \in 1 .. N : \A x \in Int : step[<<n, x>>] \in Int
  BY <1>1
<1> HIDE DEF N, step
<1>e. \E f \in [0 .. N -> Int] : Follows(f, N, 0, step)
  <2>1. N \in Nat /\ 0 \in Int
    BY <1>1
  <2> QED BY <1>3, <2>1, Recursion
<1>f. PICK f \in [0 .. N -> Int] : Follows(f, N, 0, step)
  BY <1>e
<1>4. \A n \in 0 .. N : n = 0 \/ (n \in 1 .. N /\ n # 0 /\ n - 1 \in 0 .. N)
  BY <1>1
<1>5. \A n \in 0 .. N : f[n] = IF n = 0 THEN 0 ELSE f[n - 1] + work.highlights[n].fit
  BY <1>2, <1>f, <1>4 DEF Follows
<1>6. Sums(f)
  BY <1>f, <1>5
<1> HIDE DEF Sums
<1>7. Sums(sum)
  BY <1>6
<1>8. WorkFit(work) = sum[N]
  BY DEF WorkFit, Sums, N
<1> HIDE DEF sum
<1>9. sum[0] = 0 /\ \A n \in 1 .. N : sum[n] = sum[n - 1] + work.highlights[n].fit
  BY <1>1, <1>7, <1>4 DEF Sums
<1> DEFINE T == {n \in 0 .. N : sum[n] \in Int}
<1>10. 0 \in T
  BY <1>1, <1>9
<1>a. ASSUME NEW n \in 1 .. N, n - 1 \in T PROVE n \in T
  <2>1. sum[n - 1] \in Int /\ n \in 0 .. N
    BY <1>1, <1>a
  <2>2. sum[n] = sum[n - 1] + work.highlights[n].fit /\ work.highlights[n].fit \in Nat
    BY <1>1, <1>9
  <2>3. sum[n] \in Int
    BY <2>1, <2>2
  <2> QED BY <2>1, <2>3
<1>11. T \in SUBSET (0 .. N) /\ N \in 0 .. N
  BY <1>1
<1> HIDE DEF T
<1>12. N \in T
  BY <1>1, <1>10, <1>a, <1>11, UpTo
<1> QED BY <1>8, <1>12 DEF T

\* The lesser of two numbers, as FiniteSetsExt finds it.
LEMMA LesserOfTwo ==
    ASSUME NEW a \in Nat, NEW b \in Nat
    PROVE  /\ Min({a, b}) \in {a, b}
           /\ Min({a, b}) <= a
           /\ Min({a, b}) <= b
<1> DEFINE Least(x) == x \in {a, b} /\ \A y \in {a, b} : x <= y
<1>1. \E x : Least(x)
  <2>1. CASE a <= b
    BY <2>1
  <2>2. CASE b <= a
    BY <2>2
  <2> QED BY <2>1, <2>2
<1>2. Min({a, b}) = CHOOSE x : Least(x)
  BY DEF Min
<1> DEFINE m == CHOOSE x : Least(x)
<1> HIDE DEF Least
<1>3. Least(m)
  BY <1>1
<1> HIDE DEF m
<1> QED BY <1>2, <1>3 DEF Least, m

\* What is left out of a role ranks no higher than what is kept (_deterministic).
LEMMA SelectedAreTheBest ==
    ASSUME NEW work \in Roles
    PROVE  /\ SelectedHighlights(work) \in Seq(Bullets)
           /\ Len(SelectedHighlights(work)) = Min({Len(work.highlights), MAX_HIGHLIGHTS_PER_ROLE})
           /\ Range(SelectedHighlights(work)) \subseteq Range(work.highlights)
           /\ \A kept \in Range(SelectedHighlights(work)),
                 left \in Range(work.highlights) \ Range(SelectedHighlights(work)) :
                 kept.fit >= left.fit
<1> DEFINE h == work.highlights
           N == Len(h)
           keys == BulletFits(work)
           best == BestFirst(h, keys)
           m == Min({N, 4})
           sel == [k \in 1 .. m |-> best[k]]
<1>1. h \in Seq(Bullets) /\ N \in Nat /\ DOMAIN h = 1 .. N
  BY DEF Roles
<1>2. \A i \in 1 .. N : h[i] \in Bullets /\ keys[i] = h[i].fit /\ h[i].fit \in Int
  <2>1. \A i \in 1 .. N : h[i] \in Bullets
    BY <1>1
  <2> QED BY <1>1, <2>1 DEF Bullets, BulletFits
<1> HIDE DEF h, N, keys
<1>3. \A i \in 1 .. N : keys[i] \in Int
  BY <1>2
<1>a. N \in Nat /\ DOMAIN h = 1 .. N
  BY <1>1
<1> HIDE DEF best
<1>4. PICK order : Ranks(order, N, keys) /\ best = [k \in 1 .. N |-> h[order[k]]]
  BY <1>3, <1>a, BestFirstRanks DEF best
<1>5. /\ order \in [1 .. N -> 1 .. N]
      /\ \A i \in 1 .. N : \E k \in 1 .. N : order[k] = i
      /\ \A k, l \in 1 .. N : k < l => keys[order[k]] >= keys[order[l]]
  BY <1>4 DEF Ranks
<1>6. \A k \in 1 .. N : best[k] = h[order[k]] /\ order[k] \in 1 .. N
  BY <1>4, <1>5
<1>7. best \in Seq(Bullets) /\ Len(best) = N
  <2>1. best \in [1 .. N -> Bullets]
    BY <1>2, <1>4, <1>5
  <2>2. best \in Seq(Bullets)
    BY <1>1, <2>1
  <2> QED BY <1>1, <2>1, <2>2
<1>8. m \in Nat /\ m <= N /\ m \in {N, 4}
  BY <1>1, LesserOfTwo
<1>9. SelectedHighlights(work) = SubSeq(best, 1, m)
  BY <1>7 DEF SelectedHighlights, MAX_HIGHLIGHTS_PER_ROLE, best, h, N, keys
<1> HIDE DEF m
<1>10. SubSeq(best, 1, m) = sel
  BY <1>7, <1>8
<1>11. \A k \in 1 .. m : k \in 1 .. N /\ sel[k] = h[order[k]] /\ sel[k] \in Bullets
  BY <1>1, <1>2, <1>6, <1>8
<1>12. sel \in Seq(Bullets) /\ Len(sel) = m /\ DOMAIN sel = 1 .. m
  BY <1>8, <1>11
<1> HIDE DEF sel
<1>13. Range(h) = {h[i] : i \in 1 .. N} /\ Range(sel) = {sel[k] : k \in 1 .. m}
  BY <1>1, <1>12 DEF Range
<1>14. Range(sel) \subseteq Range(h)
  BY <1>6, <1>11, <1>13
<1>15. ASSUME NEW kept \in Range(sel), NEW left \in Range(h) \ Range(sel)
       PROVE  kept.fit >= left.fit
  <2>1. PICK k \in 1 .. m : kept = sel[k]
    BY <1>13
  <2>2. PICK i \in 1 .. N : left = h[i]
    BY <1>13
  <2>3. PICK l \in 1 .. N : order[l] = i
    BY <1>5
  <2>4. l \notin 1 .. m
    BY <1>11, <1>13, <2>2, <2>3
  <2>5. k < l /\ k \in 1 .. N
    BY <1>1, <1>8, <2>4
  <2>6. keys[order[k]] >= keys[order[l]]
    BY <1>5, <2>5
  <2>7. kept = h[order[k]] /\ order[k] \in 1 .. N
    BY <1>6, <1>11, <2>1
  <2> QED BY <1>2, <2>2, <2>3, <2>6, <2>7
<1>16. m = Min({Len(work.highlights), MAX_HIGHLIGHTS_PER_ROLE})
  BY DEF m, N, h, MAX_HIGHLIGHTS_PER_ROLE
<1> QED BY <1>9, <1>10, <1>12, <1>14, <1>15, <1>16 DEF h

\* The deterministic resume is the profile's own roles in another order, each
\* with the best of its bullets (ResumeTailor._deterministic).
LEMMA DeterministicOrders ==
    ASSUME NEW p, p.resume \in Resumes
    PROVE  \E order :
              LET work == p.resume.work IN
              /\ order \in [1 .. Len(work) -> 1 .. Len(work)]
              /\ \A i \in 1 .. Len(work) : \E k \in 1 .. Len(work) : order[k] = i
              /\ deterministic(p).work \in Seq(Roles)
              /\ Len(deterministic(p).work) = Len(work)
              /\ \A k \in 1 .. Len(work) :
                    /\ deterministic(p).work[k].name = work[order[k]].name
                    /\ deterministic(p).work[k].startDate = work[order[k]].startDate
                    /\ deterministic(p).work[k].highlights = SelectedHighlights(work[order[k]])
              /\ deterministic(p).schools = p.resume.schools
<1> DEFINE work == p.resume.work
           N == Len(work)
           selected == [w \in DOMAIN work |->
                          [work[w] EXCEPT !.highlights = SelectedHighlights(work[w])]]
           keys == [w \in DOMAIN work |-> WorkFit(selected[w])]
           best == BestFirst(selected, keys)
<1>1. work \in Seq(Roles) /\ N \in Nat /\ DOMAIN work = 1 .. N
  BY DEF Resumes
<1>2. deterministic(p) = [p.resume EXCEPT !.work = best]
  BY DEF deterministic
<1>3. \A w \in 1 .. N : selected[w] = [work[w] EXCEPT !.highlights = SelectedHighlights(work[w])]
  BY <1>1
<1>4. DOMAIN selected = 1 .. N
  BY <1>1
<1>5. \A w \in 1 .. N : keys[w] = WorkFit(selected[w])
  BY <1>1
<1> HIDE DEF selected, keys, best
<1>6. deterministic(p).work = best /\ deterministic(p).schools = p.resume.schools
  BY <1>2 DEF Resumes
<1> HIDE DEF work, N
<1>7. \A w \in 1 .. N : work[w] \in Roles
  BY <1>1
<1>8. ASSUME NEW w \in 1 .. N
      PROVE  /\ selected[w] \in Roles
             /\ selected[w].name = work[w].name
             /\ selected[w].startDate = work[w].startDate
             /\ selected[w].highlights = SelectedHighlights(work[w])
  <2>1. SelectedHighlights(work[w]) \in Seq(Bullets)
    BY <1>7, SelectedAreTheBest
  <2> QED BY <1>3, <1>7, <2>1 DEF Roles
<1>9. \A w \in 1 .. N : keys[w] \in Int
  BY <1>5, <1>8, WorkFitIsANumber
<1>10. PICK order : Ranks(order, N, keys) /\ best = [k \in 1 .. N |-> selected[order[k]]]
  BY <1>1, <1>4, <1>9, BestFirstRanks DEF best
<1>11. /\ order \in [1 .. N -> 1 .. N]
       /\ \A i \in 1 .. N : \E k \in 1 .. N : order[k] = i
  BY <1>10 DEF Ranks
<1>12. \A k \in 1 .. N : best[k] = selected[order[k]] /\ order[k] \in 1 .. N
  BY <1>10, <1>11
<1>13. best \in Seq(Roles) /\ Len(best) = N
  <2>1. best \in [1 .. N -> Roles]
    BY <1>8, <1>10, <1>11
  <2>2. best \in Seq(Roles)
    BY <1>1, <2>1
  <2> QED BY <1>1, <2>1, <2>2
<1>14. \A k \in 1 .. N : /\ best[k].name = work[order[k]].name
                         /\ best[k].startDate = work[order[k]].startDate
                         /\ best[k].highlights = SelectedHighlights(work[order[k]])
  BY <1>8, <1>12
<1> QED BY <1>6, <1>11, <1>13, <1>14 DEF work, N

\* What the deterministic resume says of the person (ResumeTailor._deterministic).
LEMMA DeterministicIsOwn ==
    ASSUME NEW p, p.resume \in Resumes
    PROVE  /\ deterministic(p).work \in Seq(Roles)
           /\ Len(deterministic(p).work) = Len(p.resume.work)
           /\ deterministic(p) \in Resumes
           /\ \A own \in Range(p.resume.work) : \E work \in Range(deterministic(p).work) :
                 own.name = work.name /\ own.startDate = work.startDate
           /\ KeepsTheBest(p, deterministic(p))
<1> DEFINE work == p.resume.work
           N == Len(work)
           made == deterministic(p).work
<1>1. work \in Seq(Roles) /\ N \in Nat /\ DOMAIN work = 1 .. N /\ \A i \in 1 .. N : work[i] \in Roles
  <2>1. work \in Seq(Roles)
    BY DEF Resumes
  <2> QED BY <2>1
<1>2. PICK order :
         /\ order \in [1 .. N -> 1 .. N]
         /\ \A i \in 1 .. N : \E k \in 1 .. N : order[k] = i
         /\ made \in Seq(Roles)
         /\ Len(made) = N
         /\ \A k \in 1 .. N : /\ made[k].name = work[order[k]].name
                              /\ made[k].startDate = work[order[k]].startDate
                              /\ made[k].highlights = SelectedHighlights(work[order[k]])
         /\ deterministic(p).schools = p.resume.schools
  BY DeterministicOrders
<1> HIDE DEF work, N, made
<1>3. DOMAIN made = 1 .. N
  BY <1>2
<1>4. Range(made) = {made[k] : k \in 1 .. N} /\ Range(work) = {work[i] : i \in 1 .. N}
  BY <1>1, <1>3 DEF Range
<1>5. ASSUME NEW own \in Range(work)
      PROVE  \E w \in Range(made) : own.name = w.name /\ own.startDate = w.startDate
  <2>1. PICK i \in 1 .. N : own = work[i]
    BY <1>4
  <2>2. PICK k \in 1 .. N : order[k] = i
    BY <1>2
  <2>3. made[k] \in Range(made) /\ made[k].name = own.name /\ made[k].startDate = own.startDate
    BY <1>2, <1>4, <2>1, <2>2
  <2> QED BY <2>3
<1>6. ASSUME NEW w \in Range(made)
      PROVE  \E own \in Range(work) :
                /\ own.name = w.name /\ own.startDate = w.startDate
                /\ Range(w.highlights) \subseteq Range(own.highlights)
                /\ Len(w.highlights) = Min({Len(own.highlights), MAX_HIGHLIGHTS_PER_ROLE})
                /\ \A kept \in Range(w.highlights),
                      left \in Range(own.highlights) \ Range(w.highlights) :
                      kept.fit >= left.fit
  <2>1. PICK k \in 1 .. N : w = made[k]
    BY <1>4
  <2> DEFINE own == work[order[k]]
  <2>2. own \in Range(work) /\ own \in Roles
    BY <1>1, <1>2, <1>4
  <2>3. /\ w.name = own.name /\ w.startDate = own.startDate
        /\ w.highlights = SelectedHighlights(own)
    BY <1>2, <2>1
  <2> HIDE DEF own
  <2>4. /\ Len(w.highlights) = Min({Len(own.highlights), MAX_HIGHLIGHTS_PER_ROLE})
        /\ Range(w.highlights) \subseteq Range(own.highlights)
        /\ \A kept \in Range(w.highlights),
              left \in Range(own.highlights) \ Range(w.highlights) :
              kept.fit >= left.fit
    BY <2>2, <2>3, SelectedAreTheBest
  <2> QED BY <2>2, <2>3, <2>4
<1>7. KeepsTheBest(p, deterministic(p))
  BY <1>6 DEF KeepsTheBest, work, made
<1>8. deterministic(p) \in Resumes
  <2>1. \E x : deterministic(p) = [p.resume EXCEPT !.work = x]
    BY DEF deterministic
  <2>2. deterministic(p).work \in Seq(Roles)
    BY <1>2 DEF made
  <2> QED BY <2>1, <2>2 DEF Resumes
<1> QED BY <1>2, <1>5, <1>7, <1>8 DEF work, N, made

\* A rewrite touches nothing but the bullets (ResumeTailor._llm_rewrite).
LEMMA RewriteKeepsRoles ==
    ASSUME NEW resume, resume \in Resumes, NEW rewrites
    PROVE  /\ Len(llm_rewrite(resume, rewrites).work) = Len(resume.work)
           /\ llm_rewrite(resume, rewrites).schools = resume.schools
           /\ \A own \in Range(resume.work) : \E work \in Range(llm_rewrite(resume, rewrites).work) :
                 own.name = work.name /\ own.startDate = work.startDate
<1> DEFINE Put(w, i) == LET id == Cursor(resume, w) + i - 1
                        IN  IF id \in DOMAIN rewrites THEN rewrites[id]
                            ELSE resume.work[w].highlights[i]
           new == [w \in DOMAIN resume.work |->
                     [resume.work[w] EXCEPT !.highlights =
                        [i \in DOMAIN resume.work[w].highlights |-> Put(w, i)]]]
           N == Len(resume.work)
<1>1. llm_rewrite(resume, rewrites) = [resume EXCEPT !.work = new]
  BY DEF llm_rewrite
<1>2. resume.work \in Seq(Roles) /\ N \in Nat /\ DOMAIN resume.work = 1 .. N
  BY DEF Resumes
<1> HIDE DEF Put
<1>3. \A w \in 1 .. N : /\ new[w].name = resume.work[w].name
                         /\ new[w].startDate = resume.work[w].startDate
  <2>1. \A w \in 1 .. N : resume.work[w] \in Roles
    BY <1>2
  <2> QED BY <1>2, <2>1 DEF Roles
<1>4. DOMAIN new = 1 .. N
  BY <1>2
<1>5. Len(new) = N
  BY <1>2, <1>4
<1> HIDE DEF new
<1>6. llm_rewrite(resume, rewrites).work = new /\ llm_rewrite(resume, rewrites).schools = resume.schools
  BY <1>1 DEF Resumes
<1>7. ASSUME NEW own \in Range(resume.work)
      PROVE  \E work \in Range(new) : own.name = work.name /\ own.startDate = work.startDate
  <2>1. PICK w \in 1 .. N : own = resume.work[w]
    BY <1>2 DEF Range
  <2>2. new[w] \in Range(new)
    BY <1>4 DEF Range
  <2> QED BY <1>3, <2>1, <2>2
<1> QED BY <1>5, <1>6, <1>7

\* What the guard passes is the person's own (FabricationGuard.check).
LEMMA GuardHolds ==
    ASSUME NEW p, p.resume \in Resumes, p.metrics \subseteq Nat, NEW resume, ok(check(p, resume))
    PROVE  /\ \A work \in Range(resume.work) : OwnRole(p, work)
           /\ resume.schools \subseteq p.resume.schools
           /\ p.metrics # {} => \A n \in Claims(resume) : n.value \in p.metrics
<1> DEFINE report == check(p, resume)
           invented == {x \in DOMAIN resume.work :
                          \E b \in Range(resume.work[x].highlights) : InventedMetric(p, b)}
<1>0. \A v \in report : v.severity # "hard"
  BY DEF ok
<1>1. resume.schools \subseteq p.resume.schools
  <2>1. SUFFICES ASSUME ~(resume.schools \subseteq p.resume.schools) PROVE FALSE
    OBVIOUS
  <2>2. Violation("hard", "unknown_institution", 0) \in report
    BY <2>1 DEF check
  <2> QED BY <1>0, <2>2 DEF Violation
<1>2. invented = {}
  <2>1. \A w \in invented : Violation("hard", "invented_metric", w) \in report
    BY DEF check
  <2>2. \A w : Violation("hard", "invented_metric", w).severity = "hard"
    BY DEF Violation
  <2> HIDE DEF invented
  <2> QED BY <1>0, <2>1, <2>2
<1>3. ASSUME NEW w \in DOMAIN resume.work PROVE WorkViolations(p, resume.work[w], w) \subseteq report
  BY DEF check
<1> HIDE DEF report
<1>4. ASSUME NEW work \in Range(resume.work) PROVE OwnRole(p, work)
  <2>1. PICK w \in DOMAIN resume.work : work = resume.work[w]
    BY DEF Range
  <2>2. \A v \in WorkViolations(p, work, w) : v.severity # "hard"
    BY <1>0, <1>3, <2>1
  <2> DEFINE c == Canonical(p, work)
             own == p.resume.work[c]
             Differs == own.startDate # work.startDate /\ "none" \notin {own.startDate, work.startDate}
  <2>c. /\ work.name # "none" /\ c = 0
              => Violation("hard", "unknown_employer", w) \in WorkViolations(p, work, w)
        /\ work.name # "none" /\ c # 0 /\ Differs
              => Violation("hard", "altered_date", w) \in WorkViolations(p, work, w)
    BY DEF WorkViolations
  <2>d. \A kind, x : Violation("hard", kind, x).severity = "hard"
    BY DEF Violation
  <2>3. ~(work.name # "none" /\ c = 0)
    BY <2>2, <2>c, <2>d
  <2>4. ~(work.name # "none" /\ c # 0 /\ Differs)
    BY <2>2, <2>c, <2>d
  <2>5. c = 0 \/ (c \in 1 .. Len(p.resume.work) /\ own.name = work.name)
    <3> DEFINE I == {i \in 1 .. Len(p.resume.work) : p.resume.work[i].name = work.name}
    <3>1. c = IF I # {} THEN Min(I) ELSE 0
      BY DEF Canonical, SelectInSeq
    <3>2. I # {} => Min(I) \in I
      <4>1. p.resume.work \in Seq(Roles)
        BY DEF Resumes
      <4>2. I \in SUBSET Nat
        BY <4>1
      <4> HIDE DEF I
      <4>3. I # {} => \E x \in I : \A y \in I : x <= y
        BY <4>2, SmallestNumber
      <4> QED BY <4>3 DEF Min
    <3> HIDE DEF c
    <3> QED BY <3>1, <3>2
  <2> HIDE DEF c
  <2>6. CASE work.name = "none"
    BY <2>6 DEF OwnRole
  <2>7. CASE work.name # "none"
    <3>1. c \in 1 .. Len(p.resume.work) /\ own.name = work.name /\ ~Differs
      BY <2>3, <2>4, <2>5, <2>7
    <3>2. own \in Range(p.resume.work)
      <4>1. p.resume.work \in Seq(Roles)
        BY DEF Resumes
      <4> QED BY <3>1, <4>1 DEF Range
    <3> QED BY <3>1, <3>2 DEF OwnRole
  <2> QED BY <2>6, <2>7
<1>5. ASSUME p.metrics # {}, NEW n \in Claims(resume) PROVE n.value \in p.metrics
  <2>d. n \in NumbersIn(resume)
    BY DEF Claims
  <2>c. PICK c \in BulletsOf(resume) : n \in c.numbers
    BY <2>d DEF NumbersIn
  <2>a. PICK work \in Range(resume.work) : c \in Range(work.highlights)
    BY DEF BulletsOf
  <2>b. PICK w \in DOMAIN resume.work : work = resume.work[w]
    BY <2>a DEF Range
  <2>1. PICK b \in Range(resume.work[w].highlights) : n \in b.numbers
    BY <2>a, <2>b, <2>c
  <2>2. n.value \in 10 .. SixDigits /\ ~(n.unit = "none" /\ n.value \in Years)
    BY DEF Claims
  <2>0. SixDigits \in Nat
    BY DEF SixDigits
  <2>3. ~InventedMetric(p, b)
    BY <1>2
  <2>4. Found(n) /\ ~Year(n)
    BY <2>0, <2>2 DEF Found, Year
  <2>5. InLedger(p, n)
    BY <1>5, <2>1, <2>3, <2>4 DEF InventedMetric
  <2>6. PICK v \in p.metrics : Normalised(v) = Normalised(n.value)
    BY <2>5 DEF InLedger
  <2>7. Normalised(n.value) = n.value
    BY <2>0, <2>2 DEF Normalised
  <2>8. v \in Nat /\ n.value <= SixDigits /\ n.value \in Nat
    BY <2>0, <2>2
  <2>9. CASE v <= SixDigits
    BY <2>6, <2>7, <2>9 DEF Normalised
  <2>10. CASE v > SixDigits
    <3>1. Normalised(v) >= 10 * (v \div 10) /\ v \div 10 \in Nat /\ 10 * (v \div 10) >= v - 9
      BY <2>0, <2>8, <2>10 DEF Normalised
    <3>2. Normalised(v) > SixDigits
      BY <2>8, <2>10 DEF Normalised, SixDigits
    <3> QED BY <2>0, <2>6, <2>7, <2>8, <3>2
  <2> QED BY <2>0, <2>8, <2>9, <2>10, <2>6
<1> QED BY <1>1, <1>4, <1>5

\* What is kept of the person between the steps, and of the resume as it is made: the
\* deterministic one until a rewrite passed the guard (ResumeTailor.tailor).
TailorInv ==
    LET p == tailoring.profile
        resume == tailoring.resume
    IN  /\ tailoring = [profile |-> p, stage |-> tailoring.stage, resume |-> resume,
                        report |-> tailoring.report, used_llm |-> tailoring.used_llm]
        /\ p \in People
        /\ tailoring.used_llm \in BOOLEAN
        /\ tailoring.stage \in {"new", "asked", "done", "checked"}
        /\ tailoring.stage \in {"new", "asked", "checked"} => ~tailoring.used_llm
        /\ tailoring.stage = "asked" => resume = deterministic(p)
        /\ tailoring.stage = "checked" => tailoring.report = check(p, resume)
        /\ tailoring.stage = "done" /\ ~tailoring.used_llm => resume = deterministic(p)
        /\ tailoring.stage = "done" /\ tailoring.used_llm =>
              /\ \E rewrites : resume = llm_rewrite(deterministic(p), rewrites)
              /\ ok(check(p, resume))

\* A profile comes with nothing tailored.
LEMMA TailorInitially == TailorInit => TailorInv
<1> SUFFICES ASSUME NEW p \in People,
                    tailoring = [profile |-> p, stage |-> "new", resume |-> p.resume,
                                 report |-> {}, used_llm |-> FALSE]
             PROVE  TailorInv
  BY DEF TailorInit
<1> QED BY DEF TailorInv

\* Each way out of ResumeTailor.tailor, and a check of another resume, keeps to it.
LEMMA TailorStep ==
    ASSUME TailorInv, [TailorNext]_tailoring
    PROVE  TailorInv'
<1> DEFINE p == tailoring.profile
           own == deterministic(p)
<1>1. /\ tailoring = [profile |-> p, stage |-> tailoring.stage, resume |-> tailoring.resume,
                      report |-> tailoring.report, used_llm |-> tailoring.used_llm]
      /\ p \in People /\ tailoring.used_llm \in BOOLEAN
      /\ tailoring.stage \in {"new", "asked", "checked"} => ~tailoring.used_llm
      /\ tailoring.stage = "asked" => tailoring.resume = deterministic(p)
  BY DEF TailorInv
<1>2. ASSUME tailoring' = Fallback PROVE TailorInv'
  <2>1. tailoring' = [tailoring EXCEPT !.stage = "done", !.resume = own, !.used_llm = FALSE,
                                       !.report = check(p, own)]
    BY <1>2 DEF Fallback, Result
  <2> HIDE DEF own
  <2>2. /\ tailoring' = [profile |-> p, stage |-> "done", resume |-> own,
                         report |-> check(p, own), used_llm |-> FALSE]
    BY <1>1, <2>1
  <2> HIDE DEF p
  <2>3. tailoring'.profile = p /\ tailoring'.stage = "done" /\ tailoring'.resume = own /\ tailoring'.used_llm = FALSE
    BY <2>2
  <2> QED BY <1>1, <2>2, <2>3 DEF TailorInv, own
<1>3. CASE TailorAlone
  BY <1>2, <1>3 DEF TailorAlone
<1>4. CASE AskModel
  <2>1. /\ tailoring.stage = "new"
        /\ tailoring' = [tailoring EXCEPT !.stage = "asked", !.resume = own]
    BY <1>4 DEF AskModel
  <2> HIDE DEF own
  <2>2. tailoring' = [profile |-> p, stage |-> "asked", resume |-> own,
                      report |-> tailoring.report, used_llm |-> tailoring.used_llm]
    BY <1>1, <2>1
  <2> QED BY <1>1, <2>1, <2>2 DEF TailorInv, own
<1>5. CASE RewriteFails
  BY <1>2, <1>5 DEF RewriteFails
<1>6. ASSUME NEW rewrites, Rewritten(rewrites) PROVE TailorInv'
  <2> DEFINE new == llm_rewrite(own, rewrites)
  <2>1. /\ tailoring.stage = "asked"
        /\ tailoring' = IF ok(check(p, new)) THEN Result(new, TRUE) ELSE Fallback
    BY <1>1, <1>6 DEF Rewritten
  <2>2. CASE ~ok(check(p, new))
    BY <1>2, <2>1, <2>2
  <2>3. CASE ok(check(p, new))
    <3> HIDE DEF new
    <3>1. tailoring' = [tailoring EXCEPT !.stage = "done", !.resume = new, !.used_llm = TRUE,
                                         !.report = check(p, new)]
      BY <2>1, <2>3 DEF Result
    <3>2. tailoring' = [profile |-> p, stage |-> "done", resume |-> new,
                        report |-> check(p, new), used_llm |-> TRUE]
      BY <1>1, <3>1
    <3>3. \E x : new = llm_rewrite(deterministic(p), x)
      BY DEF new
    <3> HIDE DEF p
    <3> QED BY <1>1, <2>3, <3>2, <3>3 DEF TailorInv
  <2> QED BY <2>2, <2>3
<1>7. ASSUME NEW resume \in Others, CheckOther(resume) PROVE TailorInv'
  <2>1. /\ tailoring.stage = "new"
        /\ tailoring' = [[tailoring EXCEPT !.stage = "done", !.resume = resume, !.used_llm = FALSE,
                                           !.report = check(p, resume)] EXCEPT !.stage = "checked"]
    BY <1>7 DEF CheckOther, Result
  <2>2. tailoring' = [profile |-> p, stage |-> "checked", resume |-> resume,
                      report |-> check(p, resume), used_llm |-> FALSE]
    BY <1>1, <2>1
  <2> HIDE DEF p
  <2> QED BY <1>1, <2>2 DEF TailorInv
<1>8. CASE UNCHANGED tailoring
  BY <1>8 DEF TailorInv
<1>9. TailorNext =>
         \/ TailorAlone \/ AskModel \/ RewriteFails
         \/ \E rewrites : Rewritten(rewrites)
         \/ \E resume \in Others : CheckOther(resume)
  BY DEF TailorNext
<1> QED BY <1>3, <1>4, <1>5, <1>6, <1>7, <1>8, <1>9

\* So what is told of the resume is told of a permuted profile, or of one the guard passed.
LEMMA TailorKeeps ==
    ASSUME TailorInv
    PROVE  NothingIsInvented
<1> DEFINE p == tailoring.profile
           resume == tailoring.resume
           own == deterministic(p)
<1>1. /\ p \in People
      /\ tailoring.used_llm \in BOOLEAN
      /\ tailoring.stage \in {"new", "asked", "checked"} => ~tailoring.used_llm
      /\ tailoring.stage \in {"new", "asked", "done", "checked"}
      /\ tailoring.stage = "checked" => tailoring.report = check(p, resume)
      /\ tailoring.stage = "done" /\ ~tailoring.used_llm => resume = own
      /\ tailoring.stage = "done" /\ tailoring.used_llm =>
            /\ \E rewrites : resume = llm_rewrite(own, rewrites)
            /\ ok(check(p, resume))
  BY DEF TailorInv
<1> HIDE DEF p, resume
<1>2. p.resume \in Resumes /\ p.metrics \subseteq Nat
  BY <1>1, TailorAssumption
<1>3. /\ own.work \in Seq(Roles) /\ own \in Resumes
      /\ Len(own.work) = Len(p.resume.work)
      /\ \A role \in Range(p.resume.work) : \E work \in Range(own.work) :
            role.name = work.name /\ role.startDate = work.startDate
      /\ KeepsTheBest(p, own)
  BY <1>2, DeterministicIsOwn
<1>4. ASSUME tailoring.stage = "done"
      PROVE  /\ Len(resume.work) = Len(p.resume.work)
             /\ \A role \in Range(p.resume.work) : \E work \in Range(resume.work) :
                   role.name = work.name /\ role.startDate = work.startDate
             /\ tailoring.used_llm \/ KeepsTheBest(p, resume)
  <2> HIDE DEF own
  <2>1. CASE ~tailoring.used_llm
    BY <1>1, <1>3, <1>4, <2>1
  <2>2. CASE tailoring.used_llm
    <3>1. PICK rewrites : resume = llm_rewrite(own, rewrites)
      BY <1>1, <1>4, <2>2
    <3>2. /\ Len(resume.work) = Len(own.work)
          /\ \A role \in Range(own.work) : \E work \in Range(resume.work) :
                role.name = work.name /\ role.startDate = work.startDate
      BY <1>3, <3>1, RewriteKeepsRoles
    <3>3. ASSUME NEW role \in Range(p.resume.work)
          PROVE  \E work \in Range(resume.work) :
                    role.name = work.name /\ role.startDate = work.startDate
      <4>1. PICK mid \in Range(own.work) : role.name = mid.name /\ role.startDate = mid.startDate
        BY <1>3
      <4> QED BY <3>2, <4>1
    <3> QED BY <1>3, <2>2, <3>2, <3>3
  <2> QED BY <1>1, <2>1, <2>2
<1>5. ASSUME tailoring.used_llm \/ (tailoring.stage = "checked" /\ ok(tailoring.report))
      PROVE  /\ \A work \in Range(resume.work) : OwnRole(p, work)
             /\ resume.schools \subseteq p.resume.schools
             /\ p.metrics # {} => \A n \in Claims(resume) : n.value \in p.metrics
  <2>1. ok(check(p, resume))
    BY <1>1, <1>5
  <2> QED BY <1>2, <2>1, GuardHolds
<1> QED BY <1>4, <1>5 DEF NothingIsInvented, p, resume

\* What holds of a resume at every stage of ResumeTailor.tailor.
THEOREM TailorInvAlways == TailorSpec => []TailorInv
<1>1. TailorInv /\ [TailorNext]_tailoring => TailorInv'
  BY TailorStep
<1> QED BY TailorInitially, <1>1, PTL DEF TailorSpec

\* A model changes no fact: the score it adjusts and the resume it rewords, each with
\* its own steps, keep to what the rules and the guard allow.
THEOREM ModelChangesNoFactAlways == ModelSpec => []ModelChangesNoFact
<1>1. FitInv => ModelOnlyAdjusts
  BY FitOnlyAdjusts
<1>2. TailorInv => NothingIsInvented
  BY TailorKeeps
<1>3. FitInv /\ TailorInv => ModelChangesNoFact
  BY <1>1, <1>2 DEF ModelChangesNoFact
<1> QED BY <1>3, FitInvAlways, TailorInvAlways, PTL DEF ModelSpec

-----------------------------------------------------------------------------
(* A call to a model. The scan of a text with one object in it agrees with *)
(* the grammar of JSON for as long as the object lasts, and so ends where  *)
(* the object does; what stands around the object is passed over.          *)

ScanState == [depth : Int, in_string : BOOLEAN, escape : BOOLEAN]
LexState == [place : {"outside", "string", "escaped"}, open : Int]

LEMMA ScanTyped ==
    ASSUME NEW s \in ScanState, NEW char
    PROVE  Scan(s, char, "brace", "endbrace") \in ScanState
<1>1. /\ s = [depth |-> s.depth, in_string |-> s.in_string, escape |-> s.escape]
      /\ s.depth \in Int /\ s.in_string \in BOOLEAN /\ s.escape \in BOOLEAN
  BY DEF ScanState
<1>2. /\ s.depth + 1 \in Int /\ s.depth - 1 \in Int
  BY <1>1
<1>3. \/ Scan(s, char, "brace", "endbrace") = [s EXCEPT !.escape = FALSE]
      \/ Scan(s, char, "brace", "endbrace") = [s EXCEPT !.escape = TRUE]
      \/ Scan(s, char, "brace", "endbrace") = [s EXCEPT !.in_string = ~s.in_string]
      \/ Scan(s, char, "brace", "endbrace") = s
      \/ Scan(s, char, "brace", "endbrace") = [s EXCEPT !.depth = s.depth + 1]
      \/ Scan(s, char, "brace", "endbrace") = [s EXCEPT !.depth = s.depth - 1]
  BY <1>1 DEF Scan
<1> QED BY <1>1, <1>2, <1>3 DEF ScanState

LEMMA LexTyped ==
    ASSUME NEW s \in LexState, NEW char
    PROVE  Lex(s, char) \in LexState
<1>1. /\ s = [place |-> s.place, open |-> s.open]
      /\ s.place \in {"outside", "string", "escaped"} /\ s.open \in Int
  BY DEF LexState
<1>2. s.open + 1 \in Int /\ s.open - 1 \in Int
  BY <1>1
<1>3. \E p \in {"outside", "string", "escaped"}, d \in {s.open, s.open + 1, s.open - 1} :
         Lex(s, char) = [place |-> p, open |-> d]
  BY <1>1 DEF Lex
<1> QED BY <1>1, <1>2, <1>3 DEF LexState

ScanSteps(after, text, start, N) ==
    /\ after[0] = [depth |-> 0, in_string |-> FALSE, escape |-> FALSE]
    /\ \A k \in 1 .. N : /\ after[k - 1] \in ScanState
                         /\ after[k] = Scan(after[k - 1], text[start + k - 1], "brace", "endbrace")

(* The scan has its states by its own recursion (extract_json).            *)
LEMMA ScannedStepwise ==
    ASSUME NEW text \in Seq(STRING), NEW start \in 1 .. Len(text)
    PROVE  ScanSteps(Scanned(text, start, "brace", "endbrace"), text, start, Len(text) - start + 1)
<1> DEFINE N == Len(text) - start + 1
           after == Scanned(text, start, "brace", "endbrace")
<1> DEFINE base == [depth |-> 0, in_string |-> FALSE, escape |-> FALSE]
           step == [p \in (1 .. N) \X ScanState |-> Scan(p[2], text[start + p[1] - 1], "brace", "endbrace")]
<1>1. N \in Nat /\ N > 0
  OBVIOUS
<1>2. base \in ScanState
  BY DEF ScanState
<1>3. \A n \in 1 .. N : \A x \in ScanState :
         step[<<n, x>>] = Scan(x, text[start + n - 1], "brace", "endbrace")
  OBVIOUS
<1> HIDE DEF step
<1>4. \A n \in 1 .. N : \A x \in ScanState : step[<<n, x>>] \in ScanState
  BY Zenon, <1>3, ScanTyped
<1>5. PICK f \in [0 .. N -> ScanState] : Follows(f, N, base, step)
  <2> HIDE DEF base
  <2> QED BY <1>1, <1>2, <1>4, Recursion
<1>6. \A n \in 1 .. N : n - 1 \in 0 .. N /\ n \in 0 .. N /\ n # 0
  BY <1>1
<1> DEFINE G(g) == [k \in 0 .. (Len(text) - start + 1) |->
                       IF k = 0 THEN [depth |-> 0, in_string |-> FALSE, escape |-> FALSE]
                       ELSE Scan(g[k - 1], text[start + k - 1], "brace", "endbrace")]
<1>7. f = G(f)
  <2>1. \A n \in 0 .. N : n = 0 \/ n \in 1 .. N
    BY <1>1
  <2>2. \A n \in 0 .. N : f[n] = IF n = 0 THEN base ELSE Scan(f[n - 1], text[start + n - 1], "brace", "endbrace")
    BY <1>3, <1>5, <1>6, <2>1 DEF Follows
  <2> QED BY <1>5, <2>2
<1> DEFINE made == CHOOSE g : g = G(g)
<1>8. made = G(made)
  <2> HIDE DEF G
  <2> QED BY <1>7
<1>9. after = made
  BY DEF Scanned
<1> HIDE DEF made, after
<1>10. after[0] = base /\ \A k \in 1 .. N : after[k] = Scan(after[k - 1], text[start + k - 1], "brace", "endbrace")
  <2> DEFINE value(k) == IF k = 0 THEN base
                         ELSE Scan(after[k - 1], text[start + k - 1], "brace", "endbrace")
  <2>1. after = [k \in 0 .. N |-> value(k)]
    BY <1>8, <1>9
  <2> HIDE DEF value
  <2>2. after[0] = value(0) /\ \A k \in 1 .. N : after[k] = value(k)
    BY <1>1, <1>6, <2>1
  <2> QED BY <1>6, <2>2 DEF value
<1> DEFINE T == {n \in 0 .. N : after[n] \in ScanState}
<1>11. T = 0 .. N
  <2>1. 0 \in T
    BY <1>1, <1>2, <1>10
  <2>2. ASSUME NEW n \in 1 .. N, after[n - 1] \in ScanState PROVE after[n] \in ScanState
    <3>1. step[<<n, after[n - 1]>>] \in ScanState
      BY <1>4, <2>2
    <3> QED BY <1>3, <1>10, <2>2, <3>1
  <2>4. \A n \in 1 .. N : n - 1 \in T => n \in T
    BY <1>6, <2>2
  <2>3. T \in SUBSET (0 .. N)
    OBVIOUS
  <2> HIDE DEF T
  <2> QED BY <1>1, <2>1, <2>3, <2>4, UpTo
<1>12. \A k \in 1 .. N : after[k - 1] \in ScanState
  <2> HIDE DEF N
  <2> QED BY <1>6, <1>11
<1>13. ScanSteps(after, text, start, N)
  <2> HIDE DEF N
  <2> QED BY <1>10, <1>12 DEF ScanSteps
<1> QED BY <1>13 DEF after

(* The grammar has its states by its own recursion.                        *)
LEMMA LexedStepwise ==
    ASSUME NEW object \in Seq(STRING), NEW at, at = Lexed(object), NEW N, N = Len(object)
    PROVE  /\ at[0] = [place |-> "outside", open |-> 0]
           /\ \A k \in 1 .. N : at[k - 1] \in LexState /\ at[k] = Lex(at[k - 1], object[k])
<1> DEFINE base == [place |-> "outside", open |-> 0]
           step == [p \in (1 .. N) \X LexState |-> Lex(p[2], object[p[1]])]
<1>1. N \in Nat
  OBVIOUS
<1>2. base \in LexState
  BY DEF LexState
<1>3. \A n \in 1 .. N : \A x \in LexState : step[<<n, x>>] = Lex(x, object[n])
  OBVIOUS
<1> HIDE DEF step
<1>4. \A n \in 1 .. N : \A x \in LexState : step[<<n, x>>] \in LexState
  BY Zenon, <1>3, LexTyped
<1>5. PICK f \in [0 .. N -> LexState] : Follows(f, N, base, step)
  <2> HIDE DEF base
  <2> QED BY <1>1, <1>2, <1>4, Recursion
<1>6. \A n \in 1 .. N : n - 1 \in 0 .. N /\ n \in 0 .. N /\ n # 0
  BY <1>1
<1> DEFINE G(g) == [n \in 0 .. Len(object) |->
                       IF n = 0 THEN [place |-> "outside", open |-> 0] ELSE Lex(g[n - 1], object[n])]
<1>7. f = G(f)
  <2>1. \A n \in 0 .. N : n = 0 \/ n \in 1 .. N
    BY <1>1
  <2>2. \A n \in 0 .. N : f[n] = IF n = 0 THEN base ELSE Lex(f[n - 1], object[n])
    BY <1>3, <1>5, <1>6, <2>1 DEF Follows
  <2> QED BY <1>5, <2>2
<1> DEFINE made == CHOOSE g : g = G(g)
<1>8. made = G(made)
  <2> HIDE DEF G
  <2> QED BY <1>7
<1>9. at = made
  BY DEF Lexed
<1> HIDE DEF made
<1>10. at[0] = base /\ \A k \in 1 .. N : at[k] = Lex(at[k - 1], object[k])
  BY <1>1, <1>6, <1>8, <1>9
<1> DEFINE T == {n \in 0 .. N : at[n] \in LexState}
<1>11. T = 0 .. N
  <2>1. 0 \in T
    BY <1>1, <1>2, <1>10
  <2>2. ASSUME NEW n \in 1 .. N, at[n - 1] \in LexState PROVE at[n] \in LexState
    <3>1. step[<<n, at[n - 1]>>] \in LexState
      BY <1>4, <2>2
    <3> QED BY <1>3, <1>10, <2>2, <3>1
  <2>4. \A n \in 1 .. N : n - 1 \in T => n \in T
    BY <1>6, <2>2
  <2>3. T \in SUBSET (0 .. N)
    OBVIOUS
  <2> HIDE DEF T
  <2> QED BY <1>1, <2>1, <2>3, <2>4, UpTo
<1> QED BY <1>6, <1>10, <1>11
LEMMA EarliestIs ==
    ASSUME NEW S \in SUBSET Int, NEW m \in S, \A i \in S : m <= i
    PROVE  Earliest(S) = m
<1>1. \A i \in S : (\A j \in S : i <= j) => i = m
  BY SMTT(30)
<1> QED BY <1>1 DEF Earliest

Agree(s, l) ==
    /\ s \in ScanState /\ l \in LexState /\ s.depth = l.open
    /\ s.in_string <=> (l.place # "outside")
    /\ s.escape <=> (l.place = "escaped")

(* Scan and grammar agree on the next character if they agreed so far: the *)
(* scan heeds an escape anywhere, the grammar only in strings, where it    *)
(* occurs.                                                                 *)
LEMMA ScanAgrees ==
    ASSUME NEW s, NEW l, Agree(s, l), NEW char, char = "escape" => l.place # "outside"
    PROVE  Agree(Scan(s, char, "brace", "endbrace"), Lex(l, char))
<1>1. /\ s = [depth |-> s.depth, in_string |-> s.in_string, escape |-> s.escape]
      /\ l = [place |-> l.place, open |-> l.open]
      /\ l.place \in {"outside", "string", "escaped"}
      /\ s.depth \in Int /\ s.in_string \in BOOLEAN /\ s.escape \in BOOLEAN
      /\ s \in ScanState /\ l \in LexState
  BY DEF Agree, ScanState, LexState
<1> DEFINE t == Scan(s, char, "brace", "endbrace")
           m == Lex(l, char)
<1>2. t \in ScanState /\ m \in LexState
  BY <1>1, ScanTyped, LexTyped
<1> SUFFICES Agree(t, m)
  OBVIOUS
<1>3. CASE l.place = "escaped"
  <2>1. t = [s EXCEPT !.escape = FALSE] /\ m = [l EXCEPT !.place = "string"]
    BY <1>3 DEF Agree, Scan, Lex
  <2> HIDE DEF t, m
  <2> QED BY <1>1, <1>2, <1>3, <2>1 DEF Agree
<1>4. CASE l.place = "string"
  <2>1. ~s.escape /\ s.in_string
    BY <1>4 DEF Agree
  <2>2. CASE char = "escape"
    <3>1. t = [s EXCEPT !.escape = TRUE] /\ m = [l EXCEPT !.place = "escaped"]
      BY <1>4, <2>1, <2>2 DEF Scan, Lex
    <3> HIDE DEF t, m
    <3> QED BY <1>1, <1>2, <1>4, <2>1, <3>1 DEF Agree
  <2>3. CASE char = "quote"
    <3>1. t = [s EXCEPT !.in_string = FALSE] /\ m = [l EXCEPT !.place = "outside"]
      BY <1>1, <1>4, <2>1, <2>3 DEF Scan, Lex
    <3> HIDE DEF t, m
    <3> QED BY <1>1, <1>2, <1>4, <2>1, <3>1 DEF Agree
  <2>4. CASE char # "escape" /\ char # "quote"
    <3>1. t = s /\ m = [l EXCEPT !.place = "string"]
      BY <1>1, <1>4, <2>1, <2>4 DEF Scan, Lex
    <3> HIDE DEF t, m
    <3> QED BY <1>1, <1>2, <1>4, <2>1, <3>1 DEF Agree
  <2> QED BY <2>2, <2>3, <2>4
<1>5. CASE l.place = "outside"
  <2>1. ~s.escape /\ ~s.in_string /\ char # "escape" /\ s.depth = l.open
    BY <1>5 DEF Agree
  <2>2. CASE char = "quote"
    <3>1. t = [s EXCEPT !.in_string = TRUE] /\ m = [place |-> "string", open |-> l.open]
      BY <1>1, <1>5, <2>1, <2>2 DEF Scan, Lex
    <3> HIDE DEF t, m
    <3> QED BY <1>1, <1>2, <2>1, <3>1 DEF Agree
  <2>3. CASE char = "brace"
    <3>1. t = [s EXCEPT !.depth = s.depth + 1] /\ m = [place |-> "outside", open |-> l.open + 1]
      BY <1>1, <1>5, <2>1, <2>3 DEF Scan, Lex
    <3> HIDE DEF t, m
    <3> QED BY <1>1, <1>2, <2>1, <3>1 DEF Agree
  <2>4. CASE char = "endbrace"
    <3>1. t = [s EXCEPT !.depth = s.depth - 1] /\ m = [place |-> "outside", open |-> l.open - 1]
      BY <1>1, <1>5, <2>1, <2>4 DEF Scan, Lex
    <3> HIDE DEF t, m
    <3> QED BY <1>1, <1>2, <2>1, <3>1 DEF Agree
  <2>5. CASE char \notin {"quote", "brace", "endbrace"}
    <3>1. t = s /\ m = [place |-> "outside", open |-> l.open]
      BY <1>1, <1>5, <2>1, <2>5 DEF Scan, Lex
    <3> HIDE DEF t, m
    <3> QED BY <1>1, <1>2, <2>1, <3>1 DEF Agree
  <2> QED BY <2>2, <2>3, <2>4, <2>5
<1> QED BY <1>1, <1>3, <1>4, <1>5

(* The first balanced object of a text is the object in it, when no brace  *)
(* stands before it.                                                       *)
LEMMA ObjectIsBalanced ==
    ASSUME NEW o, WellFormed(o), NEW b \in Seq(STRING), NEW a \in Seq(STRING),
           \A i \in DOMAIN b : b[i] # "brace", NEW text, text = b \o o \o a
    PROVE  FirstBalanced(text, "brace", "endbrace") = o
<1> DEFINE L == Len(o)
           B == Len(b)
           p == B + 1
           N == Len(text) - p + 1
           at == Lexed(o)
           after == Scanned(text, p, "brace", "endbrace")
<1>1. /\ o \in Seq(STRING) /\ L > 0 /\ o[1] = "brace"
      /\ \A n \in 1 .. L : (at[n].open <= 0) <=> (n = L)
      /\ \A n \in 1 .. L : o[n] = "escape" => at[n - 1].place # "outside"
  BY DEF WellFormed
<1>2. /\ text \in Seq(STRING) /\ Len(text) = B + L + Len(a)
      /\ B \in Nat /\ L \in Nat /\ Len(a) \in Nat
      /\ \A i \in 1 .. B : text[i] = b[i]
      /\ \A k \in 1 .. L : text[B + k] = o[k]
  BY <1>1
<1>3. /\ p = B + 1 /\ p \in 1 .. Len(text) /\ N \in Nat /\ L <= N
      /\ \A k \in 1 .. L : k \in 1 .. N /\ k - 1 \in 0 .. L /\ p + k - 1 = B + k /\ k \in 0 .. L
  BY <1>1, <1>2
<1>16. /\ L = Len(o) /\ B = Len(b) /\ N = Len(text) - p + 1
       /\ at = Lexed(o) /\ after = Scanned(text, p, "brace", "endbrace")
  OBVIOUS
<1> HIDE DEF L, B, N, p, at, after
<1>4. /\ after[0] = [depth |-> 0, in_string |-> FALSE, escape |-> FALSE]
      /\ \A k \in 1 .. N : /\ after[k - 1] \in ScanState
                           /\ after[k] = Scan(after[k - 1], text[p + k - 1], "brace", "endbrace")
  <2>1. /\ text \in Seq(STRING) /\ p \in 1 .. Len(text)
        /\ after = Scanned(text, p, "brace", "endbrace")
    BY <1>2, <1>3, <1>16
  <2>2. N = Len(text) - p + 1
    BY <1>16
  <2>3. ScanSteps(after, text, p, N)
    BY <2>1, <2>2, ScannedStepwise
  <2> QED BY <2>3 DEF ScanSteps
<1>5. /\ at[0] = [place |-> "outside", open |-> 0]
      /\ \A k \in 1 .. L : at[k - 1] \in LexState /\ at[k] = Lex(at[k - 1], o[k])
  BY <1>1, <1>16, LexedStepwise, SMTT(30)
<1> DEFINE T == {k \in 0 .. L : Agree(after[k], at[k])}
<1>6. T = 0 .. L
  <2>1. 0 \in T
    <3>1. Agree(after[0], at[0])
      BY <1>4, <1>5 DEF Agree, ScanState, LexState
    <3> QED BY <1>2, <3>1
  <2>2. ASSUME NEW k \in 1 .. L, Agree(after[k - 1], at[k - 1]) PROVE Agree(after[k], at[k])
    <3>1. after[k] = Scan(after[k - 1], o[k], "brace", "endbrace") /\ at[k] = Lex(at[k - 1], o[k])
      BY <1>2, <1>3, <1>4, <1>5
    <3>2. o[k] = "escape" => at[k - 1].place # "outside"
      BY <1>1
    <3> QED BY <2>2, <3>1, <3>2, ScanAgrees
  <2>3. T \in SUBSET (0 .. L) /\ \A k \in 1 .. L : k - 1 \in T => k \in T
    BY <1>3, <2>2
  <2> HIDE DEF T
  <2> QED BY <1>2, <2>1, <2>3, UpTo
<1>7. \A k \in 0 .. L : Agree(after[k], at[k])
  BY <1>6
<1> DEFINE ends == {k \in 1 .. N : /\ text[p + k - 1] = "endbrace"
                                   /\ after[k - 1].depth = 1 /\ after[k].depth = 0}
<1>8. \A k \in 1 .. L : k # L => k \notin ends
  <2>1. ASSUME NEW k \in 1 .. L, k # L PROVE after[k].depth # 0
    <3>1. ~(at[k].open <= 0) /\ after[k].depth = at[k].open
      BY <1>1, <1>3, <1>7, <2>1 DEF Agree
    <3> QED BY <3>1
  <2> QED BY <2>1
<1>9. L \in ends
  <2>1. L \in 1 .. L /\ L - 1 \in 0 .. L
    BY <1>1, <1>2
  <2>2. L # 1 /\ L - 1 \in 1 .. L
    <3>1. at[1] = Lex(at[0], "brace") /\ 1 \in 1 .. L
      BY <1>1, <1>2, <1>5
    <3>2. at[1].open = 1
      BY <1>5, <3>1 DEF Lex
    <3>3. ~(at[1].open <= 0)
      BY <3>2
    <3> QED BY <1>1, <1>2, <3>1, <3>3
  <2>3. ~(at[L - 1].open <= 0) /\ at[L].open <= 0
    BY <1>1, <1>2, <2>1, <2>2
  <2> DEFINE s == at[L - 1]
  <2>4. at[L] = Lex(s, o[L]) /\ s \in LexState
    BY <1>5, <2>1
  <2>5. s.open \in Int /\ s.open > 0 /\ Lex(s, o[L]).open <= 0
    BY <2>3, <2>4 DEF LexState
  <2> HIDE DEF s
  <2>6. s = [place |-> s.place, open |-> s.open]
    BY <2>4 DEF LexState
  <2>7. o[L] = "endbrace" /\ s.open = 1 /\ Lex(s, o[L]).open = 0
    BY <2>5, <2>6, SMTT(30) DEF Lex
  <2>8. after[L].depth = 0 /\ after[L - 1].depth = 1
    BY <1>7, <2>1, <2>4, <2>7 DEF Agree, s
  <2> QED BY <1>2, <1>3, <2>1, <2>7, <2>8
<1>10. \A k \in ends : L <= k
  <2>1. \A k \in 1 .. N : L <= k \/ (k \in 1 .. L /\ k # L)
    BY <1>2
  <2>2. \A k \in ends : k \in 1 .. N
    OBVIOUS
  <2> HIDE DEF ends
  <2> QED BY <1>8, <2>1, <2>2
<1> DEFINE starts == {i \in DOMAIN text : text[i] = "brace"}
<1>11. p \in starts /\ \A i \in starts : p <= i
  <2>1. 1 \in 1 .. L /\ DOMAIN b = 1 .. B /\ DOMAIN text = 1 .. Len(text)
    BY <1>1, <1>2, <1>16
  <2>2. \A i \in 1 .. B : text[i] # "brace"
    BY <1>2, <2>1
  <2> QED BY <1>1, <1>2, <1>3, <2>1, <2>2
<1>12. Earliest(starts) = p
  <2>1. starts \in SUBSET Int
    BY <1>2
  <2> HIDE DEF starts
  <2> QED BY <1>11, <2>1, EarliestIs
<1>13. Earliest(ends) = L
  <2>1. ends \in SUBSET Int
    BY <1>3
  <2> HIDE DEF ends
  <2> QED BY <1>9, <1>10, <2>1, EarliestIs
<1>14. FirstBalanced(text, "brace", "endbrace") = SubSeq(text, p, p + L - 1)
  <2>1. starts # {} /\ ends # {}
    BY <1>9, <1>11
  <2>2. ends = Closings(text, p, "brace", "endbrace")
    BY <1>16 DEF Closings
  <2> HIDE DEF ends
  <2>3. FirstBalanced(text, "brace", "endbrace")
           = IF starts = {} \/ ends = {} THEN <<>>
             ELSE SubSeq(text, p, p + Earliest(ends) - 1)
    BY <1>12, <2>2 DEF FirstBalanced
  <2> QED BY <1>13, <2>1, <2>3
<1>15. SubSeq(text, p, p + L - 1) = o
  <2> DEFINE q == p + L - 1
             part == SubSeq(text, p, q)
  <2>1. /\ p \in Int /\ q \in Int /\ p <= q /\ q - p + 1 = L /\ q <= Len(text) /\ p > 0
    BY <1>1, <1>2, <1>3
  <2> HIDE DEF q
  <2>2. \A i \in p .. q : text[i] \in STRING
    BY <1>2, <2>1
  <2>3. part \in Seq(STRING) /\ Len(part) = L /\ \A k \in 1 .. L : part[k] = text[p + k - 1]
    BY <2>1, <2>2, SubSeqProperties
  <2> HIDE DEF part
  <2>4. \A k \in 1 .. L : part[k] = o[k]
    <3>1. ASSUME NEW k \in 1 .. L PROVE part[k] = o[k]
      <4>1. part[k] = text[p + k - 1]
        BY <2>3
      <4>2. p + k - 1 = B + k
        BY <1>3
      <4>3. text[B + k] = o[k]
        BY <1>2
      <4> QED BY <4>1, <4>2, <4>3
    <3> QED BY <3>1
  <2>5. part = o
    <3>1. o \in Seq(STRING) /\ Len(o) = L
      BY <1>1, <1>16
    <3> QED BY <2>3, <2>4, <3>1, SMTT(30)
  <2> QED BY <2>5 DEF part, q
<1> QED BY <1>14, <1>15
LEMMA FewerThanTwo ==
    ASSUME NEW x, NEW S \in SUBSET {x}
    PROVE  Cardinality(S) < 2
<1>1. S = {} \/ S = {x}
  OBVIOUS
<1>2. Cardinality({}) = 0 /\ Cardinality({x}) = 1
  BY FS_EmptySet, FS_Singleton
<1> QED BY <1>1, <1>2

LEMMA NotFewerThanTwo ==
    ASSUME NEW x, NEW y, x # y
    PROVE  ~(Cardinality({x, y}) < 2)
<1>1. IsFiniteSet({x}) /\ Cardinality({x}) = 1 /\ y \notin {x}
  BY FS_Singleton
<1>2. Cardinality({x} \cup {y}) = 1 + 1
  BY <1>1, FS_AddElement
<1>3. {x} \cup {y} = {x, y}
  OBVIOUS
<1> QED BY <1>2, <1>3

LEMMA ThreeParts ==
    ASSUME NEW b \in Seq(STRING), NEW o \in Seq(STRING), NEW a \in Seq(STRING),
           NEW whole, whole = b \o o \o a
    PROVE  /\ whole \in Seq(STRING) /\ Len(whole) = Len(b) + Len(o) + Len(a)
           /\ \A i \in 1 .. Len(b) : whole[i] = b[i]
           /\ \A k \in 1 .. Len(o) : whole[Len(b) + k] = o[k]
           /\ \A k \in 1 .. Len(a) : whole[Len(b) + Len(o) + k] = a[k]
  OBVIOUS

Braceless(text) == \A i \in DOMAIN text : text[i] # "brace"

(* What stands between two fences holds the object whole, and what it      *)
(* keeps of the prose before the object opens no brace.                    *)
LEMMA UnfencedHoldsTheObject ==
    ASSUME NEW o, WellFormed(o), NEW b \in Seq(STRING), NEW a \in Seq(STRING),
           Braceless(b), Sole(b, "fence"), Sole(a, "fence")
    PROVE  \E c \in Seq(STRING) : \E d \in Seq(STRING) :
              Braceless(c) /\ Unfenced(b \o o \o a) = c \o o \o d
<1> DEFINE text == b \o o \o a
           L == Len(o)
           B == Len(b)
           F == {i \in DOMAIN text : text[i] = "fence"}
<1>1. o \in Seq(STRING) /\ L > 0 /\ \A n \in 1 .. L : o[n] # "fence"
  BY DEF WellFormed
<1>2. /\ text \in Seq(STRING) /\ Len(text) = B + L + Len(a)
      /\ B \in Nat /\ L \in Nat /\ Len(a) \in Nat
      /\ DOMAIN text = 1 .. Len(text) /\ DOMAIN b = 1 .. B /\ DOMAIN a = 1 .. Len(a)
      /\ \A i \in 1 .. B : text[i] = b[i]
      /\ \A k \in 1 .. L : text[B + k] = o[k]
      /\ \A k \in 1 .. Len(a) : text[B + L + k] = a[k]
  BY <1>1
<1>3. L = Len(o) /\ B = Len(b)
  OBVIOUS
<1>4. text = b \o o \o a
  OBVIOUS
<1> HIDE DEF text, L, B
<1>5. \A i \in F : \/ i \in 1 .. B /\ b[i] = "fence"
                   \/ i - (B + L) \in 1 .. Len(a) /\ a[i - (B + L)] = "fence"
  <2>1. ASSUME NEW i \in 1 .. Len(text), text[i] = "fence"
        PROVE  \/ i \in 1 .. B /\ b[i] = "fence"
               \/ i - (B + L) \in 1 .. Len(a) /\ a[i - (B + L)] = "fence"
    <3>1. CASE i <= B
      BY <1>2, <2>1, <3>1
    <3>2. CASE i > B /\ i <= B + L
      <4>1. i - B \in 1 .. L /\ B + (i - B) = i
        BY <1>2, <3>2
      <4>2. text[i] = o[i - B]
        BY <1>2, <4>1
      <4> QED BY <1>1, <2>1, <4>1, <4>2
    <3>3. CASE i > B + L
      <4>1. i - (B + L) \in 1 .. Len(a) /\ B + L + (i - (B + L)) = i
        BY <1>2, <3>3
      <4> QED BY <1>2, <2>1, <4>1
    <3> QED BY <1>2, <3>1, <3>2, <3>3
  <2> QED BY <1>2, <2>1
<1>6. CASE \A i \in 1 .. B : b[i] # "fence"
  <2>1. \A i \in F : \A j \in F : i = j
    BY <1>2, <1>5, <1>6, SMTT(30) DEF Sole
  <2>2. \E x : F \in SUBSET {x}
    BY <2>1
  <2>3. Unfenced(text) = text
    BY <2>2, FewerThanTwo DEF Unfenced
  <2> QED BY <1>4, <2>3
<1>7. CASE \A j \in 1 .. Len(a) : a[j] # "fence"
  <2>1. \A i \in F : \A j \in F : i = j
    BY <1>2, <1>5, <1>7, SMTT(30) DEF Sole
  <2>2. \E x : F \in SUBSET {x}
    BY <2>1
  <2>3. Unfenced(text) = text
    BY <2>2, FewerThanTwo DEF Unfenced
  <2> QED BY <1>4, <2>3
<1>8. ASSUME NEW i \in 1 .. B, b[i] = "fence", NEW j \in 1 .. Len(a), a[j] = "fence"
      PROVE  \E c \in Seq(STRING) : \E d \in Seq(STRING) :
                Braceless(c) /\ Unfenced(text) = c \o o \o d
  <2> DEFINE s == B + L + j
  <2>1. s \in Int /\ i < s /\ s <= Len(text) /\ text[s] = "fence" /\ text[i] = "fence"
    BY <1>1, <1>2, <1>8
  <2>2. s = B + L + j
    OBVIOUS
  <2> HIDE DEF s
  <2>3. F = {i, s}
    <3>1. i \in F /\ s \in F
      BY <1>2, <1>8, <2>1
    <3>2. ASSUME NEW f \in F PROVE f = i \/ f = s
      <4>1. CASE f \in 1 .. B /\ b[f] = "fence"
        BY <1>2, <1>8, <4>1 DEF Sole
      <4>2. CASE f - (B + L) \in 1 .. Len(a) /\ a[f - (B + L)] = "fence"
        <5>1. f - (B + L) = j
          BY <1>2, <1>8, <4>2 DEF Sole
        <5>2. f \in Int
          BY <1>2
        <5> QED BY <1>2, <2>2, <5>1, <5>2
      <4> QED BY <1>5, <4>1, <4>2
    <3> HIDE DEF F
    <3> QED BY <3>1, <3>2
  <2>4. Earliest(F) = i /\ Earliest(F \ {i}) = s /\ ~(Cardinality(F) < 2)
    <3>1. Earliest(F) = i
      <4>1. {i, s} \in SUBSET Int /\ i \in {i, s} /\ \A x \in {i, s} : i <= x
        BY <2>1
      <4> QED BY <2>3, <4>1, EarliestIs
    <3>2. Earliest(F \ {i}) = s
      <4>1. F \ {i} = {s}
        BY <2>1, <2>3
      <4>2. {s} \in SUBSET Int /\ s \in {s} /\ \A x \in {s} : s <= x
        BY <2>1
      <4> QED BY <4>1, <4>2, EarliestIs
    <3>3. ~(Cardinality(F) < 2)
      <4>1. i # s
        BY <2>1
      <4>2. ~(Cardinality({i, s}) < 2)
        BY <4>1, NotFewerThanTwo
      <4> HIDE DEF F
      <4> QED BY <2>3, <4>2
    <3> QED BY <3>1, <3>2, <3>3
  <2>5. Unfenced(text) = SubSeq(text, i + 1, s - 1)
    BY <2>4 DEF Unfenced
  <2> DEFINE m == i + 1
             n == s - 1
             part == SubSeq(text, m, n)
             c == SubSeq(b, m, B)
             d == SubSeq(a, 1, j - 1)
             h == B - i
  <2>6. /\ m \in Int /\ n \in Int /\ m <= n /\ n - m + 1 = h + L + (j - 1) /\ m > 0 /\ n <= Len(text)
        /\ h \in Nat /\ m = i + 1 /\ j - 1 \in Nat /\ j \in Int /\ i + h = B
        /\ (IF m <= B THEN B - m + 1 ELSE 0) = h /\ B - m + 1 = h
        /\ (IF 1 <= j - 1 THEN j - 1 - 1 + 1 ELSE 0) = j - 1 /\ j - 1 - 1 + 1 = j - 1
    BY <1>1, <1>2, <1>8, <2>1, <2>2
  <2> HIDE DEF m, n, h
  <2>7. /\ part \in Seq(STRING) /\ Len(part) = h + L + (j - 1)
        /\ \A k \in 1 .. (h + L + (j - 1)) : part[k] = text[i + k]
    <3>1. \A k \in m .. n : text[k] \in STRING
      BY <1>2, <2>6
    <3>2. /\ part \in Seq(STRING) /\ Len(part) = h + L + (j - 1)
          /\ \A k \in 1 .. (h + L + (j - 1)) : part[k] = text[m + k - 1]
      BY <2>6, <3>1, SubSeqProperties
    <3>3. \A k \in 1 .. (h + L + (j - 1)) : m + k - 1 = i + k
      BY <2>6
    <3> QED BY <3>2, <3>3
  <2>8. c \in Seq(STRING) /\ Len(c) = h /\ \A k \in 1 .. h : c[k] = b[i + k]
    <3>1. \A k \in m .. B : b[k] \in STRING
      BY <1>2, <2>6
    <3>2. c \in Seq(STRING) /\ Len(c) = h /\ \A k \in 1 .. h : c[k] = b[m + k - 1]
      BY <1>2, <2>6, <3>1, SubSeqProperties
    <3>3. \A k \in 1 .. h : m + k - 1 = i + k
      BY <2>6
    <3> QED BY <3>2, <3>3
  <2>9. d \in Seq(STRING) /\ Len(d) = j - 1 /\ \A k \in 1 .. (j - 1) : d[k] = a[k]
    <3>1. \A k \in 1 .. (j - 1) : a[k] \in STRING /\ 1 + k - 1 = k
      BY <1>2, <2>6
    <3>2. d \in Seq(STRING) /\ Len(d) = j - 1 /\ \A k \in 1 .. (j - 1) : d[k] = a[1 + k - 1]
      BY <2>6, <3>1, SubSeqProperties
    <3> QED BY <3>1, <3>2
  <2> HIDE DEF part, c, d
  <2> DEFINE whole == c \o o \o d
  <2>10. /\ whole \in Seq(STRING) /\ Len(whole) = h + L + (j - 1)
         /\ \A k \in 1 .. h : whole[k] = c[k]
         /\ \A k \in 1 .. L : whole[h + k] = o[k]
         /\ \A k \in 1 .. (j - 1) : whole[h + L + k] = d[k]
    <3>1. c \in Seq(STRING) /\ o \in Seq(STRING) /\ d \in Seq(STRING)
      BY <1>1, <2>8, <2>9
    <3>2. /\ whole \in Seq(STRING) /\ Len(whole) = Len(c) + Len(o) + Len(d)
          /\ \A k \in 1 .. Len(c) : whole[k] = c[k]
          /\ \A k \in 1 .. Len(o) : whole[Len(c) + k] = o[k]
          /\ \A k \in 1 .. Len(d) : whole[Len(c) + Len(o) + k] = d[k]
      <4>1. whole = c \o o \o d
        OBVIOUS
      <4> HIDE DEF whole
      <4> QED BY <3>1, <4>1, ThreeParts
    <3> HIDE DEF whole
    <3>3. Len(c) = h /\ Len(o) = L /\ Len(d) = j - 1
      BY <1>3, <2>8, <2>9
    <3> QED BY <3>2, <3>3
  <2> HIDE DEF whole
  <2>15. B \in Nat /\ L \in Nat /\ h \in Nat /\ i \in Nat /\ i + h = B /\ j - 1 \in Nat
    BY <1>2, <2>6
  <2>11. \A k \in 1 .. (h + L + (j - 1)) : part[k] = whole[k]
    <3>1. ASSUME NEW k \in 1 .. h PROVE part[k] = whole[k]
      <4>1. k \in 1 .. (h + L + (j - 1)) /\ i + k \in 1 .. B
        BY <2>15, <3>1
      <4> QED BY <1>2, <2>7, <2>8, <2>10, <4>1
    <3>2. ASSUME NEW k \in 1 .. L PROVE part[h + k] = whole[h + k]
      <4>1. h + k \in 1 .. (h + L + (j - 1)) /\ i + (h + k) = B + k
        BY <2>15, <3>2
      <4>2. part[h + k] = text[B + k]
        BY <2>7, <4>1
      <4>3. text[B + k] = o[k] /\ whole[h + k] = o[k]
        BY <1>2, <2>10, <3>2
      <4> QED BY <4>2, <4>3
    <3>3. ASSUME NEW k \in 1 .. (j - 1) PROVE part[h + L + k] = whole[h + L + k]
      <4>1. h + L + k \in 1 .. (h + L + (j - 1)) /\ i + (h + L + k) = B + L + k
        BY <2>15, <3>3
      <4>2. k \in 1 .. Len(a)
        BY <1>2, <3>3
      <4>3. part[h + L + k] = text[B + L + k]
        BY <2>7, <4>1
      <4>4. text[B + L + k] = a[k] /\ whole[h + L + k] = d[k] /\ d[k] = a[k]
        BY <1>2, <2>9, <2>10, <3>3, <4>2
      <4> QED BY <4>3, <4>4
    <3>4. \A k \in 1 .. (h + L + (j - 1)) :
             \/ k \in 1 .. h
             \/ k - h \in 1 .. L /\ h + (k - h) = k
             \/ k - (h + L) \in 1 .. (j - 1) /\ h + L + (k - (h + L)) = k
      BY <1>2, <2>6
    <3> QED BY <3>1, <3>2, <3>3, <3>4
  <2>12. part = whole
    BY <2>7, <2>10, <2>11
  <2>13. Braceless(c)
    <3>1. \A k \in 1 .. h : i + k \in 1 .. B
      BY <1>2, <2>6
    <3>2. \A k \in 1 .. B : b[k] # "brace"
      BY <1>2 DEF Braceless
    <3>3. DOMAIN c = 1 .. h
      BY <2>8
    <3> QED BY <2>8, <3>1, <3>2, <3>3 DEF Braceless
  <2>14. Unfenced(text) = c \o o \o d
    BY <2>5, <2>12 DEF part, whole, m, n
  <2> QED BY <2>8, <2>9, <2>13, <2>14
<1> QED BY <1>4, <1>6, <1>7, <1>8

(* extract_json finds the object a model sent, whatever is around it.      *)
LEMMA ObjectIsExtracted ==
    ASSUME NEW o, WellFormed(o), NEW b \in Seq(STRING), NEW a \in Seq(STRING),
           Braceless(b), Sole(b, "fence"), Sole(a, "fence")
    PROVE  extract_json(b \o o \o a) = o
<1>1. PICK c \in Seq(STRING) : \E d \in Seq(STRING) :
              Braceless(c) /\ Unfenced(b \o o \o a) = c \o o \o d
  BY UnfencedHoldsTheObject
<1>2. PICK d \in Seq(STRING) : Braceless(c) /\ Unfenced(b \o o \o a) = c \o o \o d
  BY <1>1
<1> DEFINE bare == c \o o \o d
<1>3. FirstBalanced(bare, "brace", "endbrace") = o
  <2>1. \A i \in DOMAIN c : c[i] # "brace"
    BY <1>2 DEF Braceless
  <2> QED BY <2>1, ObjectIsBalanced
<1>4. o # <<>>
  BY DEF WellFormed
<1> HIDE DEF bare
<1>5. Unfenced(b \o o \o a) = bare
  BY <1>2 DEF bare
<1> QED BY <1>3, <1>4, <1>5 DEF extract_json
CallType ==
    /\ call = [enabled |-> call.enabled, providers |-> call.providers, default |-> call.default,
               provider |-> call.provider, sent |-> call.sent, read |-> call.read,
               requests |-> call.requests, repairing |-> call.repairing, result |-> call.result,
               stage |-> call.stage]
    /\ call.providers \in Providers /\ call.enabled \in BOOLEAN /\ call.repairing \in BOOLEAN
    /\ call.requests \in 0 .. 1

\* What was sent is what was read; and nothing is sent before it is asked for, a valid
\* object is not sent back, and it ends the call with success.
CallInv ==
    /\ CallType
    /\ call.sent # <<>> => call.read = call.sent
    /\ call.sent = <<>> => call.read = <<>>
    /\ call.stage \in {"new", "asking"} /\ ~call.repairing => call.sent = <<>> /\ call.requests = 0
    /\ call.stage = "new" => ~call.repairing
    /\ call.stage = "replied" => call.requests = 1
    /\ call.stage = "asking" /\ call.repairing => call.sent \notin Valid
    /\ call.stage = "ended" /\ call.sent \in Valid => call.result = "object" /\ call.requests = 1
    /\ call.stage \in {"new", "asking", "replied"} => call.result = "none"
    /\ call.stage \in {"new", "asking", "replied", "ended"}
    /\ is_configured(call) /\ call.default = "none" => call.result # "configuration"

(* Nothing is no object.                                                   *)
LEMMA NothingIsNotValid == <<>> \notin Valid
<1>1. \A o \in Valid : WellFormed(o)
  BY CallAssumption
<1> QED BY <1>1 DEF WellFormed

LEMMA TakenTyped ==
    ASSUME NEW kind, NEW text \in Seq(STRING), NEW part, part.text \in Seq(STRING)
    PROVE  Taken(kind, text, part) \in Seq(STRING)
<1> DEFINE own == part.text
           both == text \o own
<1>1. own \in Seq(STRING)
  OBVIOUS
<1>2. both \in Seq(STRING)
  <2> HIDE DEF own
  <2> QED BY <1>1
<1>3. Taken(kind, text, part) = own \/ Taken(kind, text, part) = both
  BY DEF Taken
<1> HIDE DEF own, both
<1> QED BY <1>1, <1>2, <1>3

Assembled(made, kind, parts) ==
    /\ made[0] = <<>>
    /\ \A n \in 1 .. Len(parts) : made[n] = Taken(kind, made[n - 1], parts[n])

IsAssembled(kind, parts) ==
    \E made : Assembled(made, kind, parts) /\ text_of(kind, parts) = made[Len(parts)]

LEMMA TextIsAssembled ==
    ASSUME NEW kind, kind # "openai_compatible", NEW parts, Len(parts) \in Nat,
           \A n \in 1 .. Len(parts) : parts[n].text \in Seq(STRING)
    PROVE  IsAssembled(kind, parts)
<1> DEFINE N == Len(parts)
           step == [p \in (1 .. N) \X Seq(STRING) |-> Taken(kind, p[2], parts[p[1]])]
<1>1. \A n \in 1 .. N : \A x \in Seq(STRING) : step[<<n, x>>] = Taken(kind, x, parts[n])
  OBVIOUS
<1> HIDE DEF step
<1>2. \A n \in 1 .. N : \A x \in Seq(STRING) : step[<<n, x>>] \in Seq(STRING)
  <2>1. ASSUME NEW n \in 1 .. N, NEW x \in Seq(STRING) PROVE step[<<n, x>>] \in Seq(STRING)
    <3>1. Taken(kind, x, parts[n]) \in Seq(STRING)
      BY TakenTyped
    <3> QED BY <1>1, <3>1
  <2> QED BY Zenon, <2>1
<1>3. <<>> \in Seq(STRING) /\ N \in Nat
  OBVIOUS
<1>4. PICK f \in [0 .. N -> Seq(STRING)] : Follows(f, N, <<>>, step)
  <2> HIDE DEF N
  <2> QED BY <1>2, <1>3, Recursion
<1>5. \A n \in 1 .. N : n - 1 \in 0 .. N /\ n \in 0 .. N /\ n # 0
  BY <1>3
<1>6. f[0] = <<>> /\ \A n \in 1 .. N : f[n] = Taken(kind, f[n - 1], parts[n])
  <2> HIDE DEF N
  <2> QED BY <1>1, <1>4, <1>5 DEF Follows
<1> DEFINE G(g) == [n \in 0 .. N |-> IF n = 0 THEN <<>> ELSE Taken(kind, g[n - 1], parts[n])]
           made == CHOOSE g : g = G(g)
<1>7. f = G(f)
  <2>1. \A n \in 0 .. N : n = 0 \/ n \in 1 .. N
    BY <1>3
  <2> HIDE DEF N
  <2> QED BY <1>4, <1>5, <1>6, <2>1
<1>8. made = G(made)
  <2> HIDE DEF G
  <2> QED BY <1>7
<1>9. text_of(kind, parts) = made[N]
  BY DEF text_of
<1> HIDE DEF made, N
<1>10. Assembled(made, kind, parts)
  <2>1. made[0] = <<>> /\ \A n \in 1 .. N : made[n] = Taken(kind, made[n - 1], parts[n])
    BY <1>3, <1>5, <1>8
  <2> QED BY <2>1 DEF Assembled, N
<1> QED BY <1>9, <1>10 DEF N, IsAssembled

(* An adapter makes of a reply the text the model put into it, and of one  *)
(* with a tool call the input of the call alone.                           *)
LEMMA TextOfReply ==
    ASSUME NEW kind, NEW text \in Seq(STRING)
    PROVE  text_of(kind, <<[type |-> "text", text |-> text]>>) = text
<1> DEFINE part == [type |-> "text", text |-> text]
           parts == <<part>>
<1>1. Len(parts) = 1 /\ parts[1] = part /\ parts # <<>>
  OBVIOUS
<1>2. part.type = "text" /\ part.text = text
  OBVIOUS
<1> HIDE DEF part, parts
<1>3. CASE kind = "openai_compatible"
  <2>1. text_of(kind, parts) = text
    BY <1>1, <1>2, <1>3 DEF text_of
  <2> QED BY <2>1 DEF parts, part
<1>4. CASE kind # "openai_compatible"
  <2>1. PICK made : Assembled(made, kind, parts) /\ text_of(kind, parts) = made[Len(parts)]
    <3>1. Len(parts) \in Nat /\ \A n \in 1 .. Len(parts) : parts[n].text \in Seq(STRING)
      BY <1>1, <1>2
    <3>2. IsAssembled(kind, parts)
      BY <1>4, <3>1, TextIsAssembled
    <3> QED BY <3>2 DEF IsAssembled
  <2>2. made[1] = Taken(kind, <<>>, part)
    BY <1>1, <2>1 DEF Assembled
  <2>3. Taken(kind, <<>>, part) = <<>> \o text
    BY <1>2 DEF Taken
  <2>4. text_of(kind, parts) = text
    BY <1>1, <2>1, <2>2, <2>3
  <2> QED BY <2>4 DEF parts, part
<1> QED BY <1>3, <1>4

LEMMA TextOfToolCall ==
    ASSUME NEW object \in Seq(STRING), NEW word \in Seq(STRING)
    PROVE  text_of("anthropic", <<[type |-> "text", text |-> word],
                                  [type |-> "tool_use", text |-> object]>>) = object
<1> DEFINE said == [type |-> "text", text |-> word]
           tool == [type |-> "tool_use", text |-> object]
           parts == <<said, tool>>
<1>1. Len(parts) = 2 /\ parts[1] = said /\ parts[2] = tool
  OBVIOUS
<1>2. said.text = word /\ tool.type = "tool_use" /\ tool.text = object
  OBVIOUS
<1> HIDE DEF said, tool, parts
<1>3. PICK made : Assembled(made, "anthropic", parts) /\ text_of("anthropic", parts) = made[Len(parts)]
  <2>1. \A n \in 1 .. Len(parts) : parts[n].text \in Seq(STRING)
    BY <1>1, <1>2
  <2>2. "anthropic" # "openai_compatible" /\ Len(parts) \in Nat
    BY <1>1
  <2>3. IsAssembled("anthropic", parts)
    BY <2>1, <2>2, TextIsAssembled
  <2> QED BY <2>3 DEF IsAssembled
<1>4. made[2] = Taken("anthropic", made[1], tool)
  BY <1>1, <1>3 DEF Assembled
<1>5. text_of("anthropic", parts) = object
  BY <1>1, <1>2, <1>3, <1>4 DEF Taken
<1> QED BY <1>5 DEF parts, said, tool

(* A client that says it is configured finds a provider, unless one was    *)
(* asked for by name (LLMClient._get_provider).                            *)
LEMMA ConfiguredResolves ==
    ASSUME CallInv, is_configured(call), call.default = "none"
    PROVE  get_provider(call) # 0
<1> DEFINE D == DOMAIN call.providers
           enabled == {i \in D : call.providers[i].enabled}
           resolved == {i \in enabled : \A o \in enabled : i <= o}
<1>1. call.providers \in Seq(Provider)
  BY CallAssumption DEF CallInv, CallType
<1>2. D \in SUBSET Nat /\ 0 \notin D
  BY <1>1
<1>3. enabled # {} /\ enabled \in SUBSET Nat /\ 0 \notin enabled
  BY <1>2 DEF is_configured
<1>4. PICK n \in enabled : \A m \in enabled : n <= m
  <2> HIDE DEF enabled
  <2> QED BY <1>3, SmallestNumber
<1>5. n \in resolved \cap enabled
  BY <1>4
<1>6. get_provider(call) = CHOOSE i \in resolved \cap enabled : TRUE
  BY <1>5 DEF get_provider
<1> HIDE DEF enabled, resolved
<1>7. get_provider(call) \in enabled
  BY <1>5, <1>6
<1> QED BY <1>3, <1>7

LEMMA CallInitially == CallInit => CallInv
<1> SUFFICES ASSUME CallInit PROVE CallInv
  OBVIOUS
<1>1. PICK providers \in Providers, enabled \in BOOLEAN, default \in {"none", "first", "second"} :
        call = [enabled |-> enabled, providers |-> providers, default |-> default,
                provider |-> 0, sent |-> <<>>, read |-> <<>>, requests |-> 0,
                repairing |-> FALSE, result |-> "none", stage |-> "new"]
  BY DEF CallInit
<1>2. CallType
  BY <1>1 DEF CallType
<1> QED BY <1>1, <1>2 DEF CallInv

\* The settings of a call do not change in it.
SameSettings ==
    /\ call'.enabled = call.enabled /\ call'.providers = call.providers
    /\ call'.default = call.default

LEMMA ConfiguredStays ==
    ASSUME SameSettings
    PROVE  is_configured(call)' <=> is_configured(call)
    BY DEF SameSettings, is_configured

LEMMA ResolveKeeps == ASSUME CallInv, Resolve PROVE CallInv'
<1> DEFINE p == get_provider(call)
<1>1. /\ call.stage = "new"
      /\ call' = [call EXCEPT !.provider = p,
                              !.stage = IF p = 0 THEN "ended" ELSE "asking",
                              !.result = IF p = 0 THEN "configuration" ELSE call.result]
  BY DEF Resolve, CallInv, CallType
<1>2. is_configured(call) /\ call.default = "none" => p # 0
  BY ConfiguredResolves
<1> HIDE DEF p
<1> DEFINE ends == IF p = 0 THEN "ended" ELSE "asking"
           result == IF p = 0 THEN "configuration" ELSE call.result
<1>4. call' = [enabled |-> call.enabled, providers |-> call.providers, default |-> call.default,
               provider |-> p, sent |-> call.sent, read |-> call.read,
               requests |-> call.requests, repairing |-> call.repairing, result |-> result,
               stage |-> ends]
  BY <1>1 DEF CallInv, CallType
<1>5. (p = 0 => ends = "ended" /\ result = "configuration")
      /\ (p # 0 => ends = "asking" /\ result = call.result)
  OBVIOUS
<1> HIDE DEF ends, result
<1>3. SameSettings /\ CallType'
  BY <1>4 DEF CallInv, CallType, SameSettings
<1>6. /\ call'.sent = call.sent /\ call'.read = call.read /\ call'.requests = call.requests
      /\ call'.repairing = call.repairing /\ call'.result = result /\ call'.stage = ends
      /\ call'.default = call.default
  BY <1>4, <1>3 DEF SameSettings
<1>7. call.sent = <<>> /\ call.read = <<>> /\ call.requests = 0 /\ ~call.repairing /\ call.result = "none"
  BY <1>1 DEF CallInv
<1>8. is_configured(call)' <=> is_configured(call)
  BY <1>3, ConfiguredStays
<1> QED BY <1>2, <1>3, <1>5, <1>6, <1>7, <1>8, NothingIsNotValid DEF CallInv

LEMMA FailKeeps ==
    ASSUME CallInv, NEW error, Fail(error), error # "configuration", call.sent \notin Valid
    PROVE  CallInv'
<1>1. call' = [call EXCEPT !.stage = "ended", !.result = error]
  BY DEF Fail
<1>2. SameSettings /\ CallType'
  BY <1>1 DEF CallInv, CallType, SameSettings
<1> QED BY <1>1, <1>2 DEF CallInv, CallType

LEMMA SendFailsKeeps == ASSUME CallInv, SendFails PROVE CallInv'
<1>1. Fail("attribute_error") /\ call.sent \notin Valid
  BY DEF SendFails, CallInv
<1> QED BY <1>1, FailKeeps

LEMMA ReplyTyped ==
    ASSUME CallType, NEW sent, NEW read,
           call' = [call EXCEPT !.requests = 1, !.stage = "replied", !.sent = sent, !.read = read]
    PROVE  SameSettings /\ CallType'
<1>1. call' = [enabled |-> call.enabled, providers |-> call.providers, default |-> call.default,
               provider |-> call.provider, sent |-> sent, read |-> read, requests |-> 1,
               repairing |-> call.repairing, result |-> call.result, stage |-> "replied"]
  BY DEF CallType
<1>2. SameSettings
  BY <1>1 DEF SameSettings
<1>3. call'.providers \in Providers /\ call'.enabled \in BOOLEAN /\ call'.repairing \in BOOLEAN
  BY <1>1 DEF CallType
<1>4. call'.requests \in 0 .. 1
  BY <1>1
<1>5. CallType'
  BY <1>1, <1>3, <1>4 DEF CallType
<1> QED BY <1>2, <1>5

LEMMA ArrivesKeeps == ASSUME CallInv, Arrives PROVE CallInv'
<1>1. PICK object \in Objects, around \in Surroundings, tool \in BOOLEAN :
         call' = [call EXCEPT !.requests = call.requests + 1, !.stage = "replied", !.sent = object,
                     !.read = extract_json(text_of(Kind,
                         IF tool /\ Kind = "anthropic"
                         THEN <<[type |-> "text", text |-> around.before],
                                [type |-> "tool_use", text |-> object]>>
                         ELSE <<[type |-> "text",
                                 text |-> around.before \o object \o around.after]>>))]
  BY Zenon DEF Arrives, CallInv, CallType
<1> DEFINE text == around.before \o object \o around.after
<1>2. call.stage = "asking" /\ ~call.repairing
  BY DEF Arrives
<1>3. /\ WellFormed(object) /\ object \in Seq(STRING)
      /\ around.before \in Seq(STRING) /\ around.after \in Seq(STRING)
      /\ Braceless(around.before) /\ Sole(around.before, "fence") /\ Sole(around.after, "fence")
  BY CallAssumption DEF WellFormed, Braceless
<1>4. extract_json(text) = object
  BY <1>3, ObjectIsExtracted
<1>5. extract_json(object) = object
  <2> DEFINE none == <<>>
  <2>1. none \in Seq(STRING) /\ Braceless(none) /\ Sole(none, "fence")
    BY DEF Braceless, Sole
  <2>2. none \o object \o none = object
    BY <1>3
  <2> HIDE DEF none
  <2>3. extract_json(none \o object \o none) = object
    BY <1>3, <2>1, ObjectIsExtracted
  <2> QED BY <2>2, <2>3
<1>6. call' = [call EXCEPT !.requests = call.requests + 1, !.stage = "replied", !.sent = object,
                           !.read = object]
  <2>1. CASE tool /\ Kind = "anthropic"
    <3>1. text_of(Kind, <<[type |-> "text", text |-> around.before],
                          [type |-> "tool_use", text |-> object]>>) = object
      BY <1>3, <2>1, TextOfToolCall
    <3> QED BY <1>1, <1>5, <2>1, <3>1
  <2>2. CASE ~(tool /\ Kind = "anthropic")
    <3>1. text \in Seq(STRING)
      BY <1>3
    <3>2. text_of(Kind, <<[type |-> "text", text |-> text]>>) = text
      BY <3>1, TextOfReply
    <3> QED BY <1>1, <1>4, <2>2, <3>2
  <2> QED BY <2>1, <2>2
<1>7. object # <<>>
  BY <1>3 DEF WellFormed
<1>8. call.requests = 0 /\ call.result = "none"
  BY <1>2 DEF CallInv
<1>10. call' = [call EXCEPT !.requests = 1, !.stage = "replied", !.sent = object, !.read = object]
  BY <1>6, <1>8
<1>9. SameSettings /\ CallType'
  BY Zenon, <1>2, <1>10, ReplyTyped DEF CallInv
<1> QED BY <1>7, <1>8, <1>9, <1>10 DEF CallInv, CallType

LEMMA RefusesKeeps == ASSUME CallInv, Refuses PROVE CallInv'
<1>1. /\ call.stage = "asking" /\ ~call.repairing /\ call.sent = <<>> /\ call.requests = 0
      /\ call.sent \notin Valid /\ call.result = "none"
  BY NothingIsNotValid DEF Refuses, CallInv
<1>2. ASSUME NEW how \in Broken, Fail(transport_error(how)) PROVE CallInv'
  <2>1. transport_error(how) # "configuration"
    BY DEF transport_error
  <2> QED BY <1>1, <1>2, <2>1, FailKeeps
<1>3. ASSUME NEW status, NEW retry_after, Fail(translate_error(status, retry_after))
      PROVE  CallInv'
  <2>1. translate_error(status, retry_after) # "configuration"
    BY DEF translate_error
  <2> QED BY <1>1, <1>3, <2>1, FailKeeps
<1>4. ASSUME call' = [call EXCEPT !.requests = call.requests + 1, !.stage = "replied",
                                  !.sent = <<>>, !.read = <<>>]
      PROVE  CallInv'
  <2>2. call' = [call EXCEPT !.requests = 1, !.stage = "replied", !.sent = <<>>, !.read = <<>>]
    BY <1>1, <1>4
  <2>1. SameSettings /\ CallType'
    BY Zenon, <2>2, ReplyTyped DEF CallInv
  <2> QED BY <1>1, <2>1, <2>2 DEF CallInv, CallType
<1> QED BY <1>2, <1>3, <1>4 DEF Refuses, CallInv, CallType

LEMMA ValidateKeeps == ASSUME CallInv, Validate PROVE CallInv'
<1>1. call.stage = "replied" /\ call.requests = 1 /\ call.result = "none"
  BY DEF Validate, CallInv
<1>2. call.sent \in Valid => call.read \in Valid
  BY NothingIsNotValid DEF CallInv
<1>3. CASE call.read \in Valid
  <2>1. call' = [call EXCEPT !.stage = "ended", !.result = "object"]
    BY <1>3 DEF Validate
  <2>2. SameSettings /\ CallType'
    BY <2>1 DEF CallInv, CallType, SameSettings
  <2> QED BY <1>1, <2>1, <2>2 DEF CallInv, CallType
<1>4. CASE call.read \notin Valid /\ Fail("invalid_output")
  BY <1>2, <1>4, FailKeeps
<1>5. CASE call.read \notin Valid /\ call' = [call EXCEPT !.stage = "asking", !.repairing = TRUE]
  <2>1. SameSettings /\ CallType'
    BY <1>5 DEF CallInv, CallType, SameSettings
  <2> QED BY <1>1, <1>2, <1>5, <2>1 DEF CallInv, CallType
<1> QED BY <1>3, <1>4, <1>5 DEF Validate

LEMMA HealthIsNoError ==
    \A provider, status : provider_health(provider, status) # "configuration"
BY DEF provider_health

LEMMA ProbedKeeps == ASSUME CallInv, Probed PROVE CallInv'
<1>1. PICK i \in DOMAIN call.providers, status \in {0, 200, 401, 500} :
         Fail(provider_health(call.providers[i], status))
  BY DEF Probed
<1>2. provider_health(call.providers[i], status) # "configuration"
  BY HealthIsNoError
<1>3. call.sent \notin Valid
  BY NothingIsNotValid DEF Probed, CallInv
<1> QED BY <1>1, <1>2, <1>3, FailKeeps

(* Every call keeps the invariant: what was sent is what was read, a valid *)
(* object is never sent back for repair (CallNext).                        *)
THEOREM CallInvAlways == CallSpec => []CallInv
<1>1. ASSUME CallInv, [CallNext]_call PROVE CallInv'
  <2>1. CASE UNCHANGED call
    BY <1>1, <2>1 DEF CallInv, CallType, is_configured
  <2> QED BY <1>1, <2>1, ResolveKeeps, SendFailsKeeps, ArrivesKeeps, RefusesKeeps, ValidateKeeps,
             ProbedKeeps DEF CallNext
<1> QED BY <1>1, CallInitially, PTL DEF CallSpec

(* The object that is validated is the one the model sent: in every call,  *)
(* for every object of balanced braces and every text around it with one   *)
(* fence on either side, and of every provider (extract_json, text_of).    *)
THEOREM ReplyIsReadAsSentAlways == CallSpec => []ReplyIsReadAsSent
<1>1. CallInv => ReplyIsReadAsSent
  BY DEF CallInv, ReplyIsReadAsSent
<1> QED BY <1>1, CallInvAlways, PTL

-----------------------------------------------------------------------------
(* PostingText. A posting is read as it is written: after each token and   *)
(* after each line, what the reader has put together is what stands there. *)

LEMMA AppendedElements ==
    ASSUME NEW D, NEW s \in Seq(D), NEW e \in D
    PROVE  /\ Append(s, e) \in Seq(D) /\ Len(Append(s, e)) = Len(s) + 1
           /\ Range(Append(s, e)) = Range(s) \cup {e}
           /\ \A a \in DOMAIN Append(s, e) :
                 \/ a \in DOMAIN s /\ Append(s, e)[a] = s[a]
                 \/ a = Len(s) + 1 /\ Append(s, e)[a] = e
<1> DEFINE t == Append(s, e)
<1>1. /\ t \in Seq(D) /\ Len(t) = Len(s) + 1
      /\ \A i \in 1 .. Len(s) : t[i] = s[i]
      /\ t[Len(s) + 1] = e
  BY AppendProperties
<1>2. Len(s) \in Nat /\ DOMAIN s = 1 .. Len(s)
  OBVIOUS
<1>3. DOMAIN t = 1 .. (Len(s) + 1)
  BY <1>1
<1> HIDE DEF t
<1>4. \A a \in DOMAIN t : \/ a \in DOMAIN s /\ t[a] = s[a]
                          \/ a = Len(s) + 1 /\ t[a] = e
  BY <1>1, <1>2, <1>3
<1>5. \A a \in DOMAIN s : a \in DOMAIN t /\ t[a] = s[a]
  BY <1>1, <1>2, <1>3
<1>6. Len(s) + 1 \in DOMAIN t
  BY <1>2, <1>3
<1>7. Range(t) = Range(s) \cup {e}
  BY <1>1, <1>4, <1>5, <1>6 DEF Range
<1> QED BY <1>1, <1>4, <1>7 DEF t

\* What the extractor may have put together.
FedState == [skip_depth : Nat, lines : Seq(Seq(Nat)), line : Seq(Nat)]

LEMMA BrokenTyped ==
    ASSUME NEW s \in FedState
    PROVE  LineBroken(s) \in FedState
<1>1. /\ s = [skip_depth |-> s.skip_depth, lines |-> s.lines, line |-> s.line]
      /\ s.skip_depth \in Nat /\ s.lines \in Seq(Seq(Nat)) /\ s.line \in Seq(Nat)
  BY DEF FedState
<1> DEFINE more == Append(s.lines, s.line)
<1>2. more \in Seq(Seq(Nat))
  BY <1>1
<1>3. LineBroken(s) = s \/ LineBroken(s) = [s EXCEPT !.lines = more, !.line = <<>>]
  BY DEF LineBroken
<1> HIDE DEF more
<1>4. <<>> \in Seq(Nat)
  OBVIOUS
<1>5. [s EXCEPT !.lines = more, !.line = <<>>] \in FedState
  BY <1>1, <1>2, <1>4 DEF FedState
<1> QED BY <1>3, <1>5

LEMMA FeedTyped ==
    ASSUME NEW s \in FedState, NEW i \in Nat, NEW token
    PROVE  Feed(s, i, token) \in FedState
<1>1. /\ s = [skip_depth |-> s.skip_depth, lines |-> s.lines, line |-> s.line]
      /\ s.skip_depth \in Nat /\ s.lines \in Seq(Seq(Nat)) /\ s.line \in Seq(Nat)
  BY DEF FedState
<1> DEFINE longer == Append(s.line, i)
           deeper == s.skip_depth + 1
           closed == Closed(s.skip_depth)
<1>2. longer \in Seq(Nat) /\ deeper \in Nat /\ closed \in Nat
  BY <1>1 DEF Closed
<1>3. \/ Feed(s, i, token) = LineBroken(s) \/ Feed(s, i, token) = s
      \/ Feed(s, i, token) = [s EXCEPT !.skip_depth = deeper]
      \/ Feed(s, i, token) = [s EXCEPT !.skip_depth = closed]
      \/ Feed(s, i, token) = [s EXCEPT !.line = longer]
  BY DEF Feed
<1> HIDE DEF longer, deeper, closed
<1>4. /\ [s EXCEPT !.skip_depth = deeper] \in FedState
      /\ [s EXCEPT !.skip_depth = closed] \in FedState
      /\ [s EXCEPT !.line = longer] \in FedState
  BY <1>1, <1>2 DEF FedState
<1> QED BY <1>3, <1>4, BrokenTyped

FedSteps(after, tokens, N) ==
    /\ after[0] = [skip_depth |-> 0, lines |-> <<>>, line |-> <<>>]
    /\ \A n \in 1 .. N : /\ after[n - 1] \in FedState /\ after[n] \in FedState
                         /\ after[n] = Feed(after[n - 1], n, tokens[n])

(* The extractor has its states by its own recursion (_TextExtractor).     *)
LEMMA FedStepwise ==
    ASSUME NEW D, NEW tokens \in Seq(D)
    PROVE  FedSteps(Fed(tokens), tokens, Len(tokens))
<1> DEFINE N == Len(tokens)
           after == Fed(tokens)
           base == [skip_depth |-> 0, lines |-> <<>>, line |-> <<>>]
           step == [p \in (1 .. N) \X FedState |-> Feed(p[2], p[1], tokens[p[1]])]
<1>1. N \in Nat
  OBVIOUS
<1>2. base \in FedState
  BY DEF FedState
<1>3. \A n \in 1 .. N : \A x \in FedState : step[<<n, x>>] = Feed(x, n, tokens[n])
  OBVIOUS
<1> HIDE DEF step
<1>4. \A n \in 1 .. N : \A x \in FedState : step[<<n, x>>] \in FedState
  <2>1. ASSUME NEW n \in 1 .. N, NEW x \in FedState PROVE Feed(x, n, tokens[n]) \in FedState
    <3>1. n \in Nat
      BY <1>1
    <3> QED BY <3>1, FeedTyped
  <2> QED BY Zenon, <1>3, <2>1
<1>5. PICK f \in [0 .. N -> FedState] : Follows(f, N, base, step)
  <2> HIDE DEF base
  <2> QED BY <1>1, <1>2, <1>4, Recursion
<1>6. \A n \in 1 .. N : n - 1 \in 0 .. N /\ n \in 0 .. N /\ n # 0
  BY <1>1
<1> DEFINE G(g) == [n \in 0 .. Len(tokens) |->
                       IF n = 0 THEN [skip_depth |-> 0, lines |-> <<>>, line |-> <<>>]
                       ELSE Feed(g[n - 1], n, tokens[n])]
<1>7. f = G(f)
  <2>1. \A n \in 0 .. N : n = 0 \/ n \in 1 .. N
    BY <1>1
  <2>2. \A n \in 0 .. N : f[n] = IF n = 0 THEN base ELSE Feed(f[n - 1], n, tokens[n])
    BY <1>3, <1>5, <1>6, <2>1 DEF Follows
  <2> QED BY <1>5, <2>2
<1> DEFINE made == CHOOSE g : g = G(g)
<1>8. made = G(made)
  <2> HIDE DEF G
  <2> QED BY <1>7
<1>9. after = made
  BY DEF Fed
<1> HIDE DEF made, after
<1>10. after[0] = base /\ \A n \in 1 .. N : after[n] = Feed(after[n - 1], n, tokens[n])
  <2> DEFINE value(n) == IF n = 0 THEN base ELSE Feed(after[n - 1], n, tokens[n])
  <2>1. after = [n \in 0 .. N |-> value(n)]
    BY <1>8, <1>9
  <2> HIDE DEF value
  <2>2. after[0] = value(0) /\ \A n \in 1 .. N : after[n] = value(n)
    BY <1>1, <1>6, <2>1
  <2> QED BY <1>6, <2>2 DEF value
<1> DEFINE T == {n \in 0 .. N : after[n] \in FedState}
<1>11. T = 0 .. N
  <2>1. 0 \in T
    BY <1>1, <1>2, <1>10
  <2>2. ASSUME NEW n \in 1 .. N, after[n - 1] \in FedState PROVE after[n] \in FedState
    <3>1. step[<<n, after[n - 1]>>] \in FedState
      BY <1>4, <2>2
    <3> QED BY <1>3, <1>10, <2>2, <3>1
  <2>4. \A n \in 1 .. N : n - 1 \in T => n \in T
    BY <1>6, <2>2
  <2>3. T \in SUBSET (0 .. N)
    OBVIOUS
  <2> HIDE DEF T
  <2> QED BY <1>1, <2>1, <2>3, <2>4, UpTo
<1>12. \A n \in 1 .. N : after[n - 1] \in FedState /\ after[n] \in FedState
  <2> HIDE DEF N
  <2> QED BY <1>6, <1>11
<1>13. FedSteps(after, tokens, N)
  <2> HIDE DEF N
  <2> QED BY <1>10, <1>12 DEF FedSteps
<1> QED BY <1>13 DEF after

\* The pieces among the first n tokens that the extractor has taken up.
TakenUp(after, tokens, n) ==
    {i \in 1 .. n : tokens[i] \in Pieces /\ after[i - 1].skip_depth = 0}

Rising(line) == \A a, b \in DOMAIN line : a < b => line[a] < line[b]

(* What is put together after n tokens: finished lines, in order and cut   *)
(* where the blocks are, and a line that no block has ended yet.           *)
FedInv(s, after, tokens, n) ==
    /\ s \in FedState /\ InReadingOrder(s.lines) /\ Rising(s.line)
    /\ \A p \in Places(s.lines), q \in Range(s.line) : p < q
    /\ Places(s.lines) \cup Range(s.line) = TakenUp(after, tokens, n)
    /\ BrokenByBlocks(tokens, s.lines)
    /\ \A p \in Places(s.lines) :
          \E j \in p .. n : tokens[j] = "block" /\ \A q \in Range(s.line) : j < q
    /\ \A p \in Range(s.line) : \A j \in p .. n : tokens[j] # "block"

LEMMA RangeOfNumbers ==
    ASSUME NEW line \in Seq(Nat)
    PROVE  Range(line) \subseteq Nat
BY DEF Range

LEMMA PlacesAreNumbers ==
    ASSUME NEW lines \in Seq(Seq(Nat))
    PROVE  Places(lines) \subseteq Nat
<1>1. \A n \in DOMAIN lines : lines[n] \in Seq(Nat)
  OBVIOUS
<1>2. \A n \in DOMAIN lines : Range(lines[n]) \subseteq Nat
  BY <1>1, RangeOfNumbers
<1> QED BY <1>2 DEF Places

(* Finishing a line adds it behind the others, once.                       *)
LEMMA AddedLine ==
    ASSUME NEW lines \in Seq(Seq(Nat)), NEW line \in Seq(Nat), line # <<>>,
           InReadingOrder(lines), Rising(line),
           \A p \in Places(lines), q \in Range(line) : p < q
    PROVE  /\ InReadingOrder(Append(lines, line))
           /\ Places(Append(lines, line)) = Places(lines) \cup Range(line)
           /\ \A p, q : (\E k \in DOMAIN Append(lines, line) :
                            {p, q} \subseteq Range(Append(lines, line)[k]))
                        <=> \/ \E k \in DOMAIN lines : {p, q} \subseteq Range(lines[k])
                            \/ {p, q} \subseteq Range(line)
<1> DEFINE more == Append(lines, line)
           N == Len(lines)
<1>1. /\ more \in Seq(Seq(Nat)) /\ Len(more) = N + 1
      /\ \A k \in 1 .. N : more[k] = lines[k]
      /\ more[N + 1] = line
  <2>1. line \in Seq(Nat)
    OBVIOUS
  <2> QED BY <2>1, AppendProperties
<1>2. N \in Nat /\ DOMAIN lines = 1 .. N
  OBVIOUS
<1>3. DOMAIN more = 1 .. (N + 1)
  BY <1>1
<1> HIDE DEF more, N
<1>4. \A k \in DOMAIN more : (k \in DOMAIN lines /\ more[k] = lines[k]) \/ (k = N + 1 /\ more[k] = line)
  BY <1>1, <1>2, <1>3
<1>5. /\ \A k \in DOMAIN lines : k \in DOMAIN more /\ more[k] = lines[k]
      /\ N + 1 \in DOMAIN more /\ more[N + 1] = line
  BY <1>1, <1>2, <1>3
<1>6. \A k \in DOMAIN lines : Range(lines[k]) \subseteq Places(lines)
  BY DEF Places
<1>7. Places(more) = Places(lines) \cup Range(line)
  BY <1>4, <1>5 DEF Places
<1>8. InReadingOrder(more)
  <2>1. ASSUME NEW k \in DOMAIN more PROVE more[k] # <<>> /\ Rising(more[k])
    <3>1. CASE k \in DOMAIN lines /\ more[k] = lines[k]
      BY <3>1 DEF InReadingOrder, Rising
    <3>2. CASE more[k] = line
      BY <3>2
    <3> QED BY <1>4, <3>1, <3>2
  <2>2. ASSUME NEW m \in DOMAIN more, NEW k \in DOMAIN more, m < k,
               NEW p \in Range(more[m]), NEW q \in Range(more[k])
        PROVE  p < q
    <3>1. m \in DOMAIN lines /\ more[m] = lines[m]
      BY <1>2, <1>3, <1>5, <2>2
    <3>2. CASE k \in DOMAIN lines /\ more[k] = lines[k]
      BY <2>2, <3>1, <3>2 DEF InReadingOrder
    <3>3. CASE more[k] = line
      BY <1>6, <2>2, <3>1, <3>3
    <3> QED BY <1>4, <3>2, <3>3
  <2> QED BY <2>1, <2>2 DEF InReadingOrder, Rising
<1>9. \A p, q : (\E k \in DOMAIN more : {p, q} \subseteq Range(more[k]))
                <=> \/ \E k \in DOMAIN lines : {p, q} \subseteq Range(lines[k])
                    \/ {p, q} \subseteq Range(line)
  <2>1. ASSUME NEW p, NEW q, NEW k \in DOMAIN more, {p, q} \subseteq Range(more[k])
        PROVE  \/ \E j \in DOMAIN lines : {p, q} \subseteq Range(lines[j])
               \/ {p, q} \subseteq Range(line)
    BY <1>4, <2>1
  <2>2. ASSUME NEW p, NEW q, NEW k \in DOMAIN lines, {p, q} \subseteq Range(lines[k])
        PROVE  \E j \in DOMAIN more : {p, q} \subseteq Range(more[j])
    BY <1>5, <2>2
  <2>3. ASSUME NEW p, NEW q, {p, q} \subseteq Range(line)
        PROVE  \E j \in DOMAIN more : {p, q} \subseteq Range(more[j])
    BY <1>5, <2>3
  <2> QED BY <2>1, <2>2, <2>3
<1> QED BY <1>7, <1>8, <1>9 DEF more

(* The line that is broken off takes its place among the finished ones.    *)
LEMMA BrokenOff ==
    ASSUME NEW s, NEW after, NEW tokens, NEW n \in Nat, FedInv(s, after, tokens, n)
    PROVE  /\ LineBroken(s) \in FedState /\ LineBroken(s).line = <<>>
           /\ InReadingOrder(LineBroken(s).lines)
           /\ Places(LineBroken(s).lines) = TakenUp(after, tokens, n)
           /\ BrokenByBlocks(tokens, LineBroken(s).lines)
<1> DEFINE lines == s.lines
           line == s.line
           more == Append(lines, line)
<1>1. /\ s = [skip_depth |-> s.skip_depth, lines |-> lines, line |-> line]
      /\ lines \in Seq(Seq(Nat)) /\ line \in Seq(Nat)
  BY DEF FedInv, FedState
<1>2. LineBroken(s) \in FedState
  BY BrokenTyped DEF FedInv
<1>3. CASE line = <<>>
  <2>1. LineBroken(s) = s
    BY <1>3 DEF LineBroken
  <2>2. Range(line) = {}
    BY <1>3 DEF Range
  <2> QED BY <1>2, <1>3, <2>1, <2>2 DEF FedInv
<1>4. CASE line # <<>>
  <2>1. LineBroken(s).lines = more /\ LineBroken(s).line = <<>>
    BY <1>1, <1>4 DEF LineBroken
  <2>2. \A p \in Places(lines), q \in Range(line) : p < q
    BY DEF FedInv
  <2>3. InReadingOrder(lines) /\ Rising(line) /\ BrokenByBlocks(tokens, lines)
    BY DEF FedInv
  <2>4. Places(lines) \cup Range(line) = TakenUp(after, tokens, n)
    BY DEF FedInv
  <2>5. /\ InReadingOrder(more) /\ Places(more) = Places(lines) \cup Range(line)
        /\ \A p, q : (\E k \in DOMAIN more : {p, q} \subseteq Range(more[k]))
                     <=> \/ \E k \in DOMAIN lines : {p, q} \subseteq Range(lines[k])
                         \/ {p, q} \subseteq Range(line)
    BY <1>1, <1>4, <2>2, <2>3, AddedLine
  <2>10. /\ \A p \in Places(lines) :
               \E j \in p .. n : tokens[j] = "block" /\ \A q \in Range(line) : j < q
         /\ \A p \in Range(line) : \A j \in p .. n : tokens[j] # "block"
    BY DEF FedInv
  <2>6. Places(lines) \subseteq Nat /\ Range(line) \subseteq Nat /\ TakenUp(after, tokens, n) \subseteq 1 .. n
    BY <1>1, PlacesAreNumbers, RangeOfNumbers DEF TakenUp
  <2>11. \A k \in DOMAIN lines : Range(lines[k]) \subseteq Places(lines)
    BY DEF Places
  <2> HIDE DEF lines, line, more
  <2>7. ASSUME NEW p \in Places(more), NEW q \in Places(more), p < q
        PROVE  (\E k \in DOMAIN more : {p, q} \subseteq Range(more[k]))
                  <=> \A j \in p .. q : tokens[j] # "block"
    <3>0. p \in Nat /\ q \in Nat /\ q <= n
      BY <2>4, <2>5, <2>6
    <3>1. CASE p \in Places(lines) /\ q \in Places(lines)
      <4>1. ~({p, q} \subseteq Range(line))
        BY <2>2, <2>6, <3>1
      <4>2. (\E k \in DOMAIN lines : {p, q} \subseteq Range(lines[k]))
                  <=> \A j \in p .. q : tokens[j] # "block"
        BY <2>3, <2>7, <3>1 DEF BrokenByBlocks
      <4> QED BY <2>5, <4>1, <4>2
    <3>2. CASE p \in Places(lines) /\ q \in Range(line)
      <4>1. ~({p, q} \subseteq Range(line)) /\ q \notin Places(lines)
        BY <2>2, <2>6, <3>2
      <4>2. ~\E k \in DOMAIN lines : {p, q} \subseteq Range(lines[k])
        BY <2>11, <4>1
      <4>3. PICK j \in p .. n : tokens[j] = "block" /\ j < q
        BY <2>10, <3>2
      <4>4. j \in p .. q
        BY <3>0, <4>3
      <4> QED BY <2>5, <4>1, <4>2, <4>3, <4>4
    <3>3. CASE p \in Range(line) /\ q \in Range(line)
      <4>1. \A j \in p .. q : j \in p .. n
        BY <3>0
      <4>2. \A j \in p .. q : tokens[j] # "block"
        BY <2>10, <3>3, <4>1
      <4> QED BY <2>5, <3>3, <4>2
    <3>4. ~(p \in Range(line) /\ q \in Places(lines))
      BY <2>2, <2>7, <3>0
    <3> QED BY <2>5, <3>1, <3>2, <3>3, <3>4
  <2>8. BrokenByBlocks(tokens, more)
    BY <2>7 DEF BrokenByBlocks
  <2> QED BY <1>2, <2>1, <2>4, <2>5, <2>8
<1> QED BY <1>3, <1>4

LEMMA ReadOn ==
    ASSUME NEW after, NEW tokens, NEW n \in Nat, n > 0
    PROVE  TakenUp(after, tokens, n) =
              TakenUp(after, tokens, n - 1)
              \cup IF tokens[n] \in Pieces /\ after[n - 1].skip_depth = 0 THEN {n} ELSE {}
<1>1. 1 .. n = (1 .. (n - 1)) \cup {n}
  OBVIOUS
<1> QED BY <1>1 DEF TakenUp

LEMMA FedKeeps ==
    ASSUME NEW after, NEW tokens, NEW n \in Nat, n > 0,
           tokens[n] \in Pieces \cup Tags,
           FedInv(after[n - 1], after, tokens, n - 1),
           after[n] \in FedState, after[n] = Feed(after[n - 1], n, tokens[n])
    PROVE  FedInv(after[n], after, tokens, n)
<1> DEFINE s == after[n - 1]
           t == after[n]
           before == TakenUp(after, tokens, n - 1)
<1>1. /\ s = [skip_depth |-> s.skip_depth, lines |-> s.lines, line |-> s.line]
      /\ s.skip_depth \in Nat /\ s.lines \in Seq(Seq(Nat)) /\ s.line \in Seq(Nat)
  BY DEF FedInv, FedState
<1>2. n - 1 \in Nat /\ before \subseteq 1 .. (n - 1)
  BY DEF TakenUp
<1>3. Places(s.lines) \cup Range(s.line) = before
  BY DEF FedInv
<1>4. TakenUp(after, tokens, n) =
         before \cup IF tokens[n] \in Pieces /\ s.skip_depth = 0 THEN {n} ELSE {}
  BY ReadOn
<1>5. Tags \cap Pieces = {} /\ "block" \notin Pieces
  BY DEF Tags, Pieces, Headings
<1>6. Range(s.line) \subseteq 1 .. (n - 1) /\ Places(s.lines) \subseteq 1 .. (n - 1)
  BY <1>2, <1>3
<1>11. \A p \in before : n \in p .. n
  BY <1>2
<1> HIDE DEF before
<1>7. CASE tokens[n] = "block"
  <2> DEFINE broken == LineBroken(s)
  <2>1. t = broken
    BY <1>7 DEF Feed
  <2>2. /\ broken \in FedState /\ broken.line = <<>>
        /\ InReadingOrder(broken.lines) /\ BrokenByBlocks(tokens, broken.lines)
        /\ Places(broken.lines) = before
    BY <1>2, BrokenOff DEF before
  <2> HIDE DEF broken
  <2>3. Range(broken.line) = {} /\ Rising(broken.line)
    BY <2>2 DEF Range, Rising
  <2>4. TakenUp(after, tokens, n) = before
    BY <1>4, <1>5, <1>7
  <2>5. \A p \in Places(broken.lines) : n \in p .. n
    BY <1>2, <2>2, <1>11
  <2> QED BY <1>7, <2>1, <2>2, <2>3, <2>4, <2>5 DEF FedInv
<1>8. CASE t.lines = s.lines /\ t.line = s.line /\ tokens[n] # "block"
           /\ ~(tokens[n] \in Pieces /\ s.skip_depth = 0)
  <2>1. TakenUp(after, tokens, n) = before
    BY <1>4, <1>8
  <2>2. \A p \in Range(s.line) : \A j \in p .. n : j \in p .. (n - 1) \/ j = n
    BY <1>6
  <2>3. \A p \in Places(s.lines) : \A j \in p .. (n - 1) : j \in p .. n
    BY <1>6
  <2>4. \A p \in Places(s.lines) :
          \E j \in p .. (n - 1) : tokens[j] = "block" /\ \A q \in Range(s.line) : j < q
    BY DEF FedInv
  <2>5. \A p \in Range(s.line) : \A j \in p .. (n - 1) : tokens[j] # "block"
    BY DEF FedInv
  <2>6. /\ \A p \in Range(s.line) : \A j \in p .. n : tokens[j] # "block"
        /\ \A p \in Places(s.lines) :
              \E j \in p .. n : tokens[j] = "block" /\ \A q \in Range(s.line) : j < q
    BY <1>8, <2>2, <2>3, <2>4, <2>5
  <2> QED BY <1>3, <1>8, <2>1, <2>6 DEF FedInv
<1>9. CASE tokens[n] \in Pieces /\ s.skip_depth = 0
  <2> DEFINE longer == Append(s.line, n)
  <2>1. t.lines = s.lines /\ t.line = longer
    <3>1. Feed(s, n, tokens[n]) = [s EXCEPT !.line = longer]
      BY <1>5, <1>9 DEF Feed, Tags
    <3> QED BY <1>1, <3>1
  <2>2. /\ longer \in Seq(Nat) /\ Range(longer) = Range(s.line) \cup {n}
        /\ \A a \in DOMAIN longer : \/ a \in DOMAIN s.line /\ longer[a] = s.line[a]
                                    \/ a = Len(s.line) + 1 /\ longer[a] = n
    <3> DEFINE line == s.line
    <3>1. line \in Seq(Nat) /\ n \in Nat
      BY <1>1
    <3> HIDE DEF line
    <3>2. /\ Append(line, n) \in Seq(Nat) /\ Range(Append(line, n)) = Range(line) \cup {n}
          /\ \A a \in DOMAIN Append(line, n) :
                \/ a \in DOMAIN line /\ Append(line, n)[a] = line[a]
                \/ a = Len(line) + 1 /\ Append(line, n)[a] = n
      BY <3>1, AppendedElements
    <3> QED BY <3>2 DEF line
  <2>3. DOMAIN s.line = 1 .. Len(s.line) /\ Len(s.line) \in Nat
    BY <1>1
  <2>4. \A a \in DOMAIN s.line : s.line[a] \in Range(s.line)
    BY DEF Range
  <2> HIDE DEF longer
  <2>5. Rising(longer)
    <3> SUFFICES ASSUME NEW a \in DOMAIN longer, NEW b \in DOMAIN longer, a < b
                 PROVE  longer[a] < longer[b]
      BY DEF Rising
    <3>4. \/ a \in DOMAIN s.line /\ longer[a] = s.line[a]
          \/ a = Len(s.line) + 1
      BY <2>2
    <3>5. b <= Len(s.line) + 1 /\ b \in Nat
      BY <2>2, <2>3
    <3>6. a # Len(s.line) + 1
      BY <2>3, <3>5
    <3>1. a \in DOMAIN s.line /\ longer[a] = s.line[a]
      BY <3>4, <3>6
    <3>2. CASE b \in DOMAIN s.line /\ longer[b] = s.line[b]
      BY <3>1, <3>2 DEF FedInv, Rising
    <3>3. CASE longer[b] = n
      BY <1>6, <2>4, <3>1, <3>3
    <3> QED BY <2>2, <3>2, <3>3
  <2>6. TakenUp(after, tokens, n) = before \cup {n}
    BY <1>4, <1>9
  <2>7. \A p \in Places(s.lines), q \in Range(longer) : p < q
    <3>1. \A p \in Places(s.lines), q \in Range(s.line) : p < q
      BY DEF FedInv
    <3> QED BY <1>6, <2>2, <3>1
  <2>8. \A p \in Places(s.lines) :
          \E j \in p .. n : tokens[j] = "block" /\ \A q \in Range(longer) : j < q
    <3> SUFFICES ASSUME NEW p \in Places(s.lines)
                 PROVE  \E j \in p .. n : tokens[j] = "block" /\ \A q \in Range(longer) : j < q
      OBVIOUS
    <3>1. PICK j \in p .. (n - 1) : tokens[j] = "block" /\ \A q \in Range(s.line) : j < q
      BY DEF FedInv
    <3>2. j \in p .. n /\ j < n
      BY <1>6, <3>1
    <3> QED BY <2>2, <3>1, <3>2
  <2>9. \A p \in Range(longer) : \A j \in p .. n : tokens[j] # "block"
    <3> SUFFICES ASSUME NEW p \in Range(longer), NEW j \in p .. n PROVE tokens[j] # "block"
      OBVIOUS
    <3>1. CASE j = n
      BY <1>5, <1>9, <3>1
    <3>2. CASE j # n
      <4>1. p \in Range(s.line) /\ j \in p .. (n - 1)
        BY <1>6, <2>2, <3>2
      <4> QED BY <4>1 DEF FedInv
    <3> QED BY <3>1, <3>2
  <2>10. t \in FedState /\ InReadingOrder(s.lines) /\ BrokenByBlocks(tokens, s.lines)
    BY DEF FedInv
  <2>11. Places(s.lines) \cup Range(longer) = TakenUp(after, tokens, n)
    BY <1>3, <2>2, <2>6
  <2> QED BY <2>1, <2>5, <2>7, <2>8, <2>9, <2>10, <2>11 DEF FedInv
<1>10. \/ tokens[n] = "block"
       \/ tokens[n] \in Pieces /\ s.skip_depth = 0
       \/ t.lines = s.lines /\ t.line = s.line /\ tokens[n] # "block"
          /\ ~(tokens[n] \in Pieces /\ s.skip_depth = 0)
  <2>1. CASE tokens[n] \in {"skip", "void"}
    <3>1. t = [s EXCEPT !.skip_depth = s.skip_depth + 1]
      BY <2>1 DEF Feed
    <3> QED BY <1>1, <1>5, <2>1, <3>1 DEF Tags
  <2>2. CASE tokens[n] = "end_skip"
    <3>1. t = [s EXCEPT !.skip_depth = Closed(s.skip_depth)]
      BY <2>2 DEF Feed
    <3> QED BY <1>1, <1>5, <2>2, <3>1 DEF Tags
  <2>3. CASE tokens[n] \in Pieces /\ s.skip_depth # 0
    <3>1. t = s
      BY <1>5, <2>3 DEF Feed, Tags
    <3> QED BY <1>5, <2>3, <3>1
  <2> QED BY <2>1, <2>2, <2>3 DEF Tags
<1> QED BY <1>7, <1>8, <1>9, <1>10

LEMMA CountOn ==
    ASSUME NEW tokens, NEW tag, NEW k \in Nat, NEW m \in Nat, k <= m + 1
    PROVE  /\ Count(tokens, tag, k, m) \in Nat
           /\ Count(tokens, tag, k, m + 1)
                 = Count(tokens, tag, k, m) + IF tokens[m + 1] = tag THEN 1 ELSE 0
<1> DEFINE now == {j \in k .. m : tokens[j] = tag}
           next == {j \in k .. (m + 1) : tokens[j] = tag}
<1>1. IsFiniteSet(k .. m) /\ now \subseteq k .. m
  BY FS_Interval
<1>2. IsFiniteSet(now) /\ Cardinality(now) \in Nat
  BY <1>1, FS_Subset, FS_CardinalityType
<1>3. m + 1 \notin now
  OBVIOUS
<1>4. next = IF tokens[m + 1] = tag THEN now \cup {m + 1} ELSE now
  OBVIOUS
<1> HIDE DEF now, next
<1>5. Cardinality(now \cup {m + 1}) = Cardinality(now) + 1
  BY <1>2, <1>3, FS_AddElement
<1>6. Cardinality(next) = Cardinality(now) + IF tokens[m + 1] = tag THEN 1 ELSE 0
  BY <1>2, <1>4, <1>5
<1> QED BY <1>2, <1>6 DEF Count, now, next

LEMMA CountOfNone ==
    ASSUME NEW tokens, NEW tag, NEW k \in Nat, k > 0
    PROVE  Count(tokens, tag, k, k - 1) = 0
<1>1. {j \in k .. (k - 1) : tokens[j] = tag} = {}
  OBVIOUS
<1> QED BY <1>1, FS_EmptySet DEF Count

\* How many more elements are opened than closed.
Balance(tokens, k, m) ==
    Count(tokens, "skip", k, m) - Count(tokens, "end_skip", k, m)

LEMMA BalanceOfNone ==
    ASSUME NEW tokens, NEW k \in Nat, k > 0
    PROVE  Balance(tokens, k, k - 1) = 0
<1>1. Count(tokens, "skip", k, k - 1) = 0 /\ Count(tokens, "end_skip", k, k - 1) = 0
  BY CountOfNone
<1> QED BY <1>1 DEF Balance

LEMMA BalanceOn ==
    ASSUME NEW tokens, NEW k \in Nat, k > 0, NEW m \in Nat, k <= m + 1
    PROVE  /\ Balance(tokens, k, m) \in Int
           /\ Balance(tokens, k, m) > 0
                 <=> Count(tokens, "end_skip", k, m) < Count(tokens, "skip", k, m)
           /\ Balance(tokens, k, m + 1) = Balance(tokens, k, m)
                 + IF tokens[m + 1] = "skip" THEN 1 ELSE IF tokens[m + 1] = "end_skip" THEN -1 ELSE 0
<1>1. /\ Count(tokens, "skip", k, m) \in Nat
      /\ Count(tokens, "skip", k, m + 1)
            = Count(tokens, "skip", k, m) + IF tokens[m + 1] = "skip" THEN 1 ELSE 0
  BY CountOn
<1>2. /\ Count(tokens, "end_skip", k, m) \in Nat
      /\ Count(tokens, "end_skip", k, m + 1)
            = Count(tokens, "end_skip", k, m) + IF tokens[m + 1] = "end_skip" THEN 1 ELSE 0
  BY CountOn
<1> QED BY <1>1, <1>2 DEF Balance

\* How deep the extractor is, from token to token.
DepthSteps(depth, tokens, N) ==
    /\ depth[0] = 0
    /\ \A n \in 1 .. N :
          /\ depth[n - 1] \in Nat /\ depth[n] \in Nat
          /\ depth[n] = IF tokens[n] = "skip" THEN depth[n - 1] + 1
                        ELSE IF tokens[n] = "end_skip" THEN Closed(depth[n - 1])
                        ELSE depth[n - 1]

(* The extractor is no less deep than elements were opened.                *)
LEMMA OpenedIsDeep ==
    ASSUME NEW depth, NEW tokens, NEW N \in Nat, DepthSteps(depth, tokens, N),
           NEW k \in 1 .. N
    PROVE  \A m \in k .. N : Balance(tokens, k, m) <= depth[m]
<1> DEFINE P(m) == k - 1 <= m => Balance(tokens, k, m) <= depth[m]
           T == {m \in 0 .. N : P(m)}
<1>1. k \in Nat /\ k > 0
  OBVIOUS
<1>2. 0 \in T
  <2>1. ASSUME k - 1 <= 0 PROVE Balance(tokens, k, 0) <= depth[0]
    <3>1. k - 1 = 0
      BY <1>1, <2>1
    <3>2. Balance(tokens, k, k - 1) = 0
      BY <1>1, BalanceOfNone
    <3> QED BY <3>1, <3>2 DEF DepthSteps
  <2> QED BY <2>1
<1>3. ASSUME NEW m \in 1 .. N, P(m - 1) PROVE P(m)
  <2> SUFFICES ASSUME k - 1 <= m PROVE Balance(tokens, k, m) <= depth[m]
    OBVIOUS
  <2> DEFINE l == m - 1
  <2>0. l \in Nat /\ l + 1 = m /\ depth[l] \in Nat /\ depth[m] \in Nat
    BY DEF DepthSteps
  <2>1. depth[m] = IF tokens[m] = "skip" THEN depth[l] + 1
                   ELSE IF tokens[m] = "end_skip" THEN Closed(depth[l]) ELSE depth[l]
    BY DEF DepthSteps
  <2> HIDE DEF l
  <2>2. CASE k - 1 = m
    <3>1. Balance(tokens, k, k - 1) = 0
      BY <1>1, BalanceOfNone
    <3> QED BY <2>0, <2>2, <3>1
  <2>3. CASE k <= l + 1
    <3>1. /\ Balance(tokens, k, l) \in Int
          /\ Balance(tokens, k, l + 1) = Balance(tokens, k, l)
               + IF tokens[l + 1] = "skip" THEN 1 ELSE IF tokens[l + 1] = "end_skip" THEN -1 ELSE 0
      BY <1>1, <2>0, <2>3, BalanceOn
    <3>2. Balance(tokens, k, l) <= depth[l]
      <4>1. P(l)
        BY <1>3 DEF l
      <4>2. k - 1 <= l
        BY <1>1, <2>0, <2>3
      <4> QED BY <4>1, <4>2
    <3> QED BY <2>0, <2>1, <3>1, <3>2 DEF Closed
  <2> QED BY <1>1, <2>0, <2>2, <2>3
<1>4. T \in SUBSET (0 .. N) /\ \A m \in 1 .. N : m - 1 \in T => m \in T
  BY <1>3
<1> HIDE DEF T
<1>5. T = 0 .. N
  BY <1>2, <1>4, UpTo
<1>6. \A m \in k .. N : m \in 0 .. N /\ k - 1 <= m
  OBVIOUS
<1> QED BY <1>5, <1>6 DEF T

(* Where the extractor is deep, an element was opened and is open still.   *)
LEMMA DeepIsOpened ==
    ASSUME NEW depth, NEW tokens, NEW N \in Nat, DepthSteps(depth, tokens, N), NEW i \in 0 .. N,
           depth[i] # 0
    PROVE  \E k \in 1 .. i : \A m \in k .. i : Balance(tokens, k, m) > 0
<1> DEFINE Open(k, n) == /\ \A m \in k .. n : Balance(tokens, k, m) > 0
                         /\ Balance(tokens, k, n) = depth[n]
           P(n) == depth[n] # 0 => \E k \in 1 .. n : Open(k, n)
           T == {n \in 0 .. N : P(n)}
<1>1. 0 \in T
  BY DEF DepthSteps
<1>2. ASSUME NEW n \in 1 .. N, P(n - 1), depth[n] # 0 PROVE \E k \in 1 .. n : Open(k, n)
  <2> DEFINE l == n - 1
  <2>0. l \in Nat /\ l + 1 = n /\ depth[l] \in Nat /\ depth[n] \in Nat /\ n \in Nat /\ n > 0
    BY DEF DepthSteps
  <2>1. depth[n] = IF tokens[n] = "skip" THEN depth[l] + 1
                   ELSE IF tokens[n] = "end_skip" THEN Closed(depth[l]) ELSE depth[l]
    BY DEF DepthSteps
  <2>2. depth[l] # 0 => \E k \in 1 .. l : Open(k, l)
    BY <1>2
  <2> HIDE DEF l
  <2>3. CASE depth[l] = 0
    <3>1. tokens[n] = "skip" /\ depth[n] = 1
      BY <1>2, <2>1, <2>3 DEF Closed
    <3>2. Balance(tokens, n, n - 1) = 0
      BY <2>0, BalanceOfNone
    <3>3. Balance(tokens, n, l + 1) = Balance(tokens, n, l) + 1
      <4>1. Balance(tokens, n, l + 1) = Balance(tokens, n, l)
               + IF tokens[l + 1] = "skip" THEN 1 ELSE IF tokens[l + 1] = "end_skip" THEN -1 ELSE 0
        BY <2>0, BalanceOn, n <= l + 1
      <4> QED BY <2>0, <3>1, <4>1
    <3>4. Balance(tokens, n, n) = 1
      BY <2>0, <3>2, <3>3 DEF l
    <3>5. n \in 1 .. n /\ \A m \in n .. n : m = n
      BY <2>0
    <3>6. Open(n, n)
      BY <3>1, <3>4, <3>5
    <3> QED BY <3>5, <3>6
  <2>4. CASE depth[l] # 0
    <3>1. PICK k \in 1 .. l : Open(k, l)
      BY <2>2, <2>4
    <3>2. k \in Nat /\ k > 0 /\ k <= l + 1 /\ k \in 1 .. n
      BY <2>0
    <3>3. Balance(tokens, k, l + 1) = Balance(tokens, k, l)
             + IF tokens[l + 1] = "skip" THEN 1 ELSE IF tokens[l + 1] = "end_skip" THEN -1 ELSE 0
      BY <2>0, <3>2, BalanceOn
    <3>4. Balance(tokens, k, l) = depth[l] /\ \A m \in k .. l : Balance(tokens, k, m) > 0
      BY <3>1
    <3>5. Balance(tokens, k, n) = depth[n]
      BY <2>0, <2>1, <2>4, <3>3, <3>4 DEF Closed
    <3>6. \A m \in k .. n : m \in k .. l \/ m = n
      BY <2>0, <3>2
    <3>7. depth[n] > 0
      BY <1>2, <2>0
    <3>8. Open(k, n)
      BY <3>4, <3>5, <3>6, <3>7
    <3> QED BY <3>2, <3>8
  <2> QED BY <2>3, <2>4
<1>3. T \in SUBSET (0 .. N) /\ \A n \in 1 .. N : n - 1 \in T => n \in T
  BY <1>2
<1> HIDE DEF T
<1>4. T = 0 .. N
  BY <1>1, <1>3, UpTo
<1>5. P(i)
  BY <1>4 DEF T
<1> QED BY <1>5

(* So it leaves out what stands in an element that is left out.            *)
LEMMA LeftOutIsDeep ==
    ASSUME NEW depth, NEW tokens, NEW N \in Nat, DepthSteps(depth, tokens, N), NEW i \in 1 .. N
    PROVE  LeftOut(tokens, i) <=> depth[i - 1] # 0
<1> DEFINE l == i - 1
<1>0. l \in 0 .. N /\ l \in Nat
  OBVIOUS
<1>1. ASSUME LeftOut(tokens, i) PROVE depth[l] # 0
  <2>1. PICK k \in 1 .. l : \A m \in k .. l :
           Count(tokens, "end_skip", k, m) < Count(tokens, "skip", k, m)
    BY <1>1 DEF LeftOut
  <2>2. k \in Nat /\ k > 0 /\ k \in 1 .. N /\ l \in k .. l /\ l \in k .. N /\ k <= l + 1
    BY <1>0
  <2>3. Balance(tokens, k, l) > 0 /\ Balance(tokens, k, l) \in Int
    <3>1. Count(tokens, "end_skip", k, l) < Count(tokens, "skip", k, l)
      BY <2>1, <2>2
    <3> HIDE DEF l
    <3> QED BY <1>0, <2>2, <3>1, BalanceOn
  <2>4. Balance(tokens, k, l) <= depth[l]
    BY <2>2, OpenedIsDeep
  <2> HIDE DEF l
  <2> QED BY <2>3, <2>4
<1>2. ASSUME depth[l] # 0 PROVE LeftOut(tokens, i)
  <2>1. PICK k \in 1 .. l : \A m \in k .. l : Balance(tokens, k, m) > 0
    BY <1>0, <1>2, DeepIsOpened
  <2>2. ASSUME NEW m \in k .. l
        PROVE  Count(tokens, "end_skip", k, m) < Count(tokens, "skip", k, m)
    <3>1. k \in Nat /\ k > 0 /\ m \in Nat /\ k <= m + 1
      BY <1>0
    <3>2. Balance(tokens, k, m) > 0
      BY <2>1
    <3> QED BY <3>1, <3>2, BalanceOn
  <2> QED BY <2>2 DEF LeftOut
<1> QED BY <1>1, <1>2

(* The lines are what is shown, in order and broken by the blocks          *)
(* (html_to_text).                                                         *)
LEMMA LinesAreRead ==
    ASSUME NEW tokens \in Seq(Tokens)
    PROVE  /\ html_to_text(tokens) \in Seq(Seq(Nat))
           /\ InReadingOrder(html_to_text(tokens))
           /\ BrokenByBlocks(tokens, html_to_text(tokens))
           /\ "void" \notin Range(tokens) => Places(html_to_text(tokens)) = Shown(tokens)
<1> DEFINE N == Len(tokens)
           after == Fed(tokens)
           lines == html_to_text(tokens)
           T == {n \in 0 .. N : FedInv(after[n], after, tokens, n)}
<1>1. FedSteps(after, tokens, N)
  BY FedStepwise
<1>2. N \in Nat /\ DOMAIN tokens = 1 .. N /\ N \in 0 .. N
  OBVIOUS
<1>3. \A n \in 1 .. N : tokens[n] \in Pieces \cup Tags
  <2>1. \A n \in 1 .. N : tokens[n] \in Tokens
    OBVIOUS
  <2> QED BY <2>1, TextAssumption
<1>9. lines = LineBroken(after[N]).lines
  BY DEF html_to_text
<1>10. \A n \in DOMAIN tokens : tokens[n] \in Range(tokens)
  BY DEF Range
<1> HIDE DEF N, after, lines
<1>4. 0 \in T
  <2> DEFINE s == after[0]
  <2>1. s = [skip_depth |-> 0, lines |-> <<>>, line |-> <<>>]
    BY <1>1 DEF FedSteps
  <2>2. s \in FedState
    BY <2>1 DEF FedState
  <2>3. s.lines = <<>> /\ s.line = <<>>
    BY <2>1
  <2> HIDE DEF s
  <2>4. Places(s.lines) = {} /\ Range(s.line) = {} /\ TakenUp(after, tokens, 0) = {}
    BY <2>3 DEF Places, Range, TakenUp
  <2>5. InReadingOrder(s.lines) /\ Rising(s.line)
    BY <2>3 DEF InReadingOrder, Rising
  <2>6. FedInv(s, after, tokens, 0)
    BY <2>2, <2>4, <2>5 DEF FedInv, BrokenByBlocks
  <2> QED BY <1>2, <2>6 DEF s
<1>5. ASSUME NEW n \in 1 .. N, FedInv(after[n - 1], after, tokens, n - 1)
      PROVE  FedInv(after[n], after, tokens, n)
  <2>1. n \in Nat /\ n > 0 /\ tokens[n] \in Pieces \cup Tags
    BY <1>3
  <2>2. after[n] \in FedState /\ after[n] = Feed(after[n - 1], n, tokens[n])
    BY <1>1 DEF FedSteps
  <2> QED BY <1>5, <2>1, <2>2, FedKeeps
<1>6. T \in SUBSET (0 .. N) /\ \A n \in 1 .. N : n - 1 \in T => n \in T
  BY <1>5
<1> HIDE DEF T
<1>7. T = 0 .. N
  BY <1>2, <1>4, <1>6, UpTo
<1>8. FedInv(after[N], after, tokens, N)
  BY <1>2, <1>7 DEF T
<1>11. /\ LineBroken(after[N]) \in FedState /\ InReadingOrder(lines)
       /\ Places(lines) = TakenUp(after, tokens, N) /\ BrokenByBlocks(tokens, lines)
  BY <1>2, <1>8, <1>9, BrokenOff
<1>12. lines \in Seq(Seq(Nat))
  BY <1>9, <1>11 DEF FedState
<1>13. ASSUME "void" \notin Range(tokens) PROVE TakenUp(after, tokens, N) = Shown(tokens)
  <2> DEFINE depth == [n \in 0 .. N |-> after[n].skip_depth]
  <2>1. DepthSteps(depth, tokens, N)
    <3>1. depth[0] = 0
      BY <1>1, <1>2 DEF FedSteps
    <3>2. ASSUME NEW n \in 1 .. N
          PROVE  /\ depth[n - 1] \in Nat /\ depth[n] \in Nat
                 /\ depth[n] = IF tokens[n] = "skip" THEN depth[n - 1] + 1
                               ELSE IF tokens[n] = "end_skip" THEN Closed(depth[n - 1])
                               ELSE depth[n - 1]
      <4> DEFINE s == after[n - 1]
                 t == after[n]
      <4>1. n - 1 \in 0 .. N /\ n \in 0 .. N
        BY <1>2
      <4>2. depth[n - 1] = s.skip_depth /\ depth[n] = t.skip_depth
        BY <4>1
      <4>3. s \in FedState /\ t \in FedState /\ t = Feed(s, n, tokens[n])
        BY <1>1 DEF FedSteps
      <4>4. tokens[n] # "void"
        BY <1>2, <1>10, <1>13
      <4> HIDE DEF s, t, depth
      <4>5. /\ s = [skip_depth |-> s.skip_depth, lines |-> s.lines, line |-> s.line]
            /\ s.skip_depth \in Nat /\ t.skip_depth \in Nat
        BY <4>3 DEF FedState
      <4>6. LineBroken(s).skip_depth = s.skip_depth
        BY <4>5 DEF LineBroken
      <4>7. t.skip_depth = IF tokens[n] = "skip" THEN s.skip_depth + 1
                           ELSE IF tokens[n] = "end_skip" THEN Closed(s.skip_depth)
                           ELSE s.skip_depth
        <5>1. CASE tokens[n] = "block"
          BY <4>3, <4>6, <5>1 DEF Feed
        <5>2. CASE tokens[n] = "skip"
          BY <4>3, <4>5, <5>2 DEF Feed
        <5>3. CASE tokens[n] = "end_skip"
          BY <4>3, <4>5, <5>3 DEF Feed
        <5>4. CASE tokens[n] \notin {"block", "skip", "end_skip"}
          BY <4>3, <4>4, <4>5, <5>4 DEF Feed
        <5> QED BY <5>1, <5>2, <5>3, <5>4
      <4> QED BY <4>2, <4>5, <4>7
    <3> HIDE DEF depth
    <3> QED BY <3>1, <3>2 DEF DepthSteps
  <2>2. \A n \in 1 .. N : depth[n - 1] = after[n - 1].skip_depth
    BY <1>2
  <2> HIDE DEF depth
  <2>3. \A n \in 1 .. N : LeftOut(tokens, n) <=> depth[n - 1] # 0
    BY <1>2, <2>1, LeftOutIsDeep
  <2> QED BY <1>2, <2>2, <2>3 DEF TakenUp, Shown
<1> QED BY <1>11, <1>12, <1>13 DEF lines

\* What the split of the lines may have put together.
SplitState ==
    [section : {"none", "required", "preferred"}, required : Seq(Seq(Nat)),
     preferred : Seq(Seq(Nat)), buffer : Seq(Seq(Nat))]

LEMMA SplitFields ==
    ASSUME NEW s
    PROVE  s \in SplitState <=>
             /\ s = [section |-> s.section, required |-> s.required,
                     preferred |-> s.preferred, buffer |-> s.buffer]
             /\ s.section \in {"none", "required", "preferred"} /\ s.required \in Seq(Seq(Nat))
             /\ s.preferred \in Seq(Seq(Nat)) /\ s.buffer \in Seq(Seq(Nat))
BY DEF SplitState

\* The lists as they are when what is held back is added.
Required(s) == IF s.section = "preferred" THEN s.required ELSE s.required \o s.buffer
Preferring(s) == IF s.section = "preferred" THEN s.preferred \o s.buffer ELSE s.preferred

\* A record of the split, and what it is updated to.
WholeSplit(s) == s = [section |-> s.section, required |-> s.required,
                 preferred |-> s.preferred, buffer |-> s.buffer]

LEMMA SplitUpdate ==
    ASSUME NEW s, WholeSplit(s), NEW x
    PROVE  /\ [s EXCEPT !.section = x] =
                  [section |-> x, required |-> s.required,
                   preferred |-> s.preferred, buffer |-> s.buffer]
           /\ [s EXCEPT !.required = x] =
                  [section |-> s.section, required |-> x,
                   preferred |-> s.preferred, buffer |-> s.buffer]
           /\ [s EXCEPT !.preferred = x] =
                  [section |-> s.section, required |-> s.required,
                   preferred |-> x, buffer |-> s.buffer]
           /\ [s EXCEPT !.buffer = x] =
                  [section |-> s.section, required |-> s.required,
                   preferred |-> s.preferred, buffer |-> x]
BY DEF WholeSplit

LEMMA SplitBegins ==
    ASSUME NEW s, WholeSplit(s), NEW x, NEW y
    PROVE  [s EXCEPT !.section = y, !.required = x] =
         [section |-> y, required |-> x,
          preferred |-> s.preferred, buffer |-> s.buffer]
<1> DEFINE t == [s EXCEPT !.section = y]
<1>1. t =
         [section |-> y, required |-> s.required,
          preferred |-> s.preferred, buffer |-> s.buffer]
  BY DEF WholeSplit
<1>2. [s EXCEPT !.section = y, !.required = x] = [t EXCEPT !.required = x]
  OBVIOUS
<1> HIDE DEF t
<1> QED BY <1>1, <1>2

LEMMA SplitRequires ==
    ASSUME NEW s, WholeSplit(s), NEW x, NEW y
    PROVE  [s EXCEPT !.required = x, !.buffer = y] =
         [section |-> s.section, required |-> x,
          preferred |-> s.preferred, buffer |-> y]
<1> DEFINE t == [s EXCEPT !.required = x]
<1>1. t =
         [section |-> s.section, required |-> x,
          preferred |-> s.preferred, buffer |-> s.buffer]
  BY DEF WholeSplit
<1>2. [s EXCEPT !.required = x, !.buffer = y] = [t EXCEPT !.buffer = y]
  OBVIOUS
<1> HIDE DEF t
<1> QED BY <1>1, <1>2

LEMMA SplitPrefers ==
    ASSUME NEW s, WholeSplit(s), NEW x, NEW y
    PROVE  [s EXCEPT !.preferred = x, !.buffer = y] =
         [section |-> s.section, required |-> s.required,
          preferred |-> x, buffer |-> y]
<1> DEFINE t == [s EXCEPT !.preferred = x]
<1>1. t =
         [section |-> s.section, required |-> s.required,
          preferred |-> x, buffer |-> s.buffer]
  BY DEF WholeSplit
<1>2. [s EXCEPT !.preferred = x, !.buffer = y] = [t EXCEPT !.buffer = y]
  OBVIOUS
<1> HIDE DEF t
<1> QED BY <1>1, <1>2

LEMMA FlushFields ==
    ASSUME NEW s \in SplitState
    PROVE  flush(s) = [section |-> s.section, required |-> Required(s),
                       preferred |-> Preferring(s), buffer |-> <<>>]
<1>1. WholeSplit(s)
  BY DEF SplitState, WholeSplit
<1> DEFINE r == s.required \o s.buffer
           p == s.preferred \o s.buffer
<1>2. flush(s) = IF s.section = "preferred"
                 THEN [s EXCEPT !.preferred = p, !.buffer = <<>>]
                 ELSE [s EXCEPT !.required = r, !.buffer = <<>>]
  BY DEF flush
<1>3. /\ Required(s) = IF s.section = "preferred" THEN s.required ELSE r
      /\ Preferring(s) = IF s.section = "preferred" THEN p ELSE s.preferred
  BY DEF Required, Preferring
<1> HIDE DEF r, p
<1>4. [s EXCEPT !.required = r, !.buffer = <<>>] =
         [section |-> s.section, required |-> r, preferred |-> s.preferred, buffer |-> <<>>]
  BY Zenon, <1>1, SplitRequires
<1>5. [s EXCEPT !.preferred = p, !.buffer = <<>>] =
         [section |-> s.section, required |-> s.required, preferred |-> p, buffer |-> <<>>]
  BY <1>1, SplitPrefers
<1>6. CASE s.section = "preferred"
  BY <1>2, <1>3, <1>5, <1>6, Zenon
<1>7. CASE s.section # "preferred"
  BY <1>2, <1>3, <1>4, <1>7, Zenon
<1> QED BY <1>6, <1>7

LEMMA FlushedTyped ==
    ASSUME NEW s \in SplitState
    PROVE  Required(s) \in Seq(Seq(Nat)) /\ Preferring(s) \in Seq(Seq(Nat))
<1>1. s.required \in Seq(Seq(Nat)) /\ s.preferred \in Seq(Seq(Nat)) /\ s.buffer \in Seq(Seq(Nat))
  BY SplitFields
<1>2. s.required \o s.buffer \in Seq(Seq(Nat)) /\ s.preferred \o s.buffer \in Seq(Seq(Nat))
  BY <1>1
<1> QED BY <1>1, <1>2 DEF Required, Preferring

(* Whatever the line, the split goes on by one of five steps.              *)
LEMMA ClassifyFields ==
    ASSUME NEW s \in SplitState, NEW tokens, NEW line
    PROVE  /\ is_heading(tokens, line) =>
                Classify(s, tokens, line) =
                  [section |-> IF tokens[line[1]] = "required_heading" THEN "required" ELSE "preferred",
                   required |-> Required(s), preferred |-> Preferring(s), buffer |-> <<>>]
           /\ ~is_heading(tokens, line) /\ is_bullet(tokens, line) =>
                Classify(s, tokens, line) =
                  IF s.section = "preferred"
                  THEN [section |-> s.section, required |-> Required(s),
                        preferred |-> Append(Preferring(s), line), buffer |-> <<>>]
                  ELSE [section |-> "required", required |-> Append(Required(s), line),
                        preferred |-> Preferring(s), buffer |-> <<>>]
           /\ ~is_heading(tokens, line) /\ ~is_bullet(tokens, line) =>
                Classify(s, tokens, line) =
                  IF s.section # "none"
                  THEN [section |-> s.section, required |-> s.required,
                        preferred |-> s.preferred, buffer |-> Append(s.buffer, line)]
                  ELSE [section |-> s.section, required |-> Append(s.required, line),
                        preferred |-> s.preferred, buffer |-> s.buffer]
<1> DEFINE f == flush(s)
<1>1. WholeSplit(s)
  BY DEF SplitState, WholeSplit
<1>2. f = [section |-> s.section, required |-> Required(s),
           preferred |-> Preferring(s), buffer |-> <<>>]
  BY FlushFields
<1>3. /\ f.section = s.section /\ f.required = Required(s) /\ f.preferred = Preferring(s)
      /\ f.buffer = <<>> /\ WholeSplit(f)
  BY <1>2 DEF WholeSplit
<1> DEFINE named == IF tokens[line[1]] = "required_heading" THEN "required" ELSE "preferred"
           r == Append(Required(s), line)
           p == Append(Preferring(s), line)
           b == Append(s.buffer, line)
           o == Append(s.required, line)
<1>4. Classify(s, tokens, line) =
        IF is_heading(tokens, line) THEN [f EXCEPT !.section = named]
        ELSE IF is_bullet(tokens, line)
        THEN IF s.section = "preferred" THEN [f EXCEPT !.preferred = p]
             ELSE [f EXCEPT !.section = "required", !.required = r]
        ELSE IF s.section # "none" THEN [s EXCEPT !.buffer = b] ELSE [s EXCEPT !.required = o]
  BY <1>3 DEF Classify
<1> HIDE DEF f, named, r, p, b, o
<1>9. /\ [f EXCEPT !.section = named] =
           [section |-> named, required |-> f.required, preferred |-> f.preferred, buffer |-> f.buffer]
      /\ [f EXCEPT !.preferred = p] =
           [section |-> f.section, required |-> f.required, preferred |-> p, buffer |-> f.buffer]
  BY <1>3, SplitUpdate
<1>10. [f EXCEPT !.section = "required", !.required = r] =
         [section |-> "required", required |-> r, preferred |-> f.preferred, buffer |-> f.buffer]
  BY Zenon, <1>3, SplitBegins
<1>5. /\ [f EXCEPT !.section = named] =
           [section |-> named, required |-> Required(s), preferred |-> Preferring(s), buffer |-> <<>>]
      /\ [f EXCEPT !.preferred = p] =
           [section |-> s.section, required |-> Required(s), preferred |-> p, buffer |-> <<>>]
  BY <1>3, <1>9, Zenon
<1>8. [f EXCEPT !.section = "required", !.required = r] =
         [section |-> "required", required |-> r, preferred |-> Preferring(s), buffer |-> <<>>]
  BY <1>3, <1>10, Zenon
<1>6. /\ [s EXCEPT !.buffer = b] =
           [section |-> s.section, required |-> s.required, preferred |-> s.preferred, buffer |-> b]
      /\ [s EXCEPT !.required = o] =
           [section |-> s.section, required |-> o, preferred |-> s.preferred, buffer |-> s.buffer]
  BY <1>1, SplitUpdate
<1>7. /\ is_heading(tokens, line) => Classify(s, tokens, line) = [f EXCEPT !.section = named]
      /\ ~is_heading(tokens, line) /\ is_bullet(tokens, line) =>
           Classify(s, tokens, line) = IF s.section = "preferred" THEN [f EXCEPT !.preferred = p]
                                       ELSE [f EXCEPT !.section = "required", !.required = r]
      /\ ~is_heading(tokens, line) /\ ~is_bullet(tokens, line) =>
           Classify(s, tokens, line) = IF s.section # "none" THEN [s EXCEPT !.buffer = b]
                                       ELSE [s EXCEPT !.required = o]
  BY <1>4
<1> QED BY <1>5, <1>6, <1>7, <1>8 DEF named, r, p, b, o

LEMMA ConcatenatedOn ==
    ASSUME NEW a \in Seq(Seq(Nat)), NEW b \in Seq(Seq(Nat)), NEW e \in Seq(Nat)
    PROVE  a \o Append(b, e) = Append(a \o b, e)
<1> DEFINE D == Seq(Nat)
<1>1. a \in Seq(D) /\ b \in Seq(D) /\ e \in D /\ a \o b \in Seq(D)
  OBVIOUS
<1> HIDE DEF D
<1>2. Append(b, e) = b \o <<e>> /\ <<e>> \in Seq(D)
  BY <1>1, AppendIsConcat
<1>3. Append(a \o b, e) = (a \o b) \o <<e>>
  BY <1>1, AppendIsConcat
<1>4. (a \o b) \o <<e>> = a \o (b \o <<e>>)
  BY <1>1, <1>2, ConcatAssociative
<1> QED BY <1>2, <1>3, <1>4

Made(t, section, r, p, b) ==
    t = [section |-> section, required |-> r, preferred |-> p, buffer |-> b]

LEMMA SplitMade ==
    ASSUME NEW section, NEW r, NEW p, NEW b, NEW t, Made(t, section, r, p, b)
    PROVE  /\ t.section = section /\ t.buffer = b
           /\ Required(t) = IF section = "preferred" THEN r ELSE r \o b
           /\ Preferring(t) = IF section = "preferred" THEN p \o b ELSE p
           /\ (/\ section \in {"none", "required", "preferred"} /\ r \in Seq(Seq(Nat))
               /\ p \in Seq(Seq(Nat)) /\ b \in Seq(Seq(Nat))) => t \in SplitState
<1>1. /\ t.section = section /\ t.required = r /\ t.preferred = p /\ t.buffer = b
      /\ t = [section |-> section, required |-> r, preferred |-> p, buffer |-> b]
  BY DEF Made
<1> QED BY <1>1, SplitFields DEF Required, Preferring

(* What a line does to the two lists, when what is held back is added: a   *)
(* heading opens a section, any other line goes to the list of its section.*)
LEMMA ClassifyLists ==
    ASSUME NEW s \in SplitState, s.section = "none" => s.buffer = <<>>,
           NEW tokens, NEW line \in Seq(Nat), NEW t, t = Classify(s, tokens, line)
    PROVE  /\ t \in SplitState
           /\ t.section = "none" => t.buffer = <<>>
           /\ is_heading(tokens, line) =>
                /\ t.section = "preferred" <=> tokens[line[1]] = "preferred_heading"
                /\ Required(t) = Required(s) /\ Preferring(t) = Preferring(s)
           /\ ~is_heading(tokens, line) =>
                /\ t.section = "preferred" <=> s.section = "preferred"
                /\ s.section = "preferred" =>
                     Required(t) = Required(s) /\ Preferring(t) = Append(Preferring(s), line)
                /\ s.section # "preferred" =>
                     Required(t) = Append(Required(s), line) /\ Preferring(t) = Preferring(s)
<1> DEFINE r == Required(s)
           p == Preferring(s)
           named == IF tokens[line[1]] = "required_heading" THEN "required" ELSE "preferred"
           rl == Append(r, line)
           pl == Append(p, line)
           bl == Append(s.buffer, line)
           ol == Append(s.required, line)
           empty == <<>>
<1>1. r \in Seq(Seq(Nat)) /\ p \in Seq(Seq(Nat))
  BY FlushedTyped
<1>2. /\ s.section \in {"none", "required", "preferred"} /\ s.required \in Seq(Seq(Nat))
      /\ s.preferred \in Seq(Seq(Nat)) /\ s.buffer \in Seq(Seq(Nat))
  BY SplitFields
<1>3. /\ rl \in Seq(Seq(Nat)) /\ pl \in Seq(Seq(Nat)) /\ bl \in Seq(Seq(Nat))
      /\ ol \in Seq(Seq(Nat)) /\ empty \in Seq(Seq(Nat))
  BY <1>1, <1>2
<1>4. /\ is_heading(tokens, line) =>
           t = [section |-> named, required |-> r, preferred |-> p, buffer |-> empty]
      /\ ~is_heading(tokens, line) /\ is_bullet(tokens, line) =>
           t = IF s.section = "preferred"
               THEN [section |-> s.section, required |-> r, preferred |-> pl, buffer |-> empty]
               ELSE [section |-> "required", required |-> rl, preferred |-> p, buffer |-> empty]
      /\ ~is_heading(tokens, line) /\ ~is_bullet(tokens, line) =>
           t = IF s.section # "none"
               THEN [section |-> s.section, required |-> s.required,
                     preferred |-> s.preferred, buffer |-> bl]
               ELSE [section |-> s.section, required |-> ol,
                     preferred |-> s.preferred, buffer |-> s.buffer]
  BY ClassifyFields
<1>5. /\ r \o empty = r /\ p \o empty = p /\ rl \o empty = rl /\ pl \o empty = pl
      /\ s.required \o empty = s.required /\ ol \o empty = ol
      /\ s.required \o bl = Append(s.required \o s.buffer, line)
      /\ s.preferred \o bl = Append(s.preferred \o s.buffer, line)
  <2>1. line \in Seq(Nat)
    OBVIOUS
  <2> HIDE DEF r, p, rl, pl, ol
  <2>2. r \o empty = r /\ p \o empty = p /\ rl \o empty = rl /\ pl \o empty = pl /\ ol \o empty = ol
    BY <1>1, <1>3, ConcatEmptySeq
  <2>5. s.required \o empty = s.required
    BY <1>2, ConcatEmptySeq
  <2>3. s.required \o bl = Append(s.required \o s.buffer, line)
    BY <1>2, <2>1, ConcatenatedOn
  <2>4. s.preferred \o bl = Append(s.preferred \o s.buffer, line)
    BY <1>2, <2>1, ConcatenatedOn
  <2> QED BY <2>2, <2>3, <2>4, <2>5
<1>6. /\ r = IF s.section = "preferred" THEN s.required ELSE s.required \o s.buffer
      /\ p = IF s.section = "preferred" THEN s.preferred \o s.buffer ELSE s.preferred
      /\ rl = Append(r, line) /\ pl = Append(p, line) /\ ol = Append(s.required, line)
  BY DEF Required, Preferring
<1>7. /\ named \in {"required", "preferred"}
      /\ tokens[line[1]] \in Headings =>
           (named = "preferred" <=> tokens[line[1]] = "preferred_heading")
  BY DEF Headings
<1>13. s.section = "none" => s.buffer = empty
  OBVIOUS
<1> HIDE DEF r, p, named, rl, pl, bl, ol, empty
<1>8. CASE is_heading(tokens, line)
  <2>1. tokens[line[1]] \in Headings
    BY <1>8 DEF is_heading
  <2>2. Made(t, named, r, p, empty)
    BY <1>4, <1>8 DEF Made
  <2>3. /\ t.section = named /\ t.buffer = empty
        /\ Required(t) = IF named = "preferred" THEN r ELSE r \o empty
        /\ Preferring(t) = IF named = "preferred" THEN p \o empty ELSE p
    BY <2>2, SplitMade
  <2>8. t \in SplitState
    BY <1>1, <1>3, <1>7, <2>2, SplitMade
  <2>4. Required(t) = r /\ Preferring(t) = p
    BY <1>5, <2>3
  <2> QED BY <1>7, <1>8, <2>1, <2>3, <2>4, <2>8 DEF r, p, empty
<1>9. CASE ~is_heading(tokens, line) /\ is_bullet(tokens, line) /\ s.section = "preferred"
  <2>1. Made(t, "preferred", r, pl, empty)
    BY <1>4, <1>9 DEF Made
  <2>2. /\ t.section = "preferred" /\ t.buffer = empty
        /\ Required(t) = r /\ Preferring(t) = pl \o empty
    BY <2>1, SplitMade
  <2>7. t \in SplitState
    BY <1>1, <1>3, <2>1, SplitMade
  <2> QED BY <1>5, <1>6, <1>9, <2>2, <2>7 DEF r, p, empty
<1>10. CASE ~is_heading(tokens, line) /\ is_bullet(tokens, line) /\ s.section # "preferred"
  <2>1. Made(t, "required", rl, p, empty)
    BY <1>4, <1>10 DEF Made
  <2>2. /\ t.section = "required" /\ t.buffer = empty
        /\ Required(t) = rl \o empty /\ Preferring(t) = p
    BY <2>1, SplitMade
  <2>7. t \in SplitState
    BY <1>1, <1>3, <2>1, SplitMade
  <2> QED BY <1>5, <1>6, <1>10, <2>2, <2>7 DEF r, p, empty
<1>11. CASE ~is_heading(tokens, line) /\ ~is_bullet(tokens, line) /\ s.section # "none"
  <2> DEFINE section == s.section
             required == s.required
             preferred == s.preferred
  <2>1. Made(t, section, required, preferred, bl)
    BY <1>4, <1>11 DEF Made
  <2> HIDE DEF section, required, preferred
  <2>2. /\ t.section = section
        /\ Required(t) = IF section = "preferred" THEN required ELSE required \o bl
        /\ Preferring(t) = IF section = "preferred" THEN preferred \o bl ELSE preferred
    BY <2>1, SplitMade
  <2>7. t \in SplitState
    BY <1>2, <1>3, <2>1, SplitMade DEF section, required, preferred
  <2>3. CASE s.section = "preferred"
    BY <1>5, <1>6, <1>11, <2>2, <2>3, <2>7 DEF r, p, section, required, preferred
  <2>4. CASE s.section # "preferred"
    BY <1>5, <1>6, <1>11, <2>2, <2>4, <2>7 DEF r, p, section, required, preferred
  <2> QED BY <2>3, <2>4
<1>12. CASE ~is_heading(tokens, line) /\ ~is_bullet(tokens, line) /\ s.section = "none"
  <2>1. Made(t, "none", ol, s.preferred, empty)
    BY <1>4, <1>12, <1>13 DEF Made
  <2>2. /\ t.section = "none" /\ t.buffer = empty
        /\ Required(t) = ol \o empty /\ Preferring(t) = s.preferred
    BY <2>1, SplitMade
  <2>7. t \in SplitState
    BY <1>2, <1>3, <2>1, SplitMade
  <2>3. r = s.required /\ p = s.preferred
    BY <1>5, <1>6, <1>12, <1>13
  <2> QED BY <1>5, <1>6, <1>12, <2>2, <2>3, <2>7 DEF r, p, empty
<1> QED BY <1>8, <1>9, <1>10, <1>11, <1>12

ClassifiedSteps(after, tokens, lines, N) ==
    /\ after[0] = [section |-> "none", required |-> <<>>, preferred |-> <<>>, buffer |-> <<>>]
    /\ \A n \in 1 .. N : after[n] = Classify(after[n - 1], tokens, lines[n])

(* The split has its states by its own recursion (split_requirements).     *)
LEMMA ClassifiedStepwise ==
    ASSUME NEW tokens, NEW lines \in Seq(Seq(Nat))
    PROVE  ClassifiedSteps(Classified(tokens, lines), tokens, lines, Len(lines))
<1> DEFINE N == Len(lines)
           after == Classified(tokens, lines)
           base == [section |-> "none", required |-> <<>>, preferred |-> <<>>, buffer |-> <<>>]
           Held == {s \in SplitState : s.section = "none" => s.buffer = <<>>}
           step == [p \in (1 .. N) \X Held |-> Classify(p[2], tokens, lines[p[1]])]
<1>1. N \in Nat /\ \A n \in 1 .. N : lines[n] \in Seq(Nat)
  OBVIOUS
<1>2. base \in Held
  BY DEF SplitState
<1>3. \A n \in 1 .. N : \A x \in Held : step[<<n, x>>] = Classify(x, tokens, lines[n])
  <2> HIDE DEF Held
  <2> QED OBVIOUS
<1> HIDE DEF step
<1>4. \A n \in 1 .. N : \A x \in Held : step[<<n, x>>] \in Held
  <2>1. ASSUME NEW n \in 1 .. N, NEW x \in Held PROVE step[<<n, x>>] \in Held
    <3> DEFINE t == Classify(x, tokens, lines[n])
    <3>1. x \in SplitState /\ (x.section = "none" => x.buffer = <<>>) /\ lines[n] \in Seq(Nat)
      BY <1>1
    <3>2. t = Classify(x, tokens, lines[n])
      OBVIOUS
    <3> HIDE DEF t
    <3>3. t \in SplitState /\ (t.section = "none" => t.buffer = <<>>)
      BY <3>1, <3>2, ClassifyLists
    <3>4. t \in Held
      BY <3>3
    <3> HIDE DEF Held
    <3> QED BY <1>3, <3>2, <3>4
  <2> HIDE DEF Held
  <2> QED BY Zenon, <2>1
<1>5. PICK f \in [0 .. N -> Held] : Follows(f, N, base, step)
  <2> HIDE DEF base, Held
  <2> QED BY <1>1, <1>2, <1>4, Recursion
<1>6. \A n \in 1 .. N : n - 1 \in 0 .. N /\ n \in 0 .. N /\ n # 0
  BY <1>1
<1> DEFINE G(g) == [n \in 0 .. Len(lines) |->
                       IF n = 0
                       THEN [section |-> "none", required |-> <<>>,
                             preferred |-> <<>>, buffer |-> <<>>]
                       ELSE Classify(g[n - 1], tokens, lines[n])]
<1>7. f = G(f)
  <2> HIDE DEF Held
  <2>1. \A n \in 0 .. N : n = 0 \/ n \in 1 .. N
    BY <1>1
  <2>3. \A n \in 1 .. N : f[n - 1] \in Held
    BY <1>5, <1>6
  <2>2. \A n \in 0 .. N : f[n] = IF n = 0 THEN base ELSE Classify(f[n - 1], tokens, lines[n])
    BY <1>3, <1>5, <1>6, <2>1, <2>3 DEF Follows
  <2> QED BY <1>5, <2>2
<1> DEFINE made == CHOOSE g : g = G(g)
<1>8. made = G(made)
  <2> HIDE DEF G
  <2> QED BY <1>7
<1>9. after = made
  BY DEF Classified
<1> HIDE DEF made, after
<1>10. after[0] = base /\ \A n \in 1 .. N : after[n] = Classify(after[n - 1], tokens, lines[n])
  <2> DEFINE value(n) == IF n = 0 THEN base ELSE Classify(after[n - 1], tokens, lines[n])
  <2>1. after = [n \in 0 .. N |-> value(n)]
    BY <1>8, <1>9
  <2> HIDE DEF value
  <2>2. after[0] = value(0) /\ \A n \in 1 .. N : after[n] = value(n)
    BY <1>1, <1>6, <2>1
  <2> QED BY <1>6, <2>2 DEF value
<1>13. ClassifiedSteps(after, tokens, lines, N)
  <2> HIDE DEF N
  <2> QED BY <1>10 DEF ClassifiedSteps
<1> QED BY <1>13 DEF after

(* The next line goes behind those that are listed already.                *)
LEMMA ListedOn ==
    ASSUME NEW lines \in Seq(Seq(Nat)), InReadingOrder(lines), NEW n \in DOMAIN lines,
           NEW positions \in SUBSET (1 .. (n - 1)), NEW those \in Seq(Seq(Nat)),
           Lists(those, lines, positions)
    PROVE  Lists(Append(those, lines[n]), lines, positions \cup {n})
<1> DEFINE line == lines[n]
           more == Append(those, line)
           N == Len(those)
<1>1. line \in Seq(Nat) /\ n \in Nat /\ DOMAIN lines = 1 .. Len(lines)
  OBVIOUS
<1>2. /\ Range(more) = Range(those) \cup {line}
      /\ \A a \in DOMAIN more : \/ a \in DOMAIN those /\ more[a] = those[a]
                                \/ a = N + 1 /\ more[a] = line
  BY <1>1, AppendedElements
<1>3. DOMAIN those = 1 .. N /\ N \in Nat
  OBVIOUS
<1>4. \A a \in DOMAIN those : those[a] \in Range(those)
  BY DEF Range
<1>5. \A k \in DOMAIN lines : lines[k][1] \in Range(lines[k])
  <2>1. ASSUME NEW k \in DOMAIN lines PROVE lines[k][1] \in Range(lines[k])
    <3>1. lines[k] \in Seq(Nat) /\ lines[k] # <<>>
      BY DEF InReadingOrder
    <3>2. 1 \in DOMAIN lines[k]
      BY <3>1
    <3> QED BY <3>2 DEF Range
  <2> QED BY <2>1
<1>6. positions \subseteq DOMAIN lines /\ \A k \in positions : k < n
  BY <1>1
<1>9. Range(those) = {lines[k] : k \in positions}
  BY DEF Lists
<1> HIDE DEF line, more, N
<1>7. Range(more) = {lines[k] : k \in positions \cup {n}}
  BY <1>2, <1>9 DEF line
<1>8. ASSUME NEW a \in DOMAIN more, NEW b \in DOMAIN more, a < b PROVE more[a][1] < more[b][1]
  <2>4. \/ a \in 1 .. N /\ a \in DOMAIN those /\ more[a] = those[a]
        \/ a = N + 1
    BY <1>2, <1>3
  <2>5. b \in 1 .. N \/ b = N + 1
    BY <1>2, <1>3
  <2>6. a # N + 1
    BY <1>3, <1>8, <2>5
  <2>1. a \in DOMAIN those /\ more[a] = those[a]
    BY <2>4, <2>6
  <2>2. CASE b \in DOMAIN those /\ more[b] = those[b]
    BY <1>8, <2>1, <2>2 DEF Lists
  <2>3. CASE more[b] = line
    <3>1. PICK k \in positions : those[a] = lines[k]
      BY <1>4, <1>9, <2>1
    <3>2. lines[k][1] \in Range(lines[k]) /\ lines[n][1] \in Range(lines[n]) /\ k < n
      BY <1>5, <1>6
    <3>3. lines[k][1] < lines[n][1]
      BY <1>6, <3>2 DEF InReadingOrder
    <3> QED BY <2>1, <2>3, <3>1, <3>3 DEF line
  <2> QED BY <1>2, <2>2, <2>3
<1> QED BY <1>7, <1>8 DEF Lists, more, line

(* A heading decides for the lines after it, any other line leaves the     *)
(* section as it is.                                                       *)
LEMMA PreferredOn ==
    ASSUME NEW tokens, NEW lines, NEW n \in Nat, n > 0
    PROVE  Preferred(tokens, lines, n + 1) <=>
             IF is_heading(tokens, lines[n]) THEN tokens[lines[n][1]] = "preferred_heading"
             ELSE Preferred(tokens, lines, n)
<1> DEFINE heading(k) == is_heading(tokens, lines[k])
           wanted(k) == tokens[lines[k][1]] = "preferred_heading"
<1>1. Preferred(tokens, lines, n) <=>
        \E k \in 1 .. (n - 1) :
            heading(k) /\ wanted(k) /\ \A j \in (k + 1) .. (n - 1) : ~heading(j)
  BY DEF Preferred
<1>2. Preferred(tokens, lines, n + 1) <=>
        \E k \in 1 .. n : heading(k) /\ wanted(k) /\ \A j \in (k + 1) .. n : ~heading(j)
  <2>1. (n + 1) - 1 = n
    OBVIOUS
  <2> QED BY <2>1 DEF Preferred
<1> HIDE DEF heading, wanted
<1>3. CASE heading(n)
  <2>1. ASSUME NEW k \in 1 .. n, \A j \in (k + 1) .. n : ~heading(j) PROVE k = n
    <3>1. CASE k < n
      <4>1. n \in (k + 1) .. n
        BY <3>1
      <4> QED BY <1>3, <2>1, <4>1
    <3> QED BY <3>1
  <2>2. n \in 1 .. n /\ \A j \in (n + 1) .. n : ~heading(j)
    OBVIOUS
  <2>3. Preferred(tokens, lines, n + 1) <=> wanted(n)
    BY <1>2, <1>3, <2>1, <2>2
  <2> QED BY <1>3, <2>3 DEF heading, wanted
<1>4. CASE ~heading(n)
  <2>1. \A k \in 1 .. n : k = n \/ k \in 1 .. (n - 1)
    OBVIOUS
  <2>2. \A k \in 1 .. (n - 1) : k \in 1 .. n /\ \A j \in (k + 1) .. n : j = n \/ j \in (k + 1) .. (n - 1)
    OBVIOUS
  <2>3. \A k \in 1 .. (n - 1) : \A j \in (k + 1) .. (n - 1) : j \in (k + 1) .. n
    OBVIOUS
  <2>4. Preferred(tokens, lines, n + 1) <=> Preferred(tokens, lines, n)
    BY <1>1, <1>2, <1>4, <2>1, <2>2, <2>3
  <2> QED BY <1>4, <2>4 DEF heading
<1> QED BY <1>3, <1>4

\* Of the first n lines, those that are no heading, by the section they stand in.
Below(tokens, lines, n) == {k \in 1 .. n : ~is_heading(tokens, lines[k])}
Wanted(tokens, lines, n) ==
    {k \in Below(tokens, lines, n) : Preferred(tokens, lines, k)}
Needed(tokens, lines, n) == Below(tokens, lines, n) \ Wanted(tokens, lines, n)

(* What the split has made of the first n lines.                           *)
SplitInv(s, tokens, lines, n) ==
    /\ s \in SplitState
    /\ s.section = "none" => s.buffer = <<>>
    /\ s.section = "preferred" <=> Preferred(tokens, lines, n + 1)
    /\ Lists(Required(s), lines, Needed(tokens, lines, n))
    /\ Lists(Preferring(s), lines, Wanted(tokens, lines, n))

LEMMA SortedOn ==
    ASSUME NEW tokens, NEW lines, NEW n \in Nat, n > 0
    PROVE  /\ is_heading(tokens, lines[n]) =>
                /\ Needed(tokens, lines, n) = Needed(tokens, lines, n - 1)
                /\ Wanted(tokens, lines, n) = Wanted(tokens, lines, n - 1)
           /\ ~is_heading(tokens, lines[n]) /\ Preferred(tokens, lines, n) =>
                /\ Needed(tokens, lines, n) = Needed(tokens, lines, n - 1)
                /\ Wanted(tokens, lines, n) = Wanted(tokens, lines, n - 1) \cup {n}
           /\ ~is_heading(tokens, lines[n]) /\ ~Preferred(tokens, lines, n) =>
                /\ Needed(tokens, lines, n) = Needed(tokens, lines, n - 1) \cup {n}
                /\ Wanted(tokens, lines, n) = Wanted(tokens, lines, n - 1)
<1>1. 1 .. n = (1 .. (n - 1)) \cup {n} /\ n \notin 1 .. (n - 1)
  OBVIOUS
<1>2. Below(tokens, lines, n) = Below(tokens, lines, n - 1)
                                \cup IF is_heading(tokens, lines[n]) THEN {} ELSE {n}
  BY <1>1 DEF Below
<1>3. n \notin Below(tokens, lines, n - 1)
  BY <1>1 DEF Below
<1> QED BY <1>2, <1>3 DEF Needed, Wanted

LEMMA SplitKeeps ==
    ASSUME NEW tokens, NEW lines \in Seq(Seq(Nat)), InReadingOrder(lines), NEW n \in DOMAIN lines,
           NEW s, SplitInv(s, tokens, lines, n - 1), NEW t, t = Classify(s, tokens, lines[n])
    PROVE  SplitInv(t, tokens, lines, n)
<1> DEFINE line == lines[n]
           needed == Needed(tokens, lines, n - 1)
           wanted == Wanted(tokens, lines, n - 1)
<1>1. /\ line \in Seq(Nat) /\ n \in Nat /\ n > 0
      /\ needed \in SUBSET (1 .. (n - 1)) /\ wanted \in SUBSET (1 .. (n - 1))
  BY DEF Needed, Wanted, Below
<1>2. /\ s \in SplitState /\ Required(s) \in Seq(Seq(Nat)) /\ Preferring(s) \in Seq(Seq(Nat))
      /\ s.section = "none" => s.buffer = <<>>
  BY FlushedTyped DEF SplitInv
<1>3. s.section = "preferred" <=> Preferred(tokens, lines, n)
  <2>1. (n - 1) + 1 = n
    BY <1>1
  <2> QED BY <2>1 DEF SplitInv
<1>4. Lists(Required(s), lines, needed) /\ Lists(Preferring(s), lines, wanted)
  BY DEF SplitInv
<1>5. /\ t \in SplitState
      /\ t.section = "none" => t.buffer = <<>>
      /\ is_heading(tokens, line) =>
           /\ t.section = "preferred" <=> tokens[line[1]] = "preferred_heading"
           /\ Required(t) = Required(s) /\ Preferring(t) = Preferring(s)
      /\ ~is_heading(tokens, line) =>
           /\ t.section = "preferred" <=> s.section = "preferred"
           /\ s.section = "preferred" =>
                Required(t) = Required(s) /\ Preferring(t) = Append(Preferring(s), line)
           /\ s.section # "preferred" =>
                Required(t) = Append(Required(s), line) /\ Preferring(t) = Preferring(s)
  <2>1. line \in Seq(Nat) /\ t = Classify(s, tokens, line)
    BY <1>1
  <2> HIDE DEF line, needed, wanted
  <2> QED BY Zenon, <1>2, <2>1, ClassifyLists
<1>6. t.section = "preferred" <=> Preferred(tokens, lines, n + 1)
  BY <1>1, <1>3, <1>5, PreferredOn
<1>7. /\ Lists(Append(Required(s), line), lines, needed \cup {n})
      /\ Lists(Append(Preferring(s), line), lines, wanted \cup {n})
  <2> HIDE DEF needed, wanted
  <2> QED BY <1>1, <1>2, <1>4, ListedOn
<1>8. /\ Lists(Required(t), lines, Needed(tokens, lines, n))
      /\ Lists(Preferring(t), lines, Wanted(tokens, lines, n))
  <2>1. CASE is_heading(tokens, line)
    <3>1. Needed(tokens, lines, n) = needed /\ Wanted(tokens, lines, n) = wanted
      BY <1>1, <2>1, SortedOn
    <3> QED BY <1>4, <1>5, <2>1, <3>1
  <2>2. CASE ~is_heading(tokens, line) /\ s.section = "preferred"
    <3>1. Needed(tokens, lines, n) = needed /\ Wanted(tokens, lines, n) = wanted \cup {n}
      BY <1>1, <1>3, <2>2, SortedOn
    <3> QED BY <1>4, <1>5, <1>7, <2>2, <3>1
  <2>3. CASE ~is_heading(tokens, line) /\ s.section # "preferred"
    <3>1. Needed(tokens, lines, n) = needed \cup {n} /\ Wanted(tokens, lines, n) = wanted
      BY <1>1, <1>3, <2>3, SortedOn
    <3> QED BY <1>4, <1>5, <1>7, <2>3, <3>1
  <2> QED BY <2>1, <2>2, <2>3
<1> QED BY <1>5, <1>6, <1>8 DEF SplitInv

(* Every line is listed below its heading (split_requirements).            *)
LEMMA LinesAreSplit ==
    ASSUME NEW tokens, NEW lines \in Seq(Seq(Nat)), InReadingOrder(lines)
    PROVE  /\ Lists(split_requirements(tokens, lines).required, lines,
                    Needed(tokens, lines, Len(lines)))
           /\ Lists(split_requirements(tokens, lines).preferred, lines,
                    Wanted(tokens, lines, Len(lines)))
<1> DEFINE N == Len(lines)
           after == Classified(tokens, lines)
           T == {n \in 0 .. N : SplitInv(after[n], tokens, lines, n)}
<1>1. ClassifiedSteps(after, tokens, lines, N)
  BY ClassifiedStepwise
<1>2. N \in Nat /\ DOMAIN lines = 1 .. N /\ N \in 0 .. N
  OBVIOUS
<1>3. /\ split_requirements(tokens, lines).required = flush(after[N]).required
      /\ split_requirements(tokens, lines).preferred = flush(after[N]).preferred
  BY DEF split_requirements
<1> HIDE DEF N, after
<1>4. 0 \in T
  <2> DEFINE s == after[0]
  <2>1. s = [section |-> "none", required |-> <<>>, preferred |-> <<>>, buffer |-> <<>>]
    BY <1>1 DEF ClassifiedSteps
  <2>2. s \in SplitState /\ s.section = "none" /\ s.buffer = <<>>
    BY <2>1 DEF SplitState
  <2>3. Required(s) = <<>> /\ Preferring(s) = <<>>
    <3>1. s.required = <<>> /\ s.preferred = <<>> /\ <<>> \o <<>> = <<>>
      BY <2>1
    <3> QED BY <2>2, <3>1 DEF Required, Preferring
  <2> HIDE DEF s
  <2>4. Needed(tokens, lines, 0) = {} /\ Wanted(tokens, lines, 0) = {}
    BY DEF Needed, Wanted, Below
  <2>5. Lists(<<>>, lines, {})
    BY DEF Lists, Range
  <2>6. ~Preferred(tokens, lines, 0 + 1)
    BY DEF Preferred
  <2>7. SplitInv(s, tokens, lines, 0)
    BY <2>2, <2>3, <2>4, <2>5, <2>6 DEF SplitInv
  <2> QED BY <1>2, <2>7 DEF s
<1>5. ASSUME NEW n \in 1 .. N, SplitInv(after[n - 1], tokens, lines, n - 1)
      PROVE  SplitInv(after[n], tokens, lines, n)
  <2> DEFINE s == after[n - 1]
             t == after[n]
  <2>1. t = Classify(s, tokens, lines[n]) /\ n \in DOMAIN lines
    BY <1>1, <1>2 DEF ClassifiedSteps
  <2>2. SplitInv(s, tokens, lines, n - 1)
    BY <1>5
  <2> HIDE DEF s, t
  <2>3. SplitInv(t, tokens, lines, n)
    BY <2>1, <2>2, SplitKeeps
  <2> QED BY <2>3 DEF t
<1>6. T \in SUBSET (0 .. N) /\ \A n \in 1 .. N : n - 1 \in T => n \in T
  BY <1>5
<1> HIDE DEF T
<1>7. T = 0 .. N
  BY <1>2, <1>4, <1>6, UpTo
<1>8. SplitInv(after[N], tokens, lines, N)
  BY <1>2, <1>7 DEF T
<1>9. /\ flush(after[N]).required = Required(after[N])
      /\ flush(after[N]).preferred = Preferring(after[N])
  <2>1. after[N] \in SplitState
    BY <1>8 DEF SplitInv
  <2> DEFINE s == after[N]
  <2>2. flush(s) = [section |-> s.section, required |-> Required(s),
                    preferred |-> Preferring(s), buffer |-> <<>>]
    BY <2>1, FlushFields
  <2> QED BY <2>2
<1> QED BY <1>3, <1>8, <1>9 DEF SplitInv, N

(* No more pay is read than is stated (parse_compensation).                *)
LEMMA PayIsBounded ==
    ASSUME NEW pay \in Pays
    PROVE  parse_compensation(pay).maximum <= pay.high * (IF pay.thousands THEN 1000 ELSE 1)
<1> DEFINE scale == IF pay.thousands THEN 1000 ELSE 1
           read == parse_compensation(pay)
           low == pay.low
           high == pay.high
           last == low % 10
<1>1. /\ low \in Nat /\ high \in Nat /\ scale \in Nat /\ scale > 0
      /\ pay.form \in {"single", "hourly"} => high = low
  BY TextAssumption
<1>2. last \in Nat /\ last <= low
  BY <1>1
<1>3. high * scale \in Nat /\ last * scale \in Nat
  BY <1>1, <1>2
<1>4. pay.form \in {"single", "hourly"} => last * scale <= high * scale
  BY <1>1, <1>2
<1>5. \A x, y, z : Ordered(x, y, z).maximum = y
  BY DEF Ordered
<1>6. NoPay.maximum = 0
  BY DEF NoPay
<1>7. \/ read.maximum = 0
      \/ pay.form \in {"single", "hourly"} /\ read.maximum = last * scale
      \/ read.maximum = high * scale
  BY <1>5, <1>6 DEF parse_compensation
<1> HIDE DEF scale, read, last
<1>8. read.maximum <= high * scale
  BY <1>1, <1>3, <1>4, <1>7
<1> QED BY <1>8 DEF read, scale

\* What a posting may be, before and after it is read.
TextInv ==
    /\ reading.job.stage \in {"new", "built"}
    /\ reading.job.stage = "new" =>
         /\ reading.tokens \in Seq(Tokens) /\ reading.pay \in Pays
         /\ reading = [source |-> reading.source, tokens |-> reading.tokens,
                       pay |-> reading.pay, workplace |-> reading.workplace,
                       place |-> reading.place, mentioned |-> reading.mentioned,
                       given |-> reading.given, job |-> reading.job]
    /\ PostingIsReadAsWritten

(* The state after the reading satisfies what is promised of it.           *)
LEMMA BuiltAsWritten ==
    ASSUME NEW tokens \in Seq(Tokens), NEW pay \in Pays,
           reading'.tokens = tokens, reading'.pay = pay,
           reading'.job.lines = html_to_text(tokens),
           reading'.job.requirements = split_requirements(tokens, html_to_text(tokens)),
           reading'.job.compensation = parse_compensation(pay)
    PROVE  PostingIsReadAsWritten'
<1> DEFINE lines == html_to_text(tokens)
           split == split_requirements(tokens, lines)
           below == {n \in DOMAIN lines : ~is_heading(tokens, lines[n])}
           preferred == {n \in below : Preferred(tokens, lines, n)}
<1>1. /\ lines \in Seq(Seq(Nat)) /\ InReadingOrder(lines) /\ BrokenByBlocks(tokens, lines)
      /\ "void" \notin Range(tokens) => Places(lines) = Shown(tokens)
  BY LinesAreRead
<1>5. reading'.job.lines = lines /\ reading'.job.requirements = split
  OBVIOUS
<1> HIDE DEF lines
<1>2. DOMAIN lines = 1 .. Len(lines)
  BY <1>1
<1>3. /\ below = Below(tokens, lines, Len(lines)) /\ preferred = Wanted(tokens, lines, Len(lines))
      /\ below \ preferred = Needed(tokens, lines, Len(lines))
  BY <1>2 DEF Below, Wanted, Needed
<1>4. /\ Lists(split.required, lines, below \ preferred)
      /\ Lists(split.preferred, lines, preferred)
  <2> HIDE DEF below, preferred
  <2> QED BY <1>1, <1>3, LinesAreSplit
<1>6. parse_compensation(pay).maximum <= pay.high * (IF pay.thousands THEN 1000 ELSE 1)
  BY PayIsBounded
<1> HIDE DEF split
<1> QED BY <1>1, <1>4, <1>5, <1>6 DEF PostingIsReadAsWritten

(* A posting is new or read as it is written (build_job).                  *)
THEOREM TextInvAlways == TextSpec => []TextInv
<1>1. TextInit => TextInv
  <2> SUFFICES ASSUME TextInit PROVE TextInv
    OBVIOUS
  <2>1. PICK tokens \in BoundedSeq(Tokens, MaxTokens), pay \in Pays, workplace \in Modes,
             place \in Modes, mentioned \in Modes, source \in {"lever", "greenhouse", "local_feed"} :
           \E given \in Given(source) :
              reading = [source |-> source, tokens |-> tokens, pay |-> pay,
                         workplace |-> workplace, place |-> place, mentioned |-> mentioned,
                         given |-> given, job |-> [stage |-> "new"]]
    BY DEF TextInit
  <2>2. PICK given \in Given(source) :
           reading = [source |-> source, tokens |-> tokens, pay |-> pay,
                      workplace |-> workplace, place |-> place, mentioned |-> mentioned,
                      given |-> given, job |-> [stage |-> "new"]]
    BY <2>1
  <2>3. tokens \in Seq(Tokens)
    <3>1. PICK m \in 0 .. MaxTokens : tokens \in [1 .. m -> Tokens]
      BY DEF BoundedSeq, SeqOf
    <3>2. m \in Nat
      BY TextAssumption
    <3> QED BY <3>1, <3>2
  <2>4. reading.job.stage = "new" /\ reading.tokens = tokens /\ reading.pay = pay
    BY <2>2
  <2>5. reading = [source |-> reading.source, tokens |-> reading.tokens,
                   pay |-> reading.pay, workplace |-> reading.workplace,
                   place |-> reading.place, mentioned |-> reading.mentioned,
                   given |-> reading.given, job |-> reading.job]
    BY <2>2
  <2> QED BY <2>3, <2>4, <2>5 DEF TextInv, PostingIsReadAsWritten
<1>2. TextInv /\ [build_job]_reading => TextInv'
  <2> SUFFICES ASSUME TextInv, [build_job]_reading PROVE TextInv'
    OBVIOUS
  <2>1. CASE build_job
    <3> DEFINE tokens == reading.tokens
               pay == reading.pay
               lines == html_to_text(tokens)
    <3>1. tokens \in Seq(Tokens) /\ pay \in Pays
      BY <2>1 DEF build_job, TextInv
    <3>2. PICK mode, type :
             reading' = [reading EXCEPT !.job =
                [stage |-> "built", lines |-> lines,
                 requirements |-> split_requirements(tokens, lines),
                 compensation |-> parse_compensation(pay),
                 remote_mode |-> mode, employment_type |-> type]]
      BY <2>1 DEF build_job
    <3>3. reading = [source |-> reading.source, tokens |-> reading.tokens,
                     pay |-> reading.pay, workplace |-> reading.workplace,
                     place |-> reading.place, mentioned |-> reading.mentioned,
                     given |-> reading.given, job |-> reading.job]
      BY <2>1 DEF build_job, TextInv
    <3> DEFINE split == split_requirements(tokens, lines)
               paid == parse_compensation(pay)
               made == [stage |-> "built", lines |-> lines, requirements |-> split,
                        compensation |-> paid, remote_mode |-> mode, employment_type |-> type]
    <3>4. reading' = [reading EXCEPT !.job = made]
      BY <3>2
    <3>5. /\ made.stage = "built" /\ made.lines = lines /\ made.requirements = split
          /\ made.compensation = paid
      OBVIOUS
    <3> HIDE DEF lines, split, paid, made
    <3>6. reading'.job = made /\ reading'.tokens = tokens /\ reading'.pay = pay
      BY <3>3, <3>4
    <3>7. PostingIsReadAsWritten'
      <4> HIDE DEF tokens, pay
      <4> QED BY <3>1, <3>5, <3>6, BuiltAsWritten DEF lines, split, paid
    <3> QED BY <3>5, <3>6, <3>7 DEF TextInv
  <2>2. CASE UNCHANGED reading
    BY <2>2 DEF TextInv, PostingIsReadAsWritten
  <2> QED BY <2>1, <2>2
<1> QED BY <1>1, <1>2, PTL DEF TextSpec

(* No word of a posting is lost or moved, and no more pay is read than it  *)
(* states: PostingIsReadAsWritten for every description, pay and source    *)
(* (html_to_text, split_requirements, parse_compensation).                 *)
THEOREM PostingIsReadAsWrittenAlways == TextSpec => []PostingIsReadAsWritten
<1>1. TextInv => PostingIsReadAsWritten
  BY DEF TextInv
<1> QED BY <1>1, TextInvAlways, PTL
=============================================================================
