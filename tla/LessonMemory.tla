---------------------------- MODULE LessonMemory -----------------------------
(***************************************************************************)
(* What the system knows and how it knows it: the lessons of the memory    *)
(* store, which are reinforced, contradicted and superseded but never      *)
(* deleted, what is learned from the edits of a person and from outcomes,  *)
(* the bundle of lessons that grounds a generation, and the level of a     *)
(* claim of the ledger. Texts are left out, except for what the learning   *)
(* tells apart in them and how much of the budget a lesson takes.          *)
(*                                                                         *)
(* Every operation runs in one unit of work, whose reads and writes are    *)
(* one step: discovery, the one caller, holds the write lock by then. The  *)
(* clock ticks between any two readings of it.                             *)
(***************************************************************************)
EXTENDS Naturals, FiniteSets, Sequences, SequencesExt

CONSTANTS
    Addresses,      \* the addresses of lessons: [kind, key]; one scope per kind
    Edits,          \* the edits a person makes of a generated text, see edit_kinds
    MaxLessons,     \* bound on the lessons of a run
    MaxMoments,     \* bound on the readings of the clock
    MaxBundled      \* budget of a bundle, in sizes

ASSUME MemoryAssumption == MaxLessons \in Nat /\ MaxMoments \in Nat /\ MaxBundled \in Nat

VARIABLE memory
\* memory.lessons: the records in the order of their creation, the position is the id;
\* .clock: readings of the clock; .claim: one claim of the ledger; .raised: the last
\* operation raised and changed nothing

LEVEL_RANK ==
    [model_suggestion |-> 0, inferred |-> 1, external_research |-> 2,
     generated_wording |-> 3, preference |-> 4, user_approved |-> 5, verified |-> 6]
AssertionLevel == DOMAIN LEVEL_RANK
FACTUAL_LEVELS == {"verified", "user_approved"}

can_auto_promote(current, target) ==
    \/ target = current
    \/ /\ target \notin FACTUAL_LEVELS
       /\ \/ LEVEL_RANK[target] < LEVEL_RANK[current]
          \/ <<current, target>> \in {<<"model_suggestion", "inferred">>,
                                      <<"model_suggestion", "external_research">>,
                                      <<"inferred", "external_research">>}

-----------------------------------------------------------------------------
(* Lessons.                                                                *)

\* by: the lesson that replaced it, 0 is none; vouched: the person set its level
Lesson(address, level, size, vouched, moment) ==
    [address |-> address, level |-> level, size |-> size, supporting |-> 1,
     contradicting |-> 0, by |-> 0, at |-> moment, vouched |-> vouched]

lessons == memory.lessons
Ids == DOMAIN lessons

\* confidence, the Laplace-smoothed support ratio, is at least num / den
Confident(r, num, den) ==
    den * (r.supporting + 1) >= num * (r.supporting + r.contradicting + 2)
MoreConfident(r, s) ==
    (r.supporting + 1) * (s.supporting + s.contradicting + 2)
        > (s.supporting + 1) * (r.supporting + r.contradicting + 2)

\* MemoryRepository.find: the lesson of the address that was written last, 0 for none;
\* superseded lessons are found as well.
find(address) ==
    LET found == {i \in Ids : lessons[i].address = address}
    IN  IF found = {} THEN 0
        ELSE CHOOSE i \in found : \A j \in found : lessons[j].at <= lessons[i].at

\* MemoryRepository.search, the lessons of a kind that nothing superseded
Standing(kind) == {i \in Ids : lessons[i].address.kind = kind /\ lessons[i].by = 0}

RefusesMachine(level) == ~can_auto_promote("inferred", level)

\* A lesson that is there is reinforced and keeps its level, whoever set that.
reinforced(r, size, moment) ==
    [r EXCEPT !.supporting = @ + 1, !.size = size, !.at = moment]

Remembered(address, level, size, by_user) ==
    LET i == find(address)
        moment == memory.clock + 1
    IN  IF i = 0
        THEN Append(lessons, Lesson(address, level, size, by_user, moment))
        ELSE [lessons EXCEPT ![i] = reinforced(@, size, moment)]

RaisesError == memory' = [memory EXCEPT !.raised = TRUE]

remember(address, level, size, by_user) ==
    \/ ~by_user /\ RefusesMachine(level) /\ RaisesError
    \/ /\ by_user \/ ~RefusesMachine(level)
       /\ find(address) = 0 => Len(lessons) < MaxLessons
       /\ memory.clock < MaxMoments
       /\ memory' = [memory EXCEPT !.clock = @ + 1, !.raised = FALSE,
                        !.lessons = Remembered(address, level, size, by_user)]

\* Its replacement starts afresh, with the words of the one that fell.
Replacement(r, moment) == Lesson(r.address, "inferred", r.size, FALSE, moment)

TippedByThen(r, before) == ~Confident(before, 1, 2)
Tipped(r, before) == ~Confident(r, 1, 2)

contradict(address) ==
    LET i == find(address)
        moment == memory.clock + 1
    IN  /\ i # 0 /\ memory.clock + 2 <= MaxMoments
        /\ LET r == [lessons[i] EXCEPT !.contradicting = @ + 1, !.at = moment]
           IN  IF Tipped(r, lessons[i])
               THEN /\ Len(lessons) < MaxLessons
                    /\ memory' = [memory EXCEPT !.clock = @ + 2, !.raised = FALSE,
                         !.lessons = Append([@ EXCEPT ![i] = [r EXCEPT !.by = Len(lessons) + 1]],
                                            Replacement(r, moment + 1))]
               ELSE memory' = [memory EXCEPT !.clock = @ + 1, !.lessons[i] = r,
                                                !.raised = FALSE]

\* The lesson that gives way is looked for among those of the replacement's kind. Nothing
\* but its pointer changes, so the row takes the time of the write: later than that of
\* its replacement.
supersede(id, address, level, size) ==
    /\ Len(lessons) < MaxLessons /\ memory.clock + 2 <= MaxMoments
    /\ LET replacement == Lesson(address, level, size, TRUE, memory.clock + 1)
           old == [lessons[id] EXCEPT !.by = Len(lessons) + 1, !.at = memory.clock + 2]
           found == lessons[id].address.kind = address.kind /\ lessons[id].by = 0
       IN  memory' = [memory EXCEPT !.clock = @ + 2, !.raised = FALSE,
                !.lessons = Append(IF found THEN [@ EXCEPT ![id] = old] ELSE @, replacement)]

-----------------------------------------------------------------------------
(* Learning.                                                               *)

\* Any edit is a change of wording when it is no other.
edit_kinds(edit) ==
    LET both == edit.generated # "blank" /\ edit.user # "blank"
        kinds == {k \in {"omission", "inclusion", "wording", "length", "fact_correction",
                         "ordering", "tone"} :
                    CASE k = "omission"  -> edit.generated # "blank" /\ edit.user = "blank"
                      [] k = "inclusion" -> edit.generated = "blank" /\ edit.user # "blank"
                      [] k = "wording"   -> both /\ "little in common" \in edit.differs
                      [] k = "length"    -> both /\ "length" \in edit.differs
                      [] k = "fact_correction" -> both /\ "numbers" \in edit.differs
                      [] k = "ordering"  -> both /\ "only the order" \in edit.differs
                      [] k = "tone"      -> both /\ "tone" \in edit.differs}
    IN  IF kinds = {} THEN {"wording"} ELSE kinds

\* A text has phrases when one of its sentences is longer than ten characters; a phrase
\* of the person counts when the generated text does not hold it.
extract_phrases(text) == text = "phrases"

\* The preferences an edit shows are written as a machine's, which the store refuses: the
\* error ends the learning, and nothing of the edit is kept.
PreferencesOf(edit) ==
    \/ "omission" \in edit_kinds(edit) /\ extract_phrases(edit.generated)
    \/ /\ edit_kinds(edit) \cap {"inclusion", "wording"} # {}
       /\ extract_phrases(edit.user) /\ "phrases" \in edit.differs

apply_signal(edit) ==
    \/ PreferencesOf(edit) /\ RefusesMachine("preference") /\ RaisesError
    \/ /\ ~(PreferencesOf(edit) /\ RefusesMachine("preference"))
       /\ "fact_correction" \in edit_kinds(edit)
       /\ \E a \in Addresses : /\ a.kind = "factual_career"
                               /\ remember(a, "inferred", 2, FALSE)

\* An approval is written as the machine's as well.
record_approval ==
    remember([kind |-> "user_preference", key |-> 0], "preference", 1, FALSE)

\* An outcome whose delay is not known cannot be put into words, and is not kept.
record_outcome(days_known) ==
    \/ ~days_known /\ RaisesError
    \/ days_known /\ \E a \in Addresses : a.kind = "outcome" /\ remember(a, "inferred", 2, FALSE)

\* DiscoveryService._record_failures
record_failure ==
    \E a \in Addresses : a.kind = "job_source" /\ remember(a, "inferred", 1, FALSE)

-----------------------------------------------------------------------------
(* Recall.                                                                 *)

Before(i, j) ==
    \/ MoreConfident(lessons[i], lessons[j])
    \/ ~MoreConfident(lessons[j], lessons[i]) /\ lessons[i].at > lessons[j].at

\* Expiry is not looked at. MaxLessons is below every limit of the code.
recall(kind) == {i \in Standing(kind) : Confident(lessons[i], 3, 10)}

\* Of one address the best lesson; then as many of the best as the budget takes.
Unique(kinds) ==
    LET all == UNION {recall(k) : k \in kinds}
    IN  {i \in all : \A j \in all : lessons[j].address = lessons[i].address => ~Before(j, i)}

\* The units of the budget they take together.
SizeOf(ids) == Cardinality(UNION {{i} \X (1 .. lessons[i].size) : i \in ids})

bundle(kinds) ==
    LET unique == Unique(kinds)
    IN  {i \in unique : SizeOf({j \in unique : Before(j, i)} \cup {i}) <= MaxBundled}

-----------------------------------------------------------------------------
(* The claim. It is stated with a provenance when it is factual; a copy of *)
(* it at another level is not validated again until it is read back.       *)

is_factual(claim) == claim.level \in FACTUAL_LEVELS /\ claim.stands

promote(target, by_user) ==
    \/ ~by_user /\ ~can_auto_promote(memory.claim.level, target) /\ RaisesError
    \/ /\ by_user \/ can_auto_promote(memory.claim.level, target)
       /\ memory' = [memory EXCEPT !.raised = FALSE, !.claim.level = target,
             !.claim.vouched = IF by_user THEN TRUE ELSE @ /\ target = memory.claim.level]

\* A stronger claim took its place.
Retire ==
    /\ memory.claim.stands
    /\ memory' = [memory EXCEPT !.claim.stands = FALSE, !.raised = FALSE]

-----------------------------------------------------------------------------
MemoryInit ==
    \E level \in AssertionLevel :
        memory = [lessons |-> <<>>, clock |-> 0, raised |-> FALSE,
                  claim |-> [level |-> level, stands |-> TRUE,
                             vouched |-> level \in FACTUAL_LEVELS]]

LessonNext ==
    \/ \E a \in Addresses : remember(a, "verified", 1, TRUE)
    \/ \E a \in Addresses : contradict(a)
    \/ \E i \in Ids, a \in Addresses : supersede(i, a, "user_approved", 1)
    \/ \E edit \in Edits : apply_signal(edit)
    \/ \E days_known \in BOOLEAN : record_outcome(days_known)
    \/ record_failure \/ record_approval

ClaimNext ==
    \/ \E target \in AssertionLevel, by_user \in BOOLEAN : promote(target, by_user)
    \/ Retire

MemorySpec == MemoryInit /\ [][LessonNext \/ ClaimNext]_memory

-----------------------------------------------------------------------------
(* A lesson that stands was confirmed at least as often as it was          *)
(* contradicted; one that fell points to a later one, so that the pointers *)
(* lead to a lesson that stands (remember, contradict, supersede).         *)
LessonsStandOrFall ==
    \A i \in Ids :
        /\ lessons[i].by = 0 => lessons[i].supporting >= lessons[i].contradicting
        /\ lessons[i].by # 0 => lessons[i].by \in Ids /\ lessons[i].by > i

\* What is held as a fact, a lesson or the claim, was made one by the person.
FactsAreThePersons ==
    /\ \A i \in Ids : lessons[i].level \in FACTUAL_LEVELS => lessons[i].vouched
    /\ is_factual(memory.claim) => memory.claim.vouched

\* A bundle fits its budget, says one thing of each address, and leaves no lesson that
\* stands out for a weaker one.
BundleIsTheBest ==
    LET kinds == {a.kind : a \in Addresses}
        kept == bundle(kinds)
    IN  /\ SizeOf(kept) <= MaxBundled
        /\ \A i, j \in kept : lessons[i].address = lessons[j].address => i = j
        /\ \A i \in kept, j \in Ids \ kept :
              Before(j, i) => \/ lessons[j].by # 0
                              \/ \E k \in kept : lessons[k].address = lessons[j].address

(* However lessons are reinforced, contradicted and replaced, and whatever *)
(* the machine and the person write in turn, what stands is what the       *)
(* observations bear out, what fell leads to what replaced it, a fact is   *)
(* the person's, and a generation is grounded in the best of it (the       *)
(* memory store, its retrieval and the levels of provenance).              *)
KnowledgeIsEarned == LessonsStandOrFall /\ FactsAreThePersons /\ BundleIsTheBest
=============================================================================
