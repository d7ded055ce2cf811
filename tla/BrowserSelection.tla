--------------------------- MODULE BrowserSelection ---------------------------
(***************************************************************************)
(* Which browser backend drives an attempt: the driver of the apply URL    *)
(* states what it requires, every registered backend is evaluated against  *)
(* that, the best one is written into the attempt with the requirements it *)
(* was chosen for, and the worker that acquires a session of it later,     *)
(* perhaps after an upgrade of the backend, checks them again.             *)
(*                                                                         *)
(* A backend is its position in the alphabetical order of the slugs. A     *)
(* world says of each backend what its descriptor, its platforms, its      *)
(* metadata and its health probe would answer.                             *)
(***************************************************************************)
EXTENDS Naturals, FiniteSets, Sequences

CONSTANTS
    Backends,       \* how many slugs are registered or preferred
    Offers,         \* the sets of capabilities a backend may advertise
    Preferences,    \* the values of settings.browser.preferred
    Contracts       \* the requirements of the drivers, as records

ASSUME SelectionAssumption ==
    /\ Backends \in Nat \ {0}
    /\ Preferences \subseteq Seq(1..Backends)
    /\ \A c \in Contracts : IsFiniteSet(c.preferred)

VARIABLE selection
\* selection.world: what each backend would answer now; .preferred, .needs;
\* .backend, .snapshot: attempt.browser_backend and attempt.browser_requirements;
\* .serving: the backend a local session was opened on; .phase: the attempt

Slug == 1..Backends
None == 0

\* What stands between a backend and being asked for its capabilities or its
\* health: nothing, or the reason the verdict names.
Standing == {"registered", "not registered", "not constructed", "other platform",
             "probe raised", "unusable"}

Backend == [standing: Standing, capabilities: Offers]

SelectionInit ==
    selection \in [world: [Slug -> Backend], preferred: Preferences, needs: Contracts,
                   backend: {None}, snapshot: {{}}, serving: {None}, phase: {"unbound"}]

missing_from(needs, b) == needs.required \ b.capabilities
preference_score(needs, b) == Cardinality(needs.preferred \cap b.capabilities)

\* The capabilities veto, preference only ranks: a verdict with no rejection.
eligible(world, needs, s) ==
    /\ world[s].standing = "registered"
    /\ needs.backend_slug \in {None, s}
    /\ missing_from(needs, world[s]) = {}

\* The position in the preference list; an unlisted backend ranks last.
rank(preferred, s) ==
    IF \E i \in DOMAIN preferred : preferred[i] = s
    THEN CHOOSE i \in DOMAIN preferred :
            preferred[i] = s /\ \A j \in 1..(i - 1) : preferred[j] # s
    ELSE Len(preferred) + 1

ScoreFirst(x, s, t) ==
    LET score(c) == preference_score(x.needs, x.world[c])
    IN  \/ score(s) > score(t)
        \/ score(s) = score(t) /\ rank(x.preferred, s) < rank(x.preferred, t)
        \/ score(s) = score(t) /\ rank(x.preferred, s) = rank(x.preferred, t) /\ s < t

\* The order evaluate_backends sorts the candidates in.
Before(x, s, t) ==
    LET score(c) == preference_score(x.needs, x.world[c])
        place(c) == rank(x.preferred, c)
    IN  \/ place(s) < place(t)
        \/ place(s) = place(t) /\ score(s) > score(t)
        \/ place(s) = place(t) /\ score(s) = score(t) /\ s < t

select_browser(x) ==
    LET candidates == {s \in Slug : eligible(x.world, x.needs, s)}
    IN  IF candidates = {} THEN None
        ELSE CHOOSE s \in candidates : \A t \in candidates \ {s} : Before(x, s, t)

\* The worker finds the attempt unbound: it records the choice and the contract,
\* or opens an intervention and waits.
select_or_pause ==
    /\ selection.phase = "unbound"
    /\ LET chosen == select_browser(selection)
       IN  selection' =
             IF chosen = None THEN [selection EXCEPT !.phase = "paused"]
             ELSE [selection EXCEPT !.phase = "selected", !.backend = chosen,
                                    !.snapshot = selection.needs.required]

verify_contract(x) ==
    x.snapshot \ x.world[x.backend].capabilities = {}

\* A later task of the attempt acquires its session. The backend is looked up
\* by slug and never substituted, and its health is not probed again.
AcquireSelected ==
    /\ selection.phase \in {"selected", "changed"}
    /\ selection' =
         IF /\ selection.world[selection.backend].standing
                 \notin {"not registered", "not constructed"}
            /\ verify_contract(selection)
         THEN [selection EXCEPT !.phase = "bound", !.serving = selection.backend]
         ELSE [selection EXCEPT !.phase = "refused"]

\* Between the two tasks the host was upgraded, moved or broken.
BackendChanges ==
    /\ selection.phase = "selected"
    /\ \E s \in Slug, b \in Backend :
          selection' = [selection EXCEPT !.world[s] = b, !.phase = "changed"]

SelectionNext == select_or_pause \/ AcquireSelected \/ BackendChanges

SelectionSpec == SelectionInit /\ [][SelectionNext]_selection

-----------------------------------------------------------------------------
Usable(s) ==
    /\ selection.world[s].standing = "registered"
    /\ selection.needs.required \subseteq selection.world[s].capabilities
    /\ selection.needs.backend_slug # None => selection.needs.backend_slug = s

Listed(s) == \E i \in DOMAIN selection.preferred : selection.preferred[i] = s

Earlier(s, t) ==
    /\ Listed(s)
    /\ \/ ~Listed(t)
       \/ \E i \in DOMAIN selection.preferred :
             /\ selection.preferred[i] = s
             /\ \A j \in 1..i : selection.preferred[j] # t

\* Whoever ends up driving the form can do everything its driver requires,
\* although the backend may have changed since it was chosen; it was chosen over
\* no usable backend the user put earlier, nor over an unlisted one that offers
\* more when it is unlisted itself; and the attempt pauses only when none would
\* do (evaluate_backends, LocalBrowserManager._verify_contract).
DrivenByTheContract ==
    /\ selection.serving # None =>
          selection.needs.required \subseteq selection.world[selection.serving].capabilities
    /\ selection.phase = "selected" =>
          LET chosen == selection.backend
              extras(s) == Cardinality(selection.world[s].capabilities
                                          \cap selection.needs.preferred)
          IN  \A s \in Slug \ {chosen} : Usable(s) =>
                 /\ ~Earlier(s, chosen)
                 /\ ~Listed(s) /\ ~Listed(chosen) => extras(chosen) >= extras(s)
    /\ selection.phase = "paused" => \A s \in Slug : ~Usable(s)
=============================================================================
