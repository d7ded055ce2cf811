------------------------------ MODULE PageForm ------------------------------
(***************************************************************************)
(* One visit to an application form: the page is scanned, every control of *)
(* the scan is given a locator, the labelled ones become questions, and    *)
(* the answers, the files and the submit click are then sent to locators   *)
(* while the site goes on changing its page. A page is the sequence of its *)
(* controls in document order; a control is told apart by its key, which   *)
(* neither the program nor a selector can see.                             *)
(***************************************************************************)
EXTENDS Naturals, Sequences, FiniteSets, SequencesExt, FiniteSetsExt

CONSTANTS
    Pool,       \* the controls that occur, by attributes
    Pages,      \* the pages to begin with, as sequences over Pool
    Texts,      \* sets of wordings a page may show
    MaxChanges  \* bound: how often the site changes the page

VARIABLE visit
\* visit.backend; .page, .shows: the page; .keys: keys given out; .todo: the tasks the
\* scan left to do; .changed: the page is not the scanned one; .changes: bound
\* counter; .acted: history, the last action, its page and where it landed

Absent == "none"
Tags == {"text", "checkbox", "radio", "select", "file", "button", "div"}
Controls ==
    [tag : Tags, role : STRING, id : STRING, name : STRING, value : STRING, label : STRING,
     aria_label : STRING, form : Nat, visible : BOOLEAN, disabled : BOOLEAN, key : Nat]
Control(tag, id, name, value, label) ==
    [tag |-> tag, role |-> Absent, id |-> id, name |-> name, value |-> value, label |-> label,
     aria_label |-> Absent, form |-> 1, visible |-> TRUE, disabled |-> FALSE, key |-> 0]

ASSUME PageAssumption == Pool \subseteq Controls /\ \A p \in Pages : p \in Seq(Controls)

-----------------------------------------------------------------------------
(* Selectors, as the browser matches them.                                 *)

Selector(by, keys) == [by |-> by, keys |-> keys]

Attributes(c) ==
    {s \in {Selector("id", <<c.id>>), Selector("name", <<c.name>>),
            Selector("name and value", <<c.name, c.value>>),
            Selector("aria-label", <<c.aria_label>>)} : \A k \in DOMAIN s.keys : s.keys[k] # Absent}

nth_group(c) == IF c.role # Absent THEN <<"role", c.role>> ELSE <<"tag", c.tag>>

\* The visible controls of a group.
Peers(page, group) == {j \in DOMAIN page : page[j].visible /\ nth_group(page[j]) = group}
Ahead(positions, i) == {j \in positions : j < i}

index_in_group(page, i) == Cardinality(Ahead(Peers(page, nth_group(page[i])), i))

nth_selector(page, i) ==
    [by |-> "nth", keys |-> nth_group(page[i]), index |-> index_in_group(page, i)]

Matching(page, s) ==
    IF s.by # "nth" THEN {i \in DOMAIN page : s \in Attributes(page[i])}
    ELSE {i \in Peers(page, s.keys) : Cardinality(Ahead(Peers(page, s.keys), i)) = s.index}

-----------------------------------------------------------------------------
(* The scan.                                                               *)

classify(c) ==
    IF c.tag = "select" \/ (c.role = "combobox" /\ c.tag # "text") THEN "select"
    ELSE IF c.tag = "button" THEN "button"
    ELSE IF c.tag = "file" THEN "file_input"
    ELSE IF c.tag = "checkbox" \/ (c.role = "checkbox" /\ c.tag # "radio") THEN "checkbox"
    ELSE IF c.tag = "radio" \/ c.role = "radio" THEN "radio"
    ELSE IF c.role = "button" THEN "button"
    ELSE "textbox"

\* The three places an attribute selector is looked for, the best first.
locator_candidates(c) ==
    <<Selector("id", <<c.id>>),
      IF c.tag = "radio" /\ c.value # Absent
      THEN Selector("name and value", <<c.name, c.value>>) ELSE Selector("name", <<c.name>>),
      Selector("aria-label", <<c.aria_label>>)>>

\* Unique in the whole document, the hidden controls included.
unique(page, s) == Cardinality(Matching(page, s)) = 1

FirstUnused(page, i, used) ==
    LET candidates == locator_candidates(page[i])
        free == {n \in 1..3 : candidates[n] \in Attributes(page[i]) \ used}
    IN  IF free = {} THEN nth_selector(page, i) ELSE candidates[Min(free)]

build_locator(page, i, used) ==
    LET candidates == locator_candidates(page[i])
        free == {n \in 1..3 : /\ candidates[n] \in Attributes(page[i]) \ used
                              /\ unique(page, candidates[n])}
    IN  IF free = {} THEN nth_selector(page, i) ELSE candidates[Min(free)]

Element(locator, i, control) == [locator |-> locator, at |-> i, control |-> control]

\* The visible controls are given their locators in document order.
Staged(page, n, elements) ==
    LET used == {e.locator : e \in elements}
    IN  IF ~page[n].visible THEN elements
        ELSE elements \cup {Element(build_locator(page, n, used), n, page[n])}
elements_from_metadata(page) ==
    LET after[n \in 0..Len(page)] == IF n = 0 THEN {} ELSE Staged(page, n, after[n - 1])
    IN  after[Len(page)]

\* EgoLiteSession._observation_from takes the scan for a record; it is a list.
Scanned(v) == IF v.backend = "playwright" THEN elements_from_metadata(v.page) ELSE {}

is_unsupported(c) ==
    \/ classify(c) \in {"radio", "checkbox"} /\ c.tag # classify(c)
    \/ classify(c) = "select" /\ c.role = "combobox"

IsAsked(c) ==
    /\ classify(c) \in {"textbox", "select", "checkbox", "radio"}
    /\ ~c.disabled /\ ~is_unsupported(c) /\ c.label # Absent /\ c.role # "searchbox"

SameGroup(c, d) ==
    /\ classify(c) = "radio" /\ classify(d) = "radio"
    /\ d.name # Absent /\ c.name = d.name /\ c.form = d.form

\* One step of the visit, to the locator of an element; meant are the controls it may
\* land in.
Task(op, element, meant) ==
    [op |-> op, at |-> element.at, locator |-> element.locator,
     role |-> classify(element.control), meant |-> meant]

\* A radio group is one question, at the first of its radios.
Leads(e, elements) ==
    /\ IsAsked(e.control)
    /\ \A f \in elements : f.at < e.at => ~(IsAsked(f.control) /\ SameGroup(f.control, e.control))
Group(e, elements) ==
    {e.control} \cup {f.control : f \in {f \in elements : /\ SameGroup(e.control, f.control)
                                                         /\ ~f.control.disabled
                                                         /\ ~is_unsupported(f.control)}}
questions_from_elements(elements) ==
    {Task("fill", e, Group(e, elements)) : e \in {e \in elements : Leads(e, elements)}}

is_submit(e) == classify(e.control) = "button" /\ e.control.label = "Submit"

\* apply_ready_answers, upload_documents and the click on the first submit button, all
\* to locators of the one observation.
Plan(elements) ==
    questions_from_elements(elements)
    \cup {Task("upload", e, {e.control}) : e \in {e \in elements : classify(e.control) = "file_input"}}
    \cup {Task("click", e, {e.control}) :
            e \in {e \in elements : /\ is_submit(e)
                                    /\ \A f \in elements : is_submit(f) => e.at <= f.at}}

Turn(op) == IF op = "fill" THEN 1 ELSE IF op = "upload" THEN 2 ELSE 3
ComesBefore(t, u) == Turn(t.op) < Turn(u.op) \/ (t.op = u.op /\ t.at < u.at)

\* The wordings are looked for in this order.
detect_condition(shows) ==
    IF "captcha" \in shows THEN "human_challenge"
    ELSE IF "access denied" \in shows THEN "automation_blocked"
    ELSE IF "sign in" \in shows THEN "login_required"
    ELSE IF "rate limit" \in shows THEN "rate_limited"
    ELSE IF "not found" \in shows THEN "not_found"
    ELSE "ok"
HANDOFF_CONDITIONS == {"login_required", "automation_blocked", "human_challenge"}

-----------------------------------------------------------------------------
NoAction == [landed |-> {}]
Keyed(controls) == [i \in DOMAIN controls |-> [controls[i] EXCEPT !.key = i]]

PageInit ==
    \E backend \in {"playwright", "ego_lite"}, p \in Pages, shows \in Texts :
        visit = [backend |-> backend, page |-> Keyed(p), shows |-> shows, keys |-> Len(p),
                 todo |-> {}, phase |-> "opened", changed |-> FALSE, changes |-> 0,
                 acted |-> NoAction]

\* navigate and observe, then handoff_for.
Observe ==
    /\ visit.phase = "opened"
    /\ visit' = [visit EXCEPT
         !.phase = "read",
         !.todo = IF detect_condition(visit.shows) \in HANDOFF_CONDITIONS THEN {}
                  ELSE Plan(Scanned(visit))]

Operable(c) == c.visible /\ ~c.disabled

FirstMatch(page, s, op) ==
    {i \in Matching(page, s) : /\ \A j \in Matching(page, s) : i <= j
                              /\ op # "upload" => Operable(page[i])}

\* fill, check, select, set_input_files and click refuse a locator that matches two.
Strict(page, s, op) ==
    LET found == Matching(page, s)
    IN  IF Cardinality(found) # 1 THEN {}
        ELSE {i \in found : op # "upload" => Operable(page[i])}

checked_from_answer(answer) == answer \in {"yes", "no"}

\* The radios of the name and form of the first match, or without a name what matches:
\* the first that fits is checked.
InGroup(c, d) == d.tag = "radio" /\ c.name = d.name /\ c.form = d.form
fill_radio(page, s, answer) ==
    LET first == page[Min(Matching(page, s))]
        group == IF first.name # Absent THEN {j \in DOMAIN page : InGroup(first, page[j])}
                 ELSE {j \in Matching(page, s) : page[j].form = first.form}
        fitting == {j \in group : /\ page[j].tag \in {"radio", "checkbox", "text", "file"}
                                  /\ ~page[j].disabled /\ page[j].value = answer}
    IN  {j \in fitting : /\ \A o \in fitting : j <= o
                         /\ page[j].tag \in {"radio", "checkbox"} /\ page[j].visible}

IsCustom(c) ==
    c.tag \in {"select", "button", "div"} /\ c.role \in {"radio", "checkbox"}

\* What kind of control it is, is asked of the first match.
fill_field(page, s, answer) ==
    LET first == page[Min(Matching(page, s))]
    IN  IF Matching(page, s) = {} \/ IsCustom(first) THEN {}
        ELSE IF "radio" \in {first.tag, first.role} THEN fill_radio(page, s, answer)
        ELSE IF "checkbox" \in {first.tag, first.role}
        THEN IF checked_from_answer(answer) THEN Strict(page, s, "fill") ELSE {}
        ELSE Strict(page, s, "fill")

Reached(task, answer) ==
    IF task.op = "fill" THEN fill_field(visit.page, task.locator, answer)
    ELSE Strict(visit.page, task.locator, task.op)

\* An action that fails is not looked at again: the visit goes on.
Perform ==
    /\ visit.phase = "read"
    /\ \E task \in visit.todo, answer \in {"yes", "no", "other"} :
         /\ \A other \in visit.todo : other = task \/ ComesBefore(task, other)
         /\ task.op # "fill" => answer = "yes"
         /\ visit' = [visit EXCEPT
              !.todo = @ \ {task},
              !.acted = [task |-> task, answer |-> answer, on |-> visit.changed,
                         page |-> visit.page,
                         landed |-> {visit.page[i] : i \in Reached(task, answer)}]]

\* The site changes the page while there is something left to do on it: a control
\* appears, goes, hides or shows. A change before the scan is another page to begin with.
SiteChanges ==
    /\ visit.changes < MaxChanges /\ visit.todo # {}
    /\ \/ \E c \in Pool, i \in 1..(Len(visit.page) + 1) :
            visit' = [visit EXCEPT
                !.page = InsertAt(visit.page, i, [c EXCEPT !.key = visit.keys + 1]),
                !.keys = @ + 1, !.changes = @ + 1, !.changed = TRUE]
       \/ \E i \in DOMAIN visit.page :
            visit' = [visit EXCEPT
                !.page = RemoveAt(visit.page, i), !.changes = @ + 1, !.changed = TRUE]
       \/ \E i \in DOMAIN visit.page :
            visit' = [visit EXCEPT
                !.page[i].visible = ~@, !.changes = @ + 1, !.changed = TRUE]

PageNext == Observe \/ Perform \/ SiteChanges

PageSpec == PageInit /\ [][PageNext]_visit

-----------------------------------------------------------------------------
(* An answer, a file or the submit click lands in the control the scan     *)
(* read it for, or nowhere: two controls of one name, a hidden twin, a     *)
(* radio of another form do not divert it. A control that says it is a     *)
(* radio stands for the radios of its name and form. On a page that has    *)
(* changed since, this still holds while the control stands and is found   *)
(* by an attribute rather than by its position, but for an answer whose    *)
(* first match has become a radio. And on the page that was scanned what   *)
(* fits the control does land, unless a hidden radio of its group comes    *)
(* first (build_playwright_locator, fill_field).                           *)
IsRadio(c) == "radio" \in {c.tag, c.role}
Meant(task, c) == \E d \in task.meant : d.key = c.key \/ (IsRadio(d) /\ InGroup(d, c))
IsStillThere(task, page) == \A d \in task.meant : \E i \in DOMAIN page : page[i].key = d.key
RadioComesFirst(task, page) ==
    \E i \in Matching(page, task.locator) :
        IsRadio(page[i]) /\ \A j \in Matching(page, task.locator) : i <= j

FitsControl(task, answer, page) ==
    CASE task.op = "upload" -> TRUE
      [] task.op = "click" -> \A d \in task.meant : ~d.disabled
      [] task.op = "fill" /\ task.role = "radio" ->
            \E d \in task.meant :
               /\ d.value = answer
               /\ \A i \in DOMAIN page :
                     InGroup(d, page[i]) /\ page[i].value = answer => page[i].visible
      [] task.op = "fill" /\ task.role # "radio" ->
            /\ \A d \in task.meant : d.role # "radio" /\ ~IsCustom(d)
            /\ task.role = "checkbox" => checked_from_answer(answer)

AnswersLandWhereRead ==
    LET a == visit.acted
    IN  a # NoAction =>
          /\ ~a.on => \A c \in a.landed : Meant(a.task, c)
          /\ a.task.locator.by # "nth" /\ IsStillThere(a.task, a.page)
                => \/ a.task.op = "fill" /\ RadioComesFirst(a.task, a.page)
                   \/ \A c \in a.landed : Meant(a.task, c)
          /\ ~a.on /\ FitsControl(a.task, a.answer, a.page) => a.landed # {}
=============================================================================
