--------------------------- MODULE MCDrivenSession ---------------------------
(***************************************************************************)
(* What an attempt does in a browser, one part at a time: the backend is   *)
(* selected, the helper and its task space are found, the form is read,    *)
(* answered and filled, and the session is driven on either backend:       *)
(* Playwright has tabs and never gives control away, ego lite gives        *)
(* control away and has no tabs. The other parts stay as they were.        *)
(***************************************************************************)
EXTENDS SessionTabs, TaskSpace, BrowserSelection, FormAnswers, PageForm, EgoHelper

VARIABLE part

vars == <<part, tabs, control, selection, form, visit, ego>>

\* The capabilities the contracts of the drivers tell backends apart by.
MCOffers == {{"screenshot"}, {"file_upload", "screenshot"},
             {"file_upload", "human_handoff", "screenshot"}}

MCPreferences == {<<>>, <<1>>, <<2>>, <<2, 1>>}

PublicForm == [required |-> {"file_upload"}, preferred |-> {"human_handoff", "screenshot"},
               backend_slug |-> 0]
Submission == [required |-> {"file_upload", "human_handoff"}, preferred |-> {"screenshot"},
               backend_slug |-> 0]
MCContracts == {PublicForm, Submission, [PublicForm EXCEPT !.backend_slug = 2]}

MCOverrides == {<<>>, [ordinary |-> "reuse_approved"], [ordinary |-> "never_answer"]}
MCCitations == {{}, {1}, {1, 2}}

\* What the site may add to a page: a twin by id, a control that only its position tells
\* apart, and a radio.
MCArrivals ==
    {Control("text", "first", Absent, Absent, "First name"),
     Control("text", Absent, Absent, Absent, "Why us"),
     Control("radio", Absent, "visa", "yes", "Yes")}
MCControls ==
    MCArrivals \cup
    {Control("text", Absent, "last", Absent, "Last name"),
     [Control("text", Absent, "last", Absent, Absent) EXCEPT !.visible = FALSE],
     [Control("text", Absent, Absent, Absent, "Search") EXCEPT !.role = "searchbox"],
     [Control("text", Absent, "salary", Absent, "Salary") EXCEPT !.disabled = TRUE],
     Control("radio", Absent, "visa", "no", "No"),
     [Control("radio", Absent, "visa", "yes", "Yes") EXCEPT !.form = 2],
     [Control("select", Absent, "visa", Absent, "Visa") EXCEPT !.role = "radio"],
     Control("checkbox", Absent, "terms", Absent, "Agree"),
     [Control("div", Absent, Absent, Absent, "Custom") EXCEPT !.role = "radio", !.aria_label = "Custom"],
     Control("file", "resume", Absent, Absent, "Resume"),
     Control("button", Absent, Absent, Absent, "Submit"),
     Control("button", Absent, Absent, Absent, "Remove file"),
     [Control("button", Absent, Absent, Absent, "Submit") EXCEPT !.disabled = TRUE]}
MCPages == BoundedSeq(MCControls, 2)
MCTexts == {{}, {"captcha", "rate limit"}}

Installed(platform, configured, on_path, bundled, program) ==
    [platform |-> platform, configured |-> configured, on_path |-> on_path,
     bundled |-> bundled, program |-> program]
MCMachines ==
    {Installed("darwin", "unset", FALSE, FALSE, "flat"),
     Installed("darwin", "unset", TRUE, TRUE, "flat"),
     Installed("darwin", "unset", FALSE, TRUE, "object"),
     Installed("darwin", "missing", TRUE, TRUE, "flat"),
     Installed("darwin", "file", TRUE, FALSE, "unknown"),
     Installed("darwin", "unset", TRUE, FALSE, "mute"),
     Installed("darwin", "unset", TRUE, FALSE, "cannot start"),
     Installed("linux", "unset", TRUE, FALSE, "flat")}

IdleEgo == [machine |-> Installed("linux", "unset", FALSE, FALSE, "flat"),
            spaces |-> [n \in Names |-> NoNumber], created |-> 0, helper |-> Nowhere,
            surface |-> Unprobed, session |-> NoSession, saved |-> NoRef,
            usable |-> FALSE, astray |-> FALSE]
IdleSelection == [world |-> [s \in Slug |-> [standing |-> "not registered",
                                              capabilities |-> {}]],
                  preferred |-> <<>>, needs |-> PublicForm, backend |-> None,
                  snapshot |-> {}, serving |-> None, phase |-> "unbound"]
IdleForm == [page |-> [q \in Question |-> [sensitivity |-> "ordinary", required |-> FALSE]],
             overrides |-> <<>>, mode |-> "research_only",
             defaults |-> [q \in Question |-> NoDefault],
             claims |-> [c \in Claims |-> NoClaim], drafts |-> [q \in Question |-> NoDraft],
             open |-> 0, state |-> "pending", typed |-> Blank, visits |-> 0,
             vouched |-> [q \in Question |-> {}]]

IdleVisit == [backend |-> "playwright", page |-> <<>>, shows |-> {}, keys |-> 0, todo |-> {},
              phase |-> "opened", changed |-> FALSE, changes |-> 0, acted |-> NoAction]

\* Who calls makes no difference to the tabs.
Init ==
    /\ part \in {"playwright", "ego_lite", "selection", "form", "page", "helper"}
    /\ TabsInit /\ SpaceInit
    /\ part # "ego_lite" => ~hosted
    /\ IF part = "selection" THEN SelectionInit ELSE selection = IdleSelection
    /\ IF part = "form" THEN FormInit ELSE form = IdleForm
    /\ IF part = "page" THEN PageInit ELSE visit = IdleVisit
    /\ IF part = "helper" THEN EgoInit ELSE ego = IdleEgo

Playwright ==
    part = "playwright" /\ TabsNext /\ UNCHANGED <<part, control, selection, form, visit, ego>>
EgoLite ==
    part = "ego_lite" /\ SpaceNext /\ UNCHANGED <<part, tabs, selection, form, visit, ego>>
Selecting ==
    part = "selection" /\ SelectionNext /\ UNCHANGED <<part, tabs, control, form, visit, ego>>
Answering ==
    part = "form" /\ FormNext /\ UNCHANGED <<part, tabs, control, selection, visit, ego>>
Filling == part = "page" /\ PageNext /\ UNCHANGED <<part, tabs, control, selection, form, ego>>
Helping ==
    part = "helper" /\ EgoNext /\ UNCHANGED <<part, tabs, control, selection, form, visit>>
Next == Playwright \/ EgoLite \/ Selecting \/ Answering \/ Filling \/ Helping

Spec == Init /\ [][Next]_vars
=============================================================================
