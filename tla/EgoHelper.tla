------------------------------ MODULE EgoHelper -------------------------------
(***************************************************************************)
(* The ego lite backend: the helper it finds on the machine, the language  *)
(* the helper speaks, and the task space a session works in. All three are *)
(* remembered, by the backend or by a checkpoint, and the machine, the app *)
(* and its spaces change meanwhile. A space has a name, which lasts, and a *)
(* number, which only the program that entered it learns.                  *)
(***************************************************************************)
EXTENDS Naturals

CONSTANTS
    Machines,       \* what may be installed, as records
    Names,          \* the names of the task spaces, LocalName among them
    LocalName,      \* the name made of the id of the session
    MaxSpaces       \* bound on the spaces the app ever creates

ASSUME HelperAssumption == LocalName \in Names /\ 0 \notin Names /\ MaxSpaces \in Nat

VARIABLE ego
\* ego.machine; .spaces: the number of the space of each name, and .created, the last
\* number given; .helper, .surface: EgoLiteBackend._helper and _surface; .session:
\* TaskSpaceRef and surface of the session, and the name it was opened for; .saved:
\* backend_state of the last checkpoint; .usable: health said so and nothing changed since;
\* .astray: history, a program of a session ran in a space of another name

Nowhere == "nowhere"
Unprobed == "unprobed"
NoNumber == 0
NoRef == [name |-> 0, number |-> NoNumber]
NoSession == [ref |-> NoRef, surface |-> Unprobed, meant |-> 0]

Programs == {"flat", "object", "unknown", "mute", "fails", "cannot start"}

EgoInit ==
    ego \in [machine: Machines, spaces: {[n \in Names |-> NoNumber]}, created: {0},
             helper: {Nowhere}, surface: {Unprobed}, session: {NoSession},
             saved: {NoRef}, usable: {FALSE}, astray: {FALSE}]

-----------------------------------------------------------------------------
(* Detection.                                                              *)

\* A configured binary is the only one looked at.
locate_helper(m) ==
    IF m.configured = "file" THEN "configured"
    ELSE IF m.configured = "missing" THEN Nowhere
    ELSE IF m.on_path THEN "path"
    ELSE IF m.bundled THEN "bundle"
    ELSE Nowhere

Starts(m, helper) ==
    /\ m.program # "cannot start"
    /\ \/ helper = "configured" /\ m.configured = "file"
       \/ helper = "path" /\ m.on_path
       \/ helper = "bundle" /\ m.bundled

smoke_test(m, helper) ==
    Starts(m, helper) /\ m.program \in {"flat", "object", "unknown"}

\* A probe that fails or runs out of time says as little as a strange build does.
detect_surface(e) ==
    IF e.surface # Unprobed THEN {e.surface}
    ELSE {"unknown"} \cup ({e.machine.program} \cap {"flat", "object"})

FirstFound(e) == IF e.helper = Nowhere THEN locate_helper(e.machine) ELSE e.helper
\* A helper that is found is kept, whatever it does when it is run.
Found(e) == IF locate_helper(e.machine) = Nowhere THEN e.helper ELSE locate_helper(e.machine)

health ==
    LET m == ego.machine
    IN  IF m.platform # "darwin" THEN ego' = [ego EXCEPT !.usable = FALSE]
        ELSE IF smoke_test(m, locate_helper(m))
        THEN \E known \in detect_surface(ego) :
                ego' = [ego EXCEPT !.usable = TRUE, !.helper = Found(ego), !.surface = known]
        ELSE ego' = [ego EXCEPT !.usable = FALSE, !.helper = Found(ego)]

-----------------------------------------------------------------------------
(* Sessions.                                                               *)

resume_task_space(resume) ==
    IF resume = NoRef THEN [name |-> LocalName, number |-> NoNumber] ELSE resume

SameNumber(resume, requested) ==
    IF requested = 0 THEN resume_task_space(resume)
    ELSE [resume_task_space(resume) EXCEPT !.name = requested]

\* The number of another name would address the wrong workspace.
requested_task_space(resume, requested) ==
    IF requested \in {0, resume_task_space(resume).name} THEN resume_task_space(resume)
    ELSE [name |-> requested, number |-> NoNumber]

resolve_helper(e) == IF e.helper = Nowhere THEN locate_helper(e.machine) ELSE e.helper

\* Raises when there is no helper or it cannot be started to be asked for its surface.
open_session ==
    \E resume \in {NoRef, ego.saved}, requested \in Names \cup {0} :
        LET found == resolve_helper(ego)
            ref == requested_task_space(resume, requested)
            meant == IF requested # 0 THEN requested
                     ELSE IF resume # NoRef THEN resume.name ELSE LocalName
        IN  IF found = Nowhere \/ (ego.surface = Unprobed /\ ~Starts(ego.machine, found))
            THEN ego' = [ego EXCEPT !.helper = found]
            ELSE \E known \in detect_surface(ego) :
                    ego' = [ego EXCEPT !.helper = found, !.surface = known,
                               !.session = [ref |-> ref, surface |-> known, meant |-> meant]]

\* The functions build_script calls exist in the build it runs in.
Speaks(surface, program) ==
    surface = program \/ (surface = "unknown" /\ program = "flat")

\* useOrCreateTaskSpace, given a number when one is known, else a name.
Entering(e) ==
    LET ref == e.session.ref
    IN  IF ref.number # NoNumber THEN {n \in Names : e.spaces[n] = ref.number}
        ELSE {ref.name}

\* _absorb_task_space_id: once known, the number is used instead of the name.
Learned(ref, number) == [ref EXCEPT !.number = number]

\* A program enters its space, making it when it goes by name, and reports its number,
\* which the session keeps; it fails when there is no space of that number, and it may
\* fail, or be killed, whatever it did.
run_script ==
    /\ ego.session # NoSession
    /\ Starts(ego.machine, ego.helper) /\ Speaks(ego.session.surface, ego.machine.program)
    /\ \E n \in Entering(ego), answered \in BOOLEAN :
         LET number == IF ego.spaces[n] = NoNumber THEN ego.created + 1 ELSE ego.spaces[n]
         IN  /\ number <= MaxSpaces
             /\ ego' = [ego EXCEPT !.spaces[n] = number,
                           !.created = IF number > @ THEN number ELSE @,
                           !.session.ref = IF answered THEN Learned(@, number) ELSE @,
                           !.astray = @ \/ n # ego.session.meant]

checkpoint ==
    /\ ego.session # NoSession
    /\ ego' = [ego EXCEPT !.saved = ego.session.ref]

-----------------------------------------------------------------------------
\* The process of the backend starts anew.
RestartBackend ==
    ego' = [ego EXCEPT !.helper = Nowhere, !.surface = Unprobed, !.session = NoSession,
                       !.usable = FALSE]

\* The app is installed, moved, upgraded or broken.
MachineChanges ==
    \E m \in Machines : ego' = [ego EXCEPT !.machine = m, !.usable = FALSE]

\* The person closes a space; its number is not given again.
SpaceGoes ==
    \E n \in Names : ego' = [ego EXCEPT !.spaces[n] = NoNumber]

EgoNext ==
    health \/ open_session \/ run_script \/ checkpoint \/ RestartBackend \/ MachineChanges \/ SpaceGoes

EgoSpec == EgoInit /\ [][EgoNext]_ego

-----------------------------------------------------------------------------
(* A session works in the workspace its caller named, or in the one of the *)
(* checkpoint it resumes, through restarts, spaces that went and numbers   *)
(* that are out of date: no program of it runs in another's; and a backend *)
(* that was called usable has hold of a helper that starts, even if it had *)
(* found another one earlier (_requested_task_space, health).              *)
WorkspaceIsFoundAgain ==
    /\ ~ego.astray
    /\ ego.usable => Starts(ego.machine, ego.helper)
=============================================================================
