------------------------- MODULE DrivenSessionProofs --------------------------
(***************************************************************************)
(* The parts of an attempt's browser work, each proved of its own          *)
(* specification: who holds a task space, which space and helper a session *)
(* of ego lite gets hold of again, what is typed into a form and on whose  *)
(* word, which backend drives it, which page the caller's next command     *)
(* goes to, and which control of a page an answer lands in.                *)
(***************************************************************************)
EXTENDS PageForm, TaskSpace, EgoHelper, FormAnswers, BrowserSelection, SessionTabs,
        FiniteSetTheorems, SequenceTheorems, TLAPS

-----------------------------------------------------------------------------
(* TaskSpace. A handed-over task space is left to the person. The promise  *)
(* of an acknowledged handoff is only kept because the session's own       *)
(* memory of the owner cannot fall behind the browser while it lasts: that *)
(* is the strengthening.                                                   *)

SpaceType ==
    /\ hosted \in BOOLEAN
    /\ space \in Owners \cup {"none"} /\ owner \in Owners
    /\ closed \in BOOLEAN /\ promised \in BOOLEAN /\ uninformed \in BOOLEAN
    /\ trespassed \in BOOLEAN

\* A promise is about a space that is held, and the open session that knows of the space
\* does not take itself for its owner.
PromiseIsKnown ==
    /\ promised => space \in Held
    /\ (promised /\ ~uninformed /\ ~closed) => owner # "agent"

SpaceInv == SpaceType /\ PromiseIsKnown /\ HandoffIsRespected

(* What is remembered and reported stays a known owner (EgoLiteSession).   *)
LEMMA SpaceTypeStep ==
    ASSUME SpaceType, [SpaceNext]_control
    PROVE  SpaceType'
<1> USE DEF SpaceType, Owners, Held, control
<1>1. CASE UNCHANGED control
    BY <1>1
<1>2. CASE \E op \in Commands : Send(op)
    BY <1>2 DEF Send
<1>3. CASE Ask
    BY <1>3 DEF Ask, Known, Entered
<1>4. CASE Refuse \/ TellOwner
    BY <1>4 DEF Refuse, TellOwner, Answered
<1>5. CASE act
    BY <1>5 DEF act, Entered, Trespass, Answered
<1>6. CASE request_human_control
    BY <1>6 DEF request_human_control, Entered, Answered
<1>7. CASE wait_for_control
    BY <1>7 DEF wait_for_control, Polled, Entered, Answered
<1>8. CASE reclaim_control
    BY <1>8 DEF reclaim_control, Answered
<1>9. CASE close
    BY <1>9 DEF close, Answered, Trespass
<1>10. CASE UserReturns \/ UserTakes \/ Reopen
    BY <1>10 DEF UserReturns, UserTakes, Reopen
<1> QED
    BY <1>1, <1>2, <1>3, <1>4, <1>5, <1>6, <1>7, <1>8, <1>9, <1>10 DEF SpaceNext

(* An acknowledged handoff stays known to the open session until the       *)
(* person, a confirmed reclaim or the completion of the space ends it.     *)
LEMMA PromiseStep ==
    ASSUME SpaceType, PromiseIsKnown, [SpaceNext]_control
    PROVE  PromiseIsKnown'
<1> USE DEF SpaceType, PromiseIsKnown, Owners, Held, control
<1>1. CASE UNCHANGED control
    BY <1>1
<1>2. CASE \E op \in Commands : Send(op)
    BY <1>2 DEF Send
<1>3. CASE Ask
    <2>1. PICK heard \in BOOLEAN :
              /\ owner' = IF closed \/ ~heard THEN Known("unknown") ELSE Known(Entered)
              /\ space' = IF closed THEN space ELSE Entered
              /\ uninformed' = (uninformed /\ ~heard)
        BY <1>3 DEF Ask
    <2>2. closed' = closed /\ promised' = promised
        BY <1>3 DEF Ask
    <2>3. promised' => space' \in Held
        BY <2>1, <2>2 DEF Entered
    <2>4. CASE heard
        BY <2>1, <2>2, <2>3, <2>4 DEF Known, Entered
    <2>5. CASE ~heard
        BY <2>1, <2>2, <2>3, <2>5 DEF Known
    <2> QED
        BY <2>4, <2>5
<1>4. CASE Refuse \/ TellOwner
    BY <1>4 DEF Refuse, TellOwner, Answered
<1>5. CASE act
    BY <1>5 DEF act, Entered, Answered
<1>6. CASE request_human_control
    BY <1>6 DEF request_human_control, Entered, Answered
<1>7. CASE wait_for_control
    BY <1>7 DEF wait_for_control, Polled, Entered, Answered
<1>8. CASE reclaim_control
    BY <1>8 DEF reclaim_control, Answered
<1>9. CASE close
    BY <1>9 DEF close, Answered
<1>10. CASE UserReturns \/ UserTakes \/ Reopen
    BY <1>10 DEF UserReturns, UserTakes, Reopen
<1> QED
    BY <1>1, <1>2, <1>3, <1>4, <1>5, <1>6, <1>7, <1>8, <1>9, <1>10 DEF SpaceNext

(* Only act and close can trespass, and both first look at the owner the   *)
(* session remembers (_guard_user_control, close).                         *)
LEMMA NoTrespassStep ==
    ASSUME SpaceInv, [SpaceNext]_control
    PROVE  HandoffIsRespected'
<1> USE DEF SpaceInv, HandoffIsRespected
<1>1. CASE act
    <2>1. ~closed /\ ~Refused /\ command.op = "act"
        BY <1>1 DEF act, Runs
    <2>2. owner = "agent"
        BY <2>1 DEF Refused, Acting
    <2>3. ~Trespass
        BY <2>1, <2>2 DEF PromiseIsKnown, Trespass, SpaceType
    <2> QED
        BY <1>1, <2>3 DEF act
<1>2. CASE close
    <2>1. ~closed /\ owner = "agent" => ~Trespass
        BY DEF PromiseIsKnown, Trespass, SpaceType
    <2> QED
        BY <1>2, <2>1 DEF close
<1>3. CASE UNCHANGED control \/ (\E op \in Commands : Send(op)) \/ Ask \/ Refuse \/ TellOwner
    BY <1>3 DEF control, Send, Ask, Refuse, TellOwner
<1>4. CASE request_human_control \/ wait_for_control \/ reclaim_control
    BY <1>4 DEF request_human_control, wait_for_control, reclaim_control
<1>5. CASE UserReturns \/ UserTakes \/ Reopen
    BY <1>5 DEF UserReturns, UserTakes, Reopen
<1> QED
    BY <1>1, <1>2, <1>3, <1>4, <1>5 DEF SpaceNext

(* The strengthening holds always.                                         *)
THEOREM SpaceInvAlways == SpaceSpec => []SpaceInv
<1>1. SpaceInit => SpaceInv
    BY DEF SpaceInit, SpaceInv, SpaceType, PromiseIsKnown, HandoffIsRespected, Owners, Held
<1>2. SpaceInv /\ [SpaceNext]_control => SpaceInv'
    BY SpaceTypeStep, PromiseStep, NoTrespassStep DEF SpaceInv
<1> QED
    BY <1>1, <1>2, PTL DEF SpaceSpec

(* From an acknowledged handoff on no action lands in the person's page    *)
(* and no close completes the space under them, whatever answers are lost  *)
(* (_guard_user_control, control_state, close).                            *)
THEOREM HandoffIsRespectedAlways == SpaceSpec => []HandoffIsRespected
<1>1. SpaceInv => HandoffIsRespected
    BY DEF SpaceInv
<1> QED
    BY <1>1, SpaceInvAlways, PTL

(* A held space comes back to the agent by the person or by a confirmed    *)
(* reclaim only (wait_for_control, reclaim_control).                       *)
THEOREM OnlyThePersonGivesBackAlways == SpaceSpec => OnlyThePersonGivesBack
<1> DEFINE GivenBack == (space \in Held /\ space' = "agent") =>
                            (UserReturns \/ command = [op |-> "reclaim", at |-> "let"])
<1>1. SpaceInv /\ [SpaceNext]_control => [GivenBack]_control
    <2> SUFFICES ASSUME SpaceNext, space \in Held, space' = "agent"
                 PROVE  UserReturns \/ command = [op |-> "reclaim", at |-> "let"]
        OBVIOUS
    <2> USE DEF Held, Owners
    <2>1. CASE \E op \in Commands : Send(op)
        BY <2>1 DEF Send
    <2>2. CASE Ask \/ Refuse \/ TellOwner
        BY <2>2 DEF Ask, Refuse, TellOwner, Entered
    <2>3. CASE act \/ wait_for_control
        BY <2>3 DEF act, wait_for_control, Entered, Polled
    <2>4. CASE request_human_control
        BY <2>4 DEF request_human_control, Entered
    <2>5. CASE reclaim_control
        BY <2>5 DEF reclaim_control, Runs
    <2>6. CASE close
        BY <2>6 DEF close
    <2>7. CASE UserReturns \/ UserTakes \/ Reopen
        BY <2>7 DEF UserTakes, Reopen
    <2> QED
        BY <2>1, <2>2, <2>3, <2>4, <2>5, <2>6, <2>7 DEF SpaceNext
<1> QED
    BY <1>1, SpaceInvAlways, PTL DEF SpaceSpec, OnlyThePersonGivesBack

-----------------------------------------------------------------------------
(* EgoHelper. A number is only ever remembered together with the name of   *)
(* the space it was given to, and is not given again: that is the          *)
(* strengthening.                                                          *)

Ref == [name : Names, number : Nat]

EgoType ==
    ego \in [machine : Machines, spaces : [Names -> Nat], created : Nat,
             helper : {Nowhere, "configured", "path", "bundle"},
             surface : {Unprobed, "unknown", "flat", "object"},
             session : [ref : Ref \cup {NoRef},
                        surface : {Unprobed, "unknown", "flat", "object"},
                        meant : Names \cup {0}],
             saved : Ref \cup {NoRef}, usable : BOOLEAN, astray : BOOLEAN]

\* Wherever the number of a reference still leads, it leads to the space of its name.
IsTrue(ref) ==
    ref.number # NoNumber =>
        /\ ref.number <= ego.created
        /\ \A n \in Names : ego.spaces[n] = ref.number => n = ref.name

NumbersAreNames ==
    /\ \A n \in Names : ego.spaces[n] <= ego.created
    /\ \A n, m \in Names : ego.spaces[n] = ego.spaces[m] /\ ego.spaces[n] # NoNumber => n = m
    /\ IsTrue(ego.session.ref) /\ IsTrue(ego.saved)

SessionIsMeant ==
    ego.session # NoSession =>
        ego.session.ref \in Ref /\ ego.session.ref.name = ego.session.meant

EgoInv == EgoType /\ NumbersAreNames /\ SessionIsMeant /\ WorkspaceIsFoundAgain

LEMMA LocateFacts ==
    ASSUME NEW m PROVE locate_helper(m) \in {Nowhere, "configured", "path", "bundle"}
BY DEF locate_helper

LEMMA NoSessionFacts ==
    /\ NoRef.number = NoNumber /\ NoSession.ref = NoRef
    /\ NoSession \in [ref : Ref \cup {NoRef}, surface : {Unprobed, "unknown", "flat", "object"},
                      meant : Names \cup {0}]
BY DEF NoRef, NoSession, Ref, NoNumber

\* What a session is opened for, from a checkpoint or a name or neither.
LEMMA RequestedRef ==
    ASSUME EgoInv, NEW resume \in {NoRef, ego.saved}, NEW requested \in Names \cup {0}
    PROVE  LET ref == requested_task_space(resume, requested)
           IN  /\ ref \in Ref /\ IsTrue(ref)
               /\ ref.name = IF requested # 0 THEN requested
                             ELSE IF resume # NoRef THEN resume.name ELSE LocalName
<1> DEFINE own == resume_task_space(resume)
<1>1. own \in Ref /\ IsTrue(own) /\ own.name = IF resume # NoRef THEN resume.name ELSE LocalName
  <2>1. CASE resume = NoRef
    BY <2>1, HelperAssumption DEF resume_task_space, Ref, IsTrue, NoNumber
  <2>2. CASE resume # NoRef
    BY <2>2 DEF resume_task_space, EgoInv, EgoType, NumbersAreNames
  <2> QED BY <2>1, <2>2
<1> HIDE DEF own
<1>2. CASE requested \in {0, own.name}
  <2>1. requested_task_space(resume, requested) = own
    BY <1>2 DEF requested_task_space, own
  <2> QED BY <1>1, <1>2, <2>1, HelperAssumption
<1>3. CASE requested \notin {0, own.name}
  <2>1. requested_task_space(resume, requested) = [name |-> requested, number |-> NoNumber]
    BY <1>3 DEF requested_task_space, own
  <2> QED BY <1>3, <2>1 DEF Ref, IsTrue, NoNumber
<1> QED BY <1>2, <1>3

\* A step that gives no number out and has its references from before.
LEMMA NumbersStay ==
    ASSUME EgoInv, EgoType', ego'.created = ego.created,
           \A n \in Names : ego'.spaces[n] \in {ego.spaces[n], NoNumber},
           IsTrue(ego'.session.ref), IsTrue(ego'.saved)
    PROVE  NumbersAreNames'
<1>1. \A n \in Names : ego'.spaces[n] <= ego'.created
  BY DEF EgoInv, EgoType, NumbersAreNames, NoNumber
<1>2. \A n, m \in Names : ego'.spaces[n] = ego'.spaces[m] /\ ego'.spaces[n] # NoNumber => n = m
  BY DEF EgoInv, NumbersAreNames
<1>3. IsTrue(ego'.session.ref) /\ IsTrue(ego'.saved)
  OBVIOUS
<1>4. (IsTrue(ego.session.ref) /\ IsTrue(ego.saved))'
  BY <1>3 DEF IsTrue
<1> QED BY <1>1, <1>2, <1>4 DEF NumbersAreNames

\* A step that only looks.
LEMMA EgoFrame ==
    ASSUME EgoInv, EgoType', ego'.created = ego.created, ego'.spaces = ego.spaces,
           ego'.session = ego.session, ego'.saved = ego.saved, ego'.astray = ego.astray,
           ego'.usable => Starts(ego'.machine, ego'.helper)
    PROVE  EgoInv'
<1>1. NumbersAreNames'
  BY NumbersStay DEF EgoInv, NumbersAreNames
<1> QED BY <1>1 DEF EgoInv, SessionIsMeant, WorkspaceIsFoundAgain

LEMMA EgoStep == ASSUME EgoInv, [EgoNext]_ego PROVE EgoInv'
<1> USE DEF EgoInv
<1>0. CASE UNCHANGED ego
  BY <1>0 DEF EgoType, NumbersAreNames, IsTrue, SessionIsMeant, WorkspaceIsFoundAgain
<1>1. CASE health
  <2> DEFINE m == ego.machine
  <2>0. Found(ego) \in {Nowhere, "configured", "path", "bundle"}
    BY LocateFacts DEF Found, EgoType
  <2>1. CASE ego' = [ego EXCEPT !.usable = FALSE]
    <3>1. EgoType' /\ ego'.usable = FALSE
      BY <2>1 DEF EgoType
    <3> QED BY <2>1, <3>1, EgoFrame DEF EgoType
  <2>2. CASE ego' = [ego EXCEPT !.usable = FALSE, !.helper = Found(ego)]
    <3>1. EgoType' /\ ego'.usable = FALSE
      BY <2>0, <2>2 DEF EgoType
    <3> QED BY <2>2, <3>1, EgoFrame DEF EgoType
  <2>3. ASSUME smoke_test(m, locate_helper(m)), NEW known \in detect_surface(ego),
               ego' = [ego EXCEPT !.usable = TRUE, !.helper = Found(ego), !.surface = known]
        PROVE  EgoInv'
    <3>1. Starts(m, locate_helper(m)) /\ locate_helper(m) # Nowhere
      BY <2>3 DEF smoke_test, Starts, Nowhere
    <3>2. Found(ego) = locate_helper(m)
      BY <3>1 DEF Found
    <3>3. known \in {Unprobed, "unknown", "flat", "object"}
      BY DEF detect_surface, EgoType
    <3>4. EgoType' /\ ego'.machine = m /\ ego'.helper = locate_helper(m)
      BY <2>0, <2>3, <3>2, <3>3 DEF EgoType
    <3> QED BY <2>3, <3>1, <3>4, EgoFrame DEF EgoType
  <2> QED BY <1>1, <2>1, <2>2, <2>3 DEF health
<1>2. CASE open_session
  <2>1. PICK resume \in {NoRef, ego.saved}, requested \in Names \cup {0} :
          LET found == resolve_helper(ego)
              ref == requested_task_space(resume, requested)
              meant == IF requested # 0 THEN requested
                       ELSE IF resume # NoRef THEN resume.name ELSE LocalName
          IN  \/ ego' = [ego EXCEPT !.helper = found]
              \/ \E known \in detect_surface(ego) :
                    ego' = [ego EXCEPT !.helper = found, !.surface = known,
                               !.session = [ref |-> ref, surface |-> known, meant |-> meant]]
    BY <1>2 DEF open_session
  <2> DEFINE found == resolve_helper(ego)
             ref == requested_task_space(resume, requested)
             meant == IF requested # 0 THEN requested
                      ELSE IF resume # NoRef THEN resume.name ELSE LocalName
  <2>2. ref \in Ref /\ IsTrue(ref) /\ ref.name = meant
    BY RequestedRef
  <2>3. /\ found \in {Nowhere, "configured", "path", "bundle"}
        /\ ego.usable => found = ego.helper
    BY LocateFacts DEF WorkspaceIsFoundAgain, Starts, Nowhere, resolve_helper, EgoType
  <2> HIDE DEF found, ref, meant
  <2>4. CASE ego' = [ego EXCEPT !.helper = found]
    <3>1. EgoType' /\ ego'.machine = ego.machine /\ ego'.helper = found /\ ego'.usable = ego.usable
      BY <2>3, <2>4 DEF EgoType
    <3> QED BY <2>3, <2>4, <3>1, EgoFrame DEF EgoType, WorkspaceIsFoundAgain
  <2>5. ASSUME NEW known \in detect_surface(ego),
               ego' = [ego EXCEPT !.helper = found, !.surface = known,
                           !.session = [ref |-> ref, surface |-> known, meant |-> meant]]
        PROVE  EgoInv'
    <3>1. known \in {Unprobed, "unknown", "flat", "object"}
      BY DEF detect_surface, EgoType
    <3>2. [ref |-> ref, surface |-> known, meant |-> meant] \in
            [ref : Ref \cup {NoRef}, surface : {Unprobed, "unknown", "flat", "object"},
             meant : Names \cup {0}]
      BY <2>2, <3>1 DEF Ref
    <3>3. /\ ego'.machine = ego.machine /\ ego'.usable = ego.usable /\ ego'.astray = ego.astray
          /\ ego'.helper = found /\ ego'.spaces = ego.spaces /\ ego'.created = ego.created
          /\ ego'.session = [ref |-> ref, surface |-> known, meant |-> meant]
          /\ ego'.saved = ego.saved
      BY <2>5 DEF EgoType
    <3>4. EgoType'
      BY <2>3, <2>5, <3>1, <3>2 DEF EgoType
    <3>5. WorkspaceIsFoundAgain'
      BY <2>3, <3>3 DEF WorkspaceIsFoundAgain
    <3>6. SessionIsMeant'
      BY <2>2, <3>3 DEF SessionIsMeant
    <3>7. NumbersAreNames'
      BY <2>2, <3>3, <3>4, NumbersStay DEF NumbersAreNames
    <3> QED BY <3>4, <3>5, <3>6, <3>7
  <2> QED BY <2>1, <2>4, <2>5 DEF found, ref, meant
<1>3. CASE run_script
  <2>1. PICK n \in Entering(ego), answered \in BOOLEAN :
          LET number == IF ego.spaces[n] = NoNumber THEN ego.created + 1 ELSE ego.spaces[n]
          IN  ego' = [ego EXCEPT !.spaces[n] = number,
                           !.created = IF number > @ THEN number ELSE @,
                           !.session.ref = IF answered THEN Learned(@, number) ELSE @,
                           !.astray = @ \/ n # ego.session.meant]
    BY <1>3 DEF run_script
  <2> DEFINE number == IF ego.spaces[n] = NoNumber THEN ego.created + 1 ELSE ego.spaces[n]
             created == IF number > ego.created THEN number ELSE ego.created
             ref == IF answered THEN [ego.session.ref EXCEPT !.number = number]
                    ELSE ego.session.ref
  <2>2. n = ego.session.ref.name
    BY <2>1 DEF Entering, NumbersAreNames, IsTrue
  <2>3. n = ego.session.meant
    BY <1>3, <2>2 DEF run_script, SessionIsMeant
  <2>4. n \in Names /\ ego.session.ref \in Ref
    BY <1>3, <2>2 DEF run_script, SessionIsMeant, Ref
  <2>5. /\ number \in Nat \ {0} /\ created \in Nat /\ created >= ego.created /\ number <= created
        /\ ref \in Ref /\ ref.name = ego.session.ref.name
        /\ ref.number \in {number, ego.session.ref.number}
    BY <2>4 DEF EgoType, Ref, NoNumber, NumbersAreNames
  <2>6. \A k \in Names : k # n => ego.spaces[k] # number
    BY <2>4 DEF EgoType, NumbersAreNames, NoNumber
  <2>7. /\ ego'.spaces = [ego.spaces EXCEPT ![n] = number] /\ ego'.created = created
        /\ ego'.session.ref = ref /\ ego'.session.meant = ego.session.meant
        /\ ego'.saved = ego.saved /\ ego'.astray = ego.astray
        /\ ego'.usable = ego.usable /\ ego'.machine = ego.machine /\ ego'.helper = ego.helper
    BY <2>1, <2>3, <2>4 DEF EgoType, Learned
  <2>8. \A r \in Ref \cup {NoRef} : IsTrue(r) => IsTrue(r)'
    BY <2>4, <2>5, <2>6, <2>7 DEF IsTrue, EgoType, Ref, NoRef, NoNumber
  <2>9. NumbersAreNames'
    <3>1. \A k \in Names : ego'.spaces[k] = IF k = n THEN number ELSE ego.spaces[k]
      BY <2>7 DEF EgoType
    <3>2. \A k \in Names : ego'.spaces[k] <= ego'.created
      BY <2>5, <2>7, <3>1 DEF NumbersAreNames, EgoType
    <3>3. \A k, m \in Names : ego'.spaces[k] = ego'.spaces[m] /\ ego'.spaces[k] # NoNumber => k = m
      BY <2>6, <3>1 DEF NumbersAreNames
    <3>4. IsTrue(ego.session.ref)'
      <4>1. CASE answered
        <5>1. ref.number = number /\ ref.name = n
          BY <2>2, <2>4, <2>5, <4>1 DEF Ref
        <5> QED BY <2>5, <2>6, <2>7, <3>1, <5>1 DEF IsTrue
      <4>2. CASE ~ answered
        <5>1. ego'.session.ref = ego.session.ref
          BY <2>7, <4>2
        <5> QED BY <2>4, <2>5, <2>6, <2>7, <3>1, <5>1 DEF IsTrue, NumbersAreNames, EgoType, Ref,
                                                        NoNumber
      <4> QED BY <4>1, <4>2
    <3> QED BY <2>7, <2>8, <3>2, <3>3, <3>4 DEF NumbersAreNames, IsTrue, EgoType
  <2>10. SessionIsMeant'
    BY <2>2, <2>3, <2>5, <2>7 DEF SessionIsMeant
  <2>11. EgoType'
    <3>1. /\ ego' = [ego EXCEPT !.spaces = ego'.spaces, !.created = ego'.created,
                                !.session = ego'.session, !.astray = ego'.astray]
          /\ ego'.session = [ego.session EXCEPT !.ref = ref]
      BY <2>1, <2>4 DEF EgoType, Learned
    <3>2. ego'.spaces \in [Names -> Nat]
      BY <2>5, <2>7 DEF EgoType
    <3> QED BY <2>5, <2>7, <3>1, <3>2 DEF EgoType
  <2> QED BY <2>7, <2>9, <2>10, <2>11 DEF WorkspaceIsFoundAgain
<1>4. CASE checkpoint
  <2>1. ego' = [ego EXCEPT !.saved = ego.session.ref]
    BY <1>4 DEF checkpoint
  <2>2. EgoType'
    BY <2>1 DEF EgoType
  <2>3. NumbersAreNames'
    BY <2>1, <2>2, NumbersStay DEF EgoType, NumbersAreNames
  <2> QED BY <2>1, <2>2, <2>3 DEF EgoType, SessionIsMeant, WorkspaceIsFoundAgain
<1>5. CASE RestartBackend
  <2>0. ego' = [ego EXCEPT !.helper = Nowhere, !.surface = Unprobed, !.session = NoSession,
                           !.usable = FALSE]
    BY <1>5 DEF RestartBackend
  <2>1. EgoType' /\ ego'.session = NoSession /\ ego'.usable = FALSE /\ ego'.astray = ego.astray
        /\ ego'.created = ego.created /\ ego'.spaces = ego.spaces /\ ego'.saved = ego.saved
    <3>1. NoSession \in [ref : Ref \cup {NoRef}, meant : Names \cup {0},
                         surface : {Unprobed, "unknown", "flat", "object"}]
      BY NoSessionFacts
    <3>2. EgoType'
      BY <2>0, <3>1 DEF EgoType
    <3> QED BY <2>0, <3>2 DEF EgoType
  <2>2. ego'.session.ref = NoRef /\ IsTrue(NoRef)
    BY <2>1, NoSessionFacts DEF IsTrue
  <2>3. NumbersAreNames'
    BY <2>1, <2>2, NumbersStay DEF NumbersAreNames
  <2> QED BY <2>1, <2>3 DEF SessionIsMeant, WorkspaceIsFoundAgain
<1>6. CASE MachineChanges
  <2>1. PICK m \in Machines : ego' = [ego EXCEPT !.machine = m, !.usable = FALSE]
    BY <1>6 DEF MachineChanges
  <2>2. EgoType'
    BY <2>1 DEF EgoType
  <2> QED BY <2>1, <2>2, EgoFrame DEF EgoType
<1>7. CASE SpaceGoes
  <2>1. PICK n \in Names : ego' = [ego EXCEPT !.spaces[n] = NoNumber]
    BY <1>7 DEF SpaceGoes
  <2>2. EgoType'
    BY <2>1 DEF EgoType, NoNumber
  <2>3. NumbersAreNames'
    BY <2>1, <2>2, NumbersStay DEF EgoType, NumbersAreNames
  <2> QED BY <2>1, <2>2, <2>3 DEF EgoType, SessionIsMeant, WorkspaceIsFoundAgain
<1> QED BY <1>0, <1>1, <1>2, <1>3, <1>4, <1>5, <1>6, <1>7 DEF EgoNext

(* The strengthening holds always.                                         *)
THEOREM EgoInvAlways == EgoSpec => []EgoInv
<1>1. EgoInit => EgoInv
  <2> SUFFICES ASSUME EgoInit PROVE EgoInv
    OBVIOUS
  <2>1. PICK m \in Machines :
          ego = [machine |-> m, spaces |-> [n \in Names |-> NoNumber], created |-> 0,
                 helper |-> Nowhere, surface |-> Unprobed, session |-> NoSession,
                 saved |-> NoRef, usable |-> FALSE, astray |-> FALSE]
    BY DEF EgoInit
  <2>2. /\ ego.spaces = [n \in Names |-> NoNumber] /\ ego.created = 0
        /\ ego.session = NoSession /\ ego.saved = NoRef /\ ego.usable = FALSE
        /\ ego.astray = FALSE
    BY <2>1
  <2>4. EgoType
    <3>1. [n \in Names |-> NoNumber] \in [Names -> Nat]
      BY DEF NoNumber
    <3> QED BY <2>1, <3>1, NoSessionFacts DEF EgoType
  <2>3. NumbersAreNames
    BY <2>2, NoSessionFacts DEF NumbersAreNames, IsTrue, NoNumber
  <2> QED BY <2>2, <2>3, <2>4 DEF EgoInv, SessionIsMeant, WorkspaceIsFoundAgain
<1>2. EgoInv /\ [EgoNext]_ego => EgoInv'
  BY EgoStep
<1> QED BY <1>1, <1>2, PTL DEF EgoSpec

(* No program of a session runs in the space of another name, and a        *)
(* backend that was called usable has a helper that starts                 *)
(* (_requested_task_space, _absorb_task_space_id, health).                 *)
THEOREM WorkspaceIsFoundAgainAlways == EgoSpec => []WorkspaceIsFoundAgain
<1>1. EgoInv => WorkspaceIsFoundAgain
  BY DEF EgoInv
<1> QED BY <1>1, EgoInvAlways, PTL

-----------------------------------------------------------------------------
(* FormAnswers. Drafts outlive the profile they were made from, so what is *)
(* kept is that every draft that may be typed was vouched for, and that    *)
(* the profile can still only answer where a factual claim stands behind.  *)

Answers == {Nothing, Profile, Declined} \cup Person
DraftSet == [answer : Answers,
             status : {"none", "ready", "needs_user", "needs_review", "user_provided"}]

FormType ==
    form \in [page : [Question -> [sensitivity : Sensitivities, required : BOOLEAN]],
              overrides : Overrides, mode : Modes,
              defaults : [Question -> [level : Levels \cup {Nothing}, claim_ids : SUBSET {1, 2}]],
              claims : [Claims -> [level : Levels \cup {Nothing, "verified"}, superseded : BOOLEAN]],
              drafts : [Question -> DraftSet], open : Question \cup {0},
              state : {"pending", "waiting_for_human", "continued", "completed", "clicked",
                       "cancelled"},
              typed : [Question -> Answers], visits : Nat,
              vouched : [Question -> SUBSET Answers]]

\* The profile answers for a question only where a claim stood behind it.
ClaimsVouch ==
    \A q \in Question : \A c \in form.defaults[q].claim_ids :
        form.claims[c].level \in FACTUAL_LEVELS => Profile \in form.vouched[q]

Vouched(q, answer) ==
    form.page[q].sensitivity \in REVIEW_REQUIRED_CLASSES =>
        answer \in form.vouched[q] \/ (answer = Declined /\ ~form.page[q].required)

DraftsAreVouched ==
    \A q \in Question : is_submittable(form.drafts[q]) => Vouched(q, form.drafts[q].answer)

FormInv == FormType /\ ClaimsVouch /\ DraftsAreVouched /\ TypedIsVouchedFor

LEMMA ClaimFound ==
    ASSUME FormInv, NEW q \in Question,
           claim_for(form, form.defaults[q]).level \in FACTUAL_LEVELS
    PROVE  Profile \in form.vouched[q]
<1> DEFINE cited == form.defaults[q].claim_ids \cap Present(form)
           least == CHOOSE c \in cited : \A d \in cited : c <= d
<1>1. cited # {} /\ form.claims[least].level \in FACTUAL_LEVELS
  BY DEF claim_for, NoClaim, FACTUAL_LEVELS, Nothing
<1>2. cited \subseteq {1, 2} /\ cited \subseteq form.defaults[q].claim_ids
  BY DEF FormInv, FormType
<1>3. \E c \in cited : \A d \in cited : c <= d
  <2>1. CASE 1 \in cited
    BY <1>2, <2>1
  <2>2. CASE 1 \notin cited
    <3>1. cited = {2}
      BY <1>1, <1>2, <2>2
    <3> QED BY <3>1
  <2> QED BY <2>1, <2>2
<1>4. least \in cited
  BY <1>3
<1> QED BY <1>1, <1>2, <1>4 DEF FormInv, ClaimsVouch

\* What the policy decides is vouched for, and never passes for the person's own.
LEMMA DecidedIsVouched ==
    ASSUME FormInv, NEW q \in Question
    PROVE  /\ decide(form, q) \in DraftSet /\ decide(form, q).status # "user_provided"
           /\ is_submittable(decide(form, q)) => Vouched(q, decide(form, q).answer)
<1> DEFINE authority == authority_for(form, form.page[q].sensitivity)
<1>1. form.page[q].sensitivity \in REVIEW_REQUIRED_CLASSES =>
        authority \notin {"always_answer", "reuse_approved"}
  <2>1. form.page[q].sensitivity \in REVIEW_REQUIRED_CLASSES =>
          DEFAULT_AUTHORITY(form.page[q].sensitivity) \notin {"always_answer", "reuse_approved"}
    BY DEF DEFAULT_AUTHORITY, REVIEW_REQUIRED_CLASSES
  <2>2. form.overrides \in Overrides
    BY DEF FormInv, FormType
  <2> QED BY <2>1, <2>2, FormAssumption DEF authority_for
<1> HIDE DEF authority
<1>2. \/ decide(form, q) \in {Draft(Nothing, "needs_user"), Draft(Profile, "needs_review")}
      \/ decide(form, q) = Draft(Declined, "ready") /\ ~form.page[q].required
      \/ decide(form, q) = Draft(Profile, "ready")
            /\ \/ authority \in {"always_answer", "reuse_approved"}
               \/ claim_for(form, form.defaults[q]).level \in FACTUAL_LEVELS
  BY DEF decide, review, ready, authority
<1>3. CASE decide(form, q) \in {Draft(Nothing, "needs_user"), Draft(Profile, "needs_review")}
  BY <1>3 DEF Draft, DraftSet, Answers, is_submittable
<1>4. CASE decide(form, q) = Draft(Declined, "ready") /\ ~form.page[q].required
  BY <1>4 DEF Draft, DraftSet, Answers, Vouched
<1>5. CASE decide(form, q) = Draft(Profile, "ready")
            /\ \/ authority \in {"always_answer", "reuse_approved"}
               \/ claim_for(form, form.defaults[q]).level \in FACTUAL_LEVELS
  <2>1. Vouched(q, Profile)
    BY <1>1, <1>5, ClaimFound DEF Vouched
  <2> QED BY <1>5, <2>1 DEF Draft, DraftSet, Answers
<1> QED BY <1>2, <1>3, <1>4, <1>5

\* So is whatever draft the visit leaves, and the person's own is kept.
LEMMA DraftedIsVouched ==
    ASSUME FormInv, NEW last \in Question
    PROVE  /\ Drafted(form, last) \in [Question -> DraftSet]
           /\ \A q \in Question :
                /\ is_submittable(Drafted(form, last)[q]) =>
                      Vouched(q, Drafted(form, last)[q].answer)
                /\ form.drafts[q].status = "user_provided" =>
                      Drafted(form, last)[q] = form.drafts[q]
<1>1. \A q \in Question : form.drafts[q] \in DraftSet
  BY DEF FormInv, FormType
<1> QED BY <1>1, DecidedIsVouched DEF FormInv, DraftsAreVouched, Drafted, NoDraft, Draft

LEMMA TypedIsVouched ==
    ASSUME FormInv, NEW last \in Question, NEW n \in Nat,
           n > 0 => check(form.mode, "fill_form")
    PROVE  LET typed == Typed(Drafted(form, last), n)
           IN  /\ typed \in [Question -> Answers]
               /\ \A q \in Question : typed[q] # Nothing =>
                     check(form.mode, "fill_form") /\ Vouched(q, typed[q])
<1> DEFINE drafts == Drafted(form, last)
<1>1. drafts \in [Question -> DraftSet]
      /\ \A q \in Question : is_submittable(drafts[q]) => Vouched(q, drafts[q].answer)
  BY DraftedIsVouched
<1> HIDE DEF drafts
<1>2. Typed(drafts, n) \in [Question -> Answers]
  BY <1>1 DEF Typed, Answers, DraftSet
<1>3. ASSUME NEW q \in Question, Typed(drafts, n)[q] # Nothing
      PROVE  check(form.mode, "fill_form") /\ Vouched(q, Typed(drafts, n)[q])
  BY <1>1, <1>3 DEF Typed, Question
<1> QED BY <1>2, <1>3 DEF drafts

\* Only what a visit, a person or an import may change changes.
Became(claims, drafts, open, state, typed, visits, vouched) ==
    [page |-> form.page, overrides |-> form.overrides, mode |-> form.mode,
     defaults |-> form.defaults, claims |-> claims, drafts |-> drafts, open |-> open,
     state |-> state, typed |-> typed, visits |-> visits, vouched |-> vouched]

LEMMA FormTypeKept ==
    ASSUME FormInv,
           NEW drafts \in [Question -> DraftSet], NEW open \in Question \cup {0},
           NEW state \in {"pending", "waiting_for_human", "continued", "completed", "clicked",
                          "cancelled"},
           NEW typed \in [Question -> Answers], NEW visits \in Nat,
           NEW vouched \in [Question -> SUBSET Answers],
           form' = Became(form.claims, drafts, open, state, typed, visits, vouched)
    PROVE  FormType'
BY DEF FormInv, FormType, Became

LEMMA FormStep == ASSUME FormInv, [FormNext]_form PROVE FormInv'
<1>0. Questions \in Question /\ Questions \in Nat
  BY FormAssumption DEF Question
<1> DEFINE Kept == /\ form'.page = form.page /\ form'.mode = form.mode
                   /\ form'.defaults = form.defaults /\ form'.overrides = form.overrides
<1>1. CASE UNCHANGED form
  BY <1>1 DEF FormInv, FormType, ClaimsVouch, DraftsAreVouched, TypedIsVouchedFor, Vouched
<1>2. CASE QuestionAsked
  <2>1. PICK q \in Question :
          form' = [form EXCEPT !.drafts = Drafted(form, q), !.open = q,
                               !.state = "waiting_for_human", !.typed = Blank,
                               !.visits = @ + 1]
    BY <1>2 DEF QuestionAsked
  <2>2. Kept /\ form'.claims = form.claims /\ form'.vouched = form.vouched
        /\ form'.drafts = Drafted(form, q) /\ form'.typed = Blank
    BY <2>1 DEF FormInv, FormType
  <2>3. FormType'
    <3>1. Blank \in [Question -> Answers] /\ Drafted(form, q) \in [Question -> DraftSet]
      BY DraftedIsVouched DEF Blank, Answers
    <3>2. form.visits + 1 \in Nat /\ form.vouched \in [Question -> SUBSET Answers]
      BY DEF FormInv, FormType
    <3>3. form' = Became(form.claims, Drafted(form, q), q, "waiting_for_human", Blank,
                         form.visits + 1, form.vouched)
      BY <2>1 DEF FormInv, FormType, Became
    <3> QED BY <3>1, <3>2, <3>3, FormTypeKept
  <2>4. ClaimsVouch' /\ DraftsAreVouched'
    BY <2>2, DraftedIsVouched DEF FormInv, ClaimsVouch, DraftsAreVouched, Vouched
  <2>5. TypedIsVouchedFor'
    BY <2>2 DEF TypedIsVouchedFor, Blank
  <2> QED BY <2>3, <2>4, <2>5 DEF FormInv
<1>3. CASE FormFilled
  <2> DEFINE drafts == Drafted(form, Questions)
             typed == Typed(drafts, Questions)
  <2>1. PICK outcome \in {"continued", "completed", "clicked"} :
          form' = [form EXCEPT !.drafts = drafts, !.typed = typed,
                               !.state = outcome, !.visits = @ + 1]
    BY <1>3 DEF FormFilled
  <2>2. /\ drafts \in [Question -> DraftSet] /\ typed \in [Question -> Answers]
        /\ \A q \in Question : is_submittable(drafts[q]) => Vouched(q, drafts[q].answer)
        /\ \A q \in Question : typed[q] # Nothing =>
              check(form.mode, "fill_form") /\ Vouched(q, typed[q])
    BY <1>0, <1>3, DraftedIsVouched, TypedIsVouched DEF FormFilled
  <2> HIDE DEF drafts, typed
  <2>3. Kept /\ form'.claims = form.claims /\ form'.vouched = form.vouched
        /\ form'.drafts = drafts /\ form'.typed = typed
    BY <2>1 DEF FormInv, FormType
  <2>4. FormType'
    <3>1. form.visits + 1 \in Nat /\ form.vouched \in [Question -> SUBSET Answers]
          /\ form.open \in Question \cup {0}
      BY DEF FormInv, FormType
    <3>2. form' = Became(form.claims, drafts, form.open, outcome, typed, form.visits + 1,
                         form.vouched)
      BY <2>1 DEF FormInv, FormType, Became
    <3> QED BY <2>2, <3>1, <3>2, FormTypeKept
  <2>5. ClaimsVouch' /\ DraftsAreVouched'
    BY <2>2, <2>3 DEF FormInv, ClaimsVouch, DraftsAreVouched, Vouched
  <2>6. TypedIsVouchedFor'
    BY <2>2, <2>3 DEF TypedIsVouchedFor, Vouched
  <2> QED BY <2>4, <2>5, <2>6 DEF FormInv
<1>4. CASE FillingFails
  <2>1. PICK n \in 0 .. (Questions - 1) :
          /\ n > 0 => check(form.mode, "fill_form")
          /\ form' = [form EXCEPT !.typed = Typed(Drafted(form, Questions), n),
                                  !.visits = @ + 1]
    BY <1>4 DEF FillingFails
  <2> DEFINE typed == Typed(Drafted(form, Questions), n)
  <2>2. /\ typed \in [Question -> Answers]
        /\ \A q \in Question : typed[q] # Nothing =>
              check(form.mode, "fill_form") /\ Vouched(q, typed[q])
    BY <1>0, <2>1, TypedIsVouched
  <2> HIDE DEF typed
  <2>3. form' = [form EXCEPT !.typed = typed, !.visits = @ + 1]
    BY <2>1 DEF typed
  <2>4. Kept /\ form'.claims = form.claims /\ form'.vouched = form.vouched
        /\ form'.drafts = form.drafts /\ form'.typed = typed
    BY <2>3 DEF FormInv, FormType
  <2>5. FormType'
    <3>1. /\ form.visits + 1 \in Nat /\ form.vouched \in [Question -> SUBSET Answers]
          /\ form.open \in Question \cup {0} /\ form.drafts \in [Question -> DraftSet]
          /\ form.state \in {"pending", "waiting_for_human", "continued", "completed", "clicked",
                             "cancelled"}
      BY DEF FormInv, FormType
    <3>2. form' = Became(form.claims, form.drafts, form.open, form.state, typed,
                         form.visits + 1, form.vouched)
      BY <2>3 DEF FormInv, FormType, Became
    <3> QED BY <2>2, <3>1, <3>2, FormTypeKept
  <2>6. ClaimsVouch' /\ DraftsAreVouched'
    BY <2>4 DEF FormInv, ClaimsVouch, DraftsAreVouched, Vouched
  <2>7. TypedIsVouchedFor'
    BY <2>2, <2>4 DEF TypedIsVouchedFor, Vouched
  <2> QED BY <2>5, <2>6, <2>7 DEF FormInv
<1>5. CASE Answer
  <2>1. PICK answer \in Person :
          form' = [form EXCEPT !.drafts[form.open] = Draft(answer, "user_provided"),
                               !.vouched[form.open] = @ \cup {answer},
                               !.open = 0, !.state = "pending"]
    BY <1>5 DEF Answer
  <2>2. Kept /\ form'.claims = form.claims /\ form'.typed = form.typed
        /\ form'.drafts = [form.drafts EXCEPT ![form.open] = Draft(answer, "user_provided")]
        /\ form'.vouched = [form.vouched EXCEPT ![form.open] = @ \cup {answer}]
    BY <2>1 DEF FormInv, FormType
  <2>3. Draft(answer, "user_provided") \in DraftSet /\ answer \in Answers
    BY DEF Draft, DraftSet, Answers
  <2>4. FormType'
    <3>1. form'.drafts \in [Question -> DraftSet] /\ form'.vouched \in [Question -> SUBSET Answers]
      <4>1. form.drafts \in [Question -> DraftSet] /\ form.vouched \in [Question -> SUBSET Answers]
        BY DEF FormInv, FormType
      <4>2. form'.drafts \in [Question -> DraftSet]
        BY <2>2, <2>3, <4>1
      <4>3. form'.vouched \in [Question -> SUBSET Answers]
        <5>1. form'.vouched = [q \in Question |-> IF q = form.open THEN form.vouched[q] \cup {answer}
                                                 ELSE form.vouched[q]]
          BY <2>2, <4>1
        <5> QED BY <2>3, <4>1, <5>1
      <4> QED BY <4>2, <4>3
    <3>2. form' = Became(form.claims, form'.drafts, 0, "pending", form.typed, form.visits,
                         form'.vouched)
      BY <2>1, <2>2 DEF FormInv, FormType, Became
    <3>3. form.visits \in Nat /\ form.typed \in [Question -> Answers]
      BY DEF FormInv, FormType
    <3> QED BY <3>1, <3>2, <3>3, FormTypeKept
  <2>5. \A q \in Question : form.vouched[q] \subseteq form'.vouched[q]
    BY <2>2 DEF FormInv, FormType
  <2>6. \A q \in Question :
          \/ form'.drafts[q] = form.drafts[q]
          \/ form'.drafts[q].answer \in form'.vouched[q]
    BY <2>2 DEF FormInv, FormType, Draft
  <2>7. ClaimsVouch' /\ DraftsAreVouched'
    BY <2>2, <2>5, <2>6 DEF FormInv, ClaimsVouch, DraftsAreVouched, Vouched
  <2>8. TypedIsVouchedFor'
    BY <2>2, <2>5 DEF FormInv, TypedIsVouchedFor
  <2> QED BY <2>4, <2>7, <2>8 DEF FormInv
<1>6. CASE Done
  <2>1. PICK state \in {"pending", "cancelled"} : form' = [form EXCEPT !.open = 0, !.state = state]
    BY <1>6 DEF Done
  <2>2. FormType'
    BY <2>1 DEF FormInv, FormType
  <2>3. Kept /\ form'.claims = form.claims /\ form'.vouched = form.vouched
        /\ form'.drafts = form.drafts /\ form'.typed = form.typed
    BY <2>1 DEF FormInv, FormType
  <2> QED BY <2>2, <2>3 DEF FormInv, ClaimsVouch, DraftsAreVouched, TypedIsVouchedFor, Vouched
<1>7. CASE Reimport
  <2>1. form' = [form EXCEPT !.claims = import_json_resume]
    BY <1>7 DEF Reimport
  <2>2. import_json_resume \in [Claims -> [level : Levels \cup {Nothing, "verified"},
                                           superseded : BOOLEAN]]
        /\ \A c \in {1, 2} : import_json_resume[c].level \notin FACTUAL_LEVELS
    BY DEF import_json_resume, Claims, NoClaim, Verified, Nothing, FACTUAL_LEVELS
  <2>3. FormType'
    BY <2>1, <2>2 DEF FormInv, FormType
  <2>4. Kept /\ form'.claims = import_json_resume /\ form'.vouched = form.vouched
        /\ form'.drafts = form.drafts /\ form'.typed = form.typed
    BY <2>1 DEF FormInv, FormType
  <2>5. ClaimsVouch'
    BY <2>2, <2>4 DEF FormInv, FormType, ClaimsVouch
  <2> QED BY <2>3, <2>4, <2>5 DEF FormInv, DraftsAreVouched, TypedIsVouchedFor, Vouched
<1> QED BY <1>1, <1>2, <1>3, <1>4, <1>5, <1>6, <1>7 DEF FormNext

LEMMA FormBegins == FormInit => FormInv
<1> SUFFICES ASSUME FormInit PROVE FormInv
  OBVIOUS
<1>1. PICK page \in [Question -> [sensitivity : Sensitivities, required : BOOLEAN]],
           overrides \in Overrides, mode \in Modes,
           defaults \in [Question -> {NoDefault} \cup [level : Levels, claim_ids : Citations]],
           first \in [level : Levels, superseded : BOOLEAN] :
        LET claims == <<first, Verified, NoClaim>>
        IN  form = [page |-> page, overrides |-> overrides, mode |-> mode,
                    defaults |-> defaults, claims |-> claims,
                    drafts |-> [q \in Question |-> NoDraft], open |-> 0,
                    state |-> "pending", typed |-> Blank, visits |-> 0,
                    vouched |-> [q \in Question |->
                        IF q \in Backed(defaults, claims) THEN {Profile} ELSE {}]]
  BY DEF FormInit
<1> DEFINE claims == <<first, Verified, NoClaim>>
           drafts == [q \in Question |-> NoDraft]
           vouched == [q \in Question |-> IF q \in Backed(defaults, claims) THEN {Profile} ELSE {}]
<1>2. claims \in [Claims -> [level : Levels \cup {Nothing, "verified"}, superseded : BOOLEAN]]
  <2>1. first \in [level : Levels \cup {Nothing, "verified"}, superseded : BOOLEAN]
        /\ Verified \in [level : Levels \cup {Nothing, "verified"}, superseded : BOOLEAN]
        /\ NoClaim \in [level : Levels \cup {Nothing, "verified"}, superseded : BOOLEAN]
    BY DEF Verified, NoClaim
  <2> QED BY <2>1 DEF Claims
<1>3. /\ drafts \in [Question -> DraftSet] /\ \A q \in Question : drafts[q].status = "none"
  BY DEF NoDraft, Draft, DraftSet, Answers
<1>4. vouched \in [Question -> SUBSET Answers]
  BY DEF Answers
<1>5. Blank \in [Question -> Answers] /\ \A q \in Question : Blank[q] = Nothing
  BY DEF Blank, Answers
<1>6. defaults \in [Question -> [level : Levels \cup {Nothing}, claim_ids : SUBSET {1, 2}]]
  <2>1. NoDefault \in [level : Levels \cup {Nothing}, claim_ids : SUBSET {1, 2}]
    BY DEF NoDefault
  <2>2. \A d \in [level : Levels, claim_ids : Citations] :
          d \in [level : Levels \cup {Nothing}, claim_ids : SUBSET {1, 2}]
    BY FormAssumption
  <2> QED BY <2>1, <2>2
<1>7. \A q \in Question : \A c \in defaults[q].claim_ids :
        claims[c].level \in FACTUAL_LEVELS => Profile \in vouched[q]
  <2> HIDE DEF claims
  <2> QED BY DEF Backed
<1> HIDE DEF claims, drafts, vouched
<1>8. form = [page |-> page, overrides |-> overrides, mode |-> mode,
              defaults |-> defaults, claims |-> claims, drafts |-> drafts, open |-> 0,
              state |-> "pending", typed |-> Blank, visits |-> 0, vouched |-> vouched]
  BY <1>1 DEF claims, drafts, vouched
<1>9. FormType
  <2>1. 0 \in Question \cup {0} /\ 0 \in Nat /\ overrides \in Overrides /\ mode \in Modes
        /\ page \in [Question -> [sensitivity : Sensitivities, required : BOOLEAN]]
        /\ drafts \in [Question -> DraftSet] /\ Blank \in [Question -> Answers]
    BY <1>3, <1>5
  <2> QED BY <1>2, <1>4, <1>6, <1>8, <2>1, ZenonT(60) DEF FormType
<1>10. ClaimsVouch /\ DraftsAreVouched /\ TypedIsVouchedFor
  BY <1>3, <1>5, <1>7, <1>8 DEF ClaimsVouch, DraftsAreVouched, TypedIsVouchedFor, is_submittable
<1> QED BY <1>9, <1>10 DEF FormInv

(* Every draft that may be typed was vouched for.                          *)
THEOREM FormInvAlways == FormSpec => []FormInv
<1> QED BY FormBegins, FormStep, PTL DEF FormSpec

(* The control of a sensitive question only ever holds what the person     *)
(* answered to it, a decline of an optional question, or a stored answer a *)
(* factual claim stood behind, and only in a mode that fills forms         *)
(* (QuestionnairePolicy, advance_questions, apply_ready_answers).          *)
THEOREM TypedIsVouchedForAlways == FormSpec => []TypedIsVouchedFor
<1>1. FormInv => TypedIsVouchedFor
  BY DEF FormInv
<1> QED BY <1>1, FormInvAlways, PTL

(* What the person answered is replaced only by another answer of theirs   *)
(* to the same question (advance_questions, AttemptService.resolve).       *)
THEOREM PersonsAnswerStandsAlways == FormSpec => PersonsAnswerStands
<1> DEFINE Stands == \A q \in Question :
              form.drafts[q].status = "user_provided" =>
                 \/ form'.drafts[q] = form.drafts[q]
                 \/ form'.drafts[q].status = "user_provided" /\ form.open = q
<1>1. FormInv /\ [FormNext]_form => [Stands]_form
  <2> SUFFICES ASSUME FormInv, FormNext PROVE Stands
    OBVIOUS
  <2>0. Questions \in Question
    BY FormAssumption DEF Question
  <2>1. CASE QuestionAsked
    <3>1. \E last \in Question : form'.drafts = Drafted(form, last)
      BY <2>1 DEF QuestionAsked, FormInv, FormType
    <3> QED BY <3>1, DraftedIsVouched
  <2>2. CASE FormFilled
    <3>1. form'.drafts = Drafted(form, Questions)
      BY <2>2 DEF FormFilled, FormInv, FormType
    <3> QED BY <2>0, <3>1, DraftedIsVouched
  <2>3. CASE FillingFails \/ Done \/ Reimport
    BY <2>3 DEF FillingFails, Done, Reimport, FormInv, FormType
  <2>4. CASE Answer
    <3>1. PICK answer \in Person :
            form'.drafts = [form.drafts EXCEPT ![form.open] = Draft(answer, "user_provided")]
      BY <2>4 DEF Answer, FormInv, FormType
    <3> QED BY <3>1 DEF FormInv, FormType, Draft
  <2> QED BY <2>1, <2>2, <2>3, <2>4 DEF FormNext
<1> QED BY <1>1, FormInvAlways, PTL DEF FormSpec, PersonsAnswerStands

-----------------------------------------------------------------------------
(* A set of natural numbers that is not empty has a least element: it is   *)
(* where the smallest of the intervals 0 .. n ends.                        *)

LEMMA SmallestSet ==
    ASSUME NEW T, T # {}, \A S \in T : IsFiniteSet(S)
    PROVE  \E S \in T : \A R \in T : R \subseteq S => R = S
<1> DEFINE U == UNION T
<1>1. T \subseteq FiniteSubsetsOf(U)
  BY DEF FiniteSubsetsOf
<1>2. IsWellFoundedOn(StrictSubsetOrdering(U), FiniteSubsetsOf(U))
  BY FS_StrictSubsetOrderingWellFounded
<1>3. PICK S \in T : \A R \in T : ~(<<R, S>> \in StrictSubsetOrdering(U))
  BY <1>1, <1>2, WFMin
<1> QED BY <1>3 DEF StrictSubsetOrdering

LEMMA SmallestNumber ==
    ASSUME NEW T \in SUBSET Nat, T # {}
    PROVE  \E x \in T : \A y \in T : x <= y
<1> DEFINE I == {0 .. n : n \in T}
<1>1. ASSUME NEW n \in T PROVE IsFiniteSet(0 .. n)
  BY FS_Interval
<1>2. \A S \in I : IsFiniteSet(S) /\ \E n \in T : S = 0 .. n
  BY <1>1
<1>3. I # {} /\ \A n \in T : 0 .. n \in I
  OBVIOUS
<1> HIDE DEF I
<1>4. PICK S \in I : \A R \in I : R \subseteq S => R = S
  BY <1>2, <1>3, SmallestSet
<1>5. PICK x \in T : S = 0 .. x
  BY <1>2
<1>6. ASSUME NEW y \in T, ~(x <= y) PROVE FALSE
  <2>1. y \in Nat /\ x \in Nat /\ y < x
    BY <1>6
  <2>2. 0 .. y \subseteq 0 .. x
    BY <2>1
  <2>3. 0 .. y = 0 .. x
    BY <1>3, <1>4, <1>5, <2>2
  <2> QED BY <2>1, <2>3
<1> QED BY <1>6

(* A set of numbers that has 0 and, with each, the next one is the whole   *)
(* interval; so a function is given by its first value and by a step from  *)
(* each value to the next.                                                 *)
LEMMA UpTo ==
    ASSUME NEW N \in Nat, NEW T \in SUBSET (0 .. N), 0 \in T,
           \A n \in 1 .. N : n - 1 \in T => n \in T
    PROVE  T = 0 .. N
<1> DEFINE Rest == (0 .. N) \ T
<1>1. CASE Rest = {}
  BY <1>1
<1>2. CASE Rest # {}
  <2>1. Rest \in SUBSET Nat
    OBVIOUS
  <2>2. PICK n \in Rest : \A m \in Rest : n <= m
    BY <1>2, <2>1, SmallestNumber
  <2>3. n \in 1 .. N /\ n - 1 \in 0 .. N /\ ~(n <= n - 1)
    BY <2>2
  <2>4. n - 1 \in T
    BY <2>2, <2>3
  <2> QED BY <2>2, <2>3, <2>4
<1> QED BY <1>1, <1>2

Follows(f, N, base, step) ==
    f[0] = base /\ \A n \in 1 .. N : f[n] = step[<<n, f[n - 1]>>]

LEMMA Recursion ==
    ASSUME NEW N \in Nat, NEW D, NEW base \in D, NEW step,
           \A n \in 1 .. N : \A x \in D : step[<<n, x>>] \in D
    PROVE  \E f \in [0 .. N -> D] : Follows(f, N, base, step)
<1> DEFINE Good(f, n) == /\ f \in [0 .. n -> D] /\ f[0] = base
                         /\ \A m \in 1 .. n : f[m] = step[<<m, f[m - 1]>>]
           T == {n \in 0 .. N : \E f : Good(f, n)}
<1>1. 0 \in T
  <2>1. Good([m \in 0 .. 0 |-> base], 0)
    OBVIOUS
  <2>2. 0 \in 0 .. N
    OBVIOUS
  <2> HIDE DEF Good
  <2> QED BY <2>1, <2>2
<1>2. ASSUME NEW n \in 1 .. N, n - 1 \in T PROVE n \in T
  <2>1. PICK f : Good(f, n - 1)
    BY <1>2
  <2> DEFINE x == step[<<n, f[n - 1]>>]
             g == [m \in 0 .. n |-> IF m = n THEN x ELSE f[m]]
  <2>2. n - 1 \in 0 .. (n - 1) /\ n \in 0 .. N
    OBVIOUS
  <2>3. x \in D
    BY <2>1, <2>2
  <2> HIDE DEF x
  <2>4. \A m \in 0 .. n : m = n \/ m \in 0 .. (n - 1)
    OBVIOUS
  <2>5. g \in [0 .. n -> D]
    BY <2>1, <2>3, <2>4
  <2>6. g[n] = x /\ \A m \in 0 .. (n - 1) : g[m] = f[m]
    OBVIOUS
  <2> HIDE DEF g
  <2>7. /\ \A m \in 1 .. n : m - 1 \in 0 .. (n - 1) /\ (m = n \/ m \in 1 .. (n - 1))
        /\ \A m \in 1 .. (n - 1) : m \in 0 .. (n - 1)
        /\ 0 \in 0 .. (n - 1)
    OBVIOUS
  <2>8. \A m \in 1 .. n : g[m] = step[<<m, g[m - 1]>>]
    BY <2>1, <2>6, <2>7 DEF x
  <2>9. g[0] = base
    BY <2>1, <2>6, <2>7
  <2>10. Good(g, n)
    BY <2>5, <2>8, <2>9
  <2> HIDE DEF Good
  <2> QED BY <2>2, <2>10
<1>3. T \in SUBSET (0 .. N) /\ N \in 0 .. N
  OBVIOUS
<1> HIDE DEF T
<1>4. N \in T
  BY <1>1, <1>2, <1>3, UpTo
<1>5. PICK f : Good(f, N)
  BY <1>4 DEF T
<1> QED BY <1>5 DEF Follows

-----------------------------------------------------------------------------
(* BrowserSelection. The order of the verdicts has a least element among   *)
(* the candidates, so the choice is that element; what is chosen is bound  *)
(* with the requirements it was chosen for.                                *)

SelectionType ==
    selection \in [world : [Slug -> Backend], preferred : Preferences, needs : Contracts,
                   backend : Slug \cup {None},
                   snapshot : {{}} \cup {c.required : c \in Contracts},
                   serving : Slug \cup {None},
                   phase : {"unbound", "paused", "selected", "changed", "bound", "refused"}]

BoundWithContract ==
    /\ selection.phase \in {"selected", "changed"} =>
          selection.backend \in Slug /\ selection.snapshot = selection.needs.required
    /\ selection.serving # None => selection.phase = "bound"

SelectionInv == SelectionType /\ BoundWithContract /\ DrivenByTheContract

LEMMA RankFacts ==
    ASSUME NEW preferred \in Seq(Slug), NEW s
    PROVE  /\ rank(preferred, s) \in Nat
           /\ (\E i \in DOMAIN preferred : preferred[i] = s) =>
                 /\ rank(preferred, s) \in DOMAIN preferred
                 /\ preferred[rank(preferred, s)] = s
                 /\ \A j \in 1 .. (rank(preferred, s) - 1) : preferred[j] # s
           /\ ~(\E i \in DOMAIN preferred : preferred[i] = s) =>
                 rank(preferred, s) = Len(preferred) + 1
<1>0. Len(preferred) \in Nat /\ DOMAIN preferred = 1 .. Len(preferred)
  OBVIOUS
<1>1. CASE \E i \in DOMAIN preferred : preferred[i] = s
  <2> DEFINE At == {i \in DOMAIN preferred : preferred[i] = s}
             First(i) == preferred[i] = s /\ \A j \in 1 .. (i - 1) : preferred[j] # s
  <2>1. At \in SUBSET Nat /\ At # {}
    BY <1>0, <1>1
  <2>2. PICK i \in At : \A j \in At : i <= j
    BY <2>1, SmallestNumber
  <2>3. i \in DOMAIN preferred /\ First(i)
    BY <1>0, <2>2
  <2>4. rank(preferred, s) = CHOOSE k \in DOMAIN preferred : First(k)
    BY <1>1 DEF rank
  <2>5. rank(preferred, s) \in DOMAIN preferred /\ First(rank(preferred, s))
    <3> HIDE DEF First
    <3> QED BY <2>3, <2>4
  <2> QED BY <1>0, <1>1, <2>5
<1>2. CASE ~ \E i \in DOMAIN preferred : preferred[i] = s
  BY <1>0, <1>2 DEF rank
<1> QED BY <1>1, <1>2

LEMMA EarlierRanksFirst ==
    ASSUME SelectionType, NEW s, NEW t, Earlier(s, t)
    PROVE  rank(selection.preferred, s) < rank(selection.preferred, t)
<1> DEFINE preferred == selection.preferred
<1>1. preferred \in Seq(Slug)
  BY SelectionAssumption DEF SelectionType, Slug
<1>2. Len(preferred) \in Nat /\ DOMAIN preferred = 1 .. Len(preferred)
  BY <1>1
<1>3. \E i \in DOMAIN preferred : preferred[i] = s
  BY DEF Earlier, Listed
<1>4. CASE ~ \E i \in DOMAIN preferred : preferred[i] = t
  BY <1>1, <1>2, <1>3, <1>4, RankFacts
<1>5. CASE \E i \in DOMAIN preferred : preferred[i] = t
  <2>1. PICK i \in DOMAIN preferred : preferred[i] = s /\ \A j \in 1 .. i : preferred[j] # t
    BY <1>5 DEF Earlier, Listed
  <2> HIDE DEF preferred
  <2>2. rank(preferred, s) \in Nat /\ rank(preferred, t) \in Nat
        /\ preferred[rank(preferred, t)] = t /\ rank(preferred, t) \in DOMAIN preferred
        /\ \A j \in 1 .. (rank(preferred, s) - 1) : preferred[j] # s
    BY <1>1, <1>3, <1>5, RankFacts
  <2>3. rank(preferred, s) <= i
    BY <1>2, <2>1, <2>2
  <2>4. rank(preferred, t) > i
    BY <1>2, <2>1, <2>2
  <2> QED BY <1>2, <2>2, <2>3, <2>4 DEF preferred
<1> QED BY <1>4, <1>5

LEMMA ScoreFacts ==
    ASSUME NEW needs \in Contracts, NEW b
    PROVE  /\ Cardinality(needs.preferred) \in Nat /\ preference_score(needs, b) \in Nat
           /\ preference_score(needs, b) <= Cardinality(needs.preferred)
<1>1. IsFiniteSet(needs.preferred)
  BY SelectionAssumption
<1>2. IsFiniteSet(needs.preferred \cap b.capabilities)
      /\ Cardinality(needs.preferred \cap b.capabilities) <= Cardinality(needs.preferred)
  BY <1>1, FS_Subset
<1> QED BY <1>1, <1>2, FS_CardinalityType DEF preference_score

LEMMA BestIsChosen ==
    ASSUME SelectionType, NEW C \in SUBSET Slug, C # {}
    PROVE  \E s \in C : \A t \in C \ {s} : Before(selection, s, t)
<1> DEFINE place(c) == rank(selection.preferred, c)
           score(c) == preference_score(selection.needs, selection.world[c])
           most == Cardinality(selection.needs.preferred)
<1>1. \A c \in C : place(c) \in Nat /\ score(c) \in Nat /\ most - score(c) \in Nat
  <2>1. selection.preferred \in Seq(Slug) /\ selection.needs \in Contracts
    BY SelectionAssumption DEF SelectionType, Slug
  <2> QED BY <2>1, RankFacts, ScoreFacts
<1>2. most \in Nat
  BY ScoreFacts DEF SelectionType
<1>3. \A s, t : Before(selection, s, t) <=>
         \/ place(s) < place(t)
         \/ place(s) = place(t) /\ score(s) > score(t)
         \/ place(s) = place(t) /\ score(s) = score(t) /\ s < t
  BY DEF Before
<1> HIDE DEF place, score, most
<1>4. PICK r \in {place(c) : c \in C} : \A q \in {place(c) : c \in C} : r <= q
  <2>1. {place(c) : c \in C} \in SUBSET Nat /\ {place(c) : c \in C} # {}
    BY <1>1
  <2> QED BY <2>1, SmallestNumber
<1> DEFINE Foremost == {c \in C : place(c) = r}
<1>5. PICK b \in {most - score(c) : c \in Foremost} : \A d \in {most - score(c) : c \in Foremost} : b <= d
  <2>1. {most - score(c) : c \in Foremost} \in SUBSET Nat /\ {most - score(c) : c \in Foremost} # {}
    BY <1>1, <1>4
  <2> QED BY <2>1, SmallestNumber
<1> DEFINE Best == {c \in Foremost : most - score(c) = b}
<1>6. PICK s \in Best : \A t \in Best : s <= t
  <2>1. Best \in SUBSET Nat /\ Best # {}
    BY <1>5 DEF Slug
  <2> QED BY <2>1, SmallestNumber
<1>7. ASSUME NEW t \in C \ {s} PROVE Before(selection, s, t)
  <2>1. s \in C /\ s \in Nat /\ t \in Nat /\ place(s) = r /\ most - score(s) = b
    BY <1>6 DEF Slug
  <2>2. r <= place(t) /\ r \in Nat
    BY <1>1, <1>4
  <2>3. place(t) = r => b <= most - score(t)
    BY <1>5
  <2>4. place(t) = r /\ most - score(t) = b => s < t
    BY <1>6, <2>1
  <2> QED BY <1>1, <1>2, <1>3, <2>1, <2>2, <2>3, <2>4
<1> QED BY <1>6, <1>7

LEMMA SelectionStep == ASSUME SelectionInv, [SelectionNext]_selection PROVE SelectionInv'
<1>1. CASE UNCHANGED selection
  <2>1. selection' = selection
    BY <1>1
  <2>2. SelectionType' /\ BoundWithContract'
    BY <2>1 DEF SelectionInv, SelectionType, BoundWithContract
  <2>3. \A s, t : (Usable(s)' <=> Usable(s)) /\ (Earlier(s, t)' <=> Earlier(s, t))
                 /\ (Listed(s)' <=> Listed(s))
    BY <2>1 DEF Usable, Earlier, Listed
  <2>4. DrivenByTheContract'
    BY <2>1, <2>3 DEF SelectionInv, DrivenByTheContract
  <2> QED BY <2>2, <2>4 DEF SelectionInv
<1>2. CASE select_or_pause
  <2> DEFINE best == select_browser(selection)
             C == {s \in Slug : eligible(selection.world, selection.needs, s)}
  <2>1. \A s \in Slug : Usable(s) => s \in C
    BY DEF Usable, eligible, missing_from, None
  <2>2. selection.serving = None /\ selection.phase = "unbound"
    BY <1>2 DEF select_or_pause, SelectionInv, BoundWithContract
  <2>3. CASE best = None
    <3>1. C = {}
      <4>1. ASSUME C # {} PROVE FALSE
        <5>1. best = CHOOSE s \in C : \A t \in C \ {s} : Before(selection, s, t)
          BY <4>1 DEF select_browser
        <5>2. \E s \in C : \A t \in C \ {s} : Before(selection, s, t)
          BY <4>1, BestIsChosen DEF SelectionInv
        <5>3. best \in C
          BY <5>1, <5>2
        <5> QED BY <2>3, <5>3 DEF None, Slug
      <4> QED BY <4>1
    <3>2. selection' = [selection EXCEPT !.phase = "paused"]
      BY <1>2, <2>3 DEF select_or_pause
    <3>3. /\ selection'.world = selection.world /\ selection'.needs = selection.needs
          /\ selection'.serving = None /\ selection'.phase = "paused"
      BY <2>2, <3>2 DEF SelectionInv, SelectionType
    <3>4. SelectionType'
      BY <3>2 DEF SelectionInv, SelectionType
    <3>5. \A s \in Slug : ~ Usable(s)'
      BY <2>1, <3>1, <3>3 DEF Usable
    <3> QED BY <3>3, <3>4, <3>5 DEF SelectionInv, BoundWithContract, DrivenByTheContract
  <2>4. CASE best # None
    <3>1. best \in C /\ \A t \in C \ {best} : Before(selection, best, t)
      <4>1. C # {} /\ best = CHOOSE s \in C : \A t \in C \ {s} : Before(selection, s, t)
        BY <2>4 DEF select_browser
      <4>2. \E s \in C : \A t \in C \ {s} : Before(selection, s, t)
        BY <4>1, BestIsChosen DEF SelectionInv
      <4> QED BY <4>1, <4>2
    <3> HIDE DEF best
    <3>2. selection' = [selection EXCEPT !.phase = "selected", !.backend = best,
                                         !.snapshot = selection.needs.required]
      BY <1>2, <2>4 DEF select_or_pause, best
    <3>3. /\ selection'.world = selection.world /\ selection'.needs = selection.needs
          /\ selection'.preferred = selection.preferred
          /\ selection'.serving = None /\ selection'.phase = "selected"
          /\ selection'.backend = best /\ selection'.snapshot = selection.needs.required
      BY <2>2, <3>2 DEF SelectionInv, SelectionType
    <3>4. SelectionType'
      BY <3>1, <3>2 DEF SelectionInv, SelectionType
    <3>5. ASSUME NEW s \in Slug \ {best}, Usable(s)'
          PROVE  /\ ~ Earlier(s, best)
                 /\ ~ Listed(s) /\ ~ Listed(best) =>
                       Cardinality(selection.world[best].capabilities \cap selection.needs.preferred)
                         >= Cardinality(selection.world[s].capabilities \cap selection.needs.preferred)
      <4>1. s \in C
        BY <2>1, <3>3, <3>5 DEF Usable
      <4>2. Before(selection, best, s)
        BY <3>1, <4>1
      <4>3. selection.preferred \in Seq(Slug) /\ selection.needs \in Contracts
        BY SelectionAssumption DEF SelectionInv, SelectionType, Slug
      <4>4. rank(selection.preferred, s) \in Nat /\ rank(selection.preferred, best) \in Nat
            /\ preference_score(selection.needs, selection.world[s]) \in Nat
            /\ preference_score(selection.needs, selection.world[best]) \in Nat
        BY <4>3, RankFacts, ScoreFacts
      <4>5. ~ Earlier(s, best)
        BY <4>2, <4>4, EarlierRanksFirst DEF Before, SelectionInv
      <4>6. ASSUME ~ Listed(s), ~ Listed(best)
            PROVE  preference_score(selection.needs, selection.world[best])
                     >= preference_score(selection.needs, selection.world[s])
        <5>1. rank(selection.preferred, s) = rank(selection.preferred, best)
          BY <4>3, <4>6, RankFacts DEF Listed
        <5> QED BY <4>2, <4>4, <5>1 DEF Before
      <4>7. \A b : preference_score(selection.needs, b) = Cardinality(b.capabilities \cap selection.needs.preferred)
        <5>1. \A b : selection.needs.preferred \cap b.capabilities
                       = b.capabilities \cap selection.needs.preferred
          OBVIOUS
        <5> QED BY <5>1 DEF preference_score
      <4> QED BY <4>5, <4>6, <4>7
    <3>6. BoundWithContract'
      BY <3>1, <3>3 DEF BoundWithContract
    <3>7. DrivenByTheContract'
      BY <3>3, <3>5, SMTT(30) DEF DrivenByTheContract, Earlier, Listed, None
    <3> QED BY <3>4, <3>6, <3>7 DEF SelectionInv
  <2> QED BY <2>3, <2>4
<1>3. CASE AcquireSelected
  <2>1. selection.phase \in {"selected", "changed"}
    BY <1>3 DEF AcquireSelected
  <2>2. CASE /\ verify_contract(selection)
             /\ selection' = [selection EXCEPT !.phase = "bound", !.serving = selection.backend]
    <3>1. /\ selection'.world = selection.world /\ selection'.needs = selection.needs
          /\ selection'.serving = selection.backend /\ selection'.phase = "bound"
      BY <2>2 DEF SelectionInv, SelectionType
    <3>2. SelectionType'
      BY <2>2 DEF SelectionInv, SelectionType
    <3>3. selection.needs.required \subseteq selection.world[selection.backend].capabilities
      BY <2>1, <2>2 DEF verify_contract, SelectionInv, BoundWithContract
    <3> QED BY <3>1, <3>2, <3>3 DEF SelectionInv, BoundWithContract, DrivenByTheContract
  <2>3. CASE selection' = [selection EXCEPT !.phase = "refused"]
    <3>1. selection'.serving = None /\ selection'.phase = "refused"
      BY <2>1, <2>3 DEF SelectionInv, SelectionType, BoundWithContract
    <3>2. SelectionType'
      BY <2>3 DEF SelectionInv, SelectionType
    <3> QED BY <3>1, <3>2 DEF SelectionInv, BoundWithContract, DrivenByTheContract
  <2> QED BY <1>3, <2>2, <2>3 DEF AcquireSelected
<1>4. CASE BackendChanges
  <2>1. PICK s \in Slug, b \in Backend :
          selection' = [selection EXCEPT !.world[s] = b, !.phase = "changed"]
    BY <1>4 DEF BackendChanges
  <2>2. SelectionType'
    BY <2>1 DEF SelectionInv, SelectionType
  <2>3. /\ selection'.serving = None /\ selection'.phase = "changed"
        /\ selection'.backend = selection.backend /\ selection'.snapshot = selection.snapshot
        /\ selection'.needs = selection.needs
    BY <1>4, <2>1 DEF BackendChanges, SelectionInv, SelectionType, BoundWithContract
  <2>4. BoundWithContract'
    BY <1>4, <2>3 DEF BackendChanges, SelectionInv, BoundWithContract
  <2> QED BY <2>2, <2>3, <2>4 DEF SelectionInv, DrivenByTheContract
<1> QED BY <1>1, <1>2, <1>3, <1>4 DEF SelectionNext

(* The choice is bound with the requirements it was made for.              *)
THEOREM SelectionInvAlways == SelectionSpec => []SelectionInv
<1>1. SelectionInit => SelectionInv
  <2> SUFFICES ASSUME SelectionInit PROVE SelectionInv
    OBVIOUS
  <2>1. SelectionType
    BY DEF SelectionInit, SelectionType
  <2>2. selection.phase = "unbound" /\ selection.serving = None
    BY DEF SelectionInit
  <2> QED BY <2>1, <2>2 DEF SelectionInv, BoundWithContract, DrivenByTheContract
<1>2. SelectionInv /\ [SelectionNext]_selection => SelectionInv'
  BY SelectionStep
<1> QED BY <1>1, <1>2, PTL DEF SelectionSpec

(* Whoever drives the form can do what its driver requires, was chosen     *)
(* over no usable backend the user put earlier or that offers more, and    *)
(* the attempt pauses only when none would do (evaluate_backends,          *)
(* LocalBrowserManager._verify_contract).                                  *)
THEOREM DrivenByTheContractAlways == SelectionSpec => []DrivenByTheContract
<1>1. SelectionInv => DrivenByTheContract
  BY DEF SelectionInv
<1> QED BY <1>1, SelectionInvAlways, PTL

-----------------------------------------------------------------------------
(* SessionTabs. An id is above the counter when it is given out, so it was *)
(* given to no other page; and what the caller chose is the active page as *)
(* long as it is open, since a page that closed never opens again.         *)

TabsType ==
    /\ appeared \in Nat /\ counter \in Nat
    /\ pages \subseteq 1 .. appeared /\ chosen \in 0 .. appeared
    /\ call.op = "open" => call.page \in 1 .. appeared

IdsAreNamed ==
    /\ DOMAIN named \subseteq 1 .. counter
    /\ \A p \in DOMAIN tab_ids : tab_ids[p] \in DOMAIN named /\ named[tab_ids[p]] = p

ChosenIsActive == chosen \in pages => active = chosen

TabsInv == TabsType /\ IdsAreNamed /\ ChosenIsActive

\* The pages it has not seen are told apart by how many of them come before.
LEMMA UnseenAreCounted ==
    ASSUME TabsInv, NEW open \in SUBSET Nat, IsFiniteSet(open)
    PROVE  /\ Cardinality(Unseen(open)) \in Nat
           /\ \A p \in Unseen(open) : NextId(open, p) \in (counter + 1) .. (counter + Cardinality(Unseen(open)))
           /\ \A p, q \in Unseen(open) : NextId(open, p) = NextId(open, q) => p = q
<1>1. IsFiniteSet(Unseen(open)) /\ Cardinality(Unseen(open)) \in Nat
  BY FS_Subset, FS_CardinalityType DEF Unseen
<1>2. ASSUME NEW p \in Unseen(open)
      PROVE  /\ IsFiniteSet(UnseenUpTo(open, p)) /\ Cardinality(UnseenUpTo(open, p)) \in Nat
             /\ Cardinality(UnseenUpTo(open, p)) <= Cardinality(Unseen(open))
             /\ Cardinality(UnseenUpTo(open, p)) # 0
  <2>1. UnseenUpTo(open, p) \subseteq Unseen(open) /\ p \in UnseenUpTo(open, p)
    BY DEF UnseenUpTo, Unseen
  <2>2. IsFiniteSet(UnseenUpTo(open, p))
        /\ Cardinality(UnseenUpTo(open, p)) <= Cardinality(Unseen(open))
    BY <1>1, <2>1, FS_Subset
  <2> QED BY <2>1, <2>2, FS_CardinalityType, FS_EmptySet
<1>3. ASSUME NEW p \in Unseen(open), NEW q \in Unseen(open), p < q
      PROVE  Cardinality(UnseenUpTo(open, p)) # Cardinality(UnseenUpTo(open, q))
  <2>1. p \in Nat /\ q \in Nat
    BY DEF Unseen
  <2>2. UnseenUpTo(open, p) \subseteq UnseenUpTo(open, q)
    <3>1. \A r \in Nat : r <= p => r <= q
      BY <1>3, <2>1
    <3> QED BY <3>1 DEF UnseenUpTo, Unseen
  <2>3. q \in UnseenUpTo(open, q) /\ q \notin UnseenUpTo(open, p)
    BY <1>3, <2>1 DEF UnseenUpTo
  <2> QED BY <1>2, <2>2, <2>3, FS_Subset
<1>4. \A p \in Unseen(open) : NextId(open, p) \in (counter + 1) .. (counter + Cardinality(Unseen(open)))
  BY <1>1, <1>2 DEF NextId, TabsInv, TabsType
<1>5. ASSUME NEW p \in Unseen(open), NEW q \in Unseen(open), NextId(open, p) = NextId(open, q)
      PROVE  p = q
  <2>1. Cardinality(UnseenUpTo(open, p)) = Cardinality(UnseenUpTo(open, q))
    BY <1>2, <1>5 DEF NextId, TabsInv, TabsType
  <2>2. p \in Nat /\ q \in Nat
    BY DEF Unseen
  <2> QED BY <1>3, <2>1, <2>2
<1> QED BY <1>1, <1>4, <1>5

LEMMA TrackedAreNamed ==
    ASSUME TabsInv, NEW open \in SUBSET Nat, IsFiniteSet(open), track_pages(open)
    PROVE  counter' \in Nat /\ IdsAreNamed'
<1> DEFINE ids == track(open)
<1>1. /\ tab_ids' = ids /\ counter' = counter + Cardinality(Unseen(open))
      /\ named' = [k \in DOMAIN named \cup Range(ids) |->
                     IF k \in DOMAIN named THEN named[k] ELSE CHOOSE p \in open : ids[p] = k]
  BY DEF track_pages
<1>2. /\ DOMAIN ids = open
      /\ \A p \in open : ids[p] = IF p \in DOMAIN tab_ids THEN tab_ids[p] ELSE NextId(open, p)
  BY DEF track
<1> HIDE DEF ids
<1>3. counter \in Nat /\ counter' \in Nat /\ counter <= counter'
  BY <1>1, UnseenAreCounted DEF TabsInv, TabsType
<1>4. ASSUME NEW p \in open, p \in DOMAIN tab_ids
      PROVE  ids[p] \in DOMAIN named /\ ids[p] \in 1 .. counter /\ named'[ids[p]] = p
  BY <1>1, <1>2, <1>4 DEF TabsInv, IdsAreNamed
<1>5. ASSUME NEW p \in open, p \notin DOMAIN tab_ids
      PROVE  /\ ids[p] \in (counter + 1) .. counter' /\ ids[p] \in Range(ids)
             /\ named'[ids[p]] = p
  <2>1. p \in Unseen(open) /\ ids[p] = NextId(open, p)
    BY <1>2, <1>5 DEF Unseen
  <2>2. ids[p] \in (counter + 1) .. counter'
    BY <1>1, <2>1, UnseenAreCounted
  <2>3. ids[p] \in Range(ids)
    BY <1>2 DEF Range
  <2>4. ids[p] \notin DOMAIN named
    BY <1>3, <2>2 DEF TabsInv, IdsAreNamed
  <2>5. \A q \in open : ids[q] = ids[p] => q = p
    <3>1. ASSUME NEW q \in open, ids[q] = ids[p] PROVE q = p
      <4>1. q \notin DOMAIN tab_ids
        BY <1>3, <1>4, <2>2, <3>1
      <4>2. q \in Unseen(open) /\ ids[q] = NextId(open, q)
        BY <1>2, <4>1 DEF Unseen
      <4> QED BY <2>1, <3>1, <4>2, UnseenAreCounted
    <3> QED BY <3>1
  <2>6. named'[ids[p]] = CHOOSE q \in open : ids[q] = ids[p]
    BY <1>1, <2>3, <2>4
  <2>7. named'[ids[p]] = p
    BY <2>5, <2>6
  <2> QED BY <2>2, <2>3, <2>7
<1>6. \A p \in open : ids[p] \in 1 .. counter'
  BY <1>3, <1>4, <1>5
<1>7. DOMAIN named' \subseteq 1 .. counter'
  <2>1. DOMAIN named \subseteq 1 .. counter'
    BY <1>3 DEF TabsInv, IdsAreNamed
  <2>2. Range(ids) \subseteq 1 .. counter'
    BY <1>2, <1>6 DEF Range
  <2> QED BY <1>1, <2>1, <2>2
<1>8. \A p \in open : ids[p] \in DOMAIN named' /\ named'[ids[p]] = p
  BY <1>1, <1>4, <1>5
<1> QED BY <1>1, <1>2, <1>3, <1>7, <1>8 DEF IdsAreNamed

LEMMA PagesAreFinite ==
    ASSUME TabsInv PROVE pages \in SUBSET Nat /\ IsFiniteSet(pages)
<1>1. IsFiniteSet(1 .. appeared) /\ pages \subseteq 1 .. appeared
  BY FS_Interval DEF TabsInv, TabsType
<1>2. IsFiniteSet(pages)
  BY <1>1, FS_Subset
<1>3. 1 .. appeared \subseteq Nat
  OBVIOUS
<1> QED BY <1>1, <1>2, <1>3

LEMMA TabsStep == ASSUME TabsInv, [TabsNext]_tabs PROVE TabsInv'
<1> USE DEF TabsInv
<1>0. pages \in SUBSET Nat /\ IsFiniteSet(pages) /\ appeared \in Nat /\ appeared + 1 \in Nat
  BY PagesAreFinite DEF TabsType
<1>1. CASE UNCHANGED tabs
  BY <1>1 DEF tabs, TabsType, IdsAreNamed, ChosenIsActive
<1>2. CASE Act
  BY <1>2 DEF Act, resolve, TabsType, IdsAreNamed, ChosenIsActive
<1>3. CASE list_tabs
  <2>1. counter' \in Nat /\ IdsAreNamed'
    BY <1>0, <1>3, TrackedAreNamed DEF list_tabs
  <2> QED BY <1>3, <2>1 DEF list_tabs, resolve, TabsType, ChosenIsActive
<1>4. CASE BeginOpenTab \/ WindowOpens
  <2>1. /\ appeared' = appeared + 1 /\ pages' = pages \cup {appeared + 1}
        /\ chosen' = chosen /\ active' = active /\ counter' = counter
        /\ named' = named /\ tab_ids' = tab_ids
        /\ call' = call \/ call' = [op |-> "open", page |-> appeared + 1]
    BY <1>4 DEF BeginOpenTab, WindowOpens
  <2>2. TabsType'
    <3>1. 1 .. appeared \subseteq 1 .. appeared' /\ 0 .. appeared \subseteq 0 .. appeared'
          /\ appeared + 1 \in 1 .. appeared'
      BY <1>0, <2>1
    <3> QED BY <1>0, <2>1, <3>1 DEF TabsType
  <2>3. ChosenIsActive'
    <3>1. chosen # appeared + 1
      BY <1>0 DEF TabsType
    <3> QED BY <2>1, <3>1 DEF ChosenIsActive
  <2> QED BY <2>1, <2>2, <2>3 DEF IdsAreNamed
<1>5. CASE open_tab
  <2>1. counter' \in Nat /\ IdsAreNamed'
    BY <1>0, <1>5, TrackedAreNamed DEF open_tab
  <2> QED BY <1>5, <2>1 DEF open_tab, NoCall, TabsType, ChosenIsActive
<1>6. CASE OpenTabFails
  BY <1>6 DEF OpenTabFails, NoCall, TabsType, IdsAreNamed, ChosenIsActive
<1>7. ASSUME NEW id \in DOMAIN named, activate_tab(id) PROVE TabsInv'
  <2>1. counter' \in Nat /\ IdsAreNamed'
    BY <1>0, <1>7, TrackedAreNamed DEF activate_tab
  <2>2. \/ UNCHANGED <<active, chosen>>
        \/ chosen' \in pages /\ active' = chosen'
    BY <1>7 DEF activate_tab, page_for
  <2>3. pages' = pages /\ appeared' = appeared /\ call' = call
    BY <1>7 DEF activate_tab
  <2>4. TabsType'
    <3>1. pages \subseteq 0 .. appeared
      BY <1>0 DEF TabsType
    <3> QED BY <2>1, <2>2, <2>3, <3>1 DEF TabsType
  <2> QED BY <2>1, <2>2, <2>3, <2>4 DEF ChosenIsActive
<1>8. ASSUME NEW id \in DOMAIN named, BeginCloseTab(id) PROVE TabsInv'
  <2>1. counter' \in Nat /\ IdsAreNamed'
    BY <1>0, <1>8, TrackedAreNamed DEF BeginCloseTab
  <2>2. call'.op # "open"
    BY <1>8 DEF BeginCloseTab, NoCall
  <2> QED BY <1>8, <2>1, <2>2 DEF BeginCloseTab, TabsType, ChosenIsActive
<1>9. CASE close_tab
  <2> DEFINE rest == pages \ {call.page}
             blank == resolve(rest) = 0
             open == IF blank THEN {appeared + 1} ELSE rest
  <2>1. /\ pages' = open /\ appeared' = (IF blank THEN appeared + 1 ELSE appeared)
        /\ active' = (IF blank THEN appeared' ELSE resolve(rest))
        /\ track_pages(open) /\ call' = NoCall /\ chosen' = chosen
    BY <1>9 DEF close_tab
  <2>2. open \in SUBSET Nat /\ IsFiniteSet(open)
    BY <1>0, FS_Subset, FS_Singleton
  <2>3. counter' \in Nat /\ IdsAreNamed'
    BY <2>1, <2>2, TrackedAreNamed
  <2>4. TabsType'
    <3>1. appeared' \in Nat /\ pages' \subseteq 1 .. appeared' /\ 0 .. appeared \subseteq 0 .. appeared'
      <4>1. CASE blank
        BY <1>0, <2>1, <4>1
      <4>2. CASE ~ blank
        BY <1>0, <2>1, <4>2 DEF TabsType
      <4> QED BY <4>1, <4>2
    <3>2. chosen' \in 0 .. appeared' /\ call'.op # "open"
      BY <2>1, <3>1 DEF TabsType, NoCall
    <3> QED BY <2>3, <3>1, <3>2 DEF TabsType
  <2>5. ChosenIsActive'
    <3>1. CASE blank
      BY <2>1, <3>1 DEF ChosenIsActive, TabsType
    <3>2. CASE ~ blank
      BY <2>1, <3>2 DEF ChosenIsActive, resolve
    <3> QED BY <3>1, <3>2
  <2> QED BY <2>3, <2>4, <2>5
<1>10. CASE PageCloses
  BY <1>10 DEF PageCloses, TabsType, IdsAreNamed, ChosenIsActive
<1> QED BY <1>1, <1>2, <1>3, <1>4, <1>5, <1>6, <1>7, <1>8, <1>9, <1>10 DEF TabsNext

(* Ids are told apart from all that were given before, and what the caller *)
(* chose stays the active page.                                            *)
THEOREM TabsInvAlways == TabsSpec => []TabsInv
<1>1. TabsInit => TabsInv
  BY DEF TabsInit, TabsInv, TabsType, IdsAreNamed, ChosenIsActive, NoCall
<1>2. TabsInv /\ [TabsNext]_tabs => TabsInv'
  BY TabsStep
<1> QED BY <1>1, <1>2, PTL DEF TabsSpec

(* An id a caller holds never comes to mean another page, and its next     *)
(* operation lands in the page it last opened or activated as long as that *)
(* one is open (_track_pages, _resolve_active_page, open_tab, close_tab).  *)
THEOREM TabsAreWhatTheCallerMeansAlways == TabsSpec => []TabsAreWhatTheCallerMeans
<1>1. TabsInv => TabsAreWhatTheCallerMeans
  BY DEF TabsInv, IdsAreNamed, ChosenIsActive, TabsAreWhatTheCallerMeans, resolve
<1> QED BY <1>1, TabsInvAlways, PTL

-----------------------------------------------------------------------------
(* PageForm. An answer lands where it was read: a task keeps the locator   *)
(* that the scan gave its control, and as long as the page is the scanned  *)
(* one that locator matches this control and no other.                     *)

\* All that a selector or the driver can see of a control, but for its visibility.
Alike(c, d) ==
    /\ c.tag = d.tag /\ c.role = d.role /\ c.id = d.id /\ c.name = d.name /\ c.value = d.value
    /\ c.label = d.label /\ c.aria_label = d.aria_label /\ c.form = d.form
    /\ c.disabled = d.disabled

\* A control that was read is not mistaken for one that has come since.
Recognised(d, page, keys) ==
    /\ d \in Controls /\ d.key <= keys
    /\ \A i \in DOMAIN page : page[i].key = d.key => Alike(page[i], d)

\* What an answer to the control at i may be meant for.
MeantFor(i, page, meant) ==
    /\ page[i] \in meant
    /\ classify(page[i]) # "radio" => meant = {page[i]}
    /\ classify(page[i]) = "radio" =>
         \A d \in meant :
            /\ d.tag = "radio" /\ ~d.disabled /\ \E j \in DOMAIN page : d = page[j]
            /\ d # page[i] => d.name # Absent /\ d.name = page[i].name /\ d.form = page[i].form

\* On the page that was scanned the locator matches one control, the one it was made for.
Aimed(task, page) ==
    \E i \in DOMAIN page :
        /\ Matching(page, task.locator) = {i}
        /\ page[i].visible /\ task.role = classify(page[i])
        /\ task.op = "fill" => IsAsked(page[i]) /\ MeantFor(i, page, task.meant)
        /\ task.op # "fill" => task.meant = {page[i]}

TaskInv(task, page, keys, changed) ==
    /\ task.op \in {"fill", "upload", "click"}
    /\ \A d \in task.meant : Recognised(d, page, keys)
    /\ task.locator.by # "nth" => \E d \in task.meant : task.locator \in Attributes(d)
    /\ ~changed => Aimed(task, page)

VisitType ==
    /\ visit = [backend |-> visit.backend, page |-> visit.page, shows |-> visit.shows,
                keys |-> visit.keys, todo |-> visit.todo, phase |-> visit.phase,
                changed |-> visit.changed, changes |-> visit.changes, acted |-> visit.acted]
    /\ visit.page \in Seq(Controls) /\ visit.keys \in Nat /\ visit.changed \in BOOLEAN

VisitInv ==
    /\ VisitType
    /\ visit.phase = "opened" =>
         /\ visit.todo = {} /\ ~visit.changed /\ visit.keys = Len(visit.page)
         /\ \A i \in DOMAIN visit.page : visit.page[i].key = i
    /\ \A task \in visit.todo : TaskInv(task, visit.page, visit.keys, visit.changed)
    /\ AnswersLandWhereRead

(* What a control is found by is a selector of an attribute.               *)
LEMMA AttributeSelectors ==
    ASSUME NEW c, NEW s \in Attributes(c)
    PROVE  s.by # "nth"
<1>1. \/ s = Selector("id", <<c.id>>) \/ s = Selector("name", <<c.name>>)
      \/ s = Selector("name and value", <<c.name, c.value>>)
      \/ s = Selector("aria-label", <<c.aria_label>>)
  BY DEF Attributes
<1>2. \A by \in {"id", "name", "name and value", "aria-label"} :
         \A keys : Selector(by, keys).by = by
  BY DEF Selector
<1> QED BY <1>1, <1>2

LEMMA AlikeAreFoundAlike ==
    ASSUME NEW c, NEW d, Alike(c, d)
    PROVE  Attributes(c) = Attributes(d)
<1>1. c.id = d.id /\ c.name = d.name /\ c.value = d.value /\ c.aria_label = d.aria_label
  BY DEF Alike
<1> QED BY <1>1 DEF Attributes

LEMMA PositionsAreFinite ==
    ASSUME NEW page \in Seq(Controls), NEW S \in SUBSET DOMAIN page
    PROVE  IsFiniteSet(S) /\ Cardinality(S) \in Nat
<1>1. DOMAIN page = 1 .. Len(page) /\ Len(page) \in Nat
  OBVIOUS
<1>2. IsFiniteSet(1 .. Len(page))
  BY <1>1, FS_Interval
<1>3. IsFiniteSet(S)
  BY <1>1, <1>2, FS_Subset
<1> QED BY <1>3, FS_CardinalityType

\* The locator matches the control at i and no other.
Points(page, i, locator) ==
    /\ Matching(page, locator) = {i}
    /\ locator.by # "nth" => locator \in Attributes(page[i])

(* A selector that is unique in the document matches the control it was    *)
(* made for (_unique_selectors).                                           *)
LEMMA UniqueIsPointed ==
    ASSUME NEW page \in Seq(Controls), NEW i \in DOMAIN page,
           NEW s \in Attributes(page[i]), unique(page, s)
    PROVE  Points(page, i, s)
<1> DEFINE found == Matching(page, s)
<1>1. found = {j \in DOMAIN page : s \in Attributes(page[j])}
  BY AttributeSelectors DEF Matching
<1>2. i \in found /\ found \in SUBSET DOMAIN page
  BY <1>1
<1>3. Cardinality(found) = 1
  BY DEF unique
<1> HIDE DEF found
<1>4. IsFiniteSet(found)
  BY <1>2, PositionsAreFinite
<1>5. PICK x : found = {x}
  BY <1>3, <1>4, FS_Singleton
<1>6. found = {i}
  BY <1>2, <1>5
<1> QED BY <1>6 DEF Points, found

(* The position of a visible control in its group tells it apart: of two   *)
(* of the group one has the other ahead of it (_nth_selector).             *)
LEMMA PositionPoints ==
    ASSUME NEW page \in Seq(Controls), NEW i \in DOMAIN page, page[i].visible
    PROVE  Points(page, i, nth_selector(page, i))
<1> DEFINE P == Peers(page, nth_group(page[i]))
           A(j) == Ahead(P, j)
           s == nth_selector(page, i)
<1>1. s.by = "nth" /\ s.keys = nth_group(page[i]) /\ s.index = Cardinality(A(i))
  BY DEF nth_selector, index_in_group
<1>2. i \in P /\ P \in SUBSET DOMAIN page
  BY DEF Peers
<1>3. \A j \in P : A(j) \in SUBSET DOMAIN page /\ j \in Nat
  BY <1>2 DEF Ahead
<1>4. \A j \in P : \A k \in P : j < k => A(j) \in SUBSET A(k) /\ j \in A(k) /\ j \notin A(j)
  BY <1>3 DEF Ahead
<1>5. Matching(page, s) = {j \in P : Cardinality(A(j)) = Cardinality(A(i))}
  BY <1>1 DEF Matching
<1> HIDE DEF P, A, s
<1>6. \A j \in P : IsFiniteSet(A(j)) /\ Cardinality(A(j)) \in Nat
  BY <1>3, PositionsAreFinite
<1>7. ASSUME NEW j \in P, NEW k \in P, j < k, Cardinality(A(j)) = Cardinality(A(k)) PROVE FALSE
  <2>1. A(j) = A(k)
    BY <1>4, <1>6, <1>7, FS_Subset
  <2> QED BY <1>4, <1>7, <2>1
<1>8. \A j \in P : Cardinality(A(j)) = Cardinality(A(i)) => j = i
  <2>1. \A j \in P : j < i \/ i < j \/ i = j
    BY <1>2, <1>3
  <2> QED BY <1>2, <1>7, <2>1
<1>9. Matching(page, s) = {i}
  BY <1>2, <1>5, <1>8
<1> QED BY <1>1, <1>9 DEF Points, s

(* Whatever locators are taken already, a control is given one that        *)
(* matches it alone (build_playwright_locator).                            *)
LEMMA LocatorPoints ==
    ASSUME NEW page \in Seq(Controls), NEW i \in DOMAIN page, page[i].visible, NEW used
    PROVE  /\ Points(page, i, build_locator(page, i, used))
           /\ build_locator(page, i, used) \in Attributes(page[i]) \cup {nth_selector(page, i)}
<1> DEFINE candidates == locator_candidates(page[i])
           free == {n \in 1 .. 3 : /\ candidates[n] \in Attributes(page[i]) \ used
                                   /\ unique(page, candidates[n])}
           locator == build_locator(page, i, used)
<1>1. locator = IF free = {} THEN nth_selector(page, i) ELSE candidates[Min(free)]
  BY DEF build_locator
<1>2. free \in SUBSET Nat
  OBVIOUS
<1>3. \A n \in free : candidates[n] \in Attributes(page[i]) /\ unique(page, candidates[n])
  OBVIOUS
<1> HIDE DEF candidates, free, locator
<1>4. CASE free = {}
  BY <1>1, <1>4, PositionPoints DEF locator
<1>5. CASE free # {}
  <2>1. \E x \in free : \A y \in free : x <= y
    BY <1>2, <1>5, SmallestNumber
  <2>2. Min(free) \in free
    BY <2>1 DEF Min
  <2>3. Points(page, i, candidates[Min(free)])
    BY <1>3, <2>2, UniqueIsPointed
  <2> QED BY <1>1, <1>3, <1>5, <2>2, <2>3 DEF locator
<1> QED BY <1>4, <1>5

\* What the scan says of a control is so.
IsFound(page, e) ==
    /\ e.at \in DOMAIN page /\ page[e.at].visible /\ e.control = page[e.at]
    /\ Points(page, e.at, e.locator)

LEMMA StagedIsFound ==
    ASSUME NEW page \in Seq(Controls), NEW n \in DOMAIN page, NEW elements,
           \A e \in elements : IsFound(page, e)
    PROVE  \A e \in Staged(page, n, elements) : IsFound(page, e)
<1>1. CASE ~page[n].visible
  BY <1>1 DEF Staged
<1>2. CASE page[n].visible
  <2> DEFINE used == {e.locator : e \in elements}
             locator == build_locator(page, n, used)
             new == Element(locator, n, page[n])
  <2>1. Staged(page, n, elements) = elements \cup {new}
    BY <1>2 DEF Staged
  <2>2. Points(page, n, locator)
    BY <1>2, LocatorPoints
  <2>3. new.locator = locator /\ new.at = n /\ new.control = page[n]
    BY DEF Element
  <2> HIDE DEF used, locator, new
  <2>4. IsFound(page, new)
    BY <1>2, <2>2, <2>3 DEF IsFound
  <2> QED BY <2>1, <2>4
<1> QED BY <1>1, <1>2

\* The elements there may be on a page.
Addresses(page) == UNION {Attributes(page[n]) \cup {nth_selector(page, n)} : n \in DOMAIN page}
Candidates(page) == {Element(l, n, page[n]) : l \in Addresses(page), n \in DOMAIN page}

LEMMA StagedTyped ==
    ASSUME NEW page \in Seq(Controls), NEW n \in DOMAIN page, NEW elements \in SUBSET Candidates(page)
    PROVE  Staged(page, n, elements) \in SUBSET Candidates(page)
<1>1. CASE ~page[n].visible
  BY <1>1 DEF Staged
<1>2. CASE page[n].visible
  <2> DEFINE used == {e.locator : e \in elements}
             locator == build_locator(page, n, used)
             new == Element(locator, n, page[n])
  <2>1. Staged(page, n, elements) = elements \cup {new}
    BY <1>2 DEF Staged
  <2>2. locator \in Addresses(page)
    BY <1>2, LocatorPoints DEF Addresses
  <2> HIDE DEF used, locator
  <2>3. new \in Candidates(page)
    BY <2>2 DEF Candidates
  <2> HIDE DEF new
  <2> QED BY <2>1, <2>3
<1> QED BY <1>1, <1>2

(* The scan is right of every control it returns (elements_from_metadata). *)
LEMMA ElementsAreFound ==
    ASSUME NEW page \in Seq(Controls)
    PROVE  \A e \in elements_from_metadata(page) : IsFound(page, e)
<1> DEFINE N == Len(page)
           D == SUBSET Candidates(page)
           step == [p \in (1 .. N) \X D |-> Staged(page, p[1], p[2])]
<1>1. \A n \in 1 .. N : \A x \in D : step[<<n, x>>] = Staged(page, n, x)
  OBVIOUS
<1>2. N \in Nat /\ DOMAIN page = 1 .. N /\ {} \in D
  OBVIOUS
<1> HIDE DEF step
<1>3. \A n \in 1 .. N : \A x \in D : step[<<n, x>>] \in D
  <2>1. ASSUME NEW n \in 1 .. N, NEW x \in D PROVE step[<<n, x>>] \in D
    <3>1. n \in DOMAIN page /\ x \in SUBSET Candidates(page)
      BY <1>2
    <3>2. Staged(page, n, x) \in SUBSET Candidates(page)
      BY <3>1, StagedTyped
    <3> QED BY <1>1, <3>2
  <2> QED BY <2>1
<1>4. PICK f \in [0 .. N -> D] : Follows(f, N, {}, step)
  <2> HIDE DEF N, D
  <2> QED BY <1>2, <1>3, Recursion
<1>5. \A n \in 1 .. N : n - 1 \in 0 .. N /\ n \in 0 .. N /\ n # 0
  BY <1>2
<1> DEFINE G(g) == [n \in 0 .. N |-> IF n = 0 THEN {} ELSE Staged(page, n, g[n - 1])]
           after == CHOOSE g : g = G(g)
<1>6. f = G(f)
  <2>1. \A n \in 0 .. N : n = 0 \/ n \in 1 .. N
    BY <1>2
  <2> HIDE DEF N, D
  <2>2. f[0] = {} /\ \A n \in 1 .. N : f[n] = Staged(page, n, f[n - 1])
    BY <1>1, <1>4, <1>5 DEF Follows
  <2> QED BY <1>4, <1>5, <2>1, <2>2
<1>7. after = G(after)
  <2> HIDE DEF G
  <2> QED BY <1>6
<1>8. elements_from_metadata(page) = after[N]
  BY DEF elements_from_metadata
<1> HIDE DEF after, N
<1>9. after[0] = {} /\ \A n \in 1 .. N : after[n] = Staged(page, n, after[n - 1])
  <2>1. 0 \in 0 .. N
    BY <1>2
  <2>2. after[0] = {}
    BY <1>7, <2>1
  <2>3. ASSUME NEW n \in 1 .. N PROVE after[n] = Staged(page, n, after[n - 1])
    <3>1. n \in 0 .. N /\ n # 0
      BY <1>5
    <3> QED BY <1>7, <3>1
  <2> QED BY <2>2, <2>3
<1> DEFINE T == {n \in 0 .. N : \A e \in after[n] : IsFound(page, e)}
<1>10. 0 \in T
  BY <1>2, <1>9
<1>11. ASSUME NEW n \in 1 .. N, n - 1 \in T PROVE n \in T
  <2>1. \A e \in Staged(page, n, after[n - 1]) : IsFound(page, e)
    BY <1>2, <1>11, StagedIsFound
  <2> QED BY <1>5, <1>9, <2>1
<1>12. T \in SUBSET (0 .. N) /\ N \in 0 .. N
  BY <1>2
<1>13. \A n \in 1 .. N : n - 1 \in T => n \in T
  BY <1>11
<1>14. T = 0 .. N
  <2> HIDE DEF T
  <2> QED BY <1>2, <1>10, <1>12, <1>13, UpTo
<1> QED BY <1>8, <1>12, <1>14

LEMMA ReadIsRecognised ==
    ASSUME NEW page \in Seq(Controls), \A i \in DOMAIN page : page[i].key = i, NEW i \in DOMAIN page
    PROVE  Recognised(page[i], page, Len(page))
<1>1. page[i] \in Controls /\ page[i].key = i /\ i \in 1 .. Len(page) /\ Len(page) \in Nat
  OBVIOUS
<1>2. ASSUME NEW j \in DOMAIN page, page[j].key = page[i].key PROVE Alike(page[j], page[i])
  <2>1. j = i
    BY <1>2
  <2> QED BY <2>1 DEF Alike
<1>3. i <= Len(page)
  BY <1>1
<1> QED BY <1>1, <1>2, <1>3 DEF Recognised

LEMMA RadioIsNative ==
    ASSUME NEW c, classify(c) = "radio", ~is_unsupported(c)
    PROVE  c.tag = "radio"
BY DEF is_unsupported

LEMMA TaskFields ==
    ASSUME NEW op, NEW e, NEW meant
    PROVE  /\ Task(op, e, meant).op = op /\ Task(op, e, meant).at = e.at
           /\ Task(op, e, meant).locator = e.locator
           /\ Task(op, e, meant).role = classify(e.control) /\ Task(op, e, meant).meant = meant
BY DEF Task

(* A question may land in the radios of its group, and in no other control *)
(* than its own if it is none (questions_from_elements).                   *)
LEMMA QuestionIsAimed ==
    ASSUME NEW page \in Seq(Controls), \A i \in DOMAIN page : page[i].key = i,
           NEW elements, \A e \in elements : IsFound(page, e),
           NEW e \in elements, Leads(e, elements)
    PROVE  TaskInv(Task("fill", e, Group(e, elements)), page, Len(page), FALSE)
<1> DEFINE task == Task("fill", e, Group(e, elements))
           i == e.at
           meant == Group(e, elements)
<1>1. /\ task.op = "fill" /\ task.locator = e.locator /\ task.role = classify(e.control)
      /\ task.meant = meant
  BY TaskFields
<1>2. i \in DOMAIN page /\ page[i].visible /\ e.control = page[i] /\ Points(page, i, e.locator)
  BY DEF IsFound
<1>3. IsAsked(page[i])
  BY <1>2 DEF Leads
<1>4. page[i] \in meant
  BY <1>2 DEF Group
<1>5. ASSUME NEW d \in meant, d # page[i]
      PROVE  /\ \E j \in DOMAIN page : d = page[j]
             /\ SameGroup(page[i], d) /\ ~d.disabled /\ ~is_unsupported(d)
  <2>1. PICK f \in elements : /\ d = f.control /\ SameGroup(e.control, f.control)
                              /\ ~f.control.disabled /\ ~is_unsupported(f.control)
    BY <1>2, <1>5 DEF Group
  <2>2. f.at \in DOMAIN page /\ f.control = page[f.at]
    BY DEF IsFound
  <2> QED BY <1>2, <2>1, <2>2
<1> HIDE DEF task, i, meant
<1>6. \A d \in meant : \E j \in DOMAIN page : d = page[j]
  BY <1>2, <1>5
<1>7. \A d \in meant : Recognised(d, page, Len(page))
  BY <1>6, ReadIsRecognised
<1>8. classify(page[i]) # "radio" => meant = {page[i]}
  BY <1>4, <1>5 DEF SameGroup
<1>9. ASSUME classify(page[i]) = "radio", NEW d \in meant
      PROVE  /\ d.tag = "radio" /\ ~d.disabled
             /\ d # page[i] => d.name # Absent /\ d.name = page[i].name /\ d.form = page[i].form
  <2>1. CASE d = page[i]
    <3>1. ~page[i].disabled /\ ~is_unsupported(page[i])
      BY <1>3 DEF IsAsked
    <3> QED BY <1>9, <2>1, <3>1, RadioIsNative
  <2>2. CASE d # page[i]
    <3>1. SameGroup(page[i], d) /\ ~d.disabled /\ ~is_unsupported(d)
      BY <1>5, <2>2
    <3>2. d.name # Absent /\ page[i].name = d.name /\ page[i].form = d.form /\ classify(d) = "radio"
      BY <3>1 DEF SameGroup
    <3>3. d.tag = "radio"
      BY <3>1, <3>2, RadioIsNative
    <3> QED BY <3>1, <3>2, <3>3
  <2> QED BY <2>1, <2>2
<1>10. MeantFor(i, page, meant)
  BY <1>4, <1>6, <1>8, <1>9 DEF MeantFor
<1>11. Aimed(task, page)
  BY <1>1, <1>2, <1>3, <1>10 DEF Aimed, Points
<1>12. task.locator.by # "nth" => \E d \in task.meant : task.locator \in Attributes(d)
  BY <1>1, <1>2, <1>4 DEF Points
<1>13. TaskInv(task, page, Len(page), FALSE)
  BY <1>1, <1>7, <1>11, <1>12 DEF TaskInv
<1> QED BY <1>13 DEF task, meant

LEMMA StepIsAimed ==
    ASSUME NEW page \in Seq(Controls), \A i \in DOMAIN page : page[i].key = i,
           NEW e, IsFound(page, e), NEW op \in {"upload", "click"}
    PROVE  TaskInv(Task(op, e, {e.control}), page, Len(page), FALSE)
<1> DEFINE task == Task(op, e, {e.control})
           i == e.at
<1>1. i \in DOMAIN page /\ page[i].visible /\ e.control = page[i] /\ Points(page, i, e.locator)
  BY DEF IsFound
<1>2. /\ task.op = op /\ task.locator = e.locator /\ task.role = classify(page[i])
      /\ task.meant = {page[i]}
  BY <1>1, TaskFields
<1> HIDE DEF task, i
<1>3. Recognised(page[i], page, Len(page))
  BY <1>1, ReadIsRecognised
<1>4. Aimed(task, page)
  BY <1>1, <1>2 DEF Aimed, Points
<1>5. task.locator.by # "nth" => \E d \in task.meant : task.locator \in Attributes(d)
  BY <1>1, <1>2 DEF Points
<1>6. TaskInv(task, page, Len(page), FALSE)
  BY <1>2, <1>3, <1>4, <1>5 DEF TaskInv
<1> QED BY <1>6 DEF task

(* Every task of the plan is aimed at the control it was read from (Plan). *)
LEMMA PlanIsAimed ==
    ASSUME NEW page \in Seq(Controls), \A i \in DOMAIN page : page[i].key = i,
           NEW elements, \A e \in elements : IsFound(page, e)
    PROVE  \A task \in Plan(elements) : TaskInv(task, page, Len(page), FALSE)
<1> SUFFICES ASSUME NEW task \in Plan(elements) PROVE TaskInv(task, page, Len(page), FALSE)
  OBVIOUS
<1>1. \/ \E e \in elements : Leads(e, elements) /\ task = Task("fill", e, Group(e, elements))
      \/ \E e \in elements : task = Task("upload", e, {e.control})
      \/ \E e \in elements : task = Task("click", e, {e.control})
  BY DEF Plan, questions_from_elements
<1>2. CASE \E e \in elements : Leads(e, elements) /\ task = Task("fill", e, Group(e, elements))
  BY <1>2, QuestionIsAimed
<1>3. CASE \E e \in elements : task = Task("upload", e, {e.control})
  BY <1>3, StepIsAimed
<1>4. CASE \E e \in elements : task = Task("click", e, {e.control})
  BY <1>4, StepIsAimed
<1> QED BY <1>1, <1>2, <1>3, <1>4

(* An action that refuses a locator of two takes the only match, if it can *)
(* be operated (click, set_input_files, fill).                             *)
LEMMA StrictIsAlone ==
    ASSUME NEW page \in Seq(Controls), NEW s, NEW op, NEW p \in Strict(page, s, op)
    PROVE  Matching(page, s) = {p} /\ p \in DOMAIN page
<1> DEFINE found == Matching(page, s)
<1>1. found \in SUBSET DOMAIN page
  BY DEF Matching, Peers
<1>2. Cardinality(found) = 1 /\ p \in found
  BY DEF Strict
<1> HIDE DEF found
<1>3. IsFiniteSet(found)
  BY <1>1, PositionsAreFinite
<1>4. found = {p}
  BY <1>2, <1>3, FS_Singleton
<1> QED BY <1>1, <1>2, <1>4 DEF found

LEMMA StrictHits ==
    ASSUME NEW page, NEW s, NEW i, Matching(page, s) = {i}, NEW op,
           op # "upload" => Operable(page[i])
    PROVE  Strict(page, s, op) = {i}
<1>1. Cardinality({i}) = 1
  BY FS_Singleton
<1> QED BY <1>1 DEF Strict

LEMMA LeastOfOne == ASSUME NEW i \in Nat PROVE Min({i}) = i
BY DEF Min

\* The first match, that fill_field asks what it is.
First(page, s) == page[Min(Matching(page, s))]

LEMMA FillIsStrict ==
    ASSUME NEW page, NEW s, NEW answer, NEW p \in fill_field(page, s, answer),
           ~IsRadio(First(page, s))
    PROVE  p \in Strict(page, s, "fill")
<1>1. ~("radio" \in {First(page, s).tag, First(page, s).role})
  BY DEF IsRadio
<1> QED BY <1>1 DEF fill_field, First

LEMMA FillOfRadio ==
    ASSUME NEW page \in Seq(Controls), NEW s, NEW i \in DOMAIN page, Matching(page, s) = {i},
           NEW answer, NEW p \in fill_field(page, s, answer), IsRadio(page[i])
    PROVE  p \in DOMAIN page /\ (p = i \/ InGroup(page[i], page[p]))
<1>1. Min({i}) = i
  BY LeastOfOne
<1>2. "radio" \in {page[i].tag, page[i].role}
  BY DEF IsRadio
<1>3. p \in fill_radio(page, s, answer)
  BY <1>1, <1>2 DEF fill_field
<1> QED BY <1>1, <1>3 DEF fill_radio

(* On the page that was scanned an action reaches the control its locator  *)
(* was made for, or a radio of the group of this radio.                    *)
LEMMA AimedLandsRight ==
    ASSUME NEW page \in Seq(Controls), NEW task, Aimed(task, page), NEW answer,
           NEW p \in IF task.op = "fill" THEN fill_field(page, task.locator, answer)
                     ELSE Strict(page, task.locator, task.op)
    PROVE  p \in DOMAIN page /\ Meant(task, page[p])
<1> DEFINE s == task.locator
<1>1. PICK i \in DOMAIN page : Matching(page, s) = {i} /\ page[i] \in task.meant
  BY DEF Aimed, MeantFor
<1> HIDE DEF s
<1>2. CASE p = i
  <2>1. page[p] \in task.meant /\ p \in DOMAIN page
    BY <1>1, <1>2
  <2> QED BY <2>1 DEF Meant
<1>3. CASE p # i
  <2>1. task.op = "fill" /\ p \in fill_field(page, s, answer)
    <3>1. \/ task.op = "fill" /\ p \in fill_field(page, s, answer)
          \/ p \in Strict(page, s, task.op)
      BY DEF s
    <3>2. ASSUME p \in Strict(page, s, task.op) PROVE FALSE
      <4>1. Matching(page, s) = {p}
        BY <3>2, StrictIsAlone
      <4> QED BY <1>1, <1>3, <4>1
    <3> QED BY <3>1, <3>2
  <2>2. IsRadio(page[i])
    <3>1. Min({i}) = i
      BY LeastOfOne
    <3>2. ~IsRadio(First(page, s)) => p \in Strict(page, s, "fill")
      BY <2>1, FillIsStrict
    <3>3. First(page, s) = page[i]
      BY <1>1, <3>1 DEF First
    <3>4. p \notin Strict(page, s, "fill")
      <4> SUFFICES ASSUME p \in Strict(page, s, "fill") PROVE FALSE
        OBVIOUS
      <4>1. Matching(page, s) = {p}
        BY StrictIsAlone
      <4> QED BY <1>1, <1>3, <4>1
    <3> QED BY <3>2, <3>3, <3>4
  <2>3. p \in DOMAIN page /\ InGroup(page[i], page[p])
    BY <1>1, <1>3, <2>1, <2>2, FillOfRadio
  <2> QED BY <1>1, <2>2, <2>3 DEF Meant
<1> QED BY <1>2, <1>3

(* On a page that has changed an action reaches the control that was meant *)
(* while it stands, unless a radio has come to answer first.               *)
LEMMA StandingLandsRight ==
    ASSUME NEW page \in Seq(Controls), NEW task, NEW keys, NEW answer,
           \A d \in task.meant : Recognised(d, page, keys),
           task.locator.by # "nth", \E d \in task.meant : task.locator \in Attributes(d),
           IsStillThere(task, page),
           ~(task.op = "fill" /\ RadioComesFirst(task, page)),
           NEW p \in IF task.op = "fill" THEN fill_field(page, task.locator, answer)
                     ELSE Strict(page, task.locator, task.op)
    PROVE  p \in DOMAIN page /\ Meant(task, page[p])
<1> DEFINE s == task.locator
           found == Matching(page, s)
<1>1. PICK d \in task.meant : s \in Attributes(d)
  OBVIOUS
<1>2. PICK k \in DOMAIN page : page[k].key = d.key
  BY DEF IsStillThere
<1>3. found = {j \in DOMAIN page : s \in Attributes(page[j])}
  BY DEF Matching
<1>4. Alike(page[k], d)
  BY <1>2 DEF Recognised
<1>5. k \in found
  BY <1>1, <1>3, <1>4, AlikeAreFoundAlike
<1>6. found \in SUBSET Nat
  BY <1>3
<1>7. PICK x \in found : \A y \in found : x <= y
  <2> HIDE DEF found
  <2> QED BY <1>5, <1>6, SmallestNumber
<1>8. Min(found) \in found /\ \A y \in found : Min(found) <= y
  <2> HIDE DEF found
  <2> QED BY <1>7 DEF Min
<1>9. \E op : p \in Strict(page, s, op)
  <2>1. CASE task.op = "fill"
    <3>1. ~IsRadio(page[Min(found)])
      <4> HIDE DEF found
      <4>1. Matching(page, task.locator) = found
        BY DEF found
      <4> QED BY <1>8, <2>1, <4>1 DEF RadioComesFirst
    <3>2. p \in fill_field(page, s, answer)
      BY <2>1
    <3>3. p \in Strict(page, s, "fill")
      BY <3>1, <3>2, FillIsStrict DEF First
    <3> QED BY <3>3
  <2>2. CASE task.op # "fill"
    BY <2>2
  <2> QED BY <2>1, <2>2
<1>10. found = {p} /\ p \in DOMAIN page
  BY <1>9, StrictIsAlone
<1> HIDE DEF found
<1>11. p = k
  BY <1>5, <1>10
<1> QED BY <1>1, <1>2, <1>10, <1>11 DEF Meant

(* A radio of the group that fits the answer is checked: the first of them *)
(* is visible, since all are (_fill_radio).                                *)
LEMMA RadioLands ==
    ASSUME NEW page \in Seq(Controls), NEW s, NEW i \in DOMAIN page, Matching(page, s) = {i},
           page[i].tag = "radio", page[i].visible, NEW meant, MeantFor(i, page, meant),
           classify(page[i]) = "radio", NEW answer,
           NEW d \in meant, d.value = answer,
           \A j \in DOMAIN page : InGroup(d, page[j]) /\ page[j].value = answer => page[j].visible
    PROVE  fill_field(page, s, answer) # {}
<1> DEFINE group == IF page[i].name # Absent THEN {j \in DOMAIN page : InGroup(page[i], page[j])}
                    ELSE {j \in {i} : page[j].form = page[i].form}
           fitting == {j \in group : /\ page[j].tag \in {"radio", "checkbox", "text", "file"}
                                     /\ ~page[j].disabled /\ page[j].value = answer}
<1>1. Min({i}) = i
  BY LeastOfOne
<1>2. ~IsCustom(page[i]) /\ "radio" \in {page[i].tag, page[i].role}
  BY DEF IsCustom
<1>3. fill_field(page, s, answer) = fill_radio(page, s, answer)
  BY <1>1, <1>2 DEF fill_field
<1>4. fill_radio(page, s, answer) =
        {j \in fitting : /\ \A o \in fitting : j <= o
                         /\ page[j].tag \in {"radio", "checkbox"} /\ page[j].visible}
  <2>1. page[Min(Matching(page, s))] = page[i] /\ Matching(page, s) = {i}
    BY <1>1
  <2> QED BY <2>1, SMTT(60) DEF fill_radio
<1>5. PICK k \in DOMAIN page : d = page[k]
  BY DEF MeantFor
<1>6. /\ d.tag = "radio" /\ ~d.disabled
      /\ d # page[i] => d.name # Absent /\ d.name = page[i].name /\ d.form = page[i].form
  BY DEF MeantFor
<1>7. \A j \in group : j \in DOMAIN page /\ j \in Nat
  OBVIOUS
<1>8. fitting # {}
  <2>1. CASE page[i].name # Absent
    <3>1. InGroup(page[i], page[k])
      BY <1>5, <1>6, <2>1 DEF InGroup
    <3>2. k \in group
      BY <2>1, <3>1
    <3> HIDE DEF group
    <3>3. k \in fitting
      BY <1>5, <1>6, <3>2
    <3> QED BY <3>3
  <2>2. CASE page[i].name = Absent
    <3>1. d = page[i]
      BY <1>6, <2>2
    <3>2. i \in group
      BY <2>2
    <3> HIDE DEF group
    <3>3. i \in fitting
      BY <1>6, <3>1, <3>2
    <3> QED BY <3>3
  <2> QED BY <2>1, <2>2
<1>9. \A j \in group : page[j].value = answer => page[j].tag = "radio" /\ page[j].visible
  <2>1. CASE page[i].name # Absent
    <3> SUFFICES ASSUME NEW j \in group, page[j].value = answer
                 PROVE  page[j].tag = "radio" /\ page[j].visible
      OBVIOUS
    <3>1. j \in DOMAIN page /\ InGroup(page[i], page[j])
      BY <2>1
    <3>2. page[i].name = d.name /\ page[i].form = d.form
      BY <1>6
    <3>3. InGroup(d, page[j]) /\ page[j].tag = "radio"
      BY <3>1, <3>2 DEF InGroup
    <3> QED BY <3>1, <3>3
  <2>2. CASE page[i].name = Absent
    BY <2>2
  <2> QED BY <2>1, <2>2
<1> HIDE DEF group
<1>10. fitting \in SUBSET Nat /\ \A j \in fitting : j \in group /\ page[j].value = answer
  BY <1>7
<1> HIDE DEF fitting
<1>11. PICK m \in fitting : \A o \in fitting : m <= o
  BY <1>8, <1>10, SmallestNumber
<1>12. page[m].tag = "radio" /\ page[m].visible
  BY <1>9, <1>10
<1>13. m \in fill_radio(page, s, answer)
  BY <1>4, <1>11, <1>12
<1> QED BY <1>3, <1>13

\* A control that is asked and is no radio is of no custom kind but for a select.
LEMMA AskedIsPlain ==
    ASSUME NEW c, IsAsked(c), classify(c) # "radio", c.role # "radio", ~IsCustom(c)
    PROVE  /\ c.tag # "radio" /\ ~c.disabled
           /\ classify(c) # "checkbox" => "checkbox" \notin {c.tag, c.role}
BY DEF IsAsked, is_unsupported, classify, IsCustom

(* On the page that was scanned what fits a control does land.             *)
LEMMA FittingLands ==
    ASSUME NEW page \in Seq(Controls), NEW task, task.op \in {"fill", "upload", "click"},
           Aimed(task, page), NEW answer, FitsControl(task, answer, page)
    PROVE  (IF task.op = "fill" THEN fill_field(page, task.locator, answer)
            ELSE Strict(page, task.locator, task.op)) # {}
<1> DEFINE s == task.locator
<1>1. PICK i \in DOMAIN page :
        /\ Matching(page, s) = {i}
        /\ page[i].visible /\ task.role = classify(page[i])
        /\ task.op = "fill" => IsAsked(page[i]) /\ MeantFor(i, page, task.meant)
        /\ task.op # "fill" => task.meant = {page[i]}
  BY DEF Aimed
<1>2. Min({i}) = i
  BY LeastOfOne
<1> HIDE DEF s
<1>3. CASE task.op = "upload"
  <2>1. Strict(page, s, "upload") = {i}
    BY <1>1, StrictHits
  <2> QED BY <1>3, <2>1 DEF s
<1>4. CASE task.op = "click"
  <2>1. \A d \in task.meant : ~d.disabled
    BY <1>4 DEF FitsControl
  <2>2. Operable(page[i])
    BY <1>1, <1>4, <2>1 DEF Operable
  <2>3. Strict(page, s, "click") = {i}
    BY <1>1, <2>2, StrictHits
  <2> QED BY <1>4, <2>3 DEF s
<1>5. CASE task.op = "fill" /\ task.role = "radio"
  <2>1. PICK d \in task.meant :
          /\ d.value = answer
          /\ \A j \in DOMAIN page : InGroup(d, page[j]) /\ page[j].value = answer => page[j].visible
    BY <1>5 DEF FitsControl
  <2>2. classify(page[i]) = "radio" /\ MeantFor(i, page, task.meant) /\ IsAsked(page[i])
    BY <1>1, <1>5
  <2>3. page[i].tag = "radio"
    BY <2>2, RadioIsNative DEF IsAsked
  <2>4. fill_field(page, s, answer) # {}
    BY <1>1, <2>1, <2>2, <2>3, RadioLands
  <2> QED BY <1>5, <2>4 DEF s
<1>6. CASE task.op = "fill" /\ task.role # "radio"
  <2>1. /\ \A d \in task.meant : d.role # "radio" /\ ~IsCustom(d)
        /\ task.role = "checkbox" => checked_from_answer(answer)
    BY <1>6 DEF FitsControl
  <2>2. page[i] \in task.meant /\ IsAsked(page[i]) /\ classify(page[i]) # "radio"
    BY <1>1, <1>6 DEF MeantFor
  <2>3. /\ page[i].tag # "radio" /\ page[i].role # "radio" /\ ~page[i].disabled
        /\ ~IsCustom(page[i])
        /\ classify(page[i]) # "checkbox" => "checkbox" \notin {page[i].tag, page[i].role}
    BY <2>1, <2>2, AskedIsPlain
  <2>4. Operable(page[i])
    BY <1>1, <2>3 DEF Operable
  <2>5. Strict(page, s, "fill") = {i}
    BY <1>1, <2>4, StrictHits
  <2>6. "checkbox" \in {page[i].tag, page[i].role} => checked_from_answer(answer)
    BY <1>1, <2>1, <2>3
  <2>7. fill_field(page, s, answer) = {i}
    BY <1>1, <1>2, <2>3, <2>5, <2>6 DEF fill_field
  <2> QED BY <1>6, <2>7 DEF s
<1> QED BY <1>3, <1>4, <1>5, <1>6

LEMMA PageInitially == PageInit => VisitInv
<1> SUFFICES ASSUME PageInit PROVE VisitInv
  OBVIOUS
<1>1. PICK backend \in {"playwright", "ego_lite"}, p \in Pages, shows \in Texts :
        visit = [backend |-> backend, page |-> Keyed(p), shows |-> shows, keys |-> Len(p),
                 todo |-> {}, phase |-> "opened", changed |-> FALSE, changes |-> 0,
                 acted |-> NoAction]
  BY DEF PageInit
<1>2. p \in Seq(Controls)
  BY PageAssumption
<1> DEFINE N == Len(p)
           q == Keyed(p)
<1>3. N \in Nat /\ DOMAIN p = 1 .. N
  BY <1>2
<1>4. ASSUME NEW i \in 1 .. N PROVE q[i] \in Controls /\ q[i].key = i
  <2> DEFINE c == p[i]
  <2>1. c \in Controls /\ i \in Nat /\ i \in DOMAIN p
    BY <1>2, <1>3
  <2>2. q[i] = [c EXCEPT !.key = i]
    BY <2>1 DEF Keyed
  <2> HIDE DEF c, q
  <2>3. [c EXCEPT !.key = i] \in Controls /\ [c EXCEPT !.key = i].key = i
    BY <2>1 DEF Controls
  <2> QED BY <2>2, <2>3
<1>5. /\ q \in Seq(Controls) /\ Len(q) = N
      /\ \A i \in DOMAIN q : q[i].key = i
  <2>1. q = [i \in 1 .. N |-> q[i]]
    BY <1>3 DEF Keyed
  <2> HIDE DEF q, N
  <2>2. q \in [1 .. N -> Controls]
    BY <1>4, <2>1
  <2>3. q \in Seq(Controls)
    BY <1>3, <2>2, SeqDef
  <2>4. DOMAIN q = 1 .. Len(q) /\ Len(q) \in Nat
    BY <2>3
  <2>5. DOMAIN q = 1 .. N
    BY <2>1
  <2>6. Len(q) = N
    <3> DEFINE m == Len(q)
    <3>1. m \in Nat /\ N \in Nat /\ 1 .. m = 1 .. N
      BY <1>3, <2>4, <2>5
    <3> HIDE DEF m
    <3>2. ASSUME m < N PROVE FALSE
      <4>1. N \in 1 .. N /\ ~(N \in 1 .. m)
        BY <3>1, <3>2
      <4> QED BY <3>1, <4>1
    <3>3. ASSUME N < m PROVE FALSE
      <4>1. m \in 1 .. m /\ ~(m \in 1 .. N)
        BY <3>1, <3>3
      <4> QED BY <3>1, <4>1
    <3>4. m = N
      BY <3>1, <3>2, <3>3
    <3> QED BY <3>4 DEF m
  <2> QED BY <1>4, <2>3, <2>5, <2>6
<1> HIDE DEF q
<1>8. visit.page = q /\ visit.keys = N /\ visit.todo = {} /\ ~visit.changed
  BY <1>1 DEF q
<1>6. VisitType
  BY <1>1, <1>3, <1>5, <1>8 DEF VisitType
<1>7. AnswersLandWhereRead
  BY <1>1 DEF AnswersLandWhereRead
<1> QED BY <1>5, <1>6, <1>7, <1>8 DEF VisitInv

LEMMA ObserveKeeps == ASSUME VisitInv, Observe PROVE VisitInv'
<1> DEFINE page == visit.page
           todo == IF detect_condition(visit.shows) \in HANDOFF_CONDITIONS THEN {}
                   ELSE Plan(Scanned(visit))
<1>1. visit.phase = "opened" /\ visit' = [visit EXCEPT !.phase = "read", !.todo = todo]
  BY DEF Observe
<1>2. /\ page \in Seq(Controls) /\ visit.keys = Len(page) /\ ~visit.changed
      /\ \A i \in DOMAIN page : page[i].key = i
  BY <1>1 DEF VisitInv, VisitType
<1>3. \A e \in Scanned(visit) : IsFound(page, e)
  BY <1>2, ElementsAreFound DEF Scanned
<1>4. \A task \in todo : TaskInv(task, page, Len(page), FALSE)
  BY <1>2, <1>3, PlanIsAimed
<1> HIDE DEF todo
<1>5. /\ visit'.page = page /\ visit'.keys = Len(page) /\ visit'.changed = FALSE
      /\ visit'.todo = todo /\ visit'.phase = "read" /\ visit'.acted = visit.acted
  BY <1>1, <1>2 DEF VisitInv, VisitType
<1>6. VisitType'
  BY <1>1, <1>5 DEF VisitInv, VisitType
<1>7. AnswersLandWhereRead'
  BY <1>5 DEF VisitInv, AnswersLandWhereRead
<1> QED BY <1>4, <1>5, <1>6, <1>7 DEF VisitInv

LEMMA PerformKeeps == ASSUME VisitInv, Perform PROVE VisitInv'
<1> DEFINE page == visit.page
<1>1. PICK task \in visit.todo, answer \in {"yes", "no", "other"} :
        visit' = [visit EXCEPT
             !.todo = visit.todo \ {task},
             !.acted = [task |-> task, answer |-> answer, on |-> visit.changed,
                        page |-> visit.page,
                        landed |-> {visit.page[i] : i \in Reached(task, answer)}]]
  BY DEF Perform
<1> DEFINE reached == Reached(task, answer)
           landed == {page[i] : i \in reached}
           acted == [task |-> task, answer |-> answer, on |-> visit.changed, page |-> page,
                     landed |-> landed]
<1>2. reached = IF task.op = "fill" THEN fill_field(page, task.locator, answer)
                ELSE Strict(page, task.locator, task.op)
  BY DEF Reached
<1>3. page \in Seq(Controls) /\ TaskInv(task, page, visit.keys, visit.changed) /\ visit.phase # "opened"
  BY DEF VisitInv, VisitType, Perform
<1>4. ~visit.changed => \A c \in landed : Meant(task, c)
  <2> SUFFICES ASSUME ~visit.changed, NEW i \in reached PROVE Meant(task, page[i])
    OBVIOUS
  <2>1. Aimed(task, page)
    BY <1>3 DEF TaskInv
  <2> QED BY <1>2, <1>3, <2>1, AimedLandsRight
<1>5. ASSUME task.locator.by # "nth", IsStillThere(task, page)
      PROVE  \/ task.op = "fill" /\ RadioComesFirst(task, page)
             \/ \A c \in landed : Meant(task, c)
  <2> SUFFICES ASSUME ~(task.op = "fill" /\ RadioComesFirst(task, page)), NEW i \in reached
               PROVE  Meant(task, page[i])
    OBVIOUS
  <2>1. /\ \A d \in task.meant : Recognised(d, page, visit.keys)
        /\ \E d \in task.meant : task.locator \in Attributes(d)
    BY <1>3, <1>5 DEF TaskInv
  <2> QED BY <1>2, <1>3, <1>5, <2>1, StandingLandsRight
<1>6. ~visit.changed /\ FitsControl(task, answer, page) => landed # {}
  <2> SUFFICES ASSUME ~visit.changed, FitsControl(task, answer, page) PROVE reached # {}
    OBVIOUS
  <2>1. Aimed(task, page) /\ task.op \in {"fill", "upload", "click"}
    BY <1>3 DEF TaskInv
  <2> QED BY <1>2, <1>3, <2>1, FittingLands
<1>7. /\ acted.task = task /\ acted.answer = answer /\ acted.on = visit.changed
      /\ acted.page = page /\ acted.landed = landed
  OBVIOUS
<1>8. visit' = [visit EXCEPT !.todo = visit.todo \ {task}, !.acted = acted]
  BY <1>1
<1> HIDE DEF reached, landed, acted
<1>9. /\ visit'.page = page /\ visit'.keys = visit.keys /\ visit'.changed = visit.changed
      /\ visit'.todo = visit.todo \ {task} /\ visit'.phase = visit.phase /\ visit'.acted = acted
  BY <1>8 DEF VisitInv, VisitType
<1>10. AnswersLandWhereRead'
  <2>1. AnswersLandWhereRead' <=>
          (acted # NoAction =>
             /\ ~acted.on => \A c \in acted.landed : Meant(acted.task, c)
             /\ acted.task.locator.by # "nth" /\ IsStillThere(acted.task, acted.page)
                   => \/ acted.task.op = "fill" /\ RadioComesFirst(acted.task, acted.page)
                      \/ \A c \in acted.landed : Meant(acted.task, c)
             /\ ~acted.on /\ FitsControl(acted.task, acted.answer, acted.page)
                   => acted.landed # {})
    BY <1>9 DEF AnswersLandWhereRead
  <2> QED BY <1>4, <1>5, <1>6, <1>7, <2>1
<1>11. VisitType'
  BY <1>8, <1>9 DEF VisitInv, VisitType
<1>12. \A other \in visit'.todo : TaskInv(other, visit'.page, visit'.keys, visit'.changed)
  BY <1>9 DEF VisitInv
<1> QED BY <1>3, <1>9, <1>10, <1>11, <1>12 DEF VisitInv

(* A change of the page brings no control that is mistaken for one that    *)
(* was read: a new one has a key of its own, the others stay what they are *)
(* but for being shown.                                                    *)
LEMMA ChangeKeeps ==
    ASSUME VisitInv, visit.phase # "opened", NEW page \in Seq(Controls), NEW keys \in Nat,
           visit.keys <= keys,
           \A i \in DOMAIN page :
              \/ \E j \in DOMAIN visit.page : /\ page[i].key = visit.page[j].key
                                              /\ Alike(page[i], visit.page[j])
              \/ page[i].key > visit.keys,
           VisitType', visit'.page = page, visit'.keys = keys, visit'.changed,
           visit'.todo = visit.todo, visit'.phase = visit.phase, visit'.acted = visit.acted
    PROVE  VisitInv'
<1>1. visit.page \in Seq(Controls) /\ visit.keys \in Nat
  BY DEF VisitInv, VisitType
<1>2. ASSUME NEW d, Recognised(d, visit.page, visit.keys) PROVE Recognised(d, page, keys)
  <2>1. d \in Controls /\ d.key <= visit.keys /\ d.key \in Nat
    BY <1>2 DEF Recognised, Controls
  <2>2. d.key <= keys
    BY <1>1, <2>1
  <2>3. ASSUME NEW i \in DOMAIN page, page[i].key = d.key PROVE Alike(page[i], d)
    <3>1. ~(page[i].key > visit.keys)
      BY <1>1, <2>1, <2>3
    <3>2. PICK j \in DOMAIN visit.page : /\ page[i].key = visit.page[j].key
                                         /\ Alike(page[i], visit.page[j])
      BY <3>1
    <3>3. Alike(visit.page[j], d)
      BY <1>2, <2>3, <3>2 DEF Recognised
    <3> QED BY <3>2, <3>3 DEF Alike
  <2> QED BY <2>1, <2>2, <2>3 DEF Recognised
<1>3. ASSUME NEW task \in visit.todo PROVE TaskInv(task, page, keys, visit'.changed)
  <2>1. TaskInv(task, visit.page, visit.keys, visit.changed)
    BY DEF VisitInv
  <2> QED BY <1>2, <2>1 DEF TaskInv
<1>4. AnswersLandWhereRead'
  BY DEF VisitInv, AnswersLandWhereRead
<1> QED BY <1>3, <1>4 DEF VisitInv

LEMMA JoinedLength ==
    ASSUME NEW D, NEW x \in Seq(D), NEW y \in Seq(D)
    PROVE  x \o y \in Seq(D) /\ Len(x \o y) = Len(x) + Len(y)
BY ConcatProperties

LEMMA InsertedElements ==
    ASSUME NEW D, NEW s \in Seq(D), NEW c \in D, NEW i \in 1 .. (Len(s) + 1)
    PROVE  /\ InsertAt(s, i, c) \in Seq(D)
           /\ \A k \in DOMAIN InsertAt(s, i, c) :
                 InsertAt(s, i, c)[k] = c \/ \E j \in DOMAIN s : InsertAt(s, i, c)[k] = s[j]
<1> DEFINE a == SubSeq(s, 1, i - 1)
           b == SubSeq(s, i, Len(s))
           t == InsertAt(s, i, c)
<1>1. Len(s) \in Nat /\ DOMAIN s = 1 .. Len(s) /\ i \in Nat
  OBVIOUS
<1>2. t = a \o <<c>> \o b
  BY DEF InsertAt
<1>3. a \in Seq(D) /\ Len(a) = i - 1 /\ \A k \in 1 .. (i - 1) : a[k] = s[k]
  <2>1. \A k \in 1 .. (i - 1) : s[k] \in D
    BY <1>1
  <2> QED BY <1>1, <2>1, SubSeqProperties
<1>4. b \in Seq(D) /\ Len(b) = Len(s) - i + 1 /\ \A k \in 1 .. (Len(s) - i + 1) : b[k] = s[i + k - 1]
  <2>1. \A k \in i .. Len(s) : s[k] \in D
    BY <1>1
  <2> QED BY <1>1, <2>1, SubSeqProperties
<1> HIDE DEF a, b, t
<1>5. t \in Seq(D) /\ Len(t) = Len(s) + 1
  <2> DEFINE x == a \o <<c>>
  <2>1. <<c>> \in Seq(D) /\ Len(<<c>>) = 1
    OBVIOUS
  <2>2. a \in Seq(D) /\ Len(a) = i - 1 /\ b \in Seq(D) /\ Len(b) = Len(s) - i + 1
    BY <1>3, <1>4
  <2>3. x \in Seq(D) /\ Len(x) = Len(a) + Len(<<c>>)
    BY <2>1, <2>2, JoinedLength
  <2>4. t = x \o b
    BY <1>2
  <2> HIDE DEF x
  <2>5. x \o b \in Seq(D) /\ Len(x \o b) = Len(x) + Len(b)
    BY <2>2, <2>3, JoinedLength
  <2>6. Len(x) = i
    BY <1>1, <2>1, <2>2, <2>3
  <2> QED BY <1>1, <2>2, <2>4, <2>5, <2>6
<1>6. ASSUME NEW k \in DOMAIN t PROVE t[k] = c \/ \E j \in DOMAIN s : t[k] = s[j]
  <2>1. k \in Nat /\ 1 <= k /\ k <= Len(s) + 1
    BY <1>1, <1>5
  <2>2. CASE k < i
    <3>1. t[k] = a[k]
      BY <1>1, <1>2, <1>3, <1>4, <2>1, <2>2
    <3>2. k \in 1 .. (i - 1) /\ k \in DOMAIN s
      BY <1>1, <2>1, <2>2
    <3> QED BY <1>3, <3>1, <3>2
  <2>3. CASE k = i
    BY <1>1, <1>2, <1>3, <1>4, <2>1, <2>3
  <2>4. CASE k > i
    <3>1. t[k] = b[k - i]
      BY <1>1, <1>2, <1>3, <1>4, <2>1, <2>4
    <3>2. k - i \in 1 .. (Len(s) - i + 1) /\ k - 1 \in DOMAIN s /\ i + (k - i) - 1 = k - 1
      BY <1>1, <2>1, <2>4
    <3>3. b[k - i] = s[k - 1]
      BY <1>4, <3>2
    <3> QED BY <3>1, <3>2, <3>3
  <2> QED BY <1>1, <2>1, <2>2, <2>3, <2>4
<1> QED BY <1>5, <1>6 DEF t

LEMMA RemainingElements ==
    ASSUME NEW D, NEW s \in Seq(D), NEW i \in DOMAIN s
    PROVE  /\ RemoveAt(s, i) \in Seq(D)
           /\ \A k \in DOMAIN RemoveAt(s, i) : \E j \in DOMAIN s : RemoveAt(s, i)[k] = s[j]
<1> DEFINE a == SubSeq(s, 1, i - 1)
           b == SubSeq(s, i + 1, Len(s))
           t == RemoveAt(s, i)
<1>1. Len(s) \in Nat /\ DOMAIN s = 1 .. Len(s) /\ i \in Nat /\ 1 <= i /\ i <= Len(s)
  OBVIOUS
<1>2. t = a \o b
  BY DEF RemoveAt
<1>3. a \in Seq(D) /\ Len(a) = i - 1 /\ \A k \in 1 .. (i - 1) : a[k] = s[k]
  <2>1. \A k \in 1 .. (i - 1) : s[k] \in D
    BY <1>1
  <2> QED BY <1>1, <2>1, SubSeqProperties
<1>4. b \in Seq(D) /\ Len(b) = Len(s) - i /\ \A k \in 1 .. (Len(s) - i) : b[k] = s[i + k]
  <2>1. \A k \in (i + 1) .. Len(s) : s[k] \in D
    BY <1>1
  <2>2. b \in Seq(D) /\ Len(b) = Len(s) - (i + 1) + 1
        /\ \A k \in 1 .. (Len(s) - (i + 1) + 1) : b[k] = s[(i + 1) + k - 1]
    BY <1>1, <2>1, SubSeqProperties
  <2>3. Len(s) - (i + 1) + 1 = Len(s) - i /\ \A k \in 1 .. (Len(s) - i) : (i + 1) + k - 1 = i + k
    BY <1>1
  <2> HIDE DEF b
  <2> QED BY <2>2, <2>3
<1> HIDE DEF a, b, t
<1>5. t \in Seq(D) /\ Len(t) = Len(s) - 1
  <2>1. t \in Seq(D) /\ Len(t) = Len(a) + Len(b)
    BY <1>2, <1>3, <1>4, JoinedLength
  <2> QED BY <1>1, <1>3, <1>4, <2>1
<1>6. ASSUME NEW k \in DOMAIN t PROVE \E j \in DOMAIN s : t[k] = s[j]
  <2>1. k \in Nat /\ 1 <= k /\ k <= Len(s) - 1
    BY <1>1, <1>5
  <2>2. CASE k < i
    <3>1. t[k] = a[k]
      BY <1>1, <1>2, <1>3, <1>4, <2>1, <2>2
    <3>2. k \in 1 .. (i - 1) /\ k \in DOMAIN s
      BY <1>1, <2>1, <2>2
    <3> QED BY <1>3, <3>1, <3>2
  <2>3. CASE ~(k < i)
    <3>1. t[k] = b[k - i + 1]
      BY <1>1, <1>2, <1>3, <1>4, <2>1, <2>3, SMTT(30)
    <3>2. k - i + 1 \in 1 .. (Len(s) - i) /\ k + 1 \in DOMAIN s /\ i + (k - i + 1) = k + 1
      BY <1>1, <2>1, <2>3
    <3>3. b[k - i + 1] = s[k + 1]
      BY <1>4, <3>2
    <3> QED BY <3>1, <3>2, <3>3
  <2> QED BY <2>2, <2>3
<1> QED BY <1>5, <1>6 DEF t

LEMMA SiteChangesKeeps == ASSUME VisitInv, SiteChanges PROVE VisitInv'
<1> DEFINE s == visit.page
           count == visit.changes + 1
<1>1. s \in Seq(Controls) /\ visit.keys \in Nat /\ VisitType
  BY DEF VisitInv, VisitType
<1>2. visit.phase # "opened"
  BY DEF SiteChanges, VisitInv
<1>3. ASSUME NEW c \in Pool, NEW i \in 1 .. (Len(s) + 1),
             visit' = [visit EXCEPT
                !.page = InsertAt(s, i, [c EXCEPT !.key = visit.keys + 1]),
                !.keys = @ + 1, !.changes = @ + 1, !.changed = TRUE]
      PROVE  VisitInv'
  <2> DEFINE keys == visit.keys + 1
             new == [c EXCEPT !.key = keys]
             page == InsertAt(s, i, new)
  <2>1. keys \in Nat /\ visit.keys <= keys /\ keys > visit.keys
    BY <1>1
  <2>2. new \in Controls /\ new.key = keys
    <3>1. c \in Controls
      BY PageAssumption
    <3> HIDE DEF keys
    <3> QED BY <2>1, <3>1 DEF Controls
  <2>3. visit' = [visit EXCEPT !.page = page, !.keys = keys, !.changes = count, !.changed = TRUE]
    BY <1>3
  <2> HIDE DEF keys, new
  <2>4. /\ page \in Seq(Controls)
        /\ \A k \in DOMAIN page : page[k] = new \/ \E j \in DOMAIN s : page[k] = s[j]
    BY <1>1, <2>2, InsertedElements
  <2> HIDE DEF page, count
  <2>5. /\ visit'.page = page /\ visit'.keys = keys /\ visit'.changed = TRUE
        /\ visit'.todo = visit.todo /\ visit'.phase = visit.phase /\ visit'.acted = visit.acted
    BY <1>1, <2>3 DEF VisitType
  <2>6. VisitType'
    BY <1>1, <2>1, <2>3, <2>4, <2>5 DEF VisitType
  <2>7. \A k \in DOMAIN page :
           \/ \E j \in DOMAIN s : page[k].key = s[j].key /\ Alike(page[k], s[j])
           \/ page[k].key > visit.keys
    BY <2>1, <2>2, <2>4 DEF Alike
  <2> QED BY <1>2, <2>1, <2>4, <2>5, <2>6, <2>7, ChangeKeeps
<1>4. ASSUME NEW i \in DOMAIN s,
             visit' = [visit EXCEPT
                !.page = RemoveAt(s, i), !.changes = @ + 1, !.changed = TRUE]
      PROVE  VisitInv'
  <2> DEFINE page == RemoveAt(s, i)
             keys == visit.keys
  <2>1. visit' = [visit EXCEPT !.page = page, !.changes = count, !.changed = TRUE]
    BY <1>4
  <2>2. /\ page \in Seq(Controls)
        /\ \A k \in DOMAIN page : \E j \in DOMAIN s : page[k] = s[j]
    BY <1>1, RemainingElements
  <2> HIDE DEF page, count
  <2>3. /\ visit'.page = page /\ visit'.keys = keys /\ visit'.changed = TRUE
        /\ visit'.todo = visit.todo /\ visit'.phase = visit.phase /\ visit'.acted = visit.acted
    BY <1>1, <2>1 DEF VisitType
  <2>4. VisitType'
    BY <1>1, <2>1, <2>2, <2>3 DEF VisitType
  <2>5. \A k \in DOMAIN page :
           \/ \E j \in DOMAIN s : page[k].key = s[j].key /\ Alike(page[k], s[j])
           \/ page[k].key > visit.keys
    BY <2>2 DEF Alike
  <2>6. visit.keys <= visit.keys
    BY <1>1
  <2> QED BY <1>1, <1>2, <2>2, <2>3, <2>4, <2>5, <2>6, ChangeKeeps
<1>5. ASSUME NEW i \in DOMAIN s,
             visit' = [visit EXCEPT
                !.page[i].visible = ~@, !.changes = @ + 1, !.changed = TRUE]
      PROVE  VisitInv'
  <2> DEFINE c == s[i]
             new == [c EXCEPT !.visible = ~@]
             page == [s EXCEPT ![i] = new]
             keys == visit.keys
  <2>1. visit' = [visit EXCEPT !.page = page, !.changes = count, !.changed = TRUE]
    BY <1>5
  <2>2. c \in Controls
    BY <1>1
  <2>3. new \in Controls /\ new.key = c.key /\ Alike(new, c)
    <3> HIDE DEF c
    <3> QED BY <2>2 DEF Controls, Alike
  <2> HIDE DEF new
  <2>4. /\ page \in Seq(Controls)
        /\ \A k \in DOMAIN page : k \in DOMAIN s /\ (page[k] = s[k] \/ (k = i /\ page[k] = new))
    BY <1>1, <2>3
  <2> HIDE DEF page, count
  <2>5. /\ visit'.page = page /\ visit'.keys = keys /\ visit'.changed = TRUE
        /\ visit'.todo = visit.todo /\ visit'.phase = visit.phase /\ visit'.acted = visit.acted
    BY <1>1, <2>1 DEF VisitType
  <2>6. VisitType'
    BY <1>1, <2>1, <2>4, <2>5 DEF VisitType
  <2>7. \A k \in DOMAIN page :
           \/ \E j \in DOMAIN s : page[k].key = s[j].key /\ Alike(page[k], s[j])
           \/ page[k].key > visit.keys
    BY <2>3, <2>4 DEF Alike
  <2>8. visit.keys <= visit.keys
    BY <1>1
  <2> QED BY <1>1, <1>2, <2>4, <2>5, <2>6, <2>7, <2>8, ChangeKeeps
<1> QED BY <1>3, <1>4, <1>5 DEF SiteChanges

(* The inductive invariant of a visit: every task holds the locator of a   *)
(* control that was read, which stays recognisable by its key, and on the  *)
(* page that was scanned that locator matches this control and no other    *)
(* (elements_from_metadata, questions_from_elements).                      *)
THEOREM VisitInvAlways == PageSpec => []VisitInv
<1>1. PageInit => VisitInv
  BY PageInitially
<1>2. VisitInv /\ [PageNext]_visit => VisitInv'
  <2> SUFFICES ASSUME VisitInv, [PageNext]_visit PROVE VisitInv'
    OBVIOUS
  <2>1. CASE Observe
    BY <2>1, ObserveKeeps
  <2>2. CASE Perform
    BY <2>2, PerformKeeps
  <2>3. CASE SiteChanges
    BY <2>3, SiteChangesKeeps
  <2>4. CASE UNCHANGED visit
    BY <2>4 DEF VisitInv, VisitType, AnswersLandWhereRead
  <2> QED BY <2>1, <2>2, <2>3, <2>4 DEF PageNext
<1> QED BY <1>1, <1>2, PTL DEF PageSpec

(* An answer, a file or the submit click lands in the control the scan     *)
(* read it for, or nowhere, and on the page that was scanned it does land  *)
(* where it fits (build_playwright_locator, fill_field).                   *)
THEOREM AnswersLandWhereReadAlways == PageSpec => []AnswersLandWhereRead
<1>1. VisitInv => AnswersLandWhereRead
  BY DEF VisitInv
<1> QED BY <1>1, VisitInvAlways, PTL
=============================================================================
