------------------------------ MODULE TaskSpace ------------------------------
(***************************************************************************)
(* Who holds an ego lite task space. The browser knows; EgoLiteSession and *)
(* HostedBrowserSession remember what they were last told. Every operation *)
(* is a program a helper process runs in the browser: it may fail, or be   *)
(* killed after its effect and before its answer. On a companion the       *)
(* dispatcher asks the browser who owns the space before it lets a command *)
(* through; a worker with a local session calls it directly.               *)
(***************************************************************************)
EXTENDS Naturals

VARIABLES
    hosted,     \* whether a companion's dispatcher stands before the session
    space,      \* the ownership the browser reports, "none" once completed
    owner,      \* EgoLiteSession._owner
    closed,     \* EgoLiteSession._closed
    belief,     \* HostedBrowserSession._owner, the workflow's side
    command,    \* the operation in progress
    promised,   \* history: a handoff was acknowledged, and neither the person ended it nor a close
    uninformed, \* history: the session was reopened and has not asked the browser since
    trespassed  \* history: acted in, or completed, a space held under a promise

control == <<hosted, space, owner, closed, belief, command, promised, uninformed, trespassed>>

Held == {"delegated", "user"}
Owners == {"agent"} \cup Held

\* navigate, fill, select, check, upload, click and the waits act; request_human_control
\* hands the space over; a reclaim carries the confirmation of the user, or not.
Acting == {"act", "handoff", "wait"}
Commands == Acting \cup {"control_state", "reclaim", "reclaim_unconfirmed", "close"}
NoCommand == [op |-> "none", at |-> "none"]

SpaceInit ==
    /\ hosted \in BOOLEAN
    /\ space = "agent" /\ owner = "agent" /\ closed = FALSE
    /\ belief = "agent" /\ command = NoCommand
    /\ promised = FALSE /\ uninformed = FALSE /\ trespassed = FALSE

-----------------------------------------------------------------------------
Send(op) ==
    /\ command = NoCommand
    /\ op # "wait" \/ ~hosted     \* a hosted session waits by asking control_state
    /\ command' = [op |-> op, at |-> IF hosted \/ op = "control_state" THEN "asking" ELSE "let"]
    /\ UNCHANGED <<hosted, space, owner, closed, belief, promised, uninformed, trespassed>>

OwnerUnlessKnown(answer) == IF answer = "unknown" THEN "agent" ELSE answer
\* No answer, or one it does not know, leaves the last known owner.
Known(answer) == IF answer = "unknown" THEN owner ELSE answer

\* useOrCreateTaskSpace: a program that finds no space makes one, owned by the agent.
Entered == IF space = "none" THEN "agent" ELSE space

\* control_state, which the dispatcher calls before every command of a session.
Ask ==
    /\ command.at = "asking"
    /\ \E heard \in BOOLEAN :
         /\ owner' = IF closed \/ ~heard THEN Known("unknown") ELSE Known(Entered)
         /\ space' = IF closed THEN space ELSE Entered
         /\ uninformed' = (uninformed /\ ~heard)
    /\ command' = [command EXCEPT !.at = "let"]
    /\ UNCHANGED <<hosted, closed, belief, promised, trespassed>>

Answered(new_belief) ==
    /\ command' = NoCommand
    /\ belief' = new_belief

\* _guard_user_control, and the dispatcher's refusal USER_HAS_CONTROL. Only the
\* dispatcher refuses to hand over a space the user already has.
Refused == owner # "agent" /\ command.op \in IF hosted THEN Acting ELSE {"act"}

Refuse ==
    /\ command.at = "let"
    /\ \/ Refused
       \/ closed /\ command.op \notin {"control_state", "close"}
       \/ command.op = "reclaim_unconfirmed"
    /\ Answered(belief)
    /\ UNCHANGED <<hosted, space, owner, closed, promised, uninformed, trespassed>>

\* The answer to control_state; an answer that is lost counts as the user's.
TellOwner ==
    /\ command = [op |-> "control_state", at |-> "let"]
    /\ \/ Answered(owner)
       \/ hosted /\ Answered("user")
    /\ UNCHANGED <<hosted, space, owner, closed, promised, uninformed, trespassed>>

Runs(op) == command = [op |-> op, at |-> "let"] /\ ~closed /\ ~Refused
Trespass == promised /\ ~uninformed /\ Entered \in Held

act ==
    /\ Runs("act")
    /\ space' = Entered
    /\ trespassed' = (trespassed \/ Trespass)
    /\ Answered(belief)
    /\ UNCHANGED <<hosted, owner, closed, promised, uninformed>>

\* Reported or not, the hand-over may have happened.
request_human_control ==
    /\ Runs("handoff")
    /\ \/ /\ space' = "delegated" /\ owner' = "delegated"
          /\ promised' = TRUE /\ uninformed' = FALSE
          /\ Answered("delegated")
       \/ /\ space' \in {Entered, "delegated"}
          /\ Answered(belief)
          /\ UNCHANGED <<owner, promised, uninformed>>
    /\ UNCHANGED <<hosted, closed, trespassed>>

WaitedThenTook == "agent"
\* The poll only looks.
Polled == Entered

\* A granted poll is the person giving control back; a timeout is only reported.
wait_for_control ==
    /\ Runs("wait")
    /\ space' = Polled
    /\ owner' = IF owner = "agent" \/ Polled = "agent" THEN "agent" ELSE owner
    /\ Answered(owner')
    /\ UNCHANGED <<hosted, closed, promised, uninformed, trespassed>>

\* Without a program when it believes to own the space already.
reclaim_control ==
    /\ Runs("reclaim")
    /\ \/ /\ owner = "agent"
          /\ Answered("agent") /\ UNCHANGED <<space, owner, promised>>
       \/ /\ owner # "agent"
          /\ space' = "agent" /\ owner' = "agent" /\ promised' = FALSE
          /\ Answered("agent")
       \/ /\ owner # "agent"
          /\ \/ space' = "agent" /\ promised' = FALSE
             \/ UNCHANGED <<space, promised>>
          /\ Answered(belief) /\ UNCHANGED owner
    /\ UNCHANGED <<hosted, closed, uninformed, trespassed>>

\* A space the user is in is left as it is; otherwise it is completed, unless the
\* program fails. The session is closed either way.
close ==
    /\ command = [op |-> "close", at |-> "let"]
    /\ closed' = TRUE
    /\ \/ /\ ~closed /\ owner = "agent"
          /\ space' = "none" /\ promised' = FALSE
          /\ trespassed' = (trespassed \/ Trespass)
       \/ UNCHANGED <<space, promised, trespassed>>
    /\ Answered(belief)
    /\ UNCHANGED <<hosted, owner, uninformed>>

-----------------------------------------------------------------------------
(* The person at the browser, and the process of the session.              *)

UserReturns ==
    /\ space \in Held
    /\ space' = "agent" /\ promised' = FALSE
    /\ UNCHANGED <<hosted, owner, closed, belief, command, uninformed, trespassed>>

UserTakes ==
    /\ space = "agent"
    /\ space' = "user"
    /\ UNCHANGED <<hosted, owner, closed, belief, command, promised, uninformed, trespassed>>

\* The session is opened again under the name of its space: a new object that takes
\* itself for the owner, whatever the checkpoint says.
Reopen ==
    /\ owner' = "agent" /\ closed' = FALSE
    /\ uninformed' = TRUE
    /\ command' = NoCommand
    /\ belief' = IF hosted /\ command.op = "control_state" THEN "user" ELSE belief
    /\ UNCHANGED <<hosted, space, promised, trespassed>>

SpaceNext ==
    \/ \E op \in Commands : Send(op)
    \/ Ask \/ Refuse \/ TellOwner
    \/ act \/ request_human_control \/ wait_for_control \/ reclaim_control \/ close
    \/ UserReturns \/ UserTakes \/ Reopen

SpaceSpec == SpaceInit /\ [][SpaceNext]_control

-----------------------------------------------------------------------------
(* From the moment a handoff is acknowledged until the person gives the    *)
(* browser back or confirms a reclaim, no action lands in their page and   *)
(* no close completes the space under them, whatever answers are lost;     *)
(* only a session that was reopened and could not ask the browser since    *)
(* does not know (_guard_user_control, control_state, close).              *)
HandoffIsRespected == ~trespassed

(* A space the person holds comes back to the agent when the person gives  *)
(* it back or has confirmed a reclaim, and in no other way: not because a  *)
(* wait ran out, nor because the session was reopened                      *)
(* (wait_for_control, reclaim_control).                                    *)
OnlyThePersonGivesBack ==
    [][(space \in Held /\ space' = "agent") =>
         (UserReturns \/ command = [op |-> "reclaim", at |-> "let"])]_control
=============================================================================
