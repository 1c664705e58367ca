------------------------------ MODULE Missions ------------------------------
(***************************************************************************)
(* Application missions                                                    *)
(* (apps/extension/src/privacy/application-mission.ts).                    *)
(*                                                                         *)
(* A mission prepares one application in six steps: requirements, history, *)
(* evidence, entry sheet, counseling, calendar, here numbered 1 to 6.  An  *)
(* event completes the current step, blocks it, or ends the mission; the   *)
(* calendar step is previewed, then confirmed.  An event that does not fit *)
(* the record is refused and changes nothing.  The store reads, reduces    *)
(* and writes one event at a time (CareerVault has that part), so that one *)
(* action is one event.                                                    *)
(*                                                                         *)
(* The references an event carries are left out; which preview is the one  *)
(* waiting is kept, as a number.                                           *)
(***************************************************************************)
EXTENDS Naturals

CONSTANTS
    MissionIds,     \* missions
    MaxPreviews     \* bound on the previews made (model checking only)

MissionAssumption == MaxPreviews \in Nat
ASSUME MissionAssumption

VARIABLES
    mission,    \* the stored records
    previews,   \* how many calendar previews have been made
    confirmed   \* history: which preview each mission's confirmation was for, 0 when none

missionVars == <<mission, previews, confirmed>>

StepCount == 6
MissionSteps == 1..StepCount
CalendarStep == StepCount
Statuses == {"none", "active", "blocked", "ready_for_confirmation", "completed", "cancelled"}

\* emptySteps; a record that does not exist has the status "none".
Absent == [status |-> "none", steps |-> [s \in MissionSteps |-> "pending"], current |-> 1, preview |-> 0]

MissionInit ==
    /\ mission = [m \in MissionIds |-> Absent]
    /\ previews = 0
    /\ confirmed = [m \in MissionIds |-> 0]

\* currentStep: the first step not completed, 7 when there is none.
CurrentStep(steps) ==
    CHOOSE s \in 1..(StepCount + 1) :
        /\ \A i \in MissionSteps : i < s => steps[i] = "completed"
        /\ s \in MissionSteps => steps[s] # "completed"

\* withTransition: the new record, its current step computed from its steps.
Updated(status, steps, preview) ==
    [status |-> status, steps |-> steps, current |-> CurrentStep(steps), preview |-> preview]
Store(m, r) == mission' = [mission EXCEPT ![m] = r]

\* ensureActive, ensureStep
Active(m) == mission[m].status \notin {"none", "cancelled", "completed", "blocked"}
AtStep(m, s) == Active(m) /\ mission[m].current = s

WithStep(m, s, state) == [mission[m].steps EXCEPT ![s] = state]

Create(m) ==
    /\ mission[m].status = "none"
    /\ Store(m, Updated("active", Absent.steps, 0))
    /\ UNCHANGED <<previews, confirmed>>

\* requirements-confirmed, history-collected, evidence-collected, es-drafted, counseling-selected
\* fault: the step of the event is not compared with the current one.
CompleteAnyStep(m, s) ==
    /\ Active(m)
    /\ Store(m, Updated("active", WithStep(m, s, "completed"), mission[m].preview))
    /\ UNCHANGED <<previews, confirmed>>
CompleteStep(m, s) ==
    /\ AtStep(m, s)
    /\ Store(m, Updated("active", WithStep(m, s, "completed"), mission[m].preview))
    /\ UNCHANGED <<previews, confirmed>>

\* calendar-previewed, again while one is waiting too: the newer one waits then.
PreviewCalendar(m) ==
    /\ AtStep(m, CalendarStep) /\ previews < MaxPreviews
    /\ previews' = previews + 1
    /\ Store(m, Updated("ready_for_confirmation", WithStep(m, CalendarStep, "awaiting_confirmation"), previews + 1))
    /\ UNCHANGED confirmed

\* calendar-confirmed
ConfirmCalendar(m) ==
    /\ mission[m].status = "ready_for_confirmation"
    /\ mission[m].steps[CalendarStep] = "awaiting_confirmation"
    /\ Store(m, Updated("completed", WithStep(m, CalendarStep, "completed"), mission[m].preview))
    /\ confirmed' = [confirmed EXCEPT ![m] = mission[m].preview]
    /\ UNCHANGED previews

\* blocked: the current step starts over; unblocked: the mission goes on with it.
Block(m, s) ==
    /\ AtStep(m, s)
    /\ Store(m, Updated("blocked", WithStep(m, s, "pending"), mission[m].preview))
    /\ UNCHANGED <<previews, confirmed>>
Unblock(m) ==
    /\ mission[m].status = "blocked"
    /\ Store(m, Updated(IF CurrentStep(mission[m].steps) \in MissionSteps THEN "active" ELSE "completed",
                        mission[m].steps, mission[m].preview))
    /\ UNCHANGED <<previews, confirmed>>

\* cancelled, from every status but completed; remove deletes the record.
Cancel(m) ==
    /\ mission[m].status \notin {"none", "completed"}
    /\ Store(m, Updated("cancelled", mission[m].steps, mission[m].preview))
    /\ UNCHANGED <<previews, confirmed>>
Remove(m) ==
    /\ mission[m].status # "none"
    /\ Store(m, Absent)
    /\ confirmed' = [confirmed EXCEPT ![m] = 0]
    /\ UNCHANGED previews

MissionNext ==
    \E m \in MissionIds :
        \/ Create(m) \/ PreviewCalendar(m) \/ ConfirmCalendar(m) \/ Unblock(m) \/ Cancel(m) \/ Remove(m)
        \/ \E s \in 1..(StepCount - 1) : CompleteStep(m, s)
        \/ \E s \in MissionSteps : Block(m, s)

MissionSpec == MissionInit /\ [][MissionNext]_missionVars

-----------------------------------------------------------------------------
(* Properties *)

\* The steps are done in their order (architecture.md:408): everything before the
\* current step is completed and nothing after it has begun; a mission is
\* completed exactly when all its steps are, by the confirmation of the preview
\* that was waiting, and a mission that waits for it is at the calendar step.
StepsInOrder ==
    \A m \in MissionIds :
        LET r == mission[m]
        IN /\ \A s \in MissionSteps : s < r.current => r.steps[s] = "completed"
           /\ \A s \in MissionSteps : s > r.current => r.steps[s] = "pending"
           /\ r.status = "completed" <=> r.current = StepCount + 1
           /\ r.status = "completed" => confirmed[m] = r.preview /\ r.preview # 0
           /\ r.status = "ready_for_confirmation" => r.steps[CalendarStep] = "awaiting_confirmation" /\ r.preview # 0

\* A mission that has ended does not begin again: from completed or cancelled the
\* only way is its removal.
EndedStaysEnded ==
    [][\A m \in MissionIds :
        mission[m].status \in {"completed", "cancelled"} => mission'[m].status \in {mission[m].status, "none"}]_missionVars
=============================================================================
