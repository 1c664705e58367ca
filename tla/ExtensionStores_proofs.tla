----------------------- MODULE ExtensionStores_proofs -----------------------
(***************************************************************************)
(* What the runs on MCExtensionStores check, for every value of the        *)
(* constants: any number of missions, previews, records, vaults, tabs,     *)
(* sources, panels, requests and calls, which overlap as they like.        *)
(*                                                                         *)
(* Missions                                                                *)
(*                                                                         *)
(* A mission's record does not keep the order of its steps: its current    *)
(* step is computed anew from them by every event.  The inductive invariant*)
(* is that what is computed is the boundary between the completed steps    *)
(* and those that have not begun (Ordered), which holds because an event   *)
(* completes, blocks or previews the current step only.                    *)
(*                                                                         *)
(* CareerVault                                                             *)
(*                                                                         *)
(* A record of the vault is written before the index that lists it, by a   *)
(* mutation that reads the index in one step and writes it in a later one. *)
(* That no created record is lost from the index needs VaultInv: one       *)
(* mutation at a time has its turn (OneTurn); what it has seen holds every *)
(* record whose creation was reported, and it writes under the key last    *)
(* active, unless another vault overtook it while none had been reported   *)
(* (MutationHolds); and what was reported is stored and listed under that  *)
(* key (GivenUnderActive).                                                 *)
(*                                                                         *)
(* Workspace                                                               *)
(*                                                                         *)
(* The controller reads an entry of the store, awaits the tabs, and writes *)
(* back a whole entry made of what it has read.  That an entry keeps its   *)
(* source holds because nothing ever writes another source under an id     *)
(* (EntriesHaveSource), and every call that is about to write holds a      *)
(* snapshot with the source of the entry it is of (CallHolds); the index   *)
(* of sources and the sessions of the tabs are needed to know that of the  *)
(* calls that find their entry through them.                               *)
(*                                                                         *)
(* SignIn                                                                  *)
(*                                                                         *)
(* How often a request took effect is told by where it is: only the answer *)
(* of a request that was served is an answer, and only a refusal is tried  *)
(* again (AsAnswered).  A request that is about to be sent has a session   *)
(* that was issued, wherever it found it: in memory, storage or the API    *)
(* (WithSession, Known).                                                   *)
(***************************************************************************)
EXTENDS Missions, CareerVault, Workspace, SignIn, TLAPS

(***************************************************************************)
(* Missions and the career vault                                           *)
(***************************************************************************)

StepStates == {"pending", "awaiting_confirmation", "completed"}
StepMap == [MissionSteps -> StepStates]
StoredMission ==
    [status : Statuses, steps : StepMap, current : 1..(StepCount + 1), preview : Nat]

MissionTypeOK ==
    /\ mission \in [MissionIds -> StoredMission]
    /\ previews \in Nat
    /\ confirmed \in [MissionIds -> Nat]

\* The step at which completed steps end and steps that have not begun follow.
Boundary(steps, c) ==
    /\ \A s \in MissionSteps : s < c => steps[s] = "completed"
    /\ \A s \in MissionSteps : s > c => steps[s] = "pending"
    /\ c \in MissionSteps => steps[c] # "completed"

\* What is true of one record, and of the preview its confirmation was for.
Ordered(r, preview) ==
    /\ Boundary(r.steps, r.current)
    /\ r.status = "completed" <=> r.current = StepCount + 1
    /\ r.status = "completed" => preview = r.preview /\ r.preview # 0
    /\ r.status = "ready_for_confirmation" => r.steps[CalendarStep] = "awaiting_confirmation" /\ r.preview # 0

MissionInv == MissionTypeOK /\ \A m \in MissionIds : Ordered(mission[m], confirmed[m])

-----------------------------------------------------------------------------
\* The computed current step is the boundary of the steps, where they have one.
LEMMA CurrentStepIsBoundary ==
    ASSUME NEW steps \in StepMap, NEW c \in 1..7, Boundary(steps, c)
    PROVE  CurrentStep(steps) = c
<1> DEFINE First(s) == /\ \A i \in MissionSteps : i < s => steps[i] = "completed"
                       /\ s \in MissionSteps => steps[s] # "completed"
<1>1. First(c)
  BY DEF Boundary
<1>2. ASSUME NEW s \in 1..7, First(s) PROVE s = c
  <2>1. ~(s < c)
    BY <1>2 DEF Boundary, MissionSteps, StepCount
  <2>2. ~(c < s)
    BY <1>2 DEF Boundary, MissionSteps, StepCount
  <2> QED BY <2>1, <2>2
<1>3. (CHOOSE s \in 1..7 : First(s)) = c
  BY <1>1, <1>2
<1> QED BY <1>3 DEF CurrentStep, StepCount

\* One record is replaced by one that is ordered.
LEMMA StoreKeeps ==
    ASSUME MissionInv, NEW m \in MissionIds, NEW r \in StoredMission, Store(m, r),
           previews' \in Nat, confirmed' \in [MissionIds -> Nat],
           \A q \in MissionIds \ {m} : confirmed'[q] = confirmed[q],
           Ordered(r, confirmed'[m])
    PROVE  MissionInv'
<1>1. mission' \in [MissionIds -> StoredMission]
  BY DEF MissionInv, MissionTypeOK, Store
<1>2. ASSUME NEW q \in MissionIds PROVE Ordered(mission'[q], confirmed'[q])
  <2>1. CASE q = m
    BY <2>1 DEF Store, MissionInv, MissionTypeOK
  <2>2. CASE q # m
    BY <2>2 DEF Store, MissionInv, MissionTypeOK
  <2> QED BY <2>1, <2>2
<1>3. MissionTypeOK'
  BY <1>1 DEF MissionTypeOK
<1>4. \A q \in MissionIds : Ordered(mission[q], confirmed[q])'
  BY <1>2 DEF Ordered, Boundary
<1> QED BY <1>3, <1>4 DEF MissionInv

\* The record an event makes, and its current step.
LEMMA UpdatedFacts ==
    ASSUME NEW status \in Statuses, NEW steps \in StepMap, NEW preview \in Nat,
           NEW c \in 1..7, Boundary(steps, c)
    PROVE  /\ Updated(status, steps, preview) \in StoredMission
           /\ Updated(status, steps, preview) = [status |-> status, steps |-> steps, current |-> c, preview |-> preview]
BY CurrentStepIsBoundary DEF Updated, StoredMission, StepCount

LEMMA AbsentFacts == Absent \in StoredMission /\ \A n \in Nat : Ordered(Absent, n)
BY DEF Absent, StoredMission, Statuses, StepMap, StepStates, MissionSteps, Ordered, Boundary, StepCount, CalendarStep

\* What an event finds at the current step of an active mission.
LEMMA AtStepFacts ==
    ASSUME MissionInv, NEW m \in MissionIds, NEW s \in MissionSteps, AtStep(m, s), NEW state \in StepStates
    PROVE  /\ mission[m] \in StoredMission
           /\ WithStep(m, s, state) \in StepMap
           /\ state # "completed" => Boundary(WithStep(m, s, state), s)
           /\ state = "completed" => Boundary(WithStep(m, s, state), s + 1)
<1>1. mission[m] \in StoredMission /\ Ordered(mission[m], confirmed[m]) /\ mission[m].current = s
  BY DEF MissionInv, MissionTypeOK, AtStep
<1>2. mission[m].steps \in StepMap /\ Boundary(mission[m].steps, s)
  BY <1>1 DEF StoredMission, Ordered
<1>3. WithStep(m, s, state) \in StepMap
  BY <1>2 DEF WithStep, StepMap
<1>4. \A i \in MissionSteps : WithStep(m, s, state)[i] = IF i = s THEN state ELSE mission[m].steps[i]
  BY <1>2 DEF WithStep, StepMap
<1>5. state # "completed" => Boundary(WithStep(m, s, state), s)
  BY <1>2, <1>4 DEF Boundary, MissionSteps, StepCount
<1>6. state = "completed" => Boundary(WithStep(m, s, state), s + 1)
  BY <1>2, <1>4 DEF Boundary, MissionSteps, StepCount
<1> QED BY <1>1, <1>3, <1>5, <1>6
-----------------------------------------------------------------------------
(* Every event keeps the invariant. *)

LEMMA InitMissionInv == MissionInit => MissionInv
<1> SUFFICES ASSUME MissionInit PROVE MissionInv
  OBVIOUS
<1>1. MissionTypeOK
  BY AbsentFacts DEF MissionInit, MissionTypeOK
<1>2. \A m \in MissionIds : Ordered(mission[m], confirmed[m])
  BY AbsentFacts DEF MissionInit
<1> QED BY <1>1, <1>2 DEF MissionInv

LEMMA CreateKeeps == ASSUME MissionInv, NEW m \in MissionIds, Create(m) PROVE MissionInv'
<1> DEFINE r == Updated("active", Absent.steps, 0)
<1>1. Absent.steps \in StepMap /\ Boundary(Absent.steps, 1)
  BY DEF Absent, StepMap, StepStates, MissionSteps, StepCount, Boundary
<1>2. r \in StoredMission /\ r = [status |-> "active", steps |-> Absent.steps, current |-> 1, preview |-> 0]
  BY <1>1, UpdatedFacts DEF Statuses
<1>3. Ordered(r, confirmed[m])
  BY <1>1, <1>2 DEF Ordered, StepCount
<1>4. previews' \in Nat /\ confirmed' \in [MissionIds -> Nat] /\ confirmed' = confirmed /\ Store(m, r)
  BY DEF Create, MissionInv, MissionTypeOK
<1> HIDE DEF r
<1> QED BY <1>2, <1>3, <1>4, StoreKeeps

LEMMA CompleteKeeps ==
    ASSUME MissionInv, NEW m \in MissionIds, NEW s \in 1..(StepCount - 1), CompleteStep(m, s)
    PROVE  MissionInv'
<1> DEFINE steps == WithStep(m, s, "completed")
           r == Updated("active", steps, mission[m].preview)
<1>0. s \in MissionSteps /\ s + 1 \in 1..7 /\ s + 1 # StepCount + 1 /\ "completed" \in StepStates
  BY DEF MissionSteps, StepCount, StepStates
<1>1. AtStep(m, s)
  BY DEF CompleteStep
<1>2. mission[m] \in StoredMission /\ steps \in StepMap /\ Boundary(steps, s + 1)
  BY <1>0, <1>1, AtStepFacts
<1>3. mission[m].preview \in Nat
  BY <1>2 DEF StoredMission
<1> HIDE DEF steps
<1>4. r \in StoredMission /\ r = [status |-> "active", steps |-> steps, current |-> s + 1, preview |-> mission[m].preview]
  BY <1>0, <1>2, <1>3, UpdatedFacts DEF Statuses
<1>5. Ordered(r, confirmed[m])
  BY <1>0, <1>2, <1>4 DEF Ordered
<1>6. previews' \in Nat /\ confirmed' \in [MissionIds -> Nat] /\ confirmed' = confirmed /\ Store(m, r)
  BY DEF CompleteStep, MissionInv, MissionTypeOK, steps
<1> HIDE DEF r
<1> QED BY <1>4, <1>5, <1>6, StoreKeeps

LEMMA PreviewKeeps == ASSUME MissionInv, NEW m \in MissionIds, PreviewCalendar(m) PROVE MissionInv'
<1> DEFINE steps == WithStep(m, CalendarStep, "awaiting_confirmation")
           r == Updated("ready_for_confirmation", steps, previews + 1)
<1>0. CalendarStep \in MissionSteps /\ CalendarStep \in 1..7 /\ CalendarStep # StepCount + 1 /\ "awaiting_confirmation" \in StepStates
  BY DEF CalendarStep, MissionSteps, StepCount, StepStates
<1>1. AtStep(m, CalendarStep)
  BY DEF PreviewCalendar
<1>2. mission[m] \in StoredMission /\ steps \in StepMap /\ Boundary(steps, CalendarStep)
  BY <1>0, <1>1, AtStepFacts
<1>3. steps[CalendarStep] = "awaiting_confirmation"
  BY <1>0, <1>2 DEF WithStep, StoredMission, StepMap
<1>4. previews + 1 \in Nat /\ previews + 1 # 0
  BY DEF MissionInv, MissionTypeOK
<1>5. previews' \in Nat /\ confirmed' \in [MissionIds -> Nat] /\ confirmed' = confirmed /\ Store(m, r)
  BY <1>4 DEF PreviewCalendar, MissionInv, MissionTypeOK
<1> HIDE DEF steps
<1>6. r \in StoredMission /\ r = [status |-> "ready_for_confirmation", steps |-> steps, current |-> CalendarStep, preview |-> previews + 1]
  BY <1>0, <1>2, <1>4, UpdatedFacts DEF Statuses
<1>7. Ordered(r, confirmed[m])
  BY <1>0, <1>2, <1>3, <1>4, <1>6 DEF Ordered
<1> HIDE DEF r
<1> QED BY <1>5, <1>6, <1>7, StoreKeeps

\* A mission that waits for its confirmation is at the calendar step.
LEMMA ConfirmKeeps == ASSUME MissionInv, NEW m \in MissionIds, ConfirmCalendar(m) PROVE MissionInv'
<1> DEFINE steps == WithStep(m, CalendarStep, "completed")
           r == Updated("completed", steps, mission[m].preview)
<1>1. mission[m] \in StoredMission /\ Ordered(mission[m], confirmed[m]) /\ mission[m].status = "ready_for_confirmation"
  BY DEF ConfirmCalendar, MissionInv, MissionTypeOK
<1>2. mission[m].steps \in StepMap /\ mission[m].preview \in Nat /\ mission[m].preview # 0 /\ mission[m].current \in 1..7
  BY <1>1 DEF StoredMission, Ordered, StepCount
<1>3. mission[m].current = CalendarStep
  <2>1. mission[m].current # StepCount + 1
    BY <1>1 DEF Ordered
  <2>2. mission[m].steps[CalendarStep] # "pending"
    BY DEF ConfirmCalendar
  <2> QED BY <1>1, <1>2, <2>1, <2>2 DEF Ordered, Boundary, MissionSteps, StepCount, CalendarStep
<1>4. AtStep(m, CalendarStep)
  BY <1>1, <1>3 DEF AtStep, Active
<1>5. steps \in StepMap /\ Boundary(steps, StepCount + 1) /\ StepCount + 1 \in 1..7
  <2>1. CalendarStep \in MissionSteps /\ "completed" \in StepStates /\ CalendarStep + 1 = StepCount + 1 /\ CalendarStep + 1 \in 1..7
    BY DEF CalendarStep, MissionSteps, StepCount, StepStates
  <2> QED BY <1>4, <2>1, AtStepFacts
<1>6. confirmed' = [confirmed EXCEPT ![m] = mission[m].preview] /\ previews' = previews /\ Store(m, r)
  BY DEF ConfirmCalendar
<1>7. previews' \in Nat /\ confirmed' \in [MissionIds -> Nat] /\ confirmed'[m] = mission[m].preview
        /\ \A q \in MissionIds \ {m} : confirmed'[q] = confirmed[q]
  BY <1>2, <1>6 DEF MissionInv, MissionTypeOK
<1> HIDE DEF steps
<1>8. r \in StoredMission /\ r = [status |-> "completed", steps |-> steps, current |-> StepCount + 1, preview |-> mission[m].preview]
  BY <1>2, <1>5, UpdatedFacts DEF Statuses
<1>9. Ordered(r, confirmed'[m])
  BY <1>2, <1>5, <1>7, <1>8 DEF Ordered
<1> HIDE DEF r
<1> QED BY <1>6, <1>7, <1>8, <1>9, StoreKeeps
\* Records whose steps stay are ordered still.
LEMMA SameStepsKeep ==
    ASSUME MissionInv, NEW m \in MissionIds, NEW status \in Statuses \ {"completed", "ready_for_confirmation"},
           mission[m].status # "completed",
           Store(m, Updated(status, mission[m].steps, mission[m].preview)), UNCHANGED <<previews, confirmed>>
    PROVE  MissionInv'
<1> DEFINE r == Updated(status, mission[m].steps, mission[m].preview)
<1>1. mission[m] \in StoredMission /\ Ordered(mission[m], confirmed[m])
  BY DEF MissionInv, MissionTypeOK
<1>2. mission[m].steps \in StepMap /\ mission[m].preview \in Nat /\ mission[m].current \in 1..7
  BY <1>1 DEF StoredMission, StepCount
<1>3. Boundary(mission[m].steps, mission[m].current) /\ mission[m].current # StepCount + 1
  BY <1>1 DEF Ordered
<1>4. r \in StoredMission
        /\ r = [status |-> status, steps |-> mission[m].steps, current |-> mission[m].current, preview |-> mission[m].preview]
  BY <1>2, <1>3, UpdatedFacts
<1>5. Ordered(r, confirmed[m])
  BY <1>3, <1>4 DEF Ordered
<1>6. previews' \in Nat /\ confirmed' \in [MissionIds -> Nat] /\ confirmed' = confirmed /\ Store(m, r)
  BY DEF MissionInv, MissionTypeOK
<1> HIDE DEF r
<1> QED BY <1>4, <1>5, <1>6, StoreKeeps

LEMMA BlockKeeps ==
    ASSUME MissionInv, NEW m \in MissionIds, NEW s \in MissionSteps, Block(m, s) PROVE MissionInv'
<1> DEFINE steps == WithStep(m, s, "pending")
           r == Updated("blocked", steps, mission[m].preview)
<1>0. s \in 1..7 /\ s # StepCount + 1 /\ "pending" \in StepStates
  BY DEF MissionSteps, StepCount, StepStates
<1>1. AtStep(m, s)
  BY DEF Block
<1>2. mission[m] \in StoredMission /\ steps \in StepMap /\ Boundary(steps, s)
  BY <1>0, <1>1, AtStepFacts
<1>3. mission[m].preview \in Nat
  BY <1>2 DEF StoredMission
<1>4. previews' \in Nat /\ confirmed' \in [MissionIds -> Nat] /\ confirmed' = confirmed /\ Store(m, r)
  BY DEF Block, MissionInv, MissionTypeOK
<1> HIDE DEF steps
<1>5. r \in StoredMission /\ r = [status |-> "blocked", steps |-> steps, current |-> s, preview |-> mission[m].preview]
  BY <1>0, <1>2, <1>3, UpdatedFacts DEF Statuses
<1>6. Ordered(r, confirmed[m])
  BY <1>0, <1>2, <1>5 DEF Ordered
<1> HIDE DEF r
<1> QED BY <1>4, <1>5, <1>6, StoreKeeps

\* A blocked mission has a step to go on with: the branch that would complete it is never taken.
LEMMA UnblockKeeps == ASSUME MissionInv, NEW m \in MissionIds, Unblock(m) PROVE MissionInv'
<1>1. mission[m] \in StoredMission /\ Ordered(mission[m], confirmed[m]) /\ mission[m].status = "blocked"
  BY DEF Unblock, MissionInv, MissionTypeOK
<1>2. mission[m].steps \in StepMap /\ mission[m].current \in 1..7
  BY <1>1 DEF StoredMission, StepCount
<1>3. Boundary(mission[m].steps, mission[m].current) /\ mission[m].current # StepCount + 1
  BY <1>1 DEF Ordered
<1>4. CurrentStep(mission[m].steps) \in MissionSteps
  BY <1>2, <1>3, CurrentStepIsBoundary DEF MissionSteps, StepCount
<1>5. Store(m, Updated("active", mission[m].steps, mission[m].preview)) /\ UNCHANGED <<previews, confirmed>>
  BY <1>4 DEF Unblock
<1>6. "active" \in Statuses \ {"completed", "ready_for_confirmation"}
  BY DEF Statuses
<1> QED BY <1>1, <1>5, <1>6, SameStepsKeep

LEMMA CancelKeeps == ASSUME MissionInv, NEW m \in MissionIds, Cancel(m) PROVE MissionInv'
<1>1. "cancelled" \in Statuses \ {"completed", "ready_for_confirmation"}
  BY DEF Statuses
<1>2. /\ mission[m].status # "completed"
      /\ Store(m, Updated("cancelled", mission[m].steps, mission[m].preview)) /\ UNCHANGED <<previews, confirmed>>
  BY DEF Cancel
<1> QED BY <1>1, <1>2, SameStepsKeep

LEMMA RemoveKeeps == ASSUME MissionInv, NEW m \in MissionIds, Remove(m) PROVE MissionInv'
<1>1. confirmed' = [confirmed EXCEPT ![m] = 0] /\ previews' = previews /\ Store(m, Absent)
  BY DEF Remove
<1>2. /\ previews' \in Nat /\ confirmed' \in [MissionIds -> Nat] /\ confirmed'[m] = 0
      /\ \A q \in MissionIds \ {m} : confirmed'[q] = confirmed[q]
  BY <1>1 DEF MissionInv, MissionTypeOK
<1>3. Absent \in StoredMission /\ Ordered(Absent, confirmed'[m])
  BY <1>2, AbsentFacts
<1> QED BY <1>1, <1>2, <1>3, StoreKeeps

LEMMA NextMissionInv == MissionInv /\ [MissionNext]_missionVars => MissionInv'
<1> SUFFICES ASSUME MissionInv, [MissionNext]_missionVars PROVE MissionInv'
  OBVIOUS
<1>1. CASE MissionNext
  <2>1. PICK m \in MissionIds :
           \/ Create(m) \/ PreviewCalendar(m) \/ ConfirmCalendar(m) \/ Unblock(m) \/ Cancel(m) \/ Remove(m)
           \/ \E s \in 1..(StepCount - 1) : CompleteStep(m, s)
           \/ \E s \in MissionSteps : Block(m, s)
    BY <1>1 DEF MissionNext
  <2>2. CASE Create(m)
    BY <2>2, CreateKeeps
  <2>3. CASE PreviewCalendar(m)
    BY <2>3, PreviewKeeps
  <2>4. CASE ConfirmCalendar(m)
    BY <2>4, ConfirmKeeps
  <2>5. CASE Unblock(m)
    BY <2>5, UnblockKeeps
  <2>6. CASE Cancel(m)
    BY <2>6, CancelKeeps
  <2>7. CASE Remove(m)
    BY <2>7, RemoveKeeps
  <2>8. CASE \E s \in 1..(StepCount - 1) : CompleteStep(m, s)
    BY <2>8, CompleteKeeps
  <2>9. CASE \E s \in MissionSteps : Block(m, s)
    BY <2>9, BlockKeeps
  <2> QED BY <2>1, <2>2, <2>3, <2>4, <2>5, <2>6, <2>7, <2>8, <2>9
<1>2. CASE UNCHANGED missionVars
  BY <1>2 DEF missionVars, MissionInv, MissionTypeOK, Ordered, Boundary
<1> QED BY <1>1, <1>2

LEMMA MissionInvariant == MissionSpec => []MissionInv
BY InitMissionInv, NextMissionInv, PTL DEF MissionSpec

-----------------------------------------------------------------------------
\* Stored missions have the shape that readers of them expect.
THEOREM MissionTypeCorrect == MissionSpec => []MissionTypeOK
<1>1. MissionInv => MissionTypeOK
  BY DEF MissionInv
<1> QED BY <1>1, MissionInvariant, PTL

\* The steps of every mission are done in their order, and only a confirmed preview completes it.
THEOREM StepsAreInOrder == MissionSpec => []StepsInOrder
<1>1. MissionInv => StepsInOrder
  BY DEF MissionInv, Ordered, Boundary, StepsInOrder
<1> QED BY <1>1, MissionInvariant, PTL

\* No event brings a completed or cancelled mission back; it can only be removed.
THEOREM EndedMissionsStay == MissionSpec => EndedStaysEnded
<1> DEFINE Stays ==
      \A m \in MissionIds :
          mission[m].status \in {"completed", "cancelled"} => mission'[m].status \in {mission[m].status, "none"}
<1>1. MissionInv /\ [MissionNext]_missionVars => [Stays]_missionVars
  <2> SUFFICES ASSUME MissionInv, MissionNext PROVE Stays
    OBVIOUS
  <2> SUFFICES ASSUME NEW q \in MissionIds, mission[q].status \in {"completed", "cancelled"}
               PROVE  mission'[q].status \in {mission[q].status, "none"}
    OBVIOUS
  <2>1. PICK m \in MissionIds :
           \/ Create(m) \/ PreviewCalendar(m) \/ ConfirmCalendar(m) \/ Unblock(m) \/ Cancel(m) \/ Remove(m)
           \/ \E s \in 1..(StepCount - 1) : CompleteStep(m, s)
           \/ \E s \in MissionSteps : Block(m, s)
    BY DEF MissionNext
  <2>2. mission \in [MissionIds -> StoredMission]
    BY DEF MissionInv, MissionTypeOK
  <2>3. CASE q # m
    BY <2>1, <2>2, <2>3 DEF Create, PreviewCalendar, ConfirmCalendar, Unblock, Cancel, Remove, CompleteStep, Block, Store
  <2>4. CASE q = m
    <3>1. Cancel(m) \/ Remove(m)
      BY <2>1, <2>4 DEF Create, PreviewCalendar, ConfirmCalendar, Unblock, CompleteStep, Block, AtStep, Active
    <3>2. CASE Cancel(m)
      BY <2>2, <2>4, <3>2 DEF Cancel, Store, Updated
    <3>3. CASE Remove(m)
      BY <2>2, <2>4, <3>3 DEF Remove, Store, Absent
    <3> QED BY <3>1, <3>2, <3>3
  <2> QED BY <2>3, <2>4
<1> QED BY <1>1, MissionInvariant, PTL DEF MissionSpec, EndedStaysEnded

-----------------------------------------------------------------------------
VaultKinds == {"none", "new", "unlock", "restore", "lock", "destroy", "create", "remove", "clear"}
VaultPoints ==
    {"rest", "exists", "metadata", "activate", "keep", "probe", "derive", "verify", "forget", "lock", "destroy",
     "unprobe", "unmeta", "queued", "put", "write", "delete", "index", "wipe", "update", "save"}
Indices == [Records -> Nat]
VaultCalls ==
    [kind : VaultKinds, pc : VaultPoints, key : Nat, record : Records \union {"none"}, seen : Indices, overtaken : BOOLEAN]
VaultObjects == [meta : Nat, key : Nat, timer : BOOLEAN]
VaultCounts == [vaults : Nat, calls : Nat, active : Nat]
Indexes == [key : Nat, place : Indices]
Disks == [meta : Nat, probe : Nat, record : [Records -> Nat], index : Indexes]

VaultTypeOK ==
    /\ disk \in Disks
    /\ sessionKey \in Nat
    /\ vault \in VaultObjects
    /\ doing \in [Callers -> VaultCalls]
    /\ count \in VaultCounts
    /\ granted \in Indices

\* The points at which a mutation has its turn, by what it mutates.
TurnPoints(kind) ==
    CASE kind = "create" -> {"put", "write", "index", "update", "save"}
      [] kind = "remove" -> {"delete", "index", "update", "save"}
      [] kind = "clear" -> {"index", "wipe", "update", "save"}
      [] OTHER -> {}
HasTurn(d) == d.pc \in TurnPoints(d.kind)

MutationPoints == {"queued", "put", "write", "delete", "index", "wipe", "update", "save"}

\* A list has every record whose creation was reported, at a place no later than its turn
\* among the reported ones, unless an index full of others came after it; ...
ListsGiven(place, given) ==
    \A r \in Records : given[r] # 0 /\ given[r] <= MaxIndex => place[r] # 0 /\ place[r] <= given[r]
\* ... and so will this one once one more record has come.
ListsOthers(place, given, new) ==
    \A r \in Records \ {new} : given[r] # 0 /\ given[r] + 1 <= MaxIndex => place[r] # 0 /\ place[r] <= given[r] + 1

\* What a call that has its turn can be relied on for: keys is the key of each record,
\* active the key last active, given the history of the reported creations.
MutationHolds(keys, active, given, d) ==
    /\ d.kind \in Mutations => d.pc = "queued" \/ HasTurn(d)
    /\ d.kind \notin Mutations => d.pc \notin MutationPoints
    /\ d.kind \in {"create", "remove"} => d.record \in Records
    /\ d.pc \in {"write", "save"} => (d.key = active /\ active # 0) \/ (given = NoEntries /\ d.overtaken)
    /\ d.kind = "create" /\ d.pc \in {"index", "update", "save"} /\ ~d.overtaken => active # 0 /\ keys[d.record] = active
    /\ d.kind = "create" /\ d.pc = "save" => d.seen[d.record] = 1 /\ ListsOthers(d.seen, given, d.record)
    /\ d.kind = "remove" /\ d.pc \in {"index", "update", "save"} => given[d.record] = 0
    /\ d.kind = "clear" /\ d.pc = "update" => d.seen = NoEntries
    /\ d.pc \in {"wipe", "update"} => ListsGiven(d.seen, given)
    /\ d.kind # "create" /\ d.pc = "save" => ListsGiven(d.seen, given)

OneTurn == \A c, d \in Callers : HasTurn(doing[c]) /\ HasTurn(doing[d]) => c = d
GivenUnderActive ==
    /\ \A r \in Records : granted[r] # 0 =>
          disk.record[r] = count.active /\ disk.index.key = count.active /\ count.active # 0
    /\ ListsGiven(disk.index.place, granted)

VaultInv ==
    /\ VaultTypeOK
    /\ vault.key \in {0, count.active}
    /\ OneTurn
    /\ GivenUnderActive
    /\ \A c \in Callers : MutationHolds(disk.record, count.active, granted, doing[c])

USE VaultAssumption DEF VaultAssumption

-----------------------------------------------------------------------------
(* The calls and the store *)

LEMMA EmptyIndex == NoEntries \in Indices /\ NoEntries \in [Records -> Nat] /\ \A r \in Records : NoEntries[r] = 0
  BY DEF NoEntries, Indices

LEMMA RestingVaultCall ==
    /\ NoCall \in VaultCalls /\ ~HasTurn(NoCall)
    /\ \A keys, active, given : MutationHolds(keys, active, given, NoCall)
<1>1. NoCall \in VaultCalls
  BY EmptyIndex DEF NoCall, VaultCalls, VaultKinds, VaultPoints, Indices
<1>2. ~HasTurn(NoCall)
  BY DEF NoCall, HasTurn, TurnPoints
<1> QED BY <1>1, <1>2 DEF NoCall, MutationHolds, Mutations, MutationPoints

LEMMA VaultTyped == VaultInv =>
    /\ disk \in Disks /\ sessionKey \in Nat /\ vault \in VaultObjects /\ count \in VaultCounts /\ granted \in Indices
    /\ disk.record \in [Records -> Nat] /\ disk.index.key \in Nat /\ disk.index.place \in Indices
    /\ disk.probe \in Nat /\ disk.meta \in Nat /\ vault.key \in Nat /\ vault.meta \in Nat
    /\ count.active \in Nat /\ count.vaults \in Nat /\ count.calls \in Nat
    /\ doing \in [Callers -> VaultCalls]
    /\ \A c \in Callers : doing[c] \in VaultCalls /\ MutationHolds(disk.record, count.active, granted, doing[c])
  BY DEF VaultInv, VaultTypeOK, Disks, Indexes, VaultObjects, VaultCounts

LEMMA VaultInitial == VaultInit => VaultInv
<1> SUFFICES ASSUME VaultInit PROVE VaultInv
  OBVIOUS
<1>1. NewVault \in VaultObjects /\ NewVault.key = 0
  BY DEF NewVault, VaultObjects
<1>2. VaultTypeOK
  BY <1>1, RestingVaultCall, EmptyIndex DEF VaultInit, VaultTypeOK, Disks, Indexes, VaultCounts
<1>3. OneTurn /\ GivenUnderActive
  BY RestingVaultCall, EmptyIndex DEF VaultInit, OneTurn, GivenUnderActive, ListsGiven
<1> QED BY <1>1, <1>2, <1>3, RestingVaultCall DEF VaultInit, VaultInv

\* A call goes on as n without touching records, index or promises; the key last
\* active changes only from none.
LEMMA VaultQuiet ==
    ASSUME VaultInv, NEW c \in Callers, NEW n \in VaultCalls, doing' = [doing EXCEPT ![c] = n],
           disk' \in Disks, disk'.record = disk.record, disk'.index = disk.index, granted' = granted,
           sessionKey' \in Nat, vault' \in VaultObjects, count' \in VaultCounts,
           count'.active = count.active \/ count.active = 0, vault'.key \in {0, count'.active},
           MutationHolds(disk.record, count'.active, granted, n),
           HasTurn(n) => HasTurn(doing[c]) \/ \A d \in Callers : ~HasTurn(doing[d])
    PROVE  VaultInv'
<1>1. doing \in [Callers -> VaultCalls]
  BY VaultTyped
<1>2. doing'[c] = n /\ (\A d \in Callers \ {c} : doing'[d] = doing[d]) /\ doing' \in [Callers -> VaultCalls]
  BY <1>1
<1>3. VaultTypeOK'
  BY <1>2, VaultTyped DEF VaultTypeOK
<1>4. OneTurn'
  BY <1>2 DEF VaultInv, OneTurn, HasTurn, TurnPoints
<1>5. GivenUnderActive'
  BY DEF VaultInv, GivenUnderActive
<1>6. ASSUME NEW d \in Callers \ {c} PROVE MutationHolds(disk.record, count'.active, granted, doing[d])
  BY VaultTyped DEF MutationHolds
<1>7. \A d \in Callers : MutationHolds(disk'.record, count'.active, granted', doing'[d])
  BY <1>2, <1>6
<1> QED BY <1>3, <1>4, <1>5, <1>7 DEF VaultInv

\* The vault is destroyed or its key replaced: nothing is promised any more.
LEMMA VaultOvertaken ==
    ASSUME VaultInv, NEW c \in Callers, NEW pc \in VaultPoints, Overtake(c, pc), doing[c].kind \notin Mutations,
           pc \notin MutationPoints,
           disk' \in Disks, sessionKey' \in Nat, vault' \in VaultObjects, count' \in VaultCounts,
           vault'.key \in {0, count'.active}
    PROVE  VaultInv'
<1>1. doing \in [Callers -> VaultCalls] /\ granted' = NoEntries
  BY VaultTyped DEF Overtake
<1> DEFINE n == IF pc = "rest" THEN NoCall ELSE [doing[c] EXCEPT !.pc = pc]
           o(d) == IF doing[d] = NoCall THEN NoCall ELSE [doing[d] EXCEPT !.overtaken = TRUE]
<1>2. doing' = [d \in Callers |-> IF d = c THEN n ELSE o(d)]
  BY DEF Overtake
<1>3. n \in VaultCalls /\ ~HasTurn(n) /\ \A keys, active, given : MutationHolds(keys, active, given, n)
  <2>1. CASE pc = "rest"
    BY <2>1, RestingVaultCall
  <2>2. CASE pc # "rest"
    <3>1. n = [doing[c] EXCEPT !.pc = pc]
      BY <2>2
    <3>2. n \in VaultCalls
      <4>1. doing[c] \in VaultCalls
        BY <1>1
      <4>2. [doing[c] EXCEPT !.pc = pc] \in VaultCalls
        BY <4>1 DEF VaultCalls
      <4> QED BY <3>1, <4>2
    <3>3. n.kind = doing[c].kind /\ n.pc = pc
      BY <1>1, <3>1 DEF VaultCalls
    <3>4. n.kind \notin Mutations
      BY <3>3
    <3> HIDE DEF n
    <3>5. ~HasTurn(n)
      BY <3>3, <3>4 DEF HasTurn, TurnPoints, Mutations
    <3> QED BY <3>2, <3>3, <3>4, <3>5 DEF MutationHolds, Mutations, MutationPoints
  <2> QED BY <2>1, <2>2
<1>4. ASSUME NEW d \in Callers, d # c
      PROVE  /\ o(d) \in VaultCalls
             /\ HasTurn(o(d)) => HasTurn(doing[d])
             /\ MutationHolds(disk'.record, count'.active, NoEntries, o(d))
  <2>1. CASE doing[d] = NoCall
    BY <2>1, RestingVaultCall
  <2>2. CASE doing[d] # NoCall
    <3>1. o(d) = [doing[d] EXCEPT !.overtaken = TRUE] /\ doing[d] \in VaultCalls
      BY <1>1, <2>2
    <3>2. o(d) \in VaultCalls
      BY <3>1 DEF VaultCalls
    <3>3. /\ o(d).kind = doing[d].kind /\ o(d).pc = doing[d].pc /\ o(d).record = doing[d].record
          /\ o(d).seen = doing[d].seen /\ o(d).overtaken
      BY <3>1 DEF VaultCalls
    <3>4. MutationHolds(disk.record, count.active, granted, doing[d])
      BY VaultTyped
    <3> HIDE DEF o
    <3>5. HasTurn(o(d)) => HasTurn(doing[d])
      BY <3>3 DEF HasTurn
    <3>6. MutationHolds(disk'.record, count'.active, NoEntries, o(d))
      <4>1. \A r \in Records : NoEntries[r] = 0
        BY EmptyIndex
      <4>2. \A place, new : ListsGiven(place, NoEntries) /\ ListsOthers(place, NoEntries, new)
        BY <4>1 DEF ListsGiven, ListsOthers
      <4> QED BY <3>3, <3>4, <4>1, <4>2 DEF MutationHolds, HasTurn
    <3> QED BY <3>2, <3>5, <3>6
  <2> QED BY <2>1, <2>2
<1> HIDE DEF n, o
<1>5. doing' \in [Callers -> VaultCalls]
  BY <1>2, <1>3, <1>4
<1>6. \A d \in Callers : MutationHolds(disk'.record, count'.active, granted', doing'[d])
  BY <1>1, <1>2, <1>3, <1>4
<1>7. \A d \in Callers : HasTurn(doing'[d]) => HasTurn(doing[d])
  BY <1>2, <1>3, <1>4
<1>8. OneTurn' /\ GivenUnderActive'
  BY <1>1, <1>7, EmptyIndex DEF VaultInv, OneTurn, GivenUnderActive, ListsGiven, HasTurn
<1>9. VaultTypeOK'
  BY <1>1, <1>5, EmptyIndex DEF VaultTypeOK
<1> QED BY <1>6, <1>8, <1>9 DEF VaultInv

\* The mutation that has its turn goes on as n.
LEMMA VaultMutates ==
    ASSUME VaultInv, NEW c \in Callers, HasTurn(doing[c]), NEW n \in VaultCalls, doing' = [doing EXCEPT ![c] = n],
           disk' \in Disks, granted' \in Indices, vault' \in VaultObjects, vault'.key = vault.key,
           UNCHANGED <<sessionKey, count>>, GivenUnderActive',
           MutationHolds(disk'.record, count.active, granted', n)
    PROVE  VaultInv'
<1>1. doing \in [Callers -> VaultCalls]
  BY VaultTyped
<1>2. doing'[c] = n /\ (\A d \in Callers \ {c} : doing'[d] = doing[d]) /\ doing' \in [Callers -> VaultCalls]
  BY <1>1
<1>3. ASSUME NEW d \in Callers \ {c}
      PROVE  ~HasTurn(doing[d]) /\ MutationHolds(disk'.record, count'.active, granted', doing'[d])
  <2>1. ~HasTurn(doing[d])
    BY DEF VaultInv, OneTurn
  <2>2. MutationHolds(disk.record, count.active, granted, doing[d])
    BY VaultTyped
  <2> QED BY <1>2, <2>1, <2>2 DEF MutationHolds, Mutations, MutationPoints, HasTurn, TurnPoints
<1>4. OneTurn'
  BY <1>2, <1>3 DEF OneTurn, HasTurn, TurnPoints
<1>5. VaultTypeOK'
  BY <1>2, VaultTyped DEF VaultTypeOK
<1> QED BY <1>2, <1>3, <1>4, <1>5 DEF VaultInv

\* A call that is no mutation goes on as n.
LEMMA VaultIdles ==
    ASSUME VaultInv, NEW c \in Callers, NEW n \in VaultCalls, doing' = [doing EXCEPT ![c] = n],
           n.kind \notin Mutations, n.pc \notin MutationPoints,
           disk' \in Disks, disk'.record = disk.record, disk'.index = disk.index, granted' = granted,
           sessionKey' \in Nat, vault' \in VaultObjects, count' \in VaultCounts,
           count'.active = count.active \/ count.active = 0, vault'.key \in {0, count'.active}
    PROVE  VaultInv'
<1>1. MutationHolds(disk.record, count'.active, granted, n) /\ ~HasTurn(n)
  BY DEF MutationHolds, Mutations, MutationPoints, HasTurn, TurnPoints
<1> QED BY <1>1, VaultQuiet

LEMMA VaultReturns ==
    ASSUME VaultInv, NEW c \in Callers, Return(c),
           disk' \in Disks, disk'.record = disk.record, disk'.index = disk.index, granted' = granted,
           sessionKey' \in Nat, vault' \in VaultObjects, vault'.key \in {0, count.active}, UNCHANGED count
    PROVE  VaultInv'
<1>1. doing' = [doing EXCEPT ![c] = NoCall]
  BY DEF Return
<1>2. NoCall.kind \notin Mutations /\ NoCall.pc \notin MutationPoints
  BY DEF NoCall, Mutations, MutationPoints
<1> QED BY <1>1, <1>2, VaultIdles, RestingVaultCall, VaultTyped

LEMMA NoMutation ==
    ASSUME VaultInv, NEW c \in Callers, doing[c].pc \notin MutationPoints
    PROVE  doing[c].kind \notin Mutations
  BY VaultTyped DEF MutationHolds, HasTurn, TurnPoints, Mutations, MutationPoints

LEMMA VaultMoves ==
    ASSUME VaultInv, NEW c \in Callers, doing[c].pc \notin MutationPoints, NEW pc \in VaultPoints, pc \notin MutationPoints,
           NEW key \in Nat,
           VaultGoto(c, pc) \/ doing' = [doing EXCEPT ![c].pc = pc, ![c].key = key]
                            \/ doing' = [doing EXCEPT ![c].key = key, ![c].pc = pc],
           disk' \in Disks, disk'.record = disk.record, disk'.index = disk.index, granted' = granted,
           sessionKey' \in Nat, vault' \in VaultObjects, count' \in VaultCounts,
           count'.active = count.active \/ count.active = 0, vault'.key \in {0, count'.active}
    PROVE  VaultInv'
<1>1. doing[c] \in VaultCalls /\ doing[c].kind \notin Mutations
  BY VaultTyped, NoMutation
<1>2. ASSUME NEW n \in VaultCalls, doing' = [doing EXCEPT ![c] = n], n.kind = doing[c].kind, n.pc = pc PROVE VaultInv'
  BY <1>1, <1>2, VaultIdles
<1>3. CASE VaultGoto(c, pc)
  <2> DEFINE n == [doing[c] EXCEPT !.pc = pc]
  <2>1. n \in VaultCalls /\ n.kind = doing[c].kind /\ n.pc = pc
    BY <1>1 DEF VaultCalls
  <2>2. doing' = [doing EXCEPT ![c] = n]
    BY <1>3 DEF VaultGoto
  <2> HIDE DEF n
  <2> QED BY <1>2, <2>1, <2>2
<1>4. CASE doing' = [doing EXCEPT ![c].pc = pc, ![c].key = key]
  <2> DEFINE n == [doing[c] EXCEPT !.pc = pc, !.key = key]
  <2>1. n \in VaultCalls /\ n.kind = doing[c].kind /\ n.pc = pc
    BY <1>1 DEF VaultCalls
  <2>2. doing' = [doing EXCEPT ![c] = n]
    BY <1>4
  <2> HIDE DEF n
  <2> QED BY <1>2, <2>1, <2>2
<1>5. CASE doing' = [doing EXCEPT ![c].key = key, ![c].pc = pc]
  <2> DEFINE n == [doing[c] EXCEPT !.key = key, !.pc = pc]
  <2>1. n \in VaultCalls /\ n.kind = doing[c].kind /\ n.pc = pc
    BY <1>1 DEF VaultCalls
  <2>2. doing' = [doing EXCEPT ![c] = n]
    BY <1>5
  <2> HIDE DEF n
  <2> QED BY <1>2, <2>1, <2>2
<1> QED BY <1>3, <1>4, <1>5

-----------------------------------------------------------------------------
(* create, unlock, restoreSession, lock, destroy *)

LEMMA StepCreateVault == ASSUME VaultInv, NEW c \in Callers, CreateVault(c) PROVE VaultInv'
<1>1. doing[c].pc \notin MutationPoints /\ UNCHANGED <<disk, sessionKey, vault, granted>>
  BY DEF CreateVault, MutationPoints
<1>2. CASE Return(c) /\ UNCHANGED count
  BY <1>1, <1>2, VaultReturns, VaultTyped DEF VaultInv
<1>3. CASE count' = [count EXCEPT !.vaults = @ + 1] /\ doing' = [doing EXCEPT ![c].pc = "metadata", ![c].key = count.vaults + 1]
  <2>1. count' \in VaultCounts /\ count'.active = count.active /\ count.vaults + 1 \in Nat
    BY <1>3, VaultTyped DEF VaultCounts
  <2>2. "metadata" \in VaultPoints /\ "metadata" \notin MutationPoints
    BY DEF VaultPoints, MutationPoints
  <2> QED BY <1>1, <1>3, <2>1, <2>2, VaultMoves, VaultTyped DEF VaultInv
<1> QED BY <1>2, <1>3 DEF CreateVault

LEMMA StepSaveMetadata == ASSUME VaultInv, NEW c \in Callers, SaveMetadata(c) PROVE VaultInv'
<1>1. doing[c].pc \notin MutationPoints /\ doing[c].key \in Nat
  BY VaultTyped DEF SaveMetadata, MutationPoints, VaultCalls
<1>2. disk' \in Disks /\ vault' \in VaultObjects /\ vault'.key = vault.key
  BY <1>1, VaultTyped DEF SaveMetadata, Disks, VaultObjects
<1>3. "activate" \in VaultPoints /\ "activate" \notin MutationPoints
  BY DEF VaultPoints, MutationPoints
<1> QED BY <1>1, <1>2, <1>3, NoMutation, VaultOvertaken, VaultTyped DEF SaveMetadata, VaultInv

LEMMA StepActivateSession == ASSUME VaultInv, NEW c \in Callers, ActivateSession(c) PROVE VaultInv'
<1>1. doing[c].pc \notin MutationPoints /\ doing[c].key \in Nat
  BY VaultTyped DEF ActivateSession, MutationPoints, VaultCalls
<1>2. "keep" \in VaultPoints /\ "keep" \notin MutationPoints
  BY DEF VaultPoints, MutationPoints
<1> QED BY <1>1, <1>2, VaultMoves, VaultTyped DEF ActivateSession, VaultInv

LEMMA StepActivateMemory == ASSUME VaultInv, NEW c \in Callers, ActivateMemory(c) PROVE VaultInv'
<1>1. doing[c].pc \notin MutationPoints /\ doing[c].key \in Nat
  BY VaultTyped DEF ActivateMemory, MutationPoints, VaultCalls
<1>2. /\ vault' \in VaultObjects /\ vault'.key = doing[c].key /\ count' \in VaultCounts /\ count'.active = doing[c].key
      /\ UNCHANGED <<disk, sessionKey>>
  BY <1>1, VaultTyped DEF ActivateMemory, VaultObjects, VaultCounts
<1>3. {"probe", "rest"} \subseteq VaultPoints /\ "probe" \notin MutationPoints /\ "rest" \notin MutationPoints
  BY DEF VaultPoints, MutationPoints
<1>4. CASE count.active \notin {0, doing[c].key}
  <2>1. PICK pc \in {"probe", "rest"} : Overtake(c, pc)
    BY <1>4 DEF ActivateMemory
  <2> QED BY <1>1, <1>2, <1>3, <2>1, NoMutation, VaultOvertaken, VaultTyped
<1>5. CASE count.active \in {0, doing[c].key} /\ VaultGoto(c, "probe")
  BY <1>1, <1>2, <1>3, <1>5, VaultMoves, VaultTyped DEF ActivateMemory
<1>6. CASE count.active \in {0, doing[c].key} /\ Return(c)
  <2>1. doing' = [doing EXCEPT ![c] = NoCall] /\ UNCHANGED granted
    BY <1>6 DEF Return, ActivateMemory
  <2>2. NoCall.kind \notin Mutations /\ NoCall.pc \notin MutationPoints
    BY DEF NoCall, Mutations, MutationPoints
  <2> QED BY <1>2, <1>6, <2>1, <2>2, VaultIdles, RestingVaultCall, VaultTyped
<1> QED BY <1>4, <1>5, <1>6 DEF ActivateMemory

LEMMA StepSaveProbe == ASSUME VaultInv, NEW c \in Callers, SaveProbe(c) PROVE VaultInv'
<1>1. disk' \in Disks /\ disk'.record = disk.record /\ disk'.index = disk.index
  BY VaultTyped DEF SaveProbe, Disks
<1>2. vault' \in VaultObjects /\ vault'.key = vault.key
  BY VaultTyped DEF SaveProbe, VaultObjects, Touched
<1> QED BY <1>1, <1>2, VaultReturns, VaultTyped DEF SaveProbe, VaultInv

LEMMA StepDeriveKey == ASSUME VaultInv, NEW c \in Callers, DeriveKey(c) PROVE VaultInv'
<1>1. doing[c].pc \notin MutationPoints /\ UNCHANGED <<disk, sessionKey, vault, count, granted>>
  BY DEF DeriveKey, MutationPoints
<1>2. CASE Return(c)
  BY <1>1, <1>2, VaultReturns, VaultTyped DEF VaultInv
<1>3. ASSUME NEW k \in {sessionKey, vault.meta, disk.meta, WrongKey}, doing' = [doing EXCEPT ![c].key = k, ![c].pc = "verify"]
      PROVE  VaultInv'
  <2>1. k \in Nat
    BY <1>3, VaultTyped DEF WrongKey
  <2>2. "verify" \in VaultPoints /\ "verify" \notin MutationPoints
    BY DEF VaultPoints, MutationPoints
  <2> QED BY <1>1, <1>3, <2>1, <2>2, VaultMoves, VaultTyped DEF VaultInv
<1> QED BY <1>2, <1>3 DEF DeriveKey

LEMMA StepVerifyKey == ASSUME VaultInv, NEW c \in Callers, VerifyKey(c) PROVE VaultInv'
<1>1. doing[c].pc \notin MutationPoints /\ UNCHANGED <<disk, sessionKey, count, granted>>
  BY DEF VerifyKey, MutationPoints
<1>2. vault' \in VaultObjects /\ vault'.key = vault.key
  BY VaultTyped DEF VerifyKey, VaultObjects
<1>3. CASE Return(c)
  BY <1>1, <1>2, <1>3, VaultReturns, VaultTyped DEF VaultInv
<1>4. ASSUME NEW pc \in {"activate", "forget"}, VaultGoto(c, pc) PROVE VaultInv'
  <2>1. pc \in VaultPoints /\ pc \notin MutationPoints
    BY DEF VaultPoints, MutationPoints
  <2> QED BY <1>1, <1>2, <1>4, <2>1, VaultMoves, VaultTyped DEF VaultInv
<1> QED BY <1>3, <1>4 DEF VerifyKey

LEMMA StepForgetSession == ASSUME VaultInv, NEW c \in Callers, ForgetSession(c) PROVE VaultInv'
  BY VaultReturns, VaultTyped DEF ForgetSession, VaultInv

LEMMA StepLock == ASSUME VaultInv, NEW c \in Callers, Lock(c) PROVE VaultInv'
<1> DEFINE n == [doing[c] EXCEPT !.kind = "lock", !.pc = "forget"]
<1>1. n \in VaultCalls /\ n.kind = "lock" /\ n.pc = "forget"
  BY VaultTyped DEF VaultCalls, VaultKinds, VaultPoints
<1>2. n.kind \notin Mutations /\ n.pc \notin MutationPoints
  BY <1>1 DEF Mutations, MutationPoints
<1>3. vault' \in VaultObjects /\ vault'.key = 0
  BY VaultTyped DEF Lock, VaultObjects
<1>4. doing' = [doing EXCEPT ![c] = n]
  BY DEF Lock
<1> HIDE DEF n
<1> QED BY <1>1, <1>2, <1>3, <1>4, VaultIdles, VaultTyped DEF Lock

LEMMA StepDestroyRecords == ASSUME VaultInv, NEW c \in Callers, DestroyRecords(c) PROVE VaultInv'
<1>1. doing[c].pc \notin MutationPoints /\ UNCHANGED <<sessionKey, vault, count>>
  BY DEF DestroyRecords, MutationPoints
<1>2. CASE Locked
  BY <1>1, <1>2, VaultReturns, VaultTyped DEF DestroyRecords, VaultInv
<1>3. CASE ~Locked
  <2>1. NoEntries \in [Records -> Nat] /\ [key |-> 0, place |-> NoEntries] \in Indexes
    BY EmptyIndex DEF Indexes
  <2>2. disk' = [disk EXCEPT !.record = NoEntries, !.index = [key |-> 0, place |-> NoEntries]] /\ Overtake(c, "unprobe")
    BY <1>3 DEF DestroyRecords
  <2>3. disk' \in Disks
    BY <2>1, <2>2, VaultTyped DEF Disks
  <2>4. "unprobe" \in VaultPoints /\ "unprobe" \notin MutationPoints
    BY DEF VaultPoints, MutationPoints
  <2> QED BY <1>1, <2>2, <2>3, <2>4, NoMutation, VaultOvertaken, VaultTyped DEF VaultInv
<1> QED BY <1>2, <1>3

LEMMA StepDestroyProbe == ASSUME VaultInv, NEW c \in Callers, DestroyProbe(c) PROVE VaultInv'
<1>1. doing[c].pc \notin MutationPoints
  BY DEF DestroyProbe, MutationPoints
<1>2. disk' \in Disks /\ disk'.record = disk.record /\ disk'.index = disk.index
  BY VaultTyped DEF DestroyProbe, Disks
<1>3. "unmeta" \in VaultPoints /\ "unmeta" \notin MutationPoints
  BY DEF VaultPoints, MutationPoints
<1> QED BY <1>1, <1>2, <1>3, VaultMoves, VaultTyped DEF DestroyProbe, VaultInv

LEMMA StepDestroyMetadata == ASSUME VaultInv, NEW c \in Callers, DestroyMetadata(c) PROVE VaultInv'
<1>1. doing[c].pc \notin MutationPoints
  BY DEF DestroyMetadata, MutationPoints
<1>2. disk' \in Disks /\ vault' \in VaultObjects /\ vault'.key = vault.key
  BY VaultTyped DEF DestroyMetadata, Disks, VaultObjects
<1>3. "lock" \in VaultPoints /\ "lock" \notin MutationPoints
  BY DEF VaultPoints, MutationPoints
<1> QED BY <1>1, <1>2, <1>3, NoMutation, VaultOvertaken, VaultTyped DEF DestroyMetadata, VaultInv

-----------------------------------------------------------------------------
(* The indexed stores *)

LEMMA TurnHolders ==
    ASSUME VaultInv, NEW c \in Callers, doing[c].pc \in MutationPoints
    PROVE  /\ doing[c].kind \in Mutations
           /\ doing[c].pc # "queued" => HasTurn(doing[c])
           /\ doing[c].pc \in {"put", "write"} => doing[c].kind = "create"
           /\ doing[c].pc = "delete" => doing[c].kind = "remove"
           /\ doing[c].pc = "wipe" => doing[c].kind = "clear"
  BY VaultTyped DEF MutationHolds, MutationPoints, HasTurn, TurnPoints, Mutations

LEMMA StepBeginMutation == ASSUME VaultInv, NEW c \in Callers, BeginMutation(c) PROVE VaultInv'
<1> DEFINE first == CASE doing[c].kind = "create" -> "put" [] doing[c].kind = "remove" -> "delete" [] OTHER -> "index"
           n == [doing[c] EXCEPT !.pc = first]
<1>1. doing[c].pc = "queued" /\ UNCHANGED <<disk, sessionKey, vault, count, granted>>
  BY DEF BeginMutation, Turn
<1>2. doing[c].kind \in {"create", "remove", "clear"} /\ doing[c] \in VaultCalls
  BY <1>1, VaultTyped, TurnHolders DEF Mutations, MutationPoints
<1>3. \A d \in Callers : ~HasTurn(doing[d])
  <2> SUFFICES ASSUME NEW d \in Callers, HasTurn(doing[d]) PROVE FALSE
    OBVIOUS
  <2>1. doing[d].kind \in Mutations /\ doing[d].pc # "queued"
    BY DEF HasTurn, TurnPoints, Mutations
  <2> QED BY <2>1 DEF BeginMutation, Turn, Mutating
<1>4. first \in VaultPoints
  BY <1>2 DEF VaultPoints
<1>5. n \in VaultCalls
  BY <1>2, <1>4 DEF VaultCalls
<1>6. MutationHolds(disk.record, count.active, granted, n)
  BY <1>2, VaultTyped DEF MutationHolds, MutationPoints, HasTurn, TurnPoints, Mutations, VaultCalls, GivenUnderActive, VaultInv
<1>7. doing' = [doing EXCEPT ![c] = n]
  BY DEF BeginMutation, VaultGoto
<1> HIDE DEF n
<1> QED BY <1>1, <1>3, <1>5, <1>6, <1>7, VaultQuiet, VaultTyped DEF VaultInv

LEMMA StepPutRecord == ASSUME VaultInv, NEW c \in Callers, PutRecord(c) PROVE VaultInv'
<1>1. doing[c].pc = "put" /\ UNCHANGED <<disk, sessionKey, vault, count, granted>>
  BY DEF PutRecord
<1>2. CASE Locked
  BY <1>1, <1>2, VaultReturns, VaultTyped DEF PutRecord, VaultInv
<1>3. CASE ~Locked
  <2> DEFINE n == [doing[c] EXCEPT !.key = vault.key, !.pc = "write"]
  <2>1. doing[c].kind = "create" /\ HasTurn(doing[c]) /\ doing[c] \in VaultCalls
    BY <1>1, TurnHolders, VaultTyped DEF MutationPoints
  <2>2. vault.key = count.active /\ count.active # 0 /\ vault.key \in Nat
    BY <1>3, VaultTyped DEF VaultInv, Locked
  <2>3. n \in VaultCalls
    BY <2>1, <2>2 DEF VaultCalls, VaultPoints
  <2>4. MutationHolds(disk.record, count.active, granted, n)
    BY <2>1, <2>2, VaultTyped DEF MutationHolds, MutationPoints, HasTurn, TurnPoints, Mutations, VaultCalls
  <2>5. doing' = [doing EXCEPT ![c] = n]
    BY <1>3 DEF PutRecord
  <2> HIDE DEF n
  <2> QED BY <1>1, <2>1, <2>3, <2>4, <2>5, VaultMutates, VaultTyped DEF VaultInv, GivenUnderActive
<1> QED BY <1>2, <1>3

LEMMA StepWriteRecord == ASSUME VaultInv, NEW c \in Callers, WriteRecord(c) PROVE VaultInv'
<1> DEFINE n == [doing[c] EXCEPT !.pc = "index"]
<1>1. /\ doing[c].pc = "write" /\ doing[c].kind = "create" /\ HasTurn(doing[c]) /\ doing[c] \in VaultCalls
      /\ doing[c].record \in Records /\ doing[c].key \in Nat
  BY TurnHolders, VaultTyped DEF WriteRecord, MutationPoints, MutationHolds, VaultCalls
<1>2. disk' = [disk EXCEPT !.record = [disk.record EXCEPT ![doing[c].record] = doing[c].key]]
  BY VaultTyped DEF WriteRecord, Disks
<1>3. disk' \in Disks /\ disk'.record = [disk.record EXCEPT ![doing[c].record] = doing[c].key] /\ disk'.index = disk.index
  BY <1>1, <1>2, VaultTyped DEF Disks
<1>4. vault' \in VaultObjects /\ vault'.key = vault.key /\ UNCHANGED <<sessionKey, count, granted>>
  BY VaultTyped DEF WriteRecord, Touched, VaultObjects
<1>5. (doing[c].key = count.active /\ count.active # 0) \/ (granted = NoEntries /\ doing[c].overtaken)
  BY <1>1, VaultTyped DEF MutationHolds
<1>6. GivenUnderActive'
  <2>1. ListsGiven(disk'.index.place, granted')
    BY <1>3, <1>4 DEF VaultInv, GivenUnderActive
  <2>2. ASSUME NEW r \in Records, granted[r] # 0 PROVE granted # NoEntries
    BY <2>2, EmptyIndex
  <2>3. ASSUME NEW r \in Records, granted[r] # 0
        PROVE  disk'.record[r] = count.active /\ disk.index.key = count.active /\ count.active # 0
    <3>1. disk.record[r] = count.active /\ disk.index.key = count.active /\ count.active # 0
      BY <2>3 DEF VaultInv, GivenUnderActive
    <3>2. doing[c].key = count.active
      BY <1>5, <2>2, <2>3
    <3>3. disk.record \in [Records -> Nat]
      BY VaultTyped
    <3> QED BY <1>3, <3>1, <3>2, <3>3
  <2> QED BY <1>3, <1>4, <2>1, <2>3 DEF GivenUnderActive
<1>7. n \in VaultCalls
  BY <1>1 DEF VaultCalls, VaultPoints
<1>8. /\ n.kind = "create" /\ n.pc = "index" /\ n.record = doing[c].record /\ n.overtaken = doing[c].overtaken
  BY <1>1 DEF VaultCalls
<1>9. doing' = [doing EXCEPT ![c] = n]
  BY DEF WriteRecord, VaultGoto
<1> HIDE DEF n
<1>10. MutationHolds(disk'.record, count.active, granted', n)
  BY <1>1, <1>3, <1>5, <1>8, VaultTyped DEF MutationHolds, MutationPoints, HasTurn, TurnPoints, Mutations
<1> QED BY <1>1, <1>3, <1>4, <1>6, <1>7, <1>9, <1>10, VaultMutates, VaultTyped

LEMMA StepDeleteRecord == ASSUME VaultInv, NEW c \in Callers, DeleteRecord(c) PROVE VaultInv'
<1>1. /\ doing[c].pc = "delete" /\ doing[c].kind = "remove" /\ HasTurn(doing[c]) /\ doing[c] \in VaultCalls
      /\ doing[c].record \in Records
  BY TurnHolders, VaultTyped DEF DeleteRecord, MutationPoints, MutationHolds
<1>2. CASE Locked
  BY <1>2, VaultReturns, VaultTyped DEF DeleteRecord, VaultInv
<1>3. CASE ~Locked
  <2> DEFINE n == [doing[c] EXCEPT !.pc = "index"]
  <2>1. disk' = [disk EXCEPT !.record = [disk.record EXCEPT ![doing[c].record] = 0]] /\ granted' = [granted EXCEPT ![doing[c].record] = 0]
    BY <1>3, VaultTyped DEF DeleteRecord, Disks
  <2>2. disk' \in Disks /\ disk'.record = [disk.record EXCEPT ![doing[c].record] = 0] /\ disk'.index = disk.index
    BY <1>1, <2>1, VaultTyped DEF Disks
  <2>3. vault' \in VaultObjects /\ vault'.key = vault.key /\ UNCHANGED <<sessionKey, count>>
    BY <1>3, VaultTyped DEF DeleteRecord, Touched, VaultObjects
  <2>0. /\ granted \in [Records -> Nat] /\ disk.record \in [Records -> Nat]
        /\ \A r \in Records : granted'[r] = IF r = doing[c].record THEN 0 ELSE granted[r]
        /\ \A r \in Records : disk'.record[r] = IF r = doing[c].record THEN 0 ELSE disk.record[r]
    BY <1>1, <2>1, <2>2, VaultTyped DEF Indices
  <2>4. GivenUnderActive'
    <3>1. GivenUnderActive
      BY DEF VaultInv
    <3>2. ListsGiven(disk'.index.place, granted')
      BY <2>0, <2>2, <3>1 DEF GivenUnderActive, ListsGiven
    <3>3. ASSUME NEW r \in Records, granted'[r] # 0
          PROVE  disk'.record[r] = count'.active /\ disk'.index.key = count'.active /\ count'.active # 0
      BY <2>0, <2>2, <2>3, <3>1, <3>3 DEF GivenUnderActive
    <3> QED BY <3>2, <3>3 DEF GivenUnderActive
  <2>5. n \in VaultCalls
    BY <1>1 DEF VaultCalls, VaultPoints
  <2>6. n.kind = "remove" /\ n.pc = "index" /\ n.record = doing[c].record
    BY <1>1 DEF VaultCalls
  <2>7. doing' = [doing EXCEPT ![c] = n]
    BY <1>3 DEF DeleteRecord, VaultGoto
  <2> HIDE DEF n
  <2>8. MutationHolds(disk'.record, count.active, granted', n)
    <3>1. granted'[n.record] = 0
      BY <1>1, <2>0, <2>6
    <3> QED BY <1>1, <2>6, <3>1 DEF MutationHolds, MutationPoints, HasTurn, TurnPoints, Mutations
  <2>9. granted' \in Indices
    BY <1>1, <2>0, <2>1 DEF Indices
  <2> QED BY <1>1, <2>2, <2>3, <2>4, <2>5, <2>7, <2>8, <2>9, VaultMutates
<1> QED BY <1>2, <1>3

LEMMA StepReadIndex == ASSUME VaultInv, NEW c \in Callers, ReadIndex(c) PROVE VaultInv'
<1> DEFINE to == IF doing[c].kind = "clear" THEN "wipe" ELSE "update"
           n == [doing[c] EXCEPT !.seen = disk.index.place, !.pc = to]
<1>1. /\ doing[c].pc = "index" /\ doing[c].kind \in Mutations /\ HasTurn(doing[c]) /\ doing[c] \in VaultCalls
      /\ UNCHANGED <<disk, sessionKey, vault, count, granted>>
  BY TurnHolders, VaultTyped DEF ReadIndex, MutationPoints
<1>2. CASE Return(c)
  BY <1>1, <1>2, VaultReturns, VaultTyped DEF VaultInv
<1>3. CASE doing' = [doing EXCEPT ![c].seen = disk.index.place, ![c].pc = to]
  <2>1. n \in VaultCalls
    BY <1>1, VaultTyped DEF VaultCalls, VaultPoints
  <2>2. /\ n.kind = doing[c].kind /\ n.pc = to /\ n.record = doing[c].record /\ n.overtaken = doing[c].overtaken
        /\ n.seen = disk.index.place
    BY <1>1 DEF VaultCalls
  <2>3. ListsGiven(disk.index.place, granted)
    BY DEF VaultInv, GivenUnderActive
  <2>4. doing' = [doing EXCEPT ![c] = n]
    BY <1>3
  <2> HIDE DEF n
  <2>5. MutationHolds(disk.record, count.active, granted, n)
    BY <1>1, <2>2, <2>3, VaultTyped DEF MutationHolds, MutationPoints, HasTurn, TurnPoints, Mutations
  <2> QED BY <1>1, <2>1, <2>4, <2>5, VaultMutates, VaultTyped DEF VaultInv, GivenUnderActive
<1> QED BY <1>2, <1>3 DEF ReadIndex

LEMMA StepWipeListed == ASSUME VaultInv, NEW c \in Callers, WipeListed(c) PROVE VaultInv'
<1>1. /\ doing[c].pc = "wipe" /\ doing[c].kind = "clear" /\ HasTurn(doing[c]) /\ doing[c] \in VaultCalls
      /\ ListsGiven(doing[c].seen, granted) /\ doing[c].seen \in Indices /\ UNCHANGED <<sessionKey, vault, count>>
  BY TurnHolders, VaultTyped DEF WipeListed, MutationPoints, MutationHolds, VaultCalls
<1>2. CASE Return(c) /\ UNCHANGED <<disk, granted>>
  BY <1>1, <1>2, VaultReturns, VaultTyped DEF VaultInv
<1>3. ASSUME NEW r \in Records, disk' = [disk EXCEPT !.record[r] = 0], granted' = [granted EXCEPT ![r] = 0],
             doing' = [doing EXCEPT ![c].seen[r] = 0]
      PROVE  VaultInv'
  <2> DEFINE seen == [doing[c].seen EXCEPT ![r] = 0]
             n == [doing[c] EXCEPT !.seen = seen]
  <2>1. disk' \in Disks /\ disk'.record = [disk.record EXCEPT ![r] = 0] /\ disk'.index = disk.index
    BY <1>1, <1>3, VaultTyped DEF Disks
  <2>2. granted' \in Indices /\ seen \in Indices
    BY <1>1, <1>3, VaultTyped DEF Indices
  <2>3. n \in VaultCalls
    BY <1>1, <2>2 DEF VaultCalls
  <2>4. n.kind = "clear" /\ n.pc = "wipe" /\ n.seen = seen
    BY <1>1 DEF VaultCalls
  <2>5. doing' = [doing EXCEPT ![c] = n]
    BY <1>3
  <2>6. ListsGiven(seen, granted') /\ ListsGiven(disk.index.place, granted')
    BY <1>1, <1>3, VaultTyped DEF VaultInv, GivenUnderActive, ListsGiven, Indices
  <2>7. GivenUnderActive'
    BY <1>1, <1>3, <2>1, <2>6, VaultTyped DEF VaultInv, GivenUnderActive, Indices
  <2> HIDE DEF n, seen
  <2>8. MutationHolds(disk'.record, count.active, granted', n)
    BY <2>4, <2>6 DEF MutationHolds, MutationPoints, HasTurn, TurnPoints, Mutations
  <2> QED BY <1>1, <2>1, <2>2, <2>3, <2>5, <2>7, <2>8, VaultMutates, VaultTyped
<1>4. CASE doing[c].seen = NoEntries /\ VaultGoto(c, "update") /\ UNCHANGED <<disk, granted>>
  <2> DEFINE n == [doing[c] EXCEPT !.pc = "update"]
  <2>1. n \in VaultCalls
    BY <1>1 DEF VaultCalls, VaultPoints
  <2>2. n.kind = "clear" /\ n.pc = "update" /\ n.seen = doing[c].seen /\ n.seen = NoEntries
    BY <1>1, <1>4 DEF VaultCalls
  <2>3. doing' = [doing EXCEPT ![c] = n]
    BY <1>4 DEF VaultGoto
  <2> HIDE DEF n
  <2>4. MutationHolds(disk.record, count.active, granted, n)
    BY <1>1, <2>2 DEF MutationHolds, MutationPoints, HasTurn, TurnPoints, Mutations
  <2> QED BY <1>1, <1>4, <2>1, <2>3, <2>4, VaultMutates, VaultTyped DEF VaultInv, GivenUnderActive
<1> QED BY <1>1, <1>2, <1>3, <1>4 DEF WipeListed

\* The new index: a record comes in at the first place and moves the others on, or it
\* goes and the others close up.
LEMMA NewPlaces ==
    ASSUME NEW place \in Indices, NEW given \in Indices, NEW r \in Records, ListsGiven(place, given)
    PROVE  /\ Appended(place, r) \in Indices /\ Appended(place, r)[r] = 1
           /\ ListsOthers(Appended(place, r), given, r)
           /\ Unlisting(place, r) \in Indices
           /\ given[r] = 0 => ListsGiven(Unlisting(place, r), given)
<1>1. place \in [Records -> Nat] /\ given \in [Records -> Nat]
  BY DEF Indices
<1>2. Appended(place, r) \in Indices /\ Appended(place, r)[r] = 1
  BY <1>1 DEF Appended, Indices
<1>3. ASSUME NEW q \in Records, q # r, given[q] # 0, given[q] + 1 <= MaxIndex
      PROVE  Appended(place, r)[q] # 0 /\ Appended(place, r)[q] <= given[q] + 1
  <2>1. place[q] # 0 /\ place[q] <= given[q] /\ place[q] \in Nat /\ given[q] \in Nat
    BY <1>1, <1>3 DEF ListsGiven
  <2> QED BY <1>3, <2>1 DEF Appended
<1>4. Unlisting(place, r) \in Indices
  BY <1>1 DEF Unlisting, Indices
<1>5. ASSUME given[r] = 0, NEW q \in Records, given[q] # 0, given[q] <= MaxIndex
      PROVE  Unlisting(place, r)[q] # 0 /\ Unlisting(place, r)[q] <= given[q]
  <2>1. place[q] # 0 /\ place[q] <= given[q] /\ place[q] \in Nat /\ given[q] \in Nat /\ q # r /\ place[r] \in Nat
    BY <1>1, <1>5 DEF ListsGiven
  <2> QED BY <1>5, <2>1 DEF Unlisting
<1> QED BY <1>2, <1>3, <1>4, <1>5 DEF ListsOthers, ListsGiven

LEMMA StepUpdateIndex == ASSUME VaultInv, NEW c \in Callers, UpdateIndex(c) PROVE VaultInv'
<1>1. /\ doing[c].pc = "update" /\ doing[c].kind \in Mutations /\ HasTurn(doing[c]) /\ doing[c] \in VaultCalls
      /\ UNCHANGED <<disk, sessionKey, vault, count, granted>> /\ doing[c].seen \in Indices
  BY TurnHolders, VaultTyped DEF UpdateIndex, MutationPoints, VaultCalls
<1>2. CASE Locked
  BY <1>1, <1>2, VaultReturns, VaultTyped DEF UpdateIndex, VaultInv
<1>3. CASE ~Locked
  <2> DEFINE n == [doing[c] EXCEPT !.key = vault.key, !.seen = Indexed(c), !.pc = "save"]
  <2>1. vault.key = count.active /\ count.active # 0 /\ vault.key \in Nat
    BY <1>3, VaultTyped DEF VaultInv, Locked
  <2>2. MutationHolds(disk.record, count.active, granted, doing[c])
    BY VaultTyped
  <2>3. /\ Indexed(c) \in Indices
        /\ doing[c].kind = "create" => Indexed(c)[doing[c].record] = 1 /\ ListsOthers(Indexed(c), granted, doing[c].record)
        /\ doing[c].kind # "create" => ListsGiven(Indexed(c), granted)
    <3>1. ListsGiven(doing[c].seen, granted) /\ granted \in Indices
      BY <1>1, <2>2, VaultTyped DEF MutationHolds
    <3>2. CASE doing[c].kind = "create"
      BY <1>1, <2>2, <3>1, <3>2, NewPlaces DEF Indexed, MutationHolds
    <3>3. CASE doing[c].kind = "remove"
      BY <1>1, <2>2, <3>1, <3>3, NewPlaces DEF Indexed, MutationHolds
    <3>4. CASE doing[c].kind = "clear"
      BY <1>1, <2>2, <3>1, <3>4 DEF Indexed, MutationHolds
    <3> QED BY <1>1, <3>2, <3>3, <3>4 DEF Mutations
  <2>4. n \in VaultCalls
    BY <1>1, <2>1, <2>3 DEF VaultCalls, VaultPoints
  <2>5. /\ n.kind = doing[c].kind /\ n.pc = "save" /\ n.record = doing[c].record /\ n.overtaken = doing[c].overtaken
        /\ n.seen = Indexed(c) /\ n.key = vault.key
    BY <1>1 DEF VaultCalls
  <2>6. doing' = [doing EXCEPT ![c] = n]
    BY <1>3 DEF UpdateIndex
  <2> HIDE DEF n
  <2>7. MutationHolds(disk.record, count.active, granted, n)
    BY <1>1, <2>1, <2>2, <2>3, <2>5 DEF MutationHolds, MutationPoints, HasTurn, TurnPoints, Mutations
  <2> QED BY <1>1, <2>4, <2>6, <2>7, VaultMutates, VaultTyped DEF VaultInv, GivenUnderActive
<1> QED BY <1>2, <1>3

LEMMA StepSaveIndex == ASSUME VaultInv, NEW c \in Callers, SaveIndex(c) PROVE VaultInv'
<1>1. /\ doing[c].pc = "save" /\ doing[c].kind \in Mutations /\ HasTurn(doing[c]) /\ doing[c] \in VaultCalls
      /\ MutationHolds(disk.record, count.active, granted, doing[c])
  BY TurnHolders, VaultTyped DEF SaveIndex, MutationPoints
<1>2. doing[c].seen \in Indices /\ doing[c].key \in Nat
  BY <1>1 DEF VaultCalls
<1>3. [key |-> doing[c].key, place |-> doing[c].seen] \in Indexes
  BY <1>2 DEF Indexes
<1>4. disk' = [disk EXCEPT !.index = [key |-> doing[c].key, place |-> doing[c].seen]]
  BY DEF SaveIndex
<1>5. /\ disk' \in Disks /\ disk'.record = disk.record
      /\ disk'.index.key = doing[c].key /\ disk'.index.place = doing[c].seen
  BY <1>3, <1>4, VaultTyped DEF Disks
<1>6. vault' \in VaultObjects /\ vault'.key = vault.key /\ UNCHANGED <<sessionKey, count>>
  BY VaultTyped DEF SaveIndex, Touched, VaultObjects
<1>7. doing' = [doing EXCEPT ![c] = NoCall]
  BY DEF SaveIndex, Return
<1>8. CASE doing[c].kind = "create"
  <2> DEFINE r == doing[c].record
  <2>1. r \in Records /\ granted \in [Records -> Nat]
    BY <1>1, <1>8, VaultTyped DEF MutationHolds, Indices
  <2>2. granted' = Counted(r, ~doing[c].overtaken) /\ doing[c].seen[r] = 1 /\ ListsOthers(doing[c].seen, granted, r)
    BY <1>1, <1>8 DEF SaveIndex, MutationHolds
  <2>3. (doing[c].key = count.active /\ count.active # 0) \/ (granted = NoEntries /\ doing[c].overtaken)
    BY <1>1 DEF MutationHolds
  <2>4. ~doing[c].overtaken => disk.record[r] = count.active
    BY <1>1, <1>8 DEF MutationHolds
  <2> HIDE DEF r
  <2>5. granted' \in Indices
    BY <2>1, <2>2 DEF Counted, Indices
  <2>6. ListsGiven(doing[c].seen, granted')
    <3> SUFFICES ASSUME NEW q \in Records, granted'[q] # 0, granted'[q] <= MaxIndex
                 PROVE  doing[c].seen[q] # 0 /\ doing[c].seen[q] <= granted'[q]
      BY DEF ListsGiven
    <3>1. CASE q = r
      BY <2>1, <2>2, <3>1 DEF Counted
    <3>2. CASE q # r
      <4>1. granted[q] # 0 /\ granted'[q] = granted[q] + 1
        BY <2>1, <2>2, <3>2 DEF Counted
      <4> QED BY <2>2, <3>2, <4>1 DEF ListsOthers
    <3> QED BY <3>1, <3>2
  <2>7. ASSUME NEW q \in Records, granted'[q] # 0
        PROVE  disk'.record[q] = count.active /\ disk'.index.key = count.active /\ count.active # 0
    <3>1. CASE q = r
      <4>1. ~doing[c].overtaken
        BY <2>1, <2>2, <2>7, <3>1 DEF Counted
      <4> QED BY <1>5, <2>3, <2>4, <3>1, <4>1
    <3>2. CASE q # r
      <4>1. granted[q] # 0
        BY <2>1, <2>2, <2>7, <3>2 DEF Counted
      <4>2. granted # NoEntries
        BY <2>1, <4>1 DEF NoEntries
      <4> QED BY <1>5, <2>3, <4>1, <4>2 DEF VaultInv, GivenUnderActive
    <3> QED BY <3>1, <3>2
  <2>8. GivenUnderActive'
    BY <1>5, <1>6, <2>6, <2>7 DEF GivenUnderActive
  <2> QED BY <1>1, <1>5, <1>6, <1>7, <2>5, <2>8, RestingVaultCall, VaultMutates
<1>9. CASE doing[c].kind # "create"
  <2>1. granted' = granted /\ ListsGiven(doing[c].seen, granted)
    BY <1>1, <1>9 DEF SaveIndex, MutationHolds
  <2>2. doing[c].key = count.active \/ granted = NoEntries
    BY <1>1 DEF MutationHolds
  <2>3. GivenUnderActive' /\ granted' \in Indices
    BY <1>2, <1>5, <1>6, <2>1, <2>2, VaultTyped DEF VaultInv, GivenUnderActive, NoEntries
  <2> QED BY <1>1, <1>5, <1>6, <1>7, <2>3, RestingVaultCall, VaultMutates
<1> QED BY <1>8, <1>9

LEMMA StepVault == ASSUME VaultInv, NEW c \in Callers, VaultStep(c) PROVE VaultInv'
  BY StepCreateVault, StepSaveMetadata, StepActivateSession, StepActivateMemory, StepSaveProbe, StepDeriveKey,
     StepVerifyKey, StepForgetSession, StepLock, StepDestroyRecords, StepDestroyProbe, StepDestroyMetadata,
     StepBeginMutation, StepPutRecord, StepWriteRecord, StepDeleteRecord, StepReadIndex, StepWipeListed,
     StepUpdateIndex, StepSaveIndex DEF VaultStep

\* A call begins: an operation of the vault, or a mutation that waits for its turn.
LEMMA StepInvoke ==
    ASSUME VaultInv, NEW c \in Callers, NEW kind \in VaultKinds, NEW pc \in VaultPoints, NEW r \in Records \union {"none"},
           Invoke(c, kind, pc, r),
           IF kind \in Mutations THEN pc = "queued" /\ (kind \in {"create", "remove"} => r \in Records)
                                 ELSE pc \notin MutationPoints
    PROVE  VaultInv'
<1> DEFINE n == [NoCall EXCEPT !.kind = kind, !.pc = pc, !.record = r]
<1>1. n \in VaultCalls
  BY RestingVaultCall DEF VaultCalls
<1>2. n.kind = kind /\ n.pc = pc /\ n.record = r
  BY DEF NoCall
<1>3. doing' = [doing EXCEPT ![c] = n] /\ UNCHANGED <<disk, sessionKey, vault, granted>>
  BY DEF Invoke
<1>4. count' \in VaultCounts /\ count'.active = count.active
  BY VaultTyped DEF Invoke, VaultCounts
<1> HIDE DEF n
<1>5. ~HasTurn(n) /\ MutationHolds(disk.record, count.active, granted, n)
  BY <1>2 DEF MutationHolds, MutationPoints, HasTurn, TurnPoints, Mutations
<1> QED BY <1>1, <1>3, <1>4, <1>5, VaultQuiet, VaultTyped DEF VaultInv

LEMMA StepStopWorker == ASSUME VaultInv, StopWorker PROVE VaultInv'
<1>1. NewVault \in VaultObjects /\ NewVault.key = 0
  BY DEF NewVault, VaultObjects
<1>2. /\ vault' = NewVault /\ doing' = [c \in Callers |-> NoCall] /\ sessionKey' \in Nat
      /\ UNCHANGED <<disk, count, granted>>
  BY VaultTyped DEF StopWorker
<1>3. VaultTypeOK'
  BY <1>1, <1>2, RestingVaultCall, VaultTyped DEF VaultTypeOK
<1>4. OneTurn' /\ GivenUnderActive'
  BY <1>2, RestingVaultCall DEF OneTurn, GivenUnderActive, VaultInv, HasTurn, TurnPoints
<1> QED BY <1>1, <1>2, <1>3, <1>4, RestingVaultCall DEF VaultInv

LEMMA VaultInvariant == VaultSpec => []VaultInv
<1>1. ASSUME VaultInv, [VaultNext]_vaultVars PROVE VaultInv'
  <2>1. ASSUME NEW c \in Callers, NEW o \in Operations, Invoke(c, o[1], o[2], "none") PROVE VaultInv'
    <3>1. o[1] \in VaultKinds /\ o[2] \in VaultPoints /\ o[1] \notin Mutations /\ o[2] \notin MutationPoints
      BY DEF Operations, VaultKinds, VaultPoints, Mutations, MutationPoints
    <3> QED BY <1>1, <2>1, <3>1, StepInvoke
  <2>2. ASSUME NEW c \in Callers, NEW r \in Records, NEW kind \in {"create", "remove"}, Invoke(c, kind, "queued", r)
        PROVE  VaultInv'
    <3>1. kind \in VaultKinds /\ "queued" \in VaultPoints /\ kind \in Mutations
      BY DEF VaultKinds, VaultPoints, Mutations
    <3> QED BY <1>1, <2>2, <3>1, StepInvoke
  <2>3. ASSUME NEW c \in Callers, Invoke(c, "clear", "queued", "none") PROVE VaultInv'
    <3>1. "clear" \in VaultKinds /\ "queued" \in VaultPoints /\ "clear" \in Mutations
      BY DEF VaultKinds, VaultPoints, Mutations
    <3> QED BY <1>1, <2>3, <3>1, StepInvoke
  <2>4. CASE VaultNext
    BY <1>1, <2>1, <2>2, <2>3, <2>4, StepVault, StepStopWorker, VaultTyped DEF VaultNext
  <2>5. CASE UNCHANGED vaultVars
    <3>1. UNCHANGED <<disk, sessionKey, vault, doing, count, granted>>
      BY <2>5 DEF vaultVars
    <3>2. VaultTypeOK' /\ OneTurn' /\ GivenUnderActive'
      BY <1>1, <3>1 DEF VaultInv, VaultTypeOK, OneTurn, GivenUnderActive, HasTurn, TurnPoints
    <3> QED BY <1>1, <3>1, <3>2 DEF VaultInv
  <2> QED BY <1>1, <2>4, <2>5
<1> QED BY <1>1, VaultInitial, PTL DEF VaultSpec

-----------------------------------------------------------------------------
(* The theorems *)

\* The variables of the vault keep their types.
THEOREM VaultTypeCorrect == VaultSpec => []VaultTypeOK
<1>1. VaultInv => VaultTypeOK
  BY DEF VaultInv
<1> QED BY <1>1, VaultInvariant, PTL

\* A record whose creation was reported is stored until it is removed, and listed until as
\* many later ones were created as an index keeps; both are under one key, that of the
\* vault last active.  Creations, locks, unlocks, a second vault and stops of the worker
\* may come in between at every await.
THEOREM CreatedStaysListed == VaultSpec => []CreatedIsListed
<1>1. ASSUME VaultInv PROVE CreatedIsListed
  <2>1. GivenUnderActive /\ granted \in [Records -> Nat]
    BY <1>1, VaultTyped DEF VaultInv, Indices
  <2> QED BY <2>1 DEF GivenUnderActive, ListsGiven, CreatedIsListed
<1> QED BY <1>1, VaultInvariant, PTL

(***************************************************************************)
(* The full-screen workspace (Workspace)                                   *)
(***************************************************************************)

TabNumbers == 0..MaxTabs
Entries == [source : Sources \union {NoSource}, tab : TabNumbers, available : BOOLEAN]
Lists == SUBSET (EntryIds \X Entries)
CallKinds == {"none", "status", "open", "update", "release", "gone"}
CallPoints ==
    {"rest", "query", "index", "entry", "list", "probe", "clear", "found", "answer", "focus", "context", "existing",
     "refocus", "new", "create", "opened", "show", "read", "update", "unavailable"}
ControllerCalls ==
    [kind : CallKinds, pc : CallPoints, by : Panels \union {"none"}, at : Sources \union {NoSource},
     id : TabNumbers, seen : Entries, list : Lists, tab : TabNumbers]

TabStates == [shows : {"nothing", "blank", "loading", "workspace", "elsewhere", "closed"}, id : TabNumbers]

WorkspaceTypeOK ==
    /\ session \in [EntryIds -> Entries]
    /\ index \in [Sources -> TabNumbers]
    /\ view \in [Sources -> {"scombz", "elsewhere"}]
    /\ tab \in [Tabs -> TabStates]
    /\ task \in [Workers -> ControllerCalls]
    /\ panel \in [Panels -> [mounted : BOOLEAN, active : BOOLEAN, bound : Sources \union {NoSource}]]
    /\ calls \in Nat

\* s was read from, or written to, the entry i of the store: it names the source of the entry.
Snapshot(store, i, s) == i \in EntryIds /\ s.source \in Sources /\ store[i].source = s.source
\* Where a call is about to write what it has seen.
Holding == {"clear", "found", "focus", "existing", "refocus", "create", "opened", "show", "update", "unavailable"}

\* What the local variables of a call can be relied on for.
CallHolds(store, c) ==
    /\ c.pc \in Holding => Snapshot(store, c.id, c.seen)
    /\ c.pc = "entry" => c.id \in EntryIds /\ store[c.id].source = c.at
    /\ c.pc \in {"context", "existing", "refocus", "new"} =>
          (c.id = 0 /\ c.seen = NoSession) \/ (Snapshot(store, c.id, c.seen) /\ c.seen.source = c.at)
    /\ c.pc \in {"index", "entry", "existing", "refocus", "new"} => c.at \in Sources
    /\ c.pc = "read" => c.id \in EntryIds
    /\ \A e \in c.list : Snapshot(store, e[1], e[2])

EntriesHaveSource == \A i \in EntryIds : Stored(i) <=> session[i].source \in Sources
SourcesIndexed ==
    /\ \A s \in Sources : index[s] # 0 => session[index[s]].source = s
    /\ \A i \in EntryIds : session[i].source \in Sources => index[session[i].source] # 0
TabsHaveSession ==
    \A t \in Tabs : /\ tab[t].shows \in {"loading", "workspace"} <=> tab[t].id # 0
                    /\ tab[t].id # 0 => session[tab[t].id].source \in Sources

WorkspaceInv ==
    /\ WorkspaceTypeOK
    /\ EntriesHaveSource
    /\ SourcesIndexed
    /\ TabsHaveSession
    /\ \A w \in Workers : CallHolds(session, task[w])

USE WorkspaceAssumption DEF WorkspaceAssumption

-----------------------------------------------------------------------------
(* The store and the calls *)

\* An entry that is stored keeps its source.
SourcesStay == \A i \in EntryIds : session[i].source \in Sources => session'[i].source = session[i].source

LEMMA TabNumber == 0 \in TabNumbers /\ EntryIds \subseteq TabNumbers /\ Tabs \subseteq TabNumbers
  BY DEF TabNumbers, EntryIds, Tabs

LEMMA Retyped ==
    ASSUME NEW c \in ControllerCalls
    PROVE  /\ \A pc \in CallPoints : [c EXCEPT !.pc = pc] \in ControllerCalls
           /\ \A pc \in CallPoints, at \in Sources \union {NoSource} : [c EXCEPT !.pc = pc, !.at = at] \in ControllerCalls
           /\ \A pc \in CallPoints, id \in TabNumbers : [c EXCEPT !.pc = pc, !.id = id] \in ControllerCalls
           /\ \A pc \in CallPoints, seen \in Entries : [c EXCEPT !.pc = pc, !.seen = seen] \in ControllerCalls
           /\ \A pc \in CallPoints, list \in Lists : [c EXCEPT !.list = list, !.pc = pc] \in ControllerCalls
           /\ \A pc \in CallPoints, id \in TabNumbers, seen \in Entries :
                 [c EXCEPT !.pc = pc, !.id = id, !.seen = seen] \in ControllerCalls
           /\ \A pc \in CallPoints, id \in TabNumbers, seen \in Entries, list \in Lists :
                 [c EXCEPT !.id = id, !.seen = seen, !.list = list, !.pc = pc] \in ControllerCalls
  BY DEF ControllerCalls

LEMMA NoEntry == NoSession \in Entries /\ {} \in Lists
  BY TabNumber DEF NoSession, Entries, Lists

LEMMA RestingCall == Resting \in ControllerCalls /\ \A store : CallHolds(store, Resting)
<1>1. Resting \in ControllerCalls
  BY NoEntry, TabNumber DEF Resting, ControllerCalls, CallKinds, CallPoints
<1> QED BY <1>1 DEF Resting, CallHolds, Holding

LEMMA WorkspaceInitial == WorkspaceInit => WorkspaceInv
<1> SUFFICES ASSUME WorkspaceInit PROVE WorkspaceInv
  OBVIOUS
<1>3. WorkspaceTypeOK
  BY NoEntry, RestingCall, TabNumber DEF WorkspaceInit, WorkspaceTypeOK, TabStates, Unopened
<1>4. EntriesHaveSource /\ SourcesIndexed
  BY DEF WorkspaceInit, EntriesHaveSource, SourcesIndexed, Stored, NoSession
<1>5. TabsHaveSession
  BY DEF WorkspaceInit, TabsHaveSession, Unopened
<1>6. \A w \in Workers : CallHolds(session, task[w])
  BY DEF WorkspaceInit, CallHolds, Resting, Holding
<1> QED BY <1>3, <1>4, <1>5, <1>6 DEF WorkspaceInv

\* The entry and its index are written together, so both still agree, and no entry changes its source.
LEMMA Writes ==
    ASSUME WorkspaceInv, NEW i \in EntryIds, NEW s \in Entries, s.source \in Sources,
           session[i].source \in Sources => session[i].source = s.source, Write(i, s)
    PROVE  /\ session' \in [EntryIds -> Entries] /\ index' \in [Sources -> TabNumbers]
           /\ EntriesHaveSource' /\ SourcesIndexed'
           /\ SourcesStay /\ session'[i].source = s.source
<1>1. session \in [EntryIds -> Entries] /\ index \in [Sources -> TabNumbers]
  BY DEF WorkspaceInv, WorkspaceTypeOK
<1>2. session' = [session EXCEPT ![i] = s] /\ index' = [index EXCEPT ![s.source] = i]
  BY DEF Write
<1>3. session' \in [EntryIds -> Entries] /\ index' \in [Sources -> TabNumbers]
  BY <1>1, <1>2, TabNumber
<1>4. session'[i] = s /\ \A j \in EntryIds \ {i} : session'[j] = session[j]
  BY <1>1, <1>2
<1>5. index'[s.source] = i /\ i # 0 /\ \A r \in Sources \ {s.source} : index'[r] = index[r]
  BY <1>1, <1>2 DEF EntryIds
<1>6. SourcesStay
  BY <1>4 DEF SourcesStay
<1>7. s # NoSession
  BY DEF NoSession
<1>8. EntriesHaveSource'
  BY <1>4, <1>7 DEF WorkspaceInv, EntriesHaveSource, Stored
<1>9. \A r \in Sources : index'[r] # 0 => session'[index'[r]].source = r
  <2> SUFFICES ASSUME NEW r \in Sources \ {s.source}, index[r] # 0 PROVE session'[index[r]].source = r
    BY <1>4, <1>5
  <2>1. session[index[r]].source = r /\ index[r] \in EntryIds
    BY <1>1 DEF WorkspaceInv, SourcesIndexed, EntryIds, TabNumbers
  <2> QED BY <1>4, <2>1
<1>10. \A j \in EntryIds : session'[j].source \in Sources => index'[session'[j].source] # 0
  BY <1>4, <1>5 DEF WorkspaceInv, SourcesIndexed
<1> QED BY <1>3, <1>4, <1>6, <1>8, <1>9, <1>10 DEF SourcesIndexed

\* What a call relies on stays true while others write.
LEMMA CallsHold ==
    ASSUME WorkspaceInv, SourcesStay, NEW w \in Workers, NEW n \in ControllerCalls,
           task' = [task EXCEPT ![w] = n], CallHolds(session', n)
    PROVE  task' \in [Workers -> ControllerCalls] /\ \A v \in Workers : CallHolds(session', task'[v])
<1>1. task \in [Workers -> ControllerCalls]
  BY DEF WorkspaceInv, WorkspaceTypeOK
<1>2. task' \in [Workers -> ControllerCalls]
  BY <1>1
<1>3. ASSUME NEW v \in Workers, v # w PROVE CallHolds(session', task'[v])
  <2>1. task'[v] = task[v] /\ CallHolds(session, task[v])
    BY <1>1, <1>3 DEF WorkspaceInv
  <2>2. \A i, s : Snapshot(session, i, s) => Snapshot(session', i, s)
    BY DEF Snapshot, SourcesStay
  <2>3. task[v].pc = "entry" => session'[task[v].id].source = task[v].at
    BY <2>1 DEF CallHolds, SourcesStay
  <2> QED BY <2>1, <2>2, <2>3 DEF CallHolds
<1>4. task'[w] = n
  BY <1>1
<1> QED BY <1>2, <1>3, <1>4

\* A tab keeps its session, unless it is shown something else.
LEMMA TabsKept ==
    ASSUME WorkspaceInv, SourcesStay, UNCHANGED tab
    PROVE  TabsHaveSession'
<1>1. tab \in [Tabs -> TabStates]
  BY DEF WorkspaceInv, WorkspaceTypeOK
<1> SUFFICES ASSUME NEW t \in Tabs, tab[t].id # 0 PROVE session'[tab[t].id].source \in Sources
  BY DEF TabsHaveSession, WorkspaceInv
<1>2. tab[t].id \in EntryIds
  BY <1>1 DEF EntryIds, TabNumbers, TabStates
<1> QED BY <1>2 DEF SourcesStay, TabsHaveSession, WorkspaceInv

LEMMA StoreKept ==
    ASSUME WorkspaceInv, UNCHANGED <<session, index>>
    PROVE  /\ session' \in [EntryIds -> Entries] /\ index' \in [Sources -> TabNumbers]
           /\ EntriesHaveSource' /\ SourcesIndexed' /\ SourcesStay
  BY DEF WorkspaceInv, WorkspaceTypeOK, EntriesHaveSource, Stored, SourcesIndexed, SourcesStay

PanelStates == [mounted : BOOLEAN, active : BOOLEAN, bound : Sources \union {NoSource}]

\* A call goes on as n and leaves the store alone, ...
LEMMA ReadStep ==
    ASSUME WorkspaceInv, NEW w \in Workers, NEW n \in ControllerCalls,
           task' = [task EXCEPT ![w] = n], CallHolds(session, n),
           UNCHANGED <<session, index, view, tab, calls>>, panel' \in [Panels -> PanelStates]
    PROVE  WorkspaceInv'
<1>1. /\ session' \in [EntryIds -> Entries] /\ index' \in [Sources -> TabNumbers]
      /\ EntriesHaveSource' /\ SourcesIndexed' /\ SourcesStay
  BY StoreKept
<1>2. TabsHaveSession'
  BY <1>1, TabsKept
<1>3. task' \in [Workers -> ControllerCalls] /\ \A v \in Workers : CallHolds(session', task'[v])
  BY <1>1, CallsHold
<1>4. WorkspaceTypeOK'
  BY <1>1, <1>3 DEF WorkspaceInv, WorkspaceTypeOK, PanelStates
<1> QED BY <1>1, <1>2, <1>3, <1>4 DEF WorkspaceInv

\* ... or writes an entry, under the source it has.
LEMMA WriteStep ==
    ASSUME WorkspaceInv, NEW w \in Workers, NEW n \in ControllerCalls, NEW i \in EntryIds, NEW s \in Entries,
           s.source \in Sources, session[i].source \in Sources => session[i].source = s.source, Write(i, s),
           task' = [task EXCEPT ![w] = n],
           SourcesStay /\ session'[i].source = s.source => CallHolds(session', n),
           UNCHANGED <<view, tab, calls>>, panel' \in [Panels -> PanelStates]
    PROVE  WorkspaceInv'
<1>1. /\ session' \in [EntryIds -> Entries] /\ index' \in [Sources -> TabNumbers]
      /\ EntriesHaveSource' /\ SourcesIndexed' /\ SourcesStay /\ session'[i].source = s.source
  BY Writes
<1>2. TabsHaveSession'
  BY <1>1, TabsKept
<1>3. task' \in [Workers -> ControllerCalls] /\ \A v \in Workers : CallHolds(session', task'[v])
  BY <1>1, CallsHold
<1>4. WorkspaceTypeOK'
  BY <1>1, <1>3 DEF WorkspaceInv, WorkspaceTypeOK, PanelStates
<1> QED BY <1>1, <1>2, <1>3, <1>4 DEF WorkspaceInv

\* What a call has seen is not lost by writing it.
LEMMA SnapshotsStay ==
    ASSUME SourcesStay, NEW i, NEW s, Snapshot(session, i, s)
    PROVE  Snapshot(session', i, s)
  BY DEF Snapshot, SourcesStay

LEMMA Typed == WorkspaceInv =>
    /\ session \in [EntryIds -> Entries] /\ index \in [Sources -> TabNumbers]
    /\ task \in [Workers -> ControllerCalls] /\ panel \in [Panels -> PanelStates]
    /\ \A w \in Workers : task[w] \in ControllerCalls /\ CallHolds(session, task[w])
  BY DEF WorkspaceInv, WorkspaceTypeOK, PanelStates

LEMMA Broadcasts ==
    ASSUME WorkspaceInv, NEW s, NEW b \in BOOLEAN, Broadcast(s, b)
    PROVE  panel' \in [Panels -> PanelStates]
<1>1. panel \in [Panels -> PanelStates]
  BY Typed
<1>2. \A p \in Panels : [panel[p] EXCEPT !.active = b] \in PanelStates
  BY <1>1 DEF PanelStates
<1> QED BY <1>1, <1>2 DEF Broadcast

\* A call that is over.
LEMMA Ends ==
    ASSUME WorkspaceInv, NEW w \in Workers, EndCall(w), UNCHANGED <<session, index, view, tab, calls>>,
           panel' \in [Panels -> PanelStates]
    PROVE  WorkspaceInv'
  BY ReadStep, RestingCall DEF EndCall

LEMMA Goes ==
    ASSUME WorkspaceInv, NEW w \in Workers, NEW pc \in CallPoints, CallGoto(w, pc),
           CallHolds(session, [task[w] EXCEPT !.pc = pc]),
           UNCHANGED <<session, index, view, tab, calls>>, panel' \in [Panels -> PanelStates]
    PROVE  WorkspaceInv'
<1> DEFINE n == [task[w] EXCEPT !.pc = pc]
<1>1. n \in ControllerCalls
  BY Typed, Retyped
<1>2. task' = [task EXCEPT ![w] = n]
  BY DEF CallGoto
<1>3. CallHolds(session, n)
  OBVIOUS
<1> HIDE DEF n
<1> QED BY <1>1, <1>2, <1>3, ReadStep

\* What a call relies on it still relies on after a write.
LEMMA HoldsOn ==
    ASSUME SourcesStay, NEW c \in ControllerCalls, CallHolds(session, c)
    PROVE  CallHolds(session', c)
<1>1. \A i, s : Snapshot(session, i, s) => Snapshot(session', i, s)
  BY DEF Snapshot, SourcesStay
<1>2. c.pc = "entry" => session'[c.id].source = c.at
  BY DEF CallHolds, SourcesStay
<1> QED BY <1>1, <1>2 DEF CallHolds

\* A call that writes under the source it has seen, and goes on.
LEMMA WritesSeen ==
    ASSUME WorkspaceInv, NEW w \in Workers, task[w].pc \in Holding, NEW s \in Entries, s.source = task[w].seen.source,
           NEW n \in ControllerCalls, Write(task[w].id, s), task' = [task EXCEPT ![w] = n],
           CallHolds(session', task[w]) => CallHolds(session', n),
           UNCHANGED <<view, tab, calls>>, panel' \in [Panels -> PanelStates]
    PROVE  WorkspaceInv'
<1>1. task[w] \in ControllerCalls /\ CallHolds(session, task[w])
  BY Typed
<1>2. Snapshot(session, task[w].id, task[w].seen)
  BY <1>1 DEF CallHolds
<1>3. task[w].id \in EntryIds /\ s.source \in Sources /\ session[task[w].id].source = s.source
  BY <1>2 DEF Snapshot
<1>4. SourcesStay => CallHolds(session', n)
  BY <1>1, HoldsOn
<1> QED BY <1>3, <1>4, WriteStep

-----------------------------------------------------------------------------
(* open, status, update, releaseWorkspaceTab, markSourceUnavailable *)

Still == UNCHANGED <<view, tab, calls>>

LEMMA StepCurrentScombzTab == ASSUME WorkspaceInv, NEW w \in Workers, CurrentScombzTab(w), Still PROVE WorkspaceInv'
<1>1. task[w] \in ControllerCalls /\ CallHolds(session, task[w]) /\ panel \in [Panels -> PanelStates]
  BY Typed
<1>2. ASSUME NEW s \in Sources, task' = [task EXCEPT ![w].pc = "index", ![w].at = s] PROVE WorkspaceInv'
  <2> DEFINE n == [task[w] EXCEPT !.pc = "index", !.at = s]
  <2>1. n \in ControllerCalls
    BY <1>1, Retyped DEF CallPoints
  <2>2. CallHolds(session, n)
    BY <1>1 DEF CallHolds, ControllerCalls, Holding
  <2>3. task' = [task EXCEPT ![w] = n]
    BY <1>2
  <2> HIDE DEF n
  <2> QED BY <1>1, <2>1, <2>2, <2>3, ReadStep DEF CurrentScombzTab, Nothing, Still
<1>3. ASSUME CallGoto(w, "list") PROVE WorkspaceInv'
  <2> DEFINE n == [task[w] EXCEPT !.pc = "list"]
  <2>1. n \in ControllerCalls
    BY <1>1, Retyped DEF CallPoints
  <2>2. CallHolds(session, n)
    BY <1>1 DEF CallHolds, ControllerCalls, Holding
  <2>3. task' = [task EXCEPT ![w] = n]
    BY <1>3 DEF CallGoto
  <2> HIDE DEF n
  <2> QED BY <1>1, <2>1, <2>2, <2>3, ReadStep DEF CurrentScombzTab, Nothing, Still
<1> QED BY <1>2, <1>3 DEF CurrentScombzTab

LEMMA StepForSourceTab == ASSUME WorkspaceInv, NEW w \in Workers, ForSourceTab(w), Still PROVE WorkspaceInv'
<1>1. task[w] \in ControllerCalls /\ CallHolds(session, task[w]) /\ panel \in [Panels -> PanelStates]
  BY Typed
<1>2. task[w].at \in Sources /\ UNCHANGED <<session, index, view, tab, calls, panel>>
  BY <1>1 DEF ForSourceTab, CallHolds, Nothing, Still
<1>3. CASE index[task[w].at] # 0
  <2> DEFINE n == [task[w] EXCEPT !.pc = "entry", !.id = index[task[w].at]]
  <2>1. index[task[w].at] \in EntryIds /\ session[index[task[w].at]].source = task[w].at
    BY <1>2, <1>3, Typed DEF WorkspaceInv, SourcesIndexed, EntryIds, TabNumbers
  <2>2. n \in ControllerCalls
    BY <1>1, <2>1, Retyped, TabNumber DEF CallPoints
  <2>3. CallHolds(session, n)
    BY <1>1, <1>2, <2>1 DEF CallHolds, ControllerCalls, Holding
  <2>4. task' = [task EXCEPT ![w] = n]
    BY <1>3 DEF ForSourceTab
  <2> HIDE DEF n
  <2> QED BY <1>1, <1>2, <2>2, <2>3, <2>4, ReadStep
<1>4. CASE CallGoto(w, "list")
  <2> DEFINE n == [task[w] EXCEPT !.pc = "list"]
  <2>1. n \in ControllerCalls
    BY <1>1, Retyped DEF CallPoints
  <2>2. CallHolds(session, n)
    BY <1>1 DEF CallHolds, ControllerCalls, Holding
  <2>3. task' = [task EXCEPT ![w] = n]
    BY <1>4 DEF CallGoto
  <2> HIDE DEF n
  <2> QED BY <1>1, <1>2, <2>1, <2>2, <2>3, ReadStep
<1>5. CASE EndCall(w)
  BY <1>1, <1>2, <1>5, Ends
<1> QED BY <1>3, <1>4, <1>5 DEF ForSourceTab

LEMMA StepReadEntry == ASSUME WorkspaceInv, NEW w \in Workers, ReadEntry(w), Still PROVE WorkspaceInv'
<1> DEFINE at == IF task[w].kind = "open" THEN "context" ELSE "unavailable"
           n == [task[w] EXCEPT !.pc = at, !.seen = session[task[w].id]]
<1>1. task[w] \in ControllerCalls /\ CallHolds(session, task[w]) /\ panel \in [Panels -> PanelStates]
  BY Typed
<1>2. UNCHANGED <<session, index, view, tab, calls, panel>> /\ task[w].pc = "entry"
  BY DEF ReadEntry, Nothing, Still
<1>3. task[w].id \in EntryIds /\ session[task[w].id].source = task[w].at /\ task[w].at \in Sources
  BY <1>1, <1>2 DEF CallHolds
<1>4. session[task[w].id] \in Entries
  BY <1>3, Typed
<1>5. n \in ControllerCalls
  BY <1>1, <1>4, Retyped DEF CallPoints
<1>6. CallHolds(session, n)
  BY <1>1, <1>3 DEF CallHolds, ControllerCalls, Holding, Snapshot
<1>7. task' = [task EXCEPT ![w] = n]
  BY DEF ReadEntry
<1> HIDE DEF n
<1> QED BY <1>1, <1>2, <1>5, <1>6, <1>7, ReadStep

LEMMA StepReadStoredSessions ==
    ASSUME WorkspaceInv, NEW w \in Workers, ReadStoredSessions(w), Still PROVE WorkspaceInv'
<1> DEFINE of(i) == Stored(i) /\ session[i].tab # 0 /\ (task[w].kind = "release" => session[i].tab = task[w].tab)
           found == {<<i, session[i]>> : i \in {j \in EntryIds : of(j)}}
           n == [task[w] EXCEPT !.list = found, !.pc = "probe"]
<1>1. task[w] \in ControllerCalls /\ CallHolds(session, task[w]) /\ panel \in [Panels -> PanelStates]
  BY Typed
<1>2. UNCHANGED <<session, index, view, tab, calls, panel>> /\ task' = [task EXCEPT ![w] = n]
  BY DEF ReadStoredSessions, Nothing, Still
<1>3. found \in Lists
  BY Typed DEF Lists
<1>4. \A e \in found : Snapshot(session, e[1], e[2])
  BY DEF WorkspaceInv, EntriesHaveSource, Snapshot
<1> HIDE DEF found
<1>5. n \in ControllerCalls
  BY <1>1, <1>3, Retyped DEF CallPoints
<1>6. CallHolds(session, n)
  BY <1>1, <1>4 DEF CallHolds, ControllerCalls, Holding
<1> HIDE DEF n
<1> QED BY <1>1, <1>2, <1>5, <1>6, ReadStep

LEMMA StepProbe == ASSUME WorkspaceInv, NEW w \in Workers, Probe(w), Still PROVE WorkspaceInv'
<1>1. task[w] \in ControllerCalls /\ CallHolds(session, task[w]) /\ panel \in [Panels -> PanelStates]
  BY Typed
<1>2. UNCHANGED <<session, index, view, tab, calls, panel>>
  BY DEF Probe, Nothing, Still
<1>3. ASSUME NEW e \in task[w].list, NEW at \in {"found", "clear"},
             task' = [task EXCEPT ![w].id = e[1], ![w].seen = e[2], ![w].list = @ \ {e}, ![w].pc = at]
      PROVE  WorkspaceInv'
  <2> DEFINE n == [task[w] EXCEPT !.id = e[1], !.seen = e[2], !.list = @ \ {e}, !.pc = at]
  <2>1. e \in EntryIds \X Entries /\ task[w].list \ {e} \in Lists
    BY <1>1 DEF ControllerCalls, Lists
  <2>2. n \in ControllerCalls
    BY <1>1, <2>1, Retyped, TabNumber DEF CallPoints
  <2>3. Snapshot(session, e[1], e[2])
    BY <1>1 DEF CallHolds
  <2>4. CallHolds(session, n)
    BY <1>1, <2>3 DEF CallHolds, ControllerCalls, Holding
  <2>5. task' = [task EXCEPT ![w] = n]
    BY <1>3
  <2> HIDE DEF n
  <2> QED BY <1>1, <1>2, <2>2, <2>4, <2>5, ReadStep
<1>4. ASSUME NEW at \in {"context", "answer"}, task' = [task EXCEPT ![w].pc = at, ![w].id = 0, ![w].seen = NoSession]
      PROVE  WorkspaceInv'
  <2> DEFINE n == [task[w] EXCEPT !.pc = at, !.id = 0, !.seen = NoSession]
  <2>1. NoSession \in Entries
    BY NoEntry
  <2>2. n \in ControllerCalls
    BY <1>1, <2>1, Retyped, TabNumber DEF CallPoints
  <2>3. CallHolds(session, n)
    BY <1>1 DEF CallHolds, ControllerCalls, Holding
  <2>4. task' = [task EXCEPT ![w] = n]
    BY <1>4
  <2> HIDE DEF n
  <2> QED BY <1>1, <1>2, <2>2, <2>3, <2>4, ReadStep
<1>5. CASE EndCall(w)
  BY <1>1, <1>2, <1>5, Ends
<1>6. ASSUME NEW e \in task[w].list,
             task' = [task EXCEPT ![w].id = e[1], ![w].seen = e[2], ![w].list = @ \ {e},
                        ![w].pc = IF task[w].kind # "release" /\ ShowsSession(e[2].tab, e[1]) THEN "found" ELSE "clear"]
      PROVE  WorkspaceInv'
  BY <1>3, <1>6
<1> QED BY <1>4, <1>5, <1>6 DEF Probe

LEMMA StepClearTab == ASSUME WorkspaceInv, NEW w \in Workers, ClearTab(w), Still PROVE WorkspaceInv'
<1> DEFINE cleared == [task[w].seen EXCEPT !.tab = 0]
           n == [task[w] EXCEPT !.pc = "probe"]
<1>1. task[w] \in ControllerCalls /\ panel \in [Panels -> PanelStates]
  BY Typed
<1>2. cleared \in Entries /\ cleared.source = task[w].seen.source
  BY <1>1, TabNumber DEF ControllerCalls, Entries
<1>3. n \in ControllerCalls
  BY <1>1, Retyped DEF CallPoints
<1>4. CallHolds(session', task[w]) => CallHolds(session', n)
  BY <1>1 DEF CallHolds, ControllerCalls, Holding
<1>5. task[w].pc \in Holding /\ Write(task[w].id, cleared) /\ task' = [task EXCEPT ![w] = n]
  BY DEF ClearTab, CallGoto, Holding
<1>6. panel' \in [Panels -> PanelStates]
  BY <1>1, Broadcasts DEF ClearTab
<1> HIDE DEF n, cleared
<1> QED BY <1>2, <1>3, <1>4, <1>5, <1>6, WritesSeen DEF Still

LEMMA StepStatusFound == ASSUME WorkspaceInv, NEW w \in Workers, StatusFound(w), Still PROVE WorkspaceInv'
<1>1. task[w] \in ControllerCalls /\ CallHolds(session, task[w]) /\ panel \in [Panels -> PanelStates]
  BY Typed
<1>2. CallHolds(session, [task[w] EXCEPT !.pc = "answer"])
  BY <1>1 DEF CallHolds, ControllerCalls, Holding
<1>3. "answer" \in CallPoints
  BY DEF CallPoints
<1> QED BY <1>1, <1>2, <1>3, Goes DEF StatusFound, Nothing, Still

LEMMA StepAnswerStatus == ASSUME WorkspaceInv, NEW w \in Workers, AnswerStatus(w), Still PROVE WorkspaceInv'
<1>1. task[w] \in ControllerCalls /\ panel \in [Panels -> PanelStates]
  BY Typed
<1>2. task[w].seen.source \in Sources \union {NoSource}
  BY <1>1 DEF ControllerCalls, Entries
<1>3. [mounted |-> TRUE, active |-> task[w].id # 0, bound |-> task[w].seen.source] \in PanelStates
  BY <1>2 DEF PanelStates
<1>4. panel' \in [Panels -> PanelStates]
  BY <1>1, <1>3 DEF AnswerStatus
<1> QED BY <1>4, Ends DEF AnswerStatus, Nothing, Still

LEMMA StepAnswerOpen == ASSUME WorkspaceInv, NEW w \in Workers, AnswerOpen(w), Still PROVE WorkspaceInv'
<1>1. task[w] \in ControllerCalls /\ panel \in [Panels -> PanelStates]
  BY Typed
<1>2. task[w].seen.source \in Sources \union {NoSource}
  BY <1>1 DEF ControllerCalls, Entries
<1>3. \A p \in Panels : [panel[p] EXCEPT !.active = TRUE, !.bound = task[w].seen.source] \in PanelStates
  BY <1>1, <1>2 DEF PanelStates
<1>4. panel' \in [Panels -> PanelStates]
  <2>1. CASE panel' = panel
    BY <1>1, <2>1
  <2>2. CASE panel' = [panel EXCEPT ![task[w].by].active = TRUE, ![task[w].by].bound = task[w].seen.source]
    BY <1>1, <1>3, <2>2
  <2> QED BY <2>1, <2>2 DEF AnswerOpen
<1> QED BY <1>4, Ends DEF AnswerOpen, Nothing, Still

LEMMA StepActivate == ASSUME WorkspaceInv, NEW w \in Workers, Activate(w), Still PROVE WorkspaceInv'
<1> DEFINE n == [task[w] EXCEPT !.pc = "focus"]
           refreshed == [task[w].seen EXCEPT !.available = @ \/ task[w].at = task[w].seen.source]
<1>1. task[w] \in ControllerCalls /\ CallHolds(session, task[w]) /\ panel \in [Panels -> PanelStates]
  BY Typed
<1>2. task[w].seen \in Entries /\ refreshed \in Entries /\ refreshed.source = task[w].seen.source
  BY <1>1 DEF ControllerCalls, Entries
<1>3. n \in ControllerCalls
  BY <1>1, Retyped DEF CallPoints
<1>4. task[w].pc \in Holding /\ task[w].pc = "found"
  BY DEF Activate, Holding
<1>5. CallHolds(session', task[w]) => CallHolds(session', n)
  BY <1>1, <1>4 DEF CallHolds, ControllerCalls, Holding
<1>6. PICK s \in {refreshed, task[w].seen} : Write(task[w].id, s)
  BY DEF Activate
<1>7. task' = [task EXCEPT ![w] = n] /\ UNCHANGED <<view, tab, calls, panel>>
  BY DEF Activate, CallGoto, Still
<1> HIDE DEF n, refreshed
<1> QED BY <1>1, <1>2, <1>3, <1>4, <1>5, <1>6, <1>7, WritesSeen

LEMMA StepFocus == ASSUME WorkspaceInv, NEW w \in Workers, Focus(w), Still PROVE WorkspaceInv'
<1>1. task[w] \in ControllerCalls /\ CallHolds(session, task[w]) /\ panel \in [Panels -> PanelStates]
  BY Typed
<1>2. CASE Exists(task[w].seen.tab)
  <2>1. CallHolds(session, [task[w] EXCEPT !.pc = "answer"])
    BY <1>1 DEF CallHolds, ControllerCalls, Holding
  <2>2. CallGoto(w, "answer") /\ Broadcast(task[w].seen, TRUE) /\ Nothing
    BY <1>2 DEF Focus
  <2>3. panel' \in [Panels -> PanelStates]
    BY <2>2, Broadcasts
  <2>4. "answer" \in CallPoints
    BY DEF CallPoints
  <2> QED BY <2>1, <2>2, <2>3, <2>4, Goes DEF Nothing, Still
<1>3. CASE ~Exists(task[w].seen.tab)
  <2> DEFINE cleared == [task[w].seen EXCEPT !.tab = 0]
             n == [task[w] EXCEPT !.pc = "context", !.id = 0, !.seen = NoSession]
  <2>1. cleared \in Entries /\ cleared.source = task[w].seen.source
    BY <1>1, TabNumber DEF ControllerCalls, Entries
  <2>2. n \in ControllerCalls
    BY <1>1, Retyped, TabNumber, NoEntry DEF CallPoints
  <2>3. CallHolds(session', task[w]) => CallHolds(session', n)
    BY <1>1 DEF CallHolds, ControllerCalls, Holding
  <2>4. task[w].pc \in Holding /\ Write(task[w].id, cleared) /\ task' = [task EXCEPT ![w] = n] /\ UNCHANGED panel
    BY <1>3 DEF Focus, Holding
  <2> HIDE DEF n, cleared
  <2> QED BY <1>1, <2>1, <2>2, <2>3, <2>4, WritesSeen DEF Still
<1> QED BY <1>2, <1>3

LEMMA StepRequestPageContext ==
    ASSUME WorkspaceInv, NEW w \in Workers, RequestPageContext(w), Still PROVE WorkspaceInv'
<1>1. task[w] \in ControllerCalls /\ CallHolds(session, task[w]) /\ panel \in [Panels -> PanelStates]
  BY Typed
<1>2. UNCHANGED <<session, index, view, tab, calls, panel>> /\ task[w].pc = "context"
  BY DEF RequestPageContext, Nothing, Still
<1>3. CASE EndCall(w)
  BY <1>1, <1>2, <1>3, Ends
<1>4. ASSUME task[w].at # NoSource, NEW pc \in {"existing", "new"}, CallGoto(w, pc),
             pc = "existing" => task[w].seen.tab # 0
      PROVE  WorkspaceInv'
  <2>1. task[w].at \in Sources
    BY <1>1, <1>4 DEF ControllerCalls
  <2>2. pc = "existing" => Snapshot(session, task[w].id, task[w].seen)
    BY <1>1, <1>2, <1>4 DEF CallHolds, NoSession
  <2>3. CallHolds(session, [task[w] EXCEPT !.pc = pc])
    BY <1>1, <1>2, <2>1, <2>2 DEF CallHolds, ControllerCalls, Holding
  <2>4. pc \in CallPoints
    BY DEF CallPoints
  <2> QED BY <1>1, <1>2, <1>4, <2>3, <2>4, Goes
<1> QED BY <1>3, <1>4 DEF RequestPageContext

LEMMA StepFocusExisting == ASSUME WorkspaceInv, NEW w \in Workers, FocusExisting(w), Still PROVE WorkspaceInv'
<1>1. task[w] \in ControllerCalls /\ CallHolds(session, task[w]) /\ panel \in [Panels -> PanelStates]
  BY Typed
<1>2. task[w].pc = "existing" /\ UNCHANGED panel
  BY DEF FocusExisting
<1>3. CASE ShowsSession(task[w].seen.tab, task[w].id)
  <2> DEFINE s == [task[w].seen EXCEPT !.available = TRUE]
             n == [task[w] EXCEPT !.pc = "refocus"]
  <2>1. s \in Entries /\ s.source = task[w].seen.source
    BY <1>1 DEF ControllerCalls, Entries
  <2>2. n \in ControllerCalls
    BY <1>1, Retyped DEF CallPoints
  <2>3. CallHolds(session', task[w]) => CallHolds(session', n)
    BY <1>1, <1>2 DEF CallHolds, ControllerCalls, Holding
  <2>4. task[w].pc \in Holding /\ Write(task[w].id, s) /\ task' = [task EXCEPT ![w] = n]
    BY <1>3 DEF FocusExisting, Holding, CallGoto
  <2> HIDE DEF n, s
  <2> QED BY <1>1, <1>2, <2>1, <2>2, <2>3, <2>4, WritesSeen DEF Still
<1>4. CASE ~ShowsSession(task[w].seen.tab, task[w].id)
  <2>1. CallHolds(session, [task[w] EXCEPT !.pc = "new"])
    BY <1>1, <1>2 DEF CallHolds, ControllerCalls, Holding
  <2>2. "new" \in CallPoints
    BY DEF CallPoints
  <2> QED BY <1>1, <1>2, <1>4, <2>1, <2>2, Goes DEF FocusExisting, Nothing, Still
<1> QED BY <1>3, <1>4

LEMMA StepRefocus == ASSUME WorkspaceInv, NEW w \in Workers, Refocus(w), Still PROVE WorkspaceInv'
<1>1. task[w] \in ControllerCalls /\ CallHolds(session, task[w]) /\ panel \in [Panels -> PanelStates]
  BY Typed
<1>2. task[w].pc = "refocus" /\ Nothing
  BY DEF Refocus
<1>3. PICK pc \in {"answer", "new"} : CallGoto(w, pc)
  BY DEF Refocus
<1>4. CallHolds(session, [task[w] EXCEPT !.pc = pc])
  BY <1>1, <1>2 DEF CallHolds, ControllerCalls, Holding
<1>5. panel' \in [Panels -> PanelStates]
  BY <1>1, Broadcasts DEF Refocus
<1>6. pc \in CallPoints
  BY DEF CallPoints
<1> QED BY <1>2, <1>3, <1>4, <1>5, <1>6, Goes DEF Nothing, Still

LEMMA StepWriteNew == ASSUME WorkspaceInv, NEW w \in Workers, WriteNew(w), Still PROVE WorkspaceInv'
<1> DEFINE new == [source |-> task[w].at, tab |-> 0, available |-> TRUE]
<1>1. task[w] \in ControllerCalls /\ CallHolds(session, task[w]) /\ panel \in [Panels -> PanelStates]
  BY Typed
<1>2. PICK i \in (IF task[w].id # 0 THEN {task[w].id} ELSE {j \in EntryIds : Fresh(j)}) :
         Write(i, new) /\ task' = [task EXCEPT ![w].pc = "create", ![w].id = i, ![w].seen = new]
  BY DEF WriteNew
<1> DEFINE n == [task[w] EXCEPT !.pc = "create", !.id = i, !.seen = new]
<1>3. task[w].pc = "new" /\ UNCHANGED panel /\ task[w].at \in Sources
  BY <1>1 DEF WriteNew, CallHolds
<1>4. new \in Entries /\ new.source = task[w].at
  BY <1>3, TabNumber DEF Entries
<1>5. i \in EntryIds /\ (session[i].source \in Sources => session[i].source = new.source)
  <2>1. CASE task[w].id # 0
    BY <1>1, <1>2, <1>3, <1>4, <2>1 DEF CallHolds, Snapshot
  <2>2. CASE task[w].id = 0
    BY <1>2, <2>2 DEF Fresh, WorkspaceInv, EntriesHaveSource
  <2> QED BY <2>1, <2>2
<1>6. n \in ControllerCalls
  BY <1>1, <1>4, <1>5, Retyped, TabNumber DEF CallPoints
<1>7. ASSUME SourcesStay, session'[i].source = new.source PROVE CallHolds(session', n)
  <2>1. CallHolds(session', task[w])
    BY <1>1, <1>7, HoldsOn
  <2>2. Snapshot(session', i, new)
    BY <1>3, <1>4, <1>5, <1>7 DEF Snapshot
  <2> QED BY <1>1, <2>1, <2>2 DEF CallHolds, ControllerCalls, Holding
<1>8. task' = [task EXCEPT ![w] = n] /\ new.source \in Sources /\ Write(i, new)
  BY <1>2, <1>3
<1> HIDE DEF n, new
<1> QED BY <1>1, <1>3, <1>4, <1>5, <1>6, <1>7, <1>8, WriteStep DEF Still

LEMMA StepWriteOpened == ASSUME WorkspaceInv, NEW w \in Workers, WriteOpened(w), Still PROVE WorkspaceInv'
<1> DEFINE n == [task[w] EXCEPT !.pc = "show"]
<1>1. task[w] \in ControllerCalls /\ panel \in [Panels -> PanelStates] /\ task[w].seen \in Entries
  BY Typed DEF ControllerCalls
<1>2. n \in ControllerCalls
  BY <1>1, Retyped DEF CallPoints
<1>3. CallHolds(session', task[w]) => CallHolds(session', n)
  BY <1>1 DEF WriteOpened, CallHolds, ControllerCalls, Holding
<1>4. task[w].pc \in Holding /\ Write(task[w].id, task[w].seen) /\ task' = [task EXCEPT ![w] = n] /\ UNCHANGED panel
  BY DEF WriteOpened, Holding, CallGoto
<1> HIDE DEF n
<1> QED BY <1>1, <1>2, <1>3, <1>4, WritesSeen DEF Still

LEMMA StepReadForUpdate == ASSUME WorkspaceInv, NEW w \in Workers, ReadForUpdate(w), Still PROVE WorkspaceInv'
<1>1. task[w] \in ControllerCalls /\ CallHolds(session, task[w]) /\ panel \in [Panels -> PanelStates]
  BY Typed
<1>2. task[w].pc = "read" /\ task[w].id \in EntryIds /\ UNCHANGED <<session, index, view, tab, calls, panel>>
  BY <1>1 DEF ReadForUpdate, CallHolds, Nothing, Still
<1>3. CASE Stored(task[w].id) /\ session[task[w].id].tab = task[w].tab
  <2> DEFINE n == [task[w] EXCEPT !.pc = "update", !.seen = session[task[w].id]]
  <2>1. session[task[w].id] \in Entries /\ Snapshot(session, task[w].id, session[task[w].id])
    BY <1>2, <1>3, Typed DEF WorkspaceInv, EntriesHaveSource, Snapshot
  <2>2. n \in ControllerCalls
    BY <1>1, <2>1, Retyped DEF CallPoints
  <2>3. CallHolds(session, n)
    BY <1>1, <2>1 DEF CallHolds, ControllerCalls, Holding
  <2>4. task' = [task EXCEPT ![w] = n]
    BY <1>3 DEF ReadForUpdate
  <2> HIDE DEF n
  <2> QED BY <1>1, <1>2, <2>2, <2>3, <2>4, ReadStep
<1>4. CASE EndCall(w)
  BY <1>1, <1>2, <1>4, Ends
<1> QED BY <1>3, <1>4 DEF ReadForUpdate

LEMMA StepWriteUpdate == ASSUME WorkspaceInv, NEW w \in Workers, WriteUpdate(w), Still PROVE WorkspaceInv'
<1>1. task[w].seen \in Entries /\ panel \in [Panels -> PanelStates]
  BY Typed DEF ControllerCalls
<1>2. task[w].pc \in Holding /\ Write(task[w].id, task[w].seen) /\ task' = [task EXCEPT ![w] = Resting] /\ UNCHANGED panel
  BY DEF WriteUpdate, Holding, EndCall
<1> QED BY <1>1, <1>2, RestingCall, WritesSeen DEF Still

LEMMA StepMarkSourceUnavailable ==
    ASSUME WorkspaceInv, NEW w \in Workers, MarkSourceUnavailable(w), Still PROVE WorkspaceInv'
<1> DEFINE s == [task[w].seen EXCEPT !.available = FALSE]
<1>1. s \in Entries /\ s.source = task[w].seen.source /\ panel \in [Panels -> PanelStates]
  BY Typed DEF ControllerCalls, Entries
<1>2. task[w].pc \in Holding /\ Write(task[w].id, s) /\ task' = [task EXCEPT ![w] = Resting] /\ UNCHANGED panel
  BY DEF MarkSourceUnavailable, Holding, EndCall
<1> HIDE DEF s
<1> QED BY <1>1, <1>2, RestingCall, WritesSeen DEF Still

\* A step that leaves the store alone, and changes a tab.
LEMMA TabStep ==
    ASSUME WorkspaceInv, UNCHANGED <<session, index>>,
           task' = task \/ \E w \in Workers, n \in ControllerCalls : task' = [task EXCEPT ![w] = n] /\ CallHolds(session, n),
           tab' \in [Tabs -> TabStates], TabsHaveSession', view' \in [Sources -> {"scombz", "elsewhere"}],
           panel' \in [Panels -> PanelStates], calls' \in Nat
    PROVE  WorkspaceInv'
<1>1. /\ session' \in [EntryIds -> Entries] /\ index' \in [Sources -> TabNumbers]
      /\ EntriesHaveSource' /\ SourcesIndexed' /\ SourcesStay
  BY StoreKept
<1>2. task' \in [Workers -> ControllerCalls] /\ \A v \in Workers : CallHolds(session', task'[v])
  <2>1. CASE task' = task
    BY <2>1, Typed
  <2>2. CASE \E w \in Workers, n \in ControllerCalls : task' = [task EXCEPT ![w] = n] /\ CallHolds(session, n)
    <3>1. PICK w \in Workers, n \in ControllerCalls : task' = [task EXCEPT ![w] = n] /\ CallHolds(session, n)
      BY <2>2
    <3>2. CallHolds(session', n)
      BY <3>1
    <3> QED BY <1>1, <3>1, <3>2, CallsHold
  <2> QED BY <2>1, <2>2
<1>3. WorkspaceTypeOK'
  BY <1>1, <1>2 DEF WorkspaceInv, WorkspaceTypeOK, PanelStates
<1> QED BY <1>1, <1>2, <1>3 DEF WorkspaceInv

LEMMA StepCreateTab == ASSUME WorkspaceInv, NEW w \in Workers, CreateTab(w) PROVE WorkspaceInv'
<1>1. PICK t \in Tabs : /\ tab[t] = Unopened /\ tab' = [tab EXCEPT ![t].shows = "blank"]
                        /\ task' = [task EXCEPT ![w].pc = "opened", ![w].seen.tab = t]
  BY DEF CreateTab
<1> DEFINE n == [task[w] EXCEPT !.pc = "opened", !.seen.tab = t]
<1>2. task[w] \in ControllerCalls /\ CallHolds(session, task[w]) /\ panel \in [Panels -> PanelStates]
  BY Typed
<1>3. [task[w].seen EXCEPT !.tab = t] \in Entries
  BY <1>2, TabNumber DEF ControllerCalls, Entries
<1>4. [task[w] EXCEPT !.pc = "opened", !.seen = [task[w].seen EXCEPT !.tab = t]] \in ControllerCalls
  BY <1>2, <1>3, Retyped DEF CallPoints
<1>5. n = [task[w] EXCEPT !.pc = "opened", !.seen = [task[w].seen EXCEPT !.tab = t]]
  BY <1>2 DEF ControllerCalls
<1>6. CallHolds(session, n)
  BY <1>2 DEF CreateTab, CallHolds, ControllerCalls, Holding, Snapshot, Entries
<1>7. task' = [task EXCEPT ![w] = n]
  BY <1>1
<1>8. tab' \in [Tabs -> TabStates] /\ TabsHaveSession'
  BY <1>1 DEF WorkspaceInv, WorkspaceTypeOK, TabsHaveSession, TabStates, Unopened, CreateTab, Nothing
<1>9. UNCHANGED <<session, index, view, panel, calls>>
  BY DEF CreateTab, Nothing
<1> HIDE DEF n
<1> QED BY <1>2, <1>4, <1>5, <1>6, <1>7, <1>8, <1>9, TabStep DEF WorkspaceInv, WorkspaceTypeOK

LEMMA StepShowTab == ASSUME WorkspaceInv, NEW w \in Workers, ShowTab(w) PROVE WorkspaceInv'
<1>1. /\ task[w] \in ControllerCalls /\ CallHolds(session, task[w]) /\ panel \in [Panels -> PanelStates]
      /\ tab \in [Tabs -> TabStates] /\ TabsHaveSession /\ view \in [Sources -> {"scombz", "elsewhere"}] /\ calls \in Nat
  BY Typed DEF WorkspaceInv, WorkspaceTypeOK
<1>2. task[w].pc = "show" /\ UNCHANGED <<view, calls>>
  BY DEF ShowTab
<1>3. Snapshot(session, task[w].id, task[w].seen)
  BY <1>1, <1>2 DEF CallHolds, Holding
<1>4. CASE Exists(task[w].seen.tab)
  <2> DEFINE n == [task[w] EXCEPT !.pc = "answer"]
             shown == [shows |-> "loading", id |-> task[w].id]
  <2>1. /\ tab' = [tab EXCEPT ![task[w].seen.tab] = shown] /\ Nothing
        /\ CallGoto(w, "answer") /\ Broadcast(task[w].seen, TRUE)
    BY <1>4 DEF ShowTab
  <2>2. n \in ControllerCalls
    BY <1>1, Retyped DEF CallPoints
  <2>3. CallHolds(session, n)
    BY <1>1 DEF CallHolds, ControllerCalls, Holding
  <2>4. task' = [task EXCEPT ![w] = n]
    BY <2>1 DEF CallGoto
  <2>5. task[w].id \in EntryIds /\ session[task[w].id].source \in Sources /\ task[w].id # 0
    BY <1>3 DEF Snapshot, EntryIds
  <2>6. shown \in TabStates
    BY <2>5, TabNumber DEF TabStates
  <2>7. tab' \in [Tabs -> TabStates]
    BY <1>1, <2>1, <2>6
  <2>8. TabsHaveSession'
    BY <1>1, <2>1, <2>5 DEF TabsHaveSession, Nothing
  <2>9. panel' \in [Panels -> PanelStates]
    BY <2>1, Broadcasts
  <2> HIDE DEF n, shown
  <2> QED BY <1>1, <1>2, <2>1, <2>2, <2>3, <2>4, <2>7, <2>8, <2>9, TabStep DEF Nothing
<1>5. CASE ~Exists(task[w].seen.tab)
  <2> DEFINE cleared == [task[w].seen EXCEPT !.tab = 0]
  <2>1. cleared \in Entries /\ cleared.source = task[w].seen.source
    BY <1>1, TabNumber DEF ControllerCalls, Entries
  <2>2. Write(task[w].id, cleared) /\ task' = [task EXCEPT ![w] = Resting] /\ UNCHANGED <<tab, panel>>
    BY <1>5 DEF ShowTab, EndCall
  <2>3. task[w].pc \in Holding
    BY <1>2 DEF Holding
  <2> HIDE DEF cleared
  <2> QED BY <1>1, <1>2, <2>1, <2>2, <2>3, RestingCall, WritesSeen
<1> QED BY <1>4, <1>5

LEMMA StepProceed == ASSUME WorkspaceInv, NEW w \in Workers, Proceed(w) PROVE WorkspaceInv'
  BY StepCurrentScombzTab, StepForSourceTab, StepReadEntry, StepReadStoredSessions, StepProbe, StepClearTab,
     StepStatusFound, StepAnswerStatus, StepActivate, StepFocus, StepRequestPageContext, StepFocusExisting,
     StepRefocus, StepWriteNew, StepWriteOpened, StepAnswerOpen, StepReadForUpdate, StepWriteUpdate,
     StepMarkSourceUnavailable, StepCreateTab, StepShowTab DEF Proceed, Still

-----------------------------------------------------------------------------
(* Calls and events *)

\* A call starts with nothing seen.
LEMMA Starts ==
    ASSUME WorkspaceInv, NEW w \in Workers, NEW n \in ControllerCalls, Start(w, n), CallHolds(session, n),
           UNCHANGED <<session, index>>, tab' \in [Tabs -> TabStates], TabsHaveSession',
           view' \in [Sources -> {"scombz", "elsewhere"}], panel' \in [Panels -> PanelStates]
    PROVE  WorkspaceInv'
<1>1. task' = [task EXCEPT ![w] = n] /\ calls' \in Nat
  BY DEF Start, WorkspaceInv, WorkspaceTypeOK
<1> QED BY <1>1, TabStep

LEMMA BrowserTyped == WorkspaceInv =>
    /\ tab \in [Tabs -> TabStates] /\ TabsHaveSession /\ view \in [Sources -> {"scombz", "elsewhere"}] /\ calls \in Nat
    /\ panel \in [Panels -> PanelStates]
  BY DEF WorkspaceInv, WorkspaceTypeOK, PanelStates

LEMMA UnmountedPanel == [mounted |-> FALSE, active |-> FALSE, bound |-> NoSource] \in PanelStates
                        /\ [mounted |-> TRUE, active |-> FALSE, bound |-> NoSource] \in PanelStates
  BY DEF PanelStates

LEMMA TabsStay == ASSUME WorkspaceInv, UNCHANGED <<session, tab>> PROVE TabsHaveSession' /\ tab' \in [Tabs -> TabStates]
  BY BrowserTyped DEF TabsHaveSession

LEMMA StepMount == ASSUME WorkspaceInv, NEW w \in Workers, NEW p \in Panels, Mount(w, p) PROVE WorkspaceInv'
<1> DEFINE n == [Resting EXCEPT !.kind = "status", !.pc = "list", !.by = p]
<1>1. n \in ControllerCalls /\ CallHolds(session, n)
  BY RestingCall DEF Resting, ControllerCalls, CallKinds, CallPoints, CallHolds, Holding
<1>2. Start(w, n) /\ UNCHANGED <<session, index, view, tab>>
  BY DEF Mount
<1>3. panel' \in [Panels -> PanelStates]
  BY UnmountedPanel, BrowserTyped DEF Mount
<1> HIDE DEF n
<1> QED BY <1>1, <1>2, <1>3, Starts, TabsStay, BrowserTyped

LEMMA StepOpenWorkspace ==
    ASSUME WorkspaceInv, NEW w \in Workers, NEW p \in Panels, OpenWorkspace(w, p) PROVE WorkspaceInv'
<1> DEFINE n == [Resting EXCEPT !.kind = "open", !.pc = "query", !.by = p]
<1>1. n \in ControllerCalls /\ CallHolds(session, n)
  BY RestingCall DEF Resting, ControllerCalls, CallKinds, CallPoints, CallHolds, Holding
<1>2. Start(w, n) /\ UNCHANGED <<session, index, view, tab, panel>>
  BY DEF OpenWorkspace
<1> HIDE DEF n
<1> QED BY <1>1, <1>2, Starts, TabsStay, BrowserTyped

LEMMA StepUpdateSession ==
    ASSUME WorkspaceInv, NEW w \in Workers, NEW t \in Tabs, UpdateSession(w, t) PROVE WorkspaceInv'
<1> DEFINE n == [Resting EXCEPT !.kind = "update", !.pc = "read", !.tab = t, !.id = tab[t].id]
<1>1. tab[t].id \in TabNumbers /\ tab[t].id \in EntryIds /\ t \in TabNumbers
  BY BrowserTyped, TabNumber DEF UpdateSession, TabsHaveSession, TabStates, EntryIds, TabNumbers
<1>2. n \in ControllerCalls /\ CallHolds(session, n)
  BY <1>1, RestingCall DEF Resting, ControllerCalls, CallKinds, CallPoints, CallHolds, Holding
<1>3. Start(w, n) /\ UNCHANGED <<session, index, view, tab, panel>>
  BY DEF UpdateSession
<1> HIDE DEF n
<1> QED BY <1>2, <1>3, Starts, TabsStay, BrowserTyped

LEMMA StepCloseTab ==
    ASSUME WorkspaceInv, NEW w \in Workers, NEW t \in Tabs, CloseTab(w, t) PROVE WorkspaceInv'
<1> DEFINE n == [Resting EXCEPT !.kind = "release", !.pc = "list", !.tab = t]
<1>1. n \in ControllerCalls /\ CallHolds(session, n)
  BY RestingCall, TabNumber DEF Resting, ControllerCalls, CallKinds, CallPoints, CallHolds, Holding
<1>2. Start(w, n) /\ UNCHANGED <<session, index, view, panel>>
  BY DEF CloseTab
<1>3. tab' = [tab EXCEPT ![t] = [shows |-> "closed", id |-> 0]]
  BY DEF CloseTab
<1>4. tab' \in [Tabs -> TabStates]
  BY <1>3, BrowserTyped, TabNumber DEF TabStates
<1>5. TabsHaveSession'
  BY <1>2, <1>3, BrowserTyped DEF TabsHaveSession
<1> HIDE DEF n
<1> QED BY <1>1, <1>2, <1>4, <1>5, Starts, BrowserTyped

LEMMA StepLeaveSource ==
    ASSUME WorkspaceInv, NEW w \in Workers, NEW s \in Sources, LeaveSource(w, s) PROVE WorkspaceInv'
<1> DEFINE n == [Resting EXCEPT !.kind = "gone", !.pc = "index", !.at = s]
<1>1. n \in ControllerCalls /\ CallHolds(session, n)
  BY RestingCall DEF Resting, ControllerCalls, CallKinds, CallPoints, CallHolds, Holding
<1>2. Start(w, n) /\ UNCHANGED <<session, index, tab, panel>> /\ view' \in [Sources -> {"scombz", "elsewhere"}]
  BY BrowserTyped DEF LeaveSource
<1> HIDE DEF n
<1> QED BY <1>1, <1>2, Starts, TabsStay, BrowserTyped

LEMMA StepBrowser ==
    ASSUME WorkspaceInv, (\E t \in Tabs : Commit(t) \/ Navigate(t)) \/ (\E s \in Sources : ReturnToScombz(s))
                         \/ (\E p \in Panels : Unmount(p))
    PROVE  WorkspaceInv'
<1>1. ASSUME NEW t \in Tabs, Commit(t) PROVE WorkspaceInv'
  <2>1. tab' \in [Tabs -> TabStates] /\ TabsHaveSession'
    BY <1>1, BrowserTyped DEF Commit, TabsHaveSession, TabStates
  <2> QED BY <1>1, <2>1, TabStep, BrowserTyped DEF Commit
<1>2. ASSUME NEW t \in Tabs, Navigate(t) PROVE WorkspaceInv'
  <2>1. tab' \in [Tabs -> TabStates] /\ TabsHaveSession'
    BY <1>2, BrowserTyped, TabNumber DEF Navigate, TabsHaveSession, TabStates
  <2> QED BY <1>2, <2>1, TabStep, BrowserTyped DEF Navigate
<1>3. ASSUME NEW s \in Sources, ReturnToScombz(s) PROVE WorkspaceInv'
  BY <1>3, TabStep, TabsStay, BrowserTyped DEF ReturnToScombz
<1>4. ASSUME NEW p \in Panels, Unmount(p) PROVE WorkspaceInv'
  <2>1. panel' \in [Panels -> PanelStates]
    BY <1>4, BrowserTyped, UnmountedPanel DEF Unmount
  <2> QED BY <1>4, <2>1, TabStep, TabsStay, BrowserTyped DEF Unmount
<1> QED BY <1>1, <1>2, <1>3, <1>4

LEMMA StepSuspend == ASSUME WorkspaceInv, Suspend PROVE WorkspaceInv'
<1>1. task' = [w \in Workers |-> Resting] /\ UNCHANGED <<session, index, view, tab, panel, calls>>
  BY DEF Suspend
<1>2. task' \in [Workers -> ControllerCalls] /\ \A w \in Workers : CallHolds(session', task'[w])
  BY <1>1, RestingCall
<1>3. WorkspaceTypeOK' /\ TabsHaveSession'
  BY <1>1, <1>2, TabsStay DEF WorkspaceInv, WorkspaceTypeOK
<1> QED BY <1>1, <1>2, <1>3, StoreKept DEF WorkspaceInv

LEMMA WorkspaceInvariant == WorkspaceSpec => []WorkspaceInv
<1>1. ASSUME WorkspaceInv, [WorkspaceNext]_workspaceVars PROVE WorkspaceInv'
  <2>1. CASE WorkspaceNext
    BY <1>1, <2>1, StepProceed, StepMount, StepOpenWorkspace, StepUpdateSession, StepCloseTab, StepLeaveSource,
       StepBrowser, StepSuspend DEF WorkspaceNext
  <2>2. CASE UNCHANGED workspaceVars
    BY <1>1, <2>2, TabStep, TabsStay, BrowserTyped DEF workspaceVars
  <2> QED BY <1>1, <2>1, <2>2
<1> QED BY <1>1, WorkspaceInitial, PTL DEF WorkspaceSpec

-----------------------------------------------------------------------------
(* The theorems *)

\* The variables of the workspace controller keep their types.
THEOREM WorkspaceTypeCorrect == WorkspaceSpec => []WorkspaceTypeOK
<1>1. WorkspaceInv => WorkspaceTypeOK
  BY DEF WorkspaceInv
<1> QED BY <1>1, WorkspaceInvariant, PTL

\* However many calls interleave, and whenever the worker is stopped: a workspace
\* tab finds the session it was opened for, no entry changes its source, and a
\* source tab leads to a session of its own.
THEOREM SourcesKept == WorkspaceSpec => []WorkspaceKeepsSource
<1>1. ASSUME WorkspaceInv PROVE WorkspaceKeepsSource
  <2>1. \A t \in Tabs : tab[t].id # 0 => Stored(tab[t].id)
    <3> SUFFICES ASSUME NEW t \in Tabs, tab[t].id # 0 PROVE Stored(tab[t].id)
      OBVIOUS
    <3>1. tab[t].id \in EntryIds
      BY <1>1, BrowserTyped DEF TabStates, TabNumbers, EntryIds
    <3> QED BY <1>1, <3>1 DEF WorkspaceInv, TabsHaveSession, EntriesHaveSource
  <2>2. \A i \in EntryIds : Stored(i) => index[session[i].source] # 0
    BY <1>1 DEF WorkspaceInv, EntriesHaveSource, SourcesIndexed
  <2> QED BY <1>1, <2>1, <2>2 DEF WorkspaceKeepsSource, WorkspaceInv, SourcesIndexed
<1> QED BY <1>1, WorkspaceInvariant, PTL

(***************************************************************************)
(* Sign-in (SignIn)                                                        *)
(***************************************************************************)

PCs == {"idle", "mark", "provide", "read", "prompt", "exchange", "keep", "send", "sent", "answered", "refused"}
RequestRecord ==
    [pc : PCs, for : {"api", "start", "complete"}, page : Pages \union {"none"}, force : BOOLEAN,
     token : Nat, stopped : BOOLEAN, effects : Nat]
Screens == {"needs_start", "awaiting_user", "ready", "error"}

SignInTypeOK ==
    /\ memory \in [Pages -> Nat] /\ kept \in Nat
    /\ sessions \in [issued : Nat, good : SUBSET Nat, aged : SUBSET Nat]
    /\ request \in [ApiRequests -> RequestRecord]
    /\ setup \in {"none", "started", "completed"}
    /\ screen \in [Pages -> Screens]
    /\ started \in Nat

\* What is true of one request while n sessions have been issued.
AsAnswered(q) == q.effects = IF q.pc = "answered" THEN 1 ELSE 0
WithSession(q, n) == q.pc \in {"keep", "send", "sent", "answered", "refused"} => q.token \in 1..n
OfPage(q) == q.pc # "idle" => q.page \in Pages
Sound(q, n) == AsAnswered(q) /\ WithSession(q, n) /\ OfPage(q)

Known == (\A p \in Pages : memory[p] <= sessions.issued) /\ kept <= sessions.issued

SignInInv == SignInTypeOK /\ Known /\ \A r \in ApiRequests : Sound(request[r], sessions.issued)

-----------------------------------------------------------------------------
\* One request is replaced by one that is sound; the others stay so, as sessions are only added.
LEMMA OneReplaced ==
    ASSUME SignInInv, NEW r \in ApiRequests, NEW q \in RequestRecord,
           request' = [request EXCEPT ![r] = q],
           sessions'.issued \in Nat, sessions'.issued >= sessions.issued, Sound(q, sessions'.issued)
    PROVE  /\ request' \in [ApiRequests -> RequestRecord]
           /\ \A s \in ApiRequests : Sound(request'[s], sessions'.issued)
<1>1. sessions.issued \in Nat /\ request \in [ApiRequests -> RequestRecord]
  BY DEF SignInInv, SignInTypeOK
<1>2. request' \in [ApiRequests -> RequestRecord]
  BY <1>1
<1>3. ASSUME NEW s \in ApiRequests PROVE Sound(request'[s], sessions'.issued)
  <2>1. CASE s = r
    BY <1>1, <2>1
  <2>2. CASE s # r
    <3>1. request'[s] = request[s] /\ Sound(request[s], sessions.issued)
      BY <1>1, <2>2 DEF SignInInv
    <3>2. WithSession(request[s], sessions.issued) => WithSession(request[s], sessions'.issued)
      BY <1>1 DEF WithSession
    <3> QED BY <3>1, <3>2 DEF Sound
  <2> QED BY <2>1, <2>2
<1> QED BY <1>2, <1>3

\* A request goes on or ends, and no session is issued or found.
LEMMA Changes ==
    ASSUME SignInInv, NEW r \in ApiRequests, NEW q \in RequestRecord,
           request' = [request EXCEPT ![r] = q], Sound(q, sessions.issued),
           UNCHANGED <<memory, kept, sessions, started>>,
           setup' \in {"none", "started", "completed"}, screen' \in [Pages -> Screens]
    PROVE  SignInInv'
<1>1. sessions'.issued \in Nat /\ sessions'.issued >= sessions.issued /\ sessions'.issued = sessions.issued
  BY DEF SignInInv, SignInTypeOK
<1>2. /\ request' \in [ApiRequests -> RequestRecord]
      /\ \A s \in ApiRequests : Sound(request'[s], sessions'.issued)
  BY <1>1, OneReplaced
<1> QED BY <1>1, <1>2 DEF SignInInv, SignInTypeOK, Known

\* The record of a request at another place, and of one that is over.
LEMMA Placed ==
    ASSUME SignInInv, NEW r \in ApiRequests, NEW pc \in PCs, RequestAt(r, pc)
    PROVE  /\ request' = [request EXCEPT ![r] = [request[r] EXCEPT !.pc = pc]]
           /\ [request[r] EXCEPT !.pc = pc] \in RequestRecord
BY DEF SignInInv, SignInTypeOK, RequestAt, RequestRecord

LEMMA Over ==
    ASSUME SignInInv, NEW r \in ApiRequests
    PROVE  NoRequest \in RequestRecord /\ Sound(NoRequest, sessions.issued)
BY DEF SignInInv, SignInTypeOK, NoRequest, RequestRecord, Sound, AsAnswered, WithSession, OfPage, PCs

LEMMA GiveKeeps ==
    ASSUME SignInInv, NEW r \in ApiRequests, Give(r), setup' \in {"none", "started", "completed"},
           UNCHANGED <<memory, kept, sessions, started>>
    PROVE  SignInInv'
<1>1. screen' \in [Pages -> Screens]
  BY DEF SignInInv, SignInTypeOK, Give, Screens
<1> QED BY <1>1, Over, Changes DEF Give, End

\* A request goes on to another place, where what it has told stays right.
LEMMA PlacedKeeps ==
    ASSUME SignInInv, NEW r \in ApiRequests, NEW pc \in PCs, RequestAt(r, pc),
           Sound([request[r] EXCEPT !.pc = pc], sessions.issued),
           UNCHANGED <<memory, kept, sessions, started, screen>>, setup' \in {"none", "started", "completed"}
    PROVE  SignInInv'
<1>1. screen' \in [Pages -> Screens]
  BY DEF SignInInv, SignInTypeOK
<1>2. /\ request' = [request EXCEPT ![r] = [request[r] EXCEPT !.pc = pc]]
      /\ [request[r] EXCEPT !.pc = pc] \in RequestRecord
  BY Placed
<1> QED BY <1>1, <1>2, Changes

\* What is known of a request before its step.
LEMMA Before ==
    ASSUME SignInInv, NEW r \in ApiRequests
    PROVE  /\ request[r] \in RequestRecord /\ AsAnswered(request[r])
           /\ WithSession(request[r], sessions.issued) /\ OfPage(request[r])
           /\ sessions.issued \in Nat /\ setup \in {"none", "started", "completed"} /\ screen \in [Pages -> Screens]
BY DEF SignInInv, SignInTypeOK, Sound

\* A record whose place, session and count fit each other is sound.
LEMMA Fits ==
    ASSUME NEW q \in RequestRecord, NEW n \in Nat,
           (q.pc \notin {"idle", "answered"} /\ q.effects = 0) \/ (q.pc = "answered" /\ q.effects = 1),
           q.page \in Pages, q.token \in 1..n
    PROVE  Sound(q, n)
BY DEF Sound, AsAnswered, WithSession, OfPage

-----------------------------------------------------------------------------
(* The provider *)

LEMMA MakeKeeps ==
    ASSUME SignInInv, NEW r \in ApiRequests, NEW p \in Pages, NEW for \in {"api", "start", "complete"}, Make(r, p, for)
    PROVE  SignInInv'
<1> DEFINE q == [NoRequest EXCEPT !.pc = IF for = "start" THEN "mark" ELSE "provide", !.for = for, !.page = p]
<1>1. q \in RequestRecord /\ Sound(q, sessions.issued)
  BY DEF NoRequest, RequestRecord, PCs, Sound, AsAnswered, WithSession, OfPage
<1>2. request' = [request EXCEPT ![r] = q]
  BY DEF Make
<1> HIDE DEF q
<1>3. sessions'.issued \in Nat /\ sessions'.issued >= sessions.issued /\ sessions'.issued = sessions.issued
  BY Before DEF Make
<1>4. /\ request' \in [ApiRequests -> RequestRecord]
      /\ \A s \in ApiRequests : Sound(request'[s], sessions'.issued)
  BY <1>1, <1>2, <1>3, OneReplaced
<1> QED BY <1>3, <1>4 DEF SignInInv, SignInTypeOK, Known, Make

LEMMA ProvideKeeps ==
    ASSUME SignInInv, NEW r \in ApiRequests, Provide(r)
    PROVE  SignInInv'
<1> DEFINE q == request[r]
<1>1. q \in RequestRecord /\ q.pc = "provide" /\ q.effects = 0 /\ q.page \in Pages
  BY Before DEF Provide, AsAnswered, OfPage
<1>2. UNCHANGED <<memory, kept, sessions, started, setup>>
  BY DEF Provide
<1>3. CASE Give(r)
  BY <1>2, <1>3, Before, GiveKeeps
<1>4. CASE q.force /\ request' = [request EXCEPT ![r] = [q EXCEPT !.pc = "prompt"]] /\ UNCHANGED screen
  <2>1. [q EXCEPT !.pc = "prompt"] \in RequestRecord /\ Sound([q EXCEPT !.pc = "prompt"], sessions.issued)
    BY <1>1 DEF RequestRecord, PCs, Sound, AsAnswered, WithSession, OfPage
  <2> QED BY <1>2, <1>4, <2>1, Before, Changes
<1>5. CASE /\ Usable(memory[q.page])
           /\ request' = [request EXCEPT ![r] = [q EXCEPT !.pc = "send", !.token = memory[q.page]]]
           /\ UNCHANGED screen
  <2>1. memory[q.page] \in 1..sessions.issued
    BY <1>1, <1>5 DEF Usable, SignInInv, SignInTypeOK, Known
  <2> DEFINE n == [q EXCEPT !.pc = "send", !.token = memory[q.page]]
  <2>2. n \in RequestRecord /\ Sound(n, sessions.issued)
    <3>1. memory[q.page] \in Nat /\ sessions.issued \in Nat
      BY <2>1, Before
    <3>2. n \in RequestRecord /\ n.pc = "send" /\ n.effects = 0 /\ n.page \in Pages /\ n.token = memory[q.page]
      BY <1>1, <3>1 DEF RequestRecord, PCs
    <3> HIDE DEF n
    <3> QED BY <2>1, <3>1, <3>2, Fits
  <2> HIDE DEF n
  <2>3. request' = [request EXCEPT ![r] = n]
    BY <1>5 DEF n
  <2> QED BY <1>2, <1>5, <2>2, <2>3, Before, Changes
<1>6. CASE request' = [request EXCEPT ![r] = [q EXCEPT !.pc = "read"]] /\ UNCHANGED screen
  <2>1. [q EXCEPT !.pc = "read"] \in RequestRecord /\ Sound([q EXCEPT !.pc = "read"], sessions.issued)
    BY <1>1 DEF RequestRecord, PCs, Sound, AsAnswered, WithSession, OfPage
  <2> QED BY <1>2, <1>6, <2>1, Before, Changes
<1> QED BY <1>3, <1>4, <1>5, <1>6 DEF Provide

LEMMA ReadStoredKeeps ==
    ASSUME SignInInv, NEW r \in ApiRequests, ReadStored(r)
    PROVE  SignInInv'
<1> DEFINE q == request[r]
<1>1. q \in RequestRecord /\ q.pc = "read" /\ q.effects = 0 /\ q.page \in Pages
  BY Before DEF ReadStored, AsAnswered, OfPage
<1>2. UNCHANGED <<kept, sessions, started, setup, screen>>
  BY DEF ReadStored
<1>3. CASE /\ Usable(kept)
           /\ memory' = [memory EXCEPT ![q.page] = kept]
           /\ request' = [request EXCEPT ![r] = [q EXCEPT !.pc = "send", !.token = kept]]
  <2> DEFINE n == [q EXCEPT !.pc = "send", !.token = kept]
  <2>1. kept \in 1..sessions.issued
    BY <1>3 DEF Usable, SignInInv, SignInTypeOK, Known
  <2>2. n \in RequestRecord /\ Sound(n, sessions.issued)
    <3>1. kept \in Nat /\ sessions.issued \in Nat
      BY <2>1, Before
    <3>2. n \in RequestRecord /\ n.pc = "send" /\ n.effects = 0 /\ n.page \in Pages /\ n.token = kept
      BY <1>1, <3>1 DEF RequestRecord, PCs
    <3> HIDE DEF n
    <3> QED BY <2>1, <3>1, <3>2, Fits
  <2>3. request' = [request EXCEPT ![r] = n]
    BY <1>3
  <2> HIDE DEF n
  <2>4. /\ request' \in [ApiRequests -> RequestRecord]
        /\ \A s \in ApiRequests : Sound(request'[s], sessions'.issued)
    <3>1. sessions'.issued \in Nat /\ sessions'.issued >= sessions.issued /\ sessions' = sessions
      BY <1>2, Before
    <3> QED BY <2>2, <2>3, <3>1, OneReplaced
  <2>5. memory' \in [Pages -> Nat] /\ \A p \in Pages : memory'[p] <= sessions.issued
    BY <1>3, <2>1 DEF SignInInv, SignInTypeOK, Known
  <2> QED BY <1>2, <2>4, <2>5 DEF SignInInv, SignInTypeOK, Known
<1>4. CASE RequestAt(r, "prompt") /\ UNCHANGED memory
  <2>1. Sound([q EXCEPT !.pc = "prompt"], sessions.issued) /\ "prompt" \in PCs
    BY <1>1 DEF RequestRecord, PCs, Sound, AsAnswered, WithSession, OfPage
  <2> QED BY <1>2, <1>4, <2>1, Before, PlacedKeeps
<1> QED BY <1>3, <1>4 DEF ReadStored

LEMMA CreateSessionKeeps ==
    ASSUME SignInInv, NEW r \in ApiRequests, CreateSession(r)
    PROVE  SignInInv'
<1> DEFINE q == request[r]
           s == sessions.issued + 1
           n == [q EXCEPT !.pc = "keep", !.token = s]
<1>1. q \in RequestRecord /\ q.pc = "exchange" /\ q.effects = 0 /\ q.page \in Pages
  BY Before DEF CreateSession, AsAnswered, OfPage
<1>2. UNCHANGED <<kept, setup, started>>
  BY DEF CreateSession
<1>3. CASE Give(r) /\ UNCHANGED <<sessions, memory>>
  BY <1>2, <1>3, Before, GiveKeeps
<1>4. CASE /\ sessions' = [sessions EXCEPT !.issued = s, !.good = @ \union {s}]
           /\ memory' = [memory EXCEPT ![q.page] = s]
           /\ request' = [request EXCEPT ![r].pc = "keep", ![r].token = s]
           /\ UNCHANGED screen
  <2>1. sessions \in [issued : Nat, good : SUBSET Nat, aged : SUBSET Nat] /\ s \in Nat
    BY DEF SignInInv, SignInTypeOK
  <2>2. sessions' \in [issued : Nat, good : SUBSET Nat, aged : SUBSET Nat] /\ sessions'.issued = s
    BY <1>4, <2>1
  <2>3. n \in RequestRecord /\ Sound(n, s)
    <3>1. n \in RequestRecord /\ n.pc = "keep" /\ n.effects = 0 /\ n.page \in Pages /\ n.token = s
      BY <1>1, <2>1 DEF RequestRecord, PCs
    <3>2. s \in 1..s
      BY <2>1
    <3> HIDE DEF n, s
    <3> QED BY <2>1, <3>1, <3>2, Fits
  <2>4. request' = [request EXCEPT ![r] = n]
    BY <1>1, <1>4 DEF SignInInv, SignInTypeOK, RequestRecord
  <2>5. sessions'.issued \in Nat /\ sessions'.issued >= sessions.issued
    BY <2>1, <2>2
  <2> HIDE DEF n
  <2>6. /\ request' \in [ApiRequests -> RequestRecord]
        /\ \A t \in ApiRequests : Sound(request'[t], sessions'.issued)
    BY <2>2, <2>3, <2>4, <2>5, OneReplaced
  <2>7. memory' \in [Pages -> Nat] /\ \A p \in Pages : memory'[p] <= s
    <3>1. sessions.issued \in Nat /\ memory \in [Pages -> Nat] /\ \A p \in Pages : memory[p] <= sessions.issued
      BY <2>1 DEF SignInInv, SignInTypeOK, Known
    <3>2. s \in Nat /\ s >= sessions.issued
      BY <3>1
    <3>3. memory' = [memory EXCEPT ![q.page] = s]
      BY <1>4
    <3> HIDE DEF s
    <3>4. memory' \in [Pages -> Nat]
      BY <3>1, <3>2, <3>3
    <3>5. ASSUME NEW p \in Pages PROVE memory'[p] <= s
      BY <3>1, <3>2, <3>3
    <3> QED BY <3>4, <3>5
  <2> QED BY <1>2, <1>4, <2>1, <2>2, <2>6, <2>7 DEF SignInInv, SignInTypeOK, Known
<1> QED BY <1>3, <1>4 DEF CreateSession

LEMMA WriteStoredKeeps ==
    ASSUME SignInInv, NEW r \in ApiRequests, WriteStored(r)
    PROVE  SignInInv'
<1> DEFINE n == [request[r] EXCEPT !.pc = "send"]
<1>1. request[r].token \in 1..sessions.issued
  BY Before DEF WriteStored, WithSession
<1>2. "send" \in PCs /\ Sound(n, sessions.issued)
  BY <1>1, Before DEF WriteStored, RequestRecord, PCs, Sound, AsAnswered, WithSession, OfPage
<1>3. request' = [request EXCEPT ![r] = n] /\ n \in RequestRecord
  BY <1>2, Placed DEF WriteStored
<1>4. sessions'.issued \in Nat /\ sessions'.issued >= sessions.issued /\ sessions' = sessions
  BY Before DEF WriteStored
<1> HIDE DEF n
<1>5. /\ request' \in [ApiRequests -> RequestRecord]
      /\ \A t \in ApiRequests : Sound(request'[t], sessions'.issued)
  BY <1>2, <1>3, <1>4, OneReplaced
<1>6. kept' \in Nat /\ kept' <= sessions.issued
  BY <1>1, Before DEF WriteStored
<1> QED BY <1>4, <1>5, <1>6 DEF SignInInv, SignInTypeOK, Known, WriteStored

-----------------------------------------------------------------------------
(* The request, the setup and the rest *)

\* The steps that move a request to another place or end it.
LEMMA SmallStepsKeep ==
    ASSUME SignInInv, NEW r \in ApiRequests,
           \/ RequestAuthorizationCode(r) \/ SendRequest(r) \/ Lose(r) \/ AnswerRequest(r)
           \/ MarkStarted(r) \/ OpenCampusLoginTabs(r) \/ MarkCompleted(r)
    PROVE  SignInInv'
<1> DEFINE q == request[r]
<1>1. UNCHANGED <<memory, kept, sessions, started>> /\ setup' \in {"none", "started", "completed"}
  BY Before DEF RequestAuthorizationCode, SendRequest, Lose, AnswerRequest, MarkStarted, OpenCampusLoginTabs, MarkCompleted
<1>2. CASE Give(r)
  BY <1>1, <1>2, GiveKeeps
<1>3. CASE End(r) /\ screen' \in [Pages -> Screens]
  BY <1>1, <1>3, Over, Changes DEF End
<1>4. CASE /\ UNCHANGED screen
           /\ \/ q.pc = "prompt" /\ RequestAt(r, "exchange")
              \/ q.pc = "send" /\ RequestAt(r, "sent")
              \/ q.pc = "mark" /\ RequestAt(r, "provide")
  <2>1. PICK pc \in {"exchange", "sent", "provide"} :
            RequestAt(r, pc) /\ q.pc \in {"prompt", "send", "mark"} /\ (pc = "sent" => q.pc = "send")
    BY <1>4
  <2>2. pc \in PCs /\ Sound([q EXCEPT !.pc = pc], sessions.issued)
    BY <2>1, Before DEF RequestRecord, PCs, Sound, AsAnswered, WithSession, OfPage
  <2> QED BY <1>1, <1>4, <2>1, <2>2, PlacedKeeps
<1>5. ASSUME NEW p, screen' = [screen EXCEPT ![p] = "awaiting_user"] \/ screen' = [screen EXCEPT ![p] = "ready"]
      PROVE  screen' \in [Pages -> Screens]
  BY <1>5, Before DEF Screens
<1>6. UNCHANGED screen => screen' \in [Pages -> Screens]
  BY Before
<1> QED BY <1>2, <1>3, <1>4, <1>5, <1>6
        DEF RequestAuthorizationCode, SendRequest, Lose, AnswerRequest, MarkStarted, OpenCampusLoginTabs, MarkCompleted

LEMMA ServeKeeps ==
    ASSUME SignInInv, NEW r \in ApiRequests, Serve(r)
    PROVE  SignInInv'
<1> DEFINE q == request[r]
           n == [q EXCEPT !.effects = 1, !.pc = "answered"]
<1>1. q \in RequestRecord /\ q.pc = "sent" /\ q.effects = 0 /\ q.token \in 1..sessions.issued /\ q.page \in Pages
  BY Before DEF Serve, AsAnswered, WithSession, OfPage
<1>2. UNCHANGED <<memory, kept, sessions, setup, screen, started>>
  BY DEF Serve
<1>3. CASE request' = [request EXCEPT ![r].effects = @ + 1, ![r].pc = "answered"]
  <2>1. n \in RequestRecord /\ Sound(n, sessions.issued)
    <3>1. n \in RequestRecord /\ n.pc = "answered" /\ n.effects = 1 /\ n.page \in Pages /\ n.token = q.token
      BY <1>1 DEF RequestRecord, PCs
    <3>2. sessions.issued \in Nat
      BY Before
    <3> HIDE DEF n
    <3> QED BY <1>1, <3>1, <3>2, Fits
  <2>2. request' = [request EXCEPT ![r] = n]
    BY <1>1, <1>3 DEF SignInInv, SignInTypeOK, RequestRecord
  <2> HIDE DEF n
  <2> QED BY <1>2, <2>1, <2>2, Before, Changes
<1>4. CASE RequestAt(r, "refused")
  <2>1. "refused" \in PCs /\ Sound([q EXCEPT !.pc = "refused"], sessions.issued)
    BY <1>1 DEF RequestRecord, PCs, Sound, AsAnswered, WithSession, OfPage
  <2> QED BY <1>2, <1>4, <2>1, Before, PlacedKeeps
<1> QED BY <1>3, <1>4 DEF Serve

LEMMA RetryKeeps ==
    ASSUME SignInInv, NEW r \in ApiRequests, Retry(r)
    PROVE  SignInInv'
<1> DEFINE q == request[r]
           n == [q EXCEPT !.pc = "provide", !.force = TRUE]
<1>1. q \in RequestRecord /\ q.pc = "refused" /\ q.effects = 0 /\ q.page \in Pages
  BY Before DEF Retry, AsAnswered, OfPage
<1>2. UNCHANGED <<memory, kept, sessions, setup, started>>
  BY DEF Retry
<1>3. CASE Give(r)
  BY <1>2, <1>3, Before, GiveKeeps
<1>4. CASE request' = [request EXCEPT ![r].pc = "provide", ![r].force = TRUE] /\ UNCHANGED screen
  <2>1. n \in RequestRecord /\ Sound(n, sessions.issued)
    BY <1>1, Before DEF RequestRecord, PCs, Sound, AsAnswered, WithSession, OfPage
  <2>2. request' = [request EXCEPT ![r] = n]
    BY <1>1, <1>4 DEF SignInInv, SignInTypeOK, RequestRecord
  <2> HIDE DEF n
  <2> QED BY <1>2, <1>4, <2>1, <2>2, Before, Changes
<1> QED BY <1>3, <1>4 DEF Retry

LEMMA StopKeeps ==
    ASSUME SignInInv, NEW r \in ApiRequests, StopRequest(r)
    PROVE  SignInInv'
<1> DEFINE n == [request[r] EXCEPT !.stopped = TRUE]
<1>1. n \in RequestRecord /\ Sound(n, sessions.issued)
  BY Before DEF RequestRecord, PCs, Sound, AsAnswered, WithSession, OfPage
<1>2. request' = [request EXCEPT ![r] = n]
  BY Before DEF StopRequest, SignInInv, SignInTypeOK, RequestRecord
<1> HIDE DEF n
<1> QED BY <1>1, <1>2, Before, Changes DEF StopRequest

LEMMA OpenPageKeeps ==
    ASSUME SignInInv, NEW p \in Pages, OpenPage(p)
    PROVE  SignInInv'
<1>1. memory' \in [Pages -> Nat] /\ \A t \in Pages : memory'[t] <= sessions.issued
  BY DEF OpenPage, SignInInv, SignInTypeOK, Known
<1>2. \A r \in ApiRequests : request'[r] \in RequestRecord /\ Sound(request'[r], sessions.issued)
  BY Over, Before DEF OpenPage, Sound
<1>3. request' \in [ApiRequests -> RequestRecord]
  BY <1>2 DEF OpenPage
<1>4. screen' \in [Pages -> Screens]
  <2> DEFINE shown == CASE setup = "completed" -> "ready"
                        [] setup = "started" -> "awaiting_user"
                        [] OTHER -> "needs_start"
  <2>1. shown \in Screens
    BY DEF Screens
  <2>2. screen' = [screen EXCEPT ![p] = shown]
    BY DEF OpenPage
  <2> HIDE DEF shown
  <2>3. screen \in [Pages -> Screens]
    BY DEF SignInInv, SignInTypeOK
  <2> QED BY <2>1, <2>2, <2>3
<1> QED BY <1>1, <1>2, <1>3, <1>4 DEF OpenPage, SignInInv, SignInTypeOK, Known

-----------------------------------------------------------------------------
LEMMA InitSignInInv == SignInInit => SignInInv
<1> SUFFICES ASSUME SignInInit PROVE SignInInv
  OBVIOUS
<1>1. NoRequest \in RequestRecord /\ Sound(NoRequest, 0)
  BY DEF NoRequest, RequestRecord, Sound, AsAnswered, WithSession, OfPage, PCs
<1>2. screen \in [Pages -> Screens]
  BY DEF SignInInit, Screens
<1> QED BY <1>1, <1>2 DEF SignInInit, SignInInv, SignInTypeOK, Known

LEMMA NextSignInInv == SignInInv /\ [SignInNext]_signInVars => SignInInv'
<1> SUFFICES ASSUME SignInInv, [SignInNext]_signInVars PROVE SignInInv'
  OBVIOUS
<1>1. ASSUME NEW r \in ApiRequests, Advance(r) PROVE SignInInv'
  BY <1>1, ProvideKeeps, ReadStoredKeeps, CreateSessionKeeps, WriteStoredKeeps, SmallStepsKeep, ServeKeeps,
     RetryKeeps, StopKeeps DEF Advance
<1>2. ASSUME NEW r \in ApiRequests, NEW p \in Pages, NEW for \in {"api", "start", "complete"}, Make(r, p, for)
      PROVE  SignInInv'
  BY <1>2, MakeKeeps
<1>3. ASSUME NEW p \in Pages, RestartSetup(p) PROVE SignInInv'
  <2>1. screen' \in [Pages -> Screens]
    BY <1>3, Before DEF RestartSetup, Screens, SignInInv, SignInTypeOK
  <2> QED BY <1>3, <2>1 DEF RestartSetup, SignInInv, SignInTypeOK, Known
<1>4. ASSUME NEW p \in Pages, OpenPage(p) PROVE SignInInv'
  BY <1>4, OpenPageKeeps
<1>5. ASSUME NEW s \in 1..sessions.issued, Age(s) \/ Expire(s) PROVE SignInInv'
  BY <1>5 DEF Age, Expire, SignInInv, SignInTypeOK, Known
<1>6. CASE ServerRestarts
  BY <1>6 DEF ServerRestarts, SignInInv, SignInTypeOK, Known
<1>7. CASE UNCHANGED signInVars
  BY <1>7 DEF signInVars, SignInInv, SignInTypeOK, Known
<1> QED BY <1>1, <1>2, <1>3, <1>4, <1>5, <1>6, <1>7 DEF SignInNext

LEMMA SignInInvariant == SignInSpec => []SignInInv
BY InitSignInInv, NextSignInInv, PTL DEF SignInSpec

-----------------------------------------------------------------------------
\* Only Send sends a request, and not one that is stopped.
LEMMA StopHolds ==
    ASSUME SignInInv, SignInNext, NEW r \in ApiRequests, request[r].stopped, request'[r].pc = "sent"
    PROVE  request[r].pc = "sent"
<1> SUFFICES ASSUME request[r].pc # "sent" PROVE FALSE
  OBVIOUS
<1>1. request \in [ApiRequests -> RequestRecord]
  BY DEF SignInInv, SignInTypeOK
<1>2. \A s \in ApiRequests, pc \in PCs : RequestAt(s, pc) => request'[r].pc = IF s = r THEN pc ELSE request[r].pc
  BY <1>1 DEF RequestAt, RequestRecord
<1>3. \A s \in ApiRequests : End(s) \/ Give(s) => request'[r].pc # "sent"
  BY <1>1 DEF End, Give, NoRequest
<1>4. ASSUME NEW s \in ApiRequests, SendRequest(s) PROVE FALSE
  <2>1. CASE s = r
    BY <1>3, <1>4, <2>1 DEF SendRequest
  <2>2. CASE s # r
    BY <1>2, <1>3, <1>4, <2>2 DEF SendRequest, PCs
  <2> QED BY <2>1, <2>2
<1>5. ASSUME NEW s \in ApiRequests, Advance(s), ~SendRequest(s) PROVE FALSE
  <2>1. CASE Provide(s) \/ ReadStored(s) \/ RequestAuthorizationCode(s) \/ CreateSession(s) \/ WriteStored(s)
    BY <1>1, <1>2, <1>3, <2>1
       DEF Provide, ReadStored, RequestAuthorizationCode, CreateSession, WriteStored, PCs, RequestRecord
  <2>2. CASE Serve(s) \/ Lose(s) \/ AnswerRequest(s) \/ Retry(s) \/ StopRequest(s)
    BY <1>1, <1>2, <1>3, <2>2 DEF Serve, Lose, AnswerRequest, Retry, StopRequest, PCs, RequestRecord
  <2>3. CASE MarkStarted(s) \/ OpenCampusLoginTabs(s) \/ MarkCompleted(s)
    BY <1>2, <1>3, <2>3 DEF MarkStarted, OpenCampusLoginTabs, MarkCompleted, PCs
  <2> QED BY <1>5, <2>1, <2>2, <2>3 DEF Advance
<1>6. ASSUME NEW s \in ApiRequests, NEW p \in Pages, NEW for \in {"api", "start", "complete"}, Make(s, p, for)
      PROVE  FALSE
  BY <1>1, <1>6 DEF Make, NoRequest
<1>7. ASSUME NEW p \in Pages, OpenPage(p) PROVE FALSE
  BY <1>1, <1>7 DEF OpenPage, NoRequest
<1>8. UNCHANGED request => FALSE
  OBVIOUS
<1> QED BY <1>4, <1>5, <1>6, <1>7, <1>8 DEF SignInNext, RestartSetup, Age, Expire, ServerRestarts

-----------------------------------------------------------------------------
(* The theorems *)

\* Sessions, requests and screens keep their shape, whatever pages and requests do at once.
THEOREM SignInTypeCorrect == SignInSpec => []SignInTypeOK
<1>1. SignInInv => SignInTypeOK
  BY DEF SignInInv
<1> QED BY <1>1, SignInInvariant, PTL

\* A request takes effect at most once, whatever is refused, retried or lost, and one the student has stopped
\* does not leave the extension any more: authorizedFetch looks at the signal after it has the session.
THEOREM EffectsOnce == SignInSpec => OneEffect
<1>1. ASSUME SignInInv, SignInInv', [SignInNext]_signInVars
      PROVE  [\A r \in ApiRequests :
                 /\ request'[r].effects <= 1
                 /\ request[r].stopped /\ request'[r].pc = "sent" => request[r].pc = "sent"]_signInVars
  <2>1. \A r \in ApiRequests : request'[r].effects <= 1
    BY <1>1 DEF SignInInv, Sound, AsAnswered
  <2>2. ASSUME SignInNext, NEW r \in ApiRequests, request[r].stopped, request'[r].pc = "sent" PROVE request[r].pc = "sent"
    BY <1>1, <2>2, StopHolds
  <2> QED BY <1>1, <2>1, <2>2
<1> QED BY <1>1, SignInInvariant, PTL DEF SignInSpec, OneEffect

\* The setup is not recorded as completed without a session that the API has issued.
THEOREM SetupHasSession == SignInSpec => CompletedWithSession
<1>1. ASSUME SignInInv, [SignInNext]_signInVars
      PROVE  [setup # "completed" /\ setup' = "completed" =>
                 \E r \in ApiRequests : request[r].for = "complete" /\ request[r].token \in 1..sessions.issued]_signInVars
  <2> SUFFICES ASSUME SignInNext, setup # "completed", setup' = "completed"
               PROVE  \E r \in ApiRequests : request[r].for = "complete" /\ request[r].token \in 1..sessions.issued
    BY <1>1
  <2>1. PICK r \in ApiRequests : MarkCompleted(r)
    BY DEF SignInNext, Advance, Make, Provide, ReadStored, RequestAuthorizationCode, CreateSession, WriteStored,
           SendRequest, Serve, Lose, AnswerRequest, Retry, StopRequest, MarkStarted, OpenCampusLoginTabs, RestartSetup, OpenPage,
           Age, Expire, ServerRestarts
  <2>2. WithSession(request[r], sessions.issued)
    BY <1>1, Before
  <2> QED BY <2>1, <2>2 DEF MarkCompleted, WithSession
<1> QED BY <1>1, SignInInvariant, PTL DEF SignInSpec, CompletedWithSession
=============================================================================
