----------------------------- MODULE AgentRuns -----------------------------
(***************************************************************************)
(* Agent runs from request to proposal                                     *)
(* (services/api/orbit_api/agent/runs.py, class AgentRunService, with the  *)
(* endpoints of services/api/orbit_api/main.py).                           *)
(*                                                                         *)
(* The service composes the run store and the action store.  Every request *)
(* is a coroutine on the one event loop, so a handler is atomic up to its  *)
(* await.  submit_tool_result claims the run, awaits the provider without  *)
(* holding a lock, and comes back to stores in which other handlers have   *)
(* meanwhile worked, the clock has moved, and the run may have expired.    *)
(* The process may stop at any moment; both stores live in its memory.     *)
(***************************************************************************)
EXTENDS RunStore, Sequences

CONSTANTS
    ActionIds, Places, Notes, ActionTTL, MaxRecords,
    Handlers,  \* concurrent submit_tool_result requests
    MaxEvents

VARIABLES
    actions, gone, events,    \* ActionStore
    waiting,  \* handler -> the run and generation it holds while awaiting the provider
    resumed,  \* history: <<run, call>> -> how often the provider was given the answer
    origin    \* history: action id -> the run whose completion registered it, or "start"

ASSUME ActionAssumption == ActionTTL \in Nat \ {0} /\ MaxRecords \in Nat \ {0}

A == INSTANCE ActionStore WITH
         RecordIds <- ActionIds, RecordPlaces <- Places, RecordNotes <- Notes, RecordTTL <- ActionTTL,
         RecordLimit <- MaxRecords, RecordMaxTime <- MaxTime, RecordEvents <- MaxEvents,
         recordNow <- now, records <- actions, recordsGone <- gone, recordEvents <- events

runVars == <<active, closed, issued>>
actionVars == <<actions, gone, events>>
vars == <<now, runVars, actionVars, waiting, resumed, origin>>

Init ==
    /\ StoreInit
    /\ A!RecordsInit
    /\ waiting = Empty
    /\ resumed = Empty
    /\ origin = Empty

\* UUIDs: an action id drawn by _canonicalize was never used before.
FreshAction(a) == a \in ActionIds \ DOMAIN origin

\* The handler's coroutine ends.
Leave(h) == waiting' = Without(waiting, h)

(***************************************************************************)
(* AgentRunService.start, after the provider's answer                      *)
(***************************************************************************)
StartDeferred(r, adv, d) ==
    /\ DoPut(r, adv, d)
    /\ UNCHANGED <<now, actionVars, waiting, resumed, origin>>

StartProposal(a, c) ==
    /\ FreshAction(a)
    /\ A!DoRegisterNew(a, c)
    /\ origin' = With(origin, a, "start")
    /\ UNCHANGED <<now, runVars, waiting, resumed>>

(***************************************************************************)
(* AgentRunService.submit_tool_result                                      *)
(***************************************************************************)

\* Up to the await: peek, claim, and the checks on the result have passed.
Submit(h, r, tool, call) ==
    /\ h \notin DOMAIN waiting
    /\ DoClaim(r, tool, call)
    /\ waiting' = With(waiting, h, [run |-> r, gen |-> Live[r].gen])
    /\ resumed' = With(resumed, <<r, call>>,
                       IF <<r, call>> \in DOMAIN resumed THEN resumed[<<r, call>>] + 1 ELSE 1)
    /\ UNCHANGED <<now, actionVars, origin>>

\* The result cannot be used (reauthorization needed, unsupported tool, the
\* backend changed): the claim was already made, so the run fails.
SubmitRefused(r, tool, call) ==
    /\ CanClaim(r, tool, call)
    /\ Bury(r, "failed")
    /\ UNCHANGED <<now, actionVars, waiting, resumed, origin>>

\* peek or claim raises, or observability is on: only the sweep remains.
SubmitRejected ==
    /\ Sweep
    /\ UNCHANGED <<now, issued, actionVars, waiting, resumed, origin>>

\* store.fail in the except clause
\* fault: the except clause does not fail the run
LeavesClaim(h) == Sweep /\ UNCHANGED issued
GiveUp(h) == DoTombstone(waiting[h].run, "failed")

\* The provider returned a draft: complete first, register only if that worked.
\* A run that expired meanwhile makes complete raise, and the draft is dropped.
\* fault: the proposal is registered before the run completes
RegistersFirst(h, a, c) ==
    /\ h \in DOMAIN waiting
    /\ FreshAction(a)
    /\ LET w == waiting[h] IN
         /\ A!DoRegisterNew(a, c)
         /\ origin' = With(origin, a, w.run)
         /\ IF CanComplete(w.run, w.gen) THEN DoComplete(w.run, w.gen) ELSE GiveUp(h)
    /\ Leave(h)
    /\ UNCHANGED <<now, resumed>>
Propose(h, a, c) ==
    /\ h \in DOMAIN waiting
    /\ FreshAction(a)
    /\ LET w == waiting[h] IN
         \/ /\ DoComplete(w.run, w.gen)
            /\ A!DoRegisterNew(a, c)
            /\ origin' = With(origin, a, w.run)
         \/ /\ ~CanComplete(w.run, w.gen)
            /\ GiveUp(h)
            /\ UNCHANGED <<actionVars, origin>>
    /\ Leave(h)
    /\ UNCHANGED <<now, resumed>>

\* The provider asked for another tool call.
AskAgain(h, d) ==
    /\ h \in DOMAIN waiting
    /\ LET w == waiting[h] IN
         \/ DoContinue(w.run, w.gen, d)
         \/ ~CanContinue(w.run, w.gen, d) /\ GiveUp(h)
    /\ Leave(h)
    /\ UNCHANGED <<now, actionVars, resumed, origin>>

\* The provider raised, answered nonsense, or the request was cancelled.
ProviderFails(h) ==
    /\ h \in DOMAIN waiting
    /\ GiveUp(h)
    /\ Leave(h)
    /\ UNCHANGED <<now, actionVars, resumed, origin>>

(***************************************************************************)
(* AgentService.verify_result, the lifespan of the process, and time       *)
(***************************************************************************)
Verify(a, v) ==
    /\ events < MaxEvents
    /\ A!DoCompleteRecord(a, v)
    /\ UNCHANGED <<now, runVars, waiting, resumed, origin>>

\* The process stops with handlers in the air and starts with empty stores.
Restart ==
    /\ DoClear
    /\ A!DoClearRecords
    /\ waiting' = Empty
    /\ UNCHANGED <<now, resumed, origin>>

Tick ==
    /\ now < MaxTime
    /\ now' = now + 1
    /\ UNCHANGED <<runVars, actionVars, waiting, resumed, origin>>

Next ==
    \/ \E r \in RunIds, adv \in Advertisement, d \in Deferred : StartDeferred(r, adv, d)
    \/ \E a \in ActionIds, c \in A!Content : StartProposal(a, c)
    \/ \E h \in Handlers, r \in RunIds, t \in Tools, c \in CallIds : Submit(h, r, t, c)
    \/ \E r \in RunIds, t \in Tools, c \in CallIds : SubmitRefused(r, t, c)
    \/ SubmitRejected
    \/ \E h \in Handlers, a \in ActionIds, c \in A!Content : Propose(h, a, c)
    \/ \E h \in Handlers, d \in Deferred : AskAgain(h, d)
    \/ \E h \in Handlers : ProviderFails(h)
    \/ \E a \in ActionIds, v \in A!Verification : Verify(a, v)
    \/ Restart
    \/ Tick

Spec == Init /\ [][Next]_vars

(***************************************************************************)
(* Properties                                                              *)
(***************************************************************************)

TypeOK ==
    /\ StoreTypeOK
    /\ A!RecordsTypeOK
    /\ DOMAIN waiting \subseteq Handlers
    /\ waiting \in [DOMAIN waiting -> [run : RunIds, gen : Nat]]
    /\ DOMAIN resumed \subseteq RunIds \X CallIds
    /\ resumed \in [DOMAIN resumed -> Nat]
    /\ DOMAIN origin \subseteq ActionIds
    /\ origin \in [DOMAIN origin -> RunIds \cup {"start"}]

\* The provider is resumed at most once with the answer to a call, however
\* many handlers submit it, before or after the run expired, failed, was
\* continued, or the process restarted.
AtMostOnce == \A k \in DOMAIN resumed : resumed[k] = 1

\* At most one coroutine awaits the provider for a run.
OneClaimant ==
    \A h, g \in DOMAIN waiting : waiting[h].run = waiting[g].run => h = g

\* No run is left in_flight by a handler that is gone, whatever way it went:
\* such a run could be neither resumed nor completed until its deadline.
NoOrphanClaim ==
    \A r \in DOMAIN active :
        active[r].state = "in_flight"
            => \E h \in DOMAIN waiting : waiting[h] = [run |-> r, gen |-> active[r].gen]

\* A proposal in the action store that a run produced belongs to a run that
\* completed: complete comes before register, so an expired, failed or still
\* active run never has an action the student could approve.
ProposalOfCompletedRun ==
    \A a \in DOMAIN origin :
        origin[a] # "start" =>
            /\ origin[a] \notin DOMAIN active
            /\ origin[a] \in DOMAIN closed => closed[origin[a]].reason = "completed"
            /\ \A b \in DOMAIN origin : origin[b] = origin[a] => b = a

\* The runs implement the promise of ResumeOnce.
Stage(r) ==
    IF r \notin issued THEN "new"
    ELSE IF r \notin DOMAIN active THEN "over"
    ELSE IF active[r].state = "pending" THEN "waiting" ELSE "running"

Promise == INSTANCE ResumeOnce WITH
              stage <- [r \in RunIds |-> Stage(r)],
              answered <- [r \in RunIds |-> {c \in CallIds : <<r, c>> \in DOMAIN resumed}]
ResumesOnce == Promise!Spec
=============================================================================
