----------------------------- MODULE RunStore -----------------------------
(***************************************************************************)
(* The process-memory store of resumable agent runs                        *)
(* (services/api/orbit_api/agent/runs.py, class RunStore).                 *)
(*                                                                         *)
(* A run is created when the provider defers a client tool call.  It is    *)
(* claimed by one tool result, and is then completed, failed, or continued *)
(* with the provider's next call.  The deadline a run is given at creation *)
(* is never moved.  Expiry is lazy: nothing happens at the deadline, the   *)
(* next call into the store sweeps.  A closed run leaves a tombstone that  *)
(* lives for one more TTL.                                                 *)
(*                                                                         *)
(* Every method runs under the store's lock, so a method is one step.  The *)
(* operators below that describe a method without priming a variable       *)
(* (CanClaim, Claimed, ...) are used by AgentRuns, where the handlers of   *)
(* concurrent requests call the methods.                                   *)
(***************************************************************************)
EXTENDS Naturals, FiniteSets, Dict

CONSTANTS
    RunIds,        \* run identifiers; a run id is a UUID and is never reused
    Tools,         \* client tool names the API knows
    CallIds,       \* tool call identifiers, chosen by the provider
    Conversations, \* conversation identifiers, chosen by the provider
    RunTTL,        \* ttl_seconds
    MaxTime        \* bound on the clock (model checking only)

ASSUME RunTTLAssumption == RunTTL \in Nat \ {0}
ASSUME MaxTimeAssumption == MaxTime \in Nat

VARIABLES
    now,      \* the monotonic clock
    active,   \* RunStore._active : run id -> stored run
    closed,   \* RunStore._closed : run id -> reason and time of closing
    issued    \* run ids uuid4 has produced so far

storeVars == <<now, active, closed, issued>>

(***************************************************************************)
(* Data                                                                    *)
(***************************************************************************)

\* DeferredActionRun: the call the provider asks the client to make.
Deferred == [tool : Tools, call : CallIds, conv : Conversations]

\* At most two client tools may be advertised.
MaxAdvertised == 2
Advertisement == {T \in SUBSET Tools : T # {} /\ Cardinality(T) <= MaxAdvertised}

StoredRun == [deferred : Deferred, advertised : SUBSET Tools,
              used : SUBSET Tools, seen : SUBSET CallIds,
              gen : Nat, expires : Nat, state : {"pending", "in_flight"}]

Reasons == {"expired", "consumed", "completed", "failed"}
Tombstone == [reason : Reasons, at : Nat]

(***************************************************************************)
(* The sweep every method starts with.  A run found past its deadline is   *)
(* closed as of now, so its own tombstone survives the same sweep.         *)
(***************************************************************************)
\* fault: the deadline itself still counts as in time
OverdueOneTickLate == {r \in DOMAIN active : active[r].expires < now}
Overdue == {r \in DOMAIN active : active[r].expires <= now}
Live == Restrict(active, DOMAIN active \ Overdue)
Kept == {r \in DOMAIN closed : now < closed[r].at + RunTTL}
Tombs == [r \in Kept \cup Overdue |->
            IF r \in Overdue THEN [reason |-> "expired", at |-> now] ELSE closed[r]]

\* A method that raises, or that only reads, leaves the swept store behind.
Sweep == active' = Live /\ closed' = Tombs

(***************************************************************************)
(* The methods                                                             *)
(***************************************************************************)

\* put: the run the provider has just deferred becomes claimable.
CanPut(r, adv, d) == r \notin issued /\ adv \in Advertisement /\ d.tool \in adv

NewRun(adv, d) ==
    [deferred |-> d, advertised |-> adv, used |-> {}, seen |-> {},
     gen |-> 0, expires |-> now + RunTTL, state |-> "pending"]

DoPut(r, adv, d) ==
    /\ CanPut(r, adv, d)
    /\ active' = With(Live, r, NewRun(adv, d))
    /\ closed' = Tombs
    /\ issued' = issued \cup {r}

\* claim: every identity check must pass before anything is consumed.
CanClaim(r, tool, call) ==
    /\ r \in DOMAIN Live
    /\ LET run == Live[r] IN
         /\ run.state = "pending"
         /\ run.deferred.call = call
         /\ run.deferred.tool = tool
         /\ tool \in run.advertised
         /\ tool \notin run.used
         /\ call \notin run.seen

Claimed(r) == [Live[r] EXCEPT !.state = "in_flight"]

DoClaim(r, tool, call) ==
    /\ CanClaim(r, tool, call)
    /\ active' = With(Live, r, Claimed(r))
    /\ closed' = Tombs
    /\ UNCHANGED issued

\* Does r stand in the generation its claimant left it in?
Holds(r, gen) == r \in DOMAIN Live /\ Live[r].state = "in_flight" /\ Live[r].gen = gen

\* continue_run: the next call must be new in tool and in id, and the
\* deadline stays the one the run was created with.
\* fault: the tool just used may be asked again
ContinuesWithSameTool(r, gen, d) ==
    /\ Holds(r, gen)
    /\ LET run == Live[r] IN
         /\ d.tool \in run.advertised \ run.used
         /\ d.call \notin run.seen \cup {run.deferred.call}
         /\ d.conv = run.deferred.conv
CanContinue(r, gen, d) ==
    /\ Holds(r, gen)
    /\ LET run == Live[r] IN
         /\ d.tool \in run.advertised
         /\ d.tool \notin run.used \cup {run.deferred.tool}
         /\ d.call \notin run.seen \cup {run.deferred.call}
         /\ d.conv = run.deferred.conv

Continued(r, d) ==
    LET run == Live[r] IN
    [deferred |-> d, advertised |-> run.advertised,
     used |-> run.used \cup {run.deferred.tool},
     seen |-> run.seen \cup {run.deferred.call},
     gen |-> run.gen + 1, expires |-> run.expires, state |-> "pending"]

DoContinue(r, gen, d) ==
    /\ CanContinue(r, gen, d)
    /\ active' = With(Live, r, Continued(r, d))
    /\ closed' = Tombs
    /\ UNCHANGED issued

\* Closing a run the sweep has left active.
Bury(r, reason) ==
    /\ active' = Without(Live, r)
    /\ closed' = With(Tombs, r, [reason |-> reason, at |-> now])
    /\ UNCHANGED issued

\* complete: only the exact generation that was claimed, and in time.
CanComplete(r, gen) == Holds(r, gen)
DoComplete(r, gen) == CanComplete(r, gen) /\ Bury(r, "completed")

\* fail (and close, which passes its reason on): idempotent, and silent about
\* a run that the sweep has expired or that is already closed.
\* fault: a failed run is offered for another try
TombstoneForRetry(r, reason) ==
    IF r \in DOMAIN Live
    THEN /\ active' = With(Live, r, [Live[r] EXCEPT !.state = "pending"])
         /\ closed' = Tombs
         /\ UNCHANGED issued
    ELSE Sweep /\ UNCHANGED issued
DoTombstone(r, reason) ==
    IF r \in DOMAIN Live THEN Bury(r, reason) ELSE Sweep /\ UNCHANGED issued

\* take: the compatibility helper that consumes a pending run.
DoTake(r) ==
    /\ r \in DOMAIN Live
    /\ Live[r].state = "pending"
    /\ Bury(r, "consumed")

\* clear: the application is reset.
DoClear == active' = Empty /\ closed' = Empty /\ UNCHANGED issued

(***************************************************************************)
(* The store under any caller                                              *)
(***************************************************************************)
StoreInit == now = 0 /\ active = Empty /\ closed = Empty /\ issued = {}

Put == \E r \in RunIds, adv \in Advertisement, d \in Deferred :
          DoPut(r, adv, d) /\ UNCHANGED now
Claim == \E r \in RunIds, t \in Tools, c \in CallIds :
          DoClaim(r, t, c) /\ UNCHANGED now
\* (a generation other than the run's own only makes these two raise)
Continue == \E r \in DOMAIN Live, d \in Deferred :
          DoContinue(r, Live[r].gen, d) /\ UNCHANGED now
Complete == \E r \in DOMAIN Live : DoComplete(r, Live[r].gen) /\ UNCHANGED now
FailRun == \E r \in RunIds : DoTombstone(r, "failed") /\ UNCHANGED now
Close == \E r \in RunIds, reason \in {"completed", "failed"} :
          DoTombstone(r, reason) /\ UNCHANGED now
Take == \E r \in RunIds : DoTake(r) /\ UNCHANGED now
\* peek, and every method that raises
Peek == Sweep /\ UNCHANGED <<now, issued>>
Clear == DoClear /\ UNCHANGED now
StoreTick == now < MaxTime /\ now' = now + 1 /\ UNCHANGED <<active, closed, issued>>

StoreNext == Put \/ Claim \/ Continue \/ Complete \/ FailRun \/ Close \/ Take \/ Peek \/ Clear \/ StoreTick

StoreSpec == StoreInit /\ [][StoreNext]_storeVars

(***************************************************************************)
(* Properties                                                              *)
(***************************************************************************)

\* Types of the two dicts.
StoreTypeOK ==
    /\ now \in Nat
    /\ DOMAIN active \subseteq RunIds /\ active \in [DOMAIN active -> StoredRun]
    /\ DOMAIN closed \subseteq RunIds /\ closed \in [DOMAIN closed -> Tombstone]
    /\ issued \subseteq RunIds

\* A run is never both resumable and closed, and only issued ids are known:
\* peek and claim look at _active first, so a leftover tombstone would be
\* hidden until it answers 410 for a run that is still alive.
OneHome ==
    /\ DOMAIN active \cap DOMAIN closed = {}
    /\ DOMAIN active \cup DOMAIN closed \subseteq issued

\* The call a run waits for was never answered before in this run, its tool
\* was never used before and was advertised: put, claim and continue_run
\* together, over any number of generations.
FreshCall ==
    \A r \in DOMAIN active :
        LET run == active[r] IN
        /\ run.deferred.tool \in run.advertised \ run.used
        /\ run.deferred.call \notin run.seen
        /\ run.used \subseteq run.advertised

\* No step revives a run that is closed or that clear() forgot: what left
\* _active never comes back, whoever calls the store in whatever order.
NeverRevived ==
    [][\A r \in issued : r \notin DOMAIN active => r \notin DOMAIN active']_storeVars

\* continue_run does not renew the lease, and nobody else does.
DeadlineFixed ==
    [][\A r \in DOMAIN active \cap DOMAIN active' :
         active'[r].expires = active[r].expires]_storeVars

\* A run progresses (claimed, continued, completed, consumed) only before its
\* deadline: the lazy sweep is never too late to be noticed by a caller.
NoLateProgress ==
    [][\A r \in DOMAIN active :
         active[r].expires <= now =>
            /\ r \in DOMAIN active' => active'[r] = active[r]
            /\ r \in DOMAIN closed' => closed'[r].reason = "expired"]_storeVars
=============================================================================
