-------------------------- MODULE AgentRuns_proofs --------------------------
(***************************************************************************)
(* Proofs about RunStore, about AgentRuns, the service on top of it, and   *)
(* about ActionStore: for every set of runs, tools and calls, any number   *)
(* of concurrent handlers and of actions, every limit, TTL and clock.      *)
(*                                                                         *)
(* The run store first. Its inductive invariant is StoreInv: the types of  *)
(* the dicts, that a run has one home, and that the call a run waits for   *)
(* is fresh. Freshness needs all three: continue_run compares the next     *)
(* call with what is recorded under the run's id, so no other entry may    *)
(* stand under that id.                                                    *)
(*                                                                         *)
(* Each step of the service is, on the store's variables, a step of the    *)
(* store or none (StoreStep), so StoreInv carries over. The inductive      *)
(* invariant ServiceInv adds what ties the coroutines to the store: a      *)
(* handler awaiting the provider holds its run in_flight in the generation *)
(* it claimed, or the run is no longer active; and every answer the        *)
(* provider was given is either recorded in the run, or its run is gone    *)
(* for good.                                                               *)
(***************************************************************************)
EXTENDS AgentRuns, ActionStore, NaturalsInduction, WellFoundedInduction, TLAPS

StoreInv == StoreTypeOK /\ OneHome /\ FreshCall

\* What the sweep leaves behind is a part of what was there, or a tombstone
\* with reason "expired" for a run that was active.
LEMMA SweepFacts ==
    ASSUME StoreInv
    PROVE  /\ DOMAIN Live \subseteq DOMAIN active
           /\ \A r \in DOMAIN Live : Live[r] = active[r] /\ Live[r] \in StoredRun
           /\ DOMAIN Live \subseteq RunIds
           /\ DOMAIN Tombs \subseteq RunIds
           /\ \A r \in DOMAIN Tombs : Tombs[r] \in Tombstone
           /\ DOMAIN Live \cap DOMAIN Tombs = {}
           /\ DOMAIN Live \cup DOMAIN Tombs \subseteq issued
           /\ \A r \in DOMAIN Tombs : r \in DOMAIN closed \/ r \in Overdue
<1>1. now \in Nat /\ RunTTL \in Nat
  BY RunTTLAssumption DEF StoreInv, StoreTypeOK
<1>2. DOMAIN Live = DOMAIN active \ Overdue
  BY DEF Live, Restrict
<1>3. \A r \in DOMAIN Live : Live[r] = active[r] /\ Live[r] \in StoredRun
  BY <1>2 DEF Live, Restrict, StoreInv, StoreTypeOK
<1>4. DOMAIN Tombs = Kept \cup Overdue
  BY DEF Tombs
<1>5. Overdue \subseteq DOMAIN active /\ Kept \subseteq DOMAIN closed
  BY DEF Overdue, Kept
<1>6. \A r \in DOMAIN Tombs : Tombs[r] \in Tombstone
  <2> SUFFICES ASSUME NEW r \in DOMAIN Tombs PROVE Tombs[r] \in Tombstone
    OBVIOUS
  <2>1. CASE r \in Overdue
    BY <1>1, <2>1 DEF Tombs, Tombstone, Reasons
  <2>2. CASE r \notin Overdue
    BY <1>4, <1>5, <2>2 DEF Tombs, StoreInv, StoreTypeOK
  <2> QED BY <2>1, <2>2
<1> QED
  BY <1>2, <1>3, <1>4, <1>5, <1>6 DEF StoreInv, StoreTypeOK, OneHome

\* A method that leaves r with a well-formed record whose call is fresh.
LEMMA WithLive ==
    ASSUME StoreInv, NEW r \in RunIds, NEW run \in StoredRun,
           r \in issued', issued \subseteq issued', issued' \subseteq RunIds,
           r \notin DOMAIN Tombs,
           run.deferred.tool \in run.advertised \ run.used,
           run.deferred.call \notin run.seen,
           run.used \subseteq run.advertised,
           active' = With(Live, r, run), closed' = Tombs, now' = now
    PROVE  StoreInv'
<1>1. /\ DOMAIN active' = DOMAIN Live \cup {r}
      /\ \A q \in DOMAIN active' : active'[q] = IF q = r THEN run ELSE Live[q]
  BY DEF With
<1>2. StoreTypeOK'
  <2>1. active' \in [DOMAIN active' -> StoredRun]
    <3>1. \A q \in DOMAIN active' : active'[q] \in StoredRun
      BY <1>1, SweepFacts
    <3>2. active' = [q \in DOMAIN active' |-> active'[q]]
      BY DEF With
    <3> QED BY <3>1, <3>2
  <2>2. closed' \in [DOMAIN closed' -> Tombstone]
    BY SweepFacts DEF Tombs
  <2> QED
    BY <1>1, <2>1, <2>2, SweepFacts DEF StoreInv, StoreTypeOK
<1>3. OneHome'
  BY <1>1, SweepFacts DEF OneHome
<1>4. FreshCall'
  BY <1>1, SweepFacts DEF FreshCall, StoreInv
<1> QED BY <1>2, <1>3, <1>4 DEF StoreInv

\* A method that leaves no more active runs than the sweep.
LEMMA WithTombstone ==
    ASSUME StoreInv, NEW r \in DOMAIN Live, NEW reason \in Reasons, Bury(r, reason), now' = now
    PROVE  StoreInv'
<1>1. /\ DOMAIN active' = DOMAIN Live \ {r}
      /\ \A q \in DOMAIN active' : active'[q] = Live[q]
      /\ active' = [q \in DOMAIN active' |-> active'[q]]
  BY DEF Bury, Without, Restrict
<1>2. /\ DOMAIN closed' = DOMAIN Tombs \cup {r}
      /\ \A q \in DOMAIN closed' :
            closed'[q] = IF q = r THEN [reason |-> reason, at |-> now] ELSE Tombs[q]
      /\ closed' = [q \in DOMAIN closed' |-> closed'[q]]
  BY DEF Bury, With
<1>3. [reason |-> reason, at |-> now] \in Tombstone
  BY DEF Tombstone, StoreInv, StoreTypeOK
<1>4. issued' = issued
  BY DEF Bury
<1>5. StoreTypeOK'
  <2>1. \A q \in DOMAIN closed' : closed'[q] \in Tombstone
    BY <1>2, <1>3, SweepFacts
  <2>2. \A q \in DOMAIN active' : active'[q] \in StoredRun
    BY <1>1, SweepFacts
  <2> QED
    BY <1>1, <1>2, <1>4, <2>1, <2>2, SweepFacts DEF StoreInv, StoreTypeOK
<1>6. OneHome'
  BY <1>1, <1>2, <1>4, SweepFacts DEF OneHome
<1>7. FreshCall'
  BY <1>1, SweepFacts DEF FreshCall, StoreInv
<1> QED BY <1>5, <1>6, <1>7 DEF StoreInv

\* The bare sweep.
LEMMA WithSweep ==
    ASSUME StoreInv, Sweep, UNCHANGED <<now, issued>>
    PROVE  StoreInv'
<1>1. active' = Live /\ closed' = Tombs /\ now' = now /\ issued' = issued
  BY DEF Sweep
<1>2. StoreTypeOK'
  <2>1. active' \in [DOMAIN active' -> StoredRun]
    BY <1>1, SweepFacts DEF Live, Restrict
  <2>2. closed' \in [DOMAIN closed' -> Tombstone]
    BY <1>1, SweepFacts DEF Tombs
  <2> QED
    BY <1>1, <2>1, <2>2, SweepFacts DEF StoreInv, StoreTypeOK
<1>3. OneHome'
  BY <1>1, SweepFacts DEF OneHome
<1>4. FreshCall'
  BY <1>1, SweepFacts DEF FreshCall, StoreInv
<1> QED BY <1>2, <1>3, <1>4 DEF StoreInv

LEMMA InitStoreInv == StoreInit => StoreInv
BY DEF StoreInit, StoreInv, StoreTypeOK, OneHome, FreshCall, Empty

\* Every method keeps the invariant.
LEMMA NextStoreInv == StoreInv /\ [StoreNext]_storeVars => StoreInv'
<1> SUFFICES ASSUME StoreInv, [StoreNext]_storeVars PROVE StoreInv'
  OBVIOUS
<1>1. CASE Put
  <2>1. PICK r \in RunIds, adv \in Advertisement, d \in Deferred :
           DoPut(r, adv, d) /\ now' = now
    BY <1>1 DEF Put
  <2>2. NewRun(adv, d) \in StoredRun
    BY RunTTLAssumption DEF NewRun, StoredRun, Advertisement, StoreInv, StoreTypeOK
  <2>3. r \notin DOMAIN Tombs
    BY <2>1, SweepFacts DEF DoPut, CanPut
  <2>4. /\ NewRun(adv, d).deferred.tool \in adv \ {}
        /\ NewRun(adv, d).advertised = adv
        /\ NewRun(adv, d).used = {} /\ NewRun(adv, d).seen = {}
    BY <2>1 DEF NewRun, DoPut, CanPut
  <2>5. issued' = issued \cup {r} /\ issued' \subseteq RunIds
    BY <2>1 DEF DoPut, StoreInv, StoreTypeOK
  <2> QED
    BY <2>1, <2>2, <2>3, <2>4, <2>5, WithLive DEF DoPut
<1>2. CASE Claim
  <2>1. PICK r \in RunIds, t \in Tools, c \in CallIds : DoClaim(r, t, c) /\ now' = now
    BY <1>2 DEF Claim
  <2>2. r \in DOMAIN Live /\ Live[r] = active[r] /\ active[r] \in StoredRun
    BY <2>1, SweepFacts DEF DoClaim, CanClaim
  <2>3. /\ Claimed(r) \in StoredRun
        /\ Claimed(r).deferred = active[r].deferred
        /\ Claimed(r).advertised = active[r].advertised
        /\ Claimed(r).used = active[r].used /\ Claimed(r).seen = active[r].seen
    BY <2>2 DEF Claimed, StoredRun
  <2>4. r \in DOMAIN active /\ r \notin DOMAIN Tombs /\ r \in issued
    BY <2>2, SweepFacts
  <2> QED
    BY <2>1, <2>3, <2>4, WithLive DEF DoClaim, StoreInv, FreshCall, StoreTypeOK
<1>3. CASE Continue
  <2>1. PICK r \in DOMAIN Live, d \in Deferred :
           DoContinue(r, Live[r].gen, d) /\ now' = now
    BY <1>3 DEF Continue
  <2>2. Live[r] = active[r] /\ active[r] \in StoredRun /\ r \in RunIds /\ r \in DOMAIN active
    BY SweepFacts
  <2>3. /\ d.tool \in active[r].advertised
        /\ d.tool \notin active[r].used \cup {active[r].deferred.tool}
        /\ d.call \notin active[r].seen \cup {active[r].deferred.call}
    BY <2>1, <2>2 DEF DoContinue, CanContinue
  <2>4. active[r].deferred.tool \in active[r].advertised /\ active[r].used \subseteq active[r].advertised
    BY <2>2 DEF StoreInv, FreshCall
  <2>5. /\ Continued(r, d) \in StoredRun
        /\ Continued(r, d).deferred = d
        /\ Continued(r, d).advertised = active[r].advertised
        /\ Continued(r, d).used = active[r].used \cup {active[r].deferred.tool}
        /\ Continued(r, d).seen = active[r].seen \cup {active[r].deferred.call}
    <3>1. /\ active[r].used \cup {active[r].deferred.tool} \in SUBSET Tools
          /\ active[r].seen \cup {active[r].deferred.call} \in SUBSET CallIds
          /\ active[r].gen + 1 \in Nat
      BY <2>2 DEF StoredRun, Deferred
    <3>2. active[r].advertised \in SUBSET Tools /\ active[r].expires \in Nat
      BY <2>2 DEF StoredRun
    <3> QED BY <2>2, <3>1, <3>2 DEF Continued, StoredRun
  <2>6. r \notin DOMAIN Tombs /\ r \in issued
    BY SweepFacts
  <2> QED
    BY <2>1, <2>2, <2>3, <2>4, <2>5, <2>6, WithLive DEF DoContinue, StoreInv, StoreTypeOK
<1>4. CASE Complete
  BY <1>4, WithTombstone DEF Complete, DoComplete, Reasons
<1>5. CASE FailRun
  BY <1>5, WithTombstone, WithSweep DEF FailRun, DoTombstone, Reasons
<1>6. CASE Close
  BY <1>6, WithTombstone, WithSweep DEF Close, DoTombstone, Reasons
<1>7. CASE Take
  BY <1>7, WithTombstone DEF Take, DoTake, Reasons
<1>8. CASE Peek
  BY <1>8, WithSweep DEF Peek
<1>9. CASE Clear
  BY <1>9 DEF Clear, DoClear, StoreInv, StoreTypeOK, OneHome, FreshCall, Empty
<1>10. CASE StoreTick
  BY <1>10 DEF StoreTick, StoreInv, StoreTypeOK, OneHome, FreshCall
<1>11. CASE UNCHANGED storeVars
  BY <1>11 DEF storeVars, StoreInv, StoreTypeOK, OneHome, FreshCall
<1> QED
  BY <1>1, <1>2, <1>3, <1>4, <1>5, <1>6, <1>7, <1>8, <1>9, <1>10, <1>11 DEF StoreNext

\* How a step may change the dict of active runs.
LEMMA StepShape ==
    ASSUME StoreInv, [StoreNext]_storeVars
    PROVE  /\ DOMAIN active' \subseteq DOMAIN active \cup (RunIds \ issued)
           /\ \A r \in DOMAIN active \cap DOMAIN active' :
                 active'[r].expires = active[r].expires
           /\ \A r \in DOMAIN active :
                 active[r].expires <= now =>
                    /\ r \in DOMAIN active' => active'[r] = active[r]
                    /\ r \in DOMAIN closed' => closed'[r].reason = "expired"
<1> DEFINE Shape(r) ==
             /\ r \in DOMAIN active' => r \in DOMAIN active \cup (RunIds \ issued)
             /\ r \in DOMAIN active \cap DOMAIN active' =>
                   active'[r].expires = active[r].expires
             /\ r \in DOMAIN active /\ active[r].expires <= now =>
                    /\ r \in DOMAIN active' => active'[r] = active[r]
                    /\ r \in DOMAIN closed' => closed'[r].reason = "expired"
<1>0. /\ \A r \in DOMAIN active : r \in Overdue <=> active[r].expires <= now
      /\ DOMAIN Live = DOMAIN active \ Overdue
      /\ \A r \in DOMAIN active : r \in DOMAIN Tombs => Tombs[r].reason = "expired"
      /\ DOMAIN active \subseteq issued
  <2>1. \A r \in DOMAIN active : r \in Overdue <=> active[r].expires <= now
    BY DEF Overdue
  <2>2. DOMAIN Live = DOMAIN active \ Overdue
    BY DEF Live, Restrict
  <2>3. \A r \in DOMAIN active : r \in DOMAIN Tombs => r \in Overdue
    BY SweepFacts DEF StoreInv, OneHome
  <2>4. \A r \in Overdue : r \in DOMAIN Tombs => Tombs[r].reason = "expired"
    BY DEF Tombs
  <2> QED BY <2>1, <2>2, <2>3, <2>4 DEF StoreInv, OneHome
<1>1. ASSUME NEW q \in RunIds, NEW run, run.expires = active[q].expires \/ q \notin issued,
             q \in DOMAIN Live \/ q \notin issued,
             active' = With(Live, q, run), closed' = Tombs
      PROVE  \A r : Shape(r)
  <2>1. DOMAIN active' = DOMAIN Live \cup {q}
        /\ \A r \in DOMAIN active' : active'[r] = IF r = q THEN run ELSE Live[r]
    BY <1>1 DEF With
  <2> QED BY <1>0, <1>1, <2>1, SweepFacts
<1>2. ASSUME NEW q \in DOMAIN Live, NEW reason, Bury(q, reason)
      PROVE  \A r : Shape(r)
  <2>1. DOMAIN active' = DOMAIN Live \ {q} /\ \A r \in DOMAIN active' : active'[r] = Live[r]
    BY <1>2 DEF Bury, Without, Restrict
  <2>2. \A r \in DOMAIN closed' : r # q => r \in DOMAIN Tombs /\ closed'[r] = Tombs[r]
    BY <1>2 DEF Bury, With
  <2> QED BY <1>0, <2>1, <2>2, SweepFacts
<1>3. ASSUME Sweep PROVE \A r : Shape(r)
  BY <1>0, <1>3, SweepFacts DEF Sweep
<1>4. CASE Put
  BY <1>1, <1>4 DEF Put, DoPut, CanPut
<1>5. CASE Claim
  <2>1. PICK r \in RunIds, t \in Tools, c \in CallIds : DoClaim(r, t, c)
    BY <1>5 DEF Claim
  <2>2. r \in DOMAIN Live /\ Live[r] = active[r] /\ active[r] \in StoredRun
    BY <2>1, SweepFacts DEF DoClaim, CanClaim
  <2>3. Claimed(r).expires = active[r].expires
    BY <2>2 DEF Claimed, StoredRun
  <2> QED BY <1>1, <2>1, <2>2, <2>3 DEF DoClaim
<1>6. CASE Continue
  <2>1. PICK r \in DOMAIN Live, d \in Deferred : DoContinue(r, Live[r].gen, d)
    BY <1>6 DEF Continue
  <2>2. Continued(r, d).expires = active[r].expires /\ r \in RunIds
    BY SweepFacts DEF Continued
  <2> QED BY <1>1, <2>1, <2>2 DEF DoContinue
<1>7. CASE Complete
  BY <1>2, <1>7 DEF Complete, DoComplete
<1>8. CASE FailRun \/ Close
  BY <1>2, <1>3, <1>8 DEF FailRun, Close, DoTombstone
<1>9. CASE Take
  BY <1>2, <1>9 DEF Take, DoTake
<1>10. CASE Peek
  BY <1>3, <1>10 DEF Peek
<1>11. CASE Clear
  BY <1>11 DEF Clear, DoClear, Empty
<1>12. CASE StoreTick \/ UNCHANGED storeVars
  BY <1>12, <1>0 DEF StoreTick, storeVars, StoreInv, OneHome
<1>13. \A r : Shape(r)
  BY <1>4, <1>5, <1>6, <1>7, <1>8, <1>9, <1>10, <1>11, <1>12 DEF StoreNext
<1> QED BY <1>13

\* Type correctness of the store.
THEOREM StoreTypeCorrect == StoreSpec => []StoreTypeOK
<1>1. StoreSpec => []StoreInv
  BY InitStoreInv, NextStoreInv, PTL DEF StoreSpec
<1>2. StoreInv => StoreTypeOK
  BY DEF StoreInv
<1> QED BY <1>1, <1>2, PTL

\* A run is never resumable and closed at once.
THEOREM StoreOneHome == StoreSpec => []OneHome
<1>1. StoreSpec => []StoreInv
  BY InitStoreInv, NextStoreInv, PTL DEF StoreSpec
<1>2. StoreInv => OneHome
  BY DEF StoreInv
<1> QED BY <1>1, <1>2, PTL

\* Over any number of generations, a run never waits for a call or a tool it
\* has already used.
THEOREM StoreFreshCall == StoreSpec => []FreshCall
<1>1. StoreSpec => []StoreInv
  BY InitStoreInv, NextStoreInv, PTL DEF StoreSpec
<1>2. StoreInv => FreshCall
  BY DEF StoreInv
<1> QED BY <1>1, <1>2, PTL

\* What left the dict of active runs never comes back.
THEOREM StoreNeverRevived == StoreSpec => NeverRevived
<1>1. StoreSpec => []StoreInv
  BY InitStoreInv, NextStoreInv, PTL DEF StoreSpec
<1>2. StoreInv /\ [StoreNext]_storeVars
        => [\A r \in issued : r \notin DOMAIN active => r \notin DOMAIN active']_storeVars
  BY StepShape
<1> QED BY <1>1, <1>2, PTL DEF StoreSpec, NeverRevived

\* The deadline given by put is the deadline for good.
THEOREM StoreDeadlineFixed == StoreSpec => DeadlineFixed
<1>1. StoreSpec => []StoreInv
  BY InitStoreInv, NextStoreInv, PTL DEF StoreSpec
<1>2. StoreInv /\ [StoreNext]_storeVars
        => [\A r \in DOMAIN active \cap DOMAIN active' :
              active'[r].expires = active[r].expires]_storeVars
  BY StepShape
<1> QED BY <1>1, <1>2, PTL DEF StoreSpec, DeadlineFixed

\* Past its deadline a run only expires.
THEOREM StoreNoLateProgress == StoreSpec => NoLateProgress
<1>1. StoreSpec => []StoreInv
  BY InitStoreInv, NextStoreInv, PTL DEF StoreSpec
<1>2. StoreInv /\ [StoreNext]_storeVars
        => [\A r \in DOMAIN active :
              active[r].expires <= now =>
                 /\ r \in DOMAIN active' => active'[r] = active[r]
                 /\ r \in DOMAIN closed' => closed'[r].reason = "expired"]_storeVars
  BY StepShape
<1> QED BY <1>1, <1>2, PTL DEF StoreSpec, NoLateProgress

-----------------------------------------------------------------------------
\* What a handler knows of the run it holds.
Tied ==
    /\ waiting \in [DOMAIN waiting -> [run : RunIds, gen : Nat]]
    /\ DOMAIN waiting \subseteq Handlers
    /\ \A h \in DOMAIN waiting :
          LET w == waiting[h] IN
          /\ w.run \in issued
          /\ w.run \in DOMAIN active =>
                active[w.run].state = "in_flight" /\ active[w.run].gen = w.gen

\* What the run store remembers of the answers given.
Remembered ==
    \A k \in DOMAIN resumed :
        /\ k \in RunIds \X CallIds
        /\ k[1] \in issued
        /\ k[1] \in DOMAIN active =>
              \/ k[2] \in active[k[1]].seen
              \/ active[k[1]].state = "in_flight" /\ k[2] = active[k[1]].deferred.call

\* What a run's proposal says about the run.
Settled ==
    \A a \in DOMAIN origin :
        origin[a] # "start" => origin[a] \in issued

\* The runs a method does not work on: they keep their record, or expire.
Frame(r) ==
    \A q : q # r =>
        /\ q \in DOMAIN active' => q \in DOMAIN active /\ active'[q] = active[q]
        /\ q \in DOMAIN closed' => \/ q \in DOMAIN active
                                   \/ q \in DOMAIN closed /\ closed'[q] = closed[q]

LEMMA SweepFrame ==
    ASSUME StoreInv
    PROVE  /\ \A q \in DOMAIN Live : q \in DOMAIN active /\ Live[q] = active[q]
           /\ \A q \in DOMAIN Tombs : \/ q \in DOMAIN active
                                      \/ q \in DOMAIN closed /\ Tombs[q] = closed[q]
<1>1. \A q \in DOMAIN Tombs : q \in Overdue \/ (q \in DOMAIN closed /\ Tombs[q] = closed[q])
  BY DEF Tombs, Kept
<1>2. Overdue \subseteq DOMAIN active
  BY DEF Overdue
<1> QED BY <1>1, <1>2, SweepFacts

LEMMA WithFrame ==
    ASSUME StoreInv, NEW r, NEW run, active' = With(Live, r, run), closed' = Tombs
    PROVE  Frame(r) /\ r \in DOMAIN active' /\ active'[r] = run
BY SweepFrame DEF With, Frame

LEMMA BuryFrame ==
    ASSUME StoreInv, NEW r, NEW reason, Bury(r, reason)
    PROVE  /\ Frame(r) /\ r \notin DOMAIN active'
           /\ r \in DOMAIN closed' /\ closed'[r].reason = reason
           /\ issued' = issued
BY SweepFrame DEF Bury, With, Without, Restrict, Frame

LEMMA TombstoneFrame ==
    ASSUME StoreInv, NEW r, DoTombstone(r, "failed")
    PROVE  /\ Frame(r) /\ r \notin DOMAIN active' /\ issued' = issued
           /\ r \in DOMAIN closed' =>
                 r \in DOMAIN active \/ (r \in DOMAIN closed /\ closed'[r] = closed[r])
<1>1. CASE r \in DOMAIN Live
  BY <1>1, BuryFrame, SweepFrame DEF DoTombstone
<1>2. CASE r \notin DOMAIN Live
  BY <1>2, SweepFrame DEF DoTombstone, Sweep, Frame
<1> QED BY <1>1, <1>2

\* On the store's variables a step of the service is one step of the store.
LEMMA StoreStep == ASSUME Tied, [Next]_vars PROVE [StoreNext]_storeVars
<1> USE DEF actionVars, runVars
<1>0. ASSUME NEW h \in DOMAIN waiting, GiveUp(h), now' = now
      PROVE  StoreNext
  BY <1>0 DEF GiveUp, FailRun, Tied, StoreNext
<1>1. ASSUME NEW r \in RunIds, NEW adv \in Advertisement, NEW d \in Deferred,
             StartDeferred(r, adv, d)
      PROVE  StoreNext
  BY <1>1 DEF StartDeferred, Put, StoreNext
<1>2. ASSUME NEW a \in ActionIds, NEW c \in A!Content, StartProposal(a, c)
      PROVE  UNCHANGED storeVars
  BY <1>2 DEF StartProposal, storeVars
<1>3. ASSUME NEW h \in Handlers, NEW r \in RunIds, NEW t \in Tools, NEW c \in CallIds,
             Submit(h, r, t, c)
      PROVE  StoreNext
  BY <1>3 DEF Submit, Claim, StoreNext
<1>4. ASSUME NEW r \in RunIds, NEW t \in Tools, NEW c \in CallIds, SubmitRefused(r, t, c)
      PROVE  StoreNext
  BY <1>4 DEF SubmitRefused, CanClaim, FailRun, DoTombstone, StoreNext
<1>5. ASSUME SubmitRejected PROVE StoreNext
  BY <1>5 DEF SubmitRejected, Peek, StoreNext
<1>6. ASSUME NEW h \in Handlers, NEW a \in ActionIds, NEW c \in A!Content, Propose(h, a, c)
      PROVE  StoreNext
  BY <1>0, <1>6 DEF Propose, Complete, DoComplete, CanComplete, Holds, StoreNext
<1>7. ASSUME NEW h \in Handlers, NEW d \in Deferred, AskAgain(h, d)
      PROVE  StoreNext
  BY <1>0, <1>7 DEF AskAgain, Continue, DoContinue, CanContinue, Holds, StoreNext
<1>8. ASSUME NEW h \in Handlers, ProviderFails(h) PROVE StoreNext
  BY <1>0, <1>8 DEF ProviderFails
<1>9. ASSUME NEW a \in ActionIds, NEW v \in A!Verification, Verify(a, v)
      PROVE  UNCHANGED storeVars
  BY <1>9 DEF Verify, storeVars
<1>10. ASSUME Restart PROVE StoreNext
  BY <1>10 DEF Restart, Clear, StoreNext
<1>11. ASSUME Tick PROVE StoreNext
  BY <1>11 DEF Tick, StoreTick, StoreNext
<1>12. ASSUME UNCHANGED vars PROVE UNCHANGED storeVars
  BY <1>12 DEF vars, storeVars
<1> QED
  BY <1>1, <1>2, <1>3, <1>4, <1>5, <1>6, <1>7, <1>8, <1>9, <1>10, <1>11, <1>12 DEF Next

\* The part of IInv that speaks of the coroutines and the history.
ServiceInv ==
    /\ Tied /\ OneClaimant /\ NoOrphanClaim
    /\ Remembered /\ AtMostOnce
    /\ Settled /\ ProposalOfCompletedRun

\* A step that works on no run and starts no coroutine.
LEMMA IdleStep ==
    ASSUME StoreInv, ServiceInv,
           \A q \in DOMAIN active' : q \in DOMAIN active /\ active'[q] = active[q],
           \A q \in DOMAIN closed' : \/ q \in DOMAIN active
                                     \/ q \in DOMAIN closed /\ closed'[q] = closed[q],
           UNCHANGED <<issued, waiting, resumed>>,
           \/ origin' = origin
           \/ \E a : a \notin DOMAIN origin /\ origin' = With(origin, a, "start")
    PROVE  ServiceInv'
<1>1. (Tied /\ OneClaimant /\ NoOrphanClaim)'
  BY DEF ServiceInv, Tied, OneClaimant, NoOrphanClaim
<1>2. (Remembered /\ AtMostOnce)'
  BY DEF ServiceInv, Remembered, AtMostOnce
<1>3. \A a \in DOMAIN origin' :
         origin'[a] # "start" => a \in DOMAIN origin /\ origin'[a] = origin[a]
  BY DEF With
<1>4. DOMAIN active \subseteq issued
  BY DEF StoreInv, OneHome
<1>5. (Settled /\ ProposalOfCompletedRun)'
  BY <1>3, <1>4 DEF ServiceInv, Settled, ProposalOfCompletedRun
<1> QED BY <1>1, <1>2, <1>5 DEF ServiceInv

LEMMA ServiceInit == Init => ServiceInv
BY DEF Init, StoreInit, ServiceInv, Tied, OneClaimant, NoOrphanClaim, Remembered, AtMostOnce,
       Settled, ProposalOfCompletedRun, Empty

\* A coroutine ends and its run is no longer active.
LEMMA EndStep ==
    ASSUME StoreInv, ServiceInv, NEW h \in DOMAIN waiting, GiveUp(h), Leave(h),
           UNCHANGED <<resumed, origin>>
    PROVE  ServiceInv'
<1> DEFINE r == waiting[h].run
<1>1. /\ Frame(r) /\ r \notin DOMAIN active' /\ issued' = issued
      /\ r \in DOMAIN closed' =>
           r \in DOMAIN active \/ (r \in DOMAIN closed /\ closed'[r] = closed[r])
  BY TombstoneFrame DEF GiveUp
<1>2. /\ DOMAIN waiting' = DOMAIN waiting \ {h}
      /\ \A g \in DOMAIN waiting' : waiting'[g] = waiting[g]
      /\ waiting' = [g \in DOMAIN waiting' |-> waiting'[g]]
  BY DEF Leave, Without, Restrict
<1>3. (Tied /\ OneClaimant /\ NoOrphanClaim)'
  BY <1>1, <1>2 DEF ServiceInv, Tied, OneClaimant, NoOrphanClaim, Frame
<1>4. (Remembered /\ AtMostOnce)'
  BY <1>1 DEF ServiceInv, Remembered, AtMostOnce, Frame
<1>5. (Settled /\ ProposalOfCompletedRun)'
  BY <1>1 DEF ServiceInv, Settled, ProposalOfCompletedRun, Frame
<1> QED BY <1>3, <1>4, <1>5 DEF ServiceInv

LEMMA SubmitStep ==
    ASSUME StoreInv, ServiceInv, NEW h \in Handlers, NEW r \in RunIds, NEW t \in Tools,
           NEW c \in CallIds, Submit(h, r, t, c)
    PROVE  ServiceInv'
<1>1. /\ r \in DOMAIN Live /\ Live[r] = active[r] /\ active[r] \in StoredRun
      /\ r \in DOMAIN active /\ r \in issued
      /\ active[r].state = "pending" /\ active[r].deferred.call = c /\ c \notin active[r].seen
      /\ h \notin DOMAIN waiting
  BY SweepFacts DEF Submit, DoClaim, CanClaim
<1>2. /\ Claimed(r).state = "in_flight" /\ Claimed(r).gen = active[r].gen
      /\ Claimed(r).seen = active[r].seen /\ Claimed(r).deferred = active[r].deferred
      /\ active[r].gen \in Nat
  BY <1>1 DEF Claimed, StoredRun
<1>3. /\ Frame(r) /\ r \in DOMAIN active' /\ active'[r] = Claimed(r) /\ issued' = issued
  BY WithFrame DEF Submit, DoClaim
<1>4. /\ DOMAIN waiting' = DOMAIN waiting \cup {h}
      /\ \A g \in DOMAIN waiting' :
            waiting'[g] = IF g = h THEN [run |-> r, gen |-> active[r].gen] ELSE waiting[g]
      /\ waiting' = [g \in DOMAIN waiting' |-> waiting'[g]]
  BY <1>1 DEF Submit, With
<1>5. \A g \in DOMAIN waiting : waiting[g].run # r
  BY <1>1 DEF ServiceInv, Tied
<1>6. Tied'
  <2>1. \A g \in DOMAIN waiting' : waiting'[g] \in [run : RunIds, gen : Nat]
    BY <1>2, <1>4 DEF ServiceInv, Tied
  <2>2. \A g \in DOMAIN waiting' :
          LET w == waiting'[g] IN
          /\ w.run \in issued'
          /\ w.run \in DOMAIN active' =>
                active'[w.run].state = "in_flight" /\ active'[w.run].gen = w.gen
    BY <1>1, <1>2, <1>3, <1>4, <1>5 DEF ServiceInv, Tied, Frame
  <2>3. DOMAIN waiting' \subseteq Handlers
    BY <1>4 DEF ServiceInv, Tied
  <2> QED BY <1>4, <2>1, <2>2, <2>3 DEF Tied
<1>7. OneClaimant'
  BY <1>4, <1>5 DEF ServiceInv, OneClaimant
<1>8. NoOrphanClaim'
  <2>1. SUFFICES ASSUME NEW q \in DOMAIN active', active'[q].state = "in_flight"
                 PROVE  \E g \in DOMAIN waiting' :
                           waiting'[g] = [run |-> q, gen |-> active'[q].gen]
    BY DEF NoOrphanClaim
  <2>2. CASE q = r
    BY <1>2, <1>3, <1>4, <2>2
  <2>3. CASE q # r
    <3>1. q \in DOMAIN active /\ active'[q] = active[q]
      BY <1>3, <2>3 DEF Frame
    <3>2. PICK g \in DOMAIN waiting : waiting[g] = [run |-> q, gen |-> active[q].gen]
      BY <2>1, <3>1 DEF ServiceInv, NoOrphanClaim
    <3> QED BY <1>1, <1>4, <3>1, <3>2
  <2> QED BY <2>2, <2>3
<1>9. /\ DOMAIN resumed' = DOMAIN resumed \cup {<<r, c>>}
      /\ \A k \in DOMAIN resumed : k # <<r, c>> => resumed'[k] = resumed[k]
      /\ <<r, c>> \notin DOMAIN resumed => resumed'[<<r, c>>] = 1
  BY DEF Submit, With
<1>10. <<r, c>> \notin DOMAIN resumed
  BY <1>1 DEF ServiceInv, Remembered
<1>11. AtMostOnce'
  BY <1>9, <1>10 DEF ServiceInv, AtMostOnce
<1>12. Remembered'
  BY <1>1, <1>2, <1>3, <1>9 DEF ServiceInv, Remembered, Frame
<1>13. (Settled /\ ProposalOfCompletedRun)'
  <2>1. origin' = origin
    BY DEF Submit
  <2>2. \A a \in DOMAIN origin : origin[a] # "start" => origin[a] # r
    BY <1>1 DEF ServiceInv, ProposalOfCompletedRun
  <2> QED BY <1>3, <2>1, <2>2 DEF ServiceInv, Settled, ProposalOfCompletedRun, Frame
<1> QED BY <1>6, <1>7, <1>8, <1>11, <1>12, <1>13 DEF ServiceInv

LEMMA AskAgainStep ==
    ASSUME StoreInv, ServiceInv, NEW h \in Handlers, NEW d \in Deferred, AskAgain(h, d)
    PROVE  ServiceInv'
<1> DEFINE r == waiting[h].run
<1>1. h \in DOMAIN waiting /\ Leave(h) /\ UNCHANGED <<resumed, origin>>
  BY DEF AskAgain
<1>2. CASE GiveUp(h)
  BY <1>1, <1>2, EndStep
<1>3. CASE DoContinue(r, waiting[h].gen, d)
  <2>1. /\ r \in DOMAIN Live /\ Live[r] = active[r] /\ active[r] \in StoredRun
        /\ r \in DOMAIN active
    BY <1>3, SweepFacts DEF DoContinue, CanContinue, Holds
  <2>2. /\ Continued(r, d).state = "pending"
        /\ Continued(r, d).seen = active[r].seen \cup {active[r].deferred.call}
    BY <2>1 DEF Continued
  <2>3. Frame(r) /\ r \in DOMAIN active' /\ active'[r] = Continued(r, d) /\ issued' = issued
    BY <1>3, WithFrame DEF DoContinue
  <2>4. /\ DOMAIN waiting' = DOMAIN waiting \ {h}
        /\ \A g \in DOMAIN waiting' : waiting'[g] = waiting[g]
        /\ waiting' = [g \in DOMAIN waiting' |-> waiting'[g]]
    BY <1>1 DEF Leave, Without, Restrict
  <2>5. \A g \in DOMAIN waiting' : waiting[g].run # r
    BY <1>1, <2>4 DEF ServiceInv, OneClaimant
  <2>6. (Tied /\ OneClaimant)'
    BY <2>3, <2>4, <2>5 DEF ServiceInv, Tied, OneClaimant, Frame
  <2>7. NoOrphanClaim'
    BY <2>2, <2>3, <2>4 DEF ServiceInv, NoOrphanClaim, Frame
  <2>8. (Remembered /\ AtMostOnce)'
    BY <1>1, <2>1, <2>2, <2>3 DEF ServiceInv, Remembered, AtMostOnce, Frame
  <2>9. (Settled /\ ProposalOfCompletedRun)'
    BY <1>1, <2>1, <2>3 DEF ServiceInv, Settled, ProposalOfCompletedRun, Frame
  <2> QED BY <2>6, <2>7, <2>8, <2>9 DEF ServiceInv
<1> QED BY <1>2, <1>3 DEF AskAgain

LEMMA ProposeStep ==
    ASSUME StoreInv, ServiceInv, NEW h \in Handlers, NEW a \in ActionIds,
           NEW c \in A!Content, Propose(h, a, c)
    PROVE  ServiceInv'
<1> DEFINE r == waiting[h].run
<1>1. h \in DOMAIN waiting /\ Leave(h) /\ UNCHANGED resumed /\ a \notin DOMAIN origin
  BY DEF Propose, FreshAction
<1>2. CASE GiveUp(h) /\ origin' = origin
  BY <1>1, <1>2, EndStep
<1>3. CASE DoComplete(r, waiting[h].gen) /\ origin' = With(origin, a, r)
  <2>1. r \in DOMAIN active /\ r \in issued
    BY <1>3, SweepFacts DEF DoComplete, CanComplete, Holds
  <2>2. /\ Frame(r) /\ r \notin DOMAIN active' /\ issued' = issued
        /\ r \in DOMAIN closed' /\ closed'[r].reason = "completed"
    BY <1>3, BuryFrame DEF DoComplete
  <2>3. /\ DOMAIN waiting' = DOMAIN waiting \ {h}
        /\ \A g \in DOMAIN waiting' : waiting'[g] = waiting[g]
        /\ waiting' = [g \in DOMAIN waiting' |-> waiting'[g]]
    BY <1>1 DEF Leave, Without, Restrict
  <2>4. (Tied /\ OneClaimant /\ NoOrphanClaim)'
    BY <2>2, <2>3 DEF ServiceInv, Tied, OneClaimant, NoOrphanClaim, Frame
  <2>5. (Remembered /\ AtMostOnce)'
    BY <1>1, <2>2 DEF ServiceInv, Remembered, AtMostOnce, Frame
  <2>6. /\ DOMAIN origin' = DOMAIN origin \cup {a}
        /\ origin'[a] = r
        /\ \A b \in DOMAIN origin : origin'[b] = origin[b]
    BY <1>1, <1>3 DEF With
  <2>7. \A b \in DOMAIN origin : origin[b] # "start" => origin[b] # r
    BY <2>1 DEF ServiceInv, ProposalOfCompletedRun
  <2>8. Settled'
    BY <2>1, <2>2, <2>6 DEF ServiceInv, Settled
  <2>9. ProposalOfCompletedRun'
    BY <2>2, <2>6, <2>7 DEF ServiceInv, ProposalOfCompletedRun, Frame
  <2> QED BY <2>4, <2>5, <2>8, <2>9 DEF ServiceInv
<1> QED BY <1>2, <1>3 DEF Propose, actionVars

\* Every step of the service keeps the invariant.
LEMMA ServiceNext == StoreInv /\ ServiceInv /\ [Next]_vars => ServiceInv'
<1> SUFFICES ASSUME StoreInv, ServiceInv, [Next]_vars PROVE ServiceInv'
  OBVIOUS
<1> USE DEF actionVars, runVars
<1>1. ASSUME NEW r \in RunIds, NEW adv \in Advertisement, NEW d \in Deferred,
             StartDeferred(r, adv, d)
      PROVE  ServiceInv'
  <2>1. /\ Frame(r) /\ r \in DOMAIN active' /\ active'[r] = NewRun(adv, d)
        /\ issued' = issued \cup {r} /\ r \notin issued
        /\ UNCHANGED <<waiting, resumed, origin>>
    BY <1>1, WithFrame DEF StartDeferred, DoPut, CanPut
  <2>2. NewRun(adv, d).state = "pending"
    BY DEF NewRun
  <2>3. (Tied /\ OneClaimant /\ NoOrphanClaim)'
    BY <2>1, <2>2 DEF ServiceInv, Tied, OneClaimant, NoOrphanClaim, Frame
  <2>4. (Remembered /\ AtMostOnce)'
    BY <2>1 DEF ServiceInv, Remembered, AtMostOnce, Frame
  <2>5. (Settled /\ ProposalOfCompletedRun)'
    BY <2>1 DEF ServiceInv, Settled, ProposalOfCompletedRun, Frame
  <2> QED BY <2>3, <2>4, <2>5 DEF ServiceInv
<1>2. ASSUME NEW a \in ActionIds, NEW c \in A!Content, StartProposal(a, c)
      PROVE  ServiceInv'
  BY <1>2, IdleStep DEF StartProposal, FreshAction
<1>3. ASSUME NEW h \in Handlers, NEW r \in RunIds, NEW t \in Tools, NEW c \in CallIds,
             Submit(h, r, t, c)
      PROVE  ServiceInv'
  BY <1>3, SubmitStep
<1>4. ASSUME NEW r \in RunIds, NEW t \in Tools, NEW c \in CallIds, SubmitRefused(r, t, c)
      PROVE  ServiceInv'
  <2>1. /\ Frame(r) /\ r \notin DOMAIN active' /\ issued' = issued /\ r \in DOMAIN active
        /\ UNCHANGED <<waiting, resumed, origin>>
    BY <1>4, BuryFrame, SweepFacts DEF SubmitRefused, CanClaim
  <2>2. (Tied /\ OneClaimant /\ NoOrphanClaim)'
    BY <2>1 DEF ServiceInv, Tied, OneClaimant, NoOrphanClaim, Frame
  <2>3. (Remembered /\ AtMostOnce)'
    BY <2>1 DEF ServiceInv, Remembered, AtMostOnce, Frame
  <2>4. (Settled /\ ProposalOfCompletedRun)'
    BY <2>1 DEF ServiceInv, Settled, ProposalOfCompletedRun, Frame
  <2> QED BY <2>2, <2>3, <2>4 DEF ServiceInv
<1>5. ASSUME SubmitRejected PROVE ServiceInv'
  BY <1>5, IdleStep, SweepFrame DEF SubmitRejected, Sweep
<1>6. ASSUME NEW h \in Handlers, NEW a \in ActionIds, NEW c \in A!Content, Propose(h, a, c)
      PROVE  ServiceInv'
  BY <1>6, ProposeStep
<1>7. ASSUME NEW h \in Handlers, NEW d \in Deferred, AskAgain(h, d)
      PROVE  ServiceInv'
  BY <1>7, AskAgainStep
<1>8. ASSUME NEW h \in Handlers, ProviderFails(h) PROVE ServiceInv'
  BY <1>8, EndStep DEF ProviderFails
<1>9. ASSUME NEW a \in ActionIds, NEW v \in A!Verification, Verify(a, v)
      PROVE  ServiceInv'
  BY <1>9, IdleStep DEF Verify
<1>10. ASSUME Restart PROVE ServiceInv'
  BY <1>10 DEF Restart, DoClear, Empty, ServiceInv, Tied, OneClaimant, NoOrphanClaim,
               Remembered, AtMostOnce, Settled, ProposalOfCompletedRun
<1>11. ASSUME Tick PROVE ServiceInv'
  BY <1>11, IdleStep DEF Tick
<1>12. ASSUME UNCHANGED vars PROVE ServiceInv'
  BY <1>12, IdleStep DEF vars
<1> QED
  BY <1>1, <1>2, <1>3, <1>4, <1>5, <1>6, <1>7, <1>8, <1>9, <1>10, <1>11, <1>12 DEF Next

LEMMA Inductive == Spec => [](StoreInv /\ ServiceInv)
<1>1. Init => StoreInv /\ ServiceInv
  BY InitStoreInv, ServiceInit DEF Init
<1>2. StoreInv /\ ServiceInv /\ [Next]_vars => (StoreInv /\ ServiceInv)'
  BY StoreStep, NextStoreInv, ServiceNext DEF ServiceInv
<1> QED BY <1>1, <1>2, PTL DEF Spec

\* The provider is resumed at most once with each answer, whatever the
\* handlers, the clock, the failures and the restarts do.
THEOREM ResumedAtMostOnce == Spec => []AtMostOnce
<1>1. StoreInv /\ ServiceInv => AtMostOnce
  BY DEF ServiceInv
<1> QED BY <1>1, Inductive, PTL

\* One coroutine at most awaits the provider for a run.
THEOREM SingleClaimant == Spec => []OneClaimant
<1>1. StoreInv /\ ServiceInv => OneClaimant
  BY DEF ServiceInv
<1> QED BY <1>1, Inductive, PTL

\* A claimed run always has its coroutine.
THEOREM ClaimsHaveOwners == Spec => []NoOrphanClaim
<1>1. StoreInv /\ ServiceInv => NoOrphanClaim
  BY DEF ServiceInv
<1> QED BY <1>1, Inductive, PTL

\* Only a completed run has a proposal, and only one.
THEOREM ProposalsSettled == Spec => []ProposalOfCompletedRun
<1>1. StoreInv /\ ServiceInv => ProposalOfCompletedRun
  BY DEF ServiceInv
<1> QED BY <1>1, Inductive, PTL

(***************************************************************************)
(* The service implements ResumeOnce.                                      *)
(***************************************************************************)
Given(r) == {c \in CallIds : <<r, c>> \in DOMAIN resumed}
Ended == {q \in RunIds : Stage(q) # "new" /\ Stage(q)' = "over"}

\* A step that starts no run and changes no run it leaves active ends runs.
LEMMA EndsRuns ==
    ASSUME UNCHANGED <<issued, resumed>>,
           \A q \in DOMAIN active' : q \in DOMAIN active /\ active'[q] = active[q]
    PROVE  Promise!Next
<1>1. \A q \in RunIds : Stage(q)' = IF q \in Ended THEN "over" ELSE Stage(q)
  BY DEF Stage, Ended
<1>2. \A q \in RunIds : Given(q)' = Given(q)
  BY DEF Given
<1>3. Ended \in SUBSET Promise!Begun
  BY DEF Ended, Promise!Begun
<1>4. Promise!End(Ended)
  BY <1>1, <1>2 DEF Promise!End, Given
<1> QED BY <1>3, <1>4 DEF Promise!Next

\* A step that works on run r, leaves it active, and keeps to the frame of r.
LEMMA MovesRun ==
    ASSUME NEW r \in RunIds, Frame(r), r \in DOMAIN active', r \in issued',
           issued' = issued \/ issued' = issued \cup {r}
    PROVE  /\ Ended \in SUBSET Promise!Begun /\ r \notin Ended
           /\ Promise!Move(r, Stage(r)', Ended)
<1>1. r \notin Ended
  BY DEF Ended, Stage
<1>2. \A q \in RunIds \ {r} : Stage(q)' = IF q \in Ended THEN "over" ELSE Stage(q)
  BY DEF Stage, Ended, Frame
<1>3. \A q \in RunIds :
         Stage(q)' = IF q = r THEN Stage(r)' ELSE IF q \in Ended THEN "over" ELSE Stage(q)
  BY <1>2
<1>4. Promise!Move(r, Stage(r)', Ended)
  BY <1>3 DEF Promise!Move
<1>5. Ended \in SUBSET Promise!Begun
  BY DEF Ended, Promise!Begun
<1> QED BY <1>1, <1>4, <1>5

LEMMA PromiseNext ==
    ASSUME StoreInv, ServiceInv, [Next]_vars
    PROVE  Promise!Next \/ UNCHANGED Promise!vars
<1> USE DEF actionVars, runVars
<1>0. ASSUME NEW h \in DOMAIN waiting, GiveUp(h), resumed' = resumed PROVE Promise!Next
  <2>1. /\ Frame(waiting[h].run) /\ waiting[h].run \notin DOMAIN active' /\ issued' = issued
    BY <1>0, TombstoneFrame DEF GiveUp
  <2> QED BY <1>0, <2>1, EndsRuns DEF Frame
<1>1. ASSUME NEW r \in RunIds, NEW adv \in Advertisement, NEW d \in Deferred,
             StartDeferred(r, adv, d)
      PROVE  Promise!Next
  <2>1. /\ Frame(r) /\ r \in DOMAIN active' /\ active'[r].state = "pending"
        /\ issued' = issued \cup {r} /\ r \notin issued /\ resumed' = resumed
    BY <1>1, WithFrame DEF StartDeferred, DoPut, CanPut, NewRun
  <2>2. Stage(r) = "new" /\ Stage(r)' = "waiting"
    BY <2>1 DEF Stage
  <2>3. \A q \in RunIds : Given(q)' = Given(q)
    BY <2>1 DEF Given
  <2>4. Promise!Open(r, Ended)
    BY <2>1, <2>2, <2>3, MovesRun DEF Promise!Open, Given
  <2> QED BY <2>1, <2>4, MovesRun DEF Promise!Next
<1>2. ASSUME NEW a \in ActionIds, NEW c \in A!Content, StartProposal(a, c)
      PROVE  Promise!Next
  BY <1>2, EndsRuns DEF StartProposal
<1>3. ASSUME NEW h \in Handlers, NEW r \in RunIds, NEW t \in Tools, NEW c \in CallIds,
             Submit(h, r, t, c)
      PROVE  Promise!Next
  <2>1. /\ r \in DOMAIN active /\ active[r] \in StoredRun /\ r \in issued
        /\ active[r].state = "pending" /\ active[r].deferred.call = c /\ c \notin active[r].seen
        /\ Live[r] = active[r]
    BY <1>3, SweepFacts DEF Submit, DoClaim, CanClaim
  <2>2. /\ Frame(r) /\ r \in DOMAIN active' /\ active'[r].state = "in_flight" /\ issued' = issued
    BY <1>3, <2>1, WithFrame DEF Submit, DoClaim, Claimed, StoredRun
  <2>3. Stage(r) = "waiting" /\ Stage(r)' = "running"
    BY <2>1, <2>2 DEF Stage
  <2>4. <<r, c>> \notin DOMAIN resumed
    BY <2>1 DEF ServiceInv, Remembered
  <2>5. DOMAIN resumed' = DOMAIN resumed \cup {<<r, c>>}
    BY <1>3 DEF Submit, With
  <2>6. \A q \in RunIds : Given(q)' = IF q = r THEN Given(q) \cup {c} ELSE Given(q)
    BY <2>5 DEF Given
  <2>7. [q \in RunIds |-> Given(q)]' = [[q \in RunIds |-> Given(q)] EXCEPT ![r] = @ \cup {c}]
    BY <2>6
  <2>8. c \notin Given(r)
    BY <2>4 DEF Given
  <2>9. /\ Ended \in SUBSET Promise!Begun /\ r \notin Ended
        /\ Promise!Move(r, Stage(r)', Ended)
    BY <2>1, <2>2, MovesRun
  <2>10. PICK X \in SUBSET Promise!Begun : X = Ended
    BY <2>9
  <2>11. Promise!Answer(r, c, X) /\ r \notin X
    BY <2>3, <2>7, <2>8, <2>9, <2>10 DEF Promise!Answer, Given
  <2>12. \E e \in CallIds : Promise!Answer(r, e, X)
    BY <2>11
  <2> QED BY <2>11, <2>12 DEF Promise!Next
<1>4. ASSUME NEW r \in RunIds, NEW t \in Tools, NEW c \in CallIds, SubmitRefused(r, t, c)
      PROVE  Promise!Next
  <2>1. /\ Frame(r) /\ r \notin DOMAIN active' /\ UNCHANGED <<issued, resumed>>
    BY <1>4, BuryFrame DEF SubmitRefused
  <2> QED BY <2>1, EndsRuns DEF Frame
<1>5. ASSUME SubmitRejected PROVE Promise!Next
  BY <1>5, EndsRuns, SweepFrame DEF SubmitRejected, Sweep
<1>6. ASSUME NEW h \in Handlers, NEW a \in ActionIds, NEW c \in A!Content, Propose(h, a, c)
      PROVE  Promise!Next
  <2>1. h \in DOMAIN waiting /\ resumed' = resumed
    BY <1>6 DEF Propose
  <2>2. CASE GiveUp(h)
    BY <1>0, <2>1, <2>2
  <2>3. CASE DoComplete(waiting[h].run, waiting[h].gen)
    <3>1. /\ Frame(waiting[h].run) /\ waiting[h].run \notin DOMAIN active' /\ issued' = issued
      BY <2>3, BuryFrame DEF DoComplete
    <3> QED BY <2>1, <3>1, EndsRuns DEF Frame
  <2> QED BY <1>6, <2>2, <2>3 DEF Propose
<1>7. ASSUME NEW h \in Handlers, NEW d \in Deferred, AskAgain(h, d)
      PROVE  Promise!Next
  <2>1. h \in DOMAIN waiting /\ resumed' = resumed
    BY <1>7 DEF AskAgain
  <2>2. CASE GiveUp(h)
    BY <1>0, <2>1, <2>2
  <2>3. CASE DoContinue(waiting[h].run, waiting[h].gen, d)
    <3>1. PICK r \in RunIds : r = waiting[h].run
      BY <2>1 DEF ServiceInv, Tied
    <3>2. r \in DOMAIN active /\ r \in issued /\ active[r].state = "in_flight"
      BY <2>3, <3>1, SweepFacts DEF DoContinue, CanContinue, Holds
    <3>3. /\ Frame(r) /\ r \in DOMAIN active' /\ active'[r] = Continued(r, d)
          /\ issued' = issued
      BY <2>3, <3>1, WithFrame DEF DoContinue
    <3>4. Stage(r) = "running" /\ Stage(r)' = "waiting"
      BY <3>2, <3>3 DEF Stage, Continued
    <3>5. \A q \in RunIds : Given(q)' = Given(q)
      BY <2>1 DEF Given
    <3>6. /\ Ended \in SUBSET Promise!Begun /\ r \notin Ended
          /\ Promise!Move(r, Stage(r)', Ended)
      BY <3>2, <3>3, MovesRun
    <3>7. Promise!AskAgain(r, Ended)
      BY <3>4, <3>5, <3>6 DEF Promise!AskAgain, Given
    <3> QED BY <3>6, <3>7 DEF Promise!Next
  <2> QED BY <1>7, <2>2, <2>3 DEF AskAgain
<1>8. ASSUME NEW h \in Handlers, ProviderFails(h) PROVE Promise!Next
  BY <1>0, <1>8 DEF ProviderFails
<1>9. ASSUME NEW a \in ActionIds, NEW v \in A!Verification, Verify(a, v)
      PROVE  Promise!Next
  BY <1>9, EndsRuns DEF Verify
<1>10. ASSUME Restart PROVE Promise!Next
  BY <1>10, EndsRuns DEF Restart, DoClear, Empty
<1>11. ASSUME Tick PROVE Promise!Next
  BY <1>11, EndsRuns DEF Tick
<1>12. ASSUME UNCHANGED vars PROVE Promise!Next
  BY <1>12, EndsRuns DEF vars
<1> QED
  BY <1>1, <1>2, <1>3, <1>4, <1>5, <1>6, <1>7, <1>8, <1>9, <1>10, <1>11, <1>12 DEF Next

\* Runs, seen from outside, are answered at most once per call and end for
\* good: the store, the sweeps and the coroutines implement ResumeOnce.
THEOREM Refinement == Spec => ResumesOnce
<1>1. Init => Promise!Init
  BY DEF Init, StoreInit, Empty, Promise!Init, Stage
<1>2. StoreInv /\ ServiceInv /\ [Next]_vars => [Promise!Next]_(Promise!vars)
  BY PromiseNext
<1> QED BY <1>1, <1>2, Inductive, PTL DEF Spec, Promise!Spec, ResumesOnce

(***************************************************************************)
(* The action store under its callers (ActionStore).  Both dicts are kept  *)
(* in order, and what a sweep or an eviction leaves is chosen from them;   *)
(* what a choice is, is proved by induction over the length (UpTo).  The   *)
(* inductive invariant is RecordsInv: the types, and ActionsHeld itself.   *)
(***************************************************************************)

\* A set of natural numbers that holds zero, and with each number below n the
\* next one, holds all up to n: induction for a set, the form the provers can use.
LEMMA UpTo ==
    ASSUME NEW n \in Nat, NEW T, 0 \in T, \A i \in 0 .. n : i # 0 /\ i - 1 \in T => i \in T
    PROVE  \A i \in 0 .. n : i \in T
<1> DEFINE Out == {i \in 0 .. n : i \notin T}
<1> SUFFICES ASSUME Out # {} PROVE FALSE
    OBVIOUS
<1>1. IsWellFoundedOn(OpToRel(<, Nat), Nat)
    BY NatLessThanWellFounded
<1>2. PICK m \in Out : \A y \in Out : ~(<<y, m>> \in OpToRel(<, Nat))
    <2>1. Out \subseteq Nat
        OBVIOUS
    <2> HIDE DEF Out
    <2>. QED BY <1>1, <2>1, WFMin
<1>3. m # 0 /\ m - 1 \in 0 .. n
    OBVIOUS
<1>4. m - 1 \notin Out
    <2>1. <<m - 1, m>> \in OpToRel(<, Nat)
        BY <1>3 DEF OpToRel
    <2>. QED BY <1>2, <2>1
<1>5. m - 1 \in T
    BY <1>3, <1>4
<1>. QED BY <1>3, <1>5

\* f is the recursive function of Chosen, up to n.
IsChosen(f, s, places, n) ==
    f = [i \in 0 .. n |->
            IF i = 0 THEN <<>> ELSE IF i \in places THEN Append(f[i - 1], s[i]) ELSE f[i - 1]]

\* There is one.
LEMMA ChosenRecursion ==
    ASSUME NEW s, NEW places, NEW n \in Nat
    PROVE  \E f : IsChosen(f, s, places, n)
<1> DEFINE T == {k \in 0 .. n : \E f : IsChosen(f, s, places, k)}
<1>1. 0 \in T
    <2> DEFINE f == [i \in 0 .. 0 |-> <<>>]
    <2>1. IsChosen(f, s, places, 0)
        BY DEF IsChosen
    <2>. QED BY <2>1
<1>2. ASSUME NEW k \in 0 .. n, k # 0, k - 1 \in T
      PROVE  k \in T
    <2>1. PICK f : IsChosen(f, s, places, k - 1)
        BY <1>2
    <2> DEFINE g == [i \in 0 .. k |-> IF i \in 0 .. k - 1 THEN f[i]
                                      ELSE IF k \in places THEN Append(f[k - 1], s[k]) ELSE f[k - 1]]
    <2>2. IsChosen(g, s, places, k)
        <3>1. ASSUME NEW i \in 0 .. k, i # 0
              PROVE  g[i - 1] = f[i - 1]
            BY <3>1
        <3>2. ASSUME NEW i \in 0 .. k
              PROVE  g[i] = IF i = 0 THEN <<>>
                            ELSE IF i \in places THEN Append(g[i - 1], s[i]) ELSE g[i - 1]
            <4>1. CASE i \in 0 .. k - 1
                <5>1. f[i] = IF i = 0 THEN <<>>
                             ELSE IF i \in places THEN Append(f[i - 1], s[i]) ELSE f[i - 1]
                    BY <2>1, <4>1 DEF IsChosen
                <5>. QED BY <3>1, <4>1, <5>1
            <4>2. CASE i = k
                BY <1>2, <3>1, <4>2
            <4>. QED BY <4>1, <4>2
        <3> HIDE DEF g
        <3>3. g = [i \in 0 .. k |-> g[i]]
            BY DEF g
        <3>. QED BY <3>2, <3>3 DEF IsChosen
    <2>. QED BY <2>2
<1>3. \A k \in 0 .. n : k \in T
    <2> HIDE DEF T
    <2>. QED BY <1>1, <1>2, UpTo
<1>4. n \in T
    <2> HIDE DEF T
    <2>. QED BY <1>3
<1>. QED BY <1>4

\* What is chosen are elements of the sequence, each at most once: distinct
\* places of the choice come from distinct places of the sequence.
LEMMA ChosenFacts ==
    ASSUME NEW S, NEW s \in Seq(S), NEW places
    PROVE  /\ Chosen(s, places) \in Seq(S)
           /\ Len(Chosen(s, places)) <= Len(s)
           /\ \E h \in [DOMAIN Chosen(s, places) -> DOMAIN s \cap places] :
                /\ \A k \in DOMAIN Chosen(s, places) : Chosen(s, places)[k] = s[h[k]]
                /\ \A k, l \in DOMAIN Chosen(s, places) : h[k] = h[l] => k = l
<1>1. PICK f : IsChosen(f, s, places, Len(s)) /\ Chosen(s, places) = f[Len(s)]
    <2>1. \E f : IsChosen(f, s, places, Len(s))
        <3>1. Len(s) \in Nat
            OBVIOUS
        <3>. QED BY <3>1, ChosenRecursion
    <2>2. Chosen(s, places) = (CHOOSE f : IsChosen(f, s, places, Len(s)))[Len(s)]
        BY Zenon DEF Chosen, IsChosen
    <2>. QED BY <2>1, <2>2
<1>2. f[0] = <<>>
    BY <1>1 DEF IsChosen
<1>3. ASSUME NEW i \in 0 .. Len(s), i # 0
      PROVE  f[i] = IF i \in places THEN Append(f[i - 1], s[i]) ELSE f[i - 1]
    BY <1>1, <1>3 DEF IsChosen
<1> DEFINE From(i) == \E h \in [DOMAIN f[i] -> (1 .. i) \cap places] :
                        /\ \A k \in DOMAIN f[i] : f[i][k] = s[h[k]]
                        /\ \A k, l \in DOMAIN f[i] : h[k] = h[l] => k = l
           Good(i) == f[i] \in Seq(S) /\ Len(f[i]) <= i /\ From(i)
           T == {i \in 0 .. Len(s) : Good(i)}
<1>4. 0 \in T
    <2> DEFINE h == [k \in {} |-> 0]
    <2>1. f[0] \in Seq(S) /\ Len(f[0]) = 0 /\ DOMAIN f[0] = {}
        BY <1>2
    <2>2. h \in [DOMAIN f[0] -> (1 .. 0) \cap places]
        BY <2>1
    <2>3. From(0)
        BY <2>1, <2>2
    <2>. QED BY <2>1, <2>3
<1>5. ASSUME NEW i \in 0 .. Len(s), i # 0, i - 1 \in T
      PROVE  i \in T
    <2>1. Good(i - 1)
        BY <1>5
    <2>2. PICK h \in [DOMAIN f[i - 1] -> (1 .. i - 1) \cap places] :
                        /\ \A k \in DOMAIN f[i - 1] : f[i - 1][k] = s[h[k]]
                        /\ \A k, l \in DOMAIN f[i - 1] : h[k] = h[l] => k = l
        BY <2>1
    <2>3. CASE i \notin places
        <3>1. f[i] = f[i - 1]
            BY <1>3, <1>5, <2>3
        <3>2. h \in [DOMAIN f[i] -> (1 .. i) \cap places]
            BY <3>1, <2>2, <1>5
        <3>3. From(i)
            BY <3>1, <3>2, <2>2
        <3>4. Good(i)
            <4> HIDE DEF From
            <4>. QED BY <2>1, <3>1, <3>3
        <3> HIDE DEF Good
        <3>. QED BY <3>4
    <2>4. CASE i \in places
        <3> DEFINE n == Len(f[i - 1])
        <3>0. n \in Nat /\ n <= i - 1 /\ DOMAIN f[i - 1] = 1 .. n /\ i \in DOMAIN s /\ s[i] \in S
            BY <2>1, <1>5
        <3>1. f[i] = Append(f[i - 1], s[i])
            BY <1>3, <1>5, <2>4
        <3>2. /\ f[i] \in Seq(S) /\ Len(f[i]) = n + 1 /\ DOMAIN f[i] = 1 .. n + 1
              /\ \A k \in 1 .. n : f[i][k] = f[i - 1][k]
              /\ f[i][n + 1] = s[i]
            BY <2>1, <3>0, <3>1
        <3> DEFINE g == [k \in 1 .. n + 1 |-> IF k = n + 1 THEN i ELSE h[k]]
        <3>3. \A k \in 1 .. n : h[k] \in (1 .. i - 1) \cap places
            BY <2>2, <3>0
        <3>4. g \in [DOMAIN f[i] -> (1 .. i) \cap places]
            BY <3>0, <3>2, <3>3, <2>4
        <3>5. \A k \in DOMAIN f[i] : f[i][k] = s[g[k]]
            BY <3>0, <3>2, <2>2
        <3>6. \A k, l \in DOMAIN f[i] : g[k] = g[l] => k = l
            BY <3>0, <3>2, <3>3, <2>2
        <3>7. From(i)
            <4> HIDE DEF g
            <4>. QED BY <3>4, <3>5, <3>6
        <3>8. Good(i)
            <4> HIDE DEF From
            <4>. QED BY <3>0, <3>2, <3>7
        <3> HIDE DEF Good
        <3>. QED BY <3>8
    <2>. QED BY <2>3, <2>4
<1>6. Len(s) \in T
    <2> HIDE DEF T
    <2>1. Len(s) \in Nat /\ Len(s) \in 0 .. Len(s)
        OBVIOUS
    <2>2. \A i \in 0 .. Len(s) : i \in T
        BY <1>4, <1>5, <2>1, UpTo
    <2>. QED BY <2>1, <2>2
<1>7. DOMAIN s = 1 .. Len(s)
    OBVIOUS
<1>. QED BY <1>1, <1>6, <1>7

\* No two elements of a sequence have one id.
Distinct(s) == \A i, j \in DOMAIN s : s[i].id = s[j].id => i = j

\* A choice from distinct elements is distinct, and has the ids of its places.
LEMMA ChosenDistinct ==
    ASSUME NEW S, NEW s \in Seq(S), NEW places, Distinct(s)
    PROVE  /\ Distinct(Chosen(s, places))
           /\ Ids(Chosen(s, places)) \subseteq {s[i].id : i \in DOMAIN s \cap places}
<1>1. PICK h \in [DOMAIN Chosen(s, places) -> DOMAIN s \cap places] :
                /\ \A k \in DOMAIN Chosen(s, places) : Chosen(s, places)[k] = s[h[k]]
                /\ \A k, l \in DOMAIN Chosen(s, places) : h[k] = h[l] => k = l
    BY ChosenFacts
<1>. QED BY <1>1 DEF Distinct, Ids

\* A part of a sequence: its elements are those between the two places.
LEMMA PartFacts ==
    ASSUME NEW S, NEW s \in Seq(S), NEW m \in Nat \ {0}, NEW n \in Nat, n <= Len(s), m <= n + 1
    PROVE  /\ SubSeq(s, m, n) \in Seq(S) /\ Len(SubSeq(s, m, n)) = n - m + 1
           /\ Distinct(s) => Distinct(SubSeq(s, m, n))
           /\ Ids(SubSeq(s, m, n)) \subseteq {s[i].id : i \in m .. n}
           /\ Ids(SubSeq(s, m, n)) \subseteq Ids(s)
<1>0. PICK t : t = SubSeq(s, m, n)
    OBVIOUS
<1>1. t \in Seq(S) /\ Len(t) = n - m + 1 /\ DOMAIN t = 1 .. n - m + 1
    BY <1>0
<1>2. ASSUME NEW k \in DOMAIN t
      PROVE  t[k] = s[k + m - 1] /\ k + m - 1 \in m .. n /\ k + m - 1 \in DOMAIN s /\ k \in Nat
    BY <1>0, <1>1
<1>3. ASSUME Distinct(s), NEW k \in DOMAIN t, NEW l \in DOMAIN t, t[k].id = t[l].id
      PROVE  k = l
    <2>1. k + m - 1 = l + m - 1
        BY <1>2, <1>3 DEF Distinct
    <2>. QED BY <1>2, <2>1
<1>4. Distinct(s) => Distinct(t)
    BY <1>3 DEF Distinct
<1>5. ASSUME NEW k \in DOMAIN t
      PROVE  t[k].id \in {s[i].id : i \in m .. n} /\ t[k].id \in Ids(s)
    BY <1>2 DEF Ids
<1>6. Ids(t) \subseteq {s[i].id : i \in m .. n} /\ Ids(t) \subseteq Ids(s)
    BY <1>5 DEF Ids
<1>. QED BY <1>0, <1>1, <1>4, <1>6

\* The newest ones are some of them, no more than the limit.
LEMMA NewestFacts ==
    ASSUME NEW S, NEW s \in Seq(S)
    PROVE  /\ Newest(s) \in Seq(S) /\ Len(Newest(s)) <= RecordLimit
           /\ Ids(Newest(s)) \subseteq Ids(s)
           /\ Distinct(s) => Distinct(Newest(s))
<1> USE RecordsAssumption
<1>0. Len(s) \in Nat /\ Len(s) <= Len(s)
    OBVIOUS
<1>1. PICK m : m = IF Len(s) > RecordLimit THEN Len(s) - RecordLimit + 1 ELSE 1
    OBVIOUS
<1>2. m \in Nat \ {0} /\ m <= Len(s) + 1 /\ Len(s) - m + 1 <= RecordLimit
    BY <1>0, <1>1
<1>3. Newest(s) = SubSeq(s, m, Len(s))
    BY <1>1 DEF Newest
<1>. QED BY <1>0, <1>2, <1>3, PartFacts

\* Remembering the closed records keeps one tombstone per id.
LEMMA RememberFacts ==
    ASSUME NEW g \in Seq(RecordTombstone), NEW s \in Seq(Record), recordNow \in Nat,
           NEW reason \in {"expired", "evicted"}, Distinct(g), Distinct(s)
    PROVE  /\ Remember(g, s, reason) \in Seq(RecordTombstone)
           /\ Len(Remember(g, s, reason)) <= RecordLimit
           /\ Distinct(Remember(g, s, reason))
           /\ Ids(Remember(g, s, reason)) \subseteq Ids(g) \cup Ids(s)
<1> DEFINE old == Forget(g, Ids(s))
           new == [i \in DOMAIN s |-> Buried(s[i], reason)]
           all == old \o new
<1>1. /\ old \in Seq(RecordTombstone) /\ Distinct(old)
      /\ Ids(old) \subseteq Ids(g) \ Ids(s)
    <2>1. PICK places : places = {i \in DOMAIN g : g[i].id \notin Ids(s)}
        OBVIOUS
    <2>2. old = Chosen(g, places)
        BY <2>1 DEF Forget
    <2>3. Ids(old) \subseteq {g[i].id : i \in DOMAIN g \cap places}
        BY <2>2, ChosenDistinct
    <2>4. {g[i].id : i \in DOMAIN g \cap places} \subseteq Ids(g) \ Ids(s)
        BY <2>1 DEF Ids
    <2> HIDE DEF old
    <2>. QED BY <2>2, <2>3, <2>4, ChosenFacts, ChosenDistinct
<1>2. /\ new \in Seq(RecordTombstone) /\ Len(new) = Len(s) /\ DOMAIN new = DOMAIN s
      /\ \A i \in DOMAIN s : new[i].id = s[i].id
    <2>1. ASSUME NEW i \in DOMAIN s
          PROVE  Buried(s[i], reason) \in RecordTombstone /\ Buried(s[i], reason).id = s[i].id
        <3>1. s[i] \in Record
            OBVIOUS
        <3>. QED BY <3>1 DEF Buried, RecordTombstone, Record
    <2>2. DOMAIN s = 1 .. Len(s) /\ Len(s) \in Nat
        OBVIOUS
    <2>. QED BY <2>1, <2>2
<1> HIDE DEF old, new
<1>3. /\ all \in Seq(RecordTombstone) /\ Len(all) = Len(old) + Len(new)
      /\ \A i \in DOMAIN all :
            \/ (i \in DOMAIN old /\ all[i] = old[i])
            \/ (i - Len(old) \in DOMAIN new /\ all[i] = new[i - Len(old)])
      /\ \A i \in DOMAIN old, j \in DOMAIN new : old[i].id # new[j].id
    <2>1. \A i \in DOMAIN old, j \in DOMAIN new : old[i].id # new[j].id
        BY <1>1, <1>2 DEF Ids
    <2>2. /\ all \in Seq(RecordTombstone) /\ Len(all) = Len(old) + Len(new)
          /\ \A i \in DOMAIN all :
                \/ (i \in DOMAIN old /\ all[i] = old[i])
                \/ (i - Len(old) \in DOMAIN new /\ all[i] = new[i - Len(old)])
        <3>1. old \in Seq(RecordTombstone) /\ new \in Seq(RecordTombstone)
            BY <1>1, <1>2
        <3>2. /\ all \in Seq(RecordTombstone) /\ Len(all) = Len(old) + Len(new)
              /\ DOMAIN all = 1 .. Len(old) + Len(new)
            BY <3>1
        <3>3. ASSUME NEW i \in DOMAIN all
              PROVE  \/ (i \in DOMAIN old /\ all[i] = old[i])
                     \/ (i - Len(old) \in DOMAIN new /\ all[i] = new[i - Len(old)])
            BY <3>1, <3>2
        <3>. QED BY <3>2, <3>3
    <2>. QED BY <2>1, <2>2
<1>4. Distinct(all) /\ Ids(all) \subseteq Ids(g) \cup Ids(s)
    <2>1. Distinct(new)
        BY <1>2 DEF Distinct
    <2>2. ASSUME NEW i \in DOMAIN all, NEW j \in DOMAIN all, all[i].id = all[j].id
          PROVE  i = j
        <3>1. DOMAIN all \subseteq Nat /\ Len(old) \in Nat
            BY <1>1, <1>3
        <3>2. CASE i \in DOMAIN old /\ all[i] = old[i]
            BY <1>1, <1>3, <2>2, <3>2 DEF Distinct
        <3>3. CASE i - Len(old) \in DOMAIN new /\ all[i] = new[i - Len(old)]
            BY <1>3, <2>1, <2>2, <3>1, <3>3 DEF Distinct
        <3>. QED BY <1>3, <3>2, <3>3
    <2>3. Distinct(all)
        BY <2>2 DEF Distinct
    <2>4. Ids(new) = Ids(s)
        BY <1>2 DEF Ids
    <2>5. ASSUME NEW i \in DOMAIN all
          PROVE  all[i].id \in Ids(old) \cup Ids(new)
        BY <1>3 DEF Ids
    <2>6. Ids(all) \subseteq Ids(old) \cup Ids(new)
        BY <2>5 DEF Ids
    <2>. QED BY <1>1, <2>3, <2>4, <2>6
<1>5. Remember(g, s, reason) = Newest(all)
    BY DEF Remember, old, new
<1> HIDE DEF all
<1>. QED BY <1>3, <1>4, <1>5, NewestFacts

\* The inductive invariant of the store: its types, and what ActionsHeld says.
RecordsInv == RecordsTypeOK /\ ActionsHeld

\* The sweep: every record goes on living or is overdue, and those that are
\* overdue leave a tombstone.
LEMMA SweepRecordsFacts ==
    ASSUME RecordsInv
    PROVE  /\ LiveRecords \in Seq(Record) /\ Distinct(LiveRecords) /\ Len(LiveRecords) <= RecordLimit
           /\ RecordTombs \in Seq(RecordTombstone) /\ Distinct(RecordTombs) /\ Len(RecordTombs) <= RecordLimit
           /\ Ids(LiveRecords) \cap Ids(RecordTombs) = {}
<1> USE RecordsAssumption
<1>0. /\ records \in Seq(Record) /\ Distinct(records) /\ Len(records) <= RecordLimit
      /\ recordsGone \in Seq(RecordTombstone) /\ Distinct(recordsGone)
      /\ Ids(records) \cap Ids(recordsGone) = {} /\ recordNow \in Nat
    BY DEF RecordsInv, RecordsTypeOK, ActionsHeld, Bounded, OneRecord, Distinct
<1>1. /\ LiveRecords \in Seq(Record) /\ Len(LiveRecords) <= Len(records) /\ Distinct(LiveRecords)
      /\ Ids(LiveRecords) \subseteq {records[i].id : i \in {j \in DOMAIN records : recordNow < records[j].expires}}
    BY <1>0, ChosenFacts, ChosenDistinct DEF LiveRecords
<1>2. /\ OverdueRecords \in Seq(Record) /\ Distinct(OverdueRecords)
      /\ Ids(OverdueRecords) \subseteq {records[i].id : i \in {j \in DOMAIN records : records[j].expires <= recordNow}}
    BY <1>0, ChosenFacts, ChosenDistinct DEF OverdueRecords
<1>3. Ids(LiveRecords) \cap Ids(OverdueRecords) = {} /\ Ids(LiveRecords) \subseteq Ids(records)
    <2>1. ASSUME NEW i \in DOMAIN records
          PROVE  records[i].expires \in Nat
        <3>1. records[i] \in Record
            BY <1>0
        <3>. QED BY <3>1 DEF Record
    <2>2. \A i, j \in DOMAIN records : recordNow < records[i].expires /\ records[j].expires <= recordNow
                                            => records[i].id # records[j].id
        BY <1>0, <2>1 DEF Distinct
    <2>3. Ids(LiveRecords) \cap Ids(OverdueRecords) = {}
        BY <1>1, <1>2, <2>2
    <2>4. Ids(LiveRecords) \subseteq Ids(records)
        BY <1>1 DEF Ids
    <2>. QED BY <2>3, <2>4
<1>4. PICK g : g = Remember(recordsGone, OverdueRecords, "expired")
    OBVIOUS
<1>5. /\ g \in Seq(RecordTombstone) /\ Len(g) <= RecordLimit /\ Distinct(g)
      /\ Ids(g) \subseteq Ids(recordsGone) \cup Ids(OverdueRecords)
    BY <1>0, <1>2, <1>4, RememberFacts
<1>6. RecordTombs = Chosen(g, {i \in DOMAIN g : recordNow < g[i].at + RecordTTL})
    BY <1>4 DEF RecordTombs
<1>7. /\ RecordTombs \in Seq(RecordTombstone) /\ Len(RecordTombs) <= Len(g) /\ Distinct(RecordTombs)
      /\ Ids(RecordTombs) \subseteq Ids(g)
    <2>1. Ids(RecordTombs) \subseteq {g[i].id : i \in DOMAIN g \cap {j \in DOMAIN g : recordNow < g[j].at + RecordTTL}}
        BY <1>5, <1>6, ChosenDistinct
    <2>. QED BY <1>5, <1>6, <2>1, ChosenFacts, ChosenDistinct DEF Ids
<1>8. Len(LiveRecords) \in Nat /\ Len(records) \in Nat /\ Len(g) \in Nat /\ Len(RecordTombs) \in Nat
    BY <1>0, <1>1, <1>5, <1>7
<1>. QED BY <1>0, <1>1, <1>3, <1>5, <1>7, <1>8

\* What a new state must show for the invariant to hold in it.
LEMMA RecordsKept ==
    ASSUME recordNow' \in Nat, recordEvents' \in Nat,
           records' \in Seq(Record), Distinct(records'), Len(records') <= RecordLimit,
           recordsGone' \in Seq(RecordTombstone), Distinct(recordsGone'), Len(recordsGone') <= RecordLimit,
           Ids(records') \cap Ids(recordsGone') = {}
    PROVE  RecordsInv'
BY DEF RecordsInv, RecordsTypeOK, ActionsHeld, Bounded, OneRecord, Distinct, Ids

LEMMA SweepStep ==
    ASSUME RecordsInv, SweepRecords, UNCHANGED recordNow
    PROVE  RecordsInv'
<1>1. recordNow \in Nat /\ recordEvents \in Nat
    BY DEF RecordsInv, RecordsTypeOK
<1>. QED BY <1>1, SweepRecordsFacts, RecordsKept DEF SweepRecords

\* The oldest records, which are evicted, and those that stay are different ones.
LEMMA EvictFacts ==
    ASSUME RecordsInv
    PROVE  /\ Stay \in Seq(Record) /\ Distinct(Stay) /\ Len(Stay) + 1 <= RecordLimit
           /\ Evicted \in Seq(Record) /\ Distinct(Evicted)
           /\ Ids(Stay) \subseteq Ids(LiveRecords) /\ Ids(Evicted) \subseteq Ids(LiveRecords)
           /\ Ids(Stay) \cap Ids(Evicted) = {}
<1> USE RecordsAssumption
<1>0. PICK s : s = LiveRecords
    OBVIOUS
<1>1. s \in Seq(Record) /\ Distinct(s) /\ Len(s) <= RecordLimit /\ Len(s) \in Nat
    BY <1>0, SweepRecordsFacts
<1>2. PICK n \in 0 .. Len(s) :
          /\ Evicted = SubSeq(s, 1, n) /\ Len(s) - n + 1 <= RecordLimit
    <2>1. CASE Len(s) < RecordLimit
        <3>1. Evicted = SubSeq(s, 1, 0)
            BY <1>0, <1>1, <2>1 DEF Evicted
        <3>. QED BY <1>1, <2>1, <3>1
    <2>2. CASE Len(s) = RecordLimit
        <3>1. Evicted = SubSeq(s, 1, 1)
            BY <1>0, <1>1, <2>2 DEF Evicted
        <3>. QED BY <1>1, <2>2, <3>1
    <2>. QED BY <1>1, <2>1, <2>2
<1>3. /\ Evicted \in Seq(Record) /\ Len(Evicted) = n /\ Distinct(Evicted)
      /\ Ids(Evicted) \subseteq {s[i].id : i \in 1 .. n} /\ Ids(Evicted) \subseteq Ids(s)
    <2>1. PICK m : m = 1
        OBVIOUS
    <2>2. m \in Nat \ {0} /\ n \in Nat /\ n <= Len(s) /\ m <= n + 1 /\ Evicted = SubSeq(s, m, n)
        BY <1>1, <1>2, <2>1
    <2>3. /\ Evicted \in Seq(Record) /\ Len(Evicted) = n - m + 1 /\ Distinct(Evicted)
          /\ Ids(Evicted) \subseteq {s[i].id : i \in m .. n} /\ Ids(Evicted) \subseteq Ids(s)
        BY <1>1, <2>2, PartFacts
    <2>4. n - m + 1 = n
        BY <2>1, <2>2
    <2>. QED BY <2>1, <2>3, <2>4
<1>4. /\ Stay \in Seq(Record) /\ Len(Stay) = Len(s) - n /\ Distinct(Stay)
      /\ Ids(Stay) \subseteq {s[i].id : i \in n + 1 .. Len(s)} /\ Ids(Stay) \subseteq Ids(s)
    <2>1. n + 1 \in Nat \ {0} /\ Len(s) <= Len(s) /\ n + 1 <= Len(s) + 1 /\ Len(s) - (n + 1) + 1 = Len(s) - n
        BY <1>1
    <2>2. Stay = SubSeq(s, n + 1, Len(s))
        BY <1>0, <1>3 DEF Stay
    <2>3. PICK m : m = n + 1
        OBVIOUS
    <2>4. m \in Nat \ {0} /\ Len(s) \in Nat /\ Len(s) <= Len(s) /\ m <= Len(s) + 1 /\ Stay = SubSeq(s, m, Len(s))
        BY <1>1, <2>1, <2>2, <2>3
    <2>5. /\ Stay \in Seq(Record) /\ Len(Stay) = Len(s) - m + 1 /\ Distinct(Stay)
          /\ Ids(Stay) \subseteq {s[i].id : i \in m .. Len(s)} /\ Ids(Stay) \subseteq Ids(s)
        BY <1>1, <2>4, PartFacts
    <2>6. Len(s) - m + 1 = Len(s) - n
        BY <1>1, <2>3
    <2>. QED BY <2>3, <2>5, <2>6
<1>5. Ids(Stay) \cap Ids(Evicted) = {}
    <2>1. ASSUME NEW i \in 1 .. n, NEW j \in n + 1 .. Len(s)
          PROVE  s[i].id # s[j].id
        <3>1. i \in DOMAIN s /\ j \in DOMAIN s /\ i # j
            BY <1>1
        <3>. QED BY <1>1, <3>1 DEF Distinct
    <2>. QED BY <1>3, <1>4, <2>1
<1>6. Len(Stay) + 1 <= RecordLimit
    BY <1>1, <1>2, <1>4
<1>. QED BY <1>0, <1>3, <1>4, <1>5, <1>6

LEMMA RegisterStep ==
    ASSUME RecordsInv, NEW a \in RecordIds, NEW c \in Content, DoRegisterNew(a, c), UNCHANGED recordNow
    PROVE  RecordsInv'
<1> USE RecordsAssumption
<1>0. recordNow \in Nat /\ recordEvents \in Nat
    BY DEF RecordsInv, RecordsTypeOK
<1>1. /\ RecordTombs \in Seq(RecordTombstone) /\ Distinct(RecordTombs)
      /\ Ids(LiveRecords) \cap Ids(RecordTombs) = {}
    BY SweepRecordsFacts
<1>2. PICK r : r = NewRecord(a, c)
    OBVIOUS
<1>3. r \in Record /\ r.id = a
    <2>1. <<>> \in Seq(Receipt)
        OBVIOUS
    <2>. QED BY <1>0, <1>2, <2>1 DEF NewRecord, Record
<1>4. a \notin Ids(LiveRecords) /\ records' = Append(Stay, r) /\ recordEvents' = recordEvents
    BY <1>2 DEF DoRegisterNew
<1>5. /\ records' \in Seq(Record) /\ Len(records') = Len(Stay) + 1 /\ DOMAIN records' = 1 .. Len(Stay) + 1
      /\ \A i \in DOMAIN Stay : records'[i] = Stay[i]
      /\ records'[Len(Stay) + 1] = r /\ DOMAIN Stay = 1 .. Len(Stay) /\ Len(Stay) \in Nat
    BY <1>3, <1>4, EvictFacts
<1>6. Distinct(records') /\ Ids(records') \subseteq Ids(Stay) \cup {a}
    <2>1. \A i \in DOMAIN Stay : Stay[i].id # a
        BY <1>4, EvictFacts DEF Ids
    <2>2. Distinct(records')
        BY <1>3, <1>5, <2>1, EvictFacts DEF Distinct
    <2>3. Ids(records') \subseteq Ids(Stay) \cup {a}
        BY <1>3, <1>5 DEF Ids
    <2>. QED BY <2>2, <2>3
<1>7. PICK g : g = Remember(RecordTombs, Evicted, "evicted")
    OBVIOUS
<1>8. /\ g \in Seq(RecordTombstone) /\ Len(g) <= RecordLimit /\ Distinct(g)
      /\ Ids(g) \subseteq Ids(RecordTombs) \cup Ids(Evicted)
    BY <1>0, <1>1, <1>7, EvictFacts, RememberFacts
<1>9. recordsGone' = Chosen(g, {i \in DOMAIN g : g[i].id \notin {a}})
    BY <1>7 DEF DoRegisterNew, Forget
<1>10. /\ recordsGone' \in Seq(RecordTombstone) /\ Len(recordsGone') <= Len(g) /\ Distinct(recordsGone')
       /\ Ids(recordsGone') \subseteq Ids(g) \ {a}
    <2>1. Ids(recordsGone') \subseteq {g[i].id : i \in DOMAIN g \cap {j \in DOMAIN g : g[j].id \notin {a}}}
        BY <1>8, <1>9, ChosenDistinct
    <2>. QED BY <1>8, <1>9, <2>1, ChosenFacts, ChosenDistinct DEF Ids
<1>11. Ids(records') \cap Ids(recordsGone') = {}
    BY <1>1, <1>6, <1>8, <1>10, EvictFacts
<1>12. Len(records') <= RecordLimit /\ Len(recordsGone') <= RecordLimit
    BY <1>5, <1>8, <1>10, EvictFacts
<1>. QED BY <1>0, <1>4, <1>5, <1>6, <1>10, <1>11, <1>12, RecordsKept

LEMMA CompleteStep ==
    ASSUME RecordsInv, NEW a \in RecordIds, NEW v \in Verification, DoCompleteRecord(a, v), UNCHANGED recordNow
    PROVE  RecordsInv'
<1>0. recordNow \in Nat /\ recordEvents \in Nat
    BY DEF RecordsInv, RecordsTypeOK
<1>1. PICK s : s = LiveRecords
    OBVIOUS
<1>2. s \in Seq(Record) /\ Distinct(s) /\ Len(s) <= RecordLimit
    BY <1>1, SweepRecordsFacts
<1>3. records' = [i \in DOMAIN s |-> IF s[i].id = a THEN WithReceipt(s[i], v) ELSE s[i]]
    BY <1>1 DEF DoCompleteRecord
<1>4. ASSUME NEW r \in Record
      PROVE  WithReceipt(r, v) \in Record /\ WithReceipt(r, v).id = r.id
    <2>1. PICK m : m = [verification |-> v, event |-> recordEvents + 1]
        OBVIOUS
    <2>2. m \in Receipt
        BY <1>0, <2>1 DEF Receipt
    <2>3. <<m>> \in Seq(Receipt)
        BY <2>2
    <2>4. WithReceipt(r, v) = [r EXCEPT !.receipt = <<m>>]
        BY <2>1 DEF WithReceipt
    <2>. QED BY <2>3, <2>4 DEF Record
<1>5. \A i \in DOMAIN s : s[i] \in Record
    BY <1>2
<1>6. /\ DOMAIN records' = DOMAIN s
      /\ \A i \in DOMAIN s : records'[i] \in Record /\ records'[i].id = s[i].id
    BY <1>3, <1>4, <1>5
<1>7. records' \in Seq(Record) /\ Len(records') = Len(s)
    <2>1. \A i \in 1 .. Len(s) : records'[i] \in Record
        BY <1>2, <1>6
    <2>2. records' = [i \in 1 .. Len(s) |-> records'[i]]
        BY <1>2, <1>3
    <2>3. Len(s) \in Nat
        BY <1>2
    <2> HIDE DEF DoCompleteRecord
    <2>. QED BY <2>1, <2>2, <2>3
<1>8. Distinct(records') /\ Ids(records') = Ids(s)
    BY <1>2, <1>6 DEF Distinct, Ids
<1>9. recordsGone' = RecordTombs /\ recordEvents' = recordEvents + 1
    BY DEF DoCompleteRecord
<1>. QED BY <1>0, <1>1, <1>2, <1>7, <1>8, <1>9, SweepRecordsFacts, RecordsKept

\* A restart, a method that clears both dicts, and the clock.
LEMMA OtherRecordsStep ==
    ASSUME RecordsInv, (DoClearRecords /\ UNCHANGED recordNow) \/ RecordsTick \/ UNCHANGED recordVars
    PROVE  RecordsInv'
<1> USE RecordsAssumption
<1>1. /\ records \in Seq(Record) /\ Distinct(records) /\ Len(records) <= RecordLimit
      /\ recordsGone \in Seq(RecordTombstone) /\ Distinct(recordsGone) /\ Len(recordsGone) <= RecordLimit
      /\ Ids(records) \cap Ids(recordsGone) = {} /\ recordNow \in Nat /\ recordEvents \in Nat
    BY DEF RecordsInv, RecordsTypeOK, ActionsHeld, Bounded, OneRecord, Distinct
<1>2. CASE DoClearRecords /\ UNCHANGED recordNow
    <2>1. records' = <<>> /\ recordsGone' = <<>> /\ recordNow' \in Nat /\ recordEvents' \in Nat
        BY <1>1, <1>2 DEF DoClearRecords
    <2>2. /\ records' \in Seq(Record) /\ Len(records') = 0 /\ recordsGone' \in Seq(RecordTombstone)
          /\ Len(recordsGone') = 0 /\ DOMAIN records' = {} /\ DOMAIN recordsGone' = {} /\ 0 <= RecordLimit
        BY <2>1
    <2>3. Distinct(records') /\ Distinct(recordsGone') /\ Ids(records') = {}
        BY <2>2 DEF Distinct, Ids
    <2>. QED BY <2>1, <2>2, <2>3, RecordsKept
<1>3. CASE RecordsTick \/ UNCHANGED recordVars
    <2>1. records' = records /\ recordsGone' = recordsGone /\ recordNow' \in Nat /\ recordEvents' \in Nat
        BY <1>1, <1>3 DEF RecordsTick, recordVars
    <2>. QED BY <1>1, <2>1, RecordsKept
<1>. QED BY <1>2, <1>3

LEMMA RecordsInductive == RecordsSpec => []RecordsInv
<1> USE RecordsAssumption
<1>1. RecordsInit => RecordsInv
    BY DEF RecordsInit, RecordsInv, RecordsTypeOK, ActionsHeld, Bounded, OneRecord, Ids
<1>2. RecordsInv /\ [RecordsNext]_recordVars => RecordsInv'
    <2> SUFFICES ASSUME RecordsInv, [RecordsNext]_recordVars PROVE RecordsInv'
        OBVIOUS
    <2>1. CASE Register
        BY <2>1, RegisterStep, SweepStep DEF Register, DoRegister
    <2>2. CASE CompleteRecord
        BY <2>2, CompleteStep DEF CompleteRecord
    <2>3. CASE Look
        BY <2>3, SweepStep DEF Look
    <2>4. CASE ClearRecords
        BY <2>4, OtherRecordsStep DEF ClearRecords
    <2>5. CASE RecordsTick
        BY <2>5, OtherRecordsStep
    <2>6. CASE UNCHANGED recordVars
        BY <2>6, OtherRecordsStep
    <2>. QED BY <2>1, <2>2, <2>3, <2>4, <2>5, <2>6 DEF RecordsNext
<1>. QED BY <1>1, <1>2, PTL DEF RecordsSpec

\* The action store has what its types say: records, tombstones with one of two
\* reasons, receipts of verified completions.
THEOREM RecordsTypeCorrect == RecordsSpec => []RecordsTypeOK
<1>1. RecordsInv => RecordsTypeOK
    BY DEF RecordsInv
<1>. QED BY <1>1, RecordsInductive, PTL

\* However registrations, evictions, expiry and reuse of an id alternate, neither
\* dict outgrows the maximum and an id is live or remembered, once.
THEOREM RecordsHeld == RecordsSpec => []ActionsHeld
<1>1. RecordsInv => ActionsHeld
    BY DEF RecordsInv
<1>. QED BY <1>1, RecordsInductive, PTL
=============================================================================
