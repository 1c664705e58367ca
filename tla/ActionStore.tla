---------------------------- MODULE ActionStore ----------------------------
(***************************************************************************)
(* The process-memory store of proposed actions and their completion       *)
(* receipts (services/api/orbit_api/agent/actions.py, class ActionStore).  *)
(*                                                                         *)
(* Both OrderedDicts are sequences of records, oldest first.  Every method *)
(* runs under the store's lock and is one step; sweeping is lazy.  An      *)
(* action id may be registered again: the fixture backend derives it from  *)
(* the event (agent/fixture.py), the other backends draw a UUID.           *)
(*                                                                         *)
(* A proposal together with its source event is a Content: the place is    *)
(* the scenario and campus that a verification must repeat, write says     *)
(* that the proposal is an external library write.                         *)
(***************************************************************************)
EXTENDS Naturals, Sequences, Lists

CONSTANTS
    RecordIds,      \* action identifiers
    RecordPlaces,   \* scenario and campus of an event
    RecordNotes,    \* the free text a verification carries
    RecordTTL,      \* ttl_seconds
    RecordLimit,    \* max_records
    RecordMaxTime,  \* bound on the clock (model checking only)
    RecordEvents    \* bound on the completion events (model checking only)

\* ActionStore.__init__ raises otherwise.
ASSUME RecordsAssumption == RecordTTL \in Nat \ {0} /\ RecordLimit \in Nat \ {0}

VARIABLES
    recordNow,    \* the monotonic clock
    records,      \* _active, in order of registration
    recordsGone,  \* _closed, in order of closing
    recordEvents  \* completion events produced so far; the count names the next one

recordVars == <<recordNow, records, recordsGone, recordEvents>>

Content == [place : RecordPlaces, write : BOOLEAN]
Verification == [place : RecordPlaces, approved : BOOLEAN, completed : BOOLEAN, notes : RecordNotes]
\* The verification and the completion of a record, absent until complete().
Receipt == [verification : Verification, event : Nat \ {0}]
Record == [id : RecordIds, content : Content, expires : Nat, receipt : Seq(Receipt)]
RecordTombstone == [id : RecordIds, reason : {"expired", "evicted"}, at : Nat]

Ids(s) == {s[i].id : i \in DOMAIN s}
RecordOf(s, a) == s[CHOOSE i \in DOMAIN s : s[i].id = a]

(***************************************************************************)
(* Sweeping.  Tombstones are trimmed to the newest RecordLimit, so that    *)
(* the answer "expired" can itself be forgotten and become "unknown".      *)
(***************************************************************************)
Newest(s) == SubSeq(s, IF Len(s) > RecordLimit THEN Len(s) - RecordLimit + 1 ELSE 1, Len(s))

Buried(r, reason) == [id |-> r.id, reason |-> reason, at |-> recordNow]
Forget(g, ids) == Chosen(g, {i \in DOMAIN g : g[i].id \notin ids})

\* _remember_closed_locked for each of the records of s, in their order
Remember(g, s, reason) ==
    Newest(Forget(g, Ids(s)) \o [i \in DOMAIN s |-> Buried(s[i], reason)])

LiveRecords == Chosen(records, {i \in DOMAIN records : recordNow < records[i].expires})
OverdueRecords == Chosen(records, {i \in DOMAIN records : records[i].expires <= recordNow})
RecordTombs ==
    LET g == Remember(recordsGone, OverdueRecords, "expired")
    IN Chosen(g, {i \in DOMAIN g : recordNow < g[i].at + RecordTTL})

\* A method that only reads, or that raises.
SweepRecords == records' = LiveRecords /\ recordsGone' = RecordTombs /\ UNCHANGED recordEvents

(***************************************************************************)
(* The methods                                                             *)
(***************************************************************************)

\* register, the id being free: the oldest records make room, completed or not.
Evicted == SubSeq(LiveRecords, 1, Len(LiveRecords) + 1 - RecordLimit)
Stay == SubSeq(LiveRecords, Len(Evicted) + 1, Len(LiveRecords))

NewRecord(a, c) == [id |-> a, content |-> c, expires |-> recordNow + RecordTTL, receipt |-> <<>>]

\* fault: the tombstone of a reused id stays
RegisterKeepsTombstone(a, c) ==
    /\ a \notin Ids(LiveRecords)
    /\ records' = Append(Stay, NewRecord(a, c))
    /\ recordsGone' = Remember(RecordTombs, Evicted, "evicted")
    /\ UNCHANGED recordEvents

DoRegisterNew(a, c) ==
    /\ a \notin Ids(LiveRecords)
    /\ records' = Append(Stay, NewRecord(a, c))
    /\ recordsGone' = Forget(Remember(RecordTombs, Evicted, "evicted"), {a})
    /\ UNCHANGED recordEvents

\* register of an id in use: the same content is answered from the record,
\* another content is an ActionConflictError.  The store is only swept.
DoRegister(a, c) == IF a \in Ids(LiveRecords) THEN SweepRecords ELSE DoRegisterNew(a, c)

\* complete, first time: the checks in the order of the code.
CanCompleteRecord(a, v) ==
    /\ a \in Ids(LiveRecords)
    /\ LET r == RecordOf(LiveRecords, a) IN
         /\ r.receipt = <<>>
         /\ v.place = r.content.place
         /\ v.approved
         /\ v.completed
         /\ ~r.content.write

WithReceipt(r, v) == [r EXCEPT !.receipt = <<[verification |-> v, event |-> recordEvents + 1]>>]

DoCompleteRecord(a, v) ==
    /\ CanCompleteRecord(a, v)
    /\ LET s == LiveRecords
       IN records' = [i \in DOMAIN s |-> IF s[i].id = a THEN WithReceipt(s[i], v) ELSE s[i]]
    /\ recordsGone' = RecordTombs
    /\ recordEvents' = recordEvents + 1

\* clear
DoClearRecords == records' = <<>> /\ recordsGone' = <<>> /\ UNCHANGED recordEvents

(***************************************************************************)
(* The store under its callers: POST /v1/actions/propose and /verify       *)
(***************************************************************************)
RecordsInit == recordNow = 0 /\ records = <<>> /\ recordsGone = <<>> /\ recordEvents = 0

\* AgentService.handle_event, AgentRunService.start
Register == \E a \in RecordIds, c \in Content : DoRegister(a, c) /\ UNCHANGED recordNow
\* AgentService.verify_result
CompleteRecord == \E a \in RecordIds, v \in Verification :
                recordEvents < RecordEvents /\ DoCompleteRecord(a, v) /\ UNCHANGED recordNow
\* get, an exact retry of complete (answered from the receipt), any error
Look == SweepRecords /\ UNCHANGED recordNow
ClearRecords == DoClearRecords /\ UNCHANGED recordNow
RecordsTick ==
    /\ recordNow < RecordMaxTime
    /\ recordNow' = recordNow + 1
    /\ UNCHANGED <<records, recordsGone, recordEvents>>

RecordsNext == Register \/ CompleteRecord \/ Look \/ ClearRecords \/ RecordsTick
RecordsSpec == RecordsInit /\ [][RecordsNext]_recordVars

(***************************************************************************)
(* Properties                                                              *)
(***************************************************************************)

RecordsTypeOK ==
    /\ recordNow \in Nat /\ recordEvents \in Nat
    /\ records \in Seq(Record)
    /\ recordsGone \in Seq(RecordTombstone)

\* Neither dict outgrows max_records, although expiry moves records from one
\* to the other in batches and eviction adds to both.
Bounded == Len(records) <= RecordLimit /\ Len(recordsGone) <= RecordLimit

\* An id has one record or one tombstone, never two of them: register drops the
\* tombstone of an id it brings back, so a live action is never called expired.
OneRecord ==
    /\ \A i, j \in DOMAIN records : records[i].id = records[j].id => i = j
    /\ \A i, j \in DOMAIN recordsGone : recordsGone[i].id = recordsGone[j].id => i = j
    /\ Ids(records) \cap Ids(recordsGone) = {}

\* Both, of the two dicts that register, evict and expire move ids between (ActionStore).
ActionsHeld == Bounded /\ OneRecord
=============================================================================
