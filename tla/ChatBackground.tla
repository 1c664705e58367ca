-------------------------- MODULE ChatBackground --------------------------
(***************************************************************************)
(* Chat runs in the background and their progress streams                  *)
(* (services/api/orbit_api/agent/chat.py: _BackgroundChatRun and the       *)
(* background half of ChatRunService; main.py: get_chat_run and            *)
(* get_chat_run_events).                                                   *)
(*                                                                         *)
(* A background run is an asyncio task.  Clients poll its status, and any  *)
(* number of server-sent event streams read its progress; all streams of a *)
(* run share one asyncio.Event, which every reader clears for itself and   *)
(* which wakes every reader that waits.  The run object outlives its entry *)
(* in the service's map: the task and the streams still refer to it.       *)
(*                                                                         *)
(* Three things end a run: its task returns or raises, its own timer fires *)
(* after the TTL, or a later request sweeps the map and cancels the task.  *)
(***************************************************************************)
EXTENDS Naturals, SequencesExt, Dict

CONSTANTS
    RunIds,     \* ids of background runs; a UUID is never reused
    Streams,    \* event streams
    TTL,        \* CHAT_RUN_TTL_SECONDS
    MaxEvents,  \* the cap on progress events (1000 in the code)
    MaxTombs,   \* the cap on expired ids (256 in the code)
    LastStart,  \* no run is started later (model checking only)
    MaxTime     \* bound on the clock (model checking only)

ASSUME TTLAssumption == TTL \in Nat \ {0}
ASSUME BoundsAssumption ==
    /\ MaxEvents \in Nat /\ MaxTombs \in Nat
    /\ LastStart \in Nat /\ MaxTime \in Nat /\ LastStart + TTL < MaxTime

VARIABLES
    now,
    runs,        \* run id -> _BackgroundChatRun, kept here after it left the map
    background,  \* ids in ChatRunService._background
    expired,     \* ChatRunService._background_expired, in insertion order
    streams,     \* open and ended event streams
    polled       \* history: run id -> what the client was last told

backgroundVars == <<now, runs, background, expired, streams, polled>>

Outcomes == {"none", "result", "failed", "expired", "cancelled"}
Run == [started : Nat, task : {"running", "cancelling", "done"},
        events : 0 .. MaxEvents, outcome : Outcomes]

\* "opening": the response was promised, the generator has not run yet;
\* "reading"; "waiting" for the event; "ended" with the done event;
\* "broken" off because the run had gone when the generator first ran.
Stream == [run : RunIds, index : Nat,
           pc : {"opening", "reading", "waiting", "ended", "broken"}]

BackgroundInit ==
    /\ now = 0
    /\ runs = Empty
    /\ background = {}
    /\ expired = <<>>
    /\ streams = Empty
    /\ polled = Empty

ExpiredIds == {expired[i].id : i \in DOMAIN expired}

(***************************************************************************)
(* wake.set() resolves the future of every stream that waits; a stream     *)
(* that is still reading looks at the run again before it waits.           *)
(***************************************************************************)
Woken(r) ==
    [s \in DOMAIN streams |->
        IF streams[s].run = r /\ streams[s].pc = "waiting"
        THEN [streams[s] EXCEPT !.pc = "reading"] ELSE streams[s]]

(***************************************************************************)
(* _cleanup_background, first in every request                             *)
(***************************************************************************)
Stale == {r \in background : now - runs[r].started > TTL}

\* fault: the task of a swept run goes on
SweptRunsWithoutCancel == runs
SweptRuns ==
    [r \in DOMAIN runs |->
        IF r \in Stale /\ runs[r].task = "running"
        THEN [runs[r] EXCEPT !.task = "cancelling"] ELSE runs[r]]

\* The tombstones are in order of time: too old ones, and then those beyond the
\* cap, are dropped from the front.
TombsWithStale ==
    LET ids == SetToSeq(Stale)
    IN  expired \o [i \in DOMAIN ids |-> [id |-> ids[i], at |-> now]]
Dropped ==
    {i \in DOMAIN TombsWithStale :
        now - TombsWithStale[i].at > TTL \/ Len(TombsWithStale) - i >= MaxTombs}
SweptTombs == SubSeq(TombsWithStale, Cardinality(Dropped) + 1, Len(TombsWithStale))
SweptIds == {SweptTombs[i].id : i \in DOMAIN SweptTombs}

Known == background \ Stale

(***************************************************************************)
(* POST /v1/chat/runs with execution_mode = "background"                   *)
(***************************************************************************)
Start(r) ==
    /\ r \notin DOMAIN runs
    /\ now <= LastStart
    /\ runs' = With(SweptRuns, r, [started |-> now, task |-> "running",
                                   events |-> 0, outcome |-> "none"])
    /\ background' = Known \cup {r}
    /\ expired' = SweptTombs
    /\ UNCHANGED <<now, streams, polled>>

(***************************************************************************)
(* The task: _run_background                                               *)
(***************************************************************************)

\* emit: past the cap, progress is dropped silently.
\* fault: a progress event does not wake the streams
EmitSilently(r) ==
    /\ r \in DOMAIN runs /\ runs[r].task = "running"
    /\ runs[r].events < MaxEvents
    /\ runs' = [runs EXCEPT ![r].events = @ + 1]
    /\ UNCHANGED <<now, streams, background, expired, polled>>
Emit(r) ==
    /\ r \in DOMAIN runs /\ runs[r].task = "running"
    /\ runs[r].events < MaxEvents
    /\ runs' = [runs EXCEPT ![r].events = @ + 1]
    /\ streams' = Woken(r)
    /\ UNCHANGED <<now, background, expired, polled>>

\* The finally clause: done, and everybody who waits is told.
\* fault: the streams are not woken at the end
EndSilently(r, outcome) ==
    runs' = [runs EXCEPT ![r].task = "done", ![r].outcome = outcome] /\ UNCHANGED streams
End(r, outcome) ==
    /\ runs' = [runs EXCEPT ![r].task = "done", ![r].outcome = outcome]
    /\ streams' = Woken(r)

\* _start_sync returned a reply or the first deferred call, or raised.
Return(r) ==
    /\ r \in DOMAIN runs /\ runs[r].task = "running"
    /\ End(r, "result") \/ End(r, "failed")
    /\ UNCHANGED <<now, background, expired, polled>>

\* asyncio.timeout: the run's own deadline.
Timer(r) ==
    /\ r \in DOMAIN runs /\ runs[r].task = "running"
    /\ now - runs[r].started >= TTL
    /\ End(r, "expired")
    /\ background' = background \ {r}
    /\ expired' = Append(expired, [id |-> r, at |-> now])   \* a running task has no entry yet
    /\ UNCHANGED <<now, polled>>

\* CancelledError after task.cancel()
Cancelled(r) ==
    /\ r \in DOMAIN runs /\ runs[r].task = "cancelling"
    /\ End(r, "cancelled")
    /\ UNCHANGED <<now, background, expired, polled>>

(***************************************************************************)
(* GET /v1/chat/runs/{run_id}: background_status                           *)
(***************************************************************************)
Status(r) ==
    IF r \notin Known
    THEN IF r \in SweptIds THEN "expired" ELSE "unknown"
    ELSE CASE runs[r].outcome \in {"failed", "cancelled", "expired"} -> "failed"
           [] runs[r].outcome = "none" -> "background"
           [] OTHER -> "result"

Sweep ==
    /\ runs' = SweptRuns
    /\ background' = Known
    /\ expired' = SweptTombs

Poll(r) ==
    /\ r \in DOMAIN runs
    /\ Sweep
    /\ polled' = With(polled, r, Status(r))
    /\ UNCHANGED <<now, streams>>

(***************************************************************************)
(* GET /v1/chat/runs/{run_id}/events: background_events                    *)
(***************************************************************************)

\* The endpoint creates the generator, which does not run yet, and asks for
\* the status, so that an unknown run is refused before the response starts.
Open(s, r) ==
    /\ s \notin DOMAIN streams
    /\ r \in DOMAIN runs
    /\ Status(r) \in {"background", "result"}
    /\ Sweep
    /\ streams' = With(streams, s, [run |-> r, index |-> 0, pc |-> "opening"])
    /\ UNCHANGED <<now, polled>>

StreamAt(s, pc) == s \in DOMAIN streams /\ streams[s].pc = pc
Moves(s, pc) == streams' = [streams EXCEPT ![s].pc = pc]

\* The first step of the generator looks the run up again.
BeginStream(s) ==
    /\ StreamAt(s, "opening")
    /\ Sweep
    /\ Moves(s, IF streams[s].run \in Known THEN "reading" ELSE "broken")
    /\ UNCHANGED <<now, polled>>

\* One pass of the loop up to its next suspension: an event is sent, the
\* stream ends, or it clears the event and waits.
Read(s) ==
    /\ StreamAt(s, "reading")
    /\ LET run == runs[streams[s].run] IN
         \/ /\ streams[s].index < run.events
            /\ streams' = [streams EXCEPT ![s].index = @ + 1]
         \/ /\ streams[s].index = run.events
            /\ Moves(s, IF run.task = "done" THEN "ended" ELSE "waiting")
    /\ UNCHANGED <<now, runs, background, expired, polled>>

\* The client closes the connection.
Disconnect(s) ==
    /\ s \in DOMAIN streams
    /\ streams' = Without(streams, s)
    /\ UNCHANGED <<now, runs, background, expired, polled>>

(***************************************************************************)
(* clear_background, when the application starts or stops, and time        *)
(***************************************************************************)
ClearBackground ==
    /\ runs' = [r \in DOMAIN runs |->
                  IF r \in background /\ runs[r].task = "running"
                  THEN [runs[r] EXCEPT !.task = "cancelling"] ELSE runs[r]]
    /\ background' = {}
    /\ expired' = <<>>
    /\ UNCHANGED <<now, streams, polled>>

Tick ==
    /\ now < MaxTime
    /\ now' = now + 1
    /\ UNCHANGED <<runs, background, expired, streams, polled>>

BackgroundNext ==
    \/ \E r \in RunIds : Start(r) \/ Emit(r) \/ Return(r) \/ Timer(r) \/ Cancelled(r) \/ Poll(r)
    \/ \E s \in Streams, r \in RunIds : Open(s, r)
    \/ \E s \in Streams : BeginStream(s) \/ Read(s) \/ Disconnect(s)
    \/ ClearBackground
    \/ Tick

\* The event loop runs what is ready: a cancelled task, a fired timer, a woken
\* stream; and time passes.  Nothing is assumed of the provider, of clients, or
\* of later requests.
BackgroundFairness ==
    /\ WF_backgroundVars(Tick)
    /\ \A r \in RunIds : WF_backgroundVars(Timer(r)) /\ WF_backgroundVars(Cancelled(r))
    /\ \A s \in Streams : WF_backgroundVars(BeginStream(s)) /\ WF_backgroundVars(Read(s))

BackgroundSpec == BackgroundInit /\ [][BackgroundNext]_backgroundVars /\ BackgroundFairness

(***************************************************************************)
(* Properties                                                              *)
(***************************************************************************)
BackgroundTypeOK ==
    /\ now \in 0 .. MaxTime
    /\ DOMAIN runs \subseteq RunIds /\ \A r \in DOMAIN runs : runs[r] \in Run
    /\ background \subseteq DOMAIN runs
    /\ \A i \in DOMAIN expired : expired[i] \in [id : RunIds, at : Nat]
    /\ DOMAIN streams \subseteq Streams /\ \A s \in DOMAIN streams : streams[s] \in Stream
    /\ DOMAIN polled \subseteq DOMAIN runs
    /\ \A r \in DOMAIN runs : runs[r].task = "done" <=> runs[r].outcome # "none"

\* No lost wakeup between the clear() of a stream and the set() of the task: a
\* stream waits only while there is nothing to send and more may come, and when
\* it says `done` it has sent every event of the run.
NoLostWakeup ==
    \A s \in DOMAIN streams :
        LET run == runs[streams[s].run] IN
        streams[s].pc \in {"waiting", "ended"} =>
            /\ streams[s].index = run.events
            /\ (streams[s].pc = "ended") = (run.task = "done")

\* What a client is told about a run only moves forward: a result is not taken
\* back, an expired run does not come back, a forgotten one is not remembered.
Rank(s) == CASE s = "background" -> 0 [] s \in {"result", "failed"} -> 1
             [] s = "expired" -> 2 [] s = "unknown" -> 3
AnswersMoveForward ==
    [][\A r \in DOMAIN polled :
         polled'[r] # polled[r] => Rank(polled'[r]) > Rank(polled[r])]_backgroundVars

\* The lifetime is enforced even when no client polls again
\* (_run_background's comment): the task of every run comes to its end.
EveryRunEnds ==
    \A r \in RunIds : (r \in DOMAIN runs) ~> (r \in DOMAIN runs /\ runs[r].task = "done")

\* No progress stream hangs: it ends, is broken off, or the client leaves.
EveryStreamEnds ==
    \A s \in Streams :
        [](StreamAt(s, "opening") => <>(s \notin DOMAIN streams \/ StreamAt(s, "ended") \/ StreamAt(s, "broken")))
=============================================================================
