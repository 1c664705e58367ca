----------------------------- MODULE ChatRuns -----------------------------
(***************************************************************************)
(* A chat turn that reads through the student's browser                    *)
(* (services/api/orbit_api/agent/chat.py: ChatRunStore, ChatRunService;    *)
(* pydantic_ai_backend.py: _chat_execution, resume_chat).                  *)
(*                                                                         *)
(* A turn is one linear chain of tool calls.  The provider asks for a call *)
(* and is suspended as a checkpoint; the client answers; the provider is   *)
(* resumed with the answer and drafts a reply or asks for the next call.   *)
(* Two layers guard the chain: the backend refuses a bad request of the    *)
(* model (_chat_execution), and the store refuses a checkpoint that        *)
(* disagrees with the one before it (continue_run).                        *)
(*                                                                         *)
(* The three public library tools stand for the catalog: search and read   *)
(* return opaque references, read and options consume them.  Server tools  *)
(* run inside the provider's turn and show only in the budget they use.    *)
(* unused_search_tools and selected_client_tools are bookkeeping computed  *)
(* from the catalog and are left out, as are the checks on them.           *)
(***************************************************************************)
EXTENDS Naturals, FiniteSets, Dict

CONSTANTS
    ChatRunIds,    \* a run id is a UUID and is never reused
    ChatCallIds,   \* tool call ids, chosen by the provider
    Refs,          \* opaque references to library records
    ChatHandlers,  \* concurrent submit_tool_result requests
    MaxToolCalls,  \* CHAT_MAX_TOOL_CALLS
    ChatRunTTL,    \* CHAT_RUN_TTL_SECONDS
    ChatMaxTime    \* bound on the clock (model checking only)

ASSUME ChatRunTTLAssumption == ChatRunTTL \in Nat \ {0}
ASSUME MaxToolCallsAssumption == MaxToolCalls \in Nat \ {0}
ASSUME ChatMaxTimeAssumption == ChatMaxTime \in Nat

VARIABLES
    chatNow, chatActive, chatClosed, chatIssued,  \* ChatRunStore, as in RunStore
    chatWaiting,  \* handler -> what submit_tool_result holds while it awaits the provider
    receipts,  \* ChatRunService._tool_receipts : run id -> call id of the evidence
    answered,  \* history: run -> calls whose answer the provider was given
    executed,  \* history: run -> tools run for it so far, on the server or the client
    told,      \* history: run -> references the client said can be acted on
    proposed   \* history: <<run, reference>> of the proposals sent to the student

chatStoreVars == <<chatActive, chatClosed, chatIssued>>
chatHistory == <<answered, executed, told, proposed>>
chatVars == <<chatNow, chatStoreVars, chatWaiting, receipts, chatHistory>>

(***************************************************************************)
(* Data                                                                    *)
(***************************************************************************)
ChatTools == {"search", "read", "options"}

\* A call with its arguments: what a fingerprint is computed from.
Request == [tool : {"search"}, ref : {"none"}] \cup [tool : {"read", "options"}, ref : Refs]

\* opaque_ref_producers: where the chain got a reference from.
Producers == {"context", "search", "read"}

\* DeferredChatRun with the fields of StoredChatRun.
StoredChatRun ==
    [call : ChatCallIds, request : Request, count : Nat,
     catalog : SUBSET ChatTools, discovered : SUBSET ChatTools,
     fingerprints : SUBSET Request,
     refs : UNION {[S -> Producers] : S \in SUBSET Refs},
     offers : SUBSET Refs,   \* library_action_options that allow an operation
     seen : SUBSET ChatCallIds, gen : Nat,
     expires : Nat, state : {"pending", "in_flight"}]

\* One request of the model: the call, the tools native Tool Search revealed
\* on the way, and how many server tools ran before it.
Ask == [call : ChatCallIds, request : Request, revealed : SUBSET ChatTools,
        served : 0 .. MaxToolCalls]

ChatTombstone == [reason : {"expired", "completed", "failed"}, at : Nat]

(***************************************************************************)
(* ChatRunStore._cleanup_locked, first in every method                     *)
(***************************************************************************)
ChatOverdue == {r \in DOMAIN chatActive : chatActive[r].expires <= chatNow}
ChatLive == Restrict(chatActive, DOMAIN chatActive \ ChatOverdue)
ChatKept == {r \in DOMAIN chatClosed : chatNow < chatClosed[r].at + ChatRunTTL}
ChatTombs == [r \in ChatKept \cup ChatOverdue |->
            IF r \in ChatOverdue THEN [reason |-> "expired", at |-> chatNow] ELSE chatClosed[r]]

\* A method that raises, or that only reads, leaves the swept store behind.
ChatSweep == chatActive' = ChatLive /\ chatClosed' = ChatTombs

(***************************************************************************)
(* The backend: _chat_execution                                            *)
(***************************************************************************)

\* What the model may ask, given where the chain stands: the budget, the
\* catalog, call ids, discovery, repetition and provenance, in this order.
\* fault: the same request may be asked again
BackendAcceptsRepeats(catalog, discovered, fingerprints, refs, taken, count, a) ==
    /\ count + a.served < MaxToolCalls
    /\ a.request.tool \in catalog
    /\ a.call \notin taken
    /\ a.revealed \subseteq catalog
    /\ a.request.tool \in discovered \cup a.revealed
    /\ a.request.tool # "search" => a.request.ref \in DOMAIN refs
BackendAccepts(catalog, discovered, fingerprints, refs, taken, count, a) ==
    /\ count + a.served < MaxToolCalls
    /\ a.request.tool \in catalog
    /\ a.call \notin taken
    /\ a.revealed \subseteq catalog
    /\ a.request.tool \in discovered \cup a.revealed
    /\ a.request \notin fingerprints
    /\ a.request.tool # "search" => a.request.ref \in DOMAIN refs

\* resume_chat: what the answer adds to the known references ...
RefsAfter(run, found) ==
    IF run.request.tool = "options" THEN run.refs
    ELSE [x \in DOMAIN run.refs \cup found |->
            IF x \in found THEN run.request.tool ELSE run.refs[x]]

\* ... and, in submit_tool_result, to the operations the student could be offered.
\* fault: an unavailable operation counts as offered
OffersAfterAny(run, found) ==
    IF run.request.tool = "options" THEN run.offers \cup {run.request.ref} ELSE run.offers
OffersAfter(run, found) ==
    IF run.request.tool = "options" THEN (run.offers \ {run.request.ref}) \cup found
    ELSE run.offers

\* The references an answer to the pending call can be about.
Answers(run) == IF run.request.tool = "search" THEN SUBSET Refs ELSE SUBSET {run.request.ref}

(***************************************************************************)
(* ChatRunStore                                                            *)
(***************************************************************************)

\* put, with the checkpoint _chat_execution makes of the first request
NewChatRun(catalog, refs, a) ==
    [call |-> a.call, request |-> a.request, count |-> a.served + 1,
     catalog |-> catalog, discovered |-> a.revealed \cup {a.request.tool},
     fingerprints |-> {a.request}, refs |-> refs, offers |-> {},
     seen |-> {}, gen |-> 0, expires |-> chatNow + ChatRunTTL, state |-> "pending"]

DoPutChat(r, run) ==
    /\ r \notin chatIssued
    /\ chatActive' = With(ChatLive, r, run)
    /\ chatClosed' = ChatTombs
    /\ chatIssued' = chatIssued \cup {r}

\* claim: the identity checks, then the run is in flight.
CanClaimChat(r, tool, call) ==
    /\ r \in DOMAIN ChatLive
    /\ ChatLive[r].state = "pending"
    /\ ChatLive[r].call = call
    /\ ChatLive[r].request.tool = tool
    /\ tool \in ChatLive[r].catalog \cap ChatLive[r].discovered
    /\ call \notin ChatLive[r].seen
    /\ ChatLive[r].count <= MaxToolCalls

ClaimedChat(r) == [ChatLive[r] EXCEPT !.state = "in_flight"]

\* Does r stand in the generation its claimant left it in?
HoldsChat(r, gen) ==
    r \in DOMAIN ChatLive /\ ChatLive[r].state = "in_flight" /\ ChatLive[r].gen = gen

\* The next checkpoint.  _chat_execution counts on from the claimed checkpoint
\* and keeps what it had discovered; continue_run keeps the ids of the answered
\* calls and the deadline.
\* fault: every resumption starts a new budget
SpentAnew(w, a) == a.served + 1
Spent(w, a) == w.claimed.count + a.served + 1
Discovered(w, a) == w.claimed.discovered \cup a.revealed \cup {a.request.tool}
\* fault: the id of the call just answered is not remembered
SeenEarlier(w) == w.claimed.seen
Seen(w) == w.claimed.seen \cup {w.claimed.call}
Deadline(w) == w.claimed.expires

ContinuedChat(w, a) ==
    [call |-> a.call, request |-> a.request, count |-> Spent(w, a),
     catalog |-> w.claimed.catalog, discovered |-> Discovered(w, a),
     fingerprints |-> w.claimed.fingerprints \cup {a.request},
     refs |-> w.refs, offers |-> w.offers,
     seen |-> Seen(w), gen |-> w.claimed.gen + 1,
     expires |-> Deadline(w), state |-> "pending"]

\* continue_run: what the next checkpoint must keep of the last one.
KeepsChain(run, next) ==
    /\ next.count <= MaxToolCalls
    /\ next.catalog = run.catalog
    /\ next.count > run.count
    /\ run.discovered \subseteq next.discovered
    /\ run.fingerprints \subseteq next.fingerprints
    /\ next.request.tool \in next.catalog \cap next.discovered
    /\ next.call \notin run.seen \cup {run.call}
KeepsProvenance(run, next) ==
    \A x \in DOMAIN run.refs : x \in DOMAIN next.refs /\ next.refs[x] = run.refs[x]

CanContinueChat(w, a) ==
    /\ HoldsChat(w.run, w.claimed.gen)
    /\ KeepsChain(ChatLive[w.run], ContinuedChat(w, a))
    /\ KeepsProvenance(ChatLive[w.run], ContinuedChat(w, a))

DoContinueChat(w, a) ==
    /\ CanContinueChat(w, a)
    /\ chatActive' = With(ChatLive, w.run, ContinuedChat(w, a))
    /\ chatClosed' = ChatTombs
    /\ UNCHANGED chatIssued

\* complete and fail: both close a run the sweep has left active.
\* fault: the closed run stays active
ChatBuryInPlace(r, reason) ==
    /\ chatActive' = ChatLive
    /\ chatClosed' = With(ChatTombs, r, [reason |-> reason, at |-> chatNow])
    /\ UNCHANGED chatIssued
ChatBury(r, reason) ==
    /\ chatActive' = Without(ChatLive, r)
    /\ chatClosed' = With(ChatTombs, r, [reason |-> reason, at |-> chatNow])
    /\ UNCHANGED chatIssued
CanCompleteChat(w) == HoldsChat(w.run, w.claimed.gen)
DoFailChat(r) ==
    IF r \in DOMAIN ChatLive THEN ChatBury(r, "failed") ELSE ChatSweep /\ UNCHANGED chatIssued

(***************************************************************************)
(* ChatRunService                                                          *)
(***************************************************************************)
ChatInit ==
    /\ chatNow = 0 /\ chatActive = Empty /\ chatClosed = Empty /\ chatIssued = {}
    /\ chatWaiting = Empty
    /\ receipts = Empty
    /\ answered = [r \in ChatRunIds |-> {}]
    /\ executed = [r \in ChatRunIds |-> 0]
    /\ told = [r \in ChatRunIds |-> {}]
    /\ proposed = {}

\* _start_sync, when the model's first output is a request.  The references of
\* the context manifest are known from the start.
ChatStart(r, catalog, known, a) ==
    /\ BackendAccepts(catalog, {}, {}, known, {}, 0, a)
    /\ DoPutChat(r, NewChatRun(catalog, known, a))
    /\ executed' = [executed EXCEPT ![r] = a.served]
    /\ UNCHANGED <<chatNow, chatWaiting, receipts, answered, told, proposed>>

\* submit_tool_result up to its await: peek, the checks on the result, claim,
\* the evidence receipt, and what the answer adds to references and offers.
ChatSubmit(h, r, tool, call, found) ==
    /\ h \notin DOMAIN chatWaiting
    /\ CanClaimChat(r, tool, call)
    /\ found \in Answers(ChatLive[r])
    /\ chatActive' = With(ChatLive, r, ClaimedChat(r))
    /\ chatClosed' = ChatTombs
    /\ chatWaiting' = With(chatWaiting, h,
                      [run |-> r, claimed |-> ClaimedChat(r),
                       refs |-> RefsAfter(ChatLive[r], found),
                       offers |-> OffersAfter(ChatLive[r], found)])
    /\ receipts' = With(receipts, r, call)
    /\ answered' = [answered EXCEPT ![r] = @ \cup {call}]
    /\ executed' = [executed EXCEPT ![r] = @ + 1]
    /\ told' = IF tool = "options"
               THEN [told EXCEPT ![r] = (@ \ {ChatLive[r].request.ref}) \cup found]
               ELSE told
    /\ UNCHANGED <<chatNow, chatIssued, proposed>>

\* The claim was made and the result then turns out unusable before the await
\* (a personal result without consent, a type that does not match, the backend
\* changed): the run fails.
ChatSubmitRefused(r, tool, call) ==
    /\ CanClaimChat(r, tool, call)
    /\ ChatBury(r, "failed")
    /\ receipts' = Without(receipts, r)
    /\ UNCHANGED <<chatNow, chatWaiting, chatHistory>>

\* peek or claim raises, observability is on, or the client reports that the
\* tool was unavailable: the run stays as it was, only the sweep remains.
ChatSubmitRejected ==
    /\ ChatSweep
    /\ UNCHANGED <<chatNow, chatIssued, chatWaiting, receipts, chatHistory>>

\* The coroutine ends; on success the endpoint has taken the receipt, on
\* failure the except clause has dropped it.
\* fault: the receipt is not taken
ChatLeaveKeepingReceipt(h) == chatWaiting' = Without(chatWaiting, h) /\ UNCHANGED receipts
ChatLeave(h) ==
    /\ chatWaiting' = Without(chatWaiting, h)
    /\ receipts' = Without(receipts, chatWaiting[h].run)

\* The provider drafted a reply; `op` is the reference of its library
\* operation, if any.  _canonical_response raises unless the run itself was
\* told that the operation is available; complete raises if the run expired.
OffersBacked(w, op) == op \subseteq w.offers
ChatReply(h, served, op) ==
    /\ h \in DOMAIN chatWaiting
    /\ LET w == chatWaiting[h] IN
         /\ w.claimed.count + served <= MaxToolCalls
         /\ executed' = [executed EXCEPT ![w.run] = @ + served]
         /\ \/ /\ OffersBacked(w, op)
               /\ CanCompleteChat(w)
               /\ ChatBury(w.run, "completed")
               /\ proposed' = proposed \cup {<<w.run, x>> : x \in op}
            \/ /\ ~(OffersBacked(w, op) /\ CanCompleteChat(w))
               /\ DoFailChat(w.run)
               /\ UNCHANGED proposed
    /\ ChatLeave(h)
    /\ UNCHANGED <<chatNow, answered, told>>

\* The model asked for another tool, and the backend accepted the request.
MayAsk(w, a) ==
    BackendAccepts(w.claimed.catalog, w.claimed.discovered, w.claimed.fingerprints,
                   w.refs, w.claimed.seen \cup {w.claimed.call}, w.claimed.count, a)

ChatAskAgain(h, a) ==
    /\ h \in DOMAIN chatWaiting
    /\ LET w == chatWaiting[h] IN
         /\ MayAsk(w, a)
         /\ executed' = [executed EXCEPT ![w.run] = @ + a.served]
         /\ \/ DoContinueChat(w, a)
            \/ ~CanContinueChat(w, a) /\ DoFailChat(w.run)
    /\ ChatLeave(h)
    /\ UNCHANGED <<chatNow, answered, told, proposed>>

\* The backend refused the request, the provider raised, or the HTTP request
\* was cancelled.
ChatProviderFails(h) ==
    /\ h \in DOMAIN chatWaiting
    /\ DoFailChat(chatWaiting[h].run)
    /\ ChatLeave(h)
    /\ UNCHANGED <<chatNow, chatHistory>>

\* The process stops with handlers in the air and starts with empty stores.
ChatRestart ==
    /\ chatActive' = Empty /\ chatClosed' = Empty
    /\ chatWaiting' = Empty
    /\ receipts' = Empty
    /\ UNCHANGED <<chatNow, chatIssued, chatHistory>>

ChatTick ==
    /\ chatNow < ChatMaxTime
    /\ chatNow' = chatNow + 1
    /\ UNCHANGED <<chatStoreVars, chatWaiting, receipts, chatHistory>>

ChatNext ==
    \/ \E r \in ChatRunIds, catalog \in SUBSET ChatTools, S \in SUBSET Refs, a \in Ask :
          ChatStart(r, catalog, [x \in S |-> "context"], a)
    \/ \E h \in ChatHandlers, r \in ChatRunIds, t \in ChatTools, c \in ChatCallIds,
          found \in SUBSET Refs :
          ChatSubmit(h, r, t, c, found)
    \/ \E r \in ChatRunIds, t \in ChatTools, c \in ChatCallIds : ChatSubmitRefused(r, t, c)
    \/ ChatSubmitRejected
    \/ \E h \in ChatHandlers, n \in 0 .. MaxToolCalls, x \in Refs :
          ChatReply(h, n, {}) \/ ChatReply(h, n, {x})
    \/ \E h \in ChatHandlers, a \in Ask : ChatAskAgain(h, a)
    \/ \E h \in ChatHandlers : ChatProviderFails(h)
    \/ ChatRestart
    \/ ChatTick

ChatSpec == ChatInit /\ [][ChatNext]_chatVars

(***************************************************************************)
(* Properties                                                              *)
(***************************************************************************)

Awaiting == [run : ChatRunIds, claimed : StoredChatRun,
            refs : UNION {[S -> Producers] : S \in SUBSET Refs}, offers : SUBSET Refs]

ChatTypeOK ==
    /\ chatNow \in Nat
    /\ DOMAIN chatActive \subseteq ChatRunIds
    /\ \A r \in DOMAIN chatActive : chatActive[r] \in StoredChatRun
    /\ DOMAIN chatClosed \subseteq ChatRunIds
    /\ \A r \in DOMAIN chatClosed : chatClosed[r] \in ChatTombstone
    /\ chatIssued \subseteq ChatRunIds
    /\ DOMAIN chatWaiting \subseteq ChatHandlers
    /\ \A h \in DOMAIN chatWaiting : chatWaiting[h] \in Awaiting
    /\ DOMAIN receipts \subseteq ChatRunIds
    /\ \A r \in DOMAIN receipts : receipts[r] \in ChatCallIds
    /\ answered \in [ChatRunIds -> SUBSET ChatCallIds]
    /\ executed \in [ChatRunIds -> Nat]
    /\ told \in [ChatRunIds -> SUBSET Refs]
    /\ proposed \subseteq ChatRunIds \X Refs

\* A chain runs at most eight tools, those the provider ran on the server
\* between two client calls included: the budget survives every suspension.
BudgetKept == \A r \in ChatRunIds : executed[r] <= MaxToolCalls

\* A library operation reaches the student only for a record of which the same
\* run was last told that the operation is available, and only from a run that
\* completed.
OperationBacked ==
    \A p \in proposed :
        /\ p[2] \in told[p[1]]
        /\ p[1] \notin DOMAIN chatActive
        /\ p[1] \in DOMAIN chatClosed => chatClosed[p[1]].reason = "completed"

\* The receipt of a run belongs to the one request that is being answered, so
\* the response headers never name the evidence of another call; and no run
\* stays in flight without the request that claimed it.
ReceiptOfClaimant ==
    /\ \A r \in DOMAIN receipts :
          \E h \in DOMAIN chatWaiting :
             chatWaiting[h].run = r /\ chatWaiting[h].claimed.call = receipts[r]
    /\ \A h, g \in DOMAIN chatWaiting :
          /\ chatWaiting[h].run \in DOMAIN receipts
          /\ chatWaiting[h].run = chatWaiting[g].run => h = g
    /\ \A r \in DOMAIN chatActive :
          chatActive[r].state = "in_flight" =>
             \E h \in DOMAIN chatWaiting :
                chatWaiting[h].run = r /\ chatWaiting[h].claimed = chatActive[r]

\* The tool catalog has library_action_options consume the reference that
\* library_item_read returns, which in turn consumes one that
\* library_catalog_search returns: such a request is not refused.
ProvenanceAgrees ==
    \A h \in DOMAIN chatWaiting :
        LET w == chatWaiting[h]
            last == w.claimed.request
        IN  last.tool = "read" /\ HoldsChat(w.run, w.claimed.gen) =>
              \A a \in Ask :
                 a.request = [tool |-> "options", ref |-> last.ref] /\ MayAsk(w, a)
                    => KeepsProvenance(ChatLive[w.run], ContinuedChat(w, a))

\* The chains implement the promise of ResumeOnce.
ChatStage(r) ==
    IF r \notin chatIssued THEN "new"
    ELSE IF r \notin DOMAIN chatActive THEN "over"
    ELSE IF chatActive[r].state = "pending" THEN "waiting" ELSE "running"

ChatPromise == INSTANCE ResumeOnce WITH
                  RunIds <- ChatRunIds, CallIds <- ChatCallIds,
                  stage <- [r \in ChatRunIds |-> ChatStage(r)]
ChatResumesOnce == ChatPromise!Spec
=============================================================================
