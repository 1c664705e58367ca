----------------------------- MODULE ChatTurn -----------------------------
(***************************************************************************)
(* One turn of a conversation from the side panel's end                    *)
(* (apps/extension/src/chat/chat-runner.ts: ChatRunner.run, with the       *)
(* requests of api/client.ts), composed with the service of ChatRuns.      *)
(*                                                                         *)
(* The runner keeps state of its own about the chain: which call ids it    *)
(* has seen, which results it may reuse, how many tools it has run.  It    *)
(* gives the turn up as soon as a request looks wrong to it, so it has to  *)
(* agree with what the service's own checks let through.                   *)
(*                                                                         *)
(* A request may reach the service after the runner has given up, and a    *)
(* response may never arrive.  What a tool reads in the browser is an      *)
(* arbitrary set of references; the executor and capabilities behind it    *)
(* are left out.                                                           *)
(***************************************************************************)
EXTENDS ChatRuns, Sequences

CONSTANT ClientToolCalls   \* maxToolCalls of the runner

\* Every caller leaves it at eight, which is the service's CHAT_MAX_TOOL_CALLS.
ASSUME ClientToolCallsAssumption == ClientToolCalls \in Nat /\ MaxToolCalls <= ClientToolCalls

VARIABLES
    turn,   \* the local variables of ChatRunner.run
    wire    \* HTTP requests and responses under way

turnVars == <<turn, wire>>
allVars == <<chatVars, turnVars>>

\* pc: before startChat, awaiting a response, running a tool, and the two ends.
\* run and pending hold at most one element.
Idle == [pc |-> "idle", offered |-> {}, run |-> {}, pending |-> {}, calls |-> <<>>,
         receipts |-> <<>>, aborted |-> FALSE, error |-> "none"]

TurnInit == ChatInit /\ turn = Idle /\ wire = {}

(***************************************************************************)
(* What the runner concludes from its own variables                        *)
(***************************************************************************)

\* `signal.aborted`, looked at again after every await.
Wanted == ~turn.aborted

\* `seen`, and the results in `resultCache` for a request.
SeenCalls == {turn.calls[i].call : i \in DOMAIN turn.calls}
Cached(request) ==
    {turn.calls[i].found : i \in {j \in DOMAIN turn.calls : turn.calls[j].request = request}}

\* The checks on a tool_required response, in their order.
\* fault: the limit is one too low
ComplaintEarly(m) ==
    IF Len(turn.calls) + 1 >= ClientToolCalls THEN "limit"
    ELSE IF turn.run \notin {{}, {m.run}} THEN "protocol"
    ELSE IF m.call \in SeenCalls THEN "duplicate"
    ELSE IF m.request.tool \notin turn.offered THEN "not_advertised"
    ELSE "none"
Complaint(m) ==
    IF Len(turn.calls) >= ClientToolCalls THEN "limit"
    ELSE IF turn.run \notin {{}, {m.run}} THEN "protocol"
    ELSE IF m.call \in SeenCalls THEN "duplicate"
    ELSE IF m.request.tool \notin turn.offered THEN "not_advertised"
    ELSE "none"

\* A receipt must name the call it answers; each answer adds one.
ReceiptFits(m) == m.receipt = {} \/ m.receipt = {x.call : x \in turn.pending}

ReceiptsWith(m) ==
    IF turn.pending = {} THEN turn.receipts ELSE Append(turn.receipts, m.receipt)

GiveUp(why) == turn' = [turn EXCEPT !.pc = "failed", !.error = why]

(***************************************************************************)
(* ChatRunner.run                                                          *)
(***************************************************************************)

\* The tools both sides know are advertised, and startChat is sent.
StartChat(tools) ==
    /\ turn.pc = "idle"
    /\ turn' = [turn EXCEPT !.pc = "awaiting", !.offered = tools]
    /\ wire' = {[kind |-> "start", tools |-> tools]}
    /\ UNCHANGED chatVars

\* The result goes to the service.
SendResult(x, found, usable) ==
    /\ turn' = [turn EXCEPT !.pc = "awaiting",
                  !.calls = Append(@, [call |-> x.call, request |-> x.request,
                                       found |-> found])]
    /\ wire' = wire \cup {[kind |-> "result", run |-> r, call |-> x.call,
                           tool |-> x.request.tool, found |-> found, usable |-> usable]
                            : r \in turn.run}

\* A response arrives and the loop goes round: the tool is started, or the
\* turn ends.
Receive(m) ==
    /\ turn.pc = "awaiting"
    /\ m \in wire /\ m.kind \in {"tool_required", "completed", "error"}
    /\ wire' = wire \ {m}
    /\ IF ~Wanted THEN GiveUp("aborted")
       ELSE IF m.kind = "error" THEN GiveUp("http")
       ELSE IF ~ReceiptFits(m) THEN GiveUp("receipt")
       ELSE IF m.kind = "completed"
            THEN turn' = [turn EXCEPT !.pc = "done", !.receipts = ReceiptsWith(m)]
       ELSE IF Complaint(m) # "none" THEN GiveUp(Complaint(m))
       ELSE turn' = [turn EXCEPT !.pc = "running", !.run = {m.run},
                       !.receipts = ReceiptsWith(m),
                       !.pending = {[call |-> m.call, request |-> m.request]}]
    /\ UNCHANGED chatVars

\* The executor returns what it read, or that the tool was unavailable; a
\* request the runner has made before is answered from the cache.
ToolReturns(found, usable) ==
    /\ turn.pc = "running"
    /\ Wanted
    /\ \E x \in turn.pending :
          /\ found \in IF Cached(x.request) = {} THEN Answers(x) ELSE Cached(x.request)
          /\ SendResult(x, found, usable)
    /\ UNCHANGED chatVars

\* The executor throws, or the turn was aborted while it ran.
ToolFails ==
    /\ turn.pc = "running"
    /\ GiveUp(IF turn.aborted THEN "aborted" ELSE "tool")
    /\ UNCHANGED <<chatVars, wire>>

\* The student stops the turn; a pending fetch rejects at once.
Abort ==
    /\ turn.pc \in {"awaiting", "running"} /\ ~turn.aborted
    /\ turn' = [turn EXCEPT !.aborted = TRUE]
    /\ UNCHANGED <<chatVars, wire>>
FetchRejects ==
    /\ turn.pc = "awaiting"
    /\ GiveUp(IF turn.aborted THEN "aborted" ELSE "network")
    /\ UNCHANGED <<chatVars, wire>>

(***************************************************************************)
(* The service at the other end of the wire                                *)
(***************************************************************************)
\* A response to a runner that has given up is not delivered.
Respond(m, response) ==
    wire' = (wire \ {m}) \cup (IF turn.pc = "awaiting" THEN {response} ELSE {})
NoRequest == [kind |-> "none"]

HttpError == [kind |-> "error", receipt |-> {}]
Completion(receipt) == [kind |-> "completed", receipt |-> receipt]
ToolRequired(r, a, receipt) ==
    [kind |-> "tool_required", run |-> r, call |-> a.call, request |-> a.request,
     receipt |-> receipt]

\* start: a first request of the provider, an answer without tools, or a 422.
ServeStart(m, r, known, a) ==
    /\ m \in wire /\ m.kind = "start"
    /\ ChatStart(r, m.tools, known, a)
    /\ Respond(m, ToolRequired(r, a, {}))
    /\ UNCHANGED turn
ServeWithoutTools(m) ==
    /\ m \in wire /\ m.kind = "start"
    /\ Respond(m, Completion({})) \/ Respond(m, HttpError)
    /\ UNCHANGED <<chatVars, turn>>

\* submit_tool_result: the claim, or an error at once.
ServeResult(m, h) ==
    /\ m \in wire /\ m.kind = "result" /\ m.usable
    /\ ChatSubmit(h, m.run, m.tool, m.call, m.found)
    /\ wire' = wire \ {m}
    /\ UNCHANGED turn
ServeRejection(m) ==
    /\ m \in wire /\ m.kind = "result"
    /\ \/ ChatSubmitRefused(m.run, m.tool, m.call)
       \/ ~(m.usable /\ CanClaimChat(m.run, m.tool, m.call)) /\ ChatSubmitRejected
    /\ Respond(m, HttpError)
    /\ UNCHANGED turn

\* The awaited provider returns; the endpoint pairs the response with the
\* receipt it takes from the service.
Receipt(h) == {receipts[r] : r \in {chatWaiting[h].run} \cap DOMAIN receipts}
ServeReply(h, n, op) ==
    /\ ChatReply(h, n, op)
    /\ Respond(NoRequest, IF OffersBacked(chatWaiting[h], op) /\ CanCompleteChat(chatWaiting[h])
                          THEN Completion(Receipt(h)) ELSE HttpError)
    /\ UNCHANGED turn
ServeRequest(h, a) ==
    /\ ChatAskAgain(h, a)
    /\ Respond(NoRequest, IF CanContinueChat(chatWaiting[h], a)
                          THEN ToolRequired(chatWaiting[h].run, a, Receipt(h)) ELSE HttpError)
    /\ UNCHANGED turn
\* fault: the error is swallowed
ServeFailureSilently(h) == ChatProviderFails(h) /\ UNCHANGED turnVars
ServeFailure(h) ==
    /\ ChatProviderFails(h)
    /\ Respond(NoRequest, HttpError)
    /\ UNCHANGED turn

\* The process dies with every connection.
ServiceRestarts ==
    /\ ChatRestart
    /\ wire' = {}
    /\ IF turn.pc = "awaiting" THEN GiveUp("network") ELSE UNCHANGED turn

TimePasses == ChatTick /\ UNCHANGED turnVars

RunnerStep ==
    \/ \E m \in wire : Receive(m)
    \/ \E found \in SUBSET Refs, usable \in BOOLEAN : ToolReturns(found, usable)
    \/ turn.aborted /\ (ToolFails \/ FetchRejects)

ServiceStep ==
    \/ \E m \in wire, r \in ChatRunIds, S \in SUBSET Refs, a \in Ask :
          ServeStart(m, r, [x \in S |-> "context"], a)
    \/ \E m \in wire : ServeWithoutTools(m) \/ ServeRejection(m)
    \/ \E m \in wire, h \in ChatHandlers : ServeResult(m, h)
    \/ \E h \in ChatHandlers, n \in 0 .. MaxToolCalls, x \in Refs :
          ServeReply(h, n, {}) \/ ServeReply(h, n, {x})
    \/ \E h \in ChatHandlers, a \in Ask : ServeRequest(h, a)
    \/ \E h \in ChatHandlers : ServeFailure(h)

TurnNext ==
    \/ \E tools \in SUBSET ChatTools : StartChat(tools)
    \/ RunnerStep
    \/ ServiceStep
    \/ ToolFails
    \/ FetchRejects
    \/ Abort
    \/ ServiceRestarts
    \/ TimePasses

\* The executor and the service's handlers return: the provider's client has a
\* timeout, and so has every reader of the browser.
TurnSpec ==
    /\ TurnInit /\ [][TurnNext]_allVars
    /\ WF_allVars(RunnerStep) /\ WF_allVars(ServiceStep)

(***************************************************************************)
(* Properties                                                              *)
(***************************************************************************)
Messages ==
    [kind : {"start"}, tools : SUBSET ChatTools]
    \cup [kind : {"result"}, run : ChatRunIds, call : ChatCallIds, tool : ChatTools,
          found : SUBSET Refs, usable : BOOLEAN]
    \cup [kind : {"error", "completed"}, receipt : SUBSET ChatCallIds]
    \cup [kind : {"tool_required"}, run : ChatRunIds, call : ChatCallIds, request : Request,
          receipt : SUBSET ChatCallIds]

TurnTypeOK ==
    /\ ChatTypeOK
    /\ turn.pc \in {"idle", "awaiting", "running", "done", "failed"}
    /\ turn.offered \subseteq ChatTools
    /\ turn.run \subseteq ChatRunIds
    /\ turn.pending \subseteq [call : ChatCallIds, request : Request]
    /\ turn.calls \in Seq([call : ChatCallIds, request : Request, found : SUBSET Refs])
    /\ turn.receipts \in Seq(SUBSET ChatCallIds)
    /\ turn.aborted \in BOOLEAN
    /\ turn.error \in {"none", "aborted", "http", "network", "tool", "receipt", "limit",
                      "protocol", "duplicate", "not_advertised"}
    /\ wire \subseteq Messages

\* The runner's own checks never end a chain that the service let through: the
\* two count the same budget, know the same tools and see the same call ids.
NoFalseRefusal ==
    turn.error \notin {"receipt", "limit", "protocol", "duplicate", "not_advertised"}

\* A result of the cache is as old as the turn; the service never makes the
\* runner use one, every result it sees was read for it.
ReadsAreFresh ==
    \A i, j \in DOMAIN turn.calls :
        turn.calls[i].request = turn.calls[j].request => i = j

\* The evidence the panel shows for a tool call is the one the service recorded
\* for that call, in the order the tools ran; and a turn is reported as complete
\* only after the service was given every result of it and closed the run.
DoneMeansDone ==
    /\ Len(turn.receipts) <= Len(turn.calls)
    /\ \A i \in DOMAIN turn.receipts : turn.receipts[i] = {turn.calls[i].call}
    /\ turn.pc = "done" =>
        /\ Len(turn.receipts) = Len(turn.calls)
        /\ \A r \in turn.run :
              /\ answered[r] = SeenCalls
              /\ r \notin DOMAIN chatActive
              /\ r \in DOMAIN chatClosed => chatClosed[r].reason = "completed"

\* A turn that was sent ends.
TurnEnds == turn.pc = "awaiting" ~> turn.pc \in {"done", "failed"}
=============================================================================
