-------------------------- MODULE ChatTurn_proofs --------------------------
(***************************************************************************)
(* Proofs about ChatTurn, for any number of runs, calls and references,    *)
(* every budget of the service, and any limit of the runner that is no     *)
(* lower than it.                                                          *)
(*                                                                         *)
(* Every step of the two is one of ChatRuns or leaves its variables alone, *)
(* so its invariant ChatInv holds here too.  The invariant TurnInv says    *)
(* what the two sides know of each other at every point of the turn: which *)
(* message is under way, where the chain of the run stands (SuspendedAt,   *)
(* Held, Closed), and that what the service remembers of the chain covers  *)
(* what the runner does.                                                   *)
(***************************************************************************)
EXTENDS ChatTurn, ChatRuns_proofs

(***************************************************************************)
(* The inductive invariant                                                 *)
(***************************************************************************)
Asked == [call : ChatCallIds, request : Request]
Called == [call : ChatCallIds, request : Request, found : SUBSET Refs]
Unfounded == {"receipt", "limit", "protocol", "duplicate", "not_advertised"}
Errors == {"none", "aborted", "http", "network", "tool"} \cup Unfounded
Turns ==
    [pc : {"idle", "awaiting", "running", "done", "failed"}, offered : SUBSET ChatTools,
     run : SUBSET ChatRunIds, pending : SUBSET Asked, calls : Seq(Called),
     receipts : Seq(SUBSET ChatCallIds), aborted : BOOLEAN, error : Errors]

SeenRequests == {turn.calls[i].request : i \in DOMAIN turn.calls}

\* A request the runner has not made, of a tool it has, with budget left for it.
Fresh(x) ==
    /\ x.call \in ChatCallIds /\ x.request \in Request
    /\ x.call \notin SeenCalls
    /\ x.request \notin SeenRequests
    /\ x.request.tool \in turn.offered
    /\ Len(turn.calls) < MaxToolCalls

\* The chain of run r is suspended at x, unless the service has dropped it.
SuspendedAt(r, x) ==
    r \in DOMAIN chatActive =>
        /\ chatActive[r].state = "pending"
        /\ chatActive[r].call = x.call
        /\ chatActive[r].request = x.request
        /\ chatActive[r].catalog = turn.offered
        /\ SeenRequests \cup {x.request} \subseteq chatActive[r].fingerprints

\* The service was given every result the runner has, and counted them.
Given(r) == answered[r] = SeenCalls /\ Len(turn.calls) <= executed[r]

\* The chain of the turn, if there was one, is over and was completed.
Closed ==
    \A r \in turn.run :
        /\ Given(r)
        /\ r \notin DOMAIN chatActive
        /\ r \in DOMAIN chatClosed => chatClosed[r].reason = "completed"

\* What the runner has sent: the first request, or the result of the call that
\* is still pending, for which it has no receipt yet.
NothingYet == turn.run = {} /\ turn.pending = {} /\ turn.calls = <<>> /\ turn.receipts = <<>>
ResultSent ==
    /\ \E r \in ChatRunIds : turn.run = {r}
    /\ \E x \in Asked :
          turn.pending = {x} /\ turn.calls # <<>> /\ turn.calls[Len(turn.calls)].call = x.call
    /\ Len(turn.calls) = Len(turn.receipts) + 1

\* Where its request is, or the response to it.
ToStart == turn.run = {} /\ wire = {[kind |-> "start", tools |-> turn.offered]}
Responded(m) == m \in Messages /\ wire = {m} /\ m.receipt = {x.call : x \in turn.pending}
Required(m) ==
    /\ m.kind = "tool_required" /\ Responded(m)
    /\ m.run \in ChatRunIds /\ turn.run \subseteq {m.run}
    /\ Fresh(m) /\ SuspendedAt(m.run, m) /\ Given(m.run)
Completed(m) == m.kind = "completed" /\ Responded(m) /\ Closed
Refused(m) == m.kind = "error" /\ wire = {m}
Answering(m) ==
    /\ m.kind = "result" /\ wire = {m}
    /\ m.run \in ChatRunIds /\ turn.run = {m.run}
    /\ \E x \in turn.pending : x.call = m.call /\ x.request.tool = m.tool /\ SuspendedAt(m.run, x)
    /\ answered[m.run] \cup {m.call} = SeenCalls
    /\ Len(turn.calls) <= executed[m.run] + 1
Held(h) ==
    LET w == chatWaiting[h] IN
    /\ wire = {} /\ DOMAIN chatWaiting = {h}
    /\ turn.run = {w.run}
    /\ turn.pending = {[call |-> w.claimed.call, request |-> w.claimed.request]}
    /\ w.claimed.catalog = turn.offered
    /\ SeenRequests \subseteq w.claimed.fingerprints
    /\ Given(w.run)

\* What holds at each point of the runner.
Alone == wire = {} /\ DOMAIN chatWaiting = {}
UnderWay ==
    \/ /\ DOMAIN chatWaiting = {}
       /\ \/ ToStart
          \/ \E m \in wire : Required(m) \/ Completed(m) \/ Refused(m) \/ Answering(m)
    \/ \E h \in DOMAIN chatWaiting : Held(h)
AtTool ==
    /\ Len(turn.receipts) = Len(turn.calls)
    /\ \E r \in ChatRunIds, x \in Asked :
          turn.run = {r} /\ turn.pending = {x} /\ Fresh(x) /\ SuspendedAt(r, x) /\ Given(r)

Stands ==
    /\ turn.pc = "idle" => turn = Idle /\ Alone
    /\ turn.pc = "awaiting" => (NothingYet \/ ResultSent) /\ UnderWay
    /\ turn.pc = "running" => AtTool /\ Alone
    /\ turn.pc = "done" => Len(turn.receipts) = Len(turn.calls) /\ Closed /\ Alone

Evidence ==
    /\ Len(turn.receipts) <= Len(turn.calls)
    /\ \A i \in DOMAIN turn.receipts : turn.receipts[i] = {turn.calls[i].call}

TurnInv ==
    /\ turn \in Turns /\ wire \subseteq Messages
    /\ Stands
    /\ Evidence /\ ReadsAreFresh /\ NoFalseRefusal

(***************************************************************************)
(* The runner                                                              *)
(***************************************************************************)
USE ClientToolCallsAssumption, MaxToolCallsAssumption

\* The turn is given up, for a reason the runner may have.
LEMMA TurnFails ==
    ASSUME TurnInv, NEW why \in Errors \ Unfounded, GiveUp(why), wire' \subseteq Messages
    PROVE  TurnInv'
<1>1. /\ turn' \in Turns /\ turn'.pc = "failed" /\ turn'.error = why
      /\ turn'.calls = turn.calls /\ turn'.receipts = turn.receipts
  BY DEF GiveUp, TurnInv, Turns
<1>2. Evidence' /\ ReadsAreFresh'
  BY <1>1 DEF TurnInv, Evidence, ReadsAreFresh
<1>3. NoFalseRefusal'
  BY <1>1 DEF NoFalseRefusal, Unfounded
<1>4. Stands'
  BY <1>1 DEF Stands
<1> QED BY <1>1, <1>2, <1>3, <1>4 DEF TurnInv

\* What follows from the history alone stays while the turn does.
LEMMA TurnKept ==
    ASSUME TurnInv, turn' = turn, wire' \subseteq Messages, Stands'
    PROVE  TurnInv'
BY DEF TurnInv, Evidence, ReadsAreFresh, NoFalseRefusal

LEMMA StartChatStep ==
    ASSUME TurnInv, NEW tools \in SUBSET ChatTools, StartChat(tools)
    PROVE  TurnInv'
<1>1. turn = Idle /\ Alone /\ chatWaiting' = chatWaiting
  BY DEF StartChat, TurnInv, Stands, chatVars
<1>2. /\ turn' = [Idle EXCEPT !.pc = "awaiting", !.offered = tools]
      /\ wire' = {[kind |-> "start", tools |-> tools]}
  BY <1>1 DEF StartChat
<1>3. /\ turn' \in Turns /\ turn'.pc = "awaiting" /\ turn'.offered = tools /\ turn'.error = "none"
      /\ turn'.run = {} /\ turn'.pending = {} /\ turn'.calls = <<>> /\ turn'.receipts = <<>>
  BY <1>1, <1>2 DEF Idle, TurnInv, Turns
<1>4. wire' \subseteq Messages
  BY <1>2 DEF Messages
<1>5. ToStart' /\ NothingYet' /\ DOMAIN chatWaiting' = {}
  BY <1>1, <1>2, <1>3 DEF ToStart, NothingYet, Alone
<1>6. Stands'
  BY <1>3, <1>5 DEF Stands, UnderWay
<1>7. Evidence' /\ ReadsAreFresh' /\ NoFalseRefusal'
  BY <1>3 DEF Evidence, ReadsAreFresh, NoFalseRefusal
<1> QED BY <1>3, <1>4, <1>6, <1>7 DEF TurnInv

\* The one message under way, and what is known of it by its kind.
LEMMA MessageUnderWay ==
    ASSUME UnderWay, NEW m \in wire
    PROVE  /\ wire = {m} /\ DOMAIN chatWaiting = {}
           /\ \/ m.kind = "start" /\ ToStart
              \/ Required(m) \/ Completed(m) \/ Refused(m) \/ Answering(m)
<1>1. \A h \in DOMAIN chatWaiting : ~Held(h)
  BY DEF Held
<1>2. DOMAIN chatWaiting = {}
  BY <1>1 DEF UnderWay
<1>3. CASE ToStart
  BY <1>2, <1>3 DEF ToStart
<1>4. CASE ~ToStart
  <2>1. PICK n \in wire : Required(n) \/ Completed(n) \/ Refused(n) \/ Answering(n)
    BY <1>1, <1>4 DEF UnderWay
  <2>2. wire = {n}
    BY <2>1 DEF Required, Completed, Responded, Refused, Answering
  <2>3. n = m
    BY <2>2
  <2> QED BY <1>2, <2>1, <2>2, <2>3
<1> QED BY <1>3, <1>4

\* The evidence of the call just answered, when its response arrives.
LEMMA ReceiptTaken ==
    ASSUME TurnInv, NothingYet \/ ResultSent,
           NEW m, m.receipt = {x.call : x \in turn.pending}, m.receipt \in SUBSET ChatCallIds
    PROVE  /\ ReceiptsWith(m) \in Seq(SUBSET ChatCallIds)
           /\ Len(ReceiptsWith(m)) = Len(turn.calls)
           /\ \A i \in DOMAIN ReceiptsWith(m) : ReceiptsWith(m)[i] = {turn.calls[i].call}
<1>1. turn.receipts \in Seq(SUBSET ChatCallIds) /\ turn.calls \in Seq(Called)
  BY DEF TurnInv, Turns
<1>2. CASE NothingYet
  BY <1>1, <1>2 DEF NothingYet, ReceiptsWith
<1>3. CASE ResultSent
  <2>1. PICK x \in Asked : turn.pending = {x} /\ turn.calls[Len(turn.calls)].call = x.call
    BY <1>3 DEF ResultSent
  <2>2. Len(turn.calls) = Len(turn.receipts) + 1
    BY <1>3 DEF ResultSent
  <2>3. m.receipt = {turn.calls[Len(turn.calls)].call}
    BY <2>1
  <2>4. ReceiptsWith(m) = Append(turn.receipts, m.receipt)
    BY <2>1 DEF ReceiptsWith
  <2>5. /\ ReceiptsWith(m) \in Seq(SUBSET ChatCallIds)
        /\ Len(ReceiptsWith(m)) = Len(turn.calls)
    BY <1>1, <2>2, <2>4
  <2>6. ASSUME NEW i \in DOMAIN ReceiptsWith(m)
        PROVE  ReceiptsWith(m)[i] = {turn.calls[i].call}
    <3>1. i \in 1 .. Len(turn.calls) /\ Len(turn.receipts) \in Nat
      BY <1>1, <2>5
    <3>2. CASE i = Len(turn.calls)
      BY <1>1, <2>2, <2>3, <2>4, <3>2
    <3>3. CASE i # Len(turn.calls)
      <4>1. i \in DOMAIN turn.receipts
        BY <1>1, <2>2, <3>1, <3>3
      <4>2. ReceiptsWith(m)[i] = turn.receipts[i]
        BY <1>1, <2>4, <4>1
      <4> QED BY <4>1, <4>2 DEF TurnInv, Evidence
    <3> QED BY <3>2, <3>3
  <2> QED BY <2>5, <2>6
<1> QED BY <1>2, <1>3

\* The runner's checks pass on the request the service let through.
LEMMA NoComplaint ==
    ASSUME TurnInv, NEW m, Required(m)
    PROVE  Complaint(m) = "none"
<1>1. Len(turn.calls) \in Nat
  BY DEF TurnInv, Turns
<1>2. Len(turn.calls) < ClientToolCalls
  BY <1>1 DEF Required, Fresh
<1>3. turn.run \in {{}, {m.run}}
  BY DEF Required
<1> QED BY <1>1, <1>2, <1>3 DEF Complaint, Required, Fresh

LEMMA ReceiveStep ==
    ASSUME TurnInv, NEW m \in wire, Receive(m)
    PROVE  TurnInv'
<1>1. /\ turn.pc = "awaiting" /\ m.kind \in {"tool_required", "completed", "error"}
      /\ wire' = wire \ {m} /\ UNCHANGED chatVars
  BY DEF Receive
<1>2. /\ DOMAIN chatWaiting = {} /\ wire = {m} /\ (NothingYet \/ ResultSent)
      /\ Required(m) \/ Completed(m) \/ Refused(m)
  <2>1. UnderWay /\ (NothingYet \/ ResultSent)
    BY <1>1 DEF TurnInv, Stands
  <2>2. ~Answering(m) /\ m.kind # "start"
    BY <1>1 DEF Answering
  <2> QED BY <2>1, <2>2, MessageUnderWay
<1>3. wire' = {} /\ DOMAIN chatWaiting' = {}
  BY <1>1, <1>2 DEF chatVars
<1>4. ASSUME NEW why \in Errors \ Unfounded, GiveUp(why) PROVE TurnInv'
  BY <1>3, <1>4, TurnFails
<1>5. CASE ~Wanted \/ m.kind = "error"
  BY <1>4, <1>5 DEF Receive, Errors, Unfounded
<1>6. CASE Wanted /\ m.kind # "error"
  <2>1. Responded(m) /\ (Required(m) \/ Completed(m))
    BY <1>2, <1>6 DEF Required, Completed, Refused
  <2>2. m.receipt = {x.call : x \in turn.pending} /\ m.receipt \in SUBSET ChatCallIds
    BY <1>1, <1>6, <2>1 DEF Responded, TurnInv, Turns, Asked
  <2>3. ReceiptFits(m)
    BY <2>2 DEF ReceiptFits
  <2>4. /\ ReceiptsWith(m) \in Seq(SUBSET ChatCallIds)
        /\ Len(ReceiptsWith(m)) = Len(turn.calls)
        /\ \A i \in DOMAIN ReceiptsWith(m) : ReceiptsWith(m)[i] = {turn.calls[i].call}
    BY <1>2, <2>2, ReceiptTaken
  <2>5. CASE m.kind = "completed"
    <3>1. turn' = [turn EXCEPT !.pc = "done", !.receipts = ReceiptsWith(m)]
      BY <1>6, <2>3, <2>5 DEF Receive
    <3>2. /\ turn' \in Turns /\ turn'.pc = "done" /\ turn'.receipts = ReceiptsWith(m)
          /\ turn'.calls = turn.calls /\ turn'.run = turn.run /\ turn'.error = turn.error
      BY <2>4, <3>1 DEF TurnInv, Turns
    <3>3. Closed
      BY <2>1, <2>5 DEF Required, Completed
    <3>4. Closed'
      <4>1. SeenCalls' = SeenCalls
        BY <3>2 DEF SeenCalls
      <4> QED BY <1>1, <3>2, <3>3, <4>1 DEF Closed, Given, chatVars, chatStoreVars, chatHistory
    <3>5. Stands'
      BY <1>3, <2>4, <3>2, <3>4 DEF Stands, Alone
    <3>6. Evidence' /\ ReadsAreFresh' /\ NoFalseRefusal'
      BY <2>4, <3>2 DEF TurnInv, Turns, Evidence, ReadsAreFresh, NoFalseRefusal
    <3> QED BY <1>3, <3>2, <3>5, <3>6 DEF TurnInv
  <2>6. CASE m.kind = "tool_required"
    <3> DEFINE x == [call |-> m.call, request |-> m.request]
    <3>1. Required(m) /\ Complaint(m) = "none"
      BY <2>1, <2>6, NoComplaint DEF Completed
    <3>2. turn' = [turn EXCEPT !.pc = "running", !.run = {m.run}, !.receipts = ReceiptsWith(m),
                     !.pending = {x}]
      BY <1>6, <2>3, <2>6, <3>1 DEF Receive
    <3>3. m.run \in ChatRunIds /\ x \in Asked /\ x.call = m.call /\ x.request = m.request
      BY <3>1 DEF Required, Fresh, Asked
    <3> HIDE DEF x
    <3>4. /\ turn' \in Turns /\ turn'.pc = "running" /\ turn'.receipts = ReceiptsWith(m)
          /\ turn'.calls = turn.calls /\ turn'.run = {m.run} /\ turn'.pending = {x}
          /\ turn'.error = turn.error /\ turn'.offered = turn.offered
      BY <2>4, <3>2, <3>3 DEF TurnInv, Turns
    <3>5. SeenCalls' = SeenCalls /\ SeenRequests' = SeenRequests
      BY <3>4 DEF SeenCalls, SeenRequests
    <3>6. Fresh(x)' /\ SuspendedAt(m.run, x)' /\ Given(m.run)'
      BY <1>1, <3>1, <3>3, <3>4, <3>5
         DEF Required, Fresh, SuspendedAt, Given, chatVars, chatStoreVars, chatHistory
    <3>7. AtTool'
      BY <2>4, <3>3, <3>4, <3>6 DEF AtTool
    <3>8. Stands'
      BY <1>3, <3>4, <3>7 DEF Stands, Alone
    <3>9. Evidence' /\ ReadsAreFresh' /\ NoFalseRefusal'
      BY <2>4, <3>4 DEF TurnInv, Turns, Evidence, ReadsAreFresh, NoFalseRefusal
    <3> QED BY <1>3, <3>4, <3>8, <3>9 DEF TurnInv
  <2> QED BY <1>1, <1>6, <2>5, <2>6
<1> QED BY <1>5, <1>6

LEMMA ToolReturnsStep ==
    ASSUME ChatInv, TurnInv, NEW found \in SUBSET Refs, NEW usable \in BOOLEAN,
           ToolReturns(found, usable)
    PROVE  TurnInv'
<1>1. AtTool /\ Alone /\ UNCHANGED chatVars
  BY DEF ToolReturns, TurnInv, Stands
<1>2. PICK r \in ChatRunIds, x \in Asked :
         turn.run = {r} /\ turn.pending = {x} /\ Fresh(x) /\ SuspendedAt(r, x) /\ Given(r)
  BY <1>1 DEF AtTool
<1> DEFINE call == [call |-> x.call, request |-> x.request, found |-> found]
           m == [kind |-> "result", run |-> r, call |-> x.call, tool |-> x.request.tool,
                 found |-> found, usable |-> usable]
<1>3. /\ turn' = [turn EXCEPT !.pc = "awaiting", !.calls = Append(@, call)]
      /\ wire' = {m}
  BY <1>1, <1>2 DEF ToolReturns, SendResult, Alone
<1>4. /\ call \in Called /\ call.call = x.call /\ call.request = x.request
      /\ m \in Messages /\ m.kind = "result" /\ m.run = r /\ m.call = x.call
      /\ m.tool = x.request.tool
  BY DEF Asked, Called, Messages, Request, ChatTools
<1> HIDE DEF call, m
<1>5. turn.calls \in Seq(Called) /\ turn.receipts \in Seq(SUBSET ChatCallIds)
  BY DEF TurnInv, Turns
<1>6. Append(turn.calls, call) \in Seq(Called)
  BY <1>4, <1>5
<1>7. /\ turn' \in Turns /\ turn'.pc = "awaiting" /\ turn'.calls = Append(turn.calls, call)
      /\ turn'.receipts = turn.receipts /\ turn'.run = {r} /\ turn'.pending = {x}
      /\ turn'.error = turn.error /\ turn'.offered = turn.offered
  BY <1>2, <1>3, <1>6 DEF TurnInv, Turns
<1>8. /\ DOMAIN turn'.calls = DOMAIN turn.calls \cup {Len(turn.calls) + 1}
      /\ \A i \in DOMAIN turn.calls : turn'.calls[i] = turn.calls[i]
      /\ turn'.calls[Len(turn.calls) + 1] = call
      /\ Len(turn'.calls) = Len(turn.calls) + 1 /\ Len(turn.calls) \in Nat
      /\ turn'.calls # <<>> /\ Len(turn.calls) + 1 \notin DOMAIN turn.calls
  BY <1>4, <1>5, <1>7
<1>9. SeenCalls' = SeenCalls \cup {x.call} /\ SeenRequests' = SeenRequests \cup {x.request}
  BY <1>4, <1>8 DEF SeenCalls, SeenRequests
<1>10. Len(turn.receipts) = Len(turn.calls)
  BY <1>1 DEF AtTool
<1>11. ResultSent'
  BY <1>2, <1>4, <1>7, <1>8, <1>10 DEF ResultSent
<1>12. SuspendedAt(r, x)'
  BY <1>1, <1>2, <1>7, <1>9 DEF SuspendedAt, chatVars, chatStoreVars
<1>13. /\ answered'[r] \cup {x.call} = SeenCalls'
       /\ Len(turn'.calls) <= executed'[r] + 1
  BY <1>1, <1>2, <1>8, <1>9 DEF Given, chatVars, chatHistory, ChatInv, ChatTypeOK
<1>14. Answering(m)'
  BY <1>2, <1>3, <1>4, <1>7, <1>12, <1>13 DEF Answering
<1>15. Stands'
  BY <1>1, <1>3, <1>7, <1>11, <1>14 DEF Stands, UnderWay, Alone, chatVars
<1>16. Evidence'
  BY <1>5, <1>7, <1>8, <1>10 DEF TurnInv, Evidence
<1>17. ReadsAreFresh'
  BY <1>2, <1>4, <1>8 DEF TurnInv, ReadsAreFresh, Fresh, SeenRequests
<1> QED BY <1>3, <1>4, <1>7, <1>15, <1>16, <1>17 DEF TurnInv, NoFalseRefusal

LEMMA AbortStep ==
    ASSUME TurnInv, Abort
    PROVE  TurnInv'
<1>1. /\ turn.pc \in {"awaiting", "running"} /\ turn' = [turn EXCEPT !.aborted = TRUE]
      /\ UNCHANGED <<chatActive, chatClosed, chatWaiting, answered, executed, wire>>
  BY DEF Abort, chatVars, chatStoreVars, chatHistory
<1>2. /\ turn' \in Turns /\ turn'.pc = turn.pc /\ turn'.offered = turn.offered
      /\ turn'.run = turn.run /\ turn'.pending = turn.pending /\ turn'.calls = turn.calls
      /\ turn'.receipts = turn.receipts /\ turn'.error = turn.error
  BY <1>1 DEF TurnInv, Turns
<1>3. SeenCalls' = SeenCalls /\ SeenRequests' = SeenRequests
  BY <1>2 DEF SeenCalls, SeenRequests
<1>4. /\ \A x : Fresh(x)' = Fresh(x)
      /\ \A r, x : SuspendedAt(r, x)' = SuspendedAt(r, x)
      /\ \A r : Given(r)' = Given(r)
      /\ \A m : Responded(m)' = Responded(m)
  BY <1>1, <1>2, <1>3 DEF Fresh, SuspendedAt, Given, Responded
<1>5. Closed' = Closed
  BY <1>1, <1>2, <1>4 DEF Closed
<1>6. (NothingYet \/ ResultSent)' = (NothingYet \/ ResultSent)
  BY <1>2 DEF NothingYet, ResultSent
<1>7. UnderWay => UnderWay'
  <2>1. ToStart' = ToStart /\ \A m : Refused(m)' = Refused(m)
    BY <1>1, <1>2 DEF ToStart, Refused
  <2>2. \A m : (Required(m) => Required(m)') /\ (Completed(m) => Completed(m)')
    BY <1>2, <1>4, <1>5 DEF Required, Completed
  <2>3. \A m : Answering(m) => Answering(m)'
    BY <1>1, <1>2, <1>3, <1>4 DEF Answering
  <2>4. \A h \in DOMAIN chatWaiting : Held(h) => Held(h)'
    BY <1>1, <1>2, <1>3, <1>4 DEF Held
  <2> QED BY <1>1, <2>1, <2>2, <2>3, <2>4 DEF UnderWay
<1>8. AtTool => AtTool'
  BY <1>2, <1>4 DEF AtTool
<1>9. Stands'
  BY <1>1, <1>2, <1>6, <1>7, <1>8 DEF TurnInv, Stands, Alone
<1>10. Evidence' /\ ReadsAreFresh' /\ NoFalseRefusal'
  BY <1>2 DEF TurnInv, Evidence, ReadsAreFresh, NoFalseRefusal
<1> QED BY <1>1, <1>2, <1>9, <1>10 DEF TurnInv

(***************************************************************************)
(* The service                                                             *)
(***************************************************************************)

\* What follows of a step that leaves the runner alone.
LEMMA RunnerStays ==
    ASSUME turn' = turn
    PROVE  /\ SeenCalls' = SeenCalls /\ SeenRequests' = SeenRequests
           /\ \A x : Fresh(x)' = Fresh(x)
           /\ NothingYet' = NothingYet /\ ResultSent' = ResultSent
BY DEF SeenCalls, SeenRequests, Fresh, NothingYet, ResultSent

\* A step of the service is the answer to what the runner awaits, or the runner
\* has given up: at its other points nothing is under way.
LEMMA OnlyAwaited ==
    ASSUME TurnInv, wire # {} \/ DOMAIN chatWaiting # {}
    PROVE  turn.pc = "failed" \/ (turn.pc = "awaiting" /\ (NothingYet \/ ResultSent) /\ UnderWay)
BY DEF TurnInv, Turns, Stands, Alone

\* The runner awaits a response still, and where it is is known.
LEMMA StillUnderWay ==
    ASSUME TurnInv, turn' = turn, wire' \subseteq Messages,
           turn.pc = "failed" \/ (turn.pc = "awaiting" /\ UnderWay')
    PROVE  TurnInv'
<1>1. turn.pc = "awaiting" => NothingYet \/ ResultSent
  BY DEF TurnInv, Stands
<1>2. Stands'
  BY <1>1, RunnerStays DEF Stands
<1> QED BY <1>2, TurnKept

\* An error to a runner that awaits a response.
LEMMA ErrorSent ==
    ASSUME TurnInv, turn' = turn, DOMAIN chatWaiting' = {}, NEW m, Respond(m, HttpError),
           wire \subseteq {m}, turn.pc = "awaiting"
    PROVE  TurnInv'
<1>1. wire' = {HttpError} /\ HttpError \in Messages /\ HttpError.kind = "error"
  BY DEF Respond, HttpError, Messages
<1>2. Refused(HttpError)'
  BY <1>1 DEF Refused
<1>3. UnderWay'
  BY <1>1, <1>2 DEF UnderWay
<1> QED BY <1>1, <1>3, StillUnderWay

LEMMA ServeWithoutToolsStep ==
    ASSUME TurnInv, NEW m \in wire, ServeWithoutTools(m)
    PROVE  TurnInv'
<1>1. turn' = turn /\ UNCHANGED chatVars /\ m.kind = "start"
  BY DEF ServeWithoutTools
<1>2. CASE turn.pc = "failed"
  <2>1. wire' \subseteq wire
    BY <1>2 DEF ServeWithoutTools, Respond
  <2> QED BY <1>1, <1>2, <2>1, StillUnderWay DEF TurnInv
<1>3. CASE turn.pc = "awaiting" /\ UnderWay /\ (NothingYet \/ ResultSent)
  <2>1. wire = {m} /\ turn.run = {} /\ DOMAIN chatWaiting = {}
    BY <1>1, <1>3, MessageUnderWay DEF ToStart, Required, Completed, Refused, Answering
  <2>2. turn.pending = {}
    BY <1>3, <2>1 DEF NothingYet, ResultSent
  <2>3. DOMAIN chatWaiting' = {}
    BY <1>1, <2>1 DEF chatVars
  <2>4. CASE Respond(m, HttpError)
    BY <1>1, <1>3, <2>1, <2>3, <2>4, ErrorSent
  <2>5. CASE Respond(m, Completion({}))
    <3>1. /\ wire' = {Completion({})} /\ Completion({}) \in Messages
          /\ Completion({}).kind = "completed" /\ Completion({}).receipt = {}
      BY <1>3, <2>1, <2>5 DEF Respond, Completion, Messages
    <3>2. Completed(Completion({}))'
      BY <1>1, <2>1, <2>2, <3>1 DEF Completed, Responded, Closed
    <3>3. UnderWay'
      BY <2>3, <3>1, <3>2 DEF UnderWay
    <3> QED BY <1>1, <1>3, <3>1, <3>3, StillUnderWay
  <2> QED BY <2>4, <2>5 DEF ServeWithoutTools
<1> QED BY <1>2, <1>3, OnlyAwaited

LEMMA ServeStartStep ==
    ASSUME ChatInv, TurnInv, NEW m \in wire, NEW r \in ChatRunIds, NEW S \in SUBSET Refs,
           NEW a \in Ask, ServeStart(m, r, [x \in S |-> "context"], a)
    PROVE  TurnInv'
<1> DEFINE n == ToolRequired(r, a, {})
           run == NewChatRun(m.tools, [x \in S |-> "context"], a)
<1>1. /\ turn' = turn /\ m.kind = "start" /\ Respond(m, n)
      /\ ChatStart(r, m.tools, [x \in S |-> "context"], a)
  BY DEF ServeStart
<1>2. /\ a.call \in ChatCallIds /\ a.request \in Request /\ a.served \in 0 .. MaxToolCalls
  BY DEF Ask
<1>3. /\ n \in Messages /\ n.kind = "tool_required" /\ n.run = r /\ n.call = a.call
      /\ n.request = a.request /\ n.receipt = {}
  BY <1>2 DEF ToolRequired, Messages
<1>4. /\ run.state = "pending" /\ run.call = a.call /\ run.request = a.request
      /\ run.catalog = m.tools /\ run.fingerprints = {a.request}
  BY DEF NewChatRun
<1>5. /\ a.request.tool \in m.tools /\ r \notin chatIssued
      /\ chatActive' = With(ChatLive, r, run)
      /\ executed' = [executed EXCEPT ![r] = a.served]
      /\ UNCHANGED <<chatWaiting, answered>>
  BY <1>1 DEF ChatStart, BackendAccepts, DoPutChat
<1> HIDE DEF n, run
<1>6. CASE turn.pc = "failed"
  <2>1. wire' \subseteq wire
    BY <1>1, <1>6 DEF Respond
  <2> QED BY <1>1, <1>6, <2>1, StillUnderWay DEF TurnInv
<1>7. CASE turn.pc = "awaiting" /\ UnderWay /\ (NothingYet \/ ResultSent)
  <2>1. /\ wire = {m} /\ turn.run = {} /\ DOMAIN chatWaiting = {}
        /\ m = [kind |-> "start", tools |-> turn.offered]
    BY <1>1, <1>7, MessageUnderWay DEF ToStart, Required, Completed, Refused, Answering
  <2>2. turn.pending = {} /\ turn.calls = <<>>
    BY <1>7, <2>1 DEF NothingYet, ResultSent
  <2>3. SeenCalls = {} /\ SeenRequests = {} /\ Len(turn.calls) = 0
    BY <2>2 DEF SeenCalls, SeenRequests
  <2>4. wire' = {n} /\ DOMAIN chatWaiting' = {}
    BY <1>1, <1>5, <1>7, <2>1 DEF Respond
  <2>5. Fresh(n)'
    BY <1>1, <1>2, <1>3, <1>5, <2>1, <2>3, RunnerStays DEF Fresh
  <2>6. r \in DOMAIN chatActive' /\ chatActive'[r] = run
    BY <1>5 DEF With
  <2>7. SuspendedAt(r, n)'
    BY <1>1, <1>3, <1>4, <2>1, <2>3, <2>6, RunnerStays DEF SuspendedAt
  <2>8. Given(r)'
    <3>1. answered'[r] = {} /\ executed'[r] = a.served
      BY <1>5 DEF ChatInv, ChatTypeOK, Untouched
    <3> QED BY <1>1, <1>2, <2>3, <3>1, RunnerStays DEF Given
  <2>9. Required(n)'
    BY <1>1, <1>3, <2>1, <2>2, <2>4, <2>5, <2>7, <2>8 DEF Required, Responded
  <2>10. UnderWay'
    BY <2>4, <2>9 DEF UnderWay
  <2> QED BY <1>1, <1>3, <1>7, <2>4, <2>10, StillUnderWay
<1> QED BY <1>6, <1>7, OnlyAwaited

LEMMA ServeResultStep ==
    ASSUME ChatInv, TurnInv, NEW m \in wire, NEW h \in ChatHandlers, ServeResult(m, h)
    PROVE  TurnInv'
<1>1. /\ turn' = turn /\ m.kind = "result" /\ wire' = wire \ {m}
      /\ ChatSubmit(h, m.run, m.tool, m.call, m.found)
  BY DEF ServeResult
<1>2. CASE turn.pc = "failed"
  BY <1>1, <1>2, StillUnderWay DEF TurnInv
<1>3. CASE turn.pc = "awaiting" /\ UnderWay
  <2> DEFINE r == m.run
             w == chatWaiting'[h]
  <2>1. Answering(m) /\ wire = {m} /\ DOMAIN chatWaiting = {}
    BY <1>1, <1>3, MessageUnderWay DEF ToStart, Required, Completed, Refused, Answering
  <2>2. PICK x \in turn.pending :
           x.call = m.call /\ x.request.tool = m.tool /\ SuspendedAt(r, x)
    BY <2>1 DEF Answering
  <2>3. /\ r \in DOMAIN chatActive /\ ChatLive[r] = chatActive[r]
        /\ chatActive[r] \in StoredChatRun /\ r \in ChatRunIds
    BY <1>1, ChatSweepFacts, ChatStoreOfInv DEF ChatSubmit, CanClaimChat
  <2>4. /\ DOMAIN chatWaiting' = {h} /\ w.run = r /\ w.claimed = ClaimedChat(r)
        /\ answered' = [answered EXCEPT ![r] = @ \cup {m.call}]
        /\ executed' = [executed EXCEPT ![r] = @ + 1]
    BY <1>1, <2>1 DEF ChatSubmit, With
  <2>5. /\ w.claimed.call = x.call /\ w.claimed.request = x.request
        /\ w.claimed.catalog = turn.offered
        /\ SeenRequests \subseteq w.claimed.fingerprints
    BY <2>2, <2>3, <2>4 DEF SuspendedAt, ClaimedChat, StoredChatRun
  <2>6. turn.pending = {[call |-> w.claimed.call, request |-> w.claimed.request]}
    <3>1. turn.pending = {x} /\ x \in Asked
      BY <1>3, <2>2 DEF TurnInv, Stands, NothingYet, ResultSent
    <3> QED BY <2>5, <3>1 DEF Asked
  <2>7. Given(r)'
    <3>1. answered'[r] = SeenCalls
      BY <2>1, <2>3, <2>4 DEF Answering, ChatInv, ChatTypeOK
    <3>2. Len(turn.calls) <= executed'[r]
      BY <2>1, <2>3, <2>4 DEF Answering, ChatInv, ChatTypeOK
    <3> QED BY <1>1, <3>1, <3>2, RunnerStays DEF Given
  <2>8. Held(h)'
    BY <1>1, <2>1, <2>4, <2>5, <2>6, <2>7, RunnerStays DEF Held, Answering
  <2>9. UnderWay'
    BY <2>4, <2>8 DEF UnderWay
  <2> QED BY <1>1, <1>3, <2>9, StillUnderWay DEF TurnInv
<1> QED BY <1>2, <1>3, OnlyAwaited

LEMMA ServeRejectionStep ==
    ASSUME TurnInv, NEW m \in wire, ServeRejection(m)
    PROVE  TurnInv'
<1>1. turn' = turn /\ m.kind = "result" /\ Respond(m, HttpError) /\ chatWaiting' = chatWaiting
  BY DEF ServeRejection, ChatSubmitRefused, ChatSubmitRejected
<1>2. CASE turn.pc = "failed"
  <2>1. wire' \subseteq wire
    BY <1>1, <1>2 DEF Respond
  <2> QED BY <1>1, <1>2, <2>1, StillUnderWay DEF TurnInv
<1>3. CASE turn.pc = "awaiting" /\ UnderWay
  <2>1. wire = {m} /\ DOMAIN chatWaiting = {}
    BY <1>1, <1>3, MessageUnderWay DEF ToStart, Required, Completed, Refused, Answering
  <2> QED BY <1>1, <1>3, <2>1, ErrorSent
<1> QED BY <1>2, <1>3, OnlyAwaited

\* A handler awaits the provider for the run of the turn.
LEMMA HandlerHeld ==
    ASSUME ChatInv, UnderWay, NEW h \in DOMAIN chatWaiting
    PROVE  /\ Held(h) /\ wire = {} /\ DOMAIN chatWaiting = {h}
           /\ chatWaiting[h].run \in ChatRunIds /\ turn.run = {chatWaiting[h].run}
           /\ answered[chatWaiting[h].run] =
                 chatWaiting[h].claimed.seen \cup {chatWaiting[h].claimed.call}
           /\ executed[chatWaiting[h].run] = chatWaiting[h].claimed.count
           /\ Receipt(h) = {x.call : x \in turn.pending}
           /\ Receipt(h) \in SUBSET ChatCallIds
           /\ chatWaiting[h].claimed.count \in Nat
<1>1. wire = {}
  BY DEF UnderWay, Held
<1>2. Held(h) /\ DOMAIN chatWaiting = {h}
  BY <1>1 DEF UnderWay, Held
<1>3. /\ chatWaiting[h].run \in ChatRunIds
      /\ answered[chatWaiting[h].run] =
            chatWaiting[h].claimed.seen \cup {chatWaiting[h].claimed.call}
      /\ executed[chatWaiting[h].run] = chatWaiting[h].claimed.count
      /\ chatWaiting[h].run \in DOMAIN receipts
      /\ receipts[chatWaiting[h].run] = chatWaiting[h].claimed.call
      /\ chatWaiting[h].claimed \in StoredChatRun
  BY DEF ChatInv, ChatTypeOK, Awaited, Awaiting
<1>4. Receipt(h) = {chatWaiting[h].claimed.call}
  BY <1>3 DEF Receipt
<1>5. {x.call : x \in turn.pending} = {chatWaiting[h].claimed.call}
  BY <1>2 DEF Held
<1> QED BY <1>1, <1>2, <1>3, <1>4, <1>5 DEF Held, StoredChatRun

\* A response to a runner that has given up is not delivered.
LEMMA NotDelivered ==
    ASSUME TurnInv, turn' = turn, turn.pc = "failed", NEW m, NEW response, Respond(m, response)
    PROVE  TurnInv'
<1>1. wire' \subseteq Messages
  BY DEF Respond, TurnInv
<1> QED BY <1>1, StillUnderWay

\* The handler returns, and an error is what it returns.
LEMMA HandlerFails ==
    ASSUME ChatInv, TurnInv, turn' = turn, NEW h \in DOMAIN chatWaiting, ChatLeave(h),
           Respond(NoRequest, HttpError)
    PROVE  TurnInv'
<1>1. CASE turn.pc = "failed"
  BY <1>1, NotDelivered
<1>2. CASE turn.pc = "awaiting" /\ UnderWay
  <2>1. wire = {} /\ DOMAIN chatWaiting = {h}
    BY <1>2, HandlerHeld
  <2>2. DOMAIN chatWaiting' = {}
    BY <2>1 DEF ChatLeave, Without, Restrict
  <2> QED BY <1>2, <2>1, <2>2, ErrorSent
<1> QED BY <1>1, <1>2, OnlyAwaited

LEMMA ServeReplyStep ==
    ASSUME ChatInv, TurnInv, NEW h \in ChatHandlers, NEW n \in 0 .. MaxToolCalls,
           NEW op \in SUBSET Refs, ServeReply(h, n, op)
    PROVE  TurnInv'
<1> DEFINE w == chatWaiting[h]
<1> PICK r : r = chatWaiting[h].run
  OBVIOUS
<1> PICK m : m = Completion(Receipt(h))
  OBVIOUS
<1>1. /\ turn' = turn /\ h \in DOMAIN chatWaiting /\ ChatLeave(h)
      /\ UNCHANGED <<chatNow, answered>>
      /\ executed' = [executed EXCEPT ![r] = @ + n]
  BY DEF ServeReply, ChatReply
<1>2. CASE ~(OffersBacked(w, op) /\ CanCompleteChat(w))
  <2>1. Respond(NoRequest, HttpError)
    BY <1>2 DEF ServeReply
  <2> QED BY <1>1, <2>1, HandlerFails
<1>3. CASE OffersBacked(w, op) /\ CanCompleteChat(w)
  <2>1. Respond(NoRequest, m) /\ ChatBury(r, "completed")
    BY <1>3 DEF ServeReply, ChatReply
  <2>2. CASE turn.pc = "failed"
    BY <1>1, <2>1, <2>2, NotDelivered
  <2>3. CASE turn.pc = "awaiting" /\ UnderWay
    <3>1. /\ Held(h) /\ wire = {} /\ DOMAIN chatWaiting = {h} /\ r \in ChatRunIds
          /\ turn.run = {r} /\ Receipt(h) = {x.call : x \in turn.pending}
      BY <1>1, <2>3, HandlerHeld
    <3>2. wire' = {m} /\ DOMAIN chatWaiting' = {}
      BY <1>1, <2>1, <2>3, <3>1 DEF Respond, ChatLeave, Without, Restrict
    <3>3. Receipt(h) \in SUBSET ChatCallIds
      BY <1>1, <2>3, HandlerHeld
    <3>4. m \in Messages /\ m.kind = "completed" /\ m.receipt = Receipt(h)
      BY <3>3 DEF Completion, Messages
    <3>5. r \in DOMAIN ChatLive
      BY <1>3 DEF CanCompleteChat, HoldsChat
    <3>6. r \notin DOMAIN chatActive' /\ chatClosed'[r].reason = "completed"
      BY <1>1, <2>1, <3>5, ChatBuries, ChatStoreOfInv
    <3>7. Given(r)'
      <4>1. answered[r] = SeenCalls /\ Len(turn.calls) <= executed[r]
        BY <3>1 DEF Held, Given
      <4>2. Len(turn.calls) <= executed'[r]
        BY <1>1, <3>1, <4>1 DEF ChatInv, ChatTypeOK, TurnInv, Turns
      <4> QED BY <1>1, <4>1, <4>2, RunnerStays DEF Given
    <3>8. Closed'
      BY <1>1, <3>1, <3>6, <3>7 DEF Closed
    <3>9. Completed(m)'
      BY <1>1, <3>1, <3>2, <3>4, <3>8 DEF Completed, Responded
    <3>10. UnderWay'
      BY <3>2, <3>9 DEF UnderWay
    <3> QED BY <1>1, <2>3, <3>2, <3>4, <3>10, StillUnderWay
  <2> QED BY <1>1, <2>2, <2>3, OnlyAwaited
<1> QED BY <1>2, <1>3

LEMMA ServeRequestStep ==
    ASSUME ChatInv, TurnInv, NEW h \in ChatHandlers, NEW a \in Ask, ServeRequest(h, a)
    PROVE  TurnInv'
<1> DEFINE w == chatWaiting[h]
<1> PICK r : r = chatWaiting[h].run
  OBVIOUS
<1> PICK m : m = ToolRequired(r, a, Receipt(h))
  OBVIOUS
<1> PICK run : run = ContinuedChat(w, a)
  OBVIOUS
<1>1. /\ turn' = turn /\ h \in DOMAIN chatWaiting /\ ChatLeave(h) /\ MayAsk(w, a)
      /\ UNCHANGED <<chatNow, answered>>
      /\ executed' = [executed EXCEPT ![r] = @ + a.served]
  BY DEF ServeRequest, ChatAskAgain
<1>2. CASE ~CanContinueChat(w, a)
  <2>1. Respond(NoRequest, HttpError)
    BY <1>2 DEF ServeRequest
  <2> QED BY <1>1, <2>1, HandlerFails
<1>3. CASE CanContinueChat(w, a)
  <2>1. Respond(NoRequest, m) /\ chatActive' = With(ChatLive, r, run)
    BY <1>3 DEF ServeRequest, ChatAskAgain, DoContinueChat
  <2>2. CASE turn.pc = "failed"
    BY <1>1, <2>1, <2>2, NotDelivered
  <2>3. CASE turn.pc = "awaiting" /\ UnderWay
    <3>1. /\ Held(h) /\ wire = {} /\ DOMAIN chatWaiting = {h} /\ r \in ChatRunIds
          /\ turn.run = {r} /\ Receipt(h) = {x.call : x \in turn.pending}
          /\ answered[r] = w.claimed.seen \cup {w.claimed.call}
          /\ executed[r] = w.claimed.count /\ w.claimed.count \in Nat
      BY <1>1, <2>3, HandlerHeld
    <3>2. wire' = {m} /\ DOMAIN chatWaiting' = {}
      BY <1>1, <2>1, <2>3, <3>1 DEF Respond, ChatLeave, Without, Restrict
    <3>3. Receipt(h) \in SUBSET ChatCallIds
      BY <1>1, <2>3, HandlerHeld
    <3>4. a.call \in ChatCallIds /\ a.request \in Request /\ a.served \in 0 .. MaxToolCalls
      BY DEF Ask
    <3>5. /\ m \in Messages /\ m.kind = "tool_required" /\ m.run = r /\ m.call = a.call
          /\ m.request = a.request /\ m.receipt = Receipt(h)
      BY <3>1, <3>3, <3>4 DEF ToolRequired, Messages
    <3>6. /\ run.state = "pending" /\ run.call = a.call /\ run.request = a.request
          /\ run.catalog = w.claimed.catalog
          /\ run.fingerprints = w.claimed.fingerprints \cup {a.request}
      BY DEF ContinuedChat
    <3>7. r \in DOMAIN chatActive' /\ chatActive'[r] = run
      BY <2>1 DEF With
    <3>8. /\ answered[r] = SeenCalls /\ Len(turn.calls) <= executed[r]
          /\ w.claimed.catalog = turn.offered
          /\ SeenRequests \subseteq w.claimed.fingerprints
      BY <3>1 DEF Held, Given
    <3>9. Len(turn.calls) \in Nat
      BY DEF TurnInv, Turns
    <3>10. Fresh(m)
      <4>1. /\ a.call \notin SeenCalls /\ a.request \notin SeenRequests
            /\ a.request.tool \in turn.offered
        BY <1>1, <3>1, <3>8 DEF MayAsk, BackendAccepts
      <4>2. Len(turn.calls) < MaxToolCalls
        BY <1>1, <3>1, <3>4, <3>8, <3>9 DEF MayAsk, BackendAccepts
      <4> QED BY <3>4, <3>5, <4>1, <4>2 DEF Fresh
    <3>11. SuspendedAt(r, m)'
      BY <1>1, <3>5, <3>6, <3>7, <3>8, RunnerStays DEF SuspendedAt
    <3>12. Given(r)'
      <4>1. Len(turn.calls) <= executed'[r]
        BY <1>1, <3>1, <3>4, <3>8, <3>9 DEF ChatInv, ChatTypeOK
      <4> QED BY <1>1, <3>8, <4>1, RunnerStays DEF Given
    <3>13. Required(m)'
      BY <1>1, <3>1, <3>2, <3>5, <3>10, <3>11, <3>12, RunnerStays DEF Required, Responded
    <3>14. UnderWay'
      BY <3>2, <3>13 DEF UnderWay
    <3> QED BY <1>1, <2>3, <3>2, <3>5, <3>14, StillUnderWay
  <2> QED BY <1>1, <2>2, <2>3, OnlyAwaited
<1> QED BY <1>2, <1>3

LEMMA ServiceRestartsStep ==
    ASSUME TurnInv, ServiceRestarts
    PROVE  TurnInv'
<1>1. /\ wire' = {} /\ DOMAIN chatWaiting' = {} /\ DOMAIN chatActive' = {}
      /\ DOMAIN chatClosed' = {} /\ UNCHANGED <<answered, executed>>
  BY DEF ServiceRestarts, ChatRestart, Empty, chatHistory
<1>2. CASE turn.pc = "awaiting"
  <2>1. GiveUp("network") /\ "network" \in Errors \ Unfounded
    BY <1>2 DEF ServiceRestarts, Errors, Unfounded
  <2> QED BY <1>1, <2>1, TurnFails
<1>3. CASE turn.pc # "awaiting"
  <2>1. turn' = turn
    BY <1>3 DEF ServiceRestarts
  <2>2. \A r : Given(r)' = Given(r)
    BY <1>1, <2>1, RunnerStays DEF Given
  <2>3. Closed => Closed'
    BY <1>1, <2>1, <2>2 DEF Closed
  <2>4. AtTool => AtTool'
    BY <1>1, <2>1, <2>2, RunnerStays DEF AtTool, SuspendedAt
  <2>5. Stands'
    BY <1>1, <1>3, <2>1, <2>3, <2>4 DEF TurnInv, Stands, Alone
  <2> QED BY <1>1, <2>1, <2>5, TurnKept
<1> QED BY <1>2, <1>3

\* The clock, and a step of neither side.
LEMMA NothingMoves ==
    ASSUME TurnInv,
           UNCHANGED <<turn, wire, chatActive, chatClosed, chatWaiting, answered, executed>>
    PROVE  TurnInv'
<1>1. /\ \A r : Given(r)' = Given(r)
      /\ \A r, x : SuspendedAt(r, x)' = SuspendedAt(r, x)
      /\ \A m : Responded(m)' = Responded(m)
  BY RunnerStays DEF Given, SuspendedAt, Responded
<1>2. Closed' = Closed /\ ToStart' = ToStart /\ Alone' = Alone
  BY <1>1 DEF Closed, ToStart, Alone
<1>3. AtTool => AtTool'
  BY <1>1, RunnerStays DEF AtTool
<1>4. \A m : (Required(m) => Required(m)') /\ (Completed(m) => Completed(m)')
  BY <1>1, <1>2, RunnerStays DEF Required, Completed
<1>5. \A m : (Refused(m) => Refused(m)') /\ (Answering(m) => Answering(m)')
  BY <1>1, RunnerStays DEF Refused, Answering
<1>6. \A h \in DOMAIN chatWaiting : Held(h) => Held(h)'
  BY <1>1, RunnerStays DEF Held
<1>7. UnderWay => UnderWay'
  BY <1>2, <1>4, <1>5, <1>6 DEF UnderWay
<1>8. Stands'
  BY <1>2, <1>3, <1>7, RunnerStays DEF TurnInv, Stands
<1> QED BY <1>8, TurnKept DEF TurnInv

(***************************************************************************)
(* The turn                                                                *)
(***************************************************************************)

\* A step of the two is one of the service alone, or leaves it as it was.
LEMMA TurnIsChat ==
    ASSUME wire \subseteq Messages, [TurnNext]_allVars
    PROVE  [ChatNext]_chatVars
<1>1. ASSUME NEW m \in wire, NEW r \in ChatRunIds, NEW S \in SUBSET Refs, NEW a \in Ask,
             ServeStart(m, r, [x \in S |-> "context"], a)
      PROVE  ChatNext
  <2>1. m.tools \in SUBSET ChatTools
    BY <1>1 DEF ServeStart, Messages
  <2>2. ChatStart(r, m.tools, [x \in S |-> "context"], a)
    BY <1>1 DEF ServeStart
  <2> QED BY <2>1, <2>2 DEF ChatNext
<1>2. ASSUME NEW m \in wire, m.kind = "result"
      PROVE  /\ m.run \in ChatRunIds /\ m.tool \in ChatTools /\ m.call \in ChatCallIds
             /\ m.found \in SUBSET Refs
  BY <1>2 DEF Messages
<1>3. ASSUME NEW m \in wire, NEW h \in ChatHandlers, ServeResult(m, h) PROVE ChatNext
  BY <1>2, <1>3 DEF ServeResult, ChatNext
<1>4. ASSUME NEW m \in wire, ServeRejection(m) PROVE ChatNext
  BY <1>2, <1>4 DEF ServeRejection, ChatNext
<1>5. ASSUME NEW h \in ChatHandlers, NEW n \in 0 .. MaxToolCalls, NEW x \in Refs,
             ServeReply(h, n, {}) \/ ServeReply(h, n, {x})
      PROVE  ChatNext
  BY <1>5 DEF ServeReply, ChatNext
<1>6. ASSUME NEW h \in ChatHandlers, NEW a \in Ask, ServeRequest(h, a) PROVE ChatNext
  BY <1>6 DEF ServeRequest, ChatNext
<1>7. ASSUME NEW h \in ChatHandlers, ServeFailure(h) PROVE ChatNext
  BY <1>7 DEF ServeFailure, ChatNext
<1>8. ASSUME ServiceRestarts \/ TimePasses PROVE ChatNext
  BY <1>8 DEF ServiceRestarts, TimePasses, ChatNext
<1>9. ASSUME NEW m, ServeWithoutTools(m) \/ Receive(m) PROVE UNCHANGED chatVars
  BY <1>9 DEF ServeWithoutTools, Receive
<1>10. ASSUME NEW found, NEW usable, ToolReturns(found, usable) PROVE UNCHANGED chatVars
  BY <1>10 DEF ToolReturns
<1>11. ASSUME NEW tools, StartChat(tools) PROVE UNCHANGED chatVars
  BY <1>11 DEF StartChat
<1>12. ASSUME ToolFails \/ FetchRejects \/ Abort \/ UNCHANGED allVars PROVE UNCHANGED chatVars
  BY <1>12 DEF ToolFails, FetchRejects, Abort, allVars
<1>13. ASSUME ServiceStep PROVE [ChatNext]_chatVars
  BY <1>1, <1>3, <1>4, <1>5, <1>6, <1>7, <1>9, <1>13 DEF ServiceStep
<1>14. ASSUME RunnerStep PROVE UNCHANGED chatVars
  BY <1>9, <1>10, <1>12, <1>14 DEF RunnerStep
<1> QED BY <1>8, <1>11, <1>12, <1>13, <1>14 DEF TurnNext

LEMMA TurnNextInv ==
    ASSUME ChatInv, TurnInv, [TurnNext]_allVars
    PROVE  ChatInv' /\ TurnInv'
<1>1. ChatInv'
  BY TurnIsChat, ChatNextInv DEF TurnInv
<1>2. ASSUME ToolFails \/ FetchRejects PROVE TurnInv'
  <2>1. \E why \in Errors \ Unfounded : GiveUp(why)
    BY <1>2 DEF ToolFails, FetchRejects, Errors, Unfounded
  <2>2. wire' \subseteq Messages
    BY <1>2 DEF ToolFails, FetchRejects, TurnInv
  <2> QED BY <2>1, <2>2, TurnFails
<1>3. ASSUME NEW h \in ChatHandlers, ServeFailure(h) PROVE TurnInv'
  BY <1>3, HandlerFails DEF ServeFailure, ChatProviderFails
<1>4. ASSUME NEW h \in ChatHandlers, NEW n \in 0 .. MaxToolCalls, NEW x \in Refs,
             ServeReply(h, n, {}) \/ ServeReply(h, n, {x})
      PROVE  TurnInv'
  BY <1>4, ServeReplyStep
<1>5. ASSUME TimePasses \/ UNCHANGED allVars PROVE TurnInv'
  BY <1>5, NothingMoves
     DEF TimePasses, ChatTick, allVars, turnVars, chatVars, chatStoreVars, chatHistory
<1>6. ASSUME RunnerStep PROVE TurnInv'
  BY <1>2, <1>6, ReceiveStep, ToolReturnsStep DEF RunnerStep
<1>7. ASSUME ServiceStep PROVE TurnInv'
  BY <1>3, <1>4, <1>7, ServeStartStep, ServeWithoutToolsStep, ServeResultStep, ServeRejectionStep,
     ServeRequestStep DEF ServiceStep
<1>8. TurnInv'
  BY <1>2, <1>5, <1>6, <1>7, StartChatStep, AbortStep, ServiceRestartsStep DEF TurnNext
<1> QED BY <1>1, <1>8

LEMMA TurnInitInv == TurnInit => ChatInv /\ TurnInv
<1> SUFFICES ASSUME TurnInit PROVE ChatInv /\ TurnInv
  OBVIOUS
<1>1. ChatInv /\ turn = Idle /\ wire = {} /\ DOMAIN chatWaiting = {}
  BY ChatInitInv DEF TurnInit, ChatInit, Empty
<1>2. turn \in Turns
  BY <1>1 DEF Idle, Turns, Errors
<1>3. Stands /\ Evidence /\ ReadsAreFresh /\ NoFalseRefusal
  BY <1>1 DEF Idle, Stands, Alone, Evidence, ReadsAreFresh, NoFalseRefusal
<1> QED BY <1>1, <1>2, <1>3 DEF TurnInv

LEMMA TurnInductive == TurnSpec => [](ChatInv /\ TurnInv)
<1>1. TurnSpec => TurnInit /\ [][TurnNext]_allVars
  BY PTL DEF TurnSpec
<1>2. (ChatInv /\ TurnInv) /\ [TurnNext]_allVars => (ChatInv /\ TurnInv)'
  BY TurnNextInv
<1> QED BY <1>1, <1>2, TurnInitInv, PTL

\* Type correctness of the runner, its messages and the service.
THEOREM TurnTypeCorrect == TurnSpec => []TurnTypeOK
<1>1. ChatInv /\ TurnInv => TurnTypeOK
  BY DEF ChatInv, TurnInv, Turns, Errors, Unfounded, Asked, Called, TurnTypeOK
<1> QED BY <1>1, TurnInductive, PTL

\* The runner never ends a chain the service let through: its own checks on
\* budget, run, call ids, tools and receipts all pass.
THEOREM RunnerAgrees == TurnSpec => []NoFalseRefusal
<1>1. ChatInv /\ TurnInv => NoFalseRefusal
  BY DEF TurnInv
<1> QED BY <1>1, TurnInductive, PTL

\* No request is run twice in a turn, so no result of its cache is ever used.
THEOREM RunnerReadsAnew == TurnSpec => []ReadsAreFresh
<1>1. ChatInv /\ TurnInv => ReadsAreFresh
  BY DEF TurnInv
<1> QED BY <1>1, TurnInductive, PTL

\* Each receipt is of the call in its place, and a turn reported as complete is
\* one of which the service was given every result and completed the run.
THEOREM TurnDone == TurnSpec => []DoneMeansDone
<1>1. ChatInv /\ TurnInv => DoneMeansDone
  BY DEF TurnInv, Stands, Closed, Given, Evidence, DoneMeansDone
<1> QED BY <1>1, TurnInductive, PTL

\* Whatever the runner and the wire do, the service keeps to ChatRuns: what is
\* proved of its chains there holds of every turn.
THEOREM TurnKeepsToChat == TurnSpec => ChatSpec /\ ChatResumesOnce
<1>1. TurnInit => ChatInit
  BY DEF TurnInit
<1>2. TurnInv /\ [TurnNext]_allVars => [ChatNext]_chatVars
  BY TurnIsChat DEF TurnInv
<1>3. TurnSpec => TurnInit /\ [][TurnNext]_allVars
  BY PTL DEF TurnSpec
<1>4. TurnSpec => ChatSpec
  BY <1>1, <1>2, <1>3, TurnInductive, PTL DEF ChatSpec
<1> QED BY <1>4, ChatRefinement, PTL
=============================================================================
