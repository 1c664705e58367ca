-------------------------- MODULE ChatRuns_proofs --------------------------
(***************************************************************************)
(* Proofs about ChatRuns, for any number of concurrent handlers, runs,     *)
(* calls and references, every budget and every TTL.                       *)
(*                                                                         *)
(* The inductive invariant says where the chain of a run stands while the  *)
(* run waits for the client (Suspended) and while a handler awaits the     *)
(* provider (Awaited): how much of the budget the history has spent, which *)
(* answers it has given, and which operations the student may be offered.  *)
(* The handler works on the checkpoint it claimed, not on the store, so    *)
(* Awaited also says that the two still agree or the run is gone.          *)
(***************************************************************************)
EXTENDS ChatRuns, TLAPS

(***************************************************************************)
(* The inductive invariant                                                 *)
(***************************************************************************)

\* A run is never both resumable and closed, and only issued ids are known.
ChatOneHome ==
    /\ DOMAIN chatActive \cap DOMAIN chatClosed = {}
    /\ DOMAIN chatActive \cup DOMAIN chatClosed \subseteq chatIssued

\* A run that waits for the client: its count is one ahead of the tools run
\* so far, and the call it waits for was never answered.
Suspended ==
    \A r \in DOMAIN chatActive :
        chatActive[r].state = "pending" =>
            /\ executed[r] + 1 = chatActive[r].count
            /\ chatActive[r].count <= MaxToolCalls
            /\ chatActive[r].offers = told[r]
            /\ chatActive[r].seen = answered[r]
            /\ chatActive[r].call \notin answered[r]

\* A handler that awaits the provider, for a run that is in flight or gone.
Awaited ==
    \A h \in DOMAIN chatWaiting :
        LET w == chatWaiting[h] IN
        /\ w.run \in chatIssued
        /\ w.claimed.state = "in_flight"
        /\ w.run \in DOMAIN chatActive => chatActive[w.run] = w.claimed
        /\ w.run \in DOMAIN receipts /\ receipts[w.run] = w.claimed.call
        /\ w.claimed.count <= MaxToolCalls
        /\ executed[w.run] = w.claimed.count
        /\ w.offers = told[w.run]
        /\ answered[w.run] = w.claimed.seen \cup {w.claimed.call}

\* The history of a run begins with the run, and a proposal is made of one.
Untouched == \A r \in ChatRunIds \ chatIssued : told[r] = {} /\ answered[r] = {}
Settled == \A p \in proposed : p[1] \in chatIssued

ChatStoreInv ==
    /\ chatNow \in Nat
    /\ DOMAIN chatActive \subseteq ChatRunIds
    /\ \A r \in DOMAIN chatActive : chatActive[r] \in StoredChatRun
    /\ DOMAIN chatClosed \subseteq ChatRunIds
    /\ \A r \in DOMAIN chatClosed : chatClosed[r] \in ChatTombstone
    /\ chatIssued \subseteq ChatRunIds
    /\ ChatOneHome

ChatInv ==
    /\ ChatTypeOK /\ ChatOneHome
    /\ Suspended /\ Awaited /\ Untouched /\ Settled
    /\ BudgetKept /\ OperationBacked /\ ReceiptOfClaimant

(***************************************************************************)
(* The store                                                               *)
(***************************************************************************)

\* The runs a method does not work on: they keep their record, or expire.
ChatFrame(r) ==
    \A q : q # r =>
        /\ q \in DOMAIN chatActive' => q \in DOMAIN chatActive /\ chatActive'[q] = chatActive[q]
        /\ q \in DOMAIN chatClosed' =>
              \/ q \in DOMAIN chatActive
              \/ q \in DOMAIN chatClosed /\ chatClosed'[q] = chatClosed[q]

\* What the sweep leaves behind is a part of what was there, or a tombstone
\* for a run that was active.
LEMMA ChatSweepFacts ==
    ASSUME ChatStoreInv
    PROVE  /\ \A r \in DOMAIN ChatLive :
                 /\ r \in DOMAIN chatActive /\ ChatLive[r] = chatActive[r]
                 /\ ChatLive[r] \in StoredChatRun /\ r \in ChatRunIds /\ r \in chatIssued
                 /\ r \notin DOMAIN ChatTombs
           /\ \A r \in DOMAIN ChatTombs :
                 /\ ChatTombs[r] \in ChatTombstone /\ r \in ChatRunIds /\ r \in chatIssued
                 /\ \/ r \in DOMAIN chatActive
                    \/ r \in DOMAIN chatClosed /\ ChatTombs[r] = chatClosed[r]
<1>1. chatNow \in Nat
  BY DEF ChatStoreInv
<1>2. DOMAIN ChatLive = DOMAIN chatActive \ ChatOverdue
  BY DEF ChatLive, Restrict
<1>3. \A r \in DOMAIN ChatLive : ChatLive[r] = chatActive[r]
  BY DEF ChatLive, Restrict
<1>4. DOMAIN ChatTombs = ChatKept \cup ChatOverdue
  BY DEF ChatTombs
<1>5. ChatOverdue \subseteq DOMAIN chatActive /\ ChatKept \subseteq DOMAIN chatClosed
  BY DEF ChatOverdue, ChatKept
<1>6. ASSUME NEW r \in DOMAIN ChatTombs
      PROVE  /\ ChatTombs[r] \in ChatTombstone
             /\ r \in DOMAIN chatActive \/ (r \in DOMAIN chatClosed /\ ChatTombs[r] = chatClosed[r])
  <2>1. CASE r \in ChatOverdue
    BY <1>1, <1>5, <2>1 DEF ChatTombs, ChatTombstone
  <2>2. CASE r \notin ChatOverdue
    BY <1>4, <1>5, <2>2 DEF ChatTombs, ChatStoreInv
  <2> QED BY <2>1, <2>2
<1> QED
  BY <1>2, <1>3, <1>4, <1>5, <1>6 DEF ChatStoreInv, ChatOneHome

\* A method that leaves r with a well-formed record.
LEMMA ChatWithLive ==
    ASSUME ChatStoreInv, NEW r \in ChatRunIds, NEW run \in StoredChatRun,
           r \in chatIssued', chatIssued \subseteq chatIssued', chatIssued' \subseteq ChatRunIds,
           r \notin DOMAIN ChatTombs,
           chatActive' = With(ChatLive, r, run), chatClosed' = ChatTombs, chatNow' = chatNow
    PROVE  /\ ChatStoreInv' /\ ChatFrame(r)
           /\ r \in DOMAIN chatActive' /\ chatActive'[r] = run
<1>1. /\ DOMAIN chatActive' = DOMAIN ChatLive \cup {r}
      /\ \A q \in DOMAIN chatActive' : chatActive'[q] = IF q = r THEN run ELSE ChatLive[q]
  BY DEF With
<1>2. ChatStoreInv'
  BY <1>1, ChatSweepFacts DEF ChatStoreInv, ChatOneHome
<1> QED BY <1>1, <1>2, ChatSweepFacts DEF ChatFrame

\* A method that closes r.
LEMMA ChatBuries ==
    ASSUME ChatStoreInv, NEW r \in DOMAIN ChatLive, NEW reason \in {"completed", "failed"},
           ChatBury(r, reason), chatNow' = chatNow
    PROVE  /\ ChatStoreInv' /\ ChatFrame(r)
           /\ r \notin DOMAIN chatActive'
           /\ r \in DOMAIN chatClosed' /\ chatClosed'[r].reason = reason
           /\ chatIssued' = chatIssued
<1>1. /\ DOMAIN chatActive' = DOMAIN ChatLive \ {r}
      /\ \A q \in DOMAIN chatActive' : chatActive'[q] = ChatLive[q]
  BY DEF ChatBury, Without, Restrict
<1>2. /\ DOMAIN chatClosed' = DOMAIN ChatTombs \cup {r}
      /\ \A q \in DOMAIN chatClosed' :
            chatClosed'[q] = IF q = r THEN [reason |-> reason, at |-> chatNow] ELSE ChatTombs[q]
  BY DEF ChatBury, With
<1>3. [reason |-> reason, at |-> chatNow] \in ChatTombstone
  BY DEF ChatTombstone, ChatStoreInv
<1>4. chatIssued' = chatIssued
  BY DEF ChatBury
<1>5. ChatStoreInv'
  BY <1>1, <1>2, <1>3, <1>4, ChatSweepFacts DEF ChatStoreInv, ChatOneHome
<1> QED BY <1>1, <1>2, <1>4, <1>5, ChatSweepFacts DEF ChatFrame

\* The bare sweep works on no run.
LEMMA ChatSweeps ==
    ASSUME ChatStoreInv, ChatSweep, UNCHANGED <<chatNow, chatIssued>>
    PROVE  /\ ChatStoreInv' /\ \A r : ChatFrame(r)
           /\ \A r \in DOMAIN chatActive' : r \in DOMAIN ChatLive
<1>1. chatActive' = ChatLive /\ chatClosed' = ChatTombs
  BY DEF ChatSweep
<1> QED BY <1>1, ChatSweepFacts DEF ChatStoreInv, ChatOneHome, ChatFrame

\* fail is silent about a run that is no longer active.
LEMMA ChatFails ==
    ASSUME ChatStoreInv, NEW r, DoFailChat(r), chatNow' = chatNow
    PROVE  /\ ChatStoreInv' /\ ChatFrame(r)
           /\ r \notin DOMAIN chatActive' /\ chatIssued' = chatIssued
           /\ r \in DOMAIN chatClosed' =>
                 r \in DOMAIN chatActive \/ (r \in DOMAIN chatClosed /\ chatClosed'[r] = chatClosed[r])
<1>1. CASE r \in DOMAIN ChatLive
  BY <1>1, ChatBuries, ChatSweepFacts DEF DoFailChat
<1>2. CASE r \notin DOMAIN ChatLive
  <2>1. ChatSweep /\ chatIssued' = chatIssued
    BY <1>2 DEF DoFailChat
  <2> QED BY <1>2, <2>1, ChatSweeps, ChatSweepFacts DEF ChatSweep
<1> QED BY <1>1, <1>2

(***************************************************************************)
(* The steps                                                               *)
(***************************************************************************)
LEMMA ChatStoreOfInv == ChatInv => ChatStoreInv
BY DEF ChatInv, ChatTypeOK, ChatStoreInv

\* The receipts of the others, when h returns and its run is in flight no more.
LEMMA LeaveReceipts ==
    ASSUME ChatInv, NEW h \in DOMAIN chatWaiting, NEW r, r = chatWaiting[h].run,
           ChatLeave(h), ChatFrame(r),
           r \in DOMAIN chatActive' => chatActive'[r].state # "in_flight"
    PROVE  ReceiptOfClaimant'
<1>1. /\ DOMAIN chatWaiting' = DOMAIN chatWaiting \ {h}
      /\ \A g \in DOMAIN chatWaiting' : chatWaiting'[g] = chatWaiting[g]
      /\ DOMAIN receipts' = DOMAIN receipts \ {r}
      /\ \A q \in DOMAIN receipts' : receipts'[q] = receipts[q]
  BY DEF ChatLeave, Without, Restrict
<1>2. ASSUME NEW q \in DOMAIN receipts'
      PROVE  \E g \in DOMAIN chatWaiting' :
                chatWaiting'[g].run = q /\ chatWaiting'[g].claimed.call = receipts'[q]
  <2>1. q # r /\ q \in DOMAIN receipts /\ receipts'[q] = receipts[q]
    BY <1>1, <1>2
  <2>2. PICK g \in DOMAIN chatWaiting :
           chatWaiting[g].run = q /\ chatWaiting[g].claimed.call = receipts[q]
    BY <2>1 DEF ChatInv, ReceiptOfClaimant
  <2> QED BY <1>1, <2>1, <2>2
<1>3. ASSUME NEW q \in DOMAIN chatActive', chatActive'[q].state = "in_flight"
      PROVE  \E g \in DOMAIN chatWaiting' :
                chatWaiting'[g].run = q /\ chatWaiting'[g].claimed = chatActive'[q]
  <2>1. q # r /\ q \in DOMAIN chatActive /\ chatActive'[q] = chatActive[q]
    BY <1>3 DEF ChatFrame
  <2>2. PICK g \in DOMAIN chatWaiting :
           chatWaiting[g].run = q /\ chatWaiting[g].claimed = chatActive[q]
    BY <1>3, <2>1 DEF ChatInv, ReceiptOfClaimant
  <2> QED BY <1>1, <2>1, <2>2
<1>4. \A g, k \in DOMAIN chatWaiting' :
         /\ chatWaiting'[g].run \in DOMAIN receipts'
         /\ chatWaiting'[g].run = chatWaiting'[k].run => g = k
  BY <1>1 DEF ChatInv, ReceiptOfClaimant
<1> QED BY <1>2, <1>3, <1>4 DEF ReceiptOfClaimant

\* A handler returns and its run is closed, by this step or before it.
LEMMA LeaveStep ==
    ASSUME ChatInv, ChatStoreInv', NEW h \in DOMAIN chatWaiting, NEW r, r = chatWaiting[h].run,
           ChatLeave(h), ChatFrame(r), r \notin DOMAIN chatActive',
           UNCHANGED <<chatIssued, answered, told>>,
           executed' \in [ChatRunIds -> Nat], executed'[r] <= MaxToolCalls,
           \A q \in ChatRunIds \ {r} : executed'[q] = executed[q],
           \A p \in proposed' : p \in proposed \/ \E x \in told[r] : p = <<r, x>>,
           \A p \in proposed' :
              p[1] = r /\ r \in DOMAIN chatClosed' => chatClosed'[r].reason = "completed"
    PROVE  ChatInv'
<1>1. /\ DOMAIN chatWaiting' = DOMAIN chatWaiting \ {h}
      /\ \A g \in DOMAIN chatWaiting' : chatWaiting'[g] = chatWaiting[g]
  BY DEF ChatLeave, Without, Restrict
<1>2. /\ DOMAIN receipts' = DOMAIN receipts \ {r}
      /\ \A q \in DOMAIN receipts' : receipts'[q] = receipts[q]
  BY DEF ChatLeave, Without, Restrict
<1>3. /\ r \in ChatRunIds /\ r \in chatIssued
      /\ \A g \in DOMAIN chatWaiting' : chatWaiting[g].run # r /\ chatWaiting[g].run \in ChatRunIds
  BY <1>1 DEF ChatInv, ChatTypeOK, Awaited, Awaiting, ReceiptOfClaimant
<1>4. proposed' \subseteq ChatRunIds \X Refs
  BY <1>3 DEF ChatInv, ChatTypeOK
<1>5. ChatTypeOK' /\ ChatOneHome'
  BY <1>1, <1>2, <1>4 DEF ChatInv, ChatTypeOK, ChatStoreInv
<1>6. Suspended' /\ Untouched'
  BY DEF ChatInv, ChatTypeOK, Suspended, Untouched, ChatFrame
<1>7. Awaited'
  BY <1>1, <1>2, <1>3 DEF ChatInv, Awaited, ChatFrame
<1>8. BudgetKept'
  BY DEF ChatInv, BudgetKept
<1>9. Settled' /\ OperationBacked'
  <2>1. Settled'
    BY <1>3 DEF ChatInv, Settled
  <2>2. ASSUME NEW p \in proposed'
        PROVE  /\ p[2] \in told[p[1]]
               /\ p[1] \notin DOMAIN chatActive'
               /\ p[1] \in DOMAIN chatClosed' => chatClosed'[p[1]].reason = "completed"
    <3>1. CASE p[1] = r
      BY <2>2, <3>1 DEF ChatInv, OperationBacked
    <3>2. CASE p[1] # r
      <4>1. p \in proposed
        BY <2>2, <3>2
      <4> QED BY <3>2, <4>1 DEF ChatInv, OperationBacked, ChatFrame
    <3> QED BY <3>1, <3>2
  <2> QED BY <2>1, <2>2 DEF OperationBacked
<1>10. ReceiptOfClaimant'
  BY LeaveReceipts
<1> QED BY <1>5, <1>6, <1>7, <1>8, <1>9, <1>10 DEF ChatInv

\* The common case: the run fails.
LEMMA LeaveFailing ==
    ASSUME ChatInv, NEW h \in DOMAIN chatWaiting, NEW r, r = chatWaiting[h].run,
           DoFailChat(r), ChatLeave(h),
           executed' \in [ChatRunIds -> Nat], executed'[r] <= MaxToolCalls,
           \A q \in ChatRunIds \ {r} : executed'[q] = executed[q],
           UNCHANGED <<chatNow, answered, told, proposed>>
    PROVE  ChatInv'
<1>1. /\ ChatStoreInv' /\ ChatFrame(r) /\ r \notin DOMAIN chatActive' /\ chatIssued' = chatIssued
      /\ r \in DOMAIN chatClosed' =>
           r \in DOMAIN chatActive \/ (r \in DOMAIN chatClosed /\ chatClosed'[r] = chatClosed[r])
  BY ChatFails, ChatStoreOfInv
<1>2. \A p \in proposed' :
         p[1] = r /\ r \in DOMAIN chatClosed' => chatClosed'[r].reason = "completed"
  BY <1>1 DEF ChatInv, OperationBacked
<1>3. \A p \in proposed' : p \in proposed \/ \E x \in told[r] : p = <<r, x>>
  OBVIOUS
<1> QED BY <1>1, <1>2, <1>3, LeaveStep

LEMMA ChatFailsStep ==
    ASSUME ChatInv, NEW h \in ChatHandlers, ChatProviderFails(h)
    PROVE  ChatInv'
<1>1. /\ h \in DOMAIN chatWaiting /\ DoFailChat(chatWaiting[h].run) /\ ChatLeave(h)
      /\ UNCHANGED <<chatNow, executed, answered, told, proposed>>
  BY DEF ChatProviderFails, chatHistory
<1>2. executed' \in [ChatRunIds -> Nat] /\ executed'[chatWaiting[h].run] <= MaxToolCalls
  BY <1>1 DEF ChatInv, ChatTypeOK, Awaited
<1> QED BY <1>1, <1>2, LeaveFailing

LEMMA ChatReplyStep ==
    ASSUME ChatInv, NEW h \in ChatHandlers, NEW n \in 0 .. MaxToolCalls, NEW op \in SUBSET Refs,
           ChatReply(h, n, op)
    PROVE  ChatInv'
<1> DEFINE w == chatWaiting[h]
           r == chatWaiting[h].run
<1>1. /\ h \in DOMAIN chatWaiting /\ ChatLeave(h) /\ UNCHANGED <<chatNow, answered, told>>
      /\ w.claimed.count + n <= MaxToolCalls
      /\ executed' = [executed EXCEPT ![r] = @ + n]
  BY DEF ChatReply
<1>2. /\ r \in ChatRunIds /\ executed[r] = w.claimed.count
      /\ executed \in [ChatRunIds -> Nat] /\ w.offers = told[r]
  BY <1>1 DEF ChatInv, ChatTypeOK, Awaiting, Awaited
<1>3. /\ executed' \in [ChatRunIds -> Nat] /\ executed'[r] <= MaxToolCalls
      /\ \A q \in ChatRunIds \ {r} : executed'[q] = executed[q]
  BY <1>1, <1>2
<1>4. CASE DoFailChat(r) /\ proposed' = proposed
  BY <1>1, <1>3, <1>4, LeaveFailing
<1>5. CASE /\ OffersBacked(w, op) /\ CanCompleteChat(w) /\ ChatBury(r, "completed")
           /\ proposed' = proposed \cup {<<r, x>> : x \in op}
  <2>1. r \in DOMAIN ChatLive
    BY <1>5 DEF CanCompleteChat, HoldsChat
  <2>2. /\ ChatStoreInv' /\ ChatFrame(r) /\ r \notin DOMAIN chatActive'
        /\ chatClosed'[r].reason = "completed" /\ chatIssued' = chatIssued
    BY <1>1, <1>5, <2>1, ChatBuries, ChatStoreOfInv
  <2>3. \A p \in proposed' : p \in proposed \/ \E x \in told[r] : p = <<r, x>>
    BY <1>2, <1>5 DEF OffersBacked
  <2> QED BY <1>1, <1>3, <2>2, <2>3, LeaveStep
<1> QED BY <1>4, <1>5 DEF ChatReply

\* The chain goes on: the run of h is pending again, with the next call.
LEMMA ChatAskAgainStep ==
    ASSUME ChatInv, NEW h \in ChatHandlers, NEW a \in Ask, ChatAskAgain(h, a)
    PROVE  ChatInv'
<1> DEFINE w == chatWaiting[h]
           r == chatWaiting[h].run
<1>1. /\ h \in DOMAIN chatWaiting /\ ChatLeave(h)
      /\ UNCHANGED <<chatNow, answered, told, proposed>>
      /\ MayAsk(w, a) /\ executed' = [executed EXCEPT ![r] = @ + a.served]
  BY DEF ChatAskAgain
<1>2. /\ r \in ChatRunIds /\ r \in chatIssued /\ executed[r] = w.claimed.count
      /\ w.claimed \in StoredChatRun /\ executed \in [ChatRunIds -> Nat]
      /\ w.offers = told[r] /\ answered[r] = w.claimed.seen \cup {w.claimed.call}
      /\ w.refs \in UNION {[S -> Producers] : S \in SUBSET Refs} /\ told[r] \in SUBSET Refs
  BY <1>1 DEF ChatInv, ChatTypeOK, Awaiting, Awaited
<1>3. a.served \in Nat /\ a.served + w.claimed.count < MaxToolCalls /\ w.claimed.count \in Nat
  BY <1>1, <1>2, MaxToolCallsAssumption DEF MayAsk, BackendAccepts, Ask, StoredChatRun
<1>4. /\ executed' \in [ChatRunIds -> Nat] /\ executed'[r] = w.claimed.count + a.served
      /\ \A q \in ChatRunIds \ {r} : executed'[q] = executed[q]
  BY <1>1, <1>2, <1>3
<1>5. executed'[r] <= MaxToolCalls
  BY <1>3, <1>4, MaxToolCallsAssumption
<1>6. CASE DoFailChat(r)
  BY <1>1, <1>4, <1>5, <1>6, LeaveFailing
<1>7. CASE DoContinueChat(w, a)
  <2> DEFINE next == ContinuedChat(w, a)
  <2>1. /\ next \in StoredChatRun
        /\ next.state = "pending" /\ next.count = w.claimed.count + a.served + 1
        /\ next.offers = told[r] /\ next.seen = answered[r] /\ next.call = a.call
    <3>1. /\ a.call \in ChatCallIds /\ a.request \in Request
          /\ Spent(w, a) = w.claimed.count + a.served + 1 /\ Spent(w, a) \in Nat
      BY <1>2, <1>3 DEF Ask, Spent
    <3>2. /\ Discovered(w, a) \in SUBSET ChatTools
          /\ Seen(w) \in SUBSET ChatCallIds /\ Seen(w) = answered[r]
          /\ w.claimed.fingerprints \cup {a.request} \in SUBSET Request
          /\ Deadline(w) \in Nat
      BY <1>2, <3>1 DEF Ask, Request, ChatTools, Discovered, Seen, Deadline, StoredChatRun
    <3>3. w.claimed.catalog \in SUBSET ChatTools /\ w.claimed.gen + 1 \in Nat
      BY <1>2 DEF StoredChatRun
    <3> QED BY <1>2, <3>1, <3>2, <3>3 DEF ContinuedChat, StoredChatRun
  <2>2. a.call \notin answered[r]
    BY <1>1, <1>2 DEF MayAsk, BackendAccepts
  <2> HIDE DEF next
  <2>3. /\ r \in DOMAIN ChatLive /\ r \notin DOMAIN ChatTombs
        /\ chatActive' = With(ChatLive, r, next) /\ chatClosed' = ChatTombs
        /\ chatIssued' = chatIssued
    BY <1>7, ChatSweepFacts, ChatStoreOfInv
       DEF DoContinueChat, CanContinueChat, HoldsChat, next
  <2>4. ChatStoreInv' /\ ChatFrame(r) /\ r \in DOMAIN chatActive' /\ chatActive'[r] = next
    <3>1. chatIssued' \subseteq ChatRunIds
      BY <2>3 DEF ChatInv, ChatTypeOK
    <3> QED BY <1>1, <1>2, <2>1, <2>3, <3>1, ChatWithLive, ChatStoreOfInv
  <2>5. /\ DOMAIN chatWaiting' = DOMAIN chatWaiting \ {h}
        /\ \A g \in DOMAIN chatWaiting' : chatWaiting'[g] = chatWaiting[g]
        /\ DOMAIN receipts' = DOMAIN receipts \ {r}
        /\ \A q \in DOMAIN receipts' : receipts'[q] = receipts[q]
    BY <1>1 DEF ChatLeave, Without, Restrict
  <2>6. \A g \in DOMAIN chatWaiting' : chatWaiting[g].run # r /\ chatWaiting[g].run \in ChatRunIds
    BY <1>1, <2>5 DEF ChatInv, ChatTypeOK, Awaiting, ReceiptOfClaimant
  <2>7. ChatTypeOK' /\ ChatOneHome'
    BY <1>1, <1>4, <2>4, <2>5 DEF ChatInv, ChatTypeOK, ChatStoreInv
  <2>8. Suspended'
    <3>1. /\ executed'[r] + 1 = next.count /\ next.count <= MaxToolCalls
      BY <1>3, <1>4, <2>1, MaxToolCallsAssumption
    <3> QED BY <1>1, <1>4, <2>1, <2>2, <2>4, <3>1
            DEF ChatInv, ChatTypeOK, Suspended, ChatFrame
  <2>9. Awaited'
    BY <1>1, <1>4, <2>3, <2>4, <2>5, <2>6 DEF ChatInv, Awaited, ChatFrame
  <2>10. Untouched' /\ Settled' /\ BudgetKept'
    BY <1>1, <1>4, <1>5, <2>3 DEF ChatInv, Untouched, Settled, BudgetKept
  <2>11. OperationBacked'
    <3>1. \A p \in proposed : p[1] # r
      BY <2>3, ChatSweepFacts, ChatStoreOfInv DEF ChatInv, OperationBacked
    <3> QED BY <1>1, <2>4, <3>1 DEF ChatInv, OperationBacked, ChatFrame
  <2>12. ReceiptOfClaimant'
    BY <1>1, <2>1, <2>4, LeaveReceipts
  <2> QED BY <2>7, <2>8, <2>9, <2>10, <2>11, <2>12 DEF ChatInv
<1> QED BY <1>6, <1>7 DEF ChatAskAgain

\* A step on no run and by no handler: the sweep, time, or a refused submission.
LEMMA ChatIdleStep ==
    ASSUME ChatInv, ChatStoreInv',
           \A q \in DOMAIN chatActive' :
              q \in DOMAIN chatActive /\ chatActive'[q] = chatActive[q],
           \A q \in DOMAIN chatClosed' :
              \/ q \in DOMAIN chatActive
              \/ q \in DOMAIN chatClosed /\ chatClosed'[q] = chatClosed[q],
           UNCHANGED <<chatIssued, chatWaiting, chatHistory>>,
           \/ receipts' = receipts
           \/ \E r : /\ receipts' = Without(receipts, r)
                     /\ \A h \in DOMAIN chatWaiting : chatWaiting[h].run # r
    PROVE  ChatInv'
<1>1. /\ DOMAIN receipts' \subseteq DOMAIN receipts
      /\ \A q \in DOMAIN receipts' : receipts'[q] = receipts[q]
      /\ \A h \in DOMAIN chatWaiting :
            chatWaiting[h].run \in DOMAIN receipts => chatWaiting[h].run \in DOMAIN receipts'
  BY DEF Without, Restrict
<1>2. UNCHANGED <<answered, executed, told, proposed>>
  BY DEF chatHistory
<1>3. ChatTypeOK' /\ ChatOneHome'
  BY <1>1, <1>2 DEF ChatInv, ChatTypeOK, ChatStoreInv
<1>4. Suspended' /\ Awaited' /\ Untouched' /\ Settled' /\ BudgetKept'
  BY <1>1, <1>2 DEF ChatInv, Suspended, Awaited, Untouched, Settled, BudgetKept
<1>5. OperationBacked'
  BY <1>2 DEF ChatInv, OperationBacked
<1>6. ReceiptOfClaimant'
  BY <1>1 DEF ChatInv, ReceiptOfClaimant
<1> QED BY <1>3, <1>4, <1>5, <1>6 DEF ChatInv

\* A client's answer is accepted: handler h claims the run and awaits the provider.
LEMMA ChatSubmitStep ==
    ASSUME ChatInv, NEW h \in ChatHandlers, NEW r \in ChatRunIds, NEW t \in ChatTools,
           NEW c \in ChatCallIds, NEW found \in SUBSET Refs, ChatSubmit(h, r, t, c, found)
    PROVE  ChatInv'
<1> DEFINE run == chatActive[r]
           claimed == ClaimedChat(r)
           w == [run |-> r, claimed |-> claimed, refs |-> RefsAfter(run, found),
                 offers |-> OffersAfter(run, found)]
<1>1. /\ h \notin DOMAIN chatWaiting
      /\ r \in DOMAIN ChatLive /\ ChatLive[r] = run /\ run \in StoredChatRun
      /\ r \in DOMAIN chatActive /\ r \in chatIssued /\ r \notin DOMAIN ChatTombs
      /\ run.state = "pending" /\ run.call = c /\ run.request.tool = t
      /\ found \in Answers(run)
  BY ChatSweepFacts, ChatStoreOfInv DEF ChatSubmit, CanClaimChat
<1>2. /\ executed[r] + 1 = run.count /\ run.count <= MaxToolCalls
      /\ run.offers = told[r] /\ run.seen = answered[r] /\ c \notin answered[r]
  BY <1>1 DEF ChatInv, Suspended
<1>3. \A g \in DOMAIN chatWaiting : chatWaiting[g].run # r
  BY <1>1 DEF ChatInv, Awaited
<1>4. /\ claimed \in StoredChatRun /\ claimed.state = "in_flight" /\ claimed.call = c
      /\ claimed.count = run.count /\ claimed.seen = run.seen
  BY <1>1 DEF ClaimedChat, StoredChatRun
<1>5. w.offers \in SUBSET Refs /\ w.offers = told'[r] /\ told' \in [ChatRunIds -> SUBSET Refs]
      /\ \A q \in ChatRunIds \ {r} : told'[q] = told[q]
  <2>1. told \in [ChatRunIds -> SUBSET Refs]
    BY DEF ChatInv, ChatTypeOK
  <2>2. CASE t = "options"
    <3>1. told' = [told EXCEPT ![r] = (@ \ {run.request.ref}) \cup found]
      BY <1>1, <2>2 DEF ChatSubmit
    <3>2. w.offers = (told[r] \ {run.request.ref}) \cup found
      BY <1>1, <1>2, <2>2 DEF OffersAfter
    <3> QED BY <2>1, <3>1, <3>2
  <2>3. CASE t # "options"
    <3>1. told' = told /\ w.offers = told[r]
      BY <1>1, <1>2, <2>3 DEF ChatSubmit, OffersAfter
    <3> QED BY <2>1, <3>1
  <2> QED BY <2>2, <2>3
<1>6. RefsAfter(run, found) \in UNION {[S -> Producers] : S \in SUBSET Refs}
  <2>1. PICK S \in SUBSET Refs : run.refs \in [S -> Producers]
    BY <1>1 DEF StoredChatRun
  <2>2. CASE t = "options"
    BY <1>1, <2>1, <2>2 DEF RefsAfter
  <2>3. CASE t # "options"
    <3>1. t \in Producers
      BY <2>3 DEF ChatTools, Producers
    <3>2. RefsAfter(run, found) =
             [x \in S \cup found |-> IF x \in found THEN t ELSE run.refs[x]]
      BY <1>1, <2>1, <2>3 DEF RefsAfter
    <3>3. RefsAfter(run, found) \in [S \cup found -> Producers]
      BY <2>1, <3>1, <3>2
    <3> QED BY <3>3
  <2> QED BY <2>2, <2>3
<1>7. w \in Awaiting
  BY <1>4, <1>5, <1>6 DEF Awaiting
<1>8. /\ DOMAIN chatWaiting' = DOMAIN chatWaiting \cup {h} /\ chatWaiting'[h] = w
      /\ \A g \in DOMAIN chatWaiting : chatWaiting'[g] = chatWaiting[g]
  BY <1>1 DEF ChatSubmit, With
<1>9. w.run = r /\ w.claimed = claimed
  OBVIOUS
<1> HIDE DEF w, claimed
<1>10. /\ DOMAIN receipts' = DOMAIN receipts \cup {r} /\ receipts'[r] = c
       /\ \A q \in DOMAIN receipts : q # r => receipts'[q] = receipts[q]
  BY DEF ChatSubmit, With
<1>11. /\ answered' \in [ChatRunIds -> SUBSET ChatCallIds] /\ answered'[r] = run.seen \cup {c}
       /\ \A q \in ChatRunIds \ {r} : answered'[q] = answered[q]
       /\ executed' \in [ChatRunIds -> Nat] /\ executed'[r] = run.count
       /\ \A q \in ChatRunIds \ {r} : executed'[q] = executed[q]
       /\ UNCHANGED <<chatNow, chatIssued, proposed>>
  BY <1>2 DEF ChatSubmit, ChatInv, ChatTypeOK
<1>12. ChatStoreInv' /\ ChatFrame(r) /\ r \in DOMAIN chatActive' /\ chatActive'[r] = claimed
  <2>1. /\ chatActive' = With(ChatLive, r, claimed) /\ chatClosed' = ChatTombs
        /\ chatIssued' \subseteq ChatRunIds
    BY DEF ChatSubmit, claimed, ChatInv, ChatTypeOK
  <2> QED BY <1>1, <1>4, <1>11, <2>1, ChatWithLive, ChatStoreOfInv
<1>13. ChatTypeOK' /\ ChatOneHome'
  BY <1>5, <1>7, <1>8, <1>10, <1>11, <1>12 DEF ChatInv, ChatTypeOK, ChatStoreInv
<1>14. Suspended'
  BY <1>4, <1>5, <1>11, <1>12 DEF ChatInv, ChatTypeOK, Suspended, ChatFrame
<1>15. Awaited'
  <2>1. ASSUME NEW g \in DOMAIN chatWaiting, NEW v, v = chatWaiting[g]
        PROVE  /\ v.run \in chatIssued'
               /\ v.claimed.state = "in_flight"
               /\ v.run \in DOMAIN chatActive' => chatActive'[v.run] = v.claimed
               /\ v.run \in DOMAIN receipts' /\ receipts'[v.run] = v.claimed.call
               /\ v.claimed.count <= MaxToolCalls
               /\ executed'[v.run] = v.claimed.count
               /\ v.offers = told'[v.run]
               /\ answered'[v.run] = v.claimed.seen \cup {v.claimed.call}
    <3>1. v.run # r /\ v.run \in ChatRunIds
      BY <1>3, <2>1 DEF ChatInv, ChatTypeOK, Awaiting
    <3> QED BY <1>5, <1>10, <1>11, <1>12, <2>1, <3>1 DEF ChatInv, Awaited, ChatFrame
  <2>2. /\ w.run \in chatIssued'
        /\ w.claimed.state = "in_flight"
        /\ w.run \in DOMAIN chatActive' => chatActive'[w.run] = w.claimed
        /\ w.run \in DOMAIN receipts' /\ receipts'[w.run] = w.claimed.call
        /\ w.claimed.count <= MaxToolCalls
        /\ executed'[w.run] = w.claimed.count
        /\ w.offers = told'[w.run]
        /\ answered'[w.run] = w.claimed.seen \cup {w.claimed.call}
    BY <1>1, <1>2, <1>4, <1>5, <1>9, <1>10, <1>11, <1>12
  <2> QED BY <1>8, <2>1, <2>2 DEF Awaited
<1>16. Untouched' /\ Settled'
  BY <1>1, <1>5, <1>11 DEF ChatInv, Untouched, Settled
<1>17. BudgetKept'
  BY <1>2, <1>11 DEF ChatInv, BudgetKept
<1>18. OperationBacked'
  <2>1. \A p \in proposed : p[1] # r /\ p[1] \in ChatRunIds
    BY <1>1 DEF ChatInv, ChatTypeOK, OperationBacked
  <2> QED BY <1>5, <1>11, <1>12, <2>1 DEF ChatInv, OperationBacked, ChatFrame
<1>19. ReceiptOfClaimant'
  <2>1. ASSUME NEW q \in DOMAIN receipts'
        PROVE  \E g \in DOMAIN chatWaiting' :
                  chatWaiting'[g].run = q /\ chatWaiting'[g].claimed.call = receipts'[q]
    <3>1. CASE q = r
      BY <1>4, <1>8, <1>9, <1>10, <3>1
    <3>2. CASE q # r
      <4>1. q \in DOMAIN receipts /\ receipts'[q] = receipts[q]
        BY <1>10, <2>1, <3>2
      <4>2. PICK g \in DOMAIN chatWaiting :
               chatWaiting[g].run = q /\ chatWaiting[g].claimed.call = receipts[q]
        BY <4>1 DEF ChatInv, ReceiptOfClaimant
      <4> QED BY <1>8, <4>1, <4>2
    <3> QED BY <3>1, <3>2
  <2>2. ASSUME NEW q \in DOMAIN chatActive', chatActive'[q].state = "in_flight"
        PROVE  \E g \in DOMAIN chatWaiting' :
                  chatWaiting'[g].run = q /\ chatWaiting'[g].claimed = chatActive'[q]
    <3>1. CASE q = r
      BY <1>8, <1>9, <1>12, <3>1
    <3>2. CASE q # r
      <4>1. q \in DOMAIN chatActive /\ chatActive'[q] = chatActive[q]
        BY <1>12, <2>2, <3>2 DEF ChatFrame
      <4>2. PICK g \in DOMAIN chatWaiting :
               chatWaiting[g].run = q /\ chatWaiting[g].claimed = chatActive[q]
        BY <2>2, <4>1 DEF ChatInv, ReceiptOfClaimant
      <4> QED BY <1>8, <4>1, <4>2
    <3> QED BY <3>1, <3>2
  <2>3. \A g \in DOMAIN chatWaiting' :
           /\ chatWaiting'[g].run \in DOMAIN receipts'
           /\ \A k \in DOMAIN chatWaiting' : chatWaiting'[g].run = chatWaiting'[k].run => g = k
    <3>1. \A g \in DOMAIN chatWaiting : chatWaiting[g].run \in DOMAIN receipts
      BY DEF ChatInv, ReceiptOfClaimant
    <3>2. \A g, k \in DOMAIN chatWaiting : chatWaiting[g].run = chatWaiting[k].run => g = k
      BY DEF ChatInv, ReceiptOfClaimant
    <3> QED BY <1>3, <1>8, <1>9, <1>10, <3>1, <3>2
  <2> QED BY <2>1, <2>2, <2>3 DEF ReceiptOfClaimant
<1> QED BY <1>13, <1>14, <1>15, <1>16, <1>17, <1>18, <1>19 DEF ChatInv

\* A run begins.
LEMMA ChatStartStep ==
    ASSUME ChatInv, NEW r \in ChatRunIds, NEW catalog \in SUBSET ChatTools, NEW S \in SUBSET Refs,
           NEW a \in Ask, ChatStart(r, catalog, [x \in S |-> "context"], a)
    PROVE  ChatInv'
<1> DEFINE run == NewChatRun(catalog, [x \in S |-> "context"], a)
<1>1. /\ a.served \in Nat /\ a.served < MaxToolCalls /\ a.call \in ChatCallIds
      /\ a.request \in Request /\ a.request.tool \in ChatTools /\ a.revealed \subseteq ChatTools
  BY MaxToolCallsAssumption DEF ChatStart, BackendAccepts, Ask, Request, ChatTools
<1>2. /\ run \in StoredChatRun
      /\ run.state = "pending" /\ run.count = a.served + 1 /\ run.call = a.call
      /\ run.offers = {} /\ run.seen = {}
  <2>1. [x \in S |-> "context"] \in UNION {[T -> Producers] : T \in SUBSET Refs}
    BY DEF Producers
  <2>2. chatNow + ChatRunTTL \in Nat
    BY ChatRunTTLAssumption DEF ChatInv, ChatTypeOK
  <2>3. a.revealed \cup {a.request.tool} \in SUBSET ChatTools /\ a.served + 1 \in Nat
    BY <1>1
  <2> QED BY <1>1, <2>1, <2>2, <2>3 DEF NewChatRun, StoredChatRun
<1> HIDE DEF run
<1>3. /\ r \notin chatIssued /\ chatIssued' = chatIssued \cup {r}
      /\ chatActive' = With(ChatLive, r, run) /\ chatClosed' = ChatTombs
      /\ executed' = [executed EXCEPT ![r] = a.served]
      /\ UNCHANGED <<chatNow, chatWaiting, receipts, answered, told, proposed>>
  BY DEF ChatStart, DoPutChat, run
<1>4. r \notin DOMAIN ChatTombs /\ chatIssued' \subseteq ChatRunIds
  BY <1>3, ChatSweepFacts, ChatStoreOfInv DEF ChatInv, ChatTypeOK
<1>5. ChatStoreInv' /\ ChatFrame(r) /\ r \in DOMAIN chatActive' /\ chatActive'[r] = run
  BY <1>2, <1>3, <1>4, ChatWithLive, ChatStoreOfInv
<1>6. /\ executed' \in [ChatRunIds -> Nat] /\ executed'[r] = a.served
      /\ \A q \in ChatRunIds \ {r} : executed'[q] = executed[q]
  BY <1>1, <1>3 DEF ChatInv, ChatTypeOK
<1>7. told[r] = {} /\ answered[r] = {}
  BY <1>3 DEF ChatInv, Untouched
<1>8. /\ \A h \in DOMAIN chatWaiting : chatWaiting[h].run # r /\ chatWaiting[h].run \in ChatRunIds
      /\ \A p \in proposed : p[1] # r
  BY <1>3 DEF ChatInv, ChatTypeOK, Awaited, Awaiting, Settled
<1>9. ChatTypeOK' /\ ChatOneHome'
  BY <1>3, <1>5, <1>6 DEF ChatInv, ChatTypeOK, ChatStoreInv
<1>10. Suspended'
  <2>1. a.served + 1 <= MaxToolCalls
    BY <1>1, MaxToolCallsAssumption
  <2>2. /\ executed'[r] + 1 = run.count /\ run.count <= MaxToolCalls
        /\ run.offers = told'[r] /\ run.seen = answered'[r] /\ run.call \notin answered'[r]
    BY <1>2, <1>3, <1>6, <1>7, <2>1
  <2>3. \A q \in DOMAIN chatActive' :
           q # r => q \in ChatRunIds /\ q \in DOMAIN chatActive /\ chatActive'[q] = chatActive[q]
    BY <1>5 DEF ChatFrame, ChatInv, ChatTypeOK
  <2> QED BY <1>3, <1>5, <1>6, <2>2, <2>3 DEF ChatInv, Suspended
<1>11. Awaited'
  BY <1>3, <1>5, <1>6, <1>8 DEF ChatInv, Awaited, ChatFrame
<1>12. Untouched' /\ Settled'
  BY <1>3 DEF ChatInv, Untouched, Settled
<1>13. BudgetKept'
  BY <1>1, <1>6, MaxToolCallsAssumption DEF ChatInv, BudgetKept
<1>14. OperationBacked'
  BY <1>3, <1>5, <1>8 DEF ChatInv, OperationBacked, ChatFrame
<1>15. ReceiptOfClaimant'
  BY <1>2, <1>3, <1>5 DEF ChatInv, ReceiptOfClaimant, ChatFrame
<1> QED BY <1>9, <1>10, <1>11, <1>12, <1>13, <1>14, <1>15 DEF ChatInv

LEMMA ChatInitInv == ChatInit => ChatInv
BY MaxToolCallsAssumption
   DEF ChatInit, ChatInv, ChatTypeOK, ChatOneHome, Suspended, Awaited, Untouched, Settled,
       BudgetKept, OperationBacked, ReceiptOfClaimant, Empty

\* Every step of the service keeps the invariant.
LEMMA ChatNextInv == ChatInv /\ [ChatNext]_chatVars => ChatInv'
<1> SUFFICES ASSUME ChatInv, [ChatNext]_chatVars PROVE ChatInv'
  OBVIOUS
<1>1. ASSUME NEW r \in ChatRunIds, NEW t \in ChatTools, NEW c \in ChatCallIds,
             ChatSubmitRefused(r, t, c)
      PROVE  ChatInv'
  <2>1. /\ r \in DOMAIN ChatLive /\ r \in DOMAIN chatActive /\ chatActive[r].state = "pending"
    BY <1>1, ChatSweepFacts, ChatStoreOfInv DEF ChatSubmitRefused, CanClaimChat
  <2>2. /\ ChatStoreInv' /\ ChatFrame(r) /\ r \notin DOMAIN chatActive'
        /\ chatIssued' = chatIssued
    BY <1>1, <2>1, ChatBuries, ChatStoreOfInv DEF ChatSubmitRefused
  <2>3. \A h \in DOMAIN chatWaiting : chatWaiting[h].run # r
    BY <2>1 DEF ChatInv, Awaited
  <2>4. \E q : /\ receipts' = Without(receipts, q)
               /\ \A h \in DOMAIN chatWaiting : chatWaiting[h].run # q
    BY <1>1, <2>3 DEF ChatSubmitRefused
  <2>5. /\ UNCHANGED <<chatIssued, chatWaiting, chatHistory>>
        /\ \A q \in DOMAIN chatActive' : q \in DOMAIN chatActive /\ chatActive'[q] = chatActive[q]
        /\ \A q \in DOMAIN chatClosed' :
              \/ q \in DOMAIN chatActive
              \/ q \in DOMAIN chatClosed /\ chatClosed'[q] = chatClosed[q]
    BY <1>1, <2>1, <2>2 DEF ChatSubmitRefused, ChatFrame
  <2> QED BY <2>2, <2>4, <2>5, ChatIdleStep
<1>2. CASE ChatSubmitRejected
  <2>1. /\ ChatStoreInv'
        /\ \A r \in DOMAIN chatActive' : r \in DOMAIN chatActive /\ chatActive'[r] = chatActive[r]
    BY <1>2, ChatSweeps, ChatSweepFacts, ChatStoreOfInv DEF ChatSubmitRejected, ChatSweep
  <2>2. \A q \in DOMAIN chatClosed' :
           \/ q \in DOMAIN chatActive
           \/ q \in DOMAIN chatClosed /\ chatClosed'[q] = chatClosed[q]
    BY <1>2, ChatSweepFacts, ChatStoreOfInv DEF ChatSubmitRejected, ChatSweep
  <2> QED BY <1>2, <2>1, <2>2, ChatIdleStep DEF ChatSubmitRejected
<1>3. CASE ChatRestart
  <2>1. UNCHANGED <<chatNow, chatIssued, answered, executed, told, proposed>>
    BY <1>3 DEF ChatRestart, chatHistory
  <2>2. /\ DOMAIN chatActive' = {} /\ DOMAIN chatClosed' = {}
        /\ DOMAIN chatWaiting' = {} /\ DOMAIN receipts' = {}
    BY <1>3 DEF ChatRestart, Empty
  <2>3. ChatTypeOK' /\ ChatOneHome'
    BY <2>1, <2>2 DEF ChatInv, ChatTypeOK, ChatOneHome
  <2>4. Suspended' /\ Awaited' /\ Untouched' /\ Settled'
    BY <2>1, <2>2 DEF ChatInv, Suspended, Awaited, Untouched, Settled
  <2>5. BudgetKept' /\ OperationBacked' /\ ReceiptOfClaimant'
    BY <2>1, <2>2 DEF ChatInv, BudgetKept, OperationBacked, ReceiptOfClaimant
  <2> QED BY <2>3, <2>4, <2>5 DEF ChatInv
<1>4. CASE ChatTick
  <2>1. chatNow' \in Nat /\ UNCHANGED <<chatActive, chatClosed, chatIssued>>
    BY <1>4 DEF ChatTick, chatStoreVars, ChatInv, ChatTypeOK
  <2>2. ChatStoreInv'
    BY <2>1 DEF ChatInv, ChatTypeOK, ChatStoreInv, ChatOneHome
  <2> QED BY <1>4, <2>1, <2>2, ChatIdleStep DEF ChatTick
<1>5. CASE UNCHANGED chatVars
  <2>1. UNCHANGED <<chatNow, chatActive, chatClosed, chatIssued, chatWaiting, receipts, chatHistory>>
    BY <1>5 DEF chatVars, chatStoreVars
  <2>2. ChatStoreInv'
    BY <2>1 DEF ChatInv, ChatTypeOK, ChatStoreInv, ChatOneHome
  <2> QED BY <2>1, <2>2, ChatIdleStep
<1>6. ASSUME NEW h \in ChatHandlers, NEW n \in 0 .. MaxToolCalls, NEW x \in Refs,
             ChatReply(h, n, {}) \/ ChatReply(h, n, {x})
      PROVE  ChatInv'
  BY <1>6, ChatReplyStep
<1> QED
  BY <1>1, <1>2, <1>3, <1>4, <1>5, <1>6, ChatStartStep, ChatSubmitStep, ChatAskAgainStep,
     ChatFailsStep DEF ChatNext

LEMMA ChatInductive == ChatSpec => []ChatInv
BY ChatInitInv, ChatNextInv, PTL DEF ChatSpec

\* Type correctness of the two dicts, the handlers and the receipts.
THEOREM ChatTypeCorrect == ChatSpec => []ChatTypeOK
<1>1. ChatInv => ChatTypeOK
  BY DEF ChatInv
<1> QED BY <1>1, ChatInductive, PTL

\* No chain runs more tools than its budget, however often it is suspended.
THEOREM ChatBudget == ChatSpec => []BudgetKept
<1>1. ChatInv => BudgetKept
  BY DEF ChatInv
<1> QED BY <1>1, ChatInductive, PTL

\* A proposed operation is one the completed run itself was told is available.
THEOREM ChatOperations == ChatSpec => []OperationBacked
<1>1. ChatInv => OperationBacked
  BY DEF ChatInv
<1> QED BY <1>1, ChatInductive, PTL

\* The receipt of a run and its claim belong to one and the same request.
THEOREM ChatReceipts == ChatSpec => []ReceiptOfClaimant
<1>1. ChatInv => ReceiptOfClaimant
  BY DEF ChatInv
<1> QED BY <1>1, ChatInductive, PTL

(***************************************************************************)
(* The chains implement ResumeOnce.                                        *)
(***************************************************************************)
Over == {q \in ChatRunIds : ChatStage(q) # "new" /\ ChatStage(q)' = "over"}

\* A step that starts no run and changes no run it leaves active ends runs.
LEMMA ChatEndsRuns ==
    ASSUME UNCHANGED <<chatIssued, answered>>,
           \A q \in DOMAIN chatActive' :
              q \in DOMAIN chatActive /\ chatActive'[q] = chatActive[q]
    PROVE  ChatPromise!Next
<1>1. \A q \in ChatRunIds : ChatStage(q)' = IF q \in Over THEN "over" ELSE ChatStage(q)
  BY DEF ChatStage, Over
<1>2. Over \in SUBSET ChatPromise!Begun
  BY DEF Over, ChatPromise!Begun
<1>3. ChatPromise!End(Over)
  BY <1>1 DEF ChatPromise!End
<1> QED BY <1>2, <1>3 DEF ChatPromise!Next

\* A step that works on run r, leaves it active, and keeps to the frame of r.
LEMMA ChatMovesRun ==
    ASSUME NEW r \in ChatRunIds, ChatFrame(r), r \in DOMAIN chatActive', r \in chatIssued',
           chatIssued' = chatIssued \/ chatIssued' = chatIssued \cup {r}
    PROVE  /\ Over \in SUBSET ChatPromise!Begun /\ r \notin Over
           /\ ChatPromise!Move(r, ChatStage(r)', Over)
<1>1. r \notin Over
  BY DEF Over, ChatStage
<1>2. \A q \in ChatRunIds \ {r} :
         ChatStage(q)' = IF q \in Over THEN "over" ELSE ChatStage(q)
  BY DEF ChatStage, Over, ChatFrame
<1>3. \A q \in ChatRunIds :
         ChatStage(q)' = IF q = r THEN ChatStage(r)' ELSE IF q \in Over THEN "over" ELSE ChatStage(q)
  BY <1>2
<1>4. ChatPromise!Move(r, ChatStage(r)', Over)
  BY <1>3 DEF ChatPromise!Move
<1>5. Over \in SUBSET ChatPromise!Begun
  BY DEF Over, ChatPromise!Begun
<1> QED BY <1>1, <1>4, <1>5

LEMMA ChatPromiseNext ==
    ASSUME ChatInv, [ChatNext]_chatVars
    PROVE  ChatPromise!Next \/ UNCHANGED ChatPromise!vars
<1> USE ChatStoreOfInv
<1>1. ASSUME NEW h \in DOMAIN chatWaiting, DoFailChat(chatWaiting[h].run), chatNow' = chatNow,
             answered' = answered
      PROVE  ChatPromise!Next
  <2>1. /\ ChatFrame(chatWaiting[h].run) /\ chatWaiting[h].run \notin DOMAIN chatActive'
        /\ chatIssued' = chatIssued
    BY <1>1, ChatFails
  <2> QED BY <1>1, <2>1, ChatEndsRuns DEF ChatFrame
<1>2. ASSUME NEW r \in ChatRunIds, NEW catalog \in SUBSET ChatTools, NEW S \in SUBSET Refs,
             NEW a \in Ask, ChatStart(r, catalog, [x \in S |-> "context"], a)
      PROVE  ChatPromise!Next
  <2> DEFINE run == NewChatRun(catalog, [x \in S |-> "context"], a)
  <2>1. /\ r \notin chatIssued /\ chatIssued' = chatIssued \cup {r} /\ answered' = answered
        /\ chatActive' = With(ChatLive, r, run) /\ chatClosed' = ChatTombs
        /\ run.state = "pending"
    BY <1>2 DEF ChatStart, DoPutChat, NewChatRun
  <2> HIDE DEF run
  <2>2. ChatFrame(r) /\ r \in DOMAIN chatActive' /\ chatActive'[r] = run
    BY <2>1, ChatSweepFacts DEF With, ChatFrame
  <2>3. ChatStage(r) = "new" /\ ChatStage(r)' = "waiting"
    BY <2>1, <2>2 DEF ChatStage
  <2>4. /\ Over \in SUBSET ChatPromise!Begun /\ r \notin Over
        /\ ChatPromise!Move(r, ChatStage(r)', Over)
    BY <2>1, <2>2, ChatMovesRun
  <2>5. ChatPromise!Open(r, Over)
    BY <2>1, <2>3, <2>4 DEF ChatPromise!Open
  <2> QED BY <2>4, <2>5 DEF ChatPromise!Next
<1>3. ASSUME NEW h \in ChatHandlers, NEW r \in ChatRunIds, NEW t \in ChatTools,
             NEW c \in ChatCallIds, NEW found \in SUBSET Refs, ChatSubmit(h, r, t, c, found)
      PROVE  ChatPromise!Next
  <2>1. /\ r \in DOMAIN ChatLive /\ ChatLive[r] = chatActive[r] /\ chatActive[r] \in StoredChatRun
        /\ r \in DOMAIN chatActive /\ r \in chatIssued
        /\ chatActive[r].state = "pending" /\ chatActive[r].call = c
    BY <1>3, ChatSweepFacts DEF ChatSubmit, CanClaimChat
  <2>2. ClaimedChat(r).state = "in_flight"
    BY <2>1 DEF ClaimedChat, StoredChatRun
  <2>3. /\ chatActive' = With(ChatLive, r, ClaimedChat(r)) /\ chatClosed' = ChatTombs
        /\ chatIssued' = chatIssued
        /\ answered' = [answered EXCEPT ![r] = @ \cup {c}]
    BY <1>3 DEF ChatSubmit
  <2>4. ChatFrame(r) /\ r \in DOMAIN chatActive' /\ chatActive'[r].state = "in_flight"
    BY <2>2, <2>3, ChatSweepFacts DEF With, ChatFrame
  <2>5. ChatStage(r) = "waiting" /\ ChatStage(r)' = "running"
    BY <2>1, <2>3, <2>4 DEF ChatStage
  <2>6. c \notin answered[r]
    BY <2>1 DEF ChatInv, Suspended
  <2>7. PICK X \in SUBSET ChatPromise!Begun :
           r \notin X /\ ChatPromise!Move(r, ChatStage(r)', X)
    BY <2>1, <2>3, <2>4, ChatMovesRun
  <2>8. ChatPromise!Answer(r, c, X)
    BY <2>3, <2>5, <2>6, <2>7 DEF ChatPromise!Answer
  <2>9. \E e \in ChatCallIds : ChatPromise!Answer(r, e, X)
    BY <2>8
  <2> QED BY <2>7, <2>9 DEF ChatPromise!Next
<1>4. ASSUME NEW r \in ChatRunIds, NEW t \in ChatTools, NEW c \in ChatCallIds,
             ChatSubmitRefused(r, t, c)
      PROVE  ChatPromise!Next
  <2>1. r \in DOMAIN ChatLive
    BY <1>4 DEF ChatSubmitRefused, CanClaimChat
  <2>2. ChatFrame(r) /\ r \notin DOMAIN chatActive' /\ UNCHANGED <<chatIssued, answered>>
    BY <1>4, <2>1, ChatBuries DEF ChatSubmitRefused, chatHistory
  <2> QED BY <2>2, ChatEndsRuns DEF ChatFrame
<1>5. ASSUME ChatSubmitRejected PROVE ChatPromise!Next
  BY <1>5, ChatEndsRuns, ChatSweepFacts DEF ChatSubmitRejected, ChatSweep, chatHistory
<1>6. ASSUME NEW h \in ChatHandlers, NEW n \in 0 .. MaxToolCalls, NEW op \in SUBSET Refs,
             ChatReply(h, n, op)
      PROVE  ChatPromise!Next
  <2>1. h \in DOMAIN chatWaiting /\ chatNow' = chatNow /\ answered' = answered
    BY <1>6 DEF ChatReply
  <2>2. CASE DoFailChat(chatWaiting[h].run)
    BY <1>1, <2>1, <2>2
  <2>3. CASE CanCompleteChat(chatWaiting[h]) /\ ChatBury(chatWaiting[h].run, "completed")
    <3>1. chatWaiting[h].run \in DOMAIN ChatLive
      BY <2>3 DEF CanCompleteChat, HoldsChat
    <3>2. /\ ChatFrame(chatWaiting[h].run) /\ chatWaiting[h].run \notin DOMAIN chatActive'
          /\ chatIssued' = chatIssued
      BY <2>1, <2>3, <3>1, ChatBuries
    <3> QED BY <2>1, <3>2, ChatEndsRuns DEF ChatFrame
  <2> QED BY <1>6, <2>2, <2>3 DEF ChatReply
<1>7. ASSUME NEW h \in ChatHandlers, NEW a \in Ask, ChatAskAgain(h, a) PROVE ChatPromise!Next
  <2> DEFINE w == chatWaiting[h]
  <2>1. h \in DOMAIN chatWaiting /\ chatNow' = chatNow /\ answered' = answered
    BY <1>7 DEF ChatAskAgain
  <2>2. CASE DoFailChat(w.run)
    BY <1>1, <2>1, <2>2
  <2>3. CASE DoContinueChat(w, a)
    <3>1. PICK r \in ChatRunIds : r = w.run
      BY <2>1 DEF ChatInv, ChatTypeOK, Awaiting
    <3>2. /\ r \in DOMAIN chatActive /\ r \in chatIssued /\ chatActive[r].state = "in_flight"
      BY <2>3, <3>1, ChatSweepFacts DEF DoContinueChat, CanContinueChat, HoldsChat
    <3>3. /\ chatActive' = With(ChatLive, r, ContinuedChat(w, a)) /\ chatClosed' = ChatTombs
          /\ chatIssued' = chatIssued /\ ContinuedChat(w, a).state = "pending"
      BY <2>3, <3>1 DEF DoContinueChat, ContinuedChat
    <3>4. ChatFrame(r) /\ r \in DOMAIN chatActive' /\ chatActive'[r].state = "pending"
      BY <3>3, ChatSweepFacts DEF With, ChatFrame
    <3>5. ChatStage(r) = "running" /\ ChatStage(r)' = "waiting"
      BY <3>2, <3>3, <3>4 DEF ChatStage
    <3>6. /\ Over \in SUBSET ChatPromise!Begun /\ r \notin Over
          /\ ChatPromise!Move(r, ChatStage(r)', Over)
      BY <3>2, <3>3, <3>4, ChatMovesRun
    <3>7. ChatPromise!AskAgain(r, Over)
      BY <2>1, <3>5, <3>6 DEF ChatPromise!AskAgain
    <3> QED BY <3>6, <3>7 DEF ChatPromise!Next
  <2> QED BY <1>7, <2>2, <2>3 DEF ChatAskAgain
<1>8. ASSUME NEW h \in ChatHandlers, ChatProviderFails(h) PROVE ChatPromise!Next
  BY <1>1, <1>8 DEF ChatProviderFails, chatHistory
<1>9. ASSUME ChatRestart PROVE ChatPromise!Next
  BY <1>9, ChatEndsRuns DEF ChatRestart, chatHistory, Empty
<1>10. ASSUME ChatTick PROVE ChatPromise!Next
  BY <1>10, ChatEndsRuns DEF ChatTick, chatStoreVars, chatHistory
<1>11. ASSUME UNCHANGED chatVars PROVE ChatPromise!Next
  BY <1>11, ChatEndsRuns DEF chatVars, chatStoreVars, chatHistory
<1> QED
  BY <1>2, <1>3, <1>4, <1>5, <1>6, <1>7, <1>8, <1>9, <1>10, <1>11 DEF ChatNext

\* Seen from outside, a chain is resumed at most once with the answer to a call
\* and ends for good, whatever the checkpoints, sweeps and handlers do.
THEOREM ChatRefinement == ChatSpec => ChatResumesOnce
<1>1. ChatInit => ChatPromise!Init
  BY DEF ChatInit, Empty, ChatPromise!Init, ChatStage
<1>2. ChatInv /\ [ChatNext]_chatVars => [ChatPromise!Next]_(ChatPromise!vars)
  BY ChatPromiseNext
<1> QED BY <1>1, <1>2, ChatInductive, PTL DEF ChatSpec, ChatPromise!Spec, ChatResumesOnce
=============================================================================
