--------------------------- MODULE Conversations ---------------------------
(***************************************************************************)
(* The conversations a student sees (apps/extension/src/chat/ChatPanel.tsx)*)
(* and their one store in IndexedDB (chat/chat-history.ts).                *)
(*                                                                         *)
(* The side panel and the full-screen workspace are two pages.  Each shows *)
(* one conversation from a copy of its own, and each handler works on the  *)
(* copy it saw when it began: a turn sent by the student, a deletion, a    *)
(* selection are asynchronous, and between two of their steps the student  *)
(* may press another button, on this page or on the other one.  A write    *)
(* always stores a whole conversation.                                     *)
(*                                                                         *)
(* A conversation is its id and its messages; a message is what kind it is *)
(* and which turn it belongs to.  Read or written, the store takes effect  *)
(* when the request is issued: a page's requests are served in order, and  *)
(* two pages learn of each other only from the store.  Sanitizing, sorting *)
(* by date (any stored conversation may be the latest), evidence, aliases  *)
(* and the preview that follows an approval are left out.                  *)
(***************************************************************************)
EXTENDS Naturals, Sequences, FiniteSets, Dict

CONSTANTS
    Panel, Workspace,   \* the two pages
    MaxConversations,   \* bound: conversation ids handed out
    MaxSends,           \* bound: messages the student sends
    MaxTools,           \* bound: tools in one turn
    MaxHandlers,        \* bound: history operations under way on one page
    StoreOutcomes       \* bound: whether a write may fail, {TRUE} or BOOLEAN

ASSUME ConversationsAssumption ==
    /\ Panel # Workspace
    /\ MaxConversations \in Nat /\ MaxSends \in Nat /\ MaxTools \in Nat /\ MaxHandlers \in Nat
    /\ StoreOutcomes \subseteq BOOLEAN

VARIABLES
    db,        \* the object store: conversation id -> messages
    page,      \* React state and refs of each page
    turns,     \* send() of each message sent, with its local variables
    handlers,  \* history operations that wait for something
    minted,    \* conversation ids handed out so far
    gone       \* history: conversations whose deletion was acknowledged

pagesVars == <<db, page, turns, handlers, minted, gone>>

Pages == {Panel, Workspace}
ConversationId == 1 .. MaxConversations
Turn == 1 .. Len(turns)
ReplyKinds == {"answer", "pending", "decided", "error"}

Message(kind, r) == [kind |-> kind, turn |-> r]
Doc(id, log) == [id |-> id, log |-> log]

(***************************************************************************)
(* Pages                                                                   *)
(***************************************************************************)

\* controller is abortControllerRef, 0 for null; busy is set and reset with it.
Closed == [open |-> FALSE, view |-> Doc(0, <<>>), list |-> {}, touched |-> FALSE,
           controller |-> 0]
OpenedPage(id) == [Closed EXCEPT !.open = TRUE, !.view = Doc(id, <<>>)]

Busy(p) == page[p].controller # 0

\* interactionLocked: the side panel follows the workspace, which is the operating page.
Disabled(p) == p = Panel /\ page[Workspace].open

\* abortCurrentRun, with the rest of a history operation's beginning.
Interrupted(s) == [s EXCEPT !.controller = 0, !.touched = TRUE]

\* Every waiting handler may need an id for the conversation that replaces its own.
MayMint == minted + Cardinality(handlers) < MaxConversations

Displaying(s, doc) == [s EXCEPT !.view = doc, !.list = @ \union {doc.id}]

\* persist: shown and listed at once, then stored, unless the store fails.
Persist(p, s, doc, ok) ==
    /\ page' = [page EXCEPT ![p] = Displaying(s, doc)]
    /\ db' = IF ok THEN With(db, doc.id, doc.log) ELSE db

\* createConversation from the point where the old runtime is cleared.
PersistNew(p, s, ok) ==
    /\ minted' = minted + 1
    /\ Persist(p, s, Doc(minted + 1, <<>>), ok)

\* The mount effect asks for the stored conversations; what it gets is as of now.
Mounting(p) == [page |-> p, op |-> "list", found |-> db]

PagesInit ==
    /\ db = Empty
    /\ page = [p \in Pages |-> IF p = Panel THEN OpenedPage(1) ELSE Closed]
    /\ turns = <<>>
    /\ handlers = {[page |-> Panel, op |-> "list", found |-> Empty]}
    /\ minted = 1
    /\ gone = {}

(***************************************************************************)
(* A turn: send, runTool, finishResponse                                   *)
(***************************************************************************)

\* assertActive, looked at after every await.
Active(r) == page[turns[r].page].controller = r

TurnAt(r, pc) == r \in Turn /\ turns[r].pc = pc /\ Active(r)

Going(r, pc) == turns' = [turns EXCEPT ![r].pc = pc]

\* send returns; its local variables are gone.
Returns(r) ==
    turns' = [turns EXCEPT ![r].pc = "done", ![r].current = <<>>, ![r].runner = <<>>]

\* The turn r of page p shows and stores log, and goes on at pc unless the store fails.
Saves(r, log, pc) ==
    LET p == turns[r].page
    IN  \E ok \in StoreOutcomes :
            /\ Persist(p, page[p], Doc(turns[r].id, log), ok)
            /\ turns' = [turns EXCEPT ![r].pc = IF ok THEN pc ELSE "throws"]

\* send: the message is added to what the page shows.
Send(p) ==
    LET r == Len(turns) + 1
        doc == Doc(page[p].view.id, Append(page[p].view.log, Message("user", r)))
    IN  /\ page[p].open /\ ~Disabled(p) /\ ~Busy(p) /\ r <= MaxSends
        /\ \E ok \in StoreOutcomes :
            /\ Persist(p, [page[p] EXCEPT !.touched = TRUE, !.controller = r], doc, ok)
            /\ turns' = Append(turns, [page |-> p, id |-> doc.id, current |-> doc.log,
                                       runner |-> doc.log, pc |-> IF ok THEN "sent" ELSE "throws"])
        /\ UNCHANGED <<handlers, minted, gone>>

\* The capabilities are known and the message is transformed; it is stored again.
Prepared(r) ==
    /\ TurnAt(r, "sent")
    /\ Saves(r, turns[r].current, "thinking")
    /\ UNCHANGED <<handlers, minted, gone>>

ToolsOf(r) == {i \in DOMAIN turns[r].runner : turns[r].runner[i] = Message("tool", r)}

\* runTool shows the running activity and does not store it.
ToolStarts(r) ==
    LET p == turns[r].page
        log == Append(turns[r].runner, Message("running", r))
    IN  /\ TurnAt(r, "thinking")
        /\ Cardinality(ToolsOf(r)) < MaxTools
        /\ page' = [page EXCEPT ![p].view = Doc(turns[r].id, log)]
        /\ Going(r, "tool")
        /\ UNCHANGED <<db, handlers, minted, gone>>

ToolEnds(r) ==
    /\ TurnAt(r, "tool")
    /\ Saves(r, Append(turns[r].runner, Message("tool", r)), "tooldone")
    /\ UNCHANGED <<handlers, minted, gone>>

\* executeTool returns: runnerConversation is the completed one.
ToolReturns(r) ==
    /\ TurnAt(r, "tooldone")
    /\ turns' = [turns EXCEPT ![r].pc = "thinking",
                              ![r].runner = Append(@, Message("tool", r))]
    /\ UNCHANGED <<db, page, handlers, minted, gone>>

\* finishResponse: the answer, with or without a proposal to decide on.
\* fault: no look at the signal before the answer is stored
AnswersLate(r, kind) ==
    LET p == turns[r].page
        log == Append(turns[r].runner, Message(kind, r))
    IN  /\ r \in Turn /\ turns[r].pc = "thinking" /\ page[p].open
        /\ Persist(p, page[p], Doc(turns[r].id, log), TRUE)
        /\ Going(r, "answered")
        /\ UNCHANGED <<handlers, minted, gone>>
\* fault: the error is later added to a conversation that has the answer
AnswersEarly(r, kind) ==
    LET p == turns[r].page
        log == Append(turns[r].runner, Message(kind, r))
    IN  /\ TurnAt(r, "thinking")
        /\ \E ok \in StoreOutcomes :
            /\ Persist(p, page[p], Doc(turns[r].id, log), ok)
            /\ turns' = [turns EXCEPT ![r].pc = IF ok THEN "answered" ELSE "throws",
                                      ![r].current = log]
        /\ UNCHANGED <<handlers, minted, gone>>
TurnAnswers(r, kind) ==
    LET p == turns[r].page
        log == Append(turns[r].runner, Message(kind, r))
    IN  /\ TurnAt(r, "thinking")
        /\ \E ok \in StoreOutcomes :
            /\ Persist(p, page[p], Doc(turns[r].id, log), ok)
            /\ turns' = [turns EXCEPT ![r].pc = IF ok THEN "answered" ELSE "throws",
                                      ![r].current = turns[r].runner]
        /\ UNCHANGED <<handlers, minted, gone>>

\* The service, a tool or the store fails: the catch block adds an error to the
\* conversation as it was before the tools.
Fails(r) ==
    LET p == turns[r].page
        log == Append(turns[r].current, Message("error", r))
    IN  /\ \E pc \in {"sent", "thinking", "tool", "throws"} : TurnAt(r, pc)
        /\ \E ok \in StoreOutcomes : Persist(p, page[p], Doc(turns[r].id, log), ok)
        /\ Going(r, "failed")
        /\ UNCHANGED <<handlers, minted, gone>>

\* The finally block of the turn that is still the page's own.
\* fault: only a turn that was answered gives the page free
EndsAnswered(r) ==
    /\ \E pc \in {"answered", "failed"} : TurnAt(r, pc)
    /\ page' = IF turns[r].pc = "answered" THEN [page EXCEPT ![turns[r].page].controller = 0]
                                           ELSE page
    /\ Returns(r)
    /\ UNCHANGED <<db, handlers, minted, gone>>
Ends(r) ==
    /\ \E pc \in {"answered", "failed"} : TurnAt(r, pc)
    /\ page' = [page EXCEPT ![turns[r].page].controller = 0]
    /\ Returns(r)
    /\ UNCHANGED <<db, handlers, minted, gone>>

\* A turn that was aborted throws at its next assertActive and changes nothing.
EndsAborted(r) ==
    /\ r \in Turn /\ ~Active(r) /\ turns[r].pc # "done"
    /\ Returns(r)
    /\ UNCHANGED <<db, page, handlers, minted, gone>>

TurnStep(r) ==
    \/ Prepared(r) \/ ToolStarts(r) \/ ToolEnds(r) \/ ToolReturns(r)
    \/ \E kind \in {"answer", "pending"} : TurnAnswers(r, kind)
    \/ Fails(r) \/ Ends(r) \/ EndsAborted(r)

(***************************************************************************)
(* What the student does besides sending                                   *)
(***************************************************************************)

Underway(p) == {h \in handlers : h.page = p /\ h.op # "list"}
MayStart(p) == page[p].open /\ Cardinality(Underway(p)) < MaxHandlers

\* The composer's stop button.
Stop(p) ==
    /\ page[p].open /\ Busy(p) /\ ~Disabled(p)
    /\ page' = [page EXCEPT ![p].controller = 0]
    /\ UNCHANGED <<db, turns, handlers, minted, gone>>

\* updateProposal stores what the page shows, with the decision, either one.
Decide(p, i) ==
    /\ page[p].open
    /\ page[p].view.log[i].kind = "pending"
    /\ \E ok \in StoreOutcomes :
        Persist(p, page[p], [page[p].view EXCEPT !.log[i].kind = "decided"], ok)
    /\ UNCHANGED <<turns, handlers, minted, gone>>

\* An operation interrupts the page's turn and waits.
Begin(p, h) ==
    /\ page' = [page EXCEPT ![p] = Interrupted(page[p])]
    /\ handlers' = handlers \union {h}
    /\ UNCHANGED <<db, turns, minted, gone>>

\* selectConversation; loadConversation finds it or not.
Select(p, c) ==
    /\ MayStart(p) /\ c \in page[p].list
    /\ Begin(p, [page |-> p, op |-> "select", target |-> c,
                 found |-> IF c \in DOMAIN db THEN {db[c]} ELSE {}])

\* createConversation, removeConversation and clearConversations wait for the
\* conversation's aliases and source handles to be cleared.
Create(p) ==
    /\ MayStart(p) /\ MayMint /\ ~Busy(p) /\ ~Disabled(p)
    /\ Begin(p, [page |-> p, op |-> "create"])

RemoveConversation(p, c) ==
    /\ MayStart(p) /\ MayMint /\ c \in page[p].list
    /\ Begin(p, [page |-> p, op |-> "remove", target |-> c,
                 shown |-> page[p].view.id, listed |-> page[p].list])

Clear(p) ==
    /\ MayStart(p) /\ MayMint
    /\ Begin(p, [page |-> p, op |-> "clear"])

(***************************************************************************)
(* History operations go on                                                *)
(***************************************************************************)

Instead(h, others) == handlers' = (handlers \ {h}) \union others

\* The mount effect's list arrives; it is shown only if nothing was done yet.
ListArrives(h) ==
    /\ h.op = "list"
    /\ LET s == [page[h.page] EXCEPT !.list = DOMAIN h.found]
       IN  IF page[h.page].touched \/ DOMAIN h.found = {}
           THEN page' = [page EXCEPT ![h.page] = s]
           ELSE \E c \in DOMAIN h.found :
                    page' = [page EXCEPT ![h.page] = [s EXCEPT !.view = Doc(c, h.found[c])]]
    /\ Instead(h, {})
    /\ UNCHANGED <<db, turns, minted, gone>>

Selected(h) ==
    /\ h.op = "select"
    /\ IF h.found = {} THEN page' = page
       ELSE \E log \in h.found : page' = [page EXCEPT ![h.page].view = Doc(h.target, log)]
    /\ Instead(h, {})
    /\ UNCHANGED <<db, turns, minted, gone>>

Created(h) ==
    /\ h.op = "create"
    /\ \E ok \in StoreOutcomes : PersistNew(h.page, page[h.page], ok)
    /\ Instead(h, {})
    /\ UNCHANGED <<turns, gone>>

\* deleteConversation, and then its acknowledgement: the list as it was at the
\* click without the conversation, and a new conversation if that one was shown.
Removing(h) ==
    /\ h.op = "remove"
    /\ db' = Without(db, h.target)
    /\ Instead(h, {[h EXCEPT !.op = "removed"]})
    /\ UNCHANGED <<page, turns, minted, gone>>

Removed(h) ==
    LET s == [page[h.page] EXCEPT !.list = h.listed \ {h.target}]
    IN  /\ h.op = "removed"
        /\ gone' = gone \union {h.target}
        /\ IF h.shown = h.target
           THEN \E ok \in StoreOutcomes : PersistNew(h.page, Interrupted(s), ok)
           ELSE page' = [page EXCEPT ![h.page] = s] /\ UNCHANGED <<db, minted>>
        /\ Instead(h, {})
        /\ UNCHANGED turns

\* deleteAllConversations; the list the page shows is not emptied.
Clearing(h) ==
    /\ h.op = "clear"
    /\ db' = Empty
    /\ Instead(h, {[page |-> h.page, op |-> "cleared", target |-> DOMAIN db]})
    /\ UNCHANGED <<page, turns, minted, gone>>

Cleared(h) ==
    /\ h.op = "cleared"
    /\ gone' = gone \union h.target
    /\ \E ok \in StoreOutcomes : PersistNew(h.page, Interrupted(page[h.page]), ok)
    /\ Instead(h, {})
    /\ UNCHANGED turns

\* The runtime cannot be cleared: the operation ends with nothing deleted.
GivesUp(h) ==
    /\ h.op \in {"create", "remove", "clear"}
    /\ Instead(h, {})
    /\ UNCHANGED <<db, page, turns, minted, gone>>

HistoryStep(h) ==
    \/ ListArrives(h) \/ Selected(h) \/ Created(h) \/ Removing(h) \/ Removed(h)
    \/ Clearing(h) \/ Cleared(h) \/ GivesUp(h)

(***************************************************************************)
(* The workspace tab                                                       *)
(***************************************************************************)

OpenWorkspace ==
    /\ ~page[Workspace].open /\ ~Busy(Panel) /\ MayMint
    /\ page' = [page EXCEPT ![Workspace] = OpenedPage(minted + 1)]
    /\ minted' = minted + 1
    /\ handlers' = handlers \union {Mounting(Workspace)}
    /\ UNCHANGED <<db, turns, gone>>

\* The tab goes, and with it whatever ran in it.
CloseWorkspace ==
    /\ page[Workspace].open
    /\ page' = [page EXCEPT ![Workspace] = Closed]
    /\ handlers' = {h \in handlers : h.page # Workspace}
    /\ UNCHANGED <<db, turns, minted, gone>>

\* Everything that page p does.
PageStep(p) ==
    \/ Send(p) \/ Stop(p) \/ Create(p) \/ Clear(p)
    \/ \E c \in ConversationId : Select(p, c) \/ RemoveConversation(p, c)
    \/ \E i \in DOMAIN page[p].view.log : Decide(p, i)
    \/ \E r \in Turn : turns[r].page = p /\ TurnStep(r)
    \/ \E h \in handlers : h.page = p /\ HistoryStep(h)

PagesNext ==
    \/ \E p \in Pages : PageStep(p)
    \/ OpenWorkspace
    \/ CloseWorkspace

PagesSpec == PagesInit /\ [][PagesNext]_pagesVars

\* The service answers, or fails, every request and every tool ends, each within
\* its timeout; what a page waits for in its own browser settles as well.
PagesFairness ==
    /\ \A r \in 1 .. MaxSends : WF_pagesVars(TurnStep(r))
    /\ \A p \in Pages : WF_pagesVars(\E h \in handlers : h.page = p /\ HistoryStep(h))

PagesLiveSpec == PagesSpec /\ PagesFairness

(***************************************************************************)
(* Properties                                                              *)
(***************************************************************************)

\* Every copy of a conversation there is: stored, shown, being worked on, read
\* for a selection or for the list.
Documents ==
    LET selected == {h \in handlers : h.op = "select"}
        listed == {h \in handlers : h.op = "list"}
    IN  UNION {{Doc(c, db[c]) : c \in DOMAIN db},
               {page[p].view : p \in Pages},
               {Doc(turns[r].id, turns[r].current) : r \in Turn},
               {Doc(turns[r].id, turns[r].runner) : r \in Turn},
               UNION {{Doc(h.target, log) : log \in h.found} : h \in selected},
               UNION {{Doc(c, h.found[c]) : c \in DOMAIN h.found} : h \in listed}}

Positions(log, kinds, r) == {i \in DOMAIN log : log[i].kind \in kinds /\ log[i].turn = r}

\* In every copy, stored or not, a turn has its question first and at most one
\* reply, an answer or an error, whatever failed and whoever wrote: the catch
\* block (ChatPanel.tsx:2994) must not work on a conversation with the answer.
OneReply ==
    \A doc \in Documents, r \in Turn :
        LET replies == Positions(doc.log, ReplyKinds, r)
            others == Positions(doc.log, ReplyKinds \union {"tool", "running"}, r)
        IN  /\ Cardinality(replies) <= 1
            /\ \A i \in others : \E q \in Positions(doc.log, {"user"}, r) : q < i

Replied(r) == \E doc \in Documents : Positions(doc.log, ReplyKinds, r) # {}

\* Once a turn is aborted it gives no reply any more: its service call and tools
\* may still return, but what they return is dropped (ChatPanel.tsx:1103).
AbortedStaySilent ==
    [][\A r \in Turn : ~Active(r) /\ ~Replied(r) => ~Replied(r)']_pagesVars

\* A page that is busy becomes free: every way through send() and every
\* operation that interrupts it resets the controller (ChatPanel.tsx:3022).
BusyEnds == \A p \in Pages : Busy(p) ~> ~Busy(p)

(***************************************************************************)
(* What the documents say and the code does not do                         *)
(***************************************************************************)

\* A running activity is never stored (ChatPanel.tsx:1594).
NoRunningToolStored ==
    \A c \in DOMAIN db : \A i \in DOMAIN db[c] : db[c][i].kind # "running"

\* The student can delete a conversation: it does not come back once its
\* deletion was acknowledged (docs/architecture.md:217).
DeletedStayDeleted == DOMAIN db \intersect gone = {}

=============================================================================
