---------------------------- MODULE ScombzReads ----------------------------
(***************************************************************************)
(* Reads of the student's own ScombZ tab: the service worker's binding of  *)
(* a conversation to a tab (background/service-worker.ts,                  *)
(* background/scombz-tab-session.ts) and the reader in the page            *)
(* (content/scombz-student-reader.ts).                                     *)
(*                                                                         *)
(* A conversation is pinned to one tab and to one generation of the        *)
(* content script in it; a reload makes another generation, of which the   *)
(* worker learns by an event that comes later.  Course handles and cursors *)
(* live in the page, for the conversation that got them, for thirty        *)
(* minutes.  A material search goes through the files of a course one by   *)
(* one, within limits, and gives a cursor to go on from.                   *)
(*                                                                         *)
(* What a page says is left out, but for the number of matching pages in   *)
(* each file.  A file is unreadable, or too large for what is left of the  *)
(* byte and page budgets, by choice.  A conversation has one call at a     *)
(* time; the worker's restarts lose its bindings.                          *)
(***************************************************************************)
EXTENDS Naturals, Sequences, FiniteSets

CONSTANTS
    ScombzTabs,     \* browser tabs
    ScombzConvs,    \* conversations
    FileHits,       \* for each file of the course, in order, how many of its pages match
    MaxFiles,       \* files of one search (20 in the code)
    MaxHits,        \* hits of one search (24 in the code)
    QuoteHits,      \* hits that fill the quotes when the pages are long (17 in the code)
    MaxLoads        \* bound on the content scripts started (model checking only)

ASSUME ScombzAssumption ==
    /\ FileHits \in Seq(Nat)
    /\ {MaxFiles, MaxHits, QuoteHits, MaxLoads} \subseteq Nat
    /\ "none" \notin ScombzTabs

VARIABLES
    tabs,       \* each tab: closed, elsewhere, bare (no content script) or scombz, its script and whether logged in
    loading,    \* tabs whose loading or removal event has not reached the worker
    binding,    \* ScombzTabSessionRegistry: the tab and generation a conversation is pinned to
    call,       \* the local variables of each conversation's call, in the worker and in the page
    handles,    \* in the pages: the handles given out, with their generation and conversation
    loads,      \* how many content scripts have been started
    sources,    \* history: the generations that answered reads since the conversation was last pinned anew
    outcome     \* history: the last read's answer, of a search, and what it left out without saying so

scombzVars == <<tabs, loading, binding, call, handles, loads, sources, outcome>>

Unpinned == [tab |-> "none", gen |-> 0]
NoCall == [pc |-> "idle", tab |-> "none", gen |-> 0, action |-> "none", at |-> 0, end |-> 0, hits |-> 0,
           missed |-> 0, partial |-> FALSE]
Links == DOMAIN FileHits
NoOutcome == [status |-> "none", missed |-> 0]

ScombzInit ==
    /\ tabs \in [ScombzTabs -> [at : {"closed", "bare"}, gen : {0}, in : {TRUE}]]
    /\ loading = {}
    /\ binding = [c \in ScombzConvs |-> Unpinned]
    /\ call = [c \in ScombzConvs |-> NoCall]
    /\ handles = {}
    /\ loads = 0
    /\ sources = [c \in ScombzConvs |-> {}]
    /\ outcome = [c \in ScombzConvs |-> NoOutcome]

ReturnCall(c) == call' = [call EXCEPT ![c] = NoCall]
Least(a, b) == IF a < b THEN a ELSE b

Bound(c, b) ==
    /\ binding' = [binding EXCEPT ![c] = b]
    /\ sources' = [sources EXCEPT ![c] = IF b \in {binding[c], Unpinned} THEN @ ELSE {}]

-----------------------------------------------------------------------------
(* The browser.                                                             *)

\* The page that was there is gone with its memory; the event comes later.
Shows(t, page) ==
    /\ tabs' = [tabs EXCEPT ![t] = page]
    /\ handles' = {h \in handles : h.gen # tabs[t].gen}
    /\ loading' = loading \cup {t}

\* A ScombZ page loads in the tab, and its content script starts.
Load(t) ==
    /\ loads < MaxLoads
    /\ loads' = loads + 1
    /\ \E in \in BOOLEAN : Shows(t, [at |-> "scombz", gen |-> loads + 1, in |-> in])
    /\ UNCHANGED <<binding, call, sources, outcome>>

LeavePage(t, place) ==
    /\ tabs[t].at # place
    /\ Shows(t, [at |-> place, gen |-> 0, in |-> FALSE])
    /\ UNCHANGED <<binding, call, loads, sources, outcome>>

\* onUpdated (loading) and onRemoved reach the worker: invalidateTab.
Invalidate(t) ==
    /\ t \in loading
    /\ loading' = loading \ {t}
    /\ binding' = [c \in ScombzConvs |-> IF binding[c].tab = t THEN Unpinned ELSE binding[c]]
    /\ UNCHANGED <<tabs, call, handles, loads, sources, outcome>>

\* onSuspend, onStartup: the bindings are forgotten, and calls under way in the worker end.
WorkerRestart ==
    /\ \E c \in ScombzConvs : binding[c] # Unpinned \/ call[c] # NoCall
    /\ binding' = [c \in ScombzConvs |-> Unpinned]
    /\ call' = [c \in ScombzConvs |-> NoCall]
    /\ UNCHANGED <<tabs, loading, handles, loads, sources, outcome>>

\* clearConversationBindings and the end of the thirty minutes (resolve).
Unbind(c) ==
    /\ binding[c] # Unpinned
    /\ Bound(c, Unpinned)
    /\ UNCHANGED <<tabs, loading, call, handles, loads, outcome>>

HandleExpires(h) ==
    /\ handles' = handles \ {h}
    /\ UNCHANGED <<tabs, loading, binding, call, loads, sources, outcome>>

-----------------------------------------------------------------------------
(* Pinning a conversation: the active tab, or the tab of an audit source.   *)

Pin(c, t) ==
    /\ call[c] = NoCall
    /\ tabs[t].at \in {"bare", "scombz"}
    /\ call' = [call EXCEPT ![c] = [NoCall EXCEPT !.pc = "identity", !.tab = t]]
    /\ UNCHANGED <<tabs, loading, binding, handles, loads, sources, outcome>>

\* readScombzSourceIdentity in a page that has no content script: ours is injected.
InjectScript(c) ==
    LET t == call[c].tab IN
    /\ call[c].pc = "identity" /\ tabs[t].at = "bare"
    /\ loads < MaxLoads
    /\ loads' = loads + 1
    /\ tabs' = [tabs EXCEPT ![t].at = "scombz", ![t].gen = loads + 1]
    /\ UNCHANGED <<loading, binding, call, handles, sources, outcome>>

\* The page answers with its generation and whether it is logged in.
Identity(c) ==
    LET t == tabs[call[c].tab] IN
    /\ call[c].pc = "identity"
    /\ \/ /\ t.at = "scombz" /\ t.in
          /\ call' = [call EXCEPT ![c].pc = "pin", ![c].gen = t.gen]
       \/ /\ t.at \in {"closed", "elsewhere"} \/ (t.at = "scombz" /\ ~t.in)
          /\ ReturnCall(c)
    /\ UNCHANGED <<tabs, loading, binding, handles, loads, sources, outcome>>

\* pin: a conversation never changes its tab; another generation unpins it.
PinStore(c) ==
    LET b == binding[c] IN
    /\ call[c].pc = "pin"
    /\ ReturnCall(c)
    /\ Bound(c, CASE b # Unpinned /\ b.tab # call[c].tab -> b
                  [] b # Unpinned /\ b.tab = call[c].tab /\ b.gen # call[c].gen -> Unpinned
                  [] OTHER -> [tab |-> call[c].tab, gen |-> call[c].gen])
    /\ UNCHANGED <<tabs, loading, handles, loads, outcome>>

-----------------------------------------------------------------------------
(* Reading.                                                                 *)

\* handleScombzStudentRead: resolve.  Without a binding the answer is that there is none.
Read(c, action) ==
    /\ call[c] = NoCall
    /\ binding[c] # Unpinned
    /\ call' = [call EXCEPT ![c] = [NoCall EXCEPT !.pc = "tab", !.tab = binding[c].tab, !.gen = binding[c].gen,
                                                  !.action = action]]
    /\ outcome' = [outcome EXCEPT ![c] = NoOutcome]
    /\ UNCHANGED <<tabs, loading, binding, handles, loads, sources>>

\* chrome.tabs.get: a closed tab ends the binding, one that shows another site only the read.
FindPinned(c) ==
    /\ call[c].pc = "tab"
    /\ IF tabs[call[c].tab].at = "closed" THEN ReturnCall(c) /\ Bound(c, Unpinned)
       ELSE /\ IF tabs[call[c].tab].at = "elsewhere" THEN ReturnCall(c) ELSE call' = [call EXCEPT ![c].pc = "page"]
            /\ UNCHANGED <<binding, sources>>
    /\ UNCHANGED <<tabs, loading, handles, loads, outcome>>

\* remember, opaqueCursor, resolve, cursorOffset: by generation (the page's memory) and conversation.
Handle(c, kind, offset) == [gen |-> tabs[call[c].tab].gen, conv |-> c, kind |-> kind, offset |-> offset]
Offsets(c) == {0} \cup {h.offset : h \in {h \in handles : h = Handle(c, "cursor", h.offset)}}

\* read, and html: the page refuses a message for another generation, and reads nothing when logged out.
PageAnswers(c) ==
    LET t == tabs[call[c].tab] IN t.at = "scombz" /\ t.in /\ t.gen = call[c].gen

RefuseRead(c) ==
    /\ call[c].pc \in {"page", "search"}
    /\ ~PageAnswers(c)
    /\ ReturnCall(c)
    /\ UNCHANGED <<tabs, loading, binding, handles, loads, sources, outcome>>

PageAnswered(c) == sources' = [sources EXCEPT ![c] = @ \cup {tabs[call[c].tab].gen}]

\* courseList, portal_read: handles, and a cursor when there are more.
ListPage(c) ==
    /\ call[c].pc = "page" /\ call[c].action = "list"
    /\ PageAnswers(c)
    /\ handles' = handles \cup {Handle(c, "course", 0)}
    /\ PageAnswered(c)
    /\ ReturnCall(c)
    /\ UNCHANGED <<tabs, loading, binding, loads, outcome>>

\* course_read: a handle that is unknown or another conversation's counts as failed.
CoursePage(c) ==
    /\ call[c].pc = "page" /\ call[c].action = "course"
    /\ PageAnswers(c)
    /\ PageAnswered(c)
    /\ ReturnCall(c)
    /\ UNCHANGED <<tabs, loading, binding, handles, loads, outcome>>

\* materialSearch, materialBatchBounds: the batch starts at the cursor's offset.
SearchStart(c, offset) ==
    /\ call[c].pc = "page" /\ call[c].action = "search"
    /\ PageAnswers(c)
    /\ Handle(c, "course", 0) \in handles
    /\ offset \in Offsets(c)
    /\ call' = [call EXCEPT ![c].pc = "search", ![c].at = offset + 1,
                            ![c].end = Least(Cardinality(Links), offset + MaxFiles)]
    /\ UNCHANGED <<tabs, loading, binding, handles, loads, sources, outcome>>

\* The answer of a search, with a cursor when more is known to be there.
FinishSearch(c, status, offset, missed) ==
    /\ handles' = IF offset > 0 THEN handles \cup {Handle(c, "cursor", offset)} ELSE handles
    /\ outcome' = [outcome EXCEPT ![c] = [status |-> status, missed |-> missed]]
    /\ PageAnswered(c)
    /\ ReturnCall(c)
    /\ UNCHANGED <<tabs, loading, binding, loads>>

Searching(c) == call[c].pc = "search" /\ PageAnswers(c) /\ call[c].at <= call[c].end

\* A file that cannot be fetched or is no PDF.
FileFails(c) ==
    /\ Searching(c)
    /\ call' = [call EXCEPT ![c].at = @ + 1, ![c].partial = TRUE]
    /\ UNCHANGED <<tabs, loading, binding, handles, loads, sources, outcome>>

\* A file over the byte or page budget: the continuation starts after it.
FileTooLarge(c) ==
    /\ Searching(c)
    /\ FinishSearch(c, "partial", call[c].at, call[c].missed + FileHits[call[c].at])

\* A file is searched page by page, as long as hits and quotes have room.
FileSearched(c, room) ==
    LET at == call[c].at
        found == Least(FileHits[at], room - call[c].hits)
        more == at < call[c].end \/ call[c].end < Cardinality(Links)
        missed == FileHits[at] - found IN
    /\ Searching(c)
    /\ call[c].hits <= room
    /\ \/ /\ room = MaxHits /\ call[c].hits + found = MaxHits
          /\ FinishSearch(c, IF more \/ call[c].partial THEN "partial" ELSE "known",
                    IF more THEN at ELSE 0, call[c].missed + missed)
       \/ /\ room = QuoteHits /\ missed > 0
          /\ FinishSearch(c, "partial", at, call[c].missed + missed)
       \/ /\ call[c].hits + found < MaxHits /\ missed = 0
          /\ call' = [call EXCEPT ![c].at = @ + 1, ![c].hits = @ + found]
          /\ UNCHANGED <<tabs, loading, binding, handles, loads, sources, outcome>>

\* The batch is through.
SearchEnds(c) ==
    LET more == call[c].end < Cardinality(Links) IN
    /\ call[c].pc = "search" /\ PageAnswers(c)
    /\ call[c].at > call[c].end
    /\ FinishSearch(c, IF more \/ call[c].partial THEN "partial" ELSE "known",
                    IF more THEN call[c].end ELSE 0, call[c].missed)

ScombzNext ==
    \/ \E t \in ScombzTabs : Load(t) \/ LeavePage(t, "closed") \/ LeavePage(t, "elsewhere") \/ Invalidate(t)
    \/ WorkerRestart
    \/ \E h \in handles : HandleExpires(h)
    \/ \E c \in ScombzConvs :
        \/ Unbind(c) \/ InjectScript(c) \/ Identity(c) \/ PinStore(c) \/ FindPinned(c) \/ RefuseRead(c)
        \/ \E t \in ScombzTabs : Pin(c, t)
        \/ \E action \in {"list", "course", "search"} : Read(c, action)
        \/ ListPage(c) \/ CoursePage(c) \/ FileFails(c) \/ FileTooLarge(c) \/ SearchEnds(c)
        \/ \E offset \in {0} \cup Links : SearchStart(c, offset)
        \/ \E room \in {MaxHits, QuoteHits} : FileSearched(c, room)

ScombzSpec == ScombzInit /\ [][ScombzNext]_scombzVars

-----------------------------------------------------------------------------
\* What a conversation reads until it is pinned anew comes from one page instance, whatever is reloaded,
\* closed or restarted between the identity read, the pin and the reads (handleScombzStudentRead, pin, read).
OnePage == \A c \in ScombzConvs : Cardinality(sources[c]) <= 1

\* A material search that says it is complete has left out no matching page.  Not so in the code, and in
\* no run: a search that finds its last hit in the middle of the last file says "known" (materialSearch).
KnownIsComplete == \A c \in ScombzConvs : outcome[c].status = "known" => outcome[c].missed = 0
=============================================================================
