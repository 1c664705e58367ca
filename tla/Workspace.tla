----------------------------- MODULE Workspace -----------------------------
(***************************************************************************)
(* The full-screen workspace of the extension                              *)
(* (apps/extension/src/background/workspace-controller.ts).                *)
(*                                                                         *)
(* A session binds a workspace tab to the ScombZ tab it was opened from.   *)
(* It lives in chrome.storage.session with an index entry for its source   *)
(* tab.  Every operation of the controller reads the store, awaits the     *)
(* browser and writes the whole entry it read: calls interleave at every   *)
(* await, the user opens, moves and closes tabs in between, and the worker *)
(* may be stopped at any await, losing its calls and not the store.        *)
(* A side panel is locked while it believes the workspace active; what it  *)
(* believes comes from its own calls and from the worker's broadcasts.     *)
(*                                                                         *)
(* The content of a session (page context, stable state, times) is left    *)
(* out, a whole entry is still what is written.                            *)
(***************************************************************************)
EXTENDS Naturals

CONSTANTS
    Sources,    \* ScombZ tabs
    Panels,     \* side panels
    Workers,    \* calls of the controller that may be under way at once
    MaxTabs,    \* bound on the workspace tabs created (model checking only)
    MaxTasks,   \* bound on the calls started (model checking only)
    Stoppable   \* whether the worker may be stopped under way

VARIABLES
    session,  \* workspace:session:<id>, ids numbered as they are made
    index,    \* workspace:source:<tab>
    view,     \* what each source tab shows
    tab,      \* what each workspace tab shows
    task,     \* the local variables of each call of the controller
    panel,    \* what each side panel believes
    calls     \* how many calls have been started

workspaceVars == <<session, index, view, tab, task, panel, calls>>

Tabs == 1..MaxTabs
EntryIds == 1..MaxTabs
NoSource == "none"
WorkspaceAssumption == MaxTabs \in Nat /\ NoSource \notin Sources
ASSUME WorkspaceAssumption
NoSession == [source |-> NoSource, tab |-> 0, available |-> FALSE]
Resting == [kind |-> "none", pc |-> "rest", by |-> "none", at |-> NoSource, id |-> 0, seen |-> NoSession, list |-> {}, tab |-> 0]
Unopened == [shows |-> "nothing", id |-> 0]

WorkspaceInit ==
    /\ session = [i \in EntryIds |-> NoSession]
    /\ index = [s \in Sources |-> 0]
    /\ view = [s \in Sources |-> "scombz"]
    /\ tab = [t \in Tabs |-> Unopened]
    /\ task = [w \in Workers |-> Resting]
    /\ panel = [p \in Panels |-> [mounted |-> FALSE, active |-> FALSE, bound |-> NoSource]]
    /\ calls = 0

-----------------------------------------------------------------------------
(* What the operations share *)

Stored(i) == session[i] # NoSession
Exists(t) == tab[t].shows \notin {"nothing", "closed"}
\* isWorkspaceTabForSession: a tab has its new address only once the navigation is committed.
ShowsSession(t, i) == tab[t] = [shows |-> "workspace", id |-> i]

\* The entry and the index of its source are written together.
Write(i, s) ==
    /\ session' = [session EXCEPT ![i] = s]
    /\ index' = [index EXCEPT ![s.source] = i]

Nothing == UNCHANGED <<session, index>>

\* workspaceOwnershipChanged: only a panel bound to the session's source listens.
Broadcast(s, active) ==
    panel' = [p \in Panels |-> IF panel[p].mounted /\ panel[p].bound = s.source
                               THEN [panel[p] EXCEPT !.active = active] ELSE panel[p]]

CallGoto(w, pc) == task' = [task EXCEPT ![w].pc = pc]
EndCall(w) == task' = [task EXCEPT ![w] = Resting]
Start(w, c) ==
    /\ task[w] = Resting /\ calls < MaxTasks
    /\ task' = [task EXCEPT ![w] = c]
    /\ calls' = calls + 1

-----------------------------------------------------------------------------
(* Calls and events *)

\* A panel mounts and asks for the status, or its user opens the workspace (not while locked).
Mount(w, p) ==
    /\ ~panel[p].mounted
    /\ Start(w, [Resting EXCEPT !.kind = "status", !.pc = "list", !.by = p])
    /\ panel' = [panel EXCEPT ![p] = [mounted |-> TRUE, active |-> FALSE, bound |-> NoSource]]
    /\ UNCHANGED <<session, index, view, tab>>
OpenWorkspace(w, p) ==
    /\ panel[p].mounted /\ ~panel[p].active
    /\ Start(w, [Resting EXCEPT !.kind = "open", !.pc = "query", !.by = p])
    /\ UNCHANGED <<session, index, view, tab, panel>>
\* The workspace page reports a new stable state.
UpdateSession(w, t) ==
    /\ tab[t].shows = "workspace"
    /\ Start(w, [Resting EXCEPT !.kind = "update", !.pc = "read", !.tab = t, !.id = tab[t].id])
    /\ UNCHANGED <<session, index, view, tab, panel>>
\* tabs.onRemoved: a workspace tab is closed, ...
CloseTab(w, t) ==
    /\ Exists(t)
    /\ tab' = [tab EXCEPT ![t] = [shows |-> "closed", id |-> 0]]
    /\ Start(w, [Resting EXCEPT !.kind = "release", !.pc = "list", !.tab = t])
    /\ UNCHANGED <<session, index, view, panel>>
\* ... or a source tab leaves ScombZ.
LeaveSource(w, s) ==
    /\ view[s] = "scombz"
    /\ view' = [view EXCEPT ![s] = "elsewhere"]
    /\ Start(w, [Resting EXCEPT !.kind = "gone", !.pc = "index", !.at = s])
    /\ UNCHANGED <<session, index, tab, panel>>
\* Steps of the browser and the user nobody is told of.
Commit(t) ==
    /\ tab[t].shows = "loading"
    /\ tab' = [tab EXCEPT ![t].shows = "workspace"]
    /\ UNCHANGED <<session, index, view, task, panel, calls>>
Navigate(t) ==
    /\ tab[t].shows = "workspace"
    /\ tab' = [tab EXCEPT ![t] = [shows |-> "elsewhere", id |-> 0]]
    /\ UNCHANGED <<session, index, view, task, panel, calls>>
ReturnToScombz(s) ==
    /\ view[s] = "elsewhere"
    /\ view' = [view EXCEPT ![s] = "scombz"]
    /\ UNCHANGED <<session, index, tab, task, panel, calls>>
Unmount(p) ==
    /\ panel[p].mounted
    /\ panel' = [panel EXCEPT ![p] = [mounted |-> FALSE, active |-> FALSE, bound |-> NoSource]]
    /\ UNCHANGED <<session, index, view, tab, task, calls>>
\* The worker is stopped.
Suspend ==
    /\ Stoppable
    /\ task # [w \in Workers |-> Resting]
    /\ task' = [w \in Workers |-> Resting]
    /\ UNCHANGED <<session, index, view, tab, panel, calls>>

-----------------------------------------------------------------------------
(* open, status, update, releaseWorkspaceTab, markSourceUnavailable *)

\* currentScombzTab: the source tab in front, if it shows ScombZ.
CurrentScombzTab(w) ==
    /\ task[w].pc = "query"
    /\ \/ \E s \in Sources : view[s] = "scombz" /\ task' = [task EXCEPT ![w].pc = "index", ![w].at = s]
       \/ CallGoto(w, "list")
    /\ Nothing /\ UNCHANGED panel

\* forSourceTab: the index, then the entry it names.
ForSourceTab(w) ==
    LET c == task[w]
    IN /\ c.pc = "index"
       /\ IF index[c.at] # 0 THEN task' = [task EXCEPT ![w].pc = "entry", ![w].id = index[c.at]]
          ELSE IF c.kind = "open" THEN CallGoto(w, "list") ELSE EndCall(w)
       /\ Nothing /\ UNCHANGED panel
ReadEntry(w) ==
    /\ task[w].pc = "entry"
    /\ task' = [task EXCEPT ![w].pc = IF task[w].kind = "open" THEN "context" ELSE "unavailable",
                            ![w].seen = session[task[w].id]]
    /\ Nothing /\ UNCHANGED panel

\* findActiveWorkspace, and releaseWorkspaceTab's search: every stored session, read at once, ...
ReadStoredSessions(w) ==
    LET of(i) == Stored(i) /\ session[i].tab # 0 /\ (task[w].kind = "release" => session[i].tab = task[w].tab)
    IN /\ task[w].pc = "list"
       /\ task' = [task EXCEPT ![w].list = {<<i, session[i]>> : i \in {j \in EntryIds : of(j)}}, ![w].pc = "probe"]
       /\ Nothing /\ UNCHANGED panel
\* ... looked at one by one, the live one kept and a stale one marked to be cleared; ...
Probe(w) ==
    LET c == task[w]
    IN /\ c.pc = "probe"
       /\ \/ \E e \in c.list :
                task' = [task EXCEPT ![w].id = e[1], ![w].seen = e[2], ![w].list = @ \ {e},
                           ![w].pc = IF c.kind # "release" /\ ShowsSession(e[2].tab, e[1]) THEN "found" ELSE "clear"]
          \/ /\ c.list = {}
             /\ IF c.kind = "open" THEN task' = [task EXCEPT ![w].pc = "context", ![w].id = 0, ![w].seen = NoSession]
                ELSE IF c.kind = "status" THEN task' = [task EXCEPT ![w].pc = "answer", ![w].id = 0, ![w].seen = NoSession]
                ELSE EndCall(w)
       /\ Nothing /\ UNCHANGED panel
\* ... clearStaleWorkspaceRef writes the entry as it was read, without its tab;
\* a release also tells the panels.
ClearTab(w) ==
    LET c == task[w]
        cleared == [c.seen EXCEPT !.tab = 0]
    IN /\ c.pc = "clear"
       /\ Write(c.id, cleared)
       /\ CallGoto(w, "probe")
       /\ IF c.kind = "release" THEN Broadcast(cleared, FALSE) ELSE UNCHANGED panel

\* status: what was found, or nothing; the panel takes it as it is.
StatusFound(w) ==
    /\ task[w].pc = "found" /\ task[w].kind = "status"
    /\ CallGoto(w, "answer")
    /\ Nothing /\ UNCHANGED panel
AnswerStatus(w) ==
    LET c == task[w]
    IN /\ c.pc = "answer" /\ c.kind = "status"
       /\ panel' = IF panel[c.by].mounted
                   THEN [panel EXCEPT ![c.by] = [mounted |-> TRUE, active |-> c.id # 0, bound |-> c.seen.source]]
                   ELSE panel
       /\ EndCall(w) /\ Nothing

\* open finds a live workspace: activateExistingWorkspace writes the entry it read, ...
Activate(w) ==
    LET c == task[w]
        refreshed == [c.seen EXCEPT !.available = @ \/ c.at = c.seen.source]
    IN /\ c.pc = "found" /\ c.kind = "open"
       /\ \/ Write(c.id, refreshed)
          \/ c.at = c.seen.source /\ Write(c.id, c.seen)   \* the page gave no context
       /\ CallGoto(w, "focus") /\ UNCHANGED panel
\* fault: a stale workspace that belongs to another source is taken for the source's own.
FocusKeepsStale(w) ==
    LET c == task[w]
    IN /\ c.pc = "focus"
       /\ IF Exists(c.seen.tab)
          THEN CallGoto(w, "answer") /\ Broadcast(c.seen, TRUE) /\ Nothing
          ELSE /\ Write(c.id, [c.seen EXCEPT !.tab = 0])
               /\ task' = [task EXCEPT ![w].pc = "context", ![w].seen.tab = 0]
               /\ UNCHANGED panel
\* ... and focuses the tab, which fails when it is gone by now: stale again.
Focus(w) ==
    LET c == task[w]
    IN /\ c.pc = "focus"
       /\ IF Exists(c.seen.tab)
          THEN CallGoto(w, "answer") /\ Broadcast(c.seen, TRUE) /\ Nothing
          ELSE /\ Write(c.id, [c.seen EXCEPT !.tab = 0])
               /\ task' = [task EXCEPT ![w].pc = "context", ![w].id = 0, ![w].seen = NoSession]
               /\ UNCHANGED panel
\* The page of the source tab is asked for its context: without it the open is refused.
RequestPageContext(w) ==
    LET c == task[w]
    IN /\ c.pc = "context"
       /\ \/ EndCall(w)
          \/ /\ c.at # NoSource /\ view[c.at] = "scombz"
             /\ CallGoto(w, IF c.seen.tab # 0 THEN "existing" ELSE "new")
       /\ Nothing /\ UNCHANGED panel
\* The source has a session with a tab: focus it if it is still the workspace.
FocusExisting(w) ==
    LET c == task[w]
    IN /\ c.pc = "existing"
       /\ IF ShowsSession(c.seen.tab, c.id)
          THEN Write(c.id, [c.seen EXCEPT !.available = TRUE]) /\ CallGoto(w, "refocus")
          ELSE Nothing /\ CallGoto(w, "new")
       /\ UNCHANGED panel
Refocus(w) ==
    LET c == task[w]
    IN /\ c.pc = "refocus"
       /\ IF Exists(c.seen.tab) THEN CallGoto(w, "answer") /\ Broadcast(c.seen, TRUE)
          ELSE CallGoto(w, "new") /\ UNCHANGED panel
       /\ Nothing

\* Otherwise an entry without tab is written, under the source's id or a new one, ...
Fresh(i) == ~Stored(i) /\ \A j \in EntryIds : j < i => Stored(j)
WriteNew(w) ==
    LET c == task[w]
        new == [source |-> c.at, tab |-> 0, available |-> TRUE]
    IN /\ c.pc = "new"
       /\ \E i \in IF c.id # 0 THEN {c.id} ELSE {j \in EntryIds : Fresh(j)} :
             /\ Write(i, new)
             /\ task' = [task EXCEPT ![w].pc = "create", ![w].id = i, ![w].seen = new]
       /\ UNCHANGED panel
\* ... an empty tab is created, ...
CreateTab(w) ==
    /\ task[w].pc = "create"
    /\ \E t \in Tabs :
          /\ tab[t] = Unopened /\ \A u \in Tabs : u < t => tab[u] # Unopened
          /\ tab' = [tab EXCEPT ![t].shows = "blank"]
          /\ task' = [task EXCEPT ![w].pc = "opened", ![w].seen.tab = t]
    /\ Nothing /\ UNCHANGED <<view, panel, calls>>
\* ... its id is written, and the tab is sent to the workspace page.
WriteOpened(w) ==
    /\ task[w].pc = "opened"
    /\ Write(task[w].id, task[w].seen)
    /\ CallGoto(w, "show") /\ UNCHANGED panel
ShowTab(w) ==
    LET c == task[w]
    IN /\ c.pc = "show"
       /\ IF Exists(c.seen.tab)
          THEN /\ tab' = [tab EXCEPT ![c.seen.tab] = [shows |-> "loading", id |-> c.id]]
               /\ CallGoto(w, "answer") /\ Broadcast(c.seen, TRUE) /\ Nothing
          ELSE /\ Write(c.id, [c.seen EXCEPT !.tab = 0])
               /\ EndCall(w) /\ UNCHANGED <<tab, panel>>
       /\ UNCHANGED <<view, calls>>
\* handleOpenWorkspace: the panel locks itself and binds itself to the source.
AnswerOpen(w) ==
    LET c == task[w]
    IN /\ c.pc = "answer" /\ c.kind = "open"
       /\ panel' = IF panel[c.by].mounted
                   THEN [panel EXCEPT ![c.by].active = TRUE, ![c.by].bound = c.seen.source] ELSE panel
       /\ EndCall(w) /\ Nothing

\* update: refused unless the sender is the tab the entry names; else the entry is written as read.
ReadForUpdate(w) ==
    LET c == task[w]
    IN /\ c.pc = "read"
       /\ IF Stored(c.id) /\ session[c.id].tab = c.tab
          THEN task' = [task EXCEPT ![w].pc = "update", ![w].seen = session[c.id]] ELSE EndCall(w)
       /\ Nothing /\ UNCHANGED panel
WriteUpdate(w) ==
    /\ task[w].pc = "update"
    /\ Write(task[w].id, task[w].seen)
    /\ EndCall(w) /\ UNCHANGED panel
MarkSourceUnavailable(w) ==
    /\ task[w].pc = "unavailable"
    /\ Write(task[w].id, [task[w].seen EXCEPT !.available = FALSE])
    /\ EndCall(w) /\ UNCHANGED panel

Proceed(w) ==
    \/ /\ \/ CurrentScombzTab(w) \/ ForSourceTab(w) \/ ReadEntry(w) \/ ReadStoredSessions(w) \/ Probe(w) \/ ClearTab(w)
          \/ StatusFound(w) \/ AnswerStatus(w) \/ Activate(w) \/ Focus(w) \/ RequestPageContext(w)
          \/ FocusExisting(w) \/ Refocus(w) \/ WriteNew(w) \/ WriteOpened(w) \/ AnswerOpen(w)
          \/ ReadForUpdate(w) \/ WriteUpdate(w) \/ MarkSourceUnavailable(w)
       /\ UNCHANGED <<view, tab, calls>>
    \/ CreateTab(w) \/ ShowTab(w)

WorkspaceNext ==
    \/ \E w \in Workers :
          \/ Proceed(w)
          \/ \E p \in Panels : Mount(w, p) \/ OpenWorkspace(w, p)
          \/ \E t \in Tabs : UpdateSession(w, t) \/ CloseTab(w, t)
          \/ \E s \in Sources : LeaveSource(w, s)
    \/ \E t \in Tabs : Commit(t) \/ Navigate(t)
    \/ \E s \in Sources : ReturnToScombz(s)
    \/ \E p \in Panels : Unmount(p)
    \/ Suspend

WorkspaceSpec == WorkspaceInit /\ [][WorkspaceNext]_workspaceVars

-----------------------------------------------------------------------------
(* Properties *)

\* A workspace tab keeps its source: the page it shows finds the session it was
\* opened for, the source tab of a stored session never changes, and a source
\* tab leads to a session of its own (architecture.md:76), however calls
\* interleave and whenever the worker stops.
WorkspaceKeepsSource ==
    /\ \A t \in Tabs : tab[t].id # 0 => Stored(tab[t].id)
    /\ \A s \in Sources : index[s] # 0 => session[index[s]].source = s
    /\ \A i \in EntryIds : Stored(i) => index[session[i].source] # 0

\* While a workspace tab is open the side panels are read-only (architecture.md:78).
AtRest == task = [w \in Workers |-> Resting] /\ \A t \in Tabs : tab[t].shows # "loading"
PanelReadOnly ==
    AtRest => \A t \in Tabs, p \in Panels : tab[t].shows = "workspace" /\ panel[p].mounted => panel[p].active
=============================================================================
