# SIT ORBIT: TLA+ models and proofs

SIT ORBIT is a campus agent: a Chrome extension (`src/apps/extension`) that talks
to a FastAPI service (`src/services/api`), which talks to a language model.  The
model asks for tools, most of which read pages in the student's own browser; the
extension answers; the service resumes the model.  Proposals need the student's
approval and, for the library, a preview of the official page and a second
confirmation.

This directory holds TLA+ models of the parts where that goes through several
steps and several actors, the TLC configurations that check them, and TLAPS proofs.

## How to run it

    tlasany M.tla                        parse a module
    tlc -workers 2 -config C.cfg M       one run (PROJECT.json lists module and cfg)
    tlapm M_proofs.tla                   the proofs of a module

## The system

Lines of the form `file:line` are below `src/`.

| part | state it keeps | operations | talks to |
| --- | --- | --- | --- |
| agent run store and service (`services/api/orbit_api/agent/runs.py`) | active runs, tombstones of closed ones, a clock | start, claim, continue, complete, fail, sweep, clear | provider backend, action store |
| action store (`agent/actions.py`) | active proposals in order, tombstones, receipts | register, complete, expire, evict, clear | called by the run service and the completion endpoint |
| chat runs (`agent/chat.py`) | runs with their checkpoint (calls, catalog, discovered tools, opaque references, fingerprints), tombstones, receipts by run | start, submit tool result, continue, complete, fail, sweep | provider backend (`pydantic_ai_backend.py`) |
| background chat runs (`agent/chat.py`, second half) | tasks with timers, progress events, one shared `asyncio.Event` per run, a capped map of expired ids | start, emit, status, event stream, sweep, clear | the chat run service, HTTP clients |
| provider backend (`agent/pydantic_ai_backend.py`) | what one model turn uses: budget, OPAC and web-search state | first execution, resumption, canonical drafts | Azure or a fixture, the OPAC gateway |
| OPAC gateway, book discovery, web search | a cache, a request lock, the upstream session | search, read, discover | the library's catalogue |
| session tokens (`auth.py`) | token digests and expiries | issue, verify, prune | the HTTP application |
| chat runner (`apps/extension/src/chat/chat-runner.ts`) | calls seen, results cached, receipts, the run id | run: start, execute tool, submit, abort | API client, tool executor |
| chat panel and history (`chat/ChatPanel.tsx`, `chat/chat-history.ts`) | the conversation shown, the list, the controller of the current turn; IndexedDB | send, stop, select, new, delete, delete all, decide | runner, service worker, the other page through IndexedDB |
| alias gateway (`privacy/conversation-pseudonymization.ts`) | the mapping of one conversation, its key, pending writes | begin, transform, restore, clear | IndexedDB, `chrome.storage.session` |
| workspace controller (`background/workspace-controller.ts`) | one session entry: source tab, workspace tab, stable state | open, status, update, release, mark | side panel and full page, by messages |
| service worker, library actions (`background/service-worker.ts`) | previews, references with expiry | options, preview, submit | the official page in a tab |
| service worker, ScombZ (`scombz-tab-session.ts` and handlers) | the tab each conversation is pinned to | pin, read, invalidate | content scripts |
| agent sign-in (`auth/managed-agent-auth.ts`) | session token and expiry | authorize, exchange, refresh after 401 | Chrome Identity, the API |
| career vault (`privacy/career-vault.ts`) | encrypted records, a probe, a key that locks when idle | create, unlock, lock, put, get, destroy | IndexedDB, a timer |
| audit bridge (`audit/audit-bridge.ts`) | a socket, its challenge, sequence numbers | connect, verify, dispatch, reconnect | a local command line tool |
| Google connectors (`connectors/google-*.ts`) | the Drive files selected, one token | events of a window, select, read, deselect | Google, session storage |
| CAST search and career search (`content/cast-*.ts`) | the cursors of one page load | search, go on, read several surfaces | the career system, the service worker |
| library references and lists (`background/service-worker.ts`, `content/my-library-reader.ts`) | what each reference stands for, until it expires | list, search, options, visit | official pages, the panel |
| readers of the student's pages (`background/sitrus-api.ts`, `content/*-reader.ts`) | none between calls | read a page, project it | official sites, the API client's validators |
| tool arguments (`agent/pydantic_ai_backend.py`, `chat/tool-registry.ts`, `shared/messages.ts`) | none | check and normalize a call | service, panel, worker |
| missions (`privacy/application-mission.ts`) | one record per mission | events that move it on | the career vault |

Hard behaviours, by part (`hazards` in `PROJECT.json` has each at its line):

* **service**: every handler awaits the provider between claiming a run and
  finishing it; meanwhile the run expires, another request answers the same call,
  or the process restarts and forgets everything.  Expiry is lazy: it happens in
  the next call.  Two layers validate each model request against their own copy
  of the chain.
* **background runs**: several streams wait on one event that each of them
  clears; a task ends by itself, by its timer or by a sweep.
* **runner**: requests and responses are lost; the student aborts at any await.
* **panel**: every handler works on the copy of the conversation it saw when it
  began and writes it back whole; two pages share the store.
* **library**: the page is looked at several times with awaits in between, and
  the one irreversible step is in the middle.
* **reads of official sites**: a tab shows the old page for a while after a form was
  sent; pages fill in after they are loaded; sessions end and lists change between two
  requests of one read.
* **stores of the extension**: read, await, write the whole entry back, from several
  pages and calls at once; the service worker is stopped at any await.
* **chains of checks**: a tool call or an answer passes several validators in two
  languages, each with bounds of its own.

What makes each part correct, in a sentence: an answer reaches the model at most
once; a proposal exists only for a completed run; a receipt does not change; what
is proposed rests on evidence of the same run; every run and stream ends; the
runner refuses nothing the service allows and ends every turn; messages stay in
their conversation; no form is posted to the library but one of a preview the student saw,
by one request at a time and by none once the preview is consumed, and none is reported as
verified without a look at the library's list; what a read returns is about what was asked for and
is called complete only if it is; what one part returns the next one accepts.

## The modules

| module | models | with |
| --- | --- | --- |
| `Dict` | Python dicts and JavaScript Maps as functions | |
| `Lists` | what the code does to lists: it filters them, drops what is there already, cuts them | |
| `RunStore` | `RunStore` of `runs.py` under any caller | |
| `ActionStore` | `ActionStore` of `actions.py` | `Lists` |
| `AgentRuns` | the agent-run service: concurrent `submit_tool_result` handlers, each split at its await of the provider | `RunStore`, `ActionStore` |
| `ResumeOnce` | the promise of both services, abstractly: a run waits, is taken, and ends or waits for a new answer | |
| `ChatRuns` | `ChatRunStore`, `ChatRunService` and the gates `_chat_execution` / `resume_chat` of the backend | |
| `ChatBackground` | background chat runs, progress streams and tombstones | |
| `ChatTurn` | `ChatRunner.run` and its HTTP requests | `ChatRuns` |
| `Conversations` | `ChatPanel` and `chat-history` on two pages over one store | |
| `PanelTurn` | what one turn of the panel offers, how each tool is answered, scope and history of the conversation | |
| `ToolCalls` | the arguments of a tool call through the four places that check them | |
| `LibraryPreview` | the preview and submission of a library action, the official page being the environment | |
| `LibraryRefs` | references of records and rows, My Library's lists and both copies of their readers, options, visits | `Lists` |
| `CatalogPages` | the readers of catalogue and discovery pages and the client's check of what they return | `Lists` |
| `OpacGateway` | the service's catalogue client: cache, request lock, interval, retries, cancellation | |
| `OfficialReads` | reads in background tabs and in the student's Moodle and CAST tabs | |
| `ScombzReads` | the tab a conversation is pinned to, course handles, the material search and its cursor | |
| `StudentPages` | SITRUS grades, Moodle and CAST dashboards, career supporters, and the client's checks | `Lists` |
| `GoogleConnectors` | free time from paged events; the selections of Drive files | |
| `CastSearch`, `CastCareer` | a search of the career system page by page; the search across its surfaces and its ranking | |
| `AliasGateway` | two gateway objects over one encrypted record and one root key, calls of one object that overlap, worker restarts | |
| `CareerVault`, `Missions` | the encrypted vault and its index records; the steps of an application mission | |
| `Workspace` | the full-screen workspace and the lock of the side panels | |
| `SignIn` | managed sign-in, requests that carry the session, first-use setup, the service's session tokens | |
| `AuditBridge` | the extension's end of the audit tool and the tool's | |
| `MCServiceRuns` | several of the above beside each other, see below | `AgentRuns`, `ChatRuns`, `ActionStore` |
| `MCChatPages` | the same | `ChatBackground`, `Conversations` |
| `MCOfficialSites` | the same | `LibraryPreview`, `OpacGateway`, `Conversations`, `OfficialReads`, `ScombzReads` |
| `MCConnectors` | the same | `AuditBridge`, `PanelTurn`, and instances of the eight modules of readers, connectors and arguments |
| `MCExtension` | the same | `MCConnectors`, `Missions`, `CareerVault`, `Workspace`, `SignIn` |
| `MCFinalButton` | one preview of one title | `LibraryPreview` |
| `AgentRuns_proofs` | proofs | `RunStore`, `AgentRuns`, `ActionStore` |
| `ChatRuns_proofs`, `ChatTurn_proofs` | proofs | `ChatRuns`, `ChatTurn` |
| `ChatPages_proofs` | proofs | `ChatBackground`, `Conversations` |
| `ExtensionStores_proofs` | proofs | `Missions`, `CareerVault`, `Workspace`, `SignIn` |
| `OfficialSites_proofs` | proofs | `LibraryPreview`, `OpacGateway`, `OfficialReads`, `ScombzReads` |
| `Connectors_proofs` | proofs | `AuditBridge`, `PanelTurn`; `CatalogPages`, `StudentPages` and the lists of `LibraryRefs`, as `MCConnectors` has them |
| `Readers_proofs` | proofs | `LibraryRefs`, `CastSearch`, `CastCareer`, `ToolCalls`, `GoogleConnectors`, as `MCConnectors` has them |

State corresponds variable by variable: `active`/`closed` are `_active`/`_closed`,
`waiting` is what a suspended coroutine holds in its local variables, `turn` holds
the local variables of `ChatRunner.run`, `page[p].controller` is
`abortControllerRef`, `preview`/`kept` are the preview objects and the map that
finds them, `cursors` is `cursorPages`, `queue` is `_upstream_lock`, `public` and
`personal` are the two maps of library references, `stored`/`selections` are a store's
entry and the memory read from it.  Variables marked `history` exist in no code; they
record what a property talks about.  An action is one stretch of code between two awaits
(JavaScript, asyncio) and includes the lazy sweep that every store method starts
with.  `PROJECT.json` maps each definition to its lines.

Readers of pages are operators: a page is a record of what a reader can tell apart in it
(which table is shown, which labels a row has, whether a cell is hidden, empty or says a
word), and the operator is the whole function, with the order in which it looks and every
way in which it gives up.  Texts are classes: `ToolCalls` has seven kinds of value for an
argument, and dates, names and numbers are there where a guard compares them.

An operator under a comment `fault:` is not part of the model.  It varies the
definition after it the way a plausible bug would, and is what that definition is
replaced by to see that a property notices.

## What the runs show

Components that share no state are checked in one run by a module that extends (or
instantiates) each of them and adds a variable `part`, chosen at the start: a behaviour is
about one part and the others stay as they are.  The properties are those the components
define, so that what a run checks is what a theorem states.  The state space is the sum of
the parts, not their product; each part is a run of its own in all but name.  Where the
code does compose components, a model does: `AgentRuns` runs both stores, `ChatTurn` runs
`ChatRuns`.

| run | parts and bounds | shows |
| --- | --- | --- |
| `service_runs` | agent: 2 runs, 2 tools, 2 call ids, 2 handlers, room for 1 of 2 actions, TTL 2, clock to 3. chat: 1 run, 2 handlers, chains of 3 calls, 1 reference. actions: 3 ids, room for 2, clock to 4 | `FreshCall`: no tool or call id is asked twice in a chain. `NoLateProgress`: past its deadline a run only expires. `NoOrphanClaim`: an in-flight run has its handler. `ProposalOfCompletedRun`. `ResumesOnce`, `ChatResumesOnce`: both services implement `ResumeOnce`. `BudgetKept`, `OperationBacked`, `ReceiptOfClaimant` of chat chains. `ActionsHeld`: register, evict and expire keep the cap and one home per id |
| `chat_pages` | panel: 2 pages, 3 conversations, 1 message with 1 tool, writes that fail. background: 2 runs, 1 stream, 1 event, room for 1 tombstone | `OneReply`: a question has one reply in every copy. `BusyEnds`: a page becomes free. `NoLostWakeup`, `BackgroundEnds`, `AnswersMoveForward`: a stream that sleeps has nothing unseen, runs and streams end without another request, a client that polls never sees a run go back |
| `chat_turn` | 1 run, 2 calls, a lossy connection | `NoFalseRefusal`, `ReadsAreFresh`, `DoneMeansDone`, `TurnEnds` |
| `official_sites` | reservation: 1 preview, 3 requests, a title of two parts and an earlier reservation of one of them or of another title, clock past the TTL. reads: 2 readers, 2 reads. ScombZ: 2 tabs, 1 conversation, files with 1 and 3 hits, 3 loads. turns: 2 pages, 2 conversations, 2 messages. opac: 3 calls, 2 searches, 1 record, interval 2, a cache of 1, clock to 6 | `SubmittingIsHeld`, `ConsumedIsFinal`, `VerifiedMeansReserved` of the form; `ReadsAsAsked`: a read answers what it was asked for (`AnswersItsTarget`), and the hits of a material search are of one generation of the pinned page (`OnePage`); `AbortedStaySilent`: a stopped turn changes nothing any more; `AskedInTurn`: pages start an interval apart, a search asks for nothing the cache has, no answer is older than its kind may be |
| `extension` | ten parts of `MCConnectors`, with its pages and lists: calendar, drive, cast, career, audit, panel, calls (1 argument that is not what it should be), refs (3 lists read, pages shown or requests made and 1 change), catalogue, student. four stores. missions: 2. vault: 3 records, an index of 2, 2 callers, 3 calls, 2 vaults. workspace: 2 source tabs, 1 panel, 2 calls at once of 4, 2 workspace tabs, stops. sign-in: 2 pages, 2 requests, 2 sessions | `GoogleAsRead`: free minutes are free, and a file is shown as read after it was. `NothingLeftOut`: a list read to its end has every row once. `CareerAsRead`: complete means that every read went well. `OneSource` of an audit conversation. `ScopeHeld`: private results raise the scope before they are sent, private history stays. `ArgumentsAgree`: a call the service lets through is not lost or widened later. `OptionsOfTheOneShown`: an answer is about what the reference was shown for. `TestedAsRun`: what the readers in the page read, the ones the tests exercise read too. `ResultsAccepted`: what a reader returns passes the client, with the exceptions it names. `HoldingsOfRow`: a record has what its own row says. `StepsInOrder`. `CreatedIsListed`: a created record is stored under the current key, and listed until the index is full of later ones. `WorkspaceKeepsSource`. `OneEffect`: a request takes effect at most once, and not after it was stopped |

Where the code does not keep a promise in every case, the property says in which it does.
`ReadsAsAsked` speaks of the reads that wait for an address, `NothingLeftOut` of one search
of a list that did not change meanwhile, and `ArgumentsAgree` of agreement between service and
extension for the library's tools only.  `OptionsOfTheOneShown` has two halves: an answer is
about the only thing shown under the reference since the worker last forgot it, and, whatever
was forgotten, if the address of a record came with the request, about that record, unless
the reference stands for a row.  `TestedAsRun` goes one way, for pages whose rows have no
field under two headings, and does not speak of the renewal control: of more pages the tested
readers read something.  `ResultsAccepted` says of the catalogue that an answer passes the client
exactly if no publisher is too long, no due date is other than a date and no count is too high,
and that publishers are too long on the page of a record only; of all other answers, that they
pass.  `VerifiedMeansReserved` speaks of a title that is the expected one, contains it or is
contained in it, since that is what the code looks for.  "Disagreements" has the other cases.

Bounds.  Two actors are enough for every race the code has: each race is between
one handler at an await and one other step.  Three library requests let one hold
the preview, one be refused and one find it consumed or overdue; three calls of the
catalogue let one hold the lock, one wait and one find the cache filled.  Clocks go past
one TTL, and in the stores past the expiry of a tombstone too, so that both
boundaries are met; a TTL of 2 has an instant before, at and after the deadline.
Chains of three calls have a first, a middle and a last generation; the agent runs have
the first and the last, and what their chains promise is proved for every length.  One
stream is enough: `set()` resolves the future of every waiting stream and `clear()` takes
no wakeup back, so two streams of one run never disturb each other.  Lists are one longer
than the cap they meet (`MaxRows`, `MaxHoldings`, `MaxItems`, `PageSize` are 1 to 3 where the
code has 10 to 1000; a page of the catalogue has three rows, one of them with three cells):
below, at and above the cap all happen, and nothing else depends on the number.  What a
reader keeps and what a validator accepts are constants of their own, and stand to each other
as the code's numbers do: publishers are cut at 2 and 5 and accepted up to 3 where the code
has 200 (`service-worker.ts:1094`), 500 (`:1252`) and 300 (`client.ts:1027`), and where both
sides have one number both constants do.  Three uses of references
let two things be shown under one before it is asked about, and one change lets the worker
restart or the reference expire between any two of them.  Three records and an index of two
let a record be listed, be the oldest, and be dropped.  The sites in `MCConnectors` are chosen
so that every branch of every reader is taken: hidden and doubled rows, empty cells, missing
labels, overlong lists, unlike tables before the right one, login pages, other pages.
`StartPages` are what a list shows at the start, the other `ListPages` what it may change to.  Symmetry is used only in runs without liveness, over identifiers that are
only compared.

Runs that find a violation (`findings` in `PROJECT.json` quotes the text):

| run | what the code does |
| --- | --- |
| `chat_provenance` | reading a record changes the recorded producer of its reference, and the store then refuses the next request the catalog prescribes (`pydantic_ai_backend.py:3304`) |
| `conv_running_tool` | a running tool is stored if the student stops the turn and sends again (`ChatPanel.tsx:1598`) |
| `conv_deleted` | a deleted conversation is stored again by a handler or page that holds a copy (`chat-history.ts:482`) |
| `library_final_button` | the posting script expects another host than the reading one and refuses every post (`service-worker.ts:3027`) |
| `alias_restart` | aliases made before a restart of the worker are stored again under the key made after it, when two calls of the panel's gateway overlap (`conversation-pseudonymization.ts:1138`); 1 conversation, 1 person, 2 calls of the panel and 1 of the worker, 1 restart |
| `audit_first_command` | the first command of a connection the tool was told is ready may close it, as the extension is still checking the proof (`audit-bridge.ts:765`) |
| `unavailable_is_said` | a holding whose cell says "unavailable" is shown as available (`service-worker.ts:865`) |

Because of `library_final_button` a post happens in the model only when the page is
on the host that the posting script names; what follows the post is checked from there.

Deadlock checking is off where the modelled system may stop for good: after one
turn (`ChatTurn`), when all messages are sent (`Conversations`), when all requests,
reads or calls are answered (`LibraryPreview`, `AliasGateway` and the parts of
`MCOfficialSites` and `MCExtension`).

## Fairness

* `ChatBackground`: weak fairness of the clock, the run's timer, the delivery of a
  cancellation, and the steps of a stream.  All are callbacks of one event loop,
  which runs what is ready.  The task itself is not assumed to make progress: a
  provider may hang, and the timer must end the run then.
* `ChatTurn`: weak fairness of a step of the runner and of the service.  The
  provider client, the API client and the readers have timeouts, so an await ends
  in an answer or an error.  Delivery of a message is not fair: it may be lost.
* `Conversations`: weak fairness of each turn and of the handlers of each page,
  for the same reason.  Nothing is assumed of the student.

`MCChatPages` states the fairness of each of its two parts only where that part runs.  The
other modules have safety properties only: what would have to end there waits for the
student, for a browser tab or for a site, and the code bounds such a wait with a timeout
that the model takes as an outcome of the wait.

## What is proved

Every safety property the passing runs check is a theorem; so are both refinements and the action properties.  The theorems hold for every value of the
constants: any number of runs, tools, handlers, records, pages and commands, any TTL and any
cap.  What is read of pages is an exception: the library's records, references and lists, the
pages of the catalogue and of the student's own, and the caps of their readers are definitions
of `MCConnectors`, and `AnswersOfTheOneShown`, `HoldingsAreOfTheRow`, `AnswersAreTaken` and half
of `EveryListIsWhole` speak of those, in every order of steps (the lemmas about lists that
they rest on, of any list); and the calendar of `GoogleReadsTrue` is at the start one of the
calendars of `MCConnectors`.  What the theorems assume of the constants is in the named
assumptions of the modules: TTLs and caps are positive, bounds and intervals are natural
numbers; `ConversationsAssumption` and `ScombzAssumption` also say which model values
differ; `ClientToolCallsAssumption` that the runner's limit of calls is no lower than the
service's (both are 8, `chat-runner.ts:162`, `chat.py:85`); `CastAssumption` that the most
a career search returns is a whole number of pages (1000 and 10, `cast-search-api.ts:211`,
`:209`); `CareerAssumption` that companies are finitely many;
`CalendarAssumption` that the window of the calendar does not end before it begins.  TLC evaluates each of them in a
run.  `PROJECT.json` lists the theorems.

**`AgentRuns_proofs`: the stores of the service.**  `StoreTypeCorrect`, `StoreOneHome`,
`StoreFreshCall`, `StoreNeverRevived`, `StoreDeadlineFixed` and `StoreNoLateProgress` hold
of the run store under any caller.  The inductive invariant `StoreInv` adds to the types
that active and closed runs are disjoint and were issued, and that the pending call is not
among the used ones: freshness alone is not inductive because the next generation checks
against the used sets and not against history.  `SingleClaimant`, `ClaimsHaveOwners`,
`ResumedAtMostOnce`, `ProposalsSettled` and `Refinement` (`Spec => ResumesOnce`) hold of the
service: every step of it is a step of the store (`StoreStep`), so `StoreInv` carries over,
and `ServiceInv` ties each waiting handler to the run and generation it claimed.  The
refinement maps a run to waiting, taken or ended; each action is a step of the promise or a
stutter.  `RecordsHeld` says of the action store what `ActionsHeld` does.  Its dicts are in
order and a sweep or an eviction chooses from them (`Chosen` of `Lists`, a recursive function);
what a choice keeps is proved by induction over its length, with `UpTo` in the place of the
library's induction theorem.

**`ChatRuns_proofs`: chains of tool calls.**  `ChatBudget`, `ChatOperations`, `ChatReceipts`
and `ChatRefinement` (`ChatSpec => ChatResumesOnce`), for any number of handlers and every
budget.  A handler works on the checkpoint it claimed while the store may drop the run, so
`ChatInv` says where the chain stands twice: while the run waits for the client
(`Suspended`), and while a handler awaits the provider (`Awaited`).

**`ChatTurn_proofs`: the runner and the service.**  `RunnerAgrees` (`NoFalseRefusal`),
`RunnerReadsAnew` (`ReadsAreFresh`), `TurnDone` (`DoneMeansDone`), for a connection that
loses any message.  Each step is one of the service or leaves it alone (`TurnKeepsToChat`),
so `ChatInv` holds here.  `TurnInv` has, for every point of the turn, which message is under
way, where the chain of the run stands then, and that what the service remembers of it
covers what the runner does.

**`ChatPages_proofs`: background runs, and the panel's pages.**  `WakeupsKept`
(`NoLostWakeup`) and `StatusMovesForward` (`AnswersMoveForward`): `BackgroundInv` ties the
map, the tombstones and the tasks to each other (`MapAgrees`), a stream to the events it has
not shown (`Behind`), and all of it to what a client was told (`ToldSo`).  `RepliedOnce`
(`OneReply`) and `StoppedStaySilent` (`AbortedStaySilent`): logs are copied between the
store, two pages, the turns and the handlers that wait; `AllIn(S)` says that every copy is
in `S` and `Admits(S)` that `S` has what a step makes of them, and one lemma (`PagesKeep`)
then serves both, with the logs that have one reply to a turn, and with those that have none
of a turn that was stopped.

**`ExtensionStores_proofs`: what the extension keeps.**  `StepsAreInOrder` and
`EndedMissionsStay` of missions: the stored step is the boundary between completed steps and
pending ones.  `CreatedStaysListed` (`CreatedIsListed`) of the vault, for an index of any
length: a record is listed until as many later ones were created as the index keeps.  The
place of a record in the index is no higher than one more than the number of records created
after it; mutations take turns (`OneTurn`), and what one has seen of the index has every record
that was created at such a place (`MutationHolds`).  `SourcesKept` (`WorkspaceKeepsSource`) of the workspace: whole
entries are written back after an await, and keep their source because every call that is
about to write holds a snapshot with the source of its entry (`CallHolds`).  `EffectsOnce`
(`OneEffect`) and `SetupHasSession` of sign-in: a request has taken effect exactly if it is
answered, which is what the retry after a refusal rests on.

**`OfficialSites_proofs`: pages of other systems.**  `OneSubmitter`, `VerifiedIsTrue` and
`ConsumedNeverPosted` of the library's form, whatever the student and the site do to the
tabs and whatever titles contain each other.  `SubmittingIsHeld` speaks of the previews that are kept, but a request goes on with a
preview object whose entry has expired and may still post it; `PreviewInv` therefore says of
every preview object that it has at most one holder and is marked while it has one
(`Exclusive`).  `CallsTakeTurns`, `SleepsLongEnough`, `PagesStartApart` and
`AskedAndAnsweredInTurn` (`AskedInTurn`) of the catalogue client: how long to sleep is
computed before the sleep, and what the cache lacks is found before the request, so
`TurnInv` and `AnswerInv` have the lock in them: the queue has every call under way once, and
whoever is past it is its head.  `ReadsAnswered` (`ReadsAsAsked`) of the reads: once a page
other than the entry page is complete in the tab of a read, no navigation is outstanding
there (`OnItsWay`); hits are of the generation that is pinned, or that the call found pinned
(`SamePage`).

**`Connectors_proofs`: the audit tool, a turn of the panel, and answers about pages.**  `HistoryOfOneSource`
(`OneSource`): a chat adds its turn to a state object it took long before; `AuditInv` says of
every object, current or not, that its turns are about its source, that a chat holds an
object of its own source, and that a command begins once.  `ScopeKept` (`ScopeHeld`): of the
three copies of the conversation that a turn has, each remembers what earlier turns were
answered from (`Sound`), and the one the tools change also what this turn gave to the service
(`Remembers`); a merge of scopes loses nothing (`Merged`).  `HoldingsAreOfTheRow`
(`HoldingsOfRow`) and `AnswersAreTaken` (`ResultsAccepted`) are about what the readers make of
a page.  They filter, drop doubles and cut, and these are recursive functions over lists, so
first, for every list: what is chosen is the elements at the chosen places, in order
(`ChosenFacts`), what is left without doubles has the same elements (`OnceHas`), what is cut is
no longer than the cap (`FirstHas`), and lists that are joined have the elements of each
(`FlatIsList`).  Then, of the catalogue: a record has what the cells of its row say
(`ParsedHas`), a search gives each record the row it is from (`RecordOfItsRow`), and the
record's own page is read into a record too (`CurrentIsRead`); an answer stays true while more
cells are filled in, since none is given while one is waited for (`RowSaysAll`, `AnswerStays`).  An answer of
the catalogue fails the client in three ways only, which the property names: on the page of a
list publishers are cut below what is accepted, and of what the reader cuts to a number the
validator accepts as many.  Of My Library and the student's pages: an answer has the fields, the counts and the lengths the panel asks for
(`ReadListTaken`, `GradesTaken`, `MoodleTaken`, `CastTaken`, `AlumniTaken`), and a read that
fails says nothing (`FailureTaken`).

**`Readers_proofs`: references, lists and searches.**  `AnswersOfTheOneShown`
(`OptionsOfTheOneShown`): `RefInv` says that what was shown under a reference since the worker
last forgot it is what the maps have under it (`Understood`), and that a request under way is about
the one thing that was so when it began, and about the record whose address came with it or a
row (`Addressed`); a page of records, and one of rows, never gives a
reference another meaning (`ShownKeeps`, `RowsRemembered`).  `EveryListIsWhole`
(`NothingLeftOut`): a caller has the first results, up to the page its cursor stands for
(`HasFirst`), and a search under way has what follows them (`Reading`); the cap never cuts a
page (`RoomForAPage`), which is where `CastAssumption` is needed.  `CareerSearchIsTrue`
(`CareerAsRead`): of every surface of which a read failed the last result does not say
"known" (`ReadsTold`); the answer is made from the last result of a surface while
`replaceSurfaceResult` replaces the first one, so the invariant has that a surface is listed
twice only if its last result is not "known" (`Doubled`), and that what is read later is not
listed yet (`Pending`).  `CallsAgree` (`ArgumentsAgree`), for any number of arguments that are
not what they should be: a call has the provider's arguments up to the panel and the panel's
message after it (`CallInv`); tool by tool, what the service lets through of the library's
tools the panel and the worker do (`LibraryServed`), and the message of a call that was let
through is known (`MessagesKnown`).  `GoogleReadsTrue` (`GoogleAsRead`): merging leaves
intervals that lie apart and take the same minutes (`MergedCovers`, over each turn of the
loop), the gaps between such intervals are the minutes they leave, and their lengths add up to
them (`GapsFill`); so what a snapshot says is true of the events it read (`SnapshotIsFree`).  A
fetch has the first events of the calendar, and the answer is known only if it had them all and
none was left out (`CalendarInv`).  Of the files, the store, the loaded selection and every
call under way have "read" only of files that were read (`DriveInv`).  `TestsSayTrue`
(`TestedAsRun`): of any page of a list that the worker's readers read, the first marked table
is the first marked one with the columns too, and the tested readers make the same of its rows
where no field stands under two headings (`RowsTested`); so of the dashboards
(`DashboardsTested`).

Model-checked only: every liveness property (`BusyEnds`, `BackgroundEnds`, `TurnEnds`), since
fairness is out of the prover's reach.

## Disagreements

Places where two parts of the code, or the code and its comments, do not agree, met while
modelling.  Those with a run are above; the others are in the models as they are in the
code, and the properties are stated around them.

* Tool arguments: the service lets calls of the two CAST searches through without a limit
  or with null filters (`pydantic_ai_backend.py:1412`, `:1897`), the worker's guards refuse
  them (`cast-search-api.ts:291`, `cast-career-source-runtime.ts:471`) and the turn ends
  (`CastCallsServed` of `ToolCalls` fails).  More than five course references and long
  ScombZ queries pass the service and not the registry; a null limit passes the registry
  and not the panel.
* Answers the client refuses: a partial career search (`client.ts:2148`, against
  `cast-career-source-runtime.ts:355`), a search of more than 1000 rows, an exhaustive
  search of a list that shrank, a loan history with one item twice on a page.
* Counts: an exhaustive search reports one page fewer than it read; of the grades those
  with an unknown mark are left out and the rest is cut at 200 while the answer is called
  known; a page of supporters counts wrapper elements as people; a dashboard whose
  timeline is not loaded reads as empty.
* Two copies of one rule, in the worker's reader of My Library and in the tested one: the first
  marks a table by its name and then requires its columns (`service-worker.ts:5084`), the second
  looks for the first marked table that has them (`my-library-reader.ts:329`); a field under two
  headings, the first of them with a hidden value, is missing for the first
  (`service-worker.ts:4876`) and read by the second (`my-library-reader.ts:272`); a renewal
  control that is hidden counts in the first only.  Also: the word "unavailable" in the worker's and the service's
  status rules; the tests exercise extractors that production does not run.
* References of the library: an address that comes with a request is compared with the record
  that has the reference and not with a row (`service-worker.ts:4074`), so that a record's
  address sent with the reference of a row yields the options of the row; after a restart a
  reference that was shown again for another thing is resolved to that one when no address
  comes with it, against `docs/architecture.md:283`, which says that a reference is not
  resolved after a restart that lost what it stands for; an identifier read from a column is
  not found by the options reader.
* The catalogue: a year anywhere in a row becomes its year; a record's campus is looked for
  in the whole page; a record page without a table takes the cells of the document.  What the
  reader passes and the client refuses: a publisher of 301 to 500 characters from a record's
  page (`service-worker.ts:1252`, `client.ts:1027`), what looks like a due date and is not one,
  and more than 10,000 reservations (`service-worker.ts:870`, `client.ts:973`).
* The library's form: another or an earlier reservation whose title contains the expected one,
  or is contained in it, verifies the reservation (`service-worker.ts:3903`).  A preview whose
  post was made and whose result was lost is pending again, and its form may be posted again.
* Turns: a turn that fails loses the scope it raised; the capabilities are asked for before
  the turn and not again; when they cannot be read, the message goes to the Azure backend as
  it was typed (`ChatPanel.tsx:2838`); a decision taken while a turn runs is lost
  when the turn stores its copy (`ChatPanel.tsx:2513`); the buttons for decisions and
  deletions do not look at the lock of the side panel (`ChatPanel.tsx:3347`).
* Material search: one that reaches its 24th hit in the middle of the last file answers
  `known` with no cursor though the rest of the file is left out
  (`scombz-student-reader.ts:919` looks at later files only), and forgets pages that need OCR.
* Service: a completion receipt can be evicted before its TTL when the store is full
  (`actions.py:148`, against the comment at 57).  Reads of the catalogue do not look into
  the cache again once they have the lock (`opac_gateway.py:1121`), so that queued equal
  reads each ask the site.
* Stores: a full index of the evidence bank or of the missions drops its oldest entry while the
  record stays stored (`career-evidence-bank.ts:207`, `application-mission.ts:535`); a vault whose
  creation was cut short between metadata and probe cannot be opened; an entry of the
  workspace written before its navigation commits loses its tab to a status call.
* Audit tool: a late `ready` leaves the connection counted as such; a chat outlives its
  connection and answers on the next.
* Reads: a discovery search uses the wait that may still see the old page; tabs opened for
  a My Library login stay; the page may change between the check of the library's form and
  its post (`service-worker.ts:3826`).

## What is left out

Within the modelled parts: wording, logging, progress texts, schema validation
beyond what gates a step, copies at boundaries (records are values), evidence
merging.  `ChatRuns` has three library tools for the whole catalog and no
bookkeeping of unused search tools.  `ChatTurn` takes any set of advertised tools
and any result of a tool; `PanelTurn` and `ToolCalls` have what decides both.  In
`Conversations` a store operation takes effect when it is issued, any stored
conversation may be the latest, a page has one history operation at a time under way, the
side panel is never closed, and the lock is seen at once; the memory fallback and the
deletion of ineligible SITRUS conversations are left out.  In `LibraryPreview` the
preparation of a preview is one step, and a title is the set of its parts.  The alias gateway's
expiry after thirty minutes acts like a deletion and is left out; which text is a name, and
what the messages made of the aliases, are not modelled.  `GoogleConnectors` models Drive with a provider of selections, which the
constructor accepts and production does not pass yet.  `OpacGateway` and `OfficialReads`
reduce what a page says to outcomes, `CatalogPages` and `StudentPages` have the rest.

Not modelled at all, with the reason in `PROJECT.json` under `components`: book discovery
and web search (one request, no state between calls), the syllabus and floor map builders,
schemas, static tables, tracing; the thin web and mobile clients; generated, vendored and
build code.

## Plan

Done: the service's stores and their proofs, the chat runs and turns, the panel, the
library's preview, references, pages and gateway, the extension's stores, sign-in, the
readers and connectors, the searches of the career system, the audit tool.

To prove next: what holds of the pages of `MCConnectors`, of any pages and caps (`HoldingsOfRow`,
`ResultsAccepted`, `OptionsOfTheOneShown`).

To model next: the budget and reuse rules of `ChatOpacState`; the validators of ScombZ and
calendar answers; the consent dialogs; the decision room of the career pages.
