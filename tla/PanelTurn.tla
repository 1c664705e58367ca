----------------------------- MODULE PanelTurn -----------------------------
(***************************************************************************)
(* What one turn of the chat panel takes from the student's sources and    *)
(* gives to the service (apps/extension/src/chat/ChatPanel.tsx with        *)
(* tool-registry.ts, chat-history.ts and the worker's authentication       *)
(* preflight): which tools it offers, how each of them is answered, and    *)
(* what the conversation remembers about it - its processing scope,        *)
(* whether its history may be sent again, and of each message whether it   *)
(* has a form made for the provider.                                       *)
(*                                                                         *)
(* The order of the calls of a run is in ChatTurn, two pages storing one   *)
(* conversation in Conversations, the aliases in AliasGateway.  Here is    *)
(* one page, one conversation, and the service client the panel is built   *)
(* with, which has chatCapabilities.  Messages are kinds; a conversation   *)
(* has the kinds of message it has.                                        *)
(***************************************************************************)
EXTENDS Naturals, FiniteSets

CONSTANTS
    OpenSites,  \* the sets of sites the student may be signed in to, see Sites
    MaxTurns, MaxCalls  \* bounds on turns, and on tool calls of a turn (model checking only)

VARIABLES
    backend,    \* the service: azure or local, and whether it accepts My Library's personal context
    shownPage,  \* whether the page beside the panel is one of ScombZ
    panelRefs,  \* whether the page remembers the syllabus references it gave in this conversation
    conv,       \* the conversation as stored
    turn,       \* the local variables of send
    given,      \* history: the scopes of the results given to the service in this turn
    sent,       \* history: what startChat sent
    answered    \* history: the scopes given in turns that were answered

panelVars == <<backend, shownPage, panelRefs, conv, turn, given, sent, answered>>

Sites == {"scombz", "cast", "sitrus", "moodle", "my_library"}
NewConversation == [scope |-> "none", eligible |-> TRUE, said |-> {}]
NoTurn == [pc |-> "idle", n |-> 0, calls |-> 0, dest |-> "unknown", server |-> {}, ready |-> {}, user |-> "raw",
           current |-> NewConversation, copy |-> NewConversation, tool |-> "none"]
NothingSent == [user |-> "none", history |-> {}, before |-> {}]

PanelInit ==
    /\ backend \in [kind : {"azure", "local"}, personal : BOOLEAN]
    /\ shownPage \in BOOLEAN
    /\ panelRefs = FALSE
    /\ conv = NewConversation
    /\ turn = NoTurn
    /\ given = {}
    /\ sent = NothingSent
    /\ answered = {}

-----------------------------------------------------------------------------
(* Tools *)

LiveScombz == {"scombz_course_list", "scombz_portal_read", "scombz_course_read", "scombz_material_search"}
PersonalScombz == LiveScombz \union {"scombz_page_summary", "scombz_read"}
CastTools == {"cast_read", "cast_alumni_read", "cast_search", "cast_career_search"}
Public == {"syllabus_search", "syllabus_read", "browser_read_url", "library_catalog_search", "library_item_read",
           "library_catalog_browse", "library_discovery_search", "library_action_options"}
Calendar == {"google_calendar_availability"}
Tools == PersonalScombz \union CastTools \union Public \union Calendar \union {"sitrus_read", "moodle_read", "my_library_read"}
ProviderPseudonymized == PersonalScombz \union {"sitrus_read", "cast_alumni_read"}

OwnTool(site) ==
    CASE site = "sitrus" -> {"sitrus_read"} [] site = "moodle" -> {"moodle_read"}
      [] site = "my_library" -> {"my_library_read"} [] OTHER -> {}
\* handleChatAuthPreflight: the tools of the sites that are open and signed in to.
AuthPreflight(open) ==
    UNION {IF site = "scombz" /\ shownPage THEN LiveScombz ELSE IF site = "cast" THEN CastTools
           ELSE OwnTool(site) : site \in open}
\* advertiseReadOnlyTools
Advertise(local, server) == Tools \intersect local \intersect server
\* clientTools: those of the page beside the panel, a connected calendar, public ones, and those that are ready
ClientTools(server, ready) ==
    Advertise((IF shownPage THEN {"scombz_page_summary", "scombz_read"} ELSE {}) \union Calendar \union Public \union ready,
              server)
\* ChatRunner.run: what only a live mode allows
LiveTools(live) == IF live THEN Tools ELSE Tools \ (LiveScombz \union {"sitrus_read"})
\* validateChatToolArguments: the arguments of a call are those its tool knows, or not.
ValidateArguments == BOOLEAN

-----------------------------------------------------------------------------
(* The answers of the tools: a result that is known (or partly so), one that says it could not be read, or an *)
(* error that ends the turn *)

Answers == {"known", "unavailable", "throws"}

PageSummary == IF shownPage THEN {"known"} ELSE {"throws"}
PageRead == IF shownPage THEN {"known"} ELSE {"throws"}
ScombzStudentRead == Answers
CalendarAvailability == {"known", "throws"}
SyllabusSearch == Answers
SyllabusRead == {"unavailable"} \union (IF panelRefs THEN {"known"} ELSE {})
LibraryCatalogSearch == Answers
LibraryItemRead == Answers
\* What the options say about the student's own loans goes to an Azure service that takes it, only.
LibraryActionOptions(personal) == IF personal /\ backend # [kind |-> "azure", personal |-> TRUE] THEN {"throws"} ELSE Answers
LibraryCatalogBrowse == Answers
LibraryDiscoverySearch == Answers
SitrusRead == {"known", "throws"}
MoodleRead == {"known", "throws"}
MyLibraryRead == IF backend = [kind |-> "azure", personal |-> TRUE] THEN {"known", "throws"} ELSE {"throws"}
CastRead == {"known", "throws"}
CastAlumniRead == {"known", "throws"}
CastSearch == {"known", "throws"}
CastCareerSearch == Answers
BrowserRead == {"known", "throws"}

\* runTool; personal: whether what was read is the student's own, or about other persons
Outcomes(tool, personal) ==
    CASE tool = "scombz_page_summary" -> PageSummary
      [] tool = "scombz_read" -> PageRead
      [] tool \in LiveScombz -> ScombzStudentRead
      [] tool \in Calendar -> CalendarAvailability
      [] tool = "syllabus_search" -> SyllabusSearch
      [] tool = "syllabus_read" -> SyllabusRead
      [] tool = "library_catalog_search" -> LibraryCatalogSearch
      [] tool = "library_item_read" -> LibraryItemRead
      [] tool = "library_action_options" -> LibraryActionOptions(personal)
      [] tool = "library_catalog_browse" -> LibraryCatalogBrowse
      [] tool = "library_discovery_search" -> LibraryDiscoverySearch
      [] tool = "sitrus_read" -> SitrusRead
      [] tool = "moodle_read" -> MoodleRead
      [] tool = "my_library_read" -> MyLibraryRead
      [] tool = "cast_read" -> CastRead
      [] tool = "cast_alumni_read" -> CastAlumniRead
      [] tool = "cast_search" -> CastSearch
      [] tool = "cast_career_search" -> CastCareerSearch
      [] OTHER -> BrowserRead

NextScope(tool, restricted) ==
    CASE tool \in PersonalScombz -> "scombz"
      [] tool = "sitrus_read" -> "sitrus"
      [] tool \in {"syllabus_search", "syllabus_read"} -> "syllabus"
      [] tool = "cast_career_search" \/ (tool = "cast_alumni_read" /\ restricted) -> "cast"
      [] OTHER -> "none"
\* fault: a later scope takes the place of an earlier one.
MergeLastScope(c, tool, restricted) ==
    LET next == NextScope(tool, restricted)
    IN IF next \in {"none", c.scope} THEN c
       ELSE [c EXCEPT !.scope = next, !.eligible = @ /\ tool # "sitrus_read"]
MergeProcessingScope(c, tool, restricted) ==
    LET next == NextScope(tool, restricted)
    IN IF next \in {"none", c.scope} THEN c
       ELSE [c EXCEPT !.scope = IF @ = "none" THEN next ELSE "mixed", !.eligible = @ /\ tool # "sitrus_read"]
Covers(scope, class) == class \in {scope, "none"} \/ scope = "mixed"
Private(scope) == scope \in {"scombz", "sitrus", "cast", "mixed"}
\* toChatHistory: a private conversation sends only what has a provider's form.
ToChatHistory(c) ==
    IF ~c.eligible THEN {} ELSE IF Private(c.scope) THEN c.said \intersect {"transformed", "answer", "grades"} ELSE c.said

-----------------------------------------------------------------------------
(* A turn *)

Goto(pc) == turn' = [turn EXCEPT !.pc = pc]
\* The turn ends with an error, which is added to the copy send began with.
TurnFails ==
    /\ conv' = [turn.current EXCEPT !.said = @ \union {"error"}]
    /\ turn' = [NoTurn EXCEPT !.n = turn.n]
    /\ given' = {}
    /\ UNCHANGED <<backend, shownPage, panelRefs, sent, answered>>
Kept == UNCHANGED <<backend, shownPage, panelRefs, given, sent, answered>>

Send ==
    /\ turn.pc = "idle" /\ turn.n < MaxTurns
    /\ turn' = [NoTurn EXCEPT !.pc = "capabilities", !.n = turn.n + 1,
                              !.current = [conv EXCEPT !.said = @ \union {"raw"}], !.copy = conv]
    /\ conv' = turn'.current
    /\ given' = {}
    /\ UNCHANGED <<backend, shownPage, panelRefs, sent, answered>>

\* chatCapabilities; without them the turn goes on, with no tool and an unknown destination.
ReadCapabilities ==
    /\ turn.pc = "capabilities"
    /\ \/ \E live \in BOOLEAN :
             turn' = [turn EXCEPT !.pc = "preflight", !.dest = backend.kind,
                                  !.server = LiveTools(live /\ backend.kind = "azure")]
       \/ Goto("preflight")
    /\ Kept /\ UNCHANGED conv
ReadAuthPreflight ==
    /\ turn.pc = "preflight"
    /\ \E open \in OpenSites \union {{}} : turn' = [turn EXCEPT !.pc = "pin", !.ready = AuthPreflight(open)]
    /\ Kept /\ UNCHANGED conv
\* With a ScombZ page and its tools ready, the consent is asked for and the conversation is bound to the tab.
PinScombz ==
    /\ turn.pc = "pin"
    /\ \/ Goto("transform") /\ Kept /\ UNCHANGED conv
       \/ shownPage /\ "scombz_course_list" \in turn.ready /\ TurnFails
\* A message to Azure goes through the conversation's alias gateway; the conversation is stored again.
Transform ==
    /\ turn.pc = "transform"
    /\ LET kind == IF turn.dest = "azure" THEN "transformed" ELSE "raw"
           c == [turn.current EXCEPT !.said = turn.copy.said \union {kind}]
       IN \/ /\ conv' = c
             /\ turn' = [turn EXCEPT !.pc = "start", !.current = c, !.user = kind]
             /\ Kept
          \/ turn.dest = "azure" /\ TurnFails
\* startChat, with the history before this message and the tools; the service answers, asks for a tool, or fails.
StartChat ==
    /\ turn.pc = "start"
    /\ sent' = [user |-> turn.user, before |-> answered,
                history |-> ToChatHistory([turn.current EXCEPT !.said = turn.copy.said])]
    /\ turn' = [turn EXCEPT !.pc = "service", !.copy = turn.current]
    /\ UNCHANGED <<backend, shownPage, panelRefs, conv, given, answered>>
ServiceAsks ==
    /\ turn.pc = "service" /\ turn.calls < MaxCalls
    /\ \E tool \in ClientTools(turn.server, turn.ready) :
          turn' = [turn EXCEPT !.pc = "tool", !.calls = @ + 1, !.tool = tool]
    /\ Kept /\ UNCHANGED conv
ServiceFails == turn.pc \in {"start", "service"} /\ TurnFails

\* runTool: scope, answer, aliases and storage; then the runner gives the result to the service.
RunTool ==
    /\ turn.pc = "tool"
    /\ \E valid \in ValidateArguments, personal \in BOOLEAN : \E status \in Outcomes(turn.tool, personal) :
          LET c == MergeProcessingScope(MergeProcessingScope(turn.copy, turn.tool, FALSE), turn.tool, personal)
          IN \/ /\ valid /\ status # "throws"
                /\ conv' = c
                /\ turn' = [turn EXCEPT !.pc = "submit", !.copy = c]
                /\ given' = given \union {NextScope(turn.tool, personal)}
                /\ panelRefs' = (panelRefs \/ (turn.tool = "syllabus_search" /\ status = "known"))
                /\ UNCHANGED <<backend, shownPage, sent, answered>>
             \/ (~valid \/ status = "throws" \/ turn.tool \in ProviderPseudonymized) /\ TurnFails
SubmitToolResult == turn.pc = "submit" /\ turn' = [turn EXCEPT !.pc = "service", !.tool = "none"] /\ Kept /\ UNCHANGED conv

\* finishResponse: aliases are restored for the screen, the answer keeps its provider's form.
FinishResponse ==
    /\ turn.pc = "service"
    /\ conv' = [turn.copy EXCEPT !.said = @ \union {IF "sitrus" \in given THEN "grades" ELSE "answer"}]
    /\ answered' = answered \union given
    /\ turn' = [NoTurn EXCEPT !.n = turn.n]
    /\ UNCHANGED <<backend, shownPage, panelRefs, given, sent>>
\* The student stops the turn: what it stored stays.
Stop ==
    /\ turn.pc # "idle"
    /\ turn' = [NoTurn EXCEPT !.n = turn.n]
    /\ given' = {}
    /\ UNCHANGED <<backend, shownPage, panelRefs, conv, sent, answered>>

\* Outside: another page is shown; the panel is loaded anew.
OtherPage == shownPage' = ~shownPage /\ UNCHANGED <<backend, panelRefs, conv, turn, given, sent, answered>>
Reloads == turn.pc = "idle" /\ panelRefs /\ panelRefs' = FALSE /\ UNCHANGED <<backend, shownPage, conv, turn, given, sent, answered>>

PanelNext ==
    \/ Send \/ ReadCapabilities \/ ReadAuthPreflight \/ PinScombz \/ Transform \/ StartChat \/ ServiceAsks
    \/ ServiceFails \/ RunTool \/ SubmitToolResult \/ FinishResponse \/ Stop \/ OtherPage \/ Reloads

PanelSpec == PanelInit /\ [][PanelNext]_panelVars

-----------------------------------------------------------------------------
(* Properties *)

\* The scope of every result the service is given is in the stored conversation
\* before it is given, and it is still there when the turn was answered, whatever
\* tools came before and after it (mergeProcessingScope, runTool).
ScopeStoredFirst == \A class \in given : Covers(conv.scope, class)

\* Once a turn about private sources was answered, the history sent later has only
\* messages in a form made for the provider; once one about the grades was, it has
\* nothing at all (toChatHistory, history_eligible).
PrivateHistoryHeld ==
    /\ (\E class \in sent.before : Private(class)) => sent.history \subseteq {"transformed", "answer"}
    /\ "sitrus" \in sent.before => sent.history = {}
=============================================================================
