-------------------------- MODULE MCConnectors --------------------------
(***************************************************************************)
(* What the extension takes from the sources of a student and gives to     *)
(* the service, on small instances: Google Calendar, Google Drive, the     *)
(* search of the career system, the search across its surfaces, the        *)
(* command-line client of the audit tool, a turn of the chat panel, the    *)
(* arguments of the tool calls of a turn, the references of the library,   *)
(* the pages of its catalogue, and the student's own pages. The            *)
(* components share no variable, so each can be checked alone: part,       *)
(* chosen at the start, says which one a behaviour is about, and the       *)
(* others stay as they are.                                                *)
(***************************************************************************)
EXTENDS Integers, FiniteSets, Sequences, AuditBridge, PanelTurn

CONSTANTS
    Opens, Closes, MaxPages, PageSize, MaxEvents, Files, DriveCalls, MaxTokens, MaxDriveCalls,
    Kinds, Totals, CastPageSize, CastPages, MaxItems, MaxChanges,
    Companies, NoCompany, Limits,
    MaxOdd,
    MaxUses

\* The content script reads pages of ten results, and a thousand results at most.
ASSUME CastAssumption ==
    /\ CastPageSize \in Nat \ {0} /\ CastPages \in Nat /\ Totals \subseteq Nat
    /\ MaxItems \in Nat /\ \E n \in 1..MaxItems : MaxItems = n * CastPageSize
\* The window is one of time, and limits are numbers.
ASSUME CalendarAssumption ==
    Opens \in Int /\ Closes \in Int /\ Opens <= Closes /\ {MaxPages, PageSize, MaxEvents} \subseteq Nat
\* There are finitely many companies, and a request limits the rows to a number.
ASSUME CareerAssumption == IsFiniteSet(Companies) /\ Limits \subseteq Nat

VARIABLES
    part,
    calendar, token, fetch, calendarAnswer, stored, selections, driveCall, driveCalls, opened,
    total, form, cursors, search, chain, changes,
    site, career, told, shown, missed,
    call, at, refusedBy,
    public, personal, live, refSite, ask, counts, cards, meant, refAnswer, listing, read,
    page, loaded, complete, reading, items,
    sitrus, offered, fetching, script, studentChanges, answer

\* At most three events, by start: any of the window's length, a transparent one, one that cannot be read.
Event ==
    {e \in [start : 0..(Closes), end : 1..(Closes + 1), kind : {"opaque"}] : e.start < e.end}
      \union {[start |-> 2, end |-> 4, kind |-> "transparent"], [start |-> 1, end |-> 1, kind |-> "malformed"]}
CalendarEvents ==
    UNION {{s \in [1..n -> Event] : \A i \in 1..(n - 1) : s[i].start <= s[i + 1].start} : n \in 0..3}
Conditions == {{}, {"place"}}
SurfaceSets == {{"job", "company", "hiring_record"}, {"hiring_record", "selection_report"},
                {"recording", "counseling", "job"}, {"company", "selection_report", "recording"}}

(* Pages of lists of My Library, and the references of records and rows.    *)
ReferenceOf(thing) ==
    CASE thing[1] = "record" -> IF thing[2] = "r3" THEN "b" ELSE "a"
      [] thing[2] = "raw" /\ thing[3] = "i1" -> IF thing[1] = "current_loans" THEN "b" ELSE "c"
      [] thing[2] = "raw" -> IF thing[1] = "current_loans" THEN "c" ELSE "d"
      [] OTHER -> IF thing[3] = 1 THEN "c" ELSE "d"
Row(id, idIn, matches) ==
    [id |-> id, idIn |-> idIn, also |-> {}, has |-> {"title", "due", "status", "activity", "request"}, twice |-> {},
     second |-> {}, empty |-> FALSE, matches |-> matches, viewer |-> matches, renewable |-> matches, overdue |-> matches]
TableOf(rows) == [shown |-> TRUE, marked |-> TRUE, columns |-> TRUE, rows |-> rows]
PageOf(rows) == [form |-> TRUE, tables |-> <<TableOf(rows)>>]
One == Row("i1", "label", TRUE)
Two == Row("i2", "label", FALSE)
Same == Row("i1", "label", FALSE)
Boxed == [Row("i2", "column", TRUE) EXCEPT !.also = {"i1"}]
Nameless == Row("none", "label", TRUE)
Short == [Two EXCEPT !.has = @ \ {"request"}]
HeadedTwice == [One EXCEPT !.twice = {"status"}]
Empty == [Row("none", "label", FALSE) EXCEPT !.has = {}, !.empty = TRUE]
\* What a page shows at the start, and what it can change to.
StartPages == {PageOf(<<Two, Nameless, One, Nameless>>), PageOf(<<Boxed, Short>>)}
ListPages ==
    StartPages \union
    {PageOf(<<One, Same>>), PageOf(<<Empty>>),
     [form |-> TRUE, tables |-> <<[TableOf(<<Two>>) EXCEPT !.columns = FALSE], TableOf(<<HeadedTwice>>)>>],
     [form |-> FALSE,
      tables |-> <<[TableOf(<<Two>>) EXCEPT !.shown = FALSE], [TableOf(<<One>>) EXCEPT !.marked = FALSE], TableOf(<<Boxed>>)>>]}
UsedLists == {"current_loans", "purchase_requests"}

(* Pages of the catalogue: cells that are lent, there, silent or away.      *)
Cell(id, text, due, queue) == [id |-> id, text |-> text, due |-> due, queue |-> queue, at |-> "toyosu", hidden |-> FALSE]
Lent == Cell(1, "on loan", "date", 1)
Here == Cell(2, "available", "none", -1)
Silent == Cell(3, "nothing", "misprinted", 2)
Away == Cell(4, "unavailable", "none", -1)
HiddenCell == [Cell(5, "available", "none", -1) EXCEPT !.hidden = TRUE]
Misprinted == Cell(6, "on loan", "misprinted", -1)
Awaited == Cell(7, "on loan", "date", 2)
Book(r, cells) == [record |-> r, hidden |-> FALSE, titled |-> TRUE, campus |-> "toyosu", publisher |-> 9, cells |-> cells]
Bare == [Book("r3", <<>>) EXCEPT !.campus = "omiya"]
ListOf(rows) ==
    [path |-> "list", of |-> "none", shown |-> FALSE, nothing |-> FALSE, publisher |-> 0, rows |-> rows, links |-> <<>>, detail |-> <<>>]
RecordOf(r, publisher, rows, detail) ==
    [ListOf(rows) EXCEPT !.path = "record", !.of = r, !.shown = TRUE, !.publisher = publisher, !.detail = detail]
CataloguePages ==
    {ListOf(<<Book("r1", <<Lent, Here, Misprinted>>), Book("r2", <<Silent>>), Bare>>), ListOf(<<Bare, Book("r1", <<HiddenCell>>)>>),
     ListOf(<<Book("r1", <<Away>>), Bare>>), ListOf(<<Book("r2", <<Awaited, Here>>)>>),
     ListOf(<<[Book("r1", <<Lent>>) EXCEPT !.hidden = TRUE], [Bare EXCEPT !.titled = FALSE]>>),
     [ListOf(<<>>) EXCEPT !.nothing = TRUE],
     [ListOf(<<>>) EXCEPT !.links = <<Book("r1", <<Lent>>), [Bare EXCEPT !.titled = FALSE]>>],
     RecordOf("r1", 3, <<Book("r2", <<Here>>)>>, <<Lent, Here, Misprinted>>), RecordOf("r1", 9, <<Book("r2", <<Here>>)>>, <<>>),
     [RecordOf("r1", 3, <<>>, <<>>) EXCEPT !.shown = FALSE], [ListOf(<<>>) EXCEPT !.path = "other"]}
Link(goes, key) == [goes |-> goes, key |-> key, hidden |-> FALSE, navigation |-> FALSE, titled |-> TRUE]
DiscoveryPages ==
    {<<>>, <<Link("record", "r1"), Link("record", "r1"), Link("discovery", "d1"), Link("elsewhere", "e"), Link("discovery", "d2")>>,
     <<[Link("record", "r2") EXCEPT !.hidden = TRUE], [Link("discovery", "d1") EXCEPT !.navigation = TRUE],
       [Link("discovery", "d2") EXCEPT !.titled = FALSE]>>}

(* A student's own pages: doubled, incomplete, empty and overlong ones.     *)
Course(s, g, c) == [named |-> s # "none", subject |-> s, grade |-> g, credits |-> c]
Summary(n) == [named |-> TRUE, count |-> n]
Report(student, courses, credits) == [student |-> student, courses |-> courses, credits |-> credits]
StudentReports ==
    {Report("numbered", <<Course("s1", "A", 2), Course("s1", "A", 2), Course("s2", "F", 99), Course("s3", "A", 2)>>,
            <<Summary(10), Summary(20000), Summary(1), Summary(2)>>),
     Report("numbered", <<Course("none", "A", 2), Course("s1", "P", 2)>>, <<>>), Report("known", <<>>, <<>>), Report("nobody", <<>>, <<>>)}
Task(titled, due) == [titled |-> titled, due |-> due]
MoodleDashboards ==
    {[courses |-> <<"c1", "none", "c1", "c2">>, activities |-> <<Task(TRUE, 0), Task(TRUE, 2), Task(TRUE, -1)>>, unread |-> 3],
     [courses |-> <<"c1", "c2", "c3">>, activities |-> <<Task(FALSE, 0), Task(TRUE, 1)>>, unread |-> -1],
     [courses |-> <<>>, activities |-> <<>>, unread |-> 1]}
Notice(titled, day) == [titled |-> titled, day |-> day]
CastTop(one, two, notices) ==
    [path |-> "top", password |-> FALSE, counts |-> <<0, one, two>>, notices |-> notices, talk |-> TRUE]
CastTops ==
    {CastTop(1, 2, <<Notice(TRUE, 1), Notice(FALSE, 2), Notice(TRUE, -1), Notice(TRUE, 3)>>), CastTop(3, 1, <<>>), CastTop(0, 0, <<>>),
     [CastTop(1, 1, <<>>) EXCEPT !.path = "login"], [CastTop(1, 1, <<>>) EXCEPT !.password = TRUE],
     [CastTop(1, 1, <<>>) EXCEPT !.path = "other"]}
Person(n, topics, contact) ==
    [hidden |-> FALSE, marked |-> TRUE, name |-> n, topics |-> topics, insights |-> {}, contact |-> contact]
Supporters(path, elements, links, marked) == [path |-> path, elements |-> elements, links |-> links, marked |-> marked]
SupporterPages ==
    {Supporters("list", <<Person("p1", {"t1"}, TRUE), Person("p2", {}, FALSE), Person("p1", {"t1"}, TRUE),
                          Person("p3", {"t2"}, FALSE), Person("none", {"t1"}, FALSE)>>, <<"l1", "l1", "l2">>, TRUE),
     Supporters("list", <<Person("none", {}, FALSE), [Person("p1", {}, FALSE) EXCEPT !.hidden = TRUE]>>, <<>>, FALSE),
     Supporters("list", <<>>, <<"l1">>, FALSE), Supporters("login", <<>>, <<>>, TRUE), Supporters("other", <<>>, <<>>, TRUE)}

Google == INSTANCE GoogleConnectors
Cast == INSTANCE CastSearch WITH PageSize <- CastPageSize, MaxPages <- CastPages
Career == INSTANCE CastCareer
Arguments == INSTANCE ToolCalls
References == INSTANCE LibraryRefs WITH
    site <- refSite, answered <- refAnswer, RefOf <- ReferenceOf,
    Records <- {"r1", "r2", "r3"}, NoRecord <- "none", RawIds <- {"i1", "i2"}, NoId <- "none",
    Refs <- {"a", "b", "c", "d"}, Lists <- UsedLists, Pages <- ListPages, MaxRows <- 3, PageRows <- 2,
    AcceptedRows <- 3, AcceptedPage <- 2
Catalogue == INSTANCE CatalogPages WITH
    Pages <- CataloguePages, Results <- DiscoveryPages, NoRecord <- "none",
    MaxHoldings <- 2, MaxItems <- 2, ListPublisher <- 2, RecordPublisher <- 5,
    AcceptedHoldings <- 2, AcceptedItems <- 2, AcceptedRelated <- 4, AcceptedPublisher <- 3, AcceptedQueue <- 1
Student == INSTANCE StudentPages WITH
    changes <- studentChanges, Reports <- StudentReports, MoodlePages <- MoodleDashboards, CastPages <- CastTops,
    AlumniPages <- SupporterPages, MaxRecords <- 2, MaxRows <- 2, MaxCount <- 2, MaxUnread <- 2, MaxProfiles <- 3,
    ShownProfiles <- 2, MaxLinks <- 1, MaxChanges <- 2,
    AcceptedRecords <- 2, AcceptedRows <- 2, AcceptedCount <- 2, AcceptedUnread <- 2, AcceptedProfiles <- 3,
    AcceptedShown <- 2, AcceptedLinks <- 1

googleVars == <<calendar, token, fetch, calendarAnswer, stored, selections, driveCall, driveCalls, opened>>
castVars == <<total, form, cursors, search, chain, changes>>
careerVars == <<site, career, told, shown, missed>>
callVars == <<call, at, refusedBy>>
refVars == <<public, personal, live, refSite, ask, counts, cards, meant, refAnswer, listing, read>>
catalogVars == <<page, loaded, complete, reading, items>>
studentVars == <<sitrus, offered, fetching, script, studentChanges, answer>>
libraryVars == <<refVars, catalogVars, studentVars>>

ConnectorParts == {"calendar", "drive", "cast", "career", "audit", "panel", "calls", "refs", "catalogue", "student"}
ConnectorsStart ==
    \* what the other components find at the start does not matter
    /\ calendar \in IF part = "calendar" THEN CalendarEvents ELSE {<<>>}
    /\ part # "cast" => total = [l \in Kinds \X Conditions |-> CHOOSE n \in Totals : TRUE] /\ form = {}
    /\ part # "career" => site = [jobs |-> {}, linked |-> {}, contacts |-> {}]
    /\ part # "audit" => refs = {}
    /\ part # "panel" => backend = [kind |-> "local", personal |-> FALSE] /\ shownPage = FALSE
    \* the two lists show the same page at the start
    /\ \E at_start \in IF part = "refs" THEN StartPages ELSE {PageOf(<<Empty>>)} : refSite = [l \in UsedLists |-> at_start]
    /\ part # "student" => sitrus = [session |-> "in", report |-> Report("nobody", <<>>, <<>>)] /\ script = FALSE
    /\ Google!GoogleInit /\ Cast!CastInit /\ Career!CareerInit /\ AuditInit /\ PanelInit
    \* a condition finds no more than a search without one, and one of the lists is long
    /\ \A k \in Kinds, c \in Conditions : total[<<k, c>>] <= total[<<k, {}>>]
    /\ part = "cast" => \E k \in Kinds : \A n \in Totals : n <= total[<<k, {}>>]
    /\ References!RefInit /\ Catalogue!CatalogInit /\ Student!StudentInit
    /\ IF part = "calls" THEN Arguments!CallsInit
       ELSE call = [tool |-> "sitrus_read", args |-> [unknown |-> "absent"]] /\ at = "service" /\ refusedBy = "nobody"
ConnectorsInit == part \in ConnectorParts /\ ConnectorsStart

ConnectorsNext ==
    /\ UNCHANGED part
    /\ \/ part = "calendar" /\ Google!CalendarNext /\ UNCHANGED <<castVars, careerVars, auditVars, panelVars, callVars, libraryVars>>
       \/ part = "drive" /\ Google!DriveNext /\ UNCHANGED <<castVars, careerVars, auditVars, panelVars, callVars, libraryVars>>
       \/ part = "cast" /\ Cast!CastNext /\ UNCHANGED <<googleVars, careerVars, auditVars, panelVars, callVars, libraryVars>>
       \/ part = "career" /\ Career!CareerNext /\ UNCHANGED <<googleVars, castVars, auditVars, panelVars, callVars, libraryVars>>
       \/ part = "audit" /\ AuditNext /\ UNCHANGED <<googleVars, castVars, careerVars, panelVars, callVars, libraryVars>>
       \/ part = "panel" /\ PanelNext /\ UNCHANGED <<googleVars, castVars, careerVars, auditVars, callVars, libraryVars>>
       \/ part = "calls" /\ Arguments!CallsNext /\ UNCHANGED <<googleVars, castVars, careerVars, auditVars, panelVars, libraryVars>>
       \/ /\ part = "refs" /\ References!RefNext /\ UNCHANGED <<catalogVars, studentVars>>
          /\ UNCHANGED <<googleVars, castVars, careerVars, auditVars, panelVars, callVars>>
       \/ /\ part = "catalogue" /\ Catalogue!CatalogNext /\ UNCHANGED <<refVars, studentVars>>
          /\ UNCHANGED <<googleVars, castVars, careerVars, auditVars, panelVars, callVars>>
       \/ /\ part = "student" /\ Student!StudentNext /\ UNCHANGED <<refVars, catalogVars>>
          /\ UNCHANGED <<googleVars, castVars, careerVars, auditVars, panelVars, callVars>>

allVars == <<part, googleVars, castVars, careerVars, auditVars, panelVars, callVars, libraryVars>>
ConnectorsSpec == ConnectorsInit /\ [][ConnectorsNext]_allVars

\* Minutes the calendar connector calls free are free in the whole calendar, and a file is
\* shown as read only after it was read (GoogleConnectors).
GoogleAsRead ==
    /\ part = "calendar" => Google!FreeIsFree
    /\ part = "drive" => Google!EvidenceIsRead
\* A list read to its end has every row of it, once: the results of a career search
\* (CastSearch), the rows of a My Library list (LibraryRefs).
NothingLeftOut ==
    /\ part = "cast" => Cast!NothingLeftOut
    /\ part = "refs" => References!EveryRowOnce
\* A search across the surfaces is called complete only if every read of it went well, and a
\* company is shown for what its rows have together, wherever they come from (CastCareer).
CareerAsRead == part = "career" => Career!CompleteIsComplete /\ Career!ShownTogether
\* The scope of a result is stored before the service is given the result, and once private
\* sources were answered from, later histories have provider forms only (PanelTurn).
ScopeHeld == ScopeStoredFirst /\ PrivateHistoryHeld
\* The places that state the rules of arguments agree: a handler gets documented values only, the
\* worker knows what the panel sends, and library calls of the service are not refused (ToolCalls).
ArgumentsAgree == part = "calls" => Arguments!WithinBounds /\ Arguments!NotLost /\ Arguments!LibraryCallsServed
\* Options and previews are about the one thing that was shown under a reference, and about the record
\* whose address came with it unless the reference stands for a row (LibraryRefs).
OptionsOfTheOneShown == part = "refs" => References!OptionsOfTheOneShown
\* What the worker's own copies of the readers read of a page, the readers that are tested read too
\* (LibraryRefs, StudentPages).
TestedAsRun ==
    /\ part = "refs" => References!TestedAsRun
    /\ part = "student" => Student!DashboardsTestedAsRun
\* The panel takes every answer that says it is known, but for an answer of the catalogue with a publisher
\* that is too long, a due date that is none or too many reservations (LibraryRefs, CatalogPages, StudentPages).
ResultsAccepted ==
    /\ part = "refs" => References!ListsAccepted
    /\ part = "catalogue" => Catalogue!PagesAccepted
    /\ part = "student" => Student!AnswersAccepted
\* A record of a list has the holdings of its own row, all of them (CatalogPages).
HoldingsOfRow == part = "catalogue" => Catalogue!HoldingsOfRow
\* A record whose copies are all said to be unavailable is not answered as available (CatalogPages).
UnavailableIsSaid == part = "catalogue" => Catalogue!UnavailableIsSaid
=============================================================================
