--------------------------- MODULE StudentPages ---------------------------
(***************************************************************************)
(* What the worker makes of a student's own pages: the grades of SITRUS    *)
(* (background/sitrus-api.ts), the dashboards of Moodle and of the career  *)
(* system, and its page of career supporters (content/*-reader.ts,         *)
(* background/service-worker.ts), and what the panel takes for an answer   *)
(* about them (api/client.ts).                                             *)
(*                                                                         *)
(* The grades are fetched in four requests, the last two at once, while    *)
(* the session may end.  The supporters are read by a script that is in    *)
(* the page already or, once the extension was reloaded, is put into it.   *)
(* Text is what is found in it; a number that is not one, or out of range, *)
(* is None.  The caps of the readers and those of the validators are      *)
(* constants; tabs and permissions are those of OfficialReads, the names   *)
(* given to people those of AliasGateway.                                  *)
(***************************************************************************)
EXTENDS Integers, FiniteSets, SequencesExt, Lists

CONSTANTS
    Reports,        \* what SITRUS knows of a student: courses and credits, see ProjectGrades, ProjectCreditSummaries
    MoodlePages, CastPages, AlumniPages,
    MaxRecords,     \* grades, and credit summaries, of an answer (200)
    MaxRows,        \* courses, activities and notices that are read (1000)
    MaxCount,       \* the largest count of new postings (100,000)
    MaxUnread,      \* the largest count of unread notifications (10,000)
    MaxProfiles, ShownProfiles, \* supporters that are read (64), and shown to the service (20)
    MaxLinks,       \* links that are read (32)
    AcceptedRecords, AcceptedRows, AcceptedCount, AcceptedUnread, \* what the validators take of each: 200, 1000, 100,000, 10,000,
    AcceptedProfiles, AcceptedShown, AcceptedLinks, \* and 64, 20, 32
    MaxChanges      \* bound on changes of the session and reloads (model checking only)

VARIABLES
    sitrus,     \* whether the student is logged in to SITRUS, and the report there
    offered,    \* whether the tool was offered to the service
    fetching,   \* the read of grades that is under way
    script,     \* whether the reader is in the supporters' page
    changes,    \* how many changes there were
    answer      \* the answer just given, by source

studentVars == <<sitrus, offered, fetching, script, changes, answer>>

None == -1
NoName == "none"
NoFetch == [at |-> "none", courses |-> "open", credits |-> "open"]
NoAnswer == [source |-> "none"]

StudentInit ==
    /\ sitrus \in [session : {"in", "out"}, report : Reports]
    /\ offered = FALSE
    /\ fetching = NoFetch
    /\ script \in BOOLEAN
    /\ changes = 0
    /\ answer = NoAnswer

-----------------------------------------------------------------------------
(* SITRUS                                                                   *)

BoundedInteger(value, low, high) == IF value \in low..high THEN value ELSE None

\* A course without a name, or with a grade that is not known, is left out; its credits may be out of range.
ProjectGrades(rows) ==
    LET looked == First(rows, 2 * MaxRecords)
        kept == Chosen(looked, {i \in DOMAIN looked : looked[i].named /\ looked[i].grade \in {"A", "F"}})
    IN First(Once([i \in DOMAIN kept |->
                     [subject |-> kept[i].subject, grade |-> kept[i].grade,
                      credits |-> BoundedInteger(kept[i].credits, 0, 20)]]), MaxRecords)

\* A summary needs all of its counts.
ProjectCreditSummaries(rows) ==
    LET looked == First(rows, 2 * MaxRecords)
        kept == Chosen(looked, {i \in DOMAIN looked : looked[i].named /\ BoundedInteger(looked[i].count, 0, 10000) # None})
    IN First([i \in DOMAIN kept |-> BoundedInteger(kept[i].count, 0, 10000)], MaxRecords)

\* findStringField, in the token and in the student's record: a student who is known, and has a number.
IsStudent == sitrus.report.student # "nobody"
HasNumber == sitrus.report.student = "numbered"

\* fetchJson: login pages and refusals, other failures, or what was asked for.
FetchJson == IF sitrus.session = "out" THEN {"login"} ELSE {"data", "failed"}

\* checkSitrusAuthentication, when the panel asks what it may offer.
CheckSitrusAuthentication ==
    /\ fetching = NoFetch
    /\ \E got \in FetchJson : offered' = (got = "data" /\ IsStudent)
    /\ answer' = NoAnswer /\ UNCHANGED <<sitrus, fetching, script, changes>>

SitrusRead ==
    /\ offered /\ fetching = NoFetch
    /\ fetching' = [NoFetch EXCEPT !.at = "token"]
    /\ answer' = NoAnswer /\ UNCHANGED <<sitrus, offered, script, changes>>

Fails(status) ==
    /\ answer' = [source |-> "sitrus", status |-> status, label |-> FALSE, grades |-> <<>>, summaries |-> <<>>]
    /\ fetching' = NoFetch

Going(next) == fetching' = next /\ answer' = NoAnswer
Refused(got) == Fails(IF got = "login" THEN "reauth_required" ELSE "unavailable")

\* The token says who the student is, the student's record under which number; both requests need it.
TokenFetched ==
    /\ fetching.at = "token"
    /\ \E got \in FetchJson :
         IF got # "data" THEN Refused(got)
         ELSE IF ~IsStudent THEN Fails("reauth_required")
         ELSE Going([fetching EXCEPT !.at = "student"])
    /\ UNCHANGED <<sitrus, offered, script, changes>>

StudentFetched ==
    /\ fetching.at = "student"
    /\ \E got \in FetchJson :
         IF got # "data" THEN Refused(got)
         ELSE IF ~HasNumber THEN Fails("reauth_required")
         ELSE Going([fetching EXCEPT !.at = "records"])
    /\ UNCHANGED <<sitrus, offered, script, changes>>

\* Both are there: something in them must have been read.
Grades(grades, summaries) ==
    IF grades = <<>> /\ summaries = <<>> THEN Fails("unavailable")
    ELSE /\ answer' = [source |-> "sitrus", status |-> "known", label |-> TRUE, grades |-> grades, summaries |-> summaries]
         /\ fetching' = NoFetch

\* The two requests end in any order; the first that fails ends the read.
CoursesFetched ==
    /\ fetching.at = "records" /\ fetching.courses = "open"
    /\ \E got \in FetchJson :
         IF got # "data" THEN Refused(got)
         ELSE IF fetching.credits = "open" THEN Going([fetching EXCEPT !.courses = "there"])
         ELSE Grades(ProjectGrades(sitrus.report.courses), ProjectCreditSummaries(sitrus.report.credits))
    /\ UNCHANGED <<sitrus, offered, script, changes>>

CreditsFetched ==
    /\ fetching.at = "records" /\ fetching.credits = "open"
    /\ \E got \in FetchJson :
         IF got # "data" THEN Refused(got)
         ELSE IF fetching.courses = "open" THEN Going([fetching EXCEPT !.credits = "there"])
         ELSE Grades(ProjectGrades(sitrus.report.courses), ProjectCreditSummaries(sitrus.report.credits))
    /\ UNCHANGED <<sitrus, offered, script, changes>>

\* What the student's session and the pages become meanwhile.
SessionChanges ==
    /\ changes < MaxChanges /\ changes' = changes + 1
    /\ sitrus' = [sitrus EXCEPT !.session = IF @ = "in" THEN "out" ELSE "in"]
    /\ answer' = NoAnswer /\ UNCHANGED <<offered, fetching, script>>

-----------------------------------------------------------------------------
(* Dashboards. A page has courses (names, or NoName), activities with a   *)
(* title or not and a due time or None (0 is over), and a count.            *)

Named(courses) == Chosen(courses, {i \in DOMAIN courses : courses[i] # NoName})
Titled(rows) == Chosen(rows, {i \in DOMAIN rows : rows[i].titled})

\* readMoodleDashboardInPage
ReadMoodle(page) ==
    [courses |-> First(Once(Named(page.courses)), MaxRows), upcoming |-> Titled(First(page.activities, MaxRows)),
     unread |-> IF page.unread = None THEN 0 ELSE IF page.unread < MaxUnread THEN page.unread ELSE MaxUnread]
\* extractMoodleDashboard, which the tests are about: on the dashboard only.
ExtractMoodle(page) ==
    LET named == Once(Named(page.courses))
        activities == First(page.activities, MaxRows)
    IN [courses |-> First(named, MaxRows), upcoming |-> Titled(activities),
        unread |-> IF page.unread \in 0..MaxUnread THEN page.unread ELSE IF page.unread = None THEN 0 ELSE MaxUnread]

Dues(upcoming) == {a.due : a \in {b \in ToSet(upcoming) : b.due # None}}
ProjectMoodleForAgent(detail) ==
    [source |-> "moodle", status |-> "known", courses |-> Len(detail.courses), upcoming |-> Len(detail.upcoming),
     overdue |-> Cardinality({i \in DOMAIN detail.upcoming : detail.upcoming[i].due = 0}),
     earliest |-> IF Dues(detail.upcoming) = {} THEN None ELSE CHOOSE d \in Dues(detail.upcoming) : \A e \in Dues(detail.upcoming) : d <= e,
     unread |-> detail.unread]

MoodleRead(page) ==
    /\ answer' = ProjectMoodleForAgent(ReadMoodle(page))
    /\ UNCHANGED <<sitrus, offered, fetching, script, changes>>

\* A count on the page of the career system, at most MaxCount.
NumericCount(value) == BoundedInteger(value, 0, MaxCount)
\* readCastDashboardInPage: all three counts, and the notices with a title and a row.
ReadCast(page) ==
    IF page.path = "login" \/ page.password THEN [status |-> "reauth_required"]
    ELSE IF page.path # "top" \/ \E i \in 1..3 : NumericCount(page.counts[i]) = None THEN [status |-> "unavailable"]
    ELSE [status |-> "known", counts |-> page.counts, talk |-> page.talk,
          notices |-> First(Titled(page.notices), MaxRows)]
\* extractCastDashboard, which the tests are about, knows nothing of a page or knows what is on it.
ExtractCast(page) ==
    IF page.path = "top" /\ ~page.password /\ \A i \in 1..3 : NumericCount(page.counts[i]) # None
    THEN [status |-> "known", counts |-> page.counts, talk |-> page.talk,
          notices |-> First(Titled(page.notices), MaxRows)]
    ELSE [status |-> "nothing"]

Days(notices) == {n.day : n \in {m \in ToSet(notices) : m.day # None}}
ProjectCastForAgent(detail) ==
    [source |-> "cast", status |-> "known", notices |-> Len(detail.notices), counts |-> detail.counts, talk |-> detail.talk,
     nearest |-> IF Days(detail.notices) = {} THEN None ELSE CHOOSE d \in Days(detail.notices) : \A e \in Days(detail.notices) : e <= d]

CastRead(page) ==
    /\ answer' = LET read == ReadCast(page)
                 IN IF read.status = "known" THEN ProjectCastForAgent(read)
                    ELSE [source |-> "cast", status |-> read.status]
    /\ UNCHANGED <<sitrus, offered, fetching, script, changes>>

-----------------------------------------------------------------------------
(* Supporters. An element of the page is hidden or not, speaks of a         *)
(* supporter or not, names one or nobody, and says things of topics,        *)
(* insights, ways and times to meet, and contacts.                          *)

Visible(e) == ~e.hidden
\* profileFromElement: something must be said of the supporter.
IsProfile(e) ==
    /\ Visible(e) /\ e.marked
    /\ e.name # NoName \/ e.topics # {} \/ e.insights # {} \/ e.contact

\* Elements that say the same are one supporter.
ProfilesOf(page) ==
    First(Once(Chosen(page.elements, {i \in DOMAIN page.elements : IsProfile(page.elements[i])})), MaxProfiles)

\* discoveredLinks: each path once.
LinksOf(page) == First(Once(page.links), MaxLinks)

\* extractCastAlumniPage
ExtractAlumni(page) ==
    IF page.path = "other" THEN [status |-> "unavailable"]
    ELSE IF page.path = "login" THEN [status |-> "reauth_required"]
    ELSE IF ProfilesOf(page) = <<>> /\ LinksOf(page) = <<>> /\ ~page.marked THEN [status |-> "unavailable"]
    ELSE [status |-> "known", profiles |-> ProfilesOf(page), links |-> LinksOf(page)]

\* projectCastAlumniForAgent: what all of them say together.
ProjectCastAlumniForAgent(detail) ==
    LET said == ToSet(detail.profiles)
    IN [source |-> "alumni", status |-> "known", class |-> "personal", count |-> Len(detail.profiles),
        topics |-> UNION {p.topics : p \in said}, insights |-> UNION {p.insights : p \in said},
        contact |-> \E p \in said : p.contact, links |-> Len(detail.links), profiles |-> <<>>]

\* fault: all are counted, the first ones are shown
AllCounted(detail) ==
    [ProjectCastAlumniForAgent(detail) EXCEPT !.class = "restricted", !.contact = FALSE,
        !.profiles = [i \in 1..Len(First(detail.profiles, ShownProfiles)) |-> detail.profiles[i].topics]]
\* projectCastAlumniForConversation: the first ones, under other names, and no contacts.
ProjectCastAlumniForConversation(detail) ==
    LET shown == First(detail.profiles, ShownProfiles)
    IN [ProjectCastAlumniForAgent(detail) EXCEPT !.class = "restricted", !.count = Len(shown), !.contact = FALSE,
        !.profiles = [i \in DOMAIN shown |-> shown[i].topics]]

\* readCastAlumniPage: the script answers, or is put into the page, which may fail, and asked again.
ScriptAnswers(injected) == script \/ injected

CastAlumniRead(page, injected) ==
    /\ script' = ScriptAnswers(injected)
    /\ answer' = LET read == IF ScriptAnswers(injected) THEN ExtractAlumni(page) ELSE [status |-> "unavailable"]
                 IN IF read.status = "known" THEN ProjectCastAlumniForConversation(read)
                    ELSE [source |-> "alumni", status |-> read.status]
    /\ UNCHANGED <<sitrus, offered, fetching, changes>>

\* The extension is reloaded: the script of a page that stays open answers no more, and a read ends.
Reloaded ==
    /\ changes < MaxChanges /\ changes' = changes + 1
    /\ script' = FALSE /\ offered' = FALSE /\ fetching' = NoFetch /\ answer' = NoAnswer
    /\ UNCHANGED sitrus

-----------------------------------------------------------------------------
StudentNext ==
    \/ CheckSitrusAuthentication \/ SitrusRead
    \/ TokenFetched \/ StudentFetched \/ CoursesFetched \/ CreditsFetched
    \/ SessionChanges \/ Reloaded
    \/ fetching = NoFetch /\ \/ \E page \in MoodlePages : MoodleRead(page)
                             \/ \E page \in CastPages : CastRead(page)
                             \/ \E page \in AlumniPages, injected \in BOOLEAN : CastAlumniRead(page, injected)

StudentSpec == StudentInit /\ [][StudentNext]_studentVars

-----------------------------------------------------------------------------
(* What the panel accepts.                                                  *)

\* isSitrusGradeResult: what is known says something, and what is not says nothing.
IsSitrusGradeResult ==
    /\ Len(answer.grades) <= AcceptedRecords /\ Len(answer.summaries) <= AcceptedRecords
    /\ \A i \in DOMAIN answer.grades :
         answer.grades[i].credits \in {None} \union 0..20 /\ answer.grades[i].grade \in {"A", "F"}
    /\ \A i \in DOMAIN answer.summaries : answer.summaries[i] \in 0..10000
    /\ (answer.status = "known") = (answer.label \/ answer.grades # <<>> \/ answer.summaries # <<>>)

\* isMoodleReadResult
IsMoodleReadResult ==
    /\ {answer.courses, answer.upcoming, answer.overdue} \subseteq 0..AcceptedRows
    /\ answer.unread \in 0..AcceptedUnread

\* isCastReadResult
IsCastReadResult == answer.notices \in 0..AcceptedRows /\ \A i \in 1..3 : answer.counts[i] \in 0..AcceptedCount

\* isCastAlumniReadResult: with supporters it is restricted, shows as many as it counts, and has no contacts.
IsCastAlumniReadResult ==
    /\ answer.count \in 0..AcceptedProfiles /\ answer.links \in 0..AcceptedLinks
    /\ answer.class = "restricted"
    /\ Len(answer.profiles) <= AcceptedShown /\ answer.count = Len(answer.profiles) /\ ~answer.contact
    /\ Cardinality(answer.topics) <= 32 /\ Cardinality(answer.insights) <= 32

\* The panel takes every answer the worker says it knows: otherwise the turn would end with it.
AnswersAccepted ==
    answer.source # "none" /\ answer.status = "known" =>
        CASE answer.source = "sitrus" -> IsSitrusGradeResult
          [] answer.source = "moodle" -> IsMoodleReadResult
          [] answer.source = "cast" -> IsCastReadResult
          [] OTHER -> IsCastAlumniReadResult

\* The readers the tests are about read the dashboards as the worker's own copies of them do.
DashboardsTestedAsRun ==
    /\ \A page \in MoodlePages : ExtractMoodle(page) = ReadMoodle(page)
    /\ \A page \in CastPages : LET run == ReadCast(page) tested == ExtractCast(page)
                               IN run = tested \/ (run.status # "known" /\ tested.status = "nothing")
=============================================================================
