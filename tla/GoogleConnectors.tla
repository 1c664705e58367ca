-------------------------- MODULE GoogleConnectors --------------------------
(***************************************************************************)
(* The Google Calendar and Google Drive connectors of the service worker   *)
(* (apps/extension/src/connectors/google-calendar.ts, google-drive.ts).    *)
(*                                                                         *)
(* The calendar connector reads the events of the next days, page by page, *)
(* and answers with the free intervals between them.  It keeps nothing     *)
(* itself: the token is in Chrome's cache, and a token the calendar        *)
(* refuses is replaced once.  Time is counted in minutes from some         *)
(* midnight; the window is Opens..Closes.                                  *)
(*                                                                         *)
(* The Drive connector keeps the files the student selected in memory and  *)
(* in chrome.storage.session, which it reads and writes as a whole, with   *)
(* awaits between.  A file is its selection id; it is selected, then read. *)
(* Production has no provider of selections yet: this is the connector     *)
(* with the one its constructor accepts.                                   *)
(***************************************************************************)
EXTENDS Integers, FiniteSets, Sequences, SequencesExt

CONSTANTS
    Opens, Closes,  \* the window asked for
    MaxPages,       \* MAX_PAGES
    PageSize,       \* MAX_EVENTS_PER_PAGE, the page size asked for
    MaxEvents,      \* MAX_EVENTS
    CalendarEvents, \* the calendars there may be: sequences of events, by start
    Files,          \* selection ids
    DriveCalls,     \* calls of the Drive connector that may be under way at once
    MaxTokens, MaxDriveCalls  \* bounds on tokens issued and calls made (model checking only)

VARIABLES
    calendar,   \* the student's events at Google
    token,      \* cached: the token in Chrome's cache; good: those Google accepts; issued; granted by the student
    fetch,      \* the local variables of the calendar command
    calendarAnswer, \* the last result given
    stored,     \* the selections in chrome.storage.session: id -> none, selected or read
    selections, \* those in memory, and whether they were loaded
    driveCall,  \* the local variables of each Drive command
    driveCalls,
    opened      \* history: the files the reader has read

googleVars == <<calendar, token, fetch, calendarAnswer, stored, selections, driveCall, driveCalls, opened>>
driveVars == <<stored, selections, driveCall, driveCalls, opened>>

NoFetch == [pc |-> "idle", interactive |-> FALSE, token |-> 0, again |-> FALSE, pages |-> 0, items |-> <<>>,
            oversize |-> FALSE, more |-> TRUE]
NoAnswer == [status |-> "none", free |-> {}, available |-> 0, busy |-> 0, availability |-> "none"]
Unselected == [f \in Files |-> "none"]
NoDriveCall == [kind |-> "none", pc |-> "rest", file |-> "none", seen |-> Unselected]

GoogleInit ==
    /\ calendar \in CalendarEvents
    /\ token = [cached |-> 0, good |-> {}, issued |-> 0, granted |-> FALSE]
    /\ fetch = NoFetch
    /\ calendarAnswer = NoAnswer
    /\ stored = Unselected
    /\ selections = [of |-> Unselected, loaded |-> FALSE]
    /\ driveCall = [k \in DriveCalls |-> NoDriveCall]
    /\ driveCalls = 0
    /\ opened = {}

-----------------------------------------------------------------------------
(* Free intervals *)

ValidInterval(i) == i.start < i.end
\* parseEvent: an event that cannot be read is malformed, and makes the availability unknown.
ParseEvent(e) == e.kind # "malformed" /\ ValidInterval(e)
InWindow(e) == e.end > Opens /\ e.start < Closes
Latest(a, b) == IF a > b THEN a ELSE b
Earliest(a, b) == IF a < b THEN a ELSE b
Clip(e) == [start |-> Latest(e.start, Opens), end |-> Earliest(e.end, Closes)]

\* mergeIntervals: the intervals by their start, each added to those before it
ByStart(intervals) ==
    CHOOSE s \in [1..Cardinality(intervals) -> intervals] :
        /\ \A i \in intervals : \E n \in DOMAIN s : s[n] = i
        /\ \A m, n \in DOMAIN s : m < n => s[m].start <= s[n].start
Extended(merged, i) ==
    IF merged = <<>> \/ i.start > Last(merged).end THEN Append(merged, i)
    ELSE IF i.end > Last(merged).end THEN [merged EXCEPT ![Len(merged)].end = i.end]
    ELSE merged
MergeIntervals(intervals) ==
    LET merged[n \in 0..Cardinality(intervals)] ==
            IF n = 0 THEN <<>> ELSE Extended(merged[n - 1], ByStart(intervals)[n])
    IN merged[Cardinality(intervals)]

MinutesBetween(i) == i.end - i.start

\* calculateAvailability, of the events that take up time: the gaps before each interval and after the last
GapBefore(s, i) ==
    LET gap == [start |-> s.at, end |-> i.start]
    IN IF s.at < i.start
       THEN [free |-> s.free \union {gap}, available |-> s.available + MinutesBetween(gap), at |-> Latest(s.at, i.end)]
       ELSE [s EXCEPT !.at = Latest(s.at, i.end)]
Gaps(merged) ==
    LET swept[n \in 0..Len(merged)] ==
            IF n = 0 THEN [free |-> {}, available |-> 0, at |-> Opens] ELSE GapBefore(swept[n - 1], merged[n])
    IN GapBefore(swept[Len(merged)], [start |-> Closes, end |-> Closes])
Unknown == [status |-> "unknown", free |-> {}, available |-> 0, busy |-> 0]
CalculateAvailability(events, truncated, malformed) ==
    LET taken == {i \in {Clip(e) : e \in {e \in events : e.kind = "opaque"}} : ValidInterval(i)}
        gaps == Gaps(MergeIntervals(taken))
    IN IF truncated \/ malformed THEN Unknown
       ELSE [status |-> "known", free |-> gaps.free, available |-> gaps.available,
             busy |-> Latest(0, Closes - Opens - gaps.available)]

\* buildCalendarSnapshot
\* fault: only the number of events tells that there are more.
TruncatedByCount(f) == Len(f.items) > MaxEvents \/ f.oversize
Truncated(f) == (f.pages >= MaxPages /\ f.more) \/ Len(f.items) > MaxEvents \/ f.oversize
BuildCalendarSnapshot(f) ==
    LET bounded == SubSeq(f.items, 1, Earliest(Len(f.items), MaxEvents))
        parsed == {e \in ToSet(bounded) : ParseEvent(e)}
        a == CalculateAvailability({e \in parsed : InWindow(e)}, Truncated(f), parsed # ToSet(bounded))
    IN [status |-> "connected", free |-> a.free, available |-> a.available, busy |-> a.busy, availability |-> a.status]

-----------------------------------------------------------------------------
(* The calendar commands *)

CalendarEnds(status) ==
    /\ calendarAnswer' = [NoAnswer EXCEPT !.status = status]
    /\ fetch' = NoFetch
Fetching(f) == fetch' = f /\ UNCHANGED calendarAnswer

\* connect and reauthenticate ask the student, refresh does not.
Connect == fetch = NoFetch /\ Fetching([NoFetch EXCEPT !.pc = "token", !.interactive = TRUE]) /\ UNCHANGED token
Refresh == fetch = NoFetch /\ Fetching([NoFetch EXCEPT !.pc = "token"]) /\ UNCHANGED token
Disconnect == fetch = NoFetch /\ Fetching([NoFetch EXCEPT !.pc = "revoke"]) /\ UNCHANGED token

\* chrome.identity.getAuthToken: the cached token, or a new one if the student has granted it, or does so now.
CanIssue(interactive) == token.issued < MaxTokens /\ (token.granted \/ interactive)
Issued == [cached |-> token.issued + 1, good |-> token.good \union {token.issued + 1}, issued |-> token.issued + 1,
           granted |-> TRUE]
GetAuthToken ==
    /\ fetch.pc \in {"token", "replace"}
    /\ \/ /\ token.cached # 0
          /\ Fetching([fetch EXCEPT !.pc = "pages", !.token = token.cached]) /\ UNCHANGED token
       \/ /\ token.cached = 0 /\ CanIssue(fetch.interactive /\ fetch.pc = "token")
          /\ token' = Issued
          /\ Fetching([fetch EXCEPT !.pc = "pages", !.token = token.issued + 1])
       \/ /\ token.cached = 0
          /\ CalendarEnds(IF fetch.pc = "token" /\ fetch.interactive THEN "unavailable" ELSE "reauth_required")
          /\ UNCHANGED token

\* A page of the events: the next few of them, and whether there are more.
FetchPage ==
    LET seen == Len(fetch.items)
    IN /\ fetch.pc = "pages" /\ fetch.token \in token.good
       /\ \E n \in 0..(PageSize + 1) :
             LET more == seen + n < Len(calendar)
                 f == [fetch EXCEPT !.items = @ \o SubSeq(calendar, seen + 1, seen + n), !.pages = @ + 1,
                                    !.more = more, !.oversize = @ \/ n > PageSize]
                 enough == n > MaxEvents \/ ~more \/ f.pages = MaxPages
             IN /\ seen + n <= Len(calendar)
                /\ IF enough THEN calendarAnswer' = BuildCalendarSnapshot(f) /\ fetch' = NoFetch
                   ELSE Fetching(f)
       /\ UNCHANGED token
\* No connection, an error of the service, or a page that cannot be read.
FetchFails == fetch.pc = "pages" /\ CalendarEnds("unavailable") /\ UNCHANGED token

\* A refused token leaves the cache, if Chrome lets it; the pages are read again with the next one, once.
Refused ==
    /\ fetch.pc = "pages" /\ fetch.token \notin token.good
    /\ token' \in {token, [token EXCEPT !.cached = IF @ = fetch.token THEN 0 ELSE @]}
    /\ IF fetch.again THEN CalendarEnds("reauth_required")
       ELSE Fetching([NoFetch EXCEPT !.pc = "replace", !.again = TRUE])

\* disconnect: the cached token is revoked, if Google can be reached, and forgotten.
RevokeToken ==
    /\ fetch.pc = "revoke"
    /\ \/ token' \in {[token EXCEPT !.cached = 0], [token EXCEPT !.cached = 0, !.good = {}, !.granted = FALSE]}
       \/ UNCHANGED token
    /\ CalendarEnds("not_connected")

\* Outside the extension: a token expires, the calendar is another one the next time.
TokenExpires == \E t \in token.good : token' = [token EXCEPT !.good = @ \ {t}] /\ UNCHANGED <<fetch, calendarAnswer>>

CalendarNext ==
    /\ \/ Connect \/ Refresh \/ Disconnect \/ GetAuthToken \/ FetchPage \/ FetchFails \/ Refused \/ RevokeToken
       \/ TokenExpires
    /\ UNCHANGED <<calendar, driveVars>>

-----------------------------------------------------------------------------
(* The Drive commands *)

DriveGoto(k, pc) == driveCall' = [driveCall EXCEPT ![k].pc = pc]
DriveEnds(k) == driveCall' = [driveCall EXCEPT ![k] = NoDriveCall]

\* select, read, deselect, refresh up to ensureLoaded; refresh forgets first.
DriveCommand(k, kind, f) ==
    /\ driveCall[k] = NoDriveCall /\ driveCalls < MaxDriveCalls
    /\ driveCalls' = driveCalls + 1
    /\ LET loaded == selections.loaded /\ kind # "refresh"
           next == IF loaded THEN "loaded" ELSE "load"
       IN /\ driveCall' = [driveCall EXCEPT ![k] = [kind |-> kind, pc |-> next, file |-> f, seen |-> Unselected]]
          /\ selections' = IF kind = "refresh" THEN [of |-> Unselected, loaded |-> FALSE] ELSE selections
    /\ UNCHANGED <<stored, opened>>
\* ensureLoaded reads the store, which may fail, ...
LoadStored(k) ==
    /\ driveCall[k].pc = "load"
    /\ \/ driveCall' = [driveCall EXCEPT ![k].pc = "fill", ![k].seen = stored]
       \/ DriveEnds(k)
    /\ UNCHANGED <<stored, selections, driveCalls, opened>>
\* ... and replaces what is in memory.
EnsureLoaded(k) ==
    /\ driveCall[k].pc = "fill"
    /\ selections' = [of |-> driveCall[k].seen, loaded |-> TRUE]
    /\ DriveGoto(k, "loaded")
    /\ UNCHANGED <<stored, driveCalls, opened>>

\* select: the provider gives a file, nothing, one that may not be selected, or fails.
SelectFile(k) ==
    /\ driveCall[k].pc = "loaded" /\ driveCall[k].kind = "select"
    /\ \/ \E f \in Files : selections.of[f] = "none" /\ stored[f] = "none"
                           /\ driveCall' = [driveCall EXCEPT ![k].pc = "save", ![k].file = f]
       \/ DriveEnds(k)
    /\ UNCHANGED <<stored, selections, driveCalls, opened>>
\* read: the file must be one of those selected in memory, and the reader may fail.
ReadFile(k) ==
    /\ driveCall[k].pc = "loaded" /\ driveCall[k].kind = "read"
    /\ \/ /\ selections.of[driveCall[k].file] # "none"
          /\ DriveGoto(k, "save")
          /\ opened' = opened \union {driveCall[k].file}
       \/ DriveEnds(k) /\ UNCHANGED opened
    /\ UNCHANGED <<stored, selections, driveCalls>>
Deselect(k) ==
    /\ driveCall[k].pc = "loaded" /\ driveCall[k].kind = "deselect"
    /\ IF selections.of[driveCall[k].file] = "none" THEN DriveEnds(k) ELSE DriveGoto(k, "save")
    /\ UNCHANGED <<stored, selections, driveCalls, opened>>
RefreshEnds(k) ==
    /\ driveCall[k].pc = "loaded" /\ driveCall[k].kind = "refresh"
    /\ DriveEnds(k)
    /\ UNCHANGED <<stored, selections, driveCalls, opened>>

\* ChromeDriveSelectionStorage.save and remove read all the records, ...
ReadRecords(k) ==
    /\ driveCall[k].pc = "save"
    /\ \/ driveCall' = [driveCall EXCEPT ![k].pc = "write", ![k].seen = stored]
       \/ DriveEnds(k)
    /\ UNCHANGED <<stored, selections, driveCalls, opened>>
\* ... and write them all, with the one record changed; ...
Becoming(kind) == CASE kind = "select" -> "selected" [] kind = "read" -> "read" [] OTHER -> "none"
WriteRecords(k) ==
    LET c == driveCall[k]
    IN /\ c.pc = "write"
       /\ stored' = [c.seen EXCEPT ![c.file] = Becoming(c.kind)]
       /\ DriveGoto(k, "remember")
       /\ UNCHANGED <<selections, driveCalls, opened>>
\* ... memory follows.
Remember(k) ==
    /\ driveCall[k].pc = "remember"
    /\ selections' = [selections EXCEPT !.of[driveCall[k].file] = Becoming(driveCall[k].kind)]
    /\ DriveEnds(k)
    /\ UNCHANGED <<stored, driveCalls, opened>>

DriveNext ==
    /\ \E k \in DriveCalls :
          \/ DriveCommand(k, "select", "none") \/ DriveCommand(k, "refresh", "none")
          \/ \E f \in Files : DriveCommand(k, "read", f) \/ DriveCommand(k, "deselect", f)
          \/ LoadStored(k) \/ EnsureLoaded(k) \/ SelectFile(k) \/ ReadFile(k) \/ Deselect(k) \/ RefreshEnds(k)
          \/ ReadRecords(k) \/ WriteRecords(k) \/ Remember(k)
    /\ UNCHANGED <<calendar, token, fetch, calendarAnswer>>

GoogleNext == CalendarNext \/ DriveNext
GoogleSpec == GoogleInit /\ [][GoogleNext]_googleVars

-----------------------------------------------------------------------------
(* Properties *)

\* A minute the connector calls free is free in the whole calendar, and the other
\* way round: what the pages left out, what could not be read, events that
\* overlap, touch or leave the window do not make a known answer wrong
\* (calculateAvailability, buildCalendarSnapshot).
FreeIsFree ==
    calendarAnswer.availability = "known" =>
        LET minutes == UNION {i.start..(i.end - 1) : i \in calendarAnswer.free}
            taken == {m \in Opens..(Closes - 1) :
                        \E n \in DOMAIN calendar : LET e == calendar[n]
                                                   IN e.kind # "transparent" /\ e.start <= m /\ m < e.end}
        IN /\ minutes = (Opens..(Closes - 1)) \ taken
           /\ calendarAnswer.available = Cardinality(minutes)
           /\ calendarAnswer.busy = Cardinality(taken)
           /\ \A i, j \in calendarAnswer.free : i # j => i.end < j.start \/ j.end < i.start

\* A file is shown as read, with a reference to cite, only after the reader has
\* read it, whatever other commands wrote in between (read, save).
EvidenceIsRead == \A f \in Files : "read" \in {stored[f], selections.of[f]} => f \in opened
=============================================================================
