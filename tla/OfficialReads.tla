--------------------------- MODULE OfficialReads ---------------------------
(***************************************************************************)
(* Reads of the official sites by the service worker                       *)
(* (background/service-worker.ts, background/library-navigation.ts): the   *)
(* library catalogue, My Library, discovery and any page, each in a        *)
(* background tab of its own that is closed afterwards; Moodle and CAST in *)
(* a tab the student has open.                                             *)
(*                                                                         *)
(* A search submits a form on the site's entry page, after which the tab   *)
(* shows the old page until the new one commits.  Two waits are used: for  *)
(* a tab that is not loading, which may still show the old page, and for a *)
(* tab that shows an expected address.                                     *)
(*                                                                         *)
(* A page is the site's entry page, the page of one target (a query, a     *)
(* record, a list or an address), a login page, or another one.  What it   *)
(* says is left out.  The entry page of the catalogue lists records too,   *)
(* so that reading it succeeds.  Permissions are as granted: without one a *)
(* read ends at once.  Timeouts may come at any time during a wait.        *)
(***************************************************************************)
EXTENDS Naturals, FiniteSets

CONSTANTS
    Readers,    \* read requests that may be under way at once
    Targets,    \* queries, records, lists and addresses
    MaxReads    \* bound on the reads made (model checking only)

VARIABLES
    read,       \* the local variables of each request
    readTab,    \* the background tab of each request
    student,    \* what the student's own tab of each site shows
    reads,      \* how many reads there have been
    answers     \* history: for each request, the kind, target and page of its last known answer

officialVars == <<read, readTab, student, reads, answers>>

\* The reads that start on an entry page, and the sites whose reads use the student's tab.
FormKinds == {"search", "discovery", "section", "both"}
Sites == {"moodle", "cast"}
SiteOf == [moodle |-> "moodle", cast |-> "cast", alumni |-> "cast", castSearch |-> "cast", career |-> "cast"]

NoRead == [kind |-> "none", pc |-> "idle", target |-> "none", left |-> 0]
NoTab == [page |-> "none", loading |-> FALSE, next |-> "none"]
NoAnswer == [kind |-> "none", target |-> "none", page |-> "none"]

OfficialInit ==
    /\ read = [r \in Readers |-> NoRead]
    /\ readTab = [r \in Readers |-> NoTab]
    /\ student \in [Sites -> {"none", "login", "other", "target"}]
    /\ reads = 0
    /\ answers = [r \in Readers |-> NoAnswer]

\* The target's page is named by the target; entry, login and other are the rest.
First(kind, t) == IF kind \in FormKinds THEN "entry" ELSE t
OpenedAt(kind, t) == [page |-> "blank", loading |-> TRUE, next |-> First(kind, t)]
ReadGoes(r, pc) == read' = [read EXCEPT ![r].pc = pc]

\* The finally of every handler: the tab is removed, and the read is over.
Over(r) ==
    /\ read' = [read EXCEPT ![r] = NoRead]
    /\ readTab' = [readTab EXCEPT ![r] = NoTab]

-----------------------------------------------------------------------------
(* The browser.                                                             *)

\* A navigation commits and completes: at its address, or redirected.
TabArrives(r) ==
    /\ readTab[r].loading
    /\ \E page \in {readTab[r].next, "login", "other"} :
         readTab' = [readTab EXCEPT ![r] = [page |-> page, loading |-> FALSE, next |-> "none"]]
    /\ UNCHANGED <<read, student, reads, answers>>

\* A navigation that a script asked for begins.
TabLeaves(r) ==
    /\ ~readTab[r].loading /\ readTab[r].next # "none"
    /\ readTab' = [readTab EXCEPT ![r].loading = TRUE]
    /\ UNCHANGED <<read, student, reads, answers>>

\* The student closes the background tab, or uses the own one.
TabCloses(r) ==
    /\ readTab[r].page \notin {"none", "gone"}
    /\ readTab' = [readTab EXCEPT ![r] = [NoTab EXCEPT !.page = "gone"]]
    /\ UNCHANGED <<read, student, reads, answers>>

StudentMoves(s) ==
    /\ \E page \in {"none", "login", "other", "target"} :
         page # student[s] /\ student' = [student EXCEPT ![s] = page]
    /\ UNCHANGED <<read, readTab, reads, answers>>

-----------------------------------------------------------------------------
(* Reads in a tab of their own.                                             *)

\* createLibraryTab and its like: chrome.tabs.create, in the background.
Open(r, kind, t) ==
    /\ read[r] = NoRead
    /\ reads < MaxReads
    /\ reads' = reads + 1
    /\ read' = [read EXCEPT ![r] = [kind |-> kind, pc |-> IF kind = "item" THEN "wait" ELSE "ready", target |-> t,
                                    left |-> IF kind = "both" THEN 1 ELSE 0]]
    /\ readTab' = [readTab EXCEPT ![r] = OpenedAt(kind, t)]
    /\ UNCHANGED <<student, answers>>

CatalogSearch(r, t) == Open(r, "search", t)
ItemRead(r, t) == Open(r, "item", t)
CatalogBrowse(r, t) == Open(r, "browse", t)
DiscoverySearch(r, t) == Open(r, "discovery", t)
BrowserRead(r, t) == Open(r, "browser", t)
MyLibraryRead(r, t) == Open(r, "section", t) \/ Open(r, "both", t)

\* waitForTabReady, also when its timeout is over: the tab may still load, or show an older page.
TabReady(r) ==
    /\ read[r].pc \in {"ready", "shown"}
    /\ ReadGoes(r, IF read[r].pc = "ready" /\ read[r].kind \in FormKinds THEN "submit" ELSE "read")
    /\ UNCHANGED <<readTab, student, reads, answers>>

\* submitLibraryCatalogSearchInPage, submitLibraryDiscoverySearchInPage, clickMyLibraryMenuInPage, on the entry page.
SubmitForm(r) ==
    /\ read[r].pc = "submit" /\ readTab[r].page = "entry"
    /\ readTab' = [readTab EXCEPT ![r].next = read[r].target]
    /\ ReadGoes(r, IF read[r].kind = "discovery" THEN "shown" ELSE "wait")
    /\ UNCHANGED <<student, reads, answers>>

\* keepForLogin: My Library's login page is handed to the student, and the tab is not closed.
KeepForLogin(r) ==
    /\ read[r].pc = "submit" /\ read[r].kind \in {"section", "both"}
    /\ readTab[r].page = "login"
    /\ Over(r)
    /\ UNCHANGED <<student, reads, answers>>

\* waitForLibraryNavigation, waitForMyLibraryStatusPage: the expected address, complete.
\* fault: any page that is not loading will do.
NavigatedAny(r) ==
    /\ read[r].pc = "wait"
    /\ ~readTab[r].loading
    /\ ReadGoes(r, "read")
    /\ UNCHANGED <<readTab, student, reads, answers>>
Navigated(r) ==
    /\ read[r].pc = "wait"
    /\ ~readTab[r].loading /\ readTab[r].page = read[r].target
    /\ ReadGoes(r, "read")
    /\ UNCHANGED <<readTab, student, reads, answers>>

\* Another page than the expected one, a timeout, a script that fails, a page without the structure.
GiveUp(r) ==
    /\ read[r].pc # "idle" /\ readTab[r] # NoTab
    /\ read[r].pc = "ready" => readTab[r].page = "gone"
    /\ Over(r)
    /\ UNCHANGED <<student, reads, answers>>

\* readLibraryCatalogPage and the like, in the page shown now: what kind of read accepts which page.
Readable(r) ==
    LET page == readTab[r].page IN
    \/ page = read[r].target
    \/ page = "entry" /\ read[r].kind \in {"search", "browse"}

\* A page that was read; the older My Library read opens its second page.
ReadPage(r) ==
    /\ read[r].pc = "read" /\ Readable(r)
    /\ answers' = [answers EXCEPT ![r] = [kind |-> read[r].kind, target |-> read[r].target, page |-> readTab[r].page]]
    /\ IF read[r].left = 0 THEN Over(r)
       ELSE /\ read' = [read EXCEPT ![r].pc = "ready", ![r].left = @ - 1]
            /\ readTab' = [readTab EXCEPT ![r] = OpenedAt(read[r].kind, read[r].target)]
    /\ UNCHANGED <<student, reads>>

-----------------------------------------------------------------------------
(* Reads in the student's tab.                                              *)

AskOwn(r, kind) ==
    /\ read[r] = NoRead
    /\ reads < MaxReads
    /\ reads' = reads + 1
    /\ read' = [read EXCEPT ![r] = [NoRead EXCEPT !.kind = kind, !.pc = "find"]]
    /\ UNCHANGED <<readTab, student, answers>>

MoodleRead(r) == AskOwn(r, "moodle")
CastRead(r) == AskOwn(r, "cast")
CastAlumniRead(r) == AskOwn(r, "alumni")
CastSearch(r) == AskOwn(r, "castSearch")
CastCareerSearch(r) == AskOwn(r, "career")

\* chrome.tabs.query: a tab that shows the site's page; a search takes any page but the login.
Shown(r, pages) == student[SiteOf[read[r].kind]] \in pages
Candidates(r) == IF read[r].kind = "moodle" \/ read[r].kind = "cast" THEN {"target"} ELSE {"target", "other"}
FindOwnTab(r) ==
    /\ read[r].pc \in {"find", "again"}
    /\ Shown(r, Candidates(r))
    /\ ReadGoes(r, "inject")
    /\ UNCHANGED <<readTab, student, reads, answers>>

\* openMoodleEntry, openCastEntry: the student's tab, or a new one, is shown; a search waits and looks once more.
OpenEntry(r) ==
    LET s == SiteOf[read[r].kind] IN
    /\ read[r].pc \in {"find", "again"}
    /\ ~Shown(r, Candidates(r))
    /\ IF read[r].pc = "find"
       THEN \E page \in {"login", "target"} : student' = [student EXCEPT ![s] = IF @ = "login" THEN @ ELSE page]
       ELSE UNCHANGED student
    /\ IF read[r].pc = "find" /\ read[r].kind \in {"castSearch", "career"}
       THEN ReadGoes(r, "again") /\ UNCHANGED readTab
       ELSE Over(r)
    /\ UNCHANGED <<reads, answers>>

\* executeScript or sendMessage, in the page the tab shows by then; its reader refuses any other.
\* A career search goes on with support pages, each in a tab of its own.
InjectReader(r) ==
    /\ read[r].pc = "inject"
    /\ \/ /\ Shown(r, {"target"})
          /\ answers' = [answers EXCEPT ![r] = [kind |-> read[r].kind, target |-> "target", page |-> "target"]]
          /\ \/ Over(r)
             \/ /\ read[r].kind = "career"
                /\ \E t \in Targets :
                     /\ read' = [read EXCEPT ![r] = [kind |-> "support", pc |-> "ready", target |-> t, left |-> 0]]
                     /\ readTab' = [readTab EXCEPT ![r] = OpenedAt("support", t)]
       \/ /\ ~Shown(r, {"target"})
          /\ Over(r)
          /\ UNCHANGED answers
    /\ UNCHANGED <<student, reads>>

OfficialNext ==
    \/ \E r \in Readers :
        \/ TabArrives(r) \/ TabLeaves(r) \/ TabCloses(r) \/ TabReady(r) \/ SubmitForm(r) \/ KeepForLogin(r)
        \/ Navigated(r) \/ GiveUp(r) \/ ReadPage(r) \/ FindOwnTab(r) \/ OpenEntry(r) \/ InjectReader(r)
        \/ \E t \in Targets :
            \/ CatalogSearch(r, t) \/ ItemRead(r, t) \/ CatalogBrowse(r, t) \/ DiscoverySearch(r, t)
            \/ BrowserRead(r, t) \/ MyLibraryRead(r, t)
        \/ MoodleRead(r) \/ CastRead(r) \/ CastAlumniRead(r) \/ CastSearch(r) \/ CastCareerSearch(r)
    \/ \E s \in Sites : StudentMoves(s)

OfficialSpec == OfficialInit /\ [][OfficialNext]_officialVars

-----------------------------------------------------------------------------
\* The answer to a catalogue search, a record or a section of My Library was read from the page of that
\* query, record or section, never from the page the tab showed before (waitForLibraryNavigation).
AnswersItsTarget ==
    \A r \in Readers :
        answers[r].kind \in {"search", "item", "section", "both"} => answers[r].page = answers[r].target
=============================================================================
