----------------------------- MODULE CastCareer -----------------------------
(***************************************************************************)
(* The search across the surfaces of the career system CAST: the content   *)
(* script reads one surface after the other                                *)
(* (apps/extension/src/content/cast-career-source-runtime.ts), the service *)
(* worker adds the support pages it read in a tab of its own, the agent is *)
(* told how much was read, and the panel ranks the rows and groups them by *)
(* company (cast-cross-search.ts).                                         *)
(*                                                                         *)
(* A row is the company it is about, or NoCompany.  Of the surfaces that   *)
(* are searched alike one stands for all: "job" for internships and        *)
(* sessions, "recording" for career events.  The ways a read can fail are  *)
(* one: "failed".  Of the conditions of a request two count: a place, in   *)
(* the rows of jobs, and a contact (OB/OG), in those of the companies.     *)
(***************************************************************************)
EXTENDS Naturals, FiniteSets, Sequences, SequencesExt

CONSTANTS
    Companies,
    NoCompany,      \* what a row without a company is about
    SurfaceSets,    \* the surfaces requests name
    Limits          \* limits on the rows shown

VARIABLES
    site,       \* what CAST has: companies with a job, linked from the search, with a contact
    career,     \* the local variables of the call
    told,       \* what the agent is told: the status, and the status of each surface
    shown,      \* the companies the panel shows
    missed      \* history: the surfaces of which a read failed

careerVars == <<site, career, told, shown, missed>>

Direct == {"job", "company", "hiring_record"}   \* DIRECT_SURFACE_KIND
History == {"hiring_record", "selection_report"}
Conditions == SUBSET {"place", "contact"}

NoCareer == [pc |-> "idle", surfaces |-> {}, required |-> {}, limit |-> 0, todo |-> {}, results |-> <<>>,
             linked |-> {}, page |-> "none", read |-> {}]
NothingTold == [status |-> "none", of |-> [s \in {} |-> "none"], local |-> "none"]

CareerInit ==
    /\ site \in [jobs : SUBSET Companies, linked : SUBSET Companies, contacts : SUBSET Companies]
    /\ career = NoCareer
    /\ told = NothingTold
    /\ shown = {}
    /\ missed = {}

-----------------------------------------------------------------------------
(* Results of the surfaces *)

Result(surface, status, rows) == [surface |-> surface, status |-> status, rows |-> rows]
SearchSurfaceResult(surface, known, rows) == Result(surface, IF known THEN "known" ELSE "failed", IF known THEN rows ELSE {})
PendingSupportResult(surface) == Result(surface, "partial", {})
\* Rows that belong to no company: what a page of counseling slots, or a support page, gives.
CounselingItems == {NoCompany}
SupportItems == {NoCompany}
\* fetchCastDocument: a page of CAST, or one of the ways to fail
FetchCastDocument == BOOLEAN
\* supportLinks: whether the front page has the link
SupportLinks == BOOLEAN

Places(results, surface) == {i \in DOMAIN results : results[i].surface = surface}
\* fault: a surface keeps the rows it already has.
ReplacedOnce(results, r) == IF Places(results, r.surface) = {} THEN Append(results, r) ELSE results
\* replaceSurfaceResult
Replaced(results, r) ==
    IF Places(results, r.surface) = {} THEN Append(results, r)
    ELSE [results EXCEPT ![CHOOSE i \in Places(results, r.surface) : \A j \in Places(results, r.surface) : i <= j] = r]
\* The same for the surfaces of the history, one after the other
HistoryAdded(results, surfaces, status) ==
    LET first == IF "hiring_record" \in surfaces THEN Append(results, Result("hiring_record", status, {})) ELSE results
    IN IF "selection_report" \in surfaces THEN Append(first, Result("selection_report", status, {})) ELSE first
HistoryReplaced(results, surfaces, status, rows) ==
    LET first == IF "hiring_record" \in surfaces THEN Replaced(results, Result("hiring_record", status, rows)) ELSE results
    IN IF "selection_report" \in surfaces THEN Replaced(first, Result("selection_report", status, rows)) ELSE first

\* overallStatus
OverallStatus(results) ==
    LET known == {i \in DOMAIN results : results[i].status = "known"}
    IN IF known = {} THEN (IF results # <<>> THEN results[1].status ELSE "failed")
       ELSE IF known # DOMAIN results THEN "partial" ELSE "known"

-----------------------------------------------------------------------------
(* runCastCareerSourceSearch *)

Goto(pc) == career' = [career EXCEPT !.pc = pc]
Wants(surfaces) == career.surfaces \intersect surfaces
Reads(ok, surfaces) == missed' = IF ok THEN missed ELSE missed \union Wants(surfaces)

RunCastCareerSourceSearch(surfaces, required, limit) ==
    /\ career.pc = "idle"
    /\ career' = [NoCareer EXCEPT !.pc = "direct", !.surfaces = surfaces, !.required = required, !.limit = limit,
                                  !.todo = surfaces \intersect Direct]
    /\ told' = NothingTold /\ shown' = {} /\ missed' = {}
    /\ UNCHANGED site

\* No permission, no CAST page open, or no answer from it: no surface could be read (handleCastCareerSearch).
Unavailable(surfaces) ==
    LET list == SetToSeq(surfaces) IN [i \in DOMAIN list |-> Result(list[i], "failed", {})]
NoCastPage(surfaces) ==
    /\ career.pc = "idle"
    /\ career' = [NoCareer EXCEPT !.pc = "answer", !.surfaces = surfaces, !.results = Unavailable(surfaces)]
    /\ told' = NothingTold /\ shown' = {} /\ missed' = surfaces
    /\ UNCHANGED site

\* The rows a search finds; the form of the companies knows no conditions (safeSearchFilters).
DirectRows(surface) == IF surface = "job" THEN site.jobs ELSE site.linked
\* One search, with its condition and its pages (directRequest, CastSearch); that of the companies leaves
\* the page it has read, even when its structure is not the known one.
ReadDirect(surface, known) ==
    /\ career.pc = "direct" /\ surface \in career.todo
    /\ \E page \in IF surface # "company" THEN {career.page} ELSE IF known THEN {"result"} ELSE {"none", "result"} :
          career' = [career EXCEPT !.todo = @ \ {surface}, !.page = page,
                                   !.linked = IF page = "result" THEN site.linked ELSE @,
                                   !.results = Append(@, SearchSurfaceResult(surface, known, DirectRows(surface)))]
    /\ Reads(known, {surface})
    /\ UNCHANGED <<site, told, shown>>
DirectDone ==
    /\ career.pc = "direct" /\ career.todo = {}
    /\ Goto(IF Wants({"counseling"}) # {} THEN "counseling" ELSE "companies")
    /\ UNCHANGED <<site, told, shown, missed>>

ReadCounseling(known) ==
    /\ career.pc = "counseling"
    /\ career' = [career EXCEPT !.pc = "companies",
                                !.results = Append(@, SearchSurfaceResult("counseling", known, CounselingItems))]
    /\ Reads(known, {"counseling"})
    /\ UNCHANGED <<site, told, shown>>

\* The companies whose details are needed: those of the search already done, or of one for them alone, which
\* may fail and still leave a page - that of the result, or the form.
ReadCompanies(known, page) ==
    /\ career.pc = "companies" /\ Wants(History \union {"company"}) # {} /\ career.page = "none"
    /\ known => page = "result"
    /\ career' = [career EXCEPT !.pc = "links", !.page = page,
                                !.linked = IF page = "result" THEN site.linked ELSE {},
                                !.results = IF known THEN @ ELSE HistoryAdded(@, career.surfaces, "failed")]
    /\ Reads(known, History)
    /\ UNCHANGED <<site, told, shown>>
CompaniesKnown ==
    /\ career.pc = "companies" /\ (Wants(History \union {"company"}) = {} \/ career.page # "none")
    /\ Goto(IF Wants(History \union {"company"}) = {} THEN "top" ELSE "links")
    /\ UNCHANGED <<site, told, shown, missed>>

\* companyReferences: without a page, or a link on it, there is no history.
CompanyReferences ==
    LET unread == {s \in Wants(History) : \E i \in Places(career.results, s) : career.results[i].status = "known"}
    IN /\ career.pc = "links"
       /\ career' = [career EXCEPT !.pc = IF Wants(History) = {} \/ career.linked = {} THEN "top" ELSE "details",
                                   !.todo = career.linked,
                                   !.results = IF career.page = "none" THEN HistoryReplaced(@, unread, "failed", {})
                                               ELSE IF career.linked = {} THEN HistoryReplaced(@, career.surfaces, "failed", {})
                                               ELSE @]
       /\ Reads(career.linked # {}, History)
       /\ UNCHANGED <<site, told, shown>>

\* readCompanyHistory: the page of the company, and the sections that are asked for
ReadCompanyHistory(company, known) ==
    /\ career.pc = "details" /\ company \in career.todo
    /\ career' = [career EXCEPT !.todo = @ \ {company}, !.read = IF known THEN @ \union {company} ELSE @]
    /\ Reads(known, History)
    /\ UNCHANGED <<site, told, shown>>
\* historyItems: one row for every company whose history was read; they take the place of the rows of the search,
\* also when that failed.
HistoryRows ==
    LET status == IF career.read = career.linked THEN "known" ELSE IF career.read # {} THEN "partial" ELSE "failed"
    IN /\ career.pc = "details" /\ career.todo = {}
       /\ career' = [career EXCEPT !.pc = "top", !.results = HistoryReplaced(@, career.surfaces, status, career.read)]
       /\ missed' = IF status = "known" THEN missed \ History ELSE missed
       /\ UNCHANGED <<site, told, shown>>

\* supportLinks: the front page, and whether it has the link
ReadTop(known, link) ==
    /\ career.pc = "top" /\ Wants({"recording"}) # {}
    /\ career' = [career EXCEPT !.pc = IF known /\ link THEN "support" ELSE "answer",
                                !.results = Append(@, IF known /\ link THEN PendingSupportResult("recording")
                                                      ELSE Result("recording", "failed", {}))]
    /\ Reads(known /\ link, {"recording"})
    /\ UNCHANGED <<site, told, shown>>
NoTop ==
    /\ career.pc = "top" /\ Wants({"recording"}) = {}
    /\ Goto("answer")
    /\ UNCHANGED <<site, told, shown, missed>>

\* The service worker reads the support page in a tab of its own (readCastSupportPage).
ReadCastSupportPage(known) == SearchSurfaceResult("recording", known, SupportItems)
\* mergeCastCareerSupportLocalResult
MergeSupport(known) ==
    /\ career.pc = "support"
    /\ career' = [career EXCEPT !.pc = "answer",
                                !.results = Replaced(@, ReadCastSupportPage(known))]
    /\ Reads(known, {"recording"})
    /\ UNCHANGED <<site, told, shown>>

-----------------------------------------------------------------------------
(* The answer: what the agent is told, and what the panel shows *)

\* projectCastCareerForAgent: of a surface listed twice the last counts
CoverageOf(results, surface) ==
    LET at == Places(results, surface)
    IN IF at = {} THEN Result(surface, "failed", {}) ELSE results[CHOOSE i \in at : \A j \in at : i >= j]
ProjectForAgent(results, surfaces) ==
    LET of == [s \in surfaces |-> CoverageOf(results, s).status]
        partial == {s \in surfaces : of[s] = "partial"}
        failed == {s \in surfaces : of[s] # "known"}
        readable == {s \in surfaces : of[s] = "known" \/ (of[s] = "partial" /\ CoverageOf(results, s).rows # {})}
        status == IF failed # {} THEN (IF readable # {} THEN "partial" ELSE "failed")
                  ELSE IF OverallStatus(results) = "partial" THEN "partial" ELSE "known"
    IN [status |-> status, of |-> of, local |-> OverallStatus(results)]

\* rankCastCareerItems, groupCastCareerItems.  A row tells what its surface has; a company is shown for
\* what its rows have together.
Rows(results) == UNION {{[surface |-> results[i].surface, company |-> c] : c \in results[i].rows} : i \in DOMAIN results}
Tells(row) ==
    (IF row.surface = "job" THEN {"place"} ELSE {})
      \union (IF row.surface \in History \union {"company"} /\ row.company \in site.contacts THEN {"contact"} ELSE {})
\* fault: a row has to meet the conditions alone.
GroupsRowByRow(rows, required) == {row.company : row \in {x \in rows : required \subseteq Tells(x)}}
Groups(rows, required) ==
    {c \in {row.company : row \in rows} : required \subseteq UNION {Tells(row) : row \in {x \in rows : x.company = c}}}
Ranked(results, required) == {row \in Rows(results) : row.company \in Groups(Rows(results), required)}

Answer ==
    LET rows == Ranked(career.results, career.required)
        readable == ProjectForAgent(career.results, career.surfaces).status \in {"known", "partial"}
        enough == IF Cardinality(rows) < career.limit THEN Cardinality(rows) ELSE career.limit
    IN /\ career.pc = "answer"
       /\ told' = ProjectForAgent(career.results, career.surfaces)
       /\ \E first \in SUBSET rows :
             /\ Cardinality(first) = enough
             /\ shown' = IF readable THEN Groups(first, career.required) ELSE {}
       /\ Goto("over")
       /\ UNCHANGED <<site, missed>>
\* The panel is done with the answer.
Over == career.pc = "over" /\ career' = NoCareer /\ UNCHANGED <<site, told, shown, missed>>

CareerNext ==
    \/ \E surfaces \in SurfaceSets, required \in Conditions, limit \in Limits :
          RunCastCareerSourceSearch(surfaces, required, limit)
    \/ \E surfaces \in SurfaceSets : NoCastPage(surfaces)
    \/ DirectDone \/ CompaniesKnown \/ CompanyReferences \/ HistoryRows \/ NoTop \/ Answer \/ Over
    \/ \E known \in FetchCastDocument :
          \/ \E surface \in Direct : ReadDirect(surface, known)
          \/ ReadCounseling(known)
          \/ \E page \in {"none", "form", "result"} : ReadCompanies(known, page)
          \/ \E company \in Companies : ReadCompanyHistory(company, known)
          \/ \E link \in SupportLinks : ReadTop(known, link)
          \/ MergeSupport(known)

CareerSpec == CareerInit /\ [][CareerNext]_careerVars

-----------------------------------------------------------------------------
(* Properties *)

\* The agent is told that a search is complete only if every read of every surface
\* asked for went well, in the content script and in the worker - for the history
\* of the companies, their details - and the panel is told the same (overallStatus, projectCastCareerForAgent).
CompleteIsComplete == told.status = "known" => missed = {} /\ told.local = "known"

\* A company is shown for what its rows have together, whatever surfaces they come
\* from; a company that has everything asked for is left out only by the limit
\* (rankCastCareerItems, groupCastCareerItems).
ShownTogether ==
    career.pc = "over" =>
        LET rows == Ranked(career.results, career.required)
        IN /\ shown \subseteq {row.company : row \in rows}
           /\ told.status \in {"known", "partial"} /\ Cardinality(rows) <= career.limit =>
                 \A c \in Companies :
                    LET its == {row \in Rows(career.results) : row.company = c}
                    IN its # {} /\ career.required \subseteq UNION {Tells(row) : row \in its} => c \in shown
=============================================================================
