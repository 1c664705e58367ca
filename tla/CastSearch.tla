----------------------------- MODULE CastSearch -----------------------------
(***************************************************************************)
(* A search of the career system CAST, run by the content script in the    *)
(* student's CAST tab (apps/extension/src/content/cast-search-api.ts):     *)
(* the form of the search is loaded, the conditions are filled in, and the *)
(* result is read page by page.  What was not read can be asked for with   *)
(* a cursor, which stands for a kind of search and a page.                 *)
(*                                                                         *)
(* A result is the number of its place in the site's list, so a list is    *)
(* its length.  The site may change it at any time.                        *)
(***************************************************************************)
EXTENDS Integers, FiniteSets, Sequences

CONSTANTS
    Kinds,          \* CastSearchKind
    Conditions,     \* the sets of filters requests name
    Totals,         \* lengths a result list may have
    PageSize,       \* PAGE_SIZE
    MaxPages,       \* maxPages: the pages an exhaustive search reads at most
    MaxItems,       \* MAX_ITEMS
    MaxChanges      \* bound on changes of the site (model checking only)

VARIABLES
    total,      \* the length of the list of each kind, under each set of filters
    form,       \* the controls the search form has, "page" for its page number
    cursors,    \* cursorPages: the cursors given out since the page was loaded
    search,     \* the local variables of runCastSearch
    chain,      \* the caller's results so far, and the cursor it was given for the rest
    changes

castVars == <<total, form, cursors, search, chain, changes>>

NoCursor == [kind |-> "none", page |-> 1]
LostCursor == [kind |-> "lost", page |-> 1]
NoSearch == [pc |-> "idle", kind |-> "none", filters |-> {}, exhaustive |-> FALSE, cursor |-> NoCursor,
             from |-> 1, page |-> 1, first |-> 0, items |-> <<>>, next |-> NoCursor]
\* status: of the last answer; whole: its coverage is complete; steady: one list, from its start
NoChain == [status |-> "none", kind |-> "none", filters |-> {}, items |-> <<>>, next |-> NoCursor, whole |-> FALSE,
            steady |-> TRUE]

CastInit ==
    /\ total \in [Kinds \X Conditions -> Totals]
    /\ form \in SUBSET (UNION Conditions \union {"page"})
    /\ cursors = {}
    /\ search = NoSearch
    /\ chain = NoChain
    /\ changes = 0

-----------------------------------------------------------------------------
(* One page *)

\* collectCastSearchFormCatalog: a form the reader knows has at least one control.
CollectCatalog == form # {}
\* appendText, appendOptions, the page number: every condition has its control.
AppendOptions(filters) == filters \subseteq form
ApplySemanticFilters(filters, page) == AppendOptions(filters) /\ (page > 1 => "page" \in form)
\* totalCount
TotalCount(s) == total[<<s.kind, s.filters>>]
\* parseItems: the results of one page, as long as the page has the known structure
ParseItems(s) ==
    LET before == (s.page - 1) * PageSize
        left == TotalCount(s) - before
    IN [i \in 1..(IF left < 0 THEN 0 ELSE IF left > PageSize THEN PageSize ELSE left) |-> before + i]
\* statusForFetch, fetchDocument: no connection or an error, the session over, too many requests.
FetchStatus == {"unavailable", "reauth_required", "rate_limited"}

Ends(status) ==
    /\ search' = NoSearch
    /\ chain' = [chain EXCEPT !.status = status]
    /\ UNCHANGED <<total, form, cursors, changes>>

\* The caller goes on with the cursor it was given, or begins anew.
Answers(s, whole, next) ==
    LET on == s.cursor # NoCursor
        shown == SubSeq(s.items, 1, IF Len(s.items) > MaxItems THEN MaxItems ELSE Len(s.items))
    IN /\ search' = NoSearch
       /\ chain' = [status |-> "known", kind |-> s.kind, filters |-> s.filters, next |-> next, whole |-> whole,
                    items |-> IF on THEN chain.items \o shown ELSE shown,
                    steady |-> chain.steady /\ (on => s.filters = chain.filters)]

-----------------------------------------------------------------------------
(* runCastSearch *)

\* pageFromCursor
KnownCursor(kind, cursor) == cursor = NoCursor \/ (cursor \in cursors /\ cursor.kind = kind)

IsCastSearchRequest(kind, filters) == kind \in Kinds /\ filters \in Conditions
RunCastSearch(kind, filters, exhaustive, cursor) ==
    /\ search = NoSearch
    /\ IF IsCastSearchRequest(kind, filters) /\ KnownCursor(kind, cursor)
       THEN /\ search' = [NoSearch EXCEPT !.pc = "form", !.kind = kind, !.filters = filters, !.exhaustive = exhaustive,
                                          !.cursor = cursor, !.from = cursor.page, !.page = cursor.page]
            /\ chain' = IF cursor = NoCursor THEN NoChain ELSE chain
            /\ UNCHANGED <<total, form, cursors, changes>>
       ELSE Ends("unavailable")

\* No permission, no CAST page open, or no answer from it (handleCastSearch in the service worker).
NoCastPage == search = NoSearch /\ \E status \in {"unavailable", "reauth_required"} : Ends(status)

FormLoads ==
    /\ search.pc = "form"
    /\ \/ CollectCatalog /\ search' = [search EXCEPT !.pc = "first"] /\ UNCHANGED <<total, form, cursors, chain, changes>>
       \/ ~CollectCatalog /\ Ends("form_changed")
       \/ \E status \in FetchStatus : Ends(status)

\* createCursor, for the page after the one just read
CreateCursor(s) == [kind |-> s.kind, page |-> s.page + 1]
NextCursor(s) == IF TotalCount(s) > s.page * PageSize THEN CreateCursor(s) ELSE NoCursor
Minted(next) == cursors' = cursors \union ({next} \ {NoCursor})

\* runOnePage up to its answer: the conditions, the connection and the structure of the page can fail it.
PageFails(status) ==
    /\ search.pc \in {"first", "more"}
    /\ status \in IF ApplySemanticFilters(search.filters, search.page) THEN FetchStatus \union {"form_changed"}
                  ELSE {"form_changed"}
    /\ Ends(IF search.pc = "first" THEN status ELSE "unavailable")

\* The first page; an exhaustive search goes on when it has not everything.
FirstPage ==
    LET s == [search EXCEPT !.items = ParseItems(search), !.first = TotalCount(search), !.next = NextCursor(search)]
    IN /\ search.pc = "first" /\ ApplySemanticFilters(search.filters, search.page)
       /\ Minted(s.next)
       /\ IF ~s.exhaustive \/ s.first <= Len(s.items) THEN Answers(s, FALSE, s.next)
          ELSE search' = [s EXCEPT !.pc = "more", !.page = @ + 1] /\ UNCHANGED chain
       /\ UNCHANGED <<total, form, changes>>

\* Whether the loop goes on, and what it answers in the end.
MorePages(s) == s.page <= MaxPages /\ Len(s.items) < s.first /\ Len(s.items) < MaxItems
Coverage(s) == LET whole == Len(s.items) >= s.first IN Answers(s, whole, IF whole THEN NoCursor ELSE s.next)
NextPage ==
    LET page == ParseItems(search)
        next == NextCursor(search)
        s == [search EXCEPT !.items = @ \o page, !.next = next]
    IN /\ search.pc = "more" /\ MorePages(search) /\ ApplySemanticFilters(search.filters, search.page)
       /\ Minted(next)
       /\ IF page = <<>> \/ next = NoCursor THEN Coverage(s)
          ELSE search' = [s EXCEPT !.page = @ + 1] /\ UNCHANGED chain
       /\ UNCHANGED <<total, form, changes>>
EnoughPages ==
    /\ search.pc = "more" /\ ~MorePages(search)
    /\ Coverage(search)
    /\ UNCHANGED <<total, form, cursors, changes>>

-----------------------------------------------------------------------------
(* The site and the page *)

\* The list of results changes between two requests.
ListChanges ==
    /\ changes < MaxChanges
    /\ \E l \in DOMAIN total, n \in Totals : total[l] # n /\ total' = [total EXCEPT ![l] = n]
    /\ chain' = [chain EXCEPT !.steady = FALSE]
    /\ changes' = changes + 1
    /\ UNCHANGED <<form, cursors, search>>
\* The CAST page is loaded anew: its content script, with a search under way and the cursors, is gone.
PageReloads ==
    /\ changes < MaxChanges
    /\ cursors' = {}
    /\ search' = NoSearch
    /\ chain' = [chain EXCEPT !.next = IF @ = NoCursor THEN @ ELSE LostCursor,
                              !.status = IF search = NoSearch THEN @ ELSE "unavailable"]
    /\ changes' = changes + 1
    /\ UNCHANGED <<total, form>>

CastNext ==
    \/ \E kind \in Kinds, filters \in Conditions, exhaustive \in BOOLEAN, cursor \in {NoCursor, chain.next} :
          RunCastSearch(kind, filters, exhaustive, cursor)
    \/ NoCastPage \/ FormLoads
    \/ \E status \in FetchStatus \union {"form_changed"} : PageFails(status)
    \/ FirstPage \/ NextPage \/ EnoughPages
    \/ ListChanges \/ PageReloads

CastSpec == CastInit /\ [][CastNext]_castVars

-----------------------------------------------------------------------------
(* Properties *)

\* A caller that was given results and no cursor for the rest has every result of
\* the list, each once and in order, through however many calls, pages and limits
\* it went - as long as the site did not change the list meanwhile and the cursor
\* was used with the same filters (runCastSearch, createCursor, pageFromCursor).
\* The same holds when one search says its coverage is complete.
NothingLeftOut ==
    chain.status = "known" /\ chain.steady /\ (chain.next = NoCursor \/ chain.whole) =>
        chain.items = [i \in 1..total[<<chain.kind, chain.filters>>] |-> i]
=============================================================================
