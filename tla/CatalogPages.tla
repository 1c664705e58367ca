--------------------------- MODULE CatalogPages ---------------------------
(***************************************************************************)
(* How the service worker reads the pages of the library's catalogue and   *)
(* of its discovery search (background/service-worker.ts), and what the    *)
(* panel takes for an answer about them (api/client.ts).                   *)
(*                                                                         *)
(* The catalogue fills in the availability of a row after the document is  *)
(* there, one cell at a time.  The worker reads the page again and again   *)
(* until no visible cell is empty or the time is over.  A row of a list is *)
(* read with the cells inside it; the page of a record has a table of its  *)
(* own, and the cells of the whole document where that table is empty.     *)
(*                                                                         *)
(* Navigation, tabs and permissions are those of OfficialReads, references *)
(* those of LibraryRefs (no two collide here).  Text is what is said by    *)
(* it: a cell says whether the copy can be lent, how many wait for it and  *)
(* until when it is lent; what is printed like a date need not be one      *)
(* ("misprinted").  Of a publisher only the length is kept.  The caps of   *)
(* the reader and those of the validator are constants of their own.       *)
(***************************************************************************)
EXTENDS Integers, FiniteSets, SequencesExt, Lists

CONSTANTS
    Pages,      \* the pages of the catalogue, see PageShape
    Results,    \* the pages of the discovery search: sequences of links, see LinkShape
    NoRecord,
    \* what the reader keeps: holdings of a record (20), records and discoveries of an answer (10), and the
    \* characters of a publisher on a page of a list (200) and on that of a record (500)
    MaxHoldings, MaxItems, ListPublisher, RecordPublisher,
    \* what the validator takes: holdings (20), records (10), related ones (20), characters (300), reservations (10,000)
    AcceptedHoldings, AcceptedItems, AcceptedRelated, AcceptedPublisher, AcceptedQueue

VARIABLES
    page,       \* the page the worker reads
    loaded,     \* the cells that are filled in, by their number
    complete,   \* whether the document is complete
    reading,    \* the read that is under way
    items       \* what was just answered as known

catalogVars == <<page, loaded, complete, reading, items>>

(* A page has a path ("list", "record", "other"), the record it is about,  *)
(* whether the record's own table and title are shown, whether it says     *)
(* that nothing was found, the rows of results, other links, and the rows  *)
(* of the record's table.  A row or a link has a record (NoRecord: a link  *)
(* elsewhere), may be hidden or without a title, and has a publisher and   *)
(* cells.  A cell has a number, what it will say, a due date ("none",      *)
(* "date", "misprinted"), how many wait (or None), and may be hidden.      *)
None == -1
NoPage ==
    [path |-> "other", of |-> NoRecord, shown |-> FALSE, nothing |-> FALSE, publisher |-> 0,
     rows |-> <<>>, links |-> <<>>, detail |-> <<>>]
NoReading == [mode |-> "none", record |-> NoRecord, campus |-> "any", limit |-> 0]
NoItems == [kind |-> "none", ref |-> NoRecord, list |-> <<>>]

CatalogInit ==
    /\ page = NoPage /\ loaded = {} /\ complete = FALSE
    /\ reading = NoReading
    /\ items = NoItems

CellsOf(rows) == FlattenSeq([i \in DOMAIN rows |-> rows[i].cells])
DocumentCells == CellsOf(page.rows) \o CellsOf(page.links)
RowCells == UNION {ToSet(row.cells) : row \in ToSet(page.rows) \union ToSet(page.links)}
Filled(cell) == cell.id \in loaded

-----------------------------------------------------------------------------
(* A cell.                                                                  *)

\* The words are looked for anywhere in the text: "unavailable" has "available" in it, which is looked for first.
Says(text, word) == text = word \/ (text = "unavailable" /\ word = "available")
HoldingStatus(text) ==
    IF Says(text, "available") THEN "available"
    ELSE IF Says(text, "on loan") \/ Says(text, "unavailable") THEN "unavailable" ELSE "unknown"

\* Neither is checked: what looks like a date, and any number.
HoldingDate(cell, status) == IF status = "unknown" THEN "none" ELSE cell.due
HoldingReservationCount(cell, status) == IF status = "unknown" THEN None ELSE cell.queue

Holding(cell) ==
    LET status == HoldingStatus(cell.text)
    IN [at |-> cell.at, status |-> status, due |-> HoldingDate(cell, status),
        queue |-> HoldingReservationCount(cell, status)]

\* parseHolding, parseDetailHolding: a cell of a list, or a row of the record's table, may say nothing.
Speaks(cell) == Filled(cell) /\ ~cell.hidden
\* deduplicateHoldings, of the first ones
Parsed(cells) ==
    LET speaking == Chosen(cells, {i \in DOMAIN cells : Speaks(cells[i])})
    IN Once(First([i \in DOMAIN speaking |-> Holding(speaking[i])], MaxHoldings))
ParseDocumentHoldings == Parsed(DocumentCells)
ParseSearchHoldings(row) == Parsed(row.cells)

-----------------------------------------------------------------------------
(* readLibraryCatalogSearchInPage                                           *)

VisibleRows == Chosen(page.rows, {i \in DOMAIN page.rows : ~page.rows[i].hidden})
\* The rows of results; other links only where there are none.
ResultRows == IF VisibleRows # <<>> THEN VisibleRows ELSE page.links
HasRecord(row) == row.record # NoRecord /\ ~row.hidden /\ row.titled
\* Text is cut to a number of characters.
Cut(length, most) == IF length < most THEN length ELSE most
ParseRecord(row) ==
    [record |-> row.record, campus |-> row.campus, publisher |-> Cut(row.publisher, ListPublisher),
     holdings |-> ParseSearchHoldings(row), related |-> <<>>]

\* fault: cells that are still empty are not waited for
PendingNever == FALSE
\* A visible cell that says nothing yet, or that it is loading.
PendingAvailability == \E cell \in RowCells : ~cell.hidden /\ ~Filled(cell)

Unavailable(reason) == [status |-> reason, records |-> <<>>]
\* Of each record the first row.
OneEach(rows) == Chosen(rows, {i \in DOMAIN rows : \A j \in 1..(i - 1) : rows[j].record # rows[i].record})
LinkedRecords ==
    LET parsed == Chosen(ResultRows, {i \in DOMAIN ResultRows : HasRecord(ResultRows[i])})
        kept == First(OneEach(parsed), MaxItems)
    IN [i \in DOMAIN kept |-> ParseRecord(kept[i])]

\* The page of a record is about it alone; the others on it are related.
CurrentRecord ==
    LET detail == Parsed(page.detail)
        others == Chosen(LinkedRecords, {i \in DOMAIN LinkedRecords : LinkedRecords[i].record # page.of})
    IN [record |-> page.of, campus |-> "any", publisher |-> Cut(page.publisher, RecordPublisher),
        holdings |-> IF detail # <<>> THEN detail ELSE ParseDocumentHoldings,
        related |-> [i \in DOMAIN others |-> others[i].record]]

ReadLibraryCatalogSearchInPage ==
    IF page.path = "other" THEN Unavailable("unexpected")
    ELSE IF ~complete \/ PendingAvailability THEN Unavailable("loading")
    ELSE IF \E row \in ToSet(VisibleRows) : ~HasRecord(row)
    THEN Unavailable("structure")
    ELSE IF page.path = "record"
    THEN IF page.shown THEN [status |-> "known", records |-> <<CurrentRecord>>] ELSE Unavailable("structure")
    ELSE IF LinkedRecords = <<>> /\ ~page.nothing THEN Unavailable("structure")
    ELSE [status |-> "known", records |-> LinkedRecords]

-----------------------------------------------------------------------------
(* The handlers: the page is open, its cells fill in.                       *)

Start(mode, at, record, campus, limit) ==
    /\ reading.mode = "none"
    /\ page' = at /\ loaded' = {} /\ complete' = FALSE
    /\ reading' = [mode |-> mode, record |-> record, campus |-> campus, limit |-> limit]
    /\ items' = NoItems

CatalogSearch(at, limit) == Start("search", at, NoRecord, "any", limit)
CatalogBrowse(at, campus, limit) == Start("browse", at, NoRecord, campus, limit)
ItemRead(at, record) == Start("record", at, record, "any", 1)

DocumentCompletes ==
    /\ reading.mode # "none" /\ ~complete
    /\ complete' = TRUE
    /\ UNCHANGED <<page, loaded, reading, items>>

CellFills ==
    /\ reading.mode # "none"
    /\ \E cell \in RowCells \union ToSet(page.detail) :
         ~Filled(cell) /\ loaded' = loaded \union {cell.id}
    /\ UNCHANGED <<page, complete, reading, items>>

\* readLibraryCatalogPage: a read that found its records, and for one record the one expected.
Wanted(result) ==
    LET found == result.records
    IN IF reading.mode = "record" THEN Chosen(found, {i \in DOMAIN found : found[i].record = reading.record}) ELSE found
Found(result) == result.status = "known" /\ (reading.mode = "record" => Wanted(result) # <<>>)

\* materializeLibraryRecord: a record has one holding at least.
Materialized(record) ==
    IF record.holdings # <<>> THEN record
    ELSE [record EXCEPT !.holdings = <<[at |-> "unknown", status |-> "unknown", due |-> "none", queue |-> None]>>]

\* handleLibraryCatalogBrowse: the records of a campus, by what their rows say.
OfCampus(records) ==
    IF reading.campus = "any" THEN records
    ELSE Chosen(records, {i \in DOMAIN records : records[i].campus = reading.campus})

Answer(records) ==
    LET kept == OfCampus(records)
    IN items' = IF kept = <<>> /\ records # <<>> THEN NoItems
                ELSE [kind |-> reading.mode, ref |-> reading.record,
                      list |-> First([i \in DOMAIN kept |-> Materialized(kept[i])], reading.limit)]

Poll ==
    /\ reading.mode # "none"
    /\ LET result == ReadLibraryCatalogSearchInPage
       IN IF Found(result) THEN Answer(Wanted(result)) /\ reading' = NoReading
          ELSE IF result.status = "unexpected" THEN reading' = NoReading /\ UNCHANGED items
          ELSE UNCHANGED <<reading, items>> \* it is read again a little later
    /\ UNCHANGED <<page, loaded, complete>>

\* The time is over, or the tab is gone: nothing is known.
GivesUp ==
    /\ reading.mode # "none"
    /\ reading' = NoReading
    /\ UNCHANGED <<page, loaded, complete, items>>

-----------------------------------------------------------------------------
(* The discovery search.  A link of a result row goes to the discovery site *)
(* or, with one slash or several, to a record of the catalogue; it may      *)
(* belong to the navigation, be hidden or have no text.                     *)

\* submitLibraryDiscoverySearchInPage: form is what of the search form is visible.
Submitted(form) == {"query", "target"} \subseteq form

Official(link) == link.goes \in {"discovery", "record"}
IsItem(link) == ~link.hidden /\ ~link.navigation /\ Official(link) /\ link.titled
ItemOf(link) == [goes |-> link.goes, key |-> link.key, ref |-> IF link.goes = "record" THEN link.key ELSE NoRecord]

\* readLibraryDiscoveryInPage
Discoveries(links) ==
    LET found == Chosen(links, {i \in DOMAIN links : IsItem(links[i])})
    IN First(Once([i \in DOMAIN found |-> ItemOf(found[i])]), MaxItems)

DiscoverySearch(form, links, nothing, limit) ==
    /\ reading.mode = "none"
    /\ LET found == Discoveries(links)
       IN items' = IF ~Submitted(form) \/ (found = <<>> /\ ~nothing) THEN NoItems
                   ELSE [kind |-> "discovery", ref |-> NoRecord,
                         list |-> First(found, limit)]
    /\ page' = NoPage /\ loaded' = {} /\ complete' = FALSE /\ UNCHANGED reading

-----------------------------------------------------------------------------
AllRecords == UNION {{r.record : r \in ToSet(p.rows)} \union {p.of} : p \in Pages} \ {NoRecord}

CatalogNext ==
    \/ \E at \in Pages, limit \in 1..MaxItems :
         CatalogSearch(at, limit) \/ \E campus \in {"any", "toyosu"} : CatalogBrowse(at, campus, limit)
    \/ \E at \in Pages, record \in AllRecords : ItemRead(at, record)
    \/ DocumentCompletes \/ CellFills \/ Poll \/ GivesUp
    \/ \E form \in SUBSET {"query", "target"}, links \in Results, nothing \in BOOLEAN, limit \in 1..MaxItems :
         DiscoverySearch(form, links, nothing, limit)

CatalogSpec == CatalogInit /\ [][CatalogNext]_catalogVars

-----------------------------------------------------------------------------
(* What the panel accepts.                                                  *)

\* isLibraryHoldingSummary: a date is one of the calendar, and of a copy of which nothing is known nothing else is said.
WellPrinted(h) == h.due # "misprinted" /\ h.queue <= AcceptedQueue
IsHolding(h) == WellPrinted(h) /\ (h.status = "unknown" => h.due = "none" /\ h.queue = None)
\* isLibraryBibliographicRecord
IsRecord(r) ==
    /\ Len(r.holdings) \in 1..AcceptedHoldings /\ \A i \in DOMAIN r.holdings : IsHolding(r.holdings[i])
    /\ Len(r.related) <= AcceptedRelated
    /\ r.publisher <= AcceptedPublisher
\* isLibraryDiscoveryItem
IsDiscovery(d) == d.goes \in {"discovery", "record"}

IsCatalogSearchResult == Len(items.list) <= AcceptedItems /\ \A i \in DOMAIN items.list : IsRecord(items.list[i])
IsCatalogBrowseResult == Len(items.list) <= AcceptedItems /\ \A i \in DOMAIN items.list : IsRecord(items.list[i])
IsItemReadResult == Len(items.list) = 1 /\ IsRecord(items.list[1]) /\ items.list[1].record = items.ref
IsDiscoverySearchResult == Len(items.list) <= AcceptedItems /\ \A i \in DOMAIN items.list : IsDiscovery(items.list[i])

\* What the reader does not make fit: the publisher of a record's page, and how dates and numbers are printed.
Fits(r) == r.publisher <= AcceptedPublisher /\ \A i \in DOMAIN r.holdings : WellPrinted(r.holdings[i])

\* The panel takes every page the worker says it knows, unless a publisher is too long, a date is none or too many wait:
\* then, and only then, the turn ends with it.  On the page of a list a publisher is never too long.
PagesAccepted ==
    LET fits == \A i \in DOMAIN items.list : Fits(items.list[i])
    IN /\ CASE items.kind = "search" -> IsCatalogSearchResult <=> fits
             [] items.kind = "browse" -> IsCatalogBrowseResult <=> fits
             [] items.kind = "record" -> IsItemReadResult <=> fits
             [] items.kind = "discovery" -> IsDiscoverySearchResult
             [] OTHER -> TRUE
       /\ items.kind \in {"search", "browse"} /\ page.path = "list" =>
            \A i \in DOMAIN items.list : items.list[i].publisher <= AcceptedPublisher

\* A record of a list is answered with what the cells of its own row say when they are all filled in: none is taken
\* from another row, and none is read before it is there.
HoldingsOfRow ==
    items.kind \in {"search", "browse"} /\ page.path = "list" =>
        \A i \in DOMAIN items.list :
            \E row \in ToSet(ResultRows) :
                LET said == {Holding(c) : c \in {d \in ToSet(row.cells) : ~d.hidden}}
                IN /\ row.record = items.list[i].record /\ ~row.hidden
                   /\ said # {} => ToSet(items.list[i].holdings) \subseteq said
                   /\ said # {} /\ Len(row.cells) <= MaxHoldings => ToSet(items.list[i].holdings) = said

\* A record whose copies are all said to be unavailable is not answered as available.
UnavailableIsSaid ==
    items.kind \in {"search", "browse"} /\ page.path = "list" =>
        \A i \in DOMAIN items.list : \A row \in ToSet(page.rows) :
            row.record = items.list[i].record /\ (\A c \in ToSet(row.cells) : c.text = "unavailable") =>
                \A j \in DOMAIN items.list[i].holdings : items.list[i].holdings[j].status # "available"
=============================================================================
