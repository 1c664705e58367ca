---------------------------- MODULE LibraryRefs ----------------------------
(***************************************************************************)
(* The references under which the service worker speaks of library records *)
(* and of the rows of My Library (background/service-worker.ts,            *)
(* content/my-library-reader.ts).                                          *)
(*                                                                         *)
(* A reference is a 64-bit hash of the record's identifier, or of the list *)
(* and the identifier of a row.  The worker remembers what each reference  *)
(* stands for, for ten minutes after it was last shown; the panel keeps a  *)
(* record's reference with its address in the conversation, so that the    *)
(* reference can be used again when the worker has forgotten it.  Nothing  *)
(* keeps two things from having one reference: what is remembered is       *)
(* looked at first.                                                        *)
(*                                                                         *)
(* A thing is <<"record", r>>, <<list, "raw", id>> or, for a row without   *)
(* an identifier, <<list, "unresolved", index>>.  The tabs in which pages  *)
(* are read are those of OfficialReads; permissions are as granted.  A     *)
(* list is read and projected in one step: the page is read by one script, *)
(* and nothing is awaited after it.  A record has at most one related one, *)
(* and a page of the catalogue has two records: enough for a clash in it.  *)
(*                                                                         *)
(* A page has tables.  One may be marked, with the id of the list or its   *)
(* name, and have the columns of the list.  Of a row is said which fields  *)
(* it has; which of them stand under two headings, the value of the first  *)
(* of them hidden (twice), and which of these the second gives (second);   *)
(* its first identifier and where it stands; and what other numbers it is  *)
(* found by (also): under further labels or on its box checkBoxBookNumber. *)
(***************************************************************************)
EXTENDS Integers, FiniteSets, SequencesExt, Lists

CONSTANTS
    Records,        \* identifiers of records of the catalogue
    NoRecord,
    RawIds,         \* identifiers of rows of My Library
    NoId,
    Refs,           \* references
    RefOf(_),       \* the reference of a thing
    Lists,          \* the lists of My Library that are used
    Pages,          \* what the page of a list can show
    MaxRows,        \* rows of a page that are kept (1000)
    PageRows,       \* the longest page of an answer (20)
    AcceptedRows, AcceptedPage, \* what the validator takes of both: 1000 and 20
    MaxUses,        \* bound on the pages shown, the lists read and the requests made (model checking only)
    MaxChanges      \* bound on changes of the site, expiries and restarts (model checking only)

VARIABLES
    public,     \* libraryRecordRefs
    personal,   \* myLibraryResourceRefKeys, and with them myLibraryResourceRefs
    live,       \* the references of libraryActionRefExpiry that are not overdue
    site,       \* what the page of each list shows
    ask,        \* the request for options or a preview that is under way
    counts,     \* how many uses and changes there were
    cards,      \* the records the panel keeps, each with its reference
    meant,      \* history: what was shown under a reference, or brought back by its address, since the worker last forgot it
    answered,   \* history: the answer just given to a request
    listing,    \* history: the rows an agent got by following next_offset, while the page stays as it is
    read        \* history: the list just read, as it was answered

refVars == <<public, personal, live, site, ask, counts, cards, meant, answered, listing, read>>
memory == <<public, personal, live, meant>>

AllLists == {"current_loans", "reservations", "loan_history", "purchase_requests", "interlibrary_requests"}
NoKey == <<>>
NoTarget == <<>>
NoAsk == [kind |-> "none", ref |-> "none", address |-> NoRecord, target |-> NoTarget, meant |-> {}]
NoAnswer == [address |-> NoRecord, target |-> NoTarget, meant |-> {}, says |-> {}]
NoListing == [list |-> "none", query |-> FALSE, got |-> <<>>, next |-> -1]
NoRead == [known |-> FALSE]

RefInit ==
    /\ public = [r \in Refs |-> NoRecord] /\ personal = [r \in Refs |-> NoKey] /\ live = {}
    /\ site \in [Lists -> Pages]
    /\ ask = NoAsk
    /\ counts = [uses |-> 0, changes |-> 0]
    /\ cards = {}
    /\ meant = [r \in Refs |-> {}]
    /\ answered = NoAnswer /\ listing = NoListing /\ read = NoRead

Thing(record) == <<"record", record>>

\* The histories of what was just answered, and of a list read to its end, are not kept.
Kept == IF listing.next = -1 THEN NoListing ELSE listing
Listed == listing' = Kept
Quiet == answered' = NoAnswer /\ read' = NoRead /\ Listed

Used ==
    /\ counts.uses < MaxUses
    /\ counts' = [counts EXCEPT !.uses = @ + 1]

\* After things are shown, each stands for its reference.
Showing(things) ==
    meant' = [r \in Refs |-> meant[r] \union {t \in things : RefOf(t) = r}]

-----------------------------------------------------------------------------
(* Records: a page of the catalogue, a record, a list of discoveries.       *)

Set(m, record) ==
    [m EXCEPT !.public = [@ EXCEPT ![RefOf(Thing(record))] = record], !.live = @ \union {RefOf(Thing(record))}]

\* fault: the reference is taken over whatever it stands for
ClashIgnored(m, record) == FALSE
\* The reference stands for another record already.
Clash(m, record) == m.public[RefOf(Thing(record))] \notin {NoRecord, record}

\* materializeLibraryRecord: the record, and one it is related to; what was set stays set when one clashes.
Related(m, record) == IF Clash(m, record) THEN [m EXCEPT !.ok = FALSE] ELSE Set(m, record)
Materialized(m, record, related) ==
    IF Clash(m, record) THEN [m EXCEPT !.ok = FALSE]
    ELSE IF related = NoRecord THEN Set(m, record) ELSE Related(Set(m, record), related)

Memory == [public |-> public, live |-> live, ok |-> TRUE]

Remember(m) ==
    /\ public' = m.public /\ live' = m.live
    /\ Quiet /\ UNCHANGED <<personal, site, ask>>

\* All of a page is shown, or nothing.
ShownIf(ok, records) ==
    IF ok THEN /\ Showing({Thing(r) : r \in records})
               /\ cards' = cards \union {<<RefOf(Thing(r)), r>> : r \in records}
    ELSE UNCHANGED <<meant, cards>>

\* A record with the one it is related to; a page of two records, of which the first ones only are shown.
ShowRecord(record, related) ==
    /\ Used
    /\ LET m == Materialized(Memory, record, related)
       IN Remember(m) /\ ShownIf(m.ok, {record, related})
ShowRecords(first, second, limit) ==
    /\ Used
    /\ LET m == Materialized(Materialized(Memory, first, NoRecord), second, NoRecord)
       IN Remember(m) /\ ShownIf(m.ok, IF limit = 1 THEN {first} ELSE {first, second})

\* handleLibraryDiscoverySearch: the first clash ends it.
Discovered(m, record) == IF ~m.ok THEN m ELSE Related(m, record)
ShowDiscoveries(first, second, limit) ==
    /\ Used
    /\ LET m == Discovered(Discovered(Memory, first), second)
       IN Remember(m) /\ ShownIf(m.ok, IF limit = 1 THEN {first} ELSE {first, second})

-----------------------------------------------------------------------------
(* Reading the page of a list of My Library.  A row has some of the fields; *)
(* its identifier stands beside a label or in a column.                     *)

Unreadable == [known |-> FALSE, items |-> <<>>]

\* The rows that are not the placeholder of an empty table; each of them must have the fields.
DataRows(rows) == Chosen(rows, {i \in DOMAIN rows : ~rows[i].empty})
RowsWith(rows, fields) ==
    LET data == DataRows(rows)
    IN IF rows = <<>> \/ \E i \in DOMAIN data : ~(fields \subseteq data[i].has) THEN Unreadable
       ELSE [known |-> TRUE, items |-> First(data, MaxRows)]

NoTable == [shown |-> FALSE, marked |-> FALSE, columns |-> FALSE, rows |-> <<>>]
TheFirst(page, chosen) == IF chosen = {} THEN NoTable ELSE page.tables[CHOOSE i \in chosen : \A j \in chosen : i <= j]
\* #lendList, #reservationList: the table with the id of the list, shown or not
OwnTable(page) == TheFirst(page, {i \in DOMAIN page.tables : page.tables[i].marked})

\* readMyLibraryStatusInPage.
LoanRows(page) == IF ~OwnTable(page).shown THEN Unreadable ELSE RowsWith(OwnTable(page).rows, {"title", "due"})
ReservationRows(page) ==
    IF ~OwnTable(page).shown THEN Unreadable ELSE RowsWith(OwnTable(page).rows, {"title", "due", "status"})
\* The other lists: the first table with the name of the list, which must have the columns.
MarkedTable(page) == TheFirst(page, {i \in DOMAIN page.tables : page.tables[i].shown /\ page.tables[i].marked})
\* fault: the kind of a request is not required
GenericRowsLoose(list, page) ==
    IF ~MarkedTable(page).columns THEN Unreadable ELSE RowsWith(MarkedTable(page).rows, {"title", "status", "activity"})
GenericRows(list, page) ==
    LET request == IF list = "loan_history" THEN {} ELSE {"request"}
    IN IF ~MarkedTable(page).columns THEN Unreadable
       ELSE RowsWith(MarkedTable(page).rows, {"title", "status", "activity"} \union request)
ReadRows(list, page) ==
    CASE list = "current_loans" -> LoanRows(page)
      [] list = "reservations" -> ReservationRows(page)
      [] OTHER -> GenericRows(list, page)

\* rawIdForRow: beside a label; in a column too, where the table is read by its columns.
RawId(list, row) ==
    IF row.idIn = "column" /\ list \in {"current_loans", "reservations"} THEN NoId ELSE row.id

\* The readers the tests are about: extractMyLibraryLoanPage, -ReservationPage, -ScopePage, extractGenericMyLibraryItem.
VisibleRows(table) == IF table.shown THEN table.rows ELSE <<>>
TestedLoans(page) == RowsWith(VisibleRows(OwnTable(page)), {"title", "due"})
TestedReservations(page) == RowsWith(VisibleRows(OwnTable(page)), {"title", "due", "status"})
\* findMyLibraryScopeTable: the first table with the name of the list that has the columns.
ScopeTable(page) ==
    TheFirst(page, {i \in DOMAIN page.tables :
                      page.tables[i].shown /\ page.tables[i].marked /\ page.tables[i].columns})
\* valueForLabels of these readers goes on to the second heading when the value of the first is hidden.
TestedFields(row) == (row.has \ row.twice) \union (row.twice \intersect row.second)
TestedItem(list, row) ==
    /\ {"title", "status", "activity"} \subseteq TestedFields(row)
    /\ list # "loan_history" => "request" \in TestedFields(row)
TestedRows(list, page) ==
    CASE list = "current_loans" -> TestedLoans(page)
      [] list = "reservations" -> TestedReservations(page)
      [] OTHER ->
           LET rows == ScopeTable(page).rows
               data == DataRows(rows)
           IN IF rows = <<>> \/ \E i \in DOMAIN data : ~TestedItem(list, data[i])
              THEN Unreadable ELSE [known |-> TRUE, items |-> First(data, MaxRows)]

-----------------------------------------------------------------------------
(* The references of rows, and the page of an answer.                       *)

KeyOf(list, items, i) ==
    IF RawId(list, items[i]) # NoId THEN <<list, "raw", RawId(list, items[i])>> ELSE <<list, "unresolved", i>>

\* projectMyLibraryPageItems: throws at the first reference that stands for another row; the rows before it are kept.
ProjectionClash(keys, i) ==
    \/ personal[RefOf(keys[i])] \notin {NoKey, keys[i]}
    \/ \E j \in 1..(i - 1) : RefOf(keys[j]) = RefOf(keys[i]) /\ keys[j] # keys[i]
Projected(keys) == {keys[i] : i \in {k \in DOMAIN keys : \A j \in 1..k : ~ProjectionClash(keys, j)}}
RememberRows(kept) ==
    /\ personal' = [r \in Refs |-> IF \E k \in kept : RefOf(k) = r THEN CHOOSE k \in kept : RefOf(k) = r ELSE personal[r]]
    /\ live' = live \union {RefOf(k) : k \in kept}

\* projectMyLibraryForAgent: the rows that match, the page of them, and where the next page starts.
Matching(items, query) == Chosen([i \in DOMAIN items |-> i], {i \in DOMAIN items : query => items[i].matches})
\* fault: the next page starts one row late
PageSkipsOne(items, query, offset, limit) ==
    LET found == Matching(items, query)
        last == IF offset + limit < Len(found) THEN offset + limit ELSE Len(found)
    IN [rows |-> SubSeq(found, offset + 1, last), total |-> Len(found),
        next |-> IF last < Len(found) /\ offset < Len(found) THEN last + 1 ELSE -1]
Page(items, query, offset, limit) ==
    LET found == Matching(items, query)
        last == IF offset + limit < Len(found) THEN offset + limit ELSE Len(found)
    IN [rows |-> SubSeq(found, offset + 1, last), total |-> Len(found),
        next |-> IF last < Len(found) /\ offset < Len(found) THEN last ELSE -1]
\* The counts of a list, of the rows that match.
Counts(list, items, query) ==
    LET found == ToSet(Matching(items, query))
    IN [loan |-> IF list = "current_loans" THEN Cardinality(found) ELSE -1,
        overdue |-> IF list = "current_loans" THEN Cardinality({i \in found : items[i].overdue}) ELSE -1,
        renewable |-> IF list = "current_loans" THEN Cardinality({i \in found : items[i].renewable}) ELSE -1,
        reservation |-> IF list = "reservations" THEN Cardinality(found) ELSE -1,
        due |-> list = "current_loans" /\ found # {}]

\* handleMyLibraryRead for one list.
ReadList(list, query, offset, limit) ==
    LET rows == ReadRows(list, site[list])
        items == rows.items
        all == [i \in DOMAIN items |-> KeyOf(list, items, i)]
        kept == Projected(all)
        page == Page(items, query, offset, limit)
        keys == {all[i] : i \in DOMAIN all \intersect ToSet(page.rows)}
        known == (\A i \in DOMAIN all : ~ProjectionClash(all, i)) /\ Cardinality({RefOf(k) : k \in keys}) = Len(page.rows)
        goesOn == listing.list = list /\ listing.query = query /\ listing.next = offset
    IN /\ Used
       /\ rows.known
       /\ RememberRows(kept)
       /\ IF known
          THEN /\ Showing(keys)
               /\ read' = [known |-> TRUE, list |-> list, offset |-> offset, limit |-> limit, total |-> page.total,
                           next |-> page.next, counts |-> Counts(list, items, query),
                           items |-> [i \in DOMAIN page.rows |-> items[page.rows[i]].has]]
               /\ listing' = IF offset = 0 \/ goesOn
                             THEN [list |-> list, query |-> query, next |-> page.next,
                                   got |-> IF offset = 0 THEN page.rows ELSE listing.got \o page.rows]
                             ELSE Kept
          ELSE read' = NoRead /\ Listed /\ UNCHANGED meant
       /\ answered' = NoAnswer /\ UNCHANGED <<public, site, ask, cards>>

-----------------------------------------------------------------------------
(* Using a reference: handleLibraryActionOptions, handleLibraryActionPreview. *)

\* isLiveLibraryActionRef deletes an overdue reference wherever it is.
Looked(r) ==
    IF r \in live THEN [public |-> public, personal |-> personal, live |-> live, meant |-> meant]
    ELSE [public |-> [public EXCEPT ![r] = NoRecord], personal |-> [personal EXCEPT ![r] = NoKey],
          live |-> live, meant |-> [meant EXCEPT ![r] = {}]]

\* The address that comes with a reference makes the worker remember it again.
Claimed(m, r, record) ==
    [public |-> [m.public EXCEPT ![r] = record], personal |-> m.personal, live |-> m.live \union {r},
     meant |-> [m.meant EXCEPT ![r] = @ \union {Thing(record)}]]

\* What the reference stands for: the record or the row, and nothing when it may be both.
TargetOf(m, r) ==
    IF m.public[r] # NoRecord /\ m.personal[r] # NoKey THEN NoTarget
    ELSE IF m.public[r] # NoRecord THEN Thing(m.public[r]) ELSE m.personal[r]

\* Rows without an identifier are never looked for; a visit or a viewing of a row has no preview.
Refused(kind, target) ==
    \/ target = NoTarget
    \/ target[1] # "record" /\ kind = "options" /\ target[2] = "unresolved"
    \/ target[1] # "record" /\ kind = "visit"
    \/ target[1] # "record" /\ kind = "write" /\ target[2] = "unresolved"

Ask(kind, r, record) ==
    /\ ask = NoAsk
    /\ Used
    /\ IF record # NoRecord /\ public[r] \notin {NoRecord, record}
       THEN UNCHANGED <<memory, ask>> \* resource_ref_mismatch
       ELSE LET looked == Looked(r)
                m == IF record # NoRecord /\ r \notin live THEN Claimed(looked, r, record) ELSE looked
                target == IF r \in m.live THEN TargetOf(m, r) ELSE NoTarget
            IN /\ public' = m.public /\ personal' = m.personal /\ live' = m.live /\ meant' = m.meant
               /\ ask' = IF Refused(kind, target) THEN NoAsk
                         ELSE [kind |-> kind, ref |-> r, address |-> record, target |-> target, meant |-> m.meant[r]]
    /\ Quiet /\ UNCHANGED <<site, cards>>

AskOptions(r, record) == Ask("options", r, record)
AskVisit(r, record) == Ask("visit", r, record)
AskWrite(r, record) == Ask("write", r, record)

Answer(says) ==
    /\ answered' = [address |-> ask.address, target |-> ask.target, meant |-> ask.meant, says |-> says]
    /\ ask' = NoAsk

\* The table in which a reader of one row looks: that with the id of the list, or the first of the page, if shown.
TableLookedAt(list, page) ==
    IF list \in {"current_loans", "reservations"} THEN OwnTable(page)
    ELSE IF page.tables = <<>> THEN NoTable ELSE page.tables[1]
\* The rows it finds: by any number beside a label, never by one in a column, or by that of the box.
RowsOfTarget(list, page, id) ==
    {i \in DOMAIN VisibleRows(TableLookedAt(list, page)) :
       LET row == TableLookedAt(list, page).rows[i]
       IN (row.id = id /\ row.idIn = "label") \/ id \in row.also}

\* readLibraryActionOptionsInPage: what can be seen on the page of the record, and only there.
SeenOnRecord == {"holding", "viewer", "reserveEntry"}
\* publicLibraryActionOptions: transfers, renewals, purchases and interlibrary loans are never offered.
PublicOffers(seen) ==
    {o \in {"visit_shelf", "open_online", "reserve"} :
       [visit_shelf |-> "holding", open_online |-> "viewer", reserve |-> "reserveEntry"][o] \in seen}
PublicOptions ==
    /\ ask.kind = "options" /\ ask.target[1] = "record"
    /\ \E seen \in SUBSET SeenOnRecord : Answer(PublicOffers(seen))
    /\ read' = NoRead /\ Listed /\ UNCHANGED <<memory, site, counts, cards>>

\* The one row with the identifier.
TheRow(rows) == Cardinality(rows) = 1

\* readMyLibraryActionOptionsInPage: the row, as it is now.
RowSeen(list, page, id) ==
    LET rows == RowsOfTarget(list, page, id)
    IN IF TheRow(rows) THEN TableLookedAt(list, page).rows[CHOOSE i \in rows : TRUE] ELSE [viewer |-> FALSE]
\* myLibraryActionOptions: viewing is offered, renewing never.
OptionsOfRow(list, page, id) == IF RowSeen(list, page, id).viewer THEN {"open_online"} ELSE {}
PersonalOptions ==
    /\ ask.kind = "options" /\ ask.target[1] # "record"
    /\ Answer(OptionsOfRow(ask.target[1], site[ask.target[1]], ask.target[3]))
    /\ read' = NoRead /\ Listed /\ UNCHANGED <<memory, site, counts, cards>>

\* readPublicLibraryActionSurface: the record's own reference must be the one asked for.
PublicSurface(related) ==
    /\ ask.kind \in {"visit", "write"} /\ ask.target[1] = "record"
    /\ LET m == Materialized(Memory, ask.target[2], related)
       IN /\ public' = m.public /\ live' = m.live
          /\ \E offered \in SUBSET {"visit_shelf", "open_online"} :
               Answer(IF m.ok /\ RefOf(ask.target) = ask.ref /\ ask.kind = "visit" THEN offered ELSE {})
    /\ read' = NoRead /\ Listed /\ UNCHANGED <<personal, meant, site, counts, cards>>

\* validateMyLibraryWriteSurfaceInPage; readMyLibraryWriteSurface, whose answer says at most that the row is there.
SurfaceValid(list, page, id) == TheRow(RowsOfTarget(list, page, id)) /\ page.form
PersonalSurface ==
    /\ ask.kind = "write" /\ ask.target[1] # "record"
    /\ Answer(IF SurfaceValid(ask.target[1], site[ask.target[1]], ask.target[3]) THEN {"current"} ELSE {})
    /\ read' = NoRead /\ Listed /\ UNCHANGED <<memory, site, counts, cards>>

\* The tab fails, closes or shows a login page.
AskFails ==
    /\ ask # NoAsk
    /\ Answer({})
    /\ read' = NoRead /\ Listed /\ UNCHANGED <<memory, site, counts, cards>>

-----------------------------------------------------------------------------
(* Forgetting, and the site.                                                *)

Changed ==
    /\ counts.changes < MaxChanges
    /\ counts' = [counts EXCEPT !.changes = @ + 1]

\* Ten minutes are over: nothing is deleted before the reference is looked at.
Overdue(r) ==
    /\ r \in live
    /\ Changed
    /\ live' = live \ {r}
    /\ Quiet /\ UNCHANGED <<public, personal, meant, site, ask, cards>>

\* clearMyLibraryResourceMaps, when My Library is disconnected.
Disconnect ==
    /\ \E r \in Refs : personal[r] # NoKey
    /\ Changed
    /\ live' = {r \in live : personal[r] = NoKey}
    /\ personal' = [r \in Refs |-> NoKey]
    /\ meant' = [r \in Refs |-> {t \in meant[r] : t[1] = "record"}]
    /\ Quiet /\ UNCHANGED <<public, site, ask, cards>>

\* The worker stops, with what it was doing, or the browser starts: clearMyLibraryResourceMaps, clearLibraryRecordMaps.
Restart ==
    /\ live # {}
    /\ Changed
    /\ public' = [r \in Refs |-> NoRecord] /\ personal' = [r \in Refs |-> NoKey] /\ live' = {}
    /\ meant' = [r \in Refs |-> {}]
    /\ ask' = NoAsk
    /\ Quiet /\ UNCHANGED <<site, cards>>

SiteChanges(list) ==
    /\ Changed
    /\ \E page \in Pages : page # site[list] /\ site' = [site EXCEPT ![list] = page]
    /\ listing' = IF listing.list = list THEN NoListing ELSE Kept
    /\ answered' = NoAnswer /\ read' = NoRead /\ UNCHANGED <<memory, ask, cards>>

-----------------------------------------------------------------------------
\* Pages are read with each record once.
Pairs == {pair \in Records \X Records : pair[1] # pair[2]}

RefNext ==
    \/ \E pair \in Pairs : ShowRecord(pair[1], pair[2])
    \/ \E pair \in Pairs, limit \in 1..2 : ShowRecords(pair[1], pair[2], limit) \/ ShowDiscoveries(pair[1], pair[2], limit)
    \/ \E list \in Lists, query \in BOOLEAN, offset \in 0..(MaxRows - 1), limit \in 1..PageRows :
         ReadList(list, query, offset, limit)
    \/ \E r \in Refs : \E record \in {NoRecord} \union {c[2] : c \in {d \in cards : d[1] = r}} :
         AskOptions(r, record) \/ AskVisit(r, record) \/ AskWrite(r, record)
    \/ PublicOptions \/ PersonalOptions \/ PersonalSurface \/ AskFails
    \/ \E related \in {NoRecord} \union Records : PublicSurface(related)
    \/ \E r \in Refs : Overdue(r)
    \/ Disconnect \/ Restart
    \/ \E list \in Lists : SiteChanges(list)

RefSpec == RefInit /\ [][RefNext]_refVars

-----------------------------------------------------------------------------
\* What an answer says is about the only thing that was shown under the reference, or brought back by its address,
\* since the worker last forgot it: neither two records, two rows nor a record and a row of one reference are taken for
\* each other.  And whatever the worker has forgotten, been shown or restarted since: if the address of a record came
\* with the request, the answer is about that record, unless the reference stands for a row.
OptionsOfTheOneShown ==
    answered.says # {} =>
        /\ answered.meant \subseteq {answered.target}
        /\ answered.address # NoRecord => answered.target = Thing(answered.address) \/ answered.target[1] # "record"

\* An agent that follows next_offset to its end has every matching row once and in order, unless the page changed.
EveryRowOnce ==
    listing # NoListing /\ listing.next = -1 =>
        LET found == Matching(ReadRows(listing.list, site[listing.list]).items, listing.query)
        IN Len(listing.got) = Len(found) /\ \A i \in 1..Len(found) : listing.got[i] = found[i]

\* No field of a row stands under two headings.
OneHeadingEach(page) ==
    \A t \in ToSet(page.tables) : LET data == DataRows(t.rows) IN \A i \in DOMAIN data : data[i].twice = {}
\* What the worker's reader reads of a page, the reader the tests are about reads too, and the same; not the other way round.
TestedAsRun ==
    \A list \in AllLists : \A used \in Lists :
        ReadRows(list, site[used]).known /\ OneHeadingEach(site[used]) =>
            TestedRows(list, site[used]) = ReadRows(list, site[used])

-----------------------------------------------------------------------------
(* What the panel accepts: isMyLibraryReadResult (api/client.ts) and the   *)
(* check against the arguments (chat/ChatPanel.tsx).                       *)

\* isMyLibraryItemForScope
ItemFields(list) ==
    CASE list = "current_loans" -> {"due"}
      [] list = "reservations" -> {"due", "status"}
      [] list = "loan_history" -> {"activity", "status"}
      [] OTHER -> {"activity", "status", "request"}

\* isMyLibraryReadResult, for a known list
IsResult(result) ==
    LET c == result.counts
    IN /\ result.total \in 0..AcceptedRows /\ result.next \in -1..AcceptedRows
       /\ Len(result.items) <= AcceptedPage
       /\ \A i \in DOMAIN result.items : ItemFields(result.list) \subseteq result.items[i]
       /\ result.total >= Len(result.items)
       /\ result.total <= Len(result.items) => result.next = -1
       /\ c.loan >= 0 => c.overdue <= c.loan /\ c.renewable <= c.loan
       /\ CASE result.list = "current_loans" ->
                 c.loan = result.total /\ c.overdue >= 0 /\ c.renewable >= 0 /\ c.reservation = -1
            [] result.list = "reservations" ->
                 c.loan = -1 /\ c.reservation = result.total /\ c.overdue = -1 /\ c.renewable = -1 /\ ~c.due
            [] OTHER -> c.loan = -1 /\ c.overdue = -1 /\ c.renewable = -1 /\ c.reservation = -1 /\ ~c.due

\* executeChatToolCall, my_library_read: as many rows as the arguments ask for, and the page after them.
IsPageAskedFor(result) ==
    LET left == IF result.total > result.offset THEN result.total - result.offset ELSE 0
        expected == IF result.limit < left THEN result.limit ELSE left
        after == result.offset + expected
    IN Len(result.items) = expected /\ result.next = (IF after < result.total THEN after ELSE -1)

\* The panel takes no answer of the worker about a list for a wrong one.
ListsAccepted == read.known => IsResult(read) /\ IsPageAskedFor(read)
=============================================================================
