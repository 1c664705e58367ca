-------------------------- MODULE Readers_proofs --------------------------
(***************************************************************************)
(* What a run on MCConnectors checks of readers and connectors: the        *)
(* references of the library and the lists of My Library (LibraryRefs), a  *)
(* search of the career system (CastSearch) and one across its surfaces    *)
(* (CastCareer), the arguments of a call (ToolCalls), the calendar and the *)
(* selected files (GoogleConnectors).  The first depends on the records,   *)
(* references and pages that MCConnectors gives, and the calendar at the   *)
(* start is one of its calendars; the rest holds for every value of the    *)
(* constants.                                                              *)
(*                                                                         *)
(* LibraryRefs                                                             *)
(*                                                                         *)
(* A reference stands for the record or the row in the worker's maps.      *)
(* RefInv says that nothing else was shown under it (Understood), and that *)
(* a request under way is about the one thing that was, when it began, and *)
(* about the record whose address came with it or a row (Addressed), as    *)
(* its answer is then.  Materializing records and remembering rows never   *)
(* give a reference another meaning; forgetting one forgets what was shown *)
(* under it.                                                               *)
(* An agent that pages through a list has its first rows (ListingInv).     *)
(*                                                                         *)
(* CastSearch                                                              *)
(*                                                                         *)
(* A caller has the first results of the list, up to the page its cursor   *)
(* stands for (HasFirst); a search under way has what follows them, up to  *)
(* the page it reads next (Reading), as long as it reads the list they are *)
(* from.  Since the most that is shown is a whole number of pages, results *)
(* are never cut within a page (RoomForAPage).                             *)
(*                                                                         *)
(* CastCareer                                                              *)
(*                                                                         *)
(* The agent is told the last result of each surface.  ReadsTold: of every *)
(* surface of which a read failed, that result does not say "known"; it    *)
(* needs that a surface is listed twice only if its last result says so    *)
(* (Doubled), and that what is read later is not listed yet (Pending).     *)
(*                                                                         *)
(* ToolCalls                                                               *)
(*                                                                         *)
(* A call has the arguments of the provider up to the panel, and those of  *)
(* the panel's message after it (CallInv).  Tool by tool: what the service *)
(* lets through of the library's tools the others do (LibraryServed), and  *)
(* the message of a call that was let through is known (MessagesKnown).    *)
(*                                                                         *)
(* GoogleConnectors                                                        *)
(*                                                                         *)
(* Two loops over the intervals of the calendar: merging leaves intervals  *)
(* that are apart and take the same minutes (MergedCovers), and the gaps   *)
(* between such intervals are the minutes they leave (GapsFill).  So what  *)
(* a snapshot says is true of the calendar it read (SnapshotIsFree), and   *)
(* it says it is known only if it read all of it (CalendarInv).  Of the    *)
(* files, every copy of the records says "read" of files that were read,   *)
(* and so does what a call is about to record (DriveInv).                  *)
(*                                                                         *)
(* Last, the readers the tests exercise are no exact copies of those that  *)
(* run in a page.  What the latter know of the page of a list the former   *)
(* know too (RowsTested): if the first marked table has the columns, it is *)
(* the first that is marked and has them (SameTable).  They make the same  *)
(* of the dashboards (DashboardsTested).                                   *)
(***************************************************************************)
EXTENDS MCConnectors, FiniteSetTheorems, WellFoundedInduction, NaturalsInduction, SequenceTheorems, TLAPS

(***************************************************************************)
(* The references of the library (LibraryRefs)                             *)
(***************************************************************************)

RefSet == {"a", "b", "c", "d"}
RecordSet == {"r1", "r2", "r3"}
RecordMap == [RefSet -> RecordSet \cup {"none"}]
RecordMemory == [public : RecordMap, live : SUBSET RefSet, ok : BOOLEAN]

\* What a reference stands for: a record, a row, both or nothing.
StandsFor(records, rows, r) ==
    {References!Thing(x) : x \in {records[r]} \ {"none"}} \cup ({rows[r]} \ {References!NoKey})

\* A reference has a record or nothing, and the row of a list or nothing.
RefTypeOK ==
    /\ public \in RecordMap
    /\ DOMAIN personal = RefSet /\ DOMAIN meant = RefSet
    /\ \A r \in RefSet : personal[r] # References!NoKey => personal[r][1] # "record"
    /\ live \in SUBSET RefSet
    /\ \A c \in cards : c[2] \in RecordSet
    /\ ask.kind # "none" /\ ask.target[1] = "record" => ask.target[2] \in RecordSet
Understood == \A r \in RefSet : meant[r] \subseteq StandsFor(public, personal, r)
\* A request is about what was shown, and about the record whose address came with it unless it is about a row.
About(request) ==
    /\ request.meant \subseteq {request.target}
    /\ request.address # "none" => request.target = References!Thing(request.address) \/ request.target[1] # "record"
RefInv ==
    /\ RefTypeOK
    /\ Understood
    /\ About(ask)
    /\ References!OptionsOfTheOneShown

LEMMA RefBegins ==
    ASSUME References!RefInit
    PROVE  RefInv
BY DEF References!RefInit, RefInv, RefTypeOK, Understood, About, RefSet, RecordSet, RecordMap, StandsFor, References!NoAsk,
       References!NoAnswer, References!OptionsOfTheOneShown, References!NoKey

LEMMA ReferenceKnown ==
    ASSUME NEW x \in RecordSet
    PROVE  ReferenceOf(References!Thing(x)) \in RefSet
BY DEF ReferenceOf, References!Thing, RefSet

\* What grows keeps what each reference stands for.
Grown(before, after) == \A r \in RefSet : before[r] # "none" => after[r] = before[r]
Standing(records, x) == records[ReferenceOf(References!Thing(x))] = x

LEMMA SetGrows ==
    ASSUME NEW m \in RecordMemory, NEW x \in RecordSet, ~References!Clash(m, x)
    PROVE  /\ References!Set(m, x) \in RecordMemory
           /\ References!Set(m, x).ok = m.ok
           /\ Grown(m.public, References!Set(m, x).public)
           /\ Standing(References!Set(m, x).public, x)
BY ReferenceKnown DEF References!Set, References!Clash, RecordMemory, RecordMap, Grown, Standing

LEMMA RelatedGrows ==
    ASSUME NEW m \in RecordMemory, NEW x \in RecordSet
    PROVE  /\ References!Related(m, x) \in RecordMemory
           /\ Grown(m.public, References!Related(m, x).public)
           /\ References!Related(m, x).ok => m.ok /\ Standing(References!Related(m, x).public, x)
<1>1. CASE References!Clash(m, x)
    BY <1>1 DEF References!Related, RecordMemory, Grown
<1>2. CASE ~References!Clash(m, x)
    BY <1>2, SetGrows DEF References!Related
<1>. QED BY <1>1, <1>2

LEMMA MaterializedGrows ==
    ASSUME NEW m \in RecordMemory, NEW x \in RecordSet, NEW y \in RecordSet \cup {"none"}
    PROVE  /\ References!Materialized(m, x, y) \in RecordMemory
           /\ Grown(m.public, References!Materialized(m, x, y).public)
           /\ References!Materialized(m, x, y).ok =>
                 /\ m.ok
                 /\ Standing(References!Materialized(m, x, y).public, x)
                 /\ y # "none" => Standing(References!Materialized(m, x, y).public, y)
<1>1. CASE References!Clash(m, x)
    BY <1>1 DEF References!Materialized, RecordMemory, Grown
<1>2. CASE ~References!Clash(m, x) /\ y = "none"
    BY <1>2, SetGrows DEF References!Materialized
<1>3. CASE ~References!Clash(m, x) /\ y \in RecordSet /\ y # "none"
    <2>. DEFINE s == References!Set(m, x)
    <2>1. s \in RecordMemory /\ Grown(m.public, s.public) /\ s.ok = m.ok /\ Standing(s.public, x)
        BY <1>3, SetGrows
    <2>2. References!Materialized(m, x, y) = References!Related(s, y)
        BY <1>3 DEF References!Materialized
    <2>3. /\ References!Related(s, y) \in RecordMemory
          /\ Grown(s.public, References!Related(s, y).public)
          /\ References!Related(s, y).ok => s.ok /\ Standing(References!Related(s, y).public, y)
        BY <1>3, <2>1, RelatedGrows
    <2>. HIDE DEF s
    <2>4. x # "none" /\ ReferenceOf(References!Thing(x)) \in RefSet
        BY ReferenceKnown DEF RecordSet
    <2>5. Standing(References!Related(s, y).public, x)
        BY <2>1, <2>3, <2>4 DEF Standing, Grown
    <2>6. Grown(m.public, References!Related(s, y).public)
        BY <2>1, <2>3 DEF Grown
    <2>. QED BY <2>1, <2>2, <2>3, <2>5, <2>6
<1>. QED BY <1>1, <1>2, <1>3 DEF RecordSet

\* What was understood stays so when the worker has more records and as many rows.
LEMMA UnderstoodGrows ==
    ASSUME RefInv, NEW records \in RecordMap, Grown(public, records), NEW r \in RefSet
    PROVE  meant[r] \subseteq StandsFor(records, personal, r)
BY DEF RefInv, Understood, StandsFor, Grown

LEMMA ShownKeeps ==
    ASSUME RefInv, NEW m \in RecordMemory, NEW records \in SUBSET RecordSet, Grown(public, m.public),
           m.ok => \A x \in records : Standing(m.public, x),
           References!Remember(m), References!ShownIf(m.ok, records)
    PROVE  RefInv'
<1>1. /\ public' = m.public /\ live' = m.live /\ personal' = personal /\ ask' = ask
      /\ refAnswer' = References!NoAnswer
    BY DEF References!Remember, References!Quiet
<1>2. CASE ~m.ok
    <2>1. meant' = meant /\ cards' = cards
        BY <1>2 DEF References!ShownIf
    <2>2. RefTypeOK'
        BY <1>1, <2>1 DEF RefTypeOK, RefInv, RecordMemory
    <2>3. Understood'
        BY <1>1, <2>1, UnderstoodGrows DEF Understood, RecordMemory
    <2>. QED BY <1>1, <2>2, <2>3 DEF RefInv, References!OptionsOfTheOneShown, References!NoAnswer
<1>3. CASE m.ok
    <2>. DEFINE things == {References!Thing(x) : x \in records}
    <2>1. /\ meant' = [r \in RefSet |-> meant[r] \cup {t \in things : ReferenceOf(t) = r}]
          /\ cards' = cards \cup {<<ReferenceOf(References!Thing(x)), x>> : x \in records}
        BY <1>3 DEF References!ShownIf, References!Showing, RefSet
    <2>2. RefTypeOK'
        BY <1>1, <2>1 DEF RefTypeOK, RefInv, RecordMemory
    <2>3. ASSUME NEW r \in RefSet, NEW t \in things, ReferenceOf(t) = r
          PROVE  t \in StandsFor(m.public, personal, r)
        <3>1. PICK x \in records : t = References!Thing(x)
            OBVIOUS
        <3>2. m.public[r] = x /\ x # "none"
            BY <1>3, <2>3, <3>1 DEF Standing, RecordSet
        <3>. QED BY <3>1, <3>2 DEF StandsFor
    <2>. HIDE DEF things
    <2>4. Understood'
        <3>. SUFFICES ASSUME NEW r \in RefSet
                      PROVE  meant'[r] \subseteq StandsFor(m.public, personal, r)
            BY <1>1 DEF Understood
        <3>1. meant'[r] = meant[r] \cup {t \in things : ReferenceOf(t) = r}
            BY <2>1
        <3>2. meant[r] \subseteq StandsFor(m.public, personal, r)
            BY UnderstoodGrows DEF RecordMemory
        <3>. QED BY <2>3, <3>1, <3>2
    <2>. QED BY <1>1, <2>2, <2>4 DEF RefInv, References!OptionsOfTheOneShown, References!NoAnswer
<1>. QED BY <1>2, <1>3

LEMMA MemoryIsRecords ==
    ASSUME RefInv
    PROVE  References!Memory \in RecordMemory /\ References!Memory.public = public
BY DEF RefInv, About, RefTypeOK, References!Memory, RecordMemory

LEMMA ShowRecordStep ==
    ASSUME RefInv, NEW x \in RecordSet, NEW y \in RecordSet, References!ShowRecord(x, y)
    PROVE  RefInv'
<1>. DEFINE m == References!Materialized(References!Memory, x, y)
<1>1. References!Remember(m) /\ References!ShownIf(m.ok, {x, y})
    BY DEF References!ShowRecord
<1>2. /\ m \in RecordMemory /\ Grown(public, m.public)
      /\ m.ok => Standing(m.public, x) /\ Standing(m.public, y)
    BY MemoryIsRecords, MaterializedGrows DEF RecordSet
<1>. HIDE DEF m
<1>. QED BY <1>1, <1>2, ShownKeeps

LEMMA ShowRecordsStep ==
    ASSUME RefInv, NEW x \in RecordSet, NEW y \in RecordSet, NEW limit \in 1..2, References!ShowRecords(x, y, limit)
    PROVE  RefInv'
<1>. DEFINE one == References!Materialized(References!Memory, x, "none")
            m == References!Materialized(one, y, "none")
            records == IF limit = 1 THEN {x} ELSE {x, y}
<1>1. References!Remember(m) /\ References!ShownIf(m.ok, records)
    BY DEF References!ShowRecords
<1>2. one \in RecordMemory /\ Grown(public, one.public) /\ (one.ok => Standing(one.public, x))
    BY MemoryIsRecords, MaterializedGrows
<1>3. m \in RecordMemory /\ Grown(one.public, m.public) /\ (m.ok => one.ok /\ Standing(m.public, y))
    BY <1>2, MaterializedGrows
<1>. HIDE DEF m, one
<1>4. Grown(public, m.public) /\ (m.ok => Standing(m.public, x))
    BY <1>2, <1>3, ReferenceKnown DEF Grown, Standing, RecordSet
<1>5. records \in SUBSET RecordSet /\ (m.ok => \A z \in records : Standing(m.public, z))
    BY <1>3, <1>4
<1>. HIDE DEF records
<1>. QED BY <1>1, <1>3, <1>4, <1>5, ShownKeeps

LEMMA DiscoveredGrows ==
    ASSUME NEW m \in RecordMemory, NEW x \in RecordSet
    PROVE  /\ References!Discovered(m, x) \in RecordMemory
           /\ Grown(m.public, References!Discovered(m, x).public)
           /\ References!Discovered(m, x).ok => m.ok /\ Standing(References!Discovered(m, x).public, x)
<1>1. CASE m.ok
    BY <1>1, RelatedGrows DEF References!Discovered
<1>2. CASE ~m.ok
    BY <1>2 DEF References!Discovered, Grown
<1>. QED BY <1>1, <1>2

LEMMA ShowDiscoveriesStep ==
    ASSUME RefInv, NEW x \in RecordSet, NEW y \in RecordSet, NEW limit \in 1..2,
           References!ShowDiscoveries(x, y, limit)
    PROVE  RefInv'
<1>. DEFINE one == References!Discovered(References!Memory, x)
            m == References!Discovered(one, y)
            records == IF limit = 1 THEN {x} ELSE {x, y}
<1>1. References!Remember(m) /\ References!ShownIf(m.ok, records)
    BY DEF References!ShowDiscoveries
<1>2. one \in RecordMemory /\ Grown(public, one.public) /\ (one.ok => Standing(one.public, x))
    BY MemoryIsRecords, DiscoveredGrows
<1>3. m \in RecordMemory /\ Grown(one.public, m.public) /\ (m.ok => one.ok /\ Standing(m.public, y))
    BY <1>2, DiscoveredGrows
<1>. HIDE DEF m, one
<1>4. Grown(public, m.public) /\ (m.ok => Standing(m.public, x))
    BY <1>2, <1>3, ReferenceKnown DEF Grown, Standing, RecordSet
<1>5. records \in SUBSET RecordSet /\ (m.ok => \A z \in records : Standing(m.public, z))
    BY <1>3, <1>4
<1>. HIDE DEF records
<1>. QED BY <1>1, <1>3, <1>4, <1>5, ShownKeeps

\* The rows of a list that could be read are numbered.
LEMMA RowsNumbered ==
    ASSUME NEW list, NEW source, References!ReadRows(list, source).known
    PROVE  \E n \in Nat : DOMAIN References!ReadRows(list, source).items = 1..n
<1>1. ASSUME NEW rows, NEW fields, References!RowsWith(rows, fields).known
      PROVE  \E n \in Nat : DOMAIN References!RowsWith(rows, fields).items = 1..n
    <2>. DEFINE data == References!DataRows(rows)
                n == IF Len(data) < 3 THEN Len(data) ELSE 3
    <2>1. References!RowsWith(rows, fields).items = SubSeq(data, 1, n)
        BY <1>1 DEF References!RowsWith, References!Unreadable, References!First
    <2>2. n \in Nat
        OBVIOUS
    <2>. HIDE DEF data, n
    <2>. QED BY <2>1, <2>2
<1>. QED BY <1>1 DEF References!ReadRows, References!LoanRows, References!ReservationRows, References!GenericRows,
                 References!Unreadable

\* The rows an answer names are the ones the worker knows by their references afterwards.
LEMMA RowsRemembered ==
    ASSUME RefInv, NEW keys, \A i \in DOMAIN keys : i \in Nat \ {0},
           \A i \in DOMAIN keys : keys[i] # References!NoKey /\ keys[i][1] # "record",
           References!RememberRows(References!Projected(keys))
    PROVE  /\ DOMAIN personal' = RefSet
           /\ \A r \in RefSet : personal'[r] # References!NoKey => personal'[r][1] # "record"
           /\ live' \in SUBSET RefSet
           /\ \A r \in RefSet : personal[r] # References!NoKey => personal'[r] = personal[r]
           /\ \A k \in References!Projected(keys) : personal'[ReferenceOf(k)] = k
<1>. DEFINE kept == References!Projected(keys)
<1>1. ASSUME NEW k \in kept
      PROVE  \E i \in DOMAIN keys : k = keys[i] /\ \A j \in 1..i : ~References!ProjectionClash(keys, j)
    BY <1>1 DEF References!Projected
<1>2. ASSUME NEW k \in kept, NEW h \in kept, ReferenceOf(k) = ReferenceOf(h)
      PROVE  k = h
    <2>1. PICK i \in DOMAIN keys : k = keys[i] /\ \A j \in 1..i : ~References!ProjectionClash(keys, j)
        BY <1>1
    <2>2. PICK n \in DOMAIN keys : h = keys[n] /\ \A j \in 1..n : ~References!ProjectionClash(keys, j)
        BY <1>1
    <2>3. ~References!ProjectionClash(keys, i) /\ ~References!ProjectionClash(keys, n)
        BY <2>1, <2>2
    <2>4. CASE i < n
        BY <1>2, <2>1, <2>2, <2>3, <2>4 DEF References!ProjectionClash
    <2>5. CASE n < i
        BY <1>2, <2>1, <2>2, <2>3, <2>5 DEF References!ProjectionClash
    <2>. QED BY <2>1, <2>2, <2>4, <2>5
<1>3. ASSUME NEW k \in kept
      PROVE  /\ personal[ReferenceOf(k)] \in {References!NoKey, k}
             /\ k # References!NoKey /\ k[1] # "record"
    <2>1. PICK i \in DOMAIN keys : k = keys[i] /\ \A j \in 1..i : ~References!ProjectionClash(keys, j)
        BY <1>1
    <2>. QED BY <2>1 DEF References!ProjectionClash
<1>4. \A k \in kept : ReferenceOf(k) \in RefSet
    BY DEF ReferenceOf, RefSet
<1>5. /\ personal' = [r \in RefSet |-> IF \E k \in kept : ReferenceOf(k) = r
                                      THEN CHOOSE k \in kept : ReferenceOf(k) = r ELSE personal[r]]
      /\ live' = live \cup {ReferenceOf(k) : k \in kept}
    BY DEF References!RememberRows, RefSet
<1>. HIDE DEF kept
<1>6. \A k \in kept : personal'[ReferenceOf(k)] = k
    BY <1>2, <1>4, <1>5
<1>7. ASSUME NEW r \in RefSet
      PROVE  \/ \E k \in kept : ReferenceOf(k) = r /\ personal'[r] = k
             \/ personal'[r] = personal[r]
    BY <1>5, <1>6
<1>8. \A r \in RefSet : personal'[r] # References!NoKey => personal'[r][1] # "record"
    BY <1>3, <1>7 DEF RefInv, About, RefTypeOK
<1>9. \A r \in RefSet : personal[r] # References!NoKey => personal'[r] = personal[r]
    BY <1>3, <1>7
<1>10. live' \in SUBSET RefSet
    BY <1>4, <1>5 DEF RefInv, About, RefTypeOK
<1>. QED BY <1>5, <1>6, <1>8, <1>9, <1>10 DEF kept

LEMMA ReadListStep ==
    ASSUME RefInv, NEW list \in UsedLists, NEW query \in BOOLEAN, NEW offset \in Int, NEW limit \in Int,
           References!ReadList(list, query, offset, limit)
    PROVE  RefInv'
<1>. DEFINE rowsRead == References!ReadRows(list, refSite[list]).items
            all == [i \in DOMAIN rowsRead |-> References!KeyOf(list, rowsRead, i)]
            answers == References!Page(rowsRead, query, offset, limit).rows
            keys == {all[i] : i \in DOMAIN all \intersect References!ToSet(answers)}
<1>1. References!ReadRows(list, refSite[list]).known /\ References!RememberRows(References!Projected(all))
    BY DEF References!ReadList
<1>2. /\ public' = public /\ ask' = ask /\ cards' = cards /\ refAnswer' = References!NoAnswer
      /\ \/ meant' = meant
         \/ /\ \A i \in DOMAIN all : ~References!ProjectionClash(all, i)
            /\ References!Showing(keys)
    BY DEF References!ReadList
<1>3. PICK n \in Nat : DOMAIN rowsRead = 1..n
    BY <1>1, RowsNumbered
<1>. HIDE DEF rowsRead, answers
<1>4. \A i \in DOMAIN all : all[i] # References!NoKey /\ all[i][1] # "record"
    BY DEF References!KeyOf, References!NoKey, UsedLists
<1>5. DOMAIN all = 1..n /\ \A i \in DOMAIN all : i \in Nat \ {0}
    BY <1>3
<1>. HIDE DEF all
<1>6. /\ DOMAIN personal' = RefSet
      /\ \A r \in RefSet : personal'[r] # References!NoKey => personal'[r][1] # "record"
      /\ live' \in SUBSET RefSet
      /\ \A r \in RefSet : personal[r] # References!NoKey => personal'[r] = personal[r]
      /\ \A k \in References!Projected(all) : personal'[ReferenceOf(k)] = k
    BY <1>1, <1>4, <1>5, RowsRemembered
<1>7. \A r \in RefSet : meant[r] \subseteq StandsFor(public, personal', r)
    BY <1>6 DEF RefInv, Understood, StandsFor
<1>8. CASE meant' = meant
    BY <1>2, <1>6, <1>7, <1>8 DEF RefInv, About, RefTypeOK, Understood, References!OptionsOfTheOneShown, References!NoAnswer
<1>9. CASE (\A i \in DOMAIN all : ~References!ProjectionClash(all, i)) /\ References!Showing(keys)
    <2>1. meant' = [r \in RefSet |-> meant[r] \cup {t \in keys : ReferenceOf(t) = r}]
        BY <1>9 DEF References!Showing, RefSet
    <2>2. ASSUME NEW t \in keys
          PROVE  t # References!NoKey /\ personal'[ReferenceOf(t)] = t
        <3>1. PICK i \in DOMAIN all : t = all[i]
            OBVIOUS
        <3>2. \A j \in 1..i : ~References!ProjectionClash(all, j)
            BY <1>5, <1>9
        <3>3. t \in References!Projected(all)
            BY <1>5, <3>1, <3>2 DEF References!Projected
        <3>. QED BY <1>4, <1>6, <3>1, <3>3
    <2>. HIDE DEF keys
    <2>3. Understood'
        BY <1>2, <1>7, <2>1, <2>2 DEF Understood, StandsFor
    <2>. QED BY <1>2, <1>6, <2>1, <2>3 DEF RefInv, About, RefTypeOK, References!OptionsOfTheOneShown, References!NoAnswer
<1>. QED BY <1>2, <1>8, <1>9

LEMMA LookedKeeps ==
    ASSUME RefInv, NEW r \in RefSet
    PROVE  /\ References!Looked(r).public \in RecordMap
           /\ DOMAIN References!Looked(r).personal = RefSet /\ DOMAIN References!Looked(r).meant = RefSet
           /\ \A q \in RefSet : References!Looked(r).personal[q] # References!NoKey =>
                                References!Looked(r).personal[q][1] # "record"
           /\ References!Looked(r).live = live
           /\ \A q \in RefSet : References!Looked(r).meant[q] \subseteq
                                StandsFor(References!Looked(r).public, References!Looked(r).personal, q)
           /\ r \notin live => References!Looked(r).meant[r] = {} /\ References!Looked(r).personal[r] = References!NoKey
BY DEF RefInv, About, RefTypeOK, RecordMap, Understood, StandsFor, References!Looked

LEMMA AskStep ==
    ASSUME RefInv, NEW kind \in {"options", "visit", "write"}, NEW r \in RefSet, NEW record \in RecordSet \cup {"none"},
           References!Ask(kind, r, record)
    PROVE  RefInv'
<1>1. refAnswer' = References!NoAnswer /\ cards' = cards
    BY DEF References!Ask, References!Quiet
<1>2. CASE record # "none" /\ public[r] \notin {"none", record}
    <2>1. public' = public /\ personal' = personal /\ live' = live /\ meant' = meant /\ ask' = ask
        BY <1>2 DEF References!Ask, References!memory
    <2>. QED BY <1>1, <2>1 DEF RefInv, About, RefTypeOK, Understood, StandsFor, References!OptionsOfTheOneShown,
                               References!NoAnswer
<1>3. CASE ~(record # "none" /\ public[r] \notin {"none", record})
    <2>. DEFINE looked == References!Looked(r)
                claims == record # "none" /\ r \notin live
                m == IF claims THEN References!Claimed(looked, r, record) ELSE looked
                target == IF r \in m.live THEN References!TargetOf(m, r) ELSE References!NoTarget
                request == [kind |-> kind, ref |-> r, address |-> record, target |-> target, meant |-> m.meant[r]]
    <2>1. /\ public' = m.public /\ personal' = m.personal /\ live' = m.live /\ meant' = m.meant
          /\ ask' = IF References!Refused(kind, target) THEN References!NoAsk ELSE request
        BY <1>3 DEF References!Ask
    <2>2. /\ m.public \in RecordMap /\ DOMAIN m.personal = RefSet /\ DOMAIN m.meant = RefSet /\ m.live \in SUBSET RefSet
          /\ \A q \in RefSet : m.personal[q] # References!NoKey => m.personal[q][1] # "record"
          /\ \A q \in RefSet : m.meant[q] \subseteq StandsFor(m.public, m.personal, q)
          /\ record # "none" => m.public[r] \in {"none", record}
        <3>1. CASE claims
            <4>1. /\ m.public = [looked.public EXCEPT ![r] = record] /\ m.personal = looked.personal
                  /\ m.live = looked.live \cup {r}
                  /\ m.meant = [looked.meant EXCEPT ![r] = @ \cup {References!Thing(record)}]
                BY <3>1 DEF References!Claimed
            <4>. HIDE DEF m, looked
            <4>2. /\ looked.public \in RecordMap /\ DOMAIN looked.personal = RefSet /\ DOMAIN looked.meant = RefSet
                  /\ \A q \in RefSet : looked.personal[q] # References!NoKey => looked.personal[q][1] # "record"
                  /\ \A q \in RefSet : looked.meant[q] \subseteq StandsFor(looked.public, looked.personal, q)
                  /\ looked.live \in SUBSET RefSet /\ looked.meant[r] = {}
                BY <3>1, LookedKeeps DEF looked, RefInv, RefTypeOK
            <4>3. m.public \in RecordMap /\ m.public[r] = record /\ record # "none"
                BY <3>1, <4>1, <4>2 DEF RecordMap
            <4>4. ASSUME NEW q \in RefSet
                  PROVE  m.meant[q] \subseteq StandsFor(m.public, m.personal, q)
                <5>1. CASE q = r
                    <6>1. m.meant[q] = {References!Thing(record)}
                        BY <4>1, <4>2, <5>1
                    <6>. QED BY <4>3, <5>1, <6>1 DEF StandsFor
                <5>2. CASE q # r
                    <6>1. m.meant[q] = looked.meant[q] /\ m.public[q] = looked.public[q] /\ m.personal[q] = looked.personal[q]
                        BY <4>1, <4>2, <5>2 DEF RecordMap
                    <6>. QED BY <4>2, <6>1 DEF StandsFor
                <5>. QED BY <5>1, <5>2
            <4>. QED BY <4>1, <4>2, <4>3, <4>4
        <3>2. CASE ~claims
            <4>1. looked.public[r] \in {public[r], "none"}
                BY DEF References!Looked, RefInv, RefTypeOK, RecordMap
            <4>. QED BY <1>3, <3>2, <4>1, LookedKeeps DEF RefInv, About, RefTypeOK
        <3>. QED BY <3>1, <3>2
    <2>. HIDE DEF m
    <2>3. m.meant[r] \subseteq StandsFor(m.public, m.personal, r)
        BY <2>2
    <2>4. References!Refused(kind, target) \/ m.meant[r] \subseteq {target}
        BY <2>3 DEF References!Refused, References!TargetOf, References!NoTarget, References!NoKey, StandsFor
    <2>5. \/ References!Refused(kind, target)
          \/ record # "none" => target = References!Thing(record) \/ target[1] # "record"
        BY <2>2 DEF References!Refused, References!TargetOf, References!NoTarget, References!NoKey, References!Thing
    <2>6. target # References!NoTarget /\ target[1] = "record" => target[2] \in RecordSet
        BY <2>2 DEF References!TargetOf, References!NoTarget, References!NoKey, References!Thing, RecordMap
    <2>. HIDE DEF target
    <2>7. ask'.kind # "none" /\ ask'.target[1] = "record" => ask'.target[2] \in RecordSet
        BY <2>1, <2>6 DEF References!NoAsk, References!Refused
    <2>8. About(ask')
        BY <2>1, <2>4, <2>5 DEF References!NoAsk, About
    <2>9. RefTypeOK'
        BY <1>1, <2>1, <2>2, <2>7 DEF RefInv, About, RefTypeOK
    <2>10. Understood'
        BY <2>1, <2>2 DEF Understood
    <2>. QED BY <1>1, <2>8, <2>9, <2>10 DEF RefInv, About, References!OptionsOfTheOneShown, References!NoAnswer
<1>. QED BY <1>2, <1>3

\* An answer is about the target of its request.
LEMMA AnswerKeeps ==
    ASSUME RefInv, NEW says, References!Answer(says)
    PROVE  References!OptionsOfTheOneShown' /\ ask' = References!NoAsk /\ About(ask')
BY DEF RefInv, About, References!Answer, References!OptionsOfTheOneShown, References!NoAsk

LEMMA PublicSurfaceStep ==
    ASSUME RefInv, NEW related \in RecordSet \cup {"none"}, References!PublicSurface(related)
    PROVE  RefInv'
<1>. DEFINE m == References!Materialized(References!Memory, ask.target[2], related)
<1>1. /\ public' = m.public /\ live' = m.live /\ personal' = personal /\ meant' = meant /\ cards' = cards
      /\ \E says \in SUBSET {"visit_shelf", "open_online"} : References!Answer(says)
    BY DEF References!PublicSurface
<1>2. ask' = References!NoAsk
    BY <1>1 DEF References!Answer
<1>3. ask.target[2] \in RecordSet
    BY DEF References!PublicSurface, RefInv, RefTypeOK
<1>4. m \in RecordMemory /\ Grown(public, m.public)
    BY <1>3, MemoryIsRecords, MaterializedGrows
<1>. HIDE DEF m
<1>5. Understood'
    BY <1>1, <1>4, UnderstoodGrows DEF Understood, RecordMemory
<1>6. RefTypeOK'
    BY <1>1, <1>2, <1>4 DEF RefInv, About, RefTypeOK, RecordMemory, References!NoAsk
<1>7. References!OptionsOfTheOneShown' /\ About(ask')
    BY <1>1, AnswerKeeps
<1>. QED BY <1>5, <1>6, <1>7 DEF RefInv, About

LEMMA RefStep ==
    ASSUME RefInv, [References!RefNext]_refVars
    PROVE  RefInv'
<1>1. CASE UNCHANGED refVars
    BY <1>1 DEF refVars, RefInv, About, RefTypeOK, Understood, StandsFor, References!OptionsOfTheOneShown
<1>2. ASSUME References!PublicOptions \/ References!PersonalOptions \/ References!PersonalSurface \/ References!AskFails
      PROVE  RefInv'
    <2>1. /\ public' = public /\ live' = live /\ personal' = personal /\ meant' = meant /\ cards' = cards
          /\ ask' = References!NoAsk
          /\ refAnswer' = [address |-> ask.address, target |-> ask.target, meant |-> ask.meant, says |-> refAnswer'.says]
        BY <1>2 DEF References!PublicOptions, References!PersonalOptions, References!PersonalSurface,
                    References!AskFails, References!Answer, References!memory
    <2>2. References!OptionsOfTheOneShown'
        BY <2>1 DEF References!OptionsOfTheOneShown, RefInv, About
    <2>. QED BY <2>1, <2>2 DEF RefInv, About, RefTypeOK, Understood, About, StandsFor, References!NoAsk
<1>3. ASSUME NEW r \in RefSet, References!Overdue(r)
      PROVE  RefInv'
    BY <1>3 DEF References!Overdue, References!Quiet, RefInv, About, RefTypeOK, Understood, StandsFor,
                References!OptionsOfTheOneShown, References!NoAnswer
<1>4. CASE References!Disconnect
    <2>1. /\ public' = public /\ ask' = ask /\ cards' = cards /\ refAnswer' = References!NoAnswer
          /\ personal' = [r \in RefSet |-> References!NoKey] /\ live' \in SUBSET live
          /\ meant' = [r \in RefSet |-> {t \in meant[r] : t[1] = "record"}]
        BY <1>4 DEF References!Disconnect, References!Quiet, RefSet
    <2>2. Understood'
        BY <2>1 DEF RefInv, About, RefTypeOK, Understood, StandsFor
    <2>. QED BY <2>1, <2>2 DEF RefInv, About, RefTypeOK, References!OptionsOfTheOneShown, References!NoAnswer
<1>5. CASE References!Restart
    <2>1. /\ public' = [r \in RefSet |-> "none"] /\ personal' = [r \in RefSet |-> References!NoKey]
          /\ live' = {} /\ meant' = [r \in RefSet |-> {}] /\ ask' = References!NoAsk /\ cards' = cards
          /\ refAnswer' = References!NoAnswer
        BY <1>5 DEF References!Restart, References!Quiet, RefSet
    <2>. QED BY <2>1 DEF RefInv, About, RefTypeOK, RecordMap, Understood, StandsFor, References!OptionsOfTheOneShown,
                         References!NoAnswer, References!NoAsk
<1>6. ASSUME NEW list \in UsedLists, References!SiteChanges(list)
      PROVE  RefInv'
    BY <1>6 DEF References!SiteChanges, References!memory, RefInv, About, RefTypeOK, Understood, StandsFor,
                References!OptionsOfTheOneShown, References!NoAnswer
<1>7. ASSUME NEW r \in RefSet, NEW record \in {"none"} \cup {c[2] : c \in {d \in cards : d[1] = r}},
             References!AskOptions(r, record) \/ References!AskVisit(r, record) \/ References!AskWrite(r, record)
      PROVE  RefInv'
    <2>1. record \in RecordSet \cup {"none"}
        BY DEF RefInv, About, RefTypeOK
    <2>. QED BY <1>7, <2>1, AskStep DEF References!AskOptions, References!AskVisit, References!AskWrite
<1>8. ASSUME NEW pair \in References!Pairs, NEW limit \in 1..2,
             \/ References!ShowRecord(pair[1], pair[2])
             \/ References!ShowRecords(pair[1], pair[2], limit)
             \/ References!ShowDiscoveries(pair[1], pair[2], limit)
      PROVE  RefInv'
    <2>1. pair[1] \in RecordSet /\ pair[2] \in RecordSet
        BY DEF References!Pairs, RecordSet
    <2>. QED BY <1>8, <2>1, ShowRecordStep, ShowRecordsStep, ShowDiscoveriesStep
<1>9. ASSUME NEW list \in UsedLists, NEW query \in BOOLEAN, NEW offset \in 0..2, NEW limit \in 1..2,
             References!ReadList(list, query, offset, limit)
      PROVE  RefInv'
    BY <1>9, ReadListStep
<1>. QED
    BY <1>1, <1>2, <1>3, <1>4, <1>5, <1>6, <1>7, <1>8, <1>9, PublicSurfaceStep
    DEF References!RefNext, RefSet, RecordSet

LEMMA RefHolds == ConnectorsSpec => []RefInv
<1>1. ConnectorsInit => RefInv
    BY RefBegins DEF ConnectorsInit, ConnectorsStart
<1>2. ASSUME RefInv, [ConnectorsNext]_allVars
      PROVE  RefInv'
    <2>1. [References!RefNext]_refVars
        BY <1>2 DEF ConnectorsNext, allVars, libraryVars
    <2>. QED BY <1>2, <2>1, RefStep
<1>. QED BY <1>1, <1>2, PTL DEF ConnectorsSpec

\* What an answer says is about the one thing shown under the reference, or brought back by its address, since the
\* worker last forgot it; and whenever the address of a record came with the request, about that record or about a row
\* (handleLibraryActionOptions, materializeLibraryRecord, projectMyLibraryPageItems).
THEOREM AnswersOfTheOneShown == ConnectorsSpec => []OptionsOfTheOneShown
<1>1. RefInv => OptionsOfTheOneShown
    BY DEF RefInv, OptionsOfTheOneShown
<1>. QED BY <1>1, RefHolds, PTL

(***************************************************************************)
(* The pages of a list of My Library (LibraryRefs)                         *)
(***************************************************************************)

FoundFor(l) ==
    References!Matching(References!ReadRows(l.list, refSite[l.list]).items, l.query)
\* The rows an agent has are the first ones that match.
ListingOf(l, found) ==
    IF l.next = -1 THEN Len(l.got) = Len(found) /\ \A i \in 1..Len(found) : l.got[i] = found[i]
    ELSE l.next \in Nat /\ l.next < Len(found) /\ l.got = SubSeq(found, 1, l.next)
ListingInv ==
    /\ DOMAIN refSite = UsedLists
    /\ listing # References!NoListing => listing.list \in UsedLists /\ ListingOf(listing, FoundFor(listing))

LEMMA PageFollows ==
    ASSUME NEW rowsRead, NEW query, NEW offset \in 0..2, NEW limit \in 1..2,
           NEW before, offset = 0 \/ (offset < Len(References!Matching(rowsRead, query))
                                      /\ before = SubSeq(References!Matching(rowsRead, query), 1, offset)),
           NEW l, l.next = References!Page(rowsRead, query, offset, limit).next,
           l.got = IF offset = 0 THEN References!Page(rowsRead, query, offset, limit).rows
                   ELSE before \o References!Page(rowsRead, query, offset, limit).rows
    PROVE  ListingOf(l, References!Matching(rowsRead, query))
<1>. DEFINE found == References!Matching(rowsRead, query)
            last == IF offset + limit < Len(found) THEN offset + limit ELSE Len(found)
<1>1. /\ l.next = IF last < Len(found) /\ offset < Len(found) THEN last ELSE -1
      /\ l.got = IF offset = 0 THEN SubSeq(found, 1, last) ELSE before \o SubSeq(found, offset + 1, last)
    BY DEF References!Page
<1>2. Len(found) \in Nat /\ last \in Nat /\ last <= Len(found)
    OBVIOUS
<1>3. (offset = 0 \/ (offset < Len(found) /\ before = SubSeq(found, 1, offset))) /\ (offset <= last \/ offset = 0)
    BY <1>2
<1>. HIDE DEF found, last
<1>4. l.got = SubSeq(found, 1, last)
    <2>1. CASE offset = 0
        BY <1>1, <2>1
    <2>2. CASE offset # 0
        <3>1. SubSeq(found, 1, offset) \o SubSeq(found, offset + 1, last) = SubSeq(found, 1, last)
            BY <1>2, <1>3, <2>2
        <3>. QED BY <1>1, <1>3, <2>2, <3>1
    <2>. QED BY <2>1, <2>2
<1>5. ASSUME last < Len(found)
      PROVE  ListingOf(l, found)
    <2>1. l.next = last
        BY <1>1, <1>2, <1>3, <1>5
    <2>2. last \in Nat /\ last < Len(found) /\ last # -1
        BY <1>2, <1>5
    <2>3. l.next \in Nat /\ l.next < Len(found) /\ l.next # -1 /\ l.got = SubSeq(found, 1, l.next)
        BY <1>4, <2>1, <2>2
    <2>. QED BY <2>3 DEF ListingOf
<1>6. ASSUME last = Len(found)
      PROVE  ListingOf(l, found)
    <2>1. l.next = -1
        BY <1>1, <1>2, <1>6
    <2>2. Len(SubSeq(found, 1, last)) = last /\ \A i \in 1..last : SubSeq(found, 1, last)[i] = found[i]
        BY <1>2
    <2>. QED BY <1>4, <1>6, <2>1, <2>2 DEF ListingOf
<1>7. ListingOf(l, found)
    BY <1>2, <1>5, <1>6
<1>. QED BY <1>7 DEF found

LEMMA ListingStep ==
    ASSUME ListingInv, [References!RefNext]_refVars
    PROVE  ListingInv'
<1>1. ASSUME refSite' = refSite, listing' \in {listing, References!NoListing}
      PROVE  ListingInv'
    BY <1>1 DEF ListingInv, FoundFor
<1>2. ASSUME NEW list \in UsedLists, NEW query \in BOOLEAN, NEW offset \in 0..2, NEW limit \in 1..2,
             References!ReadList(list, query, offset, limit)
      PROVE  ListingInv'
    <2>. DEFINE rowsRead == References!ReadRows(list, refSite[list]).items
                onePage == References!Page(rowsRead, query, offset, limit)
                goesOn == listing.list = list /\ listing.query = query /\ listing.next = offset
                next == [list |-> list, query |-> query, next |-> onePage.next,
                         got |-> IF offset = 0 THEN onePage.rows ELSE listing.got \o onePage.rows]
    <2>1. refSite' = refSite
        BY <1>2 DEF References!ReadList
    <2>2. \/ listing' = References!Kept
          \/ (offset = 0 \/ goesOn) /\ listing' = next
        BY <1>2 DEF References!ReadList, References!Listed
    <2>3. CASE listing' = References!Kept
        BY <1>1, <2>1, <2>3 DEF References!Kept
    <2>4. CASE (offset = 0 \/ goesOn) /\ listing' = next
        <3>1. offset = 0 \/ (offset < Len(References!Matching(rowsRead, query))
                             /\ listing.got = SubSeq(References!Matching(rowsRead, query), 1, offset))
            <4>1. CASE offset # 0
                <5>1. /\ listing.list = list /\ listing.query = query /\ listing.next = offset
                      /\ listing # References!NoListing
                    BY <2>4, <4>1 DEF References!NoListing
                <5>2. FoundFor(listing) = References!Matching(rowsRead, query)
                    BY <5>1 DEF FoundFor
                <5>3. ListingOf(listing, References!Matching(rowsRead, query))
                    BY <5>1, <5>2 DEF ListingInv
                <5>. HIDE DEF rowsRead
                <5>. QED BY <5>1, <5>3 DEF ListingOf
            <4>. QED BY <4>1
        <3>2. ListingOf(next, References!Matching(rowsRead, query))
            BY <3>1, PageFollows
        <3>3. next.list = list /\ next.query = query
            OBVIOUS
        <3>. HIDE DEF next
        <3>4. FoundFor(listing)' = References!Matching(rowsRead, query)
            BY <2>1, <2>4, <3>3 DEF FoundFor
        <3>. QED BY <2>1, <2>4, <3>2, <3>3, <3>4 DEF ListingInv
    <2>. QED BY <2>2, <2>3, <2>4
<1>3. ASSUME NEW list \in UsedLists, References!SiteChanges(list)
      PROVE  ListingInv'
    BY <1>3 DEF References!SiteChanges, References!Kept, ListingInv, FoundFor
<1>4. CASE UNCHANGED refVars
    BY <1>1, <1>4 DEF refVars
<1>5. ASSUME refSite' = refSite, References!Listed
      PROVE  ListingInv'
    BY <1>1, <1>5 DEF References!Listed, References!Kept
<1>6. ASSUME NEW r, NEW record,
             References!AskOptions(r, record) \/ References!AskVisit(r, record) \/ References!AskWrite(r, record)
      PROVE  ListingInv'
    BY <1>5, <1>6 DEF References!AskOptions, References!AskVisit, References!AskWrite, References!Ask, References!Quiet
<1>7. ASSUME NEW x, NEW y, NEW limit,
             \/ References!ShowRecord(x, y)
             \/ References!ShowRecords(x, y, limit)
             \/ References!ShowDiscoveries(x, y, limit)
      PROVE  ListingInv'
    BY <1>5, <1>7 DEF References!ShowRecord, References!ShowRecords, References!ShowDiscoveries, References!Remember,
                      References!Quiet
<1>8. ASSUME \/ References!PublicOptions \/ References!PersonalOptions \/ References!PersonalSurface
             \/ References!AskFails \/ \E related \in {"none"} \cup RecordSet : References!PublicSurface(related)
             \/ \E r \in RefSet : References!Overdue(r)
             \/ References!Disconnect \/ References!Restart
      PROVE  ListingInv'
    BY <1>5, <1>8 DEF References!PublicOptions, References!PersonalOptions, References!PersonalSurface,
                      References!AskFails, References!PublicSurface, References!Overdue, References!Disconnect,
                      References!Restart, References!Quiet
<1>. QED BY <1>2, <1>3, <1>4, <1>6, <1>7, <1>8 DEF References!RefNext, RefSet, RecordSet

(***************************************************************************)
(* The results of a search of the career system (CastSearch)               *)
(***************************************************************************)

NumbersFrom(b, n) == [i \in 1..n |-> b + i]
RealCursor == [kind : Kinds, page : Nat \ {0, 1}]
ListLength(kind, filters) == total[<<kind, filters>>]

SearchState ==
    [pc : {"idle", "form", "first", "more"}, kind : Kinds \cup {"none"}, filters : Conditions, exhaustive : BOOLEAN,
     cursor : RealCursor \cup {Cast!NoCursor}, from : Nat \ {0}, page : Nat \ {0}, first : Nat, items : Seq(Nat),
     next : RealCursor \cup {Cast!NoCursor}]
ChainState ==
    [status : {"none", "known", "unavailable", "reauth_required", "rate_limited", "form_changed"},
     kind : Kinds \cup {"none"}, filters : Conditions, items : Seq(Nat),
     next : RealCursor \cup {Cast!NoCursor, Cast!LostCursor}, whole : BOOLEAN, steady : BOOLEAN]
CastTypeOK ==
    /\ total \in [Kinds \X Conditions -> Nat]
    /\ cursors \in SUBSET RealCursor
    /\ search \in SearchState /\ (search.pc = "idle" => search = Cast!NoSearch)
    /\ search # Cast!NoSearch => search.pc # "idle" /\ search.kind \in Kinds
    /\ search.next \in RealCursor => search.next.kind = search.kind
    /\ chain \in ChainState
    /\ chain.whole => chain.next = Cast!NoCursor

\* The search under way goes on with the caller's cursor, or begins a list.
Continues ==
    search # Cast!NoSearch =>
        IF search.cursor = Cast!NoCursor THEN search.from = 1
        ELSE /\ search.cursor = chain.next /\ search.cursor \in RealCursor
             /\ search.from = search.cursor.page /\ search.kind = search.cursor.kind

\* The caller has the first results of its list: all of them, or those before the page of its cursor.
HasFirst(ch) ==
    /\ ch.next \in RealCursor => ch.kind = ch.next.kind
    /\ ch.steady /\ ch.next \in RealCursor =>
          /\ ch.items = NumbersFrom(0, (ch.next.page - 1) * CastPageSize)
          /\ (ch.next.page - 1) * CastPageSize < ListLength(ch.kind, ch.filters)
    /\ ch.steady /\ ch.status = "known" /\ ch.next = Cast!NoCursor =>
          ch.items = NumbersFrom(0, ListLength(ch.kind, ch.filters))

\* The search reads the list the caller's results are from.
Aligned == chain.steady /\ (search.cursor # Cast!NoCursor => search.filters = chain.filters)
Least(m, n) == IF m < n THEN m ELSE n

\* What the search has read follows what the caller has, page by page.
Reading ==
    LET b == (search.from - 1) * CastPageSize
        n == Len(search.items)
        all == ListLength(search.kind, search.filters)
        to == (search.page - 1) * CastPageSize
    IN search # Cast!NoSearch =>
        /\ search.pc # "more" => search.page = search.from /\ search.items = <<>>
        /\ search.pc = "more" /\ Aligned =>
              /\ search.items = NumbersFrom(b, n) /\ n \in Nat /\ n <= MaxItems
              /\ b + n = Least(all, to) /\ search.from < search.page /\ search.first = all
              /\ search.next = (IF all > to THEN [kind |-> search.kind, page |-> search.page] ELSE Cast!NoCursor)

CastInv == CastTypeOK /\ Continues /\ HasFirst(chain) /\ Reading

LEMMA NoCursorIsReal ==
    /\ Cast!NoCursor \notin RealCursor /\ Cast!LostCursor \notin RealCursor /\ Cast!LostCursor # Cast!NoCursor
    /\ Cast!NoSearch.next = Cast!NoCursor /\ Cast!NoSearch.pc = "idle" /\ Cast!NoSearch \in SearchState
BY DEF Cast!NoCursor, Cast!LostCursor, Cast!NoSearch, RealCursor, SearchState, Conditions

LEMMA CastBegins ==
    ASSUME Cast!CastInit
    PROVE  CastInv
<1>1. total \in [Kinds \X Conditions -> Nat]
    BY CastAssumption DEF Cast!CastInit
<1>2. CastTypeOK
    <2>1. search = Cast!NoSearch /\ search \in SearchState /\ search.next \notin RealCursor /\ cursors \in SUBSET RealCursor
        BY NoCursorIsReal DEF Cast!CastInit
    <2>2. chain \in ChainState /\ (chain.whole => chain.next = Cast!NoCursor)
        BY DEF Cast!CastInit, Cast!NoChain, ChainState, Conditions
    <2>. QED BY <1>1, <2>1, <2>2 DEF CastTypeOK
<1>3. HasFirst(chain)
    BY DEF Cast!CastInit, HasFirst, Cast!NoChain, Cast!NoCursor, RealCursor
<1>. QED BY <1>2, <1>3 DEF CastInv, Cast!CastInit, Continues, Reading

LEMMA PagesAreNumbers ==
    ASSUME NEW p \in Nat \ {0}
    PROVE  /\ (p - 1) * CastPageSize \in Nat /\ p * CastPageSize \in Nat
           /\ p * CastPageSize = (p - 1) * CastPageSize + CastPageSize
           /\ CastPageSize \in Nat \ {0} /\ CastPageSize <= MaxItems /\ MaxItems \in Nat
<1>1. CastPageSize \in Nat \ {0} /\ MaxItems \in Nat
    BY CastAssumption
<1>2. PICK n \in 1..MaxItems : MaxItems = n * CastPageSize
    BY CastAssumption
<1>3. CastPageSize <= MaxItems
    <2>1. n = (n - 1) + 1 /\ n - 1 \in Nat /\ (n - 1) * CastPageSize \in Nat
        BY <1>1, <1>2
    <2>2. n * CastPageSize = (n - 1) * CastPageSize + CastPageSize
        BY <1>1, <1>2, <2>1
    <2>. QED BY <1>1, <1>2, <2>1, <2>2
<1>4. p - 1 \in Nat /\ (p - 1) * CastPageSize \in Nat
    BY <1>1
<1>5. p * CastPageSize = (p - 1) * CastPageSize + CastPageSize
    BY <1>1
<1>. QED BY <1>1, <1>3, <1>4, <1>5

\* Pages are full until the most that is shown is reached: that many results are a number of pages.
LEMMA RoomForAPage ==
    ASSUME NEW m \in Nat, m * CastPageSize < MaxItems
    PROVE  m * CastPageSize + CastPageSize <= MaxItems
<1>1. CastPageSize \in Nat \ {0}
    BY CastAssumption
<1>2. PICK n \in 1..MaxItems : MaxItems = n * CastPageSize
    BY CastAssumption
<1>3. n \in Nat
    BY <1>2, CastAssumption
<1>4. m < n
    <2>1. SUFFICES ASSUME m >= n
                   PROVE  m * CastPageSize >= n * CastPageSize
        BY <1>1, <1>2, <1>3
    <2>2. m = n + (m - n) /\ m - n \in Nat /\ (m - n) * CastPageSize \in Nat
        BY <1>1, <1>3, <2>1
    <2>3. m * CastPageSize = n * CastPageSize + (m - n) * CastPageSize
        BY <1>1, <1>3, <2>2
    <2>. QED BY <1>1, <1>3, <2>2, <2>3
<1>5. n - (m + 1) \in Nat /\ (n - (m + 1)) * CastPageSize \in Nat
    BY <1>1, <1>3, <1>4
<1>6. n * CastPageSize = m * CastPageSize + CastPageSize + (n - (m + 1)) * CastPageSize
    BY <1>1, <1>3, <1>5
<1>7. m * CastPageSize \in Nat
    BY <1>1
<1>. QED BY <1>1, <1>2, <1>5, <1>6, <1>7

LEMMA NumbersJoin ==
    ASSUME NEW b \in Nat, NEW n \in Nat, NEW k \in Nat
    PROVE  /\ NumbersFrom(b, n) \o NumbersFrom(b + n, k) = NumbersFrom(b, n + k)
           /\ NumbersFrom(b, n) \in Seq(Nat) /\ Len(NumbersFrom(b, n)) = n
BY DEF NumbersFrom

\* A page that is read has the results after those before it.
LEMMA PageHasNext ==
    ASSUME CastInv, search # Cast!NoSearch
    PROVE  \E k \in Nat :
              /\ Cast!ParseItems(search) = NumbersFrom((search.page - 1) * CastPageSize, k)
              /\ Cast!ParseItems(search) \in Seq(Nat) /\ Len(Cast!ParseItems(search)) = k
              /\ k <= CastPageSize
              /\ LET all == ListLength(search.kind, search.filters)
                     before == (search.page - 1) * CastPageSize
                 IN k = IF all < before THEN 0 ELSE Least(all, search.page * CastPageSize) - before
<1>. DEFINE all == ListLength(search.kind, search.filters)
            before == (search.page - 1) * CastPageSize
            left == all - before
            k == IF left < 0 THEN 0 ELSE IF left > CastPageSize THEN CastPageSize ELSE left
<1>1. search.page \in Nat \ {0} /\ all \in Nat
    BY DEF CastInv, CastTypeOK, SearchState, ListLength
<1>2. /\ before \in Nat /\ search.page * CastPageSize = before + CastPageSize
      /\ CastPageSize \in Nat \ {0}
    BY <1>1, PagesAreNumbers
<1>3. Cast!ParseItems(search) = NumbersFrom(before, k)
    BY DEF Cast!ParseItems, Cast!TotalCount, NumbersFrom, ListLength
<1>. HIDE DEF all, before
<1>4. /\ k \in Nat /\ k <= CastPageSize
      /\ k = IF all < before THEN 0 ELSE Least(all, search.page * CastPageSize) - before
    BY <1>1, <1>2 DEF Least
<1>. HIDE DEF k
<1>5. NumbersFrom(before, k) \in Seq(Nat) /\ Len(NumbersFrom(before, k)) = k
    BY <1>2, <1>4, NumbersJoin
<1>. QED BY <1>3, <1>4, <1>5 DEF all, before

LEMMA EndsKeeps ==
    ASSUME CastInv, NEW status \in {"unavailable", "reauth_required", "rate_limited", "form_changed"}, Cast!Ends(status)
    PROVE  CastInv'
<1>1. /\ search' = Cast!NoSearch /\ chain' = [chain EXCEPT !.status = status]
      /\ total' = total /\ cursors' = cursors
    BY DEF Cast!Ends
<1>3. /\ chain' \in ChainState /\ chain'.next = chain.next /\ chain'.whole = chain.whole /\ chain'.steady = chain.steady
      /\ chain'.kind = chain.kind /\ chain'.filters = chain.filters /\ chain'.items = chain.items
      /\ chain'.status # "known"
    BY <1>1 DEF CastInv, CastTypeOK, ChainState
<1>4. CastTypeOK'
    BY <1>1, <1>3, NoCursorIsReal DEF CastInv, CastTypeOK
<1>5. HasFirst(chain)'
    BY <1>1, <1>3 DEF CastInv, HasFirst, ListLength
<1>. QED BY <1>1, <1>4, <1>5 DEF CastInv, Continues, Reading

\* What is answered, after the caller's earlier results, are the first results of the list.
LEMMA AnswersKeeps ==
    ASSUME CastInv, search # Cast!NoSearch, total' = total, cursors' \in SUBSET RealCursor,
           NEW s \in SearchState, NEW whole \in BOOLEAN, NEW next \in RealCursor \cup {Cast!NoCursor},
           s.kind = search.kind, s.filters = search.filters, s.cursor = search.cursor,
           whole => next = Cast!NoCursor,
           next \in RealCursor => next.kind = search.kind,
           Aligned =>
              /\ s.items = NumbersFrom((search.from - 1) * CastPageSize, Len(s.items)) /\ Len(s.items) <= MaxItems
              /\ next = Cast!NoCursor =>
                    (search.from - 1) * CastPageSize + Len(s.items) = ListLength(search.kind, search.filters)
              /\ next \in RealCursor =>
                    /\ (search.from - 1) * CastPageSize + Len(s.items) = (next.page - 1) * CastPageSize
                    /\ (next.page - 1) * CastPageSize < ListLength(search.kind, search.filters),
           Cast!Answers(s, whole, next)
    PROVE  CastInv'
<1>. DEFINE b == (search.from - 1) * CastPageSize
            n == Len(s.items)
            cut == SubSeq(s.items, 1, IF n > MaxItems THEN MaxItems ELSE n)
            on == search.cursor # Cast!NoCursor
<1>0. /\ search' = Cast!NoSearch
      /\ chain' = [status |-> "known", kind |-> search.kind, filters |-> search.filters, next |-> next, whole |-> whole,
                   items |-> IF on THEN chain.items \o cut ELSE cut,
                   steady |-> chain.steady /\ (on => search.filters = chain.filters)]
    BY DEF Cast!Answers
<1>9. s.items \in Seq(Nat) /\ n \in Nat
    BY DEF SearchState
<1>1. b \in Nat /\ MaxItems \in Nat /\ search.from \in Nat \ {0}
    BY PagesAreNumbers DEF CastInv, CastTypeOK, SearchState
<1>2. cut \in Seq(Nat)
    BY <1>1, <1>9
<1>3. chain'.steady = Aligned
    BY <1>0 DEF Aligned
<1>4. chain' \in ChainState
    BY <1>0, <1>2 DEF CastInv, CastTypeOK, ChainState, SearchState
<1>5. ASSUME Aligned
      PROVE  chain'.items = NumbersFrom(0, b + n)
    <2>1. s.items = NumbersFrom(b, n) /\ n <= MaxItems
        BY <1>1, <1>5
    <2>2. cut = NumbersFrom(b, n)
        BY <1>1, <1>9, <2>1
    <2>5. chain'.items = IF on THEN chain.items \o cut ELSE cut
        BY <1>0
    <2>. HIDE DEF cut, n
    <2>3. CASE search.cursor = Cast!NoCursor
        <3>1. b = 0
            BY <1>1, <2>3, PagesAreNumbers DEF CastInv, Continues
        <3>. HIDE DEF b
        <3>2. b + n = n
            BY <1>9, <3>1
        <3>. QED BY <2>2, <2>3, <2>5, <3>1, <3>2
    <2>4. CASE search.cursor # Cast!NoCursor
        <3>1. search.cursor = chain.next /\ search.cursor \in RealCursor /\ search.from = search.cursor.page
            BY <2>4 DEF CastInv, Continues
        <3>2. chain.items = NumbersFrom(0, b)
            BY <1>5, <3>1 DEF CastInv, HasFirst, Aligned
        <3>. HIDE DEF b
        <3>3. NumbersFrom(0, b) \o NumbersFrom(b, n) = NumbersFrom(0, b + n)
            BY <1>1, <1>9 DEF NumbersFrom
        <3>. QED BY <2>2, <2>4, <2>5, <3>2, <3>3
    <2>. QED BY <2>3, <2>4
<1>6. HasFirst(chain')
    BY <1>0, <1>3, <1>5 DEF HasFirst, ListLength, Cast!NoCursor, RealCursor
<1>8. CastTypeOK'
    BY <1>0, <1>4, NoCursorIsReal DEF CastInv, CastTypeOK
<1>. QED BY <1>0, <1>6, <1>8 DEF CastInv, Continues, Reading, HasFirst, ListLength

LEMMA RunStep ==
    ASSUME CastInv, NEW kind \in Kinds, NEW filters \in Conditions, NEW exhaustive \in BOOLEAN,
           NEW cursor \in {Cast!NoCursor, chain.next}, Cast!RunCastSearch(kind, filters, exhaustive, cursor)
    PROVE  CastInv'
<1>1. CASE Cast!Ends("unavailable")
    BY <1>1, EndsKeeps
<1>2. CASE Cast!KnownCursor(kind, cursor) /\ ~Cast!Ends("unavailable")
    <2>1. /\ search' = [Cast!NoSearch EXCEPT !.pc = "form", !.kind = kind, !.filters = filters,
                                            !.exhaustive = exhaustive, !.cursor = cursor, !.from = cursor.page,
                                            !.page = cursor.page]
          /\ chain' = IF cursor = Cast!NoCursor THEN Cast!NoChain ELSE chain
          /\ total' = total /\ cursors' = cursors
        BY <1>2 DEF Cast!RunCastSearch
    <2>2. cursor = Cast!NoCursor \/ (cursor \in RealCursor /\ cursor = chain.next /\ cursor.kind = kind)
        BY <1>2 DEF Cast!KnownCursor, CastInv, CastTypeOK
    <2>3. cursor \in RealCursor \cup {Cast!NoCursor} /\ cursor.page \in Nat \ {0} /\ (cursor = Cast!NoCursor => cursor.page = 1)
        BY <2>2 DEF RealCursor, Cast!NoCursor
    <2>4. search' = [pc |-> "form", kind |-> kind, filters |-> filters, exhaustive |-> exhaustive, cursor |-> cursor,
                     from |-> cursor.page, page |-> cursor.page, first |-> 0, items |-> <<>>, next |-> Cast!NoCursor]
        BY <2>1 DEF Cast!NoSearch
    <2>5. search' \in SearchState /\ search'.pc = "form" /\ search'.kind \in Kinds /\ search' # Cast!NoSearch
        BY <2>3, <2>4 DEF SearchState, Cast!NoSearch
    <2>6. Cast!NoChain \in ChainState /\ Cast!NoChain.whole = FALSE /\ HasFirst(Cast!NoChain)
        BY DEF Cast!NoChain, ChainState, HasFirst, Conditions, Cast!NoCursor, RealCursor
    <2>7. CastTypeOK'
        <3>1. search'.next \notin RealCursor
            BY <2>4, NoCursorIsReal
        <3>2. chain' \in ChainState /\ (chain'.whole => chain'.next = Cast!NoCursor)
            BY <2>1, <2>6 DEF CastInv, CastTypeOK
        <3>. QED BY <2>1, <2>5, <3>1, <3>2 DEF CastInv, CastTypeOK
    <2>8. Continues'
        BY <2>1, <2>2, <2>3, <2>4 DEF Continues
    <2>9. HasFirst(chain)'
        BY <2>1, <2>6 DEF CastInv, HasFirst, ListLength
    <2>10. Reading'
        BY <2>4 DEF Reading
    <2>. QED BY <2>7, <2>8, <2>9, <2>10 DEF CastInv
<1>. QED BY <1>1, <1>2 DEF Cast!RunCastSearch

LEMMA FormStep ==
    ASSUME CastInv, Cast!FormLoads
    PROVE  CastInv'
<1>1. CASE \E status \in {"unavailable", "reauth_required", "rate_limited", "form_changed"} : Cast!Ends(status)
    BY <1>1, EndsKeeps
<1>2. CASE search.pc = "form" /\ search' = [search EXCEPT !.pc = "first"]
           /\ UNCHANGED <<total, form, cursors, chain, changes>>
    <2>1. /\ search' \in SearchState /\ search'.pc = "first" /\ search' # Cast!NoSearch /\ search # Cast!NoSearch
          /\ search'.kind = search.kind /\ search'.cursor = search.cursor /\ search'.from = search.from
          /\ search'.page = search.page /\ search'.items = search.items /\ search'.next = search.next
        <3>1. search \in SearchState /\ search # Cast!NoSearch
            BY <1>2, NoCursorIsReal DEF CastInv, CastTypeOK
        <3>2. search' \in SearchState /\ search'.pc = "first"
            BY <1>2, <3>1 DEF SearchState
        <3>3. /\ search'.kind = search.kind /\ search'.cursor = search.cursor /\ search'.from = search.from
              /\ search'.page = search.page /\ search'.items = search.items /\ search'.next = search.next
            BY <1>2, <3>1 DEF SearchState
        <3>. QED BY <3>1, <3>2, <3>3, NoCursorIsReal
    <2>2. CastTypeOK'
        BY <1>2, <2>1 DEF CastInv, CastTypeOK
    <2>3. Continues' /\ HasFirst(chain)' /\ Reading'
        BY <1>2, <2>1 DEF CastInv, Continues, HasFirst, ListLength, Reading
    <2>. QED BY <2>2, <2>3 DEF CastInv
<1>. QED BY <1>1, <1>2 DEF Cast!FormLoads, Cast!FetchStatus

\* The cursor for the page after this one is given out.
LEMMA NextCursorKnown ==
    ASSUME CastInv, search # Cast!NoSearch
    PROVE  /\ Cast!NextCursor(search) =
                  IF ListLength(search.kind, search.filters) > search.page * CastPageSize
                  THEN [kind |-> search.kind, page |-> search.page + 1] ELSE Cast!NoCursor
           /\ Cast!NextCursor(search) \in RealCursor \cup {Cast!NoCursor}
           /\ Cast!Minted(Cast!NextCursor(search)) => cursors' \in SUBSET RealCursor
<1>1. search.page \in Nat \ {0} /\ search.kind \in Kinds
    BY DEF CastInv, CastTypeOK, SearchState
<1>2. [kind |-> search.kind, page |-> search.page + 1] \in RealCursor
    BY <1>1 DEF RealCursor
<1>3. Cast!NextCursor(search) = IF ListLength(search.kind, search.filters) > search.page * CastPageSize
                                THEN [kind |-> search.kind, page |-> search.page + 1] ELSE Cast!NoCursor
    BY DEF Cast!NextCursor, Cast!CreateCursor, Cast!TotalCount, ListLength
<1>. QED BY <1>2, <1>3 DEF Cast!Minted, CastInv, CastTypeOK

\* What the caller has are the results before the page the search begins with.
LEMMA BeginsWithin ==
    ASSUME CastInv, search # Cast!NoSearch, Aligned
    PROVE  \/ (search.from - 1) * CastPageSize = 0
           \/ (search.from - 1) * CastPageSize < ListLength(search.kind, search.filters)
<1>1. CASE search.cursor = Cast!NoCursor
    BY <1>1, PagesAreNumbers DEF CastInv, Continues
<1>2. CASE search.cursor # Cast!NoCursor
    <2>1. /\ search.cursor = chain.next /\ chain.next \in RealCursor /\ search.from = chain.next.page
          /\ search.kind = chain.next.kind /\ search.filters = chain.filters /\ chain.steady
        BY <1>2 DEF CastInv, Continues, Aligned
    <2>. QED BY <2>1 DEF CastInv, HasFirst
<1>. QED BY <1>1, <1>2

LEMMA FirstPageStep ==
    ASSUME CastInv, Cast!FirstPage
    PROVE  CastInv'
<1>. DEFINE s == [search EXCEPT !.items = Cast!ParseItems(search), !.first = Cast!TotalCount(search),
                                !.next = Cast!NextCursor(search)]
            all == ListLength(search.kind, search.filters)
            b == (search.from - 1) * CastPageSize
            to == search.page * CastPageSize
            next == Cast!NextCursor(search)
<1>1. /\ search.pc = "first" /\ Cast!Minted(s.next) /\ total' = total
      /\ IF ~s.exhaustive \/ s.first <= Len(s.items) THEN Cast!Answers(s, FALSE, s.next)
         ELSE search' = [s EXCEPT !.pc = "more", !.page = @ + 1] /\ UNCHANGED chain
    BY DEF Cast!FirstPage
<1>2. search # Cast!NoSearch /\ search.page = search.from /\ search.page \in Nat \ {0} /\ all \in Nat /\ search \in SearchState
    BY <1>1 DEF CastInv, Cast!NoSearch, Reading, CastTypeOK, SearchState, ListLength
<1>3. /\ next = (IF all > to THEN [kind |-> search.kind, page |-> search.page + 1] ELSE Cast!NoCursor)
      /\ next \in RealCursor \cup {Cast!NoCursor}
      /\ Cast!Minted(next) => cursors' \in SUBSET RealCursor
    BY <1>2, NextCursorKnown
<1>4. PICK k \in Nat :
              /\ Cast!ParseItems(search) = NumbersFrom(b, k)
              /\ Cast!ParseItems(search) \in Seq(Nat) /\ Len(Cast!ParseItems(search)) = k
              /\ k <= CastPageSize
              /\ k = IF all < b THEN 0 ELSE Least(all, to) - b
    BY <1>2, PageHasNext
<1>5. /\ b \in Nat /\ to \in Nat /\ to = b + CastPageSize /\ CastPageSize \in Nat \ {0}
      /\ CastPageSize <= MaxItems /\ MaxItems \in Nat
    BY <1>2, PagesAreNumbers
<1>6. Aligned => b = 0 \/ b < all
    BY <1>2, BeginsWithin
<1>7. Cast!TotalCount(search) = all
    BY DEF Cast!TotalCount, ListLength
<1>8. /\ s \in SearchState /\ s.kind = search.kind /\ s.filters = search.filters /\ s.cursor = search.cursor
      /\ s.from = search.from /\ s.page = search.page /\ s.first = all /\ s.next = next
      /\ s.items = NumbersFrom(b, k) /\ Len(s.items) = k /\ s.exhaustive = search.exhaustive
    BY <1>2, <1>3, <1>4, <1>7 DEF SearchState
<1>9. Aligned => b + k = Least(all, to)
    <2>. HIDE DEF b, all, to
    <2>. QED BY <1>2, <1>4, <1>5, <1>6 DEF Least
<1>10. cursors' \in SUBSET RealCursor
    BY <1>1, <1>3, <1>8
<1>13. /\ next \in RealCursor => next.kind = search.kind /\ next.page - 1 = search.page /\ all > to
       /\ next = Cast!NoCursor => ~(all > to)
    <2>1. [kind |-> search.kind, page |-> search.page + 1] # Cast!NoCursor
        BY <1>2 DEF Cast!NoCursor
    <2>. HIDE DEF next, all, to
    <2>. QED BY <1>2, <1>3, <2>1, NoCursorIsReal
<1>11. CASE Cast!Answers(s, FALSE, next)
    <2>. HIDE DEF s
    <2>3. Aligned =>
              /\ s.items = NumbersFrom(b, Len(s.items)) /\ Len(s.items) <= MaxItems
              /\ next = Cast!NoCursor => b + Len(s.items) = all
              /\ next \in RealCursor => b + Len(s.items) = (next.page - 1) * CastPageSize
                                       /\ (next.page - 1) * CastPageSize < all
        <3>1. next \in RealCursor => (next.page - 1) * CastPageSize = to
            BY <1>13
        <3>. HIDE DEF b, all, next, to
        <3>2. k <= MaxItems
            BY <1>4, <1>5
        <3>3. Aligned /\ all > to => b + k = to
            BY <1>2, <1>5, <1>9 DEF Least
        <3>4. Aligned /\ ~(all > to) => b + k = all
            BY <1>2, <1>5, <1>9 DEF Least
        <3>. QED BY <1>8, <1>13, <3>1, <3>2, <3>3, <3>4
    <2>. HIDE DEF next
    <2>. QED BY <1>1, <1>2, <1>3, <1>8, <1>10, <1>11, <1>13, <2>3, AnswersKeeps
<1>12. CASE search' = [s EXCEPT !.pc = "more", !.page = @ + 1] /\ chain' = chain
    <2>1. PICK after \in Nat \ {0} : after = search.page + 1
        BY <1>2
    <2>2. /\ search' \in SearchState /\ search'.pc = "more" /\ search'.page = after
          /\ search'.kind = search.kind /\ search'.filters = search.filters /\ search'.cursor = search.cursor
          /\ search'.from = search.from /\ search'.first = all /\ search'.next = next
          /\ search'.items = NumbersFrom(b, k) /\ Len(search'.items) = k
        <3>. HIDE DEF s, all, next, b
        <3>. QED BY <1>8, <1>12, <2>1 DEF SearchState
    <2>3. CastTypeOK'
        <3>. HIDE DEF s, all, next, b
        <3>. QED BY <1>1, <1>2, <1>10, <1>12, <1>13, <2>2, NoCursorIsReal DEF CastInv, CastTypeOK
    <2>4. Continues' /\ HasFirst(chain)'
        BY <1>1, <1>2, <1>12, <2>2 DEF CastInv, Continues, HasFirst, ListLength
    <2>5. Aligned' = Aligned
        BY <1>12, <2>2 DEF Aligned
    <2>6. ListLength(search.kind, search.filters)' = all
        BY <1>1, <2>2 DEF ListLength
    <2>7. after - 1 = search.page /\ search.from < after
        BY <1>2, <2>1
    <2>. HIDE DEF s, all, next
    <2>8. Aligned' =>
              /\ search'.items = NumbersFrom(b, k) /\ k \in Nat /\ k <= MaxItems
              /\ b + k = Least(all, to) /\ search'.from < search'.page /\ search'.first = all
              /\ search'.next = (IF all > to THEN [kind |-> search'.kind, page |-> search'.page] ELSE Cast!NoCursor)
        BY <1>3, <1>4, <1>5, <1>9, <2>1, <2>2, <2>5, <2>7
    <2>9. Reading'
        BY <2>2, <2>6, <2>7, <2>8 DEF Reading
    <2>. QED BY <2>3, <2>4, <2>9 DEF CastInv
<1>. QED BY <1>1, <1>8, <1>11, <1>12

\* An exhaustive search ends with all of the list, or with the cursor for what is left.
LEMMA CoverageKeeps ==
    ASSUME CastInv, search # Cast!NoSearch, total' = total, cursors' \in SUBSET RealCursor,
           NEW s \in SearchState, s.kind = search.kind, s.filters = search.filters, s.cursor = search.cursor,
           s.next \in RealCursor => s.next.kind = search.kind,
           \E upto \in Nat : Aligned =>
              /\ s.items = NumbersFrom((search.from - 1) * CastPageSize, Len(s.items)) /\ Len(s.items) <= MaxItems
              /\ (search.from - 1) * CastPageSize + Len(s.items) = Least(ListLength(search.kind, search.filters), upto)
              /\ s.first = ListLength(search.kind, search.filters)
              /\ s.next = Cast!NoCursor => s.first <= upto
              /\ s.next \in RealCursor => (s.next.page - 1) * CastPageSize = upto /\ upto < s.first,
           Cast!Coverage(s)
    PROVE  CastInv'
<1>. DEFINE b == (search.from - 1) * CastPageSize
            all == ListLength(search.kind, search.filters)
            whole == Len(s.items) >= s.first
            next == IF whole THEN Cast!NoCursor ELSE s.next
<1>1. Cast!Answers(s, whole, next)
    BY DEF Cast!Coverage
<1>2. /\ b \in Nat /\ all \in Nat /\ Len(s.items) \in Nat /\ Cast!NoCursor \notin RealCursor
      /\ s.next \in RealCursor \cup {Cast!NoCursor}
    <2>1. search.from \in Nat \ {0} /\ all \in Nat
        BY DEF CastInv, CastTypeOK, SearchState, ListLength
    <2>2. s.next \in RealCursor \cup {Cast!NoCursor} /\ s.items \in Seq(Nat)
        BY DEF SearchState
    <2>. QED BY <2>1, <2>2, PagesAreNumbers, NoCursorIsReal
<1>3. PICK upto \in Nat : Aligned =>
              /\ s.items = NumbersFrom(b, Len(s.items)) /\ Len(s.items) <= MaxItems
              /\ b + Len(s.items) = Least(all, upto) /\ s.first = all
              /\ s.next = Cast!NoCursor => s.first <= upto
              /\ s.next \in RealCursor => (s.next.page - 1) * CastPageSize = upto /\ upto < s.first
    OBVIOUS
<1>. HIDE DEF b, all
<1>4. Aligned =>
              /\ s.items = NumbersFrom(b, Len(s.items)) /\ Len(s.items) <= MaxItems
              /\ next = Cast!NoCursor => b + Len(s.items) = all
              /\ next \in RealCursor =>
                    b + Len(s.items) = (next.page - 1) * CastPageSize /\ (next.page - 1) * CastPageSize < all
    <2>1. CASE whole
        BY <1>2, <1>3, <2>1 DEF Least
    <2>2. CASE ~whole
        <3>1. next = s.next
            BY <2>2
        <3>. HIDE DEF next, whole
        <3>. QED BY <1>2, <1>3, <3>1 DEF Least
    <2>. QED BY <2>1, <2>2
<1>5. /\ next \in RealCursor \cup {Cast!NoCursor} /\ whole \in BOOLEAN /\ (whole => next = Cast!NoCursor)
      /\ next \in RealCursor => next.kind = search.kind
    BY <1>2
<1>. HIDE DEF next, whole
<1>. QED BY <1>1, <1>4, <1>5, AnswersKeeps DEF b, all

LEMMA ListsJoin ==
    ASSUME NEW a \in Seq(Nat), NEW c \in Seq(Nat)
    PROVE  a \o c \in Seq(Nat) /\ Len(a \o c) = Len(a) + Len(c)
OBVIOUS

LEMMA NextPageStep ==
    ASSUME CastInv, Cast!NextPage
    PROVE  CastInv'
<1>. DEFINE rows == Cast!ParseItems(search)
            next == Cast!NextCursor(search)
            s == [search EXCEPT !.items = @ \o rows, !.next = next]
            all == ListLength(search.kind, search.filters)
            b == (search.from - 1) * CastPageSize
            n == Len(search.items)
            to == (search.page - 1) * CastPageSize
            up == search.page * CastPageSize
<1>1. /\ search.pc = "more" /\ Cast!Minted(next) /\ total' = total /\ n < MaxItems
      /\ IF rows = <<>> \/ next = Cast!NoCursor THEN Cast!Coverage(s)
         ELSE search' = [s EXCEPT !.page = @ + 1] /\ UNCHANGED chain
    BY DEF Cast!NextPage, Cast!MorePages
<1>2. /\ search # Cast!NoSearch /\ search.page \in Nat \ {0} /\ search.from \in Nat \ {0} /\ all \in Nat
      /\ search \in SearchState /\ n \in Nat /\ search.items \in Seq(Nat)
    BY <1>1 DEF CastInv, Cast!NoSearch, CastTypeOK, SearchState, ListLength
<1>3. /\ next = (IF all > up THEN [kind |-> search.kind, page |-> search.page + 1] ELSE Cast!NoCursor)
      /\ next \in RealCursor \cup {Cast!NoCursor}
      /\ Cast!Minted(next) => cursors' \in SUBSET RealCursor
    BY <1>2, NextCursorKnown
<1>4. PICK k \in Nat :
              /\ rows = NumbersFrom(to, k) /\ rows \in Seq(Nat) /\ Len(rows) = k
              /\ k <= CastPageSize
              /\ k = IF all < to THEN 0 ELSE Least(all, up) - to
    BY <1>2, PageHasNext
<1>5. /\ b \in Nat /\ to \in Nat /\ up \in Nat /\ up = to + CastPageSize /\ CastPageSize \in Nat \ {0}
      /\ MaxItems \in Nat
    BY <1>2, PagesAreNumbers
<1>6. Aligned => /\ search.items = NumbersFrom(b, n) /\ b + n = Least(all, to)
                 /\ search.from < search.page /\ search.first = all
    BY <1>1, <1>2 DEF CastInv, Reading
<1>7. /\ s \in SearchState /\ s.kind = search.kind /\ s.filters = search.filters /\ s.cursor = search.cursor
      /\ s.from = search.from /\ s.page = search.page /\ s.first = search.first /\ s.next = next
      /\ s.items = search.items \o rows /\ Len(s.items) = n + k
    <2>. HIDE DEF rows, next
    <2>1. search.items \o rows \in Seq(Nat) /\ Len(search.items \o rows) = n + k
        <3>1. rows \in Seq(Nat) /\ Len(rows) = k
            BY <1>4
        <3>2. search.items \in Seq(Nat)
            BY <1>2
        <3>. QED BY <3>1, <3>2, ListsJoin
    <2>2. PICK list \in Seq(Nat) : list = search.items \o rows
        BY <2>1
    <2>3. s = [search EXCEPT !.items = list, !.next = next]
        BY <2>2
    <2>4. /\ s \in SearchState /\ s.kind = search.kind /\ s.filters = search.filters /\ s.cursor = search.cursor
          /\ s.from = search.from /\ s.page = search.page /\ s.first = search.first /\ s.next = next /\ s.items = list
        <3>. HIDE DEF s
        <3>. QED BY <1>2, <1>3, <2>3 DEF SearchState
    <2>. HIDE DEF s, n
    <2>. QED BY <2>1, <2>2, <2>4
<1>8. Aligned /\ all > to => n + CastPageSize <= MaxItems
    <2>1. SUFFICES ASSUME Aligned, all > to
                   PROVE  n + CastPageSize <= MaxItems
        OBVIOUS
    <2>2. b + n = to
        BY <1>2, <1>5, <1>6, <2>1 DEF Least
    <2>3. search.page - search.from \in Nat /\ to - b = (search.page - search.from) * CastPageSize
        <3>1. search.page - search.from \in Nat
            BY <1>2, <1>6, <2>1
        <3>2. search.page - 1 = (search.from - 1) + (search.page - search.from) /\ search.from - 1 \in Nat
            BY <1>2
        <3>3. (search.page - 1) * CastPageSize
                = (search.from - 1) * CastPageSize + (search.page - search.from) * CastPageSize
            BY <1>5, <3>1, <3>2
        <3>4. (search.page - search.from) * CastPageSize \in Nat
            BY <1>5, <3>1
        <3>. QED BY <1>5, <3>1, <3>3, <3>4
    <2>4. n = (search.page - search.from) * CastPageSize
        <3>. HIDE DEF to, b
        <3>. QED BY <1>2, <1>5, <2>2, <2>3
    <2>. QED BY <1>1, <2>3, <2>4, RoomForAPage
<1>9. Aligned => /\ s.items = NumbersFrom(b, n + k) /\ n + k <= MaxItems /\ b + n + k = Least(all, up)
    <2>. SUFFICES ASSUME Aligned
                  PROVE  s.items = NumbersFrom(b, n + k) /\ n + k <= MaxItems /\ b + n + k = Least(all, up)
        OBVIOUS
    <2>. HIDE DEF rows, next, s, all, b, n, to, up
    <2>1. CASE all > to
        <3>1. b + n = to /\ b + n + k = Least(all, up) /\ n + k <= MaxItems
            BY <1>2, <1>4, <1>5, <1>6, <1>8, <2>1 DEF Least
        <3>2. NumbersFrom(b, n) \o NumbersFrom(b + n, k) = NumbersFrom(b, n + k)
            BY <1>2, <1>5, NumbersJoin
        <3>. QED BY <1>4, <1>6, <1>7, <3>1, <3>2
    <2>2. CASE ~(all > to)
        <3>1. k = 0 /\ b + n = all /\ n + k = n /\ b + n + k = Least(all, up)
            BY <1>2, <1>4, <1>5, <1>6, <2>2 DEF Least
        <3>2. rows = <<>>
            BY <1>4, <3>1
        <3>. QED BY <1>1, <1>2, <1>5, <1>6, <1>7, <3>1, <3>2 DEF n
    <2>. QED BY <2>1, <2>2
<1>10. cursors' \in SUBSET RealCursor
    BY <1>1, <1>3
<1>11. /\ next \in RealCursor => next.kind = search.kind /\ (next.page - 1) * CastPageSize = up /\ up < all
       /\ next = Cast!NoCursor => all <= up
    <2>1. Cast!NoCursor \notin RealCursor /\ [kind |-> search.kind, page |-> search.page + 1] # Cast!NoCursor
        BY <1>2, NoCursorIsReal DEF Cast!NoCursor
    <2>2. next \in RealCursor => next.kind = search.kind /\ next.page - 1 = search.page /\ up < all
        <3>. HIDE DEF next, all, up
        <3>. QED BY <1>2, <1>3, <2>1
    <2>3. next \in RealCursor => (next.page - 1) * CastPageSize = up
        BY <2>2
    <2>. HIDE DEF next, all, up
    <2>. QED BY <1>2, <1>3, <1>5, <2>1, <2>2, <2>3
<1>12. CASE Cast!Coverage(s)
    <2>1. Aligned =>
              /\ s.items = NumbersFrom(b, Len(s.items)) /\ Len(s.items) <= MaxItems
              /\ b + Len(s.items) = Least(all, up) /\ s.first = all
              /\ s.next = Cast!NoCursor => s.first <= up
              /\ s.next \in RealCursor => (s.next.page - 1) * CastPageSize = up /\ up < s.first
        <3>. SUFFICES ASSUME Aligned
                      PROVE  /\ s.items = NumbersFrom(b, Len(s.items)) /\ Len(s.items) <= MaxItems
                             /\ b + Len(s.items) = Least(all, up) /\ s.first = all
                             /\ s.next = Cast!NoCursor => s.first <= up
                             /\ s.next \in RealCursor => (s.next.page - 1) * CastPageSize = up /\ up < s.first
            OBVIOUS
        <3>. HIDE DEF s, next, all, b, n, up
        <3>1. s.first = all /\ s.next = next
            BY <1>6, <1>7
        <3>2. Len(s.items) = n + k /\ b + (n + k) = Least(all, up)
            <4>1. n \in Nat /\ b \in Nat
                BY <1>2, <1>5
            <4>. QED BY <1>7, <1>9, <4>1
        <3>3. s.items = NumbersFrom(b, Len(s.items)) /\ Len(s.items) <= MaxItems
            BY <1>9, <3>2
        <3>4. s.next = Cast!NoCursor => s.first <= up
            BY <1>11, <3>1
        <3>5. s.next \in RealCursor => (s.next.page - 1) * CastPageSize = up /\ up < s.first
            BY <1>11, <3>1
        <3>. QED BY <3>1, <3>2, <3>3, <3>4, <3>5
    <2>2. s.next \in RealCursor => s.next.kind = search.kind
        BY <1>7, <1>11
    <2>. HIDE DEF s
    <2>. QED BY <1>1, <1>2, <1>5, <1>7, <1>10, <1>12, <2>1, <2>2, CoverageKeeps
<1>13. CASE search' = [s EXCEPT !.page = @ + 1] /\ chain' = chain
    <2>1. PICK after \in Nat \ {0} : after = search.page + 1
        BY <1>2
    <2>2. /\ search' \in SearchState /\ search'.pc = "more" /\ search'.page = after
          /\ search'.kind = search.kind /\ search'.filters = search.filters /\ search'.cursor = search.cursor
          /\ search'.from = search.from /\ search'.first = search.first /\ search'.next = next
          /\ search'.items = s.items /\ Len(search'.items) = n + k
        <3>1. s.pc = "more"
            BY <1>1, <1>2 DEF SearchState
        <3>. HIDE DEF s, next, n
        <3>. QED BY <1>7, <1>13, <2>1, <3>1 DEF SearchState
    <2>3. CastTypeOK'
        <3>. HIDE DEF s, next, n, rows
        <3>. QED BY <1>1, <1>2, <1>10, <1>11, <1>13, <2>2, NoCursorIsReal DEF CastInv, CastTypeOK
    <2>4. Continues' /\ HasFirst(chain)'
        BY <1>1, <1>2, <1>13, <2>2 DEF CastInv, Continues, HasFirst, ListLength
    <2>5. Aligned' = Aligned
        BY <1>13, <2>2 DEF Aligned
    <2>6. ListLength(search.kind, search.filters)' = all
        BY <1>1, <2>2 DEF ListLength
    <2>7. after - 1 = search.page /\ (search.from < search.page => search.from < after)
        BY <1>2, <2>1
    <2>10. n + k \in Nat /\ b + n + k = b + (n + k)
        <3>1. n \in Nat /\ b \in Nat
            BY <1>2, <1>5
        <3>. HIDE DEF n, b
        <3>. QED BY <3>1
    <2>. HIDE DEF s, all, next, n, b, up
    <2>8. Aligned' =>
              /\ search'.items = NumbersFrom(b, n + k) /\ n + k \in Nat /\ n + k <= MaxItems
              /\ b + (n + k) = Least(all, up) /\ search'.from < search'.page /\ search'.first = all
              /\ search'.next = (IF all > up THEN [kind |-> search'.kind, page |-> search'.page] ELSE Cast!NoCursor)
        BY <1>3, <1>6, <1>9, <2>1, <2>2, <2>5, <2>7, <2>10
    <2>9. Reading'
        BY <2>2, <2>6, <2>7, <2>8 DEF Reading, b, up
    <2>. QED BY <2>3, <2>4, <2>9 DEF CastInv
<1>. QED BY <1>1, <1>12, <1>13

LEMMA EnoughPagesStep ==
    ASSUME CastInv, Cast!EnoughPages
    PROVE  CastInv'
<1>. DEFINE all == ListLength(search.kind, search.filters)
            b == (search.from - 1) * CastPageSize
            n == Len(search.items)
            to == (search.page - 1) * CastPageSize
<1>1. search.pc = "more" /\ Cast!Coverage(search) /\ total' = total /\ cursors' = cursors
    BY DEF Cast!EnoughPages
<1>2. /\ search # Cast!NoSearch /\ search.page \in Nat \ {0} /\ search.from \in Nat \ {0} /\ all \in Nat
      /\ search \in SearchState /\ n \in Nat /\ cursors' \in SUBSET RealCursor
      /\ search.next \in RealCursor => search.next.kind = search.kind
    BY <1>1 DEF CastInv, Cast!NoSearch, CastTypeOK, SearchState, ListLength
<1>3. to \in Nat
    BY <1>2, PagesAreNumbers
<1>4. Aligned => /\ search.items = NumbersFrom(b, n) /\ n <= MaxItems /\ b + n = Least(all, to)
                 /\ search.from < search.page /\ search.first = all
                 /\ search.next = (IF all > to THEN [kind |-> search.kind, page |-> search.page] ELSE Cast!NoCursor)
    BY <1>1, <1>2 DEF CastInv, Reading
<1>5. Aligned =>
         /\ search.next = Cast!NoCursor => search.first <= to
         /\ search.next \in RealCursor => (search.next.page - 1) * CastPageSize = to /\ to < search.first
    <2>. SUFFICES ASSUME Aligned
                  PROVE  /\ search.next = Cast!NoCursor => search.first <= to
                         /\ search.next \in RealCursor =>
                               (search.next.page - 1) * CastPageSize = to /\ to < search.first
        OBVIOUS
    <2>1. search.page # 1
        BY <1>2, <1>4
    <2>2. [kind |-> search.kind, page |-> search.page] # Cast!NoCursor
        BY <2>1 DEF Cast!NoCursor
    <2>3. CASE all > to
        <3>1. search.next.page = search.page /\ search.next # Cast!NoCursor
            BY <1>4, <2>2, <2>3
        <3>2. (search.next.page - 1) * CastPageSize = to
            BY <3>1
        <3>. HIDE DEF all, to
        <3>. QED BY <1>4, <2>3, <3>1, <3>2
    <2>4. CASE ~(all > to)
        <3>. HIDE DEF all, to
        <3>. QED BY <1>2, <1>3, <1>4, <2>4, NoCursorIsReal
    <2>. QED BY <2>3, <2>4
<1>6. \E upto \in Nat : Aligned =>
         /\ search.items = NumbersFrom(b, n) /\ n <= MaxItems
         /\ b + n = Least(all, upto) /\ search.first = all
         /\ search.next = Cast!NoCursor => search.first <= upto
         /\ search.next \in RealCursor => (search.next.page - 1) * CastPageSize = upto /\ upto < search.first
    <2>. HIDE DEF all, b, n, to
    <2>. QED BY <1>3, <1>4, <1>5
<1>. QED BY <1>1, <1>2, <1>6, CoverageKeeps

LEMMA SiteStep ==
    ASSUME CastInv, Cast!ListChanges \/ Cast!PageReloads
    PROVE  CastInv'
<1>1. CASE Cast!ListChanges
    <2>1. PICK l \in DOMAIN total, n \in Totals : total' = [total EXCEPT ![l] = n]
        BY <1>1 DEF Cast!ListChanges
    <2>2. chain' = [chain EXCEPT !.steady = FALSE] /\ cursors' = cursors /\ search' = search
        BY <1>1 DEF Cast!ListChanges
    <2>3. total' \in [Kinds \X Conditions -> Nat]
        BY <2>1, CastAssumption DEF CastInv, CastTypeOK
    <2>4. /\ chain' \in ChainState /\ chain'.next = chain.next /\ chain'.whole = chain.whole /\ ~chain'.steady
          /\ chain'.kind = chain.kind
        BY <2>2 DEF CastInv, CastTypeOK, ChainState
    <2>5. CastTypeOK' /\ Continues' /\ HasFirst(chain)'
        BY <2>2, <2>3, <2>4 DEF CastInv, CastTypeOK, Continues, HasFirst
    <2>6. Reading'
        BY <2>2, <2>4 DEF CastInv, Reading, Aligned
    <2>. QED BY <2>5, <2>6 DEF CastInv
<1>2. CASE Cast!PageReloads
    <2>1. /\ cursors' = {} /\ search' = Cast!NoSearch /\ total' = total
          /\ chain' = [chain EXCEPT !.next = IF @ = Cast!NoCursor THEN @ ELSE Cast!LostCursor,
                                    !.status = IF search = Cast!NoSearch THEN @ ELSE "unavailable"]
        BY <1>2 DEF Cast!PageReloads
    <2>2. chain \in ChainState
        BY DEF CastInv, CastTypeOK
    <2>3. /\ chain' \in ChainState /\ chain'.whole = chain.whole /\ chain'.steady = chain.steady
          /\ chain'.kind = chain.kind /\ chain'.filters = chain.filters /\ chain'.items = chain.items
          /\ chain'.next = (IF chain.next = Cast!NoCursor THEN Cast!NoCursor ELSE Cast!LostCursor)
          /\ chain'.status \in {chain.status, "unavailable"}
        BY <2>1, <2>2 DEF ChainState
    <2>4. CastTypeOK'
        BY <2>1, <2>3, NoCursorIsReal DEF CastInv, CastTypeOK
    <2>5. HasFirst(chain)'
        BY <2>1, <2>3, NoCursorIsReal DEF CastInv, HasFirst, ListLength
    <2>. QED BY <2>1, <2>4, <2>5 DEF CastInv, Continues, Reading
<1>. QED BY <1>1, <1>2

LEMMA CastStep ==
    ASSUME CastInv, [Cast!CastNext]_castVars
    PROVE  CastInv'
<1>1. CASE \E kind \in Kinds, filters \in Conditions, exhaustive \in BOOLEAN, cursor \in {Cast!NoCursor, chain.next} :
              Cast!RunCastSearch(kind, filters, exhaustive, cursor)
    BY <1>1, RunStep
<1>2. CASE Cast!NoCastPage
    BY <1>2, EndsKeeps DEF Cast!NoCastPage
<1>3. CASE Cast!FormLoads
    BY <1>3, FormStep
<1>4. ASSUME NEW status \in Cast!FetchStatus \cup {"form_changed"}, Cast!PageFails(status)
      PROVE  CastInv'
    BY <1>4, EndsKeeps DEF Cast!PageFails, Cast!FetchStatus
<1>5. CASE Cast!FirstPage
    BY <1>5, FirstPageStep
<1>6. CASE Cast!NextPage
    BY <1>6, NextPageStep
<1>7. CASE Cast!EnoughPages
    BY <1>7, EnoughPagesStep
<1>8. CASE Cast!ListChanges \/ Cast!PageReloads
    BY <1>8, SiteStep
<1>9. CASE UNCHANGED castVars
    BY <1>9 DEF castVars, CastInv, CastTypeOK, Continues, HasFirst, Reading, Aligned, ListLength
<1>. QED BY <1>1, <1>2, <1>3, <1>4, <1>5, <1>6, <1>7, <1>8, <1>9 DEF Cast!CastNext

LEMMA CastHolds == ConnectorsSpec => [](part = "cast" => CastInv)
<1>1. ConnectorsInit => (part = "cast" => CastInv)
    BY CastBegins DEF ConnectorsInit, ConnectorsStart
<1>2. (part = "cast" => CastInv) /\ [ConnectorsNext]_allVars => (part = "cast" => CastInv)'
    <2>. SUFFICES ASSUME part = "cast" => CastInv, [ConnectorsNext]_allVars, part' = "cast"
                  PROVE  CastInv'
        OBVIOUS
    <2>1. part = "cast" /\ CastInv
        BY DEF ConnectorsNext, allVars
    <2>2. [Cast!CastNext]_castVars
        BY <2>1 DEF ConnectorsNext, allVars
    <2>. QED BY <2>1, <2>2, CastStep
<1>. QED BY <1>1, <1>2, PTL DEF ConnectorsSpec

LEMMA ListingBegins ==
    ASSUME References!RefInit
    PROVE  ListingInv
BY DEF References!RefInit, References!NoListing, ListingInv, ListingOf, FoundFor

LEMMA ListingHolds == ConnectorsSpec => [](part = "refs" => ListingInv)
<1>1. ConnectorsInit => (part = "refs" => ListingInv)
    BY ListingBegins DEF ConnectorsInit, ConnectorsStart
<1>2. (part = "refs" => ListingInv) /\ [ConnectorsNext]_allVars => (part = "refs" => ListingInv)'
    <2>. SUFFICES ASSUME part = "refs" => ListingInv, [ConnectorsNext]_allVars, part' = "refs"
                  PROVE  ListingInv'
        OBVIOUS
    <2>1. part = "refs" /\ ListingInv
        BY DEF ConnectorsNext, allVars
    <2>2. [References!RefNext]_refVars
        BY <2>1 DEF ConnectorsNext, allVars, libraryVars
    <2>. QED BY <2>1, <2>2, ListingStep
<1>. QED BY <1>1, <1>2, PTL DEF ConnectorsSpec

\* A list read to its end has every row of it, once and in the site's order: the results of a
\* search of the career system, through any number of calls, pages and limits, and the rows of
\* a list of My Library.
THEOREM EveryListIsWhole == ConnectorsSpec => []NothingLeftOut
<1>1. CastInv => Cast!NothingLeftOut
    <2>. SUFFICES ASSUME CastInv, chain.status = "known", chain.steady, chain.next = Cast!NoCursor \/ chain.whole
                  PROVE  chain.items = [i \in 1..total[<<chain.kind, chain.filters>>] |-> i]
        BY DEF Cast!NothingLeftOut
    <2>1. chain.items = NumbersFrom(0, ListLength(chain.kind, chain.filters))
        BY DEF CastInv, CastTypeOK, HasFirst
    <2>2. ASSUME NEW m
          PROVE  NumbersFrom(0, m) = [i \in 1..m |-> i]
        BY DEF NumbersFrom
    <2>. QED BY <2>1, <2>2 DEF ListLength
<1>2. ListingInv => References!EveryRowOnce
    BY DEF ListingInv, ListingOf, FoundFor, References!EveryRowOnce
<1>3. (part = "cast" => CastInv) /\ (part = "refs" => ListingInv) => NothingLeftOut
    BY <1>1, <1>2 DEF NothingLeftOut
<1>. QED BY <1>3, CastHolds, ListingHolds, PTL

(***************************************************************************)
(* The search across the surfaces of the career system (CastCareer)        *)
(***************************************************************************)

Surfaces == {"job", "company", "hiring_record", "selection_report", "recording", "counseling"}
SurfaceRows == Companies \cup {NoCompany}
SurfaceResult == [surface : Surfaces, status : {"known", "partial", "failed"}, rows : SUBSET SurfaceRows]
CareerState ==
    [pc : {"idle", "direct", "counseling", "companies", "links", "details", "top", "support", "answer", "over"},
     surfaces : SUBSET Surfaces, required : Career!Conditions, limit : Nat, todo : SUBSET (Surfaces \cup Companies),
     results : Seq(SurfaceResult), linked : SUBSET Companies, page : {"none", "form", "result"},
     read : SUBSET Companies]
CareerTypeOK ==
    /\ site \in [jobs : SUBSET Companies, linked : SUBSET Companies, contacts : SUBSET Companies]
    /\ career \in CareerState
    /\ career.pc # "idle" => career.surfaces \in SurfaceSets

\* The last result of a surface, which is the one that counts, does not say that it is known.
Unread(rs, s) ==
    \A i \in DOMAIN rs :
        rs[i].surface = s /\ (\A j \in DOMAIN rs : rs[j].surface = s => j <= i) => rs[i].status # "known"
Absent(rs, s) == \A i \in DOMAIN rs : rs[i].surface # s
\* A surface is listed again only where its read failed.
Doubled(rs, s) ==
    (\E i, j \in DOMAIN rs : i # j /\ rs[i].surface = s /\ rs[j].surface = s) => Unread(rs, s)

\* The surfaces that are not read yet.
Pending ==
    (IF career.pc = "direct" THEN career.todo ELSE {})
      \cup (IF career.pc \in {"direct", "counseling"} THEN {"counseling"} ELSE {})
      \cup (IF career.pc \in {"direct", "counseling", "companies", "links", "details", "top"} THEN {"recording"} ELSE {})
\* A failed read is to be seen in the results, when the details of the companies are done with.
ReadsTold ==
    /\ missed \subseteq career.surfaces
    /\ \A s \in Surfaces : Doubled(career.results, s)
    /\ \A s \in missed : Unread(career.results, s) \/ (career.pc = "details" /\ s \in Career!History)
    /\ \A s \in Pending : s \in Surfaces /\ Absent(career.results, s) /\ s \notin missed
    /\ career.pc = "support" => "recording" \notin missed
    /\ career.pc = "links" /\ career.page = "none" =>
          \A s \in career.surfaces \cap Career!History : Unread(career.results, s)

CareerInv ==
    /\ CareerTypeOK
    /\ career.pc # "idle" => ReadsTold
    /\ career.pc \notin {"idle", "over"} => told.status = "none"
    /\ Career!CompleteIsComplete
    /\ Career!ShownTogether
CareerInvariant == part = "career" => CareerInv

LEMMA CareerBegins ==
    ASSUME Career!CareerInit
    PROVE  CareerInv
BY DEF Career!CareerInit, Career!NoCareer, Career!NothingTold, CareerInv, CareerTypeOK, CareerState, Career!Conditions,
       Career!CompleteIsComplete, Career!ShownTogether

\* What is known of a surface is still known of it.
Keeps(rs, next, s) ==
    /\ Unread(rs, s) => Unread(next, s)
    /\ Doubled(rs, s) => Doubled(next, s)
    /\ Absent(rs, s) => Absent(next, s)

LEMMA AppendKeeps ==
    ASSUME NEW rs \in Seq(SurfaceResult), NEW r \in SurfaceResult
    PROVE  /\ Append(rs, r) \in Seq(SurfaceResult)
           /\ \A s \in Surfaces \ {r.surface} : Keeps(rs, Append(rs, r), s)
           /\ r.status # "known" => Unread(Append(rs, r), r.surface)
           /\ r.status # "known" \/ Absent(rs, r.surface) => Doubled(Append(rs, r), r.surface)
<1>. DEFINE next == Append(rs, r)
            n == Len(rs) + 1
<1>1. /\ next \in Seq(SurfaceResult) /\ n \in Nat /\ DOMAIN rs = 1..(n - 1) /\ DOMAIN next = 1..n /\ next[n] = r
      /\ \A i \in 1..(n - 1) : next[i] = rs[i]
    OBVIOUS
<1>. HIDE DEF next, n
<1>2. ASSUME NEW s \in Surfaces \ {r.surface}
      PROVE  Keeps(rs, next, s)
    <2>1. \A i \in DOMAIN next : next[i].surface = s => i \in DOMAIN rs /\ next[i] = rs[i]
        BY <1>1
    <2>2. \A i \in DOMAIN rs : i \in DOMAIN next /\ next[i] = rs[i]
        BY <1>1
    <2>3. Unread(rs, s) => Unread(next, s)
        BY <2>1, <2>2 DEF Unread
    <2>4. Doubled(rs, s) => Doubled(next, s)
        BY <2>1, <2>3 DEF Doubled
    <2>5. Absent(rs, s) => Absent(next, s)
        BY <2>1 DEF Absent
    <2>. QED BY <2>3, <2>4, <2>5 DEF Keeps
<1>3. r.status # "known" => Unread(next, r.surface)
    BY <1>1 DEF Unread
<1>4. Absent(rs, r.surface) => Doubled(next, r.surface)
    BY <1>1 DEF Absent, Doubled
<1>. QED BY <1>1, <1>2, <1>3, <1>4 DEF next, Doubled

\* Of some numbers one is the least.
LEMMA LeastOf ==
    ASSUME NEW T \in SUBSET Nat, T # {}
    PROVE  \E i \in T : \A j \in T : i <= j
<1>1. IsWellFoundedOn(OpToRel(<, Nat), Nat)
    BY NatLessThanWellFounded
<1>2. PICK m \in T : \A y \in T : ~(<<y, m>> \in OpToRel(<, Nat))
    BY <1>1, WFMin
<1>3. \A y \in T : ~(y < m)
    BY <1>2 DEF OpToRel
<1>. QED BY <1>3

\* Of the places of a surface one is the first, and one is the last.
LEMMA FirstAndLast ==
    ASSUME NEW n \in Nat, NEW places \in SUBSET (1..n), places # {}
    PROVE  /\ \E i \in places : \A j \in places : i <= j
           /\ \E i \in places : \A j \in places : i >= j
<1>3. \E i \in places : \A j \in places : i <= j
    <2>1. places \in SUBSET Nat
        OBVIOUS
    <2>. QED BY LeastOf, <2>1
<1>4. \E i \in places : \A j \in places : i >= j
    <2>. DEFINE T == {n - i : i \in places}
    <2>1. T \in SUBSET Nat /\ T # {}
        <3>1. \A i \in places : n - i \in Nat
            OBVIOUS
        <3>. QED BY <3>1
    <2>2. PICK k \in T : \A j \in T : k <= j
        <3>. HIDE DEF T
        <3>. QED BY LeastOf, <2>1
    <2>3. PICK i \in places : k = n - i
        OBVIOUS
    <2>4. ASSUME NEW j \in places
          PROVE  i >= j
        <3>1. k <= n - j
            BY <2>2
        <3>. QED BY <2>3, <3>1
    <2>. QED BY <2>4
<1>. QED BY <1>3, <1>4

LEMMA ReplacedKeeps ==
    ASSUME NEW rs \in Seq(SurfaceResult), NEW r \in SurfaceResult, Doubled(rs, r.surface)
    PROVE  /\ Career!Replaced(rs, r) \in Seq(SurfaceResult)
           /\ \A s \in Surfaces \ {r.surface} : Keeps(rs, Career!Replaced(rs, r), s)
           /\ r.status # "known" => Unread(Career!Replaced(rs, r), r.surface)
           /\ Doubled(Career!Replaced(rs, r), r.surface)
<1>. DEFINE places == Career!Places(rs, r.surface)
            next == Career!Replaced(rs, r)
<1>1. CASE places = {}
    <2>1. next = Append(rs, r)
        BY <1>1 DEF Career!Replaced
    <2>2. Absent(rs, r.surface)
        BY <1>1 DEF Career!Places, Absent
    <2>. QED BY <2>1, <2>2, AppendKeeps
<1>2. CASE places # {}
    <2>1. PICK n \in Nat : DOMAIN rs = 1..n
        OBVIOUS
    <2>. DEFINE place == CHOOSE i \in places : \A j \in places : i <= j
    <2>2. \E i \in places : \A j \in places : i <= j
        <3>1. places \in SUBSET (1..n)
            BY <2>1 DEF Career!Places
        <3>. HIDE DEF places
        <3>. QED BY <1>2, <3>1, FirstAndLast
    <2>3. place \in places /\ \A j \in places : place <= j
        BY <2>2
    <2>4. next = [rs EXCEPT ![place] = r]
        BY <1>2 DEF Career!Replaced
    <2>. HIDE DEF place, next
    <2>5. /\ place \in 1..n /\ rs[place].surface = r.surface
          /\ \A j \in 1..n : rs[j].surface = r.surface => place <= j
        BY <2>1, <2>3 DEF Career!Places
    <2>6. next \in Seq(SurfaceResult) /\ DOMAIN next = 1..n /\ next[place] = r
          /\ \A i \in 1..n : i # place => next[i] = rs[i]
        BY <2>1, <2>4, <2>5
    <2>7. \A i \in 1..n : next[i].surface = rs[i].surface
        BY <2>5, <2>6
    <2>8. ASSUME NEW s \in Surfaces \ {r.surface}
          PROVE  Keeps(rs, next, s)
        <3>1. \A i \in 1..n : rs[i].surface = s => next[i] = rs[i]
            BY <2>5, <2>6
        <3>2. Unread(rs, s) => Unread(next, s)
            BY <2>1, <2>6, <2>7, <3>1 DEF Unread
        <3>. QED BY <2>1, <2>6, <2>7, <3>2 DEF Keeps, Doubled, Absent
    <2>9. ASSUME NEW i \in 1..n, NEW j \in 1..n, i # j, rs[i].surface = r.surface, rs[j].surface = r.surface
          PROVE  Unread(next, r.surface)
        <3>1. Unread(rs, r.surface)
            BY <2>1, <2>9 DEF Doubled
        <3>2. ASSUME NEW k \in 1..n, next[k].surface = r.surface,
                     \A l \in 1..n : next[l].surface = r.surface => l <= k
              PROVE  next[k].status # "known"
            <4>1. i <= k /\ j <= k /\ place <= i /\ place <= j
                BY <2>5, <2>7, <2>9, <3>2
            <4>2. k # place
                BY <2>5, <2>9, <4>1
            <4>3. next[k] = rs[k] /\ rs[k].surface = r.surface /\ \A l \in 1..n : rs[l].surface = r.surface => l <= k
                BY <2>6, <2>7, <3>2, <4>2
            <4>. QED BY <2>1, <3>1, <4>3 DEF Unread
        <3>. QED BY <2>6, <3>2 DEF Unread
    <2>10. Doubled(next, r.surface)
        BY <2>6, <2>7, <2>9 DEF Doubled
    <2>11. r.status # "known" => Unread(next, r.surface)
        <3>1. CASE \E i \in 1..n : i # place /\ rs[i].surface = r.surface
            BY <2>5, <2>9, <3>1
        <3>2. CASE ~ \E i \in 1..n : i # place /\ rs[i].surface = r.surface
            BY <2>6, <2>7, <3>2 DEF Unread
        <3>. QED BY <3>1, <3>2
    <2>. QED BY <2>6, <2>8, <2>10, <2>11 DEF next
<1>. QED BY <1>1, <1>2

LEMMA KeepsTwice ==
    ASSUME NEW a, NEW b, NEW c, NEW s, Keeps(a, b, s), Keeps(b, c, s)
    PROVE  Keeps(a, c, s)
BY DEF Keeps

HistorySurfaces == {"hiring_record", "selection_report"}

LEMMA HistoryAddedKeeps ==
    ASSUME NEW rs \in Seq(SurfaceResult), NEW of \in SUBSET Surfaces
    PROVE  /\ Career!HistoryAdded(rs, of, "failed") \in Seq(SurfaceResult)
           /\ \A s \in Surfaces \ (of \cap HistorySurfaces) : Keeps(rs, Career!HistoryAdded(rs, of, "failed"), s)
           /\ \A s \in of \cap HistorySurfaces : Unread(Career!HistoryAdded(rs, of, "failed"), s)
<1>. DEFINE one == Career!Result("hiring_record", "failed", {})
            two == Career!Result("selection_report", "failed", {})
            first == IF "hiring_record" \in of THEN Append(rs, one) ELSE rs
            last == IF "selection_report" \in of THEN Append(first, two) ELSE first
<1>1. /\ one \in SurfaceResult /\ one.surface = "hiring_record" /\ one.status # "known"
      /\ two \in SurfaceResult /\ two.surface = "selection_report" /\ two.status # "known"
    BY DEF Career!Result, SurfaceResult, Surfaces
<1>. HIDE DEF one, two
<1>2. /\ first \in Seq(SurfaceResult)
      /\ \A s \in Surfaces \ (of \cap {"hiring_record"}) : Keeps(rs, first, s)
      /\ "hiring_record" \in of => Unread(first, "hiring_record")
    <2>1. CASE "hiring_record" \in of
        <3>1. first = Append(rs, one)
            BY <2>1
        <3>. HIDE DEF first
        <3>. QED BY <1>1, <2>1, <3>1, AppendKeeps
    <2>2. CASE "hiring_record" \notin of
        BY <2>2 DEF Keeps
    <2>. QED BY <2>1, <2>2
<1>. HIDE DEF first
<1>3. /\ last \in Seq(SurfaceResult)
      /\ \A s \in Surfaces \ (of \cap {"selection_report"}) : Keeps(first, last, s)
      /\ "selection_report" \in of => Unread(last, "selection_report")
    <2>1. CASE "selection_report" \in of
        <3>1. last = Append(first, two)
            BY <2>1
        <3>. HIDE DEF last
        <3>. QED BY <1>1, <1>2, <2>1, <3>1, AppendKeeps
    <2>2. CASE "selection_report" \notin of
        BY <1>2, <2>2 DEF Keeps
    <2>. QED BY <2>1, <2>2
<1>4. Career!HistoryAdded(rs, of, "failed") = last
    BY DEF Career!HistoryAdded, one, two, first
<1>. HIDE DEF last
<1>5. \A s \in Surfaces \ (of \cap HistorySurfaces) : Keeps(rs, last, s)
    BY <1>2, <1>3, KeepsTwice DEF HistorySurfaces
<1>6. "hiring_record" \in of => Unread(last, "hiring_record")
    BY <1>2, <1>3 DEF Keeps, Surfaces
<1>. QED BY <1>3, <1>4, <1>5, <1>6 DEF HistorySurfaces

LEMMA HistoryReplacedKeeps ==
    ASSUME NEW rs \in Seq(SurfaceResult), NEW of \in SUBSET Surfaces, NEW status \in {"known", "partial", "failed"},
           NEW rows \in SUBSET SurfaceRows, \A s \in Surfaces : Doubled(rs, s)
    PROVE  /\ Career!HistoryReplaced(rs, of, status, rows) \in Seq(SurfaceResult)
           /\ \A s \in Surfaces \ (of \cap HistorySurfaces) : Keeps(rs, Career!HistoryReplaced(rs, of, status, rows), s)
           /\ \A s \in Surfaces : Doubled(Career!HistoryReplaced(rs, of, status, rows), s)
           /\ status # "known" =>
                 \A s \in of \cap HistorySurfaces : Unread(Career!HistoryReplaced(rs, of, status, rows), s)
<1>. DEFINE one == Career!Result("hiring_record", status, rows)
            two == Career!Result("selection_report", status, rows)
            first == IF "hiring_record" \in of THEN Career!Replaced(rs, one) ELSE rs
            last == IF "selection_report" \in of THEN Career!Replaced(first, two) ELSE first
<1>1. /\ one \in SurfaceResult /\ one.surface = "hiring_record" /\ one.status = status
      /\ two \in SurfaceResult /\ two.surface = "selection_report" /\ two.status = status
    BY DEF Career!Result, SurfaceResult, Surfaces
<1>. HIDE DEF one, two
<1>2. /\ first \in Seq(SurfaceResult)
      /\ \A s \in Surfaces \ (of \cap {"hiring_record"}) : Keeps(rs, first, s)
      /\ \A s \in Surfaces : Doubled(first, s)
      /\ "hiring_record" \in of /\ status # "known" => Unread(first, "hiring_record")
    <2>1. CASE "hiring_record" \in of
        <3>1. first = Career!Replaced(rs, one)
            BY <2>1
        <3>. HIDE DEF first
        <3>2. "hiring_record" \in Surfaces
            BY DEF Surfaces
        <3>. QED BY <1>1, <2>1, <3>1, <3>2, ReplacedKeeps DEF Keeps
    <2>2. CASE "hiring_record" \notin of
        BY <2>2 DEF Keeps
    <2>. QED BY <2>1, <2>2
<1>. HIDE DEF first
<1>3. /\ last \in Seq(SurfaceResult)
      /\ \A s \in Surfaces \ (of \cap {"selection_report"}) : Keeps(first, last, s)
      /\ \A s \in Surfaces : Doubled(last, s)
      /\ "selection_report" \in of /\ status # "known" => Unread(last, "selection_report")
    <2>1. CASE "selection_report" \in of
        <3>1. last = Career!Replaced(first, two)
            BY <2>1
        <3>. HIDE DEF last
        <3>2. "selection_report" \in Surfaces
            BY DEF Surfaces
        <3>. QED BY <1>1, <1>2, <2>1, <3>1, <3>2, ReplacedKeeps DEF Keeps
    <2>2. CASE "selection_report" \notin of
        BY <1>2, <2>2 DEF Keeps
    <2>. QED BY <2>1, <2>2
<1>4. Career!HistoryReplaced(rs, of, status, rows) = last
    BY DEF Career!HistoryReplaced, one, two, first
<1>. HIDE DEF last
<1>5. \A s \in Surfaces \ (of \cap HistorySurfaces) : Keeps(rs, last, s)
    BY <1>2, <1>3, KeepsTwice DEF HistorySurfaces
<1>6. "hiring_record" \in of /\ status # "known" => Unread(last, "hiring_record")
    BY <1>2, <1>3 DEF Keeps, Surfaces
<1>. QED BY <1>3, <1>4, <1>5, <1>6 DEF HistorySurfaces

\* What the agent is told of a surface is its last result.
LEMMA LastCounts ==
    ASSUME NEW rs \in Seq(SurfaceResult), NEW s \in Surfaces
    PROVE  /\ Unread(rs, s) => Career!CoverageOf(rs, s).status # "known"
           /\ Career!CoverageOf(rs, s).status = "known" => \E i \in DOMAIN rs : rs[i].status = "known"
<1>. DEFINE places == Career!Places(rs, s)
            last == CHOOSE i \in places : \A j \in places : i >= j
<1>1. CASE places = {}
    BY <1>1 DEF Career!CoverageOf, Career!Result
<1>2. CASE places # {}
    <2>1. PICK n \in Nat : DOMAIN rs = 1..n
        OBVIOUS
    <2>2. places \in SUBSET (1..n)
        BY <2>1 DEF Career!Places
    <2>3. \E i \in places : \A j \in places : i >= j
        <3>. HIDE DEF places
        <3>. QED BY <1>2, <2>2, FirstAndLast
    <2>4. last \in places /\ \A j \in places : last >= j
        BY <2>3
    <2>5. Career!CoverageOf(rs, s) = rs[last]
        BY <1>2 DEF Career!CoverageOf
    <2>. HIDE DEF last
    <2>6. last \in 1..n /\ rs[last].surface = s /\ \A j \in 1..n : rs[j].surface = s => j <= last
        BY <2>1, <2>4 DEF Career!Places
    <2>. QED BY <2>1, <2>5, <2>6 DEF Unread
<1>. QED BY <1>1, <1>2

LEMMA SurfaceSetsTyped ==
    ASSUME NEW of \in SurfaceSets
    PROVE  of \in SUBSET Surfaces /\ of # {} /\ IsFiniteSet(of)
<1>1. IsFiniteSet(Surfaces)
    <2>1. Surfaces = {} \cup {"job"} \cup {"company"} \cup {"hiring_record"} \cup {"selection_report"}
                        \cup {"recording"} \cup {"counseling"}
        BY DEF Surfaces
    <2>. QED BY <2>1, FS_EmptySet, FS_AddElement
<1>2. of \in SUBSET Surfaces /\ of # {}
    BY DEF SurfaceSets, Surfaces
<1>. QED BY <1>1, <1>2, FS_Subset

\* While a search is under way nothing is told or shown.
LEMMA GoesOn ==
    ASSUME CareerInv, career.pc \notin {"idle", "over"}, career' \in CareerState, career'.surfaces = career.surfaces,
           career'.pc \notin {"idle", "over"}, site' = site, told' = told, ReadsTold'
    PROVE  CareerInv'
BY DEF CareerInv, CareerTypeOK, Career!CompleteIsComplete, Career!ShownTogether

LEMMA BeginStep ==
    ASSUME CareerInv, NEW surfaces \in SurfaceSets, NEW required \in Career!Conditions, NEW limit \in Limits,
           Career!RunCastCareerSourceSearch(surfaces, required, limit)
    PROVE  CareerInv'
<1>1. /\ career' = [pc |-> "direct", surfaces |-> surfaces, required |-> required, limit |-> limit,
                    todo |-> surfaces \cap Career!Direct, results |-> <<>>, linked |-> {}, page |-> "none", read |-> {}]
      /\ told' = Career!NothingTold /\ missed' = {} /\ site' = site
    BY DEF Career!RunCastCareerSourceSearch, Career!NoCareer
<1>2. CareerTypeOK'
    BY <1>1, CareerAssumption, SurfaceSetsTyped DEF CareerInv, CareerTypeOK, CareerState
<1>3. ReadsTold'
    BY <1>1, SurfaceSetsTyped DEF ReadsTold, Doubled, Absent, Pending, Surfaces
<1>. QED BY <1>1, <1>2, <1>3 DEF CareerInv, Career!CompleteIsComplete, Career!ShownTogether, Career!NothingTold

LEMMA NoPageStep ==
    ASSUME CareerInv, NEW surfaces \in SurfaceSets, Career!NoCastPage(surfaces)
    PROVE  CareerInv'
<1>. DEFINE list == Career!SetToSeq(surfaces)
            rs == Career!Unavailable(surfaces)
<1>1. /\ career' = [pc |-> "answer", surfaces |-> surfaces, required |-> {}, limit |-> 0,
                    todo |-> {}, results |-> rs, linked |-> {}, page |-> "none", read |-> {}]
      /\ told' = Career!NothingTold /\ missed' = surfaces /\ site' = site
    BY DEF Career!NoCastPage, Career!NoCareer
<1>2. surfaces \in SUBSET Surfaces /\ IsFiniteSet(surfaces)
    BY SurfaceSetsTyped
<1>3. \E n \in Nat : list \in [1..n -> surfaces]
    <2>1. Career!Cardinality(surfaces) = Cardinality(surfaces)
        BY DEF Career!Cardinality, Cardinality
    <2>2. Cardinality(surfaces) \in Nat /\ ExistsBijection(1..Cardinality(surfaces), surfaces)
        BY <1>2, FS_CardinalityType
    <2>3. \E f \in [1..Cardinality(surfaces) -> surfaces] : Career!IsInjective(f)
        BY <2>2 DEF ExistsBijection, Bijection, Injection, IsInjective, Career!IsInjective
    <2>. QED BY <2>1, <2>2, <2>3 DEF Career!SetToSeq
<1>4. /\ rs \in Seq(SurfaceResult)
      /\ \A i \in DOMAIN rs : rs[i].status # "known"
    BY <1>2, <1>3 DEF Career!Unavailable, Career!Result, SurfaceResult
<1>. HIDE DEF rs
<1>5. CareerTypeOK'
    BY <1>1, <1>2, <1>4 DEF CareerInv, CareerTypeOK, CareerState, Career!Conditions
<1>6. ReadsTold'
    BY <1>1, <1>4 DEF ReadsTold, Doubled, Unread, Pending
<1>. QED BY <1>1, <1>5, <1>6 DEF CareerInv, Career!CompleteIsComplete, Career!ShownTogether, Career!NothingTold

LEMMA DirectStep ==
    ASSUME CareerInv, NEW surface \in Career!Direct, NEW known \in BOOLEAN, Career!ReadDirect(surface, known)
    PROVE  CareerInv'
<1>. DEFINE r == Career!SearchSurfaceResult(surface, known, Career!DirectRows(surface))
            rs == career.results
<1>1. /\ career.pc = "direct" /\ surface \in career.todo /\ site' = site /\ told' = told
      /\ missed' = (IF known THEN missed ELSE missed \cup (career.surfaces \cap {surface}))
    BY DEF Career!ReadDirect, Career!Reads, Career!Wants
<1>2. /\ career \in CareerState /\ rs \in Seq(SurfaceResult) /\ career.surfaces \in SUBSET Surfaces
      /\ ReadsTold
    BY <1>1 DEF CareerInv, CareerTypeOK, CareerState
<1>3. /\ r \in SurfaceResult /\ r.surface = surface /\ r.status = (IF known THEN "known" ELSE "failed")
      /\ surface \in Surfaces /\ surface \notin {"counseling", "recording"}
    BY DEF Career!SearchSurfaceResult, Career!Result, Career!DirectRows, Career!Direct, SurfaceResult, Surfaces,
           SurfaceRows, CareerInv, CareerTypeOK
<1>. HIDE DEF r
<1>4. PICK list \in Seq(SurfaceResult) : list = Append(rs, r)
    BY <1>2, <1>3, AppendKeeps
<1>5. /\ career' \in CareerState /\ career'.pc = "direct" /\ career'.surfaces = career.surfaces
      /\ career'.todo = career.todo \ {surface} /\ career'.results = list
    <2>1. PICK kept \in {"none", "form", "result"} :
            career' = [career EXCEPT !.todo = @ \ {surface}, !.page = kept,
                                     !.linked = IF kept = "result" THEN site.linked ELSE @, !.results = list]
        BY <1>2, <1>4 DEF Career!ReadDirect, CareerState, r
    <2>. QED BY <1>1, <1>2, <2>1 DEF CareerState, CareerInv, CareerTypeOK
<1>6. /\ \A s \in Surfaces \ {surface} : Keeps(rs, list, s)
      /\ ~known => Unread(list, surface)
      /\ Absent(rs, surface) => Doubled(list, surface)
    BY <1>2, <1>3, <1>4, AppendKeeps
<1>7. Absent(rs, surface) /\ surface \notin missed
    BY <1>1, <1>2 DEF ReadsTold, Pending
<1>8. ReadsTold'
    <2>1. \A s \in Surfaces : Doubled(list, s)
        BY <1>2, <1>6, <1>7 DEF ReadsTold, Keeps
    <2>5. \A s \in missed : s \in Surfaces /\ s # surface /\ Unread(rs, s)
        BY <1>1, <1>2, <1>7 DEF ReadsTold
    <2>2. \A s \in missed' : s \in career.surfaces /\ Unread(list, s)
        <3>1. \A s \in missed : Unread(list, s)
            BY <1>6, <2>5 DEF Keeps
        <3>2. \A s \in missed : s \in career.surfaces
            BY <1>2 DEF ReadsTold
        <3>. QED BY <1>1, <1>6, <3>1, <3>2
    <2>3. \A s \in Pending' : s \in Pending /\ s # surface
        BY <1>1, <1>3, <1>5 DEF Pending
    <2>4. \A s \in Pending' : s \in Surfaces /\ Absent(list, s) /\ s \notin missed'
        BY <1>1, <1>2, <1>6, <2>3 DEF ReadsTold, Keeps
    <2>. QED BY <1>5, <2>1, <2>2, <2>4 DEF ReadsTold
<1>. QED BY <1>1, <1>5, <1>8, GoesOn

LEMMA NothingReadStep ==
    ASSUME CareerInv, Career!DirectDone \/ Career!CompaniesKnown \/ Career!NoTop
    PROVE  CareerInv'
<1>1. PICK pc \in {"counseling", "companies", "links", "top", "answer"} :
         /\ career' = [career EXCEPT !.pc = pc] /\ site' = site /\ told' = told /\ missed' = missed
         /\ career.pc \notin {"idle", "over"}
         /\ pc = "counseling" => career.pc = "direct"
         /\ pc = "companies" => career.pc = "direct"
         /\ pc \in {"links", "top"} => career.pc = "companies"
         /\ pc = "links" => career.page # "none"
         /\ career.pc \notin {"details"}
    BY DEF Career!DirectDone, Career!CompaniesKnown, Career!NoTop, Career!Goto
<1>2. career \in CareerState /\ ReadsTold
    BY <1>1 DEF CareerInv, CareerTypeOK
<1>3. /\ career' \in CareerState /\ career'.pc = pc /\ career'.surfaces = career.surfaces
      /\ career'.results = career.results /\ career'.todo = career.todo /\ career'.page = career.page
    BY <1>1, <1>2 DEF CareerState
<1>4. Pending' \subseteq Pending
    BY <1>1, <1>3 DEF Pending
<1>5. ReadsTold'
    BY <1>1, <1>2, <1>3, <1>4 DEF ReadsTold
<1>. QED BY <1>1, <1>3, <1>5, GoesOn

LEMMA CounselingStep ==
    ASSUME CareerInv, NEW known \in BOOLEAN, Career!ReadCounseling(known)
    PROVE  CareerInv'
<1>. DEFINE r == Career!SearchSurfaceResult("counseling", known, Career!CounselingItems)
            rs == career.results
<1>1. /\ career.pc = "counseling" /\ site' = site /\ told' = told
      /\ missed' = (IF known THEN missed ELSE missed \cup (career.surfaces \cap {"counseling"}))
      /\ career' = [career EXCEPT !.pc = "companies", !.results = Append(rs, r)]
    BY DEF Career!ReadCounseling, Career!Reads, Career!Wants
<1>2. /\ career \in CareerState /\ rs \in Seq(SurfaceResult) /\ career.surfaces \in SUBSET Surfaces
      /\ ReadsTold
    BY <1>1 DEF CareerInv, CareerTypeOK, CareerState
<1>3. r \in SurfaceResult /\ r.surface = "counseling" /\ r.status = (IF known THEN "known" ELSE "failed")
    BY DEF Career!SearchSurfaceResult, Career!Result, Career!CounselingItems, SurfaceResult, Surfaces, SurfaceRows
<1>. HIDE DEF r
<1>4. PICK list \in Seq(SurfaceResult) : list = Append(rs, r)
    BY <1>2, <1>3, AppendKeeps
<1>5. /\ career' \in CareerState /\ career'.pc = "companies" /\ career'.surfaces = career.surfaces
      /\ career'.results = list
    BY <1>1, <1>2, <1>4 DEF CareerState
<1>6. /\ \A s \in Surfaces \ {"counseling"} : Keeps(rs, list, s)
      /\ ~known => Unread(list, "counseling")
      /\ Absent(rs, "counseling") => Doubled(list, "counseling")
    BY <1>2, <1>3, <1>4, AppendKeeps
<1>7. Absent(rs, "counseling") /\ "counseling" \notin missed /\ Absent(rs, "recording") /\ "recording" \notin missed
    BY <1>1, <1>2 DEF ReadsTold, Pending
<1>8. ReadsTold'
    <2>1. \A s \in Surfaces : Doubled(list, s)
        BY <1>2, <1>6, <1>7 DEF ReadsTold, Keeps
    <2>2. \A s \in missed' : s \in career.surfaces /\ Unread(list, s)
        <3>1. \A s \in missed : s \in Surfaces /\ s # "counseling" /\ Unread(rs, s) /\ s \in career.surfaces
            BY <1>1, <1>2, <1>7 DEF ReadsTold
        <3>. QED BY <1>1, <1>6, <3>1 DEF Keeps
    <2>3. Pending' = {"recording"} /\ "recording" \in Surfaces
        BY <1>5 DEF Pending, Surfaces
    <2>4. \A s \in Pending' : s \in Surfaces /\ Absent(list, s) /\ s \notin missed'
        BY <1>1, <1>6, <1>7, <2>3 DEF Keeps
    <2>. QED BY <1>5, <2>1, <2>2, <2>4 DEF ReadsTold
<1>. QED BY <1>1, <1>5, <1>8, GoesOn

LEMMA CompaniesStep ==
    ASSUME CareerInv, NEW known \in BOOLEAN, NEW which \in {"none", "form", "result"}, Career!ReadCompanies(known, which)
    PROVE  CareerInv'
<1>. DEFINE rs == career.results
            added == Career!HistoryAdded(rs, career.surfaces, "failed")
<1>1. /\ career.pc = "companies" /\ site' = site /\ told' = told /\ (known => which = "result")
      /\ missed' = (IF known THEN missed ELSE missed \cup (career.surfaces \cap HistorySurfaces))
      /\ career' = [career EXCEPT !.pc = "links", !.page = which, !.linked = IF which = "result" THEN site.linked ELSE {},
                                  !.results = IF known THEN rs ELSE added]
    BY DEF Career!ReadCompanies, Career!Reads, Career!Wants, Career!History, HistorySurfaces
<1>2. /\ career \in CareerState /\ rs \in Seq(SurfaceResult) /\ career.surfaces \in SUBSET Surfaces
      /\ ReadsTold /\ site.linked \in SUBSET Companies
    BY <1>1 DEF CareerInv, CareerTypeOK, CareerState
<1>3. /\ added \in Seq(SurfaceResult)
      /\ \A s \in Surfaces \ (career.surfaces \cap HistorySurfaces) : Keeps(rs, added, s)
      /\ \A s \in career.surfaces \cap HistorySurfaces : Unread(added, s)
    BY <1>2, HistoryAddedKeeps
<1>. HIDE DEF added
<1>4. PICK list \in Seq(SurfaceResult) : list = IF known THEN rs ELSE added
    BY <1>2, <1>3
<1>5. /\ career' \in CareerState /\ career'.pc = "links" /\ career'.surfaces = career.surfaces
      /\ career'.results = list /\ career'.page = which
    BY <1>1, <1>2, <1>4 DEF CareerState
<1>6. Absent(rs, "recording") /\ "recording" \notin missed
    BY <1>1, <1>2 DEF ReadsTold, Pending
<1>7. /\ \A s \in Surfaces \ (career.surfaces \cap HistorySurfaces) : Keeps(rs, list, s)
      /\ known => list = rs
      /\ ~known => \A s \in career.surfaces \cap HistorySurfaces : Unread(list, s)
    BY <1>3, <1>4 DEF Keeps
<1>8. ReadsTold'
    <2>1. \A s \in Surfaces : Doubled(list, s)
        BY <1>2, <1>7 DEF ReadsTold, Keeps, Doubled
    <2>2. \A s \in missed' : s \in career.surfaces /\ Unread(list, s)
        <3>1. \A s \in missed : s \in Surfaces /\ Unread(rs, s) /\ s \in career.surfaces
            BY <1>1, <1>2 DEF ReadsTold
        <3>. QED BY <1>1, <1>7, <3>1 DEF Keeps
    <2>3. Pending' = {"recording"} /\ "recording" \in Surfaces \ HistorySurfaces
        BY <1>5 DEF Pending, Surfaces, HistorySurfaces
    <2>4. \A s \in Pending' : s \in Surfaces /\ Absent(list, s) /\ s \notin missed'
        BY <1>1, <1>6, <1>7, <2>3 DEF Keeps
    <2>5. which = "none" => \A s \in career.surfaces \cap Career!History : Unread(list, s)
        BY <1>1, <1>7 DEF Career!History, HistorySurfaces
    <2>. QED BY <1>5, <2>1, <2>2, <2>4, <2>5 DEF ReadsTold
<1>. QED BY <1>1, <1>5, <1>8, GoesOn

LEMMA ReferencesStep ==
    ASSUME CareerInv, Career!CompanyReferences
    PROVE  CareerInv'
<1>. DEFINE rs == career.results
            both == career.surfaces \cap HistorySurfaces
            unread == {s \in both : \E i \in Career!Places(rs, s) : rs[i].status = "known"}
            some == Career!HistoryReplaced(rs, unread, "failed", {})
            all == Career!HistoryReplaced(rs, career.surfaces, "failed", {})
<1>1. /\ career.pc = "links" /\ site' = site /\ told' = told
      /\ missed' = (IF career.linked # {} THEN missed ELSE missed \cup both)
      /\ career' = [career EXCEPT !.pc = IF both = {} \/ career.linked = {} THEN "top" ELSE "details",
                                  !.todo = career.linked,
                                  !.results = IF career.page = "none" THEN some
                                              ELSE IF career.linked = {} THEN all ELSE rs]
    BY DEF Career!CompanyReferences, Career!Reads, Career!Wants, Career!History, HistorySurfaces
<1>2. /\ career \in CareerState /\ rs \in Seq(SurfaceResult) /\ career.surfaces \in SUBSET Surfaces
      /\ ReadsTold /\ career.linked \in SUBSET Companies
    BY <1>1 DEF CareerInv, CareerTypeOK, CareerState
<1>3. /\ some \in Seq(SurfaceResult) /\ all \in Seq(SurfaceResult)
      /\ \A s \in Surfaces \ unread : Keeps(rs, some, s)
      /\ \A s \in Surfaces \ both : Keeps(rs, all, s)
      /\ \A s \in Surfaces : Doubled(some, s) /\ Doubled(all, s)
      /\ \A s \in unread : Unread(some, s)
      /\ \A s \in both : Unread(all, s)
    <2>1. unread \in SUBSET Surfaces /\ unread \cap HistorySurfaces = unread /\ {} \in SUBSET SurfaceRows
        BY <1>2
    <2>2. \A s \in Surfaces : Doubled(rs, s)
        BY <1>2 DEF ReadsTold
    <2>. HIDE DEF unread
    <2>. QED BY <1>2, <2>1, <2>2, HistoryReplacedKeeps
<1>4. unread \subseteq both
    OBVIOUS
<1>. HIDE DEF some, all, unread
<1>5. PICK list \in Seq(SurfaceResult) :
         list = IF career.page = "none" THEN some ELSE IF career.linked = {} THEN all ELSE rs
    BY <1>2, <1>3
<1>6. /\ career' \in CareerState /\ career'.pc \in {"top", "details"} /\ career'.surfaces = career.surfaces
      /\ career'.results = list
    BY <1>1, <1>2, <1>5 DEF CareerState
<1>7. Absent(rs, "recording") /\ "recording" \notin missed
    BY <1>1, <1>2 DEF ReadsTold, Pending
<1>8. /\ \A s \in Surfaces \ both : Keeps(rs, list, s)
      /\ \A s \in Surfaces : Doubled(list, s)
    BY <1>2, <1>3, <1>4, <1>5 DEF Keeps, ReadsTold
<1>9. career.linked = {} => \A s \in both : Unread(list, s)
    <2>1. career.page = "none" => \A s \in both : Unread(rs, s)
        BY <1>1, <1>2 DEF ReadsTold, Career!History, HistorySurfaces
    <2>2. career.page = "none" => \A s \in both : Unread(some, s)
        BY <1>2, <1>3, <2>1 DEF Keeps
    <2>. QED BY <1>3, <1>5, <2>2
<1>10. \A s \in missed : s \in career.surfaces /\ Unread(list, s)
    <2>1. \A s \in missed : s \in Surfaces /\ Unread(rs, s) /\ s \in career.surfaces
        BY <1>1, <1>2 DEF ReadsTold
    <2>2. \A s \in missed : Unread(some, s) /\ Unread(all, s)
        BY <1>3, <2>1 DEF Keeps
    <2>. QED BY <1>5, <2>1, <2>2
<1>11. ReadsTold'
    <2>1. \A s \in missed' : s \in career.surfaces /\ Unread(list, s)
        BY <1>1, <1>9, <1>10
    <2>2. Pending' = {"recording"} /\ "recording" \in Surfaces \ HistorySurfaces
        BY <1>6 DEF Pending, Surfaces, HistorySurfaces
    <2>3. \A s \in Pending' : s \in Surfaces /\ Absent(list, s) /\ s \notin missed'
        BY <1>1, <1>7, <1>8, <2>2 DEF Keeps
    <2>. QED BY <1>6, <1>8, <2>1, <2>3 DEF ReadsTold
<1>. QED BY <1>1, <1>6, <1>11, GoesOn

LEMMA DetailsStep ==
    ASSUME CareerInv, NEW company \in Companies, NEW known \in BOOLEAN, Career!ReadCompanyHistory(company, known)
    PROVE  CareerInv'
<1>1. /\ career.pc = "details" /\ site' = site /\ told' = told
      /\ missed' = (IF known THEN missed ELSE missed \cup (career.surfaces \cap Career!History))
      /\ career' = [career EXCEPT !.todo = @ \ {company}, !.read = IF known THEN @ \cup {company} ELSE @]
    BY DEF Career!ReadCompanyHistory, Career!Reads, Career!Wants
<1>2. career \in CareerState /\ ReadsTold
    BY <1>1 DEF CareerInv, CareerTypeOK
<1>3. /\ career' \in CareerState /\ career'.pc = "details" /\ career'.surfaces = career.surfaces
      /\ career'.results = career.results
    BY <1>1, <1>2 DEF CareerState
<1>4. Pending' = Pending /\ Pending = {"recording"} /\ "recording" \notin Career!History
    BY <1>1, <1>3 DEF Pending, Career!History
<1>5. ReadsTold'
    BY <1>1, <1>2, <1>3, <1>4 DEF ReadsTold
<1>. QED BY <1>1, <1>3, <1>5, GoesOn

LEMMA HistoryStep ==
    ASSUME CareerInv, Career!HistoryRows
    PROVE  CareerInv'
<1>. DEFINE rs == career.results
            both == career.surfaces \cap HistorySurfaces
            status == IF career.read = career.linked THEN "known" ELSE IF career.read # {} THEN "partial" ELSE "failed"
            list == Career!HistoryReplaced(rs, career.surfaces, status, career.read)
<1>1. /\ career.pc = "details" /\ site' = site /\ told' = told
      /\ missed' = (IF status = "known" THEN missed \ HistorySurfaces ELSE missed)
      /\ career' = [career EXCEPT !.pc = "top", !.results = list]
    BY DEF Career!HistoryRows, Career!History, HistorySurfaces
<1>2. /\ career \in CareerState /\ rs \in Seq(SurfaceResult) /\ career.surfaces \in SUBSET Surfaces
      /\ ReadsTold /\ career.read \in SUBSET SurfaceRows
    BY <1>1 DEF CareerInv, CareerTypeOK, CareerState, SurfaceRows
<1>3. status \in {"known", "partial", "failed"}
    OBVIOUS
<1>. HIDE DEF status
<1>4. /\ list \in Seq(SurfaceResult)
      /\ \A s \in Surfaces \ both : Keeps(rs, list, s)
      /\ \A s \in Surfaces : Doubled(list, s)
      /\ status # "known" => \A s \in both : Unread(list, s)
    <2>1. \A s \in Surfaces : Doubled(rs, s)
        BY <1>2 DEF ReadsTold
    <2>. QED BY <1>2, <1>3, <2>1, HistoryReplacedKeeps
<1>. HIDE DEF list
<1>5. /\ career' \in CareerState /\ career'.pc = "top" /\ career'.surfaces = career.surfaces /\ career'.results = list
    BY <1>1, <1>2, <1>4 DEF CareerState
<1>6. Absent(rs, "recording") /\ "recording" \notin missed
    BY <1>1, <1>2 DEF ReadsTold, Pending
<1>7. \A s \in missed' : s \in career.surfaces /\ Unread(list, s)
    <2>1. \A s \in missed : s \in Surfaces /\ s \in career.surfaces /\ (Unread(rs, s) \/ s \in HistorySurfaces)
        BY <1>2 DEF ReadsTold, Career!History, HistorySurfaces
    <2>. QED BY <1>1, <1>4, <2>1 DEF Keeps
<1>8. ReadsTold'
    <2>1. Pending' = {"recording"} /\ "recording" \in Surfaces \ HistorySurfaces
        BY <1>5 DEF Pending, Surfaces, HistorySurfaces
    <2>2. \A s \in Pending' : s \in Surfaces /\ Absent(list, s) /\ s \notin missed'
        BY <1>1, <1>4, <1>6, <2>1 DEF Keeps
    <2>. QED BY <1>4, <1>5, <1>7, <2>2 DEF ReadsTold
<1>. QED BY <1>1, <1>5, <1>8, GoesOn

LEMMA TopStep ==
    ASSUME CareerInv, NEW known \in BOOLEAN, NEW shows \in BOOLEAN, Career!ReadTop(known, shows)
    PROVE  CareerInv'
<1>. DEFINE found == known /\ shows
            r == IF found THEN Career!PendingSupportResult("recording") ELSE Career!Result("recording", "failed", {})
            rs == career.results
<1>1. /\ career.pc = "top" /\ site' = site /\ told' = told
      /\ missed' = (IF found THEN missed ELSE missed \cup (career.surfaces \cap {"recording"}))
      /\ career' = [career EXCEPT !.pc = IF found THEN "support" ELSE "answer", !.results = Append(rs, r)]
    BY DEF Career!ReadTop, Career!Reads, Career!Wants
<1>2. /\ career \in CareerState /\ rs \in Seq(SurfaceResult) /\ career.surfaces \in SUBSET Surfaces
      /\ ReadsTold
    BY <1>1 DEF CareerInv, CareerTypeOK, CareerState
<1>3. r \in SurfaceResult /\ r.surface = "recording" /\ r.status # "known"
    BY DEF Career!PendingSupportResult, Career!Result, SurfaceResult, Surfaces, SurfaceRows
<1>. HIDE DEF r, found
<1>4. PICK list \in Seq(SurfaceResult) : list = Append(rs, r)
    BY <1>2, <1>3, AppendKeeps
<1>5. /\ career' \in CareerState /\ career'.pc = (IF found THEN "support" ELSE "answer")
      /\ career'.surfaces = career.surfaces /\ career'.results = list
    BY <1>1, <1>2, <1>4 DEF CareerState
<1>6. /\ \A s \in Surfaces \ {"recording"} : Keeps(rs, list, s)
      /\ Unread(list, "recording") /\ Doubled(list, "recording")
    BY <1>2, <1>3, <1>4, AppendKeeps
<1>7. "recording" \notin missed
    BY <1>1, <1>2 DEF ReadsTold, Pending
<1>8. ReadsTold'
    <2>1. \A s \in Surfaces : Doubled(list, s)
        BY <1>2, <1>6 DEF ReadsTold, Keeps
    <2>2. \A s \in missed' : s \in career.surfaces /\ Unread(list, s)
        <3>1. \A s \in missed : s \in Surfaces /\ s # "recording" /\ Unread(rs, s) /\ s \in career.surfaces
            BY <1>1, <1>2, <1>7 DEF ReadsTold
        <3>. QED BY <1>1, <1>6, <3>1 DEF Keeps
    <2>3. Pending' = {}
        BY <1>5 DEF Pending
    <2>4. career'.pc = "support" => "recording" \notin missed'
        BY <1>1, <1>5, <1>7
    <2>. QED BY <1>5, <2>1, <2>2, <2>3, <2>4 DEF ReadsTold
<1>. QED BY <1>1, <1>5, <1>8, GoesOn

LEMMA SupportStep ==
    ASSUME CareerInv, NEW known \in BOOLEAN, Career!MergeSupport(known)
    PROVE  CareerInv'
<1>. DEFINE r == Career!ReadCastSupportPage(known)
            rs == career.results
<1>1. /\ career.pc = "support" /\ site' = site /\ told' = told
      /\ missed' = (IF known THEN missed ELSE missed \cup (career.surfaces \cap {"recording"}))
      /\ career' = [career EXCEPT !.pc = "answer", !.results = Career!Replaced(rs, r)]
    BY DEF Career!MergeSupport, Career!Reads, Career!Wants
<1>2. /\ career \in CareerState /\ rs \in Seq(SurfaceResult) /\ career.surfaces \in SUBSET Surfaces
      /\ ReadsTold
    BY <1>1 DEF CareerInv, CareerTypeOK, CareerState
<1>3. r \in SurfaceResult /\ r.surface = "recording" /\ r.status = (IF known THEN "known" ELSE "failed")
    BY DEF Career!ReadCastSupportPage, Career!SearchSurfaceResult, Career!Result, Career!SupportItems, SurfaceResult,
           Surfaces, SurfaceRows
<1>. HIDE DEF r
<1>4. Doubled(rs, "recording") /\ "recording" \in Surfaces
    BY <1>2 DEF ReadsTold, Surfaces
<1>5. PICK list \in Seq(SurfaceResult) : list = Career!Replaced(rs, r)
    BY <1>2, <1>3, <1>4, ReplacedKeeps
<1>6. /\ career' \in CareerState /\ career'.pc = "answer" /\ career'.surfaces = career.surfaces /\ career'.results = list
    BY <1>1, <1>2, <1>5 DEF CareerState
<1>7. /\ \A s \in Surfaces \ {"recording"} : Keeps(rs, list, s)
      /\ ~known => Unread(list, "recording")
      /\ Doubled(list, "recording")
    BY <1>2, <1>3, <1>4, <1>5, ReplacedKeeps
<1>8. ReadsTold'
    <2>1. \A s \in Surfaces : Doubled(list, s)
        BY <1>2, <1>7 DEF ReadsTold, Keeps
    <2>2. \A s \in missed' : s \in career.surfaces /\ Unread(list, s)
        <3>1. \A s \in missed : s \in Surfaces /\ s # "recording" /\ Unread(rs, s) /\ s \in career.surfaces
            BY <1>1, <1>2 DEF ReadsTold
        <3>. QED BY <1>1, <1>7, <3>1 DEF Keeps
    <2>3. Pending' = {}
        BY <1>6 DEF Pending
    <2>. QED BY <1>6, <2>1, <2>2, <2>3 DEF ReadsTold
<1>. QED BY <1>1, <1>6, <1>8, GoesOn

LEMMA RowsFinite ==
    ASSUME CareerTypeOK
    PROVE  IsFiniteSet(Career!Ranked(career.results, career.required))
<1>. DEFINE all == [surface : Surfaces, company : SurfaceRows]
            f == [x \in all |-> <<x.surface, x.company>>]
<1>1. IsFiniteSet(Surfaces)
    <2>1. Surfaces = {} \cup {"job"} \cup {"company"} \cup {"hiring_record"} \cup {"selection_report"}
                        \cup {"recording"} \cup {"counseling"}
        BY DEF Surfaces
    <2>. QED BY <2>1, FS_EmptySet, FS_AddElement
<1>2. IsFiniteSet(SurfaceRows)
    BY CareerAssumption, FS_AddElement DEF SurfaceRows
<1>3. IsFiniteSet(Surfaces \X SurfaceRows)
    BY <1>1, <1>2, FS_Product
<1>4. f \in Injection(all, Surfaces \X SurfaceRows)
    <2>1. f \in [all -> Surfaces \X SurfaceRows]
        OBVIOUS
    <2>2. ASSUME NEW x \in all, NEW y \in all, f[x] = f[y]
          PROVE  x = y
        <3>1. x.surface = y.surface /\ x.company = y.company
            BY <2>2
        <3>. QED BY <3>1
    <2>3. DOMAIN f = all
        OBVIOUS
    <2>. HIDE DEF f, all
    <2>. QED BY <2>1, <2>2, <2>3 DEF Injection, IsInjective
<1>5. IsFiniteSet(all)
    BY <1>3, <1>4, FS_Injection
<1>6. Career!Rows(career.results) \subseteq all
    <2>1. career.results \in Seq(SurfaceResult)
        BY DEF CareerTypeOK, CareerState
    <2>2. ASSUME NEW i \in DOMAIN career.results, NEW c \in career.results[i].rows
          PROVE  [surface |-> career.results[i].surface, company |-> c] \in all
        <3>1. career.results[i] \in SurfaceResult
            BY <2>1
        <3>. QED BY <3>1 DEF SurfaceResult
    <2>. HIDE DEF all
    <2>. QED BY <2>2 DEF Career!Rows
<1>7. Career!Ranked(career.results, career.required) \in SUBSET all
    BY <1>6 DEF Career!Ranked
<1>. QED BY <1>5, <1>7, FS_Subset

\* What is answered as complete was read, and the panel is told so as well.
LEMMA CompleteIsRead ==
    ASSUME CareerInv, career.pc = "answer",
           Career!ProjectForAgent(career.results, career.surfaces).status = "known"
    PROVE  missed = {} /\ Career!ProjectForAgent(career.results, career.surfaces).local = "known"
<1>. DEFINE rs == career.results
<1>1. /\ rs \in Seq(SurfaceResult) /\ ReadsTold
      /\ career.surfaces \in SUBSET Surfaces /\ career.surfaces # {}
    BY SurfaceSetsTyped DEF CareerInv, CareerTypeOK, CareerState
<1>2. /\ \A s \in career.surfaces : Career!CoverageOf(rs, s).status = "known"
      /\ Career!OverallStatus(rs) # "partial"
      /\ Career!ProjectForAgent(rs, career.surfaces).local = Career!OverallStatus(rs)
    BY DEF Career!ProjectForAgent
<1>3. missed = {}
    BY <1>1, <1>2, LastCounts DEF ReadsTold
<1>4. \E i \in DOMAIN rs : rs[i].status = "known"
    BY <1>1, <1>2, LastCounts
<1>5. Career!OverallStatus(rs) = "known"
    BY <1>2, <1>4 DEF Career!OverallStatus
<1>. QED BY <1>2, <1>3, <1>5

LEMMA AnswerStep ==
    ASSUME CareerInv, Career!Answer
    PROVE  CareerInv'
<1>. DEFINE rs == career.results
            rows == Career!Ranked(rs, career.required)
            says == Career!ProjectForAgent(rs, career.surfaces)
            readable == says.status \in {"known", "partial"}
            enough == IF Cardinality(rows) < career.limit THEN Cardinality(rows) ELSE career.limit
<1>0. \A S : Career!Cardinality(S) = Cardinality(S)
    BY DEF Career!Cardinality, Cardinality
<1>1. /\ career.pc = "answer" /\ told' = says /\ site' = site /\ missed' = missed
      /\ career' = [career EXCEPT !.pc = "over"]
      /\ \E first \in SUBSET rows :
            /\ Cardinality(first) = enough
            /\ shown' = IF readable THEN Career!Groups(first, career.required) ELSE {}
    BY <1>0 DEF Career!Answer, Career!Goto
<1>2. PICK first \in SUBSET rows : /\ Cardinality(first) = enough
                                   /\ shown' = IF readable THEN Career!Groups(first, career.required) ELSE {}
    BY <1>1
<1>3. /\ career \in CareerState /\ rs \in Seq(SurfaceResult) /\ ReadsTold /\ career.limit \in Nat /\ CareerTypeOK
    BY <1>1 DEF CareerInv, CareerTypeOK, CareerState
<1>4. /\ career' \in CareerState /\ career'.pc = "over" /\ career'.surfaces = career.surfaces
      /\ career'.results = rs /\ career'.required = career.required /\ career'.limit = career.limit
    BY <1>1, <1>3 DEF CareerState
<1>5. CareerTypeOK'
    BY <1>1, <1>3, <1>4 DEF CareerTypeOK
<1>6. ReadsTold'
    BY <1>1, <1>3, <1>4 DEF ReadsTold, Pending
<1>7. Career!CompleteIsComplete'
    <2>. HIDE DEF says
    <2>. QED BY <1>1, CompleteIsRead DEF Career!CompleteIsComplete, says
<1>8. IsFiniteSet(rows) /\ Cardinality(rows) \in Nat
    BY <1>3, RowsFinite, FS_CardinalityType
<1>9. shown' \subseteq {row.company : row \in rows}
    <2>. HIDE DEF rows
    <2>. QED BY <1>2 DEF Career!Groups
<1>10. ASSUME readable, Cardinality(rows) <= career.limit
       PROVE  first = rows
    <2>. HIDE DEF rows
    <2>1. Cardinality(first) = Cardinality(rows)
        BY <1>2, <1>3, <1>8, <1>10
    <2>. QED BY <1>8, <2>1, FS_Subset
<1>11. ASSUME readable, Cardinality(rows) <= career.limit, NEW c \in Companies,
              {row \in Career!Rows(rs) : row.company = c} # {},
              career.required \subseteq UNION {Career!Tells(row) : row \in {x \in Career!Rows(rs) : x.company = c}}
       PROVE  c \in shown'
    <2>1. c \in Career!Groups(Career!Rows(rs), career.required)
        BY <1>11 DEF Career!Groups
    <2>2. {x \in rows : x.company = c} = {x \in Career!Rows(rs) : x.company = c}
        BY <2>1 DEF Career!Ranked
    <2>3. c \in Career!Groups(rows, career.required)
        <3>. HIDE DEF rows, rs
        <3>. QED BY <1>11, <2>2 DEF Career!Groups
    <2>. QED BY <1>2, <1>10, <1>11, <2>3
<1>12. Career!ShownTogether'
    <2>1. ASSUME NEW row
          PROVE  Career!Tells(row)' = Career!Tells(row)
        BY <1>1 DEF Career!Tells
    <2>2. Career!Ranked(career.results, career.required)' = rows
        BY <1>1, <1>4 DEF Career!Ranked, Career!Groups, Career!Tells, Career!Rows
    <2>3. Career!Rows(career.results)' = Career!Rows(rs)
        BY <1>4 DEF Career!Rows
    <2>. HIDE DEF rows, rs, says
    <2>. QED BY <1>0, <1>1, <1>4, <1>9, <1>11, <2>1, <2>2, <2>3 DEF Career!ShownTogether
<1>. QED BY <1>4, <1>5, <1>6, <1>7, <1>12 DEF CareerInv

LEMMA OverStep ==
    ASSUME CareerInv, Career!Over
    PROVE  CareerInv'
BY DEF Career!Over, Career!NoCareer, CareerInv, CareerTypeOK, CareerState, Career!Conditions, Career!CompleteIsComplete,
       Career!ShownTogether

LEMMA CareerStep ==
    ASSUME CareerInv, [Career!CareerNext]_careerVars
    PROVE  CareerInv'
<1>1. ASSUME NEW surfaces \in SurfaceSets, NEW required \in Career!Conditions, NEW limit \in Limits,
             Career!RunCastCareerSourceSearch(surfaces, required, limit)
      PROVE  CareerInv'
    BY <1>1, BeginStep
<1>2. ASSUME NEW surfaces \in SurfaceSets, Career!NoCastPage(surfaces)
      PROVE  CareerInv'
    BY <1>2, NoPageStep
<1>3. CASE \/ Career!DirectDone \/ Career!CompaniesKnown \/ Career!CompanyReferences \/ Career!HistoryRows
           \/ Career!NoTop \/ Career!Answer \/ Career!Over
    BY <1>3, NothingReadStep, ReferencesStep, HistoryStep, AnswerStep, OverStep
<1>4. ASSUME NEW known \in BOOLEAN,
             \/ \E surface \in Career!Direct : Career!ReadDirect(surface, known)
             \/ Career!ReadCounseling(known)
             \/ \E which \in {"none", "form", "result"} : Career!ReadCompanies(known, which)
             \/ \E company \in Companies : Career!ReadCompanyHistory(company, known)
             \/ \E shows \in BOOLEAN : Career!ReadTop(known, shows)
             \/ Career!MergeSupport(known)
      PROVE  CareerInv'
    BY <1>4, DirectStep, CounselingStep, CompaniesStep, DetailsStep, TopStep, SupportStep
<1>5. CASE UNCHANGED careerVars
    BY <1>5 DEF careerVars, CareerInv, CareerTypeOK, ReadsTold, Pending, Career!CompleteIsComplete, Career!ShownTogether,
                Career!Ranked, Career!Groups, Career!Tells, Career!Rows
<1>. QED BY <1>1, <1>2, <1>3, <1>4, <1>5 DEF Career!CareerNext, Career!FetchCastDocument, Career!SupportLinks

\* A search across the surfaces is told to be complete only if all of its reads went well, and a
\* company is shown for what its rows have together, whichever surfaces they come from.
THEOREM CareerSearchIsTrue == ConnectorsSpec => []CareerAsRead
<1>1. ConnectorsInit => CareerInvariant
    BY CareerBegins DEF ConnectorsInit, ConnectorsStart, CareerInvariant
<1>2. CareerInvariant /\ [ConnectorsNext]_allVars => CareerInvariant'
    <2>. SUFFICES ASSUME CareerInvariant, [ConnectorsNext]_allVars, part' = "career"
                  PROVE  CareerInv'
        BY DEF CareerInvariant
    <2>1. part = "career" /\ CareerInv
        BY DEF ConnectorsNext, allVars, CareerInvariant
    <2>2. [Career!CareerNext]_careerVars
        BY <2>1 DEF ConnectorsNext, allVars
    <2>. QED BY <2>1, <2>2, CareerStep
<1>3. CareerInvariant => CareerAsRead
    BY DEF CareerInvariant, CareerInv, CareerAsRead
<1>. QED BY <1>1, <1>2, <1>3, PTL DEF ConnectorsSpec
(***************************************************************************)
(* The arguments of a tool call (ToolCalls)                                *)
(***************************************************************************)

ArgumentsOf(tool) == [Arguments!ArgumentKeys[tool] \cup {"unknown"} -> Arguments!Anything]
\* What a handler documents, for every key.
Documented(args) == \A key \in DOMAIN args : args[key] \in Arguments!OptText

\* Up to the panel the arguments are those of the provider, and what has let them
\* through is known; after it they are those of the message.
CallInv ==
    /\ call = [tool |-> call.tool, args |-> call.args] /\ call.tool \in Arguments!Tools
    /\ at \in {"service", "registry", "panel"} => call.args \in ArgumentsOf(call.tool)
    /\ at \in {"registry", "panel"} /\ call.tool \in Arguments!LibraryTools =>
          Arguments!Accepts(Arguments!ServiceRules[call.tool], call.args)
    /\ at = "panel" => Arguments!Accepts(Arguments!RegistryRules[call.tool], call.args)
    /\ at = "worker" => Arguments!Accepts(Arguments!MessageRules[call.tool], call.args)
    /\ at \in {"worker", "handler"} => Documented(call.args)
    /\ at # "refused" => refusedBy = "nobody"
    /\ Arguments!NotLost /\ Arguments!LibraryCallsServed
CallInvariant == part = "calls" => CallInv

LEMMA CallsTyped ==
    ASSUME NEW tool \in Arguments!Tools, NEW c \in Arguments!Calls(tool)
    PROVE  c = [tool |-> tool, args |-> c.args] /\ c.args \in ArgumentsOf(tool)
<1>. DEFINE odd == {K \in SUBSET Arguments!ArgumentKeys[tool] : Arguments!Cardinality(K) <= MaxOdd}
             some == UNION {[K -> Arguments!Odd] : K \in odd}
             every == [Arguments!ArgumentKeys[tool] -> Arguments!Plain]
             over(a, b, u) == Arguments!Joined(a, Arguments!Joined(b, [unknown |-> u]))
<1>1. Arguments!Calls(tool) =
         {[tool |-> tool, args |-> over(a, b, u)] : a \in some, b \in every, u \in Arguments!Plain}
    BY SMT DEF Arguments!Calls
<1>. HIDE DEF some, every, over
<1>2. PICK a \in some, b \in every, u \in Arguments!Plain : c = [tool |-> tool, args |-> over(a, b, u)]
    BY <1>1
<1>3. PICK K \in SUBSET Arguments!ArgumentKeys[tool] : a \in [K -> Arguments!Odd]
    BY DEF some
<1>. DEFINE last == [unknown |-> u]
<1>4. DOMAIN last = {"unknown"} /\ last["unknown"] = u
    OBVIOUS
<1>. HIDE DEF last
<1>5. Arguments!Joined(b, last) \in [Arguments!ArgumentKeys[tool] \cup {"unknown"} -> Arguments!Plain]
    BY <1>4 DEF Arguments!Joined, every
<1>6. Arguments!Joined(a, Arguments!Joined(b, last)) \in ArgumentsOf(tool)
    BY <1>3, <1>5 DEF Arguments!Joined, ArgumentsOf, Arguments!Anything, Arguments!Plain
<1>. QED BY <1>2, <1>6 DEF last, over

LEMMA NormalizedTyped ==
    ASSUME NEW tool, NEW args \in ArgumentsOf(tool)
    PROVE  Arguments!Normalized(tool, args) \in ArgumentsOf(tool)
BY DEF Arguments!Normalized, ArgumentsOf, Arguments!Anything, Arguments!Odd

\* A table that allows no other key.
LEMMA OnlyAccepts ==
    ASSUME NEW rules, NEW args, "unknown" \notin DOMAIN rules
    PROVE  Arguments!Accepts(Arguments!Only(rules), args)
              <=> Arguments!Accepts(rules, args) /\ args["unknown"] = "absent"
<1>. DEFINE none == [unknown |-> {"absent"}]
<1>1. DOMAIN none = {"unknown"} /\ none["unknown"] = {"absent"}
    OBVIOUS
<1>. HIDE DEF none
<1>. QED BY <1>1 DEF Arguments!Accepts, Arguments!Only, Arguments!Joined, none

LEMMA ServiceTable == \A tool \in Arguments!LibraryTools : Arguments!ServiceRules[tool] = Arguments!ServiceLibrary[tool]
BY DEF Arguments!LibraryTools, Arguments!ServiceRules, Arguments!Joined, Arguments!ServiceScombz, Arguments!ServiceWeb,
       Arguments!ServiceLibrary

LEMMA PanelTable ==
    /\ \A tool \in DOMAIN Arguments!PanelScombz : Arguments!PanelRules[tool] = Arguments!PanelScombz[tool]
    /\ \A tool \in DOMAIN Arguments!PanelWeb : Arguments!PanelRules[tool] = Arguments!PanelWeb[tool]
    /\ \A tool \in DOMAIN Arguments!PanelLibrary : Arguments!PanelRules[tool] = Arguments!PanelLibrary[tool]
    /\ Arguments!PanelRules["my_library_read"] = Arguments!PanelMyLibrary
    /\ Arguments!PanelRules["library_catalog_search"] = Arguments!PanelCatalog
BY DEF Arguments!PanelRules, Arguments!Joined, Arguments!PanelScombz, Arguments!PanelWeb, Arguments!PanelLibrary

\* What the service lets through of the library's tools, the registry and the panel do.
LEMMA LibraryServed ==
    ASSUME NEW tool \in Arguments!LibraryTools, NEW args \in ArgumentsOf(tool),
           Arguments!Accepts(Arguments!ServiceRules[tool], args)
    PROVE  /\ Arguments!Accepts(Arguments!RegistryRules[tool], args)
           /\ Arguments!Accepts(Arguments!PanelRules[tool], args)
           /\ Arguments!ScopeGiven(tool, args)
<1>. USE OnlyAccepts, ServiceTable, PanelTable
     DEF Arguments!ServiceLibrary, Arguments!Accepts, Arguments!Plain, Arguments!OptValue, Arguments!Must,
         Arguments!ScopeGiven, Arguments!RegistryRules, Arguments!PanelLibrary
<1>1. CASE tool = "my_library_read"
    BY <1>1 DEF Arguments!RegistryMyLibrary, Arguments!PanelMyLibrary
<1>2. CASE tool = "library_catalog_search"
    BY <1>2 DEF Arguments!RegistryCatalog, Arguments!PanelCatalog
<1>3. CASE tool = "library_item_read"
    BY <1>3 DEF Arguments!RegistryItem
<1>4. CASE tool = "library_catalog_browse"
    BY <1>4 DEF Arguments!RegistryBrowse
<1>5. CASE tool = "library_discovery_search"
    BY <1>5 DEF Arguments!RegistryDiscovery
<1>6. CASE tool = "library_action_options"
    BY <1>6
<1>. QED BY <1>1, <1>2, <1>3, <1>4, <1>5, <1>6 DEF Arguments!LibraryTools

\* What the panel makes of arguments that it and the registry let through.
LEMMA MessagesKnown ==
    ASSUME NEW tool \in Arguments!Tools, NEW args \in ArgumentsOf(tool),
           Arguments!Accepts(Arguments!RegistryRules[tool], args), Arguments!Accepts(Arguments!PanelRules[tool], args)
    PROVE  /\ Arguments!Accepts(Arguments!MessageRules[tool], Arguments!Message(tool, args))
           /\ Documented(Arguments!Message(tool, args))
<1>. USE OnlyAccepts, PanelTable
     DEF Arguments!Accepts, Arguments!Plain, Arguments!OptValue, Arguments!OptText, Arguments!Must, Arguments!None,
         Arguments!RegistryRules, Arguments!MessageRules, Arguments!Message, Arguments!SentFields, Arguments!OrNull,
         Arguments!OrDefault, Arguments!ArgumentKeys, Arguments!CastTools, ArgumentsOf, Documented, Arguments!NothingAsked
<1>1. CASE tool \in {"sitrus_read", "moodle_read", "cast_read", "cast_alumni_read"}
    BY <1>1
<1>2. CASE tool = "scombz_course_list"
    BY <1>2 DEF Arguments!RegistryCourseList, Arguments!ScombzMessage
<1>3. CASE tool = "scombz_portal_read"
    BY <1>3 DEF Arguments!RegistryPortal, Arguments!ScombzMessage
<1>4. CASE tool = "scombz_course_read"
    BY <1>4 DEF Arguments!RegistryCourseRead, Arguments!ScombzMessage
<1>5. CASE tool = "scombz_material_search"
    BY <1>5 DEF Arguments!RegistryMaterials, Arguments!ScombzMessage
<1>6. CASE tool = "syllabus_search"
    BY <1>6 DEF Arguments!RegistrySyllabusSearch, Arguments!SyllabusMessage
<1>7. CASE tool = "syllabus_read"
    BY <1>7 DEF Arguments!BrowserMessage
<1>8. CASE tool = "browser_read_url"
    BY <1>8 DEF Arguments!RegistryBrowser, Arguments!BrowserMessage
<1>9. CASE tool = "cast_search"
    BY <1>9 DEF Arguments!CastSearchRequest, Arguments!CastSearchMessage
<1>10. CASE tool = "cast_career_search"
    BY <1>10 DEF Arguments!CareerSearchRequest, Arguments!CareerSearchMessage
<1>11. CASE tool = "my_library_read"
    BY <1>11 DEF Arguments!PanelMyLibrary, Arguments!MyLibraryMessage
<1>12. CASE tool = "library_catalog_search"
    BY <1>12 DEF Arguments!PanelCatalog, Arguments!CatalogMessage
<1>13. CASE tool = "library_item_read"
    BY <1>13 DEF Arguments!PanelLibrary, Arguments!ItemMessage
<1>14. CASE tool = "library_catalog_browse"
    BY <1>14 DEF Arguments!PanelLibrary, Arguments!BrowseMessage
<1>15. CASE tool = "library_discovery_search"
    BY <1>15 DEF Arguments!PanelLibrary, Arguments!DiscoveryMessage
<1>16. CASE tool = "library_action_options"
    BY <1>16 DEF Arguments!PanelLibrary, Arguments!ActionOptionsMessage
<1>. QED
    BY <1>1, <1>2, <1>3, <1>4, <1>5, <1>6, <1>7, <1>8, <1>9, <1>10, <1>11, <1>12, <1>13, <1>14, <1>15, <1>16
    DEF Arguments!Tools

LEMMA CallBegins ==
    ASSUME Arguments!CallsInit
    PROVE  CallInv
<1>1. PICK tool \in Arguments!Tools : call \in Arguments!Calls(tool)
    BY DEF Arguments!CallsInit
<1>2. call = [tool |-> tool, args |-> call.args] /\ call.args \in ArgumentsOf(tool)
    BY <1>1, CallsTyped
<1>. QED BY <1>1, <1>2 DEF Arguments!CallsInit, CallInv, Arguments!NotLost, Arguments!LibraryCallsServed

LEMMA ServiceStep ==
    ASSUME CallInv, Arguments!ServiceChecks
    PROVE  CallInv'
<1>. DEFINE args == Arguments!Normalized(call.tool, call.args)
<1>1. args \in ArgumentsOf(call.tool)
    BY NormalizedTyped DEF CallInv, Arguments!ServiceChecks
<1>2. CASE Arguments!Accepts(Arguments!ServiceRules[call.tool], args)
    <2>1. call' = [tool |-> call.tool, args |-> args] /\ at' = "registry" /\ refusedBy' = "nobody"
        BY <1>2 DEF Arguments!ServiceChecks, Arguments!Passes, CallInv
    <2>. QED BY <1>1, <1>2, <2>1 DEF CallInv, Arguments!NotLost, Arguments!LibraryCallsServed
<1>3. CASE ~Arguments!Accepts(Arguments!ServiceRules[call.tool], args)
    BY <1>3 DEF Arguments!ServiceChecks, Arguments!Refuses, CallInv, Arguments!NotLost, Arguments!LibraryCallsServed
<1>. QED BY <1>2, <1>3

LEMMA RegistryStep ==
    ASSUME CallInv, Arguments!RegistryChecks
    PROVE  CallInv'
<1>1. at = "registry" /\ call.tool \in Arguments!Tools /\ call.args \in ArgumentsOf(call.tool) /\ refusedBy = "nobody"
    BY DEF CallInv, Arguments!RegistryChecks
<1>2. CASE Arguments!Accepts(Arguments!RegistryRules[call.tool], call.args) /\ Arguments!ScopeGiven(call.tool, call.args)
    <2>1. call' = call /\ at' = "panel" /\ refusedBy' = "nobody"
        BY <1>1, <1>2 DEF Arguments!RegistryChecks, Arguments!Passes, CallInv
    <2>. QED BY <1>1, <1>2, <2>1 DEF CallInv, Arguments!NotLost, Arguments!LibraryCallsServed
<1>3. CASE ~(Arguments!Accepts(Arguments!RegistryRules[call.tool], call.args) /\ Arguments!ScopeGiven(call.tool, call.args))
    <2>1. call.tool \notin Arguments!LibraryTools
        BY <1>1, <1>3, LibraryServed DEF CallInv
    <2>. QED BY <1>1, <1>3, <2>1 DEF Arguments!RegistryChecks, Arguments!Refuses, CallInv, Arguments!NotLost,
                                     Arguments!LibraryCallsServed
<1>. QED BY <1>2, <1>3

LEMMA PanelCheckStep ==
    ASSUME CallInv, Arguments!PanelChecks
    PROVE  CallInv'
<1>1. at = "panel" /\ call.tool \in Arguments!Tools /\ call.args \in ArgumentsOf(call.tool) /\ refusedBy = "nobody"
    BY DEF CallInv, Arguments!PanelChecks
<1>2. CASE Arguments!Accepts(Arguments!PanelRules[call.tool], call.args) /\ Arguments!ScopeGiven(call.tool, call.args)
    <2>1. /\ call' = [tool |-> call.tool, args |-> Arguments!Message(call.tool, call.args)]
          /\ at' = "worker" /\ refusedBy' = "nobody"
        BY <1>1, <1>2 DEF Arguments!PanelChecks, Arguments!Passes, CallInv
    <2>2. /\ Arguments!Accepts(Arguments!MessageRules[call.tool], Arguments!Message(call.tool, call.args))
          /\ Documented(Arguments!Message(call.tool, call.args))
        BY <1>1, <1>2, MessagesKnown DEF CallInv
    <2>. QED BY <1>1, <2>1, <2>2 DEF CallInv, Arguments!NotLost, Arguments!LibraryCallsServed
<1>3. CASE ~(Arguments!Accepts(Arguments!PanelRules[call.tool], call.args) /\ Arguments!ScopeGiven(call.tool, call.args))
    <2>1. call.tool \notin Arguments!LibraryTools
        BY <1>1, <1>3, LibraryServed DEF CallInv
    <2>. QED BY <1>1, <1>3, <2>1 DEF Arguments!PanelChecks, Arguments!Refuses, CallInv, Arguments!NotLost,
                                     Arguments!LibraryCallsServed
<1>. QED BY <1>2, <1>3

LEMMA WorkerStep ==
    ASSUME CallInv, Arguments!WorkerChecks
    PROVE  CallInv'
<1>1. call' = call /\ at' = "handler" /\ refusedBy' = "nobody"
    BY DEF CallInv, Arguments!WorkerChecks, Arguments!Passes
<1>. QED BY <1>1 DEF CallInv, Arguments!WorkerChecks, Arguments!NotLost, Arguments!LibraryCallsServed

LEMMA CallHolds == ConnectorsSpec => []CallInvariant
<1>1. ConnectorsInit => CallInvariant
    BY CallBegins DEF ConnectorsInit, ConnectorsStart, CallInvariant
<1>2. CallInvariant /\ [ConnectorsNext]_allVars => CallInvariant'
    <2>. SUFFICES ASSUME CallInvariant, [ConnectorsNext]_allVars, part' = "calls"
                  PROVE  CallInv'
        BY DEF CallInvariant
    <2>1. CASE part = "calls" /\ Arguments!CallsNext
        BY <2>1, ServiceStep, RegistryStep, PanelCheckStep, WorkerStep DEF CallInvariant, Arguments!CallsNext
    <2>2. CASE UNCHANGED <<part, callVars>>
        BY <2>2 DEF CallInvariant, callVars, CallInv, Arguments!NotLost, Arguments!LibraryCallsServed
    <2>. QED BY <2>1, <2>2 DEF ConnectorsNext, allVars
<1>. QED BY <1>1, <1>2, PTL DEF ConnectorsSpec

THEOREM CallsAgree == ConnectorsSpec => []ArgumentsAgree
<1>1. CallInvariant => ArgumentsAgree
    BY DEF CallInvariant, CallInv, ArgumentsAgree, Documented, Arguments!WithinBounds
<1>. QED BY <1>1, CallHolds, PTL

(***************************************************************************)
(* Free time, and the files that were read (GoogleConnectors)              *)
(***************************************************************************)

\* A set of natural numbers that holds zero, and with each number below n the
\* next one, holds all up to n: induction for a set, the form the provers can use.
LEMMA UpTo ==
    ASSUME NEW n \in Nat, NEW T, 0 \in T, \A i \in 0 .. n : i # 0 /\ i - 1 \in T => i \in T
    PROVE  \A i \in 0 .. n : i \in T
<1> DEFINE Out == {i \in 0 .. n : i \notin T}
<1> SUFFICES ASSUME Out # {} PROVE FALSE
    OBVIOUS
<1>1. IsWellFoundedOn(OpToRel(<, Nat), Nat)
    BY NatLessThanWellFounded
<1>2. PICK m \in Out : \A y \in Out : ~(<<y, m>> \in OpToRel(<, Nat))
    <2>1. Out \subseteq Nat
        OBVIOUS
    <2> HIDE DEF Out
    <2>. QED BY <1>1, <2>1, WFMin
<1>3. m # 0 /\ m - 1 \in 0 .. n
    OBVIOUS
<1>4. m - 1 \notin Out
    <2>1. <<m - 1, m>> \in OpToRel(<, Nat)
        BY <1>3 DEF OpToRel
    <2>. QED BY <1>2, <2>1
<1>5. m - 1 \in T
    BY <1>3, <1>4
<1>. QED BY <1>3, <1>5

\* What a loop computes: a function from how often it ran to where it stands.
Iterates(f, N, S, base, step) ==
    f \in [0..N -> S] /\ f[0] = base /\ \A n \in 1..N : f[n] = step[<<f[n - 1], n>>]

\* A loop that keeps its state in a set computes one.
LEMMA LoopRuns ==
    ASSUME NEW N \in Nat, NEW S, NEW base \in S, NEW step \in [S \X (1..N) -> S]
    PROVE  \E f : Iterates(f, N, S, base, step)
<1>. DEFINE T == {k \in 0..N : \E f : Iterates(f, k, S, base, step)}
<1>1. 0 \in T
    <2>. DEFINE f == [n \in 0..0 |-> base]
    <2>1. Iterates(f, 0, S, base, step)
        BY DEF Iterates
    <2>. QED BY <2>1
<1>2. ASSUME NEW k \in 0..N, k # 0, k - 1 \in T
      PROVE  k \in T
    <2>1. PICK f : Iterates(f, k - 1, S, base, step)
        BY <1>2
    <2>. DEFINE g == [n \in 0..k |-> IF n = k THEN step[<<f[k - 1], k>>] ELSE f[n]]
    <2>2. k \in 1..N /\ k - 1 \in Nat /\ f[k - 1] \in S
        BY <1>2, <2>1 DEF Iterates
    <2>3. step[<<f[k - 1], k>>] \in S
        BY <2>2
    <2>4. /\ g \in [0..k -> S] /\ g[0] = base /\ g[k] = step[<<f[k - 1], k>>]
          /\ \A n \in 0..(k - 1) : g[n] = f[n]
        BY <2>1, <2>2, <2>3 DEF Iterates
    <2>. HIDE DEF g
    <2>5. ASSUME NEW n \in 1..k
          PROVE  g[n] = step[<<g[n - 1], n>>]
        <3>1. n - 1 \in 0..(k - 1) /\ n - 1 >= 0
            BY <2>2
        <3>2. g[n - 1] = f[n - 1]
            BY <2>4, <3>1
        <3>3. CASE n = k
            BY <2>4, <3>2, <3>3
        <3>4. CASE n # k
            <4>1. n \in 1..(k - 1) /\ n \in 0..(k - 1)
                BY <3>4, <2>2
            <4>2. f[n] = step[<<f[n - 1], n>>]
                BY <4>1, <2>1 DEF Iterates
            <4>. QED BY <2>4, <3>2, <4>1, <4>2
        <3>. QED BY <3>3, <3>4
    <2>6. Iterates(g, k, S, base, step)
        BY <2>4, <2>5 DEF Iterates
    <2>. QED BY <2>6
<1>3. N \in T
    <2>. HIDE DEF T
    <2>1. \A k \in 0..N : k \in T
        BY <1>1, <1>2, UpTo
    <2>. QED BY <2>1
<1>. QED BY <1>3

Times == {i \in [start : Int, end : Int] : Opens <= i.start /\ i.start < i.end /\ i.end <= Closes}
SortedBy(s, S, k) ==
    /\ s \in [1..k -> S]
    /\ \A i \in S : \E n \in 1..k : s[n] = i
    /\ \A m, n \in 1..k : m < n => s[m].start <= s[n].start

\* One of the intervals begins last.
LEMMA LastOf ==
    ASSUME NEW S \in SUBSET Times, S # {}
    PROVE  \E i \in S : \A j \in S : j.start <= i.start
<1>. DEFINE T == {Closes - i.start : i \in S}
<1>1. \A i \in S : i.start \in Int /\ Closes - i.start \in Nat
    BY CalendarAssumption DEF Times
<1>2. T \in SUBSET Nat /\ T # {}
    BY <1>1
<1>3. IsWellFoundedOn(OpToRel(<, Nat), Nat)
    BY NatLessThanWellFounded
<1>4. PICK m \in T : \A y \in T : ~(<<y, m>> \in OpToRel(<, Nat))
    <2>. HIDE DEF T
    <2>. QED BY <1>2, <1>3, WFMin
<1>5. PICK i \in S : m = Closes - i.start
    OBVIOUS
<1>6. ASSUME NEW j \in S
      PROVE  j.start <= i.start
    <2>1. Closes - j.start \in T
        OBVIOUS
    <2>. HIDE DEF T
    <2>2. ~(Closes - j.start < m)
        BY <1>2, <1>4, <2>1 DEF OpToRel
    <2>. QED BY <1>1, <1>5, <2>2, CalendarAssumption
<1>. QED BY <1>5, <1>6

\* Finitely many intervals can be put in order.
LEMMA IntervalsSorted ==
    ASSUME NEW S \in SUBSET Times, IsFiniteSet(S)
    PROVE  \E s : SortedBy(s, S, Cardinality(S))
<1>. DEFINE N == Cardinality(S)
            T == {k \in 0..N : \A R \in SUBSET S : Cardinality(R) = k => \E s : SortedBy(s, R, k)}
<1>1. N \in Nat /\ \A R \in SUBSET S : IsFiniteSet(R)
    BY FS_CardinalityType, FS_Subset
<1>. HIDE DEF N
<1>2. 0 \in T
    <2>. SUFFICES ASSUME NEW R \in SUBSET S, Cardinality(R) = 0
                  PROVE  \E s : SortedBy(s, R, 0)
        BY <1>1
    <2>1. R = {}
        BY <1>1, FS_EmptySet
    <2>. DEFINE s == [n \in 1..0 |-> n]
    <2>2. SortedBy(s, R, 0)
        BY <2>1 DEF SortedBy
    <2>. QED BY <2>2
<1>3. ASSUME NEW k \in 0..N, k # 0, k - 1 \in T
      PROVE  k \in T
    <2>. SUFFICES ASSUME NEW R \in SUBSET S, Cardinality(R) = k
                  PROVE  \E s : SortedBy(s, R, k)
        OBVIOUS
    <2>1. IsFiniteSet(R) /\ R # {}
        BY <1>1, <1>3, FS_EmptySet
    <2>2. PICK i \in R : \A j \in R : j.start <= i.start
        BY <2>1, LastOf
    <2>3. Cardinality(R \ {i}) = k - 1 /\ R \ {i} \in SUBSET S
        BY <2>1, FS_RemoveElement
    <2>4. PICK r : SortedBy(r, R \ {i}, k - 1)
        BY <1>3, <2>3
    <2>. DEFINE s == [n \in 1..k |-> IF n = k THEN i ELSE r[n]]
    <2>5. k \in Nat /\ k >= 1 /\ 1..k = 1..(k - 1) \cup {k} /\ k \notin 1..(k - 1)
        BY <1>1, <1>3
    <2>6. /\ s \in [1..k -> R] /\ s[k] = i
          /\ \A n \in 1..(k - 1) : s[n] = r[n] /\ r[n] \in R
        BY <2>4, <2>5 DEF SortedBy
    <2>. HIDE DEF s
    <2>7. ASSUME NEW j \in R
          PROVE  \E n \in 1..k : s[n] = j
        BY <2>4, <2>5, <2>6 DEF SortedBy
    <2>8. ASSUME NEW m \in 1..k, NEW n \in 1..k, m < n
          PROVE  s[m].start <= s[n].start
        <3>1. m \in 1..(k - 1)
            BY <2>5, <2>8
        <3>2. CASE n = k
            BY <2>2, <2>6, <3>1, <3>2
        <3>3. CASE n # k
            <4>1. n \in 1..(k - 1)
                BY <2>5, <3>3
            <4>. QED BY <2>4, <2>6, <2>8, <3>1, <4>1 DEF SortedBy
        <3>. QED BY <3>2, <3>3
    <2>9. SortedBy(s, R, k)
        BY <2>6, <2>7, <2>8 DEF SortedBy
    <2>. QED BY <2>9
<1>4. N \in T
    <2>. HIDE DEF T
    <2>1. \A k \in 0..N : k \in T
        BY <1>1, <1>2, <1>3, UpTo
    <2>. QED BY <1>1, <2>1
<1>. QED BY <1>4 DEF N

\* The instance counts as everyone does.
LEMMA CardinalityIs == \A S : Google!Cardinality(S) = Cardinality(S)
BY DEF Google!Cardinality, Cardinality

\* What mergeIntervals sorts is sorted.
LEMMA ByStartSorts ==
    ASSUME NEW S \in SUBSET Times, IsFiniteSet(S)
    PROVE  SortedBy(Google!ByStart(S), S, Cardinality(S))
<1>1. PICK s : SortedBy(s, S, Cardinality(S))
    BY IntervalsSorted
<1>. DEFINE By(r) == /\ \A i \in S : \E n \in DOMAIN r : r[n] = i
                     /\ \A m, n \in DOMAIN r : m < n => r[m].start <= r[n].start
            D == [1..Cardinality(S) -> S]
<1>2. s \in D /\ By(s)
    BY <1>1 DEF SortedBy
<1>3. Google!ByStart(S) = CHOOSE r \in D : By(r)
    BY CardinalityIs, Zenon DEF Google!ByStart
<1>4. Google!ByStart(S) \in D /\ By(Google!ByStart(S))
    <2>. HIDE DEF By, D
    <2>. QED BY <1>2, <1>3
<1>5. DOMAIN Google!ByStart(S) = 1..Cardinality(S)
    BY <1>4
<1>. QED BY <1>4, <1>5 DEF SortedBy

Separated(m) == \A j, k \in DOMAIN m : j < k => m[j].end < m[k].start
Within(i, t) == i.start <= t /\ t < i.end
Spans(m, t) == \E j \in DOMAIN m : Within(m[j], t)

\* One more interval keeps the list one of intervals within the window.
LEMMA ExtendedTyped ==
    ASSUME NEW m \in Seq(Times), NEW i \in Times
    PROVE  /\ Google!Extended(m, i) \in Seq(Times)
           /\ Google!Extended(m, i) # <<>>
<1>. DEFINE l == Len(m)
<1>1. l \in Nat /\ DOMAIN m = 1..l /\ (m # <<>> => l \in 1..l /\ m[l] \in Times)
    OBVIOUS
<1>2. m # <<>> => Google!Last(m) = m[l]
    BY DEF Google!Last
<1>3. CASE m = <<>> \/ i.start > m[l].end
    BY <1>2, <1>3 DEF Google!Extended
<1>4. CASE m # <<>> /\ ~(i.start > m[l].end) /\ i.end > m[l].end
    <2>. DEFINE last == [m[l] EXCEPT !.end = i.end]
    <2>1. Google!Extended(m, i) = [m EXCEPT ![l] = last]
        BY <1>2, <1>4 DEF Google!Extended
    <2>2. last \in Times
        BY <1>1, <1>4, CalendarAssumption DEF Times
    <2>. HIDE DEF last
    <2>. QED BY <1>1, <1>4, <2>1, <2>2
<1>5. CASE m # <<>> /\ ~(i.start > m[l].end) /\ ~(i.end > m[l].end)
    BY <1>2, <1>5 DEF Google!Extended
<1>. QED BY <1>3, <1>4, <1>5

\* An interval that begins no earlier than the last one.
LEMMA ExtendedCovers ==
    ASSUME NEW m \in Seq(Times), Separated(m), NEW i \in Times, m # <<>> => m[Len(m)].start <= i.start
    PROVE  LET e == Google!Extended(m, i)
           IN /\ Separated(e)
              /\ e[Len(e)].start <= i.start
              /\ \A t \in Int : Spans(e, t) <=> Spans(m, t) \/ Within(i, t)
<1>. DEFINE l == Len(m)
            e == Google!Extended(m, i)
<1>1. l \in Nat /\ DOMAIN m = 1..l /\ (m # <<>> => l \in 1..l) /\ (m = <<>> => l = 0)
    OBVIOUS
<1>2. m # <<>> => Google!Last(m) = m[l]
    BY DEF Google!Last
<1>3. \A j \in 1..l : m[j].start \in Int /\ m[j].end \in Int /\ m[j].start < m[j].end
    <2>1. \A j \in 1..l : m[j] \in Times
        BY <1>1
    <2>. HIDE DEF l
    <2>. QED BY <2>1 DEF Times
<1>4. i.start \in Int /\ i.end \in Int /\ i.start < i.end
    BY DEF Times
<1>5. /\ m # <<>> => m[l].start <= i.start
      /\ \A j, k \in 1..l : j < k => m[j].end < m[k].start
    BY <1>1 DEF Separated
<1>6. CASE m = <<>> \/ i.start > m[l].end
    <2>1. e = Append(m, i)
        BY <1>2, <1>6 DEF Google!Extended
    <2>2. Len(e) = l + 1 /\ DOMAIN e = 1..(l + 1) /\ e[l + 1] = i /\ \A j \in 1..l : e[j] = m[j]
        BY <1>1, <2>1
    <2>. HIDE DEF l, e
    <2>3. ASSUME NEW j \in 1..l
          PROVE  m[j].end < i.start
        <3>1. m # <<>> /\ l \in 1..l /\ (j = l \/ j < l)
            BY <1>1
        <3>. QED BY <1>3, <1>4, <1>5, <1>6, <3>1
    <2>4. Separated(e)
        <3>. SUFFICES ASSUME NEW j \in 1..(l + 1), NEW k \in 1..(l + 1), j < k
                      PROVE  e[j].end < e[k].start
            BY <2>2 DEF Separated
        <3>1. j \in 1..l /\ (k \in 1..l \/ k = l + 1)
            BY <1>1
        <3>. QED BY <1>5, <2>2, <2>3, <3>1
    <2>5. \A t \in Int : Spans(e, t) <=> Spans(m, t) \/ Within(i, t)
        <3>1. 1..(l + 1) = 1..l \cup {l + 1}
            BY <1>1
        <3>. QED BY <1>1, <2>2, <3>1 DEF Spans
    <2>. QED BY <1>4, <2>2, <2>4, <2>5 DEF e
<1>7. CASE m # <<>> /\ ~(i.start > m[l].end) /\ i.end > m[l].end
    <2>. DEFINE last == [m[l] EXCEPT !.end = i.end]
    <2>1. e = [m EXCEPT ![l] = last]
        BY <1>2, <1>7 DEF Google!Extended
    <2>2. last.start = m[l].start /\ last.end = i.end
        <3>1. m[l] \in Times
            BY <1>1, <1>7
        <3>. HIDE DEF l
        <3>. QED BY <3>1 DEF Times
    <2>. HIDE DEF last
    <2>3. Len(e) = l /\ DOMAIN e = 1..l /\ e[l] = last /\ \A j \in 1..l : j # l => e[j] = m[j]
        BY <1>1, <1>7, <2>1
    <2>. HIDE DEF l, e
    <2>4. Separated(e)
        <3>. SUFFICES ASSUME NEW j \in 1..l, NEW k \in 1..l, j < k
                      PROVE  e[j].end < e[k].start
            BY <2>3 DEF Separated
        <3>1. j # l /\ m[j].end < m[k].start /\ e[k].start = m[k].start
            BY <1>1, <1>5, <2>2, <2>3
        <3>. QED BY <2>3, <3>1
    <2>5. \A t \in Int : Within(last, t) <=> Within(m[l], t) \/ Within(i, t)
        BY <1>1, <1>3, <1>4, <1>5, <1>7, <2>2 DEF Within
    <2>6. \A t \in Int : Spans(e, t) <=> Spans(m, t) \/ Within(i, t)
        <3>. SUFFICES ASSUME NEW t \in Int
                      PROVE  (\E j \in 1..l : Within(e[j], t)) <=> (\E j \in 1..l : Within(m[j], t)) \/ Within(i, t)
            BY <1>1, <2>3 DEF Spans
        <3>1. l \in 1..l /\ (Within(e[l], t) <=> Within(m[l], t) \/ Within(i, t))
            BY <1>1, <1>7, <2>3, <2>5
        <3>2. \A j \in 1..l : j # l => (Within(e[j], t) <=> Within(m[j], t))
            BY <2>3
        <3>. QED BY <3>1, <3>2
    <2>. QED BY <1>5, <1>7, <2>2, <2>3, <2>4, <2>6 DEF e
<1>8. CASE m # <<>> /\ ~(i.start > m[l].end) /\ ~(i.end > m[l].end)
    <2>1. e = m
        BY <1>2, <1>8 DEF Google!Extended
    <2>2. ASSUME NEW t \in Int, Within(i, t)
          PROVE  Spans(m, t)
        <3>1. l \in 1..l
            BY <1>1, <1>8
        <3>. HIDE DEF l
        <3>. QED BY <1>1, <1>3, <1>4, <1>5, <1>8, <2>2, <3>1 DEF Spans, Within
    <2>. QED BY <1>8, <2>1, <2>2
<1>. QED BY <1>6, <1>7, <1>8

IsMerged(f, S, N) ==
    f = [n \in 0..N |-> IF n = 0 THEN <<>> ELSE Google!Extended(f[n - 1], Google!ByStart(S)[n])]

\* The merged intervals are apart, and take the time that the intervals took.
LEMMA MergedCovers ==
    ASSUME NEW S \in SUBSET Times, IsFiniteSet(S)
    PROVE  LET m == Google!MergeIntervals(S)
           IN /\ m \in Seq(Times) /\ Separated(m)
              /\ \A t \in Int : Spans(m, t) <=> \E i \in S : Within(i, t)
<1>. DEFINE N == Cardinality(S)
            s == Google!ByStart(S)
            step == [p \in Seq(Times) \X (1..N) |-> Google!Extended(p[1], s[p[2]])]
<1>1. N \in Nat /\ SortedBy(s, S, N)
    BY ByStartSorts, FS_CardinalityType
<1>2. \A n \in 1..N : s[n] \in S /\ s[n] \in Times
    BY <1>1 DEF SortedBy
<1>3. step \in [Seq(Times) \X (1..N) -> Seq(Times)]
    <2>1. ASSUME NEW p \in Seq(Times) \X (1..N)
          PROVE  Google!Extended(p[1], s[p[2]]) \in Seq(Times)
        BY <1>2, ExtendedTyped
    <2>. QED BY <2>1
<1>4. \E f : Iterates(f, N, Seq(Times), <<>>, step)
    <2>. HIDE DEF N, step
    <2>1. <<>> \in Seq(Times)
        OBVIOUS
    <2>. QED BY <1>1, <1>3, <2>1, LoopRuns
<1>5. PICK g : Iterates(g, N, Seq(Times), <<>>, step)
    BY <1>4
<1>6. IsMerged(g, S, N)
    <2>1. ASSUME NEW n \in 0..N
          PROVE  g[n] = IF n = 0 THEN <<>> ELSE Google!Extended(g[n - 1], s[n])
        <3>1. CASE n = 0
            BY <1>5, <3>1 DEF Iterates
        <3>2. CASE n # 0
            <4>1. n \in 1..N /\ n - 1 \in 0..N
                BY <1>1, <3>2
            <4>2. g[n] = step[<<g[n - 1], n>>] /\ g[n - 1] \in Seq(Times)
                BY <1>5, <4>1 DEF Iterates
            <4>. QED BY <3>2, <4>1, <4>2
        <3>. QED BY <3>1, <3>2
    <2>2. g = [n \in 0..N |-> g[n]]
        BY <1>5 DEF Iterates
    <2>. QED BY <2>1, <2>2 DEF IsMerged
<1>7. PICK f : IsMerged(f, S, N) /\ Google!MergeIntervals(S) = f[N]
    <2>1. Google!MergeIntervals(S) = (CHOOSE f : IsMerged(f, S, N))[N]
        BY CardinalityIs, Zenon DEF Google!MergeIntervals, IsMerged
    <2>. QED BY <1>6, <2>1
<1>8. f[0] = <<>> /\ \A n \in 1..N : f[n] = Google!Extended(f[n - 1], s[n])
    BY <1>1, <1>7 DEF IsMerged
<1>. HIDE DEF s, N
<1>. DEFINE
        Begins(n) == IF n = 0 THEN f[n] = <<>> ELSE f[n] # <<>> /\ f[n][Len(f[n])].start <= s[n].start
        Holds(n) == \A t \in Int : Spans(f[n], t) <=> \E k \in 1..n : Within(s[k], t)
        T == {n \in 0..N : f[n] \in Seq(Times) /\ Separated(f[n]) /\ Begins(n) /\ Holds(n)}
<1>9. 0 \in T
    <2>1. f[0] \in Seq(Times) /\ DOMAIN f[0] = {} /\ Begins(0) /\ 0 \in 0..N
        BY <1>1, <1>8
    <2>2. Separated(f[0])
        BY <2>1 DEF Separated
    <2>3. Holds(0)
        BY <2>1 DEF Spans
    <2>. HIDE DEF Begins, Holds
    <2>. QED BY <2>1, <2>2, <2>3
<1>10. ASSUME NEW n \in 0..N, n # 0, n - 1 \in T
       PROVE  n \in T
    <2>. DEFINE m == f[n - 1]
    <2>1. n \in 1..N /\ n - 1 \in Nat /\ s[n] \in Times /\ n - 1 \in 0..N
        BY <1>1, <1>2, <1>10
    <2>2. m \in Seq(Times) /\ Separated(m) /\ Begins(n - 1) /\ Holds(n - 1)
        <3>. HIDE DEF Begins, Holds
        <3>. QED BY <1>10
    <2>. HIDE DEF T
    <2>3. m # <<>> => m[Len(m)].start <= s[n].start
        <3>. SUFFICES ASSUME m # <<>>
                      PROVE  m[Len(m)].start <= s[n].start
            OBVIOUS
        <3>1. n - 1 \in 1..N /\ m[Len(m)].start <= s[n - 1].start
            BY <2>1, <2>2
        <3>2. s[n - 1].start <= s[n].start
            BY <1>1, <2>1, <3>1 DEF SortedBy
        <3>3. s[n - 1].start \in Int /\ s[n].start \in Int
            BY <1>2, <2>1, <3>1 DEF Times
        <3>4. m[Len(m)].start \in Int
            <4>. HIDE DEF m
            <4>1. m[Len(m)] \in Times
                BY <2>2
            <4>. QED BY <4>1 DEF Times
        <3>. QED BY <3>1, <3>2, <3>3, <3>4
    <2>4. f[n] = Google!Extended(m, s[n])
        BY <1>8, <2>1
    <2>5. /\ Separated(f[n]) /\ f[n][Len(f[n])].start <= s[n].start
          /\ \A t \in Int : Spans(f[n], t) <=> Spans(m, t) \/ Within(s[n], t)
        <3>. HIDE DEF m, Begins, Holds
        <3>. QED BY <2>1, <2>2, <2>3, <2>4, ExtendedCovers
    <2>6. f[n] \in Seq(Times) /\ f[n] # <<>>
        <3>. HIDE DEF m
        <3>. QED BY <2>1, <2>2, <2>4, ExtendedTyped
    <2>7. Begins(n)
        BY <1>10, <2>5, <2>6
    <2>8. Holds(n)
        <3>1. 1..n = 1..(n - 1) \cup {n}
            BY <2>1
        <3>. QED BY <2>2, <2>5, <3>1
    <2>. HIDE DEF Begins, Holds
    <2>. QED BY <2>1, <2>5, <2>6, <2>7, <2>8 DEF T
<1>11. f[N] \in Seq(Times) /\ Separated(f[N]) /\ Holds(N)
    <2>1. \A n \in 0..N : n \in T
        <3>. HIDE DEF T
        <3>. QED BY <1>1, <1>9, <1>10, UpTo
    <2>. HIDE DEF Begins, Holds
    <2>. QED BY <1>1, <2>1
<1>. QED
    <2>1. \A t \in Int : (\E k \in 1..N : Within(s[k], t)) <=> \E i \in S : Within(i, t)
        BY <1>1 DEF SortedBy
    <2>. QED BY <1>7, <1>11, <2>1

\* The minutes of a set of intervals.
Minutes(F) == UNION {i.start..(i.end - 1) : i \in F}
Apart(F) == \A i, j \in F : i # j => i.end < j.start \/ j.end < i.start
\* What the sweep has found before s.at: the minutes there that are not in B.
Swept(s, B) ==
    /\ s \in [free : SUBSET [start : Int, end : Int], available : Int, at : Int]
    /\ Opens <= s.at /\ \A t \in B : t < s.at
    /\ Minutes(s.free) = {t \in Int : Opens <= t /\ t < s.at /\ t \notin B}
    /\ IsFiniteSet(Minutes(s.free)) /\ Cardinality(Minutes(s.free)) = s.available
    /\ Apart(s.free)

\* How many minutes there are from a up to b, and in two sets that are disjoint.
LEMMA IntervalSize ==
    ASSUME NEW a \in Int, NEW b \in Int, a <= b
    PROVE  IsFiniteSet(a..(b - 1)) /\ Cardinality(a..(b - 1)) = b - a
<1>. DEFINE c == b - 1
<1>1. c \in Int
    OBVIOUS
<1>2. IsFiniteSet(a..c) /\ Cardinality(a..c) = IF a > c THEN 0 ELSE c - a + 1
    <2>. HIDE DEF c
    <2>. QED BY <1>1, FS_Interval
<1>. QED BY <1>2

LEMMA DisjointUnion ==
    ASSUME NEW S, NEW T, IsFiniteSet(S), IsFiniteSet(T), S \cap T = {}
    PROVE  IsFiniteSet(S \cup T) /\ Cardinality(S \cup T) = Cardinality(S) + Cardinality(T)
<1>1. Cardinality(S \cup T) = Cardinality(S) + Cardinality(T) - Cardinality({}) /\ IsFiniteSet(S \cup T)
    BY FS_Union
<1>2. Cardinality({}) = 0 /\ Cardinality(S) \in Nat /\ Cardinality(T) \in Nat
    BY FS_EmptySet, FS_CardinalityType
<1>. QED BY <1>1, <1>2

\* The gap before an interval is added to what the sweep has found.
LEMMA GapFound ==
    ASSUME NEW B \in SUBSET Int, NEW s, Swept(s, B), \A j \in s.free : j.end < s.at,
           NEW i \in [start : Int, end : Int], s.at <= i.start, i.start <= i.end
    PROVE  LET r == Google!GapBefore(s, i)
           IN /\ Swept(r, B \cup {t \in Int : Within(i, t)})
              /\ r.at = i.end
              /\ \A j \in r.free : j.end <= i.start
<1>. DEFINE gap == [start |-> s.at, end |-> i.start]
            r == Google!GapBefore(s, i)
            D == B \cup {t \in Int : Within(i, t)}
<1>1. s.at \in Int /\ i.start \in Int /\ i.end \in Int /\ s.available \in Int /\ Opens \in Int /\ Closes \in Int
    BY CalendarAssumption DEF Swept
<1>2. /\ s.free \in SUBSET [start : Int, end : Int]
      /\ s \in [free : SUBSET [start : Int, end : Int], available : Int, at : Int]
    BY DEF Swept
<1>3. Google!Latest(s.at, i.end) = i.end
    BY <1>1 DEF Google!Latest
<1>4. \A t \in D : t < i.end
    BY <1>1 DEF Swept, Within
<1>5. CASE s.at < i.start
    <2>1. /\ r = [free |-> s.free \cup {gap}, available |-> s.available + (i.start - s.at), at |-> i.end]
          /\ gap.start = s.at /\ gap.end = i.start /\ gap \in [start : Int, end : Int]
        BY <1>1, <1>3, <1>5 DEF Google!GapBefore, Google!MinutesBetween
    <2>. HIDE DEF gap, D
    <2>2. r.free = s.free \cup {gap} /\ r.available = s.available + (i.start - s.at) /\ r.at = i.end
        BY <2>1
    <2>3. r \in [free : SUBSET [start : Int, end : Int], available : Int, at : Int] /\ Opens <= r.at
        <3>1. s.free \cup {gap} \in SUBSET [start : Int, end : Int] /\ s.available + (i.start - s.at) \in Int
            BY <1>1, <1>2, <2>1
        <3>2. Opens <= i.end
            BY <1>1 DEF Swept
        <3>. HIDE DEF r
        <3>. QED BY <1>1, <2>1, <2>2, <3>1, <3>2
    <2>. HIDE DEF r
    <2>4. Minutes(r.free) = Minutes(s.free) \cup (s.at..(i.start - 1))
        BY <2>1, <2>2 DEF Minutes
    <2>5. Minutes(s.free) \cap (s.at..(i.start - 1)) = {}
        BY <1>1 DEF Swept
    <2>6. IsFiniteSet(s.at..(i.start - 1)) /\ Cardinality(s.at..(i.start - 1)) = i.start - s.at
        BY <1>1, <1>5, IntervalSize
    <2>7. IsFiniteSet(Minutes(r.free)) /\ Cardinality(Minutes(r.free)) = r.available
        <3>1. IsFiniteSet(Minutes(s.free)) /\ Cardinality(Minutes(s.free)) = s.available
            BY DEF Swept
        <3>2. /\ IsFiniteSet(Minutes(r.free))
              /\ Cardinality(Minutes(r.free)) = Cardinality(Minutes(s.free)) + Cardinality(s.at..(i.start - 1))
            BY <2>4, <2>5, <2>6, <3>1, DisjointUnion
        <3>. QED BY <1>1, <2>2, <2>6, <3>1, <3>2
    <2>8. Minutes(r.free) = {t \in Int : Opens <= t /\ t < i.end /\ t \notin D}
        <3>1. /\ Minutes(s.free) = {t \in Int : Opens <= t /\ t < s.at /\ t \notin B} /\ Opens <= s.at
              /\ \A t \in B : t < s.at
            BY DEF Swept
        <3>. QED BY <1>1, <1>5, <2>4, <3>1 DEF D, Within
    <2>9. Apart(r.free)
        BY <1>1, <1>2, <2>1, <2>2 DEF Apart, Swept
    <2>10. \A j \in r.free : j.end <= i.start
        BY <1>1, <1>2, <1>5, <2>1, <2>2
    <2>. QED BY <1>4, <2>2, <2>3, <2>7, <2>8, <2>9, <2>10 DEF Swept, r, D
<1>6. CASE ~(s.at < i.start)
    <2>1. r = [s EXCEPT !.at = i.end]
        BY <1>3, <1>6 DEF Google!GapBefore
    <2>. HIDE DEF D
    <2>2. r.free = s.free /\ r.available = s.available /\ r.at = i.end
        BY <1>2, <2>1
    <2>. HIDE DEF r
    <2>3. Minutes(r.free) = {t \in Int : Opens <= t /\ t < i.end /\ t \notin D}
        <3>1. /\ Minutes(s.free) = {t \in Int : Opens <= t /\ t < s.at /\ t \notin B} /\ Opens <= s.at
              /\ \A t \in B : t < s.at
            BY DEF Swept
        <3>. QED BY <1>1, <1>6, <2>2, <3>1 DEF D, Within
    <2>4. r \in [free : SUBSET [start : Int, end : Int], available : Int, at : Int] /\ Opens <= r.at
        BY <1>1, <1>2, <2>1, <2>2 DEF Swept
    <2>5. \A j \in r.free : j.end <= i.start
        BY <1>1, <1>2, <2>2
    <2>. QED BY <1>4, <2>2, <2>3, <2>4, <2>5 DEF Swept, r, D
<1>. QED BY <1>5, <1>6

IsSweep(f, m) ==
    f = [n \in 0..Len(m) |-> IF n = 0 THEN [free |-> {}, available |-> 0, at |-> Opens]
                             ELSE Google!GapBefore(f[n - 1], m[n])]

\* The gaps between intervals that are apart are the time they leave of the window.
LEMMA GapsFill ==
    ASSUME NEW m \in Seq(Times), Separated(m)
    PROVE  LET g == Google!Gaps(m)
           IN /\ Minutes(g.free) = {t \in Opens..(Closes - 1) : ~Spans(m, t)}
              /\ IsFiniteSet(Minutes(g.free)) /\ Cardinality(Minutes(g.free)) = g.available
              /\ Apart(g.free)
<1>. DEFINE L == Len(m)
            State == [free : SUBSET [start : Int, end : Int], available : Int, at : Int]
            first == [free |-> {}, available |-> 0, at |-> Opens]
            step == [p \in State \X (1..L) |-> Google!GapBefore(p[1], m[p[2]])]
<1>1. L \in Nat /\ DOMAIN m = 1..L /\ Opens \in Int /\ Closes \in Int /\ Opens <= Closes
    BY CalendarAssumption
<1>2. \A n \in 1..L : /\ m[n] \in Times /\ m[n] \in [start : Int, end : Int]
                       /\ Opens <= m[n].start /\ m[n].start < m[n].end /\ m[n].end <= Closes
    <2>1. \A n \in 1..L : m[n] \in Times
        BY <1>1
    <2>. HIDE DEF L
    <2>. QED BY <2>1 DEF Times
<1>3. step \in [State \X (1..L) -> State] /\ first \in State
    <2>1. ASSUME NEW r \in State, NEW i \in [start : Int, end : Int]
          PROVE  Google!GapBefore(r, i) \in State
        <3>1. Google!Latest(r.at, i.end) \in Int /\ [start |-> r.at, end |-> i.start] \in [start : Int, end : Int]
            BY DEF Google!Latest
        <3>2. CASE r.at < i.start
            BY <3>1, <3>2 DEF Google!GapBefore, Google!MinutesBetween
        <3>3. CASE ~(r.at < i.start)
            BY <3>1, <3>3 DEF Google!GapBefore
        <3>. QED BY <3>2, <3>3
    <2>2. \A p \in State \X (1..L) : Google!GapBefore(p[1], m[p[2]]) \in State
        <3>. HIDE DEF State, L
        <3>. QED BY <1>2, <2>1
    <2>. QED BY <1>1, <2>2
<1>. HIDE DEF first
<1>4. PICK g : Iterates(g, L, State, first, step)
    <2>. HIDE DEF L, step, State
    <2>. QED BY <1>1, <1>3, LoopRuns
<1>5. IsSweep(g, m)
    <2>1. ASSUME NEW n \in 0..L
          PROVE  g[n] = IF n = 0 THEN first ELSE Google!GapBefore(g[n - 1], m[n])
        <3>1. CASE n = 0
            BY <1>4, <3>1 DEF Iterates
        <3>2. CASE n # 0
            <4>1. n \in 1..L /\ n - 1 \in 0..L
                BY <1>1, <3>2
            <4>2. g[n] = step[<<g[n - 1], n>>] /\ g[n - 1] \in State
                BY <1>4, <4>1 DEF Iterates
            <4>. QED BY <3>2, <4>1, <4>2
        <3>. QED BY <3>1, <3>2
    <2>2. g = [n \in 0..L |-> g[n]]
        BY <1>4 DEF Iterates
    <2>. QED BY <2>1, <2>2 DEF IsSweep, first
<1>6. PICK f : IsSweep(f, m) /\ Google!Gaps(m) = Google!GapBefore(f[L], [start |-> Closes, end |-> Closes])
    <2>1. Google!Gaps(m) = Google!GapBefore((CHOOSE f : IsSweep(f, m))[L], [start |-> Closes, end |-> Closes])
        BY Zenon DEF Google!Gaps, IsSweep
    <2>. QED BY <1>5, <2>1
<1>7. f[0] = first /\ \A n \in 1..L : f[n] = Google!GapBefore(f[n - 1], m[n])
    <2>1. f = [n \in 0..L |-> IF n = 0 THEN first ELSE Google!GapBefore(f[n - 1], m[n])]
        BY <1>6 DEF IsSweep, first
    <2>. HIDE DEF L
    <2>2. \A n \in 0..L : f[n] = IF n = 0 THEN first ELSE Google!GapBefore(f[n - 1], m[n])
        BY <2>1, Zenon
    <2>. QED BY <1>1, <2>2
<1>. DEFINE
        Before(n) == {t \in Int : \E k \in 1..n : Within(m[k], t)}
        Place(n) == IF n = 0 THEN f[n].at = Opens ELSE f[n].at = m[n].end
        Done(n) == \A j \in f[n].free : j.end < f[n].at
        T == {n \in 0..L : Swept(f[n], Before(n)) /\ Place(n) /\ Done(n)}
<1>8. 0 \in T
    <2>. USE <1>1
    <2>1. f[0].free = {} /\ f[0].available = 0 /\ f[0].at = Opens /\ f[0] \in State /\ 0 \in 0..L
        BY <1>3, <1>7 DEF first
    <2>2. Before(0) = {}
        OBVIOUS
    <2>3. Minutes(f[0].free) = {} /\ IsFiniteSet({}) /\ Cardinality({}) = 0
        BY <2>1, FS_EmptySet DEF Minutes
    <2>4. Swept(f[0], Before(0))
        <3>. DEFINE r == f[0]
        <3>1. \A t \in Int : ~(Opens <= t /\ t < r.at)
            BY <2>1
        <3>2. Opens <= r.at /\ r \in State /\ Apart(r.free)
            BY <2>1 DEF Apart
        <3>. HIDE DEF Before, r
        <3>3. Minutes(r.free) = {t \in Int : Opens <= t /\ t < r.at /\ t \notin Before(0)}
            BY <2>3, <3>1 DEF r
        <3>4. \A t \in Before(0) : t < r.at
            BY <2>2
        <3>5. IsFiniteSet(Minutes(r.free)) /\ Cardinality(Minutes(r.free)) = r.available
            BY <2>1, <2>3 DEF r
        <3>. QED BY <3>2, <3>3, <3>4, <3>5 DEF Swept, r
    <2>5. Place(0) /\ Done(0)
        BY <2>1
    <2>. HIDE DEF Before, Place, Done
    <2>. QED BY <2>1, <2>4, <2>5
<1>9. ASSUME NEW n \in 0..L, n # 0, n - 1 \in T
      PROVE  n \in T
    <2>1. Swept(f[n - 1], Before(n - 1)) /\ Place(n - 1) /\ Done(n - 1) /\ n \in 1..L /\ n - 1 \in Nat
        <3>. HIDE DEF Before, Place, Done
        <3>. QED BY <1>1, <1>9
    <2>. HIDE DEF T
    <2>2. f[n - 1].at <= m[n].start
        <3>1. CASE n = 1
            BY <1>2, <2>1, <3>1
        <3>2. CASE n # 1
            <4>1. n - 1 \in 1..L /\ n - 1 < n
                BY <1>1, <2>1, <3>2
            <4>2. m[n - 1].end < m[n].start
                BY <1>1, <2>1, <4>1 DEF Separated
            <4>3. m[n - 1].end \in Int /\ m[n].start \in Int
                <5>. HIDE DEF L
                <5>. QED BY <1>2, <2>1, <4>1
            <4>4. f[n - 1].at = m[n - 1].end
                BY <2>1, <4>1
            <4>. HIDE DEF Place, Done, Before, L
            <4>. QED BY <4>2, <4>3, <4>4
        <3>. QED BY <3>1, <3>2
    <2>3. Before(n) = Before(n - 1) \cup {t \in Int : Within(m[n], t)}
        <3>1. 1..n = 1..(n - 1) \cup {n}
            BY <2>1
        <3>. QED BY <3>1
    <2>4. f[n] = Google!GapBefore(f[n - 1], m[n]) /\ m[n] \in [start : Int, end : Int] /\ m[n].start < m[n].end
        BY <1>2, <1>7, <2>1
    <2>5. m[n].start <= m[n].end /\ Before(n - 1) \in SUBSET Int
        BY <1>2, <2>1
    <2>6. /\ Swept(f[n], Before(n)) /\ f[n].at = m[n].end
          /\ \A j \in f[n].free : j.end <= m[n].start
        <3>. DEFINE r == f[n - 1]
                    i == m[n]
                    B == Before(n - 1)
        <3>1. Swept(r, B) /\ (\A j \in r.free : j.end < r.at) /\ B \in SUBSET Int
            BY <2>1, <2>5
        <3>2. i \in [start : Int, end : Int] /\ r.at <= i.start /\ i.start <= i.end
            BY <2>2, <2>4, <2>5
        <3>. HIDE DEF r, i, B
        <3>3. LET q == Google!GapBefore(r, i)
              IN Swept(q, B \cup {t \in Int : Within(i, t)}) /\ q.at = i.end /\ \A j \in q.free : j.end <= i.start
            BY <3>1, <3>2, GapFound
        <3>. HIDE DEF Before, Place
        <3>. QED BY <2>3, <2>4, <3>3 DEF r, i, B
    <2>7. Done(n)
        <3>1. \A j \in f[n].free : j.end \in Int
            <4>. HIDE DEF Before
            <4>1. f[n].free \in SUBSET [start : Int, end : Int]
                BY <2>6 DEF Swept
            <4>. QED BY <4>1
        <3>. QED BY <2>4, <2>6, <3>1
    <2>8. Place(n)
        BY <1>9, <2>6
    <2>. HIDE DEF Before, Place, Done
    <2>. QED BY <2>6, <2>7, <2>8 DEF T
<1>10. Swept(f[L], Before(L)) /\ Place(L) /\ Done(L)
    <2>1. \A n \in 0..L : n \in T
        <3>. HIDE DEF T
        <3>. QED BY <1>1, <1>8, <1>9, UpTo
    <2>. HIDE DEF Before, Place, Done
    <2>. QED BY <1>1, <2>1
<1>. QED
    <2>. DEFINE last == [start |-> Closes, end |-> Closes]
                r == Google!GapBefore(f[L], last)
    <2>1. f[L].at <= Closes /\ last \in [start : Int, end : Int] /\ last.start = Closes /\ last.end = Closes
        <3>1. L # 0 => L \in 1..L
            BY <1>1
        <3>. QED BY <1>1, <1>2, <1>10, <3>1
    <2>. HIDE DEF last
    <2>2. {t \in Int : Within(last, t)} = {}
        BY <1>1, <2>1 DEF Within
    <2>3. Swept(r, Before(L)) /\ r.at = Closes
        <3>1. Before(L) \in SUBSET Int /\ last.start <= last.end /\ f[L].at <= last.start
            BY <1>1, <2>1
        <3>. HIDE DEF Before, Place, r
        <3>2. LET q == Google!GapBefore(f[L], last)
              IN Swept(q, Before(L) \cup {t \in Int : Within(last, t)}) /\ q.at = last.end
            BY <1>10, <2>1, <3>1, GapFound
        <3>3. Before(L) \cup {t \in Int : Within(last, t)} = Before(L)
            BY <2>2
        <3>. QED BY <2>1, <3>2, <3>3 DEF r
    <2>4. Minutes(r.free) = {t \in Opens..(Closes - 1) : ~Spans(m, t)}
        <3>1. Minutes(r.free) = {t \in Int : Opens <= t /\ t < Closes /\ t \notin Before(L)}
            <4>. HIDE DEF Before, r
            <4>. QED BY <2>3 DEF Swept
        <3>2. \A t \in Int : t \in Before(L) <=> Spans(m, t)
            BY <1>1 DEF Spans
        <3>. HIDE DEF Before, r
        <3>. QED BY <1>1, <3>1, <3>2
    <2>. HIDE DEF Before, r
    <2>. QED BY <1>6, <2>3, <2>4 DEF Swept, r, last

\* Events as the calendar may have them.
EventSet == [start : Int, end : Int, kind : {"opaque", "transparent", "malformed"}]

\* What FreeIsFree says, of any calendar and any answer.
Busy(c) ==
    {t \in Opens..(Closes - 1) : \E n \in DOMAIN c : c[n].kind # "transparent" /\ c[n].start <= t /\ t < c[n].end}
FreeIn(c, a) ==
    a.availability = "known" =>
        /\ Minutes(a.free) = (Opens..(Closes - 1)) \ Busy(c)
        /\ a.available = Cardinality(Minutes(a.free))
        /\ a.busy = Cardinality(Busy(c))
        /\ Apart(a.free)

LEMMA FreeIsFreeSays == Google!FreeIsFree <=> FreeIn(calendar, calendarAnswer)
BY CardinalityIs DEF Google!FreeIsFree, FreeIn, Minutes, Apart, Busy

\* What a function makes of a finite set is finite.
LEMMA ImageIsFinite ==
    ASSUME NEW S, NEW T, IsFiniteSet(S), NEW f \in [S -> T]
    PROVE  IsFiniteSet({f[x] : x \in S})
<1>. DEFINE R == {f[x] : x \in S}
<1>1. f \in Surjection(S, R)
    BY DEF Surjection
<1>. HIDE DEF R
<1>2. IsFiniteSet(R)
    BY <1>1, FS_Surjection, Zenon
<1>. QED BY <1>2 DEF R

\* The intervals of the events that take time are within the window, and take the minutes there that the events take.
LEMMA ClippedTakes ==
    ASSUME NEW E \in SUBSET EventSet, IsFiniteSet(E), \A e \in E : Google!ParseEvent(e)
    PROVE  LET shownThere == {e \in E : Google!InWindow(e)}
               S == {i \in {Google!Clip(e) : e \in {e \in shownThere : e.kind = "opaque"}} : Google!ValidInterval(i)}
           IN /\ S \in SUBSET Times /\ IsFiniteSet(S)
              /\ \A t \in Int : (\E i \in S : Within(i, t)) <=>
                    Opens <= t /\ t < Closes /\ \E e \in E : e.kind = "opaque" /\ e.start <= t /\ t < e.end
<1>. DEFINE Q == {e \in {e \in E : Google!InWindow(e)} : e.kind = "opaque"}
            C == {Google!Clip(e) : e \in Q}
            S == {i \in C : Google!ValidInterval(i)}
<1>1. Opens \in Int /\ Closes \in Int /\ Opens <= Closes
    BY CalendarAssumption
<1>2. \A e \in E : e.start \in Int /\ e.end \in Int /\ e.start < e.end
    BY DEF EventSet, Google!ParseEvent, Google!ValidInterval
<1>3. \A e \in E : LET i == Google!Clip(e)
                    IN /\ i \in [start : Int, end : Int] /\ Opens <= i.start /\ i.end <= Closes
                       /\ \A t \in Int : Within(i, t) <=> e.start <= t /\ t < e.end /\ Opens <= t /\ t < Closes
    BY <1>1, <1>2 DEF Google!Clip, Google!Latest, Google!Earliest, Within
<1>4. S \in SUBSET Times
    BY <1>3 DEF Times, Google!ValidInterval
<1>5. IsFiniteSet(S)
    <2>. DEFINE f == [e \in Q |-> Google!Clip(e)]
    <2>1. IsFiniteSet(Q)
        BY FS_Subset
    <2>2. f \in [Q -> C] /\ C = {f[e] : e \in Q}
        OBVIOUS
    <2>. HIDE DEF f, Q, C
    <2>3. IsFiniteSet(C)
        BY <2>1, <2>2, ImageIsFinite
    <2>. QED BY <2>3, FS_Subset
<1>6. ASSUME NEW t \in Int
      PROVE  (\E i \in S : Within(i, t)) <=>
                Opens <= t /\ t < Closes /\ \E e \in E : e.kind = "opaque" /\ e.start <= t /\ t < e.end
    <2>1. ASSUME NEW i \in S, Within(i, t)
          PROVE  Opens <= t /\ t < Closes /\ \E e \in E : e.kind = "opaque" /\ e.start <= t /\ t < e.end
        BY <1>3, <2>1
    <2>2. ASSUME NEW e \in E, e.kind = "opaque", e.start <= t, t < e.end, Opens <= t, t < Closes
          PROVE  \E i \in S : Within(i, t)
        <3>1. e \in Q
            BY <1>1, <1>2, <2>2 DEF Google!InWindow
        <3>2. Within(Google!Clip(e), t) /\ Google!Clip(e) \in [start : Int, end : Int]
            BY <1>3, <2>2
        <3>3. Google!ValidInterval(Google!Clip(e))
            BY <3>2 DEF Within, Google!ValidInterval
        <3>4. Google!Clip(e) \in S
            BY <3>1, <3>3
        <3>. QED BY <3>2, <3>4
    <2>. QED BY <2>1, <2>2
<1>. HIDE DEF Q, C
<1>. QED BY <1>4, <1>5, <1>6 DEF Q, C

\* An answer that says it is known was made from the whole calendar, and is true of it.
LEMMA SnapshotIsFree ==
    ASSUME NEW c \in Seq(EventSet), NEW f, f.items \in Seq(EventSet), ~Google!Truncated(f) => f.items = c
    PROVE  FreeIn(c, Google!BuildCalendarSnapshot(f))
<1>. DEFINE bounded == SubSeq(f.items, 1, Google!Earliest(Len(f.items), MaxEvents))
            E == Google!ToSet(bounded)
            parsed == {e \in E : Google!ParseEvent(e)}
            a == Google!CalculateAvailability({e \in parsed : Google!InWindow(e)}, Google!Truncated(f), parsed # E)
            answer0 == Google!BuildCalendarSnapshot(f)
<1>1. /\ answer0.availability = a.status /\ answer0.free = a.free
      /\ answer0.available = a.available /\ answer0.busy = a.busy
    BY DEF Google!BuildCalendarSnapshot
<1>. SUFFICES ASSUME a.status = "known"
              PROVE  /\ Minutes(a.free) = (Opens..(Closes - 1)) \ Busy(c)
                     /\ a.available = Cardinality(Minutes(a.free))
                     /\ a.busy = Cardinality(Busy(c))
                     /\ Apart(a.free)
    <2>. HIDE DEF a, answer0
    <2>. QED BY <1>1 DEF FreeIn, answer0
<1>2. ~Google!Truncated(f) /\ parsed = E
    <2>. HIDE DEF parsed, E
    <2>. QED BY DEF Google!CalculateAvailability, Google!Unknown
<1>3. f.items = c /\ Len(c) \in Nat /\ ~(Len(c) > MaxEvents) /\ MaxEvents \in Nat
    BY <1>2, CalendarAssumption DEF Google!Truncated
<1>4. bounded = c
    <2>1. Google!Earliest(Len(c), MaxEvents) = Len(c)
        BY <1>3 DEF Google!Earliest
    <2>. QED BY <1>3, <2>1, SubSeqFull
<1>. HIDE DEF bounded
<1>5. E = {c[n] : n \in DOMAIN c} /\ E \in SUBSET EventSet
    BY <1>4 DEF Google!ToSet
<1>6. IsFiniteSet(E)
    <2>1. IsFiniteSet(DOMAIN c) /\ c \in [DOMAIN c -> EventSet]
        BY <1>3, FS_Interval
    <2>2. IsFiniteSet({c[n] : n \in DOMAIN c})
        <3>. DEFINE D == DOMAIN c
        <3>1. IsFiniteSet(D) /\ c \in [D -> EventSet]
            BY <2>1
        <3>. HIDE DEF D
        <3>2. IsFiniteSet({c[n] : n \in D})
            BY <3>1, ImageIsFinite
        <3>. QED BY <3>2 DEF D
    <2>. HIDE DEF E
    <2>. QED BY <1>5, <2>2
<1>7. \A e \in E : Google!ParseEvent(e)
    BY <1>2
<1>. HIDE DEF E
<1>. DEFINE S == {i \in {Google!Clip(e) : e \in {e \in {e \in E : Google!InWindow(e)} : e.kind = "opaque"}} :
                    Google!ValidInterval(i)}
            m == Google!MergeIntervals(S)
            gaps == Google!Gaps(m)
<1>8. /\ a.free = gaps.free /\ a.available = gaps.available
      /\ a.busy = Google!Latest(0, Closes - Opens - gaps.available)
    BY <1>2 DEF Google!CalculateAvailability
<1>9. /\ S \in SUBSET Times /\ IsFiniteSet(S)
      /\ \A t \in Int : (\E i \in S : Within(i, t)) <=>
            Opens <= t /\ t < Closes /\ \E e \in E : e.kind = "opaque" /\ e.start <= t /\ t < e.end
    BY <1>5, <1>6, <1>7, ClippedTakes
<1>. HIDE DEF S
<1>10. m \in Seq(Times) /\ Separated(m) /\ \A t \in Int : Spans(m, t) <=> \E i \in S : Within(i, t)
    BY <1>9, MergedCovers
<1>. HIDE DEF m
<1>11. /\ Minutes(gaps.free) = {t \in Opens..(Closes - 1) : ~Spans(m, t)}
       /\ IsFiniteSet(Minutes(gaps.free)) /\ Cardinality(Minutes(gaps.free)) = gaps.available
       /\ Apart(gaps.free)
    BY <1>10, GapsFill
<1>. HIDE DEF gaps, a
<1>12. Opens \in Int /\ Closes \in Int /\ Opens <= Closes
    BY CalendarAssumption
<1>13. \A t \in Opens..(Closes - 1) : Spans(m, t) <=> t \in Busy(c)
    <2>1. \A e \in E : e.kind = "opaque" <=> e.kind # "transparent"
        BY <1>5, <1>7 DEF EventSet, Google!ParseEvent
    <2>2. \A t \in Int : (\E e \in E : e.kind = "opaque" /\ e.start <= t /\ t < e.end) <=>
                          \E n \in DOMAIN c : c[n].kind # "transparent" /\ c[n].start <= t /\ t < c[n].end
        BY <1>5, <2>1
    <2>. QED BY <1>9, <1>10, <1>12, <2>2 DEF Busy
<1>14. Minutes(gaps.free) = (Opens..(Closes - 1)) \ Busy(c)
    BY <1>11, <1>13
<1>15. IsFiniteSet(Busy(c)) /\ Cardinality(Busy(c)) = Closes - Opens - gaps.available /\ Cardinality(Busy(c)) \in Nat
    <2>1. IsFiniteSet(Opens..(Closes - 1)) /\ Cardinality(Opens..(Closes - 1)) = Closes - Opens
        BY <1>12, IntervalSize
    <2>2. Busy(c) \in SUBSET (Opens..(Closes - 1))
        BY DEF Busy
    <2>3. IsFiniteSet(Busy(c)) /\ Cardinality(Busy(c)) \in Nat
        BY <2>1, <2>2, FS_Subset, FS_CardinalityType
    <2>4. Busy(c) \cup Minutes(gaps.free) = Opens..(Closes - 1) /\ Busy(c) \cap Minutes(gaps.free) = {}
        BY <1>14, <2>2
    <2>5. Cardinality(Opens..(Closes - 1)) = Cardinality(Busy(c)) + Cardinality(Minutes(gaps.free))
        BY <1>11, <2>3, <2>4, DisjointUnion
    <2>6. Cardinality(Minutes(gaps.free)) \in Nat
        BY <1>11, FS_CardinalityType
    <2>. QED BY <1>11, <1>12, <2>1, <2>3, <2>5, <2>6
<1>16. Google!Latest(0, Closes - Opens - gaps.available) = Cardinality(Busy(c))
    BY <1>15 DEF Google!Latest
<1>. QED BY <1>8, <1>11, <1>14, <1>16

FetchState ==
    [pc : {"idle", "token", "replace", "pages", "revoke"}, interactive : BOOLEAN, token : Nat, again : BOOLEAN,
     pages : Nat, items : Seq(EventSet), oversize : BOOLEAN, more : BOOLEAN]
Begins(s, c) == Len(s) <= Len(c) /\ \A n \in 1..Len(s) : s[n] = c[n]
CalendarTypeOK ==
    /\ calendar \in Seq(EventSet)
    /\ token \in [cached : Nat, good : SUBSET Nat, issued : Nat, granted : BOOLEAN]
    /\ fetch \in FetchState
\* The events read are the first of the calendar; the answer given is true of it.
CalendarInv ==
    /\ CalendarTypeOK
    /\ Begins(fetch.items, calendar)
    /\ FreeIn(calendar, calendarAnswer)

Told == {"none", "selected", "read"}
Seen(records, files) == \A f \in Files : records[f] = "read" => f \in files
DriveState ==
    [kind : {"none", "select", "refresh", "read", "deselect"}, file : Files \cup {"none"}, seen : [Files -> Told],
     pc : {"rest", "load", "fill", "loaded", "save", "write", "remember"}]
DriveTypeOK ==
    /\ stored \in [Files -> Told]
    /\ selections \in [of : [Files -> Told], loaded : BOOLEAN]
    /\ driveCall \in [DriveCalls -> DriveState]
\* Every copy of the records says "read" of files that were read, and so will a read that is to be recorded.
DriveInv ==
    /\ DriveTypeOK
    /\ Seen(stored, opened) /\ Seen(selections.of, opened)
    /\ \A k \in DriveCalls :
          /\ Seen(driveCall[k].seen, opened)
          /\ driveCall[k].kind = "read" /\ driveCall[k].pc \in {"save", "write", "remember"}
               => driveCall[k].file \in opened

GoogleInvariant ==
    /\ part = "calendar" => CalendarInv
    /\ part = "drive" => DriveInv

\* An answer that only has a status promises nothing.
LEMMA NothingFree == \A c, status : FreeIn(c, [Google!NoAnswer EXCEPT !.status = status])
BY DEF FreeIn, Google!NoAnswer

\* Every calendar of the instance is one of events.
LEMMA CalendarStarts ==
    ASSUME ConnectorsInit, part = "calendar"
    PROVE  CalendarInv
<1>1. calendar \in CalendarEvents
    BY DEF ConnectorsInit, ConnectorsStart
<1>2. Event \subseteq EventSet
    BY CalendarAssumption DEF Event, EventSet
<1>3. \A n \in 0..3 : \A s \in [1..n -> Event] : s \in Seq(EventSet)
    BY <1>2
<1>4. calendar \in Seq(EventSet)
    BY <1>1, <1>3 DEF CalendarEvents
<1>5. /\ token = [cached |-> 0, good |-> {}, issued |-> 0, granted |-> FALSE]
      /\ fetch = Google!NoFetch /\ calendarAnswer = Google!NoAnswer
    BY DEF ConnectorsInit, ConnectorsStart, Google!GoogleInit
<1>6. Google!NoFetch \in FetchState /\ Google!NoFetch.items = <<>>
    BY DEF Google!NoFetch, FetchState
<1>7. Begins(<<>>, calendar) /\ FreeIn(calendar, Google!NoAnswer)
    BY <1>4 DEF Begins, FreeIn, Google!NoAnswer
<1>. QED BY <1>4, <1>5, <1>6, <1>7 DEF CalendarInv, CalendarTypeOK

\* What a page adds.
LEMMA PageAdds ==
    ASSUME NEW c \in Seq(EventSet), NEW s \in Seq(EventSet), Begins(s, c), NEW n \in Nat, Len(s) + n <= Len(c)
    PROVE  LET r == s \o SubSeq(c, Len(s) + 1, Len(s) + n)
           IN /\ r \in Seq(EventSet) /\ Begins(r, c) /\ Len(r) = Len(s) + n
              /\ Len(r) = Len(c) => r = c
<1>. DEFINE l == Len(s)
            q == SubSeq(c, l + 1, l + n)
            r == s \o q
<1>1. l \in Nat /\ Len(c) \in Nat /\ DOMAIN c = 1..Len(c) /\ l + n <= Len(c)
    OBVIOUS
<1>2. q \in Seq(EventSet) /\ Len(q) = n /\ \A j \in 1..n : q[j] = c[l + j]
    <2>1. \A j \in (l + 1)..(l + n) : c[j] \in EventSet
        BY <1>1
    <2>. HIDE DEF l
    <2>2. q \in Seq(EventSet) /\ Len(q) = (IF l + 1 <= l + n THEN l + n - (l + 1) + 1 ELSE 0)
          /\ \A j \in 1..(l + n - (l + 1) + 1) : q[j] = c[l + 1 + j - 1]
        BY <1>1, <2>1, SubSeqProperties
    <2>3. l + n - (l + 1) + 1 = n
        BY <1>1
    <2>4. \A j \in 1..n : l + 1 + j - 1 = l + j
        BY <1>1
    <2>. QED BY <1>1, <2>2, <2>3, <2>4
<1>3. \A j \in 1..l : s[j] = c[j]
    BY DEF Begins
<1>. HIDE DEF q
<1>4. /\ r \in Seq(EventSet) /\ Len(r) = l + n
      /\ \A j \in 1..(l + n) : r[j] = IF j <= l THEN s[j] ELSE q[j - l]
    BY <1>1, <1>2, ConcatProperties
<1>. HIDE DEF r
<1>5. \A j \in 1..(l + n) : r[j] = c[j]
    <2>. HIDE DEF l
    <2>1. \A j \in 1..(l + n) : j <= l \/ (j - l \in 1..n /\ l + (j - l) = j)
        BY <1>1
    <2>. QED BY <1>1, <1>2, <1>3, <1>4, <2>1
<1>6. Begins(r, c)
    BY <1>1, <1>4, <1>5 DEF Begins
<1>7. l + n = Len(c) => r = c
    <2>. HIDE DEF l
    <2>. QED BY <1>1, <1>4, <1>5
<1>. QED BY <1>4, <1>6, <1>7 DEF r, q

\* The calendar commands, for any calendar of events.
LEMMA CalendarKept ==
    ASSUME CalendarInv, Google!CalendarNext
    PROVE  CalendarInv'
<1>1. /\ calendar' = calendar /\ CalendarTypeOK /\ calendar \in Seq(EventSet) /\ Begins(fetch.items, calendar)
      /\ FreeIn(calendar, calendarAnswer)
    BY DEF Google!CalendarNext, CalendarTypeOK, CalendarInv
<1>2. Google!NoFetch \in FetchState /\ Google!NoFetch.items = <<>> /\ Begins(<<>>, calendar)
    BY <1>1 DEF Google!NoFetch, FetchState, Begins
<1>3. \A status : Google!CalendarEnds(status) =>
        fetch' \in FetchState /\ Begins(fetch'.items, calendar) /\ FreeIn(calendar, calendarAnswer')
    BY <1>2, NothingFree DEF Google!CalendarEnds
<1>4. CASE (Google!Connect \/ Google!Refresh \/ Google!Disconnect)
    <2>1. fetch' \in FetchState /\ fetch'.items = <<>> /\ calendarAnswer' = calendarAnswer /\ token' = token
        BY <1>2, <1>4 DEF Google!Connect, Google!Refresh, Google!Disconnect, Google!Fetching, FetchState
    <2>. QED BY <1>1, <1>2, <2>1 DEF CalendarInv, CalendarTypeOK
<1>5. CASE Google!GetAuthToken
    <2>1. token' \in [cached : Nat, good : SUBSET Nat, issued : Nat, granted : BOOLEAN]
        <3>1. token' = token \/ token' = Google!Issued
            BY <1>5, Zenon DEF Google!GetAuthToken
        <3>2. token.issued + 1 \in Nat /\ token.good \cup {token.issued + 1} \in SUBSET Nat
            BY <1>1 DEF CalendarTypeOK
        <3>3. Google!Issued \in [cached : Nat, good : SUBSET Nat, issued : Nat, granted : BOOLEAN]
            BY <3>2 DEF Google!Issued
        <3>. QED BY <1>1, <3>1, <3>3 DEF CalendarInv, CalendarTypeOK
    <2>2. token.cached \in Nat /\ token.issued + 1 \in Nat
        BY <1>1 DEF CalendarTypeOK
    <2>3. \/ Google!Fetching([fetch EXCEPT !.pc = "pages", !.token = token.cached])
          \/ Google!Fetching([fetch EXCEPT !.pc = "pages", !.token = token.issued + 1])
          \/ Google!CalendarEnds("unavailable") \/ Google!CalendarEnds("reauth_required")
        BY <1>5 DEF Google!GetAuthToken
    <2>4. CASE Google!Fetching([fetch EXCEPT !.pc = "pages", !.token = token.cached])
        <3>1. fetch' \in FetchState /\ fetch'.items = fetch.items /\ calendarAnswer' = calendarAnswer
            BY <1>1, <2>2, <2>4 DEF CalendarTypeOK, FetchState, Google!Fetching
        <3>. QED BY <1>1, <2>1, <3>1 DEF CalendarInv, CalendarTypeOK
    <2>5. CASE Google!Fetching([fetch EXCEPT !.pc = "pages", !.token = token.issued + 1])
        <3>1. fetch' \in FetchState /\ fetch'.items = fetch.items /\ calendarAnswer' = calendarAnswer
            BY <1>1, <2>2, <2>5 DEF CalendarTypeOK, FetchState, Google!Fetching
        <3>. QED BY <1>1, <2>1, <3>1 DEF CalendarInv, CalendarTypeOK
    <2>6. CASE Google!CalendarEnds("unavailable") \/ Google!CalendarEnds("reauth_required")
        BY <1>1, <1>3, <2>1, <2>6 DEF CalendarInv, CalendarTypeOK
    <2>. QED BY <2>3, <2>4, <2>5, <2>6
<1>6. CASE Google!FetchPage
    <2>. DEFINE read0 == Len(fetch.items)
                g(n) == [fetch EXCEPT !.items = @ \o SubSeq(calendar, read0 + 1, read0 + n), !.pages = @ + 1,
                                      !.more = read0 + n < Len(calendar), !.oversize = @ \/ n > PageSize]
    <2>1. PICK n \in 0..(PageSize + 1) :
            /\ read0 + n <= Len(calendar)
            /\ IF n > MaxEvents \/ ~(read0 + n < Len(calendar)) \/ g(n).pages = MaxPages
               THEN calendarAnswer' = Google!BuildCalendarSnapshot(g(n)) /\ fetch' = Google!NoFetch
               ELSE Google!Fetching(g(n))
        BY <1>6, Zenon DEF Google!FetchPage
    <2>. DEFINE f == g(n)
                r == fetch.items \o SubSeq(calendar, read0 + 1, read0 + n)
    <2>2. PageSize \in Nat /\ MaxEvents \in Nat /\ MaxPages \in Nat /\ n \in Nat
        BY CalendarAssumption
    <2>3. /\ fetch.items \in Seq(EventSet) /\ read0 \in Nat /\ fetch.pages \in Nat /\ fetch.oversize \in BOOLEAN
          /\ fetch \in FetchState
        BY <1>1 DEF CalendarTypeOK, FetchState
    <2>4. r \in Seq(EventSet) /\ Begins(r, calendar) /\ Len(r) = read0 + n /\ (Len(r) = Len(calendar) => r = calendar)
        BY <1>1, <2>1, <2>2, <2>3, PageAdds
    <2>. HIDE DEF r
    <2>5. f = [fetch EXCEPT !.items = r, !.pages = fetch.pages + 1, !.more = read0 + n < Len(calendar),
                            !.oversize = fetch.oversize \/ n > PageSize]
        BY DEF r
    <2>6. /\ f \in FetchState /\ f.items = r /\ f.pages = fetch.pages + 1 /\ (f.more <=> read0 + n < Len(calendar))
          /\ f.oversize = (fetch.oversize \/ n > PageSize)
        <3>1. /\ fetch.pages + 1 \in Nat /\ (read0 + n < Len(calendar)) \in BOOLEAN
              /\ (fetch.oversize \/ n > PageSize) \in BOOLEAN
            BY <2>3
        <3>. HIDE DEF f, read0
        <3>. QED BY <2>3, <2>4, <2>5, <3>1 DEF FetchState
    <2>7. token' = token
        BY <1>6 DEF Google!FetchPage
    <2>8. CASE n > MaxEvents \/ ~(read0 + n < Len(calendar)) \/ f.pages = MaxPages
        <3>. HIDE DEF g
        <3>1. calendarAnswer' = Google!BuildCalendarSnapshot(f) /\ fetch' = Google!NoFetch
            BY <2>1, <2>8
        <3>. HIDE DEF f
        <3>2. ~Google!Truncated(f) => f.items = calendar
            BY <1>1, <2>1, <2>2, <2>3, <2>4, <2>6, <2>8 DEF Google!Truncated
        <3>3. FreeIn(calendar, calendarAnswer')
            BY <1>1, <2>4, <2>6, <3>1, <3>2, SnapshotIsFree
        <3>4. Google!NoFetch \in FetchState /\ Begins(Google!NoFetch.items, calendar)
            BY <1>2 DEF Google!NoFetch
        <3>. QED BY <1>1, <2>7, <3>1, <3>3, <3>4 DEF CalendarInv, CalendarTypeOK
    <2>9. CASE ~(n > MaxEvents \/ ~(read0 + n < Len(calendar)) \/ f.pages = MaxPages)
        <3>. HIDE DEF g
        <3>1. Google!Fetching(f)
            BY <2>1, <2>9
        <3>. HIDE DEF f
        <3>. QED BY <1>1, <2>4, <2>6, <2>7, <3>1 DEF CalendarInv, CalendarTypeOK, Google!Fetching
    <2>. QED BY <2>8, <2>9
<1>7. CASE Google!FetchFails
    BY <1>1, <1>3, <1>7 DEF CalendarInv, CalendarTypeOK, Google!FetchFails
<1>8. CASE Google!Refused
    <2>1. token' \in [cached : Nat, good : SUBSET Nat, issued : Nat, granted : BOOLEAN]
        BY <1>1, <1>8 DEF CalendarTypeOK, Google!Refused
    <2>2. CASE Google!Fetching([Google!NoFetch EXCEPT !.pc = "replace", !.again = TRUE])
        <3>1. fetch' \in FetchState /\ Begins(fetch'.items, calendar) /\ calendarAnswer' = calendarAnswer
            BY <1>2, <2>2 DEF Google!Fetching, FetchState
        <3>. QED BY <1>1, <2>1, <3>1 DEF CalendarInv, CalendarTypeOK
    <2>3. CASE Google!CalendarEnds("reauth_required")
        BY <1>1, <1>3, <2>1, <2>3 DEF CalendarInv, CalendarTypeOK
    <2>. QED BY <1>8, <2>2, <2>3 DEF Google!Refused
<1>9. CASE Google!RevokeToken
    <2>1. token' \in [cached : Nat, good : SUBSET Nat, issued : Nat, granted : BOOLEAN]
        <3>1. \/ token' = [token EXCEPT !.cached = 0] \/ token' = token
              \/ token' = [token EXCEPT !.cached = 0, !.good = {}, !.granted = FALSE]
            BY <1>9 DEF Google!RevokeToken
        <3>2. 0 \in Nat /\ {} \in SUBSET Nat /\ FALSE \in BOOLEAN
            OBVIOUS
        <3>. QED BY <1>1, <3>1, <3>2 DEF CalendarInv, CalendarTypeOK
    <2>. QED BY <1>1, <1>3, <1>9, <2>1 DEF CalendarInv, CalendarTypeOK, Google!RevokeToken
<1>10. CASE Google!TokenExpires
    <2>1. token' \in [cached : Nat, good : SUBSET Nat, issued : Nat, granted : BOOLEAN]
        BY <1>1, <1>10 DEF CalendarTypeOK, Google!TokenExpires
    <2>. QED BY <1>1, <1>10, <2>1 DEF CalendarInv, CalendarTypeOK, Google!TokenExpires
<1>. QED BY <1>4, <1>5, <1>6, <1>7, <1>8, <1>9, <1>10 DEF Google!CalendarNext

\* Nothing is selected at the start.
LEMMA DriveStarts ==
    ASSUME ConnectorsInit
    PROVE  DriveInv
<1>1. Google!Unselected \in [Files -> Told] /\ Seen(Google!Unselected, opened)
    BY DEF Google!Unselected, Told, Seen
<1>2. /\ stored = Google!Unselected /\ selections = [of |-> Google!Unselected, loaded |-> FALSE]
      /\ driveCall = [k \in DriveCalls |-> Google!NoDriveCall]
    BY DEF ConnectorsInit, ConnectorsStart, Google!GoogleInit
<1>3. /\ Google!NoDriveCall \in DriveState /\ Google!NoDriveCall.seen = Google!Unselected
      /\ Google!NoDriveCall.kind = "none"
    BY <1>1 DEF Google!NoDriveCall, DriveState
<1>. QED BY <1>1, <1>2, <1>3 DEF DriveInv, DriveTypeOK

\* A call that is about to record that a file was read.
Recording(d) == d.kind = "read" /\ d.pc \in {"save", "write", "remember"}

\* One call goes on; files only become read.
LEMMA DriveKept ==
    ASSUME DriveInv, NEW k \in DriveCalls, NEW d \in DriveState, driveCall' = [driveCall EXCEPT ![k] = d],
           stored' \in [Files -> Told], selections' \in [of : [Files -> Told], loaded : BOOLEAN],
           Seen(stored', opened'), Seen(selections'.of, opened'), Seen(d.seen, opened'), opened \subseteq opened',
           Recording(d) => d.file \in opened'
    PROVE  DriveInv'
<1>1. driveCall' \in [DriveCalls -> DriveState]
    BY DEF DriveInv, DriveTypeOK
<1>2. \A j \in DriveCalls : driveCall'[j] = IF j = k THEN d ELSE driveCall[j]
    BY DEF DriveInv, DriveTypeOK
<1>3. \A j \in DriveCalls : /\ Seen(driveCall'[j].seen, opened')
                            /\ Recording(driveCall'[j]) => driveCall'[j].file \in opened'
    BY <1>2 DEF DriveInv, Seen, Recording
<1>. QED BY <1>1, <1>3 DEF DriveInv, DriveTypeOK, Recording

\* The Drive commands, in every order of their steps.
LEMMA DriveHolds ==
    ASSUME DriveInv, Google!DriveNext
    PROVE  DriveInv'
<1>1. PICK k \in DriveCalls :
        \/ Google!DriveCommand(k, "select", "none") \/ Google!DriveCommand(k, "refresh", "none")
        \/ \E f \in Files : Google!DriveCommand(k, "read", f) \/ Google!DriveCommand(k, "deselect", f)
        \/ Google!LoadStored(k) \/ Google!EnsureLoaded(k) \/ Google!SelectFile(k) \/ Google!ReadFile(k)
        \/ Google!Deselect(k) \/ Google!RefreshEnds(k) \/ Google!ReadRecords(k) \/ Google!WriteRecords(k)
        \/ Google!Remember(k)
    BY DEF Google!DriveNext
<1>. DEFINE c == driveCall[k]
            Rest == Google!NoDriveCall
<1>2. /\ c \in DriveState /\ stored \in [Files -> Told] /\ selections \in [of : [Files -> Told], loaded : BOOLEAN]
      /\ selections.of \in [Files -> Told] /\ c.seen \in [Files -> Told]
      /\ Seen(stored, opened) /\ Seen(selections.of, opened) /\ Seen(c.seen, opened)
      /\ Recording(c) => c.file \in opened
    BY DEF DriveInv, DriveTypeOK, DriveState, Recording
<1>3. Google!Unselected \in [Files -> Told] /\ Seen(Google!Unselected, opened)
    BY DEF Google!Unselected, Told, Seen
<1>4. Rest \in DriveState /\ Rest.seen = Google!Unselected /\ ~Recording(Rest)
    BY <1>3 DEF Google!NoDriveCall, DriveState, Recording
<1>5. driveCall \in [DriveCalls -> DriveState]
    BY DEF DriveInv, DriveTypeOK
<1>6. [of |-> Google!Unselected, loaded |-> FALSE] \in [of : [Files -> Told], loaded : BOOLEAN]
    BY <1>3
<1>. HIDE DEF c, Rest
<1>7. ASSUME NEW d \in DriveState, driveCall' = [driveCall EXCEPT ![k] = d], stored' = stored, selections' = selections,
             opened' = opened, Seen(d.seen, opened), Recording(d) => d.file \in opened
      PROVE  DriveInv'
    BY <1>2, <1>7, DriveKept
<1>8. ASSUME driveCall' = [driveCall EXCEPT ![k] = Rest], stored' = stored, selections' = selections, opened' = opened
      PROVE  DriveInv'
    BY <1>3, <1>4, <1>7, <1>8
<1>9. ASSUME NEW kind \in {"select", "refresh", "read", "deselect"}, NEW f \in Files \cup {"none"},
             Google!DriveCommand(k, kind, f)
      PROVE  DriveInv'
    <2>1. PICK pc \in {"load", "loaded"} :
            driveCall' = [driveCall EXCEPT ![k] = [kind |-> kind, pc |-> pc, file |-> f, seen |-> Google!Unselected]]
        BY <1>9 DEF Google!DriveCommand
    <2>2. /\ selections' \in {selections, [of |-> Google!Unselected, loaded |-> FALSE]} /\ stored' = stored
          /\ opened' = opened
        BY <1>9 DEF Google!DriveCommand
    <2>. DEFINE d == [kind |-> kind, pc |-> pc, file |-> f, seen |-> Google!Unselected]
    <2>3. d \in DriveState /\ d.seen = Google!Unselected /\ ~Recording(d)
        BY <1>3 DEF DriveState, Recording
    <2>4. selections' \in [of : [Files -> Told], loaded : BOOLEAN] /\ Seen(selections'.of, opened)
        <3>1. CASE selections' = selections
            BY <1>2, <3>1
        <3>2. CASE selections' = [of |-> Google!Unselected, loaded |-> FALSE]
            BY <1>3, <1>6, <3>2
        <3>. QED BY <2>2, <3>1, <3>2
    <2>. HIDE DEF d
    <2>. QED BY <1>2, <1>3, <2>1, <2>2, <2>3, <2>4, DriveKept DEF d
<1>10. CASE Google!LoadStored(k)
    <2>. DEFINE d == [c EXCEPT !.pc = "fill", !.seen = stored]
    <2>1. d \in DriveState /\ d.seen = stored /\ ~Recording(d)
        BY <1>2 DEF DriveState, Recording
    <2>2. /\ driveCall' = [driveCall EXCEPT ![k] = d] \/ driveCall' = [driveCall EXCEPT ![k] = Rest]
          /\ stored' = stored /\ selections' = selections /\ opened' = opened
        <3>1. [driveCall EXCEPT ![k].pc = "fill", ![k].seen = stored] = [driveCall EXCEPT ![k] = d]
            BY <1>5 DEF c, DriveState
        <3>. HIDE DEF d
        <3>. QED BY <1>10, <3>1 DEF Google!LoadStored, Google!DriveEnds, Rest
    <2>. HIDE DEF d
    <2>. QED BY <1>2, <1>7, <1>8, <2>1, <2>2
<1>11. CASE Google!EnsureLoaded(k)
    <2>. DEFINE d == [c EXCEPT !.pc = "loaded"]
    <2>1. /\ driveCall' = [driveCall EXCEPT ![k] = d] /\ stored' = stored /\ opened' = opened
          /\ selections' = [of |-> c.seen, loaded |-> TRUE]
        BY <1>11 DEF Google!EnsureLoaded, Google!DriveGoto, c
    <2>2. d \in DriveState /\ d.seen = c.seen /\ ~Recording(d)
        BY <1>2 DEF DriveState, Recording
    <2>3. selections' \in [of : [Files -> Told], loaded : BOOLEAN] /\ selections'.of = c.seen
        BY <1>2, <2>1
    <2>. HIDE DEF d
    <2>. QED BY <1>2, <2>1, <2>2, <2>3, DriveKept
<1>12. CASE Google!SelectFile(k)
    <2>1. ASSUME NEW f \in Files, c.kind = "select", driveCall' = [driveCall EXCEPT ![k].pc = "save", ![k].file = f],
                 stored' = stored, selections' = selections, opened' = opened
          PROVE  DriveInv'
        <3>. DEFINE d == [c EXCEPT !.pc = "save", !.file = f]
        <3>1. d \in DriveState /\ d.seen = c.seen /\ ~Recording(d)
            BY <1>2, <2>1 DEF DriveState, Recording
        <3>2. driveCall' = [driveCall EXCEPT ![k] = d]
            <4>1. [driveCall EXCEPT ![k].pc = "save", ![k].file = f] = [driveCall EXCEPT ![k] = d]
                BY <1>5 DEF c, DriveState
            <4>. QED BY <2>1, <4>1
        <3>. HIDE DEF d
        <3>. QED BY <1>2, <1>7, <2>1, <3>1, <3>2
    <2>2. /\ \/ \E f \in Files : c.kind = "select" /\ driveCall' = [driveCall EXCEPT ![k].pc = "save", ![k].file = f]
             \/ driveCall' = [driveCall EXCEPT ![k] = Rest]
          /\ stored' = stored /\ selections' = selections /\ opened' = opened
        BY <1>12 DEF Google!SelectFile, Google!DriveEnds, c, Rest
    <2>. QED BY <1>8, <2>1, <2>2
<1>13. CASE Google!ReadFile(k)
    <2>. DEFINE d == [c EXCEPT !.pc = "save"]
    <2>1. /\ \/ driveCall' = [driveCall EXCEPT ![k] = d] /\ opened' = opened \cup {c.file}
             \/ driveCall' = [driveCall EXCEPT ![k] = Rest] /\ opened' = opened
          /\ stored' = stored /\ selections' = selections
        BY <1>13 DEF Google!ReadFile, Google!DriveEnds, Google!DriveGoto, c, Rest
    <2>2. d \in DriveState /\ d.seen = c.seen /\ d.file = c.file
        BY <1>2 DEF DriveState
    <2>. HIDE DEF d
    <2>3. ASSUME driveCall' = [driveCall EXCEPT ![k] = d], opened' = opened \cup {c.file}
          PROVE  DriveInv'
        <3>1. Seen(stored', opened') /\ Seen(selections'.of, opened') /\ Seen(d.seen, opened')
            BY <1>2, <2>1, <2>2, <2>3 DEF Seen
        <3>. QED BY <1>2, <2>1, <2>2, <2>3, <3>1, DriveKept
    <2>. QED BY <1>8, <2>1, <2>3
<1>14. CASE Google!Deselect(k) \/ Google!RefreshEnds(k)
    <2>. DEFINE d == [c EXCEPT !.pc = "save"]
    <2>1. /\ \/ driveCall' = [driveCall EXCEPT ![k] = d] /\ c.kind = "deselect"
             \/ driveCall' = [driveCall EXCEPT ![k] = Rest]
          /\ stored' = stored /\ selections' = selections /\ opened' = opened
        BY <1>14 DEF Google!Deselect, Google!RefreshEnds, Google!DriveEnds, Google!DriveGoto, c, Rest
    <2>2. d \in DriveState /\ d.seen = c.seen /\ (Recording(d) => c.kind = "read")
        BY <1>2 DEF DriveState, Recording
    <2>. HIDE DEF d
    <2>. QED BY <1>2, <1>7, <1>8, <2>1, <2>2
<1>15. CASE Google!ReadRecords(k)
    <2>. DEFINE d == [c EXCEPT !.pc = "write", !.seen = stored]
    <2>1. /\ driveCall' = [driveCall EXCEPT ![k] = d] \/ driveCall' = [driveCall EXCEPT ![k] = Rest]
          /\ stored' = stored /\ selections' = selections /\ opened' = opened /\ c.pc = "save"
        <3>1. [driveCall EXCEPT ![k].pc = "write", ![k].seen = stored] = [driveCall EXCEPT ![k] = d]
            BY <1>5 DEF c, DriveState
        <3>. HIDE DEF d
        <3>. QED BY <1>15, <3>1 DEF Google!ReadRecords, Google!DriveEnds, c, Rest
    <2>2. d \in DriveState /\ d.seen = stored /\ (Recording(d) => d.file \in opened)
        BY <1>2, <2>1 DEF DriveState, Recording
    <2>. HIDE DEF d
    <2>. QED BY <1>2, <1>7, <1>8, <2>1, <2>2
<1>16. c.kind \in {"none", "select", "refresh", "read", "deselect"} =>
         Google!Becoming(c.kind) \in Told /\ (Google!Becoming(c.kind) = "read" => c.kind = "read")
    BY DEF Google!Becoming, Told
<1>17. CASE Google!WriteRecords(k)
    <2>. DEFINE d == [c EXCEPT !.pc = "remember"]
                b == Google!Becoming(c.kind)
    <2>1. /\ driveCall' = [driveCall EXCEPT ![k] = d] /\ selections' = selections /\ opened' = opened /\ c.pc = "write"
          /\ stored' = [c.seen EXCEPT ![c.file] = b]
        BY <1>17 DEF Google!WriteRecords, Google!DriveGoto, c
    <2>2. d \in DriveState /\ d.seen = c.seen /\ (Recording(d) => d.file \in opened)
        BY <1>2, <2>1 DEF DriveState, Recording
    <2>3. b \in Told /\ (b = "read" => c.file \in opened)
        BY <1>2, <1>16, <2>1 DEF Recording, DriveState
    <2>. HIDE DEF b
    <2>4. stored' \in [Files -> Told] /\ Seen(stored', opened')
        BY <1>2, <2>1, <2>3 DEF Seen
    <2>. HIDE DEF d
    <2>. QED BY <1>2, <2>1, <2>2, <2>4, DriveKept
<1>18. CASE Google!Remember(k)
    <2>. DEFINE b == Google!Becoming(c.kind)
    <2>1. /\ driveCall' = [driveCall EXCEPT ![k] = Rest] /\ stored' = stored /\ opened' = opened /\ c.pc = "remember"
          /\ selections' = [selections EXCEPT !.of[c.file] = b]
        BY <1>18 DEF Google!Remember, Google!DriveEnds, c, Rest
    <2>2. b \in Told /\ (b = "read" => c.file \in opened)
        BY <1>2, <1>16, <2>1 DEF Recording, DriveState
    <2>. HIDE DEF b
    <2>3. /\ selections' \in [of : [Files -> Told], loaded : BOOLEAN]
          /\ selections'.of = [selections.of EXCEPT ![c.file] = b]
        BY <1>2, <2>1, <2>2
    <2>4. Seen(selections'.of, opened')
        BY <1>2, <2>1, <2>2, <2>3 DEF Seen
    <2>. QED BY <1>2, <1>3, <1>4, <2>1, <2>3, <2>4, DriveKept
<1>. QED BY <1>1, <1>9, <1>10, <1>11, <1>12, <1>13, <1>14, <1>15, <1>17, <1>18

\* Both, in every behaviour.
LEMMA GoogleHolds == ConnectorsSpec => []GoogleInvariant
<1>1. ConnectorsInit => GoogleInvariant
    BY CalendarStarts, DriveStarts DEF GoogleInvariant
<1>2. GoogleInvariant /\ [ConnectorsNext]_allVars => GoogleInvariant'
    <2>. SUFFICES ASSUME GoogleInvariant, [ConnectorsNext]_allVars, part' \in {"calendar", "drive"}
                  PROVE  GoogleInvariant'
        BY DEF GoogleInvariant
    <2>1. CASE part = "calendar" /\ part' = part /\ Google!CalendarNext
        BY <2>1, CalendarKept DEF GoogleInvariant
    <2>2. CASE part = "drive" /\ part' = part /\ Google!DriveNext
        BY <2>2, DriveHolds DEF GoogleInvariant
    <2>3. CASE UNCHANGED <<part, googleVars>>
        BY <2>3 DEF GoogleInvariant, googleVars, CalendarInv, CalendarTypeOK, DriveInv, DriveTypeOK, Seen
    <2>. QED BY <2>1, <2>2, <2>3 DEF ConnectorsNext, allVars
<1>. QED BY <1>1, <1>2, PTL DEF ConnectorsSpec

\* Minutes that the calendar connector calls free are free in the whole
\* calendar, and a file is shown as read after it was read.
THEOREM GoogleReadsTrue == ConnectorsSpec => []GoogleAsRead
<1>1. GoogleInvariant => GoogleAsRead
    BY FreeIsFreeSays DEF GoogleInvariant, CalendarInv, DriveInv, Seen, GoogleAsRead, Google!EvidenceIsRead
<1>. QED BY <1>1, GoogleHolds, PTL

(***************************************************************************)
(* The readers the tests are about (LibraryRefs, StudentPages)             *)
(***************************************************************************)

\* In a list that is not one of loans or reservations a row is tested for the fields that are read.
LEMMA RowTested ==
    ASSUME NEW list, NEW row, row.twice = {}
    PROVE  ({"title", "status", "activity"} \cup (IF list = "loan_history" THEN {} ELSE {"request"}) \subseteq row.has)
           <=> References!TestedItem(list, row)
<1>1. References!TestedFields(row) = row.has
    BY DEF References!TestedFields
<1>. QED BY <1>1 DEF References!TestedItem

\* If the first marked table of a page has the columns, it is the one the tested reader finds.
LEMMA SameTable ==
    ASSUME NEW source, DOMAIN source.tables \subseteq Nat, References!MarkedTable(source).columns
    PROVE  /\ References!ScopeTable(source) = References!MarkedTable(source)
           /\ References!MarkedTable(source) \in References!ToSet(source.tables)
<1>. DEFINE marked == {i \in DOMAIN source.tables : source.tables[i].shown /\ source.tables[i].marked}
            right == {i \in DOMAIN source.tables :
                        source.tables[i].shown /\ source.tables[i].marked /\ source.tables[i].columns}
            first == CHOOSE i \in marked : \A j \in marked : i <= j
<1>1. marked # {}
    BY DEF References!MarkedTable, References!TheFirst, References!NoTable
<1>2. first \in marked /\ \A j \in marked : first <= j
    BY <1>1, LeastOf
<1>3. References!MarkedTable(source) = source.tables[first]
    BY <1>1 DEF References!MarkedTable, References!TheFirst
<1>. HIDE DEF first
<1>4. first \in right /\ \A j \in right : first <= j
    BY <1>2, <1>3
<1>5. \A i \in right : (\A j \in right : i <= j) => i = first
    BY <1>4
<1>6. (CHOOSE i \in right : \A j \in right : i <= j) = first
    BY <1>4, <1>5
<1>7. References!ScopeTable(source) = source.tables[first]
    BY <1>4, <1>6 DEF References!ScopeTable, References!TheFirst
<1>. QED BY <1>2, <1>3, <1>7 DEF References!ToSet

LEMMA RowsTested ==
    ASSUME NEW list, NEW source, DOMAIN source.tables \subseteq Nat, References!OneHeadingEach(source),
           References!ReadRows(list, source).known
    PROVE  References!TestedRows(list, source) = References!ReadRows(list, source)
<1>1. CASE list = "current_loans"
    BY <1>1 DEF References!ReadRows, References!TestedRows, References!LoanRows, References!TestedLoans, References!VisibleRows,
                References!RowsWith, References!Unreadable
<1>2. CASE list = "reservations"
    BY <1>2 DEF References!ReadRows, References!TestedRows, References!ReservationRows, References!TestedReservations,
                References!VisibleRows, References!RowsWith, References!Unreadable
<1>3. CASE list \notin {"current_loans", "reservations"}
    <2>. DEFINE fields == {"title", "status", "activity"} \cup (IF list = "loan_history" THEN {} ELSE {"request"})
                table == References!MarkedTable(source)
                data == References!DataRows(table.rows)
                kept == [known |-> TRUE, items |-> References!First(data, 3)]
    <2>1. References!ReadRows(list, source) =
            IF ~table.columns THEN References!Unreadable
            ELSE IF table.rows = <<>> \/ \E i \in DOMAIN data : ~(fields \subseteq data[i].has)
                 THEN References!Unreadable ELSE kept
        BY <1>3 DEF References!ReadRows, References!GenericRows, References!RowsWith
    <2>2. table.columns
        BY <2>1 DEF References!Unreadable
    <2>3. References!ScopeTable(source) = table /\ table \in References!ToSet(source.tables)
        BY <2>2, SameTable
    <2>. HIDE DEF table
    <2>4. \A i \in DOMAIN data : data[i].twice = {}
        BY <2>3 DEF References!OneHeadingEach
    <2>5. References!TestedRows(list, source) =
            IF table.rows = <<>> \/ \E i \in DOMAIN data : ~References!TestedItem(list, data[i])
            THEN References!Unreadable ELSE kept
        BY <1>3, <2>3 DEF References!TestedRows
    <2>. HIDE DEF data, kept
    <2>6. \A i \in DOMAIN data : (fields \subseteq data[i].has) <=> References!TestedItem(list, data[i])
        BY <2>4, RowTested
    <2>. HIDE DEF fields
    <2>. QED BY <2>1, <2>2, <2>5, <2>6
<1>. QED BY <1>1, <1>2, <1>3

LEMMA DashboardsTested == Student!DashboardsTestedAsRun
<1>1. ASSUME NEW source \in MoodleDashboards
      PROVE  Student!ExtractMoodle(source) = Student!ReadMoodle(source)
    <2>1. source.unread \in Int /\ (source.unread = -1 \/ source.unread \in Nat)
        <3>1. PICK n \in {3, -1, 1} : \E named, due : source = [courses |-> named, activities |-> due, unread |-> n]
            BY Zenon DEF MoodleDashboards
        <3>2. source.unread = n
            BY <3>1
        <3>. QED BY <3>2
    <2>2. (IF source.unread = -1 THEN 0 ELSE IF source.unread < 2 THEN source.unread ELSE 2)
            = IF source.unread \in 0..2 THEN source.unread ELSE IF source.unread = -1 THEN 0 ELSE 2
        BY <2>1
    <2>. QED BY <2>2, Zenon DEF Student!ExtractMoodle, Student!ReadMoodle, Student!None
<1>2. ASSUME NEW source
      PROVE  \/ Student!ReadCast(source) = Student!ExtractCast(source)
             \/ Student!ReadCast(source).status # "known" /\ Student!ExtractCast(source).status = "nothing"
    <2>. DEFINE readout == [status |-> "known", counts |-> source.counts, talk |-> source.talk,
                            notices |-> Student!First(Student!Titled(source.notices), 2)]
                counted == \A i \in 1..3 : Student!NumericCount(source.counts[i]) # Student!None
    <2>1. Student!ReadCast(source) =
            IF source.path = "login" \/ source.password THEN [status |-> "reauth_required"]
            ELSE IF source.path # "top" \/ ~counted THEN [status |-> "unavailable"] ELSE readout
        BY Zenon DEF Student!ReadCast
    <2>2. Student!ExtractCast(source) =
            IF source.path = "top" /\ ~source.password /\ counted THEN readout ELSE [status |-> "nothing"]
        BY Zenon DEF Student!ExtractCast
    <2>. HIDE DEF readout, counted
    <2>. QED BY <2>1, <2>2
<1>. QED BY <1>1, <1>2 DEF Student!DashboardsTestedAsRun

\* The tables of the pages that are used are numbered.
LEMMA PagesNumbered ==
    \A source \in ListPages \cup {PageOf(<<Empty>>)} : DOMAIN source.tables \subseteq Nat
<1>1. \A rows : DOMAIN PageOf(rows).tables \subseteq Nat
    BY DEF PageOf
<1>2. \A x, y : DOMAIN [form |-> TRUE, tables |-> <<x, y>>].tables \subseteq Nat
    OBVIOUS
<1>3. \A x, y, z : DOMAIN [form |-> FALSE, tables |-> <<x, y, z>>].tables \subseteq Nat
    OBVIOUS
<1>. QED BY <1>1, <1>2, <1>3, Zenon DEF ListPages, StartPages

\* The page of a list changes to another that is used.
LEMMA SitesChange ==
    ASSUME \A l \in UsedLists : DOMAIN refSite[l].tables \subseteq Nat, [ConnectorsNext]_allVars
    PROVE  \A l \in UsedLists : DOMAIN refSite'[l].tables \subseteq Nat
<1>1. ASSUME References!RefNext
      PROVE  \/ refSite' = refSite
             \/ \E list \in UsedLists : \E source \in ListPages : refSite' = [refSite EXCEPT ![list] = source]
    <2>1. CASE \E list \in UsedLists : References!SiteChanges(list)
        BY <2>1, Zenon DEF References!SiteChanges
    <2>2. \A one, two : References!ShowRecord(one, two) => refSite' = refSite
        BY Zenon DEF References!ShowRecord, References!Remember
    <2>3. \A one, two, limit : References!ShowRecords(one, two, limit) => refSite' = refSite
        BY Zenon DEF References!ShowRecords, References!Remember
    <2>4. \A one, two, limit : References!ShowDiscoveries(one, two, limit) => refSite' = refSite
        BY Zenon DEF References!ShowDiscoveries, References!Remember
    <2>5. \A list, query, offset, limit : References!ReadList(list, query, offset, limit) => refSite' = refSite
        BY SMTT(30) DEF References!ReadList
    <2>6. \A r, record : References!AskOptions(r, record) \/ References!AskVisit(r, record) \/ References!AskWrite(r, record)
                           => refSite' = refSite
        <3>1. \A kind, r, record : References!Ask(kind, r, record) => refSite' = refSite
            BY SMTT(30) DEF References!Ask
        <3>. QED BY <3>1 DEF References!AskOptions, References!AskVisit, References!AskWrite
    <2>7. References!PublicOptions \/ References!PersonalOptions \/ References!PersonalSurface \/ References!AskFails
            => refSite' = refSite
        BY Zenon DEF References!PublicOptions, References!PersonalOptions, References!PersonalSurface, References!AskFails
    <2>8. \A related : References!PublicSurface(related) => refSite' = refSite
        BY Zenon DEF References!PublicSurface
    <2>9. \A r : References!Overdue(r) => refSite' = refSite
        BY Zenon DEF References!Overdue
    <2>10. References!Disconnect \/ References!Restart => refSite' = refSite
        BY Zenon DEF References!Disconnect, References!Restart
    <2>. QED BY <1>1, <2>1, <2>2, <2>3, <2>4, <2>5, <2>6, <2>7, <2>8, <2>9, <2>10, Zenon DEF References!RefNext
<1>2. \/ refSite' = refSite
      \/ \E list \in UsedLists : \E source \in ListPages : refSite' = [refSite EXCEPT ![list] = source]
    BY <1>1 DEF ConnectorsNext, allVars, libraryVars, refVars
<1>3. CASE \E list \in UsedLists : \E source \in ListPages : refSite' = [refSite EXCEPT ![list] = source]
    <2>1. PICK list \in UsedLists, source \in ListPages : refSite' = [refSite EXCEPT ![list] = source]
        BY <1>3
    <2>2. \A l : refSite'[l] = refSite[l] \/ refSite'[l] = source
        BY <2>1
    <2>. QED BY <2>2, PagesNumbered
<1>. QED BY <1>2, <1>3

\* The readers the tests exercise read what the worker's copies of them read of a list whose rows have no field under
\* two headings, and of the dashboards (TestedAsRun).
THEOREM TestsSayTrue == ConnectorsSpec => []TestedAsRun
<1>. DEFINE Numbered == \A l \in UsedLists : DOMAIN refSite[l].tables \subseteq Nat
<1>1. ConnectorsInit => Numbered
    <2>. SUFFICES ASSUME ConnectorsInit PROVE Numbered
        OBVIOUS
    <2>1. PICK start \in ListPages \cup {PageOf(<<Empty>>)} : refSite = [l \in UsedLists |-> start]
        BY Zenon DEF ConnectorsInit, ConnectorsStart, ListPages
    <2>. QED BY <2>1, PagesNumbered
<1>2. Numbered /\ [ConnectorsNext]_allVars => Numbered'
    BY SitesChange
<1>3. Numbered => TestedAsRun
    BY RowsTested, DashboardsTested DEF TestedAsRun, References!TestedAsRun
<1>. QED BY <1>1, <1>2, <1>3, PTL DEF ConnectorsSpec
=============================================================================
