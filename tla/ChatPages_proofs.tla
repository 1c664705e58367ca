-------------------------- MODULE ChatPages_proofs --------------------------
(***************************************************************************)
(* Proofs about ChatBackground, for any number of runs and streams and any *)
(* caps, and about Conversations, for any number of sends, tools and       *)
(* history operations.  The two share no variable.                         *)
(*                                                                         *)
(* ChatBackground: that what a client is told only moves forward is not    *)
(* inductive: a run that was told to be over must not come back into the   *)
(* map, nor its tombstone after it was dropped.  BackgroundInv therefore   *)
(* ties the map, the tombstones and the tasks to each other (MapAgrees)    *)
(* and to what was told (ToldSo).                                          *)
(*                                                                         *)
(* Conversations: a log is copied between the store, two pages, the turns  *)
(* and the handlers that wait.  AllIn(S) says that every copy has its log  *)
(* in S, Admits(S) that S has what a step may make of them; PagesKeep, one *)
(* step of whatever kind, then serves both properties: S is the logs with  *)
(* one reply to a turn at most, or those without a reply of a turn that    *)
(* was stopped.  One reply is inductive with TurnsOpen: a turn that is not *)
(* over works on copies that have its question and not its reply.          *)
(***************************************************************************)
EXTENDS ChatBackground, Conversations, FiniteSetTheorems, TLAPS

USE TTLAssumption, BoundsAssumption

(***************************************************************************)
(* Background runs: the inductive invariant                                *)
(***************************************************************************)
Tomb == [id : RunIds, at : Nat]
Answered == {"background", "result", "failed", "expired", "unknown"}

\* The map, its tombstones and the tasks agree: a task that still runs is in
\* the map, and no id is in the map and a tombstone at once.
MapAgrees ==
    /\ IsFiniteSet(background) /\ background \subseteq DOMAIN runs
    /\ ExpiredIds \subseteq DOMAIN runs /\ ExpiredIds \cap background = {}
    /\ \A r \in DOMAIN runs : runs[r].task = "running" => r \in background
    /\ \A r \in DOMAIN runs : runs[r].task = "done" <=> runs[r].outcome # "none"

\* A stream is never ahead of its run, and one that waits or has ended has seen it all.
Behind ==
    \A s \in DOMAIN streams :
        /\ streams[s].run \in DOMAIN runs
        /\ streams[s].index <= runs[streams[s].run].events

\* What a client was told is still so, or the run has gone since.
ToldSo ==
    \A r \in DOMAIN polled :
        /\ r \in DOMAIN runs /\ polled[r] \in Answered
        /\ polled[r] = "result" => runs[r].outcome = "result"
        /\ polled[r] = "failed" => runs[r].outcome \in {"failed", "cancelled", "expired"}
        /\ polled[r] = "expired" => r \notin background
        /\ polled[r] = "unknown" => r \notin background /\ r \notin ExpiredIds

BackgroundInv ==
    /\ now \in 0 .. MaxTime
    /\ DOMAIN runs \subseteq RunIds /\ \A r \in DOMAIN runs : runs[r] \in Run
    /\ expired \in Seq(Tomb)
    /\ DOMAIN streams \subseteq Streams /\ \A s \in DOMAIN streams : streams[s] \in Stream
    /\ MapAgrees /\ Behind /\ NoLostWakeup /\ ToldSo

(***************************************************************************)
(* The sweep                                                               *)
(***************************************************************************)

\* SetToSeq lists the elements of a finite set.
LEMMA Listing ==
    ASSUME NEW S, IsFiniteSet(S)
    PROVE  SetToSeq(S) \in Seq(S)
<1>1. Cardinality(S) \in Nat
  BY FS_CardinalityType
<1>2. PICK f : f \in Bijection(1 .. Cardinality(S), S)
  BY FS_CardinalityType DEF ExistsBijection
<1>3. f \in [1 .. Cardinality(S) -> S] /\ IsInjective(f)
  BY <1>2 DEF Bijection, Injection, IsInjective
<1>4. SetToSeq(S) \in [1 .. Cardinality(S) -> S]
  BY <1>3 DEF SetToSeq
<1> QED BY <1>1, <1>4

LEMMA SweptTombFacts ==
    ASSUME BackgroundInv
    PROVE  /\ SweptTombs \in Seq(Tomb)
           /\ SweptIds \subseteq ExpiredIds \cup Stale
<1> DEFINE ids == SetToSeq(Stale)
           new == [i \in DOMAIN ids |-> [id |-> ids[i], at |-> now]]
<1>1. Stale \subseteq background /\ Stale \subseteq RunIds /\ IsFiniteSet(Stale)
  BY FS_Subset DEF Stale, BackgroundInv, MapAgrees
<1>2. ids \in Seq(Stale)
  BY <1>1, Listing
<1> HIDE DEF ids
<1>3. new \in Seq(Tomb)
  <2>1. now \in Nat
    BY DEF BackgroundInv
  <2>2. new \in [1 .. Len(ids) -> Tomb] /\ Len(ids) \in Nat
    BY <1>1, <1>2, <2>1 DEF Tomb
  <2> HIDE DEF new
  <2> QED BY <2>2
<1>4. \A i \in DOMAIN new : new[i].id \in Stale
  BY <1>2
<1>5. expired \in Seq(Tomb)
  BY DEF BackgroundInv
<1>6. /\ TombsWithStale \in Seq(Tomb) /\ Len(TombsWithStale) \in Nat
      /\ DOMAIN TombsWithStale = 1 .. Len(TombsWithStale)
      /\ \A i \in DOMAIN TombsWithStale : TombsWithStale[i].id \in ExpiredIds \cup Stale
  <2>1. TombsWithStale = expired \o new
    BY DEF TombsWithStale, ids
  <2> HIDE DEF new
  <2>2. TombsWithStale \in Seq(Tomb)
    BY <1>3, <1>5, <2>1
  <2>3. ASSUME NEW i \in DOMAIN TombsWithStale
        PROVE  TombsWithStale[i].id \in ExpiredIds \cup Stale
    <3>1. i \in 1 .. Len(expired) + Len(new)
      BY <1>3, <1>5, <2>1
    <3>2. CASE i <= Len(expired)
      BY <1>3, <1>5, <2>1, <3>1, <3>2 DEF ExpiredIds
    <3>3. CASE i > Len(expired)
      <4>1. TombsWithStale[i] = new[i - Len(expired)] /\ i - Len(expired) \in DOMAIN new
        BY <1>3, <1>5, <2>1, <3>1, <3>3
      <4> QED BY <1>4, <4>1
    <3> QED BY <1>5, <3>1, <3>2, <3>3
  <2> QED BY <2>2, <2>3
<1>7. Cardinality(Dropped) \in Nat
  <2>1. IsFiniteSet(1 .. Len(TombsWithStale))
    BY <1>6, FS_Interval
  <2>2. Dropped \subseteq 1 .. Len(TombsWithStale)
    BY <1>6 DEF Dropped
  <2> QED BY <2>1, <2>2, FS_Subset, FS_CardinalityType
<1>8. /\ SweptTombs \in Seq(Tomb)
      /\ \A i \in DOMAIN SweptTombs : \E j \in DOMAIN TombsWithStale : SweptTombs[i] = TombsWithStale[j]
  <2>1. SweptTombs = SubSeq(TombsWithStale, Cardinality(Dropped) + 1, Len(TombsWithStale))
    BY DEF SweptTombs
  <2>2. PICK m \in Nat : m = Cardinality(Dropped) + 1 /\ m >= 1
    BY <1>7
  <2>3. PICK n \in Nat : n = Len(TombsWithStale)
    BY <1>6
  <2>4. SweptTombs = SubSeq(TombsWithStale, m, n)
    BY <2>1, <2>2, <2>3
  <2>5. SweptTombs \in Seq(Tomb)
    BY <1>6, <2>2, <2>3, <2>4
  <2>6. ASSUME NEW i \in DOMAIN SweptTombs
        PROVE  \E j \in DOMAIN TombsWithStale : SweptTombs[i] = TombsWithStale[j]
    <3>1. m <= n /\ i \in 1 .. (n - m + 1)
      BY <1>6, <2>2, <2>3, <2>4, <2>6
    <3>2. SweptTombs[i] = TombsWithStale[m + i - 1] /\ m + i - 1 \in DOMAIN TombsWithStale
      BY <1>6, <2>2, <2>3, <2>4, <3>1
    <3> QED BY <3>2
  <2> QED BY <2>5, <2>6
<1>9. SweptIds \subseteq ExpiredIds \cup Stale
  BY <1>6, <1>8 DEF SweptIds
<1> QED BY <1>8, <1>9

\* What the sweep leaves: the same runs, of which no stale one runs on.
LEMMA SweptRunFacts ==
    ASSUME BackgroundInv
    PROVE  /\ DOMAIN SweptRuns = DOMAIN runs
           /\ \A r \in DOMAIN runs :
                 /\ SweptRuns[r] \in Run
                 /\ SweptRuns[r].events = runs[r].events
                 /\ SweptRuns[r].outcome = runs[r].outcome
                 /\ SweptRuns[r].task = "done" <=> runs[r].task = "done"
                 /\ SweptRuns[r].task = "running" => r \in Known
BY DEF SweptRuns, Run, Known, BackgroundInv, MapAgrees

\* The map, after a request that has swept it and changed nothing else.
LEMMA SweepKeeps ==
    ASSUME BackgroundInv, Sweep
    PROVE  /\ DOMAIN runs' = DOMAIN runs /\ \A r \in DOMAIN runs' : runs'[r] \in Run
           /\ expired' \in Seq(Tomb) /\ background' \subseteq background
           /\ ExpiredIds' \subseteq ExpiredIds \cup Stale
           /\ MapAgrees'
<1>1. runs' = SweptRuns /\ background' = Known /\ expired' = SweptTombs
  BY DEF Sweep
<1>2. ExpiredIds' = SweptIds
  BY <1>1 DEF ExpiredIds, SweptIds
<1>3. Known \subseteq background /\ Stale \subseteq background /\ Known \cap Stale = {}
  BY DEF Known, Stale
<1>4. IsFiniteSet(Known)
  BY <1>3, FS_Subset DEF BackgroundInv, MapAgrees
<1>5. MapAgrees'
  BY <1>1, <1>2, <1>3, <1>4, SweptTombFacts, SweptRunFacts DEF BackgroundInv, MapAgrees
<1> QED BY <1>1, <1>2, <1>3, <1>5, SweptTombFacts, SweptRunFacts

(***************************************************************************)
(* The steps of the background                                             *)
(***************************************************************************)

\* No run a stream reads has moved on.
LEMMA StreamsStay ==
    ASSUME BackgroundInv, streams' = streams,
           \A r \in DOMAIN runs :
              /\ r \in DOMAIN runs' /\ runs'[r].events = runs[r].events
              /\ runs'[r].task = "done" <=> runs[r].task = "done"
    PROVE  Behind' /\ NoLostWakeup'
BY DEF BackgroundInv, Behind, NoLostWakeup

\* What clients were told stays so while no outcome is replaced, and no run
\* comes back to the map or becomes a tombstone after it left it.
LEMMA ToldStays ==
    ASSUME BackgroundInv, polled' = polled,
           \A r \in DOMAIN runs :
              /\ r \in DOMAIN runs'
              /\ runs'[r].outcome = runs[r].outcome \/ runs[r].outcome = "none"
              /\ r \in background' => r \in background
              /\ r \in ExpiredIds' => r \in ExpiredIds \/ r \in background
    PROVE  ToldSo'
BY DEF BackgroundInv, ToldSo

\* A waiting stream of run r is woken, the others stay.
LEMMA WakesThem ==
    ASSUME BackgroundInv, NEW r \in DOMAIN runs, runs[r].task # "done", streams' = Woken(r),
           DOMAIN runs' = DOMAIN runs,
           \A q \in DOMAIN runs : q # r => runs'[q] = runs[q],
           runs'[r].events \in Nat, runs'[r].events >= runs[r].events
    PROVE  /\ DOMAIN streams' \subseteq Streams /\ \A s \in DOMAIN streams' : streams'[s] \in Stream
           /\ Behind' /\ NoLostWakeup'
<1>1. DOMAIN streams' = DOMAIN streams
  BY DEF Woken
<1>2. ASSUME NEW s \in DOMAIN streams'
      PROVE  /\ streams'[s] \in Stream /\ streams'[s].run = streams[s].run
             /\ streams'[s].index = streams[s].index
             /\ streams'[s].pc = IF streams[s].run = r /\ streams[s].pc = "waiting"
                                 THEN "reading" ELSE streams[s].pc
  <2>1. streams[s] \in Stream
    BY <1>1 DEF BackgroundInv
  <2>2. streams'[s] = IF streams[s].run = r /\ streams[s].pc = "waiting"
                      THEN [streams[s] EXCEPT !.pc = "reading"] ELSE streams[s]
    BY <1>1 DEF Woken
  <2> QED BY <2>1, <2>2 DEF Stream
<1>3. ASSUME NEW s \in DOMAIN streams'
      PROVE  /\ streams'[s].run \in DOMAIN runs' /\ streams'[s].index <= runs'[streams'[s].run].events
             /\ streams'[s].pc \in {"waiting", "ended"} =>
                   /\ streams'[s].index = runs'[streams'[s].run].events
                   /\ (streams'[s].pc = "ended") = (runs'[streams'[s].run].task = "done")
  <2>1. /\ streams[s].run \in DOMAIN runs /\ streams[s].index <= runs[streams[s].run].events
        /\ streams[s].index \in Nat /\ runs[r].events \in Nat
    BY <1>1 DEF BackgroundInv, Behind, Stream, Run
  <2>2. streams[s].pc \in {"waiting", "ended"} =>
           /\ streams[s].index = runs[streams[s].run].events
           /\ (streams[s].pc = "ended") = (runs[streams[s].run].task = "done")
    BY <1>1 DEF BackgroundInv, NoLostWakeup
  <2>3. CASE streams[s].run = r
    BY <1>2, <2>1, <2>2, <2>3
  <2>4. CASE streams[s].run # r
    BY <1>2, <2>1, <2>2, <2>4
  <2> QED BY <2>3, <2>4
<1>4. Behind' /\ NoLostWakeup'
  BY <1>3 DEF Behind, NoLostWakeup
<1> QED BY <1>1, <1>2, <1>4 DEF BackgroundInv

LEMMA StartStep ==
    ASSUME BackgroundInv, NEW r \in RunIds, Start(r)
    PROVE  BackgroundInv'
<1> DEFINE new == [started |-> now, task |-> "running", events |-> 0, outcome |-> "none"]
<1>1. /\ r \notin DOMAIN runs /\ runs' = With(SweptRuns, r, new)
      /\ background' = Known \cup {r} /\ expired' = SweptTombs
      /\ UNCHANGED <<now, streams, polled>>
  BY DEF Start
<1>2. new \in Run /\ new.task = "running" /\ new.outcome = "none"
  BY DEF Run, Outcomes, BackgroundInv
<1> HIDE DEF new
<1>3. /\ DOMAIN runs' = DOMAIN runs \cup {r} /\ runs'[r] = new
      /\ \A q \in DOMAIN runs : runs'[q] = SweptRuns[q]
  BY <1>1, SweptRunFacts DEF With
<1>4. ExpiredIds' = SweptIds
  BY <1>1 DEF ExpiredIds, SweptIds
<1>5. Known \subseteq background /\ Stale \subseteq background /\ Known \cap Stale = {}
  BY DEF Known, Stale
<1>6. IsFiniteSet(background')
  BY <1>1, <1>5, FS_Subset, FS_AddElement DEF BackgroundInv, MapAgrees
<1>7. ExpiredIds' \subseteq ExpiredIds \cup Stale
  BY <1>4, SweptTombFacts
<1>8. MapAgrees'
  BY <1>1, <1>2, <1>3, <1>5, <1>6, <1>7, SweptRunFacts DEF BackgroundInv, MapAgrees
<1>9. Behind' /\ NoLostWakeup'
  BY <1>1, <1>3, StreamsStay, SweptRunFacts
<1>10. ToldSo'
  BY <1>1, <1>3, <1>5, <1>7, ToldStays, SweptRunFacts
<1>11. DOMAIN runs' \subseteq RunIds /\ \A q \in DOMAIN runs' : runs'[q] \in Run
  BY <1>2, <1>3, SweptRunFacts DEF BackgroundInv
<1> QED BY <1>1, <1>8, <1>9, <1>10, <1>11, SweptTombFacts DEF BackgroundInv

LEMMA EmitStep ==
    ASSUME BackgroundInv, NEW r \in RunIds, Emit(r)
    PROVE  BackgroundInv'
<1>1. /\ r \in DOMAIN runs /\ runs[r].task = "running" /\ runs[r].events < MaxEvents
      /\ runs' = [runs EXCEPT ![r].events = @ + 1] /\ streams' = Woken(r)
      /\ UNCHANGED <<now, background, expired, polled>>
  BY DEF Emit
<1>2. /\ DOMAIN runs' = DOMAIN runs /\ \A q \in DOMAIN runs : q # r => runs'[q] = runs[q]
      /\ runs'[r] = [runs[r] EXCEPT !.events = @ + 1]
  BY <1>1
<1>3. /\ runs'[r] \in Run /\ runs'[r].events = runs[r].events + 1 /\ runs[r].events \in Nat
      /\ runs'[r].task = runs[r].task /\ runs'[r].outcome = runs[r].outcome
  BY <1>1, <1>2 DEF BackgroundInv, Run
<1>4. ExpiredIds' = ExpiredIds
  BY <1>1 DEF ExpiredIds
<1>5. /\ DOMAIN streams' \subseteq Streams /\ \A s \in DOMAIN streams' : streams'[s] \in Stream
      /\ Behind' /\ NoLostWakeup'
  BY <1>1, <1>2, <1>3, WakesThem
<1>6. MapAgrees' /\ ToldSo'
  BY <1>1, <1>2, <1>3, <1>4, ToldStays DEF BackgroundInv, MapAgrees
<1> QED BY <1>1, <1>2, <1>3, <1>5, <1>6 DEF BackgroundInv

\* The task of run r ends, and the run may leave the map on the way.
LEMMA EndStep ==
    ASSUME BackgroundInv, NEW r \in DOMAIN runs, runs[r].task # "done",
           NEW outcome \in Outcomes \ {"none"}, End(r, outcome), UNCHANGED <<now, polled>>,
           \/ UNCHANGED <<background, expired>>
           \/ /\ runs[r].task = "running" /\ background' = background \ {r}
              /\ expired' = Append(expired, [id |-> r, at |-> now])
    PROVE  BackgroundInv'
<1>1. /\ DOMAIN runs' = DOMAIN runs /\ \A q \in DOMAIN runs : q # r => runs'[q] = runs[q]
      /\ streams' = Woken(r)
  BY DEF End
<1>2. /\ runs'[r] \in Run /\ runs'[r].events = runs[r].events /\ runs[r].events \in Nat
      /\ runs'[r].task = "done" /\ runs'[r].outcome = outcome /\ outcome # "none"
      /\ runs[r].outcome = "none"
  <2>1. runs'[r] = [runs[r] EXCEPT !.task = "done", !.outcome = outcome]
    BY DEF End
  <2>2. runs[r] \in Run /\ runs[r].outcome = "none"
    BY DEF BackgroundInv, MapAgrees
  <2>3. runs'[r] \in Run
    BY <2>1, <2>2 DEF Run
  <2>4. runs[r].events \in Nat /\ runs'[r].events = runs[r].events
    BY <2>1, <2>2 DEF Run
  <2>5. runs'[r].task = "done" /\ runs'[r].outcome = outcome
    BY <2>1, <2>2 DEF Run
  <2> QED BY <2>2, <2>3, <2>4, <2>5
<1>3. /\ DOMAIN streams' \subseteq Streams /\ \A s \in DOMAIN streams' : streams'[s] \in Stream
      /\ Behind' /\ NoLostWakeup'
  BY <1>1, <1>2, WakesThem
<1>4. /\ expired' \in Seq(Tomb) /\ background' \subseteq background
      /\ ExpiredIds' \subseteq ExpiredIds \cup (background \ background')
      /\ \A q \in DOMAIN runs : q # r /\ q \in background => q \in background'
  <2>1. CASE UNCHANGED <<background, expired>>
    BY <2>1 DEF BackgroundInv, ExpiredIds
  <2>2. CASE /\ runs[r].task = "running" /\ background' = background \ {r}
             /\ expired' = Append(expired, [id |-> r, at |-> now])
    <3>1. expired \in Seq(Tomb) /\ [id |-> r, at |-> now] \in Tomb /\ r \in background
      BY <2>2 DEF BackgroundInv, MapAgrees, Tomb
    <3>2. /\ expired' \in Seq(Tomb) /\ DOMAIN expired' = DOMAIN expired \cup {Len(expired) + 1}
          /\ \A i \in DOMAIN expired : expired'[i] = expired[i]
          /\ expired'[Len(expired) + 1] = [id |-> r, at |-> now]
      BY <2>2, <3>1
    <3>3. ExpiredIds' \subseteq ExpiredIds \cup {r}
      BY <3>2 DEF ExpiredIds
    <3> QED BY <2>2, <3>1, <3>2, <3>3
  <2> QED BY <2>1, <2>2
<1>5. IsFiniteSet(background')
  BY <1>4, FS_Subset DEF BackgroundInv, MapAgrees
<1>6. MapAgrees'
  BY <1>1, <1>2, <1>4, <1>5 DEF BackgroundInv, MapAgrees
<1>7. ToldSo'
  BY <1>1, <1>2, <1>4, ToldStays
<1> QED BY <1>1, <1>2, <1>3, <1>4, <1>6, <1>7 DEF BackgroundInv

\* A stream moves within what its run has, and the runs stay or are swept.
LEMMA StreamStep ==
    ASSUME BackgroundInv, UNCHANGED <<now, polled>>, Sweep \/ UNCHANGED <<runs, background, expired>>,
           DOMAIN streams' \subseteq Streams,
           \A s \in DOMAIN streams' :
              \/ s \in DOMAIN streams /\ streams'[s] = streams[s]
              \/ /\ streams'[s] \in Stream /\ streams'[s].run \in DOMAIN runs
                 /\ streams'[s].index <= runs[streams'[s].run].events
                 /\ streams'[s].pc \in {"waiting", "ended"} =>
                       /\ streams'[s].index = runs[streams'[s].run].events
                       /\ (streams'[s].pc = "ended") = (runs[streams'[s].run].task = "done")
    PROVE  BackgroundInv'
<1>1. /\ DOMAIN runs' = DOMAIN runs /\ \A r \in DOMAIN runs' : runs'[r] \in Run
      /\ expired' \in Seq(Tomb) /\ background' \subseteq background
      /\ ExpiredIds' \subseteq ExpiredIds \cup background
      /\ MapAgrees'
      /\ \A r \in DOMAIN runs :
            /\ runs'[r].events = runs[r].events /\ runs'[r].outcome = runs[r].outcome
            /\ runs'[r].task = "done" <=> runs[r].task = "done"
  <2>1. CASE Sweep
    BY <2>1, SweepKeeps, SweptRunFacts DEF Sweep, Stale
  <2>2. CASE UNCHANGED <<runs, background, expired>>
    BY <2>2 DEF BackgroundInv, MapAgrees, ExpiredIds
  <2> QED BY <2>1, <2>2
<1>2. \A s \in DOMAIN streams' : streams'[s] \in Stream
  BY DEF BackgroundInv
<1>3. Behind' /\ NoLostWakeup'
  BY <1>1 DEF BackgroundInv, Behind, NoLostWakeup
<1>4. ToldSo'
  BY <1>1, ToldStays
<1> QED BY <1>1, <1>2, <1>3, <1>4 DEF BackgroundInv

\* The streams of one that moves; the others stay.
LEMMA OpenStep ==
    ASSUME BackgroundInv, NEW s \in Streams, NEW r \in RunIds, Open(s, r)
    PROVE  BackgroundInv'
<1> DEFINE new == [run |-> r, index |-> 0, pc |-> "opening"]
<1>1. /\ r \in DOMAIN runs /\ Sweep /\ UNCHANGED <<now, polled>>
      /\ streams' = With(streams, s, new)
  BY DEF Open
<1>2. new \in Stream /\ new.run = r /\ new.index = 0 /\ new.pc = "opening"
  BY DEF Stream
<1> HIDE DEF new
<1>3. runs[r].events \in Nat
  BY <1>1 DEF BackgroundInv, Run
<1>4. /\ DOMAIN streams' = DOMAIN streams \cup {s} /\ streams'[s] = new
      /\ \A t \in DOMAIN streams : t # s => streams'[t] = streams[t]
  BY <1>1 DEF With
<1> QED BY <1>1, <1>2, <1>3, <1>4, StreamStep DEF BackgroundInv

LEMMA BeginStep ==
    ASSUME BackgroundInv, NEW s \in Streams, BeginStream(s)
    PROVE  BackgroundInv'
<1>1. /\ s \in DOMAIN streams /\ Sweep /\ UNCHANGED <<now, polled>>
      /\ \E pc \in {"reading", "broken"} : streams' = [streams EXCEPT ![s].pc = pc]
  BY DEF BeginStream, StreamAt, Moves
<1>2. streams[s] \in Stream
  BY <1>1 DEF BackgroundInv
<1>3. /\ DOMAIN streams' = DOMAIN streams
      /\ \A t \in DOMAIN streams : t # s => streams'[t] = streams[t]
      /\ streams'[s] \in Stream /\ streams'[s].run = streams[s].run
      /\ streams'[s].index = streams[s].index /\ streams'[s].pc \in {"reading", "broken"}
  BY <1>1, <1>2 DEF Stream
<1>4. streams[s].run \in DOMAIN runs /\ streams[s].index <= runs[streams[s].run].events
  BY <1>1 DEF BackgroundInv, Behind
<1> QED BY <1>1, <1>3, <1>4, StreamStep DEF BackgroundInv

LEMMA ReadStep ==
    ASSUME BackgroundInv, NEW s \in Streams, Read(s)
    PROVE  BackgroundInv'
<1> DEFINE run == runs[streams[s].run]
<1>1. /\ s \in DOMAIN streams /\ UNCHANGED <<now, runs, background, expired, polled>>
      /\ \/ /\ streams[s].index < run.events
            /\ streams' = [streams EXCEPT ![s].index = @ + 1]
         \/ /\ streams[s].index = run.events
            /\ streams' = [streams EXCEPT ![s].pc = IF run.task = "done" THEN "ended" ELSE "waiting"]
      /\ streams[s].pc = "reading"
  BY DEF Read, StreamAt, Moves
<1>2. /\ streams[s] \in Stream /\ streams[s].run \in DOMAIN runs
      /\ run.events \in Nat /\ streams[s].index \in Nat
  BY <1>1 DEF BackgroundInv, Behind, Run, Stream
<1>3. DOMAIN streams' = DOMAIN streams /\ \A t \in DOMAIN streams : t # s => streams'[t] = streams[t]
  BY <1>1
<1>4. CASE streams[s].index < run.events /\ streams' = [streams EXCEPT ![s].index = @ + 1]
  <2>1. /\ streams'[s] \in Stream /\ streams'[s].run = streams[s].run
        /\ streams'[s].index = streams[s].index + 1 /\ streams'[s].pc = "reading"
    BY <1>1, <1>2, <1>4 DEF Stream
  <2>2. UNCHANGED <<now, polled>> /\ UNCHANGED <<runs, background, expired>>
    BY <1>1
  <2>3. DOMAIN streams' \subseteq Streams
    BY <1>3 DEF BackgroundInv
  <2>4. /\ streams'[s] \in Stream /\ streams'[s].run \in DOMAIN runs
        /\ streams'[s].index <= runs[streams'[s].run].events
        /\ streams'[s].pc \notin {"waiting", "ended"}
    <3>1. streams[s].index + 1 <= run.events
      BY <1>2, <1>4
    <3> QED BY <1>2, <2>1, <3>1
  <2> QED BY <1>3, <2>2, <2>3, <2>4, StreamStep
<1>5. CASE /\ streams[s].index = run.events
           /\ streams' = [streams EXCEPT ![s].pc = IF run.task = "done" THEN "ended" ELSE "waiting"]
  <2>1. /\ streams'[s] \in Stream /\ streams'[s].run = streams[s].run
        /\ streams'[s].index = run.events
        /\ streams'[s].pc = IF run.task = "done" THEN "ended" ELSE "waiting"
    BY <1>1, <1>2, <1>5 DEF Stream
  <2> QED BY <1>1, <1>2, <1>3, <1>5, <2>1, StreamStep DEF BackgroundInv
<1> QED BY <1>1, <1>4, <1>5

\* What a client is told now, where it is told anything else than before, is
\* further on, and is so.
LEMMA PollStep ==
    ASSUME BackgroundInv, NEW r \in RunIds, Poll(r)
    PROVE  /\ BackgroundInv'
           /\ \A q \in DOMAIN polled :
                 polled'[q] # polled[q] => Rank(polled'[q]) > Rank(polled[q])
<1>1. r \in DOMAIN runs /\ Sweep /\ polled' = With(polled, r, Status(r)) /\ UNCHANGED <<now, streams>>
  BY DEF Poll
<1>2. /\ DOMAIN runs' = DOMAIN runs /\ \A q \in DOMAIN runs' : runs'[q] \in Run
      /\ expired' \in Seq(Tomb) /\ background' = Known
      /\ ExpiredIds' \subseteq ExpiredIds \cup Stale /\ ExpiredIds' = SweptIds
      /\ MapAgrees'
      /\ \A q \in DOMAIN runs :
            /\ runs'[q].events = runs[q].events /\ runs'[q].outcome = runs[q].outcome
            /\ runs'[q].task = "done" <=> runs[q].task = "done"
  BY <1>1, SweepKeeps, SweptRunFacts DEF Sweep, ExpiredIds, SweptIds
<1>3. Stale \subseteq background /\ Known \subseteq background
  BY DEF Stale, Known
<1>4. runs[r].outcome \in Outcomes
  BY <1>1 DEF BackgroundInv, Run
<1>5. /\ Status(r) \in Answered
      /\ Status(r) = "result" => runs[r].outcome = "result"
      /\ Status(r) = "failed" => runs[r].outcome \in {"failed", "cancelled", "expired"}
      /\ Status(r) = "expired" => r \notin Known
      /\ Status(r) = "unknown" => r \notin Known /\ r \notin SweptIds
      /\ r \in Known /\ runs[r].outcome = "result" => Status(r) = "result"
      /\ r \in Known /\ runs[r].outcome \in {"failed", "cancelled", "expired"} => Status(r) = "failed"
      /\ r \notin Known => Status(r) = IF r \in SweptIds THEN "expired" ELSE "unknown"
  BY <1>4 DEF Status, Answered, Outcomes
<1>6. /\ DOMAIN polled' = DOMAIN polled \cup {r} /\ polled'[r] = Status(r)
      /\ \A q \in DOMAIN polled : q # r => polled'[q] = polled[q]
  BY <1>1 DEF With
<1>7. Behind' /\ NoLostWakeup'
  BY <1>1, <1>2, StreamsStay
<1>8. ToldSo'
  BY <1>1, <1>2, <1>3, <1>5, <1>6 DEF BackgroundInv, ToldSo
<1>9. BackgroundInv'
  BY <1>1, <1>2, <1>7, <1>8 DEF BackgroundInv
<1>10. ASSUME NEW q \in DOMAIN polled, polled'[q] # polled[q]
       PROVE  Rank(polled'[q]) > Rank(polled[q])
  <2>1. q = r /\ polled'[r] = Status(r) /\ polled[r] \in Answered
    BY <1>6, <1>10 DEF BackgroundInv, ToldSo
  <2>2. CASE polled[r] = "background"
    BY <1>5, <1>10, <2>1, <2>2 DEF Rank, Answered
  <2>3. CASE polled[r] \in {"result", "failed"}
    <3>1. r \notin Known
      BY <1>5, <1>10, <2>1, <2>3 DEF BackgroundInv, ToldSo
    <3> QED BY <1>5, <2>1, <2>3, <3>1 DEF Rank
  <2>4. CASE polled[r] = "expired"
    <3>1. r \notin Known
      BY <1>3, <1>10, <2>1, <2>4 DEF BackgroundInv, ToldSo
    <3> QED BY <1>5, <1>10, <2>1, <2>4, <3>1 DEF Rank
  <2>5. CASE polled[r] = "unknown"
    <3>1. r \notin Known /\ r \notin SweptIds
      BY <1>2, <1>3, <1>10, <2>1, <2>5 DEF BackgroundInv, ToldSo
    <3> QED BY <1>5, <1>10, <2>1, <2>5, <3>1
  <2> QED BY <2>1, <2>2, <2>3, <2>4, <2>5 DEF Answered
<1> QED BY <1>9, <1>10

LEMMA ClearStep ==
    ASSUME BackgroundInv, ClearBackground
    PROVE  BackgroundInv'
<1>1. /\ DOMAIN runs' = DOMAIN runs /\ background' = {} /\ expired' = <<>>
      /\ UNCHANGED <<now, streams, polled>>
  BY DEF ClearBackground
<1>2. \A r \in DOMAIN runs :
         /\ runs'[r] \in Run /\ runs'[r].events = runs[r].events
         /\ runs'[r].outcome = runs[r].outcome /\ runs'[r].task # "running"
         /\ runs'[r].task = "done" <=> runs[r].task = "done"
  BY DEF ClearBackground, BackgroundInv, MapAgrees, Run
<1>3. ExpiredIds' = {}
  BY <1>1 DEF ExpiredIds
<1>4. MapAgrees'
  BY <1>1, <1>2, <1>3, FS_EmptySet DEF BackgroundInv, MapAgrees
<1>5. Behind' /\ NoLostWakeup' /\ ToldSo'
  BY <1>1, <1>2, <1>3, StreamsStay, ToldStays
<1> QED BY <1>1, <1>2, <1>4, <1>5 DEF BackgroundInv

LEMMA BackgroundInitInv == BackgroundInit => BackgroundInv
<1> SUFFICES ASSUME BackgroundInit PROVE BackgroundInv
  OBVIOUS
<1>1. ExpiredIds = {}
  BY DEF BackgroundInit, ExpiredIds
<1>2. MapAgrees
  BY <1>1, FS_EmptySet DEF BackgroundInit, MapAgrees, Empty
<1> QED BY <1>2 DEF BackgroundInit, BackgroundInv, Behind, NoLostWakeup, ToldSo, Empty

LEMMA BackgroundNextInv ==
    ASSUME BackgroundInv, [BackgroundNext]_backgroundVars
    PROVE  BackgroundInv'
<1>1. ASSUME NEW r \in RunIds, Return(r) \/ Timer(r) \/ Cancelled(r) PROVE BackgroundInv'
  <2>1. /\ r \in DOMAIN runs /\ runs[r].task # "done" /\ UNCHANGED <<now, polled>>
        /\ \E outcome \in Outcomes \ {"none"} : End(r, outcome)
        /\ \/ UNCHANGED <<background, expired>>
           \/ /\ runs[r].task = "running" /\ background' = background \ {r}
              /\ expired' = Append(expired, [id |-> r, at |-> now])
    BY <1>1 DEF Return, Timer, Cancelled, Outcomes
  <2> QED BY <2>1, EndStep
<1>2. ASSUME NEW s \in Streams, Disconnect(s) PROVE BackgroundInv'
  <2>1. /\ UNCHANGED <<now, runs, background, expired, polled>>
        /\ DOMAIN streams' = DOMAIN streams \ {s}
        /\ \A t \in DOMAIN streams' : streams'[t] = streams[t]
    BY <1>2 DEF Disconnect, Without, Restrict
  <2> QED BY <2>1, StreamStep DEF BackgroundInv
<1>3. ASSUME Tick \/ UNCHANGED backgroundVars PROVE BackgroundInv'
  <2>1. UNCHANGED <<runs, background, expired, streams, polled>> /\ now' \in 0 .. MaxTime
    BY <1>3 DEF Tick, backgroundVars, BackgroundInv
  <2>2. MapAgrees' /\ Behind' /\ NoLostWakeup' /\ ToldSo'
    BY <2>1 DEF BackgroundInv, MapAgrees, Behind, NoLostWakeup, ToldSo, ExpiredIds
  <2> QED BY <2>1, <2>2 DEF BackgroundInv
<1> QED
  BY <1>1, <1>2, <1>3, StartStep, EmitStep, PollStep, OpenStep, BeginStep, ReadStep, ClearStep
     DEF BackgroundNext

LEMMA BackgroundInvariant == BackgroundSpec => []BackgroundInv
<1>1. BackgroundSpec => BackgroundInit /\ [][BackgroundNext]_backgroundVars
  BY PTL DEF BackgroundSpec
<1> QED BY <1>1, BackgroundInitInv, BackgroundNextInv, PTL

\* Type correctness of the map, its tombstones, the tasks, the streams.
THEOREM BackgroundTypeCorrect == BackgroundSpec => []BackgroundTypeOK
<1>1. BackgroundInv => \A i \in DOMAIN expired : expired[i] \in Tomb
  BY DEF BackgroundInv
<1>2. BackgroundInv => BackgroundTypeOK
  BY <1>1 DEF BackgroundInv, BackgroundTypeOK, MapAgrees, ToldSo, Tomb
<1> QED BY <1>2, BackgroundInvariant, PTL

\* No wakeup is lost, for any number of streams of a run.
THEOREM WakeupsKept == BackgroundSpec => []NoLostWakeup
<1>1. BackgroundInv => NoLostWakeup
  BY DEF BackgroundInv
<1> QED BY <1>1, BackgroundInvariant, PTL

\* What a polling client is told of a run only moves forward.
THEOREM StatusMovesForward == BackgroundSpec => AnswersMoveForward
<1>1. ASSUME BackgroundInv, [BackgroundNext]_backgroundVars
      PROVE  [\A r \in DOMAIN polled :
                 polled'[r] # polled[r] => Rank(polled'[r]) > Rank(polled[r])]_backgroundVars
  <2>1. polled' = polled \/ \E r \in RunIds : Poll(r)
    BY <1>1 DEF BackgroundNext, backgroundVars, Start, Emit, Return, Timer, Cancelled, Open,
                BeginStream, Read, Disconnect, ClearBackground, Tick
  <2> QED BY <1>1, <2>1, PollStep
<1>2. BackgroundSpec => [][BackgroundNext]_backgroundVars
  BY PTL DEF BackgroundSpec
<1> QED BY <1>1, <1>2, BackgroundInvariant, PTL DEF AnswersMoveForward
(***************************************************************************)
(* Conversations: the inductive invariant                                  *)
(***************************************************************************)
Kinds == {"user", "running", "tool"} \union ReplyKinds
MessageType == [kind : Kinds, turn : Nat]
Log == Seq(MessageType)
DocType == [id : Nat, log : Log]
PageType == [open : BOOLEAN, view : DocType, list : SUBSET Nat, touched : BOOLEAN, controller : Nat]
Steps == {"sent", "throws", "thinking", "tool", "tooldone", "answered", "failed", "done"}
TurnType == [page : Pages, id : Nat, current : Log, runner : Log, pc : Steps]

HandlerOK(h) ==
    /\ h.page \in Pages
    /\ h.op = "list" => DOMAIN h.found \subseteq Nat
    /\ h.op \in {"select", "remove", "removed"} => h.target \in Nat
    /\ h.op = "cleared" => h.target \subseteq Nat
    /\ h.op \in {"remove", "removed"} => h.listed \subseteq Nat
    /\ h.op = "remove" =>
          h = [page |-> h.page, op |-> "remove", target |-> h.target, shown |-> h.shown,
               listed |-> h.listed]

\* Every copy of a conversation there is has a log of S.
InStore(S) == \A c \in DOMAIN db : db[c] \in S
OnPages(S) == \A p \in Pages : page[p].view.log \in S
InTurns(S) == \A r \in Turn : turns[r].current \in S /\ turns[r].runner \in S
InHandlers(S) ==
    \A h \in handlers :
        /\ h.op = "select" => h.found \subseteq S
        /\ h.op = "list" => \A c \in DOMAIN h.found : h.found[c] \in S
AllIn(S) == InStore(S) /\ OnPages(S) /\ InTurns(S) /\ InHandlers(S)

PagesShape ==
    /\ DOMAIN db \subseteq Nat
    /\ page \in [Pages -> PageType]
    /\ turns \in Seq(TurnType)
    /\ \A h \in handlers : HandlerOK(h)
    /\ minted \in Nat /\ gone \subseteq Nat
PagesTyped == PagesShape /\ AllIn(Log)

\* What a step may write, S has, if it has what there is: an empty log, the next
\* question, a message of a turn that was not stopped, and a decision.
Admits(S) ==
    /\ <<>> \in S
    /\ Len(turns') = Len(turns) + 1 => \A l \in S : Append(l, Message("user", Len(turns) + 1)) \in S
    /\ \A r \in Turn, kind \in Kinds \ {"user"} :
          Active(r) /\ turns[r].pc # "done" =>
              /\ Append(turns[r].current, Message(kind, r)) \in S
              /\ Append(turns[r].runner, Message(kind, r)) \in S
    /\ \A l \in S : \A i \in DOMAIN l :
          l[i].kind = "pending" => [l EXCEPT ![i].kind = "decided"] \in S

LEMMA PageFacts ==
    ASSUME PagesTyped, NEW p \in Pages
    PROVE  /\ page[p] \in PageType /\ page[p].view \in DocType /\ page[p].view.id \in Nat
           /\ page[p].view.log \in Log /\ page[p].list \subseteq Nat
           /\ Interrupted(page[p]) \in PageType /\ Interrupted(page[p]).view = page[p].view
           /\ Interrupted(page[p]).list = page[p].list
<1>1. page[p] \in PageType
  BY DEF PagesTyped, PagesShape
<1>2. /\ Interrupted(page[p]) \in PageType /\ Interrupted(page[p]).view = page[p].view
      /\ Interrupted(page[p]).list = page[p].list
  BY <1>1 DEF Interrupted, PageType
<1> QED BY <1>1, <1>2 DEF PageType, DocType

LEMMA PersistKeeps ==
    ASSUME PagesTyped, NEW S \in SUBSET Log, AllIn(S), NEW p \in Pages, NEW s \in PageType,
           NEW doc \in DocType, doc.log \in S, NEW ok \in BOOLEAN, Persist(p, s, doc, ok)
    PROVE  /\ DOMAIN db' \subseteq Nat /\ InStore(S)'
           /\ page' \in [Pages -> PageType] /\ OnPages(S)'
<1>1. doc.id \in Nat /\ doc.log \in Log
  BY DEF DocType
<1>2. Displaying(s, doc) \in PageType /\ Displaying(s, doc).view = doc
  BY <1>1 DEF Displaying, PageType
<1>3. page' = [page EXCEPT ![p] = Displaying(s, doc)]
  BY DEF Persist
<1>4. page' \in [Pages -> PageType] /\ OnPages(S)'
  BY <1>2, <1>3 DEF PagesTyped, PagesShape, AllIn, OnPages
<1>5. DOMAIN db' \subseteq Nat /\ InStore(S)'
  <2>1. CASE db' = With(db, doc.id, doc.log)
    BY <1>1, <2>1 DEF With, PagesTyped, PagesShape, AllIn, InStore
  <2>2. CASE db' = db
    BY <2>2 DEF PagesTyped, PagesShape, AllIn, InStore
  <2> QED BY <2>1, <2>2 DEF Persist
<1> QED BY <1>4, <1>5

\* One turn goes on, the others stay as they are.
LEMMA TurnMoves ==
    ASSUME PagesTyped, NEW S \in SUBSET Log, AllIn(S), NEW r \in Turn, NEW t \in TurnType,
           t.current \in S, t.runner \in S, turns' = [turns EXCEPT ![r] = t]
    PROVE  /\ turns' \in Seq(TurnType) /\ Len(turns') = Len(turns) /\ InTurns(S)'
           /\ turns'[r] = t /\ \A q \in Turn : q # r => turns'[q] = turns[q]
<1>1. turns \in Seq(TurnType) /\ r \in 1 .. Len(turns)
  BY DEF PagesTyped, PagesShape, Turn
<1>2. turns' \in Seq(TurnType) /\ Len(turns') = Len(turns)
  BY <1>1
<1>3. turns'[r] = t /\ \A q \in Turn : q # r => turns'[q] = turns[q]
  BY <1>1 DEF Turn
<1>4. InTurns(S)'
  BY <1>2, <1>3 DEF InTurns, Turn, AllIn
<1> QED BY <1>2, <1>3, <1>4

(***************************************************************************)
(* Conversations: the steps of a turn                                      *)
(***************************************************************************)

\* A turn goes on from its own copies, and with another tool at most, or it is over.
Onward(old, new, r) ==
    /\ old.pc # "done"
    /\ \/ new.pc = "done" /\ new.current = <<>> /\ new.runner = <<>>
       \/ /\ new.pc # "done"
          /\ new.current \in {old.current, old.runner}
          /\ new.runner \in {old.runner, Append(old.runner, Message("tool", r))}

Stepped(r, S) ==
    /\ \E t \in TurnType : /\ turns' = [turns EXCEPT ![r] = t] /\ Onward(turns[r], t, r)
                           /\ t.current \in S /\ t.runner \in S
    /\ DOMAIN db' \subseteq Nat /\ InStore(S)'
    /\ page' \in [Pages -> PageType] /\ OnPages(S)'
    /\ UNCHANGED <<handlers, minted, gone>>

LEMMA TurnFacts ==
    ASSUME PagesTyped, NEW r \in Turn, NEW S, AllIn(S)
    PROVE  /\ turns[r] \in TurnType /\ turns[r].page \in Pages /\ turns[r].id \in Nat
           /\ turns[r].current \in Log /\ turns[r].runner \in Log /\ turns[r].pc \in Steps
           /\ turns[r].current \in S /\ turns[r].runner \in S
           /\ r \in Nat
<1>1. turns[r] \in TurnType /\ r \in Nat
  BY DEF PagesTyped, PagesShape, Turn
<1> QED BY <1>1 DEF TurnType, AllIn, InTurns

\* The turn is at another step, with the same copies.
LEMMA SameCopies ==
    ASSUME PagesTyped, NEW r \in Turn, NEW pc \in Steps \ {"done"}, turns[r].pc # "done",
           NEW S, AllIn(S), turns' = [turns EXCEPT ![r].pc = pc]
    PROVE  \E t \in TurnType : /\ turns' = [turns EXCEPT ![r] = t] /\ Onward(turns[r], t, r)
                              /\ t.current \in S /\ t.runner \in S
<1> DEFINE t == [turns[r] EXCEPT !.pc = pc]
<1>1. /\ t \in TurnType /\ t.pc = pc /\ t.current = turns[r].current /\ t.runner = turns[r].runner
  BY TurnFacts DEF TurnType
<1>2. turns' = [turns EXCEPT ![r] = t]
  OBVIOUS
<1> HIDE DEF t
<1>3. Onward(turns[r], t, r) /\ t.current \in S /\ t.runner \in S
  BY <1>1, TurnFacts DEF Onward
<1> QED BY <1>1, <1>2, <1>3

LEMMA SavesKeeps ==
    ASSUME PagesTyped, NEW S \in SUBSET Log, AllIn(S), NEW r \in Turn, turns[r].pc # "done",
           NEW log \in S, NEW pc \in Steps \ {"done"}, Saves(r, log, pc),
           UNCHANGED <<handlers, minted, gone>>
    PROVE  Stepped(r, S)
<1>1. PICK ok \in StoreOutcomes :
          /\ Persist(turns[r].page, page[turns[r].page], Doc(turns[r].id, log), ok)
          /\ turns' = [turns EXCEPT ![r].pc = IF ok THEN pc ELSE "throws"]
  BY DEF Saves
<1>2. ok \in BOOLEAN
  BY ConversationsAssumption
<1>3. Doc(turns[r].id, log) \in DocType /\ Doc(turns[r].id, log).log = log
  BY TurnFacts DEF Doc, DocType
<1>4. turns[r].page \in Pages /\ page[turns[r].page] \in PageType
  BY TurnFacts, PageFacts
<1>5. /\ DOMAIN db' \subseteq Nat /\ InStore(S)'
      /\ page' \in [Pages -> PageType] /\ OnPages(S)'
  BY <1>1, <1>2, <1>3, <1>4, PersistKeeps
<1>6. (IF ok THEN pc ELSE "throws") \in Steps \ {"done"}
  BY DEF Steps
<1> QED BY <1>1, <1>5, <1>6, SameCopies DEF Stepped

LEMMA TurnSteps ==
    ASSUME PagesTyped, NEW S \in SUBSET Log, AllIn(S), Admits(S), NEW r \in Turn, TurnStep(r)
    PROVE  Stepped(r, S)
<1>1. /\ turns[r] \in TurnType /\ turns[r].page \in Pages /\ turns[r].id \in Nat
      /\ turns[r].current \in S /\ turns[r].runner \in S
  BY TurnFacts
<1>2. ASSUME NEW kind \in Kinds \ {"user"}, Active(r), turns[r].pc # "done"
      PROVE  /\ Append(turns[r].current, Message(kind, r)) \in S
             /\ Append(turns[r].runner, Message(kind, r)) \in S
  BY <1>2 DEF Admits
<1>3. CASE Prepared(r)
  BY <1>1, <1>3, SavesKeeps DEF Prepared, TurnAt, Steps
<1>4. CASE ToolStarts(r)
  <2> DEFINE p == turns[r].page
             doc == Doc(turns[r].id, Append(turns[r].runner, Message("running", r)))
  <2>1. /\ page' = [page EXCEPT ![p].view = doc] /\ turns' = [turns EXCEPT ![r].pc = "tool"]
        /\ Active(r) /\ turns[r].pc = "thinking" /\ UNCHANGED <<db, handlers, minted, gone>>
    BY <1>4 DEF ToolStarts, TurnAt, Going
  <2>2. Append(turns[r].runner, Message("running", r)) \in S
    BY <1>2, <2>1 DEF Kinds
  <2>3. doc \in DocType /\ doc.log \in S
    BY <1>1, <2>2 DEF Doc, DocType
  <2> HIDE DEF doc
  <2>4. page[p] \in PageType
    BY <1>1, PageFacts
  <2>5. [page[p] EXCEPT !.view = doc] \in PageType /\ [page[p] EXCEPT !.view = doc].view = doc
    BY <2>3, <2>4 DEF PageType
  <2>6. page' = [page EXCEPT ![p] = [page[p] EXCEPT !.view = doc]]
    BY <2>1
  <2>7. page' \in [Pages -> PageType] /\ OnPages(S)'
    BY <1>1, <2>3, <2>5, <2>6 DEF PagesTyped, PagesShape, AllIn, OnPages
  <2>8. DOMAIN db' \subseteq Nat /\ InStore(S)'
    BY <2>1 DEF PagesTyped, PagesShape, AllIn, InStore
  <2> QED BY <2>1, <2>7, <2>8, SameCopies DEF Stepped, Steps
<1>5. CASE ToolEnds(r)
  <2>1. Active(r) /\ turns[r].pc # "done"
    BY <1>5 DEF ToolEnds, TurnAt
  <2>2. Append(turns[r].runner, Message("tool", r)) \in S
    BY <1>2, <2>1 DEF Kinds
  <2> QED BY <1>5, <2>1, <2>2, SavesKeeps DEF ToolEnds, Steps
<1>6. CASE ToolReturns(r)
  <2> DEFINE t == [turns[r] EXCEPT !.pc = "thinking",
                                   !.runner = Append(turns[r].runner, Message("tool", r))]
  <2>1. /\ turns' = [turns EXCEPT ![r] = t] /\ UNCHANGED <<db, page, handlers, minted, gone>>
        /\ Active(r) /\ turns[r].pc # "done"
    BY <1>6 DEF ToolReturns, TurnAt
  <2>2. Append(turns[r].runner, Message("tool", r)) \in S
    BY <1>2, <2>1 DEF Kinds
  <2>3. /\ t \in TurnType /\ t.pc = "thinking" /\ t.current = turns[r].current
        /\ t.runner = Append(turns[r].runner, Message("tool", r))
    BY <1>1, <2>2 DEF TurnType, Steps
  <2> HIDE DEF t
  <2>4. Onward(turns[r], t, r)
    BY <2>1, <2>3 DEF Onward
  <2>5. t.current \in S /\ t.runner \in S
    BY <1>1, <2>2, <2>3
  <2>6. DOMAIN db' \subseteq Nat /\ InStore(S)' /\ page' \in [Pages -> PageType] /\ OnPages(S)'
    BY <2>1 DEF PagesTyped, PagesShape, AllIn, InStore, OnPages
  <2> QED BY <2>1, <2>3, <2>4, <2>5, <2>6 DEF Stepped
<1>7. ASSUME NEW kind \in {"answer", "pending"}, TurnAnswers(r, kind) PROVE Stepped(r, S)
  <2> DEFINE p == turns[r].page
             log == Append(turns[r].runner, Message(kind, r))
  <2>1. PICK ok \in StoreOutcomes :
            /\ Persist(p, page[p], Doc(turns[r].id, log), ok)
            /\ turns' = [turns EXCEPT ![r].pc = IF ok THEN "answered" ELSE "throws",
                                      ![r].current = turns[r].runner]
    BY <1>7 DEF TurnAnswers
  <2>2. Active(r) /\ turns[r].pc # "done" /\ UNCHANGED <<handlers, minted, gone>>
    BY <1>7 DEF TurnAnswers, TurnAt
  <2>3. log \in S
    BY <1>2, <2>2 DEF Kinds, ReplyKinds
  <2>4. Doc(turns[r].id, log) \in DocType /\ Doc(turns[r].id, log).log = log /\ ok \in BOOLEAN
    BY <1>1, <2>3, ConversationsAssumption DEF Doc, DocType
  <2> HIDE DEF log
  <2>5. /\ DOMAIN db' \subseteq Nat /\ InStore(S)'
        /\ page' \in [Pages -> PageType] /\ OnPages(S)'
    BY <1>1, <2>1, <2>3, <2>4, PageFacts, PersistKeeps
  <2> DEFINE t == [turns[r] EXCEPT !.pc = IF ok THEN "answered" ELSE "throws",
                                   !.current = turns[r].runner]
  <2>6. turns' = [turns EXCEPT ![r] = t]
    BY <2>1
  <2>7. /\ t \in TurnType /\ t.pc # "done" /\ t.current = turns[r].runner
        /\ t.runner = turns[r].runner
    BY <1>1, TurnFacts DEF TurnType, Steps
  <2> HIDE DEF t
  <2>8. Onward(turns[r], t, r) /\ t.current \in S /\ t.runner \in S
    BY <1>1, <2>2, <2>7 DEF Onward
  <2> QED BY <2>2, <2>5, <2>6, <2>7, <2>8 DEF Stepped
<1>8. CASE Fails(r)
  <2> DEFINE p == turns[r].page
             log == Append(turns[r].current, Message("error", r))
  <2>1. PICK ok \in StoreOutcomes : Persist(p, page[p], Doc(turns[r].id, log), ok)
    BY <1>8 DEF Fails
  <2>2. /\ Active(r) /\ turns[r].pc # "done" /\ UNCHANGED <<handlers, minted, gone>>
        /\ turns' = [turns EXCEPT ![r].pc = "failed"]
    BY <1>8 DEF Fails, TurnAt, Going
  <2>3. log \in S
    BY <1>2, <2>2 DEF Kinds, ReplyKinds
  <2>4. Doc(turns[r].id, log) \in DocType /\ Doc(turns[r].id, log).log = log /\ ok \in BOOLEAN
    BY <1>1, <2>3, ConversationsAssumption DEF Doc, DocType
  <2> HIDE DEF log
  <2>5. /\ DOMAIN db' \subseteq Nat /\ InStore(S)'
        /\ page' \in [Pages -> PageType] /\ OnPages(S)'
    BY <1>1, <2>1, <2>3, <2>4, PageFacts, PersistKeeps
  <2> QED BY <2>2, <2>5, SameCopies DEF Stepped, Steps
<1>9. ASSUME Returns(r), turns[r].pc # "done", UNCHANGED <<db, handlers, minted, gone>>,
             page' \in [Pages -> PageType], OnPages(S)'
      PROVE  Stepped(r, S)
  <2> DEFINE t == [turns[r] EXCEPT !.pc = "done", !.current = <<>>, !.runner = <<>>]
  <2>1. turns' = [turns EXCEPT ![r] = t]
    BY <1>9 DEF Returns
  <2>2. <<>> \in S /\ <<>> \in Log
    BY DEF Admits
  <2>3. t \in TurnType /\ t.pc = "done" /\ t.current = <<>> /\ t.runner = <<>>
    BY <1>1, <2>2 DEF TurnType, Steps
  <2> HIDE DEF t
  <2>4. Onward(turns[r], t, r) /\ t.current \in S /\ t.runner \in S
    BY <1>9, <2>2, <2>3 DEF Onward
  <2>5. DOMAIN db' \subseteq Nat /\ InStore(S)'
    BY <1>9 DEF PagesTyped, PagesShape, AllIn, InStore
  <2> QED BY <1>9, <2>1, <2>3, <2>4, <2>5 DEF Stepped
<1>10. CASE Ends(r)
  <2> DEFINE p == turns[r].page
  <2>1. /\ page' = [page EXCEPT ![p].controller = 0] /\ Returns(r) /\ turns[r].pc # "done"
        /\ UNCHANGED <<db, handlers, minted, gone>>
    BY <1>10 DEF Ends, TurnAt
  <2>2. /\ [page[p] EXCEPT !.controller = 0] \in PageType
        /\ [page[p] EXCEPT !.controller = 0].view = page[p].view
    BY <1>1, PageFacts DEF PageType
  <2>3. page' = [page EXCEPT ![p] = [page[p] EXCEPT !.controller = 0]]
    BY <2>1
  <2>4. page' \in [Pages -> PageType] /\ OnPages(S)'
    BY <1>1, <2>2, <2>3 DEF PagesTyped, PagesShape, AllIn, OnPages
  <2> QED BY <1>9, <2>1, <2>4
<1>11. CASE EndsAborted(r)
  <2>1. page' \in [Pages -> PageType] /\ OnPages(S)'
    BY <1>11 DEF EndsAborted, PagesTyped, PagesShape, AllIn, OnPages
  <2> QED BY <1>9, <1>11, <2>1 DEF EndsAborted
<1> QED BY <1>3, <1>4, <1>5, <1>6, <1>7, <1>8, <1>10, <1>11 DEF TurnStep

(***************************************************************************)
(* Conversations: what the student does, and history operations            *)
(***************************************************************************)

\* Turns, and the ids and deletions that are counted, stay as they are.
LEMMA TurnsStay ==
    ASSUME PagesTyped, NEW S, AllIn(S), UNCHANGED turns
    PROVE  turns' \in Seq(TurnType) /\ InTurns(S)'
BY DEF PagesTyped, PagesShape, AllIn, InTurns, Turn

LEMMA StoreStays ==
    ASSUME PagesTyped, NEW S, AllIn(S), UNCHANGED db
    PROVE  DOMAIN db' \subseteq Nat /\ InStore(S)'
BY DEF PagesTyped, PagesShape, AllIn, InStore

\* A page's own state changes, and what it shows, if at all, to a log of S.
LEMMA PageChanges ==
    ASSUME PagesTyped, NEW S, AllIn(S), NEW p \in Pages, NEW s \in PageType, s.view.log \in S,
           page' = [page EXCEPT ![p] = s]
    PROVE  page' \in [Pages -> PageType] /\ OnPages(S)'
BY DEF PagesTyped, PagesShape, AllIn, OnPages

HandlersKept(S) == (\A h \in handlers : HandlerOK(h)) /\ InHandlers(S)

LEMMA HandlersChange ==
    ASSUME PagesTyped, NEW S, AllIn(S),
           \A h \in handlers' : h \notin handlers =>
               /\ HandlerOK(h)
               /\ h.op = "select" => h.found \subseteq S
               /\ h.op = "list" => \A c \in DOMAIN h.found : h.found[c] \in S
    PROVE  HandlersKept(S)'
BY DEF PagesTyped, PagesShape, AllIn, InHandlers, HandlersKept, HandlerOK

LEMMA SendKeeps ==
    ASSUME PagesTyped, NEW S \in SUBSET Log, AllIn(S), Admits(S), NEW p \in Pages, Send(p)
    PROVE  /\ PagesShape' /\ AllIn(S)'
           /\ Len(turns') = Len(turns) + 1 /\ \A r \in Turn : turns'[r] = turns[r]
           /\ turns'[Len(turns) + 1].current = Append(page[p].view.log, Message("user", Len(turns) + 1))
           /\ turns'[Len(turns) + 1].runner = Append(page[p].view.log, Message("user", Len(turns) + 1))
<1> DEFINE r == Len(turns) + 1
           log == Append(page[p].view.log, Message("user", r))
           doc == Doc(page[p].view.id, log)
           s == [page[p] EXCEPT !.touched = TRUE, !.controller = r]
<1>1. PICK ok \in StoreOutcomes :
          /\ Persist(p, s, doc, ok)
          /\ turns' = Append(turns, [page |-> p, id |-> doc.id, current |-> doc.log,
                                     runner |-> doc.log, pc |-> IF ok THEN "sent" ELSE "throws"])
  BY DEF Send
<1>2. UNCHANGED <<handlers, minted, gone>>
  BY DEF Send
<1>3. turns \in Seq(TurnType) /\ r \in Nat
  BY DEF PagesTyped, PagesShape
<1>4. Len(turns') = Len(turns) + 1
  BY <1>1, <1>3
<1>5. page[p].view.log \in S
  BY DEF AllIn, OnPages
<1>6. log \in S
  BY <1>4, <1>5 DEF Admits
<1> HIDE DEF log
<1>7. doc \in DocType /\ doc.log = log /\ doc.id \in Nat /\ ok \in BOOLEAN
  BY <1>6, PageFacts, ConversationsAssumption DEF Doc, DocType
<1> HIDE DEF doc
<1>8. s \in PageType
  BY <1>3, PageFacts DEF PageType
<1> HIDE DEF s
<1>9. /\ DOMAIN db' \subseteq Nat /\ InStore(S)'
      /\ page' \in [Pages -> PageType] /\ OnPages(S)'
  BY <1>1, <1>6, <1>7, <1>8, PersistKeeps
<1>10. PICK t : t = [page |-> p, id |-> doc.id, current |-> doc.log, runner |-> doc.log,
                     pc |-> IF ok THEN "sent" ELSE "throws"]
  OBVIOUS
<1>11. t \in TurnType /\ t.current = log /\ t.runner = log
  BY <1>6, <1>7, <1>10 DEF TurnType, Steps
<1>12. turns' = Append(turns, t)
  BY <1>1, <1>10
<1>13. turns' \in Seq(TurnType) /\ turns'[r] = t /\ \A q \in Turn : turns'[q] = turns[q]
  BY <1>3, <1>11, <1>12 DEF Turn
<1>14. InTurns(S)'
  <2> SUFFICES ASSUME NEW q \in 1 .. Len(turns') PROVE turns'[q].current \in S /\ turns'[q].runner \in S
    BY DEF InTurns, Turn
  <2>1. CASE q = r
    BY <1>6, <1>11, <1>13, <2>1
  <2>2. CASE q \in Turn
    BY <1>13, <2>2 DEF AllIn, InTurns
  <2> QED BY <1>3, <1>4, <2>1, <2>2 DEF Turn
<1>15. HandlersKept(S)'
  BY <1>2, HandlersChange
<1>16. PagesShape' /\ AllIn(S)'
  BY <1>2, <1>9, <1>13, <1>14, <1>15 DEF PagesTyped, PagesShape, AllIn, HandlersKept
<1> QED BY <1>4, <1>11, <1>13, <1>16 DEF log

\* A conversation is shown and stored, whichever of the store's outcomes.
LEMMA NewKeeps ==
    ASSUME PagesTyped, NEW S \in SUBSET Log, AllIn(S), Admits(S), NEW p \in Pages, NEW s \in PageType,
           NEW ok \in BOOLEAN, PersistNew(p, s, ok)
    PROVE  /\ DOMAIN db' \subseteq Nat /\ InStore(S)'
           /\ page' \in [Pages -> PageType] /\ OnPages(S)' /\ minted' \in Nat
<1>1. minted + 1 \in Nat /\ minted' = minted + 1
  BY DEF PagesTyped, PagesShape, PersistNew
<1>2. <<>> \in S /\ <<>> \in Log
  BY DEF Admits
<1>3. Doc(minted + 1, <<>>) \in DocType /\ Doc(minted + 1, <<>>).log = <<>>
  BY <1>1, <1>2 DEF Doc, DocType
<1>4. Persist(p, s, Doc(minted + 1, <<>>), ok)
  BY DEF PersistNew
<1>5. Doc(minted + 1, <<>>).log \in S
  BY <1>2, <1>3
<1> QED BY <1>1, <1>3, <1>4, <1>5, PersistKeeps

LEMMA StudentKeeps ==
    ASSUME PagesTyped, NEW S \in SUBSET Log, AllIn(S), Admits(S), NEW p \in Pages,
           \/ Stop(p) \/ Create(p) \/ Clear(p)
           \/ \E c \in ConversationId : Select(p, c) \/ RemoveConversation(p, c)
           \/ \E i \in DOMAIN page[p].view.log : Decide(p, i)
    PROVE  PagesShape' /\ AllIn(S)' /\ UNCHANGED turns
<1>0. /\ page[p] \in PageType /\ page[p].view \in DocType /\ page[p].view.log \in Log
      /\ page[p].view.id \in Nat /\ page[p].view.log \in S
  BY PageFacts DEF AllIn, OnPages
<1>1. CASE Stop(p)
  <2>1. /\ page' = [page EXCEPT ![p] = [page[p] EXCEPT !.controller = 0]]
        /\ UNCHANGED <<db, turns, handlers, minted, gone>>
    BY <1>1 DEF Stop
  <2>2. /\ [page[p] EXCEPT !.controller = 0] \in PageType
        /\ [page[p] EXCEPT !.controller = 0].view = page[p].view
    BY <1>0 DEF PageType
  <2>3. page' \in [Pages -> PageType] /\ OnPages(S)'
    BY <1>0, <2>1, <2>2, PageChanges
  <2>4. HandlersKept(S)'
    BY <2>1, HandlersChange
  <2> QED BY <2>1, <2>3, <2>4, TurnsStay, StoreStays
          DEF PagesTyped, PagesShape, AllIn, HandlersKept
<1>2. ASSUME NEW h, Begin(p, h), HandlerOK(h), h.op # "list", h.op = "select" => h.found \subseteq S
      PROVE  PagesShape' /\ AllIn(S)' /\ UNCHANGED turns
  <2>1. /\ page' = [page EXCEPT ![p] = Interrupted(page[p])]
        /\ handlers' = handlers \union {h} /\ UNCHANGED <<db, turns, minted, gone>>
    BY <1>2 DEF Begin
  <2>2. page' \in [Pages -> PageType] /\ OnPages(S)'
    BY <1>0, <2>1, PageFacts, PageChanges
  <2>3. HandlersKept(S)'
    BY <1>2, <2>1, HandlersChange
  <2> QED BY <2>1, <2>2, <2>3, TurnsStay, StoreStays
          DEF PagesTyped, PagesShape, AllIn, HandlersKept
<1>3. CASE Create(p)
  <2> DEFINE h == [page |-> p, op |-> "create"]
  <2>1. Begin(p, h) /\ HandlerOK(h) /\ h.op = "create"
    BY <1>3 DEF Create, HandlerOK
  <2> HIDE DEF h
  <2> QED BY <1>2, <2>1
<1>4. CASE Clear(p)
  <2> DEFINE h == [page |-> p, op |-> "clear"]
  <2>1. Begin(p, h) /\ HandlerOK(h) /\ h.op = "clear"
    BY <1>4 DEF Clear, HandlerOK
  <2> HIDE DEF h
  <2> QED BY <1>2, <2>1
<1>5. ASSUME NEW c \in ConversationId, Select(p, c)
      PROVE  PagesShape' /\ AllIn(S)' /\ UNCHANGED turns
  <2> DEFINE h == [page |-> p, op |-> "select", target |-> c,
                   found |-> IF c \in DOMAIN db THEN {db[c]} ELSE {}]
  <2>1. c \in Nat
    BY ConversationsAssumption DEF ConversationId
  <2>2. Begin(p, h) /\ HandlerOK(h) /\ h.op = "select"
    BY <1>5, <2>1 DEF Select, HandlerOK
  <2>3. h.found \subseteq S
    BY DEF AllIn, InStore
  <2> HIDE DEF h
  <2> QED BY <1>2, <2>2, <2>3
<1>6. ASSUME NEW c \in ConversationId, RemoveConversation(p, c)
      PROVE  PagesShape' /\ AllIn(S)' /\ UNCHANGED turns
  <2> DEFINE h == [page |-> p, op |-> "remove", target |-> c,
                   shown |-> page[p].view.id, listed |-> page[p].list]
  <2>1. c \in Nat
    BY ConversationsAssumption DEF ConversationId
  <2>2. Begin(p, h) /\ HandlerOK(h) /\ h.op = "remove"
    BY <1>6, <2>1, PageFacts DEF RemoveConversation, HandlerOK
  <2> HIDE DEF h
  <2> QED BY <1>2, <2>2
<1>7. ASSUME NEW i \in DOMAIN page[p].view.log, Decide(p, i)
      PROVE  PagesShape' /\ AllIn(S)' /\ UNCHANGED turns
  <2> DEFINE log == [page[p].view.log EXCEPT ![i].kind = "decided"]
             doc == [page[p].view EXCEPT !.log = log]
  <2>1. PICK ok \in StoreOutcomes :
            Persist(p, page[p], [page[p].view EXCEPT !.log[i].kind = "decided"], ok)
    BY <1>7 DEF Decide
  <2>2. page[p].view.log[i].kind = "pending" /\ UNCHANGED <<turns, handlers, minted, gone>>
    BY <1>7 DEF Decide
  <2>3. log \in S
    BY <1>0, <2>2 DEF Admits
  <2>4. [page[p].view EXCEPT !.log[i].kind = "decided"] = doc
    BY <1>0 DEF DocType
  <2> HIDE DEF log
  <2>5. doc \in DocType /\ doc.log = log /\ ok \in BOOLEAN
    BY <1>0, <2>3, ConversationsAssumption DEF DocType
  <2> HIDE DEF doc
  <2>6. /\ DOMAIN db' \subseteq Nat /\ InStore(S)'
        /\ page' \in [Pages -> PageType] /\ OnPages(S)'
    BY <1>0, <2>1, <2>3, <2>4, <2>5, PersistKeeps
  <2>7. HandlersKept(S)'
    BY <2>2, HandlersChange
  <2> QED BY <2>2, <2>6, <2>7, TurnsStay DEF PagesTyped, PagesShape, AllIn, HandlersKept
<1> QED BY <1>1, <1>3, <1>4, <1>5, <1>6, <1>7

LEMMA HistoryKeeps ==
    ASSUME PagesTyped, NEW S \in SUBSET Log, AllIn(S), Admits(S), NEW h \in handlers, HistoryStep(h)
    PROVE  PagesShape' /\ AllIn(S)' /\ UNCHANGED turns
<1> DEFINE p == h.page
<1>1. /\ HandlerOK(h) /\ p \in Pages /\ page[p] \in PageType
      /\ page[p].view.log \in S /\ page[p].list \subseteq Nat
  BY PageFacts DEF PagesTyped, PagesShape, HandlerOK, AllIn, OnPages
<1>2. /\ h.op = "select" => h.found \subseteq S /\ h.target \in Nat
      /\ h.op = "list" => DOMAIN h.found \subseteq Nat /\ \A c \in DOMAIN h.found : h.found[c] \in S
  BY <1>1 DEF AllIn, InHandlers, HandlerOK
<1>3. ASSUME Instead(h, {}) PROVE HandlersKept(S)'
  BY <1>3, HandlersChange DEF Instead
<1>4. ASSUME NEW list \in SUBSET Nat
      PROVE  /\ [page[p] EXCEPT !.list = list] \in PageType
             /\ [page[p] EXCEPT !.list = list].view = page[p].view
  BY <1>1 DEF PageType
<1>5. ASSUME NEW s \in PageType, NEW doc \in DocType, doc.log \in S
      PROVE  [s EXCEPT !.view = doc] \in PageType /\ [s EXCEPT !.view = doc].view.log \in S
  BY <1>5 DEF PageType
<1>6. ASSUME NEW s \in PageType
      PROVE  Interrupted(s) \in PageType
  BY DEF Interrupted, PageType
<1>7. CASE ListArrives(h)
  <2> DEFINE s == [page[p] EXCEPT !.list = DOMAIN h.found]
  <2>1. /\ h.op = "list" /\ Instead(h, {}) /\ UNCHANGED <<db, turns, minted, gone>>
        /\ \/ page' = [page EXCEPT ![p] = s]
           \/ \E c \in DOMAIN h.found :
                 page' = [page EXCEPT ![p] = [s EXCEPT !.view = Doc(c, h.found[c])]]
    BY <1>7 DEF ListArrives
  <2>2. s \in PageType /\ s.view.log \in S
    BY <1>1, <1>2, <1>4, <2>1
  <2> HIDE DEF s
  <2>3. CASE page' = [page EXCEPT ![p] = s]
    BY <1>1, <1>3, <2>1, <2>2, <2>3, PageChanges, TurnsStay, StoreStays
       DEF PagesTyped, PagesShape, AllIn, HandlersKept
  <2>4. ASSUME NEW c \in DOMAIN h.found,
               page' = [page EXCEPT ![p] = [s EXCEPT !.view = Doc(c, h.found[c])]]
        PROVE  PagesShape' /\ AllIn(S)'
    <3>1. Doc(c, h.found[c]) \in DocType /\ Doc(c, h.found[c]).log \in S
      BY <1>2, <2>1 DEF Doc, DocType
    <3>2. page' \in [Pages -> PageType] /\ OnPages(S)'
      BY <1>1, <1>5, <2>2, <2>4, <3>1, PageChanges
    <3> QED BY <1>3, <2>1, <3>2, TurnsStay, StoreStays DEF PagesTyped, PagesShape, AllIn, HandlersKept
  <2> QED BY <2>1, <2>3, <2>4
<1>8. CASE Selected(h)
  <2>1. h.op = "select" /\ Instead(h, {}) /\ UNCHANGED <<db, turns, minted, gone>>
    BY <1>8 DEF Selected
  <2>2. page' \in [Pages -> PageType] /\ OnPages(S)'
    <3>1. CASE page' = page
      BY <3>1 DEF PagesTyped, PagesShape, AllIn, OnPages
    <3>2. ASSUME NEW log \in h.found, page' = [page EXCEPT ![p].view = Doc(h.target, log)]
          PROVE  page' \in [Pages -> PageType] /\ OnPages(S)'
      <4>1. Doc(h.target, log) \in DocType /\ Doc(h.target, log).log \in S
        BY <1>2, <2>1 DEF Doc, DocType
      <4>2. page' = [page EXCEPT ![p] = [page[p] EXCEPT !.view = Doc(h.target, log)]]
        BY <3>2
      <4> QED BY <1>1, <1>5, <4>1, <4>2, PageChanges
    <3> QED BY <1>8, <3>1, <3>2 DEF Selected
  <2> QED BY <1>3, <2>1, <2>2, TurnsStay, StoreStays DEF PagesTyped, PagesShape, AllIn, HandlersKept
<1>9. ASSUME NEW s \in PageType, NEW ok \in StoreOutcomes, PersistNew(p, s, ok), Instead(h, {}),
             gone' \subseteq Nat, UNCHANGED turns
      PROVE  PagesShape' /\ AllIn(S)' /\ UNCHANGED turns
  <2>1. ok \in BOOLEAN
    BY ConversationsAssumption
  <2> QED BY <1>1, <1>3, <1>9, <2>1, NewKeeps, TurnsStay DEF PagesTyped, PagesShape, AllIn, HandlersKept
<1>10. gone \subseteq Nat
  BY DEF PagesTyped, PagesShape
<1>11. CASE Created(h)
  BY <1>1, <1>9, <1>10, <1>11 DEF Created
<1>12. ASSUME UNCHANGED <<page, turns, minted, gone>>, DOMAIN db' \subseteq Nat, InStore(S)', HandlersKept(S)'
       PROVE  PagesShape' /\ AllIn(S)' /\ UNCHANGED turns
  BY <1>12, TurnsStay DEF PagesTyped, PagesShape, AllIn, OnPages, HandlersKept
<1>13. CASE Removing(h)
  <2> DEFINE g == [h EXCEPT !.op = "removed"]
  <2>1. /\ h.op = "remove" /\ db' = Without(db, h.target) /\ Instead(h, {g})
        /\ UNCHANGED <<page, turns, minted, gone>>
    BY <1>13 DEF Removing
  <2>2. h = [page |-> h.page, op |-> "remove", target |-> h.target, shown |-> h.shown, listed |-> h.listed]
    BY <1>1, <2>1 DEF HandlerOK
  <2>3. g.op = "removed" /\ g.page = h.page /\ g.target = h.target /\ g.listed = h.listed
    BY <2>2
  <2> HIDE DEF g
  <2>4. HandlerOK(g)
    BY <1>1, <2>1, <2>3 DEF HandlerOK
  <2>5. HandlersKept(S)'
    BY <2>1, <2>3, <2>4, HandlersChange DEF Instead
  <2>6. DOMAIN db' \subseteq Nat /\ InStore(S)'
    BY <2>1 DEF Without, Restrict, PagesTyped, PagesShape, AllIn, InStore
  <2> QED BY <1>12, <2>1, <2>5, <2>6
<1>14. CASE Removed(h)
  <2> DEFINE s == [page[p] EXCEPT !.list = h.listed \ {h.target}]
  <2>1. h.op = "removed" /\ gone' = gone \union {h.target} /\ Instead(h, {}) /\ UNCHANGED turns
    BY <1>14 DEF Removed
  <2>2. h.target \in Nat /\ h.listed \subseteq Nat
    BY <1>1, <2>1 DEF HandlerOK
  <2>3. s \in PageType /\ s.view.log \in S /\ gone' \subseteq Nat
    BY <1>1, <1>4, <1>10, <2>1, <2>2
  <2>4. \/ \E ok \in StoreOutcomes : PersistNew(p, Interrupted(s), ok)
        \/ page' = [page EXCEPT ![p] = s] /\ UNCHANGED <<db, minted>>
    BY <1>14 DEF Removed
  <2> HIDE DEF s
  <2>5. CASE \E ok \in StoreOutcomes : PersistNew(p, Interrupted(s), ok)
    BY <1>6, <1>9, <2>1, <2>3, <2>5
  <2>6. CASE page' = [page EXCEPT ![p] = s] /\ UNCHANGED <<db, minted>>
    BY <1>1, <1>3, <2>1, <2>3, <2>6, PageChanges, TurnsStay, StoreStays
       DEF PagesTyped, PagesShape, AllIn, HandlersKept
  <2> QED BY <2>4, <2>5, <2>6
<1>15. CASE Clearing(h)
  <2> DEFINE g == [page |-> h.page, op |-> "cleared", target |-> DOMAIN db]
  <2>1. db' = Empty /\ Instead(h, {g}) /\ UNCHANGED <<page, turns, minted, gone>>
    BY <1>15 DEF Clearing
  <2>2. HandlerOK(g) /\ g.op = "cleared"
    BY <1>1 DEF HandlerOK, PagesTyped, PagesShape
  <2> HIDE DEF g
  <2>3. HandlersKept(S)'
    BY <2>1, <2>2, HandlersChange DEF Instead
  <2>4. DOMAIN db' \subseteq Nat /\ InStore(S)'
    BY <2>1 DEF Empty, InStore
  <2> QED BY <1>12, <2>1, <2>3, <2>4
<1>16. CASE Cleared(h)
  <2>1. /\ h.op = "cleared" /\ gone' = gone \union h.target /\ Instead(h, {}) /\ UNCHANGED turns
        /\ \E ok \in StoreOutcomes : PersistNew(p, Interrupted(page[p]), ok)
    BY <1>16 DEF Cleared
  <2>2. gone' \subseteq Nat
    BY <1>1, <1>10, <2>1 DEF HandlerOK
  <2> QED BY <1>1, <1>6, <1>9, <2>1, <2>2
<1>17. CASE GivesUp(h)
  <2>1. Instead(h, {}) /\ UNCHANGED <<db, page, turns, minted, gone>>
    BY <1>17 DEF GivesUp
  <2> QED BY <1>3, <1>12, <2>1, StoreStays
<1> QED BY <1>7, <1>8, <1>11, <1>13, <1>14, <1>15, <1>16, <1>17 DEF HistoryStep

LEMMA WorkspaceKeeps ==
    ASSUME PagesTyped, NEW S \in SUBSET Log, AllIn(S), Admits(S), OpenWorkspace \/ CloseWorkspace
    PROVE  PagesShape' /\ AllIn(S)' /\ UNCHANGED turns
<1>1. Workspace \in Pages /\ <<>> \in S /\ <<>> \in Log /\ minted \in Nat
  BY DEF Pages, Admits, PagesTyped, PagesShape
<1>2. Closed \in PageType /\ Closed.view = Doc(0, <<>>) /\ Doc(0, <<>>).log = <<>>
  BY <1>1 DEF Closed, PageType, DocType, Doc
<1>3. CASE OpenWorkspace
  <2> DEFINE s == OpenedPage(minted + 1)
             h == Mounting(Workspace)
  <2>1. /\ page' = [page EXCEPT ![Workspace] = s] /\ minted' = minted + 1
        /\ handlers' = handlers \union {h} /\ UNCHANGED <<db, turns, gone>>
    BY <1>3 DEF OpenWorkspace
  <2>2. Doc(minted + 1, <<>>) \in DocType /\ Doc(minted + 1, <<>>).log = <<>>
    BY <1>1 DEF Doc, DocType
  <2>3. s \in PageType /\ s.view = Doc(minted + 1, <<>>)
    BY <1>2, <2>2 DEF OpenedPage, PageType
  <2>4. h.op = "list" /\ h.found = db /\ h.page = Workspace
    BY DEF Mounting
  <2> HIDE DEF s, h
  <2>5. HandlerOK(h) /\ \A c \in DOMAIN h.found : h.found[c] \in S
    BY <1>1, <2>4 DEF HandlerOK, PagesTyped, PagesShape, AllIn, InStore
  <2>6. HandlersKept(S)'
    BY <2>1, <2>4, <2>5, HandlersChange
  <2>7. page' \in [Pages -> PageType] /\ OnPages(S)'
    BY <1>1, <2>1, <2>2, <2>3, PageChanges
  <2> QED BY <1>1, <2>1, <2>6, <2>7, TurnsStay, StoreStays
          DEF PagesTyped, PagesShape, AllIn, HandlersKept
<1>4. CASE CloseWorkspace
  <2>1. /\ page' = [page EXCEPT ![Workspace] = Closed] /\ handlers' \subseteq handlers
        /\ UNCHANGED <<db, turns, minted, gone>>
    BY <1>4 DEF CloseWorkspace
  <2>2. HandlersKept(S)'
    BY <2>1, HandlersChange
  <2>3. page' \in [Pages -> PageType] /\ OnPages(S)'
    BY <1>1, <1>2, <2>1, PageChanges
  <2> QED BY <2>1, <2>2, <2>3, TurnsStay, StoreStays
          DEF PagesTyped, PagesShape, AllIn, HandlersKept
<1> QED BY <1>3, <1>4

\* Whatever a step of the pages admits of logs, every copy keeps to it.
LEMMA PagesKeep ==
    ASSUME PagesTyped, NEW S \in SUBSET Log, AllIn(S), Admits(S), [PagesNext]_pagesVars
    PROVE  PagesShape' /\ AllIn(S)'
<1>1. ASSUME NEW p \in Pages, PageStep(p) PROVE PagesShape' /\ AllIn(S)'
  <2>1. ASSUME NEW r \in Turn, TurnStep(r) PROVE PagesShape' /\ AllIn(S)'
    <3>1. Stepped(r, S)
      BY <2>1, TurnSteps
    <3>2. PICK t \in TurnType : turns' = [turns EXCEPT ![r] = t] /\ t.current \in S /\ t.runner \in S
      BY <3>1 DEF Stepped
    <3>3. turns' \in Seq(TurnType) /\ InTurns(S)'
      BY <3>2, TurnMoves
    <3>4. UNCHANGED <<handlers, minted, gone>>
      BY <3>1 DEF Stepped
    <3>5. HandlersKept(S)'
      BY <3>4, HandlersChange
    <3> QED BY <3>1, <3>3, <3>4, <3>5 DEF Stepped, PagesTyped, PagesShape, AllIn, HandlersKept
  <2> QED BY <1>1, <2>1, SendKeeps, StudentKeeps, HistoryKeeps DEF PageStep
<1>2. ASSUME UNCHANGED pagesVars PROVE PagesShape' /\ AllIn(S)'
  BY <1>2 DEF pagesVars, PagesTyped, PagesShape, HandlerOK, AllIn, InStore, OnPages, InTurns, InHandlers, Turn
<1> QED BY <1>1, <1>2, WorkspaceKeeps DEF PagesNext

\* What becomes of the turns: a new one, one that goes on, or nothing.
LEMMA TurnsChange ==
    ASSUME PagesTyped, Admits(Log), [PagesNext]_pagesVars
    PROVE  \/ UNCHANGED turns
           \/ \E r \in Turn, t \in TurnType : turns' = [turns EXCEPT ![r] = t] /\ Onward(turns[r], t, r)
           \/ \E p \in Pages : Send(p)
<1>1. AllIn(Log)
  BY DEF PagesTyped
<1>2. ASSUME NEW r \in Turn, TurnStep(r)
      PROVE  \E t \in TurnType : turns' = [turns EXCEPT ![r] = t] /\ Onward(turns[r], t, r)
  BY <1>1, <1>2, TurnSteps DEF Stepped
<1>3. ASSUME NEW p \in Pages, PageStep(p), ~Send(p), \A r \in Turn : ~TurnStep(r)
      PROVE  UNCHANGED turns
  BY <1>1, <1>3, StudentKeeps, HistoryKeeps DEF PageStep
<1>4. ASSUME NEW p \in Pages, PageStep(p)
      PROVE  Send(p) \/ (\E r \in Turn : TurnStep(r)) \/ UNCHANGED turns
  BY <1>3, <1>4
<1>5. CASE OpenWorkspace \/ CloseWorkspace
  BY <1>1, <1>5, WorkspaceKeeps
<1>6. CASE UNCHANGED pagesVars
  BY <1>6 DEF pagesVars
<1> QED BY <1>2, <1>4, <1>5, <1>6 DEF PagesNext

LEMMA LogAdmits ==
    ASSUME PagesTyped
    PROVE  Admits(Log)
<1>1. turns \in Seq(TurnType) /\ Len(turns) + 1 \in Nat
  BY DEF PagesTyped, PagesShape
<1>2. ASSUME NEW l \in Log, NEW kind \in Kinds, NEW r \in Nat PROVE Append(l, Message(kind, r)) \in Log
  BY DEF Log, Message, MessageType
<1>3. ASSUME NEW l \in Log, NEW i \in DOMAIN l PROVE [l EXCEPT ![i].kind = "decided"] \in Log
  <2>1. l \in Seq(MessageType) /\ l[i] \in MessageType
    BY DEF Log
  <2>2. [l[i] EXCEPT !.kind = "decided"] \in MessageType
    BY <2>1 DEF MessageType, Kinds, ReplyKinds
  <2>3. PICK e \in MessageType : e = [l[i] EXCEPT !.kind = "decided"]
    BY <2>2
  <2>4. [l EXCEPT ![i].kind = "decided"] = [l EXCEPT ![i] = e]
    BY <2>3
  <2>5. [l EXCEPT ![i] = e] \in Seq(MessageType)
    BY <2>1
  <2> QED BY <2>4, <2>5 DEF Log
<1>4. <<>> \in Log /\ "user" \in Kinds
  BY DEF Log, Kinds
<1>5. ASSUME NEW r \in Turn PROVE turns[r].current \in Log /\ turns[r].runner \in Log /\ r \in Nat
  BY TurnFacts DEF PagesTyped
<1> QED BY <1>1, <1>2, <1>3, <1>4, <1>5 DEF Admits

(***************************************************************************)
(* Conversations: one reply                                                *)
(***************************************************************************)

\* Of the first n turns only, one reply to each at most, nothing before its question.
SoundLogs(n) ==
    {l \in Log :
        /\ \A i \in DOMAIN l : l[i].turn <= n
        /\ \A i, j \in DOMAIN l :
              l[i].kind \in ReplyKinds /\ l[j].kind \in ReplyKinds /\ l[i].turn = l[j].turn => i = j
        /\ \A i \in DOMAIN l :
              l[i].kind # "user" =>
                 \E q \in DOMAIN l : q < i /\ l[q].kind = "user" /\ l[q].turn = l[i].turn}

\* The question is there, the reply is not.
Unanswered(l, r) ==
    /\ \E q \in DOMAIN l : l[q].kind = "user" /\ l[q].turn = r
    /\ \A i \in DOMAIN l : l[i].turn = r => l[i].kind \notin ReplyKinds

TurnsOpen ==
    \A r \in Turn :
        turns[r].pc # "done" => Unanswered(turns[r].current, r) /\ Unanswered(turns[r].runner, r)

PagesInv == PagesTyped /\ AllIn(SoundLogs(Len(turns))) /\ TurnsOpen

LEMMA Appended ==
    ASSUME NEW l \in Log, NEW kind \in Kinds, NEW r \in Nat
    PROVE  LET m == Append(l, Message(kind, r)) IN
           /\ m \in Log /\ Len(l) \in Nat
           /\ DOMAIN l = 1 .. Len(l) /\ DOMAIN m = 1 .. Len(l) + 1
           /\ \A i \in 1 .. Len(l) : m[i] = l[i]
           /\ m[Len(l) + 1].kind = kind /\ m[Len(l) + 1].turn = r
<1>1. Message(kind, r) \in MessageType
  BY DEF Message, MessageType
<1>2. PICK e \in MessageType : e = Message(kind, r) /\ e.kind = kind /\ e.turn = r
  BY <1>1 DEF Message
<1> QED BY <1>2 DEF Log

LEMMA SoundAnswer ==
    ASSUME NEW n \in Nat, NEW l \in SoundLogs(n), NEW r \in 1 .. n, NEW kind \in Kinds \ {"user"},
           Unanswered(l, r)
    PROVE  Append(l, Message(kind, r)) \in SoundLogs(n)
<1>1. l \in Log /\ r \in Nat
  BY DEF SoundLogs
<1>2. PICK m : m = Append(l, Message(kind, r))
  OBVIOUS
<1>3. /\ m \in Log /\ Len(l) \in Nat /\ DOMAIN l = 1 .. Len(l) /\ DOMAIN m = 1 .. Len(l) + 1
      /\ \A i \in 1 .. Len(l) : m[i] = l[i]
      /\ m[Len(l) + 1].kind = kind /\ m[Len(l) + 1].turn = r
  BY <1>1, <1>2, Appended
<1>4. \A i \in DOMAIN m : m[i].turn <= n
  BY <1>3 DEF SoundLogs
<1>5. ASSUME NEW i \in DOMAIN m, NEW j \in DOMAIN m, m[i].kind \in ReplyKinds, m[j].kind \in ReplyKinds,
             m[i].turn = m[j].turn
      PROVE  i = j
  BY <1>3, <1>5 DEF SoundLogs, Unanswered
<1>6. ASSUME NEW i \in DOMAIN m, m[i].kind # "user"
      PROVE  \E q \in DOMAIN m : q < i /\ m[q].kind = "user" /\ m[q].turn = m[i].turn
  <2>1. CASE i = Len(l) + 1
    BY <1>3, <2>1 DEF Unanswered
  <2>2. CASE i \in DOMAIN l
    BY <1>3, <1>6, <2>2 DEF SoundLogs
  <2> QED BY <1>3, <2>1, <2>2
<1> QED BY <1>2, <1>3, <1>4, <1>5, <1>6 DEF SoundLogs

LEMMA SoundQuestion ==
    ASSUME NEW n \in Nat, NEW l \in SoundLogs(n), NEW r \in 1 .. n
    PROVE  Append(l, Message("user", r)) \in SoundLogs(n)
<1>1. l \in Log /\ r \in Nat /\ "user" \in Kinds /\ "user" \notin ReplyKinds
  BY DEF SoundLogs, Kinds, ReplyKinds
<1>2. PICK m : m = Append(l, Message("user", r))
  OBVIOUS
<1>3. /\ m \in Log /\ Len(l) \in Nat /\ DOMAIN l = 1 .. Len(l) /\ DOMAIN m = 1 .. Len(l) + 1
      /\ \A i \in 1 .. Len(l) : m[i] = l[i]
      /\ m[Len(l) + 1].kind = "user" /\ m[Len(l) + 1].turn = r
  BY <1>1, <1>2, Appended
<1>4. \A i \in DOMAIN m : m[i].turn <= n
  BY <1>3 DEF SoundLogs
<1>5. ASSUME NEW i \in DOMAIN m, NEW j \in DOMAIN m, m[i].kind \in ReplyKinds, m[j].kind \in ReplyKinds,
             m[i].turn = m[j].turn
      PROVE  i = j
  BY <1>1, <1>3, <1>5 DEF SoundLogs
<1>6. ASSUME NEW i \in DOMAIN m, m[i].kind # "user"
      PROVE  \E q \in DOMAIN m : q < i /\ m[q].kind = "user" /\ m[q].turn = m[i].turn
  <2>1. i \in DOMAIN l
    BY <1>3, <1>6
  <2> QED BY <1>3, <1>6, <2>1 DEF SoundLogs
<1> QED BY <1>2, <1>3, <1>4, <1>5, <1>6 DEF SoundLogs

\* A decision keeps the message's turn, and a reply a reply.
LEMMA Decided ==
    ASSUME NEW l \in Log, NEW i \in DOMAIN l, l[i].kind = "pending"
    PROVE  LET m == [l EXCEPT ![i].kind = "decided"] IN
           /\ m \in Log /\ DOMAIN m = DOMAIN l
           /\ \A j \in DOMAIN l : /\ m[j].turn = l[j].turn
                                  /\ (m[j].kind \in ReplyKinds) <=> (l[j].kind \in ReplyKinds)
                                  /\ (m[j].kind = "user") <=> (l[j].kind = "user")
<1>1. /\ l[i] \in MessageType /\ l \in Seq(MessageType)
      /\ DOMAIN l = 1 .. Len(l)
  BY DEF Log
<1>2. PICK e : e = [l[i] EXCEPT !.kind = "decided"]
  OBVIOUS
<1>3. e \in MessageType /\ e.kind = "decided" /\ e.turn = l[i].turn
  BY <1>1, <1>2 DEF MessageType, Kinds, ReplyKinds
<1>4. PICK m : m = [l EXCEPT ![i].kind = "decided"]
  OBVIOUS
<1>5. m = [l EXCEPT ![i] = e]
  BY <1>2, <1>4
<1>6. m \in Log /\ DOMAIN m = DOMAIN l /\ \A j \in DOMAIN l : m[j] = IF j = i THEN e ELSE l[j]
  BY <1>1, <1>3, <1>5 DEF Log
<1>7. ASSUME NEW j \in DOMAIN l
      PROVE  /\ m[j].turn = l[j].turn
             /\ (m[j].kind \in ReplyKinds) <=> (l[j].kind \in ReplyKinds)
             /\ (m[j].kind = "user") <=> (l[j].kind = "user")
  BY <1>3, <1>6 DEF ReplyKinds
<1> QED BY <1>4, <1>6, <1>7

LEMMA SoundDecided ==
    ASSUME NEW n \in Nat, NEW l \in SoundLogs(n), NEW i \in DOMAIN l, l[i].kind = "pending"
    PROVE  [l EXCEPT ![i].kind = "decided"] \in SoundLogs(n)
<1>1. PICK m : m = [l EXCEPT ![i].kind = "decided"]
  OBVIOUS
<1>2. l \in Log
  BY DEF SoundLogs
<1>3. /\ m \in Log /\ DOMAIN m = DOMAIN l
      /\ \A j \in DOMAIN l : /\ m[j].turn = l[j].turn
                             /\ (m[j].kind \in ReplyKinds) <=> (l[j].kind \in ReplyKinds)
                             /\ (m[j].kind = "user") <=> (l[j].kind = "user")
  BY <1>1, <1>2, Decided
<1>4. ASSUME NEW j \in DOMAIN m, m[j].kind # "user"
      PROVE  \E q \in DOMAIN m : q < j /\ m[q].kind = "user" /\ m[q].turn = m[j].turn
  BY <1>3, <1>4 DEF SoundLogs
<1>5. ASSUME NEW j \in DOMAIN m, NEW k \in DOMAIN m, m[j].kind \in ReplyKinds, m[k].kind \in ReplyKinds,
             m[j].turn = m[k].turn
      PROVE  j = k
  BY <1>3, <1>5 DEF SoundLogs
<1>6. \A j \in DOMAIN m : m[j].turn <= n
  BY <1>3 DEF SoundLogs
<1>7. m \in SoundLogs(n)
  BY <1>3, <1>4, <1>5, <1>6 DEF SoundLogs
<1> QED BY <1>1, <1>7

LEMMA SoundGrows ==
    ASSUME NEW n \in Nat, NEW m \in Nat, n <= m
    PROVE  SoundLogs(n) \subseteq SoundLogs(m) /\ SoundLogs(m) \subseteq Log
<1>1. ASSUME NEW l \in Log, NEW i \in DOMAIN l, l[i].turn <= n PROVE l[i].turn <= m
  <2>1. l[i] \in MessageType
    BY DEF Log
  <2> QED BY <1>1, <2>1 DEF MessageType
<1> QED BY <1>1 DEF SoundLogs

\* In a sound log the next question has no reply yet.
LEMMA NextOpen ==
    ASSUME NEW n \in Nat, NEW l \in SoundLogs(n)
    PROVE  Unanswered(Append(l, Message("user", n + 1)), n + 1)
<1>1. l \in Log /\ "user" \in Kinds /\ "user" \notin ReplyKinds
  BY DEF SoundLogs, Kinds, ReplyKinds
<1>0. PICK r \in Nat : r = n + 1
  OBVIOUS
<1>2. PICK m : m = Append(l, Message("user", r))
  OBVIOUS
<1>3. /\ m \in Log /\ Len(l) \in Nat /\ DOMAIN l = 1 .. Len(l) /\ DOMAIN m = 1 .. Len(l) + 1
      /\ \A i \in 1 .. Len(l) : m[i] = l[i]
      /\ m[Len(l) + 1].kind = "user" /\ m[Len(l) + 1].turn = r
  BY <1>1, <1>2, Appended
<1>4. ASSUME NEW i \in DOMAIN m, m[i].turn = r PROVE m[i].kind \notin ReplyKinds
  <2>1. CASE i = Len(l) + 1
    BY <1>1, <1>3, <2>1
  <2>2. CASE i \in DOMAIN l
    <3>1. l[i].turn <= n /\ l[i].turn = r
      BY <1>0, <1>3, <1>4, <2>2 DEF SoundLogs
    <3>2. l[i] \in MessageType
      BY <1>1, <2>2 DEF Log
    <3> QED BY <1>0, <3>1, <3>2 DEF MessageType
  <2> QED BY <1>3, <2>1, <2>2
<1>5. Len(l) + 1 \in DOMAIN m
  BY <1>3
<1>6. Unanswered(m, r)
  BY <1>3, <1>4, <1>5 DEF Unanswered
<1> QED BY <1>0, <1>2, <1>6

\* A tool is no reply.
LEMMA ToolKeepsOpen ==
    ASSUME NEW l \in Log, NEW r \in Nat, Unanswered(l, r)
    PROVE  Unanswered(Append(l, Message("tool", r)), r)
<1>1. "tool" \in Kinds /\ "tool" \notin ReplyKinds
  BY DEF Kinds, ReplyKinds
<1>2. PICK m : m = Append(l, Message("tool", r))
  OBVIOUS
<1>3. /\ m \in Log /\ Len(l) \in Nat /\ DOMAIN l = 1 .. Len(l) /\ DOMAIN m = 1 .. Len(l) + 1
      /\ \A i \in 1 .. Len(l) : m[i] = l[i]
      /\ m[Len(l) + 1].kind = "tool" /\ m[Len(l) + 1].turn = r
  BY <1>1, <1>2, Appended
<1>4. ASSUME NEW i \in DOMAIN m, m[i].turn = r PROVE m[i].kind \notin ReplyKinds
  <2>1. CASE i = Len(l) + 1
    BY <1>1, <1>3, <2>1
  <2>2. CASE i \in DOMAIN l
    BY <1>3, <1>4, <2>2 DEF Unanswered
  <2> QED BY <1>3, <2>1, <2>2
<1>5. Unanswered(m, r)
  BY <1>3, <1>4 DEF Unanswered
<1> QED BY <1>2, <1>5

LEMMA LengthFacts ==
    ASSUME PagesTyped, [PagesNext]_pagesVars
    PROVE  /\ Len(turns) \in Nat
           /\ Len(turns') = Len(turns) \/ Len(turns') = Len(turns) + 1
<1>1. turns \in Seq(TurnType) /\ Len(turns) \in Nat /\ AllIn(Log) /\ Log \in SUBSET Log
  BY DEF PagesTyped, PagesShape
<1>2. ASSUME NEW r \in Turn, NEW t \in TurnType, turns' = [turns EXCEPT ![r] = t]
      PROVE  Len(turns') = Len(turns)
  BY <1>1, <1>2
<1>3. ASSUME NEW p \in Pages, Send(p) PROVE Len(turns') = Len(turns) + 1
  BY <1>1, <1>3, LogAdmits, SendKeeps
<1> QED BY <1>1, <1>2, <1>3, LogAdmits, TurnsChange

LEMMA SoundAdmits ==
    ASSUME PagesInv, [PagesNext]_pagesVars
    PROVE  Admits(SoundLogs(Len(turns')))
<1>1. PICK n \in Nat : n = Len(turns')
  BY LengthFacts DEF PagesInv
<1>2. Len(turns) \in Nat /\ Len(turns) <= n /\ SoundLogs(Len(turns)) \subseteq SoundLogs(n)
  BY <1>1, LengthFacts, SoundGrows DEF PagesInv
<1>3. ASSUME NEW r \in Turn, NEW kind \in Kinds \ {"user"}, turns[r].pc # "done"
      PROVE  /\ Append(turns[r].current, Message(kind, r)) \in SoundLogs(n)
             /\ Append(turns[r].runner, Message(kind, r)) \in SoundLogs(n)
  <2>1. turns[r].current \in SoundLogs(n) /\ turns[r].runner \in SoundLogs(n) /\ r \in 1 .. n
    BY <1>2 DEF PagesInv, AllIn, InTurns, Turn
  <2>2. Unanswered(turns[r].current, r) /\ Unanswered(turns[r].runner, r)
    BY <1>3 DEF PagesInv, TurnsOpen
  <2> QED BY <2>1, <2>2, SoundAnswer
<1>4. ASSUME Len(turns') = Len(turns) + 1, NEW l \in SoundLogs(n)
      PROVE  Append(l, Message("user", Len(turns) + 1)) \in SoundLogs(n)
  BY <1>1, <1>2, <1>4, SoundQuestion
<1>5. <<>> \in SoundLogs(n)
  BY DEF SoundLogs, Log
<1>6. ASSUME NEW l \in SoundLogs(n), NEW i \in DOMAIN l, l[i].kind = "pending"
      PROVE  [l EXCEPT ![i].kind = "decided"] \in SoundLogs(n)
  BY <1>6, SoundDecided
<1>7. Admits(SoundLogs(n))
  BY <1>3, <1>4, <1>5, <1>6 DEF Admits
<1> QED BY <1>1, <1>7

LEMMA StaysOpen ==
    ASSUME PagesInv, [PagesNext]_pagesVars
    PROVE  TurnsOpen'
<1>1. /\ PagesTyped /\ AllIn(Log) /\ Admits(Log) /\ Log \in SUBSET Log
      /\ turns \in Seq(TurnType) /\ Len(turns) \in Nat
  BY LogAdmits DEF PagesInv, PagesTyped, PagesShape
<1>2. CASE UNCHANGED turns
  BY <1>2 DEF PagesInv, TurnsOpen, Turn
<1>3. ASSUME NEW r \in Turn, NEW t \in TurnType, turns' = [turns EXCEPT ![r] = t], Onward(turns[r], t, r)
      PROVE  TurnsOpen'
  <2>1. /\ Len(turns') = Len(turns) /\ turns'[r] = t
        /\ \A q \in Turn : q # r => turns'[q] = turns[q]
    BY <1>1, <1>3 DEF Turn
  <2>2. /\ Unanswered(turns[r].current, r) /\ Unanswered(turns[r].runner, r)
        /\ turns[r].runner \in Log /\ r \in Nat
    BY <1>1, <1>3, TurnFacts DEF PagesInv, TurnsOpen, Onward
  <2>3. t.pc # "done" => Unanswered(t.current, r) /\ Unanswered(t.runner, r)
    BY <1>3, <2>2, ToolKeepsOpen DEF Onward
  <2> QED BY <2>1, <2>3 DEF PagesInv, TurnsOpen, Turn
<1>4. ASSUME NEW p \in Pages, Send(p) PROVE TurnsOpen'
  <2>1. /\ Len(turns') = Len(turns) + 1 /\ \A r \in Turn : turns'[r] = turns[r]
        /\ turns'[Len(turns) + 1].current = Append(page[p].view.log, Message("user", Len(turns) + 1))
        /\ turns'[Len(turns) + 1].runner = Append(page[p].view.log, Message("user", Len(turns) + 1))
    BY <1>1, <1>4, SendKeeps
  <2>2. page[p].view.log \in SoundLogs(Len(turns))
    BY DEF PagesInv, AllIn, OnPages
  <2>3. Unanswered(Append(page[p].view.log, Message("user", Len(turns) + 1)), Len(turns) + 1)
    BY <1>1, <2>2, NextOpen
  <2>4. ASSUME NEW r \in 1 .. Len(turns'), turns'[r].pc # "done"
        PROVE  Unanswered(turns'[r].current, r) /\ Unanswered(turns'[r].runner, r)
    <3>1. CASE r = Len(turns) + 1
      BY <2>1, <2>3, <3>1
    <3>2. CASE r \in Turn
      BY <2>1, <2>4, <3>2 DEF PagesInv, TurnsOpen
    <3> QED BY <1>1, <2>1, <3>1, <3>2 DEF Turn
  <2> QED BY <2>4 DEF TurnsOpen, Turn
<1> QED BY <1>1, <1>2, <1>3, <1>4, TurnsChange

LEMMA PagesNextInv == PagesInv /\ [PagesNext]_pagesVars => PagesInv'
<1> SUFFICES ASSUME PagesInv, [PagesNext]_pagesVars PROVE PagesInv'
  OBVIOUS
<1>1. PagesTyped /\ AllIn(Log) /\ Admits(Log) /\ Log \in SUBSET Log
  BY LogAdmits DEF PagesInv, PagesTyped
<1>2. PagesTyped'
  BY <1>1, PagesKeep DEF PagesTyped
<1>3. PICK n \in Nat : n = Len(turns')
  BY LengthFacts DEF PagesInv
<1>4. SoundLogs(Len(turns)) \subseteq SoundLogs(n) /\ SoundLogs(n) \in SUBSET Log
  BY <1>3, LengthFacts, SoundGrows DEF PagesInv
<1>5. AllIn(SoundLogs(n))
  BY <1>4 DEF PagesInv, AllIn, InStore, OnPages, InTurns, InHandlers
<1>6. Admits(SoundLogs(n))
  BY <1>3, SoundAdmits
<1>7. AllIn(SoundLogs(n))'
  BY <1>1, <1>4, <1>5, <1>6, PagesKeep
<1>8. AllIn(SoundLogs(Len(turns)))'
  BY <1>3, <1>7 DEF AllIn, InStore, OnPages, InTurns, InHandlers
<1> QED BY <1>2, <1>8, StaysOpen DEF PagesInv

LEMMA PagesInitInv == PagesInit => PagesInv
<1> SUFFICES ASSUME PagesInit PROVE PagesInv
  OBVIOUS
<1>1. <<>> \in Log /\ <<>> \in SoundLogs(0)
  BY DEF Log, SoundLogs
<1>2. turns = <<>> /\ Len(turns) = 0 /\ Turn = {} /\ db = Empty /\ DOMAIN db = {} /\ minted = 1 /\ gone = {}
  BY DEF PagesInit, Turn, Empty
<1>3. Doc(0, <<>>) \in DocType /\ Doc(0, <<>>).log = <<>> /\ Doc(1, <<>>) \in DocType /\ Doc(1, <<>>).log = <<>>
  BY <1>1 DEF Doc, DocType
<1>4. Closed \in PageType /\ Closed.view = Doc(0, <<>>)
  BY <1>3 DEF Closed, PageType
<1>5. OpenedPage(1) \in PageType /\ OpenedPage(1).view = Doc(1, <<>>)
  BY <1>3, <1>4 DEF OpenedPage, PageType
<1>6. page \in [Pages -> PageType] /\ \A p \in Pages : page[p].view.log = <<>>
  BY <1>3, <1>4, <1>5 DEF PagesInit
<1>7. ASSUME NEW h \in handlers
      PROVE  h.page \in Pages /\ h.op = "list" /\ h.found = Empty /\ DOMAIN h.found = {}
  BY DEF PagesInit, Empty, Pages
<1>8. ASSUME NEW S, <<>> \in S PROVE AllIn(S)
  BY <1>2, <1>6, <1>7, <1>8 DEF AllIn, InStore, OnPages, InTurns, InHandlers
<1>9. PagesShape
  BY <1>2, <1>6, <1>7 DEF PagesShape, HandlerOK
<1> QED BY <1>1, <1>2, <1>8, <1>9 DEF PagesInv, PagesTyped, TurnsOpen

LEMMA PagesInvariant == PagesSpec => []PagesInv
BY PagesInitInv, PagesNextInv, PTL DEF PagesSpec

\* The documents of OneReply are the copies AllIn speaks of.
LEMMA DocumentLogs ==
    ASSUME NEW S, AllIn(S), NEW doc \in Documents
    PROVE  doc.log \in S
<1>1. CASE doc \in {Doc(c, db[c]) : c \in DOMAIN db}
  BY <1>1 DEF Doc, AllIn, InStore
<1>2. CASE doc \in {page[p].view : p \in Pages}
  BY <1>2 DEF AllIn, OnPages
<1>3. CASE \E r \in Turn : doc \in {Doc(turns[r].id, turns[r].current), Doc(turns[r].id, turns[r].runner)}
  BY <1>3 DEF Doc, AllIn, InTurns
<1>4. CASE \E h \in handlers : h.op = "select" /\ \E log \in h.found : doc = Doc(h.target, log)
  BY <1>4 DEF Doc, AllIn, InHandlers
<1>5. CASE \E h \in handlers : h.op = "list" /\ \E c \in DOMAIN h.found : doc = Doc(c, h.found[c])
  BY <1>5 DEF Doc, AllIn, InHandlers
<1> QED BY <1>1, <1>2, <1>3, <1>4, <1>5 DEF Documents

\* In every copy of a conversation a turn has its question first and one reply at most.
THEOREM RepliedOnce == PagesSpec => []OneReply
<1>1. ASSUME PagesInv PROVE OneReply
  <2> SUFFICES ASSUME NEW doc \in Documents, NEW r \in Turn
               PROVE  LET replies == Positions(doc.log, ReplyKinds, r)
                          others == Positions(doc.log, ReplyKinds \union {"tool", "running"}, r)
                      IN  /\ Cardinality(replies) <= 1
                          /\ \A i \in others : \E q \in Positions(doc.log, {"user"}, r) : q < i
    BY DEF OneReply
  <2> DEFINE replies == Positions(doc.log, ReplyKinds, r)
             others == Positions(doc.log, ReplyKinds \union {"tool", "running"}, r)
  <2>1. doc.log \in SoundLogs(Len(turns))
    BY <1>1, DocumentLogs DEF PagesInv
  <2>2. \A i, j \in replies : i = j
    BY <2>1 DEF SoundLogs, Positions
  <2>3. \A i \in others : \E q \in Positions(doc.log, {"user"}, r) : q < i
    <3> SUFFICES ASSUME NEW i \in others PROVE \E q \in Positions(doc.log, {"user"}, r) : q < i
      OBVIOUS
    <3>1. i \in DOMAIN doc.log /\ doc.log[i].kind # "user" /\ doc.log[i].turn = r
      BY DEF Positions, ReplyKinds
    <3> QED BY <2>1, <3>1 DEF SoundLogs, Positions
  <2>4. Cardinality(replies) <= 1
    <3> HIDE DEF replies
    <3>1. CASE replies = {}
      BY <3>1, FS_EmptySet
    <3>2. ASSUME NEW i, replies = {i} PROVE Cardinality(replies) <= 1
      <4>1. Cardinality({i}) = 1
        BY FS_Singleton
      <4> QED BY <3>2, <4>1
    <3>3. replies = {} \/ \E i : replies = {i}
      BY <2>2
    <3> QED BY <3>1, <3>2, <3>3
  <2> QED BY <2>3, <2>4
<1> QED BY <1>1, PagesInvariant, PTL

(***************************************************************************)
(* Conversations: no reply of a turn that was stopped                      *)
(***************************************************************************)

\* The logs without a reply of r.
SilentLogs(r) == {l \in Log : \A i \in DOMAIN l : l[i].turn = r => l[i].kind \notin ReplyKinds}

LEMMA LogsOfDocuments ==
    ASSUME NEW S, \A doc \in Documents : doc.log \in S
    PROVE  AllIn(S)
<1>1. InStore(S)
  <2>1. \A c \in DOMAIN db : Doc(c, db[c]) \in Documents /\ Doc(c, db[c]).log = db[c]
    BY DEF Documents, Doc
  <2> QED BY <2>1 DEF InStore
<1>2. OnPages(S)
  BY DEF Documents, OnPages
<1>3. InTurns(S)
  <2>1. \A r \in Turn : /\ Doc(turns[r].id, turns[r].current) \in Documents
                        /\ Doc(turns[r].id, turns[r].runner) \in Documents
    BY DEF Documents
  <2> QED BY <2>1 DEF InTurns, Doc
<1>4. InHandlers(S)
  <2>1. \A h \in handlers : h.op = "select" => \A log \in h.found : Doc(h.target, log) \in Documents
    BY DEF Documents
  <2>2. \A h \in handlers : h.op = "list" => \A c \in DOMAIN h.found : Doc(c, h.found[c]) \in Documents
    BY DEF Documents
  <2> QED BY <2>1, <2>2 DEF InHandlers, Doc
<1> QED BY <1>1, <1>2, <1>3, <1>4 DEF AllIn

SilenceAgrees ==
    PagesTyped => \A r \in Nat : ~Replied(r) <=> AllIn(SilentLogs(r))

LEMMA SilenceIs == SilenceAgrees
<1> SUFFICES ASSUME PagesTyped, NEW r \in Nat PROVE ~Replied(r) <=> AllIn(SilentLogs(r))
  BY DEF SilenceAgrees
<1>1. ASSUME NEW doc \in Documents
      PROVE  doc.log \in SilentLogs(r) <=> Positions(doc.log, ReplyKinds, r) = {}
  BY DocumentLogs DEF PagesTyped, SilentLogs, Positions
<1>2. (\A doc \in Documents : doc.log \in SilentLogs(r)) <=> AllIn(SilentLogs(r))
  BY DocumentLogs, LogsOfDocuments
<1> QED BY <1>1, <1>2 DEF Replied

LEMMA SilentAdmits ==
    ASSUME PagesTyped, NEW r \in Turn, ~Active(r), AllIn(SilentLogs(r)), Admits(Log)
    PROVE  Admits(SilentLogs(r))
<1>0. r \in Nat /\ Len(turns) + 1 \in Nat
  BY DEF Turn, PagesTyped, PagesShape
<1>1. <<>> \in SilentLogs(r)
  BY DEF SilentLogs, Admits
<1>2. ASSUME NEW l \in SilentLogs(r), NEW kind \in Kinds, NEW q \in Nat, q # r \/ kind = "user"
      PROVE  Append(l, Message(kind, q)) \in SilentLogs(r)
  <2>1. l \in Log /\ "user" \notin ReplyKinds
    BY DEF SilentLogs, ReplyKinds
  <2>2. PICK m : m = Append(l, Message(kind, q))
    OBVIOUS
  <2>3. /\ m \in Log /\ Len(l) \in Nat /\ DOMAIN l = 1 .. Len(l) /\ DOMAIN m = 1 .. Len(l) + 1
        /\ \A i \in 1 .. Len(l) : m[i] = l[i]
        /\ m[Len(l) + 1].kind = kind /\ m[Len(l) + 1].turn = q
    BY <2>1, <2>2, Appended
  <2>4. ASSUME NEW i \in DOMAIN m, m[i].turn = r PROVE m[i].kind \notin ReplyKinds
    <3>1. CASE i = Len(l) + 1
      BY <1>2, <2>1, <2>3, <2>4, <3>1
    <3>2. CASE i \in DOMAIN l
      BY <2>3, <2>4, <3>2 DEF SilentLogs
    <3> QED BY <2>3, <3>1, <3>2
  <2>5. m \in SilentLogs(r)
    BY <2>3, <2>4 DEF SilentLogs
  <2> QED BY <2>2, <2>5
<1>3. ASSUME NEW q \in Turn, NEW kind \in Kinds \ {"user"}, Active(q)
      PROVE  /\ Append(turns[q].current, Message(kind, q)) \in SilentLogs(r)
             /\ Append(turns[q].runner, Message(kind, q)) \in SilentLogs(r)
  BY <1>2, <1>3 DEF Turn, AllIn, InTurns
<1>4. ASSUME NEW l \in SilentLogs(r)
      PROVE  Append(l, Message("user", Len(turns) + 1)) \in SilentLogs(r)
  BY <1>0, <1>2 DEF Kinds
<1>5. ASSUME NEW l \in SilentLogs(r), NEW i \in DOMAIN l, l[i].kind = "pending"
      PROVE  [l EXCEPT ![i].kind = "decided"] \in SilentLogs(r)
  <2>1. l \in Log
    BY DEF SilentLogs
  <2>2. PICK m : m = [l EXCEPT ![i].kind = "decided"]
    OBVIOUS
  <2>3. /\ m \in Log /\ DOMAIN m = DOMAIN l
        /\ \A j \in DOMAIN l : /\ m[j].turn = l[j].turn
                               /\ (m[j].kind \in ReplyKinds) <=> (l[j].kind \in ReplyKinds)
    BY <1>5, <2>1, <2>2, Decided
  <2>4. m \in SilentLogs(r)
    BY <2>3 DEF SilentLogs
  <2> QED BY <2>2, <2>4
<1> QED BY <1>1, <1>3, <1>4, <1>5 DEF Admits

\* Whatever its service call and its tools still return, a turn that was stopped
\* before it had given a reply gives none any more, in no copy.
THEOREM StoppedStaySilent == PagesSpec => AbortedStaySilent
<1>1. ASSUME PagesTyped, PagesTyped', SilenceAgrees, SilenceAgrees', [PagesNext]_pagesVars
      PROVE  [\A r \in Turn : ~Active(r) /\ ~Replied(r) => ~Replied(r)']_pagesVars
  <2> SUFFICES ASSUME NEW r \in Turn, ~Active(r), ~Replied(r) PROVE ~Replied(r)'
    OBVIOUS
  <2>1. r \in Nat
    BY DEF Turn
  <2>2. AllIn(SilentLogs(r))
    BY <1>1, <2>1 DEF SilenceAgrees
  <2>3. Admits(SilentLogs(r))
    BY <1>1, <2>2, LogAdmits, SilentAdmits
  <2>4. SilentLogs(r) \in SUBSET Log
    BY DEF SilentLogs
  <2>5. AllIn(SilentLogs(r))'
    BY <1>1, <2>2, <2>3, <2>4, PagesKeep
  <2> QED BY <1>1, <2>1, <2>5 DEF SilenceAgrees
<1>2. PagesInv => PagesTyped
  BY DEF PagesInv
<1>3. PagesSpec => [][PagesNext]_pagesVars
  BY PTL DEF PagesSpec
<1> QED BY <1>1, <1>2, <1>3, PagesInvariant, SilenceIs, PTL DEF AbortedStaySilent
=============================================================================
