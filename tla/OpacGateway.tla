---------------------------- MODULE OpacGateway ----------------------------
(***************************************************************************)
(* The service's own client of the library catalogue                       *)
(* (services/api/orbit_api/library/opac_gateway.py).                       *)
(*                                                                         *)
(* Chats of any number of students search the catalogue and read records   *)
(* through one gateway.  One call at a time talks to the site, in the      *)
(* order of their coming, and every page it starts comes min_interval      *)
(* after the last one; others wait, and some find in a small cache what    *)
(* another call has just read.  A call that meets a slow or busy site      *)
(* takes another turn and asks once more, still holding the lock; one that *)
(* is cancelled, as when its chat run expires, leaves it.                  *)
(*                                                                         *)
(* A key is a kind of call with everything that makes its answer.  What an *)
(* answer says is left out; when it was read is kept.  The transport is    *)
(* switched on, and a read is for a record the chat was told of; whether   *)
(* the record still matches is one of the ways in which a read fails.      *)
(***************************************************************************)
EXTENDS Integers, SequencesExt

CONSTANTS
    Calls,         \* calls of search and read
    Words,         \* normalized conditions of a search
    Records,       \* records that are read
    MinInterval,   \* min_interval
    SearchTTL, DetailTTL,  \* how long answers of the two kinds are kept
    CacheLimit,    \* _MemoryCache.limit
    MaxClock       \* bound on the clock (model checking only)

\* The environment variables are cut off at zero.
OpacAssumption == MinInterval \in Nat /\ SearchTTL \in Nat /\ DetailTTL \in Nat /\ CacheLimit \in Nat
ASSUME OpacAssumption

VARIABLES
    clock,         \* time.monotonic()
    lastStarted,   \* _last_page_started
    cache,         \* _MemoryCache._values, the least recently used first
    queue,         \* _upstream_lock: its holder, and behind it those who wait
    asked          \* the local variables of every call

opacVars == <<clock, lastStarted, cache, queue, asked>>

Keys == ({"search"} \X Words) \union ({"read"} \X Records)
NotAsked == [pc |-> "idle"]

\* The machine has been up for longer than the interval.
OpacInit ==
    /\ clock = MinInterval
    /\ lastStarted = 0
    /\ cache = <<>>
    /\ queue = <<>>
    /\ asked = [h \in Calls |-> NotAsked]

-----------------------------------------------------------------------------
(* _MemoryCache *)

TTL(key) == IF key[1] = "search" THEN SearchTTL ELSE DetailTTL
Live(key) == {e \in ToSet(cache) : e.key = key /\ TTL(key) > 0 /\ clock - e.at <= TTL(key)}
Place(key) == CHOOSE i \in DOMAIN cache : cache[i].key = key
Stored(key) == \E i \in DOMAIN cache : cache[i].key = key
Others(key) == IF Stored(key) THEN RemoveAt(cache, Place(key)) ELSE cache

\* get: an entry that is too old goes, another one becomes the last to go.
Got(key) ==
    IF TTL(key) <= 0 THEN cache
    ELSE IF Live(key) = {} THEN Others(key) ELSE Append(Others(key), cache[Place(key)])
Put(key) ==
    LET all == Append(Others(key), [key |-> key, at |-> clock])
    IN SubSeq(all, IF Len(all) > CacheLimit THEN Len(all) - CacheLimit + 1 ELSE 1, Len(all))

-----------------------------------------------------------------------------
(* The lock, and the turns of its holder *)

\* Where the call is that has the lock; "queued" is where the others are.
Holding == {"waits", "sleeps", "page", "availability"}

Stands(h, pc) == asked[h].pc = pc
TurnsTo(h, locals) == asked' = [asked EXCEPT ![h] = locals]
Goto(h, pc) == TurnsTo(h, [asked[h] EXCEPT !.pc = pc])
Leave(h) == \E i \in DOMAIN queue : queue[i] = h /\ queue' = RemoveAt(queue, i)

\* The call returns what was read at that time, or -1: the catalogue is unavailable.
Returned(key, read) == [pc |-> "answered", key |-> key, read |-> read, at |-> clock]
Return(h, read) == TurnsTo(h, Returned(asked[h].key, read))

Wakes == IF clock - lastStarted >= MinInterval THEN clock ELSE lastStarted + MinInterval

\* _wait_turn: how long to sleep is computed once, before it.
WaitTurn(h) ==
    /\ Stands(h, "waits")
    /\ TurnsTo(h, [asked[h] EXCEPT !.pc = "sleeps", !.wake = Wakes])
    /\ UNCHANGED <<clock, lastStarted, cache, queue>>
Started(h) ==
    /\ Stands(h, "sleeps") /\ clock >= asked[h].wake
    /\ lastStarted' = clock
    /\ Goto(h, asked[h].step)
    /\ UNCHANGED <<clock, cache, queue>>

\* search, read: the cache is looked at before the lock is asked for.
Ask(h, key) ==
    /\ Stands(h, "idle")
    /\ cache' = Got(key)
    /\ IF Live(key) # {}
       THEN /\ \E e \in Live(key) : TurnsTo(h, Returned(key, e.at))
            /\ UNCHANGED queue
       ELSE /\ TurnsTo(h, [pc |-> "queued", key |-> key, step |-> "page", tries |-> 0, wake |-> 0])
            /\ queue' = Append(queue, h)
    /\ UNCHANGED <<clock, lastStarted>>

\* fault: a search does not look into the cache again.
LockedUnlooked(h) ==
    /\ Stands(h, "queued") /\ Head(queue) = h
    /\ Goto(h, "waits")
    /\ UNCHANGED <<clock, lastStarted, cache, queue>>
\* The lock is got.  A search looks into the cache again, a read does not.
Locked(h) ==
    LET key == asked[h].key
        found == IF key[1] = "search" THEN Live(key) ELSE {}
    IN /\ Stands(h, "queued") /\ Head(queue) = h
       /\ cache' = IF key[1] = "search" THEN Got(key) ELSE cache
       /\ IF found = {} THEN Goto(h, "waits") /\ UNCHANGED queue
          ELSE /\ \E e \in found : Return(h, e.at)
               /\ Leave(h)
       /\ UNCHANGED <<clock, lastStarted>>

-----------------------------------------------------------------------------
(* The site *)

\* The error of a response or of its contents: an answer that is not kept.
Unavailable(h) == Return(h, -1) /\ Leave(h) /\ UNCHANGED <<clock, lastStarted, cache>>
Known(h) ==
    /\ cache' = Put(asked[h].key)
    /\ Return(h, clock) /\ Leave(h)
    /\ UNCHANGED <<clock, lastStarted>>

\* Slow, busy or unreachable for the first time: after a while, another turn.
Again(h) ==
    /\ asked[h].tries = 0
    /\ TurnsTo(h, [asked[h] EXCEPT !.pc = "waits", !.tries = 1])
    /\ UNCHANGED <<clock, lastStarted, cache, queue>>
Proceed(h) ==
    /\ TurnsTo(h, [asked[h] EXCEPT !.pc = "availability", !.step = "availability", !.tries = 0])
    /\ UNCHANGED <<clock, lastStarted, cache, queue>>

\* _search_page: the form is loaded and sent, once.  The answer is a record, or a list of records whose
\* availability may be asked for, or an empty list.
SearchPage(h) ==
    /\ Stands(h, "page") /\ asked[h].key[1] = "search"
    /\ Proceed(h) \/ Known(h) \/ Unavailable(h)
\* _get_page: the entry page, then the record.
GetPage(h) ==
    /\ Stands(h, "page") /\ asked[h].key[1] = "read"
    /\ Proceed(h) \/ Again(h) \/ Unavailable(h)
\* _availability: of the records of a list, or of the holdings of one record, which may be another one by now.
Availability(h) ==
    /\ Stands(h, "availability")
    /\ Known(h) \/ Again(h) \/ Unavailable(h)

\* The task of the call is cancelled at an await: in the queue, asleep, or at the site.
Cancelled(h) ==
    /\ asked[h].pc \in {"queued"} \union Holding
    /\ TurnsTo(h, [pc |-> "cancelled"])
    /\ Leave(h)
    /\ UNCHANGED <<clock, lastStarted, cache>>

Passes ==
    /\ clock < MaxClock
    /\ clock' = clock + 1
    /\ UNCHANGED <<lastStarted, cache, queue, asked>>

OpacNext ==
    \/ \E h \in Calls :
          \/ \E key \in Keys : Ask(h, key)
          \/ Locked(h) \/ WaitTurn(h) \/ Started(h)
          \/ SearchPage(h) \/ GetPage(h) \/ Availability(h)
          \/ Cancelled(h)
    \/ Passes
OpacSpec == OpacInit /\ [][OpacNext]_opacVars

-----------------------------------------------------------------------------
OpacTypeOK ==
    /\ {clock, lastStarted} \subseteq 0..MaxClock
    /\ cache \in Seq([key : Keys, at : 0..MaxClock]) /\ Len(cache) <= CacheLimit
    /\ queue \in Seq(Calls)
    /\ \A h \in Calls : asked[h].pc \in {"idle", "answered", "cancelled"} \/ asked[h].key \in Keys

\* One call at a time has the lock and talks to the site.
OneAtATime == \A g, h \in Calls : {asked[g].pc, asked[h].pc} \subseteq Holding => g = h

\* Pages start min_interval apart, although the time to sleep is computed before the sleep: nobody
\* else starts one meanwhile, whoever retries, fails or is cancelled.
TurnsSpaced == \A h \in Calls : Stands(h, "sleeps") => asked[h].wake >= lastStarted + MinInterval

\* A search does not ask the site for what the cache still has, even if it was read while it waited.
AskedOnce ==
    \A h \in Calls :
        asked[h].pc \in Holding /\ asked[h].key[1] = "search" => Live(asked[h].key) = {}

\* No answer tells of a state of the catalogue that was older, when it was given, than its kind may be.
FreshAnswers ==
    \A h \in Calls : Stands(h, "answered") /\ asked[h].read >= 0 => asked[h].at - asked[h].read <= TTL(asked[h].key)

\* The service asks the catalogue in turn, not for what it has, and answers with nothing older than it may be.
AskedInTurn == OneAtATime /\ TurnsSpaced /\ AskedOnce /\ FreshAnswers
=============================================================================
