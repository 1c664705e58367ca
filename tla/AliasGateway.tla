---------------------------- MODULE AliasGateway ----------------------------
(***************************************************************************)
(* The conversation-scoped alias gateway of the extension                  *)
(* (apps/extension/src/privacy/conversation-pseudonymization.ts).          *)
(*                                                                         *)
(* The panel and the service worker each own a gateway object; both share  *)
(* one encrypted record per conversation in IndexedDB and one root key in  *)
(* chrome.storage.session.  A gateway keeps the mapping of one active      *)
(* conversation in memory and every public method first brings it up to    *)
(* date (ensureConversation).  All of that is read-await-write, so what    *)
(* runs in between matters: another method of the same gateway, the other  *)
(* gateway, the deletion of a conversation, a restart of the worker.       *)
(*                                                                         *)
(* A turn is one call of a public method.  Its pc names the await it is    *)
(* at.  Aliases are pairs of a token and the person it stands for; random  *)
(* tokens are numbered as they are made.  A record can be read with the    *)
(* root key and the conversation it was written for, and only so.  The     *)
(* code compares references to tell whether a snapshot is still the        *)
(* gateway's; here replacing the gateway's objects marks the snapshots of  *)
(* its calls stale.  Expiry after thirty minutes acts like a deletion and  *)
(* is left out.                                                            *)
(***************************************************************************)
EXTENDS Naturals, FiniteSets

CONSTANTS
    Convs,      \* conversations
    People,     \* people a CAST page names
    Turns,      \* calls that may be under way at once
    Panel,      \* the turns of the panel's gateway; the others are the worker's
    MaxAliasCalls, \* bound on the calls made (model checking only)
    MaxRestarts    \* bound on the restarts of the worker (model checking only)

VARIABLES
    rootKey,  \* the root key in chrome.storage.session: a generation, 0 when absent
    record,   \* the encrypted record of each conversation in IndexedDB
    gateway,  \* the memory of each gateway object
    turn,     \* the local variables of each call
    erase,    \* the deletion of a conversation
    restart,  \* the clearAll of a restarted worker
    made      \* how many root keys, tokens and calls there have been

aliasVars == <<rootKey, record, gateway, turn, erase, restart, made>>

Gateways == {"panel", "worker"}
Home(t) == IF t \in Panel THEN "panel" ELSE "worker"

NoMap == [conv |-> "none", aliases |-> {}]
NoKey == [gen |-> 0, conv |-> "none"]
NoRecord == [key |-> NoKey, aliases |-> {}]
Empty == [active |-> "none", map |-> NoMap, key |-> NoKey]
NoSnap == [current |-> FALSE, key |-> NoKey, aliases |-> {}]
Quiet == [pc |-> "idle", conv |-> "none", who |-> "none",
          root |-> 0, snap |-> NoSnap, writes |-> "none", next |-> "none", loaded |-> NoRecord]

AliasInit ==
    /\ rootKey = 0
    /\ record = [c \in Convs |-> NoRecord]
    /\ gateway = [g \in Gateways |-> Empty]
    /\ turn = [t \in Turns |-> Quiet]
    /\ erase = [pc |-> "idle", conv |-> "none", waits |-> {}]
    /\ restart = "ready"
    /\ made = [keys |-> 0, tokens |-> 0, old |-> 0, calls |-> 0, restarts |-> 0]

-----------------------------------------------------------------------------
(* What the methods share *)

\* decrypt: AES-GCM with the conversation's key, which is derived from the root.
Opened(r, key) == IF r.key = key THEN r ELSE NoRecord

\* syncSessionKey: drop everything when the root key changed underneath, and the record if it is gone.
Synced(g) == IF gateway[g].key.gen \notin {0, rootKey} THEN Empty ELSE gateway[g]
SyncedRecord(g) ==
    IF gateway[g].key # NoKey /\ gateway[g].active \in Convs /\ rootKey = 0
    THEN [record EXCEPT ![gateway[g].active] = NoRecord] ELSE record

\* clear(conversationId), its synchronous part.
Cleared(mem, c) == IF mem.active = c THEN Empty ELSE mem

\* Writes of conversation c under way in gateway g (pendingWrites).
Writing(g, c) ==
    {t \in Turns : Home(t) = g /\ turn[t].pc \in {"check", "recheck", "put"} /\ turn[t].writes = c}

\* Gateway g gets new objects: the snapshots of its calls are no longer current (isCurrentSnapshot).
Stale(g) == [t \in Turns |-> IF Home(t) = g THEN [turn[t] EXCEPT !.snap.current = FALSE] ELSE turn[t]]

\* persist: begin a write of the mapping in mem, then go on at pc `next`.
Persisting(u, mem, next) ==
    IF mem.map = NoMap \/ mem.key = NoKey
    THEN [u EXCEPT !.pc = next]
    ELSE [u EXCEPT !.pc = "check", !.next = next, !.writes = mem.map.conv,
                   !.snap = [current |-> mem.active = mem.map.conv, key |-> mem.key, aliases |-> {}]]

\* The same token of both sides is one alias.
Merged(mine, theirs) == mine \union theirs

Goto(t, pc) == turn' = [turn EXCEPT ![t].pc = pc]
\* Call t replaces the memory of its gateway and goes on as u.
Replace(t, mem, u) ==
    /\ gateway' = [gateway EXCEPT ![Home(t)] = mem]
    /\ turn' = [Stale(Home(t)) EXCEPT ![t] = u]

-----------------------------------------------------------------------------
(* The steps of a call *)

\* A call of the panel transforms a text in which a person may be mentioned
\* (transformText, transformToolProjection, restoreMarkdown); one of the worker
\* names a person of a CAST page (transformTypedPeople).
Call(t, c, p) ==
    /\ turn[t].pc = "idle" /\ made.calls < MaxAliasCalls
    /\ t \notin Panel => restart = "ready"
    /\ turn' = [turn EXCEPT ![t] = [Quiet EXCEPT !.pc = "ensure", !.conv = c, !.who = p]]
    /\ made' = [made EXCEPT !.calls = @ + 1]
    /\ UNCHANGED <<rootKey, record, gateway, erase, restart>>

\* ensureConversation up to its read of the store.
Ensure(t) ==
    LET mem == Synced(Home(t))
        next == IF mem.active = turn[t].conv /\ mem.map # NoMap THEN "refresh" ELSE "begin"
    IN /\ turn[t].pc = "ensure"
       /\ record' = SyncedRecord(Home(t))
       /\ IF mem = gateway[Home(t)]
          THEN Goto(t, next) /\ UNCHANGED gateway
          ELSE Replace(t, mem, [turn[t] EXCEPT !.pc = next])
       /\ UNCHANGED <<rootKey, erase, restart, made>>

\* begin up to its next await: the conversation becomes active, under the root key, or one is made and stored.
Begin(t) ==
    LET c == turn[t].conv
        mem == Synced(Home(t))
        begun == [mem EXCEPT !.active = c, !.key = IF rootKey = 0 THEN @ ELSE [gen |-> rootKey, conv |-> c]]
        fresh == made.keys + 1
    IN /\ turn[t].pc = "begin"
       /\ record' = SyncedRecord(Home(t))
       /\ IF mem.active = c /\ mem.map # NoMap
          THEN /\ turn' = [turn EXCEPT ![t] = Persisting(@, mem, "refresh")]
               /\ UNCHANGED <<rootKey, gateway, made>>
          ELSE IF rootKey # 0
          THEN Replace(t, begun, [turn[t] EXCEPT !.pc = "load"]) /\ UNCHANGED <<rootKey, made>>
          ELSE /\ Replace(t, begun, [turn[t] EXCEPT !.pc = "newkey", !.root = fresh])
               /\ rootKey' = fresh
               /\ made' = [made EXCEPT !.keys = fresh]
       /\ UNCHANGED <<erase, restart>>

\* The new root key is stored: the gateway takes it for its own.
NewKey(t) ==
    LET key == [gen |-> turn[t].root, conv |-> turn[t].conv]
    IN /\ turn[t].pc = "newkey"
       /\ Replace(t, [gateway[Home(t)] EXCEPT !.key = key], [turn[t] EXCEPT !.pc = "load", !.root = 0])
       /\ UNCHANGED <<rootKey, record, erase, restart, made>>

\* begin's read of the store.  A record is decrypted, an await of its own, with the key of this instant.
Load(t) ==
    LET c == turn[t].conv
        mem == gateway[Home(t)]
        fresh == [mem EXCEPT !.map = [conv |-> c, aliases |-> {}]]
    IN /\ turn[t].pc = "load"
       /\ IF record[c] = NoRecord
          THEN Replace(t, fresh, Persisting(turn[t], fresh, "refresh"))
          ELSE /\ turn' = [turn EXCEPT ![t].pc = "decrypted", ![t].loaded = Opened(record[c], mem.key)]
               /\ UNCHANGED gateway
       /\ UNCHANGED <<rootKey, record, erase, restart, made>>

\* What was decrypted becomes the mapping; a record that did not open is deleted.
Decrypted(t) ==
    LET c == turn[t].conv
        read == turn[t].loaded
        u == [turn[t] EXCEPT !.loaded = NoRecord]
        loaded == [gateway[Home(t)] EXCEPT !.map = [conv |-> c, aliases |-> read.aliases]]
    IN /\ turn[t].pc = "decrypted"
       /\ Replace(t, loaded, IF read # NoRecord THEN [u EXCEPT !.pc = "refresh"] ELSE Persisting(u, loaded, "refresh"))
       /\ record' = IF read # NoRecord THEN record ELSE [record EXCEPT ![c] = NoRecord]
       /\ UNCHANGED <<rootKey, erase, restart, made>>

\* ensureConversation reads the store again, for aliases the other gateway made, ...
Refresh(t) ==
    LET mem == gateway[Home(t)]
    IN /\ turn[t].pc = "refresh"
       /\ turn' = [turn EXCEPT ![t] =
              IF mem.map # NoMap /\ mem.key # NoKey /\ mem.active = turn[t].conv
              THEN [@ EXCEPT !.pc = "merge", !.loaded = Opened(record[turn[t].conv], mem.key)]
              ELSE Persisting(@, mem, "use")]
       /\ UNCHANGED <<rootKey, record, gateway, erase, restart, made>>

\* ... merges it with memory and touches it; a record gone or unreadable starts the conversation anew.
Merge(t) ==
    LET c == turn[t].conv
        mem == gateway[Home(t)]
        read == turn[t].loaded
        u == [turn[t] EXCEPT !.loaded = NoRecord]
        merged == [mem EXCEPT !.map = [conv |-> c, aliases |-> Merged(mem.map.aliases, read.aliases)]]
    IN /\ turn[t].pc = "merge"
       /\ IF read # NoRecord /\ mem.map # NoMap
          THEN Replace(t, merged, Persisting(u, merged, "use"))
          ELSE Replace(t, Cleared(mem, c), [u EXCEPT !.pc = "renew"])
       /\ UNCHANGED <<rootKey, record, erase, restart, made>>

\* clear waits for the gateway's own writes and deletes the record; then begin.
Renew(t) ==
    /\ turn[t].pc = "renew"
    /\ Writing(Home(t), turn[t].conv) = {}
    /\ record' = [record EXCEPT ![turn[t].conv] = NoRecord]
    /\ Goto(t, "begin")
    /\ UNCHANGED <<rootKey, gateway, erase, restart, made>>

\* persistSnapshot looks at the root key and the gateway's objects before it encrypts, ...
Check(t) ==
    LET g == Home(t)
        u == turn[t]
        skip == [u EXCEPT !.pc = u.next, !.snap = NoSnap, !.writes = "none"]
    IN /\ u.pc = "check"
       /\ \/ /\ u.snap.current /\ u.snap.key.gen = rootKey
             /\ turn' = [turn EXCEPT ![t].pc = "recheck", ![t].snap.aliases = gateway[g].map.aliases]
             /\ UNCHANGED <<gateway, record>>
          \/ /\ u.snap.current /\ rootKey = 0
             /\ Replace(t, Empty, skip)
             /\ record' = [record EXCEPT ![u.writes] = NoRecord]
          \/ /\ ~u.snap.current \/ rootKey \notin {0, u.snap.key.gen}
             /\ turn' = [turn EXCEPT ![t] = skip]
             /\ UNCHANGED <<gateway, record>>
       /\ UNCHANGED <<rootKey, erase, restart, made>>

\* ... again afterwards, ...
Recheck(t) ==
    LET u == turn[t]
    IN /\ u.pc = "recheck"
       /\ turn' = [turn EXCEPT ![t] =
              IF u.snap.current /\ u.snap.key.gen = rootKey THEN [u EXCEPT !.pc = "put"]
              ELSE [u EXCEPT !.pc = u.next, !.snap = NoSnap, !.writes = "none"]]
       /\ UNCHANGED <<rootKey, record, gateway, erase, restart, made>>

\* ... and writes the record.
Put(t) ==
    LET u == turn[t]
    IN /\ u.pc = "put"
       /\ record' = [record EXCEPT ![u.writes] = [key |-> u.snap.key, aliases |-> u.snap.aliases]]
       /\ turn' = [turn EXCEPT ![t] = [u EXCEPT !.pc = u.next, !.snap = NoSnap, !.writes = "none"]]
       /\ UNCHANGED <<rootKey, gateway, erase, restart, made>>

\* aliasFor: a person keeps a token, or gets a fresh one.
Known(map, p) == \E a \in map.aliases : a[2] = p
AliasFor(map, p) ==
    IF Known(map, p) THEN map ELSE [map EXCEPT !.aliases = @ \union {<<made.tokens + 1, p>>}]

\* A text is transformed with the mapping of that instant, which stays as it is.
UseText(t) ==
    /\ t \in Panel /\ turn[t].pc = "use"
    /\ turn' = [turn EXCEPT ![t] = Quiet]
    /\ UNCHANGED <<rootKey, record, gateway, erase, restart, made>>

\* A person gets an alias in the mapping of that instant, or, without one, a token nobody keeps.
UsePerson(t) ==
    LET g == Home(t)
        minted == [gateway[g] EXCEPT !.map = AliasFor(@, turn[t].who)]
    IN /\ t \notin Panel /\ turn[t].pc = "use"
       /\ IF gateway[g].map # NoMap
          THEN /\ gateway' = [gateway EXCEPT ![g] = minted]
               /\ made' = IF minted = gateway[g] THEN made ELSE [made EXCEPT !.tokens = @ + 1]
               /\ turn' = [turn EXCEPT ![t] = Persisting(@, minted, "named")]
          ELSE Goto(t, "named") /\ UNCHANGED <<gateway, made>>
       /\ UNCHANGED <<rootKey, record, erase, restart>>

\* The projection with the alias goes to the provider, the page with the name to the student.
Named(t) ==
    /\ turn[t].pc = "named"
    /\ turn' = [turn EXCEPT ![t] = Quiet]
    /\ UNCHANGED <<rootKey, record, gateway, erase, restart, made>>

-----------------------------------------------------------------------------
(* Deletion and restart *)

\* clear(c) of gateway g: forget, wait for the writes under way, delete the record.
Forget(g, c, from, to) ==
    /\ erase.pc = from
    /\ gateway' = [gateway EXCEPT ![g] = Cleared(@, c)]
    /\ turn' = IF gateway[g].active = c THEN Stale(g) ELSE turn
    /\ erase' = [pc |-> to, conv |-> c, waits |-> Writing(g, c)]
    /\ UNCHANGED <<rootKey, record, restart, made>>
DropRecord(g, from, to) ==
    /\ erase.pc = from
    /\ Writing(g, erase.conv) \intersect erase.waits = {}
    /\ record' = [record EXCEPT ![erase.conv] = NoRecord]
    /\ erase' = [erase EXCEPT !.pc = to, !.waits = {}]
    /\ UNCHANGED <<rootKey, gateway, turn, restart, made>>

\* clearConversationRuntime: the panel's gateway first, then by message the worker's.
ClearConversation ==
    \/ \E c \in Convs : Forget("panel", c, "idle", "panel")
    \/ DropRecord("panel", "panel", "message")
    \/ restart = "ready" /\ Forget("worker", erase.conv, "message", "worker")
    \/ DropRecord("worker", "worker", "done")

\* A restarted worker has an empty gateway and drops every record, then the root key (clearAll).
Restart ==
    /\ made.restarts < MaxRestarts
    /\ gateway' = [gateway EXCEPT !["worker"] = Empty]
    /\ turn' = [t \in Turns |-> IF t \in Panel THEN turn[t] ELSE Quiet]
    /\ restart' = "store"
    /\ made' = [made EXCEPT !.restarts = @ + 1, !.old = made.tokens]
    /\ erase' = IF erase.pc \in {"message", "worker"} THEN [erase EXCEPT !.pc = "message", !.waits = {}] ELSE erase
    /\ UNCHANGED <<rootKey, record>>

ClearStore ==
    /\ restart = "store"
    /\ record' = [c \in Convs |-> NoRecord]
    /\ restart' = "key"
    /\ UNCHANGED <<rootKey, gateway, turn, erase, made>>

ClearKey ==
    /\ restart = "key"
    /\ rootKey' = 0
    /\ restart' = "ready"
    /\ UNCHANGED <<record, gateway, turn, erase, made>>

Step(t) ==
    \/ Ensure(t) \/ Begin(t) \/ NewKey(t) \/ Load(t) \/ Decrypted(t) \/ Refresh(t) \/ Merge(t) \/ Renew(t)
    \/ Check(t) \/ Recheck(t) \/ Put(t) \/ UseText(t) \/ UsePerson(t) \/ Named(t)

AliasNext ==
    \/ \E t \in Turns : Step(t) \/ \E c \in Convs, p \in People : Call(t, c, p)
    \/ ClearConversation \/ Restart \/ ClearStore \/ ClearKey

AliasSpec == AliasInit /\ [][AliasNext]_aliasVars

-----------------------------------------------------------------------------
(* Properties *)

\* A restart of the worker is a privacy boundary: once it has cleared the store
\* and the key, nothing can be read that was named before, whatever write of
\* the panel was under way.
\* (tokens made before it are at most the number noted at the restart)
RestartForgets ==
    restart = "ready" =>
        \A c \in Convs : record[c].key.gen = rootKey /\ rootKey # 0 =>
            \A a \in record[c].aliases : a[1] > made.old
=============================================================================
