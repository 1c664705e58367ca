---------------------------- MODULE CareerVault ----------------------------
(***************************************************************************)
(* The encrypted career vault and the stores of indexed records in it      *)
(* (apps/extension/src/privacy/career-vault.ts, career-evidence-bank.ts,   *)
(* application-mission.ts, obog-concierge.ts).                             *)
(*                                                                         *)
(* The vault is a metadata entry (the salt), a probe that tells the right  *)
(* passphrase, and records, all in IndexedDB; the derived key lives in     *)
(* memory and in chrome.storage.session, and is dropped after fifteen idle *)
(* minutes.  The evidence bank, the mission store and the memo store each  *)
(* keep one index record; their mutations of it read, then write, one      *)
(* mutation at a time for every vault object; an index that is full loses  *)
(* its oldest entries when it is written.  The operations of the vault     *)
(* itself are not serialized.  A page or worker that holds the vault may   *)
(* be stopped at any await.                                                *)
(*                                                                         *)
(* A vault is numbered by its salt; the key that the right passphrase      *)
(* gives has the same number, a wrong passphrase a key that opens nothing. *)
(* The records of one store are modelled: what a record says is left out,  *)
(* the key it was encrypted with is not.  An index is kept as the place of *)
(* each record in it, counted from the newest entry; a record that it does *)
(* not list has place 0.  A name of a removed record may be taken again,   *)
(* for another record.                                                     *)
(***************************************************************************)
EXTENDS Naturals, FiniteSets

CONSTANTS
    Records,    \* ids of records
    MaxIndex,   \* the entries an index keeps
    Callers,    \* calls that may be under way at once
    MaxVaults,  \* bound on the vaults created (model checking only)
    MaxVaultCalls \* bound on the calls made (model checking only)

VaultAssumption == MaxVaults \in Nat /\ MaxIndex \in Nat /\ MaxIndex > 0
ASSUME VaultAssumption

VARIABLES
    disk,    \* IndexedDB: the salt, the key of the probe, of each record and of the index, and its entries
    sessionKey, \* the key in chrome.storage.session
    vault,   \* the object: the metadata it remembers, its key, whether its lock timer runs
    doing,   \* the local variables of each call
    count,    \* how many vaults and calls there have been; history: the key last active
    granted  \* history: how many creations were saved since that of a record was reported, its own
             \* included; 0 if it was not, or the record was removed since

vaultVars == <<disk, sessionKey, vault, doing, count, granted>>

NoEntries == [r \in Records |-> 0]
NoCall == [kind |-> "none", pc |-> "rest", key |-> 0, record |-> "none", seen |-> NoEntries, overtaken |-> FALSE]
NewVault == [meta |-> 0, key |-> 0, timer |-> FALSE]

VaultInit ==
    /\ disk = [meta |-> 0, probe |-> 0, record |-> NoEntries, index |-> [key |-> 0, place |-> NoEntries]]
    /\ sessionKey = 0
    /\ vault = NewVault
    /\ doing = [c \in Callers |-> NoCall]
    /\ count = [vaults |-> 0, calls |-> 0, active |-> 0]
    /\ granted = NoEntries

-----------------------------------------------------------------------------
(* What the operations share *)

WrongKey == MaxVaults + 1
VaultGoto(c, pc) == doing' = [doing EXCEPT ![c].pc = pc]
\* The call returns, or throws.
Return(c) == doing' = [doing EXCEPT ![c] = NoCall]
\* Operations on the content need the key of this instant (requireKey), ...
Locked == vault.key = 0
\* ... and restart the idle timer when they are done (touch).
Touched == vault' = [vault EXCEPT !.timer = TRUE]

\* The vault is destroyed, or its key replaced by that of another one created or
\* unlocked at the same time: what was reported, or is under way, is no longer promised.
Overtake(c, pc) ==
    /\ granted' = NoEntries
    /\ doing' = [d \in Callers |-> IF d = c THEN IF pc = "rest" THEN NoCall ELSE [doing[c] EXCEPT !.pc = pc]
                                   ELSE IF doing[d] = NoCall THEN NoCall
                                   ELSE [doing[d] EXCEPT !.overtaken = TRUE]]

\* serializeCareerVaultMutation: one mutation of the index at a time.
Mutations == {"create", "remove", "clear"}
Mutating == \E c \in Callers : doing[c].kind \in Mutations /\ doing[c].pc # "queued"
\* fault: a mutation does not wait for the one before it.
TurnFree(c) == doing[c].pc = "queued"
Turn(c) == doing[c].pc = "queued" /\ ~Mutating

Invoke(c, kind, pc, r) ==
    /\ doing[c] = NoCall /\ count.calls < MaxVaultCalls
    /\ doing' = [doing EXCEPT ![c] = [NoCall EXCEPT !.kind = kind, !.pc = pc, !.record = r]]
    /\ count' = [count EXCEPT !.calls = @ + 1]
    /\ UNCHANGED <<disk, sessionKey, vault, granted>>

-----------------------------------------------------------------------------
(* create, unlock, restoreSession, lock, destroy *)

\* create: refused if a vault exists; a key is derived from the passphrase and a new salt.
CreateVault(c) ==
    /\ doing[c].pc = "exists"
    /\ IF vault.meta # 0 \/ disk.meta # 0 \/ count.vaults = MaxVaults
       THEN Return(c) /\ UNCHANGED count
       ELSE /\ count' = [count EXCEPT !.vaults = @ + 1]
            /\ doing' = [doing EXCEPT ![c].pc = "metadata", ![c].key = count.vaults + 1]
    /\ UNCHANGED <<disk, sessionKey, vault, granted>>
SaveMetadata(c) ==
    /\ doing[c].pc = "metadata"
    /\ disk' = [disk EXCEPT !.meta = doing[c].key]
    /\ vault' = [vault EXCEPT !.meta = doing[c].key]
    /\ Overtake(c, "activate")
    /\ UNCHANGED <<sessionKey, count>>
\* activate: the key goes to the session store, then to memory.
ActivateSession(c) ==
    /\ doing[c].pc = "activate"
    /\ sessionKey' = doing[c].key
    /\ VaultGoto(c, "keep")
    /\ UNCHANGED <<disk, vault, count, granted>>
ActivateMemory(c) ==
    /\ doing[c].pc = "keep"
    /\ vault' = [vault EXCEPT !.key = doing[c].key, !.timer = TRUE]
    /\ count' = [count EXCEPT !.active = doing[c].key]
    /\ IF count.active \notin {0, doing[c].key} THEN Overtake(c, IF doing[c].kind = "new" THEN "probe" ELSE "rest")
       ELSE UNCHANGED granted /\ IF doing[c].kind = "new" THEN VaultGoto(c, "probe") ELSE Return(c)
    /\ UNCHANGED <<disk, sessionKey>>
\* create's last step writes the probe with the key of this instant.
SaveProbe(c) ==
    /\ doing[c].pc = "probe"
    /\ disk' = IF Locked THEN disk ELSE [disk EXCEPT !.probe = vault.key]
    /\ IF Locked THEN UNCHANGED vault ELSE Touched
    /\ Return(c)
    /\ UNCHANGED <<sessionKey, count, granted>>

\* unlock derives a key from the passphrase it is given, restoreSession takes the session's; ...
DeriveKey(c) ==
    LET meta == IF vault.meta # 0 THEN vault.meta ELSE disk.meta
    IN /\ doing[c].pc = "derive"
       /\ IF meta = 0 \/ (doing[c].kind = "restore" /\ sessionKey = 0) THEN Return(c)
          ELSE \E k \in IF doing[c].kind = "restore" THEN {sessionKey} ELSE {meta, WrongKey} :
                 doing' = [doing EXCEPT ![c].key = k, ![c].pc = "verify"]
       /\ UNCHANGED <<disk, sessionKey, vault, count, granted>>
\* ... verifyKey tries it on the probe; a session key that fails is dropped.
VerifyKey(c) ==
    /\ doing[c].pc = "verify"
    /\ IF disk.probe = doing[c].key
       THEN /\ vault' = [vault EXCEPT !.meta = IF vault.meta # 0 THEN @ ELSE disk.meta]
            /\ VaultGoto(c, "activate")
       ELSE /\ IF doing[c].kind = "restore" THEN VaultGoto(c, "forget") ELSE Return(c)
            /\ UNCHANGED vault
    /\ UNCHANGED <<disk, sessionKey, count, granted>>
ForgetSession(c) ==
    /\ doing[c].pc = "forget"
    /\ sessionKey' = 0
    /\ Return(c)
    /\ UNCHANGED <<disk, vault, count, granted>>

\* lock, called or by the timer: memory at once, then the session store.
Lock(c) ==
    /\ doing[c].pc = "lock" \/ (doing[c] = NoCall /\ vault.timer)
    /\ vault' = [vault EXCEPT !.key = 0, !.timer = FALSE]
    /\ doing' = [doing EXCEPT ![c].kind = "lock", ![c].pc = "forget"]
    /\ UNCHANGED <<disk, sessionKey, count, granted>>

\* destroy: records, probe, metadata, one after the other, then lock.
DestroyRecords(c) ==
    /\ doing[c].pc = "destroy"
    /\ IF Locked THEN Return(c) /\ UNCHANGED <<disk, granted>>
       ELSE /\ disk' = [disk EXCEPT !.record = NoEntries, !.index = [key |-> 0, place |-> NoEntries]]
            /\ Overtake(c, "unprobe")
    /\ UNCHANGED <<sessionKey, vault, count>>
DestroyProbe(c) ==
    /\ doing[c].pc = "unprobe"
    /\ disk' = [disk EXCEPT !.probe = 0]
    /\ VaultGoto(c, "unmeta")
    /\ UNCHANGED <<sessionKey, vault, count, granted>>
DestroyMetadata(c) ==
    /\ doing[c].pc = "unmeta"
    /\ disk' = [disk EXCEPT !.meta = 0]
    /\ vault' = [vault EXCEPT !.meta = 0]
    /\ Overtake(c, "lock")
    /\ UNCHANGED <<sessionKey, count>>

-----------------------------------------------------------------------------
(* The indexed stores *)

\* A mutation gets its turn, and fails at the first step that finds the vault locked.
BeginMutation(c) ==
    LET first == CASE doing[c].kind = "create" -> "put" [] doing[c].kind = "remove" -> "delete" [] OTHER -> "index"
    IN /\ Turn(c)
       /\ VaultGoto(c, first)
       /\ UNCHANGED <<disk, sessionKey, vault, count, granted>>
\* create puts the record, remove deletes it; encryption takes the key before the write.
PutRecord(c) ==
    /\ doing[c].pc = "put"
    /\ IF Locked THEN Return(c) ELSE doing' = [doing EXCEPT ![c].key = vault.key, ![c].pc = "write"]
    /\ UNCHANGED <<disk, sessionKey, vault, count, granted>>
WriteRecord(c) ==
    /\ doing[c].pc = "write"
    /\ disk' = [disk EXCEPT !.record[doing[c].record] = doing[c].key]
    /\ VaultGoto(c, "index") /\ Touched
    /\ UNCHANGED <<sessionKey, count, granted>>
DeleteRecord(c) ==
    /\ doing[c].pc = "delete"
    /\ IF Locked THEN Return(c) /\ UNCHANGED <<disk, vault, granted>>
       ELSE /\ disk' = [disk EXCEPT !.record[doing[c].record] = 0]
            /\ granted' = [granted EXCEPT ![doing[c].record] = 0]
            /\ VaultGoto(c, "index") /\ Touched
    /\ UNCHANGED <<sessionKey, count>>
\* The index is read, and must open with the key of this instant, ...
ReadIndex(c) ==
    /\ doing[c].pc = "index"
    /\ IF Locked \/ disk.index.key \notin {0, vault.key} THEN Return(c)
       ELSE doing' = [doing EXCEPT ![c].seen = disk.index.place,
                                   ![c].pc = IF doing[c].kind = "clear" THEN "wipe" ELSE "update"]
    /\ UNCHANGED <<disk, sessionKey, vault, count, granted>>
\* ... clear deletes what it lists, one by one, ...
WipeListed(c) ==
    /\ doing[c].pc = "wipe"
    /\ \/ \E r \in {q \in Records : doing[c].seen[q] # 0} :
             IF Locked THEN Return(c) /\ UNCHANGED <<disk, granted>>
             ELSE /\ disk' = [disk EXCEPT !.record[r] = 0]
                  /\ granted' = [granted EXCEPT ![r] = 0]
                  /\ doing' = [doing EXCEPT ![c].seen[r] = 0]
       \/ doing[c].seen = NoEntries /\ VaultGoto(c, "update") /\ UNCHANGED <<disk, granted>>
    /\ UNCHANGED <<sessionKey, vault, count>>
\* ... and the index is written, with or without the record of the mutation.  A new record
\* is the newest entry, and the oldest one goes if there are too many.
Appended(place, new) ==
    [r \in Records |-> IF r = new THEN 1
                       ELSE IF place[r] = 0 \/ place[r] >= MaxIndex THEN 0 ELSE place[r] + 1]
Unlisting(place, gone) ==
    [r \in Records |-> IF r = gone THEN 0
                       ELSE IF place[gone] # 0 /\ place[r] > place[gone] THEN place[r] - 1 ELSE place[r]]
Indexed(c) ==
    CASE doing[c].kind = "create" -> Appended(doing[c].seen, doing[c].record)
      [] doing[c].kind = "remove" -> Unlisting(doing[c].seen, doing[c].record)
      [] OTHER -> NoEntries
Counted(new, reported) ==
    [r \in Records |-> IF r = new THEN IF reported THEN 1 ELSE 0
                       ELSE IF granted[r] = 0 THEN 0 ELSE granted[r] + 1]
UpdateIndex(c) ==
    /\ doing[c].pc = "update"
    /\ IF Locked THEN Return(c) ELSE doing' = [doing EXCEPT ![c].key = vault.key, ![c].seen = Indexed(c), ![c].pc = "save"]
    /\ UNCHANGED <<disk, sessionKey, vault, count, granted>>
SaveIndex(c) ==
    /\ doing[c].pc = "save"
    /\ disk' = [disk EXCEPT !.index = [key |-> doing[c].key, place |-> doing[c].seen]]
    /\ granted' = IF doing[c].kind = "create" THEN Counted(doing[c].record, ~doing[c].overtaken) ELSE granted
    /\ Return(c) /\ Touched
    /\ UNCHANGED <<sessionKey, count>>

\* The worker stops, and with it the timer; the browser stops, and with it the session store.
StopWorker ==
    /\ vault # NewVault \/ doing # [c \in Callers |-> NoCall]
    /\ vault' = NewVault
    /\ doing' = [c \in Callers |-> NoCall]
    /\ sessionKey' \in {sessionKey, 0}
    /\ UNCHANGED <<disk, count, granted>>

VaultStep(c) ==
    \/ CreateVault(c) \/ SaveMetadata(c) \/ ActivateSession(c) \/ ActivateMemory(c) \/ SaveProbe(c)
    \/ DeriveKey(c) \/ VerifyKey(c) \/ ForgetSession(c) \/ Lock(c)
    \/ DestroyRecords(c) \/ DestroyProbe(c) \/ DestroyMetadata(c)
    \/ BeginMutation(c) \/ PutRecord(c) \/ WriteRecord(c) \/ DeleteRecord(c)
    \/ ReadIndex(c) \/ WipeListed(c) \/ UpdateIndex(c) \/ SaveIndex(c)

Operations ==
    {<<"new", "exists">>, <<"unlock", "derive">>, <<"restore", "derive">>, <<"lock", "lock">>, <<"destroy", "destroy">>}
\* Ids are random: that of a new record is nobody's.
NewId(r) == disk.record[r] = 0 /\ disk.index.place[r] = 0 /\ \A c \in Callers : doing[c].record # r
VaultNext ==
    \/ \E c \in Callers :
          \/ VaultStep(c)
          \/ \E o \in Operations : Invoke(c, o[1], o[2], "none")
          \/ \E r \in Records : NewId(r) /\ Invoke(c, "create", "queued", r)
          \/ \E r \in Records : disk.index.place[r] # 0 /\ Invoke(c, "remove", "queued", r)
          \/ Invoke(c, "clear", "queued", "none")
    \/ StopWorker

VaultSpec == VaultInit /\ [][VaultNext]_vaultVars

-----------------------------------------------------------------------------
(* Properties *)

\* A record whose creation was reported is there until it is removed, and listed until as
\* many later ones were created as an index keeps; both are under one key, whatever other
\* creations, removals, locks, unlocks and stops come in between ("keeps concurrent
\* creates indexed across store instances").
CreatedIsListed ==
    \A r \in Records : granted[r] # 0 =>
        /\ disk.record[r] # 0 /\ disk.record[r] = disk.index.key
        /\ granted[r] <= MaxIndex => disk.index.place[r] # 0
=============================================================================
