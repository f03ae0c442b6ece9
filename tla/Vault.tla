-------------------------------- MODULE Vault --------------------------------
(***************************************************************************)
(* The wallet vault: public/vault.js over public/keystore.js, in several   *)
(* browser tabs that share one IndexedDB.                                  *)
(*                                                                         *)
(* The stored record lists the wallets in the clear and holds all their    *)
(* mnemonics in one ciphertext. Each tab keeps a copy of the record, the   *)
(* session key and the decrypted mnemonics, and writes by compare-and-set  *)
(* on the record's revision. Between the awaits of an operation the other  *)
(* operations of the tab, and the other tabs, run.                         *)
(*                                                                         *)
(* An IndexedDB transaction and what the code does with its result are one *)
(* step (the promise chain runs before the tab handles another event);     *)
(* encryption, decryption and key derivation end in steps of their own.    *)
(* A wallet stands for its id, its name and its seed. Its receive index    *)
(* stands for all its cleartext fields: renameWallet, setActive and        *)
(* setBackedUp commit a changed field with the mnemonics as they are, just *)
(* as setReceiveIndex does.                                                *)
(***************************************************************************)
EXTENDS Naturals, FiniteSets

CONSTANTS
    Tabs,
    Wallets,
    First,      \* the wallet the story starts with
    NoRecord,   \* no record stored, none held
    Locked,     \* no mnemonics in memory
    MaxRev,     \* bound: revisions
    MaxIndex,   \* bound: receive indexes
    MaxSalts    \* bound: vaults written under a fresh salt

ASSUME FirstAssumption == First \in Wallets
ASSUME BoundsAssumption ==
    MaxRev \in Nat \ {0} /\ MaxIndex \in Nat /\ MaxSalts \in Nat \ {0}

Sets == SUBSET Wallets

(* rev, the salt in kdf, the salt of the key the ciphertext was made with, *)
(* the listed wallets' cleartext fields, the wallets with a mnemonic in    *)
(* the ciphertext.                                                         *)
Record == [rev : 1 .. MaxRev, salt : 1 .. MaxSalts, under : 1 .. MaxSalts,
           index : UNION {[S -> 0 .. MaxIndex] : S \in Sets}, secrets : Sets]

ASSUME NoRecordAssumption == \A r \in Record : r # NoRecord
ASSUME LockedAssumption == \A s \in Sets : s # Locked

VARIABLES
    \* --- IndexedDB
    store,      \* the v2 record
    primary,    \* is there a v1 record? (it holds First's mnemonic)
    \* --- each tab
    record,     \* its copy of the v2 record
    legacy,     \* its copy of primary
    key,        \* the salt its session key was derived from; 0 without a key
    secrets,    \* the wallets whose mnemonics it holds, or Locked
    op,         \* the operation in flight
    sync,       \* the refresh in flight that a change message started
    heard,      \* is a change message on its way to the tab?
    \* --- history
    salts,      \* how many times a vault was written under a fresh salt
    gone        \* the wallets the user removed

disk == <<store, primary>>
history == <<salts, gone>>
vars == <<store, primary, record, legacy, key, secrets, op, sync, heard, salts, gone>>

Stages == {"idle", "save", "drop", "reload", "decrypt",
           "create", "open", "burn", "migrate", "replace", "verify"}

(* What an operation carries across an await: the record it writes or      *)
(* reads, the revision it expects, the wallets it removes and the key that *)
(* a decryption was given.                                                 *)
Op == [at : Stages, rec : Record \union {NoRecord}, base : 0 .. MaxRev,
       drops : Sets, with : 0 .. MaxSalts]

Idle == [at |-> "idle", rec |-> NoRecord, base |-> 0, drops |-> {}, with |-> 0]

(* A tab with a key holds the mnemonics too.                               *)
TypeOK ==
    /\ store \in Record \union {NoRecord}
    /\ primary \in BOOLEAN
    /\ record \in [Tabs -> Record \union {NoRecord}]
    /\ legacy \in [Tabs -> BOOLEAN]
    /\ key \in [Tabs -> 0 .. MaxSalts]
    /\ secrets \in [Tabs -> Sets \union {Locked}]
    /\ \A t \in Tabs : key[t] # 0 => secrets[t] # Locked
    /\ op \in [Tabs -> Op] /\ sync \in [Tabs -> Op]
    /\ heard \in [Tabs -> BOOLEAN]
    /\ salts \in 0 .. MaxSalts
    /\ gone \in Sets

-----------------------------------------------------------------------------

Listed(r) == IF r = NoRecord THEN {} ELSE DOMAIN r.index
Rev(r) == IF r = NoRecord THEN 0 ELSE r.rev
Opens(r) == r.under = r.salt

(* A record written under a fresh salt, with a key that fits it.           *)
FreshRecord(rev, salt, w) ==
    [rev |-> rev, salt |-> salt, under |-> salt,
     index |-> [v \in {w} |-> 0], secrets |-> {w}]

(* A profile with one wallet: in a v1 record, or in a v2 vault.            *)
Init ==
    /\ \/ primary = TRUE /\ store = NoRecord /\ salts = 0
       \/ primary = FALSE /\ store = FreshRecord(1, 1, First) /\ salts = 1
    /\ record = [t \in Tabs |-> store]
    /\ legacy = [t \in Tabs |-> primary]
    /\ key = [t \in Tabs |-> 0]
    /\ secrets = [t \in Tabs |-> Locked]
    /\ op = [t \in Tabs |-> Idle] /\ sync = [t \in Tabs |-> Idle]
    /\ heard = [t \in Tabs |-> FALSE]
    /\ gone = {}

(* broadcastVaultChange reaches every tab, the writer's own listener too.  *)
Announce == heard' = [t \in Tabs |-> TRUE]

Hold(t, k, s) ==
    /\ key' = [key EXCEPT ![t] = k]
    /\ secrets' = [secrets EXCEPT ![t] = s]

DropKey(t) == Hold(t, 0, Locked)

Take(t, r, old) ==
    /\ record' = [record EXCEPT ![t] = r]
    /\ legacy' = [legacy EXCEPT ![t] = old]

-----------------------------------------------------------------------------
(* refresh(), run by the change listener or by a lost compare-and-set.     *)

(* It reads the record; a tab with a key goes on to decrypt it, or locks   *)
(* when there is nothing to decrypt.                                       *)
LoadIn(t) ==
    /\ Take(t, store, primary)
    /\ IF key[t] # 0 /\ store = NoRecord THEN DropKey(t) ELSE UNCHANGED <<key, secrets>>

Decrypting(t) ==
    IF key[t] # 0 /\ store # NoRecord
      THEN [Idle EXCEPT !.at = "decrypt", !.rec = store, !.with = key[t]]
      ELSE Idle

(* The decryption started with a record and a key ends; the tab may have   *)
(* a newer record, or no key, by now.                                      *)
DecryptedIn(t, o) ==
    IF o.rec.under = o.with
      THEN secrets' = [secrets EXCEPT ![t] = o.rec.secrets] /\ UNCHANGED key
      ELSE DropKey(t)

(* Mutant of Refresh: it keeps the key of a vault that is gone.            *)
RefreshKeepsKey(t) ==
    /\ heard[t] /\ sync[t] = Idle
    /\ heard' = [heard EXCEPT ![t] = FALSE]
    /\ Take(t, store, primary)
    /\ secrets' = IF key[t] # 0 /\ store = NoRecord
                    THEN [secrets EXCEPT ![t] = Locked] ELSE secrets
    /\ sync' = [sync EXCEPT ![t] = Decrypting(t)]
    /\ UNCHANGED <<disk, history, op, key>>

Refresh(t) ==
    /\ heard[t] /\ sync[t] = Idle
    /\ heard' = [heard EXCEPT ![t] = FALSE]
    /\ LoadIn(t)
    /\ sync' = [sync EXCEPT ![t] = Decrypting(t)]
    /\ UNCHANGED <<disk, history, op>>

Refreshed(t) ==
    /\ sync[t].at = "decrypt"
    /\ DecryptedIn(t, sync[t])
    /\ sync' = [sync EXCEPT ![t] = Idle]
    /\ UNCHANGED <<disk, history, record, legacy, op, heard>>

(* The same two steps inside a commit that lost; the operation then throws.*)
Reload(t) ==
    /\ op[t].at = "reload"
    /\ LoadIn(t)
    /\ op' = [op EXCEPT ![t] = Decrypting(t)]
    /\ UNCHANGED <<disk, history, sync, heard>>

Reloaded(t) ==
    /\ op[t].at = "decrypt"
    /\ DecryptedIn(t, op[t])
    /\ op' = [op EXCEPT ![t] = Idle]
    /\ UNCHANGED <<disk, history, record, legacy, sync, heard>>

-----------------------------------------------------------------------------
(* Mutations of an unlocked vault. What they write, the base revision, the *)
(* salt and the key are taken before the first await.                      *)

Unlocked(t) == key[t] # 0 /\ op[t] = Idle /\ record[t] # NoRecord

Begin(t, index, mnemonics, drops) ==
    /\ record[t].rev < MaxRev
    /\ op' = [op EXCEPT ![t] =
         [at |-> "save", base |-> record[t].rev, drops |-> drops, with |-> 0,
          rec |-> [rev |-> record[t].rev + 1, salt |-> record[t].salt,
                   under |-> key[t], index |-> index, secrets |-> mnemonics]]]
    /\ UNCHANGED <<disk, history, record, legacy, key, secrets, sync, heard>>

(* The duplicate guard looks at the mnemonics, the name guard at the list. *)
AddWallet(t, w) ==
    /\ Unlocked(t) /\ w \notin secrets[t] /\ w \notin Listed(record[t])
    /\ Begin(t, [v \in Listed(record[t]) \union {w} |->
                   IF v = w THEN 0 ELSE record[t].index[v]],
             secrets[t] \union {w}, {})

SetReceiveIndex(t, w) ==
    /\ Unlocked(t) /\ w \in Listed(record[t])
    /\ \E i \in 0 .. MaxIndex :
         /\ i > record[t].index[w]
         /\ Begin(t, [record[t].index EXCEPT ![w] = i], secrets[t], {})

RemoveWallet(t, w) ==
    /\ Unlocked(t) /\ w \in Listed(record[t]) /\ Listed(record[t]) # {w}
    /\ Begin(t, [v \in Listed(record[t]) \ {w} |-> record[t].index[v]],
             secrets[t] \ {w}, {w})

(* The last wallet takes the record with it.                               *)
RemoveLast(t, w) ==
    /\ Unlocked(t) /\ Listed(record[t]) = {w}
    /\ op' = [op EXCEPT ![t] = [Idle EXCEPT !.at = "drop", !.drops = {w},
                                           !.base = record[t].rev]]
    /\ UNCHANGED <<disk, history, record, legacy, key, secrets, sync, heard>>

(* VaultConflictError: the operation refreshes and throws.                 *)
Conflict(t) ==
    /\ op' = [op EXCEPT ![t] = [Idle EXCEPT !.at = "reload"]]
    /\ UNCHANGED <<disk, history, record, legacy, key, secrets, sync, heard>>

Write(t, r) ==
    /\ store' = r
    /\ record' = [record EXCEPT ![t] = r]
    /\ secrets' = [secrets EXCEPT ![t] = r.secrets]
    /\ Announce

(* Mutant of Save: the write does not compare the revision.                *)
SaveBlind(t) ==
    /\ op[t].at = "save"
    /\ Write(t, op[t].rec)
    /\ gone' = gone \union op[t].drops
    /\ op' = [op EXCEPT ![t] = Idle]
    /\ UNCHANGED <<primary, legacy, key, sync, salts>>

(* Mutant of Save: the base revision is read after the await.              *)
SaveLateBase(t) ==
    /\ op[t].at = "save"
    /\ IF Rev(store) = Rev(record[t]) /\ Rev(store) < MaxRev
         THEN /\ Write(t, [op[t].rec EXCEPT !.rev = Rev(store) + 1])
              /\ gone' = gone \union op[t].drops
              /\ op' = [op EXCEPT ![t] = Idle]
              /\ UNCHANGED <<primary, legacy, key, sync, salts>>
         ELSE Conflict(t)

(* saveVaultRecord in commit: compare, put and take over the result.       *)
Save(t) ==
    /\ op[t].at = "save"
    /\ IF Rev(store) = op[t].base
         THEN /\ Write(t, op[t].rec)
              /\ gone' = gone \union op[t].drops
              /\ op' = [op EXCEPT ![t] = Idle]
              /\ UNCHANGED <<primary, legacy, key, sync, salts>>
         ELSE Conflict(t)

(* deleteVaultRecord in removeWallet.                                      *)
Drop(t) ==
    /\ op[t].at = "drop"
    /\ IF Rev(store) = op[t].base
         THEN /\ store' = NoRecord
              /\ record' = [record EXCEPT ![t] = NoRecord]
              /\ DropKey(t)
              /\ Announce
              /\ gone' = gone \union op[t].drops
              /\ op' = [op EXCEPT ![t] = Idle]
              /\ UNCHANGED <<primary, legacy, sync, salts>>
         ELSE Conflict(t)

-----------------------------------------------------------------------------
(* Getting a key: creating, unlocking, migrating.                          *)

(* createVault loads, and refuses when anything is stored.                 *)
CreateVault(t, w) ==
    /\ key[t] = 0 /\ op[t] = Idle /\ record[t] = NoRecord /\ ~legacy[t]
    /\ Take(t, store, primary)
    /\ op' = IF store = NoRecord /\ ~primary
               THEN [op EXCEPT ![t] = [Idle EXCEPT !.at = "create", !.drops = {w}]]
               ELSE op
    /\ UNCHANGED <<disk, history, key, secrets, sync, heard>>

Created(t) ==
    /\ op[t].at = "create"
    /\ IF store = NoRecord
         THEN \E w \in op[t].drops :
                LET r == FreshRecord(1, salts + 1, w)
                IN  /\ salts < MaxSalts /\ salts' = salts + 1
                    /\ Write(t, r)
                    /\ key' = [key EXCEPT ![t] = r.salt]
         ELSE UNCHANGED <<store, record, key, secrets, heard, salts>>
    /\ op' = [op EXCEPT ![t] = Idle]
    /\ UNCHANGED <<primary, legacy, sync, gone>>

(* unlock loads; a v2 record is tried first.                               *)
Unlock(t) ==
    /\ key[t] = 0 /\ op[t] = Idle
    /\ store # NoRecord \/ primary
    /\ Take(t, store, primary)
    /\ op' = [op EXCEPT ![t] =
                IF store # NoRecord THEN [Idle EXCEPT !.at = "open", !.rec = store]
                ELSE [Idle EXCEPT !.at = "migrate"]]
    /\ UNCHANGED <<disk, history, key, secrets, sync, heard>>

(* The right password opens the record that was read; a v1 record left by  *)
(* an interrupted migration is deleted, or migrated again over a bad v2.   *)
Open(t) ==
    /\ op[t].at = "open"
    /\ IF Opens(op[t].rec)
         THEN /\ Hold(t, op[t].rec.salt, op[t].rec.secrets)
              /\ op' = [op EXCEPT ![t] = IF legacy[t] THEN [Idle EXCEPT !.at = "burn"]
                                         ELSE Idle]
         ELSE /\ op' = [op EXCEPT ![t] = IF legacy[t] THEN [Idle EXCEPT !.at = "migrate"]
                                         ELSE Idle]
              /\ UNCHANGED <<key, secrets>>
    /\ UNCHANGED <<disk, history, record, legacy, sync, heard>>

(* A wrong password, wherever the attempt is: it throws.                   *)
Refuse(t) ==
    /\ op[t].at \in {"open", "migrate"}
    /\ op' = [op EXCEPT ![t] = Idle]
    /\ UNCHANGED <<disk, history, record, legacy, key, secrets, sync, heard>>

Burn(t) ==
    /\ op[t].at = "burn"
    /\ primary' = FALSE
    /\ legacy' = [legacy EXCEPT ![t] = FALSE]
    /\ op' = [op EXCEPT ![t] = Idle]
    /\ UNCHANGED <<store, history, record, key, secrets, sync, heard>>

(* Mutant of Migrate: the v1 record goes before the v2 record is written.  *)
MigrateBurnsFirst(t) ==
    /\ op[t].at = "migrate" /\ Rev(record[t]) < MaxRev
    /\ primary' = FALSE
    /\ op' = [op EXCEPT ![t] = [Idle EXCEPT !.at = "replace", !.base = Rev(record[t])]]
    /\ UNCHANGED <<store, history, record, legacy, key, secrets, sync, heard>>

(* migrateV1 has the mnemonic and the new ciphertext, and calls            *)
(* saveVaultRecord with the revision of the record the tab has by now.     *)
Migrate(t) ==
    /\ op[t].at = "migrate" /\ Rev(record[t]) < MaxRev
    /\ op' = [op EXCEPT ![t] = [Idle EXCEPT !.at = "replace", !.base = Rev(record[t])]]
    /\ UNCHANGED <<disk, history, record, legacy, key, secrets, sync, heard>>

Replace(t) ==
    LET r == FreshRecord(op[t].base + 1, salts + 1, First)
    IN  /\ op[t].at = "replace"
        /\ IF Rev(store) = op[t].base
             THEN /\ salts < MaxSalts /\ salts' = salts + 1
                  /\ store' = r
                  /\ Announce
                  /\ op' = [op EXCEPT ![t] = [Idle EXCEPT !.at = "verify", !.rec = r]]
             ELSE /\ op' = [op EXCEPT ![t] = Idle]
                  /\ UNCHANGED <<store, salts, heard>>
        /\ UNCHANGED <<primary, record, legacy, key, secrets, sync, gone>>

(* The record it wrote (not the one now stored) decrypts; the v1 record is *)
(* deleted and the tab is unlocked.                                        *)
Migrated(t) ==
    /\ op[t].at = "verify"
    /\ primary' = FALSE
    /\ Take(t, op[t].rec, FALSE)
    /\ Hold(t, op[t].rec.salt, op[t].rec.secrets)
    /\ op' = [op EXCEPT ![t] = Idle]
    /\ UNCHANGED <<store, history, sync, heard>>

-----------------------------------------------------------------------------

(* The user, the inactivity timer or a torn-down page locks.               *)
Lock(t) ==
    /\ key[t] # 0
    /\ DropKey(t)
    /\ UNCHANGED <<disk, history, record, legacy, op, sync, heard>>

(* "Erase all wallets on this device", from the locked screen.             *)
Erase(t) ==
    /\ key[t] = 0 /\ op[t] = Idle
    /\ store' = NoRecord /\ primary' = FALSE
    /\ Take(t, NoRecord, FALSE)
    /\ Announce
    /\ gone' = Wallets
    /\ UNCHANGED <<key, secrets, op, sync, salts>>

(* The tab dies, at any point, and the page is loaded again.               *)
Reopen(t) ==
    /\ Take(t, store, primary)
    /\ DropKey(t)
    /\ op' = [op EXCEPT ![t] = Idle]
    /\ sync' = [sync EXCEPT ![t] = Idle]
    /\ heard' = [heard EXCEPT ![t] = FALSE]
    /\ UNCHANGED <<disk, history>>

Next ==
    \E t \in Tabs :
      \/ Refresh(t) \/ Refreshed(t) \/ Reload(t) \/ Reloaded(t)
      \/ \E w \in Wallets : \/ AddWallet(t, w) \/ SetReceiveIndex(t, w)
                            \/ RemoveWallet(t, w) \/ RemoveLast(t, w)
                            \/ CreateVault(t, w)
      \/ Save(t) \/ Drop(t) \/ Created(t)
      \/ Unlock(t) \/ Open(t) \/ Refuse(t) \/ Burn(t)
      \/ Migrate(t) \/ Replace(t) \/ Migrated(t)
      \/ Lock(t) \/ Erase(t) \/ Reopen(t)

Spec == Init /\ [][Next]_vars

-----------------------------------------------------------------------------
(* The first four are stated while the vault has been set up only once. A  *)
(* second set-up starts the revisions anew (createVault) or replaces a     *)
(* record that the tab did not compute from (migrateV1): see LossProof.    *)

(* The revision identifies the record: two tabs, or a tab and the store,   *)
(* with the same revision have the same record. This is what the compare-  *)
(* and-set rests on.                                                       *)
RevIdentifies ==
    salts <= 1 =>
      \A r, q \in {record[t] : t \in Tabs} \union {store} :
        r # NoRecord /\ q # NoRecord /\ r.rev = q.rev => r = q

(* A wallet leaves the stored list only when the user removes it: no write *)
(* of another tab takes it off.                                            *)
ListedStays ==
    [][salts' <= 1 => \A w \in Listed(store) \ Listed(store') : w \in gone']_vars

(* A stored receive index never goes back (vault.js:297-301: "a stale tab  *)
(* ... must never walk it back").                                          *)
IndexMonotone ==
    [][salts' <= 1 =>
         \A w \in Listed(store) \intersect Listed(store') :
           store'.index[w] >= store.index[w]]_vars

(* "a crash at any step leaves at least one decryptable record"            *)
(* (vault.js:181-184): the first wallet's mnemonic is in the v1 record, or *)
(* in a stored v2 record that the password opens, until the user removes   *)
(* the wallet.                                                             *)
SeedSurvives ==
    \/ salts > 1 \/ First \in gone
    \/ primary
    \/ store # NoRecord /\ Opens(store) /\ First \in store.secrets

(* "Loss-proof order ... a crash at any step leaves at least one           *)
(* decryptable record" (vault.js:182-184), with two tabs migrating: the    *)
(* same, however often a vault is written under a fresh salt.              *)
LossProof ==
    \/ First \in gone
    \/ primary
    \/ store # NoRecord /\ Opens(store) /\ First \in store.secrets

(* Every wallet the stored record lists has its mnemonic in the stored     *)
(* ciphertext: what the snapshot of the base revision is there to protect  *)
(* (vault.js:119-123, keystore.js:251-255).                                *)
MnemonicsKept ==
    store # NoRecord /\ salts <= 1 => Listed(store) \subseteq store.secrets

(* lock() drops "every plaintext mnemonic" (autolock.js:1-3, vault.js:209):*)
(* a locked tab holds none.                                                *)
LockedHoldsNothing ==
    \A t \in Tabs : key[t] = 0 => secrets[t] = Locked
=============================================================================
