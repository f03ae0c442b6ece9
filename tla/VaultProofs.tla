---------------------------- MODULE VaultProofs ----------------------------
(***************************************************************************)
(* Theorems about Vault, for any number of tabs: type correctness, and     *)
(* what the compare-and-set on the revision gives while the vault is set   *)
(* up only once. The inductive invariant is Typed (TypeOK, and what an     *)
(* operation carries at each stage) with Cas: no record held anywhere is   *)
(* newer than the stored one, equal revisions mean equal records, and a    *)
(* mutation whose base is still the stored revision was computed from the  *)
(* stored record. That the first mnemonic survives rests on SeedInv, below.*)
(***************************************************************************)
EXTENDS Vault, TLAPS

Shape ==
    /\ \A t \in Tabs : /\ op[t].at \in {"save", "decrypt", "open", "verify"}
                             => op[t].rec \in Record
                       /\ op[t].at = "replace" => op[t].base < MaxRev
    /\ \A t \in Tabs : sync[t].at = "decrypt" => sync[t].rec \in Record

Typed == TypeOK /\ Shape

-----------------------------------------------------------------------------
(* Type correctness.                                                       *)

LEMMA OpTypes ==
    /\ Idle \in Op
    /\ \A o \in Op : /\ o.base \in 0 .. MaxRev /\ o.with \in 0 .. MaxSalts
                     /\ o.drops \in Sets /\ o.rec \in Record \union {NoRecord}
<1>1. Idle \in Op
  BY BoundsAssumption DEF Idle, Op, Stages, Sets
<1>2. \A o \in Op : /\ o.base \in 0 .. MaxRev /\ o.with \in 0 .. MaxSalts
                     /\ o.drops \in Sets /\ o.rec \in Record \union {NoRecord}
  BY DEF Op
<1> QED  BY <1>1, <1>2

(* A record's parts; no record is one.                                     *)
LEMMA RecordFacts ==
    /\ NoRecord \notin Record /\ Locked \notin Sets
    /\ \A r \in Record :
         /\ r.rev \in 1 .. MaxRev /\ r.salt \in 1 .. MaxSalts /\ r.under \in 1 .. MaxSalts
         /\ r.secrets \in Sets /\ Listed(r) \in Sets /\ Rev(r) = r.rev
         /\ r.index \in [Listed(r) -> 0 .. MaxIndex]
<1>1. NoRecord \notin Record /\ Locked \notin Sets
  BY NoRecordAssumption, LockedAssumption
<1>2. ASSUME NEW r \in Record
      PROVE  /\ r.rev \in 1 .. MaxRev /\ r.salt \in 1 .. MaxSalts
             /\ r.under \in 1 .. MaxSalts /\ r.secrets \in Sets
             /\ r.index \in UNION {[S -> 0 .. MaxIndex] : S \in Sets}
  BY <1>2 DEF Record
<1>3. ASSUME NEW r \in Record
      PROVE  Listed(r) \in Sets /\ Rev(r) = r.rev /\ r.index \in [Listed(r) -> 0 .. MaxIndex]
  <2>1. PICK S \in Sets : r.index \in [S -> 0 .. MaxIndex]
    BY <1>2, <1>3
  <2>2. Listed(r) = S /\ Rev(r) = r.rev
    BY <1>1, <1>3, <2>1 DEF Listed, Rev
  <2> QED  BY <2>1, <2>2
<1> QED  BY <1>1, <1>2, <1>3

LEMMA FreshIsRecord ==
    ASSUME NEW rev \in 1 .. MaxRev, NEW salt \in 1 .. MaxSalts, NEW w \in Wallets
    PROVE  /\ FreshRecord(rev, salt, w) \in Record
           /\ FreshRecord(rev, salt, w).secrets = {w}
           /\ FreshRecord(rev, salt, w).salt = salt
<1>1. {w} \in Sets /\ [v \in {w} |-> 0] \in [{w} -> 0 .. MaxIndex]
  BY BoundsAssumption DEF Sets
<1>2. [v \in {w} |-> 0] \in UNION {[S -> 0 .. MaxIndex] : S \in Sets}
  BY <1>1
<1> QED  BY <1>1, <1>2 DEF FreshRecord, Record

(* The record a mutation writes.                                           *)
LEMMA NextIsRecord ==
    ASSUME NEW r \in Record, r.rev < MaxRev, NEW k \in 1 .. MaxSalts,
           NEW S \in Sets, NEW index \in [S -> 0 .. MaxIndex], NEW m \in Sets
    PROVE  [rev |-> r.rev + 1, salt |-> r.salt, under |-> k,
            index |-> index, secrets |-> m] \in Record
<1>1. r.rev + 1 \in 1 .. MaxRev /\ r.salt \in 1 .. MaxSalts
  BY RecordFacts, BoundsAssumption
<1>2. index \in UNION {[Q -> 0 .. MaxIndex] : Q \in Sets}
  OBVIOUS
<1> QED  BY <1>1, <1>2 DEF Record

(* Begin, of an operation that makes a record out of the tab's own.        *)
LEMMA BeginTyped ==
    ASSUME Typed, NEW t \in Tabs, Unlocked(t), NEW S \in Sets,
           NEW index \in [S -> 0 .. MaxIndex], NEW m \in Sets, NEW drops \in Sets,
           Begin(t, index, m, drops)
    PROVE  Typed'
<1> DEFINE rec == [rev |-> record[t].rev + 1, salt |-> record[t].salt,
                   under |-> key[t], index |-> index, secrets |-> m]
           o == [at |-> "save", base |-> record[t].rev, drops |-> drops,
                 with |-> 0, rec |-> rec]
<1>1. record[t] \in Record /\ record[t].rev < MaxRev /\ key[t] \in 1 .. MaxSalts
  BY BoundsAssumption DEF Unlocked, Begin, Typed, TypeOK
<1>2. rec \in Record
  BY <1>1, NextIsRecord
<1>3. /\ op' = [op EXCEPT ![t] = o]
      /\ UNCHANGED <<disk, history, record, legacy, key, secrets, sync, heard>>
  BY DEF Begin
<1> HIDE DEF rec
<1>4. record[t].rev \in 0 .. MaxRev /\ 0 \in 0 .. MaxSalts
  BY <1>1, RecordFacts, BoundsAssumption
<1>5. o \in Op
  BY <1>2, <1>4 DEF Op, Stages
<1>6. o.at = "save" /\ o.rec \in Record
  BY <1>2
<1> HIDE DEF o
<1> QED  BY <1>3, <1>5, <1>6 DEF Typed, TypeOK, Shape, disk, history

LEMMA MutationTyped ==
    ASSUME Typed, NEW t \in Tabs, NEW w \in Wallets,
           AddWallet(t, w) \/ SetReceiveIndex(t, w) \/ RemoveWallet(t, w)
    PROVE  Typed'
<1>1. /\ Unlocked(t) /\ record[t] \in Record /\ secrets[t] \in Sets
      /\ Listed(record[t]) \in Sets
      /\ record[t].index \in [Listed(record[t]) -> 0 .. MaxIndex]
  <2>1. Unlocked(t)
    BY DEF AddWallet, SetReceiveIndex, RemoveWallet
  <2>2. record[t] \in Record /\ secrets[t] \in Sets
    BY <2>1 DEF Unlocked, Typed, TypeOK
  <2> QED  BY <2>1, <2>2, RecordFacts
<1> DEFINE L == Listed(record[t])
<1>2. CASE AddWallet(t, w)
  <2> DEFINE ix == [v \in L \union {w} |-> IF v = w THEN 0 ELSE record[t].index[v]]
  <2>1. L \union {w} \in Sets /\ secrets[t] \union {w} \in Sets /\ {} \in Sets
    BY <1>1 DEF Sets
  <2>2. ix \in [L \union {w} -> 0 .. MaxIndex]
    BY <1>1, BoundsAssumption
  <2> QED  BY <1>1, <1>2, <2>1, <2>2, BeginTyped DEF AddWallet
<1>3. CASE SetReceiveIndex(t, w)
  <2>1. PICK i \in 0 .. MaxIndex :
          Begin(t, [record[t].index EXCEPT ![w] = i], secrets[t], {})
    BY <1>3 DEF SetReceiveIndex
  <2>2. [record[t].index EXCEPT ![w] = i] \in [L -> 0 .. MaxIndex] /\ {} \in Sets
    BY <1>1 DEF Sets
  <2> QED  BY <1>1, <2>1, <2>2, BeginTyped
<1>4. CASE RemoveWallet(t, w)
  <2>1. /\ L \ {w} \in Sets /\ secrets[t] \ {w} \in Sets /\ {w} \in Sets
        /\ [v \in L \ {w} |-> record[t].index[v]] \in [L \ {w} -> 0 .. MaxIndex]
    BY <1>1 DEF Sets
  <2> QED  BY <1>1, <1>4, <2>1, BeginTyped DEF RemoveWallet
<1> QED  BY <1>2, <1>3, <1>4

(* An operation that only moves on, or ends.                               *)
LEMMA OpTyped ==
    ASSUME Typed, NEW t \in Tabs, NEW o \in Op,
           op' = [op EXCEPT ![t] = o],
           o.at \in {"save", "decrypt", "open", "verify"} => o.rec \in Record,
           o.at = "replace" => o.base < MaxRev
    PROVE  /\ op' \in [Tabs -> Op]
           /\ \A u \in Tabs :
                /\ op'[u].at \in {"save", "decrypt", "open", "verify"}
                     => op'[u].rec \in Record
                /\ op'[u].at = "replace" => op'[u].base < MaxRev
  BY DEF Typed, TypeOK, Shape

LEMMA RefreshTyped ==
    ASSUME Typed, NEW t \in Tabs,
           Refresh(t) \/ Refreshed(t) \/ Reload(t) \/ Reloaded(t)
    PROVE  Typed'
<1>1. /\ Decrypting(t) \in Op
      /\ Decrypting(t).at = "decrypt" => Decrypting(t).rec \in Record
      /\ Decrypting(t).at \in {"idle", "decrypt"}
  BY OpTypes DEF Decrypting, Typed, TypeOK, Idle, Op, Stages
<1>2. ASSUME LoadIn(t)
      PROVE  /\ record' \in [Tabs -> Record \union {NoRecord}]
             /\ legacy' \in [Tabs -> BOOLEAN]
             /\ key' \in [Tabs -> 0 .. MaxSalts]
             /\ secrets' \in [Tabs -> Sets \union {Locked}]
             /\ \A u \in Tabs : key'[u] # 0 => secrets'[u] # Locked
  BY <1>2, BoundsAssumption DEF LoadIn, Take, DropKey, Hold, Typed, TypeOK
<1>3. ASSUME NEW o, o.rec \in Record, DecryptedIn(t, o)
      PROVE  /\ key' \in [Tabs -> 0 .. MaxSalts]
             /\ secrets' \in [Tabs -> Sets \union {Locked}]
             /\ \A u \in Tabs : key'[u] # 0 => secrets'[u] # Locked
  <2>1. o.rec.secrets \in Sets /\ o.rec.secrets # Locked
    BY <1>3, RecordFacts
  <2> QED  BY <1>3, <2>1, BoundsAssumption DEF DecryptedIn, DropKey, Hold, Typed, TypeOK
<1>4. CASE Refresh(t)
  BY <1>1, <1>2, <1>4 DEF Refresh, Typed, TypeOK, Shape, disk, history
<1>5. CASE Reload(t)
  <2>1. op' = [op EXCEPT ![t] = Decrypting(t)]
    BY <1>5 DEF Reload
  <2> QED  BY <1>1, <1>2, <1>5, <2>1, OpTyped DEF Reload, Typed, TypeOK, Shape, disk, history
<1>6. CASE Refreshed(t)
  <2>1. sync[t].rec \in Record
    BY <1>6 DEF Refreshed, Typed, Shape
  <2>2. Idle \in Op /\ Idle.at = "idle"
    BY OpTypes DEF Idle
  <2> QED  BY <1>3, <1>6, <2>1, <2>2 DEF Refreshed, Typed, TypeOK, Shape, disk, history
<1>7. CASE Reloaded(t)
  <2>1. op[t].rec \in Record
    BY <1>7 DEF Reloaded, Typed, Shape
  <2>2. Idle \in Op /\ Idle.at = "idle"
    BY OpTypes DEF Idle
  <2>3. op' = [op EXCEPT ![t] = Idle]
    BY <1>7 DEF Reloaded
  <2> QED  BY <1>3, <1>7, <2>1, <2>2, <2>3, OpTyped
           DEF Reloaded, Typed, TypeOK, Shape, disk, history
<1> QED  BY <1>4, <1>5, <1>6, <1>7

LEMMA ConflictTyped == ASSUME Typed, NEW t \in Tabs, Conflict(t) PROVE Typed'
<1> DEFINE o == [Idle EXCEPT !.at = "reload"]
<1>1. o \in Op /\ o.at = "reload" /\ op' = [op EXCEPT ![t] = o]
  BY OpTypes DEF Conflict, Idle, Op, Stages
<1> HIDE DEF o
<1> QED  BY <1>1, OpTyped DEF Conflict, Typed, TypeOK, Shape, disk, history

(* A record written and taken over.                                        *)
LEMMA WriteTyped ==
    ASSUME Typed, NEW t \in Tabs, NEW r \in Record, Write(t, r)
    PROVE  /\ store' \in Record /\ record' \in [Tabs -> Record \union {NoRecord}]
           /\ secrets' \in [Tabs -> Sets \union {Locked}]
           /\ secrets'[t] # Locked
           /\ \A u \in Tabs : secrets[u] # Locked => secrets'[u] # Locked
           /\ heard' \in [Tabs -> BOOLEAN]
<1>1. r.secrets \in Sets /\ r.secrets # Locked
  BY RecordFacts
<1> QED  BY <1>1 DEF Write, Announce, Typed, TypeOK

LEMMA SaveTyped == ASSUME Typed, NEW t \in Tabs, Save(t) PROVE Typed'
<1>1. CASE Rev(store) = op[t].base
  <2>1. /\ op[t].rec \in Record /\ Write(t, op[t].rec)
        /\ op' = [op EXCEPT ![t] = Idle] /\ Idle \in Op /\ Idle.at = "idle"
        /\ gone' = gone \union op[t].drops /\ op[t].drops \in Sets
        /\ UNCHANGED <<primary, legacy, key, sync, salts>>
    BY <1>1, OpTypes DEF Save, Typed, TypeOK, Shape, Idle
  <2>2. gone' \in Sets
    BY <2>1 DEF Typed, TypeOK, Sets
  <2> QED  BY <2>1, <2>2, WriteTyped, OpTyped DEF Typed, TypeOK, Shape
<1>2. CASE Rev(store) # op[t].base
  BY <1>2, ConflictTyped DEF Save
<1> QED  BY <1>1, <1>2

LEMMA DropTyped == ASSUME Typed, NEW t \in Tabs, Drop(t) PROVE Typed'
<1>1. CASE Rev(store) = op[t].base
  <2>1. /\ op' = [op EXCEPT ![t] = Idle] /\ Idle \in Op /\ Idle.at = "idle"
        /\ gone' = gone \union op[t].drops /\ op[t].drops \in Sets
        /\ store' = NoRecord /\ record' = [record EXCEPT ![t] = NoRecord]
        /\ key' = [key EXCEPT ![t] = 0] /\ secrets' = [secrets EXCEPT ![t] = Locked]
        /\ heard' = [u \in Tabs |-> TRUE]
        /\ UNCHANGED <<primary, legacy, sync, salts>>
    BY <1>1, OpTypes DEF Drop, DropKey, Hold, Announce, Typed, TypeOK, Idle
  <2>2. gone' \in Sets
    BY <2>1 DEF Typed, TypeOK, Sets
  <2> QED  BY <2>1, <2>2, OpTyped, BoundsAssumption DEF Typed, TypeOK, Shape
<1>2. CASE Rev(store) # op[t].base
  BY <1>2, ConflictTyped DEF Drop
<1> QED  BY <1>1, <1>2

LEMMA RemoveLastTyped ==
    ASSUME Typed, NEW t \in Tabs, NEW w \in Wallets, RemoveLast(t, w)
    PROVE  Typed'
<1> DEFINE o == [Idle EXCEPT !.at = "drop", !.drops = {w}, !.base = record[t].rev]
<1>1. record[t] \in Record
  BY DEF RemoveLast, Unlocked, Typed, TypeOK
<1>2. record[t].rev \in 0 .. MaxRev /\ {w} \in Sets
  BY <1>1, RecordFacts, BoundsAssumption DEF Sets
<1>3. o \in Op /\ o.at = "drop" /\ op' = [op EXCEPT ![t] = o]
  BY <1>2, OpTypes DEF RemoveLast, Idle, Op, Stages
<1> HIDE DEF o
<1> QED  BY <1>3, OpTyped DEF RemoveLast, Typed, TypeOK, Shape, disk, history

LEMMA CreateTyped ==
    ASSUME Typed, NEW t \in Tabs, NEW w \in Wallets, CreateVault(t, w)
    PROVE  Typed'
<1> DEFINE o == [Idle EXCEPT !.at = "create", !.drops = {w}]
<1>1. o \in Op /\ o.at = "create"
  BY OpTypes DEF Idle, Op, Stages, Sets
<1>2. op' = op \/ op' = [op EXCEPT ![t] = o]
  BY DEF CreateVault
<1> HIDE DEF o
<1>3. /\ op' \in [Tabs -> Op]
      /\ \A u \in Tabs : /\ op'[u].at \in {"save", "decrypt", "open", "verify"}
                              => op'[u].rec \in Record
                         /\ op'[u].at = "replace" => op'[u].base < MaxRev
  BY <1>1, <1>2, OpTyped DEF Typed, TypeOK, Shape
<1> QED  BY <1>3 DEF CreateVault, Take, Typed, TypeOK, Shape, disk, history

LEMMA CreatedTyped == ASSUME Typed, NEW t \in Tabs, Created(t) PROVE Typed'
<1>1. /\ op' = [op EXCEPT ![t] = Idle] /\ Idle \in Op /\ Idle.at = "idle"
      /\ UNCHANGED <<primary, legacy, sync, gone>>
  BY OpTypes DEF Created, Idle
<1>2. CASE store = NoRecord
  <2>1. PICK w \in op[t].drops :
          /\ salts < MaxSalts /\ salts' = salts + 1
          /\ Write(t, FreshRecord(1, salts + 1, w))
          /\ key' = [key EXCEPT ![t] = FreshRecord(1, salts + 1, w).salt]
    BY <1>2 DEF Created
  <2>2. salts + 1 \in 1 .. MaxSalts /\ 1 \in 1 .. MaxRev /\ w \in Wallets
    BY <2>1, BoundsAssumption DEF Typed, TypeOK, Op, Sets
  <2>3. /\ FreshRecord(1, salts + 1, w) \in Record
        /\ FreshRecord(1, salts + 1, w).salt \in 0 .. MaxSalts
        /\ salts' \in 0 .. MaxSalts
    BY <2>1, <2>2, FreshIsRecord, BoundsAssumption
  <2> HIDE DEF FreshRecord
  <2> QED  BY <1>1, <2>1, <2>3, WriteTyped, OpTyped DEF Typed, TypeOK, Shape
<1>3. CASE store # NoRecord
  BY <1>1, <1>3, OpTyped DEF Created, Typed, TypeOK, Shape
<1> QED  BY <1>2, <1>3

LEMMA UnlockTyped == ASSUME Typed, NEW t \in Tabs, Unlock(t) PROVE Typed'
<1> DEFINE o == IF store # NoRecord THEN [Idle EXCEPT !.at = "open", !.rec = store]
                ELSE [Idle EXCEPT !.at = "migrate"]
<1>1. o \in Op /\ o.at \in {"open", "migrate"} /\ (o.at = "open" => o.rec \in Record)
  BY OpTypes DEF Typed, TypeOK, Idle, Op, Stages
<1>2. op' = [op EXCEPT ![t] = o]
  BY DEF Unlock
<1> HIDE DEF o
<1> QED  BY <1>1, <1>2, OpTyped DEF Unlock, Take, Typed, TypeOK, Shape, disk, history

LEMMA OpenTyped ==
    ASSUME Typed, NEW t \in Tabs, Open(t) \/ Refuse(t) \/ Burn(t)
    PROVE  Typed'
<1>1. \E o \in Op : /\ op' = [op EXCEPT ![t] = o]
                    /\ o.at \in {"idle", "burn", "migrate"}
  BY OpTypes DEF Open, Refuse, Burn, Idle, Op, Stages
<1>2. PICK o \in Op : /\ op' = [op EXCEPT ![t] = o]
                      /\ o.at \in {"idle", "burn", "migrate"}
  BY <1>1
<1>3. CASE Open(t)
  <2>1. /\ op[t].rec \in Record /\ op[t].rec.salt \in 0 .. MaxSalts
        /\ op[t].rec.secrets \in Sets /\ op[t].rec.secrets # Locked
    BY <1>3, RecordFacts, BoundsAssumption DEF Open, Typed, Shape
  <2>2. /\ key' \in [Tabs -> 0 .. MaxSalts]
        /\ secrets' \in [Tabs -> Sets \union {Locked}]
        /\ \A u \in Tabs : key'[u] # 0 => secrets'[u] # Locked
    BY <1>3, <2>1 DEF Open, Hold, Typed, TypeOK
  <2> QED  BY <1>2, <1>3, <2>2, OpTyped DEF Open, Typed, TypeOK, Shape, disk, history
<1>4. CASE Refuse(t) \/ Burn(t)
  BY <1>2, <1>4, OpTyped DEF Refuse, Burn, Typed, TypeOK, Shape, disk, history
<1> QED  BY <1>3, <1>4

LEMMA MigrateTyped == ASSUME Typed, NEW t \in Tabs, Migrate(t) PROVE Typed'
<1> DEFINE o == [Idle EXCEPT !.at = "replace", !.base = Rev(record[t])]
<1>1. Rev(record[t]) \in 0 .. MaxRev /\ Rev(record[t]) < MaxRev
  BY RecordFacts, BoundsAssumption DEF Migrate, Rev, Typed, TypeOK
<1>2. o \in Op /\ o.at = "replace" /\ o.base < MaxRev
  BY <1>1, OpTypes DEF Idle, Op, Stages
<1>3. op' = [op EXCEPT ![t] = o]
  BY DEF Migrate
<1> HIDE DEF o
<1> QED  BY <1>2, <1>3, OpTyped DEF Migrate, Typed, TypeOK, Shape, disk, history

LEMMA ReplaceTyped == ASSUME Typed, NEW t \in Tabs, Replace(t) PROVE Typed'
<1> DEFINE r == FreshRecord(op[t].base + 1, salts + 1, First)
           o == [Idle EXCEPT !.at = "verify", !.rec = r]
<1>1. CASE Rev(store) = op[t].base
  <2>1. op[t].base + 1 \in 1 .. MaxRev
    BY BoundsAssumption DEF Replace, Typed, TypeOK, Shape, Op
  <2>2. salts + 1 \in 1 .. MaxSalts /\ salts' = salts + 1
    BY <1>1, BoundsAssumption DEF Replace, Typed, TypeOK
  <2>3. r \in Record /\ salts' \in 0 .. MaxSalts
    BY <2>1, <2>2, FreshIsRecord, FirstAssumption, BoundsAssumption
  <2>4. /\ store' = r /\ op' = [op EXCEPT ![t] = o]
        /\ heard' = [u \in Tabs |-> TRUE]
        /\ UNCHANGED <<primary, record, legacy, key, secrets, sync, gone>>
    BY <1>1 DEF Replace, Announce
  <2> HIDE DEF r
  <2>5. o \in Op /\ o.at = "verify" /\ o.rec \in Record
    BY <2>3, OpTypes DEF Idle, Op, Stages
  <2> HIDE DEF o
  <2> QED  BY <2>3, <2>4, <2>5, OpTyped DEF Typed, TypeOK, Shape
<1>2. CASE Rev(store) # op[t].base
  <2>1. /\ op' = [op EXCEPT ![t] = Idle] /\ Idle \in Op /\ Idle.at = "idle"
        /\ UNCHANGED <<store, salts, heard, primary, record, legacy, key, secrets, sync, gone>>
    BY <1>2, OpTypes DEF Replace, Idle
  <2> QED  BY <2>1, OpTyped DEF Typed, TypeOK, Shape
<1> QED  BY <1>1, <1>2

LEMMA MigratedTyped == ASSUME Typed, NEW t \in Tabs, Migrated(t) PROVE Typed'
<1>1. /\ op[t].rec \in Record /\ op[t].rec.salt \in 0 .. MaxSalts
      /\ op[t].rec.secrets \in Sets /\ op[t].rec.secrets # Locked
  BY RecordFacts, BoundsAssumption DEF Migrated, Typed, Shape
<1>2. op' = [op EXCEPT ![t] = Idle] /\ Idle \in Op /\ Idle.at = "idle"
  BY OpTypes DEF Migrated, Idle
<1> QED  BY <1>1, <1>2, OpTyped
         DEF Migrated, Take, Hold, Typed, TypeOK, Shape, history

LEMMA UserTyped ==
    ASSUME Typed, NEW t \in Tabs, Lock(t) \/ Erase(t) \/ Reopen(t)
    PROVE  Typed'
<1>1. Idle \in Op /\ Idle.at = "idle" /\ Wallets \in Sets /\ 0 \in 0 .. MaxSalts
  BY OpTypes, BoundsAssumption DEF Idle, Sets
<1>2. CASE Lock(t)
  BY <1>1, <1>2 DEF Lock, DropKey, Hold, Typed, TypeOK, Shape, disk, history
<1>3. CASE Erase(t)
  BY <1>1, <1>3 DEF Erase, Take, Announce, Typed, TypeOK, Shape
<1>4. CASE Reopen(t)
  <2>1. op' = [op EXCEPT ![t] = Idle] /\ sync' = [sync EXCEPT ![t] = Idle]
    BY <1>4 DEF Reopen
  <2> QED  BY <1>1, <1>4, <2>1, OpTyped
           DEF Reopen, Take, DropKey, Hold, Typed, TypeOK, Shape, disk, history
<1> QED  BY <1>2, <1>3, <1>4

LEMMA InitTyped == Init => Typed
<1> SUFFICES ASSUME Init PROVE Typed
  OBVIOUS
<1>1. FreshRecord(1, 1, First) \in Record
  BY FreshIsRecord, FirstAssumption, BoundsAssumption
<1>2. store \in Record \union {NoRecord} /\ salts \in 0 .. MaxSalts
  BY <1>1, BoundsAssumption DEF Init
<1>3. Idle \in Op /\ Idle.at = "idle" /\ 0 \in 0 .. MaxSalts /\ {} \in Sets
  BY OpTypes, BoundsAssumption DEF Idle, Sets
<1> QED  BY <1>2, <1>3 DEF Init, Typed, TypeOK, Shape

LEMMA NextTyped == Typed /\ [Next]_vars => Typed'
<1> SUFFICES ASSUME Typed, [Next]_vars PROVE Typed'
  OBVIOUS
<1>1. ASSUME NEW t \in Tabs, NEW w \in Wallets,
             \/ AddWallet(t, w) \/ SetReceiveIndex(t, w) \/ RemoveWallet(t, w)
             \/ RemoveLast(t, w) \/ CreateVault(t, w)
      PROVE  Typed'
  BY <1>1, MutationTyped, RemoveLastTyped, CreateTyped
<1>2. ASSUME NEW t \in Tabs,
             \/ Refresh(t) \/ Refreshed(t) \/ Reload(t) \/ Reloaded(t)
             \/ Save(t) \/ Drop(t) \/ Created(t) \/ Unlock(t) \/ Open(t)
             \/ Refuse(t) \/ Burn(t) \/ Migrate(t) \/ Replace(t) \/ Migrated(t)
             \/ Lock(t) \/ Erase(t) \/ Reopen(t)
      PROVE  Typed'
  BY <1>2, RefreshTyped, SaveTyped, DropTyped, CreatedTyped, UnlockTyped, OpenTyped,
     MigrateTyped, ReplaceTyped, MigratedTyped, UserTyped
<1>3. CASE UNCHANGED vars
  BY <1>3 DEF vars, Typed, TypeOK, Shape
<1> QED  BY <1>1, <1>2, <1>3 DEF Next

(* Every operation of every tab keeps the store, the copies and the        *)
(* operations in flight of their types, and a tab with a session key holds *)
(* the mnemonics too.                                                      *)
THEOREM TypeCorrect == Spec => []TypeOK
<1>1. Typed => TypeOK
  BY DEF Typed
<1> QED  BY <1>1, InitTyped, NextTyped, PTL DEF Spec

-----------------------------------------------------------------------------
(* What the compare-and-set gives.                                         *)

(* The records some tab, or the store, would take for the vault's.         *)
Held == {r \in {record[t] : t \in Tabs} \union {store}
               \union {op[t].rec : t \in {u \in Tabs : op[u].at = "verify"}} :
           r # NoRecord}

(* A record that a mutation may put in the place of another.               *)
Extends(old, new, drops) ==
    /\ Listed(old) \ Listed(new) \subseteq drops
    /\ \A w \in Listed(old) \intersect Listed(new) : new.index[w] >= old.index[w]

(* A mutation in flight: as long as its base is the stored revision, it    *)
(* was computed from the stored record s.                                  *)
Based(s, o) ==
    /\ 1 <= o.base
    /\ o.at = "save" => o.rec.rev = o.base + 1
    /\ s # NoRecord =>
         /\ o.base <= s.rev
         /\ o.base = s.rev /\ o.at = "save" => Extends(s, o.rec, o.drops)
         /\ o.base = s.rev /\ o.at = "drop" => Listed(s) \subseteq o.drops

Cas ==
    salts <= 1 =>
      /\ \A r \in Held : salts = 1 /\ (store # NoRecord => r.rev <= store.rev)
      /\ \A r, q \in Held : r.rev = q.rev => r = q
      /\ \A t \in Tabs : op[t].at \in {"save", "drop"} => salts = 1 /\ Based(store, op[t])

LEMMA HeldFacts ==
    ASSUME Typed
    PROVE  /\ \A r : r \in Held <=> /\ r # NoRecord
                                    /\ \/ r = store
                                       \/ \E t \in Tabs : r = record[t]
                                       \/ \E t \in Tabs : op[t].at = "verify" /\ r = op[t].rec
           /\ \A r \in Held : r \in Record /\ r.rev \in 1 .. MaxRev
<1>1. \A r : r \in Held <=> /\ r # NoRecord
                            /\ \/ r = store
                               \/ \E t \in Tabs : r = record[t]
                               \/ \E t \in Tabs : op[t].at = "verify" /\ r = op[t].rec
  BY DEF Held
<1>2. \A r \in Held : r \in Record
  BY <1>1 DEF Typed, TypeOK, Shape
<1> QED  BY <1>1, <1>2, RecordFacts

(* A step that writes no record, and takes over none that was not held.    *)
LEMMA Keeps ==
    ASSUME Typed, Typed', Cas, salts' = salts,
           store' = store \/ store' = NoRecord,
           \A u \in Tabs : record'[u] = record[u] \/ record'[u] \in Held \union {NoRecord},
           \A u \in Tabs :
             \/ op'[u] = op[u]
             \/ op'[u].at \notin {"verify", "save", "drop"}
             \/ op'[u].at # "verify" /\ (salts <= 1 => salts = 1 /\ Based(store', op'[u]))
    PROVE  Cas'
<1> SUFFICES ASSUME salts <= 1 PROVE Cas'
  BY DEF Cas
<1>1. Held' \subseteq Held
  <2> SUFFICES ASSUME NEW r \in Held' PROVE r \in Held
    OBVIOUS
  <2>1. /\ r # NoRecord
        /\ \/ r = store'
           \/ \E u \in Tabs : r = record'[u]
           \/ \E u \in Tabs : op'[u].at = "verify" /\ r = op'[u].rec
    BY DEF Held
  <2> QED  BY <2>1, HeldFacts
<1>2. \A u \in Tabs : op'[u].at \in {"save", "drop"} => salts = 1 /\ Based(store', op'[u])
  <2> SUFFICES ASSUME NEW u \in Tabs, op'[u] = op[u], op[u].at \in {"save", "drop"}
               PROVE  salts = 1 /\ Based(store', op[u])
    OBVIOUS
  <2>1. salts = 1 /\ Based(store, op[u])
    BY DEF Cas
  <2> QED  BY <2>1 DEF Based
<1>3. \A r \in Held' : salts = 1 /\ (store' # NoRecord => r.rev <= store'.rev)
  BY <1>1 DEF Cas
<1>4. \A r, q \in Held' : r.rev = q.rev => r = q
  BY <1>1 DEF Cas
<1> QED  BY <1>2, <1>3, <1>4 DEF Cas

(* A mutation begins with what the tab holds.                              *)
LEMMA BeginBased ==
    ASSUME Typed, Typed', Cas, NEW t \in Tabs, Unlocked(t), NEW index, NEW m, NEW drops,
           Begin(t, index, m, drops),
           Listed(record[t]) \ DOMAIN index \subseteq drops,
           \A w \in Listed(record[t]) \intersect DOMAIN index : index[w] >= record[t].index[w]
    PROVE  Cas'
<1> DEFINE rec == [rev |-> record[t].rev + 1, salt |-> record[t].salt,
                   under |-> key[t], index |-> index, secrets |-> m]
           o == [at |-> "save", base |-> record[t].rev, drops |-> drops,
                 with |-> 0, rec |-> rec]
<1>1. /\ op' = [op EXCEPT ![t] = o]
      /\ UNCHANGED <<store, salts, record>>
      /\ record[t] # NoRecord /\ record[t] \in Record
  BY DEF Begin, Unlocked, disk, history, Typed, TypeOK
<1>2. op'[t] = o /\ \A u \in Tabs : u # t => op'[u] = op[u]
  BY <1>1 DEF Typed, TypeOK
<1>3. record[t] \in Held /\ record[t].rev \in 1 .. MaxRev
  BY <1>1, HeldFacts
<1>4. o.rec \in Record
  BY <1>2 DEF Typed, Shape
<1>5. Listed(o.rec) = DOMAIN index /\ o.rec.index = index
  BY <1>4, RecordFacts DEF Listed
<1>6. Extends(record[t], o.rec, drops)
  BY <1>1, <1>5 DEF Extends, Listed
<1>7. ASSUME salts <= 1  PROVE salts = 1 /\ Based(store, o)
  <2>1. salts = 1 /\ (store # NoRecord => record[t].rev <= store.rev)
    BY <1>3, <1>7 DEF Cas
  <2>2. store # NoRecord /\ record[t].rev = store.rev => store = record[t]
    BY <1>3, <1>7, HeldFacts DEF Cas
  <2>3. o.base = record[t].rev /\ o.at = "save" /\ o.drops = drops
        /\ o.rec.rev = record[t].rev + 1
    OBVIOUS
  <2> HIDE DEF o
  <2> QED  BY <1>3, <1>6, <2>1, <2>2, <2>3 DEF Based
<1>8. o.at = "save"
  OBVIOUS
<1> HIDE DEF o
<1> QED  BY <1>1, <1>2, <1>7, <1>8, Keeps

LEMMA MutationCas ==
    ASSUME Typed, Typed', Cas, NEW t \in Tabs, NEW w \in Wallets,
           AddWallet(t, w) \/ SetReceiveIndex(t, w) \/ RemoveWallet(t, w)
    PROVE  Cas'
<1> DEFINE L == Listed(record[t])
<1>1. /\ Unlocked(t) /\ record[t] \in Record /\ L \in Sets
      /\ record[t].index \in [L -> 0 .. MaxIndex]
  <2>1. Unlocked(t) /\ record[t] \in Record
    BY DEF AddWallet, SetReceiveIndex, RemoveWallet, Unlocked, Typed, TypeOK
  <2> QED  BY <2>1, RecordFacts
<1> HIDE DEF L
<1>2. CASE AddWallet(t, w)
  <2> DEFINE ix == [v \in L \union {w} |-> IF v = w THEN 0 ELSE record[t].index[v]]
  <2>1. Begin(t, ix, secrets[t] \union {w}, {}) /\ w \notin L
    BY <1>2 DEF AddWallet, L
  <2>2. /\ L \ DOMAIN ix \subseteq {}
        /\ \A v \in L \intersect DOMAIN ix : ix[v] >= record[t].index[v]
    BY <1>1, <2>1
  <2> QED  BY <1>1, <2>1, <2>2, BeginBased DEF L
<1>3. CASE SetReceiveIndex(t, w)
  <2>1. PICK i \in 0 .. MaxIndex :
          /\ i > record[t].index[w]
          /\ Begin(t, [record[t].index EXCEPT ![w] = i], secrets[t], {})
    BY <1>3 DEF SetReceiveIndex
  <2> DEFINE ix == [record[t].index EXCEPT ![w] = i]
  <2>2. /\ L \ DOMAIN ix \subseteq {}
        /\ \A v \in L \intersect DOMAIN ix : ix[v] >= record[t].index[v]
    BY <1>1, <2>1
  <2> QED  BY <1>1, <2>1, <2>2, BeginBased DEF L
<1>4. CASE RemoveWallet(t, w)
  <2> DEFINE ix == [v \in L \ {w} |-> record[t].index[v]]
  <2>1. Begin(t, ix, secrets[t] \ {w}, {w})
    BY <1>4 DEF RemoveWallet, L
  <2>2. /\ L \ DOMAIN ix \subseteq {w}
        /\ \A v \in L \intersect DOMAIN ix : ix[v] >= record[t].index[v]
    BY <1>1
  <2> QED  BY <1>1, <2>1, <2>2, BeginBased DEF L
<1> QED  BY <1>2, <1>3, <1>4

LEMMA RemoveLastCas ==
    ASSUME Typed, Typed', Cas, NEW t \in Tabs, NEW w \in Wallets, RemoveLast(t, w)
    PROVE  Cas'
<1> DEFINE o == [Idle EXCEPT !.at = "drop", !.drops = {w}, !.base = record[t].rev]
<1>1. /\ op' = [op EXCEPT ![t] = o]
      /\ UNCHANGED <<store, salts, record>>
      /\ record[t] # NoRecord /\ Listed(record[t]) = {w}
  BY DEF RemoveLast, Unlocked, disk, history
<1>2. op'[t] = o /\ \A u \in Tabs : u # t => op'[u] = op[u]
  BY <1>1 DEF Typed, TypeOK
<1>3. record[t] \in Held /\ record[t].rev \in 1 .. MaxRev
  BY <1>1, HeldFacts
<1>4. o.base = record[t].rev /\ o.at = "drop" /\ o.drops = {w}
  BY DEF Idle
<1> HIDE DEF o
<1>5. ASSUME salts <= 1  PROVE salts = 1 /\ Based(store, o)
  <2>1. salts = 1 /\ (store # NoRecord => record[t].rev <= store.rev)
    BY <1>3, <1>5 DEF Cas
  <2>2. store # NoRecord /\ record[t].rev = store.rev => store = record[t]
    BY <1>3, <1>5, HeldFacts DEF Cas
  <2> QED  BY <1>1, <1>3, <1>4, <2>1, <2>2 DEF Based
<1> QED  BY <1>1, <1>2, <1>4, <1>5, Keeps

(* The mutation whose revision matched replaces the record it was computed *)
(* from, and is newer than every record held.                              *)
LEMMA SaveCas ==
    ASSUME Typed, Typed', Cas, NEW t \in Tabs, Save(t)
    PROVE  Cas'
<1>1. CASE Rev(store) # op[t].base
  BY <1>1, Keeps DEF Save, Conflict, Idle, disk, history, Typed, TypeOK
<1>2. CASE Rev(store) = op[t].base
  <2> SUFFICES ASSUME salts <= 1 PROVE Cas'
    BY <1>2 DEF Cas, Save
  <2> DEFINE r == op[t].rec
  <2>1. /\ store' = r /\ record' = [record EXCEPT ![t] = r] /\ salts' = salts
        /\ op' = [op EXCEPT ![t] = Idle] /\ op[t].at = "save" /\ r \in Record
    BY <1>2 DEF Save, Write, Typed, Shape
  <2>2. salts = 1 /\ 1 <= op[t].base /\ r.rev = op[t].base + 1
    BY <2>1 DEF Cas, Based
  <2>3. store # NoRecord /\ store.rev = op[t].base /\ store.rev \in Nat
    BY <1>2, <2>2, RecordFacts DEF Rev, Typed, TypeOK
  <2>4. \A q \in Held : q.rev \in Nat /\ q.rev < r.rev
    BY <2>2, <2>3, HeldFacts DEF Cas
  <2>5. \A q \in Held' : q = r \/ q \in Held
    <3> SUFFICES ASSUME NEW q \in Held' PROVE q = r \/ q \in Held
      OBVIOUS
    <3>1. /\ q # NoRecord
          /\ \/ q = store'
             \/ \E u \in Tabs : q = record'[u]
             \/ \E u \in Tabs : op'[u].at = "verify" /\ q = op'[u].rec
      BY DEF Held
    <3>2. \A u \in Tabs : /\ record'[u] = record[u] \/ record'[u] = r
                          /\ op'[u] = op[u] \/ op'[u].at = "idle"
      BY <2>1 DEF Typed, TypeOK, Idle
    <3> QED  BY <2>1, <3>1, <3>2, HeldFacts
  <2>6. r # NoRecord /\ r.rev \in Nat
    BY <2>1, RecordFacts
  <2>7. ASSUME NEW u \in Tabs, op'[u].at \in {"save", "drop"}
        PROVE  Based(store', op'[u])
    <3>1. op'[u] = op[u] /\ op[u].at \in {"save", "drop"}
      BY <2>1, <2>7 DEF Typed, TypeOK, Idle
    <3>2. Based(store, op[u]) /\ op[u].base \in Nat
      BY <3>1 DEF Cas, Typed, TypeOK, Op
    <3> QED  BY <2>1, <2>2, <2>3, <2>6, <3>1, <3>2 DEF Based
  <2> HIDE DEF r
  <2> QED  BY <2>1, <2>2, <2>4, <2>5, <2>6, <2>7 DEF Cas
<1> QED  BY <1>1, <1>2

(* The first record of a vault: nothing else was held.                     *)
LEMMA FirstRecordCas ==
    ASSUME Typed, Typed', Cas, NEW t \in Tabs, NEW r \in Record, NEW o \in Op,
           store = NoRecord, store' = r, salts' = salts + 1,
           \A u \in Tabs : record'[u] = record[u] \/ record'[u] = r,
           op' = [op EXCEPT ![t] = o],
           o.at \notin {"save", "drop"}, o.at = "verify" => o.rec = r
    PROVE  Cas'
<1> SUFFICES ASSUME salts + 1 <= 1 PROVE Cas'
  BY DEF Cas
<1>1. salts = 0
  BY DEF Typed, TypeOK
<1>2. Held = {} /\ \A u \in Tabs : op[u].at \notin {"save", "drop"}
  BY <1>1 DEF Cas
<1>3. \A q \in Held' : q = r
  <2> SUFFICES ASSUME NEW q \in Held' PROVE q = r
    OBVIOUS
  <2>1. /\ q # NoRecord
        /\ \/ q = store'
           \/ \E u \in Tabs : q = record'[u]
           \/ \E u \in Tabs : op'[u].at = "verify" /\ q = op'[u].rec
    BY DEF Held
  <2>2. \A u \in Tabs : op'[u] = op[u] \/ op'[u] = o
    BY DEF Typed, TypeOK
  <2> QED  BY <1>2, <2>1, <2>2, HeldFacts
<1>4. \A u \in Tabs : op'[u].at \notin {"save", "drop"}
  BY <1>2 DEF Typed, TypeOK
<1>5. r.rev \in Nat
  BY RecordFacts
<1> QED  BY <1>1, <1>3, <1>4, <1>5 DEF Cas

LEMMA CreatedCas ==
    ASSUME Typed, Typed', Cas, NEW t \in Tabs, Created(t)
    PROVE  Cas'
<1>1. op' = [op EXCEPT ![t] = Idle] /\ Idle \in Op /\ Idle.at = "idle"
  BY OpTypes DEF Created, Idle
<1>2. CASE store = NoRecord
  <2>1. PICK r : /\ store' = r /\ salts' = salts + 1
                 /\ record' = [record EXCEPT ![t] = r]
                 /\ r = store'
    BY <1>2 DEF Created, Write
  <2>2. r # NoRecord
    <3>1. PICK w \in op[t].drops :
            /\ salts < MaxSalts /\ store' = FreshRecord(1, salts + 1, w)
      BY <1>2 DEF Created, Write
    <3>2. salts + 1 \in 1 .. MaxSalts /\ 1 \in 1 .. MaxRev /\ w \in Wallets
      BY <3>1, BoundsAssumption DEF Typed, TypeOK, Op, Sets
    <3> QED  BY <2>1, <3>1, <3>2, FreshIsRecord, RecordFacts
  <2>3. r \in Record
    BY <2>1, <2>2 DEF Typed, TypeOK
  <2>4. \A u \in Tabs : record'[u] = record[u] \/ record'[u] = r
    BY <2>1 DEF Typed, TypeOK
  <2> QED  BY <1>1, <1>2, <2>1, <2>3, <2>4, FirstRecordCas
<1>3. CASE store # NoRecord
  <2>1. UNCHANGED <<store, record, salts>>
    BY <1>3 DEF Created
  <2> QED  BY <1>1, <2>1, Keeps DEF Typed, TypeOK
<1> QED  BY <1>2, <1>3

(* A migration replaces what it did not read only by writing a second      *)
(* salt; its first one finds the store empty.                              *)
LEMMA ReplaceCas ==
    ASSUME Typed, Typed', Cas, NEW t \in Tabs, Replace(t)
    PROVE  Cas'
<1> DEFINE r == FreshRecord(op[t].base + 1, salts + 1, First)
           o == [Idle EXCEPT !.at = "verify", !.rec = r]
<1>1. CASE Rev(store) = op[t].base
  <2>1. /\ store' = r /\ salts' = salts + 1 /\ UNCHANGED record
        /\ op' = [op EXCEPT ![t] = o]
    BY <1>1 DEF Replace
  <2>2. o.at = "verify" /\ o.rec = r
    BY DEF Idle
  <2> HIDE DEF r, o
  <2>3. o \in Op /\ r \in Record
    <3>1. op'[t] = o /\ op'[t] \in Op
      BY <2>1 DEF Typed, TypeOK
    <3> QED  BY <2>2, <3>1 DEF Typed, Shape
  <2>4. CASE store = NoRecord
    BY <2>1, <2>2, <2>3, <2>4, FirstRecordCas
  <2>5. CASE store # NoRecord
    <3>1. store \in Held
      BY <2>5, HeldFacts
    <3>2. salts \in Nat /\ (salts <= 1 => salts = 1)
      BY <3>1 DEF Cas, Typed, TypeOK
    <3> QED  BY <2>1, <3>2 DEF Cas
  <2> QED  BY <2>4, <2>5
<1>2. CASE Rev(store) # op[t].base
  <2>1. /\ op' = [op EXCEPT ![t] = Idle] /\ Idle.at = "idle"
        /\ UNCHANGED <<store, record, salts>>
    BY <1>2 DEF Replace, Idle
  <2> QED  BY <2>1, Keeps DEF Typed, TypeOK
<1> QED  BY <1>1, <1>2

(* The steps that take the stored record, or one they wrote, or drop it.   *)
LEMMA OtherCas ==
    ASSUME Typed, Typed', Cas, NEW t \in Tabs,
           \/ Refresh(t) \/ Refreshed(t) \/ Reload(t) \/ Reloaded(t)
           \/ (\E w \in Wallets : CreateVault(t, w)) \/ Unlock(t) \/ Open(t)
           \/ Refuse(t) \/ Burn(t) \/ Migrate(t) \/ Migrated(t) \/ Drop(t)
           \/ Lock(t) \/ Erase(t) \/ Reopen(t)
    PROVE  Cas'
<1>1. store' = store \/ store' = NoRecord
  BY DEF Refresh, Refreshed, Reload, Reloaded, CreateVault, Unlock, Open, Refuse,
         Burn, Migrate, Migrated, Drop, Conflict, Lock, Erase, Reopen, disk
<1>2. salts' = salts
  BY DEF Refresh, Refreshed, Reload, Reloaded, CreateVault, Unlock, Open, Refuse,
         Burn, Migrate, Migrated, Drop, Conflict, Lock, Erase, Reopen, history
<1>3. \/ record' = record
      \/ record' = [record EXCEPT ![t] = store]
      \/ record' = [record EXCEPT ![t] = NoRecord]
      \/ op[t].at = "verify" /\ record' = [record EXCEPT ![t] = op[t].rec]
  BY DEF Refresh, Refreshed, Reload, Reloaded, CreateVault, Unlock, Open, Refuse,
         Burn, Migrate, Migrated, Drop, Conflict, Lock, Erase, Reopen, LoadIn, Take
<1>4. store \in Held \union {NoRecord}
  BY HeldFacts
<1>5. op[t].at = "verify" => op[t].rec \in Held
  BY HeldFacts, RecordFacts DEF Typed, Shape
<1>6. \A u \in Tabs : record'[u] = record[u] \/ record'[u] \in Held \union {NoRecord}
  BY <1>3, <1>4, <1>5 DEF Typed, TypeOK
<1>7. \E o : /\ o.at \notin {"verify", "save", "drop"}
             /\ op' = op \/ op' = [op EXCEPT ![t] = o]
  <2>1. CASE Refresh(t) \/ Refreshed(t) \/ Lock(t) \/ Erase(t)
    <3>1. op' = op /\ Idle.at = "idle"
      BY <2>1 DEF Refresh, Refreshed, Lock, Erase, Idle
    <3> QED  BY <3>1
  <2>2. CASE Reload(t)
    <3>1. Decrypting(t).at \in {"idle", "decrypt"}
      BY DEF Decrypting, Idle
    <3> QED  BY <2>2, <3>1 DEF Reload
  <2>3. CASE \E w \in Wallets : CreateVault(t, w)
    <3>1. PICK w \in Wallets : CreateVault(t, w)
      BY <2>3
    <3>2. [Idle EXCEPT !.at = "create", !.drops = {w}].at = "create" /\ Idle.at = "idle"
      BY DEF Idle
    <3>3. \/ op' = [op EXCEPT ![t] = [Idle EXCEPT !.at = "create", !.drops = {w}]]
          \/ op' = op
      BY <3>1 DEF CreateVault
    <3> QED  BY <3>2, <3>3
  <2>4. CASE Unlock(t)
    <3>1. /\ [Idle EXCEPT !.at = "open", !.rec = store].at = "open"
          /\ [Idle EXCEPT !.at = "migrate"].at = "migrate"
      BY DEF Idle
    <3>2. \/ op' = [op EXCEPT ![t] = [Idle EXCEPT !.at = "open", !.rec = store]]
          \/ op' = [op EXCEPT ![t] = [Idle EXCEPT !.at = "migrate"]]
      BY <2>4 DEF Unlock
    <3> QED  BY <3>1, <3>2
  <2>5. CASE Open(t)
    <3>1. /\ [Idle EXCEPT !.at = "burn"].at = "burn"
          /\ [Idle EXCEPT !.at = "migrate"].at = "migrate"
          /\ Idle.at = "idle"
      BY DEF Idle
    <3>2. \/ op' = [op EXCEPT ![t] = [Idle EXCEPT !.at = "burn"]]
          \/ op' = [op EXCEPT ![t] = [Idle EXCEPT !.at = "migrate"]]
          \/ op' = [op EXCEPT ![t] = Idle]
      BY <2>5 DEF Open
    <3> QED  BY <3>1, <3>2
  <2>6. CASE Migrate(t)
    BY <2>6 DEF Migrate, Idle
  <2>7. CASE Drop(t)
    BY <2>7 DEF Drop, Conflict, Idle
  <2>8. CASE Reloaded(t) \/ Refuse(t) \/ Burn(t) \/ Migrated(t) \/ Reopen(t)
    <3>1. op' = [op EXCEPT ![t] = Idle] /\ Idle.at = "idle"
      BY <2>8 DEF Reloaded, Refuse, Burn, Migrated, Reopen, Idle
    <3> QED  BY <3>1
  <2> QED  BY <2>1, <2>2, <2>3, <2>4, <2>5, <2>6, <2>7, <2>8
<1>8. \A u \in Tabs : op'[u] = op[u] \/ op'[u].at \notin {"verify", "save", "drop"}
  BY <1>7 DEF Typed, TypeOK
<1> QED  BY <1>1, <1>2, <1>6, <1>8, Keeps

LEMMA InitCas == Init => Cas
<1> SUFFICES ASSUME Init PROVE Cas
  OBVIOUS
<1>1. \A r \in Held : r = store /\ salts = 1
  BY DEF Init, Held, Idle
<1>2. \A u \in Tabs : op[u].at = "idle"
  BY DEF Init, Idle
<1>3. store # NoRecord => store.rev = 1
  BY DEF Init, FreshRecord
<1> QED  BY <1>1, <1>2, <1>3 DEF Cas

LEMMA NextCas == Typed /\ Cas /\ [Next]_vars => Cas'
<1> SUFFICES ASSUME Typed, Cas, [Next]_vars PROVE Cas'
  OBVIOUS
<1>1. Typed'
  BY NextTyped
<1>2. ASSUME NEW t \in Tabs, NEW w \in Wallets,
             \/ AddWallet(t, w) \/ SetReceiveIndex(t, w) \/ RemoveWallet(t, w)
             \/ RemoveLast(t, w) \/ CreateVault(t, w)
      PROVE  Cas'
  BY <1>1, <1>2, MutationCas, RemoveLastCas, OtherCas
<1>3. ASSUME NEW t \in Tabs,
             \/ Refresh(t) \/ Refreshed(t) \/ Reload(t) \/ Reloaded(t)
             \/ Save(t) \/ Drop(t) \/ Created(t) \/ Unlock(t) \/ Open(t)
             \/ Refuse(t) \/ Burn(t) \/ Migrate(t) \/ Replace(t) \/ Migrated(t)
             \/ Lock(t) \/ Erase(t) \/ Reopen(t)
      PROVE  Cas'
  BY <1>1, <1>3, SaveCas, CreatedCas, ReplaceCas, OtherCas
<1>4. CASE UNCHANGED vars
  BY <1>4 DEF vars, Cas, Held
<1> QED  BY <1>2, <1>3, <1>4 DEF Next

LEMMA Invariant == Spec => [](Typed /\ Cas)
<1>1. Init => Typed /\ Cas
  BY InitTyped, InitCas
<1>2. Typed /\ Cas /\ [Next]_vars => (Typed /\ Cas)'
  BY NextTyped, NextCas
<1> QED  BY <1>1, <1>2, PTL DEF Spec

(* While the vault is set up only once, two tabs, or a tab and the store,  *)
(* that have the same revision have the same record.                       *)
THEOREM RevisionsIdentify == Spec => []RevIdentifies
<1>1. Typed /\ Cas => RevIdentifies
  <2> SUFFICES ASSUME Typed, Cas, salts <= 1,
                      NEW r \in {record[t] : t \in Tabs} \union {store},
                      NEW q \in {record[t] : t \in Tabs} \union {store},
                      r # NoRecord, q # NoRecord, r.rev = q.rev
               PROVE  r = q
    BY DEF RevIdentifies
  <2>1. r \in Held /\ q \in Held
    BY DEF Held
  <2> QED  BY <2>1 DEF Cas
<1> QED  BY <1>1, Invariant, PTL

(* The writes that can succeed while the vault is set up only once.        *)
LEMMA StoreStep ==
    ASSUME Typed, Typed', Cas, [Next]_vars, salts' <= 1, store # NoRecord
    PROVE  \/ store' = store
           \/ store' = NoRecord /\ Listed(store) \subseteq gone'
           \/ \E t \in Tabs : /\ Extends(store, store', op[t].drops)
                              /\ gone' = gone \union op[t].drops
<1>0. salts' \in Nat /\ salts \in Nat
  BY DEF Typed, TypeOK
<1>1. ASSUME NEW t \in Tabs, Save(t), Rev(store) = op[t].base
      PROVE  /\ Extends(store, store', op[t].drops)
             /\ gone' = gone \union op[t].drops
  <2>1. /\ op[t].at = "save" /\ store' = op[t].rec /\ salts' = salts
        /\ gone' = gone \union op[t].drops
    BY <1>1 DEF Save, Write
  <2>2. store.rev = op[t].base /\ Based(store, op[t])
    BY <1>1, <2>1 DEF Rev, Cas
  <2> QED  BY <2>1, <2>2 DEF Based
<1>2. ASSUME NEW t \in Tabs, Drop(t), Rev(store) = op[t].base
      PROVE  store' = NoRecord /\ Listed(store) \subseteq gone'
  <2>1. /\ op[t].at = "drop" /\ store' = NoRecord /\ salts' = salts
        /\ gone' = gone \union op[t].drops
    BY <1>2 DEF Drop
  <2>2. store.rev = op[t].base /\ Based(store, op[t])
    BY <1>2, <2>1 DEF Rev, Cas
  <2> QED  BY <2>1, <2>2 DEF Based
<1>3. ASSUME NEW t \in Tabs, Erase(t)
      PROVE  store' = NoRecord /\ Listed(store) \subseteq gone'
  BY <1>3, RecordFacts DEF Erase, Typed, TypeOK, Sets
<1>4. ASSUME NEW t \in Tabs, Replace(t)
      PROVE  store' = store
  <2>1. store \in Held
    BY HeldFacts
  <2>2. salts' = salts + 1 => FALSE
    BY <1>0, <2>1 DEF Cas
  <2> QED  BY <1>4, <2>2 DEF Replace
<1>5. ASSUME NEW t \in Tabs,
             \/ Refresh(t) \/ Refreshed(t) \/ Reload(t) \/ Reloaded(t)
             \/ (\E w \in Wallets : \/ AddWallet(t, w) \/ SetReceiveIndex(t, w)
                                    \/ RemoveWallet(t, w) \/ RemoveLast(t, w)
                                    \/ CreateVault(t, w))
             \/ Created(t) \/ Unlock(t) \/ Open(t) \/ Refuse(t) \/ Burn(t)
             \/ Migrate(t) \/ Migrated(t) \/ Lock(t) \/ Reopen(t)
             \/ Save(t) /\ Rev(store) # op[t].base
             \/ Drop(t) /\ Rev(store) # op[t].base
      PROVE  store' = store
  BY <1>5 DEF Refresh, Refreshed, Reload, Reloaded, AddWallet, SetReceiveIndex,
         RemoveWallet, RemoveLast, Begin, CreateVault, Created, Unlock, Open, Refuse,
         Burn, Migrate, Migrated, Lock, Reopen, Save, Drop, Conflict, disk
<1>6. CASE UNCHANGED vars
  BY <1>6 DEF vars
<1> QED  BY <1>1, <1>2, <1>3, <1>4, <1>5, <1>6 DEF Next

(* While the vault is set up only once, a wallet leaves the stored list    *)
(* only when the user removed it.                                          *)
THEOREM NoWalletUnlisted == Spec => ListedStays
<1>1. ASSUME Typed, Typed', Cas, [Next]_vars
      PROVE  [salts' <= 1 => \A w \in Listed(store) \ Listed(store') : w \in gone']_vars
  <2> SUFFICES ASSUME salts' <= 1, NEW w \in Listed(store) \ Listed(store')
               PROVE  w \in gone'
    OBVIOUS
  <2>1. store # NoRecord
    BY DEF Listed
  <2> QED  BY <1>1, <2>1, StoreStep DEF Extends
<1> QED  BY <1>1, Invariant, PTL DEF Spec, ListedStays

(* While the vault is set up only once, no stored receive index goes back. *)
THEOREM IndexesGrow == Spec => IndexMonotone
<1>1. ASSUME Typed, Typed', Cas, [Next]_vars
      PROVE  [salts' <= 1 =>
                \A w \in Listed(store) \intersect Listed(store') :
                  store'.index[w] >= store.index[w]]_vars
  <2> SUFFICES ASSUME salts' <= 1,
                      NEW w \in Listed(store) \intersect Listed(store')
               PROVE  store'.index[w] >= store.index[w]
    OBVIOUS
  <2>1. store # NoRecord /\ store' # NoRecord
    BY DEF Listed
  <2>2. store'.index[w] \in Nat /\ store.index[w] \in Nat
    BY <1>1, <2>1, RecordFacts DEF Typed, TypeOK
  <2> QED  BY <1>1, <2>1, <2>2, StoreStep DEF Extends
<1> QED  BY <1>1, Invariant, PTL DEF Spec, IndexMonotone
-----------------------------------------------------------------------------
(* The first wallet's mnemonic.  Until its removal is written, every       *)
(* record that is stored, held or being read has it, under the one salt    *)
(* there is; the record a removal is about to write is the only one that   *)
(* may lack it, and it names what it drops.                                *)

Seeded(r) == r # NoRecord => r.salt = 1 /\ r.under = 1 /\ First \in r.secrets /\ First \in Listed(r)

OpSeeded(o) ==
    /\ o.at \in {"decrypt", "open", "verify"} => Seeded(o.rec)
    /\ o.at = "save" => Seeded(o.rec) \/ First \in o.drops
    /\ o.at = "drop" => First \in o.drops
    /\ o.at \in {"save", "open", "verify", "burn", "decrypt"} => salts = 1
    /\ o.at # "create"

TabSeeded(t) ==
    /\ Seeded(record[t]) /\ (key[t] # 0 => key[t] = 1 /\ salts = 1)
    /\ secrets[t] # Locked => First \in secrets[t]
    /\ OpSeeded(op[t]) /\ OpSeeded(sync[t])

SeedInv ==
    salts <= 1 /\ First \notin gone =>
      /\ salts = 0 => primary /\ store = NoRecord
      /\ salts = 1 => store # NoRecord
      /\ Seeded(store)
      /\ \A t \in Tabs : TabSeeded(t)

Others(t) ==
    \A u \in Tabs \ {t} : /\ record'[u] = record[u] /\ key'[u] = key[u] /\ secrets'[u] = secrets[u]
                          /\ op'[u] = op[u] /\ sync'[u] = sync[u]

LEMMA IdleSeeded == OpSeeded(Idle) /\ Idle.at = "idle"
  BY DEF OpSeeded, Idle

LEMMA SeedInit == Init => SeedInv
<1> SUFFICES ASSUME Init PROVE SeedInv
  OBVIOUS
<1>1. CASE store = NoRecord /\ salts = 0 /\ primary
  <2>1. \A t \in Tabs : TabSeeded(t)
    BY <1>1, IdleSeeded DEF Init, TabSeeded, Seeded
  <2> QED  BY <1>1, <2>1 DEF SeedInv, Seeded
<1>2. CASE store = FreshRecord(1, 1, First) /\ salts = 1
  <2>1. store \in Record
    BY <1>2, FreshIsRecord, FirstAssumption, BoundsAssumption
  <2>2. Seeded(store) /\ store # NoRecord
    BY <1>2, <2>1, RecordFacts DEF Seeded, FreshRecord, Listed
  <2>3. \A t \in Tabs : TabSeeded(t)
    BY <2>2, IdleSeeded DEF Init, TabSeeded
  <2> QED  BY <1>2, <2>2, <2>3 DEF SeedInv
<1> QED  BY <1>1, <1>2 DEF Init

(* A step of one tab that leaves the store alone.                          *)
LEMMA SeedTab ==
    ASSUME SeedInv, NEW t \in Tabs, Others(t), UNCHANGED <<store, salts, gone>>,
           salts <= 1 /\ First \notin gone => (salts = 1 \/ primary' = primary) /\ TabSeeded(t)'
    PROVE  SeedInv'
<1> SUFFICES ASSUME salts <= 1, First \notin gone PROVE SeedInv'
  BY DEF SeedInv
<1>1. \A u \in Tabs : TabSeeded(u)'
  <2> TAKE u \in Tabs
  <2>1. CASE u = t
    BY <2>1
  <2>2. CASE u # t
    BY <2>2 DEF Others, SeedInv, TabSeeded, OpSeeded, Seeded
  <2> QED  BY <2>1, <2>2
<1> QED  BY <1>1 DEF SeedInv, Seeded

(* What a tab of the invariant has.                                        *)
LEMMA SeedFacts ==
    ASSUME SeedInv, salts <= 1, First \notin gone, NEW t \in Tabs
    PROVE  TabSeeded(t) /\ Seeded(store) /\ (salts = 0 => primary /\ store = NoRecord) /\ (salts = 1 => store # NoRecord)
  BY DEF SeedInv

LEMMA SeedBegin ==
    ASSUME Typed, SeedInv, NEW t \in Tabs, NEW w \in Wallets,
           AddWallet(t, w) \/ SetReceiveIndex(t, w) \/ RemoveWallet(t, w)
    PROVE  SeedInv'
<1>1. PICK index, m, drops : Begin(t, index, m, drops)
  BY DEF AddWallet, SetReceiveIndex, RemoveWallet
<1>2. Unlocked(t) /\ record[t] \in Record /\ secrets[t] # Locked
  BY DEF AddWallet, SetReceiveIndex, RemoveWallet, Unlocked, Typed, TypeOK
<1>3. PICK i, n, d : /\ Begin(t, i, n, d)
                     /\ First \in Listed(record[t]) /\ First \in secrets[t]
                           => (First \in DOMAIN i /\ First \in n) \/ First \in d
  <2>1. CASE AddWallet(t, w)
    BY <2>1 DEF AddWallet
  <2>2. CASE RemoveWallet(t, w)
    BY <2>2 DEF RemoveWallet
  <2>3. CASE SetReceiveIndex(t, w)
    <3>1. PICK k \in 0 .. MaxIndex : Begin(t, [record[t].index EXCEPT ![w] = k], secrets[t], {})
      BY <2>3 DEF SetReceiveIndex
    <3>2. DOMAIN [record[t].index EXCEPT ![w] = k] = Listed(record[t])
      BY <1>2, RecordFacts DEF Listed
    <3> QED  BY <3>1, <3>2
  <2> QED  BY <2>1, <2>2, <2>3
<1>4. PICK rec : rec = [rev |-> record[t].rev + 1, salt |-> record[t].salt, under |-> key[t], index |-> i, secrets |-> n]
  OBVIOUS
<1>5. PICK o : o = [at |-> "save", base |-> record[t].rev, drops |-> d, with |-> 0, rec |-> rec]
  OBVIOUS
<1>6. op' = [op EXCEPT ![t] = o] /\ UNCHANGED <<disk, history, record, legacy, key, secrets, sync, heard>>
  BY <1>3, <1>4, <1>5 DEF Begin
<1>7. Others(t) /\ op'[t] = o
  BY <1>6 DEF Others, Typed, TypeOK
<1>8. rec \in Record
  BY <1>1, <1>5, <1>7, MutationTyped DEF Typed, Shape
<1>9. ASSUME salts <= 1, First \notin gone PROVE TabSeeded(t)'
  <2>1. TabSeeded(t)
    BY <1>9, SeedFacts
  <2>2. Seeded(record[t]) /\ key[t] = 1 /\ salts = 1 /\ First \in secrets[t] /\ record[t] # NoRecord
    BY <1>2, <2>1 DEF TabSeeded, Unlocked
  <2>3. Seeded(rec) \/ First \in d
    BY <1>3, <1>4, <1>8, <2>2, RecordFacts DEF Seeded, Listed
  <2>4. OpSeeded(o)'
    BY <1>5, <1>6, <2>2, <2>3 DEF OpSeeded, Seeded, history
  <2> QED  BY <1>6, <1>7, <2>1, <2>4 DEF TabSeeded, OpSeeded, Seeded, history
<1> QED  BY <1>6, <1>7, <1>9, SeedTab DEF disk, history

(* What a tab does when it reads the record, and when a decryption ends.   *)
Untouched(t, f, g) == \A u \in Tabs \ {t} : g[u] = f[u]

LEMMA SeedHold ==
    ASSUME Typed, NEW t \in Tabs, NEW k, NEW s, Hold(t, k, s)
    PROVE  key'[t] = k /\ secrets'[t] = s /\ Untouched(t, key, key') /\ Untouched(t, secrets, secrets')
  BY DEF Typed, TypeOK, Hold, Untouched

LEMMA SeedTake ==
    ASSUME Typed, NEW t \in Tabs, NEW r, NEW old, Take(t, r, old)
    PROVE  record'[t] = r /\ Untouched(t, record, record')
  BY DEF Typed, TypeOK, Take, Untouched

LEMMA SeedLoad ==
    ASSUME Typed, NEW t \in Tabs, LoadIn(t)
    PROVE  /\ record'[t] = store /\ Untouched(t, record, record')
           /\ Untouched(t, key, key') /\ Untouched(t, secrets, secrets')
           /\ \/ key'[t] = key[t] /\ secrets'[t] = secrets[t]
              \/ key'[t] = 0 /\ secrets'[t] = Locked
<1>1. Take(t, store, primary)
  BY DEF LoadIn
<1>2. CASE key[t] # 0 /\ store = NoRecord
  BY <1>1, <1>2, SeedTake, SeedHold DEF LoadIn, DropKey
<1>3. CASE ~(key[t] # 0 /\ store = NoRecord)
  <2>1. UNCHANGED <<key, secrets>>
    BY <1>3 DEF LoadIn
  <2> QED  BY <1>1, <2>1, SeedTake DEF Untouched
<1> QED  BY <1>2, <1>3

LEMMA SeedReading ==
    ASSUME NEW t \in Tabs, NEW o, o = Decrypting(t), salts = 1 \/ key[t] = 0, Seeded(store)
    PROVE  OpSeeded(o)
<1>1. CASE key[t] # 0 /\ store # NoRecord
  <2>1. o.at = "decrypt" /\ o.rec = store
    BY <1>1 DEF Decrypting, Idle
  <2> QED  BY <1>1, <2>1 DEF OpSeeded
<1>2. CASE ~(key[t] # 0 /\ store # NoRecord)
  BY <1>2, IdleSeeded DEF Decrypting
<1> QED  BY <1>1, <1>2

LEMMA SeedDecrypted ==
    ASSUME Typed, NEW t \in Tabs, NEW o, DecryptedIn(t, o)
    PROVE  /\ Untouched(t, key, key') /\ Untouched(t, secrets, secrets')
           /\ \/ key'[t] = key[t] /\ secrets'[t] = o.rec.secrets
              \/ key'[t] = 0 /\ secrets'[t] = Locked
<1>1. CASE o.rec.under = o.with
  BY <1>1 DEF DecryptedIn, Typed, TypeOK, Untouched
<1>2. CASE o.rec.under # o.with
  BY <1>2, SeedHold DEF DecryptedIn, DropKey
<1> QED  BY <1>1, <1>2

LEMMA SeedOp ==
    ASSUME Typed, NEW t \in Tabs, NEW o, op' = [op EXCEPT ![t] = o]
    PROVE  op'[t] = o /\ Untouched(t, op, op')
  BY DEF Typed, TypeOK, Untouched

LEMMA SeedSync ==
    ASSUME Typed, NEW t \in Tabs, NEW o, sync' = [sync EXCEPT ![t] = o]
    PROVE  sync'[t] = o /\ Untouched(t, sync, sync')
  BY DEF Typed, TypeOK, Untouched

LEMMA SeedRefresh ==
    ASSUME Typed, SeedInv, NEW t \in Tabs, Refresh(t)
    PROVE  SeedInv'
<1>1. LoadIn(t) /\ UNCHANGED <<disk, history, op>>
  BY DEF Refresh
<1>2. PICK o : o = Decrypting(t)
  OBVIOUS
<1>3. sync'[t] = o /\ Untouched(t, sync, sync')
  BY <1>2, SeedSync DEF Refresh
<1>4. Others(t)
  BY <1>1, <1>3, SeedLoad DEF Others, Untouched
<1>5. ASSUME salts <= 1, First \notin gone PROVE TabSeeded(t)'
  <2>1. TabSeeded(t) /\ Seeded(store)
    BY <1>5, SeedFacts
  <2>2. OpSeeded(o)
    BY <1>2, <2>1, SeedReading DEF TabSeeded
  <2> QED  BY <1>1, <1>3, <2>1, <2>2, SeedLoad DEF TabSeeded, OpSeeded, Seeded, history
<1> QED  BY <1>1, <1>4, <1>5, SeedTab DEF disk, history

LEMMA SeedReload ==
    ASSUME Typed, SeedInv, NEW t \in Tabs, Reload(t)
    PROVE  SeedInv'
<1>1. LoadIn(t) /\ UNCHANGED <<disk, history, sync>>
  BY DEF Reload
<1>2. PICK o : o = Decrypting(t)
  OBVIOUS
<1>3. op'[t] = o /\ Untouched(t, op, op')
  BY <1>2, SeedOp DEF Reload
<1>4. Others(t)
  BY <1>1, <1>3, SeedLoad DEF Others, Untouched
<1>5. ASSUME salts <= 1, First \notin gone PROVE TabSeeded(t)'
  <2>1. TabSeeded(t) /\ Seeded(store)
    BY <1>5, SeedFacts
  <2>2. OpSeeded(o)
    BY <1>2, <2>1, SeedReading DEF TabSeeded
  <2> QED  BY <1>1, <1>3, <2>1, <2>2, SeedLoad DEF TabSeeded, OpSeeded, Seeded, history
<1> QED  BY <1>1, <1>4, <1>5, SeedTab DEF disk, history

LEMMA SeedDecrypts ==
    ASSUME Typed, SeedInv, NEW t \in Tabs, Refreshed(t) \/ Reloaded(t)
    PROVE  SeedInv'
<1>1. PICK o : /\ o = sync[t] \/ o = op[t]
               /\ o.at = "decrypt" /\ DecryptedIn(t, o)
  BY DEF Refreshed, Reloaded
<1>2. UNCHANGED <<disk, history, record>>
  BY DEF Refreshed, Reloaded
<1>3. /\ Untouched(t, op, op') /\ Untouched(t, sync, sync')
      /\ (op'[t] = Idle \/ op'[t] = op[t]) /\ (sync'[t] = Idle \/ sync'[t] = sync[t])
  <2>1. CASE Refreshed(t)
    BY <2>1, SeedSync DEF Refreshed, Untouched
  <2>2. CASE Reloaded(t)
    BY <2>2, SeedOp DEF Reloaded, Untouched
  <2> QED  BY <2>1, <2>2
<1>4. Others(t)
  BY <1>1, <1>2, <1>3, SeedDecrypted DEF Others, Untouched
<1>5. ASSUME salts <= 1, First \notin gone PROVE TabSeeded(t)'
  <2>1. TabSeeded(t)
    BY <1>5, SeedFacts
  <2>2. Seeded(o.rec) /\ o.rec # NoRecord
    <3>1. Seeded(o.rec)
      BY <1>1, <2>1 DEF TabSeeded, OpSeeded
    <3>2. o.rec \in Record
      BY <1>1 DEF Typed, Shape
    <3> QED  BY <3>1, <3>2, NoRecordAssumption
  <2>3. key'[t] # 0 => key'[t] = 1 /\ salts' = 1
    BY <1>1, <1>2, <2>1, SeedDecrypted DEF TabSeeded, history
  <2>4. secrets'[t] # Locked => First \in secrets'[t]
    BY <1>1, <2>2, SeedDecrypted DEF Seeded
  <2>5. OpSeeded(op[t])' /\ OpSeeded(sync[t])'
    <3>1. UNCHANGED salts /\ OpSeeded(op[t]) /\ OpSeeded(sync[t])
      BY <1>2, <2>1 DEF history, TabSeeded
    <3>2. OpSeeded(op[t])'
      <4>1. CASE op'[t] = op[t]
        BY <3>1, <4>1 DEF OpSeeded, Seeded
      <4>2. CASE op'[t] = Idle
        BY <4>2, IdleSeeded DEF OpSeeded
      <4> QED  BY <1>3, <4>1, <4>2
    <3>3. OpSeeded(sync[t])'
      <4>1. CASE sync'[t] = sync[t]
        BY <3>1, <4>1 DEF OpSeeded, Seeded
      <4>2. CASE sync'[t] = Idle
        BY <4>2, IdleSeeded DEF OpSeeded
      <4> QED  BY <1>3, <4>1, <4>2
    <3> QED  BY <3>2, <3>3
  <2> QED  BY <1>2, <2>1, <2>3, <2>4, <2>5 DEF TabSeeded, Seeded
<1> QED  BY <1>2, <1>4, <1>5, SeedTab DEF disk, history

(* A step that changes what the tab is doing and no more: what it turns    *)
(* to, by its place.                                                       *)
LEMMA SeedTurn ==
    ASSUME Typed, SeedInv, NEW t \in Tabs, NEW o, op'[t] = o, Untouched(t, op, op'),
           UNCHANGED <<store, history, key, secrets, sync>>,
           Untouched(t, record, record'), salts = 1 \/ primary' = primary,
           salts <= 1 /\ First \notin gone =>
             (record'[t] = record[t] \/ Seeded(record[t])') /\ OpSeeded(o)
    PROVE  SeedInv'
<1>1. Others(t)
  BY DEF Others, Untouched
<1>2. ASSUME salts <= 1, First \notin gone PROVE TabSeeded(t)'
  <2>1. TabSeeded(t) /\ OpSeeded(o)
    BY <1>2, SeedFacts
  <2>2. OpSeeded(op[t])' /\ OpSeeded(sync[t])'
    BY <2>1 DEF TabSeeded, OpSeeded, Seeded, history
  <2>3. Seeded(record[t])'
    BY <1>2, <2>1 DEF TabSeeded, Seeded
  <2> QED  BY <2>1, <2>2, <2>3 DEF TabSeeded, history
<1> QED  BY <1>1, <1>2, SeedTab DEF history

LEMMA SeedConflict ==
    ASSUME Typed, SeedInv, NEW t \in Tabs, Conflict(t)
    PROVE  SeedInv'
<1>1. PICK o : o = [Idle EXCEPT !.at = "reload"]
  OBVIOUS
<1>2. op' = [op EXCEPT ![t] = o]
  BY <1>1 DEF Conflict
<1>3. OpSeeded(o)
  BY <1>1 DEF OpSeeded, Idle
<1> QED  BY <1>2, <1>3, SeedOp, SeedTurn DEF Conflict, Untouched, disk

LEMMA SeedRemoveLast ==
    ASSUME Typed, SeedInv, NEW t \in Tabs, NEW w \in Wallets, RemoveLast(t, w)
    PROVE  SeedInv'
<1>1. PICK o : o = [Idle EXCEPT !.at = "drop", !.drops = {w}, !.base = record[t].rev]
  OBVIOUS
<1>2. op' = [op EXCEPT ![t] = o]
  BY <1>1 DEF RemoveLast
<1>3. salts <= 1 /\ First \notin gone => OpSeeded(o)
  <2> SUFFICES ASSUME salts <= 1, First \notin gone PROVE OpSeeded(o)
    OBVIOUS
  <2>1. Seeded(record[t]) /\ record[t] # NoRecord /\ Listed(record[t]) = {w}
    BY SeedFacts DEF TabSeeded, RemoveLast, Unlocked
  <2>2. w = First
    BY <2>1 DEF Seeded
  <2> QED  BY <1>1, <2>2 DEF OpSeeded, Idle
<1> QED  BY <1>2, <1>3, SeedOp, SeedTurn DEF RemoveLast, Untouched, disk

LEMMA SeedCreate ==
    ASSUME Typed, SeedInv, NEW t \in Tabs, NEW w \in Wallets, CreateVault(t, w)
    PROVE  SeedInv'
<1>1. PICK o : op'[t] = o /\ Untouched(t, op, op') /\ ((store = NoRecord /\ ~primary) \/ o = op[t])
  BY DEF CreateVault, Typed, TypeOK, Untouched
<1>2. Take(t, store, primary) /\ UNCHANGED <<disk, history, key, secrets, sync>>
  BY DEF CreateVault
<1>3. salts <= 1 /\ First \notin gone => Seeded(record[t])' /\ OpSeeded(o)
  BY <1>1, <1>2, SeedTake, SeedFacts DEF TabSeeded, Seeded, Typed, TypeOK
<1> QED  BY <1>1, <1>2, <1>3, SeedTake, SeedTurn DEF disk

LEMMA SeedUnlock ==
    ASSUME Typed, SeedInv, NEW t \in Tabs, Unlock(t)
    PROVE  SeedInv'
<1>1. PICK o : o = IF store # NoRecord THEN [Idle EXCEPT !.at = "open", !.rec = store]
                   ELSE [Idle EXCEPT !.at = "migrate"]
  OBVIOUS
<1>2. op' = [op EXCEPT ![t] = o] /\ Take(t, store, primary)
      /\ UNCHANGED <<disk, history, key, secrets, sync>>
  BY <1>1 DEF Unlock
<1>3. ASSUME salts <= 1, First \notin gone PROVE Seeded(record[t])' /\ OpSeeded(o)
  <2>1. Seeded(store) /\ (store # NoRecord => salts = 1)
    BY <1>3, SeedFacts DEF Typed, TypeOK
  <2>2. Seeded(record[t])'
    BY <1>2, <2>1, SeedTake DEF Seeded
  <2>3. CASE store # NoRecord
    <3>1. o = [Idle EXCEPT !.at = "open", !.rec = store]
      BY <1>1, <2>3
    <3>2. o.at = "open" /\ o.rec = store
      BY <3>1 DEF Idle
    <3> QED  BY <2>1, <2>3, <2>2, <3>2 DEF OpSeeded
  <2>4. CASE store = NoRecord
    <3>1. o = [Idle EXCEPT !.at = "migrate"]
      BY <1>1, <2>4
    <3>2. o.at = "migrate"
      BY <3>1 DEF Idle
    <3> QED  BY <2>2, <3>2 DEF OpSeeded
  <2> QED  BY <2>3, <2>4
<1> QED  BY <1>2, <1>3, SeedOp, SeedTake, SeedTurn DEF disk

LEMMA SeedOpen ==
    ASSUME Typed, SeedInv, NEW t \in Tabs, Open(t)
    PROVE  SeedInv'
<1>1. PICK o : o = op[t]
  OBVIOUS
<1>2. PICK n : op' = [op EXCEPT ![t] = n] /\ n.at \in {"burn", "migrate", "idle"}
               /\ (n.at = "burn" => Opens(o.rec))
  <2>1. PICK b, m : b = [Idle EXCEPT !.at = "burn"] /\ m = [Idle EXCEPT !.at = "migrate"]
    OBVIOUS
  <2>2. b.at = "burn" /\ m.at = "migrate" /\ Idle.at = "idle"
    BY <2>1 DEF Idle
  <2>3. CASE Opens(o.rec)
    BY <1>1, <2>1, <2>2, <2>3 DEF Open
  <2>4. CASE ~Opens(o.rec)
    BY <1>1, <2>1, <2>2, <2>4 DEF Open
  <2> QED  BY <2>3, <2>4
<1>3. UNCHANGED <<disk, history, record, sync>> /\ o.at = "open"
  BY <1>1 DEF Open
<1>4. \/ UNCHANGED <<key, secrets>>
      \/ Hold(t, o.rec.salt, o.rec.secrets)
  BY <1>1 DEF Open
<1>5. Others(t)
  BY <1>2, <1>3, <1>4, SeedOp, SeedHold DEF Others, Untouched
<1>6. ASSUME salts <= 1, First \notin gone PROVE TabSeeded(t)'
  <2>1. TabSeeded(t) /\ OpSeeded(o) /\ salts = 1 /\ Seeded(o.rec)
    BY <1>1, <1>3, <1>6, SeedFacts DEF TabSeeded, OpSeeded
  <2>2. o.rec # NoRecord
    BY <1>1, <1>3, NoRecordAssumption DEF Typed, Shape
  <2>3. Seeded(record[t])' /\ OpSeeded(sync[t])' /\ salts' = 1
    BY <1>3, <2>1 DEF TabSeeded, OpSeeded, Seeded, history
  <2>4. OpSeeded(op[t])'
    BY <1>2, <1>3, <2>3, SeedOp DEF OpSeeded
  <2>5. (key'[t] # 0 => key'[t] = 1) /\ (secrets'[t] # Locked => First \in secrets'[t])
    BY <1>4, <2>1, <2>2, SeedHold DEF TabSeeded, Seeded
  <2> QED  BY <2>3, <2>4, <2>5 DEF TabSeeded
<1> QED  BY <1>3, <1>5, <1>6, SeedTab DEF disk, history

LEMMA SeedTurns ==
    ASSUME Typed, SeedInv, NEW t \in Tabs, Refuse(t) \/ Burn(t) \/ Migrate(t)
    PROVE  SeedInv'
<1>1. PICK n : op' = [op EXCEPT ![t] = n] /\ n.at \in {"idle", "replace"}
  <2>1. PICK m : m = [Idle EXCEPT !.at = "replace", !.base = Rev(record[t])]
    OBVIOUS
  <2>2. m.at = "replace" /\ Idle.at = "idle"
    BY <2>1 DEF Idle
  <2> QED  BY <2>1, <2>2 DEF Refuse, Burn, Migrate
<1>2. OpSeeded(n)
  BY <1>1 DEF OpSeeded
<1>3. UNCHANGED <<store, history, record, key, secrets, sync>>
  BY DEF Refuse, Burn, Migrate, disk
<1>4. CASE First \in gone \/ salts > 1
  BY <1>3, <1>4 DEF SeedInv, history, Typed, TypeOK
<1>5. CASE First \notin gone /\ salts <= 1
  <2>1. salts = 1 \/ primary' = primary
    <3>1. TabSeeded(t)
      BY <1>5, SeedFacts
    <3> QED  BY <3>1 DEF Refuse, Burn, Migrate, disk, TabSeeded, OpSeeded
  <2> QED  BY <1>1, <1>2, <1>3, <2>1, SeedOp, SeedTurn DEF Untouched
<1>6. salts \in Nat
  BY BoundsAssumption DEF Typed, TypeOK
<1> QED  BY <1>4, <1>5, <1>6

LEMMA SeedMigrated ==
    ASSUME Typed, SeedInv, NEW t \in Tabs, Migrated(t)
    PROVE  SeedInv'
<1>1. PICK o : o = op[t]
  OBVIOUS
<1>2. /\ Take(t, o.rec, FALSE) /\ Hold(t, o.rec.salt, o.rec.secrets) /\ o.at = "verify"
      /\ op' = [op EXCEPT ![t] = Idle] /\ UNCHANGED <<store, history, sync>>
  BY <1>1 DEF Migrated
<1>3. Others(t)
  <2>1. PICK r, k, s : r = o.rec /\ k = o.rec.salt /\ s = o.rec.secrets
    OBVIOUS
  <2>2. Take(t, r, FALSE) /\ Hold(t, k, s)
    BY <1>2, <2>1
  <2>3. Untouched(t, record, record') /\ Untouched(t, key, key') /\ Untouched(t, secrets, secrets')
    BY <2>2, SeedHold, SeedTake
  <2> QED  BY <1>2, <2>3, SeedOp DEF Others, Untouched
<1>4. ASSUME salts <= 1, First \notin gone PROVE TabSeeded(t)' /\ salts = 1
  <2>1. TabSeeded(t) /\ OpSeeded(o) /\ salts = 1 /\ Seeded(o.rec)
    BY <1>1, <1>2, <1>4, SeedFacts DEF TabSeeded, OpSeeded
  <2>2. o.rec # NoRecord
    BY <1>1, <1>2, NoRecordAssumption DEF Typed, Shape
  <2>3. Seeded(record[t])' /\ OpSeeded(sync[t])' /\ salts' = 1
    BY <1>2, <2>1, SeedTake DEF TabSeeded, OpSeeded, Seeded, history
  <2>4. OpSeeded(op[t])'
    BY <1>2, IdleSeeded, SeedOp DEF OpSeeded
  <2>5. (key'[t] # 0 => key'[t] = 1) /\ (secrets'[t] # Locked => First \in secrets'[t])
    BY <1>2, <2>1, <2>2, SeedHold DEF Seeded
  <2> QED  BY <2>1, <2>3, <2>4, <2>5 DEF TabSeeded
<1> QED  BY <1>2, <1>3, <1>4, SeedTab DEF history

LEMMA SeedLock ==
    ASSUME Typed, SeedInv, NEW t \in Tabs, Lock(t)
    PROVE  SeedInv'
<1>1. UNCHANGED <<disk, history, record, op, sync>>
  BY DEF Lock
<1>2. /\ key'[t] = 0 /\ secrets'[t] = Locked
      /\ Untouched(t, key, key') /\ Untouched(t, secrets, secrets')
  BY SeedHold DEF Lock, DropKey
<1>3. Others(t)
  BY <1>1, <1>2 DEF Others, Untouched
<1>4. salts <= 1 /\ First \notin gone => TabSeeded(t)'
  BY <1>1, <1>2, SeedFacts DEF TabSeeded, OpSeeded, Seeded, history
<1> QED  BY <1>1, <1>3, <1>4, SeedTab DEF disk, history

LEMMA SeedReopen ==
    ASSUME Typed, SeedInv, NEW t \in Tabs, Reopen(t)
    PROVE  SeedInv'
<1>1. UNCHANGED <<disk, history>> /\ record'[t] = store /\ Untouched(t, record, record')
  BY SeedTake DEF Reopen
<1>2. /\ key'[t] = 0 /\ secrets'[t] = Locked
      /\ Untouched(t, key, key') /\ Untouched(t, secrets, secrets')
  BY SeedHold DEF Reopen, DropKey
<1>3. /\ op'[t] = Idle /\ Untouched(t, op, op')
      /\ sync'[t] = Idle /\ Untouched(t, sync, sync')
  BY SeedOp, SeedSync DEF Reopen
<1>4. Others(t)
  BY <1>1, <1>2, <1>3 DEF Others, Untouched
<1>5. salts <= 1 /\ First \notin gone => TabSeeded(t)'
  BY <1>1, <1>2, <1>3, SeedFacts, IdleSeeded DEF TabSeeded, OpSeeded, Seeded
<1> QED  BY <1>1, <1>4, <1>5, SeedTab DEF disk, history

(* The steps that write the store.                                         *)
LEMMA SeedErase ==
    ASSUME Typed, NEW t \in Tabs, Erase(t)
    PROVE  SeedInv'
  BY FirstAssumption DEF Erase, SeedInv

LEMMA SeedDrop ==
    ASSUME Typed, SeedInv, NEW t \in Tabs, Drop(t)
    PROVE  SeedInv'
<1>1. CASE Conflict(t)
  BY <1>1, SeedConflict
<1>2. CASE Rev(store) = op[t].base
  <2>1. gone' = gone \union op[t].drops /\ salts' = salts /\ op[t].at = "drop"
    BY <1>2 DEF Drop
  <2>2. salts <= 1 /\ First \notin gone => First \in op[t].drops
    BY <2>1, SeedFacts DEF TabSeeded, OpSeeded
  <2> QED  BY <2>1, <2>2 DEF SeedInv
<1> QED  BY <1>1, <1>2 DEF Drop

LEMMA SeedSave ==
    ASSUME Typed, SeedInv, NEW t \in Tabs, Save(t)
    PROVE  SeedInv'
<1>1. CASE Conflict(t)
  BY <1>1, SeedConflict
<1>2. CASE Rev(store) = op[t].base
  <2>1. PICK r : r = op[t].rec
    OBVIOUS
  <2>2. /\ Write(t, r) /\ op[t].at = "save" /\ op' = [op EXCEPT ![t] = Idle]
        /\ gone' = gone \union op[t].drops /\ UNCHANGED <<key, sync, salts>>
    BY <1>2, <2>1 DEF Save
  <2>3. SUFFICES ASSUME salts <= 1, First \notin gone, First \notin op[t].drops
                 PROVE  SeedInv'
    BY <2>2 DEF SeedInv
  <2>4. TabSeeded(t) /\ salts = 1 /\ Seeded(r) /\ r # NoRecord
    BY <2>1, <2>2, <2>3, SeedFacts, NoRecordAssumption DEF TabSeeded, OpSeeded, Typed, Shape
  <2>5. /\ record'[t] = r /\ Untouched(t, record, record') /\ store' = r
        /\ secrets'[t] = r.secrets /\ Untouched(t, secrets, secrets')
    BY <2>2 DEF Write, Untouched, Typed, TypeOK
  <2>6. op'[t] = Idle /\ Untouched(t, op, op')
    BY <2>2, SeedOp
  <2>7. ASSUME NEW u \in Tabs PROVE TabSeeded(u)'
    <3>1. TabSeeded(u)
      BY <2>3, SeedFacts
    <3>2. CASE u = t
      BY <2>2, <2>4, <2>5, <2>6, <3>1, <3>2, IdleSeeded DEF TabSeeded, OpSeeded, Seeded
    <3>3. CASE u # t
      BY <2>2, <2>5, <2>6, <3>1, <3>3 DEF TabSeeded, OpSeeded, Seeded, Untouched
    <3> QED  BY <3>2, <3>3
  <2> QED  BY <2>2, <2>4, <2>5, <2>7 DEF SeedInv, Seeded
<1> QED  BY <1>1, <1>2 DEF Save

LEMMA SeedReplace ==
    ASSUME Typed, SeedInv, NEW t \in Tabs, Replace(t)
    PROVE  SeedInv'
<1>0. salts \in Nat /\ op[t].at = "replace"
  BY BoundsAssumption DEF Typed, TypeOK, Replace
<1>1. CASE Rev(store) # op[t].base
  <2>1. op' = [op EXCEPT ![t] = Idle]
        /\ UNCHANGED <<store, history, primary, record, key, secrets, sync>>
    BY <1>1 DEF Replace, history
  <2> QED  BY <2>1, IdleSeeded, SeedOp, SeedTurn DEF Untouched
<1>2. CASE Rev(store) = op[t].base
  <2>1. PICK r : r = FreshRecord(op[t].base + 1, salts + 1, First)
    OBVIOUS
  <2>2. PICK o : o = [Idle EXCEPT !.at = "verify", !.rec = r]
    OBVIOUS
  <2>3. /\ salts < MaxSalts /\ salts' = salts + 1 /\ store' = r
        /\ op' = [op EXCEPT ![t] = o]
        /\ UNCHANGED <<primary, record, key, secrets, sync, gone>>
    BY <1>2, <2>1, <2>2 DEF Replace
  <2>4. SUFFICES ASSUME salts = 0, First \notin gone PROVE SeedInv'
    BY <1>0, <2>3 DEF SeedInv
  <2>5. r \in Record
    <3>1. op[t].base + 1 \in 1 .. MaxRev
      BY <1>0, BoundsAssumption DEF Typed, TypeOK, Shape, Op
    <3>2. salts + 1 \in 1 .. MaxSalts
      BY <2>3, BoundsAssumption DEF Typed, TypeOK
    <3> QED  BY <2>1, <3>1, <3>2, FreshIsRecord, FirstAssumption
  <2>6. Seeded(r) /\ r # NoRecord
    <3>1. r.salt = 1 /\ r.under = 1 /\ r.secrets = {First} /\ DOMAIN r.index = {First}
      BY <2>1, <2>4 DEF FreshRecord
    <3>2. r # NoRecord
      BY <2>5, NoRecordAssumption
    <3> QED  BY <3>1, <3>2 DEF Seeded, Listed
  <2>7. o.at = "verify" /\ o.rec = r
    BY <2>2 DEF Idle
  <2>8. op'[t] = o /\ Untouched(t, op, op')
    BY <2>3, SeedOp
  <2>9. ASSUME NEW u \in Tabs PROVE TabSeeded(u)'
    <3>1. TabSeeded(u)
      BY <2>4, SeedFacts
    <3>2. OpSeeded(sync[u])'
      BY <2>3, <2>4, <3>1 DEF TabSeeded, OpSeeded
    <3>3. OpSeeded(op[u])'
      <4>1. CASE u = t
        BY <2>3, <2>4, <2>6, <2>7, <2>8, <4>1 DEF OpSeeded, Seeded
      <4>2. CASE u # t
        BY <2>3, <2>4, <2>8, <3>1, <4>2 DEF TabSeeded, OpSeeded, Untouched
      <4> QED  BY <4>1, <4>2
    <3> QED  BY <2>3, <2>4, <3>1, <3>2, <3>3 DEF TabSeeded
  <2> QED  BY <2>3, <2>4, <2>6, <2>9 DEF SeedInv
<1> QED  BY <1>1, <1>2

LEMMA SeedCreated ==
    ASSUME Typed, SeedInv, NEW t \in Tabs, Created(t)
    PROVE  SeedInv'
<1>1. op[t].at = "create" /\ gone' = gone /\ (salts' = salts \/ salts' = salts + 1)
  BY DEF Created
<1>2. salts \in Nat
  BY BoundsAssumption DEF Typed, TypeOK
<1>3. ~(salts <= 1 /\ First \notin gone)
  BY <1>1, SeedFacts DEF TabSeeded, OpSeeded
<1> QED  BY <1>1, <1>2, <1>3 DEF SeedInv

LEMMA SeedNext == Typed /\ SeedInv /\ [Next]_vars => SeedInv'
<1> SUFFICES ASSUME Typed, SeedInv, [Next]_vars PROVE SeedInv'
  OBVIOUS
<1>1. CASE UNCHANGED vars
  BY <1>1 DEF vars, SeedInv, TabSeeded, OpSeeded, Seeded
<1>2. ASSUME NEW t \in Tabs, NEW w \in Wallets,
             AddWallet(t, w) \/ SetReceiveIndex(t, w) \/ RemoveWallet(t, w)
             \/ RemoveLast(t, w) \/ CreateVault(t, w)
      PROVE  SeedInv'
  BY <1>2, SeedBegin, SeedRemoveLast, SeedCreate
<1>3. ASSUME NEW t \in Tabs,
             Refresh(t) \/ Refreshed(t) \/ Reload(t) \/ Reloaded(t) \/ Save(t) \/ Drop(t) \/ Created(t)
      PROVE  SeedInv'
  BY <1>3, SeedRefresh, SeedDecrypts, SeedReload, SeedSave, SeedDrop, SeedCreated
<1>4. ASSUME NEW t \in Tabs,
             Unlock(t) \/ Open(t) \/ Refuse(t) \/ Burn(t) \/ Migrate(t) \/ Replace(t) \/ Migrated(t)
             \/ Lock(t) \/ Erase(t) \/ Reopen(t)
      PROVE  SeedInv'
  BY <1>4, SeedUnlock, SeedOpen, SeedTurns, SeedReplace, SeedMigrated, SeedLock, SeedErase, SeedReopen
<1> QED  BY <1>1, <1>2, <1>3, <1>4 DEF Next

(* Whatever tabs do and wherever they die, as long as the vault is written *)
(* under a fresh salt only once and the first wallet is not removed, its   *)
(* mnemonic is in the v1 record or in a stored record that opens.          *)
THEOREM FirstSeedSurvives == Spec => []SeedSurvives
<1>1. SeedInv /\ Typed => SeedSurvives
  BY BoundsAssumption DEF SeedInv, SeedSurvives, Seeded, Opens, Typed, TypeOK
<1>2. Init => Typed
  BY InitTyped
<1>3. Typed /\ [Next]_vars => Typed'
  BY NextTyped
<1> QED  BY <1>1, <1>2, <1>3, SeedInit, SeedNext, PTL DEF Spec
=============================================================================
