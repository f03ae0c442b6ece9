------------------------ MODULE TreasuryBatchProofs ------------------------
(***************************************************************************)
(* Theorems about TreasuryBatch.                                           *)
(*                                                                         *)
(* First for any set of tabs: type correctness, and RecordBacked, through  *)
(* the inductive invariant Backing (every copy of the record, stored or    *)
(* held by a tab, is backed, and each step of the loop knows what the      *)
(* steps before it made true).                                             *)
(*                                                                         *)
(* Then for one tab that runs the batch: the budget of funding             *)
(* transactions, and the refinement of TreasuryPromise. Both rest on       *)
(* SoloInv: the tab's copy of the items IS the stored array, the items     *)
(* before the current one are done, and the funding step starts from a     *)
(* record that does not say the item is funded. (With two tabs the first   *)
(* of these fails: a tab overwrites the array with its older copy.)        *)
(***************************************************************************)
EXTENDS TreasuryBatch, TLAPS

-----------------------------------------------------------------------------
(* Type correctness.                                                       *)

LEMMA InitType == Init => TypeOK
  BY NAssumption DEF Init, TypeOK, Items, ItemRecord, ItemStates, Fresh,
                     Between, Driving

(* The item a driving tab holds, and every record a step makes of it.      *)
LEMMA MineType ==
    ASSUME TypeOK, NEW t \in Tabs, pc[t] \in Driving
    PROVE  /\ cur[t] \in Items /\ Mine(t) \in ItemRecord
           /\ [Mine(t) EXCEPT !.walletId = TRUE] \in ItemRecord
           /\ [Mine(t) EXCEPT !.fundTxid = TRUE] \in ItemRecord
           /\ [Mine(t) EXCEPT !.positionTxid = TRUE] \in ItemRecord
           /\ \A st \in ItemStates : [Mine(t) EXCEPT !.state = st] \in ItemRecord
<1>1. cur[t] \in Items /\ Mine(t) \in ItemRecord
  BY DEF TypeOK, Mine
<1> QED  BY <1>1 DEF ItemRecord

(* saveItems: the stored array and the tab's copy both become the copy     *)
(* with one item replaced.                                                 *)
LEMMA PersistType ==
    ASSUME TypeOK, NEW t \in Tabs, NEW rec \in ItemRecord,
           NEW next \in Driving, cur[t] \in Items, Persist(t, rec, next)
    PROVE  /\ items' \in [Items -> ItemRecord]
           /\ copy' \in [Tabs -> [Items -> ItemRecord]]
           /\ pc' \in [Tabs -> Between \union Driving]
           /\ \A u \in Tabs : pc'[u] \in Driving => cur'[u] \in Items
           /\ UNCHANGED <<state, cur, sig>>
<1> DEFINE row == [copy[t] EXCEPT ![cur[t]] = rec]
<1>1. row \in [Items -> ItemRecord]
  BY DEF TypeOK
<1>2. items' = row /\ copy' = [copy EXCEPT ![t] = row]
  BY DEF Persist
<1> HIDE DEF row
<1>3. copy' \in [Tabs -> [Items -> ItemRecord]]
  BY <1>1, <1>2 DEF TypeOK
<1>4. pc' = [pc EXCEPT ![t] = next] /\ UNCHANGED <<state, cur, sig>>
  BY DEF Persist, Goto
<1> QED  BY <1>1, <1>2, <1>3, <1>4 DEF TypeOK

LEMMA PersistsType ==
    ASSUME TypeOK, NEW t \in Tabs,
           \/ SaveWallet(t) \/ MarkCreated(t) \/ SkipFunding(t) \/ FundAnswered(t)
           \/ MarkFunded(t) \/ AdoptPosition(t) \/ MintAnswered(t) \/ MarkMinted(t)
    PROVE  TypeOK'
<1> DEFINE Typed(rec, next) ==
             rec \in ItemRecord /\ next \in Driving /\ Persist(t, rec, next)
<1>1. /\ UNCHANGED <<meta, wallet, chain, index, cuts>>
      /\ cur[t] \in Items
      /\ \E rec, next : Typed(rec, next)
  <2>1. CASE SaveWallet(t)
    BY <2>1, MineType DEF SaveWallet, Driving, ItemStates
  <2>2. CASE MarkCreated(t)
    BY <2>2, MineType DEF MarkCreated, Driving, ItemStates
  <2>3. CASE SkipFunding(t)
    BY <2>3, MineType DEF SkipFunding, Driving, ItemStates
  <2>4. CASE FundAnswered(t)
    BY <2>4, MineType DEF FundAnswered, Driving, ItemStates
  <2>5. CASE MarkFunded(t)
    BY <2>5, MineType DEF MarkFunded, Driving, ItemStates
  <2>6. CASE AdoptPosition(t)
    BY <2>6, MineType DEF AdoptPosition, Driving, ItemStates
  <2>7. CASE MintAnswered(t)
    BY <2>7, MineType DEF MintAnswered, Driving, ItemStates
  <2>8. CASE MarkMinted(t)
    BY <2>8, MineType DEF MarkMinted, Driving, ItemStates
  <2> QED  BY <2>1, <2>2, <2>3, <2>4, <2>5, <2>6, <2>7, <2>8
<1>2. PICK rec, next : Typed(rec, next)
  BY <1>1
<1> QED  BY <1>1, <1>2, PersistType DEF TypeOK, chain, index

(* The steps that only move on and touch the vault, the registry or the    *)
(* chain.                                                                  *)
LEMMA DrivesType ==
    ASSUME TypeOK, NEW t \in Tabs,
           \/ CreateWallet(t) \/ HasWallet(t) \/ PutStub(t) \/ NeedFunding(t) \/ Fund(t)
           \/ WaitFunded(t) \/ NoPosition(t) \/ Mint(t) \/ WriteMeta(t)
    PROVE  TypeOK'
<1>1. cur[t] \in Items
  <2>1. CASE CreateWallet(t)  BY <2>1, MineType DEF CreateWallet, Driving
  <2>2. CASE HasWallet(t)  BY <2>2, MineType DEF HasWallet, Driving
  <2>3. CASE PutStub(t)  BY <2>3, MineType DEF PutStub, Driving
  <2>4. CASE NeedFunding(t)  BY <2>4, MineType DEF NeedFunding, Driving
  <2>5. CASE Fund(t)  BY <2>5, MineType DEF Fund, Driving
  <2>6. CASE WaitFunded(t)  BY <2>6, MineType DEF WaitFunded, Driving
  <2>7. CASE NoPosition(t)  BY <2>7, MineType DEF NoPosition, Driving
  <2>8. CASE Mint(t)  BY <2>8, MineType DEF Mint, Driving
  <2>9. CASE WriteMeta(t)  BY <2>9, MineType DEF WriteMeta, Driving
  <2> QED  BY <2>1, <2>2, <2>3, <2>4, <2>5, <2>6, <2>7, <2>8, <2>9
<1>2. CASE CreateWallet(t)
  BY <1>1, <1>2 DEF CreateWallet, TypeOK, Goto, store, chain, index, Between, Driving
<1>3. CASE HasWallet(t)
  BY <1>1, <1>3 DEF HasWallet, TypeOK, Goto, store, chain, index, Between, Driving
<1>4. CASE PutStub(t)
  BY <1>1, <1>4 DEF PutStub, TypeOK, Goto, store, chain, index, Between, Driving
<1>5. CASE NeedFunding(t)
  BY <1>1, <1>5 DEF NeedFunding, TypeOK, Goto, store, chain, index, Between, Driving
<1>6. CASE Fund(t)
  BY <1>1, <1>6 DEF Fund, TypeOK, Goto, store, chain, index, Between, Driving
<1>7. CASE WaitFunded(t)
  BY <1>1, <1>7 DEF WaitFunded, TypeOK, Goto, store, chain, index, Between, Driving
<1>8. CASE NoPosition(t)
  BY <1>1, <1>8 DEF NoPosition, TypeOK, Goto, store, chain, index, Between, Driving
<1>9. CASE Mint(t)
  BY <1>1, <1>9 DEF Mint, TypeOK, Goto, store, chain, index, Between, Driving
<1>10. CASE WriteMeta(t)
  BY <1>1, <1>10 DEF WriteMeta, TypeOK, Goto, store, chain, index, Between, Driving
<1> QED  BY <1>2, <1>3, <1>4, <1>5, <1>6, <1>7, <1>8, <1>9, <1>10

LEMMA MarkDoneType ==
    ASSUME TypeOK, NEW t \in Tabs, MarkDone(t)
    PROVE  TypeOK'
<1> DEFINE rec == [Mine(t) EXCEPT !.state = "done"]
           row == [copy[t] EXCEPT ![cur[t]] = rec]
<1>1. rec \in ItemRecord /\ cur[t] \in Items
  BY MineType DEF MarkDone, Driving, ItemStates
<1>2. items' = row /\ copy' = [copy EXCEPT ![t] = row]
  BY DEF MarkDone
<1> HIDE DEF rec
<1>3. row \in [Items -> ItemRecord]
  BY <1>1 DEF TypeOK
<1> HIDE DEF row
<1>4. copy' \in [Tabs -> [Items -> ItemRecord]]
  BY <1>2, <1>3 DEF TypeOK
<1>5. /\ cur' = [cur EXCEPT ![t] = @ + 1] /\ pc' = [pc EXCEPT ![t] = "boundary"]
      /\ UNCHANGED <<state, sig, meta, wallet, chain, index, cuts>>
  BY DEF MarkDone, Goto
<1>6. cur' \in [Tabs -> 1 .. N + 1]
  <2>1. cur[t] + 1 \in 1 .. N + 1
    BY <1>1, NAssumption DEF Items
  <2> QED  BY <1>5, <2>1 DEF TypeOK
<1>7. /\ pc' \in [Tabs -> Between \union Driving]
      /\ \A u \in Tabs : pc'[u] \in Driving => cur'[u] \in Items
  BY <1>5 DEF TypeOK, Between, Driving
<1> QED  BY <1>2, <1>3, <1>4, <1>5, <1>6, <1>7 DEF TypeOK, chain, index

LEMMA RunType ==
    ASSUME TypeOK, NEW t \in Tabs, Run(t)
    PROVE  TypeOK'
<1>1. CASE state = "done"
  BY <1>1 DEF Run, TypeOK, Goto, chain, index, Between, Driving
<1>2. CASE state # "done"
  <2>1. /\ state' = "running" /\ copy' = [copy EXCEPT ![t] = items]
        /\ cur' = [cur EXCEPT ![t] = 1] /\ pc' = [pc EXCEPT ![t] = "boundary"]
        /\ UNCHANGED <<items, meta, wallet, chain, index, sig, cuts>>
    BY <1>2 DEF Run, Goto
  <2>2. cur' \in [Tabs -> 1 .. N + 1] /\ copy' \in [Tabs -> [Items -> ItemRecord]]
    BY <2>1, NAssumption DEF TypeOK
  <2>3. /\ pc' \in [Tabs -> Between \union Driving]
        /\ \A u \in Tabs : pc'[u] \in Driving => cur'[u] \in Items
    BY <2>1 DEF TypeOK, Between, Driving
  <2> QED  BY <2>1, <2>2, <2>3 DEF TypeOK, chain, index
<1> QED  BY <1>1, <1>2

LEMMA BoundaryType ==
    ASSUME TypeOK, NEW t \in Tabs, Boundary(t)
    PROVE  TypeOK'
<1> DEFINE next == Phase(Mine(t))
<1>1. /\ cur[t] \in Items /\ Mine(t) \in ItemRecord
      /\ pc' = [pc EXCEPT ![t] = next]
      /\ UNCHANGED <<store, meta, wallet, chain, index, copy, sig, cuts>>
  BY DEF Boundary, Goto, TypeOK, Mine
<1>2. /\ Mine(t).state = "done" => next = "boundary"
      /\ Mine(t).state # "done" => next \in Driving
  BY <1>1 DEF Phase, ItemRecord, ItemStates, Driving
<1>3. /\ Mine(t).state = "done" => cur' = [cur EXCEPT ![t] = @ + 1]
      /\ Mine(t).state # "done" => cur' = cur
  BY DEF Boundary
<1> HIDE DEF next
<1>4. cur' \in [Tabs -> 1 .. N + 1]
  <2>1. cur[t] + 1 \in 1 .. N + 1
    BY <1>1, NAssumption DEF Items
  <2> QED  BY <1>3, <2>1 DEF TypeOK
<1>5. /\ pc' \in [Tabs -> Between \union Driving]
      /\ \A u \in Tabs : pc'[u] \in Driving => cur'[u] \in Items
  BY <1>1, <1>2, <1>3 DEF TypeOK, Between, Driving
<1> QED  BY <1>1, <1>4, <1>5 DEF TypeOK, store, chain, index

(* No step of the loop, the user, the network or the chain leaves the      *)
(* types.                                                                  *)
LEMMA NextType == TypeOK /\ [Next]_vars => TypeOK'
<1> SUFFICES ASSUME TypeOK, [Next]_vars PROVE TypeOK'
  OBVIOUS
<1>1. ASSUME NEW t \in Tabs, Drive(t)  PROVE TypeOK'
  BY <1>1, PersistsType, DrivesType, MarkDoneType DEF Drive
<1>2. ASSUME NEW t \in Tabs, Loop(t)  PROVE TypeOK'
  <2> USE DEF TypeOK, Goto, store, chain, index, Between, Driving
  <2>1. CASE GiveUp(t)  BY <2>1 DEF GiveUp
  <2>2. CASE Finish(t)  BY <2>2 DEF Finish
  <2>3. CASE Stop(t)    BY <2>3 DEF Stop
  <2> QED  BY <1>2, <2>1, <2>2, <2>3, RunType, BoundaryType DEF Loop
<1>3. ASSUME NEW t \in Tabs,
             Continue(t) \/ Hiccup(t) \/ Pause(t) \/ Crash(t) \/ AnswerLost(t)
      PROVE TypeOK'
  <2> USE DEF TypeOK, Goto, Fail, store, chain, index, Between, Driving
  <2>1. CASE Continue(t)    BY <2>1 DEF Continue
  <2>2. CASE Hiccup(t)      BY <2>2 DEF Hiccup
  <2>3. CASE Pause(t)       BY <2>3 DEF Pause
  <2>4. CASE Crash(t)       BY <2>4 DEF Crash
  <2>5. CASE AnswerLost(t)  BY <2>5 DEF AnswerLost
  <2> QED  BY <1>3, <2>1, <2>2, <2>3, <2>4, <2>5
<1>4. ASSUME NEW i \in Items, Confirm(i) \/ IndexSync(i)  PROVE TypeOK'
  <2> USE DEF TypeOK, store, chain, index, tab
  <2>1. CASE Confirm(i)    BY <2>1 DEF Confirm
  <2>2. CASE IndexSync(i)  BY <2>2 DEF IndexSync
  <2> QED  BY <1>4, <2>1, <2>2
<1>5. CASE Discard         BY <1>5 DEF Discard, TypeOK, chain, index, tab
<1>6. CASE UNCHANGED vars  BY <1>6 DEF vars, TypeOK
<1> QED  BY <1>1, <1>2, <1>3, <1>4, <1>5, <1>6 DEF Next

(* Every reachable state is well typed, for any tabs, items and bound.     *)
THEOREM TypeCorrect == Spec => []TypeOK
  BY InitType, NextType, PTL DEF Spec

-----------------------------------------------------------------------------
(* The inductive invariant behind RecordBacked.                            *)

(* What exists of item i.                                                  *)
Facts(i) == [made |-> wallet[i], meta |-> meta[i],
             paid |-> sent[i] > 0, minted |-> mints[i] > 0]

(* Nothing that exists goes away.                                          *)
Grows(f, g) ==
    /\ f.made => g.made
    /\ f.meta # "none" => g.meta # "none"
    /\ f.meta = "full" => g.meta = "full"
    /\ f.paid => g.paid
    /\ f.minted => g.minted

(* A record claims nothing that is not there.                              *)
Backed(rec, f) ==
    /\ rec.walletId => f.made
    /\ rec.state # "pending" => rec.walletId /\ f.meta # "none"
    /\ SaysFunded(rec) => f.paid
    /\ SaysMinted(rec) => f.minted /\ SaysFunded(rec)
    /\ rec.state = "done" => f.meta = "full"

(* What a tab knows, at step p, of the item it drives.                     *)
Knows(p, rec, f) ==
    /\ p \in {"create", "saveWallet", "stub", "markCreated"}
          => rec.state = "pending"
    /\ p \in {"check", "fund", "fundAck", "markFunded"} => rec.state = "created"
    /\ p \in {"wait", "position", "mint", "mintAck", "markMinted"}
          => rec.state = "funded"
    /\ p \in {"coldMeta", "hotMeta", "markDone"} => rec.state = "minted"
    /\ p = "saveWallet" => f.made
    /\ p \in {"stub", "markCreated"} => rec.walletId
    /\ p = "markCreated" => f.meta # "none"
    /\ p \in {"fundAck", "markFunded"} => f.paid
    /\ p \in {"mintAck", "markMinted"} => f.minted
    /\ p = "markDone" => f.meta = "full"

(* Coins and mints the indexer knows exist; a mint spends a confirmed coin.*)
Counted ==
    \A i \in Items : /\ iconf[i] <= conf[i] /\ imint[i] <= mints[i]
                     /\ mints[i] <= conf[i] /\ conf[i] <= sent[i]

Backing ==
    /\ Counted
    /\ \A i \in Items : Backed(items[i], Facts(i))
    /\ \A t \in Tabs, i \in Items : Backed(copy[t][i], Facts(i))
    /\ \A t \in Tabs : pc[t] \in Driving => Knows(pc[t], Mine(t), Facts(cur[t]))

LEMMA BackedGrows ==
    ASSUME NEW rec, NEW f, NEW g, Backed(rec, f), Grows(f, g)
    PROVE  Backed(rec, g)
  BY DEF Backed, Grows

LEMMA KnowsGrows ==
    ASSUME NEW p, NEW rec, NEW f, NEW g, Knows(p, rec, f), Grows(f, g)
    PROVE  Knows(p, rec, g)
  BY DEF Knows, Grows

(* A step of tab t keeps Backing when nothing goes away, the records it    *)
(* writes are backed, and the tab knows what its next step needs.          *)
LEMMA StepBacking ==
    ASSUME TypeOK, TypeOK', Backing, Counted', NEW t \in Tabs,
           \A i \in Items : Grows(Facts(i), Facts(i)'),
           \A i \in Items : \/ items'[i] = items[i]
                             \/ Backed(items'[i], Facts(i)'),
           \A i \in Items : \/ copy'[t][i] = copy[t][i]
                             \/ Backed(copy'[t][i], Facts(i)'),
           \A u \in Tabs \ {t} : /\ copy'[u] = copy[u]
                                 /\ pc'[u] = pc[u] /\ cur'[u] = cur[u],
           pc'[t] \in Driving => Knows(pc'[t], Mine(t)', Facts(cur[t])')
    PROVE  Backing'
<1>1. \A i \in Items : Backed(items'[i], Facts(i)')
  <2> TAKE i \in Items
  <2>1. Backed(items[i], Facts(i))  BY DEF Backing
  <2>2. Backed(items[i], Facts(i)')  BY <2>1, BackedGrows
  <2> QED  BY <2>2
<1>2. \A u \in Tabs, i \in Items : Backed(copy'[u][i], Facts(i)')
  <2> TAKE u \in Tabs, i \in Items
  <2>1. Backed(copy[u][i], Facts(i))  BY DEF Backing
  <2>2. Backed(copy[u][i], Facts(i)')  BY <2>1, BackedGrows
  <2> QED  BY <2>2
<1>3. \A u \in Tabs : pc'[u] \in Driving => Knows(pc'[u], Mine(u)', Facts(cur[u])')
  <2> SUFFICES ASSUME NEW u \in Tabs \ {t}, pc'[u] \in Driving
               PROVE  Knows(pc'[u], Mine(u)', Facts(cur[u])')
    OBVIOUS
  <2>1. Knows(pc[u], Mine(u), Facts(cur[u])) /\ cur[u] \in Items
    BY DEF Backing, TypeOK
  <2>2. Grows(Facts(cur[u]), Facts(cur[u])')
    BY <2>1 DEF Facts
  <2>3. Knows(pc[u], Mine(u), Facts(cur[u])')
    BY <2>1, <2>2, KnowsGrows
  <2> QED  BY <2>3 DEF Mine
<1> QED  BY <1>1, <1>2, <1>3 DEF Backing

(* What a driving tab starts from.                                         *)
LEMMA DrivingFacts ==
    ASSUME TypeOK, Backing, NEW t \in Tabs, pc[t] \in Driving
    PROVE  /\ cur[t] \in Items /\ Mine(t) \in ItemRecord
           /\ Knows(pc[t], Mine(t), Facts(cur[t]))
           /\ Backed(Mine(t), Facts(cur[t]))
  BY DEF TypeOK, Backing, Mine

(* What the indexer has seen at an address is on the chain.                *)
LEMMA IndexBacked ==
    ASSUME TypeOK, Backing, NEW i \in Items
    PROVE  /\ Seen(i) => Facts(i).paid
           /\ imint[i] > 0 => Facts(i).minted
<1>1. /\ iconf[i] \in Nat /\ imint[i] \in Nat /\ conf[i] \in Nat
      /\ sent[i] \in Nat /\ mints[i] \in Nat
  BY DEF TypeOK
<1>2. iconf[i] <= conf[i] /\ imint[i] <= mints[i] /\ conf[i] <= sent[i]
  BY DEF Backing, Counted
<1>3. (Seen(i) => sent[i] > 0) /\ (imint[i] > 0 => mints[i] > 0)
  BY <1>1, <1>2 DEF Seen
<1> QED  BY <1>3 DEF Facts

(* saveItems with a backed record.                                         *)
LEMMA PersistBacking ==
    ASSUME TypeOK, TypeOK', Backing, NEW t \in Tabs, NEW rec, NEW next,
           cur[t] \in Items, Persist(t, rec, next),
           UNCHANGED <<meta, wallet, chain, index>>,
           Backed(rec, Facts(cur[t])), Knows(next, rec, Facts(cur[t]))
    PROVE  Backing'
<1>1. \A i : Facts(i)' = Facts(i)
  BY DEF Facts, chain
<1>2. Counted' /\ \A i \in Items : Grows(Facts(i), Facts(i)')
  BY <1>1 DEF Backing, Counted, chain, index, Grows
<1>3. /\ items' = [copy[t] EXCEPT ![cur[t]] = rec]
      /\ copy' = [copy EXCEPT ![t] = [copy[t] EXCEPT ![cur[t]] = rec]]
      /\ pc' = [pc EXCEPT ![t] = next] /\ cur' = cur
  BY DEF Persist, Goto
<1>4. copy[t] \in [Items -> ItemRecord] /\ copy'[t] = items'
  BY <1>3 DEF TypeOK
<1>5. /\ items'[cur[t]] = rec
      /\ \A i \in Items : i # cur[t] => items'[i] = copy[t][i]
  BY <1>3, <1>4
<1>6. \A i \in Items : Backed(items'[i], Facts(i)')
  BY <1>1, <1>5 DEF Backing
<1>7. Mine(t)' = rec /\ pc'[t] = next /\ Facts(cur[t])' = Facts(cur[t])
  BY <1>1, <1>3, <1>4, <1>5 DEF Mine, TypeOK
<1>8. \A u \in Tabs \ {t} : copy'[u] = copy[u] /\ pc'[u] = pc[u] /\ cur'[u] = cur[u]
  BY <1>3 DEF TypeOK
<1> QED  BY <1>2, <1>4, <1>6, <1>7, <1>8, StepBacking

LEMMA PersistsBacking ==
    ASSUME TypeOK, TypeOK', Backing, NEW t \in Tabs,
           \/ SaveWallet(t) \/ MarkCreated(t) \/ FundAnswered(t) \/ MarkFunded(t)
           \/ MintAnswered(t) \/ MarkMinted(t) \/ SkipFunding(t) \/ AdoptPosition(t)
    PROVE  Backing'
<1> DEFINE Writes(rec, next) ==
             /\ Persist(t, rec, next)
             /\ Backed(rec, Facts(cur[t])) /\ Knows(next, rec, Facts(cur[t]))
<1>1. /\ UNCHANGED <<meta, wallet, chain, index>> /\ cur[t] \in Items
      /\ \E rec, next : Writes(rec, next)
  <2> USE DEF Backed, Knows, SaysFunded, SaysMinted, ItemRecord, ItemStates, Driving
  <2>1. CASE SaveWallet(t)
    BY <2>1, DrivingFacts DEF SaveWallet
  <2>2. CASE MarkCreated(t)
    BY <2>2, DrivingFacts DEF MarkCreated
  <2>3. CASE FundAnswered(t)
    BY <2>3, DrivingFacts DEF FundAnswered
  <2>4. CASE MarkFunded(t)
    BY <2>4, DrivingFacts DEF MarkFunded
  <2>5. CASE MintAnswered(t)
    BY <2>5, DrivingFacts DEF MintAnswered
  <2>6. CASE MarkMinted(t)
    BY <2>6, DrivingFacts DEF MarkMinted
  <2>7. CASE SkipFunding(t)
    <3>1. cur[t] \in Items  BY <2>7, DrivingFacts DEF SkipFunding
    <3> QED  BY <2>7, <3>1, DrivingFacts, IndexBacked DEF SkipFunding
  <2>8. CASE AdoptPosition(t)
    <3>1. cur[t] \in Items  BY <2>8, DrivingFacts DEF AdoptPosition
    <3> QED  BY <2>8, <3>1, DrivingFacts, IndexBacked DEF AdoptPosition
  <2> QED  BY <2>1, <2>2, <2>3, <2>4, <2>5, <2>6, <2>7, <2>8
<1>2. PICK rec, next : Writes(rec, next)
  BY <1>1
<1> QED  BY <1>1, <1>2, PersistBacking

(* The steps that read, and those that change the vault, the registry or   *)
(* the chain: the arrays stay, and what exists only grows.                 *)
LEMMA DrivesBacking ==
    ASSUME TypeOK, TypeOK', Backing, NEW t \in Tabs,
           \/ HasWallet(t) \/ NeedFunding(t) \/ WaitFunded(t) \/ NoPosition(t)
           \/ CreateWallet(t) \/ PutStub(t) \/ Fund(t) \/ Mint(t) \/ WriteMeta(t)
    PROVE  Backing'
<1>1. /\ cur[t] \in Items /\ UNCHANGED <<items, copy, cur, iconf, imint>>
      /\ \E next : pc' = [pc EXCEPT ![t] = next]
      /\ Knows(pc[t], Mine(t), Facts(cur[t])) /\ Backed(Mine(t), Facts(cur[t]))
  <2>1. CASE HasWallet(t)
    BY <2>1, DrivingFacts DEF HasWallet, Goto, Driving, store, index
  <2>2. CASE NeedFunding(t)
    BY <2>2, DrivingFacts DEF NeedFunding, Goto, Driving, store, index
  <2>3. CASE WaitFunded(t)
    BY <2>3, DrivingFacts DEF WaitFunded, Goto, Driving, store, index
  <2>4. CASE NoPosition(t)
    BY <2>4, DrivingFacts DEF NoPosition, Goto, Driving, store, index
  <2>5. CASE CreateWallet(t)
    BY <2>5, DrivingFacts DEF CreateWallet, Goto, Driving, store, index
  <2>6. CASE PutStub(t)
    BY <2>6, DrivingFacts DEF PutStub, Goto, Driving, store, index
  <2>7. CASE Fund(t)
    BY <2>7, DrivingFacts DEF Fund, Goto, Driving, store, index
  <2>8. CASE Mint(t)
    BY <2>8, DrivingFacts DEF Mint, Goto, Driving, store, index
  <2>9. CASE WriteMeta(t)
    BY <2>9, DrivingFacts DEF WriteMeta, Goto, Driving, store, index
  <2> QED  BY <2>1, <2>2, <2>3, <2>4, <2>5, <2>6, <2>7, <2>8, <2>9
<1>2. Counted' /\ \A i \in Items : Grows(Facts(i), Facts(i)')
  <2>1. CASE HasWallet(t)
    BY <1>1, <2>1 DEF HasWallet, TypeOK, Backing, Counted, Grows, Facts, chain, index
  <2>2. CASE NeedFunding(t)
    BY <1>1, <2>2 DEF NeedFunding, TypeOK, Backing, Counted, Grows, Facts, chain, index
  <2>3. CASE WaitFunded(t)
    BY <1>1, <2>3 DEF WaitFunded, TypeOK, Backing, Counted, Grows, Facts, chain, index
  <2>4. CASE NoPosition(t)
    BY <1>1, <2>4 DEF NoPosition, TypeOK, Backing, Counted, Grows, Facts, chain, index
  <2>5. CASE CreateWallet(t)
    BY <1>1, <2>5 DEF CreateWallet, TypeOK, Backing, Counted, Grows, Facts, chain, index
  <2>6. CASE PutStub(t)
    BY <1>1, <2>6 DEF PutStub, TypeOK, Backing, Counted, Grows, Facts, chain, index
  <2>7. CASE Fund(t)
    <3>1. /\ sent' = [sent EXCEPT ![cur[t]] = sent[cur[t]] + 1]
          /\ UNCHANGED <<meta, wallet, conf, mints, iconf, imint>>
      BY <1>1, <2>7 DEF Fund
    <3>2. \A i \in Items : sent[i] \in Nat /\ sent'[i] \in Nat /\ sent'[i] >= sent[i] /\ conf[i] \in Nat
      BY <1>1, <3>1 DEF TypeOK
    <3>3. Counted'
      BY <3>1, <3>2 DEF Backing, Counted
    <3>4. \A i \in Items : sent[i] > 0 => sent'[i] > 0
      BY <3>2
    <3>5. \A i \in Items : Grows(Facts(i), Facts(i)')
      BY <3>1, <3>4, Zenon DEF Grows, Facts
    <3> QED  BY <3>3, <3>5
  <2>8. CASE Mint(t)
    <3>1. /\ mints' = [mints EXCEPT ![cur[t]] = mints[cur[t]] + 1]
          /\ iconf[cur[t]] > mints[cur[t]] /\ UNCHANGED <<meta, wallet, sent, conf, iconf, imint>>
      BY <1>1, <2>8 DEF Mint
    <3>2. \A i \in Items : /\ mints[i] \in Nat /\ mints'[i] \in Nat /\ mints'[i] >= mints[i]
                           /\ conf[i] \in Nat /\ iconf[i] \in Nat /\ imint[i] \in Nat
                           /\ mints'[i] = mints[i] \/ mints'[i] <= iconf[i]
      BY <1>1, <3>1 DEF TypeOK
    <3>3. Counted'
      BY <3>1, <3>2 DEF Backing, Counted
    <3>4. \A i \in Items : mints[i] > 0 => mints'[i] > 0
      BY <3>2
    <3>5. \A i \in Items : Grows(Facts(i), Facts(i)')
      BY <3>1, <3>4, Zenon DEF Grows, Facts
    <3> QED  BY <3>3, <3>5
  <2>9. CASE WriteMeta(t)
    BY <1>1, <2>9 DEF WriteMeta, TypeOK, Backing, Counted, Grows, Facts, chain, index
  <2> QED  BY <2>1, <2>2, <2>3, <2>4, <2>5, <2>6, <2>7, <2>8, <2>9
<1>3. Mine(t)' = Mine(t) /\ cur'[t] = cur[t]
  BY <1>1 DEF Mine
<1>4. pc'[t] \in Driving => Knows(pc'[t], Mine(t), Facts(cur[t])')
  <2> USE DEF Knows, Backed, Facts
  <2>1. CASE HasWallet(t)
    BY <1>1, <2>1 DEF HasWallet, TypeOK, Goto, chain
  <2>2. CASE NeedFunding(t)
    BY <1>1, <2>2 DEF NeedFunding, TypeOK, Goto, chain
  <2>3. CASE WaitFunded(t)
    BY <1>1, <2>3 DEF WaitFunded, TypeOK, Goto, chain
  <2>4. CASE NoPosition(t)
    BY <1>1, <2>4 DEF NoPosition, TypeOK, Goto, chain
  <2>5. CASE CreateWallet(t)
    BY <1>1, <2>5 DEF CreateWallet, TypeOK, Goto, chain
  <2>6. CASE PutStub(t)
    BY <1>1, <2>6 DEF PutStub, TypeOK, Goto, chain
  <2>7. CASE Fund(t)
    BY <1>1, <2>7 DEF Fund, TypeOK, Goto, chain
  <2>8. CASE Mint(t)
    BY <1>1, <2>8 DEF Mint, TypeOK, Goto, chain
  <2>9. CASE WriteMeta(t)
    BY <1>1, <2>9 DEF WriteMeta, TypeOK, Goto, chain
  <2> QED  BY <2>1, <2>2, <2>3, <2>4, <2>5, <2>6, <2>7, <2>8, <2>9
<1> QED  BY <1>1, <1>2, <1>3, <1>4, StepBacking DEF TypeOK

LEMMA MarkDoneBacking ==
    ASSUME TypeOK, TypeOK', Backing, NEW t \in Tabs, MarkDone(t)
    PROVE  Backing'
<1> DEFINE rec == [Mine(t) EXCEPT !.state = "done"]
<1>1. /\ pc[t] = "markDone" /\ cur[t] \in Items /\ Mine(t) \in ItemRecord
      /\ Knows(pc[t], Mine(t), Facts(cur[t])) /\ Backed(Mine(t), Facts(cur[t]))
  BY DrivingFacts DEF MarkDone, Driving
<1>2. Backed(rec, Facts(cur[t]))
  BY <1>1 DEF Backed, Knows, SaysFunded, SaysMinted, ItemRecord
<1>3. /\ items' = [copy[t] EXCEPT ![cur[t]] = rec]
      /\ copy' = [copy EXCEPT ![t] = items']
      /\ pc' = [pc EXCEPT ![t] = "boundary"]
      /\ cur' = [cur EXCEPT ![t] = @ + 1]
      /\ UNCHANGED <<meta, wallet, chain, index>>
  BY DEF MarkDone, Goto
<1> HIDE DEF rec
<1>4. \A i : Facts(i)' = Facts(i)
  BY <1>3 DEF Facts, chain
<1>5. Counted' /\ \A i \in Items : Grows(Facts(i), Facts(i)')
  BY <1>3, <1>4 DEF Backing, Counted, chain, index, Grows
<1>6. /\ items'[cur[t]] = rec /\ copy'[t] = items'
      /\ \A i \in Items : i # cur[t] => items'[i] = copy[t][i]
  BY <1>1, <1>3 DEF TypeOK
<1>7. \A i \in Items : Backed(items'[i], Facts(i)')
  BY <1>2, <1>4, <1>6 DEF Backing
<1>8. /\ \A u \in Tabs \ {t} : copy'[u] = copy[u] /\ pc'[u] = pc[u] /\ cur'[u] = cur[u]
      /\ pc'[t] \notin Driving
  BY <1>3 DEF TypeOK, Driving
<1> QED  BY <1>5, <1>6, <1>7, <1>8, StepBacking

LEMMA RunBacking ==
    ASSUME TypeOK, TypeOK', Backing, NEW t \in Tabs, Run(t)
    PROVE  Backing'
<1>1. /\ UNCHANGED <<items, meta, wallet, chain, index>>
      /\ pc'[t] \notin Driving
      /\ copy'[t] = copy[t] \/ copy'[t] = items
      /\ \A u \in Tabs \ {t} : copy'[u] = copy[u] /\ pc'[u] = pc[u] /\ cur'[u] = cur[u]
  BY DEF Run, TypeOK, Goto, Driving
<1>2. \A i : Facts(i)' = Facts(i)
  BY <1>1 DEF Facts, chain
<1>3. Counted' /\ \A i \in Items : Grows(Facts(i), Facts(i)')
  BY <1>1, <1>2 DEF Backing, Counted, chain, index, Grows
<1>4. \A i \in Items : copy'[t][i] = copy[t][i] \/ Backed(copy'[t][i], Facts(i)')
  BY <1>1, <1>2 DEF Backing
<1> QED  BY <1>1, <1>3, <1>4, StepBacking

LEMMA BoundaryBacking ==
    ASSUME TypeOK, TypeOK', Backing, NEW t \in Tabs, Boundary(t)
    PROVE  Backing'
<1>1. /\ cur[t] \in Items /\ Mine(t) \in ItemRecord
      /\ pc' = [pc EXCEPT ![t] = Phase(Mine(t))]
      /\ UNCHANGED <<items, copy, meta, wallet, chain, index>>
      /\ \A u \in Tabs \ {t} : cur'[u] = cur[u]
  BY DEF Boundary, Goto, TypeOK, Mine, store
<1>2. \A i : Facts(i)' = Facts(i)
  BY <1>1 DEF Facts, chain
<1>3. Counted' /\ \A i \in Items : Grows(Facts(i), Facts(i)')
  BY <1>1, <1>2 DEF Backing, Counted, chain, index, Grows
<1>4. /\ Mine(t).state = "done" => Phase(Mine(t)) \notin Driving
      /\ Mine(t).state # "done" => Knows(Phase(Mine(t)), Mine(t), Facts(cur[t]))
  BY <1>1 DEF Phase, Knows, ItemRecord, ItemStates, Driving
<1>5. Mine(t).state # "done" => cur' = cur /\ Mine(t)' = Mine(t)
  BY <1>1 DEF Boundary, Mine
<1>6. pc'[t] \in Driving => Knows(pc'[t], Mine(t)', Facts(cur[t])')
  BY <1>1, <1>2, <1>4, <1>5 DEF TypeOK
<1> QED  BY <1>1, <1>3, <1>6, StepBacking DEF TypeOK

(* Everything else a tab, the user or the indexer does leaves the records  *)
(* alone and takes no tab into an item.                                    *)
LEMMA IdleBacking ==
    ASSUME TypeOK, TypeOK', Backing, NEW t \in Tabs,
           \/ Continue(t) \/ GiveUp(t) \/ Finish(t) \/ Stop(t) \/ Hiccup(t)
           \/ Pause(t) \/ Crash(t) \/ AnswerLost(t)
    PROVE  Backing'
<1>1. /\ UNCHANGED <<items, copy, cur, meta, wallet, chain, index>>
      /\ pc' = pc \/ \E next \in Between : pc' = [pc EXCEPT ![t] = next]
  BY DEF Continue, GiveUp, Finish, Stop, Hiccup, Pause, Crash, AnswerLost,
         Fail, Goto, Between, store, chain, index
<1>2. \A i : Facts(i)' = Facts(i)
  BY <1>1 DEF Facts, chain
<1>3. Counted' /\ \A i \in Items : Grows(Facts(i), Facts(i)')
  BY <1>1, <1>2 DEF Backing, Counted, chain, index, Grows
<1>4. pc'[t] \in Driving => pc'[t] = pc[t]
  BY <1>1 DEF TypeOK, Between, Driving
<1>5. Mine(t)' = Mine(t) /\ Facts(cur[t])' = Facts(cur[t])
  BY <1>1, <1>2 DEF Mine
<1>6. \A u \in Tabs \ {t} : pc'[u] = pc[u]
  BY <1>1 DEF TypeOK
<1>7. pc'[t] \in Driving => Knows(pc'[t], Mine(t)', Facts(cur[t])')
  BY <1>4, <1>5 DEF Backing
<1> QED  BY <1>1, <1>3, <1>6, <1>7, StepBacking

LEMMA WorldBacking ==
    ASSUME TypeOK, TypeOK', Backing, NEW i \in Items, Confirm(i) \/ IndexSync(i)
    PROVE  Backing'
<1>1. UNCHANGED <<store, meta, wallet, sent, mints, tab>>
  BY DEF Confirm, IndexSync, chain
<1>2. Counted'
  <2>1. CASE Confirm(i)
    BY <2>1 DEF Confirm, TypeOK, Backing, Counted, index
  <2>2. CASE IndexSync(i)
    BY <2>2 DEF IndexSync, TypeOK, Backing, Counted, chain
  <2> QED  BY <2>1, <2>2
<1>3. \A j : Facts(j)' = Facts(j)
  BY <1>1 DEF Facts
<1> QED  BY <1>1, <1>2, <1>3 DEF Backing, store, tab, Mine

LEMMA InitBacking == Init => Backing
  BY DEF Init, Backing, Counted, Backed, SaysFunded, SaysMinted, Fresh, Driving

(* Every step keeps every copy of the record backed.                       *)
LEMMA NextBacking == TypeOK /\ Backing /\ [Next]_vars => Backing'
<1> SUFFICES ASSUME TypeOK, Backing, [Next]_vars PROVE Backing'
  OBVIOUS
<1>1. TypeOK'
  BY NextType
<1>2. ASSUME NEW t \in Tabs, Drive(t)  PROVE Backing'
  BY <1>1, <1>2, PersistsBacking, DrivesBacking, MarkDoneBacking DEF Drive
<1>3. ASSUME NEW t \in Tabs,
             Loop(t) \/ Continue(t) \/ Hiccup(t) \/ Pause(t) \/ Crash(t) \/ AnswerLost(t)
      PROVE  Backing'
  BY <1>1, <1>3, RunBacking, BoundaryBacking, IdleBacking DEF Loop
<1>4. ASSUME NEW i \in Items, Confirm(i) \/ IndexSync(i)  PROVE Backing'
  BY <1>1, <1>4, WorldBacking
<1>5. CASE Discard \/ UNCHANGED vars
  <2>1. UNCHANGED <<items, meta, wallet, chain, index, tab>>
    BY <1>5 DEF Discard, vars, chain, index, tab
  <2> QED  BY <2>1 DEF Backing, Counted, Facts, Mine, chain, index, tab
<1> QED  BY <1>2, <1>3, <1>4, <1>5 DEF Next

(* The stored record never claims what is not there: for any number of     *)
(* tabs on the same batch, any number of deaths and lost answers.          *)
THEOREM RecordIsBacked == Spec => []RecordBacked
<1>1. Init => TypeOK /\ Backing
  BY InitType, InitBacking
<1>2. TypeOK /\ Backing /\ [Next]_vars => (TypeOK /\ Backing)'
  BY NextType, NextBacking
<1>3. TypeOK /\ Backing => RecordBacked
  BY DEF Backing, RecordBacked, Backed, Facts, Counted
<1> QED  BY <1>1, <1>2, <1>3, PTL DEF Spec

-----------------------------------------------------------------------------
(* One tab.                                                                *)

OneTab == \A t, u \in Tabs : t = u

Active == Driving \union {"boundary"}

SoloInv ==
    /\ \A t \in Tabs :
         /\ pc[t] \in Active => /\ copy[t] = items
                                /\ \A j \in Items : j < cur[t] => items[j].state = "done"
         /\ pc[t] = "fund" => ~Mine(t).fundTxid
         /\ state = "done" => pc[t] = "off"
    /\ state = "done" => \A i \in Items : items[i].state = "done"
    /\ FundBudget

-----------------------------------------------------------------------------
(* The budget.                                                             *)

(* A step keeps the budget if it pays only what nothing accounts for yet,  *)
(* and stops accounting for a payment only at the price of a cut.          *)
LEMMA BudgetStep ==
    ASSUME TypeOK, FundBudget, cuts' \in Nat, cuts' >= cuts,
           \A i \in Items :
             \/ sent'[i] = sent[i] /\ (Accounted(i) => Accounted(i)' \/ cuts' = cuts + 1)
             \/ sent'[i] = sent[i] + 1 /\ ~Accounted(i) /\ Accounted(i)'
    PROVE  FundBudget'
<1> SUFFICES ASSUME NEW i \in Items
             PROVE  sent'[i] <= (IF Accounted(i)' THEN cuts' + 1 ELSE cuts')
  BY DEF FundBudget
<1>1. sent[i] \in Nat /\ cuts \in Nat
  BY DEF TypeOK
<1>2. sent[i] <= (IF Accounted(i) THEN cuts + 1 ELSE cuts)
  BY DEF FundBudget
<1>3. CASE sent'[i] = sent[i] /\ (Accounted(i) => Accounted(i)' \/ cuts' = cuts + 1)
  BY <1>1, <1>2, <1>3
<1>4. CASE sent'[i] = sent[i] + 1 /\ ~Accounted(i) /\ Accounted(i)'
  BY <1>1, <1>2, <1>4
<1> QED  BY <1>3, <1>4

(* saveItems by the only tab: its copy was the stored array, so only the   *)
(* current item changes.                                                   *)
LEMMA PersistSolo ==
    ASSUME OneTab, TypeOK, TypeOK', SoloInv, NEW t \in Tabs, NEW rec, NEW next,
           pc[t] \in Driving, Persist(t, rec, next), UNCHANGED <<sent, cuts>>,
           next \in Driving \ {"fund", "fundAck"},
           SaysFunded(Mine(t)) \/ pc[t] = "fundAck" => SaysFunded(rec)
    PROVE  SoloInv'
<1>1. /\ cur[t] \in Items /\ copy[t] = items /\ copy[t] \in [Items -> ItemRecord]
      /\ state # "done" /\ \A u \in Tabs : u = t
      /\ \A j \in Items : j < cur[t] => items[j].state = "done"
  BY DEF TypeOK, SoloInv, Active, OneTab, Driving
<1>2. /\ items' = [copy[t] EXCEPT ![cur[t]] = rec]
      /\ copy' = [copy EXCEPT ![t] = items']
      /\ pc' = [pc EXCEPT ![t] = next]
      /\ UNCHANGED <<state, cur>>
  BY DEF Persist, Goto
<1>3. /\ items'[cur[t]] = rec /\ copy'[t] = items' /\ pc'[t] = next
      /\ \A j \in Items : j # cur[t] => items'[j] = items[j]
  BY <1>1, <1>2 DEF TypeOK
<1>4. \A i \in Items : Accounted(i) => Accounted(i)'
  <2> TAKE i \in Items
  <2>1. CASE i = cur[t]
    BY <1>1, <1>3, <2>1 DEF Accounted, Mine
  <2>2. CASE i # cur[t]
    BY <1>1, <1>3, <2>2 DEF Accounted
  <2> QED  BY <2>1, <2>2
<1>5. FundBudget'
  BY <1>4, BudgetStep DEF SoloInv, TypeOK
<1>6. \A j \in Items : j < cur[t] => items'[j].state = "done"
  BY <1>1, <1>3 DEF Items
<1> QED  BY <1>1, <1>2, <1>3, <1>5, <1>6 DEF SoloInv

LEMMA PersistsSolo ==
    ASSUME OneTab, TypeOK, TypeOK', Backing, SoloInv, NEW t \in Tabs,
           \/ SaveWallet(t) \/ MarkCreated(t) \/ FundAnswered(t) \/ MarkFunded(t)
           \/ MintAnswered(t) \/ MarkMinted(t) \/ SkipFunding(t) \/ AdoptPosition(t)
    PROVE  SoloInv'
<1> DEFINE Writes(rec, next) ==
             /\ Persist(t, rec, next)
             /\ next \in Driving \ {"fund", "fundAck"}
             /\ SaysFunded(Mine(t)) \/ pc[t] = "fundAck" => SaysFunded(rec)
<1>1. /\ UNCHANGED <<sent, cuts>> /\ pc[t] \in Driving
      /\ \E rec, next : Writes(rec, next)
  <2> USE DEF Knows, SaysFunded, ItemRecord, ItemStates, Driving, chain
  <2>1. CASE SaveWallet(t)  BY <2>1, DrivingFacts DEF SaveWallet
  <2>2. CASE MarkCreated(t)  BY <2>2, DrivingFacts DEF MarkCreated
  <2>3. CASE FundAnswered(t)  BY <2>3, DrivingFacts DEF FundAnswered
  <2>4. CASE MarkFunded(t)  BY <2>4, DrivingFacts DEF MarkFunded
  <2>5. CASE MintAnswered(t)  BY <2>5, DrivingFacts DEF MintAnswered
  <2>6. CASE MarkMinted(t)  BY <2>6, DrivingFacts DEF MarkMinted
  <2>7. CASE SkipFunding(t)  BY <2>7, DrivingFacts DEF SkipFunding
  <2>8. CASE AdoptPosition(t)  BY <2>8, DrivingFacts DEF AdoptPosition
  <2> QED  BY <2>1, <2>2, <2>3, <2>4, <2>5, <2>6, <2>7, <2>8
<1>2. PICK rec, next : Writes(rec, next)
  BY <1>1
<1> QED  BY <1>1, <1>2, PersistSolo

LEMMA MarkDoneSolo ==
    ASSUME OneTab, TypeOK, TypeOK', Backing, SoloInv, NEW t \in Tabs, MarkDone(t)
    PROVE  SoloInv'
<1> DEFINE rec == [Mine(t) EXCEPT !.state = "done"]
<1>1. /\ pc[t] = "markDone" /\ cur[t] \in Items /\ copy[t] = items
      /\ copy[t] \in [Items -> ItemRecord] /\ Mine(t) \in ItemRecord
      /\ state # "done" /\ \A u \in Tabs : u = t
      /\ \A j \in Items : j < cur[t] => items[j].state = "done"
  BY DrivingFacts DEF TypeOK, SoloInv, Active, OneTab, Driving, MarkDone
<1>2. /\ items' = [copy[t] EXCEPT ![cur[t]] = rec]
      /\ copy' = [copy EXCEPT ![t] = items']
      /\ pc' = [pc EXCEPT ![t] = "boundary"]
      /\ cur' = [cur EXCEPT ![t] = @ + 1]
      /\ UNCHANGED <<state, sent, cuts>>
  BY DEF MarkDone, Goto, chain
<1>3. rec.state = "done"
  BY <1>1 DEF ItemRecord
<1> HIDE DEF rec
<1>4. /\ items'[cur[t]] = rec /\ copy'[t] = items' /\ pc'[t] = "boundary"
      /\ cur'[t] = cur[t] + 1
      /\ \A j \in Items : j # cur[t] => items'[j] = items[j]
  BY <1>1, <1>2 DEF TypeOK
<1>5. \A i \in Items : Accounted(i) => Accounted(i)'
  BY <1>1, <1>3, <1>4 DEF Accounted, SaysFunded
<1>6. FundBudget'
  BY <1>2, <1>5, BudgetStep DEF SoloInv, TypeOK
<1>7. \A j \in Items : j < cur'[t] => items'[j].state = "done"
  BY <1>1, <1>3, <1>4 DEF Items
<1> QED  BY <1>1, <1>2, <1>4, <1>6, <1>7 DEF SoloInv

(* The steps that leave the items and the tab's copy of them alone.        *)
LEMMA DrivesSolo ==
    ASSUME OneTab, TypeOK, TypeOK', Backing, SoloInv, NEW t \in Tabs,
           \/ HasWallet(t) \/ NeedFunding(t) \/ WaitFunded(t) \/ NoPosition(t)
           \/ CreateWallet(t) \/ PutStub(t) \/ Fund(t) \/ Mint(t) \/ WriteMeta(t)
    PROVE  SoloInv'
<1>1. /\ pc[t] \in Driving \ {"fundAck"} /\ cur[t] \in Items /\ copy[t] = items
      /\ UNCHANGED <<items, copy, cur, state, cuts>>
      /\ state # "done" /\ \A u \in Tabs : u = t
  BY DEF HasWallet, NeedFunding, WaitFunded, NoPosition, CreateWallet, PutStub,
         Fund, Mint, WriteMeta, store, TypeOK, SoloInv, OneTab, Active, Driving
<1>2. /\ pc'[t] \in Driving
      /\ pc'[t] = "fund" => ~Mine(t).fundTxid
  BY DEF HasWallet, NeedFunding, WaitFunded, NoPosition, CreateWallet, PutStub,
         Fund, Mint, WriteMeta, Goto, TypeOK, Driving
<1>3. FundBudget'
  <2>1. CASE Fund(t)
    <3>1. /\ pc[t] = "fund" /\ sent' = [sent EXCEPT ![cur[t]] = @ + 1]
          /\ pc'[t] = "fundAck"
      BY <2>1 DEF Fund, Goto, TypeOK
    <3>2. ~Accounted(cur[t])
      BY <1>1, <3>1, DrivingFacts DEF SoloInv, Accounted, SaysFunded, Knows, Mine
    <3>3. Accounted(cur[t])'
      BY <1>1, <3>1 DEF Accounted
    <3>4. \A i \in Items : Accounted(i) => Accounted(i)'
      BY <1>1, <3>1 DEF Accounted
    <3>5. \A i \in Items : i # cur[t] => sent'[i] = sent[i]
      BY <3>1 DEF TypeOK
    <3>6. sent'[cur[t]] = sent[cur[t]] + 1
      BY <1>1, <3>1 DEF TypeOK
    <3> QED  BY <1>1, <3>2, <3>3, <3>4, <3>5, <3>6, BudgetStep DEF SoloInv, TypeOK
  <2>2. CASE ~Fund(t)
    <3>1. sent' = sent
      BY <2>2 DEF HasWallet, NeedFunding, WaitFunded, NoPosition, CreateWallet,
                  PutStub, Mint, WriteMeta, chain
    <3>2. \A i \in Items : Accounted(i) => Accounted(i)'
      BY <1>1 DEF Accounted
    <3> QED  BY <1>1, <3>1, <3>2, BudgetStep DEF SoloInv, TypeOK
  <2> QED  BY <2>1, <2>2
<1> QED  BY <1>1, <1>2, <1>3 DEF SoloInv, Active, Mine

LEMMA RunSolo ==
    ASSUME OneTab, TypeOK, TypeOK', SoloInv, NEW t \in Tabs, Run(t)
    PROVE  SoloInv'
<1>1. /\ pc[t] # "fundAck" /\ state # "done" /\ \A u \in Tabs : u = t
      /\ UNCHANGED <<items, sent, cuts>>
  BY DEF Run, SoloInv, OneTab, chain
<1>2. /\ state' = "running" /\ copy'[t] = items /\ cur'[t] = 1
      /\ pc'[t] = "boundary"
  BY <1>1 DEF Run, Goto, TypeOK
<1>3. FundBudget'
  <2>1. \A i \in Items : Accounted(i) => Accounted(i)'
    BY <1>1 DEF Accounted
  <2> QED  BY <1>1, <2>1, BudgetStep DEF SoloInv, TypeOK
<1>4. \A j \in Items : ~(j < 1)
  BY DEF Items
<1> QED  BY <1>1, <1>2, <1>3, <1>4 DEF SoloInv

LEMMA BoundarySolo ==
    ASSUME OneTab, TypeOK, TypeOK', SoloInv, NEW t \in Tabs, Boundary(t)
    PROVE  SoloInv'
<1>1. /\ pc[t] = "boundary" /\ cur[t] \in Items /\ copy[t] = items
      /\ state # "done" /\ \A u \in Tabs : u = t
      /\ \A j \in Items : j < cur[t] => items[j].state = "done"
      /\ Mine(t) \in ItemRecord
      /\ UNCHANGED <<items, copy, state, sent, cuts>>
  BY DEF Boundary, SoloInv, OneTab, Active, TypeOK, Mine, store, chain
<1>2. pc'[t] \in Active \ {"fund", "fundAck"}
  BY <1>1 DEF Boundary, Goto, Phase, ItemRecord, ItemStates, Active, Driving, TypeOK
<1>3. \/ cur'[t] = cur[t]
      \/ cur'[t] = cur[t] + 1 /\ items[cur[t]].state = "done"
  BY <1>1 DEF Boundary, Mine, TypeOK
<1>4. \A j \in Items : j < cur'[t] => items[j].state = "done"
  BY <1>1, <1>3 DEF Items
<1>5. FundBudget'
  <2>1. \A i \in Items : Accounted(i) => Accounted(i)'
    BY <1>1 DEF Accounted
  <2> QED  BY <1>1, <2>1, BudgetStep DEF SoloInv, TypeOK
<1> QED  BY <1>1, <1>2, <1>4, <1>5 DEF SoloInv

(* Leaving the loop, for whatever reason, with the items as they are.      *)
LEMMA LeaveSolo ==
    ASSUME OneTab, TypeOK, TypeOK', SoloInv, NEW t \in Tabs,
           \/ GiveUp(t) \/ Stop(t) \/ Hiccup(t) \/ Continue(t)
           \/ Crash(t) \/ AnswerLost(t)
    PROVE  SoloInv'
<1>1. /\ UNCHANGED <<items, sent>> /\ state # "done" /\ state' # "done"
      /\ pc'[t] \in {"off", "start", "sleep"} /\ \A u \in Tabs : u = t
  BY DEF GiveUp, Stop, Hiccup, Continue, Crash, AnswerLost, Fail, Goto,
         store, chain, TypeOK, SoloInv, OneTab
<1>2. \/ cuts' = cuts + 1
      \/ cuts' = cuts /\ pc[t] # "fundAck"
  BY DEF GiveUp, Stop, Hiccup, Continue, Crash, AnswerLost
<1>3. FundBudget'
  <2>1. \A i \in Items : \/ Accounted(i) => Accounted(i)'
                          \/ cuts' = cuts + 1
    BY <1>1, <1>2 DEF Accounted
  <2> QED  BY <1>1, <1>2, <2>1, BudgetStep DEF SoloInv, TypeOK
<1> QED  BY <1>1, <1>3 DEF SoloInv, Active, Driving

LEMMA FinishSolo ==
    ASSUME OneTab, TypeOK, TypeOK', SoloInv, NEW t \in Tabs, Finish(t)
    PROVE  SoloInv' /\ \A i \in Items : items[i].state = "done"
<1>1. /\ UNCHANGED <<items, sent, cuts>> /\ pc[t] = "boundary" /\ cur[t] = N + 1
      /\ pc'[t] = "off" /\ \A u \in Tabs : u = t
      /\ \A j \in Items : j < cur[t] => items[j].state = "done"
  BY DEF Finish, Goto, TypeOK, SoloInv, Active, OneTab, chain
<1>2. \A i \in Items : items[i].state = "done"
  BY <1>1, NAssumption DEF Items
<1>3. FundBudget'
  <2>1. \A i \in Items : Accounted(i) => Accounted(i)'
    BY <1>1 DEF Accounted
  <2> QED  BY <1>1, <2>1, BudgetStep DEF SoloInv, TypeOK
<1> QED  BY <1>1, <1>2, <1>3 DEF SoloInv, Active, Driving

(* Pausing, discarding, blocks, the indexer and stuttering.                *)
LEMMA OutsideSolo ==
    ASSUME OneTab, TypeOK, TypeOK', SoloInv,
           \/ \E t \in Tabs : Pause(t)
           \/ \E i \in Items : Confirm(i) \/ IndexSync(i)
           \/ Discard
           \/ UNCHANGED vars
    PROVE  SoloInv'
<1>1. /\ UNCHANGED <<items, sent, cuts, pc, cur, copy>>
      /\ state' = "done" => state = "done"
  BY DEF Pause, Confirm, IndexSync, Discard, vars, store, chain, tab
<1>2. FundBudget'
  <2>1. \A i \in Items : Accounted(i) => Accounted(i)'
    BY <1>1 DEF Accounted
  <2> QED  BY <1>1, <2>1, BudgetStep DEF SoloInv, TypeOK
<1> QED  BY <1>1, <1>2 DEF SoloInv, Mine

LEMMA InitSolo == Init => SoloInv
<1> SUFFICES ASSUME Init PROVE SoloInv
  OBVIOUS
<1>1. FundBudget
  BY DEF Init, FundBudget, Accounted
<1> QED  BY <1>1 DEF Init, SoloInv, Active, Driving

LEMMA NextSolo ==
    ASSUME OneTab, TypeOK, Backing, SoloInv, [Next]_vars
    PROVE  SoloInv'
<1>1. TypeOK'
  BY NextType
<1>2. ASSUME NEW t \in Tabs, Drive(t)  PROVE SoloInv'
  BY <1>1, <1>2, PersistsSolo, DrivesSolo, MarkDoneSolo DEF Drive
<1>3. ASSUME NEW t \in Tabs,
             Loop(t) \/ Continue(t) \/ Hiccup(t) \/ Crash(t) \/ AnswerLost(t)
      PROVE  SoloInv'
  BY <1>1, <1>3, RunSolo, BoundarySolo, FinishSolo, LeaveSolo DEF Loop
<1>4. CASE \/ \E t \in Tabs : Pause(t)
           \/ \E i \in Items : Confirm(i) \/ IndexSync(i)
           \/ Discard
           \/ UNCHANGED vars
  BY <1>1, <1>4, OutsideSolo
<1> QED  BY <1>2, <1>3, <1>4 DEF Next

LEMMA SoloInvariant == ASSUME OneTab PROVE Spec => [](TypeOK /\ Backing /\ SoloInv)
<1>1. Init => TypeOK /\ Backing /\ SoloInv
  BY InitType, InitBacking, InitSolo
<1>2. TypeOK /\ Backing /\ SoloInv /\ [Next]_vars => (TypeOK /\ Backing /\ SoloInv)'
  BY NextType, NextBacking, NextSolo
<1> QED  BY <1>1, <1>2, PTL DEF Spec

(* Run by one tab at a time, an item is funded once, plus at most once for *)
(* every tab that died and every answer that was lost.                     *)
THEOREM FundingIsBudgeted == ASSUME OneTab PROVE Spec => []FundBudget
<1>1. SoloInv => FundBudget
  BY DEF SoloInv
<1> QED  BY <1>1, SoloInvariant, PTL

(* Run by one tab at a time, a batch stored 'done' has every item done and *)
(* a position on the chain for each.                                       *)
THEOREM DoneIsDone == ASSUME OneTab PROVE Spec => []DoneMeansDone
<1>1. Backing /\ SoloInv => DoneMeansDone
  BY DEF Backing, SoloInv, DoneMeansDone, Backed, SaysMinted, Facts
<1> QED  BY <1>1, SoloInvariant, PTL

-----------------------------------------------------------------------------
(* The refinement of TreasuryPromise.                                      *)

Promised == [Promise!Next]_(Promise!vars)

(* What one saved record may claim after another.                          *)
Advances(old, new, f) ==
    \/ Claimed(new) = Claimed(old)
    \/ Claimed(old) = "open" /\ Claimed(new) = "paid" /\ f.paid
    \/ Claimed(old) = "paid" /\ Claimed(new) = "locked" /\ f.minted
    \/ Claimed(old) = "locked" /\ Claimed(new) = "done"

(* A step that the promise does not see.                                   *)
LEMMA Unseen ==
    ASSUME UNCHANGED <<items, sent, mints, cuts>>, state' = "done" <=> state = "done"
    PROVE  Promised
  BY DEF Promised, Promise!vars

(* A step that changes one item of the stored array keeps the promise if   *)
(* the record advances.                                                    *)
LEMMA ClaimStep ==
    ASSUME TypeOK, NEW k \in Items, NEW rec,
           items' = [items EXCEPT ![k] = rec],
           UNCHANGED <<sent, mints, cuts, state>>,
           Advances(items[k], rec, Facts(k))
    PROVE  Promised
<1> DEFINE claims == [i \in Items |-> Claimed(items[i])]
<1>1. claims' = [claims EXCEPT ![k] = Claimed(rec)]
  BY DEF TypeOK
<1>2. claims[k] = Claimed(items[k])
  OBVIOUS
<1>3. CASE Claimed(rec) = Claimed(items[k])
  <2>1. claims' = claims
    BY <1>1, <1>2, <1>3
  <2> QED  BY <2>1 DEF Promised, Promise!vars
<1>4. CASE Claimed(rec) # Claimed(items[k])
  <2>1. \/ claims[k] = "open" /\ sent[k] > 0 /\ claims' = [claims EXCEPT ![k] = "paid"]
        \/ claims[k] = "paid" /\ mints[k] > 0 /\ claims' = [claims EXCEPT ![k] = "locked"]
        \/ claims[k] = "locked" /\ claims' = [claims EXCEPT ![k] = "done"]
    BY <1>1, <1>2, <1>4 DEF Advances, Facts
  <2>2. Promise!Claim(k)
    BY <2>1 DEF Promise!Claim
  <2> QED  BY <2>2 DEF Promised, Promise!Next
<1> QED  BY <1>3, <1>4

LEMMA RecordAdvances ==
    ASSUME NEW rec \in ItemRecord, NEW f, Backed(rec, f)
    PROVE  /\ rec.state = "pending" =>
                /\ Advances(rec, [rec EXCEPT !.walletId = TRUE], f)
                /\ Advances(rec, [rec EXCEPT !.state = "created"], f)
           /\ rec.state = "created" /\ f.paid =>
                /\ Advances(rec, [rec EXCEPT !.fundTxid = TRUE], f)
                /\ Advances(rec, [rec EXCEPT !.state = "funded"], f)
           /\ rec.state = "funded" /\ f.minted =>
                /\ Advances(rec, [rec EXCEPT !.positionTxid = TRUE], f)
                /\ Advances(rec, [rec EXCEPT !.state = "minted"], f)
           /\ rec.state = "minted" => Advances(rec, [rec EXCEPT !.state = "done"], f)
<1> USE DEF Advances, Claimed, SaysFunded, SaysMinted, ItemRecord, ItemStates
<1>1. CASE rec.state = "pending"
  BY <1>1
<1>2. CASE rec.state = "created"
  BY <1>2 DEF Backed
<1>3. CASE rec.state = "funded"
  BY <1>3
<1>4. CASE rec.state = "minted"
  BY <1>4
<1>5. CASE rec.state = "done"
  BY <1>5
<1> QED  BY <1>1, <1>2, <1>3, <1>4, <1>5

LEMMA SavesPromised ==
    ASSUME OneTab, TypeOK, Backing, SoloInv, NEW t \in Tabs,
           \/ SaveWallet(t) \/ MarkCreated(t) \/ FundAnswered(t) \/ MarkFunded(t)
           \/ MintAnswered(t) \/ MarkMinted(t) \/ SkipFunding(t) \/ AdoptPosition(t)
           \/ MarkDone(t)
    PROVE  Promised
<1> DEFINE Saves(rec) ==
             /\ items' = [copy[t] EXCEPT ![cur[t]] = rec]
             /\ Advances(Mine(t), rec, Facts(cur[t]))
<1>1. /\ UNCHANGED <<sent, mints, cuts, state>> /\ pc[t] \in Driving
      /\ \E rec : Saves(rec)
  <2> USE DrivingFacts, RecordAdvances DEF Knows, Driving, chain, Persist
  <2>1. CASE SaveWallet(t)  BY <2>1 DEF SaveWallet
  <2>2. CASE MarkCreated(t)  BY <2>2 DEF MarkCreated
  <2>3. CASE FundAnswered(t)  BY <2>3 DEF FundAnswered
  <2>4. CASE MarkFunded(t)  BY <2>4 DEF MarkFunded
  <2>5. CASE MintAnswered(t)  BY <2>5 DEF MintAnswered
  <2>6. CASE MarkMinted(t)  BY <2>6 DEF MarkMinted
  <2>7. CASE SkipFunding(t)
    <3>1. cur[t] \in Items  BY <2>7 DEF SkipFunding
    <3> QED  BY <2>7, <3>1, IndexBacked DEF SkipFunding, Backed, SaysFunded
  <2>8. CASE AdoptPosition(t)
    <3>1. cur[t] \in Items  BY <2>8 DEF AdoptPosition
    <3> QED  BY <2>8, <3>1, IndexBacked DEF AdoptPosition
  <2>9. CASE MarkDone(t)  BY <2>9 DEF MarkDone
  <2> QED  BY <2>1, <2>2, <2>3, <2>4, <2>5, <2>6, <2>7, <2>8, <2>9
<1>2. PICK rec : Saves(rec)
  BY <1>1
<1>3. copy[t] = items /\ Mine(t) = items[cur[t]] /\ cur[t] \in Items
  BY <1>1 DEF SoloInv, Active, Mine, TypeOK
<1>4. items' = [items EXCEPT ![cur[t]] = rec]
  BY <1>2, <1>3
<1>5. Advances(items[cur[t]], rec, Facts(cur[t]))
  BY <1>2, <1>3
<1> QED  BY <1>1, <1>3, <1>4, <1>5, ClaimStep

(* Funding is a payment the promise allows: the record does not claim the  *)
(* item was funded, and the budget holds.                                  *)
LEMMA FundPromised ==
    ASSUME OneTab, TypeOK, Backing, SoloInv, NEW t \in Tabs, Fund(t)
    PROVE  Promised
<1> DEFINE k == cur[t]
<1>1. /\ pc[t] = "fund" /\ k \in Items /\ Mine(t) = items[k] /\ Mine(t) \in ItemRecord
      /\ \A u \in Tabs : u = t
  BY DrivingFacts DEF Fund, SoloInv, Active, Driving, Mine, OneTab
<1>2. ~Mine(t).fundTxid /\ Mine(t).state = "created" /\ Backed(Mine(t), Facts(k))
  BY <1>1, DrivingFacts DEF SoloInv, Knows, Driving
<1>3. ~Accounted(k) /\ Claimed(items[k]) = "open"
  BY <1>1, <1>2 DEF Accounted, Claimed, SaysFunded, SaysMinted, Backed
<1>4. sent[k] <= cuts
  BY <1>1, <1>3 DEF SoloInv, FundBudget
<1>5. Promise!Pay(k)
  BY <1>1, <1>3, <1>4 DEF Promise!Pay, Fund, store
<1> QED  BY <1>1, <1>5 DEF Promised, Promise!Next

(* A mint locks a coin that was paid and is not locked yet.                *)
LEMMA MintPromised ==
    ASSUME OneTab, TypeOK, Backing, SoloInv, NEW t \in Tabs, Mint(t)
    PROVE  Promised
<1> DEFINE k == cur[t]
<1>1. /\ pc[t] = "mint" /\ k \in Items /\ Mine(t) = items[k] /\ Mine(t) \in ItemRecord
      /\ Mine(t).state = "funded"
  BY DrivingFacts DEF Mint, SoloInv, Active, Driving, Mine, Knows
<1>2. Claimed(items[k]) \in {"paid", "locked"}
  BY <1>1 DEF Claimed, SaysFunded
<1>3. mints[k] < sent[k]
  BY <1>1 DEF Mint, Backing, Counted, TypeOK
<1>4. Promise!Lock(k)
  BY <1>1, <1>2, <1>3 DEF Promise!Lock, Mint, store
<1> QED  BY <1>1, <1>4 DEF Promised, Promise!Next

LEMMA FinishPromised ==
    ASSUME OneTab, TypeOK, TypeOK', SoloInv, NEW t \in Tabs, Finish(t)
    PROVE  Promised
<1>1. \A i \in Items : items[i].state = "done"
  BY FinishSolo
<1>2. Promise!Close
  BY <1>1 DEF Promise!Close, Claimed, Finish, chain
<1> QED  BY <1>2 DEF Promised, Promise!Next

LEMMA CutPromised ==
    ASSUME OneTab, TypeOK, SoloInv, NEW t \in Tabs, Crash(t) \/ AnswerLost(t)
    PROVE  Promised
<1>1. /\ UNCHANGED <<items, sent, mints>> /\ cuts < MaxCuts /\ cuts' = cuts + 1
      /\ state # "done" /\ state' # "done"
  BY DEF Crash, AnswerLost, Fail, store, chain, SoloInv
<1>2. Promise!Cut
  BY <1>1 DEF Promise!Cut
<1> QED  BY <1>2 DEF Promised, Promise!Next

(* The steps of the loop, of the user and of the world that the promise    *)
(* does not see.                                                           *)
LEMMA OtherwiseUnseen ==
    ASSUME OneTab, TypeOK, SoloInv,
           \/ \E t \in Tabs :
                \/ HasWallet(t) \/ NeedFunding(t) \/ WaitFunded(t) \/ NoPosition(t)
                \/ CreateWallet(t) \/ PutStub(t) \/ WriteMeta(t)
                \/ Continue(t) \/ Run(t) \/ GiveUp(t) \/ Boundary(t) \/ Stop(t)
                \/ Hiccup(t) \/ Pause(t)
           \/ \E i \in Items : Confirm(i) \/ IndexSync(i)
           \/ Discard
           \/ UNCHANGED vars
    PROVE  Promised
<1>1. UNCHANGED <<items, sent, mints, cuts>>
  BY DEF HasWallet, NeedFunding, WaitFunded, NoPosition, CreateWallet, PutStub,
         WriteMeta, Continue, Run, GiveUp, Boundary, Stop, Hiccup, Fail, Pause,
         Confirm, IndexSync, Discard, vars, store, chain
<1>2. state' = "done" <=> state = "done"
  BY DEF HasWallet, NeedFunding, WaitFunded, NoPosition, CreateWallet, PutStub,
         WriteMeta, Continue, Run, GiveUp, Boundary, Stop, Hiccup, Fail, Pause,
         Confirm, IndexSync, Discard, vars, store, SoloInv
<1> QED  BY <1>1, <1>2, Unseen

LEMMA NextPromised ==
    ASSUME OneTab, TypeOK, Backing, SoloInv, [Next]_vars
    PROVE  Promised
<1>1. TypeOK'
  BY NextType
<1>2. ASSUME NEW t \in Tabs, Drive(t)  PROVE Promised
  BY <1>2, SavesPromised, FundPromised, MintPromised, OtherwiseUnseen DEF Drive
<1>3. ASSUME NEW t \in Tabs,
             Loop(t) \/ Continue(t) \/ Hiccup(t) \/ Pause(t) \/ Crash(t) \/ AnswerLost(t)
      PROVE  Promised
  BY <1>1, <1>3, FinishPromised, CutPromised, OtherwiseUnseen DEF Loop
<1>4. CASE (\E i \in Items : Confirm(i) \/ IndexSync(i)) \/ Discard \/ UNCHANGED vars
  BY <1>4, OtherwiseUnseen
<1> QED  BY <1>2, <1>3, <1>4 DEF Next

(* Run by one tab at a time, the engine implements TreasuryPromise.        *)
THEOREM PromiseIsKept == ASSUME OneTab PROVE Spec => KeepsPromise
<1>1. Init => Promise!Init
  BY DEF Init, Promise!Init, Fresh, Claimed, SaysFunded, SaysMinted
<1>2. TypeOK /\ Backing /\ SoloInv /\ [Next]_vars => [Promise!Next]_(Promise!vars)
  BY NextPromised DEF Promised
<1> QED  BY <1>1, <1>2, SoloInvariant, PTL DEF Spec, KeepsPromise, Promise!Spec
============================================================================
