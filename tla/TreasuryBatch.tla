--------------------------- MODULE TreasuryBatch ---------------------------
(***************************************************************************)
(* The resumable executor behind "Split into Treasuries":                  *)
(* public/treasury-engine.js, the registry it persists in (treasuries.js)  *)
(* and the runner and side effects that treasury-ui.js gives it.           *)
(*                                                                         *)
(* A batch is a list of items. For each one a browser tab creates a        *)
(* wallet, funds its address, waits for the coin to confirm, mints         *)
(* DigiDollar against it and completes the treasury's metadata, writing    *)
(* the batch record to localStorage after every step. The tab may die      *)
(* between any two steps, an answer of the network may be lost after the   *)
(* node accepted the transaction, and two tabs may run the same batch.     *)
(*                                                                         *)
(* Amounts are abstracted: a funding transaction pays one item exactly the *)
(* coin that one mint needs, so the chain is counted per item.             *)
(***************************************************************************)
EXTENDS Naturals

CONSTANTS
    Tabs,       \* browser tabs of this wallet, sharing one localStorage
    N,          \* treasuries in the batch
    MaxCuts     \* bound: tabs killed and answers lost, together

ASSUME NAssumption == N \in Nat \ {0}
ASSUME CutsAssumption == MaxCuts \in Nat

Items == 1 .. N

ItemStates == {"pending", "created", "funded", "minted", "done"}

ItemRecord == [state : ItemStates, walletId : BOOLEAN,
               fundTxid : BOOLEAN, positionTxid : BOOLEAN]

VARIABLES
    \* --- localStorage: the stored batch record and the treasury records
    items,      \* the stored items array
    state,      \* the stored batch state
    meta,       \* the treasury record of each item's wallet
    \* --- IndexedDB: does the vault hold a wallet under the item's name?
    wallet,
    \* --- the chain, per item
    sent,       \* funding transactions the node accepted
    conf,       \* how many of them are confirmed
    mints,      \* mint transactions the node accepted (each spends a coin)
    \* --- the indexer's last view of the item's address
    iconf,      \* confirmed funding coins it knows
    imint,      \* mints it knows: coins spent, positions open
    \* --- each tab
    pc,         \* where its batch loop is; "off" when none is active
    cur,        \* the item the loop is at; N+1 past the last
    copy,       \* run()'s own copy of the items array
    sig,        \* the loop's AbortSignal, set by "Pause the rest"
    \* --- bounds
    cuts        \* tabs killed and answers lost so far

store == <<items, state>>
chain == <<sent, conf, mints>>
index == <<iconf, imint>>
tab   == <<pc, cur, copy, sig>>
vars  == <<items, state, meta, wallet, sent, conf, mints, iconf, imint,
           pc, cur, copy, sig, cuts>>

(* The loop between items, and inside one.                                 *)
Between == {"off", "start", "sleep", "boundary"}
Driving == {"create", "saveWallet", "stub", "markCreated",
            "check", "fund", "fundAck", "markFunded",
            "wait", "position", "mint", "mintAck", "markMinted",
            "coldMeta", "hotMeta", "markDone"}

TypeOK ==
    /\ items \in [Items -> ItemRecord]
    /\ state \in {"running", "done", "aborted"}
    /\ meta \in [Items -> {"none", "stub", "full"}]
    /\ wallet \in [Items -> BOOLEAN]
    /\ sent \in [Items -> Nat] /\ conf \in [Items -> Nat]
    /\ mints \in [Items -> Nat]
    /\ iconf \in [Items -> Nat] /\ imint \in [Items -> Nat]
    /\ pc \in [Tabs -> Between \union Driving]
    /\ cur \in [Tabs -> 1 .. N + 1]
    /\ \A t \in Tabs : pc[t] \in Driving => cur[t] \in Items
    /\ copy \in [Tabs -> [Items -> ItemRecord]]
    /\ sig \in [Tabs -> BOOLEAN]
    /\ cuts \in Nat

-----------------------------------------------------------------------------
(* plan() has stored the batch and the tab that planned it is about to run.*)

Fresh == [state |-> "pending", walletId |-> FALSE,
          fundTxid |-> FALSE, positionTxid |-> FALSE]

Init ==
    /\ items = [i \in Items |-> Fresh]
    /\ state = "running"
    /\ meta = [i \in Items |-> "none"]
    /\ wallet = [i \in Items |-> FALSE]
    /\ sent = [i \in Items |-> 0] /\ conf = [i \in Items |-> 0]
    /\ mints = [i \in Items |-> 0]
    /\ iconf = [i \in Items |-> 0] /\ imint = [i \in Items |-> 0]
    /\ pc = [t \in Tabs |-> "off"]
    /\ cur = [t \in Tabs |-> 1]
    /\ copy = [t \in Tabs |-> [i \in Items |-> Fresh]]
    /\ sig = [t \in Tabs |-> FALSE]
    /\ cuts = 0

(* A confirmed coin at the address, unspent as far as the indexer knows.   *)
Seen(i) == iconf[i] > imint[i]

Goto(t, next) == pc' = [pc EXCEPT ![t] = next]

(* The item the tab drives, in its own copy.                               *)
Mine(t) == copy[t][cur[t]]

(* saveItems: the tab's WHOLE items array replaces the stored one; the     *)
(* batch state is not part of the patch.                                   *)
Persist(t, rec, next) ==
    /\ copy' = [copy EXCEPT ![t] = [copy[t] EXCEPT ![cur[t]] = rec]]
    /\ items' = [copy[t] EXCEPT ![cur[t]] = rec]
    /\ Goto(t, next)
    /\ UNCHANGED <<state, cur, sig>>

(* An error leaves run(): with the signal set the batch is saved 'aborted' *)
(* and the loop ends, otherwise runBatchLoop sleeps and tries again.       *)
Fail(t) ==
    /\ Goto(t, IF sig[t] THEN "off" ELSE "sleep")
    /\ state' = IF sig[t] THEN "aborted" ELSE state
    /\ UNCHANGED <<items, cur, copy, sig>>

-----------------------------------------------------------------------------
(* The runner: runBatchLoop and run().                                     *)

(* The user opens Treasuries or presses Resume; only a stored 'running'    *)
(* batch is offered, and only to a tab whose loop is not active.           *)
Continue(t) ==
    /\ pc[t] = "off" /\ state = "running"
    /\ Goto(t, "start")
    /\ sig' = [sig EXCEPT ![t] = FALSE]
    /\ UNCHANGED <<store, meta, wallet, chain, index, cur, copy, cuts>>

(* run(): load the record, mark it running, start at the first item.       *)
Run(t) ==
    /\ pc[t] = "start" \/ (pc[t] = "sleep" /\ ~sig[t])
    /\ IF state = "done"
         THEN Goto(t, "off") /\ UNCHANGED <<state, cur, copy>>
         ELSE /\ state' = "running"
              /\ copy' = [copy EXCEPT ![t] = items]
              /\ cur' = [cur EXCEPT ![t] = 1]
              /\ Goto(t, "boundary")
    /\ UNCHANGED <<items, meta, wallet, chain, index, sig, cuts>>

(* Paused while asleep: the loop ends and nothing is saved.                *)
GiveUp(t) ==
    /\ pc[t] = "sleep" /\ sig[t]
    /\ Goto(t, "off")
    /\ UNCHANGED <<store, meta, wallet, chain, index, cur, copy, sig, cuts>>

(* driveItem's switch on the item's state, for an item just taken up.      *)
Phase(rec) == CASE rec.state = "pending" -> "create"
                [] rec.state = "created" -> "check"
                [] rec.state = "funded"  -> "wait"
                [] rec.state = "minted"  -> "coldMeta"
                [] rec.state = "done"    -> "boundary"

(* Mutant of Boundary: the loop advances before the item is driven.        *)
BoundaryAdvances(t) ==
    /\ pc[t] = "boundary" /\ cur[t] \in Items
    /\ ~sig[t] /\ state # "aborted"
    /\ Goto(t, Phase(Mine(t)))
    /\ cur' = [cur EXCEPT ![t] = @ + 1]
    /\ UNCHANGED <<store, meta, wallet, chain, index, copy, sig, cuts>>

(* The for loop of run(): a done item is skipped, any other is driven.     *)
Boundary(t) ==
    /\ pc[t] = "boundary" /\ cur[t] \in Items
    /\ ~sig[t] /\ state # "aborted"
    /\ Goto(t, Phase(Mine(t)))
    /\ cur' = IF Mine(t).state = "done" THEN [cur EXCEPT ![t] = @ + 1] ELSE cur
    /\ UNCHANGED <<store, meta, wallet, chain, index, copy, sig, cuts>>

(* Past the last item: the batch is done, whatever was stored meanwhile.   *)
Finish(t) ==
    /\ pc[t] = "boundary" /\ cur[t] = N + 1
    /\ state' = "done"
    /\ Goto(t, "off")
    /\ UNCHANGED <<items, meta, wallet, chain, index, cur, copy, sig, cuts>>

(* BatchAbort: throwIfAborted saw the signal, or the item boundary saw the *)
(* stored batch 'aborted'.                                                 *)
Stop(t) ==
    /\ \/ pc[t] \in {"create", "check", "wait", "position", "coldMeta",
                     "hotMeta"} /\ sig[t]
       \/ pc[t] = "boundary" /\ cur[t] \in Items /\ (sig[t] \/ state = "aborted")
    /\ state' = "aborted"
    /\ Goto(t, "off")
    /\ UNCHANGED <<items, meta, wallet, chain, index, cur, copy, sig, cuts>>

(* Mutant of Hiccup: the broadcast sits inside the retry wrapper, so a     *)
(* slow answer to the funding counts as a failed call.                     *)
HiccupAfterSend(t) ==
    /\ pc[t] \in {"create", "check", "fund", "fundAck", "wait", "position",
                  "mint", "coldMeta"}
    /\ Fail(t)
    /\ UNCHANGED <<meta, wallet, chain, index, cuts>>

(* A call fails for good after its retries, and no effect of it remains:   *)
(* the indexer or the node is unreachable or refuses, the vault refuses a  *)
(* name or is locked (receiveAddress reads it before every wait), or a     *)
(* position is not visible yet.                                            *)
Hiccup(t) ==
    /\ pc[t] \in {"create", "check", "fund", "wait", "position", "mint",
                  "coldMeta"}
    /\ Fail(t)
    /\ UNCHANGED <<meta, wallet, chain, index, cuts>>

-----------------------------------------------------------------------------
(* PENDING: a wallet, its id on record, the stub record, then 'created'.   *)

(* vault.addWallet refuses a name already in the vault (assertNameFree).   *)
CreateWallet(t) ==
    /\ pc[t] = "create" /\ ~sig[t]
    /\ ~Mine(t).walletId /\ ~wallet[cur[t]]
    /\ wallet' = [wallet EXCEPT ![cur[t]] = TRUE]
    /\ Goto(t, "saveWallet")
    /\ UNCHANGED <<store, meta, chain, index, cur, copy, sig, cuts>>

SaveWallet(t) ==
    /\ pc[t] = "saveWallet"
    /\ Persist(t, [Mine(t) EXCEPT !.walletId = TRUE], "stub")
    /\ UNCHANGED <<meta, wallet, chain, index, cuts>>

HasWallet(t) ==
    /\ pc[t] = "create" /\ ~sig[t] /\ Mine(t).walletId
    /\ Goto(t, "stub")
    /\ UNCHANGED <<store, meta, wallet, chain, index, cur, copy, sig, cuts>>

PutStub(t) ==
    /\ pc[t] = "stub"
    /\ meta' = IF meta[cur[t]] = "none" THEN [meta EXCEPT ![cur[t]] = "stub"] ELSE meta
    /\ Goto(t, "markCreated")
    /\ UNCHANGED <<store, wallet, chain, index, cur, copy, sig, cuts>>

MarkCreated(t) ==
    /\ pc[t] = "markCreated"
    /\ Persist(t, [Mine(t) EXCEPT !.state = "created"], "check")
    /\ UNCHANGED <<meta, wallet, chain, index, cuts>>

-----------------------------------------------------------------------------
(* CREATED: fund the address unless a confirmed coin is there.             *)

(* Mutant of SkipFunding: the confirmed amount is not compared.            *)
SkipFundingBlind(t) ==
    /\ pc[t] = "check" /\ ~sig[t]
    /\ Persist(t, [Mine(t) EXCEPT !.state = "funded"], "wait")
    /\ UNCHANGED <<meta, wallet, chain, index, cuts>>

(* confirmedSats, then the fundTxid: either one skips the funding.         *)
SkipFunding(t) ==
    /\ pc[t] = "check" /\ ~sig[t]
    /\ Seen(cur[t]) \/ Mine(t).fundTxid
    /\ Persist(t, [Mine(t) EXCEPT !.state = "funded"], "wait")
    /\ UNCHANGED <<meta, wallet, chain, index, cuts>>

(* Mutant of NeedFunding: the fundTxid on record is not looked at.         *)
NeedFundingAgain(t) ==
    /\ pc[t] = "check" /\ ~sig[t]
    /\ ~Seen(cur[t])
    /\ Goto(t, "fund")
    /\ UNCHANGED <<store, meta, wallet, chain, index, cur, copy, sig, cuts>>

NeedFunding(t) ==
    /\ pc[t] = "check" /\ ~sig[t]
    /\ ~Seen(cur[t]) /\ ~Mine(t).fundTxid
    /\ Goto(t, "fund")
    /\ UNCHANGED <<store, meta, wallet, chain, index, cur, copy, sig, cuts>>

(* fundTreasury: the node accepts the signed transaction.                  *)
Fund(t) ==
    /\ pc[t] = "fund"
    /\ sent' = [sent EXCEPT ![cur[t]] = @ + 1]
    /\ Goto(t, "fundAck")
    /\ UNCHANGED <<store, meta, wallet, conf, mints, index, cur, copy, sig, cuts>>

(* Its answer arrives: the txid is persisted before the state flips.       *)
FundAnswered(t) ==
    /\ pc[t] = "fundAck"
    /\ Persist(t, [Mine(t) EXCEPT !.fundTxid = TRUE], "markFunded")
    /\ UNCHANGED <<meta, wallet, chain, index, cuts>>

MarkFunded(t) ==
    /\ pc[t] = "markFunded"
    /\ Persist(t, [Mine(t) EXCEPT !.state = "funded"], "wait")
    /\ UNCHANGED <<meta, wallet, chain, index, cuts>>

-----------------------------------------------------------------------------
(* FUNDED: wait for the coin, adopt a position or mint one.                *)

(* Mutant of WaitFunded: more than the needed amount has to be there.      *)
WaitFundedMore(t) ==
    /\ pc[t] = "wait" /\ ~sig[t] /\ iconf[cur[t]] > imint[cur[t]] + 1
    /\ Goto(t, "position")
    /\ UNCHANGED <<store, meta, wallet, chain, index, cur, copy, sig, cuts>>

WaitFunded(t) ==
    /\ pc[t] = "wait" /\ ~sig[t] /\ Seen(cur[t])
    /\ Goto(t, "position")
    /\ UNCHANGED <<store, meta, wallet, chain, index, cur, copy, sig, cuts>>

AdoptPosition(t) ==
    /\ pc[t] = "position" /\ ~sig[t] /\ imint[cur[t]] > 0
    /\ Persist(t, [Mine(t) EXCEPT !.positionTxid = TRUE], "markMinted")
    /\ UNCHANGED <<meta, wallet, chain, index, cuts>>

NoPosition(t) ==
    /\ pc[t] = "position" /\ ~sig[t] /\ imint[cur[t]] = 0
    /\ Goto(t, "mint")
    /\ UNCHANGED <<store, meta, wallet, chain, index, cur, copy, sig, cuts>>

(* mintTreasury picks a coin of the indexer's view; the node accepts the   *)
(* mint only if that coin is really unspent (else this is a Hiccup).       *)
Mint(t) ==
    /\ pc[t] = "mint" /\ iconf[cur[t]] > mints[cur[t]]
    /\ mints' = [mints EXCEPT ![cur[t]] = @ + 1]
    /\ Goto(t, "mintAck")
    /\ UNCHANGED <<store, meta, wallet, sent, conf, index, cur, copy, sig, cuts>>

MintAnswered(t) ==
    /\ pc[t] = "mintAck"
    /\ Persist(t, [Mine(t) EXCEPT !.positionTxid = TRUE], "markMinted")
    /\ UNCHANGED <<meta, wallet, chain, index, cuts>>

MarkMinted(t) ==
    /\ pc[t] = "markMinted"
    /\ Persist(t, [Mine(t) EXCEPT !.state = "minted"], "hotMeta")
    /\ UNCHANGED <<meta, wallet, chain, index, cuts>>

-----------------------------------------------------------------------------
(* MINTED: complete the treasury record. A tab that minted knows the facts *)
(* (mintInfo); one that resumes here must see the position on the chain.   *)

(* Mutant of WriteMeta: a cold resume at 'minted' finds no mint facts.     *)
WriteMetaHot(t) ==
    /\ pc[t] = "hotMeta"
    /\ ~sig[t] /\ meta[cur[t]] # "none"
    /\ meta' = [meta EXCEPT ![cur[t]] = "full"]
    /\ Goto(t, "markDone")
    /\ UNCHANGED <<store, wallet, chain, index, cur, copy, sig, cuts>>

WriteMeta(t) ==
    /\ \/ pc[t] = "hotMeta"
       \/ pc[t] = "coldMeta" /\ imint[cur[t]] > 0
    /\ ~sig[t] /\ meta[cur[t]] # "none"
    /\ meta' = [meta EXCEPT ![cur[t]] = "full"]
    /\ Goto(t, "markDone")
    /\ UNCHANGED <<store, wallet, chain, index, cur, copy, sig, cuts>>

MarkDone(t) ==
    LET rec == [Mine(t) EXCEPT !.state = "done"]
    IN  /\ pc[t] = "markDone"
        /\ copy' = [copy EXCEPT ![t] = [copy[t] EXCEPT ![cur[t]] = rec]]
        /\ items' = [copy[t] EXCEPT ![cur[t]] = rec]
        /\ cur' = [cur EXCEPT ![t] = @ + 1]
        /\ Goto(t, "boundary")
        /\ UNCHANGED <<state, sig, meta, wallet, chain, index, cuts>>

-----------------------------------------------------------------------------
(* The user, the network and the world.                                    *)

(* "Pause the rest": AbortController.abort() on the running loop.          *)
Pause(t) ==
    /\ pc[t] # "off" /\ ~sig[t]
    /\ sig' = [sig EXCEPT ![t] = TRUE]
    /\ UNCHANGED <<store, meta, wallet, chain, index, pc, cur, copy, cuts>>

(* "Start over": the stored batch is flipped to 'aborted' (as abort() does).*)
Discard ==
    /\ state = "running"
    /\ state' = "aborted"
    /\ UNCHANGED <<items, meta, wallet, chain, index, tab, cuts>>

(* The tab dies: everything it did not persist is gone.                    *)
Crash(t) ==
    /\ pc[t] # "off" /\ cuts < MaxCuts
    /\ cuts' = cuts + 1
    /\ Goto(t, "off")
    /\ sig' = [sig EXCEPT ![t] = FALSE]
    /\ UNCHANGED <<store, meta, wallet, chain, index, cur, copy>>

(* The node accepted the transaction and the answer is lost on the way:    *)
(* broadcastLogged throws "MAY have been broadcast", an error like any     *)
(* other to the engine.                                                    *)
AnswerLost(t) ==
    /\ pc[t] \in {"fundAck", "mintAck"} /\ cuts < MaxCuts
    /\ cuts' = cuts + 1
    /\ Fail(t)
    /\ UNCHANGED <<meta, wallet, chain, index>>

Confirm(i) ==
    /\ conf[i] < sent[i]
    /\ conf' = [conf EXCEPT ![i] = @ + 1]
    /\ UNCHANGED <<store, meta, wallet, sent, mints, index, tab, cuts>>

(* The indexer catches up with the node at this address.                   *)
IndexSync(i) ==
    /\ iconf' = [iconf EXCEPT ![i] = conf[i]]
    /\ imint' = [imint EXCEPT ![i] = mints[i]]
    /\ UNCHANGED <<store, meta, wallet, chain, tab, cuts>>

Drive(t) ==
    \/ CreateWallet(t) \/ SaveWallet(t) \/ HasWallet(t) \/ PutStub(t)
    \/ MarkCreated(t)
    \/ SkipFunding(t) \/ NeedFunding(t) \/ Fund(t) \/ FundAnswered(t)
    \/ MarkFunded(t)
    \/ WaitFunded(t) \/ AdoptPosition(t) \/ NoPosition(t) \/ Mint(t)
    \/ MintAnswered(t) \/ MarkMinted(t)
    \/ WriteMeta(t) \/ MarkDone(t)

Loop(t) == Run(t) \/ GiveUp(t) \/ Boundary(t) \/ Finish(t) \/ Stop(t)

Next ==
    \/ \E t \in Tabs : \/ Continue(t) \/ Loop(t) \/ Drive(t)
                       \/ Hiccup(t) \/ Pause(t) \/ Crash(t) \/ AnswerLost(t)
    \/ \E i \in Items : Confirm(i) \/ IndexSync(i)
    \/ Discard

Spec == Init /\ [][Next]_vars

(* The loop's own steps are taken; a call that is tried again and again is *)
(* answered in the end; blocks come and the indexer follows; the user      *)
(* comes back to a batch that is still running.                            *)
Fairness ==
    /\ \A t \in Tabs :
         /\ WF_vars(Continue(t)) /\ WF_vars(Loop(t)) /\ WF_vars(Drive(t))
         /\ SF_vars(CreateWallet(t)) /\ SF_vars(HasWallet(t))
         /\ SF_vars(SkipFunding(t)) /\ SF_vars(NeedFunding(t)) /\ SF_vars(Fund(t))
         /\ SF_vars(WaitFunded(t))
         /\ SF_vars(AdoptPosition(t)) /\ SF_vars(NoPosition(t)) /\ SF_vars(Mint(t))
         /\ SF_vars(WriteMeta(t))
    /\ \A i \in Items : WF_vars(Confirm(i)) /\ WF_vars(IndexSync(i))

FairSpec == Spec /\ Fairness

-----------------------------------------------------------------------------
(* What the record says, at each stage an item can be stored in.           *)

SaysFunded(rec) == rec.fundTxid \/ rec.state \in {"funded", "minted", "done"}
SaysMinted(rec) == rec.positionTxid \/ rec.state \in {"minted", "done"}

(* The chain is the source of truth for what happened: whatever dies, is   *)
(* lost or runs twice, the stored record never claims a wallet, a funding, *)
(* a position or completed metadata that does not exist, and a mint only   *)
(* ever spends a confirmed coin of its own item.                           *)
RecordBacked ==
    \A i \in Items :
      /\ items[i].walletId => wallet[i]
      /\ items[i].state # "pending" => items[i].walletId /\ meta[i] # "none"
      /\ SaysFunded(items[i]) => sent[i] > 0
      /\ SaysMinted(items[i]) => mints[i] > 0
      /\ items[i].state = "done" => meta[i] = "full"
      /\ mints[i] <= conf[i] /\ conf[i] <= sent[i]

(* The record, or a tab that awaits the answer, accounts for a funding.    *)
Accounted(i) ==
    \/ SaysFunded(items[i])
    \/ \E t \in Tabs : pc[t] = "fundAck" /\ cur[t] = i

(* With one tab, money goes out for an item once, plus at most once more   *)
(* for every tab killed or answer lost; and as long as nothing accounts    *)
(* for a funding, every payment made is the price of one of those.         *)
FundBudget ==
    \A i \in Items : sent[i] <= (IF Accounted(i) THEN cuts + 1 ELSE cuts)

(* With one tab, a batch stored 'done' has every item done, with a         *)
(* position on the chain behind it.                                        *)
DoneMeansDone ==
    state = "done" => \A i \in Items : items[i].state = "done" /\ mints[i] > 0

(* The engine's header (treasury-engine.js:8-11): a crash after            *)
(* broadcast-but-before-persist must never re-send. So each item is funded *)
(* at most once.                                                           *)
FundedOnce == \A i \in Items : sent[i] <= 1

(* "Start over ... stops offering this batch for resume"                   *)
(* (treasury-ui.js:517-518): an aborted batch does not start running again.*)
StartOverSticks == [][state = "aborted" => state' # "running"]_vars

(* A restart that finds the wallet made and its id not on record: every    *)
(* retry fails on the name.                                                *)
Orphaned(i) == items[i].state = "pending" /\ ~items[i].walletId /\ wallet[i]

(* A restart that finds every coin of a 'funded' item spent by its mint:   *)
(* waitFunded waits for a coin that will not come.                         *)
Spent(i) == items[i].state = "funded" /\ mints[i] = sent[i]

(* The batch finishes by itself, or the user stopped it, or an item stays  *)
(* for ever in one of the two places a cut can wedge it.                   *)
FinishesUnlessWedged ==
    <>(state # "running") \/ <>[](\E i \in Items : Orphaned(i) \/ Spent(i))

(* "existing position ... adopted" and "it finishes by itself"             *)
(* (treasury-engine.js:12-15, treasury-ui.js:459-460): an item whose mint  *)
(* is on the chain gets done, unless the user stops the batch.             *)
MintedFinishes ==
    \A i \in Items : mints[i] > 0 ~> (items[i].state = "done" \/ state = "aborted")

-----------------------------------------------------------------------------
(* What the stored record of an item claims, in TreasuryPromise's stages.  *)
Claimed(rec) == IF rec.state = "done" THEN "done"
                ELSE IF SaysMinted(rec) THEN "locked"
                ELSE IF SaysFunded(rec) THEN "paid"
                ELSE "open"

Promise == INSTANCE TreasuryPromise
             WITH claim <- [i \in Items |-> Claimed(items[i])],
                  over <- (state = "done")

(* With one tab, the batch keeps TreasuryPromise: what the record claims   *)
(* never goes back or ahead of the chain, no item is paid once its record  *)
(* claims it was, and only a batch with every item done is closed.         *)
KeepsPromise == Promise!Spec
=============================================================================
