------------------------------- MODULE Spend --------------------------------
(***************************************************************************)
(* From a review to the network and back (apps/wallet/public/app.js, the   *)
(* send, consolidate, mint and transfer flows, and broadcastlog.js): each  *)
(* tab plans a transaction, shows it, signs it once when it is confirmed,  *)
(* records it in the pending-broadcast log that the tabs share, and sends  *)
(* it.  Answers are lost, requests arrive late, the user locks, switches   *)
(* and cancels in the middle, and tabs die.                                *)
(*                                                                         *)
(* A transaction is the number of its signing; the coins it spends show    *)
(* only in the node's right to refuse it.                                  *)
(***************************************************************************)
EXTENDS Integers, Sequences, FiniteSets

CONSTANTS
    Tabs,
    Owners,      \* the vault's wallets
    Locked,      \* no wallet is open
    MaxRecords,  \* MAX_RECORDS
    MaxReviews,  \* bound: reviews started
    MaxSigned,   \* bound: transactions signed
    MaxCalls     \* bound: broadcasts made

ASSUME SpendAssumption ==
    /\ Locked \notin Owners
    /\ MaxRecords \in Nat \ {0}
    /\ {MaxReviews, MaxSigned, MaxCalls} \subseteq Nat

VARIABLES
    opened,    \* tab -> the wallet that is open
    review,    \* tab -> the review under way
    draft,     \* tab -> what waits for its confirmation: pendingSend, pendingMint, ...
    call,      \* tab -> the broadcast under way
    log,       \* the records of the pending-broadcast log
    reviews,   \* reviews started
    signed,    \* transaction -> the review it was signed for
    net,       \* transaction -> where the network has it
    wire,      \* transactions whose request the wallet gave up on and may still arrive
    calls,     \* ghost: broadcasts made; also the age of a record
    sent,      \* ghost: the transactions handed to the network
    told,      \* ghost: those whose outcome the user was told
    excused    \* ghost: those whose record was evicted, or refused by the storage

spendVars == <<opened, review, draft, call, log, reviews, signed, net, wire, calls, sent, told, excused>>

NoReview == [owner |-> Locked, number |-> 0, spanned |-> FALSE]
NoDraft == [owner |-> Locked, number |-> 0, spanned |-> FALSE, tx |-> 0]
NoCall == [phase |-> "none", tx |-> 0, number |-> 0, rec |-> 0, answer |-> "none", recovers |-> FALSE]
Txs == 1 .. MaxSigned
Answers == {"ok", "already", "reject", "unknown"}

Reviewed == [owner: Owners \union {Locked}, number: 0 .. MaxReviews, spanned: BOOLEAN]
Drafted == [owner: Owners \union {Locked}, number: 0 .. MaxReviews, spanned: BOOLEAN, tx: 0 .. MaxSigned]
Called == [phase: {"none", "signing", "recording", "sending", "answered"},
           tx: 0 .. MaxSigned, number: 0 .. MaxReviews, rec: 0 .. MaxCalls,
           answer: Answers \union {"none"}, recovers: BOOLEAN]

SpendTypeOK ==
    /\ opened \in [Tabs -> Owners \union {Locked}]
    /\ review \in [Tabs -> Reviewed]
    /\ draft \in [Tabs -> Drafted]
    /\ call \in [Tabs -> Called]
    /\ \A t \in Tabs : call[t].phase \notin {"none", "signing"} => call[t].tx # 0
    /\ log \subseteq [id: 1 .. MaxCalls, tx: Txs]
    /\ reviews \in 0 .. MaxReviews
    /\ signed \in [Txs -> 0 .. MaxReviews]
    /\ net \in [Txs -> {"none", "mempool", "block", "spent"}]
    /\ wire \subseteq Txs /\ calls \in 0 .. MaxCalls
    /\ sent \subseteq Txs /\ told \subseteq Txs /\ excused \subseteq Txs

-----------------------------------------------------------------------------
(* Reviewing *)

\* Review, or the consolidation modal: coins, prices and caps are asked for.
ReviewStarts(t) ==
    /\ opened[t] # Locked /\ review[t] = NoReview /\ draft[t] = NoDraft
    /\ reviews < MaxReviews /\ reviews' = reviews + 1
    /\ review' = [review EXCEPT ![t] = [owner |-> opened[t], number |-> reviews', spanned |-> FALSE]]
    /\ UNCHANGED <<opened, draft, call, log, signed, net, wire, calls, sent, told, excused>>

\* The plan, with the keys of its coins, becomes the draft, whatever is open by now.
ReviewDone(t) ==
    /\ review[t] # NoReview
    /\ review' = [review EXCEPT ![t] = NoReview]
    /\ draft' = [draft EXCEPT ![t] = [owner |-> review[t].owner, number |-> review[t].number,
                                      spanned |-> review[t].spanned, tx |-> 0]]
    /\ UNCHANGED <<opened, call, log, reviews, signed, net, wire, calls, sent, told, excused>>

ReviewFails(t) ==
    /\ review[t] # NoReview
    /\ review' = [review EXCEPT ![t] = NoReview]
    /\ UNCHANGED <<opened, draft, call, log, reviews, signed, net, wire, calls, sent, told, excused>>

\* Cancel, or the modal is closed: resetSend() and its like.
Cancel(t) ==
    /\ draft[t] # NoDraft
    /\ draft' = [draft EXCEPT ![t] = NoDraft]
    /\ UNCHANGED <<opened, review, call, log, reviews, signed, net, wire, calls, sent, told, excused>>

\* Mutant: the drafts stay, with their keys.
ResetKeepsDrafts(t) ==
    /\ review' = IF review[t] = NoReview THEN review ELSE [review EXCEPT ![t].spanned = TRUE]
    /\ UNCHANGED <<draft, call, log, reviews, signed, net, wire, calls, sent, told, excused>>

\* resetWalletState(): the drafts go with the seed; what is awaited goes on.
Reset(t) ==
    /\ draft' = [draft EXCEPT ![t] = NoDraft]
    /\ review' = IF review[t] = NoReview THEN review ELSE [review EXCEPT ![t].spanned = TRUE]
    /\ UNCHANGED <<call, log, reviews, signed, net, wire, calls, sent, told, excused>>

\* Unlocking, switching and locking.
Opens(t, w) ==
    /\ opened[t] # w /\ opened' = [opened EXCEPT ![t] = w]
    /\ Reset(t)

\* The page dies: reload, crash, tab closed.
PageDies(t) ==
    /\ <<opened[t], review[t], draft[t], call[t]>> # <<Locked, NoReview, NoDraft, NoCall>>
    /\ opened' = [opened EXCEPT ![t] = Locked]
    /\ review' = [review EXCEPT ![t] = NoReview]
    /\ draft' = [draft EXCEPT ![t] = NoDraft]
    /\ call' = [call EXCEPT ![t] = NoCall]
    /\ wire' = IF call[t].phase = "sending" THEN wire \union {call[t].tx} ELSE wire
    /\ UNCHANGED <<log, reviews, signed, net, calls, sent, told, excused>>

-----------------------------------------------------------------------------
(* Confirming *)

\* The next transaction to be signed.
Fresh == Cardinality({x \in Txs : signed[x] # 0}) + 1

\* Mutant: every confirmation signs anew.
KeptNever(d) == FALSE

\* The draft was signed before: its bytes are used again.
Kept(d) == d.tx # 0

Calling(tx, n) ==
    [phase |-> "recording", tx |-> tx, number |-> n, rec |-> 0, answer |-> "none", recovers |-> FALSE]

\* Confirm: sign once, and once more only send.
Confirm(t) ==
    /\ draft[t] # NoDraft /\ call[t] = NoCall /\ opened[t] # Locked
    /\ IF Kept(draft[t])
       THEN /\ call' = [call EXCEPT ![t] = Calling(draft[t].tx, draft[t].number)]
            /\ UNCHANGED <<draft, signed>>
       ELSE /\ Fresh <= MaxSigned
            /\ draft' = [draft EXCEPT ![t].tx = Fresh]
            /\ signed' = [signed EXCEPT ![Fresh] = draft[t].number]
            /\ call' = [call EXCEPT ![t] = Calling(Fresh, draft[t].number)]
    /\ UNCHANGED <<opened, review, log, reviews, net, wire, calls, sent, told, excused>>

\* Confirming a mint asks the node for its height before it signs.
ConfirmMint(t) ==
    /\ draft[t] # NoDraft /\ ~Kept(draft[t]) /\ call[t] = NoCall /\ opened[t] # Locked
    /\ call' = [call EXCEPT ![t] = [NoCall EXCEPT !.phase = "signing", !.number = draft[t].number]]
    /\ UNCHANGED <<opened, review, draft, log, reviews, signed, net, wire, calls, sent, told, excused>>

\* The height is there: the plan captured before the wait is signed, and kept in the
\* draft of now, which may be another one.
MintSigned(t) ==
    /\ call[t].phase = "signing" /\ draft[t] # NoDraft /\ Fresh <= MaxSigned
    /\ draft' = [draft EXCEPT ![t].tx = Fresh]
    /\ signed' = [signed EXCEPT ![Fresh] = call[t].number]
    /\ call' = [call EXCEPT ![t] = Calling(Fresh, call[t].number)]
    /\ UNCHANGED <<opened, review, log, reviews, net, wire, calls, sent, told, excused>>

\* The height could not be had, or the draft is gone.
MintFails(t) ==
    /\ call[t].phase = "signing"
    /\ call' = [call EXCEPT ![t] = NoCall]
    /\ UNCHANGED <<opened, review, draft, log, reviews, signed, net, wire, calls, sent, told, excused>>

-----------------------------------------------------------------------------
(* Broadcasting: broadcastLogged() and the log *)

\* record(): the oldest records make room.
Room == {r \in log : Cardinality({q \in log : q.id > r.id}) < MaxRecords - 1}

\* The record is stored, then the transaction sent.  Without storage it is sent
\* anyway.
Record(t) ==
    /\ call[t].phase = "recording" /\ calls < MaxCalls
    /\ calls' = calls + 1
    /\ \/ /\ log' = Room \union {[id |-> calls', tx |-> call[t].tx]}
          /\ excused' = excused \union {r.tx : r \in log \ Room}
          /\ call' = [call EXCEPT ![t].phase = "sending", ![t].rec = calls']
       \/ /\ excused' = excused \union {call[t].tx}
          /\ call' = [call EXCEPT ![t].phase = "sending"]
          /\ UNCHANGED log
    /\ sent' = sent \union {call[t].tx}
    /\ UNCHANGED <<opened, review, draft, reviews, signed, net, wire, told>>

\* What the node says of a transaction.  "Already in the block chain" is no answer
\* isAlreadyBroadcast() or isDefiniteBroadcastReject() knows.
Says(tx) ==
    CASE net[tx] = "none" -> {"ok", "reject"}
      [] net[tx] = "mempool" -> {"already"}
      [] net[tx] = "block" -> {"unknown"}
      [] net[tx] = "spent" -> {"reject"}

Taken(tx, answer) == IF answer = "ok" THEN [net EXCEPT ![tx] = "mempool"] ELSE net

\* The node handles the request; the answer arrives or is lost.
Handled(t) ==
    /\ call[t].phase = "sending"
    /\ \E a \in Says(call[t].tx), heard \in BOOLEAN :
          /\ net' = Taken(call[t].tx, a)
          /\ call' = [call EXCEPT ![t].phase = "answered", ![t].answer = IF heard THEN a ELSE "unknown"]
    /\ UNCHANGED <<opened, review, draft, log, reviews, signed, wire, calls, sent, told, excused>>

\* The wallet gives up waiting; the request may still arrive.
TimesOut(t) ==
    /\ call[t].phase = "sending"
    /\ call' = [call EXCEPT ![t].phase = "answered", ![t].answer = "unknown"]
    /\ wire' = wire \union {call[t].tx}
    /\ UNCHANGED <<opened, review, draft, log, reviews, signed, net, calls, sent, told, excused>>

ArrivesLate(tx) ==
    /\ tx \in wire /\ wire' = wire \ {tx}
    /\ \E a \in Says(tx) : net' = Taken(tx, a)
    /\ UNCHANGED <<opened, review, draft, call, log, reviews, signed, calls, sent, told, excused>>

Settled(t) == call[t].phase = "answered" /\ call[t].answer # "unknown"

Removed(id) == {r \in log : r.id # id}

\* The node's answer: the record goes.  Success also resets the flow, even one that
\* was cancelled and planned anew meanwhile; a rejection leaves the draft.
Answered(t) ==
    /\ Settled(t)
    /\ log' = Removed(call[t].rec)
    /\ told' = told \union {call[t].tx}
    /\ draft' = IF call[t].answer # "reject" /\ ~call[t].recovers
                THEN [draft EXCEPT ![t] = NoDraft] ELSE draft
    /\ call' = [call EXCEPT ![t] = NoCall]
    /\ UNCHANGED <<opened, review, reviews, signed, net, wire, calls, sent, excused>>

\* Mutant: whatever the outcome, the record goes.
UnansweredForgets(t) ==
    /\ call[t].phase = "answered" /\ call[t].answer = "unknown"
    /\ log' = Removed(call[t].rec)
    /\ call' = [call EXCEPT ![t] = NoCall]
    /\ UNCHANGED <<opened, review, draft, reviews, signed, net, wire, calls, sent, told, excused>>

\* No answer one can trust: "MAY have been broadcast".  Record and draft stay.
Unanswered(t) ==
    /\ call[t].phase = "answered" /\ call[t].answer = "unknown"
    /\ call' = [call EXCEPT ![t] = NoCall]
    /\ UNCHANGED <<opened, review, draft, log, reviews, signed, net, wire, calls, sent, told, excused>>

-----------------------------------------------------------------------------
(* The recovery card: renderPendingTx() *)

\* Rebroadcast: the same bytes once more, of any wallet's record.
Rebroadcast(t, r) ==
    /\ call[t] = NoCall /\ calls < MaxCalls
    /\ calls' = calls + 1
    /\ call' = [call EXCEPT ![t] = [phase |-> "sending", tx |-> r.tx, number |-> 0, rec |-> r.id,
                                    answer |-> "none", recovers |-> TRUE]]
    /\ UNCHANGED <<opened, review, draft, log, reviews, signed, net, wire, sent, told, excused>>

\* Check status: the indexer sees it, so it went through.
Check(t, r) ==
    /\ net[r.tx] # "none"
    /\ log' = Removed(r.id)
    /\ told' = told \union {r.tx}
    /\ UNCHANGED <<opened, review, draft, call, reviews, signed, net, wire, calls, sent, excused>>

-----------------------------------------------------------------------------
(* The network, the specification *)

Mined(tx) ==
    /\ net[tx] = "mempool" /\ net' = [net EXCEPT ![tx] = "block"]
    /\ UNCHANGED <<opened, review, draft, call, log, reviews, signed, wire, calls, sent, told, excused>>

\* Its outputs are spent: the node no longer knows it.
OutputsSpent(tx) ==
    /\ net[tx] = "block" /\ net' = [net EXCEPT ![tx] = "spent"]
    /\ UNCHANGED <<opened, review, draft, call, log, reviews, signed, wire, calls, sent, told, excused>>

SpendInit ==
    /\ opened = [t \in Tabs |-> Locked]
    /\ review = [t \in Tabs |-> NoReview]
    /\ draft = [t \in Tabs |-> NoDraft]
    /\ call = [t \in Tabs |-> NoCall]
    /\ log = {} /\ reviews = 0 /\ calls = 0
    /\ signed = [x \in Txs |-> 0]
    /\ net = [x \in Txs |-> "none"]
    /\ wire = {} /\ sent = {} /\ told = {} /\ excused = {}

SpendNext ==
    \/ \E t \in Tabs :
          \/ ReviewStarts(t) \/ ReviewDone(t) \/ ReviewFails(t) \/ Cancel(t)
          \/ \E w \in Owners \union {Locked} : Opens(t, w)
          \/ PageDies(t)
          \/ Confirm(t) \/ ConfirmMint(t) \/ MintSigned(t) \/ MintFails(t)
          \/ Record(t) \/ Handled(t) \/ TimesOut(t) \/ Answered(t) \/ Unanswered(t)
          \/ \E r \in log : Rebroadcast(t, r) \/ Check(t, r)
    \/ \E tx \in Txs : ArrivesLate(tx) \/ Mined(tx) \/ OutputsSpent(tx)

SpendSpec == SpendInit /\ [][SpendNext]_spendVars

-----------------------------------------------------------------------------
(* Properties *)

\* A transaction that was handed to the network stays in the log until the user is
\* told what became of it, whoever locks, switches, dies or retries meanwhile;
\* unless twenty later ones evicted it or the storage refused it.
OutcomeKept ==
    \A x \in sent \ (told \union excused) : \E r \in log : r.tx = x

\* No draft, with the keys of its coins, outlives the lock or the switch that tore
\* its wallet down, unless its review was under way then (see the findings).
DraftsOfTheOpen ==
    \A t \in Tabs : draft[t] # NoDraft => draft[t].owner = opened[t] \/ draft[t].spanned

\* One review, one transaction: retries after a lost answer send the same bytes.
OneTxPerReview ==
    \A x, y \in Txs : signed[x] # 0 /\ signed[x] = signed[y] => x = y
=============================================================================
