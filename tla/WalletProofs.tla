---------------------------- MODULE WalletProofs ----------------------------
(***************************************************************************)
(* What holds of the wallet page, for any tabs, wallets and bounds.        *)
(*                                                                         *)
(* The flows that spend: the review, the draft and the broadcast (Spend),  *)
(* the ceiling of a mint (SpendCap) and the gifts (Gift).  OwnedDrafts     *)
(* follows a review into its draft, Numbers tells where the number of an   *)
(* unsigned review still is, RecordsOwn ties a broadcast under way to the  *)
(* record it will remove; CapInv ties a typed phrase to the ceiling it was *)
(* asked for; GiftInv ties a mint to the coin its plan remembers.          *)
(*                                                                         *)
(* The session over the vault (Session): Clean says what a page may show   *)
(* beside a vault that is unlocked or not, FlowOK what a flow that waits   *)
(* for a password or a write may still do, CopyOK how far a tab may be     *)
(* behind the stored record.                                               *)
(*                                                                         *)
(* The treasury screens, for any wallets and any number of renders,        *)
(* reviews, exports and syncs: the record of a move and the handover       *)
(* package (Handover), the dashboard (TreasuryCards), the wizard           *)
(* (SplitWizard) and the repository at GitHub (GithubBackup).              *)
(***************************************************************************)
EXTENDS Spend, SpendCap, Gift, Session, Handover, TreasuryCards, SplitWizard, GithubBackup,
        Sequences, FiniteSetTheorems, TLAPS

-----------------------------------------------------------------------------
(* Type correctness.                                                       *)

LEMMA Bounds == MaxReviews \in Nat /\ MaxSigned \in Nat /\ MaxCalls \in Nat
  BY SpendAssumption

LEMMA TxsPositive == \A x \in Txs : x # 0
  BY Bounds DEF Txs

(* A transaction that may still be signed is one of Txs.                   *)
LEMMA FreshType == ASSUME SpendTypeOK, Fresh <= MaxSigned PROVE Fresh \in Txs
<1> DEFINE used == {x \in Txs : signed[x] # 0}
<1>1. IsFiniteSet(Txs)
  BY FS_Interval, Bounds DEF Txs
<1>2. IsFiniteSet(used)
  BY <1>1, FS_Subset
<1>3. Cardinality(used) \in Nat
  BY <1>2, FS_CardinalityType
<1> HIDE DEF used
<1>4. Fresh = Cardinality(used) + 1
  BY DEF Fresh, used
<1> QED  BY <1>3, <1>4, Bounds DEF Txs

(* The constants of the types.                                             *)
LEMMA Nothing == NoReview \in Reviewed /\ NoDraft \in Drafted /\ NoCall \in Called
  BY Bounds DEF NoReview, NoDraft, NoCall, Reviewed, Drafted, Called, Answers

LEMMA NoCallIs == NoCall.phase = "none" /\ NoCall.tx = 0 /\ NoCall.rec = 0 /\ ~NoCall.recovers
  BY DEF NoCall

(* A broadcast under way is replaced by a record of its type.              *)
LEMMA CallsType ==
    ASSUME SpendTypeOK, NEW t \in Tabs, NEW c \in Called,
           c.phase \notin {"none", "signing"} => c.tx # 0,
           call' = [call EXCEPT ![t] = c]
    PROVE  /\ call' \in [Tabs -> Called]
           /\ \A u \in Tabs : call'[u].phase \notin {"none", "signing"} => call'[u].tx # 0
  BY DEF SpendTypeOK

LEMMA CallIs ==
    ASSUME SpendTypeOK, NEW t \in Tabs
    PROVE  /\ call[t] \in Called
           /\ call[t].number \in 0 .. MaxReviews
           /\ call[t].phase \notin {"none", "signing"} => call[t].tx \in Txs
  BY Bounds DEF SpendTypeOK, Called, Txs

LEMMA CallingType ==
    ASSUME NEW x \in Txs, NEW n \in 0 .. MaxReviews
    PROVE  /\ Calling(x, n) \in Called
           /\ Calling(x, n).tx = x /\ Calling(x, n).rec = 0 /\ Calling(x, n).phase = "recording"
  BY Bounds DEF Called, Calling, Txs

LEMMA SpendInitType == SpendInit => SpendTypeOK
<1> SUFFICES ASSUME SpendInit PROVE SpendTypeOK
  OBVIOUS
<1>1. /\ opened \in [Tabs -> Owners \union {Locked}]
      /\ review \in [Tabs -> Reviewed] /\ draft \in [Tabs -> Drafted]
      /\ call \in [Tabs -> Called]
      /\ \A t \in Tabs : call[t].phase \notin {"none", "signing"} => call[t].tx # 0
  BY Nothing, NoCallIs DEF SpendInit
<1>2. /\ signed \in [Txs -> 0 .. MaxReviews] /\ reviews \in 0 .. MaxReviews /\ calls \in 0 .. MaxCalls
      /\ net \in [Txs -> {"none", "mempool", "block", "spent"}]
  BY Bounds DEF SpendInit
<1> QED  BY <1>1, <1>2 DEF SpendInit, SpendTypeOK

LEMMA ReviewsType ==
    ASSUME SpendTypeOK, NEW t \in Tabs,
           \/ ReviewStarts(t) \/ ReviewDone(t) \/ ReviewFails(t) \/ Cancel(t)
           \/ \E w \in Owners \union {Locked} : Opens(t, w)
           \/ PageDies(t)
    PROVE  SpendTypeOK'
<1>1. CASE ReviewStarts(t)
  BY <1>1, Bounds DEF ReviewStarts, SpendTypeOK, Reviewed
<1>2. CASE ReviewDone(t)
  BY <1>2, Nothing, Bounds DEF ReviewDone, SpendTypeOK, Reviewed, Drafted
<1>3. CASE ReviewFails(t)
  BY <1>3, Nothing DEF ReviewFails, SpendTypeOK
<1>4. CASE Cancel(t)
  BY <1>4, Nothing DEF Cancel, SpendTypeOK
<1>5. CASE \E w \in Owners \union {Locked} : Opens(t, w)
  <2>1. [review EXCEPT ![t].spanned = TRUE] \in [Tabs -> Reviewed]
    BY DEF SpendTypeOK, Reviewed
  <2> QED  BY <1>5, <2>1, Nothing DEF Opens, Reset, SpendTypeOK
<1>6. CASE PageDies(t)
  <2>1. call[t].phase = "sending" => call[t].tx \in Txs
    BY CallIs
  <2>2. /\ call' \in [Tabs -> Called]
        /\ \A u \in Tabs : call'[u].phase \notin {"none", "signing"} => call'[u].tx # 0
    BY <1>6, Nothing, NoCallIs, CallsType DEF PageDies
  <2> QED  BY <1>6, <2>1, <2>2, Nothing DEF PageDies, SpendTypeOK
<1> QED  BY <1>1, <1>2, <1>3, <1>4, <1>5, <1>6

LEMMA ConfirmsType ==
    ASSUME SpendTypeOK, NEW t \in Tabs,
           Confirm(t) \/ ConfirmMint(t) \/ MintSigned(t) \/ MintFails(t)
    PROVE  SpendTypeOK'
<1>0. draft[t] \in Drafted /\ draft[t].tx \in 0 .. MaxSigned /\ draft[t].number \in 0 .. MaxReviews
  BY DEF SpendTypeOK, Drafted
<1>1. CASE Confirm(t) /\ Kept(draft[t])
  <2>1. draft[t].tx \in Txs
    BY <1>0, <1>1, Bounds DEF Kept, Txs
  <2>2. /\ call' \in [Tabs -> Called]
        /\ \A u \in Tabs : call'[u].phase \notin {"none", "signing"} => call'[u].tx # 0
    BY <1>0, <1>1, <2>1, CallingType, CallsType DEF Confirm, Txs
  <2> QED  BY <1>1, <2>2 DEF Confirm, SpendTypeOK
<1>2. CASE (Confirm(t) /\ ~Kept(draft[t])) \/ MintSigned(t)
  <2>1. Fresh \in Txs
    BY <1>2, FreshType DEF Confirm, MintSigned
  <2> DEFINE n == IF Confirm(t) THEN draft[t].number ELSE call[t].number
  <2>2. n \in 0 .. MaxReviews
    BY <1>0, CallIs
  <2>3. /\ draft' = [draft EXCEPT ![t] = [draft[t] EXCEPT !.tx = Fresh]]
        /\ signed' = [signed EXCEPT ![Fresh] = n]
        /\ call' = [call EXCEPT ![t] = Calling(Fresh, n)]
        /\ UNCHANGED <<opened, review, log, reviews, net, wire, calls, sent, told, excused>>
    <3>1. CASE Confirm(t) /\ ~Kept(draft[t])
      BY <3>1 DEF Confirm
    <3>2. CASE MintSigned(t) /\ ~Confirm(t)
      BY <3>2 DEF MintSigned
    <3>3. ~(MintSigned(t) /\ Confirm(t))
      BY NoCallIs DEF MintSigned, Confirm
    <3> QED  BY <1>2, <3>1, <3>2, <3>3
  <2> HIDE DEF n
  <2>4. [draft[t] EXCEPT !.tx = Fresh] \in Drafted
    BY <1>0, <2>1 DEF Drafted, Txs
  <2>5. /\ call' \in [Tabs -> Called]
        /\ \A u \in Tabs : call'[u].phase \notin {"none", "signing"} => call'[u].tx # 0
    BY ZenonT(40), <2>1, <2>2, <2>3, CallingType, CallsType, TxsPositive
  <2> QED  BY <2>1, <2>2, <2>3, <2>4, <2>5 DEF SpendTypeOK
<1>3. CASE ConfirmMint(t)
  <2> DEFINE c == [NoCall EXCEPT !.phase = "signing", !.number = draft[t].number]
  <2>1. c \in Called /\ c.phase = "signing"
    BY <1>0, Nothing DEF Called, NoCall
  <2>2. call' = [call EXCEPT ![t] = c]
    BY <1>3 DEF ConfirmMint
  <2> HIDE DEF c
  <2>3. /\ call' \in [Tabs -> Called]
        /\ \A u \in Tabs : call'[u].phase \notin {"none", "signing"} => call'[u].tx # 0
    BY <2>1, <2>2, CallsType
  <2> QED  BY <1>3, <2>3 DEF ConfirmMint, SpendTypeOK
<1>4. CASE MintFails(t)
  <2>1. /\ call' \in [Tabs -> Called]
        /\ \A u \in Tabs : call'[u].phase \notin {"none", "signing"} => call'[u].tx # 0
    BY <1>4, Nothing, NoCallIs, CallsType DEF MintFails
  <2> QED  BY <1>4, <2>1 DEF MintFails, SpendTypeOK
<1> QED  BY <1>1, <1>2, <1>3, <1>4

LEMMA BroadcastsType ==
    ASSUME SpendTypeOK, NEW t \in Tabs,
           \/ Record(t) \/ Handled(t) \/ TimesOut(t) \/ Answered(t) \/ Unanswered(t)
           \/ \E r \in log : Rebroadcast(t, r) \/ Check(t, r)
    PROVE  SpendTypeOK'
<1>1. CASE Record(t)
  <2>1. calls' = calls + 1 /\ calls' \in 1 .. MaxCalls /\ call[t].tx \in Txs
    BY <1>1, CallIs, Bounds DEF Record, SpendTypeOK
  <2>2. \A r \in log : r.tx \in Txs
    BY DEF SpendTypeOK
  <2>3. Room \subseteq log
    BY DEF Room
  <2>4. [id |-> calls', tx |-> call[t].tx] \in [id: 1 .. MaxCalls, tx: Txs]
    BY <2>1
  <2>5. log' \subseteq [id: 1 .. MaxCalls, tx: Txs]
    BY <1>1, <2>3, <2>4 DEF Record, SpendTypeOK
  <2>6. excused' \subseteq Txs
    BY <1>1, <2>1, <2>2 DEF Record, SpendTypeOK
  <2>7. \E c \in Called : c.tx = call[t].tx /\ call' = [call EXCEPT ![t] = c]
    <3>1. [call[t] EXCEPT !.phase = "sending", !.rec = calls'] \in Called
      <4>1. calls' \in 0 .. MaxCalls
        BY <2>1, Bounds
      <4> QED  BY <4>1, CallIs DEF Called
    <3>2. [call[t] EXCEPT !.phase = "sending"] \in Called
      BY CallIs DEF Called
    <3> QED  BY <1>1, <3>1, <3>2, CallIs DEF Record, Called
  <2>8. /\ call' \in [Tabs -> Called]
        /\ \A u \in Tabs : call'[u].phase \notin {"none", "signing"} => call'[u].tx # 0
    BY <2>1, <2>7, CallsType, TxsPositive
  <2> QED  BY <1>1, <2>1, <2>5, <2>6, <2>8 DEF Record, SpendTypeOK
<1>2. CASE Handled(t)
  <2>1. PICK a \in Says(call[t].tx), heard \in BOOLEAN :
            /\ net' = Taken(call[t].tx, a)
            /\ call' = [call EXCEPT ![t] = [call[t] EXCEPT !.phase = "answered",
                                                       !.answer = IF heard THEN a ELSE "unknown"]]
    BY <1>2 DEF Handled
  <2>2. call[t].tx \in Txs
    BY <1>2, CallIs DEF Handled
  <2>3. net[call[t].tx] \in {"none", "mempool", "block", "spent"}
    BY <2>2 DEF SpendTypeOK
  <2>4. a \in Answers
    BY <2>3 DEF Says, Answers
  <2>5. net' \in [Txs -> {"none", "mempool", "block", "spent"}]
    BY <2>1, <2>2 DEF Taken, SpendTypeOK
  <2> DEFINE b == IF heard THEN a ELSE "unknown"
             c == [call[t] EXCEPT !.phase = "answered", !.answer = b]
  <2>6. b \in Answers
    BY <2>4 DEF Answers
  <2> HIDE DEF b
  <2>7. c \in Called /\ c.tx = call[t].tx
    BY <2>6, CallIs DEF Called
  <2>8. call' = [call EXCEPT ![t] = c]
    BY <2>1 DEF b
  <2> HIDE DEF c
  <2>9. /\ call' \in [Tabs -> Called]
        /\ \A u \in Tabs : call'[u].phase \notin {"none", "signing"} => call'[u].tx # 0
    BY <2>2, <2>7, <2>8, CallsType, TxsPositive
  <2> QED  BY <1>2, <2>5, <2>9 DEF Handled, SpendTypeOK
<1>3. CASE TimesOut(t)
  <2> DEFINE c == [call[t] EXCEPT !.phase = "answered", !.answer = "unknown"]
  <2>1. c \in Called /\ c.tx = call[t].tx
    BY CallIs DEF Called, Answers
  <2>2. call' = [call EXCEPT ![t] = c] /\ call[t].tx \in Txs
    BY <1>3, CallIs DEF TimesOut
  <2> HIDE DEF c
  <2>3. /\ call' \in [Tabs -> Called]
        /\ \A u \in Tabs : call'[u].phase \notin {"none", "signing"} => call'[u].tx # 0
    BY <2>1, <2>2, CallsType, TxsPositive
  <2> QED  BY <1>3, <2>2, <2>3 DEF TimesOut, SpendTypeOK
<1>4. CASE Answered(t) \/ Unanswered(t)
  <2>1. /\ call' \in [Tabs -> Called]
        /\ \A u \in Tabs : call'[u].phase \notin {"none", "signing"} => call'[u].tx # 0
    BY <1>4, Nothing, NoCallIs, CallsType DEF Answered, Unanswered
  <2>2. call[t].phase = "answered" => call[t].tx \in Txs
    BY CallIs
  <2> QED  BY <1>4, <2>1, <2>2, Nothing DEF Answered, Unanswered, Settled, Removed, SpendTypeOK
<1>5. CASE \E r \in log : Rebroadcast(t, r)
  <2>1. PICK r \in log : Rebroadcast(t, r)
    BY <1>5
  <2>2. r.id \in 1 .. MaxCalls /\ r.tx \in Txs
    BY DEF SpendTypeOK
  <2> DEFINE c == [phase |-> "sending", tx |-> r.tx, number |-> 0, rec |-> r.id,
                   answer |-> "none", recovers |-> TRUE]
  <2>3. c \in Called /\ c.tx = r.tx
    BY <2>2, Bounds DEF Called, Txs
  <2>4. call' = [call EXCEPT ![t] = c]
    BY <2>1 DEF Rebroadcast
  <2> HIDE DEF c
  <2>5. /\ call' \in [Tabs -> Called]
        /\ \A u \in Tabs : call'[u].phase \notin {"none", "signing"} => call'[u].tx # 0
    BY <2>2, <2>3, <2>4, CallsType, TxsPositive
  <2>6. calls' \in 0 .. MaxCalls
    <3>1. calls \in 0 .. MaxCalls /\ calls < MaxCalls /\ calls' = calls + 1
      BY <2>1 DEF Rebroadcast, SpendTypeOK
    <3> QED  BY <3>1, Bounds
  <2> QED  BY <2>1, <2>5, <2>6 DEF Rebroadcast, SpendTypeOK
<1>6. CASE \E r \in log : Check(t, r)
  BY <1>6 DEF Check, Removed, SpendTypeOK
<1> QED  BY <1>1, <1>2, <1>3, <1>4, <1>5, <1>6

LEMMA NetworkType ==
    ASSUME SpendTypeOK, NEW tx \in Txs, ArrivesLate(tx) \/ Mined(tx) \/ OutputsSpent(tx)
    PROVE  SpendTypeOK'
<1>1. CASE ArrivesLate(tx)
  BY <1>1 DEF ArrivesLate, Taken, SpendTypeOK
<1>2. CASE Mined(tx)
  BY <1>2 DEF Mined, SpendTypeOK
<1>3. CASE OutputsSpent(tx)
  BY <1>3 DEF OutputsSpent, SpendTypeOK
<1> QED  BY <1>1, <1>2, <1>3

LEMMA SpendStepType == SpendTypeOK /\ [SpendNext]_spendVars => SpendTypeOK'
<1> SUFFICES ASSUME SpendTypeOK, [SpendNext]_spendVars PROVE SpendTypeOK'
  OBVIOUS
<1>1. CASE UNCHANGED spendVars
  BY <1>1 DEF spendVars, SpendTypeOK
<1>2. CASE SpendNext
  BY <1>2, ReviewsType, ConfirmsType, BroadcastsType, NetworkType DEF SpendNext
<1> QED  BY <1>1, <1>2

(* Every reachable state of the flows has the types of the code's values.  *)
THEOREM SpendTypeCorrect == SpendSpec => []SpendTypeOK
<1> QED  BY SpendInitType, SpendStepType, PTL DEF SpendSpec

-----------------------------------------------------------------------------
(* The owner of a draft.  A draft comes from a review, so the review must  *)
(* be owned in the same way before it becomes one.                         *)

OwnedBy(t, r) == r.owner = opened[t] \/ r.spanned

OwnedDrafts ==
    \A t \in Tabs : /\ review[t] # NoReview => OwnedBy(t, review[t])
                    /\ draft[t] # NoDraft => OwnedBy(t, draft[t])

LEMMA OwnedStep == ASSUME SpendTypeOK, OwnedDrafts, [SpendNext]_spendVars PROVE OwnedDrafts'
<1>1. CASE UNCHANGED spendVars
  BY <1>1 DEF spendVars, OwnedDrafts, OwnedBy
<1>2. ASSUME NEW t \in Tabs, ReviewStarts(t) PROVE OwnedDrafts'
  BY <1>2 DEF ReviewStarts, OwnedDrafts, OwnedBy, SpendTypeOK
<1>3. ASSUME NEW t \in Tabs, ReviewDone(t) \/ ReviewFails(t) \/ Cancel(t) PROVE OwnedDrafts'
  BY <1>3 DEF ReviewDone, ReviewFails, Cancel, OwnedDrafts, OwnedBy, SpendTypeOK
<1>4. ASSUME NEW t \in Tabs, NEW w \in Owners \union {Locked}, Opens(t, w) PROVE OwnedDrafts'
  BY <1>4 DEF Opens, Reset, OwnedDrafts, OwnedBy, SpendTypeOK, Reviewed
<1>5. ASSUME NEW t \in Tabs, PageDies(t) PROVE OwnedDrafts'
  BY <1>5 DEF PageDies, OwnedDrafts, OwnedBy, SpendTypeOK
<1>6. ASSUME NEW t \in Tabs, Confirm(t) \/ MintSigned(t) PROVE OwnedDrafts'
  <2>1. /\ draft[t] # NoDraft /\ UNCHANGED <<opened, review>>
        /\ draft' = draft \/ draft' = [draft EXCEPT ![t].tx = Fresh]
    BY <1>6 DEF Confirm, MintSigned
  <2> QED  BY <2>1 DEF OwnedDrafts, OwnedBy, SpendTypeOK, Drafted
<1>7. ASSUME NEW t \in Tabs,
             \/ ConfirmMint(t) \/ MintFails(t) \/ Record(t) \/ Handled(t) \/ TimesOut(t) \/ Unanswered(t)
             \/ \E r \in log : Rebroadcast(t, r) \/ Check(t, r)
      PROVE  OwnedDrafts'
  <2>1. UNCHANGED <<opened, review, draft>>
    BY <1>7 DEF ConfirmMint, MintFails, Record, Handled, TimesOut, Unanswered, Rebroadcast, Check
  <2> QED  BY <2>1 DEF OwnedDrafts, OwnedBy
<1>8. ASSUME NEW t \in Tabs, Answered(t) PROVE OwnedDrafts'
  BY <1>8 DEF Answered, OwnedDrafts, OwnedBy, SpendTypeOK
<1>9. ASSUME NEW tx \in Txs, ArrivesLate(tx) \/ Mined(tx) \/ OutputsSpent(tx) PROVE OwnedDrafts'
  BY <1>9 DEF ArrivesLate, Mined, OutputsSpent, OwnedDrafts, OwnedBy
<1> QED  BY <1>1, <1>2, <1>3, <1>4, <1>5, <1>6, <1>7, <1>8, <1>9 DEF SpendNext

(* No draft outlives the lock or the switch that tore its wallet down,     *)
(* unless its review was under way then: resetWalletState() in app.js.     *)
THEOREM DraftsGoWithTheWallet == SpendSpec => []DraftsOfTheOpen
<1>1. SpendInit => OwnedDrafts
  BY DEF SpendInit, OwnedDrafts
<1>2. OwnedDrafts => DraftsOfTheOpen
  BY DEF OwnedDrafts, OwnedBy, DraftsOfTheOpen
<1> QED  BY <1>1, <1>2, OwnedStep, SpendTypeCorrect, PTL DEF SpendSpec

-----------------------------------------------------------------------------
(* The record of a broadcast.  Removing a record by its number removes the *)
(* record of that transaction and no other, because numbers are never used *)
(* twice and a broadcast under way knows the number of its own record.     *)

RecordsOwn ==
    /\ \A r \in log : r.id \in 1 .. calls
    /\ \A r, q \in log : r.id = q.id => r.tx = q.tx
    /\ \A t \in Tabs : call[t].rec <= calls
    /\ \A t \in Tabs, r \in log : r.id = call[t].rec => r.tx = call[t].tx

Keeping == OutcomeKept /\ RecordsOwn

LEMMA RecordKeeps == ASSUME SpendTypeOK, Keeping, NEW t \in Tabs, Record(t) PROVE Keeping'
<1>1. /\ calls \in Nat /\ calls' = calls + 1 /\ sent' = sent \union {call[t].tx} /\ told' = told
      /\ \A u \in Tabs : call[u].rec \in Nat
  BY Bounds DEF Record, SpendTypeOK, Called
<1>2. Room \subseteq log
  BY DEF Room
<1>3. CASE log' = Room \union {[id |-> calls', tx |-> call[t].tx]}
           /\ excused' = excused \union {r.tx : r \in log \ Room}
           /\ call' = [call EXCEPT ![t].phase = "sending", ![t].rec = calls']
  <2> DEFINE new == [id |-> calls', tx |-> call[t].tx]
  <2>1. log' = Room \union {new} /\ new.id = calls + 1 /\ new.tx = call[t].tx
    BY <1>1, <1>3
  <2> HIDE DEF new
  <2>2. OutcomeKept'
    BY <1>1, <1>2, <1>3, <2>1 DEF Keeping, OutcomeKept
  <2>3. \A u \in Tabs : /\ call'[u].tx = call[u].tx
                        /\ call'[u].rec = IF u = t THEN calls + 1 ELSE call[u].rec
    BY <1>1, <1>3 DEF SpendTypeOK, Called
  <2>4. \A r \in log : r.id \in 1 .. calls
    BY DEF Keeping, RecordsOwn
  <2>5. (\A r \in log : r.id \in 1 .. calls)' /\ (\A r, q \in log : r.id = q.id => r.tx = q.tx)'
    BY <1>1, <1>2, <2>1, <2>4 DEF Keeping, RecordsOwn
  <2>6. (\A u \in Tabs : call[u].rec <= calls)'
    BY <1>1, <2>3 DEF Keeping, RecordsOwn
  <2>7. (\A u \in Tabs, r \in log : r.id = call[u].rec => r.tx = call[u].tx)'
    BY <1>1, <1>2, <2>1, <2>3, <2>4 DEF Keeping, RecordsOwn
  <2> QED  BY <2>2, <2>5, <2>6, <2>7 DEF Keeping, RecordsOwn
<1>4. CASE excused' = excused \union {call[t].tx} /\ log' = log
           /\ call' = [call EXCEPT ![t].phase = "sending"]
  <2>1. \A u \in Tabs : call'[u].tx = call[u].tx /\ call'[u].rec = call[u].rec
    BY <1>4 DEF SpendTypeOK, Called
  <2> QED  BY <1>1, <1>4, <2>1 DEF Keeping, OutcomeKept, RecordsOwn
<1> QED  BY <1>3, <1>4 DEF Record

(* The steps that leave log, ghosts and the records of the broadcasts as   *)
(* they are, or begin a broadcast without a record.                        *)
LEMMA OthersKeep ==
    ASSUME SpendTypeOK, Keeping, UNCHANGED <<log, calls, sent, told, excused>>,
           \A t \in Tabs : \/ call'[t].rec = 0
                           \/ call'[t].rec = call[t].rec /\ call'[t].tx = call[t].tx
    PROVE  Keeping'
<1>1. calls \in Nat /\ \A r \in log : r.id # 0
  BY Bounds DEF SpendTypeOK
<1> QED  BY <1>1 DEF Keeping, OutcomeKept, RecordsOwn

LEMMA AnsweredKeeps == ASSUME SpendTypeOK, Keeping, NEW t \in Tabs, Answered(t) PROVE Keeping'
<1>1. /\ log' = Removed(call[t].rec) /\ told' = told \union {call[t].tx}
      /\ call' = [call EXCEPT ![t] = NoCall] /\ UNCHANGED <<calls, sent, excused>>
  BY DEF Answered
<1>2. /\ calls \in Nat /\ \A r \in log : r.id # 0
  BY Bounds DEF SpendTypeOK
<1>3. \A u \in Tabs : call'[u] = NoCall \/ call'[u] = call[u]
  BY <1>1 DEF SpendTypeOK
<1>4. RecordsOwn'
  BY <1>1, <1>2, <1>3, NoCallIs DEF Keeping, RecordsOwn, Removed
<1>5. OutcomeKept'
  BY <1>1 DEF Keeping, OutcomeKept, RecordsOwn, Removed
<1> QED  BY <1>4, <1>5 DEF Keeping

LEMMA CheckKeeps == ASSUME SpendTypeOK, Keeping, NEW t \in Tabs, NEW r \in log, Check(t, r) PROVE Keeping'
<1>1. /\ log' = Removed(r.id) /\ told' = told \union {r.tx} /\ UNCHANGED <<call, calls, sent, excused>>
  BY DEF Check
<1>2. RecordsOwn'
  BY <1>1 DEF Keeping, RecordsOwn, Removed
<1>3. OutcomeKept'
  BY <1>1 DEF Keeping, OutcomeKept, RecordsOwn, Removed
<1> QED  BY <1>2, <1>3 DEF Keeping

LEMMA RebroadcastKeeps ==
    ASSUME SpendTypeOK, Keeping, NEW t \in Tabs, NEW r \in log, Rebroadcast(t, r) PROVE Keeping'
<1>1. /\ calls \in Nat /\ calls' = calls + 1 /\ UNCHANGED <<log, sent, told, excused>>
      /\ \A u \in Tabs : call[u].rec \in Nat
  BY Bounds DEF Rebroadcast, SpendTypeOK, Called
<1>2. \A u \in Tabs : /\ call'[u].tx = IF u = t THEN r.tx ELSE call[u].tx
                      /\ call'[u].rec = IF u = t THEN r.id ELSE call[u].rec
  BY DEF Rebroadcast, SpendTypeOK
<1>3. \A q \in log : q.id \in 1 .. calls
  BY DEF Keeping, RecordsOwn
<1> QED  BY <1>1, <1>2, <1>3 DEF Keeping, OutcomeKept, RecordsOwn

LEMMA KeepingStep == ASSUME SpendTypeOK, Keeping, [SpendNext]_spendVars PROVE Keeping'
<1>1. CASE UNCHANGED spendVars
  BY <1>1, OthersKeep DEF spendVars
<1>2. ASSUME NEW t \in Tabs,
             \/ ReviewStarts(t) \/ ReviewDone(t) \/ ReviewFails(t) \/ Cancel(t)
             \/ \E w \in Owners \union {Locked} : Opens(t, w)
      PROVE  Keeping'
  <2>1. UNCHANGED <<call, log, calls, sent, told, excused>>
    BY <1>2 DEF ReviewStarts, ReviewDone, ReviewFails, Cancel, Opens, Reset
  <2> QED  BY <2>1, OthersKeep
<1>3. ASSUME NEW t \in Tabs, PageDies(t) \/ MintFails(t) \/ Unanswered(t) PROVE Keeping'
  <2>1. call' = [call EXCEPT ![t] = NoCall] /\ UNCHANGED <<log, calls, sent, told, excused>>
    BY <1>3 DEF PageDies, MintFails, Unanswered
  <2>2. \A u \in Tabs : call'[u] = NoCall \/ call'[u] = call[u]
    BY <2>1 DEF SpendTypeOK
  <2> QED  BY <2>1, <2>2, NoCallIs, OthersKeep
<1>4. ASSUME NEW t \in Tabs, Confirm(t) \/ ConfirmMint(t) \/ MintSigned(t) PROVE Keeping'
  <2>1. UNCHANGED <<log, calls, sent, told, excused>>
    BY <1>4 DEF Confirm, ConfirmMint, MintSigned
  <2>2. \A u \in Tabs : call'[u].rec = 0 \/ call'[u] = call[u]
    <3>1. CASE ConfirmMint(t)
      <4>1. [NoCall EXCEPT !.phase = "signing", !.number = draft[t].number].rec = 0
        BY DEF NoCall
      <4> QED  BY <3>1, <4>1 DEF ConfirmMint, SpendTypeOK
    <3>2. CASE Confirm(t) \/ MintSigned(t)
      BY <3>2 DEF Confirm, MintSigned, Calling, SpendTypeOK
    <3> QED  BY <1>4, <3>1, <3>2
  <2> QED  BY <2>1, <2>2, OthersKeep
<1>5. ASSUME NEW t \in Tabs, Handled(t) \/ TimesOut(t) PROVE Keeping'
  <2>1. UNCHANGED <<log, calls, sent, told, excused>>
    BY <1>5 DEF Handled, TimesOut
  <2>2. \E a : call' = [call EXCEPT ![t].phase = "answered", ![t].answer = a]
    BY <1>5 DEF Handled, TimesOut
  <2>3. \A u \in Tabs : call'[u].rec = call[u].rec /\ call'[u].tx = call[u].tx
    BY <2>2 DEF SpendTypeOK, Called
  <2> QED  BY <2>1, <2>3, OthersKeep
<1>6. ASSUME NEW tx \in Txs, ArrivesLate(tx) \/ Mined(tx) \/ OutputsSpent(tx) PROVE Keeping'
  <2>1. UNCHANGED <<call, log, calls, sent, told, excused>>
    BY <1>6 DEF ArrivesLate, Mined, OutputsSpent
  <2> QED  BY <2>1, OthersKeep
<1> QED  BY <1>1, <1>2, <1>3, <1>4, <1>5, <1>6, RecordKeeps, AnsweredKeeps, CheckKeeps, RebroadcastKeeps
         DEF SpendNext

(* What was handed to the network stays recoverable until its outcome is   *)
(* known: broadcastLogged() in app.js, broadcastlog.js.                    *)
THEOREM OutcomesKept == SpendSpec => []OutcomeKept
<1>1. SpendInit => Keeping
  BY Bounds DEF SpendInit, Keeping, OutcomeKept, RecordsOwn, NoCall
<1>2. Keeping => OutcomeKept
  BY DEF Keeping
<1> QED  BY <1>1, <1>2, KeepingStep, SpendTypeCorrect, PTL DEF SpendSpec

-----------------------------------------------------------------------------
(* One transaction per review.  The number of a review that is not signed  *)
(* yet waits in at most one tab: with the review, with its draft, or with  *)
(* a mint that asks for the height.                                        *)

InReview(t, n) == review[t] # NoReview /\ review[t].number = n
InDraft(t, n) == draft[t] # NoDraft /\ draft[t].tx = 0 /\ draft[t].number = n
InMint(t, n) == call[t].phase = "signing" /\ call[t].number = n
Waits(t, n) == InReview(t, n) \/ InDraft(t, n) \/ InMint(t, n)

Numbers ==
    /\ OneTxPerReview
    /\ \A x \in Txs : signed[x] <= reviews
    /\ \A t \in Tabs, n \in Nat : Waits(t, n) => n \in 1 .. reviews /\ \A x \in Txs : signed[x] # n
    /\ \A t, u \in Tabs, n \in Nat : Waits(t, n) /\ Waits(u, n) => t = u
    /\ \A t \in Tabs, n \in Nat : InReview(t, n) => ~InDraft(t, n) /\ ~InMint(t, n)

(* Steps after which no number waits where it did not wait before.         *)
LEMMA FewerWait ==
    ASSUME Numbers, UNCHANGED <<reviews, signed>>,
           \A u \in Tabs, n \in Nat : /\ InReview(u, n)' => InReview(u, n)
                                      /\ (InDraft(u, n) \/ InMint(u, n))'
                                           => Waits(u, n) /\ ~InReview(u, n)'
    PROVE  Numbers'
<1>1. \A u \in Tabs, n \in Nat : /\ Waits(u, n)' => Waits(u, n)
                                 /\ InReview(u, n)' => ~InDraft(u, n)' /\ ~InMint(u, n)'
  BY DEF Waits, InReview, InDraft, InMint
<1>2. OneTxPerReview' /\ (\A x \in Txs : signed[x] <= reviews)'
  BY DEF Numbers, OneTxPerReview
<1>3. (\A u \in Tabs, n \in Nat : Waits(u, n) => n \in 1 .. reviews /\ \A x \in Txs : signed[x] # n)'
  BY <1>1 DEF Numbers
<1>4. (\A t, u \in Tabs, n \in Nat : Waits(t, n) /\ Waits(u, n) => t = u)'
  BY <1>1 DEF Numbers
<1>5. (\A t \in Tabs, n \in Nat : InReview(t, n) => ~InDraft(t, n) /\ ~InMint(t, n))'
  BY <1>1
<1> QED  BY <1>2, <1>3, <1>4, <1>5 DEF Numbers

LEMMA ReviewsNumber ==
    ASSUME SpendTypeOK, Numbers, NEW t \in Tabs, ReviewStarts(t) PROVE Numbers'
<1>1. /\ reviews \in Nat /\ reviews' = reviews + 1 /\ UNCHANGED <<draft, call, signed>>
      /\ review' = [review EXCEPT ![t] = [owner |-> opened[t], number |-> reviews', spanned |-> FALSE]]
  BY Bounds DEF ReviewStarts, SpendTypeOK
<1>2. \A u \in Tabs, n \in Nat :
         /\ InDraft(u, n)' = InDraft(u, n) /\ InMint(u, n)' = InMint(u, n)
         /\ InReview(u, n)' => InReview(u, n) \/ (u = t /\ n = reviews + 1)
  BY <1>1 DEF InReview, InDraft, InMint, SpendTypeOK
<1>3. \A u \in Tabs, n \in Nat : Waits(u, n)' => Waits(u, n) \/ (u = t /\ n = reviews + 1)
  BY <1>2 DEF Waits
<1>4. \A u \in Tabs : ~Waits(u, reviews + 1)
  BY <1>1 DEF Numbers
<1>5. \A x \in Txs : signed[x] \in Nat
  BY DEF SpendTypeOK
<1> QED  BY <1>1, <1>2, <1>3, <1>4, <1>5 DEF Numbers, OneTxPerReview, Waits

(* A signing takes its number out of the waiting ones.                     *)
LEMMA SigningNumbers ==
    ASSUME SpendTypeOK, Numbers, NEW t \in Tabs, (Confirm(t) /\ ~Kept(draft[t])) \/ MintSigned(t)
    PROVE  Numbers'
<1> PICK n \in Nat :
        /\ \/ InDraft(t, n) /\ call[t] = NoCall
           \/ InMint(t, n)
        /\ draft[t] # NoDraft
        /\ signed' = [signed EXCEPT ![Fresh] = n] /\ draft' = [draft EXCEPT ![t].tx = Fresh]
        /\ call' = [call EXCEPT ![t] = Calling(Fresh, n)] /\ UNCHANGED <<review, reviews>>
  <2>1. draft[t].number \in Nat /\ call[t].number \in Nat
    BY DEF SpendTypeOK, Drafted, Called
  <2>2. CASE Confirm(t) /\ ~Kept(draft[t])
    BY <2>1, <2>2 DEF Confirm, Kept, InDraft
  <2>3. CASE MintSigned(t)
    BY <2>1, <2>3 DEF MintSigned, InMint
  <2> QED  BY <2>2, <2>3
<1>1. Fresh \in Txs
  BY FreshType DEF Confirm, MintSigned
<1>2. Waits(t, n) /\ ~InReview(t, n)
  BY DEF Waits, Numbers
<1>3. \A u \in Tabs, m \in Nat :
         /\ InReview(u, m)' = InReview(u, m)
         /\ InMint(u, m)' => InMint(u, m) /\ u # t
         /\ InDraft(u, m)' => InDraft(u, m) /\ u # t
  BY <1>1, TxsPositive DEF InReview, InMint, InDraft, Calling, SpendTypeOK, Drafted
<1>4. \A u \in Tabs, m \in Nat : Waits(u, m)' => Waits(u, m) /\ m # n
  BY <1>2, <1>3 DEF Waits, Numbers
<1>5. n \in 1 .. reviews /\ \A x \in Txs : signed[x] # n
  BY <1>2 DEF Numbers
<1>6. \A x \in Txs : signed'[x] = IF x = Fresh THEN n ELSE signed[x]
  BY <1>1 DEF SpendTypeOK
<1>7. OneTxPerReview'
  BY <1>5, <1>6 DEF Numbers, OneTxPerReview
<1>8. (\A x \in Txs : signed[x] <= reviews)'
  BY <1>5, <1>6 DEF Numbers
<1> QED  BY <1>3, <1>4, <1>6, <1>7, <1>8 DEF Numbers

LEMMA NumbersStep == ASSUME SpendTypeOK, Numbers, [SpendNext]_spendVars PROVE Numbers'
<1>1. CASE UNCHANGED spendVars
  BY <1>1, FewerWait DEF spendVars, InReview, InDraft, InMint, Waits, Numbers
<1>2. ASSUME NEW t \in Tabs, ReviewDone(t) PROVE Numbers'
  <2>1. \A u \in Tabs, n \in Nat :
           /\ InReview(u, n)' => InReview(u, n) /\ u # t
           /\ InMint(u, n)' = InMint(u, n)
           /\ InDraft(u, n)' => IF u = t THEN InReview(u, n) ELSE InDraft(u, n)
    BY <1>2 DEF ReviewDone, InReview, InDraft, InMint, SpendTypeOK
  <2>2. UNCHANGED <<reviews, signed>>
    BY <1>2 DEF ReviewDone
  <2> QED  BY <2>1, <2>2, FewerWait DEF Waits, Numbers
<1>3. ASSUME NEW t \in Tabs,
             \/ ReviewFails(t) \/ Cancel(t) \/ \E w \in Owners \union {Locked} : Opens(t, w)
             \/ PageDies(t) \/ Answered(t)
      PROVE  Numbers'
  <2>1. \A u \in Tabs : /\ review'[u] = NoReview \/ (review[u] # NoReview /\ review'[u].number = review[u].number)
                        /\ draft'[u] = NoDraft \/ draft'[u] = draft[u]
                        /\ call'[u] = NoCall \/ call'[u] = call[u]
    BY <1>3 DEF ReviewFails, Cancel, Opens, Reset, PageDies, Answered, SpendTypeOK, Reviewed
  <2>2. \A u \in Tabs, n \in Nat :
           /\ InReview(u, n)' => InReview(u, n)
           /\ InMint(u, n)' => InMint(u, n)
           /\ InDraft(u, n)' => InDraft(u, n)
    BY <2>1, NoCallIs DEF InReview, InDraft, InMint
  <2>3. UNCHANGED <<reviews, signed>>
    BY <1>3 DEF ReviewFails, Cancel, Opens, Reset, PageDies, Answered
  <2> QED  BY <2>2, <2>3, FewerWait DEF Waits, Numbers
<1>4. ASSUME NEW t \in Tabs, ConfirmMint(t) PROVE Numbers'
  <2>1. [NoCall EXCEPT !.phase = "signing", !.number = draft[t].number].number = draft[t].number
    BY DEF NoCall
  <2>2. draft[t].tx = 0 /\ draft[t] # NoDraft
    BY <1>4 DEF ConfirmMint, Kept
  <2>3. \A u \in Tabs, n \in Nat :
           /\ InReview(u, n)' = InReview(u, n)
           /\ InMint(u, n)' => IF u = t THEN InDraft(u, n) ELSE InMint(u, n)
           /\ InDraft(u, n)' = InDraft(u, n)
    BY <1>4, <2>1, <2>2 DEF ConfirmMint, InReview, InDraft, InMint, SpendTypeOK
  <2>4. UNCHANGED <<reviews, signed>>
    BY <1>4 DEF ConfirmMint
  <2> QED  BY <2>3, <2>4, FewerWait DEF Waits, Numbers
<1>5. ASSUME NEW t \in Tabs,
             \/ Confirm(t) /\ Kept(draft[t])
             \/ MintFails(t) \/ Record(t) \/ Handled(t) \/ TimesOut(t) \/ Unanswered(t)
             \/ \E r \in log : Rebroadcast(t, r) \/ Check(t, r)
      PROVE  Numbers'
  <2>1. UNCHANGED <<review, draft, reviews, signed>>
    BY <1>5 DEF Confirm, MintFails, Record, Handled, TimesOut, Unanswered, Rebroadcast, Check
  <2>2. \A u \in Tabs : call'[u] = call[u] \/ call'[u].phase # "signing"
    BY <1>5, NoCallIs DEF Confirm, Calling, MintFails, Record, Handled, TimesOut, Unanswered, Rebroadcast, Check,
                          SpendTypeOK, Called
  <2>3. \A u \in Tabs, n \in Nat :
           /\ InReview(u, n)' = InReview(u, n)
           /\ InMint(u, n)' => InMint(u, n)
           /\ InDraft(u, n)' = InDraft(u, n)
    BY <2>1, <2>2 DEF InReview, InDraft, InMint
  <2> QED  BY <2>1, <2>3, FewerWait DEF Waits, Numbers
<1>6. ASSUME NEW tx \in Txs, ArrivesLate(tx) \/ Mined(tx) \/ OutputsSpent(tx) PROVE Numbers'
  <2>1. UNCHANGED <<review, draft, call, reviews, signed>>
    BY <1>6 DEF ArrivesLate, Mined, OutputsSpent
  <2> QED  BY <2>1, FewerWait DEF InReview, InDraft, InMint, Waits, Numbers
<1> QED  BY <1>1, <1>2, <1>3, <1>4, <1>5, <1>6, ReviewsNumber, SigningNumbers DEF SpendNext

(* However often a confirmation is repeated, a review is signed at most    *)
(* once: pendingSend.signed and its like in app.js.                        *)
THEOREM SignedOnce == SpendSpec => []OneTxPerReview
<1>1. SpendInit => Numbers
  BY Bounds DEF SpendInit, Numbers, OneTxPerReview, Waits, InReview, InDraft, InMint, NoCall
<1>2. Numbers => OneTxPerReview
  BY DEF Numbers
<1> QED  BY <1>1, <1>2, NumbersStep, SpendTypeCorrect, PTL DEF SpendSpec

-----------------------------------------------------------------------------
(* The ceiling                                                             *)

Texts == {Absent, Unlimited} \union {Text(n) : n \in Int}

CapInv ==
    /\ raw \in Texts
    /\ pendingCap \in [CapTabs -> Ladder]
    /\ \A t \in CapTabs : phrase[t] => asking[t] /\ read[t] = pendingCap[t]
    /\ DOMAIN asking = CapTabs /\ DOMAIN phrase = CapTabs /\ DOMAIN read = CapTabs

\* What is stored for a ceiling of the ladder is read as that ceiling.
LEMMA CapStored ==
    ASSUME NEW cap \in Ladder
    PROVE  StorageValue(cap) \in Texts /\ CapOf(StorageValue(cap)) = cap
<1>1. CASE cap = NoLimit
    <2>1. StorageValue(cap) = Unlimited /\ Unlimited.kind # "text" /\ Unlimited # Absent
        BY <1>1 DEF StorageValue, Unlimited, Absent
    <2>2. CapOf(Unlimited) = NoLimit
        BY <2>1 DEF CapOf
    <2> QED
        BY <1>1, <2>1, <2>2 DEF Texts
<1>2. CASE cap # NoLimit
    <2>1. cap \in {500, 2000, 10000} /\ StorageValue(cap) = Text(cap)
        BY <1>2 DEF Ladder, StorageValue
    <2>2. Text(cap).kind = "text" /\ Text(cap).value = cap /\ Text(cap) # Unlimited /\ Text(cap) # Absent
        BY DEF Text, Unlimited, Absent
    <2>3. CapOf(Text(cap)) = cap
        BY <2>1, <2>2 DEF CapOf, Ladder
    <2> QED
        BY <2>1, <2>3 DEF Texts
<1> QED
    BY <1>1, <1>2

\* Whatever is stored is read as a rung of the ladder, from which no step stays put.
LEMMA CapOnLadder ==
    ASSUME NEW text \in Texts
    PROVE  CapOf(text) \in Ladder /\ ~IsRaise(CapOf(text), CapOf(text))
<1>1. CapOf(text) \in Ladder
    <2>1. CASE text = Unlimited
        <3>1. text.kind # "text" /\ text # Absent
            BY <2>1 DEF Absent, Unlimited
        <3> QED
            BY <2>1, <3>1 DEF CapOf, Ladder
    <2>2. CASE text = Absent
        <3>1. text # Unlimited /\ text.kind # "text"
            BY <2>2 DEF Absent, Unlimited
        <3> QED
            BY <2>2, <3>1 DEF CapOf, Ladder, Default
    <2>3. ASSUME NEW n \in Int, text = Text(n) PROVE CapOf(text) \in Ladder
        <3>1. text # Unlimited /\ text.kind = "text" /\ text # Absent
            BY <2>3 DEF Absent, Unlimited, Text
        <3>2. CapOf(text) = IF text.value > 0 /\ text.value \in Ladder THEN text.value ELSE Default
            BY <3>1 DEF CapOf
        <3> QED
            BY <3>2 DEF Ladder, Default
    <2> QED
        BY <2>1, <2>2, <2>3 DEF Texts
<1> QED
    BY <1>1 DEF IsRaise, Ladder, NoLimit

LEMMA CapInvInit == CapInit => CapInv
    BY SpendCapAssumption DEF CapInit, CapInv, Texts, Ladder

LEMMA CapInvClose ==
    ASSUME CapInv, NEW t \in CapTabs, Close(t), raw' \in Texts, UNCHANGED read
    PROVE  CapInv'
    BY DEF CapInv, Close, Ladder

LEMMA CapInvNext == CapInv /\ [CapNext]_capVars => CapInv'
<1> SUFFICES ASSUME CapInv, [CapNext]_capVars PROVE CapInv'
    OBVIOUS
<1>1. ASSUME NEW t \in CapTabs, TypePhrase(t) PROVE CapInv'
    BY <1>1 DEF CapInv, TypePhrase
<1>2. ASSUME NEW t \in CapTabs, Cancelled(t) PROVE CapInv'
    BY <1>2, CapInvClose DEF CapInv, Cancelled
<1>3. ASSUME NEW t \in CapTabs, Accept(t) PROVE CapInv'
    <2>1. pendingCap[t] \in Ladder
        BY DEF CapInv
    <2>2. CASE raw' = StorageValue(pendingCap[t]) /\ Close(t)
        BY <1>3, <2>1, <2>2, CapStored, CapInvClose DEF Accept
    <2>3. CASE UNCHANGED <<raw, pendingCap, asking, phrase>>
        BY <1>3, <2>3 DEF Accept, CapInv
    <2> QED
        BY <1>3, <2>2, <2>3 DEF Accept
<1>4. ASSUME NEW t \in CapTabs, NEW next \in Ladder, Choose(t, next) PROVE CapInv'
    <2>1. CASE IsRaise(CapOf(raw), next)
        BY <1>4, <2>1 DEF Choose, CapInv
    <2>2. CASE ~IsRaise(CapOf(raw), next)
        BY <1>4, <2>2, CapStored DEF Choose, CapInv
    <2> QED
        BY <2>1, <2>2
<1>5. CASE UNCHANGED capVars
    BY <1>5 DEF capVars, CapInv
<1> QED
    BY <1>1, <1>2, <1>3, <1>4, <1>5 DEF CapNext

\* The ceiling rises only to what a ceremony named when the phrase was typed into it
\* (the cap's select and closeCapCeremony in app.js), for any number of tabs and any
\* text that was stored.
THEOREM RaisedByCeremony == CapSpec => CapAcknowledged
<1> DEFINE Named == \E t \in CapTabs : asking[t] /\ phrase[t] /\ read[t] = CapOf(raw')
<1>1. CapInv /\ [CapNext]_capVars => [IsRaise(CapOf(raw), CapOf(raw')) => Named]_capVars
    <2> SUFFICES ASSUME CapInv, CapNext, IsRaise(CapOf(raw), CapOf(raw')) PROVE Named
        OBVIOUS
    <2>1. raw' # raw
        BY CapOnLadder DEF CapInv
    <2>2. ASSUME NEW t \in CapTabs, NEW next \in Ladder, Choose(t, next) PROVE FALSE
        <3>1. raw' = StorageValue(next) /\ ~IsRaise(CapOf(raw), next)
            BY <2>1, <2>2 DEF Choose
        <3> QED
            BY <3>1, CapStored
    <2>3. PICK t \in CapTabs : Accept(t)
        BY <2>1, <2>2 DEF CapNext, TypePhrase, Cancelled
    <2>4. raw' = StorageValue(pendingCap[t]) /\ asking[t] /\ phrase[t]
        BY <2>1, <2>3 DEF Accept
    <2>5. read[t] = pendingCap[t] /\ CapOf(raw') = pendingCap[t]
        BY <2>4, CapStored DEF CapInv
    <2> QED
        BY <2>4, <2>5
<1> QED
    BY CapInvInit, CapInvNext, <1>1, PTL DEF CapSpec, CapAcknowledged

-----------------------------------------------------------------------------
(* Gifts                                                                   *)

GiftFunds == GiftCoins \union {Merged(n) : n \in Nat}

GiftPlans == [owner : Givers, fund : GiftFunds, merging : SUBSET GiftCoins, signed : GiftFunds]

\* A plan without a merge, or whose mint is under way, has its coin; a mint the network
\* took was signed with the coin its plan remembers.
GiftInv ==
    /\ opener \in Givers \union {Shut}
    /\ gifts \in Seq(GiftPlans)
    /\ reviewing \in 0 .. Len(gifts) /\ shown \in 0 .. Len(gifts)
    /\ giving \in [phase : {"none", "auth", "merge", "wait", "mint", "sent"}, gift : 0 .. Len(gifts)]
    /\ giving.phase # "none" => giving.gift # 0
    /\ \A n \in 1 .. Len(gifts) : gifts[n].merging = {} => gifts[n].fund # NoGiftCoin
    /\ giving.phase = "mint" => gifts[giving.gift].fund # NoGiftCoin
    /\ mints \subseteq [gift : 1 .. Len(gifts), coin : GiftFunds]
    /\ \A m \in mints : m.coin # NoGiftCoin /\ gifts[m.gift].signed = m.coin

LEMMA GiftInvInit == GiftInit => GiftInv
    BY DEF GiftInit, GiftInv, NotGiving

LEMMA GiftFundsExist == NoGiftCoin \in GiftFunds /\ LargeCoins \subseteq GiftFunds /\ NoGiftCoin \notin LargeCoins
<1>1. NoGiftCoin = Merged(0) /\ NoGiftCoin \notin GiftCoins
    BY GiftAssumption DEF NoGiftCoin, Merged
<1>2. \A n \in 1 .. Len(gifts) : Merged(n) # NoGiftCoin
    <2> SUFFICES ASSUME NEW n \in 1 .. Len(gifts) PROVE Merged(n) # NoGiftCoin
        OBVIOUS
    <2>1. Merged(n).merge = n /\ NoGiftCoin.merge = 0
        BY DEF Merged, NoGiftCoin
    <2> QED
        BY <2>1
<1> QED
    BY <1>1, <1>2, GiftAssumption DEF LargeCoins, GiftFunds

\* A review: the plans before it stay.
LEMMA GiftInvReviewed == ASSUME GiftInv, GiftReviewed PROVE GiftInv'
<1>1. PICK g \in GiftPlans : gifts' = Append(gifts, g) /\ (g.merging = {} => g.fund # NoGiftCoin)
    <2>1. CASE \E c \in LargeCoins :
             gifts' = Append(gifts, [owner |-> opener, fund |-> c, merging |-> {}, signed |-> NoGiftCoin])
        <3>1. PICK c \in LargeCoins :
             gifts' = Append(gifts, [owner |-> opener, fund |-> c, merging |-> {}, signed |-> NoGiftCoin])
            BY <2>1
        <3>2. [owner |-> opener, fund |-> c, merging |-> {}, signed |-> NoGiftCoin] \in GiftPlans
            BY GiftFundsExist DEF GiftPlans, GiftInv, GiftReviewed
        <3>3. c # NoGiftCoin
            BY GiftFundsExist
        <3> QED
            BY <3>1, <3>2, <3>3
    <2>2. CASE /\ Cardinality(SmallCoins) >= 2
               /\ gifts' = Append(gifts, [owner |-> opener, fund |-> NoGiftCoin, merging |-> SmallCoins,
                                     signed |-> NoGiftCoin])
        <3>1. SmallCoins # {} /\ SmallCoins \subseteq GiftCoins
            <4>1. Cardinality({}) = 0
                BY FS_EmptySet
            <4>2. ASSUME SmallCoins = {} PROVE FALSE
                <5>1. Cardinality(SmallCoins) = 0
                    BY ONLY <4>1, <4>2, Zenon
                <5> QED
                    BY <2>2, <5>1
            <4> QED
                BY <4>2 DEF SmallCoins
        <3>2. [owner |-> opener, fund |-> NoGiftCoin, merging |-> SmallCoins, signed |-> NoGiftCoin] \in GiftPlans
            BY <3>1, GiftFundsExist DEF GiftPlans, GiftInv, GiftReviewed
        <3> QED
            BY <2>2, <3>1, <3>2
    <2> QED
        BY <2>1, <2>2 DEF GiftReviewed
<1>2. /\ gifts' \in Seq(GiftPlans) /\ Len(gifts') = Len(gifts) + 1
      /\ \A n \in 1 .. Len(gifts) : gifts'[n] = gifts[n]
      /\ gifts'[Len(gifts) + 1] = g
    BY <1>1 DEF GiftInv
<1>3. UNCHANGED <<opener, shown, giving, mints>> /\ reviewing' = Len(gifts')
    BY DEF GiftReviewed
<1>4. \A n \in 1 .. Len(gifts') : gifts'[n].merging = {} => gifts'[n].fund # NoGiftCoin
    BY <1>1, <1>2 DEF GiftInv
<1>5. Len(gifts) \in Nat
    BY DEF GiftInv
<1>6. giving'.phase = "mint" => gifts'[giving'.gift].fund # NoGiftCoin
    BY <1>2, <1>3, <1>5 DEF GiftInv
<1>7. \A m \in mints' : m \in [gift : 1 .. Len(gifts'), coin : GiftFunds] /\ gifts'[m.gift].signed = m.coin
    BY <1>2, <1>3, <1>5 DEF GiftInv
<1>8. /\ giving' \in [phase : {"none", "auth", "merge", "wait", "mint", "sent"}, gift : 0 .. Len(gifts')]
      /\ giving'.phase # "none" => giving'.gift # 0
      /\ reviewing' \in 0 .. Len(gifts') /\ shown' \in 0 .. Len(gifts') /\ opener' \in Givers \union {Shut}
    BY <1>2, <1>3, <1>5 DEF GiftInv
<1>9. \A m \in mints' : m.coin # NoGiftCoin
    BY <1>3 DEF GiftInv
<1> QED
    BY <1>2, <1>4, <1>6, <1>7, <1>8, <1>9 DEF GiftInv

\* A plan gets its coin, or its mint is signed.
LEMMA GiftInvPlanned ==
    ASSUME GiftInv, NEW g \in GiftPlans, gifts' = [gifts EXCEPT ![giving.gift] = g],
           giving.gift # 0, g.fund # NoGiftCoin, UNCHANGED <<opener, reviewing, shown>>,
           giving' = NotGiving \/ \E p \in {"mint", "sent"} : giving' = [giving EXCEPT !.phase = p],
           mints' = mints \/ (g.signed # NoGiftCoin /\ mints' = mints \union {[gift |-> giving.gift, coin |-> g.signed]}),
           g.signed = gifts[giving.gift].signed \/ (gifts[giving.gift].signed = NoGiftCoin /\ g.signed # NoGiftCoin)
    PROVE  GiftInv'
<1>0. giving.gift \in 1 .. Len(gifts) /\ Len(gifts) \in Nat
    BY DEF GiftInv
<1>1. /\ gifts' \in Seq(GiftPlans) /\ Len(gifts') = Len(gifts) /\ gifts'[giving.gift] = g
      /\ \A n \in 1 .. Len(gifts) \ {giving.gift} : gifts'[n] = gifts[n]
    BY <1>0 DEF GiftInv
<1>2. \A n \in 1 .. Len(gifts') : gifts'[n].merging = {} => gifts'[n].fund # NoGiftCoin
    BY <1>1 DEF GiftInv
<1>3. \A m \in mints : m \in [gift : 1 .. Len(gifts'), coin : GiftFunds] /\ m.coin # NoGiftCoin
                       /\ gifts[m.gift].signed = m.coin
    BY <1>1 DEF GiftInv
<1>4. \A m \in mints : gifts'[m.gift].signed = m.coin
    BY <1>1, <1>3
<1>5. \A m \in mints' \ mints : m \in [gift : 1 .. Len(gifts'), coin : GiftFunds] /\ m.coin # NoGiftCoin
                                /\ gifts'[m.gift].signed = m.coin
    BY <1>0, <1>1 DEF GiftPlans
<1>6. /\ giving' \in [phase : {"none", "auth", "merge", "wait", "mint", "sent"}, gift : 0 .. Len(gifts')]
      /\ giving'.phase # "none" => giving'.gift = giving.gift
    BY <1>1, <1>0 DEF GiftInv, NotGiving
<1>7. giving'.phase = "mint" => gifts'[giving'.gift].fund # NoGiftCoin
    BY <1>1, <1>6
<1>8. reviewing' \in 0 .. Len(gifts') /\ shown' \in 0 .. Len(gifts') /\ opener' \in Givers \union {Shut}
    BY <1>1 DEF GiftInv
<1> QED
    BY <1>1, <1>2, <1>3, <1>4, <1>5, <1>6, <1>7, <1>8 DEF GiftInv

LEMMA GiftInvNext == GiftInv /\ [GiftNext]_giftVars => GiftInv'
<1> SUFFICES ASSUME GiftInv, [GiftNext]_giftVars PROVE GiftInv'
    OBVIOUS
<1>1. CASE GiftReviewed
    BY <1>1, GiftInvReviewed
<1>2. CASE GiftShown \/ GiftReviewFails \/ GiftCancelled
    BY <1>2 DEF GiftInv, GiftShown, GiftReviewFails, GiftCancelled
<1>3. ASSUME NEW w \in Givers \union {Shut}, Switches(w) PROVE GiftInv'
    BY <1>3 DEF GiftInv, Switches, NotGiving
<1>4. CASE GiftConfirmed
    <2>1. giving'.phase = "auth" /\ giving'.gift = shown /\ shown # 0
          /\ giving' \in [phase : {"none", "auth", "merge", "wait", "mint", "sent"}, gift : 0 .. Len(gifts)]
        BY <1>4 DEF GiftConfirmed, GiftInv
    <2> QED
        BY <1>4, <2>1 DEF GiftInv, GiftConfirmed
<1>5. CASE PasswordGiven
    <2>1. giving'.phase = "mint" => Minting
        BY <1>5 DEF PasswordGiven, GiftInv
    <2>2. /\ giving' \in [phase : {"none", "auth", "merge", "wait", "mint", "sent"}, gift : 0 .. Len(gifts)]
          /\ giving'.gift = giving.gift /\ giving.gift # 0
        BY <1>5 DEF PasswordGiven, GiftInv
    <2>3. giving'.phase = "mint" => gifts[giving'.gift].fund # NoGiftCoin
        BY <2>1, <2>2 DEF Minting, GiftInv
    <2> QED
        BY <1>5, <2>2, <2>3 DEF GiftInv, PasswordGiven
<1>6. CASE MergeSent \/ GiftStops \/ Gifted \/ \E n \in 1 .. Len(gifts) : MergeMined(n)
    <2>1. /\ UNCHANGED <<opener, gifts, reviewing, mints>> /\ shown' \in {shown, 0}
          /\ \/ giving' = NotGiving \/ giving' = giving
             \/ giving.phase = "merge" /\ giving' = [giving EXCEPT !.phase = "wait"]
        BY <1>6 DEF MergeSent, GiftStops, Gifted, MergeMined, GiveUp
    <2> QED
        BY <2>1 DEF GiftInv, NotGiving
<1>7. CASE MergeSeen
    <2>1. PICK c \in LargeCoins : gifts' = [gifts EXCEPT ![giving.gift].fund = c]
        BY <1>7 DEF MergeSeen
    <2>2. PICK old \in GiftPlans : old = gifts[giving.gift]
        BY <1>7 DEF MergeSeen, GiftInv
    <2>3. PICK g : g = [old EXCEPT !.fund = c]
        OBVIOUS
    <2>4. g \in GiftPlans /\ g.fund = c /\ g.signed = old.signed /\ c # NoGiftCoin
        BY <2>3, GiftFundsExist DEF GiftPlans
    <2>5. gifts' = [gifts EXCEPT ![giving.gift] = g]
        BY <2>1, <2>2, <2>3
    <2>6. giving' = [giving EXCEPT !.phase = "mint"] /\ giving.gift # 0 /\ UNCHANGED <<opener, reviewing, shown, mints>>
        BY <1>7 DEF MergeSeen, GiftInv
    <2> QED
        BY <2>2, <2>4, <2>5, <2>6, GiftInvPlanned
<1>8. CASE MintSent
    <2>1. PICK old \in GiftPlans : old = gifts[giving.gift]
        BY <1>8 DEF MintSent, GiftInv
    <2>2. PICK coin : coin = SignedWith(old)
        OBVIOUS
    <2>3. coin \in GiftFunds /\ coin # NoGiftCoin /\ old.fund # NoGiftCoin
          /\ (coin = old.signed \/ old.signed = NoGiftCoin)
        BY <1>8, <2>1, <2>2 DEF MintSent, GiftInv, SignedWith, GiftPlans
    <2>4. PICK g : g = [old EXCEPT !.signed = coin]
        OBVIOUS
    <2>5. g \in GiftPlans /\ g.fund = old.fund /\ g.signed = coin
        BY <2>3, <2>4 DEF GiftPlans
    <2>6. /\ gifts' = [gifts EXCEPT ![giving.gift].signed = coin]
          /\ mints' = mints \/ mints' = mints \union {[gift |-> giving.gift, coin |-> coin]}
          /\ giving' = NotGiving \/ giving' = [giving EXCEPT !.phase = "sent"]
          /\ UNCHANGED <<opener, reviewing, shown>> /\ giving.gift # 0
        BY <1>8, <2>1, <2>2 DEF MintSent, GiftInv
    <2>7. gifts' = [gifts EXCEPT ![giving.gift] = g]
        BY <2>1, <2>4, <2>6
    <2> QED
        BY <2>1, <2>3, <2>5, <2>6, <2>7, GiftInvPlanned
<1>9. CASE UNCHANGED giftVars
    BY <1>9 DEF giftVars, GiftInv
<1> QED
    BY <1>1, <1>2, <1>3, <1>4, <1>5, <1>6, <1>7, <1>8, <1>9 DEF GiftNext

\* A gift that was reviewed once is minted at most once (pendingGift.signedMint in
\* treasury-ui.js), for any wallets, coins and number of gifts, whatever answers are
\* lost and however often it is confirmed.
THEOREM GivenOnce == GiftSpec => []GiftOnce
<1>1. GiftInv => GiftOnce
    BY DEF GiftInv, GiftOnce
<1> QED
    BY GiftInvInit, GiftInvNext, <1>1, PTL DEF GiftSpec

-----------------------------------------------------------------------------
(* The session                                                             *)

Persons == Seeds \union {Nobody}

Pages ==
    [open : Persons, mode : {"choice", "unlock", "backup", "quiz", "done"},
     ceremony : [id : Persons, words : Persons], grid : Persons,
     seedUp : BOOLEAN, seedOf : Persons, hides : BOOLEAN, locks : BOOLEAN]

\* A page that may stand beside a vault which is unlocked or not: a ceremony has one wallet
\* and lies over one.
Clean(u, unl) ==
    /\ u \in Pages
    /\ u.seedOf # Nobody => u.seedOf = u.open /\ u.hides /\ u.seedUp
    /\ u.grid # Nobody => u.grid = u.ceremony.id /\ u.mode = "backup" /\ u.hides
    /\ u.ceremony.words = u.ceremony.id
    /\ u.ceremony # NoCeremony => u.open # Nobody
    /\ u.mode \in {"backup", "quiz"} => u.ceremony # NoCeremony
    /\ u.open # Nobody => unl /\ u.locks

Records == [ids : SUBSET Seeds, active : Seeds, done : SUBSET Seeds, rev : Nat]

Whole(r) == r # NoRecord => r \in Records /\ r.active \in r.ids /\ r.rev # 0

SaveKinds == {"create", "restore", "import", "pick", "opening", "quiz", "remove"}

\* A write that rests on the record as it is knows the wallet it makes active.
FlowOK(f) ==
    /\ f = [kind |-> f.kind, id |-> f.id, awaits |-> f.awaits, base |-> f.base, at |-> f.at]
    /\ f.base \in Nat
    /\ f.awaits = "password" => f.at = ui.open /\ f.at # Nobody /\ f.kind \in {"reveal", "backup", "treasury"} /\ f.id \in Seeds
    /\ f.awaits = "save" =>
          /\ f.id \in Seeds /\ f.kind \in SaveKinds
          /\ f.kind \in {"restore", "quiz"} => f.id \in earned
          /\ f.base = 0 => f.kind \in {"create", "restore", "import"}
          /\ stored # NoRecord =>
                /\ f.base <= stored.rev
                /\ f.base = stored.rev /\ f.kind \in {"pick", "opening"} => f.id \in stored.ids

Marked == stored # NoRecord => stored.done \subseteq earned

CopyOK ==
    /\ unlocked => mine # NoRecord
    /\ mine # NoRecord /\ stored # NoRecord =>
          mine.rev <= stored.rev /\ (mine.rev = stored.rev => mine = stored)

SessionInv ==
    /\ Whole(stored) /\ Whole(mine) /\ unlocked \in BOOLEAN
    /\ CopyOK /\ Marked
    /\ Clean(ui, unlocked)
    /\ \A f \in flows : FlowOK(f)

\* The operators of the page.
LEMMA NobodyIs == Nobody \in Persons /\ Nobody \notin Seeds /\ NoCeremony \in [id : Persons, words : Persons]
    BY SessionAssumption DEF Persons, NoCeremony

LEMMA TeardownIs ==
    ASSUME NEW u \in Pages, NEW rest \in {"choice", "unlock"}, NEW v, v = Teardown(u, rest)
    PROVE  v = [open |-> u.open, mode |-> rest, ceremony |-> NoCeremony, grid |-> Nobody,
                seedUp |-> FALSE, seedOf |-> Nobody, hides |-> FALSE, locks |-> FALSE]
<1>1. PICK a : a = HideSeed(u)
    OBVIOUS
<1>2. a \in Pages /\ a.open = u.open /\ ~a.seedUp /\ a.seedOf = Nobody /\ ~a.hides
    BY <1>1, NobodyIs DEF HideSeed, Pages
<1>3. PICK b : b = [a EXCEPT !.ceremony = NoCeremony]
    OBVIOUS
<1>4. b \in Pages /\ b.open = u.open /\ b.ceremony = NoCeremony /\ ~b.seedUp /\ b.seedOf = Nobody /\ ~b.hides
    BY <1>2, <1>3, NobodyIs DEF Pages
<1>5. PICK c : c = SetMode(b, rest)
    OBVIOUS
<1>6. /\ c \in Pages /\ c.open = u.open /\ c.mode = rest /\ c.ceremony = NoCeremony /\ c.grid = Nobody
      /\ ~c.seedUp /\ c.seedOf = Nobody /\ ~c.hides
    BY <1>4, <1>5, NobodyIs DEF SetMode, Pages
<1>7. v = [c EXCEPT !.locks = FALSE]
    BY <1>1, <1>3, <1>5 DEF Teardown, CloseConnect
<1> QED
    BY <1>6, <1>7 DEF Pages

LEMMA TornClean ==
    ASSUME NEW u \in Pages, NEW mode \in {"choice", "unlock"}, NEW unl \in BOOLEAN, NEW v, v = Torn(u, mode)
    PROVE  Clean(v, unl) /\ v.open = Nobody
<1>1. PICK a : a = Teardown(u, mode)
    OBVIOUS
<1>2. a = [open |-> u.open, mode |-> mode, ceremony |-> NoCeremony, grid |-> Nobody,
           seedUp |-> FALSE, seedOf |-> Nobody, hides |-> FALSE, locks |-> FALSE]
    BY <1>1, TeardownIs
<1>3. v = [a EXCEPT !.open = Nobody]
    BY <1>1 DEF Torn
<1>4. v = [open |-> Nobody, mode |-> mode, ceremony |-> NoCeremony, grid |-> Nobody,
           seedUp |-> FALSE, seedOf |-> Nobody, hides |-> FALSE, locks |-> FALSE]
    BY <1>2, <1>3
<1> QED
    BY <1>4, NobodyIs DEF Clean, Pages, NoCeremony

LEMMA OpenedClean ==
    ASSUME NEW u \in Pages, NEW w \in Seeds, NEW rest \in {"choice", "unlock"},
           NEW v, v = Opened(Teardown(u, rest), w)
    PROVE  Clean(v, TRUE) /\ v.open = w
<1>1. PICK a : a = Teardown(u, rest)
    OBVIOUS
<1>2. a = [open |-> u.open, mode |-> rest, ceremony |-> NoCeremony, grid |-> Nobody,
           seedUp |-> FALSE, seedOf |-> Nobody, hides |-> FALSE, locks |-> FALSE]
    BY <1>1, TeardownIs
<1>3. v = [a EXCEPT !.open = w, !.locks = TRUE]
    BY <1>1 DEF Opened
<1>4. v = [open |-> w, mode |-> rest, ceremony |-> NoCeremony, grid |-> Nobody,
           seedUp |-> FALSE, seedOf |-> Nobody, hides |-> FALSE, locks |-> TRUE]
    BY <1>2, <1>3
<1> QED
    BY <1>4, NobodyIs DEF Clean, Pages, NoCeremony, Persons

\* A switch in an unlocked tab shows the wallet; in a locked one it shows nothing.
LEMMA SwitchedClean ==
    ASSUME NEW u \in Pages, NEW w \in Seeds, NEW record, NEW unl \in BOOLEAN,
           unl => w \in Ids(record), ~unl => u.open = Nobody,
           NEW v, v = Switched(u, w, record, unl)
    PROVE  Clean(v, unl) /\ v.open = IF unl THEN w ELSE Nobody
<1>1. CASE unl
    <2>1. v = Opened(Teardown(u, "choice"), w)
        BY <1>1 DEF Switched
    <2> QED
        BY <1>1, <2>1, OpenedClean
<1>2. CASE ~unl
    <2>1. PICK rest \in {"choice", "unlock"} : v = Teardown(u, rest)
        BY <1>2 DEF Switched, Rest
    <2>2. v = [open |-> Nobody, mode |-> rest, ceremony |-> NoCeremony, grid |-> Nobody,
               seedUp |-> FALSE, seedOf |-> Nobody, hides |-> FALSE, locks |-> FALSE]
        BY <1>2, <2>1, TeardownIs
    <2> QED
        BY <1>2, <2>2, NobodyIs DEF Clean, Pages, NoCeremony
<1> QED
    BY <1>1, <1>2

LEMMA CeremonyClean ==
    ASSUME NEW u, NEW w \in Seeds, NEW unl \in BOOLEAN, Clean(u, unl), u.open # Nobody,
           NEW v, v = Ceremony(u, w)
    PROVE  Clean(v, unl) /\ v.open = u.open
<1>1. PICK c : c = [id |-> w, words |-> w]
    OBVIOUS
<1>2. c \in [id : Persons, words : Persons] /\ c # NoCeremony /\ c.id = w /\ c.words = w
    BY <1>1, NobodyIs DEF Persons, NoCeremony
<1>3. v = [u EXCEPT !.ceremony = c, !.grid = Nobody, !.mode = "backup"]
    BY <1>1 DEF Ceremony
<1>4. /\ v \in Pages /\ v.open = u.open /\ v.ceremony = c /\ v.grid = Nobody /\ v.mode = "backup"
      /\ v.seedOf = u.seedOf /\ v.seedUp = u.seedUp /\ v.hides = u.hides /\ v.locks = u.locks
    BY <1>2, <1>3, NobodyIs DEF Clean, Pages
<1> QED
    BY <1>2, <1>4 DEF Clean

LEMMA SetModeClean ==
    ASSUME NEW u, NEW mode \in {"choice", "unlock", "quiz", "done"}, NEW unl \in BOOLEAN, Clean(u, unl),
           mode = "quiz" => u.ceremony # NoCeremony,
           NEW v, v = SetMode(u, mode)
    PROVE  Clean(v, unl) /\ v.open = u.open
<1>1. v = [u EXCEPT !.mode = mode, !.grid = Nobody]
    BY DEF SetMode
<1>2. /\ v \in Pages /\ v.open = u.open /\ v.ceremony = u.ceremony /\ v.grid = Nobody /\ v.mode = mode
      /\ v.seedOf = u.seedOf /\ v.seedUp = u.seedUp /\ v.hides = u.hides /\ v.locks = u.locks
    BY <1>1, NobodyIs DEF Clean, Pages
<1> QED
    BY <1>2 DEF Clean

\* The tab follows a record: what stays on the page is of a wallet it holds.
LEMMA ReconciledClean ==
    ASSUME SessionInv, NEW unl, unl = (unlocked /\ stored # NoRecord), NEW r, r = Reconciled(stored, unl)
    PROVE  /\ Clean(r.page, unl) /\ r.left \subseteq flows
           /\ \A f \in r.left : f.awaits = "password" => r.page.open = ui.open
<1>1. ui \in Pages /\ unl \in BOOLEAN /\ Clean(ui, unlocked) /\ \A f \in flows : FlowOK(f)
    BY DEF SessionInv, Clean
<1>2. CASE unl
    <2>0. unl = TRUE /\ unlocked = TRUE
        BY <1>1, <1>2 DEF SessionInv
    <2>1. stored.active \in Seeds /\ stored.active \in Ids(stored) /\ Clean(ui, TRUE)
        BY <1>1, <1>2, <2>0 DEF SessionInv, Whole, Records, Ids
    <2>2. CASE ui.open # Nobody /\ stored.active # ui.open
        <3>1. PICK p : p = Switched(ui, stored.active, stored, TRUE)
            OBVIOUS
        <3>2. Clean(p, TRUE)
            BY <1>1, <2>1, <3>1, SwitchedClean
        <3>3. r = [page |-> p, left |-> Dropped]
            BY <1>2, <2>2, <3>1 DEF Reconciled
        <3>4. r.page = p /\ r.left = Dropped
            BY <3>3
        <3>5. Dropped \subseteq flows /\ \A f \in Dropped : f.awaits # "password"
            BY DEF Dropped, Asked
        <3> QED
            BY <2>0, <3>2, <3>4, <3>5
    <2>3. CASE ~(ui.open # Nobody /\ stored.active # ui.open)
        <3>1. r = [page |-> ui, left |-> flows]
            BY <1>2, <2>3 DEF Reconciled
        <3>2. r.page = ui /\ r.left = flows
            BY <3>1
        <3> QED
            BY <2>0, <2>1, <3>2
    <2> QED
        BY <2>2, <2>3
<1>3. CASE ~unl
    <2>1. PICK mode \in {"choice", "unlock"} : mode = IF stored = NoRecord THEN "choice" ELSE "unlock"
        OBVIOUS
    <2>2. CASE ui.open # Nobody
        <3>1. PICK p : p = Torn(ui, mode)
            OBVIOUS
        <3>2. Clean(p, unl)
            BY <1>1, <3>1, TornClean
        <3>3. r = [page |-> p, left |-> Dropped]
            BY <1>3, <2>1, <2>2, <3>1 DEF Reconciled
        <3> QED
            BY <3>2, <3>3 DEF Dropped, Asked
    <2>3. CASE ui.open = Nobody
        <3>1. PICK p : p = SetMode(ui, mode)
            OBVIOUS
        <3>2. Clean(ui, unl)
            BY <1>1, <2>3 DEF Clean
        <3>3. Clean(p, unl) /\ p.open = ui.open
            BY <1>1, <2>1, <3>1, <3>2, SetModeClean
        <3>4. r = [page |-> p, left |-> flows]
            BY <1>3, <2>1, <2>3, <3>1 DEF Reconciled
        <3> QED
            BY <3>3, <3>4
    <2> QED
        BY <2>2, <2>3
<1> QED
    BY <1>2, <1>3

\* What a write leaves is newer, and whole if it makes active a wallet it has.
LEMMA WrittenWhole ==
    ASSUME Whole(stored), stored # NoRecord, NEW f, f.id \in Seeds, f.kind \in SaveKinds,
           f.kind \in {"pick", "opening"} => f.id \in stored.ids, NEW r, r = Written(f)
    PROVE  \/ r = NoRecord /\ f.kind = "remove"
           \/ /\ r \in Records /\ r.active \in r.ids /\ r.rev = stored.rev + 1 /\ r # NoRecord
              /\ r.done \subseteq stored.done \union (IF f.kind \in {"restore", "quiz"} THEN {f.id} ELSE {})
              /\ f.kind \notin {"remove", "quiz"} => f.id \in r.ids
<1>1. stored \in Records /\ stored.active \in stored.ids /\ stored.rev \in Nat
    BY DEF Whole, Records
<1>2. \A x \in Records : x # NoRecord
    BY SessionAssumption DEF Records
<1>3. CASE f.kind \in {"create", "restore", "import"}
    <2>1. PICK x : x = [stored EXCEPT !.ids = @ \union {f.id}, !.done = IF f.kind = "restore" THEN @ \union {f.id} ELSE @]
        OBVIOUS
    <2>2. r = [x EXCEPT !.rev = @ + 1]
        BY <1>3, <2>1 DEF Written, Bumped
    <2>3. x \in Records /\ x.active = stored.active /\ x.ids = stored.ids \union {f.id} /\ x.rev = stored.rev
          /\ x.done \subseteq stored.done \union (IF f.kind \in {"restore", "quiz"} THEN {f.id} ELSE {})
        BY <1>1, <2>1 DEF Records
    <2>4. r \in Records /\ r.active = x.active /\ r.ids = x.ids /\ r.rev = x.rev + 1 /\ r.done = x.done
        BY <2>2, <2>3 DEF Records
    <2> QED
        BY <1>1, <1>2, <1>3, <2>3, <2>4
<1>4. CASE f.kind \in {"pick", "opening"}
    <2>1. PICK x : x = [stored EXCEPT !.active = f.id]
        OBVIOUS
    <2>2. r = [x EXCEPT !.rev = @ + 1]
        BY <1>4, <2>1 DEF Written, Bumped
    <2>3. x \in Records /\ x.active = f.id /\ x.ids = stored.ids /\ x.rev = stored.rev /\ x.done = stored.done
        BY <1>1, <2>1 DEF Records
    <2>4. r \in Records /\ r.active = x.active /\ r.ids = x.ids /\ r.rev = x.rev + 1 /\ r.done = x.done
        BY <2>2, <2>3 DEF Records
    <2> QED
        BY <1>1, <1>2, <1>4, <2>3, <2>4
<1>5. CASE f.kind = "quiz"
    <2>1. PICK x : x = [stored EXCEPT !.done = @ \union {f.id}]
        OBVIOUS
    <2>2. r = [x EXCEPT !.rev = @ + 1]
        BY <1>5, <2>1 DEF Written, Bumped
    <2>3. x \in Records /\ x.active = stored.active /\ x.ids = stored.ids /\ x.rev = stored.rev
          /\ x.done = stored.done \union {f.id}
        BY <1>1, <2>1 DEF Records
    <2>4. r \in Records /\ r.active = x.active /\ r.ids = x.ids /\ r.rev = x.rev + 1 /\ r.done = x.done
        BY <2>2, <2>3 DEF Records
    <2> QED
        BY <1>1, <1>2, <1>5, <2>3, <2>4
<1>6. CASE f.kind = "remove"
    <2>1. PICK rest : rest = stored.ids \ {f.id}
        OBVIOUS
    <2>2. CASE rest = {}
        BY <1>6, <2>1, <2>2 DEF Written
    <2>3. CASE rest # {}
        <3>1. PICK one \in rest : one = CHOOSE w \in rest : TRUE
            BY <2>3
        <3>2. PICK act : act = IF stored.active = f.id THEN one ELSE stored.active
            OBVIOUS
        <3>3. act \in rest /\ rest \subseteq Seeds
            BY <1>1, <2>1, <3>1, <3>2 DEF Records
        <3>4. PICK x : x = [stored EXCEPT !.ids = rest, !.done = @ \ {f.id}, !.active = IF @ = f.id THEN CHOOSE w \in rest : TRUE ELSE @]
            OBVIOUS
        <3>5. x = [stored EXCEPT !.ids = rest, !.done = @ \ {f.id}, !.active = act]
            BY <3>1, <3>2, <3>4
        <3>6. r = [x EXCEPT !.rev = @ + 1]
            BY <1>6, <2>1, <2>3, <3>4 DEF Written, Bumped
        <3>7. x \in Records /\ x.active = act /\ x.ids = rest /\ x.rev = stored.rev /\ x.done \subseteq stored.done
            BY <1>1, <3>3, <3>5 DEF Records
        <3>8. r \in Records /\ r.active = x.active /\ r.ids = x.ids /\ r.rev = x.rev + 1 /\ r.done = x.done
            BY <3>6, <3>7 DEF Records
        <3> QED
            BY <1>1, <1>2, <1>6, <3>3, <3>7, <3>8
    <2> QED
        BY <2>2, <2>3
<1> QED
    BY <1>3, <1>4, <1>5, <1>6 DEF SaveKinds

\* The first write of a vault.
LEMMA FoundedWhole ==
    ASSUME stored = NoRecord, NEW f, f.id \in Seeds, f.kind \in {"create", "restore", "import"},
           NEW r, r = Written(f)
    PROVE  /\ r \in Records /\ r # NoRecord /\ r.ids = {f.id} /\ r.active = f.id /\ r.rev = 1
           /\ r.done \subseteq (IF f.kind = "restore" THEN {f.id} ELSE {})
<1>1. r = [ids |-> {f.id}, active |-> f.id, done |-> IF f.kind = "restore" THEN {f.id} ELSE {}, rev |-> 1]
    BY DEF Written
<1>2. r \in Records
    BY <1>1 DEF Records
<1> QED
    BY <1>1, <1>2, SessionAssumption DEF Records

\* A flow goes on waiting while the record stays, becomes newer or goes.
LEMMA OldFlows ==
    ASSUME SessionInv, earned \subseteq earned',
           stored' \in {stored, NoRecord} \/ (stored # NoRecord /\ stored'.rev \in Nat /\ stored'.rev > stored.rev),
           NEW f \in flows, f.awaits = "password" => ui'.open = ui.open
    PROVE  FlowOK(f)'
<1>1. FlowOK(f) /\ (stored # NoRecord => stored.rev \in Nat)
    BY DEF SessionInv, Whole, Records
<1> QED
    BY <1>1 DEF FlowOK

\* A write that begins.
LEMMA SaveOK ==
    ASSUME SessionInv, NEW w \in Seeds, NEW kind \in SaveKinds, stored' = stored,
           kind \in {"restore", "quiz"} => w \in earned',
           mine = NoRecord => kind \in {"create", "restore", "import"},
           kind \in {"pick", "opening"} => w \in Ids(mine),
           NEW f, f = Flow(kind, w, "save")
    PROVE  FlowOK(f)'
<1>1. f = [kind |-> kind, id |-> w, awaits |-> "save", base |-> IF mine # NoRecord THEN mine.rev ELSE 0, at |-> Nobody]
    BY DEF Flow
<1>2. /\ mine # NoRecord => mine.rev \in Nat /\ mine.rev # 0
      /\ stored # NoRecord => stored.rev \in Nat
    BY DEF SessionInv, Whole, Records
<1>3. mine # NoRecord /\ stored # NoRecord => mine.rev <= stored.rev /\ (mine.rev = stored.rev => mine = stored)
    BY DEF SessionInv, CopyOK
<1>4. f.base \in Nat /\ (f.base = 0 <=> mine = NoRecord) /\ (mine # NoRecord => f.base = mine.rev)
    BY <1>1, <1>2
<1>5. stored # NoRecord => f.base <= stored.rev /\ (f.base = stored.rev /\ kind \in {"pick", "opening"} => w \in stored.ids)
    BY <1>2, <1>3, <1>4 DEF Ids
<1> QED
    BY <1>1, <1>4, <1>5 DEF FlowOK

LEMMA SessionInvInit == SessionInit => SessionInv
<1> SUFFICES ASSUME SessionInit PROVE SessionInv
    OBVIOUS
<1>1. PICK w \in Seeds : stored = [ids |-> {w}, active |-> w, done |-> {}, rev |-> 1]
    BY DEF SessionInit
<1>2. stored \in Records /\ stored.active \in stored.ids /\ stored.rev = 1 /\ stored.done = {} /\ stored # NoRecord
    BY <1>1, SessionAssumption DEF Records
<1>3. ui = [open |-> Nobody, mode |-> "unlock", ceremony |-> NoCeremony, grid |-> Nobody,
            seedUp |-> FALSE, seedOf |-> Nobody, hides |-> FALSE, locks |-> FALSE]
    BY DEF SessionInit, Blank
<1>4. Clean(ui, FALSE)
    BY <1>3, NobodyIs DEF Clean, Pages, NoCeremony
<1>5. mine = stored /\ unlocked = FALSE /\ flows = {} /\ earned = {}
    BY DEF SessionInit
<1>6. Clean(ui, unlocked)
    BY <1>4, <1>5
<1>7. Whole(stored) /\ Whole(mine) /\ CopyOK /\ Marked
    BY <1>2, <1>5 DEF Whole, CopyOK, Marked
<1> QED
    BY <1>5, <1>6, <1>7 DEF SessionInv

\* A click that only begins a write.
LEMMA SessionInvBegins ==
    ASSUME SessionInv, NEW w \in Seeds, NEW kind \in SaveKinds, flows' = flows \union {Flow(kind, w, "save")},
           UNCHANGED <<stored, mine, unlocked, ui>>, earned \subseteq earned',
           kind \in {"restore", "quiz"} => w \in earned',
           mine = NoRecord => kind \in {"create", "restore", "import"},
           kind \in {"pick", "opening"} => w \in Ids(mine)
    PROVE  SessionInv'
<1>1. PICK f : f = Flow(kind, w, "save")
    OBVIOUS
<1>2. FlowOK(f)'
    BY <1>1, SaveOK
<1>3. \A x \in flows : FlowOK(x)'
    BY OldFlows
<1>4. \A x \in flows' : FlowOK(x)'
    BY <1>1, <1>2, <1>3
<1>5. Marked'
    BY DEF SessionInv, Marked
<1> QED
    BY <1>4, <1>5 DEF SessionInv, Whole, CopyOK, Clean, Pages

LEMMA SessionInvEnter ==
    ASSUME SessionInv, NEW w \in Seeds, NEW kind \in {"create", "restore", "import"}, Enter(kind, w)
    PROVE  SessionInv'
<1>1. UNCHANGED <<stored, mine, unlocked, ui>> /\ earned \subseteq earned' /\ (kind = "restore" => w \in earned')
    BY DEF Enter
<1>2. CASE Status = "unlocked" /\ w \in Ids(mine)
    <2>1. flows' = flows \union {Flow("pick", w, "save")} /\ mine # NoRecord
        BY <1>2 DEF Enter, Ids
    <2> QED
        BY <1>1, <1>2, <2>1, SessionInvBegins DEF SaveKinds
<1>3. CASE ~(Status = "unlocked" /\ w \in Ids(mine))
    <2>1. flows' = flows \union {Flow(kind, w, "save")}
        BY <1>3 DEF Enter, Save
    <2> QED
        BY <1>1, <2>1, SessionInvBegins DEF SaveKinds
<1> QED
    BY <1>2, <1>3

LEMMA SessionInvPick == ASSUME SessionInv, NEW w \in Seeds, Pick(w) PROVE SessionInv'
<1>1. UNCHANGED <<stored, mine, unlocked, ui, earned>> /\ flows' = flows \union {Flow("pick", w, "save")}
      /\ w \in Ids(mine) /\ mine # NoRecord
    BY DEF Pick, Save, Ids
<1> QED
    BY <1>1, SessionInvBegins DEF SaveKinds

LEMMA SessionInvRemove == ASSUME SessionInv, NEW w \in Seeds, RemoveWallet(w) PROVE SessionInv'
<1>1. UNCHANGED <<stored, mine, unlocked, ui, earned>> /\ flows' = flows \union {Flow("remove", w, "save")}
      /\ w \in Ids(mine) /\ mine # NoRecord
    BY DEF RemoveWallet, Save, Ids
<1> QED
    BY <1>1, SessionInvBegins DEF SaveKinds

LEMMA SessionInvQuiz == ASSUME SessionInv, QuizPassed PROVE SessionInv'
<1>1. PICK w : w = QuizTarget
    OBVIOUS
<1>2. w \in Ids(mine) /\ mine # NoRecord
    BY <1>1 DEF QuizPassed, Ids
<1>3. w \in Seeds /\ w = ui.ceremony.words
    BY <1>1, <1>2 DEF SessionInv, Whole, Records, Ids, Clean, QuizTarget
<1>4. /\ UNCHANGED <<stored, mine, unlocked, ui>> /\ earned \subseteq earned' /\ w \in earned'
      /\ flows' = flows \union {Flow("quiz", w, "save")}
    BY <1>1, <1>3 DEF QuizPassed, Save
<1> QED
    BY <1>2, <1>3, <1>4, SessionInvBegins DEF SaveKinds

\* Where the records stay, the page and the prompts are what matters.
LEMMA SessionInvPage ==
    ASSUME SessionInv, UNCHANGED <<stored, mine, unlocked, earned>>, Clean(ui', unlocked),
           \A f \in flows' : f \in flows \/ FlowOK(f)',
           ui'.open = ui.open \/ flows' \cap Asked = {}
    PROVE  SessionInv'
<1>1. \A f \in flows' : FlowOK(f)'
    <2> TAKE f \in flows'
    <2>1. CASE f \in flows
        BY <2>1, OldFlows DEF Asked
    <2> QED
        BY <2>1
<1>2. Clean(ui, unlocked)'
    BY DEF Clean, Pages
<1> QED
    BY <1>1, <1>2 DEF SessionInv, Whole, CopyOK, Marked

LEMMA SessionInvAsks == ASSUME SessionInv, Asks PROVE SessionInv'
<1>1. Clean(ui, unlocked) /\ UNCHANGED <<stored, mine, unlocked, earned>>
    BY DEF SessionInv, Asks
<1>2. ui.open \in Seeds /\ ui.open # Nobody /\ ui' = ui
    BY <1>1 DEF Asks, Reveal, Backup, TreasuryBackup, Shown, Ask, Clean, Pages, Persons
<1>3. PICK w \in Seeds, kind \in {"reveal", "backup", "treasury"} : flows' = flows \union {Flow(kind, w, "password")}
    BY <1>2 DEF Asks, Reveal, Backup, TreasuryBackup, Ask
<1>4. PICK f : f = Flow(kind, w, "password")
    OBVIOUS
<1>5. f = [kind |-> kind, id |-> w, awaits |-> "password", base |-> 0, at |-> ui.open]
    BY <1>4 DEF Flow
<1>6. FlowOK(f)'
    BY <1>2, <1>5 DEF FlowOK
<1> QED
    BY <1>1, <1>2, <1>3, <1>4, <1>6, SessionInvPage

LEMMA SessionInvVerify == ASSUME SessionInv, Verify PROVE SessionInv'
<1>1. PICK f : f = Flow("verify", Nobody, "key")
    OBVIOUS
<1>2. f = [kind |-> "verify", id |-> Nobody, awaits |-> "key", base |-> 0, at |-> Nobody]
    BY <1>1 DEF Flow
<1>3. FlowOK(f)'
    BY <1>2 DEF FlowOK
<1>4. UNCHANGED <<stored, mine, unlocked, ui, earned>> /\ flows' = flows \union {f}
    BY <1>1 DEF Verify
<1> QED
    BY <1>3, <1>4, SessionInvPage DEF SessionInv

LEMMA SessionInvDeclined == ASSUME SessionInv, Declined PROVE SessionInv'
    BY SessionInvPage DEF Declined, Dropped, Asked, SessionInv

LEMMA SessionInvVerified == ASSUME SessionInv, NEW f \in flows, Verified(f) PROVE SessionInv'
<1>1. /\ UNCHANGED <<stored, mine, unlocked, earned>> /\ Clean(ui, unlocked) /\ unlocked \in BOOLEAN /\ ui \in Pages
    BY DEF Verified, SessionInv, Clean
<1>2. CASE mine = NoRecord \/ Asked = {}
    BY <1>1, <1>2, SessionInvPage DEF Verified, Dropped, Asked
<1>3. CASE ~(mine = NoRecord \/ Asked = {})
    <2>1. flows' = Dropped \ {f}
        BY <1>3 DEF Verified
    <2>2. PICK g \in Asked : Resumed(g)
        BY <1>3 DEF Verified
    <2>3. g.id \in Seeds /\ ui.open # Nobody /\ ui.open \in Seeds /\ g.kind \in {"reveal", "backup", "treasury"}
        BY <1>1, <2>2 DEF SessionInv, FlowOK, Asked, Pages, Persons
    <2>4. Clean(ui', unlocked)
        <3>1. CASE g.kind = "reveal"
            <4>1. PICK v : v = [ui EXCEPT !.seedUp = TRUE, !.seedOf = Nobody]
                OBVIOUS
            <4>2. ui' = v
                BY <2>2, <2>3, <3>1, <4>1 DEF Resumed
            <4>3. /\ v \in Pages /\ v.open = ui.open /\ v.mode = ui.mode /\ v.ceremony = ui.ceremony /\ v.grid = ui.grid
                  /\ v.seedOf = Nobody /\ v.hides = ui.hides /\ v.locks = ui.locks
                BY <1>1, <4>1, NobodyIs DEF Pages
            <4>4. Clean(v, unlocked)
                BY <1>1, <4>3 DEF Clean
            <4> QED
                BY <4>2, <4>4
        <3>2. CASE g.kind = "backup"
            <4>1. ui' = Ceremony(ui, ui.open)
                BY <2>2, <2>3, <3>2 DEF Resumed
            <4> QED
                BY <1>1, <2>3, <4>1, CeremonyClean
        <3>3. CASE g.kind = "treasury"
            <4>1. ui' = Ceremony(ui, g.id) \/ ui' = ui
                BY <2>2, <3>3 DEF Resumed
            <4> QED
                BY <1>1, <2>3, <4>1, CeremonyClean
        <3> QED
            BY <2>3, <3>1, <3>2, <3>3
    <2> QED
        BY <1>1, <2>1, <2>4, SessionInvPage DEF Dropped
<1> QED
    BY <1>2, <1>3

LEMMA CloseConnectClean ==
    ASSUME NEW u, NEW rest \in {"choice", "unlock"}, NEW unl \in BOOLEAN, Clean(u, unl),
           NEW v, v = CloseConnect(u, rest)
    PROVE  Clean(v, unl) /\ v.open = u.open
<1>1. PICK b : b = [u EXCEPT !.ceremony = NoCeremony]
    OBVIOUS
<1>2. /\ b \in Pages /\ b.ceremony = NoCeremony /\ b.open = u.open /\ b.seedOf = u.seedOf /\ b.seedUp = u.seedUp
      /\ b.hides = u.hides /\ b.locks = u.locks /\ b.grid = u.grid
    BY <1>1, NobodyIs DEF Clean, Pages
<1>3. v = [b EXCEPT !.mode = rest, !.grid = Nobody]
    BY <1>1 DEF CloseConnect, SetMode
<1>4. /\ v \in Pages /\ v.ceremony = NoCeremony /\ v.open = u.open /\ v.seedOf = u.seedOf /\ v.seedUp = u.seedUp
      /\ v.hides = u.hides /\ v.locks = u.locks /\ v.grid = Nobody /\ v.mode = rest
    BY <1>2, <1>3, NobodyIs DEF Pages
<1> QED
    BY <1>4 DEF Clean, NoCeremony

LEMMA SessionInvTaps == ASSUME SessionInv, Taps PROVE SessionInv'
<1>1. UNCHANGED <<stored, mine, unlocked, flows, earned>> /\ Clean(ui, unlocked) /\ ui \in Pages /\ unlocked \in BOOLEAN
    BY DEF Taps, SessionInv, Clean
<1> SUFFICES Clean(ui', unlocked) /\ ui'.open = ui.open
    BY <1>1, SessionInvPage
<1> PICK v : v = ui'
    OBVIOUS
<1>2. CASE ShowSeed
    <2>1. v = [ui EXCEPT !.seedOf = ui.open, !.hides = TRUE] /\ ui.seedUp
        BY <1>2 DEF ShowSeed
    <2>2. /\ v \in Pages /\ v.open = ui.open /\ v.mode = ui.mode /\ v.ceremony = ui.ceremony /\ v.grid = ui.grid
          /\ v.seedUp = ui.seedUp /\ v.seedOf = ui.open /\ v.hides /\ v.locks = ui.locks
        BY <1>1, <2>1 DEF Pages
    <2> QED
        BY <1>1, <2>1, <2>2 DEF Clean
<1>3. CASE FoldSeed
    <2>1. v = [ui EXCEPT !.seedUp = FALSE, !.seedOf = Nobody, !.hides = FALSE]
        BY <1>3 DEF FoldSeed, HideSeed
    <2>2. /\ v \in Pages /\ v.open = ui.open /\ v.mode = ui.mode /\ v.ceremony = ui.ceremony /\ v.grid = ui.grid
          /\ v.seedOf = Nobody /\ v.locks = ui.locks
        BY <1>1, <2>1, NobodyIs DEF Pages
    <2>3. ui.grid = Nobody
        BY <1>1, <1>3 DEF FoldSeed, Uncovered, Clean
    <2> QED
        BY <1>1, <2>2, <2>3 DEF Clean
<1>4. CASE ShowWords
    <2>1. v = [ui EXCEPT !.grid = ui.ceremony.words, !.hides = TRUE] /\ ui.mode = "backup"
        BY <1>4 DEF ShowWords
    <2>2. /\ v \in Pages /\ v.open = ui.open /\ v.mode = ui.mode /\ v.ceremony = ui.ceremony /\ v.grid = ui.ceremony.words
          /\ v.seedUp = ui.seedUp /\ v.seedOf = ui.seedOf /\ v.hides /\ v.locks = ui.locks
        BY <1>1, <2>1 DEF Pages
    <2> QED
        BY <1>1, <2>1, <2>2 DEF Clean
<1>5. CASE Continue
    BY <1>1, <1>5, SetModeClean DEF Continue, Clean
<1>6. CASE Dismiss
    <2>1. PICK rest \in {"choice", "unlock"} : rest = Rest(unlocked)
        BY DEF Rest
    <2> QED
        BY <1>1, <1>6, <2>1, CloseConnectClean DEF Dismiss
<1>7. CASE Wipe
    <2>1. PICK b : b = [ui EXCEPT !.hides = FALSE]
        OBVIOUS
    <2>2. /\ b \in Pages /\ b.open = ui.open /\ b.mode = ui.mode /\ b.ceremony = ui.ceremony /\ b.grid = ui.grid
          /\ b.seedUp = ui.seedUp /\ b.seedOf = ui.seedOf /\ b.locks = ui.locks /\ ~b.hides
        BY <1>1, <2>1 DEF Pages
    <2>3. PICK c : c = IF ui.seedUp THEN HideSeed(b) ELSE b
        OBVIOUS
    <2>4. /\ c \in Pages /\ c.open = ui.open /\ c.mode = ui.mode /\ c.ceremony = ui.ceremony /\ c.grid = ui.grid
          /\ c.seedOf = Nobody /\ c.locks = ui.locks /\ ~c.hides
        <3>1. CASE ui.seedUp
            <4>1. c = [b EXCEPT !.seedUp = FALSE, !.seedOf = Nobody, !.hides = FALSE]
                BY <2>3, <3>1 DEF HideSeed
            <4> QED
                BY <2>2, <4>1, NobodyIs DEF Pages
        <3>2. CASE ~ui.seedUp
            <4>1. c = b /\ ui.seedOf = Nobody
                BY <1>1, <2>3, <3>2 DEF Clean
            <4> QED
                BY <2>2, <4>1
        <3> QED
            BY <3>1, <3>2
    <2>5. v = IF ui.mode = "backup" THEN [c EXCEPT !.grid = Nobody] ELSE c
        BY <1>7, <2>1, <2>3 DEF Wipe
    <2>6. /\ v \in Pages /\ v.open = ui.open /\ v.mode = ui.mode /\ v.ceremony = ui.ceremony
          /\ v.grid = (IF ui.mode = "backup" THEN Nobody ELSE ui.grid)
          /\ v.seedOf = Nobody /\ v.locks = ui.locks
        <3>1. CASE ui.mode = "backup"
            <4>1. v = [c EXCEPT !.grid = Nobody]
                BY <2>5, <3>1
            <4> QED
                BY <2>4, <3>1, <4>1, NobodyIs DEF Pages
        <3>2. CASE ui.mode # "backup"
            BY <2>4, <2>5, <3>2
        <3> QED
            BY <3>1, <3>2
    <2>7. v.grid = Nobody
        BY <1>1, <2>6 DEF Clean
    <2> QED
        BY <1>1, <2>6, <2>7 DEF Clean
<1> QED
    BY <1>2, <1>3, <1>4, <1>5, <1>6, <1>7 DEF Taps

LEMMA SessionInvLock == ASSUME SessionInv, Lock PROVE SessionInv'
<1>1. UNCHANGED <<stored, mine, earned>> /\ unlocked' = FALSE /\ ui' = Torn(ui, "unlock") /\ flows' = Dropped /\ ui \in Pages
    BY DEF Lock, SessionInv, Clean
<1>2. Clean(ui', FALSE)
    BY <1>1, TornClean
<1>3. \A f \in flows' : FlowOK(f)'
    BY <1>1, OldFlows DEF Dropped, Asked
<1>4. Clean(ui, unlocked)'
    BY <1>1, <1>2 DEF Clean, Pages
<1> QED
    BY <1>1, <1>3, <1>4 DEF SessionInv, Whole, CopyOK, Marked

LEMMA SessionInvUnlock == ASSUME SessionInv, Unlock PROVE SessionInv'
<1>1. /\ UNCHANGED <<stored, flows, earned>> /\ unlocked' = TRUE /\ mine' = stored /\ stored # NoRecord
      /\ ui' = SetMode(Opened(ui, stored.active), "choice") /\ ui \in Pages /\ unlocked = FALSE
    BY DEF Unlock, Status, SessionInv, Clean
<1>2. stored.active \in Seeds
    BY <1>1 DEF SessionInv, Whole, Records
<1>3. ui.open = Nobody /\ ui.ceremony = NoCeremony /\ ui.seedOf = Nobody /\ ui.grid = Nobody /\ ui.mode \notin {"backup", "quiz"}
    <2>1. ui.open = Nobody
        BY <1>1 DEF SessionInv, Clean
    <2>2. ui.ceremony = NoCeremony /\ (ui.seedOf # Nobody => ui.seedOf = ui.open)
        BY <2>1 DEF SessionInv, Clean
    <2>3. ui.grid # Nobody => ui.grid = ui.ceremony.id
        BY DEF SessionInv, Clean
    <2>4. ui.mode \notin {"backup", "quiz"}
        BY <2>2 DEF SessionInv, Clean
    <2> QED
        BY <2>1, <2>2, <2>3, <2>4 DEF NoCeremony
<1>4. PICK v : v = [ui EXCEPT !.open = stored.active, !.locks = TRUE]
    OBVIOUS
<1>5. /\ v \in Pages /\ v.open = stored.active /\ v.locks /\ v.mode = ui.mode /\ v.ceremony = NoCeremony
      /\ v.grid = Nobody /\ v.seedOf = Nobody
    BY <1>1, <1>2, <1>3, <1>4 DEF Pages, Persons
<1>6. Clean(v, TRUE)
    BY <1>3, <1>5 DEF Clean, NoCeremony
<1>7. ui' = SetMode(v, "choice")
    BY <1>1, <1>4 DEF Opened
<1>8. Clean(ui', TRUE)
    BY <1>6, <1>7, SetModeClean
<1>9. \A f \in flows' : FlowOK(f)'
    <2>1. \A f \in flows : f.awaits # "password"
        BY <1>3 DEF SessionInv, FlowOK
    <2> QED
        BY <1>1, <2>1, OldFlows
<1>10. Clean(ui, unlocked)'
    BY <1>1, <1>8 DEF Clean, Pages
<1>11. CopyOK'
    BY <1>1, <1>2 DEF CopyOK, SessionInv, Whole, Records
<1>12. Whole(stored)' /\ Whole(mine)' /\ Marked'
    BY <1>1 DEF SessionInv, Whole, Marked
<1> QED
    BY <1>1, <1>9, <1>10, <1>11, <1>12 DEF SessionInv

LEMMA SessionInvTreasury == ASSUME SessionInv, NEW w \in Seeds, OpenTreasury(w) PROVE SessionInv'
<1>1. UNCHANGED <<stored, mine, unlocked, earned>> /\ ui' = Switched(ui, w, mine, unlocked) /\ flows' = Dropped
      /\ w \in Ids(mine) /\ ui.open # Nobody
    BY DEF OpenTreasury, Shown
<1>2. ui \in Pages /\ unlocked \in BOOLEAN /\ unlocked
    BY <1>1 DEF SessionInv, Clean
<1>3. Clean(ui', unlocked)
    BY <1>1, <1>2, SwitchedClean
<1> QED
    BY <1>1, <1>3, SessionInvPage DEF Dropped

LEMMA SessionInvFollows ==
    ASSUME SessionInv, mine' = stored, unlocked' = (unlocked /\ stored # NoRecord), UNCHANGED <<stored, earned>>,
           NEW r, r = Reconciled(stored, unlocked'), ui' = r.page, flows' \subseteq r.left
    PROVE  SessionInv'
<1>1. PICK unl \in BOOLEAN : unl = (unlocked /\ stored # NoRecord) /\ unlocked' = unl
    BY DEF SessionInv
<1>2. Clean(r.page, unl) /\ r.left \subseteq flows /\ \A f \in r.left : f.awaits = "password" => r.page.open = ui.open
    BY <1>1, ReconciledClean
<1>3. \A f \in flows' : FlowOK(f)'
    BY <1>2, OldFlows
<1>4. Clean(ui, unlocked)'
    BY <1>1, <1>2 DEF Clean, Pages
<1>5. CopyOK'
    <2>1. unlocked' => mine' # NoRecord
        BY <1>1
    <2>2. stored # NoRecord => stored.rev <= stored.rev
        BY DEF SessionInv, Whole, Records
    <2> QED
        BY <2>1, <2>2 DEF CopyOK
<1> QED
    BY <1>1, <1>3, <1>4, <1>5 DEF SessionInv, Whole, Marked

LEMMA SessionInvFollow == ASSUME SessionInv, Follow PROVE SessionInv'
    BY SessionInvFollows DEF Follow

LEMMA SessionInvConflict == ASSUME SessionInv, NEW f \in flows, Conflict(f) PROVE SessionInv'
    BY SessionInvFollows DEF Conflict

\* Another tab writes.
LEMMA SessionInvElsewhere == ASSUME SessionInv, Elsewhere PROVE SessionInv'
<1>1. UNCHANGED <<mine, unlocked, flows, ui>> /\ earned \subseteq earned' /\ stored # NoRecord
    BY DEF Elsewhere
<1>2. stored \in Records /\ stored.rev \in Nat /\ stored.done \subseteq earned
    BY <1>1 DEF SessionInv, Whole, Records, Marked
<1>3. \/ stored' = NoRecord
      \/ /\ stored' \in Records /\ stored'.active \in stored'.ids /\ stored'.rev = stored.rev + 1
         /\ stored'.done \subseteq earned'
    <2>1. CASE stored' = NoRecord
        BY <2>1
    <2>2. CASE stored' # NoRecord
        <3>1. PICK w \in Seeds, what \in {"import", "pick", "quiz", "remove"} :
                  /\ what \in {"pick", "quiz", "remove"} => w \in Ids(stored)
                  /\ stored' = Written([kind |-> what, id |-> w])
                  /\ earned' = IF what = "quiz" THEN earned \union {w} ELSE earned
            BY <2>2 DEF Elsewhere
        <3>2. PICK f : f = [kind |-> what, id |-> w]
            OBVIOUS
        <3>3. f.kind = what /\ f.id = w /\ what \in SaveKinds /\ (what = "pick" => w \in stored.ids)
            BY <1>1, <3>1, <3>2 DEF SaveKinds, Ids
        <3>4. PICK r : r = Written(f)
            OBVIOUS
        <3>5. /\ r \in Records /\ r.active \in r.ids /\ r.rev = stored.rev + 1
              /\ r.done \subseteq stored.done \union (IF what \in {"restore", "quiz"} THEN {w} ELSE {})
            BY <1>1, <2>2, <3>1, <3>2, <3>3, <3>4, WrittenWhole DEF SessionInv
        <3>6. stored' = r
            BY <3>1, <3>2, <3>4
        <3> QED
            BY <1>2, <3>1, <3>5, <3>6
    <2> QED
        BY <2>1, <2>2
<1>4. Whole(stored)' /\ Marked'
    BY <1>2, <1>3 DEF Whole, Marked
<1>5. \A f \in flows' : FlowOK(f)'
    BY <1>1, <1>2, <1>3, OldFlows DEF Records
<1>6. CopyOK'
    BY <1>1, <1>2, <1>3 DEF SessionInv, CopyOK, Whole, Records
<1> QED
    BY <1>1, <1>4, <1>5, <1>6 DEF SessionInv, Whole, Clean, Pages

\* A write that succeeds.  `r` is what it leaves; what the page becomes is the cases'.
LEMMA SessionInvWrites ==
    ASSUME SessionInv, NEW f \in flows, f.awaits = "save", NEW r, stored' = r, mine' = r, earned' = earned,
           r # NoRecord => r \in Records /\ r.active \in r.ids /\ r.rev # 0 /\ r.done \subseteq earned,
           stored # NoRecord /\ r # NoRecord => r.rev > stored.rev,
           stored = NoRecord => \A g \in flows \ {f} : g.awaits # "save",
           unlocked' \in BOOLEAN, unlocked' => r # NoRecord, Clean(ui', unlocked'),
           \A g \in flows' : g \in flows \ {f} \/ FlowOK(g)',
           ui'.open = ui.open \/ flows' \cap Asked = {}
    PROVE  SessionInv'
<1>1. \A g \in flows' : FlowOK(g)'
    <2> TAKE g \in flows'
    <2>1. CASE g \in flows \ {f}
        <3>1. g.awaits = "password" => ui'.open = ui.open
            BY <2>1 DEF Asked
        <3>2. stored' = NoRecord \/ (stored # NoRecord /\ stored'.rev \in Nat /\ stored'.rev > stored.rev) \/ g.awaits # "save"
            BY <2>1 DEF Records
        <3>3. CASE g.awaits # "save"
            <4>1. FlowOK(g)
                BY <2>1 DEF SessionInv
            <4> QED
                BY <3>1, <3>3, <4>1 DEF FlowOK
        <3>4. CASE g.awaits = "save"
            BY <2>1, <3>1, <3>2, <3>4, OldFlows
        <3> QED
            BY <3>3, <3>4
    <2> QED
        BY <2>1
<1>2. Whole(stored)' /\ Whole(mine)' /\ Marked'
    BY DEF Whole, Marked
<1>3. CopyOK'
    <2>1. r # NoRecord => r.rev <= r.rev
        BY DEF Records
    <2> QED
        BY <2>1 DEF CopyOK
<1>4. Clean(ui, unlocked)'
    BY DEF Clean, Pages
<1> QED
    BY <1>1, <1>2, <1>3, <1>4 DEF SessionInv

LEMMA SessionInvSaved == ASSUME SessionInv, NEW f \in flows, Saved(f) PROVE SessionInv'
<1>1. PICK r : r = Written(f)
    OBVIOUS
<1>2. /\ f.awaits = "save" /\ Current(f) /\ stored' = r /\ mine' = r /\ earned' = earned
      /\ stored = NoRecord => \A g \in flows \ {f} : g.awaits # "save"
    BY <1>1 DEF Saved
<1>3. /\ FlowOK(f) /\ f.id \in Seeds /\ f.kind \in SaveKinds
      /\ f.kind \in {"restore", "quiz"} => f.id \in earned
      /\ f.id # Nobody
    BY <1>2, SessionAssumption DEF SessionInv, FlowOK
<1>4. ui \in Pages /\ Clean(ui, unlocked) /\ unlocked \in BOOLEAN
    BY DEF SessionInv, Clean
<1>5. CASE stored = NoRecord
    <2>1. f.kind \in {"create", "restore", "import"}
        BY <1>2, <1>3, <1>5 DEF Current, FlowOK
    <2>2. /\ r \in Records /\ r # NoRecord /\ r.ids = {f.id} /\ r.active = f.id /\ r.rev = 1
          /\ r.done \subseteq (IF f.kind = "restore" THEN {f.id} ELSE {})
        BY <1>1, <1>3, <1>5, <2>1, FoundedWhole
    <2>3. PICK page : page = Switched(ui, f.id, r, TRUE)
        OBVIOUS
    <2>4. Clean(page, TRUE) /\ page.open = f.id
        <3>1. f.id \in Ids(r)
            BY <2>2 DEF Ids
        <3>2. page = Opened(Teardown(ui, "choice"), f.id)
            BY <2>3, <3>1 DEF Switched
        <3>3. ui \in Pages /\ f.id \in Seeds
            BY <1>3, <1>4
        <3>4. PICK w \in Seeds : w = f.id
            BY <3>3
        <3>5. page = Opened(Teardown(ui, "choice"), w)
            BY <3>2, <3>4
        <3>6. Clean(page, TRUE) /\ page.open = w
            BY <3>3, <3>5, OpenedClean
        <3> QED
            BY <3>4, <3>6
    <2>5. Founded(f) /\ unlocked' = TRUE
        BY <1>1, <1>5, <2>1, <2>2 DEF Saved
    <2>6. (ui' = page \/ ui' = Ceremony(page, f.id)) /\ flows' = Dropped \ {f}
        BY <1>1, <2>3, <2>5 DEF Founded
    <2>7. Clean(ui', TRUE)
        BY <1>3, <2>4, <2>6, CeremonyClean
    <2>8. r.done \subseteq earned
        BY <1>3, <2>2
    <2>9. Clean(ui', unlocked')
        BY <2>5, <2>7
    <2> QED
        BY <1>2, <1>5, <2>2, <2>5, <2>6, <2>8, <2>9, SessionInvWrites DEF Dropped
<1>6. CASE stored # NoRecord
    <2>1. f.kind \in {"pick", "opening"} => f.id \in stored.ids
        BY <1>2, <1>3, <1>6 DEF Current, FlowOK
    <2>2. Whole(stored) /\ stored.done \subseteq earned /\ stored.rev \in Nat
        BY <1>6 DEF SessionInv, Whole, Records, Marked
    <2>3. \/ r = NoRecord /\ f.kind = "remove"
          \/ /\ r \in Records /\ r.active \in r.ids /\ r.rev = stored.rev + 1 /\ r # NoRecord
             /\ r.done \subseteq stored.done \union (IF f.kind \in {"restore", "quiz"} THEN {f.id} ELSE {})
             /\ f.kind \notin {"remove", "quiz"} => f.id \in r.ids
        BY <1>1, <1>3, <1>6, <2>1, <2>2, WrittenWhole
    <2>4. /\ r # NoRecord => r \in Records /\ r.active \in r.ids /\ r.rev # 0 /\ r.done \subseteq earned /\ r.rev \in Nat
          /\ r # NoRecord => r.rev > stored.rev
        BY <1>3, <2>2, <2>3
    <2>5. unlocked' = IF r = NoRecord THEN FALSE ELSE unlocked
        BY <1>1, <1>6 DEF Saved
    <2>6. CASE f.kind \in {"create", "restore", "import"}
        <3>1. Added(f, r)
            BY <1>1, <1>6, <2>6 DEF Saved
        <3>2. r # NoRecord /\ f.id \in r.ids /\ unlocked' = unlocked
            BY <2>3, <2>5, <2>6
        <3>3. PICK kind \in {"opening", "pick"} : kind = IF f.kind = "create" THEN "opening" ELSE "pick"
            OBVIOUS
        <3>4. PICK g : g = [f EXCEPT !.kind = kind, !.base = r.rev]
            OBVIOUS
        <3>5. ui' = ui /\ (flows' = flows \ {f} \/ flows' = (flows \ {f}) \union {g})
            BY <3>1, <3>3, <3>4 DEF Added
        <3>6. f = [kind |-> f.kind, id |-> f.id, awaits |-> f.awaits, base |-> f.base, at |-> f.at]
            BY <1>3 DEF FlowOK
        <3>7. g = [kind |-> kind, id |-> f.id, awaits |-> "save", base |-> r.rev, at |-> f.at]
            BY <1>2, <3>4, <3>6
        <3>8. r.rev \in Nat /\ r.rev # 0 /\ r.rev <= r.rev
            BY <2>4, <3>2
        <3>9. FlowOK(g)'
            BY <1>2, <1>3, <3>2, <3>7, <3>8 DEF FlowOK, SaveKinds
        <3>10. Clean(ui', unlocked')
            BY <1>4, <3>2, <3>5
        <3>11. unlocked' \in BOOLEAN /\ (unlocked' => r # NoRecord)
            BY <1>4, <3>2
        <3> QED
            BY <1>2, <1>6, <2>4, <3>5, <3>9, <3>10, <3>11, SessionInvWrites
    <2>7. CASE f.kind \in {"pick", "opening"}
        <3>1. Activated(f, r) /\ unlocked' = unlocked /\ r # NoRecord /\ f.id \in Ids(r)
            BY <1>1, <1>6, <2>3, <2>5, <2>7 DEF Saved, Ids
        <3>2. PICK page : page = Switched(ui, f.id, r, unlocked)
            OBVIOUS
        <3>3. Clean(page, unlocked) /\ page.open = IF unlocked THEN f.id ELSE Nobody
            BY <1>3, <1>4, <3>1, <3>2, SwitchedClean DEF Clean
        <3>4. /\ ui' = page \/ (unlocked /\ ui' = Ceremony(page, f.id))
              /\ flows' = Dropped \ {f}
            BY <3>1, <3>2 DEF Activated
        <3>5. Clean(ui', unlocked)
            BY <1>3, <1>4, <3>3, <3>4, CeremonyClean
        <3>6. Clean(ui', unlocked') /\ unlocked' \in BOOLEAN
            BY <1>4, <3>1, <3>5
        <3> QED
            BY <1>2, <1>6, <2>4, <3>1, <3>4, <3>6, SessionInvWrites DEF Dropped
    <2>8. CASE f.kind = "quiz"
        <3>1. ui' = SetMode(ui, "done") /\ flows' = flows \ {f} /\ unlocked' = unlocked /\ r # NoRecord
            BY <1>6, <2>3, <2>5, <2>8 DEF Saved
        <3>2. Clean(ui', unlocked) /\ ui'.open = ui.open
            BY <1>4, <3>1, SetModeClean
        <3>3. Clean(ui', unlocked') /\ unlocked' \in BOOLEAN
            BY <1>4, <3>1, <3>2
        <3> QED
            BY <1>2, <1>6, <2>4, <3>1, <3>2, <3>3, SessionInvWrites
    <2>9. CASE f.kind = "remove"
        <3>1. Dismantled(f, r)
            BY <1>1, <1>6, <2>9 DEF Saved
        <3>2. CASE r = NoRecord
            <4>1. ui' = Torn(ui, "choice") /\ flows' = Dropped \ {f} /\ unlocked' = FALSE
                BY <2>5, <3>1, <3>2 DEF Dismantled
            <4>2. Clean(ui', FALSE)
                BY <1>4, <4>1, TornClean
            <4>3. Clean(ui', unlocked') /\ unlocked' \in BOOLEAN /\ ~unlocked'
                BY <4>1, <4>2
            <4> QED
                BY <1>2, <1>6, <2>4, <4>1, <4>3, SessionInvWrites DEF Dropped
        <3>3. CASE r # NoRecord /\ f.id = ui.open
            <4>1. ui' = Switched(ui, r.active, r, unlocked) /\ flows' = Dropped \ {f} /\ unlocked' = unlocked
                BY <2>5, <3>1, <3>3 DEF Dismantled
            <4>2. unlocked /\ r.active \in Seeds /\ r.active \in Ids(r)
                BY <1>3, <1>4, <2>4, <3>3 DEF Clean, Ids, Records
            <4>3. Clean(ui', unlocked)
                BY <1>4, <4>1, <4>2, SwitchedClean
            <4>4. Clean(ui', unlocked') /\ unlocked' \in BOOLEAN
                BY <1>4, <4>1, <4>3
            <4> QED
                BY <1>2, <1>6, <2>4, <3>3, <4>1, <4>4, SessionInvWrites DEF Dropped
        <3>4. CASE r # NoRecord /\ f.id # ui.open
            <4>1. ui' = ui /\ flows' = flows \ {f} /\ unlocked' = unlocked
                BY <2>5, <3>1, <3>4 DEF Dismantled
            <4>2. Clean(ui', unlocked') /\ unlocked' \in BOOLEAN
                BY <1>4, <4>1
            <4> QED
                BY <1>2, <1>6, <2>4, <3>4, <4>1, <4>2, SessionInvWrites
        <3> QED
            BY <3>2, <3>3, <3>4
    <2> QED
        BY <1>3, <2>6, <2>7, <2>8, <2>9 DEF SaveKinds
<1> QED
    BY <1>5, <1>6

LEMMA SessionInvNext == ASSUME SessionInv, [SessionNext]_sessionVars PROVE SessionInv'
<1>1. CASE UNCHANGED sessionVars
    BY <1>1 DEF sessionVars, SessionInv, FlowOK, Whole, CopyOK, Marked, Clean, Pages
<1>2. CASE SessionNext
    BY <1>2, SessionInvEnter, SessionInvPick, SessionInvRemove, SessionInvTreasury, SessionInvConflict,
       SessionInvSaved, SessionInvVerified, SessionInvVerify, SessionInvDeclined, SessionInvAsks,
       SessionInvTaps, SessionInvQuiz, SessionInvLock, SessionInvUnlock, SessionInvElsewhere,
       SessionInvFollow DEF SessionNext
<1> QED
    BY <1>1, <1>2

LEMMA SessionAlways == SessionSpec => []SessionInv
    BY SessionInvInit, SessionInvNext, PTL DEF SessionSpec

\* The words on the page are of the wallet on display or of the ceremony, will be hidden,
\* and are of an unlocked vault, however flows, locks, switches and other tabs interleave.
THEOREM WordsGuarded == SessionSpec => []SeedsGuarded
<1>1. SessionInv => SeedsGuarded
    BY DEF SessionInv, SeedsGuarded, Clean, FlowOK, Asked
<1> QED
    BY <1>1, SessionAlways, PTL

\* No wallet is marked backed up whose own words were not typed in or did not pass a quiz.
THEOREM MarksEarned == SessionSpec => []BackedUpEarned
<1>1. SessionInv => BackedUpEarned
    BY DEF SessionInv, BackedUpEarned, Marked
<1> QED
    BY <1>1, SessionAlways, PTL

-----------------------------------------------------------------------------
(* Handover: the record of a move                                          *)

\* A review that has passed the guard spends the coins of a wallet whose card, if it has
\* one, says so; no card loses the note.
MoveNoted ==
    /\ transfer = [step |-> transfer.step, of |-> transfer.of]
    /\ transfer.step \in {"coins", "draft"} => transfer.of \in ddMoved \/ transfer.of \notin Sellable
    /\ \A w \in left : w \in ddMoved \/ w \notin Sellable

\* It holds at the start, and every step keeps it.
LEMMA MoveNotedInit == HandInit => MoveNoted
BY DEF HandInit, MoveNoted, NoTransfer

LEMMA MoveNotedNext == MoveNoted /\ [HandNext]_handVars => MoveNoted'
<1> SUFFICES ASSUME MoveNoted, [HandNext]_handVars PROVE MoveNoted'
    OBVIOUS
<1>1. CASE Review
    BY <1>1 DEF Review, MoveNoted
<1>2. CASE GoAnyway
    BY <1>2 DEF GoAnyway, MoveNoted, Acknowledges
<1>3. CASE CancelGuard
    BY <1>3 DEF CancelGuard, MoveNoted, NoTransfer
<1>4. CASE Drafts
    BY <1>4 DEF Drafts, MoveNoted, NoTransfer
<1>5. CASE ConfirmTransfer
    BY <1>5 DEF ConfirmTransfer, MoveNoted, NoTransfer
<1>6. CASE LockTab
    BY <1>6 DEF LockTab, MoveNoted, NoTransfer
<1>7. CASE \E w \in Owned : SwitchTo(w)
    BY <1>7 DEF SwitchTo, ResetHere, MoveNoted, NoTransfer
<1>8. CASE RemoveSold
    BY <1>8 DEF RemoveSold, ResetHere, MoveNoted, NoTransfer
<1>9. CASE UNCHANGED <<transfer, ddMoved, left>>
    BY <1>9 DEF MoveNoted
<1>10. CASE CloseHandover \/ \E t \in Sellable : OpenHandover(t)
    BY <1>9, <1>10 DEF CloseHandover, OpenHandover
<1>11. CASE \E b \in BOOLEAN : Export(b)
    BY <1>9, <1>11 DEF Export
<1>12. CASE \E e \in exports : Reauth(e) \/ Built(e)
    BY <1>9, <1>12 DEF Reauth, Built
<1>13. CASE \E w \in Owned : UnlockTab(w)
    BY <1>9, <1>13 DEF UnlockTab
<1>14. CASE UNCHANGED handVars
    BY <1>9, <1>14 DEF handVars
<1> QED
    BY <1>1, <1>2, <1>3, <1>4, <1>5, <1>6, <1>7, <1>8, <1>10, <1>11, <1>12, <1>13, <1>14 DEF HandNext

\* Whenever DigiDollar has left a treasury, its card says so (t-guard-go), for any
\* wallets and any number of reviews.
THEOREM MovesRecorded == HandSpec => []MoveIsRecorded
<1>1. MoveNoted => MoveIsRecorded
    BY DEF MoveNoted, MoveIsRecorded
<1> QED
    BY MoveNotedInit, MoveNotedNext, <1>1, PTL DEF HandSpec

-----------------------------------------------------------------------------
(* Handover: the package                                                   *)

ExportTypes ==
    [n : Nat, byPassphrase : BOOLEAN, receipt : Sellable, key : Sellable \union {NoOne},
     awaits : {"password", "build"}]

\* While the prompt is up the handover behind it does not change, so the words that are
\* read after it are those of the treasury of the receipt.
PackageIntact ==
    /\ begun \in Nat /\ exports \subseteq ExportTypes
    /\ handover \in [id : Sellable, up : BOOLEAN, step : {1, 2}]
    /\ \A e \in exports : IF e.awaits = "password" THEN e.receipt = handover.id ELSE e.receipt = e.key
    /\ PackageOfOne

LEMMA PackageIntactInit == HandInit => PackageIntact
BY DEF HandInit, PackageIntact, PackageOfOne

LEMMA PackageIntactNext == PackageIntact /\ [HandNext]_handVars => PackageIntact'
<1> SUFFICES ASSUME PackageIntact, [HandNext]_handVars PROVE PackageIntact'
    OBVIOUS
<1> USE DEF PackageIntact, ExportTypes
<1>1. ASSUME NEW b \in BOOLEAN, Export(b) PROVE PackageIntact'
    <2>1. UNCHANGED <<handover, packages>> /\ begun' \in Nat
        BY <1>1 DEF Export
    <2> DEFINE e == [n |-> begun, byPassphrase |-> b, receipt |-> handover.id,
                     key |-> IF b THEN handover.id ELSE NoOne,
                     awaits |-> IF b THEN "build" ELSE "password"]
    <2>2. exports' = exports \union {e}
        BY <1>1 DEF Export
    <2>3. e \in ExportTypes
        OBVIOUS
    <2>4. IF e.awaits = "password" THEN e.receipt = handover.id ELSE e.receipt = e.key
        OBVIOUS
    <2> QED
        BY <2>1, <2>2, <2>3, <2>4 DEF PackageOfOne
<1>2. ASSUME NEW e \in exports, Reauth(e) PROVE PackageIntact'
    <2>1. UNCHANGED <<handover, packages, begun>>
        BY <1>2 DEF Reauth
    <2> DEFINE f == [e EXCEPT !.key = handover.id, !.awaits = "build"]
    <2>2. exports' \subseteq exports \union {f}
        BY <1>2 DEF Reauth
    <2>3. f \in ExportTypes /\ f.awaits = "build" /\ f.receipt = f.key
        BY <1>2 DEF Reauth
    <2> QED
        BY <2>1, <2>2, <2>3 DEF PackageOfOne
<1>3. ASSUME NEW e \in exports, Built(e) PROVE PackageIntact'
    <2>1. packages' = packages \union {Packed(e)} /\ exports' = exports \ {e}
        BY <1>3 DEF Built
    <2>2. handover' = [handover EXCEPT !.step = 2] /\ begun' = begun
        BY <1>3 DEF Built
    <2>3. Packed(e).receipt = Packed(e).key
        BY <1>3 DEF Built, Packed
    <2>4. handover'.id = handover.id /\ handover' \in [id : Sellable, up : BOOLEAN, step : {1, 2}]
        BY <2>2
    <2> QED
        BY <2>1, <2>2, <2>3, <2>4 DEF PackageOfOne
<1>4. ASSUME NEW t \in Sellable, OpenHandover(t) PROVE PackageIntact'
    <2>1. Prompted = {} /\ UNCHANGED <<exports, packages, begun>>
        BY <1>4 DEF OpenHandover, OnTop
    <2>2. handover' \in [id : Sellable, up : BOOLEAN, step : {1, 2}]
        BY <1>4 DEF OpenHandover
    <2> QED
        BY <2>1, <2>2 DEF PackageOfOne, Prompted
<1>5. ASSUME exports' \subseteq exports, UNCHANGED <<packages, begun>>,
             handover' = handover \/ handover' = [handover EXCEPT !.up = FALSE]
      PROVE  PackageIntact'
    <2>1. handover'.id = handover.id /\ handover' \in [id : Sellable, up : BOOLEAN, step : {1, 2}]
        BY <1>5
    <2> QED
        BY <1>5, <2>1 DEF PackageOfOne
<1>6. CASE Review \/ GoAnyway \/ CancelGuard \/ Drafts \/ ConfirmTransfer
    BY <1>5, <1>6 DEF Review, GoAnyway, CancelGuard, Drafts, ConfirmTransfer
<1>7. CASE CloseHandover \/ RemoveSold \/ LockTab
    BY <1>5, <1>7 DEF CloseHandover, RemoveSold, LockTab, ResetHere
<1>8. CASE \E w \in Owned : SwitchTo(w) \/ UnlockTab(w)
    BY <1>5, <1>8 DEF SwitchTo, UnlockTab, ResetHere
<1>9. CASE UNCHANGED handVars
    BY <1>5, <1>9 DEF handVars
<1> QED
    BY <1>1, <1>2, <1>3, <1>4, <1>6, <1>7, <1>8, <1>9 DEF HandNext

\* The keystore file and the receipt of a handover package are of one treasury
\* (exportHandover), for any wallets and any number of exports.
THEOREM PackagesOfOne == HandSpec => []PackageOfOne
<1>1. PackageIntact => PackageOfOne
    BY DEF PackageIntact
<1> QED
    BY PackageIntactInit, PackageIntactNext, <1>1, PTL DEF HandSpec
-----------------------------------------------------------------------------
(* The dashboard                                                           *)

CardFacts == [noted : BOOLEAN, out : BOOLEAN]
ChainAnswers == [told : BOOLEAN, open : BOOLEAN, tip : Nat]

\* Card c with answer a was seen no later than card d with answer b.
Before(c, a, d, b) ==
    /\ c.noted => d.noted
    /\ c.out => d.out
    /\ a.told /\ b.told => a.tip <= b.tip /\ (c.noted /\ b.open => a.open)

\* The order of the statuses is that of CARD_STATUSES.
LEMMA StatusOrders ==
    /\ StatusOrder("funded") = 1 /\ StatusOrder("locked") = 2 /\ StatusOrder("unlocking-soon") = 3
    /\ StatusOrder("mature") = 4 /\ StatusOrder("redeemed") = 5 /\ StatusOrder("transferred-out") = 6
<1> USE DEF StatusOrder, CARD_STATUSES
<1>1. StatusOrder("funded") = 1
    OBVIOUS
<1>2. StatusOrder("locked") = 2
    OBVIOUS
<1>3. StatusOrder("unlocking-soon") = 3
    OBVIOUS
<1>4. StatusOrder("mature") = 4
    OBVIOUS
<1>5. StatusOrder("redeemed") = 5
    OBVIOUS
<1>6. StatusOrder("transferred-out") = 6
    OBVIOUS
<1> QED
    BY <1>1, <1>2, <1>3, <1>4, <1>5, <1>6

\* What is seen later is no earlier status, where both have one.
LEMMA StatusGrows ==
    ASSUME NEW c \in CardFacts, NEW d \in CardFacts, NEW a \in ChainAnswers, NEW b \in ChainAnswers,
           Before(c, a, d, b), Told(c, a) # NoCard, Told(d, b) # NoCard
    PROVE  StatusOrder(Told(d, b)) >= StatusOrder(Told(c, a))
<1> USE StatusOrders, CardsAssumption DEF CardFacts, ChainAnswers, Before
<1>1. CASE d.out
    <2>1. Told(d, b) = "transferred-out"
        BY <1>1 DEF Told, CardStatus
    <2>2. StatusOrder(Told(c, a)) \in 1 .. 6
        BY DEF Told, CardStatus
    <2> QED
        BY <2>1, <2>2
<1>2. CASE ~d.out
    <2>1. ~c.out /\ a.told /\ b.told
        BY <1>2 DEF Told
    <2>2. CASE ~c.noted
        <3>1. Told(c, a) = "funded"
            BY <2>1, <2>2 DEF Told, CardStatus
        <3>2. StatusOrder(Told(d, b)) \in 1 .. 6
            BY DEF Told, CardStatus
        <3> QED
            BY <3>1, <3>2
    <2>3. CASE c.noted /\ ~b.open
        <3>1. Told(d, b) = "redeemed"
            BY <1>2, <2>1, <2>3 DEF Told, CardStatus
        <3>2. StatusOrder(Told(c, a)) \in 1 .. 5
            BY <2>1 DEF Told, CardStatus
        <3> QED
            BY <3>1, <3>2
    <2>4. CASE c.noted /\ b.open
        <3>1. a.open /\ a.tip <= b.tip /\ d.noted
            BY <2>1, <2>4
        <3>2. Told(c, a) = IF a.tip >= UnlockAt THEN "mature"
                           ELSE IF UnlockAt - a.tip <= SoonBlocks THEN "unlocking-soon" ELSE "locked"
            BY <2>1, <2>4, <3>1 DEF Told, CardStatus
        <3>3. Told(d, b) = IF b.tip >= UnlockAt THEN "mature"
                           ELSE IF UnlockAt - b.tip <= SoonBlocks THEN "unlocking-soon" ELSE "locked"
            BY <1>2, <2>1, <2>4, <3>1 DEF Told, CardStatus
        <3> QED
            BY <3>1, <3>2, <3>3
    <2> QED
        BY <2>2, <2>3, <2>4
<1> QED
    BY <1>1, <1>2

\* A render that is under way: the cards it listed, and an answer or none yet for each.
Renders ==
    [gen : Nat, cards : [Cards -> CardFacts \union {NoCard}], here : SUBSET Cards,
     answers : UNION {[S -> ChainAnswers \union {NoCard}] : S \in SUBSET Cards}]

CardsTypeOK ==
    /\ card \in [Cards -> CardFacts \union {NoCard}] /\ atHand \subseteq Cards
    /\ position \in [Cards -> {"none", "open", "spent"}] /\ tip \in Nat /\ render \in Nat
    /\ loading \subseteq Renders
    /\ board = [t \in Cards |-> board[t]]

\* Facts c that were true of treasury t when they were read.
Known(t, c) == c \in CardFacts /\ card[t] # NoCard /\ (c.noted => position[t] # "none")

\* What a render listed and was told lies before what is the case now.
RenderSound(r) ==
    /\ r.gen <= render
    /\ \A t \in DOMAIN r.answers :
          /\ t \in Cards /\ Known(t, r.cards[t])
          /\ Before(r.cards[t], Untold, card[t], Live(t))
          /\ r.answers[t] # NoCard => Before(r.cards[t], r.answers[t], card[t], Live(t))

\* The status on the page was that of facts c and answer a, and these lie before what is
\* the case now and before whatever the newest render will paint.
Evidence(t, c, a) ==
    /\ board[t] = Told(c, a) /\ Known(t, c) /\ a \in ChainAnswers
    /\ Before(c, a, card[t], Live(t))
    /\ \A r \in loading : r.gen = render /\ t \in DOMAIN r.answers =>
          /\ Before(c, a, r.cards[t], Live(t))
          /\ r.answers[t] # NoCard => Before(c, a, r.cards[t], r.answers[t])

BoardSound == \A t \in Cards : board[t] # NoCard => \E c, a : Evidence(t, c, a)

CardsInv ==
    /\ CardsTypeOK /\ BoardSound
    /\ \A t \in Cards : card[t] # NoCard /\ card[t].noted => position[t] # "none"
    /\ \A r \in loading : RenderSound(r)
    /\ \A r, s \in loading : r.gen = s.gen => r = s

LEMMA CardsInvInit == CardsInit => CardsInv
BY CardsAssumption DEF CardsInit, CardsInv, CardsTypeOK, BoardSound

\* What happens outside the dashboard only goes forward.
Onward ==
    /\ UNCHANGED <<render, loading, board>>
    /\ card' \in [Cards -> CardFacts \union {NoCard}] /\ atHand' \subseteq Cards
    /\ position' \in [Cards -> {"none", "open", "spent"}] /\ tip' \in Nat /\ tip' >= tip
    /\ \A t \in Cards :
          /\ position[t] # "none" => position'[t] # "none"
          /\ position[t] # "none" /\ position'[t] = "open" => position[t] = "open"
          /\ card[t] # NoCard => /\ card'[t] # NoCard
                                 /\ card[t].noted => card'[t].noted
                                 /\ card[t].out => card'[t].out
          /\ card'[t] # NoCard /\ card'[t].noted => position'[t] # "none"

LEMMA StepsOnward ==
    ASSUME CardsInv,
           Block \/ \E t \in Cards : NewTreasury(t) \/ Mint(t) \/ Note(t) \/ Spent(t) \/ RemoveHere(t)
    PROVE  Onward
<1> USE CardsAssumption DEF CardsInv, CardsTypeOK, CardFacts
<1>1. CASE Block
    BY <1>1 DEF Block, Onward
<1>2. ASSUME NEW t \in Cards, NewTreasury(t) PROVE Onward
    <2>1. card' = [card EXCEPT ![t] = [noted |-> FALSE, out |-> FALSE]]
        BY <1>2 DEF NewTreasury, PutTreasury, Card
    <2>2. card[t] = NoCard /\ atHand' \subseteq Cards
        BY <1>2 DEF NewTreasury
    <2>3. UNCHANGED <<position, tip, render, loading, board>>
        BY <1>2 DEF NewTreasury
    <2> QED
        BY <2>1, <2>2, <2>3 DEF Onward
<1>3. ASSUME NEW t \in Cards, Mint(t) PROVE Onward
    BY <1>3 DEF Mint, Onward
<1>4. ASSUME NEW t \in Cards, Note(t) PROVE Onward
    <2>1. card[t] # NoCard /\ position[t] # "none" /\ UNCHANGED <<atHand, position, tip, render, loading, board>>
        BY <1>4 DEF Note
    <2>2. card' = [card EXCEPT ![t] = [card[t] EXCEPT !.noted = TRUE]]
        BY <1>4, <2>1 DEF Note, NoteMint
    <2>3. card'[t] \in CardFacts /\ card'[t].noted /\ card'[t].out = card[t].out
        BY <2>1, <2>2
    <2>4. card' \in [Cards -> CardFacts \union {NoCard}] /\ \A s \in Cards \ {t} : card'[s] = card[s]
        BY <2>1, <2>2, <2>3
    <2>5. card'[t] # NoCard
        BY <2>3
    <2> QED
        BY <2>1, <2>3, <2>4, <2>5 DEF Onward
<1>5. ASSUME NEW t \in Cards, Spent(t) PROVE Onward
    BY <1>5 DEF Spent, Onward
<1>6. ASSUME NEW t \in Cards, RemoveHere(t) PROVE Onward
    <2>1. atHand' \subseteq Cards /\ UNCHANGED <<position, tip, render, loading, board>>
        BY <1>6 DEF RemoveHere
    <2>2. card' = [card EXCEPT ![t] = IF card[t] = NoCard THEN card[t] ELSE [card[t] EXCEPT !.out = TRUE]]
        BY <1>6 DEF RemoveHere, MarkTransferredOut
    <2>3. CASE card[t] = NoCard
        BY <2>1, <2>2, <2>3 DEF Onward
    <2>4. CASE card[t] # NoCard
        <3>1. card[t] \in CardFacts /\ card' = [card EXCEPT ![t] = [card[t] EXCEPT !.out = TRUE]]
            BY <2>2, <2>4
        <3>2. card'[t] \in CardFacts /\ card'[t].out /\ card'[t].noted = card[t].noted
            BY <3>1
        <3>3. card' \in [Cards -> CardFacts \union {NoCard}] /\ \A s \in Cards \ {t} : card'[s] = card[s]
            BY <3>1, <3>2
        <3>4. card'[t] # NoCard
            BY <3>2
        <3> QED
            BY <2>1, <2>4, <3>2, <3>3, <3>4 DEF Onward
    <2> QED
        BY <2>3, <2>4
<1> QED
    BY <1>1, <1>2, <1>3, <1>4, <1>5, <1>6

\* What was known stays behind what is the case.
LEMMA BeforeOnward ==
    ASSUME CardsInv, Onward, NEW t \in Cards, NEW c, NEW a \in ChainAnswers, Known(t, c)
    PROVE  /\ Known(t, c)'
           /\ Before(c, a, card[t], Live(t)) => Before(c, a, card'[t], Live(t)')
           /\ \A d : Before(c, a, d, Live(t)) => Before(c, a, d, Live(t)')
<1> USE CardsAssumption DEF CardsInv, CardsTypeOK, CardFacts, ChainAnswers, Onward
<1>1. Known(t, c)'
    BY DEF Known
<1>2. Live(t).told /\ Live(t)'.told /\ Live(t).tip <= Live(t)'.tip
    BY DEF Live
<1>3. c.noted /\ Live(t)'.open => Live(t).open
    BY DEF Live, Known
<1>4. card[t] # NoCard /\ (card[t].noted => card'[t].noted) /\ (card[t].out => card'[t].out)
    BY DEF Known
<1>5. Live(t).tip \in Nat /\ Live(t)'.tip \in Nat
    BY DEF Live
<1>6. ASSUME NEW d, Before(c, a, d, Live(t)) PROVE Before(c, a, d, Live(t)')
    BY <1>2, <1>3, <1>5, <1>6 DEF Before
<1>7. ASSUME NEW b, Before(c, a, card[t], b) PROVE Before(c, a, card'[t], b)
    BY <1>4, <1>7 DEF Before
<1> QED
    BY <1>1, <1>6, <1>7

LEMMA CardsInvOnward == CardsInv /\ Onward => CardsInv'
<1> SUFFICES ASSUME CardsInv, Onward PROVE CardsInv'
    OBVIOUS
<1>1. CardsTypeOK'
    BY DEF CardsInv, CardsTypeOK, Onward
<1>2. \A t \in Cards : card'[t] # NoCard /\ card'[t].noted => position'[t] # "none"
    BY DEF Onward
<1>3. \A r \in loading' : RenderSound(r)'
    <2> SUFFICES ASSUME NEW r \in loading PROVE RenderSound(r)'
        BY DEF Onward
    <2>1. r.gen <= render' /\ RenderSound(r)
        BY DEF CardsInv, RenderSound, Onward
    <2>2. ASSUME NEW t \in DOMAIN r.answers
          PROVE  /\ t \in Cards /\ Known(t, r.cards[t])'
                 /\ Before(r.cards[t], Untold, card'[t], Live(t)')
                 /\ r.answers[t] # NoCard => Before(r.cards[t], r.answers[t], card'[t], Live(t)')
        <3>1. t \in Cards /\ Known(t, r.cards[t]) /\ Before(r.cards[t], Untold, card[t], Live(t))
            BY <2>1 DEF RenderSound
        <3>2. Untold \in ChainAnswers
            BY DEF Untold, ChainAnswers
        <3>3. Known(t, r.cards[t])' /\ Before(r.cards[t], Untold, card'[t], Live(t)')
            BY <3>1, <3>2, BeforeOnward
        <3>4. ASSUME r.answers[t] # NoCard PROVE Before(r.cards[t], r.answers[t], card'[t], Live(t)')
            <4>1. r.answers[t] \in ChainAnswers
                BY <3>4 DEF CardsInv, CardsTypeOK, Renders
            <4>2. Before(r.cards[t], r.answers[t], card[t], Live(t))
                BY <2>1, <3>4 DEF RenderSound
            <4> QED
                BY <3>1, <4>1, <4>2, BeforeOnward
        <3> QED
            BY <3>1, <3>3, <3>4
    <2>3. Untold' = Untold
        BY DEF Untold
    <2> QED
        BY <2>1, <2>2, <2>3 DEF RenderSound
<1>4. BoardSound'
    <2> SUFFICES ASSUME NEW t \in Cards, board[t] # NoCard PROVE \E c, a : Evidence(t, c, a)'
        BY DEF BoardSound, Onward
    <2>1. PICK c, a : Evidence(t, c, a)
        BY DEF CardsInv, BoardSound
    <2>2. Known(t, c)' /\ Before(c, a, card'[t], Live(t)')
        BY <2>1, BeforeOnward DEF Evidence
    <2>3. \A d : Before(c, a, d, Live(t)) => Before(c, a, d, Live(t)')
        BY <2>1, BeforeOnward DEF Evidence
    <2>4. Evidence(t, c, a)'
        BY <2>1, <2>2, <2>3 DEF Evidence, Onward
    <2> QED
        BY <2>4
<1> QED
    BY <1>1, <1>2, <1>3, <1>4 DEF CardsInv, Onward

LEMMA CardsInvBegin == CardsInv /\ BeginRender => CardsInv'
<1> SUFFICES ASSUME CardsInv, BeginRender PROVE CardsInv'
    OBVIOUS
<1>0. PICK r0 : r0 = [gen |-> render + 1, cards |-> card, here |-> atHand, answers |-> [t \in Carded |-> NoCard]]
    OBVIOUS
<1>1. loading' = loading \union {r0} /\ render' = render + 1
    BY <1>0 DEF BeginRender
<1>2. UNCHANGED <<card, atHand, position, tip, board>>
    BY DEF BeginRender
<1>3. Carded \in SUBSET Cards /\ r0 \in Renders
    <2>1. Carded \in SUBSET Cards
        BY DEF Carded
    <2>2. r0.answers \in [Carded -> ChainAnswers \union {NoCard}]
        BY <1>0
    <2>3. r0.answers \in UNION {[S -> ChainAnswers \union {NoCard}] : S \in SUBSET Cards}
        BY <2>1, <2>2
    <2> QED
        BY <1>0, <2>1, <2>3 DEF CardsInv, CardsTypeOK, Renders
<1>4. CardsTypeOK'
    BY <1>1, <1>2, <1>3 DEF CardsInv, CardsTypeOK
<1>5. \A r \in loading : r.gen <= render /\ r.gen \in Nat
    BY DEF CardsInv, RenderSound, CardsTypeOK, Renders
<1>6. \A r, s \in loading' : r.gen = s.gen => r = s
    <2>1. render \in Nat /\ r0.gen = render + 1
        BY <1>0 DEF CardsInv, CardsTypeOK
    <2>2. \A r \in loading : r.gen # r0.gen
        BY <1>5, <2>1
    <2> QED
        BY <1>1, <2>2 DEF CardsInv
<1>7. \A r \in loading' : RenderSound(r)'
    <2>1. ASSUME NEW r \in loading PROVE RenderSound(r)'
        <3>1. r.gen <= render' /\ RenderSound(r)
            BY <1>1, <1>5 DEF CardsInv, CardsTypeOK
        <3> QED
            BY <1>2, <3>1 DEF RenderSound, Known, Live
    <2>2. RenderSound(r0)'
        <3>1. r0.gen <= render'
            BY <1>0, <1>1 DEF CardsInv, CardsTypeOK
        <3>2. ASSUME NEW t \in Carded PROVE t \in Cards /\ Known(t, card[t]) /\ Before(card[t], Untold, card[t], Live(t))
            BY DEF Carded, CardsInv, CardsTypeOK, Known, Before, Untold
        <3>3. DOMAIN r0.answers = Carded /\ \A t \in Carded : r0.answers[t] = NoCard /\ r0.cards = card
            BY <1>0
        <3> QED
            BY <1>2, <3>1, <3>2, <3>3 DEF RenderSound, Known, Live
    <2> QED
        BY <1>1, <2>1, <2>2
<1>8. BoardSound'
    <2> SUFFICES ASSUME NEW t \in Cards, board[t] # NoCard PROVE \E c, a : Evidence(t, c, a)'
        BY <1>2 DEF BoardSound
    <2>1. PICK c, a : Evidence(t, c, a)
        BY DEF CardsInv, BoardSound
    <2>2. ASSUME NEW r \in loading', r.gen = render' PROVE r = r0
        BY <1>1, <1>5, <2>2 DEF CardsInv, CardsTypeOK
    <2>3. r0.cards[t] = card[t] /\ (t \in DOMAIN r0.answers => r0.answers[t] = NoCard)
        BY <1>0
    <2>4. Before(c, a, card[t], Live(t)) /\ board[t] = Told(c, a) /\ Known(t, c) /\ a \in ChainAnswers
        BY <2>1 DEF Evidence
    <2>5. Evidence(t, c, a)'
        BY <1>2, <2>2, <2>3, <2>4 DEF Evidence, Known, Live
    <2> QED
        BY <2>5
<1> QED
    BY <1>2, <1>4, <1>6, <1>7, <1>8 DEF CardsInv

LEMMA CardsInvLoad ==
    ASSUME CardsInv, NEW r \in loading, NEW t \in DOMAIN r.answers, Load(r, t) PROVE CardsInv'
<1> USE DEF ChainAnswers
<1>1. UNCHANGED <<card, atHand, position, tip, render, board>>
    BY DEF Load
<1>2. PICK a \in {Untold, Live(t)} : loading' = (loading \ {r}) \union {[r EXCEPT !.answers[t] = a]}
    BY DEF Load
<1>0. PICK s : s = [r EXCEPT !.answers[t] = a]
    OBVIOUS
<1>3. r \in Renders /\ RenderSound(r) /\ t \in Cards
    BY DEF CardsInv, CardsTypeOK, RenderSound
<1>4. Untold \in ChainAnswers /\ Live(t) \in ChainAnswers
    BY DEF CardsInv, CardsTypeOK, Untold, Live
<1>5. PICK S \in SUBSET Cards : r.answers \in [S -> ChainAnswers \union {NoCard}]
    BY <1>3 DEF Renders
<1>6. /\ s.gen = r.gen /\ s.cards = r.cards /\ s.here = r.here
      /\ s.answers = [r.answers EXCEPT ![t] = a]
    BY <1>0, <1>3 DEF Renders
<1>7. s.answers \in [S -> ChainAnswers \union {NoCard}] /\ DOMAIN s.answers = DOMAIN r.answers
    BY <1>4, <1>5, <1>6
<1>8. s \in Renders
    <2>1. s.answers \in UNION {[T -> ChainAnswers \union {NoCard}] : T \in SUBSET Cards}
        BY <1>7
    <2>2. s = [gen |-> r.gen, cards |-> r.cards, here |-> r.here, answers |-> s.answers]
        BY <1>0, <1>3, <1>6 DEF Renders
    <2> QED
        BY <1>3, <2>1, <2>2 DEF Renders
<1>9. CardsTypeOK'
    BY <1>0, <1>1, <1>2, <1>8 DEF CardsInv, CardsTypeOK
<1>10. s.answers[t] = a /\ \A u \in DOMAIN r.answers \ {t} : s.answers[u] = r.answers[u]
    BY <1>5, <1>6
<1>11. \A p, q \in loading' : p.gen = q.gen => p = q
    <2>1. \A p, q \in loading : p.gen = q.gen => p = q
        BY DEF CardsInv
    <2>2. \A p \in loading \ {r} : p.gen # s.gen
        BY <1>6, <2>1
    <2> QED
        BY <1>0, <1>2, <2>1, <2>2
<1>12. ASSUME NEW c, NEW d, NEW b, Before(c, b, d, Live(t)) PROVE Before(c, b, d, a)
    BY <1>2, <1>12 DEF Before, Untold
<1>13. \A p \in loading' : RenderSound(p)'
    <2>1. ASSUME NEW p \in loading PROVE RenderSound(p)'
        BY <1>1, <2>1 DEF CardsInv, RenderSound, Known, Live
    <2>2. Before(r.cards[t], a, card[t], Live(t))
        <3>1. Before(r.cards[t], Untold, card[t], Live(t))
            BY <1>3 DEF RenderSound
        <3>2. Live(t).tip <= Live(t).tip
            BY <1>4
        <3> QED
            BY <1>2, <3>1, <3>2 DEF Before, Untold
    <2>3. RenderSound(s)'
        BY <1>1, <1>3, <1>6, <1>7, <1>10, <2>2 DEF RenderSound, Known, Live
    <2> QED
        BY <1>0, <1>2, <2>1, <2>3
<1>14. BoardSound'
    <2> SUFFICES ASSUME NEW u \in Cards, board[u] # NoCard PROVE \E c, b : Evidence(u, c, b)'
        BY <1>1 DEF BoardSound
    <2>1. PICK c, b : Evidence(u, c, b)
        BY DEF CardsInv, BoardSound
    <2>2. /\ board[u] = Told(c, b) /\ Known(u, c) /\ b \in ChainAnswers
          /\ Before(c, b, card[u], Live(u))
        BY <2>1 DEF Evidence
    <2>3. ASSUME NEW p \in loading, p.gen = render, u \in DOMAIN p.answers
          PROVE  /\ Before(c, b, p.cards[u], Live(u))
                 /\ p.answers[u] # NoCard => Before(c, b, p.cards[u], p.answers[u])
        BY <2>1, <2>3 DEF Evidence
    <2>4. ASSUME s.gen = render, u \in DOMAIN s.answers
          PROVE  /\ Before(c, b, s.cards[u], Live(u))
                 /\ s.answers[u] # NoCard => Before(c, b, s.cards[u], s.answers[u])
        <3>1. Before(c, b, r.cards[u], Live(u)) /\ (r.answers[u] # NoCard => Before(c, b, r.cards[u], r.answers[u]))
            BY <1>6, <1>7, <2>3, <2>4
        <3>2. CASE u = t
            BY <1>6, <1>10, <1>12, <3>1, <3>2
        <3>3. CASE u # t
            BY <1>6, <1>7, <1>10, <2>4, <3>1, <3>3
        <3> QED
            BY <3>2, <3>3
    <2>5. Evidence(u, c, b)'
        BY <1>0, <1>1, <1>2, <2>2, <2>3, <2>4 DEF Evidence, Known, Live
    <2> QED
        BY <2>5
<1> QED
    BY <1>1, <1>9, <1>11, <1>13, <1>14 DEF CardsInv

LEMMA CardsInvPaint == ASSUME CardsInv, NEW r \in loading, PaintCards(r) PROVE CardsInv'
<1>1. UNCHANGED <<card, atHand, position, tip, render>> /\ loading' = loading \ {r}
    BY DEF PaintCards
<1>2. \A p \in loading' : RenderSound(p)'
    BY <1>1 DEF CardsInv, RenderSound, Known, Live
<1>3. \A p, q \in loading' : p.gen = q.gen => p = q
    BY <1>1 DEF CardsInv
<1>4. board' = [t \in Cards |-> board'[t]]
    BY DEF PaintCards, CardsInv, CardsTypeOK
<1>5. CardsTypeOK'
    BY <1>1, <1>4 DEF CardsInv, CardsTypeOK
<1>6. BoardSound'
    <2> SUFFICES ASSUME NEW t \in Cards, board'[t] # NoCard PROVE \E c, a : Evidence(t, c, a)'
        BY DEF BoardSound
    <2>1. CASE Superseded(r)
        <3>1. board' = board
            BY <2>1 DEF PaintCards
        <3>2. PICK c, a : Evidence(t, c, a)
            BY <3>1 DEF CardsInv, BoardSound
        <3>3. Evidence(t, c, a)'
            BY <1>1, <3>1, <3>2 DEF Evidence, Known, Live
        <3> QED
            BY <3>3
    <2>2. CASE ~Superseded(r)
        <3>1. t \in DOMAIN r.answers /\ board'[t] = Told(r.cards[t], r.answers[t])
            BY <2>2 DEF PaintCards
        <3>2. r.gen = render /\ r.answers[t] # NoCard
            BY <2>2, <3>1 DEF PaintCards, Superseded
        <3>3. r.answers[t] \in ChainAnswers
            BY <3>1, <3>2 DEF CardsInv, CardsTypeOK, Renders
        <3>4. Known(t, r.cards[t]) /\ Before(r.cards[t], r.answers[t], card[t], Live(t))
            BY <3>1, <3>2 DEF CardsInv, RenderSound
        <3>5. \A p \in loading' : p.gen # render'
            BY <1>1, <3>2 DEF CardsInv
        <3>6. Evidence(t, r.cards[t], r.answers[t])'
            BY <1>1, <3>1, <3>3, <3>4, <3>5 DEF Evidence, Known, Live
        <3> QED
            BY <3>6
    <2> QED
        BY <2>1, <2>2
<1> QED
    BY <1>1, <1>2, <1>3, <1>5, <1>6 DEF CardsInv

LEMMA CardsInvNext == CardsInv /\ [CardsNext]_cardVars => CardsInv'
<1> SUFFICES ASSUME CardsInv, [CardsNext]_cardVars PROVE CardsInv'
    OBVIOUS
<1>1. CASE BeginRender
    BY <1>1, CardsInvBegin
<1>2. CASE \E r \in loading : PaintCards(r) \/ \E t \in DOMAIN r.answers : Load(r, t)
    BY <1>2, CardsInvPaint, CardsInvLoad
<1>3. CASE Block \/ \E t \in Cards : NewTreasury(t) \/ Mint(t) \/ Note(t) \/ Spent(t) \/ RemoveHere(t)
    BY <1>3, StepsOnward, CardsInvOnward
<1>4. CASE UNCHANGED cardVars
    <2>1. Onward
        BY <1>4 DEF cardVars, Onward, CardsInv, CardsTypeOK
    <2> QED
        BY <2>1, CardsInvOnward
<1> QED
    BY <1>1, <1>2, <1>3, <1>4 DEF CardsNext

\* What the dashboard says of a treasury never goes back (renderTreasuryList, gen), for any
\* number of treasuries, renders and blocks.
THEOREM StatusNeverBack == CardsSpec => StatusForward
<1> DEFINE Forward == \A t \in Cards : board[t] # NoCard /\ board'[t] # NoCard =>
                          StatusOrder(board'[t]) >= StatusOrder(board[t])
<1>1. CardsInv /\ [CardsNext]_cardVars => [Forward]_cardVars
    <2> SUFFICES ASSUME CardsInv, CardsNext, NEW t \in Cards, board[t] # NoCard, board'[t] # NoCard
                 PROVE  StatusOrder(board'[t]) >= StatusOrder(board[t])
        OBVIOUS
    <2>1. PICK c, a : Evidence(t, c, a)
        BY DEF CardsInv, BoardSound
    <2>2. board[t] = Told(c, a) /\ c \in CardFacts /\ a \in ChainAnswers
        BY <2>1 DEF Evidence, Known
    <2>3. CASE UNCHANGED board
        <3>1. Before(c, a, c, a)
            BY <2>2 DEF Before, ChainAnswers, CardFacts
        <3> QED
            BY <2>2, <2>3, <3>1, StatusGrows
    <2>4. ASSUME NEW r \in loading, PaintCards(r), ~UNCHANGED board
          PROVE  StatusOrder(board'[t]) >= StatusOrder(board[t])
        <3>1. t \in DOMAIN r.answers /\ board'[t] = Told(r.cards[t], r.answers[t])
            BY <2>4 DEF PaintCards
        <3>2. r.gen = render /\ r.answers[t] # NoCard
            BY <2>4, <3>1 DEF PaintCards, Superseded
        <3>3. r.answers[t] \in ChainAnswers /\ r.cards[t] \in CardFacts
            BY <3>1, <3>2 DEF CardsInv, CardsTypeOK, Renders, RenderSound, Known
        <3>4. Before(c, a, r.cards[t], r.answers[t])
            BY <2>1, <3>1, <3>2 DEF Evidence
        <3> QED
            BY <2>2, <3>1, <3>3, <3>4, StatusGrows
    <2>5. CASE BeginRender \/ \E r \in loading : \E u \in DOMAIN r.answers : Load(r, u)
        BY <2>3, <2>5 DEF BeginRender, Load
    <2>6. CASE Block \/ \E u \in Cards : NewTreasury(u) \/ Mint(u) \/ Note(u) \/ Spent(u) \/ RemoveHere(u)
        BY <2>3, <2>6, StepsOnward DEF Onward
    <2> QED
        BY <2>3, <2>4, <2>5, <2>6 DEF CardsNext
<1> QED
    BY CardsInvInit, CardsInvNext, <1>1, PTL DEF CardsSpec, StatusForward
-----------------------------------------------------------------------------
(* The wizard                                                              *)

Offers == [choice : Settings, need : Nat, count : Nat, until : Settings \union {None}]

Wizards ==
    [step : {"closed", "budget", "settings", "names", "review", "resume", "progress"},
     budget : Nat, choice : Settings, need : Nat, count : Nat, until : Settings \union {None},
     names : Nat, next : BOOLEAN, told : Offers \union {None}]

\* What was counted fits the budget and the balance of the wallet on display.
Counted ==
    /\ wizard.need = NeedOf[wizard.choice]
    /\ wizard.count \in 1 .. MostPerBatch
    /\ wizard.count * wizard.need <= Lesser(wizard.budget, Balance[payer])

Batches ==
    [choice : Settings, need : Nat, count : Nat, until : Settings \union {None},
     told : Offers \union {None}, budget : Nat, payer : Payers,
     disturbed : BOOLEAN, state : {"running", "aborted", "done"}]

\* What holds of a batch from its creation on: CreatedAsReviewed of one.
AsReviewed(b) ==
    ~b.disturbed =>
        /\ b.told = [choice |-> b.choice, need |-> b.need, count |-> b.count, until |-> b.until]
        /\ b.need = NeedOf[b.choice] /\ b.until = b.choice
        /\ b.count \in 1 .. MostPerBatch
        /\ b.count * b.need <= Lesser(b.budget, Balance[b.payer])

\* Past the budget, undisturbed: one plan at most is under way, the way on is open only
\* when it has ended, and then what it found is of the settings that stand there.
WizardSettled ==
    /\ plans = <<>> \/ plans = <<"asked">> \/ plans = <<"tip">>
    /\ wizard.step \in {"settings", "names", "review"} =>
          /\ plans = <<"tip">> => Counted
          /\ wizard.next => plans = <<>> /\ Counted /\ wizard.until = wizard.choice
    /\ wizard.step \in {"names", "review"} => wizard.next /\ wizard.names = wizard.count
    /\ wizard.step = "review" => wizard.told = Offer

WizardInv ==
    /\ wizard \in Wizards /\ payer \in Payers
    /\ plans \in Seq({"asked", "tip"}) /\ prompted \in BOOLEAN /\ disturbed \in BOOLEAN
    /\ batches \in Seq(Batches)
    /\ prompted => wizard.step = "review"
    /\ ~disturbed => WizardSettled
    /\ \A i \in DOMAIN batches : AsReviewed(batches[i])

LEMMA DivBound ==
    ASSUME NEW m \in Nat, NEW n \in Nat \ {0}, NEW k \in Nat, k <= m \div n
    PROVE  k * n <= m
<1> DEFINE q == m \div n
           r == m % n
<1>1. q \in Int /\ r \in Int /\ m = n * q + r /\ r >= 0
    OBVIOUS
<1> HIDE DEF q, r
<1>2. k * n <= q * n
    BY <1>1 DEF q
<1>3. q * n = n * q
    BY <1>1
<1> QED
    BY <1>1, <1>2, <1>3

LEMMA OnePlan ==
    /\ <<>> # <<"asked">> /\ <<>> # <<"tip">> /\ <<"asked">> # <<"tip">>
    /\ Append(<<>>, "asked") = <<"asked">>
<1>1. Len(<<"asked">>) = 1 /\ Len(<<"tip">>) = 1 /\ Len(<<>>) = 0
    OBVIOUS
<1>2. <<"asked">>[1] = "asked" /\ <<"tip">>[1] = "tip"
    OBVIOUS
<1>3. Append(<<>>, "asked") = <<"asked">>
    OBVIOUS
<1> QED
    BY <1>1, <1>2, <1>3

LEMMA WizardInvInit == WizardInit => WizardInv
<1> SUFFICES ASSUME WizardInit PROVE WizardInv
    OBVIOUS
<1>1. PICK c \in Settings :
          wizard = [step |-> "closed", budget |-> 0, choice |-> c, need |-> 0, count |-> 0,
                    until |-> None, names |-> 0, next |-> FALSE, told |-> None]
    BY DEF WizardInit
<1>2. wizard \in Wizards /\ wizard.step = "closed"
    BY <1>1 DEF Wizards
<1>3. plans = <<>> /\ batches = <<>> /\ prompted = FALSE /\ disturbed = FALSE /\ payer \in Payers
    BY DEF WizardInit
<1>4. WizardSettled
    BY <1>2, <1>3, OnePlan DEF WizardSettled
<1>5. batches \in Seq(Batches)
    BY <1>3
<1>6. plans \in Seq({"asked", "tip"}) /\ DOMAIN batches = {}
    BY <1>3
<1> QED
    BY <1>2, <1>3, <1>4, <1>5, <1>6 DEF WizardInv

\* What a plan finds is counted in the settings it is compared with.
LEMMA CountFits ==
    ASSUME WizardInv,
           NEW need, need = NeedOf[wizard.choice],
           NEW count, count = Lesser(Lesser(wizard.budget, Balance[payer]) \div need, MostPerBatch)
    PROVE  /\ need \in Nat /\ count \in Nat
           /\ count >= 1 => /\ count \in 1 .. MostPerBatch
                            /\ count * need <= Lesser(wizard.budget, Balance[payer])
<1> DEFINE most == Lesser(wizard.budget, Balance[payer])
<1>1. most \in Nat /\ need \in Nat \ {0} /\ MostPerBatch \in Nat \ {0}
    BY WizardAssumption DEF WizardInv, Wizards, Lesser
<1> HIDE DEF most
<1>2. most \div need \in Nat
    BY <1>1
<1>3. count \in Nat /\ count <= most \div need /\ count <= MostPerBatch
    BY <1>1, <1>2 DEF Lesser, most
<1>4. count * need <= most
    BY <1>1, <1>3, DivBound
<1> QED
    BY <1>1, <1>3, <1>4 DEF most

\* A plan begins.
LEMMA InvPlanning ==
    ASSUME WizardInv, NEW w \in Wizards, Planning(w), UNCHANGED <<prompted, batches, payer>>, ~prompted,
           w.step = "settings"
    PROVE  WizardInv'
<1>1. wizard' = [w EXCEPT !.next = FALSE] /\ plans' = Append(plans, "asked") /\ disturbed' = (plans # <<>>)
    BY DEF Planning
<1>2. wizard' \in Wizards /\ ~wizard'.next /\ wizard'.step = "settings"
    BY <1>1 DEF Wizards
<1>3. plans' \in Seq({"asked", "tip"}) /\ disturbed' \in BOOLEAN
    BY <1>1 DEF WizardInv
<1>4. ~disturbed' => plans' = <<"asked">>
    BY <1>1, OnePlan
<1>5. ~disturbed' => WizardSettled'
    BY <1>2, <1>4, OnePlan DEF WizardSettled
<1> QED
    BY <1>2, <1>3, <1>5 DEF WizardInv

\* A plan ends: of the one under way nothing is left.
LEMMA PlanEnds ==
    ASSUME WizardInv, NEW i \in DOMAIN plans, plans' = Done(i)
    PROVE  /\ plans' \in Seq({"asked", "tip"})
           /\ plans = <<"asked">> \/ plans = <<"tip">> => plans' = <<>>
<1>1. plans \in Seq({"asked", "tip"}) /\ i \in 1 .. Len(plans)
    BY DEF WizardInv
<1>2. Len(plans) - 1 \in Nat
    BY <1>1
<1>3. \A j \in 1 .. Len(plans) - 1 : (IF j < i THEN plans[j] ELSE plans[j + 1]) \in {"asked", "tip"}
    BY <1>1
<1>4. Done(i) \in [1 .. Len(plans) - 1 -> {"asked", "tip"}]
    BY <1>3 DEF Done
<1>5. Done(i) \in Seq({"asked", "tip"})
    BY <1>2, <1>4
<1>6. ASSUME Len(plans) = 1 PROVE Done(i) = <<>>
    <2>1. Len(Done(i)) = 0
        BY <1>4, <1>5, <1>6
    <2> QED
        BY <1>5, <2>1
<1> QED
    BY <1>5, <1>6

LEMMA InvPlans ==
    ASSUME WizardInv, NEW i \in DOMAIN plans, PlanCounts(i) \/ PlanReturns(i) \/ PlanFails(i)
    PROVE  WizardInv'
<1>1. UNCHANGED <<prompted, batches, payer, disturbed>>
    BY DEF PlanCounts, PlanReturns, PlanFails
<1>2. ~disturbed => plans = <<"asked">> \/ plans = <<"tip">>
    BY DEF WizardInv, WizardSettled
<1>3. ~disturbed => i = 1
    BY <1>2
<1>4. CASE PlanFails(i)
    <2>1. wizard' = wizard /\ plans' = Done(i)
        BY <1>4 DEF PlanFails
    <2>2. plans' \in Seq({"asked", "tip"}) /\ (~disturbed => plans' = <<>>)
        BY <1>2, <2>1, PlanEnds
    <2>3. ~disturbed => WizardSettled'
        BY <1>1, <2>1, <2>2 DEF WizardInv, WizardSettled, Counted, Offer
    <2> QED
        BY <1>1, <2>1, <2>2, <2>3 DEF WizardInv
<1>5. CASE PlanReturns(i)
    <2>1. plans[i] = "tip" /\ wizard' = [wizard EXCEPT !.until = wizard.choice, !.next = TRUE] /\ plans' = Done(i)
        BY <1>5 DEF PlanReturns
    <2>2. plans' \in Seq({"asked", "tip"}) /\ (~disturbed => plans' = <<>>)
        BY <1>2, <2>1, PlanEnds
    <2>3. /\ wizard' \in Wizards
          /\ wizard'.step = wizard.step /\ wizard'.budget = wizard.budget /\ wizard'.choice = wizard.choice
          /\ wizard'.need = wizard.need /\ wizard'.count = wizard.count /\ wizard'.until = wizard'.choice
        BY <2>1 DEF WizardInv, Wizards
    <2>4. ~disturbed => plans = <<"tip">>
        BY <1>2, <1>3, <2>1
    <2>5. ~disturbed => wizard.step \notin {"names", "review"}
        BY <2>4, OnePlan DEF WizardInv, WizardSettled
    <2>6. ~disturbed => WizardSettled'
        BY <1>1, <2>2, <2>3, <2>4, <2>5 DEF WizardInv, WizardSettled, Counted
    <2>7. prompted' => wizard'.step = "review"
        BY <1>1, <2>3 DEF WizardInv
    <2> QED
        BY <1>1, <2>2, <2>3, <2>6, <2>7 DEF WizardInv
<1>6. CASE PlanCounts(i)
    <2>1. PICK need, count :
              /\ need = NeedOf[wizard.choice]
              /\ count = Lesser(Lesser(wizard.budget, Balance[payer]) \div need, MostPerBatch)
              /\ wizard' = [wizard EXCEPT !.need = need, !.count = count]
              /\ plans' = IF count < 1 THEN Done(i) ELSE [plans EXCEPT ![i] = "tip"]
        BY <1>6 DEF PlanCounts
    <2>2. /\ need \in Nat /\ count \in Nat
          /\ count >= 1 => /\ count \in 1 .. MostPerBatch
                           /\ count * need <= Lesser(wizard.budget, Balance[payer])
        BY <2>1, CountFits
    <2>3. /\ wizard' \in Wizards
          /\ wizard'.step = wizard.step /\ wizard'.budget = wizard.budget /\ wizard'.choice = wizard.choice
          /\ wizard'.need = need /\ wizard'.count = count /\ wizard'.next = wizard.next
        BY <2>1, <2>2 DEF WizardInv, Wizards
    <2>4. prompted' => wizard'.step = "review"
        BY <1>1, <2>3 DEF WizardInv
    <2>5. plans[i] = "asked"
        BY <1>6 DEF PlanCounts
    <2>6. ~disturbed => plans = <<"asked">> /\ wizard.step \notin {"names", "review"}
        BY <1>2, <1>3, <2>5, OnePlan DEF WizardInv, WizardSettled
    <2>7. ~disturbed /\ wizard.step = "settings" => ~wizard.next
        BY <2>6, OnePlan DEF WizardInv, WizardSettled
    <2>8. CASE count < 1
        <3>1. plans' \in Seq({"asked", "tip"}) /\ (~disturbed => plans' = <<>>)
            BY <1>2, <2>1, <2>8, PlanEnds
        <3>2. ~disturbed => WizardSettled'
            BY <2>3, <2>6, <2>7, <3>1 DEF WizardSettled
        <3> QED
            BY <1>1, <2>3, <2>4, <3>1, <3>2 DEF WizardInv
    <2>9. CASE ~(count < 1)
        <3>1. plans' = [plans EXCEPT ![i] = "tip"]
            BY <2>1, <2>9
        <3>2. plans' \in Seq({"asked", "tip"}) /\ (~disturbed => plans' = <<"tip">>)
            BY <1>3, <2>6, <3>1 DEF WizardInv
        <3>3. Counted'
            BY <1>1, <2>1, <2>2, <2>3, <2>9 DEF Counted
        <3>4. ~disturbed => WizardSettled'
            BY <2>3, <2>6, <2>7, <3>2, <3>3 DEF WizardSettled
        <3> QED
            BY <1>1, <2>3, <2>4, <3>2, <3>4 DEF WizardInv
    <2> QED
        BY <2>8, <2>9
<1> QED
    BY <1>4, <1>5, <1>6

\* A batch that changes its state is still the batch that was reviewed.
LEMMA InvStates ==
    ASSUME WizardInv, NEW k, NEW st \in {"aborted", "done"},
           batches' = [batches EXCEPT ![k].state = st]
    PROVE  /\ batches' \in Seq(Batches)
           /\ \A i \in DOMAIN batches' : AsReviewed(batches'[i])
<1>1. batches \in Seq(Batches) /\ \A i \in DOMAIN batches : AsReviewed(batches[i])
    BY DEF WizardInv
<1>2. DOMAIN batches' = DOMAIN batches /\ \A i \in DOMAIN batches \ {k} : batches'[i] = batches[i]
    BY <1>1
<1>a. CASE k \notin DOMAIN batches
    <2>1. batches' = batches
        BY <1>1, <1>a
    <2> QED
        BY <1>1, <2>1
<1>b. CASE k \in DOMAIN batches
    <2>1. PICK b \in Batches : b = batches[k]
        BY <1>1, <1>b
    <2>2. PICK c : c = [b EXCEPT !.state = st]
        OBVIOUS
    <2>3. batches' = [batches EXCEPT ![k] = c]
        BY <2>1, <2>2
    <2>4. /\ c \in Batches
          /\ c.choice = b.choice /\ c.need = b.need /\ c.count = b.count
          /\ c.until = b.until /\ c.told = b.told /\ c.budget = b.budget
          /\ c.payer = b.payer /\ c.disturbed = b.disturbed
        BY <2>2 DEF Batches
    <2>5. AsReviewed(b)
        BY <1>1, <1>b, <2>1
    <2>6. AsReviewed(c)
        BY <2>4, <2>5 DEF AsReviewed
    <2>7. batches' \in Seq(Batches)
        BY <1>1, <1>b, <2>3, <2>4
    <2>8. \A i \in DOMAIN batches : batches'[i] = IF i = k THEN c ELSE batches[i]
        BY <1>1, <2>3
    <2>9. \A i \in DOMAIN batches' : AsReviewed(batches'[i])
        BY <1>1, <1>2, <2>6, <2>8
    <2> QED
        BY <2>7, <2>9
<1> QED
    BY <1>a, <1>b

\* Where plans and batches stay, the wizard must stay settled.
LEMMA InvFrame ==
    ASSUME WizardInv, UNCHANGED <<plans, batches, payer, disturbed>>, wizard' \in Wizards,
           prompted' \in BOOLEAN, prompted' => wizard'.step = "review",
           ~disturbed => WizardSettled'
    PROVE  WizardInv'
BY DEF WizardInv

LEMMA InvSteps ==
    ASSUME WizardInv, OpenWizard \/ Advance \/ StepBack \/ Create \/ Declines
    PROVE  WizardInv'
<1>0. /\ wizard \in Wizards /\ prompted \in BOOLEAN /\ (prompted => wizard.step = "review")
      /\ ~disturbed => WizardSettled
    BY DEF WizardInv
<1>1. UNCHANGED <<plans, batches, payer, disturbed>>
    BY DEF OpenWizard, Advance, StepBack, Create, Declines
<1>2. CASE OpenWizard
    <2>1. wizard' \in Wizards /\ wizard'.step \in {"resume", "budget"} /\ ~prompted' /\ prompted' \in BOOLEAN
        BY <1>0, <1>2 DEF OpenWizard, Wizards
    <2>2. ~disturbed => WizardSettled'
        BY <1>0, <1>1, <2>1 DEF WizardSettled
    <2> QED
        BY <1>1, <2>1, <2>2, InvFrame
<1>3. CASE At("settings") /\ wizard.next /\ wizard' = [wizard EXCEPT !.step = "names", !.names = wizard.count]
            /\ prompted' = prompted
    <2>1. /\ wizard' \in Wizards /\ wizard'.step = "names" /\ wizard'.names = wizard.count
          /\ wizard'.next = wizard.next /\ wizard'.choice = wizard.choice /\ wizard'.need = wizard.need
          /\ wizard'.count = wizard.count /\ wizard'.until = wizard.until /\ wizard'.budget = wizard.budget
        BY <1>0, <1>3 DEF Wizards
    <2>2. ~disturbed => WizardSettled'
        BY <1>0, <1>1, <1>3, <2>1 DEF WizardSettled, Counted, At
    <2> QED
        BY <1>0, <1>1, <1>3, <2>1, <2>2, InvFrame DEF At
<1>4. CASE At("names") /\ wizard' = [wizard EXCEPT !.step = "review", !.told = Offer] /\ prompted' = prompted
    <2>1. Offer \in Offers
        BY <1>0 DEF Offer, Offers, Wizards
    <2>2. /\ wizard' \in Wizards /\ wizard'.step = "review" /\ wizard'.names = wizard.names
          /\ wizard'.next = wizard.next /\ wizard'.choice = wizard.choice /\ wizard'.need = wizard.need
          /\ wizard'.count = wizard.count /\ wizard'.until = wizard.until /\ wizard'.budget = wizard.budget
          /\ wizard'.told = Offer
        BY <1>0, <1>4, <2>1 DEF Wizards
    <2>3. Offer' = Offer
        BY <2>2 DEF Offer
    <2>4. ~disturbed => WizardSettled'
        BY <1>0, <1>1, <1>4, <2>2, <2>3 DEF WizardSettled, Counted, At
    <2> QED
        BY <1>0, <1>1, <1>4, <2>2, <2>4, InvFrame
<1>5. CASE StepBack
    <2>1. PICK from, to :
              /\ <<from, to>> \in {<<"settings", "budget">>, <<"names", "settings">>, <<"review", "names">>}
              /\ At(from) /\ wizard' = [wizard EXCEPT !.step = to] /\ prompted' = prompted
        BY <1>5 DEF StepBack
    <2>2. to \in {"budget", "settings", "names"}
        BY <2>1
    <2>3. /\ wizard' \in Wizards /\ wizard'.names = wizard.names
          /\ wizard'.next = wizard.next /\ wizard'.choice = wizard.choice /\ wizard'.need = wizard.need
          /\ wizard'.count = wizard.count /\ wizard'.until = wizard.until /\ wizard'.budget = wizard.budget
          /\ wizard'.told = wizard.told /\ ~prompted'
        BY <1>0, <2>1, <2>2 DEF Wizards, At
    <2>4. \/ wizard.step = "settings" /\ wizard'.step = "budget"
          \/ wizard.step = "names" /\ wizard'.step = "settings"
          \/ wizard.step = "review" /\ wizard'.step = "names"
        BY <1>0, <2>1 DEF Wizards, At
    <2>5. ~disturbed => WizardSettled'
        BY <1>0, <1>1, <2>3, <2>4 DEF WizardSettled, Counted
    <2> QED
        BY <1>0, <1>1, <2>1, <2>3, <2>5, InvFrame
<1>6. CASE Create \/ Declines
    <2>1. wizard' = wizard /\ prompted' \in BOOLEAN /\ (prompted' => wizard.step = "review")
        BY <1>0, <1>6 DEF Create, Declines, At
    <2>2. ~disturbed => WizardSettled'
        BY <1>0, <1>1, <2>1 DEF WizardSettled, Counted, Offer
    <2> QED
        BY <1>0, <1>1, <2>1, <2>2, InvFrame
<1> QED
    BY <1>2, <1>3, <1>4, <1>5, <1>6 DEF Advance

LEMMA InvStarted == ASSUME WizardInv, Started PROVE WizardInv'
<1>1. PICK b : b = [choice |-> wizard.choice, need |-> wizard.need, count |-> wizard.names, until |-> wizard.until,
                    told |-> wizard.told, budget |-> wizard.budget, payer |-> payer,
                    disturbed |-> disturbed, state |-> "running"]
    OBVIOUS
<1>2. batches' = Append(batches, b) /\ ~prompted' /\ UNCHANGED <<plans, payer, disturbed>>
    BY <1>1 DEF Started
<1>3. wizard' \in Wizards /\ wizard'.step = "progress"
    BY DEF Started, WizardInv, Wizards
<1>4. b \in Batches
    BY <1>1 DEF WizardInv, Wizards, Batches
<1>5. AsReviewed(b)
    <2> SUFFICES ASSUME ~disturbed PROVE AsReviewed(b)
        BY <1>1 DEF AsReviewed
    <2>1. wizard.step = "review" /\ WizardSettled
        BY DEF WizardInv, Started
    <2>2. Counted /\ wizard.until = wizard.choice /\ wizard.names = wizard.count /\ wizard.told = Offer
        BY <2>1 DEF WizardSettled
    <2>3. /\ b.choice = wizard.choice /\ b.need = wizard.need /\ b.count = wizard.count
          /\ b.until = wizard.until /\ b.told = Offer /\ b.budget = wizard.budget /\ b.payer = payer
        BY <1>1, <2>2
    <2> QED
        BY <2>2, <2>3 DEF AsReviewed, Counted, Offer
<1>6. batches \in Seq(Batches) /\ \A i \in DOMAIN batches : AsReviewed(batches[i])
    BY DEF WizardInv
<1>7. batches' \in Seq(Batches) /\ \A i \in DOMAIN batches' : AsReviewed(batches'[i])
    BY <1>2, <1>4, <1>5, <1>6
<1>8. ~disturbed' => WizardSettled'
    BY <1>2, <1>3 DEF WizardInv, WizardSettled
<1>9. plans' \in Seq({"asked", "tip"}) /\ payer' \in Payers /\ disturbed' \in BOOLEAN
      /\ prompted' \in BOOLEAN /\ (prompted' => wizard'.step = "review")
    BY <1>2 DEF WizardInv, Started
<1> QED
    BY <1>3, <1>7, <1>8, <1>9 DEF WizardInv

LEMMA WizardInvNext == WizardInv /\ [WizardNext]_wizVars => WizardInv'
<1> SUFFICES ASSUME WizardInv, [WizardNext]_wizVars PROVE WizardInv'
    OBVIOUS
<1>1. CASE OpenWizard \/ Advance \/ StepBack \/ Create \/ Declines
    BY <1>1, InvSteps
<1>2. CASE Started
    BY <1>2, InvStarted
<1>3. ASSUME wizard' = wizard \/ (~prompted /\ \E st \in {"progress", "budget"} : wizard' = [wizard EXCEPT !.step = st]),
             UNCHANGED <<plans, prompted, payer, disturbed>>,
             batches' = batches
               \/ \E k : \E st \in {"aborted", "done"} : batches' = [batches EXCEPT ![k].state = st]
      PROVE  WizardInv'
    <2>1. wizard' \in Wizards /\ (prompted' => wizard'.step = "review") /\ (~disturbed' => WizardSettled')
        <3>1. CASE wizard' = wizard
            BY <1>3, <3>1 DEF WizardInv, WizardSettled, Counted, Offer
        <3>2. CASE ~prompted /\ \E st \in {"progress", "budget"} : wizard' = [wizard EXCEPT !.step = st]
            <4>1. wizard' \in Wizards /\ wizard'.step \in {"progress", "budget"}
                BY <3>2 DEF WizardInv, Wizards
            <4> QED
                BY <1>3, <3>2, <4>1 DEF WizardInv, WizardSettled
        <3> QED
            BY <1>3, <3>1, <3>2
    <2>2. /\ batches' \in Seq(Batches)
          /\ \A i \in DOMAIN batches' : AsReviewed(batches'[i])
        BY <1>3, InvStates DEF WizardInv
    <2> QED
        BY <1>3, <2>1, <2>2 DEF WizardInv
<1>4. CASE Resume
    BY <1>3, <1>4 DEF Resume
<1>5. CASE StartOver
    BY <1>3, <1>5 DEF StartOver, At
<1>6. CASE RunnerEnds
    BY <1>3, <1>6 DEF RunnerEnds, Running
<1>7. ASSUME NEW b \in Budgets, EnterBudget(b) PROVE WizardInv'
    <2>1. UNCHANGED <<prompted, batches, payer>> /\ ~prompted /\ wizard.step = "budget" /\ b \in Nat
        BY <1>7, WizardAssumption DEF EnterBudget, At
    <2>2. CASE Planning([wizard EXCEPT !.step = "settings", !.budget = b])
        <3>1. [wizard EXCEPT !.step = "settings", !.budget = b] \in Wizards
            BY <2>1 DEF WizardInv, Wizards
        <3>2. [wizard EXCEPT !.step = "settings", !.budget = b].step = "settings"
            BY DEF WizardInv, Wizards
        <3> QED
            BY <2>1, <2>2, <3>1, <3>2, InvPlanning
    <2>3. CASE wizard' = [wizard EXCEPT !.budget = b] /\ UNCHANGED <<plans, planned, disturbed>>
        <3>1. wizard' \in Wizards /\ wizard'.step = "budget"
            BY <2>1, <2>3 DEF WizardInv, Wizards
        <3> QED
            BY <2>1, <2>3, <3>1 DEF WizardInv, WizardSettled
    <2> QED
        BY <1>7, <2>2, <2>3 DEF EnterBudget
<1>8. ASSUME NEW c \in Settings, ChangeSettings(c) PROVE WizardInv'
    <2>1. [wizard EXCEPT !.choice = c] \in Wizards /\ [wizard EXCEPT !.choice = c].step = "settings"
        BY <1>8 DEF ChangeSettings, At, WizardInv, Wizards
    <2> QED
        BY <1>8, <2>1, InvPlanning DEF ChangeSettings, At
<1>9. CASE \E i \in DOMAIN plans : PlanCounts(i) \/ PlanReturns(i) \/ PlanFails(i)
    BY <1>9, InvPlans
<1>10. ASSUME NEW w \in Payers, WalletSwitches(w) PROVE WizardInv'
    BY <1>10 DEF WalletSwitches, WizardInv
<1>11. CASE UNCHANGED wizVars
    BY <1>3, <1>11 DEF wizVars
<1> QED
    BY <1>1, <1>2, <1>4, <1>5, <1>6, <1>7, <1>8, <1>9, <1>10, <1>11 DEF WizardNext

\* A batch is what its review said and within the budget and the balance (computePlan,
\* startBatch), for any settings, prices, budgets and number of plans.
THEOREM BatchesAsReviewed == WizardSpec => []CreatedAsReviewed
<1>1. WizardInv => CreatedAsReviewed
    BY DEF WizardInv, CreatedAsReviewed, AsReviewed
<1> QED
    BY WizardInvInit, WizardInvNext, <1>1, PTL DEF WizardSpec

-----------------------------------------------------------------------------
(* The GitHub backup                                                       *)

Keyed == {t \in Treasuries : repo[KeyPath(t)].version > 0}

\* A file of a treasury's path is that treasury's, and a manifest has its keystore.
RepoInv ==
    /\ repo \in [Paths -> [version : Nat, of : Treasuries \union {"none"}]]
    /\ \A t \in Treasuries :
          /\ repo[KeyPath(t)].version > 0 => repo[KeyPath(t)].of = t
          /\ repo[ManifestPath(t)].version > 0 => repo[ManifestPath(t)].of = t /\ t \in Keyed

\* What a sync has uploaded is there, and its manifests are of that.
SyncInv(s) ==
    /\ s.phase \in {"next", "get", "put"} =>
          /\ s.uploaded \subseteq Keyed /\ s.todo \subseteq Treasuries
          /\ s.stage = "manifests" => s.todo \subseteq Keyed
    /\ s.phase \in {"get", "put"} => s.at \in s.todo

Syncs ==
    [phase : {"idle", "next", "get", "put", "list", "read"}, stage : {"keys", "manifests"},
     todo : SUBSET Treasuries, uploaded : SUBSET Treasuries, found : SUBSET (Treasuries \union {"none"}),
     at : Treasuries \union {"none"}, sha : Nat, retried : BOOLEAN]

CardsOwn(cs) ==
    /\ cs \subseteq [on : Devices, wallet : Treasuries \union {"none"}, entry : Treasuries \union {"none"}]
    /\ \A c \in cs : c.entry \in {"none", c.wallet}

GhInv ==
    /\ RepoInv
    /\ device \in [Devices -> Syncs]
    /\ \A d \in Devices : SyncInv(device[d])
    /\ CardsOwn(cards)

LEMMA PathsApart ==
    ASSUME NEW t \in Treasuries, NEW u \in Treasuries
    PROVE  /\ KeyPath(t) \in Paths /\ ManifestPath(t) \in Paths
           /\ KeyPath(t) # ManifestPath(u)
           /\ KeyPath(t) = KeyPath(u) => t = u
           /\ ManifestPath(t) = ManifestPath(u) => t = u
<1>1. Len(KeyPath(t)) = 3 /\ Len(ManifestPath(u)) = 2
    BY DEF KeyPath, ManifestPath
<1>2. KeyPath(t)[2] = t /\ KeyPath(u)[2] = u /\ ManifestPath(t)[2] = t /\ ManifestPath(u)[2] = u
    BY DEF KeyPath, ManifestPath
<1>3. KeyPath(t) # ManifestPath(u)
    BY <1>1
<1> QED
    BY <1>2, <1>3 DEF Paths

LEMMA IdleSyncs == Idle \in Syncs /\ SyncInv(Idle) /\ Idle.uploaded = {} /\ Idle.stage = "keys"
    BY DEF Idle, Syncs, SyncInv

LEMMA GhInvInit == GhInit => GhInv
<1> SUFFICES ASSUME GhInit PROVE GhInv
    OBVIOUS
<1>1. repo = [p \in Paths |-> [version |-> 0, of |-> "none"]]
    BY DEF GhInit
<1>2. \A t \in Treasuries : repo[KeyPath(t)].version = 0 /\ repo[ManifestPath(t)].version = 0
    BY <1>1, PathsApart
<1>3. RepoInv
    BY <1>1, <1>2 DEF RepoInv
<1> QED
    BY <1>3, IdleSyncs DEF GhInit, GhInv, CardsOwn

\* A file is stored: one more treasury may be keyed, none less.
LEMMA StoredInv ==
    ASSUME GhInv, NEW d \in Devices, device[d].phase = "put", repo' = Stored(d)
    PROVE  /\ RepoInv' /\ Keyed \subseteq Keyed'
           /\ device[d].at \in Keyed'
<1>1. PICK t \in Treasuries : t = device[d].at
    BY DEF GhInv, SyncInv, Syncs
<1>2. PICK stage \in {"keys", "manifests"} : stage = device[d].stage
    BY DEF GhInv, Syncs
<1>3. stage = "manifests" => t \in Keyed
    BY <1>1, <1>2 DEF GhInv, SyncInv
<1>4. PICK path \in Paths : path = Target(d) /\ path = IF stage = "keys" THEN KeyPath(t) ELSE ManifestPath(t)
    BY <1>1, <1>2, PathsApart DEF Target
<1>5. PICK version \in Nat : version = repo[path].version
    BY DEF GhInv, RepoInv
<1>6. PICK file : file = [version |-> version + 1, of |-> t]
    OBVIOUS
<1>7. repo' = [repo EXCEPT ![path] = file]
    BY <1>1, <1>4, <1>5, <1>6 DEF Stored
<1>8. file \in [version : Nat, of : Treasuries \union {"none"}] /\ file.version > 0 /\ file.of = t
    BY <1>6
<1>9. /\ repo' \in [Paths -> [version : Nat, of : Treasuries \union {"none"}]]
      /\ repo'[path] = file /\ \A p \in Paths \ {path} : repo'[p] = repo[p]
    BY <1>7, <1>8 DEF GhInv, RepoInv
<1>10. Keyed \subseteq Keyed'
    BY <1>8, <1>9, PathsApart DEF Keyed
<1>11. t \in Keyed'
    BY <1>2, <1>3, <1>4, <1>8, <1>9, <1>10, PathsApart DEF Keyed
<1>12. ASSUME NEW u \in Treasuries
       PROVE  /\ repo'[KeyPath(u)].version > 0 => repo'[KeyPath(u)].of = u
              /\ repo'[ManifestPath(u)].version > 0 => repo'[ManifestPath(u)].of = u /\ u \in Keyed'
    <2>1. repo'[KeyPath(u)].version > 0 => repo'[KeyPath(u)].of = u
        BY <1>4, <1>8, <1>9, PathsApart DEF GhInv, RepoInv
    <2>2. repo'[ManifestPath(u)].version > 0 => repo'[ManifestPath(u)].of = u /\ u \in Keyed'
        BY <1>4, <1>8, <1>9, <1>10, <1>11, PathsApart DEF GhInv, RepoInv
    <2> QED
        BY <2>1, <2>2
<1> QED
    BY <1>1, <1>9, <1>10, <1>11, <1>12 DEF RepoInv

\* Where the repository stays or gains a file, and one device moves on.
LEMMA DeviceMoves ==
    ASSUME GhInv, RepoInv', Keyed \subseteq Keyed', NEW d \in Devices, NEW s \in Syncs,
           device' = [device EXCEPT ![d] = s], SyncInv(s)',
           CardsOwn(cards')
    PROVE  GhInv'
<1>1. device' \in [Devices -> Syncs] /\ \A e \in Devices : device'[e] = IF e = d THEN s ELSE device[e]
    BY DEF GhInv
<1>2. ASSUME NEW e \in Devices PROVE SyncInv(device[e])'
    <2>1. CASE e = d
        BY <1>1, <2>1 DEF SyncInv
    <2>2. CASE e # d
        <3>1. SyncInv(device[e]) /\ device'[e] = device[e]
            BY <1>1, <2>2 DEF GhInv
        <3> QED
            BY <3>1 DEF SyncInv
    <2> QED
        BY <2>1, <2>2
<1> QED
    BY <1>1, <1>2 DEF GhInv

LEMMA GhInvNext == GhInv /\ [GhNext]_ghVars => GhInv'
<1> SUFFICES ASSUME GhInv, [GhNext]_ghVars PROVE GhInv'
    OBVIOUS
<1>0. repo' = repo => RepoInv' /\ Keyed' = Keyed
    BY DEF GhInv, RepoInv, Keyed
<1>1. ASSUME NEW d \in Devices, SyncStarts(d) PROVE GhInv'
    <2>1. PICK s : s = [Idle EXCEPT !.phase = "next", !.todo = Held[d]]
        OBVIOUS
    <2>2. s \in Syncs /\ s.phase = "next" /\ s.uploaded = {} /\ s.stage = "keys" /\ s.todo \subseteq Treasuries
        BY <2>1, GithubAssumption DEF Idle, Syncs
    <2>3. SyncInv(s)'
        BY <2>2 DEF SyncInv
    <2> QED
        BY <1>0, <1>1, <2>1, <2>2, <2>3, DeviceMoves DEF SyncStarts, GhInv
<1>2. ASSUME NEW d \in Devices, NextFile(d) PROVE GhInv'
    <2>1. PICK old \in Syncs : old = device[d] /\ old.phase = "next" /\ SyncInv(old)
        BY <1>2 DEF GhInv, NextFile
    <2>2. PICK s \in Syncs : device' = [device EXCEPT ![d] = s] /\ SyncInv(s)
        <3>1. ASSUME NEW t \in old.todo, device' = [device EXCEPT ![d].phase = "get", ![d].at = t, ![d].retried = FALSE]
              PROVE  \E s \in Syncs : device' = [device EXCEPT ![d] = s] /\ SyncInv(s)
            <4>1. PICK s : s = [old EXCEPT !.phase = "get", !.at = t, !.retried = FALSE]
                OBVIOUS
            <4>2. device' = [device EXCEPT ![d] = s]
                BY <2>1, <3>1, <4>1 DEF GhInv
            <4>3. s \in Syncs /\ s.uploaded = old.uploaded /\ s.todo = old.todo /\ s.stage = old.stage /\ s.at = t
                BY <3>1, <4>1 DEF Syncs
            <4> QED
                BY <2>1, <3>1, <4>2, <4>3 DEF SyncInv
        <3>2. CASE device' = [device EXCEPT ![d].stage = "manifests", ![d].todo = Manifests(d)]
            <4>1. PICK s : s = [old EXCEPT !.stage = "manifests", !.todo = old.uploaded]
                OBVIOUS
            <4>2. device' = [device EXCEPT ![d] = s]
                BY <2>1, <3>2, <4>1 DEF GhInv, Manifests
            <4>3. s \in Syncs /\ s.uploaded = old.uploaded /\ s.todo = old.uploaded /\ s.phase = "next"
                BY <2>1, <4>1 DEF Syncs
            <4> QED
                BY <2>1, <4>2, <4>3 DEF SyncInv, Syncs
        <3>3. CASE device' = [device EXCEPT ![d] = Idle]
            BY <3>3, IdleSyncs
        <3> QED
            BY <1>2, <2>1, <3>1, <3>2, <3>3 DEF NextFile
    <2>3. SyncInv(s)'
        BY <1>0, <1>2, <2>2 DEF SyncInv, NextFile
    <2> QED
        BY <1>0, <1>2, <2>2, <2>3, DeviceMoves DEF NextFile, GhInv
<1>3. ASSUME NEW d \in Devices, Get(d) PROVE GhInv'
    <2>1. PICK old \in Syncs : old = device[d] /\ old.phase = "get" /\ SyncInv(old)
        BY <1>3 DEF GhInv, Get
    <2>2. PICK n : n = repo[Target(d)].version
        OBVIOUS
    <2>3. n \in Nat
        <3>1. old.at \in Treasuries
            BY <2>1 DEF SyncInv
        <3>2. Target(d) \in Paths
            BY <2>1, <3>1, PathsApart DEF Target
        <3> QED
            BY <2>2, <3>2 DEF GhInv, RepoInv
    <2>4. PICK s : s = [old EXCEPT !.phase = "put", !.sha = n]
        OBVIOUS
    <2>5. device' = [device EXCEPT ![d] = s]
        BY <1>3, <2>1, <2>2, <2>4 DEF GhInv, Get
    <2>6. s \in Syncs /\ s.uploaded = old.uploaded /\ s.todo = old.todo /\ s.stage = old.stage /\ s.at = old.at
        BY <2>3, <2>4 DEF Syncs
    <2>7. SyncInv(s)'
        BY <1>0, <1>3, <2>1, <2>6 DEF SyncInv, Get
    <2> QED
        BY <1>0, <1>3, <2>5, <2>6, <2>7, DeviceMoves DEF Get, GhInv
<1>4. ASSUME NEW d \in Devices, PutTaken(d) PROVE GhInv'
    <2>1. PICK old \in Syncs : old = device[d] /\ old.phase = "put" /\ SyncInv(old)
        BY <1>4 DEF GhInv, PutTaken
    <2>2. RepoInv' /\ Keyed \subseteq Keyed' /\ old.at \in Keyed'
        BY <1>4, <2>1, StoredInv DEF PutTaken
    <2>3. old.at \in Treasuries
        BY <2>1 DEF SyncInv
    <2>4. PICK s : s = [old EXCEPT !.phase = "next", !.todo = old.todo \ {old.at},
                               !.uploaded = old.uploaded \union {old.at}]
        OBVIOUS
    <2>5. device' = [device EXCEPT ![d] = s]
        BY <1>4, <2>1, <2>4 DEF PutTaken, Pushed
    <2>6. s \in Syncs /\ s.phase = "next" /\ s.todo = old.todo \ {old.at} /\ s.stage = old.stage
          /\ s.uploaded = old.uploaded \union {old.at}
        BY <2>3, <2>4 DEF Syncs
    <2>7. SyncInv(s)'
        BY <2>1, <2>2, <2>6 DEF SyncInv
    <2> QED
        BY <1>4, <2>2, <2>5, <2>6, <2>7, DeviceMoves DEF PutTaken, GhInv
<1>5. ASSUME NEW d \in Devices, PutRaced(d) PROVE GhInv'
    <2>1. PICK old \in Syncs : old = device[d] /\ old.phase = "put" /\ SyncInv(old)
        BY <1>5 DEF GhInv, PutRaced
    <2>2. PICK s \in Syncs : device' = [device EXCEPT ![d] = s] /\ SyncInv(s)
        <3>1. CASE device' = [device EXCEPT ![d] = Idle]
            BY <3>1, IdleSyncs
        <3>2. CASE device' = [device EXCEPT ![d].phase = "get", ![d].retried = TRUE]
            <4>1. PICK s : s = [old EXCEPT !.phase = "get", !.retried = TRUE]
                OBVIOUS
            <4>2. device' = [device EXCEPT ![d] = s]
                BY <2>1, <3>2, <4>1 DEF GhInv
            <4>3. s \in Syncs /\ s.uploaded = old.uploaded /\ s.todo = old.todo /\ s.stage = old.stage /\ s.at = old.at
                BY <4>1 DEF Syncs
            <4> QED
                BY <2>1, <4>2, <4>3 DEF SyncInv
        <3> QED
            BY <1>5, <3>1, <3>2 DEF PutRaced
    <2>3. SyncInv(s)'
        BY <1>0, <1>5, <2>2 DEF SyncInv, PutRaced
    <2> QED
        BY <1>0, <1>5, <2>2, <2>3, DeviceMoves DEF PutRaced, GhInv
<1>6. ASSUME NEW d \in Devices, RequestFails(d) PROVE GhInv'
    <2>1. RepoInv' /\ Keyed \subseteq Keyed'
        BY <1>0, <1>6, StoredInv DEF RequestFails
    <2>2. SyncInv(Idle)'
        BY DEF SyncInv, Idle
    <2> QED
        BY <1>6, <2>1, <2>2, IdleSyncs, DeviceMoves DEF RequestFails, GhInv
<1>7. ASSUME NEW d \in Devices, NEW t \in Treasuries, PullKeystore(d, t) PROVE GhInv'
    <2>1. PICK s : s = [Idle EXCEPT !.phase = "list", !.at = t]
        OBVIOUS
    <2>2. s \in Syncs /\ s.phase = "list"
        BY <2>1 DEF Idle, Syncs
    <2>3. SyncInv(s)'
        BY <2>2 DEF SyncInv
    <2>4. repo[KeyPath(t)].of \in Treasuries \union {"none"}
        BY PathsApart DEF GhInv, RepoInv
    <2>5. CardsOwn(cards')
        BY <1>7, <2>4 DEF PullKeystore, GhInv, CardsOwn
    <2> QED
        BY <1>0, <1>7, <2>1, <2>2, <2>3, <2>5, DeviceMoves DEF PullKeystore
<1>8. ASSUME NEW d \in Devices, ListManifests(d) \/ ReadManifest(d) PROVE GhInv'
    <2>1. PICK old \in Syncs : old = device[d]
        BY DEF GhInv
    <2>2. PICK s \in Syncs : device' = [device EXCEPT ![d] = s] /\ s.phase = "read"
        <3>1. CASE ListManifests(d)
            <4>1. PICK s : s = [old EXCEPT !.phase = "read", !.todo = Present]
                OBVIOUS
            <4>2. s \in Syncs /\ s.phase = "read"
                BY <4>1 DEF Syncs, Present
            <4>3. device' = [device EXCEPT ![d] = s]
                BY <2>1, <3>1, <4>1 DEF GhInv, ListManifests
            <4> QED
                BY <4>2, <4>3
        <3>2. CASE ReadManifest(d)
            <4>1. PICK t \in old.todo : device' = [device EXCEPT ![d].todo = @ \ {t},
                                            ![d].found = @ \union {repo[ManifestPath(t)].of}]
                BY <2>1, <3>2 DEF ReadManifest
            <4>2. PICK s : s = [old EXCEPT !.todo = old.todo \ {t},
                                          !.found = old.found \union {repo[ManifestPath(t)].of}]
                OBVIOUS
            <4>3. repo[ManifestPath(t)].of \in Treasuries \union {"none"}
                BY PathsApart DEF GhInv, RepoInv, Syncs
            <4>4. s \in Syncs /\ s.phase = "read"
                BY <2>1, <3>2, <4>2, <4>3 DEF Syncs, ReadManifest
            <4>5. device' = [device EXCEPT ![d] = s]
                BY <2>1, <4>1, <4>2 DEF GhInv
            <4> QED
                BY <4>4, <4>5
        <3> QED
            BY <1>8, <3>1, <3>2
    <2>3. SyncInv(s)'
        BY <2>2 DEF SyncInv
    <2> QED
        BY <1>0, <1>8, <2>2, <2>3, DeviceMoves DEF ListManifests, ReadManifest, GhInv
<1>9. ASSUME NEW d \in Devices, PutCard(d) PROVE GhInv'
    <2>1. PICK t : t = device[d].at /\ t \in Treasuries \union {"none"}
        BY DEF GhInv, Syncs
    <2>2. PICK named : named = Entries(device[d].found, t, Slug[t]) /\ named \subseteq {t}
        BY DEF Entries
    <2>3. CardsOwn(cards')
        <3> SUFFICES ASSUME NEW x \in cards'
                     PROVE  /\ x \in [on : Devices, wallet : Treasuries \union {"none"},
                                      entry : Treasuries \union {"none"}]
                            /\ x.entry \in {"none", x.wallet}
            BY DEF CardsOwn
        <3>1. PICK c \in cards : x = IF c.on = d /\ c.wallet = t /\ named # {}
                                    THEN [c EXCEPT !.entry = CHOOSE e \in named : TRUE] ELSE c
            BY <1>9, <2>1, <2>2 DEF PutCard
        <3>2. c \in [on : Devices, wallet : Treasuries \union {"none"}, entry : Treasuries \union {"none"}]
              /\ c.entry \in {"none", c.wallet}
            BY DEF GhInv, CardsOwn
        <3>3. CASE c.wallet = t /\ named # {} /\ x = [c EXCEPT !.entry = CHOOSE e \in named : TRUE]
            <4>1. (CHOOSE e \in named : TRUE) = t
                BY <2>2, <3>3
            <4> QED
                BY <2>1, <3>2, <3>3, <4>1
        <3> QED
            BY <3>1, <3>2, <3>3
    <2>4. SyncInv(Idle)'
        BY DEF SyncInv, Idle
    <2> QED
        BY <1>0, <1>9, <2>3, <2>4, IdleSyncs, DeviceMoves DEF PutCard
<1>10. CASE UNCHANGED ghVars
    BY <1>10 DEF ghVars, GhInv, RepoInv, SyncInv, Keyed
<1> QED
    BY <1>1, <1>2, <1>3, <1>4, <1>5, <1>6, <1>7, <1>8, <1>9, <1>10 DEF GhNext

\* A manifest has its keystore, and a card is of the wallet that was restored
\* (syncGitHub in treasury-ui.js, pushFile and pickManifestEntry in ghbackup.js), for any
\* devices, treasuries and file names, however syncs interleave and wherever they stop.
THEOREM ManifestsBacked == GhSpec => []ManifestBacked
<1>1. GhInv => ManifestBacked
    BY DEF GhInv, RepoInv, ManifestBacked, Keyed, CardsOwn
<1> QED
    BY GhInvInit, GhInvNext, <1>1, PTL DEF GhSpec

=============================================================================
