-------------------------------- MODULE Gift --------------------------------
(***************************************************************************)
(* Gifting a treasury (apps/wallet/public/treasury-ui.js, the mint-to-order *)
(* flow): the giver's coin funds a mint that belongs to the recipient from *)
(* the first block, and can never be taken back.  When no single coin is   *)
(* large enough, the giver's coins are merged first, and the mint waits    *)
(* for the merge.  Answers are lost, the giver cancels, locks and switches *)
(* wallets in the middle, and confirms again.                              *)
(*                                                                         *)
(* A coin is large enough for a gift, or half of that; every gift is of    *)
(* one size.                                                               *)
(***************************************************************************)
EXTENDS Integers, Sequences, FiniteSets

CONSTANTS
    Givers,     \* the giver's wallets
    Shut,       \* no wallet is open
    GiftCoins,  \* the coins the wallets start with
    CoinOf,     \* coin -> its wallet
    Large,      \* those a gift can be minted from
    MaxGifts    \* bound: gifts reviewed

ASSUME GiftAssumption ==
    /\ Shut \notin Givers /\ Large \subseteq GiftCoins /\ [merge |-> 0] \notin GiftCoins
    /\ CoinOf \in [GiftCoins -> Givers] /\ MaxGifts \in Nat

VARIABLES
    opener,    \* the wallet that is open
    gifts,     \* the plans, in the order of their reviews
    reviewing, \* the plan whose height is still asked for, 0 when none
    shown,     \* pendingGift: the plan that waits for its confirmation
    giving,    \* the confirmation under way
    merges,    \* plan -> where its merge is
    mints,     \* the gift mints the network took
    gone       \* coins that were spent

giftVars == <<opener, gifts, reviewing, shown, giving, merges, mints, gone>>

\* The coin a plan's merge makes is named by the plan.
Merged(n) == [merge |-> n]
NoGiftCoin == [merge |-> 0]
NotGiving == [phase |-> "none", gift |-> 0]

\* The open wallet's coins large enough and in a block: "confirmed P2TR".
LargeCoins ==
    {c \in Large \ gone : CoinOf[c] = opener}
    \union {Merged(n) : n \in {n \in 1 .. Len(gifts) :
                                 merges[n] = "block" /\ Merged(n) \notin gone /\ gifts[n].owner = opener}}

SmallCoins == {c \in GiftCoins \ (Large \union gone) : CoinOf[c] = opener}

GiveUp == giving' = NotGiving

-----------------------------------------------------------------------------
(* The review *)

\* A large coin funds the gift, or two small ones are to be merged.
GiftReviewed ==
    /\ opener # Shut /\ shown = 0 /\ reviewing = 0 /\ Len(gifts) < MaxGifts
    /\ \/ \E c \in LargeCoins :
             gifts' = Append(gifts, [owner |-> opener, fund |-> c, merging |-> {}, signed |-> NoGiftCoin])
       \/ /\ LargeCoins = {} /\ Cardinality(SmallCoins) >= 2
          /\ gifts' = Append(gifts, [owner |-> opener, fund |-> NoGiftCoin, merging |-> SmallCoins,
                                     signed |-> NoGiftCoin])
    /\ reviewing' = Len(gifts')
    /\ merges' = Append(merges, "none")
    /\ UNCHANGED <<opener, shown, giving, mints, gone>>

\* The height is there: the plan is shown, whichever wallet is open by now.
GiftShown ==
    /\ reviewing # 0 /\ shown' = reviewing /\ reviewing' = 0
    /\ UNCHANGED <<opener, gifts, giving, merges, mints, gone>>

GiftReviewFails ==
    /\ reviewing # 0 /\ reviewing' = 0
    /\ UNCHANGED <<opener, gifts, shown, giving, merges, mints, gone>>

\* resetGift(), by Cancel or by opening the dialog anew.
GiftCancelled ==
    /\ shown # 0 /\ shown' = 0
    /\ UNCHANGED <<opener, gifts, reviewing, giving, merges, mints, gone>>

\* Unlocking, switching, locking: a password that is asked for counts as refused; the
\* plan stays, unlike the drafts of the other flows.
Switches(w) ==
    /\ opener # w /\ opener' = w
    /\ giving' = IF giving.phase = "auth" THEN NotGiving ELSE giving
    /\ UNCHANGED <<gifts, reviewing, shown, merges, mints, gone>>

-----------------------------------------------------------------------------
(* Confirm *)

GiftConfirmed ==
    /\ shown # 0 /\ giving = NotGiving /\ opener # Shut
    /\ giving' = [phase |-> "auth", gift |-> shown]
    /\ UNCHANGED <<opener, gifts, reviewing, shown, merges, mints, gone>>

Minting == gifts[giving.gift].merging = {}

PasswordGiven ==
    /\ giving.phase = "auth"
    /\ giving' = [giving EXCEPT !.phase = IF Minting THEN "mint" ELSE "merge"]
    /\ UNCHANGED <<opener, gifts, reviewing, shown, merges, mints, gone>>

\* The merge is broadcast, the same bytes each time; its answer may be lost.
MergeSent ==
    /\ giving.phase = "merge"
    /\ \/ /\ merges[giving.gift] = "none" /\ gifts[giving.gift].merging \intersect gone = {}
          /\ merges' = [merges EXCEPT ![giving.gift] = "mempool"]
          /\ gone' = gone \union gifts[giving.gift].merging
       \/ merges[giving.gift] = "mempool" /\ UNCHANGED <<merges, gone>>
    /\ giving' = [giving EXCEPT !.phase = "wait"] \/ GiveUp
    /\ UNCHANGED <<opener, gifts, reviewing, shown, mints>>

\* No answer one can read as success, also when the merge is in a block already; no
\* large coin in two minutes; no height; the password refused.
GiftStops ==
    /\ giving.phase # "none" /\ GiveUp
    /\ UNCHANGED <<opener, gifts, reviewing, shown, merges, mints, gone>>

\* A large confirmed coin of the open wallet, whichever it is; then the height.
MergeSeen ==
    /\ giving.phase = "wait"
    /\ \E c \in LargeCoins : gifts' = [gifts EXCEPT ![giving.gift].fund = c]
    /\ giving' = [giving EXCEPT !.phase = "mint"]
    /\ UNCHANGED <<opener, reviewing, shown, merges, mints, gone>>

\* Mutant: the mint is signed at every attempt.
SignedAnew(g) == g.fund

\* The coin of the mint: signed once, and after that only sent.
SignedWith(g) == IF g.signed # NoGiftCoin THEN g.signed ELSE g.fund

\* The node takes the mint, or has it, or refuses it.
MintSent ==
    /\ giving.phase = "mint"
    /\ LET coin == SignedWith(gifts[giving.gift])
           mint == [gift |-> giving.gift, coin |-> coin]
       IN /\ gifts' = [gifts EXCEPT ![giving.gift].signed = coin]
          /\ \/ coin \notin gone /\ mints' = mints \union {mint} /\ gone' = gone \union {coin}
             \/ mint \in mints /\ UNCHANGED <<mints, gone>>
             \/ coin \in gone /\ mint \notin mints /\ UNCHANGED <<mints, gone>>
          /\ giving' = IF mint \in mints' THEN [giving EXCEPT !.phase = "sent"] ELSE NotGiving
    /\ UNCHANGED <<opener, reviewing, shown, merges>>

\* The answer that it is sent: the flow is over, whichever plan is shown.  (That it is
\* in a block already is no such answer, nor is none: GiftStops.)
Gifted ==
    /\ giving.phase = "sent" /\ GiveUp /\ shown' = 0
    /\ UNCHANGED <<opener, gifts, reviewing, merges, mints, gone>>

MergeMined(n) ==
    /\ merges[n] = "mempool" /\ merges' = [merges EXCEPT ![n] = "block"]
    /\ UNCHANGED <<opener, gifts, reviewing, shown, giving, mints, gone>>

GiftInit ==
    /\ opener = Shut /\ gifts = <<>> /\ reviewing = 0 /\ shown = 0 /\ giving = NotGiving
    /\ merges = <<>> /\ mints = {} /\ gone = {}

GiftNext ==
    \/ GiftReviewed \/ GiftShown \/ GiftReviewFails \/ GiftCancelled
    \/ \E w \in Givers \union {Shut} : Switches(w)
    \/ GiftConfirmed \/ PasswordGiven \/ MergeSent \/ GiftStops \/ MergeSeen \/ MintSent \/ Gifted
    \/ \E n \in 1 .. Len(gifts) : MergeMined(n)

GiftSpec == GiftInit /\ [][GiftNext]_giftVars

-----------------------------------------------------------------------------
(* Properties *)

\* A gift that was reviewed once is given at most once, whatever answers are lost
\* and however often it is confirmed: it could not be taken back.
GiftOnce == \A a, b \in mints : a.gift = b.gift => a = b
=============================================================================
