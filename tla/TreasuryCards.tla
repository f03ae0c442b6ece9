---------------------------- MODULE TreasuryCards ----------------------------
(***************************************************************************)
(* The treasury dashboard (treasury-ui.js) over the registry of cards      *)
(* (treasuries.js).  A render lists the cards, asks the indexer for each,  *)
(* and paints when all have answered, unless a newer render has begun.     *)
(* Searching and sorting are renders; the order of the cards is left out.  *)
(*                                                                         *)
(* A card notes its position when the batch that mints it says so; the     *)
(* position is open on chain before that, and the blocks go on.  An answer *)
(* is taken when the indexer gives it and painted when the last one is in. *)
(***************************************************************************)
EXTENDS Integers, FiniteSets

CONSTANTS
    Cards,        \* treasury wallets
    NoCard,       \* a wallet without a card, or an answer not yet in
    UnlockAt,     \* the height noted at the mint
    SoonBlocks,   \* UNLOCKING_SOON_BLOCKS
    MaxTip,       \* bound: height of the chain
    MaxRenders    \* bound: renders

ASSUME CardsAssumption ==
    /\ UnlockAt \in Nat /\ SoonBlocks \in Nat /\ MaxTip \in Nat /\ MaxRenders \in Nat
    /\ NoCard \notin [noted : BOOLEAN, out : BOOLEAN]
    /\ NoCard \notin [told : BOOLEAN, open : BOOLEAN, tip : Nat]

VARIABLES
    card,      \* registry.treasuries
    atHand,      \* the wallets in the vault of this device
    position,      \* per treasury: its position on chain, "none", "open" or "spent"
    tip,       \* the height of the chain
    render,    \* tRefreshGen
    loading,   \* renders under way: generation, the cards listed, the answers so far
    board      \* per treasury: the status on the page, or NoCard

cardVars == <<card, atHand, position, tip, render, loading, board>>

CARD_STATUSES == <<"funded", "locked", "unlocking-soon", "mature", "redeemed", "transferred-out">>
StatusOrder(s) == CHOOSE i \in 1 .. 6 : CARD_STATUSES[i] = s

\* The facts of a card: whether its position is noted, and whether it left this device.
Card(noted) == [noted |-> noted, out |-> FALSE]

\* putTreasury() for a wallet new on this device, of a batch or restored; updateTreasury()
\* once its mint is out; markTransferredOut() where the wallet is removed.
PutTreasury(t) == card' = [card EXCEPT ![t] = Card(FALSE)]
NoteMint(t) == card' = [card EXCEPT ![t] = IF @ = NoCard THEN @ ELSE [@ EXCEPT !.noted = TRUE]]
MarkTransferredOut(t) == card' = [card EXCEPT ![t] = IF @ = NoCard THEN @ ELSE [@ EXCEPT !.out = TRUE]]

\* cardStatus(), first match first: sold, unfunded, its position closed, its height reached.
CardStatus(c, a) ==
    CASE c.out -> "transferred-out"
      [] ~c.out /\ ~c.noted -> "funded"
      [] ~c.out /\ c.noted /\ ~a.open -> "redeemed"
      [] OTHER -> IF a.tip >= UnlockAt THEN "mature"
                  ELSE IF UnlockAt - a.tip <= SoonBlocks THEN "unlocking-soon" ELSE "locked"

\* A card without live data has no status, unless it was sold.
Told(c, a) ==
    IF ~a.told THEN IF c.out THEN "transferred-out" ELSE NoCard ELSE CardStatus(c, a)

-----------------------------------------------------------------------------
(* The dashboard *)

Carded == {t \in Cards : card[t] # NoCard}

\* renderTreasuryList() up to its first await.
BeginRender ==
    /\ render < MaxRenders
    /\ render' = render + 1
    /\ loading' = loading \union
          {[gen |-> render + 1, cards |-> card, here |-> atHand, answers |-> [t \in Carded |-> NoCard]]}
    /\ UNCHANGED <<card, atHand, position, tip, board>>

\* loadCardData() of one card: what the indexer says now, or nothing, where the wallet
\* was not here as the render began or a request fails.
Live(t) == [told |-> TRUE, open |-> position[t] = "open", tip |-> tip]
Untold == [told |-> FALSE, open |-> FALSE, tip |-> 0]

Load(r, t) ==
    /\ r \in loading /\ t \in DOMAIN r.answers /\ r.answers[t] = NoCard
    /\ \E a \in {Untold} \union (IF t \in r.here THEN {Live(t)} ELSE {}) :
          loading' = (loading \ {r}) \union {[r EXCEPT !.answers[t] = a]}
    /\ UNCHANGED <<card, atHand, position, tip, render, board>>

\* Mutant: whichever render ends last stays on the page.
SupersededNever(r) == FALSE

Superseded(r) == r.gen # render

\* All have answered: the page is painted from the cards as they were listed.
PaintCards(r) ==
    /\ r \in loading /\ \A t \in DOMAIN r.answers : r.answers[t] # NoCard
    /\ loading' = loading \ {r}
    /\ board' = IF Superseded(r) THEN board
                ELSE [t \in Cards |-> IF t \in DOMAIN r.answers THEN Told(r.cards[t], r.answers[t]) ELSE NoCard]
    /\ UNCHANGED <<card, atHand, position, tip, render>>

-----------------------------------------------------------------------------
(* What happens meanwhile *)

\* The batch: a card for a new wallet, its mint, and the note of it.
NewTreasury(t) ==
    /\ card[t] = NoCard /\ t \notin atHand
    /\ atHand' = atHand \union {t} /\ PutTreasury(t)
    /\ UNCHANGED <<position, tip, render, loading, board>>

Mint(t) ==
    /\ t \in atHand /\ position[t] = "none" /\ tip < UnlockAt
    /\ position' = [position EXCEPT ![t] = "open"]
    /\ UNCHANGED <<card, atHand, tip, render, loading, board>>

Note(t) ==
    /\ position[t] # "none" /\ card[t] # NoCard /\ ~card[t].noted
    /\ NoteMint(t)
    /\ UNCHANGED <<atHand, position, tip, render, loading, board>>

\* At its height the position is redeemed, here or by whoever has the words.
Spent(t) ==
    /\ position[t] = "open" /\ tip >= UnlockAt
    /\ position' = [position EXCEPT ![t] = "spent"]
    /\ UNCHANGED <<card, atHand, tip, render, loading, board>>

\* The wallet is removed from this device: onWalletRemoved().
RemoveHere(t) ==
    /\ t \in atHand
    /\ atHand' = atHand \ {t} /\ MarkTransferredOut(t)
    /\ UNCHANGED <<position, tip, render, loading, board>>

Block ==
    /\ tip < MaxTip /\ tip' = tip + 1
    /\ UNCHANGED <<card, atHand, position, render, loading, board>>

CardsInit ==
    /\ card = [t \in Cards |-> NoCard] /\ atHand = {}
    /\ position = [t \in Cards |-> "none"] /\ tip = 0
    /\ render = 0 /\ loading = {} /\ board = [t \in Cards |-> NoCard]

CardsNext ==
    \/ BeginRender \/ Block
    \/ \E r \in loading : PaintCards(r) \/ \E t \in DOMAIN r.answers : Load(r, t)
    \/ \E t \in Cards : NewTreasury(t) \/ Mint(t) \/ Note(t) \/ Spent(t) \/ RemoveHere(t)

CardsSpec == CardsInit /\ [][CardsNext]_cardVars

-----------------------------------------------------------------------------
(* Properties *)

\* What the page says of a treasury never goes back, from mature to locked or from
\* redeemed to mature, however the renders overlap and whatever answer is late.  (A
\* page may stay behind, and a card may lose its status to a failed request.)
StatusForward ==
    [][\A t \in Cards : board[t] # NoCard /\ board'[t] # NoCard =>
          StatusOrder(board'[t]) >= StatusOrder(board[t])]_cardVars
=============================================================================
