------------------------------ MODULE Handover ------------------------------
(***************************************************************************)
(* What may happen to a treasury's keys and to its DigiDollar in one tab   *)
(* (treasury-ui.js): the guard before a transfer of DigiDollar and its     *)
(* record in the registry, and the handover, which saves the encrypted     *)
(* wallet and a receipt and then leads to the removal.                     *)
(*                                                                         *)
(* A click reaches what lies on top: the password prompt, the guard, the   *)
(* handover, the page.  Another tab may switch the wallet on display at    *)
(* any moment; that resets the drafts and the prompt and leaves the guard. *)
(* A lock closes all.  Key derivation, encryption and requests are awaits. *)
(***************************************************************************)
EXTENDS Integers, FiniteSets

CONSTANTS
    Sellable,    \* wallets with a treasury card
    Others,       \* wallets without one
    NoOne,       \* no wallet
    MaxTransfers, \* bound: transfer reviews
    MaxExports   \* bound: exports

ASSUME HandoverAssumption ==
    /\ Sellable \intersect Others = {} /\ NoOne \notin Sellable \union Others
    /\ MaxTransfers \in Nat /\ MaxExports \in Nat

VARIABLES
    atHome,    \* the wallets in the vault
    viewed,    \* ctx.wallet.id: the wallet on display, NoOne when locked
    ddMoved,     \* the cards with ddMovedWarning
    guard,     \* the wallet t-guard-modal names, NoOne when it is closed
    transfer,  \* the transfer review: its step and the wallet whose coins it spends
    asked,     \* reviews begun
    left,      \* the wallets whose DigiDollar was sent away
    handover,  \* handover-modal: handoverId, whether it is up, its step
    exports,   \* exports under way: what each awaits, its receipt and its key
    begun,     \* exports begun
    packages   \* saved: the treasury of the receipt and the wallet of the keystore file

handVars == <<atHome, viewed, ddMoved, guard, transfer, asked, left, handover, exports, begun, packages>>

Owned == Sellable \union Others
NoTransfer == [step |-> "none", of |-> NoOne]

\* The prompt lies over everything, then the guard.
Prompted == {e \in exports : e.awaits = "password"}
OnTop == Prompted = {} /\ guard = NoOne /\ viewed # NoOne

-----------------------------------------------------------------------------
(* FR-4: the guard *)

\* "Review": beforeDdTransfer() lets a plain wallet and one warned before pass; the
\* button stays busy until the review ends.
Review ==
    /\ OnTop /\ ~handover.up /\ transfer.step = "none" /\ asked < MaxTransfers
    /\ asked' = asked + 1
    /\ IF viewed \in Sellable \ ddMoved
       THEN transfer' = [step |-> "guard", of |-> NoOne] /\ guard' = viewed
       ELSE transfer' = [step |-> "coins", of |-> viewed] /\ guard' = guard
    /\ UNCHANGED <<atHome, viewed, ddMoved, left, handover, exports, begun, packages>>

\* Mutant: the override is logged for the treasury the warning was shown for.
AcknowledgesNamed == guard

\* The override is logged for the wallet open at the click.
Acknowledges == viewed

\* "Spend it anyway": the review goes on with the coins of the wallet open by now.
GoAnyway ==
    /\ guard # NoOne /\ Prompted = {} /\ viewed # NoOne
    /\ ddMoved' = ddMoved \union ({Acknowledges} \intersect Sellable)
    /\ guard' = NoOne
    /\ transfer' = IF transfer.step = "guard" THEN [step |-> "coins", of |-> viewed] ELSE transfer
    /\ UNCHANGED <<atHome, viewed, asked, left, handover, exports, begun, packages>>

CancelGuard ==
    /\ guard # NoOne /\ Prompted = {}
    /\ guard' = NoOne
    /\ transfer' = IF transfer.step = "guard" THEN NoTransfer ELSE transfer
    /\ UNCHANGED <<atHome, viewed, ddMoved, asked, left, handover, exports, begun, packages>>

\* The coins were read: a draft, or a refusal.
Drafts ==
    /\ transfer.step = "coins"
    /\ transfer' \in {[transfer EXCEPT !.step = "draft"], NoTransfer}
    /\ UNCHANGED <<atHome, viewed, ddMoved, guard, asked, left, handover, exports, begun, packages>>

\* Confirmed, the draft's DigiDollar leaves; or it is cancelled.
ConfirmTransfer ==
    /\ OnTop /\ ~handover.up /\ transfer.step = "draft"
    /\ left' \in {left, left \union {transfer.of}}
    /\ transfer' = NoTransfer
    /\ UNCHANGED <<atHome, viewed, ddMoved, guard, asked, handover, exports, begun, packages>>

-----------------------------------------------------------------------------
(* FR-7: the handover *)

\* "Transfer..." on a card of a wallet that is here.
OpenHandover(t) ==
    /\ OnTop /\ ~handover.up /\ t \in atHome
    /\ handover' = [id |-> t, up |-> TRUE, step |-> 1]
    /\ UNCHANGED <<atHome, viewed, ddMoved, guard, transfer, asked, left, exports, begun, packages>>

CloseHandover ==
    /\ OnTop /\ handover.up
    /\ handover' = [handover EXCEPT !.up = FALSE]
    /\ UNCHANGED <<atHome, viewed, ddMoved, guard, transfer, asked, left, exports, begun, packages>>

\* exportHandover(): the receipt's facts are read first, the words after the password,
\* if it is asked for; a wallet that is gone by then has none.
Export(byPassphrase) ==
    /\ OnTop /\ handover.up /\ handover.step = 1 /\ begun < MaxExports
    /\ \A e \in exports : e.byPassphrase # byPassphrase
    /\ byPassphrase => handover.id \in atHome
    /\ begun' = begun + 1
    /\ exports' = exports \union
          {[n |-> begun, byPassphrase |-> byPassphrase, receipt |-> handover.id,
            key |-> IF byPassphrase THEN handover.id ELSE NoOne,
            awaits |-> IF byPassphrase THEN "build" ELSE "password"]}
    /\ UNCHANGED <<atHome, viewed, ddMoved, guard, transfer, asked, left, handover, packages>>

\* requireReauth() settles: no, or the master password.
Reauth(e) ==
    /\ e.awaits = "password"
    /\ exports' \in {exports \ {e}} \union
          (IF handover.id \in atHome
           THEN {(exports \ {e}) \union {[e EXCEPT !.key = handover.id, !.awaits = "build"]}} ELSE {})
    /\ UNCHANGED <<atHome, viewed, ddMoved, guard, transfer, asked, left, handover, begun, packages>>

Packed(e) == [receipt |-> e.receipt, key |-> e.key]

\* The keystore file is built: both files are saved, and the second step is shown,
\* whichever treasury the modal is for by now.
Built(e) ==
    /\ e.awaits = "build"
    /\ packages' = packages \union {Packed(e)}
    /\ exports' = exports \ {e}
    /\ handover' = [handover EXCEPT !.step = 2]
    /\ UNCHANGED <<atHome, viewed, ddMoved, guard, transfer, asked, left, begun>>

-----------------------------------------------------------------------------
(* The wallet on display *)

\* A reset drops the draft and settles the prompt; a review that reads coins goes on.
ResetHere ==
    /\ transfer' = IF transfer.step = "draft" THEN NoTransfer ELSE transfer
    /\ exports' = exports \ Prompted

\* Another tab, or the list where nothing lies over it, makes another wallet active.
SwitchTo(w) ==
    /\ viewed # NoOne /\ w # viewed /\ w \in atHome
    /\ viewed' = w /\ ResetHere
    /\ UNCHANGED <<atHome, ddMoved, guard, asked, left, handover, begun, packages>>

\* "Remove from this device", typed name and all; the last one is kept here.
RemoveSold ==
    /\ OnTop /\ handover.up /\ handover.step = 2 /\ atHome \ {handover.id} # {}
    /\ atHome' = atHome \ {handover.id}
    /\ handover' = [handover EXCEPT !.up = FALSE]
    /\ IF viewed = handover.id THEN viewed' \in atHome' /\ ResetHere
       ELSE UNCHANGED <<viewed, transfer, exports>>
    /\ UNCHANGED <<ddMoved, guard, asked, left, begun, packages>>

\* The promise of a guard closed by the lock is never settled, and its review ends there.
LockTab ==
    /\ viewed # NoOne
    /\ viewed' = NoOne /\ guard' = NoOne
    /\ transfer' = IF transfer.step = "coins" THEN transfer ELSE NoTransfer
    /\ exports' = exports \ Prompted
    /\ handover' = [handover EXCEPT !.up = FALSE]
    /\ UNCHANGED <<atHome, ddMoved, asked, left, begun, packages>>

UnlockTab(w) ==
    /\ viewed = NoOne /\ w \in atHome /\ viewed' = w
    /\ UNCHANGED <<atHome, ddMoved, guard, transfer, asked, left, handover, exports, begun, packages>>

HandInit ==
    /\ atHome = Owned /\ viewed = NoOne /\ ddMoved = {} /\ guard = NoOne
    /\ transfer = NoTransfer /\ asked = 0 /\ left = {}
    /\ \E t \in Sellable : handover = [id |-> t, up |-> FALSE, step |-> 1]
    /\ exports = {} /\ begun = 0 /\ packages = {}

HandNext ==
    \/ Review \/ GoAnyway \/ CancelGuard \/ Drafts \/ ConfirmTransfer
    \/ CloseHandover \/ \E t \in Sellable : OpenHandover(t)
    \/ \E b \in BOOLEAN : Export(b)
    \/ \E e \in exports : Reauth(e) \/ Built(e)
    \/ RemoveSold \/ LockTab \/ \E w \in Owned : SwitchTo(w) \/ UnlockTab(w)

HandSpec == HandInit /\ [][HandNext]_handVars

-----------------------------------------------------------------------------
(* Properties *)

\* Whenever DigiDollar has left a treasury, its card says so, though the warning may
\* have been shown for another wallet and the tab switched under it.
MoveIsRecorded == left \intersect Sellable \subseteq ddMoved

\* The keystore file and the receipt of a package are of one treasury.
PackageOfOne == \A p \in packages : p.receipt = p.key
=============================================================================
