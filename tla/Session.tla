------------------------------ MODULE Session -------------------------------
(***************************************************************************)
(* One tab's session over the vault (apps/wallet/public/app.js and the     *)
(* backup, open and export buttons of treasury-ui.js): the wallet on       *)
(* display, the backup ceremony with its quiz, the revealed seed, the      *)
(* password prompt, the automatic lock, and what becomes of all of them    *)
(* when the wallet is switched, locked, removed or changed in another tab. *)
(*                                                                         *)
(* A wallet stands for its id and its words.  A write of the vault is two  *)
(* steps, its encryption lying between them (module Vault has the races    *)
(* inside it; unlocking and following another tab are one step here).      *)
(* The delay of the automatic lock is not "Never".                         *)
(***************************************************************************)
EXTENDS Integers, FiniteSets

CONSTANTS
    Seeds,     \* the wallets there can be
    Nobody,    \* no wallet
    NoRecord,  \* no vault
    CanSkip,   \* backupSkipAllowed(): not on mainnet
    MaxSaves,  \* bound: writes of the vault, in this tab or another
    MaxFlows   \* bound: flows under way

ASSUME SessionAssumption ==
    /\ Nobody \notin Seeds /\ CanSkip \in BOOLEAN
    /\ NoRecord \notin [ids : SUBSET Seeds, active : Seeds, done : SUBSET Seeds, rev : Nat]
    /\ MaxSaves \in Nat /\ MaxFlows \in Nat

VARIABLES
    stored,   \* the vault record: its wallets, the active one, those marked backed up, its revision
    mine,     \* this tab's copy of it
    unlocked, \* it holds the session key
    flows,    \* what awaits: its kind, its wallet, what it awaits, the revision its write rests on,
              \* and the wallet on display when it began
    ui,       \* what is on the page
    earned    \* the wallets whose words the user typed in or was quizzed on

sessionVars == <<stored, mine, unlocked, flows, ui, earned>>

NoCeremony == [id |-> Nobody, words |-> Nobody]

\* Nothing on the page but the form of the connect modal, which is `mode`.
Blank(mode) ==
    [open |-> Nobody,          \* wallet.id, with its mnemonic
     mode |-> mode,            \* connectMode: choice, unlock, backup, quiz or done
     ceremony |-> NoCeremony,
     grid |-> Nobody,          \* whose words the ceremony's grid shows, none if decoys
     seedUp |-> FALSE,         \* the seed section is unfolded
     seedOf |-> Nobody,        \* whose words it shows, none if decoys
     hides |-> FALSE,          \* seedHideTimer
     locks |-> FALSE]          \* autolockTimer

Status == IF unlocked THEN "unlocked" ELSE IF mine = NoRecord THEN "none" ELSE "locked"
Rest(unl) == IF unl \/ mine = NoRecord THEN "choice" ELSE "unlock"

Ids(record) == IF record = NoRecord THEN {} ELSE record.ids
Asked == {f \in flows : f.awaits = "password"}

-----------------------------------------------------------------------------
(* What the page does at once *)

\* hideSeed(): it takes the timer with it.
HideSeed(u) == [u EXCEPT !.seedUp = FALSE, !.seedOf = Nobody, !.hides = FALSE]

\* setConnectMode(): the ceremony's words are on the page in its own step only.
SetMode(u, mode) ==
    [u EXCEPT !.mode = mode, !.grid = IF mode = "backup" THEN u.grid ELSE Nobody]

\* closeConnectModal() without a user who asks.
CloseConnect(u, rest) == SetMode([u EXCEPT !.ceremony = NoCeremony], rest)

\* resetWalletState(): the drafts are module Spend's; the prompt is settled with
\* "no" (Dropped); both timers go.
Teardown(u, rest) ==
    [CloseConnect(HideSeed(u), rest) EXCEPT !.locks = FALSE]

\* Mutant: the teardown forgets the prompt.
DroppedNone == flows

Dropped == flows \ Asked

\* openWallet(), after a reset.
Opened(u, w) == [u EXCEPT !.open = w, !.locks = TRUE]

\* switchToWallet(): getMnemonic() refuses a locked vault and a wallet it lacks.
Switched(u, w, record, unl) ==
    LET reset == Teardown(u, IF unl THEN "choice" ELSE Rest(FALSE))
    IN IF unl /\ w \in Ids(record) THEN Opened(reset, w) ELSE reset

\* beginBackupCeremony(): decoys first.
Ceremony(u, w) == [u EXCEPT !.ceremony = [id |-> w, words |-> w], !.grid = Nobody, !.mode = "backup"]

\* lockWallet() and its like.
Torn(u, mode) == [Teardown(u, mode) EXCEPT !.open = Nobody]

\* reconcileVaultUi(), once this tab holds `record`.
Reconciled(record, unl) ==
    IF unl
    THEN IF ui.open # Nobody /\ record.active # ui.open
         THEN [page |-> Switched(ui, record.active, record, TRUE), left |-> Dropped]
         ELSE [page |-> ui, left |-> flows]
    ELSE [page |-> IF ui.open # Nobody THEN Torn(ui, IF record = NoRecord THEN "choice" ELSE "unlock")
                   ELSE SetMode(ui, IF record = NoRecord THEN "choice" ELSE "unlock"),
          left |-> IF ui.open # Nobody THEN Dropped ELSE flows]

-----------------------------------------------------------------------------
(* Flows *)

\* `base` matters to a write, `at` to a prompt.
Flow(kind, w, awaits) ==
    [kind |-> kind, id |-> w, awaits |-> awaits,
     base |-> IF awaits = "save" /\ mine # NoRecord THEN mine.rev ELSE 0,
     at |-> IF awaits = "password" THEN ui.open ELSE Nobody]

\* A click reaches the page: no prompt lies over it, and the same button is not busy.
\* The ceremony, too, lies over everything but the prompt.
Clicked(kind) ==
    /\ Asked = {} /\ Cardinality(flows) < MaxFlows
    /\ \A f \in flows : f.kind # kind

Uncovered == ui.mode \notin {"backup", "quiz", "done"}

Save(kind, w) == flows' = flows \union {Flow(kind, w, "save")}
Ask(kind, w) == flows' = flows \union {Flow(kind, w, "password")} /\ UNCHANGED ui

\* Create (fresh words), restore or import: createWalletEntry() adds to the vault, or
\* creates it.  A known seed is not added again.
Enter(kind, w) ==
    /\ Clicked(kind) /\ Uncovered /\ Status # "locked"
    /\ kind = "create" => w \notin Ids(stored) \union Ids(mine) \union {f.id : f \in flows}
    /\ earned' = IF kind = "restore" THEN earned \union {w} ELSE earned
    /\ IF Status = "unlocked" /\ w \in Ids(mine)
       THEN flows' = flows \union {Flow("pick", w, "save")}
       ELSE Save(kind, w)
    /\ UNCHANGED <<stored, mine, unlocked, ui>>

\* The wallet list: another wallet is made the active one.
Pick(w) ==
    /\ Clicked("pick") /\ Uncovered /\ unlocked /\ w \in Ids(mine) /\ w # ui.open
    /\ Save("pick", w)
    /\ UNCHANGED <<stored, mine, unlocked, ui, earned>>

RemoveWallet(w) ==
    /\ Clicked("remove") /\ Uncovered /\ unlocked /\ ui.open # Nobody /\ w \in Ids(mine)
    /\ Save("remove", w)
    /\ UNCHANGED <<stored, mine, unlocked, ui, earned>>

\* The record a flow's write leaves; its wallets were read before the encryption, from
\* the record its base names, which is the one stored if the write succeeds.
Bumped(r) == [r EXCEPT !.rev = @ + 1]
Written(f) ==
    CASE f.kind \in {"create", "restore", "import"} /\ stored = NoRecord ->
            [ids |-> {f.id}, active |-> f.id, done |-> IF f.kind = "restore" THEN {f.id} ELSE {}, rev |-> 1]
      [] f.kind \in {"create", "restore", "import"} /\ stored # NoRecord ->
            Bumped([stored EXCEPT !.ids = @ \union {f.id},
                                  !.done = IF f.kind = "restore" THEN @ \union {f.id} ELSE @])
      [] f.kind \in {"pick", "opening"} -> Bumped([stored EXCEPT !.active = f.id])
      [] f.kind = "quiz" -> Bumped([stored EXCEPT !.done = @ \union {f.id}])
      [] f.kind = "remove" ->
            LET rest == stored.ids \ {f.id}
            IN IF rest = {} THEN NoRecord
               ELSE Bumped([stored EXCEPT !.ids = rest, !.done = @ \ {f.id},
                                          !.active = IF @ = f.id THEN CHOOSE w \in rest : TRUE ELSE @])

Current(f) == (IF stored = NoRecord THEN 0 ELSE stored.rev) = f.base

\* The write lost: the tab takes over what is stored, which may lock it, and says so.
Conflict(f) ==
    /\ f.awaits = "save" /\ ~Current(f)
    /\ mine' = stored
    /\ unlocked' = (unlocked /\ stored # NoRecord)
    /\ LET r == Reconciled(stored, unlocked') IN ui' = r.page /\ flows' = r.left \ {f}
    /\ UNCHANGED <<stored, earned>>

\* A wallet was added: it becomes the active one, unless the tab was locked meanwhile.
Added(f, record) ==
    /\ ui' = ui
    /\ flows' = (flows \ {f}) \union
          (IF ~unlocked THEN {}
           ELSE {[f EXCEPT !.kind = IF f.kind = "create" THEN "opening" ELSE "pick", !.base = record.rev]})

\* The vault was created: it opens.
Founded(f) ==
    LET page == Switched(ui, f.id, Written(f), TRUE)
    IN /\ ui' = IF f.kind = "create" THEN Ceremony(page, f.id) ELSE page
       /\ flows' = Dropped \ {f}

\* The wallet was made active: it is shown, a new one with its ceremony.  A tab that
\* was locked resets and stops there.
Activated(f, record) ==
    LET page == Switched(ui, f.id, record, unlocked)
    IN /\ ui' = IF f.kind = "opening" /\ unlocked THEN Ceremony(page, f.id) ELSE page
       /\ flows' = Dropped \ {f}

\* A wallet is gone, the last one with the vault.
Dismantled(f, record) ==
    /\ flows' = IF record = NoRecord \/ f.id = ui.open THEN Dropped \ {f} ELSE flows \ {f}
    /\ ui' = CASE record = NoRecord -> Torn(ui, "choice")
               [] record # NoRecord /\ f.id = ui.open -> Switched(ui, record.active, record, unlocked)
               [] OTHER -> ui

\* A write succeeds and its flow goes on.  (A vault is not founded while writes for
\* an erased one are under way: revisions start again at 1, see module Vault.)
Saved(f) ==
    /\ f.awaits = "save" /\ Current(f)
    /\ stored # NoRecord => stored.rev < MaxSaves
    /\ stored = NoRecord => \A g \in flows \ {f} : g.awaits # "save"
    /\ stored' = Written(f) /\ mine' = Written(f)
    /\ unlocked' = CASE stored = NoRecord -> TRUE [] Written(f) = NoRecord -> FALSE [] OTHER -> unlocked
    /\ CASE stored = NoRecord -> Founded(f)
         [] stored # NoRecord /\ f.kind \in {"create", "restore", "import"} -> Added(f, Written(f))
         [] f.kind \in {"pick", "opening"} -> Activated(f, Written(f))
         [] f.kind = "remove" -> Dismantled(f, Written(f))
         [] f.kind = "quiz" -> ui' = SetMode(ui, "done") /\ flows' = flows \ {f}
    /\ UNCHANGED earned

-----------------------------------------------------------------------------
(* The password prompt: requireReauth(), settleReauth() *)

\* "Continue": what is typed is tried against the stored record.  (A wrong password
\* says so and the prompt stays.)
Verify ==
    /\ Asked # {}
    /\ \A f \in flows : f.kind # "verify"
    /\ flows' = flows \union {Flow("verify", Nobody, "key")}
    /\ UNCHANGED <<stored, mine, unlocked, ui, earned>>

Declined ==
    /\ Asked # {}
    /\ flows' = Dropped
    /\ UNCHANGED <<stored, mine, unlocked, ui, earned>>

\* A flow goes on: a reveal unfolds decoys, a backup begins its ceremony.
Resumed(f) ==
    ui' = CASE f.kind = "reveal" /\ ui.open # Nobody -> [ui EXCEPT !.seedUp = TRUE, !.seedOf = Nobody]
            [] f.kind = "backup" /\ ui.open # Nobody -> Ceremony(ui, ui.open)
            [] f.kind = "treasury" /\ f.id \in Ids(mine) /\ unlocked -> Ceremony(ui, f.id)
            [] OTHER -> ui

\* The trial ends, and settles whatever prompt is open by now.  Where the vault is gone
\* no password is right.
Verified(f) ==
    /\ f.kind = "verify"
    /\ IF mine # NoRecord
       THEN /\ flows' = Dropped \ {f}
            /\ IF Asked = {} THEN UNCHANGED ui ELSE \E g \in Asked : Resumed(g)
       ELSE flows' = flows \ {f} /\ UNCHANGED ui
    /\ UNCHANGED <<stored, mine, unlocked, earned>>

-----------------------------------------------------------------------------
(* The seed, the ceremony and the quiz *)

Shown == ui.open # Nobody /\ Clicked("ask") /\ Uncovered

\* "Show seed phrase", "back up" (badge, strip, receive form, menu), the dashboard's
\* "back up" of any treasury.
Reveal == Shown /\ ~ui.seedUp /\ Ask("reveal", ui.open)
Backup == Shown /\ Ask("backup", ui.open)
TreasuryBackup(w) == Shown /\ w \in Ids(mine) /\ Ask("treasury", w)

Asks ==
    /\ \/ Reveal \/ Backup
       \/ \E w \in Seeds : TreasuryBackup(w)
    /\ UNCHANGED <<stored, mine, unlocked, earned>>

\* The taps that show words arm the timer that hides them; hiding, leaving and the
\* quiz wipe them.
ShowSeed == ui.seedUp /\ Uncovered /\ ui' = [ui EXCEPT !.seedOf = ui.open, !.hides = TRUE]
FoldSeed == ui.seedUp /\ Uncovered /\ ui' = HideSeed(ui)
ShowWords == ui.mode = "backup" /\ ui' = [ui EXCEPT !.grid = ui.ceremony.words, !.hides = TRUE]
Continue == ui.mode = "backup" /\ ui' = SetMode(ui, "quiz")

\* wipeRevealedSeeds(), by the timer or because the page is hidden.
Wipe ==
    /\ ui.hides \/ ui.seedUp \/ ui.mode = "backup"
    /\ ui' = LET u == [ui EXCEPT !.hides = FALSE]
                 v == IF ui.seedUp THEN HideSeed(u) ELSE u
             IN IF ui.mode = "backup" THEN [v EXCEPT !.grid = Nobody] ELSE v

\* The user closes the modal; on mainnet neither ceremony step lets go.
Dismiss ==
    /\ ui.mode \in {"backup", "quiz", "done"}
    /\ ui.mode \in {"backup", "quiz"} => CanSkip
    /\ ui' = CloseConnect(ui, Rest(unlocked))

\* Mutant: the wallet on display is marked.
QuizTargetOpen == ui.open

\* The quiz: the three chosen words are compared with the ceremony's, then the
\* ceremony's wallet is marked.
QuizTarget == ui.ceremony.id

QuizPassed ==
    /\ ui.mode = "quiz" /\ Clicked("quiz") /\ unlocked
    /\ QuizTarget \in Ids(mine)
    /\ Save("quiz", QuizTarget)
    /\ earned' = earned \union {ui.ceremony.words}
    /\ UNCHANGED <<stored, mine, unlocked, ui>>

Taps ==
    /\ \/ Asked = {} /\ (ShowSeed \/ FoldSeed \/ ShowWords \/ Continue \/ Dismiss)
       \/ Wipe
    /\ UNCHANGED <<stored, mine, unlocked, flows, earned>>

-----------------------------------------------------------------------------
(* Locking and unlocking, the treasury dashboard, other tabs *)

\* lockWallet(): the button, or the timer.
Lock ==
    /\ unlocked /\ ui.open # Nobody
    /\ unlocked' = FALSE /\ ui' = Torn(ui, "unlock") /\ flows' = Dropped
    /\ UNCHANGED <<stored, mine, earned>>

\* Unlock with the right password: the active wallet opens.
Unlock ==
    /\ Status = "locked" /\ stored # NoRecord
    /\ mine' = stored /\ unlocked' = TRUE
    /\ ui' = SetMode(Opened(ui, stored.active), "choice")
    /\ UNCHANGED <<stored, flows, earned>>

\* The dashboard opens a treasury without making it the active wallet.
OpenTreasury(w) ==
    /\ Shown /\ w \in Ids(mine)
    /\ ui' = Switched(ui, w, mine, unlocked) /\ flows' = Dropped
    /\ UNCHANGED <<stored, mine, unlocked, earned>>

\* Another tab adds, removes, marks after a quiz of its own, or makes active; or it
\* erases the vault.
Elsewhere ==
    /\ stored # NoRecord
    /\ \/ \E w \in Seeds, what \in {"import", "pick", "quiz", "remove"} :
             /\ stored.rev < MaxSaves
             /\ what \in {"pick", "quiz", "remove"} => w \in Ids(stored)
             /\ stored' = Written([kind |-> what, id |-> w])
             /\ earned' = IF what = "quiz" THEN earned \union {w} ELSE earned
       \/ stored' = NoRecord /\ UNCHANGED earned
    /\ UNCHANGED <<mine, unlocked, flows, ui>>

\* Its message arrives: the tab takes over the record, locks if it cannot be opened,
\* and the page follows.
Follow ==
    /\ mine # stored
    /\ mine' = stored /\ unlocked' = (unlocked /\ stored # NoRecord)
    /\ LET r == Reconciled(stored, unlocked') IN ui' = r.page /\ flows' = r.left
    /\ UNCHANGED <<stored, earned>>

-----------------------------------------------------------------------------
(* A vault of one or two wallets, locked. *)
SessionInit ==
    /\ \E w \in Seeds : stored = [ids |-> {w}, active |-> w, done |-> {}, rev |-> 1]
    /\ mine = stored /\ unlocked = FALSE
    /\ flows = {} /\ ui = Blank("unlock")
    /\ earned = {}

SessionNext ==
    \/ \E w \in Seeds, kind \in {"create", "restore", "import"} : Enter(kind, w)
    \/ \E w \in Seeds : Pick(w) \/ RemoveWallet(w) \/ OpenTreasury(w)
    \/ \E f \in flows : Conflict(f) \/ Saved(f) \/ Verified(f)
    \/ Verify \/ Declined \/ Asks \/ Taps \/ QuizPassed
    \/ Lock \/ Unlock \/ Elsewhere \/ Follow

SessionSpec == SessionInit /\ [][SessionNext]_sessionVars

-----------------------------------------------------------------------------
(* Properties *)

\* Words are legible only while the vault is unlocked and a timer is set to hide them,
\* those of the wallet on display or of the ceremony under way; a prompt never outlives
\* the wallet it was opened over; and a wallet on display will be locked by itself.
SeedsGuarded ==
    /\ ui.seedOf # Nobody => ui.seedOf = ui.open /\ ui.hides
    /\ ui.grid # Nobody => ui.grid = ui.ceremony.id /\ ui.mode = "backup" /\ ui.hides
    /\ ui.ceremony # NoCeremony \/ ui.open # Nobody => unlocked
    /\ ui.open # Nobody => ui.locks
    /\ \A f \in Asked : f.at = ui.open

\* A wallet is marked backed up only if its own words were typed in or passed a quiz.
BackedUpEarned == stored # NoRecord => stored.done \subseteq earned
=============================================================================
