-------------------------------- MODULE Sync --------------------------------
(***************************************************************************)
(* How an open wallet learns of its money (apps/wallet/public/app.js):     *)
(* refreshMoney() polls the watched addresses, syncReceiveIndex() and      *)
(* syncExtraChainDepths() walk the key chains until a gap of unused        *)
(* addresses, and all of it goes on while the user locks and switches.     *)
(*                                                                         *)
(* A wallet has its primary chain ("main") and one imported chain          *)
(* ("extra"); an address is an index on a chain, standing for its taproot  *)
(* and its segwit form, and all that matters of it is whether it was ever  *)
(* paid.  What a poll or a walk reads is what is there when it starts: the *)
(* answer is applied later, possibly to another wallet's screen.           *)
(***************************************************************************)
EXTENDS Integers, FiniteSets, FiniteSetsExt

CONSTANTS
    Wallets,      \* the vault's wallets
    NoWallet,
    LastIndex,         \* bound: the highest index of a chain
    Gap,          \* RECEIVE_GAP
    WatchAhead,   \* watchedDerivations(): indices watched from the current one on
    Lookahead,    \* EXTRA_LOOKAHEAD
    Floor,        \* EXTRA_SOURCE_DEPTH
    MaxGen,       \* bound: openings of a wallet
    MaxPays,      \* bound: payments received while the program runs
    MaxSyncFaults \* bound: failed and incomplete reads

ASSUME SyncAssumption ==
    /\ NoWallet \notin Wallets
    /\ {LastIndex, Floor, MaxPays, MaxSyncFaults} \subseteq Nat
    /\ {Gap, WatchAhead, Lookahead, MaxGen} \subseteq Nat \ {0}

VARIABLES
    onchain,   \* wallet -> chain -> the indices ever paid
    screen,    \* the wallet that is open, with its seed
    gen,       \* walletGen
    index,     \* wallet.index
    handout,   \* wallet -> its receiveIndex in the vault
    chainUsed, \* extraChainUsed
    depths,    \* wallet -> the indices in its depth cache, Unknown when none
    walks,     \* the chain walks under way or backing off
    scanGen,   \* chain -> the generation whose walk is complete
    scanBusy,  \* chain -> the generation being walked, 0 when none
    poll,      \* the polls under way
    extraDue,  \* extraChainsDue
    aged,      \* lastExtraScanAt is EXTRA_CHAIN_MAX_AGE_MS ago
    painted,   \* what is shown: the wallet and its paid indices (extraPerAddr too)
    atOpen,    \* ghost: onchain when the wallet was opened
    pays, syncFaults

syncVars == <<onchain, screen, gen, index, handout, chainUsed, depths, walks, scanGen, scanBusy, poll,
              extraDue, aged, painted, atOpen, pays, syncFaults>>

Kinds == {"main", "extra"}
Indices == 0 .. LastIndex
Unknown == {-1}
Nothing == [wallet |-> NoWallet, main |-> {}, extra |-> {}]

SyncTypeOK ==
    /\ onchain \in [Wallets -> [Kinds -> SUBSET Indices]]
    /\ screen \in Wallets \union {NoWallet}
    /\ gen \in 0 .. MaxGen
    /\ index \in 0 .. LastIndex + 1 /\ handout \in [Wallets -> 0 .. LastIndex + 1]
    /\ chainUsed \subseteq Indices /\ depths \in [Wallets -> (SUBSET Indices) \union {Unknown}]
    /\ walks \subseteq [kind: Kinds, gen: 1 .. gen, found: SUBSET Indices, backoff: BOOLEAN]
    /\ scanGen \in [Kinds -> 0 .. gen] /\ scanBusy \in [Kinds -> 0 .. gen]
    /\ poll \subseteq [gen: 1 .. gen, wallet: Wallets, extras: BOOLEAN, main: SUBSET Indices,
                       extra: SUBSET Indices, incomplete: SUBSET Kinds]
    /\ {extraDue, aged} \subseteq BOOLEAN
    /\ painted \in [wallet: Wallets \union {NoWallet}, main: SUBSET Indices, extra: SUBSET Indices]

-----------------------------------------------------------------------------
(* Which addresses are watched *)

Deepest(S) == IF S = {} THEN -1 ELSE Max(S)

\* watchedDerivations()
Watched(ix) == 0 .. ix + WatchAhead - 1

\* extraWatchIndices(): every used index, a lookahead past the deepest, a floor.
ExtraWatched(used) ==
    used \union (Deepest(used) + 1 .. Deepest(used) + Lookahead) \union (0 .. Floor - 1)

\* Mutant: no age limit, only blocks and our own broadcasts.
ExtraWantedOnPush == extraDue

\* extraChainsWanted()
ExtraWanted == extraDue \/ aged

-----------------------------------------------------------------------------
(* Polls: refreshMoney() *)

Incomplete == IF syncFaults < MaxSyncFaults THEN {{}, {"main"}, {"extra"}} ELSE {{}}

\* A poll of wallet w; the chains in inc hold an address whose scan the indexer cut short.
Polled(w, g, ix, used, extras, inc) ==
    [gen |-> g, wallet |-> w, extras |-> extras, incomplete |-> inc,
     main |-> onchain[w]["main"] \intersect Watched(ix),
     extra |-> IF extras THEN onchain[w]["extra"] \intersect ExtraWatched(used) ELSE {}]

\* The timer, or an explicit refresh.
Poll ==
    /\ screen # NoWallet /\ \A p \in poll : p.gen # gen
    /\ \E inc \in Incomplete :
          /\ poll' = poll \union {Polled(screen, gen, index, chainUsed, ExtraWanted, inc)}
          /\ syncFaults' = syncFaults + Cardinality(inc)
    /\ UNCHANGED <<onchain, screen, gen, index, handout, chainUsed, depths, walks, scanGen, scanBusy,
                   extraDue, aged, painted, atOpen, pays>>

\* The indexer is out of reach: the error is shown, the figures stay.
PollFails(p) ==
    /\ syncFaults < MaxSyncFaults /\ syncFaults' = syncFaults + 1
    /\ poll' = poll \ {p}
    /\ UNCHANGED <<onchain, screen, gen, index, handout, chainUsed, depths, walks, scanGen, scanBusy,
                   extraDue, aged, painted, atOpen, pays>>

\* Mutant: only the seed is looked at.
OursIfOpen(p) == screen # NoWallet

\* The answer is about the wallet on screen.
Ours(p) == screen # NoWallet /\ p.gen = gen

\* recordFromBulkEntry(): an incomplete address keeps its last good record; the poll
\* fails as a whole when there is none.
Recoverable(p) == p.incomplete = {} \/ painted.wallet = screen

\* The paid indices of a chain the answer stands for: an extra chain that was not
\* read keeps its last answer too.
PaidIn(p, kind) ==
    IF kind \in p.incomplete \/ (kind = "extra" /\ ~p.extras) THEN painted[kind] ELSE p[kind]

NewWalk(kind, g, w, known) ==
    [kind |-> kind, gen |-> g, backoff |-> FALSE, found |->
        known \union {i \in onchain[w][kind] : i > Deepest(known) /\
            \A a \in Deepest(known) + 1 .. i - Gap : \E j \in a .. a + Gap - 1 : j \in onchain[w][kind]}]

\* The answer is painted.  A paid frontier address widens the watch window and has
\* the chain walked again; an unconfirmed payment keeps the extra chain due.
Paint(p) ==
    LET seen == PaidIn(p, "extra")
        moved == ~(seen \subseteq chainUsed)
        used == chainUsed \union seen
    IN /\ Ours(p) /\ Recoverable(p)
       /\ poll' = poll \ {p}
       /\ painted' = [wallet |-> p.wallet, main |-> PaidIn(p, "main"), extra |-> seen]
       /\ aged' = (aged /\ ~p.extras)
       /\ chainUsed' = used
       /\ depths' = IF moved THEN [depths EXCEPT ![screen] = used] ELSE depths
       /\ \E unconfirmed \in {FALSE, seen # {}} :
             extraDue' = ((extraDue /\ ~p.extras) \/ moved \/ unconfirmed)
       /\ scanGen' = IF moved THEN [scanGen EXCEPT !["extra"] = 0] ELSE scanGen
       /\ IF moved /\ scanBusy["extra"] # gen
          THEN /\ walks' = walks \union {NewWalk("extra", gen, screen, used)}
               /\ scanBusy' = [scanBusy EXCEPT !["extra"] = gen]
          ELSE UNCHANGED <<walks, scanBusy>>
    /\ UNCHANGED <<onchain, screen, gen, index, handout, atOpen, pays, syncFaults>>

\* The answer is about a wallet no longer on screen, or an address without a last
\* good record is incomplete: nothing is painted.
Discard(p) ==
    /\ ~(Ours(p) /\ Recoverable(p))
    /\ poll' = poll \ {p}
    /\ UNCHANGED <<onchain, screen, gen, index, handout, chainUsed, depths, walks, scanGen, scanBusy,
                   extraDue, aged, painted, atOpen, pays, syncFaults>>

-----------------------------------------------------------------------------
(* Walks: syncReceiveIndex() and syncExtraChainDepths() *)

Wanted(kind) == screen # NoWallet /\ scanGen[kind] # gen /\ scanBusy[kind] # gen

\* loadStatus() asks for both walks on every status poll.
WalkMain ==
    /\ Wanted("main")
    /\ walks' = walks \union {NewWalk("main", gen, screen, {})}
    /\ scanBusy' = [scanBusy EXCEPT !["main"] = gen]
    /\ UNCHANGED <<onchain, screen, gen, index, handout, chainUsed, depths, scanGen, poll, extraDue, aged,
                   painted, atOpen, pays, syncFaults>>

\* The cached indices are watched at once; the walk starts past the deepest one.
WalkExtra ==
    LET warm == chainUsed = {} /\ depths[screen] # Unknown
        used == IF warm THEN depths[screen] ELSE chainUsed
    IN /\ Wanted("extra")
       /\ chainUsed' = used
       /\ extraDue' = (extraDue \/ warm)
       /\ walks' = walks \union {NewWalk("extra", gen, screen, used)}
       /\ scanBusy' = [scanBusy EXCEPT !["extra"] = gen]
       /\ UNCHANGED <<onchain, screen, gen, index, handout, depths, scanGen, poll, aged, painted, atOpen,
                      pays, syncFaults>>

\* rememberReceiveIndex(): the vault never lowers the counter; a write may be lost.
Remember(w, ix) ==
    \/ handout' = [handout EXCEPT ![w] = Max({@, ix})] /\ UNCHANGED syncFaults
    \/ /\ syncFaults < MaxSyncFaults /\ syncFaults' = syncFaults + 1
       /\ UNCHANGED handout

Alive(k) == ~k.backoff /\ screen # NoWallet /\ k.gen = gen

\* The primary chain is walked: the receive index moves one past the highest used
\* one.  (scanBusy keeps naming this generation; openWallet() bumps it.)
MainWalked(k) ==
    /\ k.kind = "main" /\ Alive(k)
    /\ walks' = walks \ {k}
    /\ scanGen' = [scanGen EXCEPT !["main"] = gen]
    /\ index' = Max({index, Deepest(k.found) + 1})
    /\ IF index' # index THEN Remember(screen, index') ELSE UNCHANGED <<handout, syncFaults>>
    /\ UNCHANGED <<onchain, screen, gen, chainUsed, depths, scanBusy, poll, extraDue, aged,
                   painted, atOpen, pays>>

\* The extra chain is walked: the used indices are joined, cached, and read next.
ExtraWalked(k) ==
    /\ k.kind = "extra" /\ Alive(k)
    /\ walks' = walks \ {k}
    /\ scanGen' = [scanGen EXCEPT !["extra"] = gen]
    /\ scanBusy' = [scanBusy EXCEPT !["extra"] = 0]
    /\ chainUsed' = chainUsed \union k.found
    /\ depths' = [depths EXCEPT ![screen] = chainUsed']
    /\ extraDue' = TRUE
    /\ UNCHANGED <<onchain, screen, gen, index, handout, poll, aged, painted, atOpen, pays, syncFaults>>

\* Mutant: a failed read is an unused address.
WalkFailsUnused(k) ==
    /\ ~k.backoff
    /\ syncFaults < MaxSyncFaults /\ syncFaults' = syncFaults + 1
    /\ walks' = (walks \ {k}) \union {[k EXCEPT !.found = {}]}
    /\ UNCHANGED <<onchain, screen, gen, index, handout, chainUsed, depths, scanGen, scanBusy, poll,
                   extraDue, aged, painted, atOpen, pays>>

\* A read fails or is incomplete: nobody is walking now, whoever that was, and the
\* walk is made again after a pause.
WalkFails(k) ==
    /\ ~k.backoff
    /\ syncFaults < MaxSyncFaults /\ syncFaults' = syncFaults + 1
    /\ walks' = (walks \ {k}) \union {[k EXCEPT !.backoff = TRUE, !.found = {}]}
    /\ scanBusy' = [scanBusy EXCEPT ![k.kind] = 0]
    /\ UNCHANGED <<onchain, screen, gen, index, handout, chainUsed, depths, scanGen, poll, extraDue, aged,
                   painted, atOpen, pays>>

\* A walk of a wallet that is gone ends; so does the pause of a failed one, after
\* which the status poll, or this timer, starts another.
WalkEnds(k) ==
    /\ ~Alive(k)
    /\ walks' = walks \ {k}
    /\ UNCHANGED <<onchain, screen, gen, index, handout, chainUsed, depths, scanGen, scanBusy, poll,
                   extraDue, aged, painted, atOpen, pays, syncFaults>>

-----------------------------------------------------------------------------
(* Opening, locking, switching: resetWalletState() and openWallet() *)

\* openWallet(): unlocking, or a switch in an unlocked vault.  Both walks start,
\* and a poll.
OpenWallet(w) ==
    LET used == IF depths[w] # Unknown THEN depths[w] ELSE {}
    IN /\ gen < MaxGen /\ w # screen
       /\ gen' = gen + 1 /\ screen' = w /\ index' = handout[w]
       /\ painted' = Nothing /\ extraDue' = TRUE
       /\ chainUsed' = used
       /\ walks' = walks \union {NewWalk("main", gen', w, {}), NewWalk("extra", gen', w, used)}
       /\ scanBusy' = [k \in Kinds |-> gen']
       /\ \E inc \in Incomplete :
             /\ poll' = poll \union {Polled(w, gen', index', used, TRUE, inc)}
             /\ syncFaults' = syncFaults + Cardinality(inc)
       /\ atOpen' = onchain[w]
       /\ UNCHANGED <<onchain, handout, depths, scanGen, aged, pays>>

LockScreen ==
    /\ screen # NoWallet /\ screen' = NoWallet
    /\ painted' = Nothing /\ extraDue' = TRUE
    /\ chainUsed' = {}
    /\ UNCHANGED <<onchain, gen, index, handout, depths, walks, scanGen, scanBusy, poll, aged, atOpen, pays,
                   syncFaults>>

\* "Next address".  (Only where a payment to it may still come.)
NextAddress ==
    /\ screen # NoWallet /\ index < LastIndex /\ pays < MaxPays
    /\ index' = index + 1
    /\ Remember(screen, index')
    /\ UNCHANGED <<onchain, screen, gen, chainUsed, depths, walks, scanGen, scanBusy, poll, extraDue,
                   aged, painted, atOpen, pays>>

-----------------------------------------------------------------------------
(* The world, the specification *)

\* Chains a gap walk can follow: never Gap unused indices below a used one.
Reachable(S) == \A i \in S : \E j \in (S \union {-1}) : j < i /\ i - j <= Gap

\* A payment to the open wallet: to an address handed out, or to one of the imported
\* chain's next ones.  Payers leave no gap that a restored wallet could not cross.
Pay(kind, i) ==
    /\ screen # NoWallet /\ pays < MaxPays
    /\ i \notin onchain[screen][kind]
    /\ i \in (IF kind = "main" THEN Watched(index) ELSE ExtraWatched(onchain[screen][kind]))
    /\ Reachable(onchain[screen][kind] \union {i})
    /\ onchain' = [onchain EXCEPT ![screen][kind] = @ \union {i}]
    /\ pays' = pays + 1
    /\ UNCHANGED <<screen, gen, index, handout, chainUsed, depths, walks, scanGen, scanBusy, poll, extraDue,
                   aged, painted, atOpen, syncFaults>>

\* A block is pushed, or a transaction of ours was broadcast: markExtraChainsDue().
\* (Only where there is something new to learn.)
MarkDue ==
    /\ pays > 0 /\ ~extraDue /\ extraDue' = TRUE
    /\ UNCHANGED <<onchain, screen, gen, index, handout, chainUsed, depths, walks, scanGen, scanBusy, poll,
                   aged, painted, atOpen, pays, syncFaults>>

\* (Only where it is what makes the chain wanted.)
Age ==
    /\ screen # NoWallet /\ ~aged /\ ~extraDue /\ aged' = TRUE
    /\ UNCHANGED <<onchain, screen, gen, index, handout, chainUsed, depths, walks, scanGen, scanBusy, poll,
                   extraDue, painted, atOpen, pays, syncFaults>>

SyncInit ==
    /\ onchain \in [Wallets -> [Kinds -> {S \in SUBSET Indices : Reachable(S)}]]
    /\ screen = NoWallet /\ gen = 0 /\ index = 0 /\ handout = [w \in Wallets |-> 0]
    /\ chainUsed = {} /\ depths = [w \in Wallets |-> Unknown]
    /\ walks = {} /\ poll = {}
    /\ scanGen = [k \in Kinds |-> 0] /\ scanBusy = [k \in Kinds |-> 0]
    /\ extraDue = TRUE /\ aged = TRUE /\ painted = Nothing
    /\ atOpen = [k \in Kinds |-> {}]
    /\ pays = 0 /\ syncFaults = 0

SyncNext ==
    \/ Poll \/ WalkMain \/ WalkExtra
    \/ \E p \in poll : PollFails(p) \/ Paint(p) \/ Discard(p)
    \/ \E k \in walks : MainWalked(k) \/ ExtraWalked(k) \/ WalkFails(k) \/ WalkEnds(k)
    \/ \E w \in Wallets : OpenWallet(w)
    \/ LockScreen \/ NextAddress
    \/ \E kind \in Kinds, i \in Indices : Pay(kind, i)
    \/ MarkDue \/ Age

\* The poll timer and the status timer fire, two minutes pass, what was asked is
\* answered (faults are bounded) and its continuation runs.
SyncFairness ==
    /\ WF_syncVars(Poll) /\ WF_syncVars(WalkMain) /\ WF_syncVars(WalkExtra)
    /\ WF_syncVars(\E p \in poll : Paint(p) \/ Discard(p))
    /\ WF_syncVars(\E k \in walks : MainWalked(k) \/ ExtraWalked(k) \/ WalkEnds(k))
    /\ WF_syncVars(Age)

SyncSpec == SyncInit /\ [][SyncNext]_syncVars /\ SyncFairness

-----------------------------------------------------------------------------
(* Properties *)

\* What is on screen, in the watch window and in a depth cache is of the wallet it
\* stands for, whatever answers outlive a lock or a switch.
PaintedOwn ==
    /\ painted.wallet \in {NoWallet, screen}
    /\ painted.wallet # NoWallet =>
          painted.main \subseteq onchain[screen]["main"] /\ painted.extra \subseteq onchain[screen]["extra"]
    /\ screen # NoWallet => chainUsed \subseteq onchain[screen]["extra"]
    /\ \A w \in Wallets : depths[w] = Unknown \/ depths[w] \subseteq onchain[w]["extra"]

\* A walk that counts as complete found every address that was used when its wallet
\* was opened (those of the floor are watched anyway): no failure, lock or switch
\* cuts one short unnoticed.
DiscoveryComplete ==
    screen # NoWallet =>
        /\ scanGen["main"] = gen => \A i \in atOpen["main"] : i < index
        /\ scanGen["extra"] = gen => atOpen["extra"] \subseteq chainUsed \union (0 .. Floor - 1)

\* Again and again an open wallet shows every payment ever made to it, though a
\* read in flight may swallow the push that announced one.
MoneySeen ==
    []<>(screen # NoWallet =>
            painted = [wallet |-> screen, main |-> onchain[screen]["main"],
                       extra |-> onchain[screen]["extra"]])
=============================================================================
