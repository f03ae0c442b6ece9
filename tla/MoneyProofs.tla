----------------------------- MODULE MoneyProofs -----------------------------
(***************************************************************************)
(* What holds of the money of a wallet, its synchronisation (Sync) and its *)
(* redemptions (Redeem), for any wallets, payments, openings, gap,         *)
(* lookahead and floor, any coins, positions, needs and number of reviews. *)
(*                                                                         *)
(* What is shown is the own (OwnInv): what a poll or a walk has found was  *)
(* paid to the wallet it was started for, and one whose generation is the  *)
(* current one was started for the wallet on screen.                       *)
(*                                                                         *)
(* A walk that counts as complete found everything (DiscoveryInv). It goes *)
(* on from what is known, which has no hole that payments to hand-out      *)
(* addresses could fall into later (KnownInv, HoleFree), and a walk over a *)
(* chain without a gap wider than the one it stops at goes past every      *)
(* payment (WalkFindsAll). Both need the least and the greatest member of  *)
(* a finite set of indices, which come first.                              *)
(*                                                                         *)
(* A review fixes its position and its legs (Consistent: P is the position *)
(* of every review so far). A burn remembers its review and keeps what it  *)
(* was picked for (BurnOK): its coins lie on that position's address as    *)
(* long as nobody moves them, which makes other coins of them; and where   *)
(* that review had coins to gather they are confirmed, or too few to sign  *)
(* with. What is signed was signed with such a burn, and coins only go on  *)
(* (CoinsGoOn), so it stays true of it (RedemptionOK).                     *)
(***************************************************************************)
EXTENDS Sync, Redeem, FiniteSetTheorems, TLAPS

-----------------------------------------------------------------------------
(* Least and greatest members, the deepest index *)

\* A nonempty finite set of naturals has a least member: of the initial segments of
\* the set there is one that no other is inside of.
LEMMA LeastMember ==
    ASSUME NEW n \in Nat, NEW S, S \subseteq 0 .. n, S # {}
    PROVE  \E m \in S : \A k \in S : m <= k
<1> DEFINE Upto(i) == S \intersect (0 .. i)
           T == {Upto(i) : i \in S}
<1>1. IsFiniteSet(S)
  <2>1. IsFiniteSet(0 .. n)
    BY FS_Interval
  <2> QED BY <2>1, FS_Subset
<1>2. FiniteSubsetsOf(S) = SUBSET S
  BY <1>1, FS_FiniteSubsetsOfFinite
<1>3. IsWellFoundedOn(StrictSubsetOrdering(S), FiniteSubsetsOf(S))
  BY FS_StrictSubsetOrderingWellFounded
<1>4. T \subseteq FiniteSubsetsOf(S) /\ T # {}
  <2>1. \A i \in S : Upto(i) \in SUBSET S
    OBVIOUS
  <2>2. T \subseteq SUBSET S
    BY <2>1
  <2>3. PICK i \in S : TRUE
    OBVIOUS
  <2>4. Upto(i) \in T
    BY <2>3
  <2> HIDE DEF T
  <2> QED BY <2>2, <2>4, <1>2
<1>5. PICK X \in T : \A Y \in T : ~(<<Y, X>> \in StrictSubsetOrdering(S))
  BY <1>3, <1>4, WFMin
<1>6. PICK m \in S : X = Upto(m)
  BY <1>5
<1>7. ASSUME NEW k \in S PROVE m <= k
  <2>1. SUFFICES ASSUME k < m PROVE FALSE
    BY <1>6, <1>7
  <2>2. Upto(k) \subseteq Upto(m) /\ m \in Upto(m) /\ m \notin Upto(k)
    BY <2>1, <1>6, <1>7
  <2>3. <<Upto(k), X>> \in StrictSubsetOrdering(S)
    BY <2>2, <1>6 DEF StrictSubsetOrdering
  <2> QED BY <2>3, <1>5, <1>7
<1> QED BY <1>7, <1>6

LEMMA GreatestMember ==
    ASSUME NEW n \in Nat, NEW S, S \subseteq 0 .. n, S # {}
    PROVE  \E m \in S : \A k \in S : k <= m
<1> DEFINE T == {n - i : i \in S}
<1>1. T \subseteq 0 .. n /\ T # {}
  <2>1. \A i \in S : n - i \in 0 .. n
    OBVIOUS
  <2>2. PICK i \in S : TRUE
    OBVIOUS
  <2>3. n - i \in T
    BY <2>2
  <2>4. T \subseteq 0 .. n
    BY <2>1
  <2> HIDE DEF T
  <2> QED BY <2>3, <2>4
<1>2. PICK t \in T : \A k \in T : t <= k
  BY <1>1, LeastMember
<1>3. PICK m \in S : t = n - m
  BY <1>2
<1>4. \A k \in S : k <= m
  BY <1>2, <1>3
<1> QED BY <1>3, <1>4

\* The deepest of a set of indices is its greatest member, -1 of none.
LEMMA DeepestIs ==
    ASSUME NEW S, S \subseteq Indices, LastIndex \in Nat
    PROVE  /\ Deepest(S) \in -1 .. LastIndex
           /\ \A i \in S : i <= Deepest(S)
           /\ S # {} => Deepest(S) \in S
           /\ S = {} => Deepest(S) = -1
<1>1. CASE S = {}
  BY <1>1 DEF Deepest
<1>2. CASE S # {}
  <2>1. PICK m \in S : \A k \in S : k <= m
    BY <1>2, GreatestMember DEF Indices
  <2>2. \E x \in S : \A y \in S : x >= y
    BY <2>1 DEF Indices
  <2>3. Max(S) \in S /\ \A y \in S : Max(S) >= y
    BY <2>2 DEF Max
  <2>4. Deepest(S) = Max(S)
    BY <1>2 DEF Deepest
  <2>5. Deepest(S) \in 0 .. LastIndex
    BY <2>3, <2>4 DEF Indices
  <2>6. \A i \in S : i <= Max(S)
    BY <2>3, <2>4, <2>5 DEF Indices
  <2> QED BY <2>3, <2>4, <2>5, <2>6, <1>2
<1> QED BY <1>1, <1>2

LEMMA MaxOfTwo ==
    ASSUME NEW a \in Int, NEW b \in Int
    PROVE  /\ Max({a, b}) \in {a, b}
           /\ Max({a, b}) >= a /\ Max({a, b}) >= b
<1>1. \E x \in {a, b} : \A y \in {a, b} : x >= y
  <2>1. CASE a >= b
    BY <2>1
  <2>2. CASE ~(a >= b)
    BY <2>2
  <2> QED BY <2>1, <2>2
<1>2. Max({a, b}) \in {a, b} /\ \A y \in {a, b} : Max({a, b}) >= y
  BY <1>1 DEF Max
<1> QED BY <1>2

\* A gap walk from anywhere meets every used index of a chain it can follow.
LEMMA NoGapBefore ==
    ASSUME SyncAssumption, NEW S, S \subseteq Indices, Reachable(S), NEW D \in -1 .. LastIndex,
           NEW i \in S, NEW a \in D + 1 .. i - Gap
    PROVE  \E j \in a .. a + Gap - 1 : j \in S
<1> DEFINE R == {k \in S : k >= a}
<1>1. LastIndex \in Nat /\ Gap \in Nat \ {0} /\ a \in Nat
  BY DEF SyncAssumption
<1>2. i \in R /\ R \subseteq 0 .. LastIndex
  <2>1. S \subseteq 0 .. LastIndex /\ i \in Nat
    BY <1>1 DEF Indices
  <2>2. i >= a
    BY <2>1, <1>1
  <2> QED BY <2>1, <2>2
<1>3. R # {}
  BY <1>2
<1>4. PICK m \in R : \A k \in R : m <= k
  <2> HIDE DEF R
  <2> QED BY <1>1, <1>2, <1>3, LeastMember
<1>5. m \in S /\ m >= a /\ m \in Nat
  BY <1>2, <1>4
<1>6. PICK j \in S \union {-1} : j < m /\ m - j <= Gap
  BY <1>5 DEF Reachable
<1>7. j < a
  <2>1. CASE j = -1
    BY <2>1, <1>1
  <2>2. CASE j \in S
    <3>1. j \in Nat
      BY <2>2 DEF Indices
    <3>2. CASE j >= a
      <4>1. m <= j
        BY <3>2, <2>2, <1>4
      <4> QED BY <4>1, <1>6, <1>5, <3>1
    <3> QED BY <3>1, <3>2, <1>1
  <2> QED BY <2>1, <2>2
<1>8. j \in Int
  BY DEF Indices
<1>9. m \in a .. a + Gap - 1
  BY <1>1, <1>5, <1>6, <1>7, <1>8
<1> QED BY <1>9, <1>5

-----------------------------------------------------------------------------
(* Types *)

LEMMA SyncTypeInit == ASSUME SyncAssumption, SyncInit PROVE SyncTypeOK
<1>1. LastIndex \in Nat /\ MaxGen \in Nat
  BY DEF SyncAssumption
<1>2. onchain \in [Wallets -> [Kinds -> SUBSET Indices]]
  BY DEF SyncInit
<1>3. screen \in Wallets \union {NoWallet} /\ gen \in 0 .. MaxGen /\ index \in 0 .. LastIndex + 1
  <2>1. screen = NoWallet /\ gen = 0 /\ index = 0
    BY DEF SyncInit
  <2> QED BY <2>1, <1>1
<1>4. /\ handout \in [Wallets -> 0 .. LastIndex + 1]
      /\ depths \in [Wallets -> (SUBSET Indices) \union {Unknown}]
      /\ chainUsed \subseteq Indices
  BY <1>1 DEF SyncInit
<1>5. scanGen \in [Kinds -> 0 .. gen] /\ scanBusy \in [Kinds -> 0 .. gen]
  BY DEF SyncInit
<1>6. painted \in [wallet: Wallets \union {NoWallet}, main: SUBSET Indices, extra: SUBSET Indices]
  BY DEF SyncInit, Nothing
<1>7. walks = {} /\ poll = {} /\ {extraDue, aged} \subseteq BOOLEAN
  BY DEF SyncInit
<1> QED BY <1>2, <1>3, <1>4, <1>5, <1>6, <1>7 DEF SyncTypeOK

\* What a walk is made of, and what a poll reads.
LEMMA NewWalkType ==
    ASSUME SyncTypeOK, NEW kind \in Kinds, NEW g \in Nat, NEW w \in Wallets, NEW known \in SUBSET Indices
    PROVE  /\ NewWalk(kind, g, w, known) \in [kind: Kinds, gen: {g}, found: SUBSET Indices, backoff: {FALSE}]
           /\ NewWalk(kind, g, w, known).kind = kind
           /\ NewWalk(kind, g, w, known).gen = g
           /\ NewWalk(kind, g, w, known).backoff = FALSE
           /\ NewWalk(kind, g, w, known).found \subseteq known \union onchain[w][kind]
<1>1. onchain[w][kind] \subseteq Indices
  BY DEF SyncTypeOK
<1> QED BY <1>1 DEF NewWalk

LEMMA PolledType ==
    ASSUME SyncTypeOK, NEW w \in Wallets, NEW g, NEW ix, NEW used, NEW extras \in BOOLEAN,
           NEW inc \in Incomplete
    PROVE  Polled(w, g, ix, used, extras, inc) \in
              [gen: {g}, wallet: {w}, extras: BOOLEAN, main: SUBSET Indices,
               extra: SUBSET Indices, incomplete: SUBSET Kinds]
<1>1. onchain[w]["main"] \subseteq Indices /\ onchain[w]["extra"] \subseteq Indices
  BY DEF SyncTypeOK, Kinds
<1>2. inc \subseteq Kinds
  BY DEF Incomplete, Kinds
<1> QED BY <1>1, <1>2 DEF Polled

LEMMA PaidInType ==
    ASSUME SyncTypeOK, NEW p \in poll, NEW kind \in Kinds
    PROVE  PaidIn(p, kind) \subseteq Indices
BY DEF SyncTypeOK, PaidIn, Kinds

LEMMA RememberType ==
    ASSUME SyncTypeOK, SyncAssumption, NEW w \in Wallets, NEW ix \in 0 .. LastIndex + 1, Remember(w, ix)
    PROVE  handout' \in [Wallets -> 0 .. LastIndex + 1]
<1>1. handout[w] \in 0 .. LastIndex + 1 /\ LastIndex \in Nat
  BY DEF SyncTypeOK, SyncAssumption
<1>2. Max({handout[w], ix}) \in 0 .. LastIndex + 1
  <2>1. Max({handout[w], ix}) \in {handout[w], ix}
    <3>1. handout[w] \in Int /\ ix \in Int
      BY <1>1
    <3> QED BY <3>1, MaxOfTwo
  <2> QED BY <2>1, <1>1
<1> QED BY <1>2 DEF Remember, SyncTypeOK

\* The types of the walks and polls of a generation hold in the next.
LEMMA WalksTypeStep ==
    ASSUME SyncTypeOK, NEW v, v \subseteq [kind: Kinds, gen: {gen}, found: SUBSET Indices, backoff: {FALSE}],
           gen \in Nat \ {0}
    PROVE  walks \union v \subseteq [kind: Kinds, gen: 1 .. gen, found: SUBSET Indices, backoff: BOOLEAN]
<1>1. walks \subseteq [kind: Kinds, gen: 1 .. gen, found: SUBSET Indices, backoff: BOOLEAN]
  BY DEF SyncTypeOK
<1>2. ASSUME NEW k \in v PROVE k \in [kind: Kinds, gen: 1 .. gen, found: SUBSET Indices, backoff: BOOLEAN]
  <2>1. k \in [kind: Kinds, gen: {gen}, found: SUBSET Indices, backoff: {FALSE}]
    OBVIOUS
  <2>2. {gen} \subseteq 1 .. gen
    OBVIOUS
  <2> QED BY <2>1, <2>2
<1> QED BY <1>1, <1>2

SyncTyped == SyncTypeOK /\ (screen # NoWallet => gen >= 1)

LEMMA SyncTypeStep == ASSUME SyncAssumption, SyncTyped, [SyncNext]_syncVars PROVE SyncTyped'
<1>0. LastIndex \in Nat /\ MaxGen \in Nat \ {0} /\ gen \in Nat /\ NoWallet \notin Wallets
  BY DEF SyncAssumption, SyncTyped, SyncTypeOK
<1>u. ASSUME NEW x \in (SUBSET Indices) \union {Unknown}, x # Unknown PROVE x \in SUBSET Indices
  BY <1>u
<1>t. SyncTypeOK /\ (screen # NoWallet => gen >= 1 /\ screen \in Wallets /\ gen \in Nat \ {0})
  BY <1>0 DEF SyncTyped, SyncTypeOK
<1> USE DEF SyncTyped
<1>p. ASSUME NEW w \in Wallets, NEW ix, NEW used, NEW extras \in BOOLEAN, NEW inc \in Incomplete, gen \in Nat \ {0}
      PROVE poll \union {Polled(w, gen, ix, used, extras, inc)} \subseteq
               [gen: 1 .. gen, wallet: Wallets, extras: BOOLEAN, main: SUBSET Indices,
                extra: SUBSET Indices, incomplete: SUBSET Kinds]
  <2>1. Polled(w, gen, ix, used, extras, inc) \in
              [gen: {gen}, wallet: {w}, extras: BOOLEAN, main: SUBSET Indices,
               extra: SUBSET Indices, incomplete: SUBSET Kinds]
    BY <1>t, <1>p, PolledType
  <2>2. {gen} \subseteq 1 .. gen /\ {w} \subseteq Wallets
    BY <1>p
  <2> QED BY <2>1, <2>2, <1>t DEF SyncTypeOK
<1>w. ASSUME NEW kind \in Kinds, NEW known \in SUBSET Indices, screen # NoWallet
      PROVE /\ walks \union {NewWalk(kind, gen, screen, known)} \subseteq
                 [kind: Kinds, gen: 1 .. gen, found: SUBSET Indices, backoff: BOOLEAN]
            /\ [scanBusy EXCEPT ![kind] = gen] \in [Kinds -> 0 .. gen]
  <2>1. NewWalk(kind, gen, screen, known) \in [kind: Kinds, gen: {gen}, found: SUBSET Indices, backoff: {FALSE}]
    BY <1>t, <1>w, NewWalkType
  <2>2. walks \union {NewWalk(kind, gen, screen, known)} \subseteq
                 [kind: Kinds, gen: 1 .. gen, found: SUBSET Indices, backoff: BOOLEAN]
    <3> DEFINE v == {NewWalk(kind, gen, screen, known)}
    <3>1. v \subseteq [kind: Kinds, gen: {gen}, found: SUBSET Indices, backoff: {FALSE}]
      BY <2>1
    <3>2. gen \in Nat \ {0}
      BY <1>t, <1>w
    <3> HIDE DEF v
    <3>3. walks \union v \subseteq [kind: Kinds, gen: 1 .. gen, found: SUBSET Indices, backoff: BOOLEAN]
      BY <3>1, <3>2, <1>t, WalksTypeStep
    <3> QED BY <3>3 DEF v
  <2>3. scanBusy \in [Kinds -> 0 .. gen] /\ gen \in 0 .. gen
    BY <1>t, <1>0 DEF SyncTypeOK
  <2> QED BY <2>2, <2>3
<1>b. {extraDue, aged} \subseteq BOOLEAN /\ ExtraWanted \in BOOLEAN
  BY <1>t DEF SyncTypeOK, ExtraWanted
<1>1. CASE Poll
  <2>1. PICK inc \in Incomplete : poll' = poll \union {Polled(screen, gen, index, chainUsed, ExtraWanted, inc)}
    BY <1>1 DEF Poll
  <2>2. poll' \subseteq
               [gen: 1 .. gen, wallet: Wallets, extras: BOOLEAN, main: SUBSET Indices,
                extra: SUBSET Indices, incomplete: SUBSET Kinds]
    BY <2>1, <1>p, <1>t, <1>b, <1>1 DEF Poll
  <2> QED BY <2>2, <1>1, <1>t DEF Poll, SyncTypeOK
<1>2. CASE WalkMain
  <2>1. screen # NoWallet /\ {} \in SUBSET Indices /\ "main" \in Kinds
    BY <1>2 DEF WalkMain, Wanted, Kinds
  <2>2. /\ walks' \subseteq [kind: Kinds, gen: 1 .. gen, found: SUBSET Indices, backoff: BOOLEAN]
        /\ scanBusy' \in [Kinds -> 0 .. gen]
    BY <2>1, <1>w, <1>2 DEF WalkMain
  <2> QED BY <2>2, <1>2, <1>t DEF WalkMain, SyncTypeOK
<1>3. CASE WalkExtra
  <2>1. screen # NoWallet /\ "extra" \in Kinds
    BY <1>3 DEF WalkExtra, Wanted, Kinds
  <2>2. PICK used : /\ used = IF chainUsed = {} /\ depths[screen] # Unknown THEN depths[screen] ELSE chainUsed
                    /\ chainUsed' = used
                    /\ walks' = walks \union {NewWalk("extra", gen, screen, used)}
                    /\ scanBusy' = [scanBusy EXCEPT !["extra"] = gen]
                    /\ extraDue' \in BOOLEAN
    BY <1>3 DEF WalkExtra
  <2>3. used \in SUBSET Indices
    <3>1. chainUsed \in SUBSET Indices /\ depths[screen] \in (SUBSET Indices) \union {Unknown}
      BY <2>1, <1>t DEF SyncTypeOK
    <3> QED BY <3>1, <2>2
  <2>4. /\ walks' \subseteq [kind: Kinds, gen: 1 .. gen, found: SUBSET Indices, backoff: BOOLEAN]
        /\ scanBusy' \in [Kinds -> 0 .. gen]
    BY <2>1, <2>2, <2>3, <1>w
  <2>5. UNCHANGED <<onchain, screen, gen, index, handout, depths, scanGen, poll, aged, painted>>
    BY <1>3 DEF WalkExtra
  <2> QED BY <2>2, <2>3, <2>4, <2>5, <1>t DEF SyncTypeOK
<1>4. ASSUME NEW p \in poll, PollFails(p) \/ Discard(p) PROVE SyncTyped'
  BY <1>4, <1>t DEF PollFails, Discard, SyncTypeOK
<1>5. ASSUME NEW p \in poll, Paint(p) PROVE SyncTyped'
  <2> DEFINE seen == PaidIn(p, "extra")
             moved == ~(seen \subseteq chainUsed)
             used == chainUsed \union seen
  <2>1. screen # NoWallet /\ "extra" \in Kinds /\ "main" \in Kinds
    BY <1>5 DEF Paint, Ours, Kinds
  <2>2. seen \subseteq Indices /\ used \subseteq Indices /\ PaidIn(p, "main") \subseteq Indices
    BY <2>1, <1>t, PaidInType DEF SyncTypeOK
  <2>3. p.wallet \in Wallets
    BY <1>t DEF SyncTypeOK
  <2>4. /\ poll' = poll \ {p}
        /\ painted' = [wallet |-> p.wallet, main |-> PaidIn(p, "main"), extra |-> seen]
        /\ aged' = (aged /\ ~p.extras)
        /\ chainUsed' = used
        /\ depths' = IF moved THEN [depths EXCEPT ![screen] = used] ELSE depths
        /\ extraDue' \in BOOLEAN
        /\ scanGen' = IF moved THEN [scanGen EXCEPT !["extra"] = 0] ELSE scanGen
        /\ IF moved /\ scanBusy["extra"] # gen
           THEN /\ walks' = walks \union {NewWalk("extra", gen, screen, used)}
                /\ scanBusy' = [scanBusy EXCEPT !["extra"] = gen]
           ELSE UNCHANGED <<walks, scanBusy>>
        /\ UNCHANGED <<onchain, screen, gen, index, handout>>
    BY <1>5 DEF Paint
  <2> HIDE DEF seen, moved, used
  <2>5. /\ walks' \subseteq [kind: Kinds, gen: 1 .. gen, found: SUBSET Indices, backoff: BOOLEAN]
        /\ scanBusy' \in [Kinds -> 0 .. gen]
    <3>1. CASE moved /\ scanBusy["extra"] # gen
      BY <3>1, <2>4, <2>1, <2>2, <1>w
    <3>2. CASE ~(moved /\ scanBusy["extra"] # gen)
      BY <3>2, <2>4, <1>t DEF SyncTypeOK
    <3> QED BY <3>1, <3>2
  <2>6. depths' \in [Wallets -> (SUBSET Indices) \union {Unknown}]
    BY <2>4, <2>2, <1>t DEF SyncTypeOK
  <2>7. scanGen' \in [Kinds -> 0 .. gen]
    <3>1. scanGen \in [Kinds -> 0 .. gen] /\ 0 \in 0 .. gen
      BY <1>t, <1>0 DEF SyncTypeOK
    <3> QED BY <3>1, <2>4
  <2>8. painted' \in [wallet: Wallets \union {NoWallet}, main: SUBSET Indices, extra: SUBSET Indices]
    BY <2>4, <2>2, <2>3
  <2>9. {extraDue', aged'} \subseteq BOOLEAN
    BY <2>4
  <2> QED BY <2>4, <2>5, <2>6, <2>7, <2>8, <2>9, <2>2, <1>t DEF SyncTypeOK
<1>6. ASSUME NEW k \in walks, MainWalked(k) PROVE SyncTyped'
  <2>1. screen # NoWallet /\ k.found \subseteq Indices
    BY <1>6, <1>t DEF MainWalked, Alive, SyncTypeOK
  <2>2. index' \in 0 .. LastIndex + 1
    <3>1. Deepest(k.found) + 1 \in 0 .. LastIndex + 1 /\ index \in 0 .. LastIndex + 1
      <4>1. Deepest(k.found) \in -1 .. LastIndex
        BY <2>1, <1>0, DeepestIs
      <4>2. index \in 0 .. LastIndex + 1
        BY <1>t DEF SyncTypeOK
      <4> QED BY <4>1, <4>2, <1>0
    <3>2. Deepest(k.found) + 1 \in Int /\ index \in Int
      BY <3>1
    <3>3. Max({index, Deepest(k.found) + 1}) \in {index, Deepest(k.found) + 1}
      BY <3>2, MaxOfTwo
    <3> QED BY <3>1, <3>3, <1>6 DEF MainWalked
  <2>3. handout' \in [Wallets -> 0 .. LastIndex + 1]
    <3>1. CASE index' # index
      BY <3>1, <2>1, <2>2, <1>6, <1>t, RememberType DEF MainWalked
    <3>2. CASE index' = index
      BY <3>2, <1>6, <1>t DEF MainWalked, SyncTypeOK
    <3> QED BY <3>1, <3>2
  <2>4. scanGen' \in [Kinds -> 0 .. gen]
    BY <1>6, <1>t, <1>0 DEF MainWalked, SyncTypeOK
  <2>5. /\ walks' = walks \ {k}
        /\ UNCHANGED <<onchain, screen, gen, chainUsed, depths, scanBusy, poll, extraDue, aged, painted>>
    BY <1>6 DEF MainWalked
  <2> QED BY <2>2, <2>3, <2>4, <2>5, <1>t DEF SyncTypeOK
<1>7. ASSUME NEW k \in walks, ExtraWalked(k) PROVE SyncTyped'
  <2>1. k.found \subseteq Indices
    BY <1>t DEF SyncTypeOK
  <2>2. chainUsed' \subseteq Indices
    BY <2>1, <1>7, <1>t DEF ExtraWalked, SyncTypeOK
  <2>3. depths' \in [Wallets -> (SUBSET Indices) \union {Unknown}]
    BY <2>2, <1>7, <1>t DEF ExtraWalked, SyncTypeOK
  <2>4. scanGen' \in [Kinds -> 0 .. gen] /\ scanBusy' \in [Kinds -> 0 .. gen]
    BY <1>7, <1>t, <1>0 DEF ExtraWalked, SyncTypeOK
  <2>5. /\ walks' = walks \ {k} /\ extraDue' = TRUE
        /\ UNCHANGED <<onchain, screen, gen, index, handout, poll, aged, painted>>
    BY <1>7 DEF ExtraWalked
  <2> QED BY <2>2, <2>3, <2>4, <2>5, <1>t DEF SyncTypeOK
<1>8. ASSUME NEW k \in walks, WalkFails(k) PROVE SyncTyped'
  <2>1. k \in [kind: Kinds, gen: 1 .. gen, found: SUBSET Indices, backoff: BOOLEAN]
    BY <1>t DEF SyncTypeOK
  <2>2. [k EXCEPT !.backoff = TRUE, !.found = {}] \in
            [kind: Kinds, gen: 1 .. gen, found: SUBSET Indices, backoff: BOOLEAN]
    BY <2>1
  <2>3. walks' \subseteq [kind: Kinds, gen: 1 .. gen, found: SUBSET Indices, backoff: BOOLEAN]
    BY <2>2, <1>8, <1>t DEF WalkFails, SyncTypeOK
  <2>4. scanBusy' \in [Kinds -> 0 .. gen]
    BY <1>8, <1>t, <1>0 DEF WalkFails, SyncTypeOK
  <2>5. UNCHANGED <<onchain, screen, gen, index, handout, chainUsed, depths, scanGen, poll, extraDue, aged, painted>>
    BY <1>8 DEF WalkFails
  <2> QED BY <2>3, <2>4, <2>5, <1>t DEF SyncTypeOK
<1>9. ASSUME NEW k \in walks, WalkEnds(k) PROVE SyncTyped'
  BY <1>9, <1>t DEF WalkEnds, SyncTypeOK
<1>10. ASSUME NEW w \in Wallets, OpenWallet(w) PROVE SyncTyped'
  <2> DEFINE used == IF depths[w] # Unknown THEN depths[w] ELSE {}
  <2>1. /\ gen < MaxGen /\ gen' = gen + 1 /\ screen' = w /\ index' = handout[w]
        /\ painted' = Nothing /\ extraDue' = TRUE
        /\ chainUsed' = used
        /\ walks' = walks \union {NewWalk("main", gen', w, {}), NewWalk("extra", gen', w, used)}
        /\ scanBusy' = [k \in Kinds |-> gen']
        /\ \E inc \in Incomplete : poll' = poll \union {Polled(w, gen', index', used, TRUE, inc)}
        /\ UNCHANGED <<onchain, handout, depths, scanGen, aged, pays>>
    BY <1>10 DEF OpenWallet
  <2>2. used \in SUBSET Indices /\ {} \in SUBSET Indices
    <3>1. depths[w] \in (SUBSET Indices) \union {Unknown}
      BY <1>t DEF SyncTypeOK
    <3> QED BY <3>1
  <2>i. PICK inc \in Incomplete : poll' = poll \union {Polled(w, gen', index', used, TRUE, inc)}
    BY <2>1
  <2> HIDE DEF used
  <2>3. gen' \in Nat \ {0} /\ gen' \in 0 .. MaxGen /\ 1 .. gen \subseteq 1 .. gen'
    BY <2>1, <1>0
  <2>4. /\ NewWalk("main", gen', w, {}) \in [kind: Kinds, gen: {gen'}, found: SUBSET Indices, backoff: {FALSE}]
        /\ NewWalk("extra", gen', w, used) \in [kind: Kinds, gen: {gen'}, found: SUBSET Indices, backoff: {FALSE}]
    <3>1. "main" \in Kinds /\ "extra" \in Kinds /\ gen' \in Nat
      BY <2>3 DEF Kinds
    <3> QED BY <3>1, <2>2, <1>t, NewWalkType
  <2>5. walks' \subseteq [kind: Kinds, gen: 1 .. gen', found: SUBSET Indices, backoff: BOOLEAN]
    <3>1. walks \subseteq [kind: Kinds, gen: 1 .. gen', found: SUBSET Indices, backoff: BOOLEAN]
      BY <2>3, <1>t DEF SyncTypeOK
    <3>2. [kind: Kinds, gen: {gen'}, found: SUBSET Indices, backoff: {FALSE}] \subseteq
             [kind: Kinds, gen: 1 .. gen', found: SUBSET Indices, backoff: BOOLEAN]
      <4>1. {gen'} \subseteq 1 .. gen' /\ {FALSE} \subseteq BOOLEAN
        BY <2>3
      <4> QED BY <4>1
    <3> QED BY <3>1, <3>2, <2>4, <2>1
  <2>6. poll' \subseteq [gen: 1 .. gen', wallet: Wallets, extras: BOOLEAN, main: SUBSET Indices,
                         extra: SUBSET Indices, incomplete: SUBSET Kinds]
    <3>1. poll \subseteq [gen: 1 .. gen', wallet: Wallets, extras: BOOLEAN, main: SUBSET Indices,
                         extra: SUBSET Indices, incomplete: SUBSET Kinds]
      BY <2>3, <1>t DEF SyncTypeOK
    <3>2. Polled(w, gen', index', used, TRUE, inc) \in
              [gen: {gen'}, wallet: {w}, extras: BOOLEAN, main: SUBSET Indices,
               extra: SUBSET Indices, incomplete: SUBSET Kinds]
      BY <1>t, PolledType
    <3>3. {gen'} \subseteq 1 .. gen'
      BY <2>3
    <3> QED BY <3>1, <3>2, <3>3, <2>i
  <2>7. index' \in 0 .. LastIndex + 1
    BY <2>1, <1>t DEF SyncTypeOK
  <2>8. scanGen' \in [Kinds -> 0 .. gen'] /\ scanBusy' \in [Kinds -> 0 .. gen']
    <3>1. 0 .. gen \subseteq 0 .. gen' /\ gen' \in 0 .. gen'
      BY <2>1, <1>0
    <3> QED BY <3>1, <2>1, <1>t DEF SyncTypeOK
  <2>9. painted' \in [wallet: Wallets \union {NoWallet}, main: SUBSET Indices, extra: SUBSET Indices]
    BY <2>1 DEF Nothing
  <2>10. /\ UNCHANGED <<onchain, handout, depths>> /\ chainUsed' \subseteq Indices /\ {extraDue', aged'} \subseteq BOOLEAN
         /\ screen' \in Wallets /\ gen' >= 1
    BY <2>1, <2>2, <2>3, <1>b
  <2> QED BY <2>3, <2>5, <2>6, <2>7, <2>8, <2>9, <2>10, <1>t DEF SyncTypeOK
<1>11. CASE LockScreen
  <2>1. painted' \in [wallet: Wallets \union {NoWallet}, main: SUBSET Indices, extra: SUBSET Indices]
    BY <1>11 DEF LockScreen, Nothing
  <2> QED BY <2>1, <1>11, <1>t DEF LockScreen, SyncTypeOK
<1>12. CASE NextAddress
  <2>1. screen \in Wallets /\ index' \in 0 .. LastIndex + 1
    BY <1>12, <1>t, <1>0 DEF NextAddress, SyncTypeOK
  <2>2. handout' \in [Wallets -> 0 .. LastIndex + 1]
    BY <2>1, <1>12, <1>t, RememberType DEF NextAddress
  <2>3. UNCHANGED <<onchain, screen, gen, chainUsed, depths, walks, scanGen, scanBusy, poll, extraDue, aged, painted>>
    BY <1>12 DEF NextAddress
  <2> QED BY <2>1, <2>2, <2>3, <1>t DEF SyncTypeOK
<1>13. ASSUME NEW kind \in Kinds, NEW i \in Indices, Pay(kind, i) PROVE SyncTyped'
  <2>1. onchain' \in [Wallets -> [Kinds -> SUBSET Indices]]
    BY <1>13, <1>t DEF Pay, SyncTypeOK
  <2>2. UNCHANGED <<screen, gen, index, handout, chainUsed, depths, walks, scanGen, scanBusy, poll,
                    extraDue, aged, painted>>
    BY <1>13 DEF Pay
  <2> QED BY <2>1, <2>2, <1>t DEF SyncTypeOK
<1>14. CASE MarkDue \/ Age
  BY <1>14, <1>t DEF MarkDue, Age, SyncTypeOK
<1>15. CASE UNCHANGED syncVars
  BY <1>15, <1>t DEF syncVars, SyncTypeOK
<1> QED
  BY <1>1, <1>2, <1>3, <1>4, <1>5, <1>6, <1>7, <1>8, <1>9, <1>10, <1>11, <1>12, <1>13, <1>14, <1>15 DEF SyncNext

-----------------------------------------------------------------------------
(* What is shown is the wallet's own *)

\* What a poll of this generation reads is of the wallet on screen; so is what a walk
\* found; whatever a poll read was paid, then and now.
OwnInv ==
    /\ PaintedOwn
    /\ painted.wallet = NoWallet => painted = Nothing
    /\ \A p \in poll :
          /\ p.main \subseteq onchain[p.wallet]["main"] /\ p.extra \subseteq onchain[p.wallet]["extra"]
          /\ p.gen = gen /\ screen # NoWallet => p.wallet = screen
    /\ \A k \in walks : k.gen = gen /\ screen # NoWallet => k.found \subseteq onchain[screen][k.kind]

LEMMA OwnInit == ASSUME SyncAssumption, SyncInit PROVE OwnInv
BY DEF SyncInit, OwnInv, PaintedOwn, Nothing

LEMMA OwnStep == ASSUME SyncAssumption, SyncTyped, OwnInv, [SyncNext]_syncVars PROVE OwnInv'
<1>0. LastIndex \in Nat /\ MaxGen \in Nat \ {0} /\ gen \in Nat /\ NoWallet \notin Wallets
  BY DEF SyncAssumption, SyncTyped, SyncTypeOK
<1>t. SyncTypeOK /\ (screen # NoWallet => gen >= 1 /\ screen \in Wallets) /\ "main" \in Kinds /\ "extra" \in Kinds
  BY <1>0 DEF SyncTyped, SyncTypeOK, Kinds
<1>n. ASSUME NEW kind \in Kinds, NEW known \in SUBSET onchain[screen][kind], screen # NoWallet
      PROVE NewWalk(kind, gen, screen, known).found \subseteq onchain[screen][kind]
  <2>1. known \in SUBSET Indices
    BY <1>t, <1>n DEF SyncTypeOK
  <2> QED BY <2>1, <1>n, <1>t, <1>0, NewWalkType
<1>k. ASSUME NEW kind \in Kinds, NEW known \in SUBSET Indices
      PROVE NewWalk(kind, gen, screen, known).kind = kind
  BY DEF NewWalk
<1>p. ASSUME NEW w \in Wallets, NEW g, NEW ix, NEW used, NEW extras \in BOOLEAN, NEW inc
      PROVE /\ Polled(w, g, ix, used, extras, inc).wallet = w
            /\ Polled(w, g, ix, used, extras, inc).gen = g
            /\ Polled(w, g, ix, used, extras, inc).main \subseteq onchain[w]["main"]
            /\ Polled(w, g, ix, used, extras, inc).extra \subseteq onchain[w]["extra"]
  BY <1>p DEF Polled
<1>1. CASE Poll
  <2>1. PICK inc \in Incomplete : poll' = poll \union {Polled(screen, gen, index, chainUsed, ExtraWanted, inc)}
    BY <1>1 DEF Poll
  <2>2. screen \in Wallets /\ ExtraWanted \in BOOLEAN
    BY <1>1, <1>t DEF Poll, ExtraWanted, SyncTypeOK
  <2>3. UNCHANGED <<onchain, screen, gen, chainUsed, depths, walks, painted>>
    BY <1>1 DEF Poll
  <2> QED BY <2>1, <2>2, <2>3, <1>p DEF OwnInv, PaintedOwn
<1>2. CASE WalkMain
  <2>1. screen # NoWallet /\ {} \in SUBSET onchain[screen]["main"] /\ {} \in SUBSET Indices
    BY <1>2 DEF WalkMain, Wanted
  <2>2. walks' = walks \union {NewWalk("main", gen, screen, {})}
    BY <1>2 DEF WalkMain
  <2>3. UNCHANGED <<onchain, screen, gen, chainUsed, depths, poll, painted>>
    BY <1>2 DEF WalkMain
  <2>4. \A k \in walks' : k.gen = gen /\ screen # NoWallet => k.found \subseteq onchain[screen][k.kind]
    BY <2>1, <2>2, <1>n, <1>k, <1>t DEF OwnInv
  <2> QED BY <2>3, <2>4 DEF OwnInv, PaintedOwn
<1>3. CASE WalkExtra
  <2> DEFINE used == IF chainUsed = {} /\ depths[screen] # Unknown THEN depths[screen] ELSE chainUsed
  <2>1. screen # NoWallet /\ screen \in Wallets
    BY <1>3, <1>t DEF WalkExtra, Wanted
  <2>2. /\ chainUsed' = used
        /\ walks' = walks \union {NewWalk("extra", gen, screen, used)}
        /\ UNCHANGED <<onchain, screen, gen, depths, poll, painted>>
    BY <1>3 DEF WalkExtra
  <2>3. used \in SUBSET onchain[screen]["extra"] /\ used \in SUBSET Indices
    BY <2>1, <1>t DEF OwnInv, PaintedOwn, SyncTypeOK
  <2> HIDE DEF used
  <2>4. \A k \in walks' : k.gen = gen /\ screen # NoWallet => k.found \subseteq onchain[screen][k.kind]
    BY <2>1, <2>2, <2>3, <1>n, <1>k, <1>t DEF OwnInv
  <2> QED BY <2>1, <2>2, <2>3, <2>4 DEF OwnInv, PaintedOwn
<1>4. ASSUME NEW p \in poll, PollFails(p) \/ Discard(p) PROVE OwnInv'
  BY <1>4 DEF PollFails, Discard, OwnInv, PaintedOwn
<1>5. ASSUME NEW p \in poll, Paint(p) PROVE OwnInv'
  <2> DEFINE seen == PaidIn(p, "extra")
             moved == ~(seen \subseteq chainUsed)
             used == chainUsed \union seen
  <2>1. screen # NoWallet /\ screen \in Wallets /\ p.wallet = screen
    BY <1>5, <1>t DEF Paint, Ours, OwnInv
  <2>2. seen \subseteq onchain[screen]["extra"] /\ PaidIn(p, "main") \subseteq onchain[screen]["main"]
    <3>1. CASE painted.wallet = screen
      BY <3>1, <2>1 DEF PaidIn, OwnInv, PaintedOwn
    <3>2. CASE painted.wallet # screen
      <4>1. painted = Nothing /\ p.incomplete = {}
        BY <3>2, <1>5 DEF Paint, Recoverable, OwnInv, PaintedOwn
      <4>2. painted["extra"] = {}
        BY <4>1 DEF Nothing
      <4> QED BY <4>1, <4>2, <2>1 DEF PaidIn, OwnInv
    <3> QED BY <3>1, <3>2
  <2>3. used \in SUBSET onchain[screen]["extra"] /\ used \in SUBSET Indices
    BY <2>1, <2>2, <1>t DEF OwnInv, PaintedOwn, SyncTypeOK
  <2>4. /\ poll' = poll \ {p}
        /\ painted' = [wallet |-> p.wallet, main |-> PaidIn(p, "main"), extra |-> seen]
        /\ chainUsed' = used
        /\ depths' = IF moved THEN [depths EXCEPT ![screen] = used] ELSE depths
        /\ IF moved /\ scanBusy["extra"] # gen
           THEN /\ walks' = walks \union {NewWalk("extra", gen, screen, used)}
                /\ scanBusy' = [scanBusy EXCEPT !["extra"] = gen]
           ELSE UNCHANGED <<walks, scanBusy>>
        /\ UNCHANGED <<onchain, screen, gen>>
    BY <1>5 DEF Paint
  <2> HIDE DEF seen, moved, used
  <2>5. \A k \in walks' : k.gen = gen /\ screen # NoWallet => k.found \subseteq onchain[screen][k.kind]
    <3>1. CASE moved /\ scanBusy["extra"] # gen
      BY <3>1, <2>1, <2>3, <2>4, <1>n, <1>k, <1>t DEF OwnInv
    <3>2. CASE ~(moved /\ scanBusy["extra"] # gen)
      BY <3>2, <2>4 DEF OwnInv
    <3> QED BY <3>1, <3>2
  <2>6. \A w \in Wallets : depths'[w] = Unknown \/ depths'[w] \subseteq onchain[w]["extra"]
    BY <2>1, <2>3, <2>4, <1>t DEF OwnInv, PaintedOwn, SyncTypeOK
  <2>7. painted'.wallet = screen /\ painted'.main \subseteq onchain[screen]["main"]
                                 /\ painted'.extra \subseteq onchain[screen]["extra"]
    BY <2>1, <2>2, <2>4
  <2>8. painted'.wallet # NoWallet
    BY <2>7, <2>1
  <2> QED BY <2>1, <2>3, <2>4, <2>5, <2>6, <2>7, <2>8 DEF OwnInv, PaintedOwn
<1>6. ASSUME NEW k \in walks, MainWalked(k) PROVE OwnInv'
  BY <1>6 DEF MainWalked, OwnInv, PaintedOwn
<1>7. ASSUME NEW k \in walks, ExtraWalked(k) PROVE OwnInv'
  <2>1. screen # NoWallet /\ screen \in Wallets /\ k.found \subseteq onchain[screen]["extra"]
    BY <1>7, <1>t DEF ExtraWalked, Alive, OwnInv
  <2>2. /\ chainUsed' = chainUsed \union k.found
        /\ depths' = [depths EXCEPT ![screen] = chainUsed']
        /\ walks' = walks \ {k}
        /\ UNCHANGED <<onchain, screen, gen, poll, painted>>
    BY <1>7 DEF ExtraWalked
  <2>3. \A w \in Wallets : depths'[w] = Unknown \/ depths'[w] \subseteq onchain[w]["extra"]
    BY <2>1, <2>2, <1>t DEF OwnInv, PaintedOwn, SyncTypeOK
  <2> QED BY <2>1, <2>2, <2>3 DEF OwnInv, PaintedOwn
<1>8. ASSUME NEW k \in walks, WalkFails(k) PROVE OwnInv'
  <2>1. [k EXCEPT !.backoff = TRUE, !.found = {}].found = {}
    BY <1>t DEF SyncTypeOK
  <2>2. /\ walks' = (walks \ {k}) \union {[k EXCEPT !.backoff = TRUE, !.found = {}]}
        /\ UNCHANGED <<onchain, screen, gen, chainUsed, depths, poll, painted>>
    BY <1>8 DEF WalkFails
  <2>3. \A j \in walks' : j.gen = gen /\ screen # NoWallet => j.found \subseteq onchain[screen][j.kind]
    BY <2>1, <2>2 DEF OwnInv
  <2> QED BY <2>2, <2>3 DEF OwnInv, PaintedOwn
<1>9. ASSUME NEW k \in walks, WalkEnds(k) PROVE OwnInv'
  BY <1>9 DEF WalkEnds, OwnInv, PaintedOwn
<1>10. ASSUME NEW w \in Wallets, OpenWallet(w) PROVE OwnInv'
  <2> DEFINE used == IF depths[w] # Unknown THEN depths[w] ELSE {}
  <2>1. /\ gen < MaxGen /\ gen' = gen + 1 /\ screen' = w
        /\ painted' = Nothing
        /\ chainUsed' = used
        /\ walks' = walks \union {NewWalk("main", gen', w, {}), NewWalk("extra", gen', w, used)}
        /\ \E inc \in Incomplete : poll' = poll \union {Polled(w, gen', index', used, TRUE, inc)}
        /\ UNCHANGED <<onchain, depths>>
    BY <1>10 DEF OpenWallet
  <2>2. used \in SUBSET Indices /\ used \in SUBSET onchain[w]["extra"] /\ {} \in SUBSET Indices
    BY <1>t DEF OwnInv, PaintedOwn, SyncTypeOK
  <2>i. PICK inc \in Incomplete : poll' = poll \union {Polled(w, gen', index', used, TRUE, inc)}
    BY <2>1
  <2> HIDE DEF used
  <2>3. gen' \in Nat /\ (\A k \in walks : k.gen # gen') /\ (\A p \in poll : p.gen # gen')
    <3>1. (\A k \in walks : k.gen \in 1 .. gen) /\ (\A p \in poll : p.gen \in 1 .. gen)
      BY <1>t DEF SyncTypeOK
    <3> QED BY <3>1, <2>1, <1>0
  <2>4. /\ NewWalk("main", gen', w, {}).found \subseteq onchain[w]["main"] /\ NewWalk("main", gen', w, {}).kind = "main"
        /\ NewWalk("extra", gen', w, used).found \subseteq onchain[w]["extra"] /\ NewWalk("extra", gen', w, used).kind = "extra"
    <3>1. /\ NewWalk("main", gen', w, {}).found \subseteq {} \union onchain[w]["main"]
          /\ NewWalk("main", gen', w, {}).kind = "main"
      BY DEF NewWalk
    <3>2. /\ NewWalk("extra", gen', w, used).found \subseteq used \union onchain[w]["extra"]
          /\ NewWalk("extra", gen', w, used).kind = "extra"
      BY DEF NewWalk
    <3> QED BY <3>1, <3>2, <2>2
  <2>5. \A k \in walks' : k.gen = gen' => k.found \subseteq onchain[w][k.kind]
    BY <2>1, <2>3, <2>4
  <2>6. \A p \in poll' :
          /\ p.main \subseteq onchain[p.wallet]["main"] /\ p.extra \subseteq onchain[p.wallet]["extra"]
          /\ p.gen = gen' => p.wallet = w
    <3> DEFINE q == Polled(w, gen', index', used, TRUE, inc)
    <3>1. q.wallet = w /\ q.main \subseteq onchain[w]["main"] /\ q.extra \subseteq onchain[w]["extra"]
      BY DEF Polled
    <3> HIDE DEF q
    <3>2. poll' = poll \union {q}
      BY <2>i DEF q
    <3> QED BY <3>1, <3>2, <2>3 DEF OwnInv
  <2>7. painted'.wallet = NoWallet
    BY <2>1 DEF Nothing
  <2> QED BY <2>1, <2>2, <2>5, <2>6, <2>7 DEF OwnInv, PaintedOwn
<1>11. CASE LockScreen
  BY <1>11 DEF LockScreen, OwnInv, PaintedOwn, Nothing
<1>12. CASE NextAddress
  BY <1>12 DEF NextAddress, OwnInv, PaintedOwn
<1>13. ASSUME NEW kind \in Kinds, NEW i \in Indices, Pay(kind, i) PROVE OwnInv'
  <2>1. /\ onchain' = [onchain EXCEPT ![screen][kind] = @ \union {i}]
        /\ UNCHANGED <<screen, gen, chainUsed, depths, walks, poll, painted>>
    BY <1>13 DEF Pay
  <2>2. \A w \in Wallets : \A k \in Kinds : onchain[w][k] \subseteq onchain'[w][k]
    BY <2>1, <1>t DEF SyncTypeOK
  <2>3. (\A p \in poll : p.wallet \in Wallets) /\ (\A k \in walks : k.kind \in Kinds)
    BY <1>t DEF SyncTypeOK
  <2>4. PaintedOwn'
    BY <2>1, <2>2, <1>t DEF OwnInv, PaintedOwn
  <2>5. \A p \in poll : p.main \subseteq onchain'[p.wallet]["main"] /\ p.extra \subseteq onchain'[p.wallet]["extra"]
    BY <2>2, <2>3, <1>t DEF OwnInv
  <2>6. \A k \in walks : k.gen = gen /\ screen # NoWallet => k.found \subseteq onchain'[screen][k.kind]
    BY <2>2, <2>3, <1>t DEF OwnInv
  <2> QED BY <2>1, <2>4, <2>5, <2>6 DEF OwnInv
<1>14. CASE MarkDue \/ Age
  BY <1>14 DEF MarkDue, Age, OwnInv, PaintedOwn
<1>15. CASE UNCHANGED syncVars
  BY <1>15 DEF syncVars, OwnInv, PaintedOwn
<1> QED
  BY <1>1, <1>2, <1>3, <1>4, <1>5, <1>6, <1>7, <1>8, <1>9, <1>10, <1>11, <1>12, <1>13, <1>14, <1>15 DEF SyncNext

-----------------------------------------------------------------------------
(* No hole in what is known of a chain *)

\* Below the deepest index known, what was paid is known, or is of the floor.
HoleFree(known, S) == \A i \in S : i <= Deepest(known) => i \in known \/ i < Floor

\* What remains known when both are: no hole either.
LEMMA HoleFreeUnion ==
    ASSUME SyncAssumption, NEW S \in SUBSET Indices, NEW A \in SUBSET S, NEW B \in SUBSET S,
           HoleFree(A, S), HoleFree(B, S)
    PROVE  HoleFree(A \union B, S)
<1>0. LastIndex \in Nat /\ S \subseteq 0 .. LastIndex
  BY DEF SyncAssumption, Indices
<1>1. ASSUME NEW i \in S, i <= Deepest(A \union B), ~(i < Floor) PROVE i \in A \union B
  <2>1. A \union B \subseteq Indices /\ A \subseteq Indices /\ B \subseteq Indices
    OBVIOUS
  <2>2. A \union B # {}
    <3>1. CASE A \union B = {}
      <4>1. Deepest(A \union B) = -1
        BY <3>1, <2>1, <1>0, DeepestIs
      <4> QED BY <4>1, <1>1, <1>0
    <3> QED BY <3>1
  <2>3. Deepest(A \union B) \in A \union B
    BY <2>1, <2>2, <1>0, DeepestIs
  <2>4. CASE Deepest(A \union B) \in A
    <3>1. Deepest(A) >= Deepest(A \union B) /\ Deepest(A) \in -1 .. LastIndex /\ Deepest(A \union B) \in -1 .. LastIndex
      BY <2>4, <2>1, <1>0, DeepestIs
    <3>2. i <= Deepest(A)
      BY <3>1, <1>1, <1>0
    <3> QED BY <3>2, <1>1 DEF HoleFree
  <2>5. CASE Deepest(A \union B) \in B
    <3>1. Deepest(B) >= Deepest(A \union B) /\ Deepest(B) \in -1 .. LastIndex /\ Deepest(A \union B) \in -1 .. LastIndex
      BY <2>5, <2>1, <1>0, DeepestIs
    <3>2. i <= Deepest(B)
      BY <3>1, <1>1, <1>0
    <3> QED BY <3>2, <1>1 DEF HoleFree
  <2> QED BY <2>3, <2>4, <2>5
<1> QED BY <1>1 DEF HoleFree

\* Of nothing.
LEMMA HoleFreeNone == ASSUME SyncAssumption, NEW S \in SUBSET Indices PROVE HoleFree({}, S)
<1>1. Deepest({}) = -1
  BY DEF Deepest
<1>2. \A i \in S : ~(i <= -1)
  BY DEF Indices
<1> QED BY <1>1, <1>2 DEF HoleFree

\* A walk that starts past the deepest index known leaves none, and finds the rest.
LEMMA WalkFindsAll ==
    ASSUME SyncAssumption, SyncTypeOK, NEW kind \in Kinds, NEW g, NEW w \in Wallets,
           NEW known \in SUBSET onchain[w][kind], Reachable(onchain[w][kind])
    PROVE  NewWalk(kind, g, w, known).found = known \union {i \in onchain[w][kind] : i > Deepest(known)}
<1> DEFINE S == onchain[w][kind]
<1>1. S \subseteq Indices /\ known \subseteq Indices /\ LastIndex \in Nat
  BY DEF SyncTypeOK, SyncAssumption
<1>2. Deepest(known) \in -1 .. LastIndex
  BY <1>1, DeepestIs
<1>3. \A i \in S : \A a \in Deepest(known) + 1 .. i - Gap : \E j \in a .. a + Gap - 1 : j \in S
  <2> HIDE DEF S
  <2>1. Reachable(S)
    BY DEF S
  <2> QED BY <1>1, <1>2, <2>1, NoGapBefore
<1>4. NewWalk(kind, g, w, known).found = known \union {i \in S : i > Deepest(known) /\
            \A a \in Deepest(known) + 1 .. i - Gap : \E j \in a .. a + Gap - 1 : j \in S}
  BY DEF NewWalk
<1> QED BY <1>3, <1>4

LEMMA WalkHoleFree ==
    ASSUME SyncAssumption, SyncTypeOK, NEW kind \in Kinds, NEW g, NEW w \in Wallets,
           NEW known \in SUBSET onchain[w][kind], Reachable(onchain[w][kind]),
           HoleFree(known, onchain[w][kind])
    PROVE  /\ HoleFree(NewWalk(kind, g, w, known).found, onchain[w][kind])
           /\ NewWalk(kind, g, w, known).found \subseteq onchain[w][kind]
           /\ onchain[w][kind] \subseteq NewWalk(kind, g, w, known).found \union (0 .. Floor - 1)
<1> DEFINE S == onchain[w][kind]
           F == NewWalk(kind, g, w, known).found
<1>1. F = known \union {i \in S : i > Deepest(known)}
  BY WalkFindsAll
<1>2. S \subseteq 0 .. LastIndex /\ known \subseteq Indices /\ LastIndex \in Nat /\ Floor \in Nat
  BY DEF SyncTypeOK, SyncAssumption, Indices
<1>3. Deepest(known) \in -1 .. LastIndex
  BY <1>2, DeepestIs
<1>4. \A i \in S : i \in F \/ i < Floor
  <2>1. TAKE i \in S
  <2>2. i \in Nat
    BY <1>2
  <2>3. CASE i <= Deepest(known)
    BY <2>3, <1>1 DEF HoleFree
  <2>4. CASE i > Deepest(known)
    BY <2>4, <1>1
  <2> QED BY <2>2, <2>3, <2>4, <1>3
<1>5. F \subseteq S
  BY <1>1
<1>6. S \subseteq F \union (0 .. Floor - 1)
  BY <1>4, <1>2
<1> QED BY <1>4, <1>5, <1>6 DEF HoleFree

\* A poll of the extra chain reads the indices used, a lookahead past them, the floor.
LEMMA PollHoleFree ==
    ASSUME SyncAssumption, NEW S \in SUBSET Indices, NEW used \in SUBSET S, HoleFree(used, S)
    PROVE  HoleFree(S \intersect ExtraWatched(used), S)
<1> DEFINE R == S \intersect ExtraWatched(used)
<1>1. /\ LastIndex \in Nat /\ Floor \in Nat /\ Lookahead \in Nat \ {0} /\ S \subseteq 0 .. LastIndex
      /\ used \subseteq Indices /\ R \subseteq Indices
  BY DEF SyncAssumption, Indices
<1>2. Deepest(used) \in -1 .. LastIndex /\ Deepest(R) \in -1 .. LastIndex /\ (R # {} => Deepest(R) \in R)
      /\ (R = {} => Deepest(R) = -1) /\ \A j \in used : j <= Deepest(used)
  <2> HIDE DEF R
  <2> QED BY <1>1, DeepestIs
<1>3. ASSUME NEW i \in S, i <= Deepest(R), ~(i < Floor) PROVE i \in R
  <2>0. i \in 0 .. LastIndex
    BY <1>1
  <2>1. Deepest(R) \in S /\ Deepest(R) \in ExtraWatched(used)
    <3>1. R # {}
      BY <1>2, <1>3, <2>0
    <3> QED BY <3>1, <1>2
  <2>2. Deepest(R) <= Deepest(used) + Lookahead
    <3>1. ~(Deepest(R) \in 0 .. Floor - 1)
      BY <1>1, <1>2, <1>3, <2>0
    <3>2. CASE Deepest(R) \in used
      BY <3>2, <1>1, <1>2
    <3>3. CASE Deepest(R) \in Deepest(used) + 1 .. Deepest(used) + Lookahead
      BY <3>3, <1>1, <1>2
    <3> QED BY <2>1, <3>1, <3>2, <3>3 DEF ExtraWatched
  <2>3. CASE i <= Deepest(used)
    BY <2>3, <1>3 DEF HoleFree, ExtraWatched
  <2>4. CASE i > Deepest(used)
    <3>1. i \in Deepest(used) + 1 .. Deepest(used) + Lookahead
      BY <2>4, <2>2, <2>0, <1>1, <1>2, <1>3
    <3> QED BY <3>1 DEF ExtraWatched
  <2> QED BY <2>0, <2>3, <2>4, <1>2
<1> QED BY <1>3 DEF HoleFree

\* A payment leaves what is known without a hole: it is to the floor, or past the
\* deepest index paid.
LEMMA PaidHoleFree ==
    ASSUME SyncAssumption, NEW S \in SUBSET Indices, NEW X \in SUBSET S, HoleFree(X, S),
           NEW i \in Indices, i \notin S, i \in ExtraWatched(S)
    PROVE  HoleFree(X, S \union {i})
<1>1. /\ LastIndex \in Nat /\ Floor \in Nat /\ Lookahead \in Nat \ {0} /\ S \subseteq 0 .. LastIndex
      /\ X \subseteq Indices /\ S \subseteq Indices /\ i \in 0 .. LastIndex
  BY DEF SyncAssumption, Indices
<1>2. /\ Deepest(S) \in -1 .. LastIndex /\ Deepest(X) \in -1 .. LastIndex
      /\ (X # {} => Deepest(X) \in X) /\ (X = {} => Deepest(X) = -1)
      /\ \A j \in S : j <= Deepest(S)
  BY <1>1, DeepestIs
<1>3. Deepest(X) <= Deepest(S)
  BY <1>1, <1>2
<1>4. i < Floor \/ i > Deepest(S)
  <2>1. CASE i \in Deepest(S) + 1 .. Deepest(S) + Lookahead
    BY <2>1, <1>1, <1>2
  <2>2. CASE i \in 0 .. Floor - 1
    BY <2>2, <1>1
  <2> QED BY <2>1, <2>2 DEF ExtraWatched
<1>5. i <= Deepest(X) => i < Floor
  BY <1>1, <1>2, <1>3, <1>4
<1> QED BY <1>5 DEF HoleFree

\* Chains stay walkable, and nothing known of an extra chain has a hole: the indices
\* used, the cached ones, what was read, what is shown, what a live walk found.
KnownInv ==
    /\ \A w \in Wallets : \A k \in Kinds : Reachable(onchain[w][k])
    /\ screen # NoWallet => HoleFree(chainUsed, onchain[screen]["extra"])
    /\ \A w \in Wallets : depths[w] = Unknown \/ HoleFree(depths[w], onchain[w]["extra"])
    /\ \A p \in poll : HoleFree(p.extra, onchain[p.wallet]["extra"])
    /\ painted.wallet # NoWallet => HoleFree(painted.extra, onchain[painted.wallet]["extra"])
    /\ \A k \in walks : k.kind = "extra" /\ Alive(k) => HoleFree(k.found, onchain[screen]["extra"])

LEMMA KnownInit == ASSUME SyncAssumption, SyncInit PROVE KnownInv
<1>1. \A w \in Wallets : \A k \in Kinds : Reachable(onchain[w][k])
  BY DEF SyncInit
<1>2. /\ screen = NoWallet /\ poll = {} /\ walks = {} /\ painted.wallet = NoWallet
      /\ \A w \in Wallets : depths[w] = Unknown
  BY DEF SyncInit, Nothing
<1> QED BY <1>1, <1>2 DEF KnownInv

LEMMA KnownStep ==
    ASSUME SyncAssumption, SyncTyped, OwnInv, KnownInv, [SyncNext]_syncVars
    PROVE  KnownInv'
<1>0. LastIndex \in Nat /\ MaxGen \in Nat \ {0} /\ gen \in Nat /\ NoWallet \notin Wallets
  BY DEF SyncAssumption, SyncTyped, SyncTypeOK
<1>t. SyncTypeOK /\ (screen # NoWallet => gen >= 1 /\ screen \in Wallets) /\ "main" \in Kinds /\ "extra" \in Kinds
  BY <1>0 DEF SyncTyped, SyncTypeOK, Kinds
<1>s. \A w \in Wallets : onchain[w]["extra"] \in SUBSET Indices
  BY <1>t DEF SyncTypeOK
\* A new walk of the extra chain.
<1>n. ASSUME NEW known \in SUBSET onchain[screen]["extra"], screen # NoWallet,
             HoleFree(known, onchain[screen]["extra"])
      PROVE HoleFree(NewWalk("extra", gen, screen, known).found, onchain[screen]["extra"])
  BY <1>t, <1>n, WalkHoleFree DEF KnownInv
<1>k. ASSUME NEW kind, NEW g, NEW w, NEW known PROVE NewWalk(kind, g, w, known).kind = kind
  BY DEF NewWalk
\* A poll.
<1>p. ASSUME NEW w \in Wallets, NEW g, NEW ix, NEW used \in SUBSET onchain[w]["extra"],
             NEW extras \in BOOLEAN, NEW inc, HoleFree(used, onchain[w]["extra"])
      PROVE /\ Polled(w, g, ix, used, extras, inc).wallet = w
            /\ HoleFree(Polled(w, g, ix, used, extras, inc).extra, onchain[w]["extra"])
  <2>1. onchain[w]["extra"] \in SUBSET Indices
    BY <1>s
  <2>2. HoleFree(onchain[w]["extra"] \intersect ExtraWatched(used), onchain[w]["extra"])
    BY <1>p, <2>1, PollHoleFree
  <2>3. HoleFree({}, onchain[w]["extra"])
    BY <2>1, HoleFreeNone
  <2>4. Polled(w, g, ix, used, extras, inc).wallet = w
    BY DEF Polled
  <2>5. \/ Polled(w, g, ix, used, extras, inc).extra = onchain[w]["extra"] \intersect ExtraWatched(used)
        \/ Polled(w, g, ix, used, extras, inc).extra = {}
    BY DEF Polled
  <2> QED BY <2>2, <2>3, <2>4, <2>5
<1>1. CASE Poll
  <2>1. PICK inc \in Incomplete : poll' = poll \union {Polled(screen, gen, index, chainUsed, ExtraWanted, inc)}
    BY <1>1 DEF Poll
  <2>2. screen \in Wallets /\ screen # NoWallet /\ ExtraWanted \in BOOLEAN
    BY <1>1, <1>t DEF Poll, ExtraWanted, SyncTypeOK
  <2>3. UNCHANGED <<onchain, screen, gen, chainUsed, depths, walks, painted>>
    BY <1>1 DEF Poll
  <2>4. chainUsed \in SUBSET onchain[screen]["extra"] /\ HoleFree(chainUsed, onchain[screen]["extra"])
    BY <2>2 DEF OwnInv, PaintedOwn, KnownInv
  <2> DEFINE q == Polled(screen, gen, index, chainUsed, ExtraWanted, inc)
  <2>5. q.wallet = screen /\ HoleFree(q.extra, onchain[screen]["extra"])
    BY <2>2, <2>4, <1>p
  <2> HIDE DEF q
  <2>6. \A p \in poll' : HoleFree(p.extra, onchain[p.wallet]["extra"])
    BY <2>1, <2>5 DEF q, KnownInv
  <2> QED BY <2>6, <2>3 DEF KnownInv, Alive
<1>2. CASE WalkMain
  <2>1. \A k \in walks' : k \in walks \/ k.kind = "main"
    BY <1>2, <1>k DEF WalkMain
  <2> QED BY <2>1, <1>2 DEF WalkMain, KnownInv, Alive
<1>3. CASE WalkExtra
  <2> DEFINE used == IF chainUsed = {} /\ depths[screen] # Unknown THEN depths[screen] ELSE chainUsed
  <2>1. screen # NoWallet /\ screen \in Wallets
    BY <1>3, <1>t DEF WalkExtra, Wanted
  <2>2. /\ chainUsed' = used
        /\ walks' = walks \union {NewWalk("extra", gen, screen, used)}
        /\ UNCHANGED <<onchain, screen, gen, depths, poll, painted>>
    BY <1>3 DEF WalkExtra
  <2>3. used \in SUBSET onchain[screen]["extra"] /\ HoleFree(used, onchain[screen]["extra"])
    BY <2>1 DEF OwnInv, PaintedOwn, KnownInv
  <2> HIDE DEF used
  <2>4. \A k \in walks' : k.kind = "extra" /\ Alive(k) => HoleFree(k.found, onchain[screen]["extra"])
    BY <2>1, <2>2, <2>3, <1>n DEF KnownInv
  <2> QED BY <2>1, <2>2, <2>3, <2>4 DEF KnownInv, Alive
<1>4. ASSUME NEW p \in poll, PollFails(p) \/ Discard(p) PROVE KnownInv'
  BY <1>4 DEF PollFails, Discard, KnownInv, Alive
<1>5. ASSUME NEW p \in poll, Paint(p) PROVE KnownInv'
  <2> DEFINE seen == PaidIn(p, "extra")
             moved == ~(seen \subseteq chainUsed)
             used == chainUsed \union seen
             S == onchain[screen]["extra"]
  <2>1. screen # NoWallet /\ screen \in Wallets /\ p.wallet = screen
    BY <1>5, <1>t DEF Paint, Ours, OwnInv
  <2>2. seen \in SUBSET S /\ HoleFree(seen, S)
    <3>1. CASE seen = p.extra
      BY <3>1, <2>1 DEF OwnInv, KnownInv
    <3>2. CASE seen = painted.extra /\ painted.wallet = screen
      BY <3>2, <2>1 DEF OwnInv, PaintedOwn, KnownInv
    <3>3. CASE painted.wallet # screen /\ seen = painted.extra
      <4>1. painted = Nothing
        BY <3>3 DEF OwnInv, PaintedOwn
      <4>2. seen = {}
        BY <4>1, <3>3 DEF Nothing
      <4> QED BY <4>2, <2>1, <1>s, HoleFreeNone
    <3>4. seen = p.extra \/ seen = painted.extra
      BY DEF PaidIn
    <3> QED BY <3>1, <3>2, <3>3, <3>4
  <2>3. used \in SUBSET S /\ HoleFree(used, S)
    <3>1. chainUsed \in SUBSET S /\ HoleFree(chainUsed, S) /\ S \in SUBSET Indices
      BY <2>1, <1>s DEF OwnInv, PaintedOwn, KnownInv
    <3> HIDE DEF seen, S
    <3> QED BY <3>1, <2>2, HoleFreeUnion
  <2>4. /\ poll' = poll \ {p}
        /\ painted' = [wallet |-> p.wallet, main |-> PaidIn(p, "main"), extra |-> seen]
        /\ chainUsed' = used
        /\ depths' = IF moved THEN [depths EXCEPT ![screen] = used] ELSE depths
        /\ IF moved /\ scanBusy["extra"] # gen
           THEN /\ walks' = walks \union {NewWalk("extra", gen, screen, used)}
                /\ scanBusy' = [scanBusy EXCEPT !["extra"] = gen]
           ELSE UNCHANGED <<walks, scanBusy>>
        /\ UNCHANGED <<onchain, screen, gen>>
    BY <1>5 DEF Paint
  <2> HIDE DEF seen, moved, used
  <2>5. \A k \in walks' : k.kind = "extra" /\ Alive(k) => HoleFree(k.found, S)
    <3>1. CASE moved /\ scanBusy["extra"] # gen
      BY <3>1, <2>1, <2>3, <2>4, <1>n DEF KnownInv
    <3>2. CASE ~(moved /\ scanBusy["extra"] # gen)
      BY <3>2, <2>4 DEF KnownInv
    <3> QED BY <3>1, <3>2
  <2>6. \A w \in Wallets : depths'[w] = Unknown \/ HoleFree(depths'[w], onchain[w]["extra"])
    BY <2>1, <2>3, <2>4, <1>t DEF KnownInv, SyncTypeOK
  <2>7. painted'.wallet = screen /\ painted'.extra = seen
    BY <2>1, <2>4
  <2> QED BY <2>1, <2>2, <2>3, <2>4, <2>5, <2>6, <2>7 DEF KnownInv, Alive
<1>6. ASSUME NEW k \in walks, MainWalked(k) PROVE KnownInv'
  BY <1>6 DEF MainWalked, KnownInv, Alive
<1>7. ASSUME NEW k \in walks, ExtraWalked(k) PROVE KnownInv'
  <2> DEFINE S == onchain[screen]["extra"]
  <2>1. screen # NoWallet /\ screen \in Wallets /\ k.found \in SUBSET S /\ HoleFree(k.found, S)
    BY <1>7, <1>t DEF ExtraWalked, Alive, OwnInv, KnownInv
  <2>2. /\ chainUsed' = chainUsed \union k.found
        /\ depths' = [depths EXCEPT ![screen] = chainUsed']
        /\ walks' = walks \ {k}
        /\ UNCHANGED <<onchain, screen, gen, poll, painted>>
    BY <1>7 DEF ExtraWalked
  <2>3. HoleFree(chainUsed', S)
    <3>1. chainUsed \in SUBSET S /\ HoleFree(chainUsed, S) /\ S \in SUBSET Indices
      BY <2>1, <1>s DEF OwnInv, PaintedOwn, KnownInv
    <3> HIDE DEF S
    <3>2. HoleFree(chainUsed \union k.found, S)
      BY <3>1, <2>1, HoleFreeUnion
    <3> QED BY <3>2, <2>2
  <2>4. \A w \in Wallets : depths'[w] = Unknown \/ HoleFree(depths'[w], onchain[w]["extra"])
    BY <2>1, <2>2, <2>3, <1>t DEF KnownInv, SyncTypeOK
  <2> QED BY <2>1, <2>2, <2>3, <2>4 DEF KnownInv, Alive
<1>8. ASSUME NEW k \in walks, WalkFails(k) PROVE KnownInv'
  <2>1. [k EXCEPT !.backoff = TRUE, !.found = {}].backoff = TRUE
    BY <1>t DEF SyncTypeOK
  <2>2. /\ walks' = (walks \ {k}) \union {[k EXCEPT !.backoff = TRUE, !.found = {}]}
        /\ UNCHANGED <<onchain, screen, gen, chainUsed, depths, poll, painted>>
    BY <1>8 DEF WalkFails
  <2>3. \A j \in walks' : j.kind = "extra" /\ Alive(j) => HoleFree(j.found, onchain[screen]["extra"])
    BY <2>1, <2>2 DEF KnownInv, Alive
  <2> QED BY <2>2, <2>3 DEF KnownInv, Alive
<1>9. ASSUME NEW k \in walks, WalkEnds(k) PROVE KnownInv'
  BY <1>9 DEF WalkEnds, KnownInv, Alive
<1>10. ASSUME NEW w \in Wallets, OpenWallet(w) PROVE KnownInv'
  <2> DEFINE used == IF depths[w] # Unknown THEN depths[w] ELSE {}
  <2>1. /\ gen < MaxGen /\ gen' = gen + 1 /\ screen' = w
        /\ painted' = Nothing
        /\ chainUsed' = used
        /\ walks' = walks \union {NewWalk("main", gen', w, {}), NewWalk("extra", gen', w, used)}
        /\ \E inc \in Incomplete : poll' = poll \union {Polled(w, gen', index', used, TRUE, inc)}
        /\ UNCHANGED <<onchain, depths>>
    BY <1>10 DEF OpenWallet
  <2>2. used \in SUBSET onchain[w]["extra"] /\ HoleFree(used, onchain[w]["extra"])
    <3>1. CASE depths[w] # Unknown
      BY <3>1 DEF OwnInv, PaintedOwn, KnownInv
    <3>2. CASE depths[w] = Unknown
      <4>1. HoleFree({}, onchain[w]["extra"])
        BY <1>s, HoleFreeNone
      <4> QED BY <4>1, <3>2
    <3> QED BY <3>1, <3>2
  <2>i. PICK inc \in Incomplete : poll' = poll \union {Polled(w, gen', index', used, TRUE, inc)}
    BY <2>1
  <2> HIDE DEF used
  <2>3. \A k \in walks : k.gen # gen'
    <3>1. \A k \in walks : k.gen \in 1 .. gen
      BY <1>t DEF SyncTypeOK
    <3> QED BY <3>1, <2>1, <1>0
  <2>4. HoleFree(NewWalk("extra", gen', w, used).found, onchain[w]["extra"])
    BY <2>2, <1>t, WalkHoleFree DEF KnownInv
  <2>5. NewWalk("main", gen', w, {}).kind = "main"
    BY DEF NewWalk
  <2>6. \A k \in walks' : k.kind = "extra" /\ k.gen = gen' => HoleFree(k.found, onchain[w]["extra"])
    BY <2>1, <2>3, <2>4, <2>5
  <2>7. \A p \in poll' : HoleFree(p.extra, onchain[p.wallet]["extra"])
    <3> DEFINE q == Polled(w, gen', index', used, TRUE, inc)
    <3>1. q.wallet = w /\ HoleFree(q.extra, onchain[w]["extra"])
      BY <1>p, <2>2
    <3> HIDE DEF q
    <3>2. poll' = poll \union {q}
      BY <2>i DEF q
    <3> QED BY <3>1, <3>2 DEF KnownInv
  <2>8. painted'.wallet = NoWallet
    BY <2>1 DEF Nothing
  <2> QED BY <2>1, <2>2, <2>6, <2>7, <2>8 DEF KnownInv, Alive
<1>11. CASE LockScreen
  BY <1>11 DEF LockScreen, KnownInv, Nothing, Alive
<1>12. CASE NextAddress
  BY <1>12 DEF NextAddress, KnownInv, Alive
<1>13. ASSUME NEW kind \in Kinds, NEW i \in Indices, Pay(kind, i) PROVE KnownInv'
  <2>1. /\ onchain' = [onchain EXCEPT ![screen][kind] = @ \union {i}]
        /\ screen \in Wallets
        /\ i \notin onchain[screen][kind]
        /\ kind = "extra" => i \in ExtraWatched(onchain[screen][kind])
        /\ Reachable(onchain[screen][kind] \union {i})
        /\ UNCHANGED <<screen, gen, chainUsed, depths, walks, poll, painted>>
    BY <1>13, <1>t DEF Pay
  <2>2. \A w \in Wallets : \A k \in Kinds : Reachable(onchain'[w][k])
    BY <2>1, <1>t DEF SyncTypeOK, KnownInv
  <2>3. ASSUME NEW w \in Wallets, NEW X \in SUBSET onchain[w]["extra"], HoleFree(X, onchain[w]["extra"])
        PROVE HoleFree(X, onchain'[w]["extra"])
    <3>1. CASE w = screen /\ kind = "extra"
      <4> DEFINE S == onchain[w]["extra"]
      <4>1. onchain'[w]["extra"] = S \union {i}
        BY <3>1, <2>1, <1>t DEF SyncTypeOK
      <4>2. S \in SUBSET Indices /\ i \notin S /\ i \in ExtraWatched(S) /\ X \in SUBSET S /\ HoleFree(X, S)
        BY <3>1, <2>1, <2>3, <1>s
      <4> HIDE DEF S
      <4>3. HoleFree(X, S \union {i})
        BY <4>2, PaidHoleFree
      <4> QED BY <4>1, <4>3
    <3>2. CASE ~(w = screen /\ kind = "extra")
      <4>1. onchain'[w]["extra"] = onchain[w]["extra"]
        BY <3>2, <2>1, <1>t DEF SyncTypeOK
      <4> QED BY <4>1, <2>3
    <3> QED BY <3>1, <3>2
  <2>4. (\A p \in poll : p.wallet \in Wallets) /\ painted.wallet \in Wallets \union {NoWallet}
    BY <1>t DEF SyncTypeOK
  <2>5. HoleFree(chainUsed, onchain'[screen]["extra"])
    BY <2>1, <2>3, <1>0 DEF OwnInv, PaintedOwn, KnownInv
  <2>6. \A w \in Wallets : depths[w] = Unknown \/ HoleFree(depths[w], onchain'[w]["extra"])
    BY <2>3 DEF OwnInv, PaintedOwn, KnownInv
  <2>7. \A p \in poll : HoleFree(p.extra, onchain'[p.wallet]["extra"])
    BY <2>3, <2>4 DEF OwnInv, KnownInv
  <2>8. painted.wallet # NoWallet => HoleFree(painted.extra, onchain'[painted.wallet]["extra"])
    BY <2>3, <2>4 DEF OwnInv, PaintedOwn, KnownInv
  <2>9. \A k \in walks : k.kind = "extra" /\ Alive(k) => HoleFree(k.found, onchain'[screen]["extra"])
    BY <2>1, <2>3 DEF OwnInv, KnownInv, Alive
  <2> QED BY <2>1, <2>2, <2>5, <2>6, <2>7, <2>8, <2>9 DEF KnownInv, Alive
<1>14. CASE MarkDue \/ Age
  BY <1>14 DEF MarkDue, Age, KnownInv, Alive
<1>15. CASE UNCHANGED syncVars
  BY <1>15 DEF syncVars, KnownInv, Alive
<1> QED
  BY <1>1, <1>2, <1>3, <1>4, <1>5, <1>6, <1>7, <1>8, <1>9, <1>10, <1>11, <1>12, <1>13, <1>14, <1>15 DEF SyncNext

-----------------------------------------------------------------------------
(* A walk that counts as complete is *)

\* The indices that are watched whether or not they were found.
FloorOf(kind) == IF kind = "extra" THEN 0 .. Floor - 1 ELSE {}

\* What was paid when the wallet was opened has been found by every live walk of it.
DiscoveryInv ==
    /\ DiscoveryComplete
    /\ screen # NoWallet => \A kind \in Kinds : atOpen[kind] \subseteq onchain[screen][kind]
    /\ \A k \in walks : Alive(k) => atOpen[k.kind] \subseteq k.found \union FloorOf(k.kind)

\* A walk that starts now finds all that is paid now.
LEMMA NewWalkCovers ==
    ASSUME SyncAssumption, SyncTypeOK, KnownInv, NEW g, NEW w \in Wallets, NEW kind \in Kinds,
           NEW known \in SUBSET onchain[w][kind],
           HoleFree(known, onchain[w][kind]), kind = "main" => known = {}
    PROVE  onchain[w][kind] \subseteq NewWalk(kind, g, w, known).found \union FloorOf(kind)
<1>1. Reachable(onchain[w][kind])
  BY DEF KnownInv
<1>2. CASE kind = "extra"
  BY <1>1, <1>2, WalkHoleFree DEF FloorOf
<1>3. CASE kind = "main"
  <2>1. NewWalk(kind, g, w, known).found = known \union {i \in onchain[w][kind] : i > Deepest(known)}
    BY <1>1, WalkFindsAll
  <2>2. Deepest(known) = -1
    BY <1>3 DEF Deepest
  <2>3. \A i \in onchain[w][kind] : i > -1
    BY DEF SyncTypeOK, Indices
  <2> QED BY <2>1, <2>2, <2>3
<1> QED BY <1>2, <1>3 DEF Kinds

LEMMA DiscoveryInit == ASSUME SyncAssumption, SyncInit PROVE DiscoveryInv
<1>1. screen = NoWallet /\ walks = {}
  BY DEF SyncInit
<1> QED BY <1>1 DEF DiscoveryInv, DiscoveryComplete

LEMMA DiscoveryStep ==
    ASSUME SyncAssumption, SyncTyped, OwnInv, KnownInv, DiscoveryInv, [SyncNext]_syncVars
    PROVE  DiscoveryInv'
<1>0. LastIndex \in Nat /\ MaxGen \in Nat \ {0} /\ gen \in Nat /\ NoWallet \notin Wallets
  BY DEF SyncAssumption, SyncTyped, SyncTypeOK
<1>t. SyncTypeOK /\ (screen # NoWallet => gen >= 1 /\ screen \in Wallets) /\ "main" \in Kinds /\ "extra" \in Kinds
  BY <1>0 DEF SyncTyped, SyncTypeOK, Kinds
<1>s. \A w \in Wallets : \A k \in Kinds : onchain[w][k] \in SUBSET Indices
  BY <1>t DEF SyncTypeOK
<1>k. ASSUME NEW kind, NEW g, NEW w, NEW known PROVE NewWalk(kind, g, w, known).kind = kind
  BY DEF NewWalk
<1>n. ASSUME NEW kind \in Kinds, NEW known \in SUBSET onchain[screen][kind], screen # NoWallet,
             HoleFree(known, onchain[screen][kind]), kind = "main" => known = {}
      PROVE atOpen[kind] \subseteq NewWalk(kind, gen, screen, known).found \union FloorOf(kind)
  <2>1. onchain[screen][kind] \subseteq NewWalk(kind, gen, screen, known).found \union FloorOf(kind)
    BY <1>t, <1>n, NewWalkCovers
  <2> QED BY <2>1, <1>n DEF DiscoveryInv
<1>1. CASE Poll
  BY <1>1 DEF Poll, DiscoveryInv, DiscoveryComplete, Alive
<1>2. CASE WalkMain
  <2>1. screen # NoWallet /\ {} \in SUBSET onchain[screen]["main"] /\ HoleFree({}, onchain[screen]["main"])
    BY <1>2, <1>t, <1>s, HoleFreeNone DEF WalkMain, Wanted
  <2>2. atOpen["main"] \subseteq NewWalk("main", gen, screen, {}).found \union FloorOf("main")
    BY <2>1, <1>n, <1>t
  <2>3. /\ walks' = walks \union {NewWalk("main", gen, screen, {})}
        /\ UNCHANGED <<onchain, screen, gen, index, chainUsed, scanGen, atOpen>>
    BY <1>2 DEF WalkMain
  <2>4. \A k \in walks' : Alive(k) => atOpen[k.kind] \subseteq k.found \union FloorOf(k.kind)
    BY <2>2, <2>3, <1>k DEF DiscoveryInv
  <2> QED BY <2>3, <2>4 DEF DiscoveryInv, DiscoveryComplete, Alive
<1>3. CASE WalkExtra
  <2> DEFINE used == IF chainUsed = {} /\ depths[screen] # Unknown THEN depths[screen] ELSE chainUsed
  <2>1. screen # NoWallet /\ screen \in Wallets
    BY <1>3, <1>t DEF WalkExtra, Wanted
  <2>2. /\ chainUsed' = used
        /\ walks' = walks \union {NewWalk("extra", gen, screen, used)}
        /\ UNCHANGED <<onchain, screen, gen, index, scanGen, atOpen>>
    BY <1>3 DEF WalkExtra
  <2>3. used \in SUBSET onchain[screen]["extra"] /\ HoleFree(used, onchain[screen]["extra"]) /\ chainUsed \subseteq used
    BY <2>1 DEF OwnInv, PaintedOwn, KnownInv
  <2> HIDE DEF used
  <2>4. atOpen["extra"] \subseteq NewWalk("extra", gen, screen, used).found \union FloorOf("extra")
    BY <2>1, <2>3, <1>n, <1>t
  <2>5. \A k \in walks' : Alive(k) => atOpen[k.kind] \subseteq k.found \union FloorOf(k.kind)
    BY <2>2, <2>4, <1>k DEF DiscoveryInv
  <2> QED BY <2>1, <2>2, <2>3, <2>5 DEF DiscoveryInv, DiscoveryComplete, Alive
<1>4. ASSUME NEW p \in poll, PollFails(p) \/ Discard(p) PROVE DiscoveryInv'
  BY <1>4 DEF PollFails, Discard, DiscoveryInv, DiscoveryComplete, Alive
<1>5. ASSUME NEW p \in poll, Paint(p) PROVE DiscoveryInv'
  <2> DEFINE seen == PaidIn(p, "extra")
             moved == ~(seen \subseteq chainUsed)
             used == chainUsed \union seen
             S == onchain[screen]["extra"]
  <2>1. screen # NoWallet /\ screen \in Wallets /\ p.wallet = screen
    BY <1>5, <1>t DEF Paint, Ours, OwnInv
  <2>2. /\ painted'.extra = seen /\ painted'.wallet = screen
        /\ chainUsed' = used
        /\ scanGen' = IF moved THEN [scanGen EXCEPT !["extra"] = 0] ELSE scanGen
        /\ IF moved /\ scanBusy["extra"] # gen
           THEN /\ walks' = walks \union {NewWalk("extra", gen, screen, used)}
                /\ scanBusy' = [scanBusy EXCEPT !["extra"] = gen]
           ELSE UNCHANGED <<walks, scanBusy>>
        /\ UNCHANGED <<onchain, screen, gen, index, atOpen>>
    BY <1>5, <2>1 DEF Paint
  <2>3. OwnInv' /\ KnownInv'
    BY OwnStep, KnownStep
  <2>4. used \in SUBSET S /\ HoleFree(used, S)
    BY <2>1, <2>2, <2>3 DEF OwnInv, PaintedOwn, KnownInv
  <2> HIDE DEF seen, moved, used
  <2>5. atOpen["extra"] \subseteq NewWalk("extra", gen, screen, used).found \union FloorOf("extra")
    BY <2>1, <2>4, <1>n, <1>t
  <2>6. \A k \in walks' : Alive(k) => atOpen[k.kind] \subseteq k.found \union FloorOf(k.kind)
    <3>1. CASE moved /\ scanBusy["extra"] # gen
      BY <3>1, <2>2, <2>5, <1>k DEF DiscoveryInv
    <3>2. CASE ~(moved /\ scanBusy["extra"] # gen)
      BY <3>2, <2>2 DEF DiscoveryInv
    <3> QED BY <3>1, <3>2
  <2>7. scanGen'["main"] = scanGen["main"] /\ (scanGen'["extra"] = gen => scanGen["extra"] = gen)
    BY <2>1, <2>2, <1>t, <1>0 DEF SyncTypeOK
  <2>8. chainUsed \subseteq chainUsed'
    BY <2>2 DEF used
  <2> QED BY <2>1, <2>2, <2>6, <2>7, <2>8 DEF DiscoveryInv, DiscoveryComplete, Alive
<1>6. ASSUME NEW k \in walks, MainWalked(k) PROVE DiscoveryInv'
  <2>1. screen # NoWallet /\ screen \in Wallets /\ Alive(k) /\ k.kind = "main" /\ k.found \subseteq Indices
    BY <1>6, <1>t DEF MainWalked, Alive, SyncTypeOK
  <2>2. /\ walks' = walks \ {k}
        /\ scanGen' = [scanGen EXCEPT !["main"] = gen]
        /\ index' = Max({index, Deepest(k.found) + 1})
        /\ UNCHANGED <<onchain, screen, gen, chainUsed, atOpen>>
    BY <1>6 DEF MainWalked
  <2>3. Deepest(k.found) \in -1 .. LastIndex /\ \A i \in k.found : i <= Deepest(k.found)
    BY <2>1, <1>0, DeepestIs
  <2>4. index' >= Deepest(k.found) + 1 /\ index' \in Int
    <3>1. index \in Int /\ Deepest(k.found) + 1 \in Int
      BY <2>3, <1>t, <1>0 DEF SyncTypeOK
    <3> QED BY <3>1, <2>2, MaxOfTwo
  <2>5. atOpen["main"] \subseteq k.found
    BY <2>1 DEF DiscoveryInv, FloorOf
  <2>6. \A i \in atOpen["main"] : i < index'
    <3>1. \A i \in k.found : i \in Int
      BY <2>1 DEF Indices
    <3> QED BY <3>1, <2>3, <2>4, <2>5
  <2>7. scanGen'["extra"] = scanGen["extra"]
    BY <2>2, <1>t DEF SyncTypeOK
  <2> QED BY <2>1, <2>2, <2>6, <2>7 DEF DiscoveryInv, DiscoveryComplete, Alive
<1>7. ASSUME NEW k \in walks, ExtraWalked(k) PROVE DiscoveryInv'
  <2>1. Alive(k) /\ k.kind = "extra"
    BY <1>7 DEF ExtraWalked
  <2>2. /\ walks' = walks \ {k}
        /\ scanGen' = [scanGen EXCEPT !["extra"] = gen]
        /\ chainUsed' = chainUsed \union k.found
        /\ UNCHANGED <<onchain, screen, gen, index, atOpen>>
    BY <1>7 DEF ExtraWalked
  <2>3. atOpen["extra"] \subseteq k.found \union (0 .. Floor - 1)
    BY <2>1 DEF DiscoveryInv, FloorOf
  <2>4. scanGen'["main"] = scanGen["main"]
    BY <2>2, <1>t DEF SyncTypeOK
  <2> QED BY <2>2, <2>3, <2>4 DEF DiscoveryInv, DiscoveryComplete, Alive
<1>8. ASSUME NEW k \in walks, WalkFails(k) PROVE DiscoveryInv'
  <2>1. [k EXCEPT !.backoff = TRUE, !.found = {}].backoff = TRUE
    BY <1>t DEF SyncTypeOK
  <2>2. /\ walks' = (walks \ {k}) \union {[k EXCEPT !.backoff = TRUE, !.found = {}]}
        /\ UNCHANGED <<onchain, screen, gen, index, chainUsed, scanGen, atOpen>>
    BY <1>8 DEF WalkFails
  <2>3. \A j \in walks' : Alive(j) => atOpen[j.kind] \subseteq j.found \union FloorOf(j.kind)
    BY <2>1, <2>2 DEF DiscoveryInv, Alive
  <2> QED BY <2>2, <2>3 DEF DiscoveryInv, DiscoveryComplete, Alive
<1>9. ASSUME NEW k \in walks, WalkEnds(k) PROVE DiscoveryInv'
  BY <1>9 DEF WalkEnds, DiscoveryInv, DiscoveryComplete, Alive
<1>10. ASSUME NEW w \in Wallets, OpenWallet(w) PROVE DiscoveryInv'
  <2> DEFINE used == IF depths[w] # Unknown THEN depths[w] ELSE {}
  <2>1. /\ gen < MaxGen /\ gen' = gen + 1 /\ screen' = w
        /\ walks' = walks \union {NewWalk("main", gen', w, {}), NewWalk("extra", gen', w, used)}
        /\ atOpen' = onchain[w]
        /\ UNCHANGED <<onchain, scanGen>>
    BY <1>10 DEF OpenWallet
  <2>2. /\ used \in SUBSET onchain[w]["extra"] /\ HoleFree(used, onchain[w]["extra"])
        /\ {} \in SUBSET onchain[w]["main"] /\ HoleFree({}, onchain[w]["main"])
    <3>1. HoleFree({}, onchain[w]["extra"]) /\ HoleFree({}, onchain[w]["main"])
      BY <1>s, <1>t, HoleFreeNone
    <3> QED BY <3>1 DEF OwnInv, PaintedOwn, KnownInv
  <2> HIDE DEF used
  <2>3. (\A k \in walks : k.gen # gen') /\ scanGen["main"] # gen' /\ scanGen["extra"] # gen'
    <3>1. (\A k \in walks : k.gen \in 1 .. gen) /\ scanGen["main"] \in 0 .. gen /\ scanGen["extra"] \in 0 .. gen
      BY <1>t DEF SyncTypeOK
    <3> QED BY <3>1, <2>1, <1>0
  <2>4. onchain[w]["extra"] \subseteq NewWalk("extra", gen', w, used).found \union FloorOf("extra")
    BY <2>2, <1>t, NewWalkCovers
  <2>5. onchain[w]["main"] \subseteq NewWalk("main", gen', w, {}).found \union FloorOf("main")
    BY <2>2, <1>t, NewWalkCovers
  <2>6. NewWalk("main", gen', w, {}).kind = "main" /\ NewWalk("extra", gen', w, used).kind = "extra"
    BY <1>k
  <2>7. \A k \in walks' : k.gen = gen' => onchain[w][k.kind] \subseteq k.found \union FloorOf(k.kind)
    BY <2>1, <2>3, <2>4, <2>5, <2>6
  <2> QED BY <2>1, <2>3, <2>7 DEF DiscoveryInv, DiscoveryComplete, Alive
<1>11. CASE LockScreen
  BY <1>11 DEF LockScreen, DiscoveryInv, DiscoveryComplete, Alive
<1>12. CASE NextAddress
  <2>1. index' = index + 1 /\ index \in Nat
    BY <1>12, <1>t, <1>0 DEF NextAddress, SyncTypeOK
  <2>2. UNCHANGED <<onchain, screen, gen, chainUsed, walks, scanGen, atOpen>>
    BY <1>12 DEF NextAddress
  <2>3. screen # NoWallet => \A i \in atOpen["main"] : i \in Nat
    BY <1>t, <1>s DEF DiscoveryInv, Indices
  <2> QED BY <2>1, <2>2, <2>3 DEF DiscoveryInv, DiscoveryComplete, Alive
<1>13. ASSUME NEW kind \in Kinds, NEW i \in Indices, Pay(kind, i) PROVE DiscoveryInv'
  <2>1. /\ onchain' = [onchain EXCEPT ![screen][kind] = @ \union {i}]
        /\ UNCHANGED <<screen, gen, index, chainUsed, walks, scanGen, atOpen>>
    BY <1>13 DEF Pay
  <2>2. \A w \in Wallets : \A k \in Kinds : onchain[w][k] \subseteq onchain'[w][k]
    BY <2>1, <1>t DEF SyncTypeOK
  <2>3. screen # NoWallet => \A k \in Kinds : atOpen[k] \subseteq onchain'[screen][k]
    BY <2>2, <1>t DEF DiscoveryInv
  <2> QED BY <2>1, <2>3 DEF DiscoveryInv, DiscoveryComplete, Alive
<1>14. CASE MarkDue \/ Age
  BY <1>14 DEF MarkDue, Age, DiscoveryInv, DiscoveryComplete, Alive
<1>15. CASE UNCHANGED syncVars
  BY <1>15 DEF syncVars, DiscoveryInv, DiscoveryComplete, Alive
<1> QED
  BY <1>1, <1>2, <1>3, <1>4, <1>5, <1>6, <1>7, <1>8, <1>9, <1>10, <1>11, <1>12, <1>13, <1>14, <1>15 DEF SyncNext

-----------------------------------------------------------------------------
(* The theorems *)

SyncInv == SyncTyped /\ OwnInv /\ KnownInv /\ DiscoveryInv

\* The invariant, whatever is paid, opened, answered and handed out.
THEOREM SyncInvariant == SyncSpec => []SyncInv
<1>1. SyncInit => SyncInv
  <2>1. SyncInit => (screen # NoWallet => gen >= 1)
    BY DEF SyncInit
  <2> QED BY <2>1, SyncAssumption, SyncTypeInit, OwnInit, KnownInit, DiscoveryInit DEF SyncInv, SyncTyped
<1>2. SyncInv /\ [SyncNext]_syncVars => SyncInv'
  BY SyncAssumption, SyncTypeStep, OwnStep, KnownStep, DiscoveryStep DEF SyncInv
<1> QED BY <1>1, <1>2, PTL DEF SyncSpec

\* For any wallets, chains and openings: what is on screen, in the watch window and in
\* the depth caches (refreshMoney(), syncExtraChainDepths()) is of the wallet it stands for.
THEOREM ShowsItsOwn == SyncSpec => []PaintedOwn
<1>1. SyncInv => PaintedOwn
  BY DEF SyncInv, OwnInv
<1> QED BY <1>1, SyncInvariant, PTL

\* For any chains a gap walk can follow, any gap, lookahead and floor: a walk that counts
\* as complete (syncReceiveIndex(), syncExtraChainDepths()) found all that was paid when
\* its wallet was opened.
THEOREM WalksAreComplete == SyncSpec => []DiscoveryComplete
<1>1. SyncInv => DiscoveryComplete
  BY DEF SyncInv, DiscoveryInv
<1> QED BY <1>1, SyncInvariant, PTL

-----------------------------------------------------------------------------
(* Types of a redemption *)

Refs == [id: DdIds, hop: Nat]
Places == Positions \union {Away}
BurnRecs == [coins: SUBSET Refs, by: Nat]
DraftRecs == [number: Nat, pos: Places, burn: BurnRecs, deferred: BOOLEAN, signed: Nat]
GoingRecs == [phase: {"none", "legs", "scan", "fee", "send"}, number: Nat, pos: Places, sent: SUBSET Refs,
              burn: BurnRecs, tx: Nat]
GatherRecs == [legs: SUBSET Refs, done: BOOLEAN]
RedemptionRecs == [tx: Nat, pos: Places, burn: SUBSET Refs, own: BOOLEAN, gathered: BOOLEAN]

RedeemTyped ==
    /\ dd \in [DdIds -> [at: Places, stage: {"mempool", "block", "gone"}, hop: Nat, by: Nat]]
    /\ planning \subseteq DraftRecs
    /\ pending \in DraftRecs
    /\ gathers \in Seq(GatherRecs)
    /\ going \in GoingRecs
    /\ redemptions \subseteq RedemptionRecs /\ IsFiniteSet(redemptions)

LEMMA NoRecs == NoBurn \in BurnRecs /\ NoRedeem \in DraftRecs /\ NotGoing \in GoingRecs /\ NoGather \in GatherRecs
<1>1. NoBurn \in BurnRecs
  BY DEF NoBurn, BurnRecs
<1>2. NoRedeem \in DraftRecs
  BY <1>1 DEF NoRedeem, DraftRecs, Places
<1>3. NotGoing \in GoingRecs
  BY <1>1 DEF NotGoing, GoingRecs, Places
<1> QED BY <1>1, <1>2, <1>3 DEF NoGather, GatherRecs

LEMMA CoinsType ==
    ASSUME RedeemAssumption, RedeemTyped, NEW a
    PROVE  /\ CoinsAt(a) \subseteq Refs /\ IsFiniteSet(CoinsAt(a))
           /\ \A r \in CoinsAt(a) : r.hop = dd[r.id].hop /\ dd[r.id].at = a
<1> DEFINE R == {Ref(c) : c \in DdIds}
           f == [c \in DdIds |-> Ref(c)]
<1>1. CoinsAt(a) \subseteq R
  BY DEF CoinsAt
<1>2. f \in Surjection(DdIds, R)
  BY DEF Surjection
<1>3. IsFiniteSet(R)
  <2> HIDE DEF R, f
  <2> QED BY <1>2, FS_Surjection DEF RedeemAssumption
<1>4. R \subseteq Refs
  BY DEF Ref, Refs, RedeemTyped
<1>5. \A r \in CoinsAt(a) : r.hop = dd[r.id].hop /\ dd[r.id].at = a
  BY DEF CoinsAt, Ref
<1> HIDE DEF R
<1> QED BY <1>1, <1>3, <1>4, <1>5, FS_Subset

LEMMA AllCoinsType ==
    ASSUME RedeemAssumption, RedeemTyped
    PROVE  AllCoins \subseteq Refs /\ IsFiniteSet(AllCoins)
<1> DEFINE R == {Ref(c) : c \in DdIds}
           f == [c \in DdIds |-> Ref(c)]
<1>1. AllCoins \subseteq R
  BY DEF AllCoins, CoinsAt
<1>2. f \in Surjection(DdIds, R)
  BY DEF Surjection
<1>3. IsFiniteSet(R)
  <2> HIDE DEF R, f
  <2> QED BY <1>2, FS_Surjection DEF RedeemAssumption
<1>4. R \subseteq Refs
  BY DEF Ref, Refs, RedeemTyped
<1> HIDE DEF R
<1> QED BY <1>1, <1>3, <1>4, FS_Subset

-----------------------------------------------------------------------------
(* What a burn is for *)

\* The coins of a burn lie where the review it was picked for has its position, as far
\* as they were not moved since; and they are confirmed, or they do not suffice, if
\* that review has coins to gather.  P is the position of every review so far.
BurnOK(P, b) ==
    b.coins # {} =>
        /\ b.by \in 1 .. Len(gathers) /\ IsFiniteSet(b.coins)
        /\ \A r \in b.coins : r.hop <= dd[r.id].hop /\ Lies(r, P[b.by])
        /\ \/ gathers[b.by].legs = {}
           \/ Cardinality(b.coins) < Need[P[b.by]]
           \/ \A r \in b.coins : Unspent(r) => dd[r.id].stage = "block"

DraftOK(P, d) ==
    d # NoRedeem => d.number \in 1 .. Len(gathers) /\ d.pos = P[d.number] /\ BurnOK(P, d.burn)

GoingOK(P, g) ==
    g # NotGoing => g.number \in 1 .. Len(gathers) /\ g.pos = P[g.number] /\ BurnOK(P, g.burn)

RedemptionOK(t) ==
    /\ Cardinality(t.burn) >= Need[t.pos]
    /\ \A r \in t.burn : r.hop <= dd[r.id].hop
    /\ \E p \in Positions : \A r \in t.burn : Lies(r, p)
    /\ t.own => \A r \in t.burn :
                   Lies(r, t.pos) /\ (t.gathered /\ Unspent(r) => dd[r.id].stage = "block")

Consistent(P) ==
    /\ \A x \in planning : DraftOK(P, x)
    /\ DraftOK(P, pending)
    /\ GoingOK(P, going)
    /\ \A t \in redemptions : RedemptionOK(t)

RedeemInv == RedeemTyped /\ \E P \in [1 .. Len(gathers) -> Positions] : Consistent(P)

LEMMA RedeemInitInv == ASSUME RedeemAssumption, RedeemInit PROVE RedeemInv
<1>1. dd \in [DdIds -> [at: Places, stage: {"mempool", "block", "gone"}, hop: Nat, by: Nat]]
  <2>1. dd \in [DdIds -> [at: Positions \union {Away}, stage: {"mempool", "block"}, hop: {0}, by: {0}]]
    BY DEF RedeemInit
  <2> QED BY <2>1 DEF Places
<1>2. /\ planning = {} /\ pending = NoRedeem /\ gathers = <<>> /\ going = NotGoing /\ redemptions = {}
  BY DEF RedeemInit
<1>3. RedeemTyped
  BY <1>1, <1>2, NoRecs, FS_EmptySet DEF RedeemTyped
<1>4. \E P \in [1 .. Len(gathers) -> Positions] : TRUE
  <2>1. 1 .. Len(gathers) = {}
    BY <1>2
  <2>2. [i \in {} |-> i] \in [{} -> Positions]
    OBVIOUS
  <2> QED BY <2>1, <2>2
<1>5. \A P : Consistent(P)
  BY <1>2 DEF Consistent, DraftOK, GoingOK
<1> QED BY <1>3, <1>4, <1>5 DEF RedeemInv

\* A coin stays where it is and its stage goes on, or it is moved.
CoinsGoOn ==
    \A c \in DdIds :
        \/ /\ dd'[c].hop = dd[c].hop /\ dd'[c].at = dd[c].at
           /\ dd[c].stage = "block" => dd'[c].stage \in {"block", "gone"}
           /\ dd[c].stage = "gone" => dd'[c].stage = "gone"
        \/ dd'[c].hop > dd[c].hop

LEMMA RefsKeep ==
    ASSUME RedeemTyped, dd' \in [DdIds -> [at: Places, stage: {"mempool", "block", "gone"}, hop: Nat, by: Nat]],
           CoinsGoOn, NEW r \in Refs, r.hop <= dd[r.id].hop
    PROVE  /\ r.hop <= dd'[r.id].hop
           /\ \A a : Lies(r, a) => Lies(r, a)'
           /\ (Unspent(r) => dd[r.id].stage = "block") => (Unspent(r)' => dd'[r.id].stage = "block")
<1>1. r.id \in DdIds /\ r.hop \in Nat
  BY DEF Refs
<1>2. dd[r.id].hop \in Nat /\ dd'[r.id].hop \in Nat
  BY <1>1 DEF RedeemTyped
<1>3. CASE dd'[r.id].hop > dd[r.id].hop
  <2>1. dd'[r.id].hop # r.hop /\ r.hop <= dd'[r.id].hop
    BY <1>1, <1>2, <1>3
  <2> QED BY <2>1 DEF Lies, Unspent
<1>4. CASE /\ dd'[r.id].hop = dd[r.id].hop /\ dd'[r.id].at = dd[r.id].at
           /\ dd[r.id].stage = "block" => dd'[r.id].stage \in {"block", "gone"}
           /\ dd[r.id].stage = "gone" => dd'[r.id].stage = "gone"
  BY <1>4 DEF Lies, Unspent
<1> QED BY <1>1, <1>3, <1>4 DEF CoinsGoOn

LEMMA BurnKeeps ==
    ASSUME RedeemTyped, dd' \in [DdIds -> [at: Places, stage: {"mempool", "block", "gone"}, hop: Nat, by: Nat]],
           CoinsGoOn, NEW P, NEW b \in BurnRecs, BurnOK(P, b),
           gathers \in Seq(GatherRecs), Len(gathers') >= Len(gathers), Len(gathers') \in Nat,
           \A i \in 1 .. Len(gathers) : gathers'[i].legs = gathers[i].legs
    PROVE  BurnOK(P, b)'
<1>1. CASE b.coins = {}
  BY <1>1 DEF BurnOK
<1>2. CASE b.coins # {}
  <2>1. b.coins \subseteq Refs
    BY DEF BurnRecs
  <2>2. b.by \in 1 .. Len(gathers') /\ IsFiniteSet(b.coins)
    BY <1>2 DEF BurnOK
  <2>3. \A r \in b.coins : r.hop <= dd'[r.id].hop /\ Lies(r, P[b.by])'
    BY <1>2, <2>1, RefsKeep DEF BurnOK
  <2>4. \/ gathers'[b.by].legs = {}
        \/ Cardinality(b.coins) < Need[P[b.by]]
        \/ \A r \in b.coins : Unspent(r)' => dd'[r.id].stage = "block"
    BY <1>2, <2>1, RefsKeep DEF BurnOK
  <2> QED BY <2>2, <2>3, <2>4 DEF BurnOK
<1> QED BY <1>1, <1>2

LEMMA RedemptionKeeps ==
    ASSUME RedeemTyped, dd' \in [DdIds -> [at: Places, stage: {"mempool", "block", "gone"}, hop: Nat, by: Nat]],
           CoinsGoOn, NEW t \in RedemptionRecs, RedemptionOK(t)
    PROVE  RedemptionOK(t)'
<1>1. t.burn \subseteq Refs
  BY DEF RedemptionRecs
<1>2. \A r \in t.burn : r.hop <= dd'[r.id].hop
  BY <1>1, RefsKeep DEF RedemptionOK
<1>3. \E p \in Positions : \A r \in t.burn : Lies(r, p)'
  <2>1. PICK p \in Positions : \A r \in t.burn : Lies(r, p)
    BY DEF RedemptionOK
  <2>2. \A r \in t.burn : Lies(r, p)'
    BY <2>1, <1>1, RefsKeep DEF RedemptionOK
  <2> QED BY <2>2
<1>4. t.own => \A r \in t.burn : Lies(r, t.pos)' /\ (t.gathered /\ Unspent(r)' => dd'[r.id].stage = "block")
  BY <1>1, RefsKeep DEF RedemptionOK
<1> QED BY <1>2, <1>3, <1>4 DEF RedemptionOK

\* Everything but the coins' whereabouts and the reviews so far is as it was.
LEMMA AllKeep ==
    ASSUME RedeemTyped, dd' \in [DdIds -> [at: Places, stage: {"mempool", "block", "gone"}, hop: Nat, by: Nat]],
           CoinsGoOn, NEW P, Consistent(P), gathers' \in Seq(GatherRecs), Len(gathers') = Len(gathers),
           \A i \in 1 .. Len(gathers) : gathers'[i].legs = gathers[i].legs
    PROVE  /\ \A x \in DraftRecs : DraftOK(P, x) => DraftOK(P, x)'
           /\ \A g \in GoingRecs : GoingOK(P, g) => GoingOK(P, g)'
           /\ \A t \in redemptions : RedemptionOK(t)'
<1>0. /\ gathers \in Seq(GatherRecs) /\ Len(gathers') >= Len(gathers) /\ Len(gathers') \in Nat
  BY DEF RedeemTyped
<1>1. ASSUME NEW x \in DraftRecs, DraftOK(P, x) PROVE DraftOK(P, x)'
  <2>1. CASE x = NoRedeem
    BY <2>1 DEF DraftOK
  <2>2. CASE x # NoRedeem
    <3>1. x.burn \in BurnRecs
      BY DEF DraftRecs
    <3>2. BurnOK(P, x.burn)'
      BY <1>0, <1>1, <2>2, <3>1, BurnKeeps DEF DraftOK
    <3> QED BY <3>2, <1>1, <2>2 DEF DraftOK
  <2> QED BY <2>1, <2>2
<1>2. ASSUME NEW g \in GoingRecs, GoingOK(P, g) PROVE GoingOK(P, g)'
  <2>1. CASE g = NotGoing
    BY <2>1 DEF GoingOK
  <2>2. CASE g # NotGoing
    <3>1. g.burn \in BurnRecs
      BY DEF GoingRecs
    <3>2. BurnOK(P, g.burn)'
      BY <1>0, <1>2, <2>2, <3>1, BurnKeeps DEF GoingOK
    <3> QED BY <3>2, <1>2, <2>2 DEF GoingOK
  <2> QED BY <2>1, <2>2
<1>3. ASSUME NEW t \in redemptions PROVE RedemptionOK(t)'
  <2>1. t \in RedemptionRecs /\ RedemptionOK(t)
    BY DEF RedeemTyped, Consistent
  <2> QED BY <2>1, RedemptionKeeps
<1> QED BY <1>1, <1>2, <1>3

LEMMA CoinsStand ==
    ASSUME RedeemTyped, dd' = dd
    PROVE  /\ dd' \in [DdIds -> [at: Places, stage: {"mempool", "block", "gone"}, hop: Nat, by: Nat]]
           /\ CoinsGoOn
BY DEF RedeemTyped, CoinsGoOn

-----------------------------------------------------------------------------
(* Signing *)

\* What is signed burns enough, of one position; of its own, and confirmed, when the
\* burn is that of its own review.
LEMMA SignsSound ==
    ASSUME RedeemAssumption, RedeemTyped, NEW P \in [1 .. Len(gathers) -> Positions], Consistent(P),
           NEW g \in GoingRecs, g.number \in 1 .. Len(gathers), g.pos = P[g.number], BurnOK(P, g.burn),
           NEW d \in DraftRecs, d.number \in 1 .. Len(gathers), d.pos = P[d.number], BurnOK(P, d.burn),
           NEW burn \in BurnRecs, BurnOK(P, burn), Signs(g, d, burn)
    PROVE  /\ going' \in GoingRecs /\ GoingOK(P, going')
           /\ pending' \in DraftRecs /\ DraftOK(P, pending')
           /\ redemptions' \subseteq RedemptionRecs /\ IsFiniteSet(redemptions')
           /\ \A t \in redemptions' : RedemptionOK(t)
<1>d. DraftOK(P, d)
  BY DEF DraftOK
<1> DEFINE tx == Cardinality(redemptions) + 1
<1>0. tx \in Nat
  BY FS_CardinalityType DEF RedeemTyped
<1> HIDE DEF tx
<1>1. /\ redemptions \subseteq RedemptionRecs /\ IsFiniteSet(redemptions)
      /\ \A t \in redemptions : RedemptionOK(t)
  BY DEF RedeemTyped, Consistent
<1>2. NotGoing \in GoingRecs /\ GoingOK(P, NotGoing)
  BY NoRecs DEF GoingOK
\* The confirmation goes on to send transaction n.
<1>3. ASSUME NEW n \in Nat PROVE /\ [g EXCEPT !.phase = "send", !.tx = n] \in GoingRecs
                                 /\ GoingOK(P, [g EXCEPT !.phase = "send", !.tx = n])
  <2> DEFINE h == [g EXCEPT !.phase = "send", !.tx = n]
  <2>1. h \in GoingRecs /\ h.number = g.number /\ h.pos = g.pos /\ h.burn = g.burn
    BY DEF GoingRecs
  <2> HIDE DEF h
  <2>2. GoingOK(P, h)
    BY <2>1 DEF GoingOK
  <2> QED BY <2>1, <2>2 DEF h
<1>4. CASE d.signed # 0
  <2>1. going' = [g EXCEPT !.phase = "send", !.tx = d.signed] /\ pending' = d /\ redemptions' = redemptions
    BY <1>4 DEF Signs
  <2>2. d.signed \in Nat
    BY DEF DraftRecs
  <2> QED BY <2>1, <2>2, <1>1, <1>3, <1>d
<1>5. CASE d.signed = 0 /\ Covers(g.pos, burn)
  <2> DEFINE t == [tx |-> tx, pos |-> g.pos, burn |-> burn.coins, own |-> burn.by = g.number,
                   gathered |-> Gather(g.number).legs # {}]
  <2>1. /\ redemptions' = redemptions \union {t}
        /\ going' = [g EXCEPT !.phase = "send", !.tx = tx]
        /\ pending' = [d EXCEPT !.signed = tx]
    BY <1>5 DEF Signs, tx
  <2>2. pending' \in DraftRecs /\ DraftOK(P, pending')
    <3>1. pending' \in DraftRecs /\ pending'.number = d.number /\ pending'.pos = d.pos /\ pending'.burn = d.burn
      BY <2>1, <1>0 DEF DraftRecs
    <3> QED BY <3>1 DEF DraftOK
  <2>3. t \in RedemptionRecs
    <3>1. g.pos \in Places /\ burn.coins \in SUBSET Refs
      BY DEF GoingRecs, BurnRecs
    <3> QED BY <3>1, <1>0 DEF RedemptionRecs
  <2>4. RedemptionOK(t)
    <3>1. g.pos \in Positions /\ Need[g.pos] \in Nat \ {0} /\ Cardinality(burn.coins) >= Need[g.pos]
      BY <1>5 DEF Covers, RedeemAssumption
    <3>2. burn.coins # {}
      <4>1. Cardinality({}) = 0 /\ ~(0 >= Need[g.pos])
        BY <3>1, FS_EmptySet
      <4> QED BY <4>1, <3>1
    <3>3. /\ burn.by \in 1 .. Len(gathers) /\ IsFiniteSet(burn.coins)
          /\ \A r \in burn.coins : r.hop <= dd[r.id].hop /\ Lies(r, P[burn.by])
          /\ \/ gathers[burn.by].legs = {}
             \/ Cardinality(burn.coins) < Need[P[burn.by]]
             \/ \A r \in burn.coins : Unspent(r) => dd[r.id].stage = "block"
      BY <3>2 DEF BurnOK
    <3>4. P[burn.by] \in Positions
      BY <3>3
    <3>5. ASSUME burn.by = g.number, gathers[g.number].legs # {}
          PROVE \A r \in burn.coins : Unspent(r) => dd[r.id].stage = "block"
      <4>1. CASE Cardinality(burn.coins) < Need[P[burn.by]]
        <5>1. Cardinality(burn.coins) < Need[g.pos]
          BY <4>1, <3>5
        <5>2. Cardinality(burn.coins) \in Nat
          BY <3>3, FS_CardinalityType
        <5> QED BY <5>1, <5>2, <3>1
      <4> QED BY <4>1, <3>3, <3>5
    <3>6. g.number # 0
      OBVIOUS
    <3>7. Gather(g.number) = gathers[g.number]
      BY <3>6 DEF Gather
    <3> QED BY <3>1, <3>3, <3>4, <3>5, <3>7 DEF RedemptionOK
  <2> HIDE DEF t
  <2>5. redemptions' \subseteq RedemptionRecs /\ IsFiniteSet(redemptions') /\ \A u \in redemptions' : RedemptionOK(u)
    BY <2>1, <2>3, <2>4, <1>1, FS_AddElement
  <2> QED BY <2>1, <2>2, <2>5, <1>0, <1>3
<1>6. CASE d.signed = 0 /\ ~Covers(g.pos, burn)
  <2>1. going' = NotGoing /\ pending' = d /\ redemptions' = redemptions
    BY <1>6 DEF Signs, Throws
  <2> QED BY <2>1, <1>1, <1>2, <1>d
<1> QED BY <1>4, <1>5, <1>6

\* The confirmation g goes on with the draft d: it signs, or waits for a fee coin.
LEMMA ProceedsSound ==
    ASSUME RedeemAssumption, RedeemTyped, NEW P \in [1 .. Len(gathers) -> Positions], Consistent(P),
           NEW g \in GoingRecs, g.number \in 1 .. Len(gathers), g.pos = P[g.number], BurnOK(P, g.burn),
           NEW d \in DraftRecs, d.number \in 1 .. Len(gathers), d.pos = P[d.number], BurnOK(P, d.burn),
           Proceeds(g, d)
    PROVE  /\ going' \in GoingRecs /\ GoingOK(P, going')
           /\ pending' \in DraftRecs /\ DraftOK(P, pending')
           /\ redemptions' \subseteq RedemptionRecs /\ IsFiniteSet(redemptions')
           /\ \A t \in redemptions' : RedemptionOK(t)
<1>1. d.burn \in BurnRecs
  BY DEF DraftRecs
<1>2. CASE d.deferred
  <2>1. going' = [g EXCEPT !.phase = "fee", !.burn = d.burn] /\ pending' = d /\ redemptions' = redemptions
    BY <1>2 DEF Proceeds
  <2>2. /\ going' \in GoingRecs /\ going'.number = g.number /\ going'.pos = g.pos
        /\ going'.burn = d.burn
    BY <2>1, <1>1 DEF GoingRecs
  <2> DEFINE h == going'
  <2>3. h.number = g.number /\ h.pos = g.pos /\ h.burn = d.burn
    BY <2>2
  <2> HIDE DEF h
  <2>4. GoingOK(P, h)
    BY <2>3 DEF GoingOK
  <2>5. DraftOK(P, d)
    BY DEF DraftOK
  <2>6. /\ redemptions \subseteq RedemptionRecs /\ IsFiniteSet(redemptions)
        /\ \A t \in redemptions : RedemptionOK(t)
    BY DEF RedeemTyped, Consistent
  <2> QED BY <2>1, <2>2, <2>4, <2>5, <2>6 DEF h
<1>3. CASE ~d.deferred
  <2>1. Signs(g, d, d.burn)
    BY <1>3 DEF Proceeds
  <2> QED BY <2>1, <1>1, SignsSound
<1> QED BY <1>2, <1>3

-----------------------------------------------------------------------------
(* The steps *)

\* A step that starts no review keeps the invariant when the coins go on and what is
\* pending, under way or signed after it is consistent with the coins before it.
LEMMA StepKeeps ==
    ASSUME RedeemAssumption, RedeemTyped, NEW P \in [1 .. Len(gathers) -> Positions], Consistent(P),
           dd' \in [DdIds -> [at: Places, stage: {"mempool", "block", "gone"}, hop: Nat, by: Nat]], CoinsGoOn,
           gathers' \in Seq(GatherRecs), Len(gathers') = Len(gathers),
           \A i \in 1 .. Len(gathers) : gathers'[i].legs = gathers[i].legs,
           planning' \subseteq planning,
           pending' \in DraftRecs, DraftOK(P, pending'),
           going' \in GoingRecs, GoingOK(P, going'),
           redemptions' \subseteq RedemptionRecs, IsFiniteSet(redemptions'),
           \A t \in redemptions' : RedemptionOK(t)
    PROVE  RedeemInv'
<1>1. RedeemTyped'
  BY DEF RedeemTyped
<1>2. /\ \A x \in DraftRecs : DraftOK(P, x) => DraftOK(P, x)'
      /\ \A g \in GoingRecs : GoingOK(P, g) => GoingOK(P, g)'
  BY AllKeep
<1>3. (\A x \in planning : DraftOK(P, x))'
  BY <1>2 DEF Consistent, RedeemTyped
<1>4. DraftOK(P, pending)' /\ GoingOK(P, going)'
  BY <1>2
<1>5. (\A t \in redemptions : RedemptionOK(t))'
  BY RedemptionKeeps
<1>6. Consistent(P)'
  BY <1>3, <1>4, <1>5 DEF Consistent
<1>7. P \in [1 .. Len(gathers') -> Positions]
  OBVIOUS
<1> QED BY <1>1, <1>6, <1>7 DEF RedeemInv

\* Neither a coin nor a gather is touched.
LEMMA DraftStep ==
    ASSUME RedeemAssumption, RedeemTyped, NEW P \in [1 .. Len(gathers) -> Positions], Consistent(P),
           dd' = dd, gathers' = gathers, planning' \subseteq planning,
           pending' \in DraftRecs, DraftOK(P, pending'),
           going' \in GoingRecs, GoingOK(P, going'),
           redemptions' \subseteq RedemptionRecs, IsFiniteSet(redemptions'),
           \A t \in redemptions' : RedemptionOK(t)
    PROVE  RedeemInv'
<1>1. gathers' \in Seq(GatherRecs) /\ Len(gathers') = Len(gathers)
  BY DEF RedeemTyped
<1> QED BY <1>1, CoinsStand, StepKeeps

\* What does not change is consistent.
LEMMA AsItWas ==
    ASSUME RedeemTyped, NEW P, Consistent(P)
    PROVE  /\ pending \in DraftRecs /\ DraftOK(P, pending)
           /\ going \in GoingRecs /\ GoingOK(P, going)
           /\ NotGoing \in GoingRecs /\ GoingOK(P, NotGoing)
           /\ NoRedeem \in DraftRecs /\ DraftOK(P, NoRedeem)
           /\ redemptions \subseteq RedemptionRecs /\ IsFiniteSet(redemptions)
           /\ \A t \in redemptions : RedemptionOK(t)
BY NoRecs DEF RedeemTyped, Consistent, DraftOK, GoingOK

LEMMA StepDone ==
    ASSUME RedeemAssumption, RedeemInv, NEW plan \in planning, RedeemReviewDone(plan)
    PROVE  RedeemInv'
<1>1. PICK P \in [1 .. Len(gathers) -> Positions] : Consistent(P)
  BY DEF RedeemInv
<1>2. plan \in DraftRecs /\ DraftOK(P, plan)
  BY <1>1 DEF RedeemInv, RedeemTyped, Consistent
<1> QED BY <1>1, <1>2, AsItWas, DraftStep DEF RedeemReviewDone, RedeemInv

LEMMA StepCancelled ==
    ASSUME RedeemAssumption, RedeemInv, RedeemCancelled
    PROVE  RedeemInv'
<1>1. PICK P \in [1 .. Len(gathers) -> Positions] : Consistent(P)
  BY DEF RedeemInv
<1> QED BY <1>1, AsItWas, DraftStep DEF RedeemCancelled, RedeemInv

\* A confirmation that ends, and changes nothing else.
LEMMA StepThrows ==
    ASSUME RedeemAssumption, RedeemInv, LegFails \/ RescanFails \/ RedeemFails
    PROVE  RedeemInv'
<1>1. PICK P \in [1 .. Len(gathers) -> Positions] : Consistent(P)
  BY DEF RedeemInv
<1>2. /\ going' = NotGoing
      /\ UNCHANGED <<dd, planning, pending, gathers, redemptions>>
  BY DEF LegFails, RescanFails, RedeemFails, Throws
<1> QED BY <1>1, <1>2, AsItWas, DraftStep DEF RedeemInv

LEMMA StepGoes ==
    ASSUME RedeemAssumption, RedeemInv, Goes
    PROVE  RedeemInv'
<1>1. PICK P \in [1 .. Len(gathers) -> Positions] : Consistent(P)
  BY DEF RedeemInv
<1>2. RedeemTyped
  BY DEF RedeemInv
<1>3. /\ pending \in DraftRecs /\ pending.number \in 1 .. Len(gathers) /\ pending.pos = P[pending.number]
      /\ BurnOK(P, pending.burn)
  BY <1>1, <1>2 DEF Goes, Consistent, DraftOK, RedeemTyped
<1> DEFINE g == [NotGoing EXCEPT !.number = pending.number, !.pos = pending.pos]
<1>4. g \in GoingRecs /\ g.number = pending.number /\ g.pos = pending.pos /\ g.burn.coins = {}
  BY <1>3, NoRecs DEF NotGoing, NoBurn, GoingRecs, DraftRecs
<1>5. dd' = dd /\ gathers' = gathers /\ planning' = planning
  BY DEF Goes
<1>6. \/ Proceeds(g, pending)
      \/ going' = [g EXCEPT !.phase = "legs"] /\ pending' = pending /\ redemptions' = redemptions
  BY DEF Goes
<1> HIDE DEF g
<1>7. BurnOK(P, g.burn)
  BY <1>4 DEF BurnOK
<1>8. CASE Proceeds(g, pending)
  <2>1. g.number \in 1 .. Len(gathers) /\ g.pos = P[g.number]
    BY <1>3, <1>4
  <2>2. /\ going' \in GoingRecs /\ GoingOK(P, going')
        /\ pending' \in DraftRecs /\ DraftOK(P, pending')
        /\ redemptions' \subseteq RedemptionRecs /\ IsFiniteSet(redemptions')
        /\ \A t \in redemptions' : RedemptionOK(t)
    BY <1>1, <1>2, <1>3, <1>4, <1>7, <1>8, <2>1, ProceedsSound
  <2> QED BY <1>1, <1>2, <1>5, <2>2, DraftStep
<1>9. CASE going' = [g EXCEPT !.phase = "legs"] /\ pending' = pending /\ redemptions' = redemptions
  <2>1. going' \in GoingRecs /\ going'.number = g.number /\ going'.pos = g.pos /\ going'.burn = g.burn
    BY <1>4, <1>9 DEF GoingRecs
  <2> DEFINE h == going'
  <2>2. h.number = g.number /\ h.pos = g.pos /\ h.burn = g.burn
    BY <2>1
  <2> HIDE DEF h
  <2>3. GoingOK(P, h)
    BY <2>2, <1>3, <1>4, <1>7 DEF GoingOK
  <2> QED BY <1>1, <1>2, <1>5, <1>9, <2>1, <2>3, AsItWas, DraftStep DEF h
<1> QED BY <1>6, <1>8, <1>9

LEMMA StepArrived ==
    ASSUME RedeemAssumption, RedeemInv, Arrived
    PROVE  RedeemInv'
<1>1. PICK P \in [1 .. Len(gathers) -> Positions] : Consistent(P)
  BY DEF RedeemInv
<1>2. RedeemTyped
  BY DEF RedeemInv
<1>3. going # NotGoing
  BY DEF Arrived, NotGoing
<1>4. /\ going \in GoingRecs /\ going.number \in 1 .. Len(gathers) /\ going.pos = P[going.number]
      /\ BurnOK(P, going.burn)
  BY <1>1, <1>2, <1>3 DEF Consistent, GoingOK, RedeemTyped
<1>5. dd' = dd /\ planning' = planning /\ pending' = pending /\ redemptions' = redemptions
  BY DEF Arrived
<1>6. CASE going' = NotGoing /\ gathers' = gathers
  BY <1>1, <1>2, <1>5, <1>6, AsItWas, DraftStep
<1>7. CASE gathers' = [gathers EXCEPT ![going.number].done = TRUE] /\ going' = [going EXCEPT !.phase = "scan"]
  <2>1. gathers[going.number] \in GatherRecs
    BY <1>2, <1>4 DEF RedeemTyped
  <2>2. /\ gathers' \in Seq(GatherRecs) /\ Len(gathers') = Len(gathers)
        /\ \A i \in 1 .. Len(gathers) : gathers'[i].legs = gathers[i].legs
    <3> DEFINE n == going.number
               t == [gathers[n] EXCEPT !.done = TRUE]
    <3>1. gathers' = [gathers EXCEPT ![n] = t]
      BY <1>7
    <3>2. t \in GatherRecs /\ t.legs = gathers[n].legs
      BY <2>1 DEF GatherRecs
    <3>3. n \in 1 .. Len(gathers) /\ gathers \in Seq(GatherRecs)
      BY <1>2, <1>4 DEF RedeemTyped
    <3> HIDE DEF n, t
    <3> QED BY <3>1, <3>2, <3>3
  <2>3. going' \in GoingRecs /\ going'.number = going.number /\ going'.pos = going.pos /\ going'.burn = going.burn
    BY <1>4, <1>7 DEF GoingRecs
  <2> DEFINE h == going'
  <2>4. h.number = going.number /\ h.pos = going.pos /\ h.burn = going.burn
    BY <2>3
  <2> HIDE DEF h
  <2>5. GoingOK(P, h)
    BY <2>4, <1>4 DEF GoingOK
  <2> QED BY <1>1, <1>2, <1>5, <2>2, <2>3, <2>5, AsItWas, CoinsStand, StepKeeps DEF h
<1> QED BY <1>6, <1>7 DEF Arrived, Throws

LEMMA StepRescanned ==
    ASSUME RedeemAssumption, RedeemInv, Rescanned
    PROVE  RedeemInv'
<1>1. PICK P \in [1 .. Len(gathers) -> Positions] : Consistent(P)
  BY DEF RedeemInv
<1>2. RedeemTyped
  BY DEF RedeemInv
<1>3. going # NotGoing
  BY DEF Rescanned, NotGoing
<1>4. /\ going \in GoingRecs /\ going.number \in 1 .. Len(gathers) /\ going.pos = P[going.number]
      /\ BurnOK(P, going.burn)
  BY <1>1, <1>2, <1>3 DEF Consistent, GoingOK, RedeemTyped
<1>5. dd' = dd /\ gathers' = gathers /\ planning' = planning
  BY DEF Rescanned
<1>6. PICK burn \in Burns(Confirmed(CoinsAt(going.pos)), Need[going.pos]) :
         IF Cardinality(burn) < Need[going.pos] \/ pending = NoRedeem
         THEN Throws /\ UNCHANGED <<pending, redemptions>>
         ELSE Proceeds(going, [pending EXCEPT !.burn = [coins |-> burn, by |-> going.number]])
  BY DEF Rescanned
<1>7. CASE Throws /\ UNCHANGED <<pending, redemptions>>
  BY <1>1, <1>2, <1>5, <1>7, AsItWas, DraftStep DEF Throws
<1>8. CASE pending # NoRedeem /\ Proceeds(going, [pending EXCEPT !.burn = [coins |-> burn, by |-> going.number]])
  <2> DEFINE b == [coins |-> burn, by |-> going.number]
             d == [pending EXCEPT !.burn = b]
  <2>1. /\ burn \subseteq CoinsAt(going.pos)
        /\ \A r \in burn : dd[r.id].stage = "block"
    BY DEF Burns, Confirmed
  <2>2. /\ burn \subseteq Refs /\ IsFiniteSet(burn)
        /\ \A r \in burn : r.hop = dd[r.id].hop /\ dd[r.id].at = going.pos
    BY <1>2, <2>1, CoinsType, FS_Subset
  <2>3. b \in BurnRecs
    BY <2>2, <1>4 DEF BurnRecs
  <2>4. BurnOK(P, b)
    <3>1. \A r \in burn : r.hop \in Nat
      BY <2>2 DEF Refs
    <3>2. \A r \in burn : r.hop <= dd[r.id].hop /\ Lies(r, P[going.number])
      BY <2>2, <3>1, <1>4 DEF Lies
    <3> QED BY <2>1, <2>2, <3>2, <1>4 DEF BurnOK
  <2>5. pending \in DraftRecs /\ pending.number \in 1 .. Len(gathers) /\ pending.pos = P[pending.number]
    BY <1>1, <1>2, <1>8 DEF Consistent, DraftOK, RedeemTyped
  <2> HIDE DEF b
  <2>6. d \in DraftRecs /\ d.number = pending.number /\ d.pos = pending.pos /\ d.burn = b
    BY <2>3, <2>5 DEF DraftRecs
  <2>7. Proceeds(going, d)
    BY <1>8 DEF b
  <2> HIDE DEF d
  <2>8. d.number \in 1 .. Len(gathers) /\ d.pos = P[d.number] /\ BurnOK(P, d.burn)
    BY <2>4, <2>5, <2>6
  <2>9. /\ going' \in GoingRecs /\ GoingOK(P, going')
        /\ pending' \in DraftRecs /\ DraftOK(P, pending')
        /\ redemptions' \subseteq RedemptionRecs /\ IsFiniteSet(redemptions')
        /\ \A t \in redemptions' : RedemptionOK(t)
    BY <1>1, <1>2, <1>4, <2>6, <2>7, <2>8, ProceedsSound
  <2> QED BY <1>1, <1>2, <1>5, <2>9, DraftStep
<1> QED BY <1>6, <1>7, <1>8

LEMMA StepFeePicked ==
    ASSUME RedeemAssumption, RedeemInv, FeePicked
    PROVE  RedeemInv'
<1>1. PICK P \in [1 .. Len(gathers) -> Positions] : Consistent(P)
  BY DEF RedeemInv
<1>2. RedeemTyped
  BY DEF RedeemInv
<1>3. going # NotGoing /\ pending # NoRedeem
  BY DEF FeePicked, NotGoing
<1>4. /\ going \in GoingRecs /\ going.number \in 1 .. Len(gathers) /\ going.pos = P[going.number]
      /\ BurnOK(P, going.burn) /\ going.burn \in BurnRecs
  BY <1>1, <1>2, <1>3 DEF Consistent, GoingOK, RedeemTyped, GoingRecs
<1>5. dd' = dd /\ gathers' = gathers /\ planning' = planning
  BY DEF FeePicked
<1> DEFINE d == [pending EXCEPT !.deferred = FALSE]
<1>6. /\ pending \in DraftRecs /\ pending.number \in 1 .. Len(gathers) /\ pending.pos = P[pending.number]
      /\ BurnOK(P, pending.burn)
  BY <1>1, <1>2, <1>3 DEF Consistent, DraftOK, RedeemTyped
<1>7. d \in DraftRecs /\ d.number = pending.number /\ d.pos = pending.pos /\ d.burn = pending.burn
  BY <1>6 DEF DraftRecs
<1>8. Signs(going, d, going.burn)
  BY DEF FeePicked
<1> HIDE DEF d
<1>9. d.number \in 1 .. Len(gathers) /\ d.pos = P[d.number] /\ BurnOK(P, d.burn)
  BY <1>6, <1>7
<1>10. /\ going' \in GoingRecs /\ GoingOK(P, going')
       /\ pending' \in DraftRecs /\ DraftOK(P, pending')
       /\ redemptions' \subseteq RedemptionRecs /\ IsFiniteSet(redemptions')
       /\ \A t \in redemptions' : RedemptionOK(t)
  BY <1>1, <1>2, <1>4, <1>7, <1>8, <1>9, SignsSound
<1> QED BY <1>1, <1>2, <1>5, <1>10, DraftStep

LEMMA StepLeg ==
    ASSUME RedeemAssumption, RedeemInv, NEW r \in Gather(going.number).legs, LegTaken(r)
    PROVE  RedeemInv'
<1>1. PICK P \in [1 .. Len(gathers) -> Positions] : Consistent(P)
  BY DEF RedeemInv
<1>2. RedeemTyped
  BY DEF RedeemInv
<1>3. going # NotGoing
  BY DEF LegTaken, NotGoing
<1>4. /\ going \in GoingRecs /\ going.number \in 1 .. Len(gathers) /\ going.pos = P[going.number]
      /\ BurnOK(P, going.burn)
  BY <1>1, <1>2, <1>3 DEF Consistent, GoingOK, RedeemTyped
<1>5. r \in Refs
  <2>1. gathers[going.number] \in GatherRecs
    BY <1>2, <1>4 DEF RedeemTyped
  <2>2. Gather(going.number) = gathers[going.number]
    BY <1>4 DEF Gather
  <2> QED BY <2>1, <2>2 DEF GatherRecs
<1>6. /\ dd' \in [DdIds -> [at: Places, stage: {"mempool", "block", "gone"}, hop: Nat, by: Nat]]
      /\ CoinsGoOn
  <2>1. CASE dd' = dd
    BY <2>1, <1>2, CoinsStand
  <2>2. CASE /\ Unspent(r)
             /\ dd' = [dd EXCEPT ![r.id] = [at |-> going.pos, stage |-> "mempool", hop |-> r.hop + 1,
                                            by |-> going.number]]
    <3>1. r.id \in DdIds /\ r.hop \in Nat /\ dd[r.id].hop = r.hop
      BY <2>2, <1>5 DEF Refs, Unspent
    <3>2. [at |-> going.pos, stage |-> "mempool", hop |-> r.hop + 1, by |-> going.number]
             \in [at: Places, stage: {"mempool", "block", "gone"}, hop: Nat, by: Nat]
      BY <3>1, <1>4 DEF GoingRecs
    <3>3. dd' \in [DdIds -> [at: Places, stage: {"mempool", "block", "gone"}, hop: Nat, by: Nat]]
      BY <3>1, <3>2, <2>2, <1>2 DEF RedeemTyped
    <3>4. dd'[r.id].hop > dd[r.id].hop /\ \A c \in DdIds \ {r.id} : dd'[c] = dd[c]
      BY <3>1, <2>2, <1>2 DEF RedeemTyped
    <3> QED BY <3>3, <3>4 DEF CoinsGoOn
  <2> QED BY <2>1, <2>2 DEF LegTaken
<1>7. planning' = planning /\ pending' = pending /\ gathers' = gathers /\ redemptions' = redemptions
  BY DEF LegTaken
<1>8. going' \in GoingRecs /\ GoingOK(P, going')
  <2>1. CASE going' = NotGoing
    BY <2>1, <1>1, <1>2, AsItWas
  <2>2. CASE going' = [going EXCEPT !.sent = @ \union {r}]
    <3>1. going' \in GoingRecs /\ going'.number = going.number /\ going'.pos = going.pos /\ going'.burn = going.burn
      BY <1>4, <1>5, <2>2 DEF GoingRecs
    <3> DEFINE h == going'
    <3>2. h.number = going.number /\ h.pos = going.pos /\ h.burn = going.burn
      BY <3>1
    <3> HIDE DEF h
    <3>3. GoingOK(P, h)
      BY <3>2, <1>4 DEF GoingOK
    <3> QED BY <3>1, <3>3 DEF h
  <2> QED BY <2>1, <2>2 DEF LegTaken, Throws
<1>9. gathers' \in Seq(GatherRecs) /\ Len(gathers') = Len(gathers)
  BY <1>2, <1>7 DEF RedeemTyped
<1> QED BY <1>1, <1>2, <1>6, <1>7, <1>8, <1>9, AsItWas, StepKeeps

\* A coin that is burned or spent lies where it lay.
LEMMA StepRedeemTaken ==
    ASSUME RedeemAssumption, RedeemInv, NEW t \in redemptions, RedeemTaken(t)
    PROVE  RedeemInv'
<1>1. PICK P \in [1 .. Len(gathers) -> Positions] : Consistent(P)
  BY DEF RedeemInv
<1>2. RedeemTyped
  BY DEF RedeemInv
<1>3. dd' = [c \in DdIds |-> IF Ref(c) \in t.burn THEN [dd[c] EXCEPT !.stage = "gone"] ELSE dd[c]]
  BY DEF RedeemTaken
<1>4. ASSUME NEW c \in DdIds
      PROVE /\ dd'[c] \in [at: Places, stage: {"mempool", "block", "gone"}, hop: Nat, by: Nat]
            /\ dd'[c].hop = dd[c].hop /\ dd'[c].at = dd[c].at /\ dd'[c].stage \in {dd[c].stage, "gone"}
  <2>1. dd[c] \in [at: Places, stage: {"mempool", "block", "gone"}, hop: Nat, by: Nat]
    BY <1>2 DEF RedeemTyped
  <2>2. dd'[c] = dd[c] \/ dd'[c] = [dd[c] EXCEPT !.stage = "gone"]
    BY <1>3
  <2> QED BY <2>1, <2>2
<1>5. dd' \in [DdIds -> [at: Places, stage: {"mempool", "block", "gone"}, hop: Nat, by: Nat]]
  BY <1>3, <1>4
<1>6. CoinsGoOn
  BY <1>4 DEF CoinsGoOn
<1>7. /\ planning' = planning /\ gathers' = gathers /\ redemptions' = redemptions /\ going' = NotGoing
      /\ pending' = NoRedeem \/ pending' = pending
  BY DEF RedeemTaken, Throws
<1>8. gathers' \in Seq(GatherRecs) /\ Len(gathers') = Len(gathers)
  BY <1>2, <1>7 DEF RedeemTyped
<1> QED BY <1>1, <1>2, <1>5, <1>6, <1>7, <1>8, AsItWas, StepKeeps

LEMMA StepChain ==
    ASSUME RedeemAssumption, RedeemInv, NEW c \in DdIds, DdMined(c) \/ SpentElsewhere(c)
    PROVE  RedeemInv'
<1>1. PICK P \in [1 .. Len(gathers) -> Positions] : Consistent(P)
  BY DEF RedeemInv
<1>2. RedeemTyped
  BY DEF RedeemInv
<1>3. PICK s \in {"block", "gone"} :
         dd' = [dd EXCEPT ![c].stage = s] /\ (s = "block" => dd[c].stage = "mempool")
  BY DEF DdMined, SpentElsewhere
<1> DEFINE k == [dd[c] EXCEPT !.stage = s]
<1>4. /\ k \in [at: Places, stage: {"mempool", "block", "gone"}, hop: Nat, by: Nat]
      /\ k.hop = dd[c].hop /\ k.at = dd[c].at /\ k.stage = s
  BY <1>2 DEF RedeemTyped
<1>5. dd' = [dd EXCEPT ![c] = k]
  BY <1>3
<1> HIDE DEF k
<1>6. /\ dd' \in [DdIds -> [at: Places, stage: {"mempool", "block", "gone"}, hop: Nat, by: Nat]]
      /\ dd'[c] = k /\ \A e \in DdIds \ {c} : dd'[e] = dd[e]
  BY <1>2, <1>4, <1>5 DEF RedeemTyped
<1>7. CoinsGoOn
  BY <1>3, <1>4, <1>6 DEF CoinsGoOn
<1>8. planning' = planning /\ pending' = pending /\ gathers' = gathers /\ redemptions' = redemptions /\ going' = going
  BY DEF DdMined, SpentElsewhere
<1>9. gathers' \in Seq(GatherRecs) /\ Len(gathers') = Len(gathers)
  BY <1>2, <1>8 DEF RedeemTyped
<1> QED BY <1>1, <1>2, <1>6, <1>7, <1>8, <1>9, AsItWas, StepKeeps

\* One review more: what was said of the reviews so far stands.
LEMMA MoreReviews ==
    ASSUME NEW P, NEW Q, \A i \in 1 .. Len(gathers) : Q[i] = P[i], Consistent(P)
    PROVE  Consistent(Q)
<1>1. \A b : BurnOK(P, b) => BurnOK(Q, b)
  BY DEF BurnOK
<1>2. \A x : DraftOK(P, x) => DraftOK(Q, x)
  BY <1>1 DEF DraftOK
<1>3. \A x : GoingOK(P, x) => GoingOK(Q, x)
  BY <1>1 DEF GoingOK
<1> QED BY <1>2, <1>3 DEF Consistent

\* Where there is something to gather, the burn at hand does not suffice.
LEMMA LegsMakeUp ==
    ASSUME NEW n \in Nat, NEW S, NEW T, IsFiniteSet(S), IsFiniteSet(T),
           NEW burn \in Burns(S, n), NEW legs \in Burns(T, n - Cardinality(burn)), legs # {}
    PROVE  Cardinality(burn) < n
<1>1. Cardinality(S) \in Nat /\ Cardinality(T) \in Nat
  BY FS_CardinalityType
<1>2. Cardinality(burn) \in Nat /\ Cardinality(burn) <= n
  BY <1>1 DEF Burns
<1>3. IsFiniteSet(legs)
  BY FS_Subset DEF Burns
<1>4. Cardinality(legs) # 0
  BY <1>3, FS_EmptySet
<1>5. Cardinality(burn) = n => Cardinality(legs) = 0
  BY <1>1 DEF Burns
<1> QED BY <1>2, <1>4, <1>5

LEMMA StepStarts ==
    ASSUME RedeemAssumption, RedeemInv, NEW p \in Positions, RedeemReviewStarts(p)
    PROVE  RedeemInv'
<1>1. PICK P \in [1 .. Len(gathers) -> Positions] : Consistent(P)
  BY DEF RedeemInv
<1>2. RedeemTyped
  BY DEF RedeemInv
<1>n. PICK n \in Nat : n = Len(gathers) + 1
  BY <1>2 DEF RedeemTyped
<1>q. PICK Q \in [1 .. n -> Positions] : Q = [i \in 1 .. n |-> IF i = n THEN p ELSE P[i]]
  <2>1. Len(gathers) \in Nat
    BY <1>2 DEF RedeemTyped
  <2>2. [i \in 1 .. n |-> IF i = n THEN p ELSE P[i]] \in [1 .. n -> Positions]
    BY <2>1, <1>n
  <2> QED BY <2>2
<1>3. PICK burn \in Burns(CoinsAt(p), Need[p]), deferred \in BOOLEAN :
      \E legs \in Burns(AllCoins \ CoinsAt(p), Need[p] - Cardinality(burn)) :
          /\ gathers' = Append(gathers, [NoGather EXCEPT !.legs = legs])
          /\ planning' = planning \union {[number |-> Len(gathers'), pos |-> p, signed |-> 0,
                          deferred |-> deferred, burn |-> [coins |-> burn, by |-> Len(gathers')]]}
  BY DEF RedeemReviewStarts
<1>4. PICK legs \in Burns(AllCoins \ CoinsAt(p), Need[p] - Cardinality(burn)) :
          /\ gathers' = Append(gathers, [NoGather EXCEPT !.legs = legs])
          /\ planning' = planning \union {[number |-> Len(gathers'), pos |-> p, signed |-> 0,
                          deferred |-> deferred, burn |-> [coins |-> burn, by |-> Len(gathers')]]}
  BY <1>3
<1> DEFINE k == [NoGather EXCEPT !.legs = legs]
           b == [coins |-> burn, by |-> n]
           plan == [number |-> n, pos |-> p, signed |-> 0, deferred |-> deferred, burn |-> b]
<1>5. CoinsAt(p) \subseteq Refs /\ IsFiniteSet(CoinsAt(p)) /\ AllCoins \subseteq Refs /\ IsFiniteSet(AllCoins)
  BY <1>2, CoinsType, AllCoinsType
<1>6. /\ burn \subseteq CoinsAt(p) /\ burn \subseteq Refs /\ IsFiniteSet(burn)
      /\ legs \subseteq Refs /\ IsFiniteSet(AllCoins \ CoinsAt(p))
  BY <1>5, FS_Subset DEF Burns
<1>7. k \in GatherRecs /\ k.legs = legs
  BY <1>6 DEF NoGather, GatherRecs
<1>8. Len(gathers) \in Nat /\ gathers \in Seq(GatherRecs)
  BY <1>2 DEF RedeemTyped
<1>9. gathers' = Append(gathers, k)
  BY <1>4
<1> HIDE DEF k
<1>10. /\ gathers' \in Seq(GatherRecs) /\ Len(gathers') = n /\ gathers'[n].legs = legs
       /\ \A i \in 1 .. Len(gathers) : gathers'[i] = gathers[i]
  BY <1>7, <1>8, <1>9, <1>n
<1>11. planning' = planning \union {plan}
  BY <1>4, <1>10
<1>12. Q \in [1 .. Len(gathers') -> Positions] /\ Q[n] = p /\ \A i \in 1 .. Len(gathers) : Q[i] = P[i]
  BY <1>8, <1>10, <1>n, <1>q
<1>13. Consistent(Q)
  BY <1>1, <1>12, MoreReviews
<1>14. dd' = dd /\ pending' = pending /\ going' = going /\ redemptions' = redemptions
  BY DEF RedeemReviewStarts
<1>15. plan \in DraftRecs
  BY <1>6, <1>8 DEF DraftRecs, BurnRecs, Places
<1>16. BurnOK(Q, b)'
  <2>1. legs = {} \/ Cardinality(burn) < Need[p]
    <3>1. Need[p] \in Nat
      BY DEF RedeemAssumption
    <3> QED BY <3>1, <1>5, <1>6, LegsMakeUp
  <2>2. \A r \in burn : r.hop = dd[r.id].hop /\ dd[r.id].at = p /\ r.hop \in Nat
    BY <1>2, <1>6, CoinsType DEF Refs
  <2>3. \A r \in burn : r.hop <= dd'[r.id].hop /\ Lies(r, Q[n])'
    BY <2>2, <1>12, <1>14 DEF Lies
  <2>4. n \in 1 .. Len(gathers')
    BY <1>8, <1>10, <1>n
  <2> QED BY <2>1, <2>3, <2>4, <1>6, <1>10, <1>12 DEF BurnOK
<1>17. DraftOK(Q, plan)'
  <2>1. n \in 1 .. Len(gathers')
    BY <1>8, <1>10, <1>n
  <2> QED BY <2>1, <1>12, <1>16 DEF DraftOK
<1>18. ASSUME NEW x \in BurnRecs, BurnOK(Q, x) PROVE BurnOK(Q, x)'
  <2>1. Len(gathers') >= Len(gathers) /\ Len(gathers') \in Nat
    BY <1>8, <1>10, <1>n
  <2> QED BY <2>1, <1>2, <1>8, <1>10, <1>14, <1>18, CoinsStand, BurnKeeps
<1>19. 1 .. Len(gathers) \subseteq 1 .. Len(gathers')
  BY <1>8, <1>10, <1>n
<1>20. ASSUME NEW x \in DraftRecs, DraftOK(Q, x) PROVE DraftOK(Q, x)'
  <2>1. x.burn \in BurnRecs
    BY DEF DraftRecs
  <2> QED BY <2>1, <1>18, <1>19, <1>20 DEF DraftOK
<1>21. ASSUME NEW x \in GoingRecs, GoingOK(Q, x) PROVE GoingOK(Q, x)'
  <2>1. x.burn \in BurnRecs
    BY DEF GoingRecs
  <2> QED BY <2>1, <1>18, <1>19, <1>21 DEF GoingOK
<1>22. (\A x \in planning : DraftOK(Q, x))'
  BY <1>2, <1>11, <1>13, <1>17, <1>20 DEF Consistent, RedeemTyped
<1>23. DraftOK(Q, pending)' /\ GoingOK(Q, going)'
  <2>1. DraftOK(Q, pending) /\ GoingOK(Q, going) /\ pending \in DraftRecs /\ going \in GoingRecs
    BY <1>2, <1>13 DEF Consistent, RedeemTyped
  <2>2. DraftOK(Q, pending') /\ GoingOK(Q, going') /\ pending' \in DraftRecs /\ going' \in GoingRecs
    BY <2>1, <1>14
  <2> QED BY <2>2, <1>20, <1>21
<1>24. (\A t \in redemptions : RedemptionOK(t))'
  BY <1>2, <1>13, <1>14, CoinsStand, RedemptionKeeps DEF Consistent, RedeemTyped
<1>25. Consistent(Q)'
  BY <1>22, <1>23, <1>24 DEF Consistent
<1>26. RedeemTyped'
  BY <1>2, <1>10, <1>11, <1>14, <1>15 DEF RedeemTyped
<1> QED BY <1>12, <1>25, <1>26 DEF RedeemInv

LEMMA RedeemStands ==
    ASSUME RedeemAssumption, RedeemInv, UNCHANGED redeemVars
    PROVE  RedeemInv'
<1>1. PICK P \in [1 .. Len(gathers) -> Positions] : Consistent(P)
  BY DEF RedeemInv
<1>2. /\ dd' = dd /\ planning' = planning /\ pending' = pending /\ gathers' = gathers /\ going' = going
      /\ redemptions' = redemptions
  BY DEF redeemVars
<1> QED BY <1>1, <1>2, AsItWas, DraftStep DEF RedeemInv

\* The invariant, whatever the coins, the positions and what they need.
THEOREM RedeemInvariant == RedeemSpec => []RedeemInv
<1> USE RedeemAssumption
<1>1. RedeemInit => RedeemInv
  BY RedeemInitInv
<1>2. RedeemInv /\ [RedeemNext]_redeemVars => RedeemInv'
  <2> SUFFICES ASSUME RedeemInv, [RedeemNext]_redeemVars PROVE RedeemInv'
    OBVIOUS
  <2>1. ASSUME NEW p \in Positions, RedeemReviewStarts(p) PROVE RedeemInv'
    BY <2>1, StepStarts
  <2>2. ASSUME NEW plan \in planning, RedeemReviewDone(plan) PROVE RedeemInv'
    BY <2>2, StepDone
  <2>3. CASE RedeemCancelled
    BY <2>3, StepCancelled
  <2>4. CASE Goes
    BY <2>4, StepGoes
  <2>5. ASSUME NEW r \in Gather(going.number).legs, LegTaken(r) PROVE RedeemInv'
    BY <2>5, StepLeg
  <2>6. CASE LegFails \/ RescanFails \/ RedeemFails
    BY <2>6, StepThrows
  <2>7. CASE Arrived
    BY <2>7, StepArrived
  <2>8. CASE Rescanned
    BY <2>8, StepRescanned
  <2>9. CASE FeePicked
    BY <2>9, StepFeePicked
  <2>10. ASSUME NEW t \in redemptions, RedeemTaken(t) PROVE RedeemInv'
    BY <2>10, StepRedeemTaken
  <2>11. ASSUME NEW c \in DdIds, DdMined(c) \/ SpentElsewhere(c) PROVE RedeemInv'
    BY <2>11, StepChain
  <2>12. CASE UNCHANGED redeemVars
    BY <2>12, RedeemStands
  <2> QED BY <2>1, <2>2, <2>3, <2>4, <2>5, <2>6, <2>7, <2>8, <2>9, <2>10, <2>11, <2>12 DEF RedeemNext
<1> QED BY <1>1, <1>2, PTL DEF RedeemSpec

\* Whatever is reviewed, cancelled, retried and spent elsewhere while a gather waits,
\* what is signed burns enough coins of one position's address; and of its own position's,
\* confirmed if they were gathered, unless its draft was given the burn of another
\* confirmation.
THEOREM BurnsCovered == RedeemSpec => []BurnCovers
<1>1. RedeemInv => BurnCovers
  BY DEF RedeemInv, Consistent, RedemptionOK, BurnCovers
<1> QED BY <1>1, RedeemInvariant, PTL
==============================================================================
