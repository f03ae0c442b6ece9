----------------------------- MODULE PlanProofs -----------------------------
(***************************************************************************)
(* What holds of the plans of TxPlan and of the transactions that TxBuild  *)
(* builds of them, for any coins, amounts, lengths of a script, needs,     *)
(* ceiling and prices (PlansSound).                                        *)
(*                                                                         *)
(* The plans add up coins, sort them and go through them one by one, so    *)
(* first comes what sums and folds are. An induction has no operator as a  *)
(* parameter here: what holds of every number is a set that holds zero and *)
(* goes on (NatAll), because a set of numbers has a least (NatLeast). A    *)
(* fold over a finite set exists (FoldExists), and what starts and goes on *)
(* like it is it (FoldsAgree), which gives the recursive functions inside  *)
(* MapThenSumSet() and FoldLeft() their values: sums may take any element  *)
(* off (SatsAdd, CentsAdd), and a fold over a sequence goes step by step   *)
(* (FoldSteps, FoldSame).                                                  *)
(*                                                                         *)
(* Then, in their order: fees are the network's for what is signed, spends *)
(* pay them, and what is refused could not; quotes; mints and transfers;   *)
(* the burn, the legs (GatherStep: what was gathered from the first coins) *)
(* and the fees of a redemption.                                           *)
(*                                                                         *)
(* What is built comes after: a list adds up one by one, and like its set  *)
(* when nothing is in it twice (SatsListed, CentsListed); a signature      *)
(* opens its coin when the list told the truth about the coins (Opens,     *)
(* Honest); then the four builders, each with what it lays out stated once *)
(* (TransferMade, RedeemMade, MintMade, SpendMade). The wallet's coins are *)
(* such coins in every state.                                              *)
(*                                                                         *)
(* Last, what is built is read back (ReadAsBuilt of module Readback).      *)
(* SatsAt adds up over places that lie apart (Apart), so an entry of the   *)
(* history, which tells the outputs that are the wallet's from the others, *)
(* accounts for all of a transaction as soon as its inputs are known to be *)
(* the wallet's (OwnTx, OwnRow, RowIsSound). DdAmountsByVout gives the     *)
(* k-th token the k-th amount of the metadata (Tokened, FirstHold,         *)
(* OneHolds), so an address reads what it was given.                       *)
(***************************************************************************)
EXTENDS Readback, FiniteSetTheorems, WellFoundedInduction, TLAPS

-----------------------------------------------------------------------------
(* Induction over the numbers, and over a set that is folded element by element *)

LEMMA NatLeast ==
    ASSUME NEW T, T \subseteq Nat, T # {}
    PROVE  \E m \in T : \A n \in T : m <= n
<1> DEFINE R == {ss \in Nat \X Nat : ss[1] < ss[2]}
<1>1. IsWellFoundedOn(R, Nat)
  BY NatLessThanWellFounded, Zenon DEF OpToRel
<1>2. PICK m \in T : \A n \in T : ~(<<n, m>> \in R)
  <2> HIDE DEF R
  <2> QED BY <1>1, WFMin
<1>3. \A n \in T : ~(n < m)
  BY <1>2
<1> QED BY <1>3

LEMMA NatAll ==
    ASSUME NEW T, 0 \in T, \A n \in Nat : n \in T => n + 1 \in T
    PROVE  Nat \subseteq T
<1> SUFFICES ASSUME Nat \ T # {} PROVE FALSE
  OBVIOUS
<1>1. PICK m \in Nat \ T : \A n \in Nat \ T : m <= n
  BY NatLeast
<1>2. m # 0 /\ m - 1 \in Nat
  BY <1>1
<1>3. m - 1 \in T
  BY <1>1, <1>2
<1> QED BY <1>1, <1>2, <1>3

\* What a fold over the subsets of S satisfies: c names the next element, step adds it.
IsFold(h, S, c, step, base) ==
    \A s \in SUBSET S : h[s] = IF s = {} THEN base ELSE step[<<c[s], h[s \ {c[s]}]>>]

Chooses(c, S) == \A s \in SUBSET S : s # {} => c[s] \in s

LEMMA SmallerBy ==
    ASSUME NEW S, IsFiniteSet(S), NEW x \in S
    PROVE  /\ IsFiniteSet(S \ {x}) /\ Cardinality(S) \in Nat
           /\ Cardinality(S \ {x}) = Cardinality(S) - 1 /\ Cardinality(S \ {x}) \in Nat
  BY FS_RemoveElement, FS_CardinalityType

LEMMA FoldExists ==
    ASSUME NEW S, IsFiniteSet(S), NEW V, NEW base \in V, NEW c, Chooses(c, S),
           NEW step \in [S \X V -> V]
    PROVE  \E h \in [SUBSET S -> V] : IsFold(h, S, c, step, base)
<1> DEFINE Good(h, n) == \A s \in SUBSET S : Cardinality(s) <= n =>
                 h[s] = IF s = {} THEN base ELSE step[<<c[s], h[s \ {c[s]}]>>]
           T == {n \in Nat : \E h \in [SUBSET S -> V] : Good(h, n)}
           More(h) == [s \in SUBSET S |-> IF s = {} THEN base ELSE step[<<c[s], h[s \ {c[s]}]>>]]
<1>0. \A s \in SUBSET S : IsFiniteSet(s) /\ Cardinality(s) \in Nat /\ Cardinality(s) <= Cardinality(S)
                          /\ (Cardinality(s) = 0 <=> s = {})
  BY FS_Subset, FS_CardinalityType, FS_EmptySet
<1>1. \A h \in [SUBSET S -> V] : More(h) \in [SUBSET S -> V]
  BY DEF Chooses
<1>2. 0 \in T
  <2>1. Good([s \in SUBSET S |-> base], 0)
    BY <1>0
  <2> QED BY <2>1
<1>3. ASSUME NEW n \in Nat, n \in T PROVE n + 1 \in T
  <2>1. PICK h \in [SUBSET S -> V] : Good(h, n)
    BY <1>3
  <2>2. ASSUME NEW s \in SUBSET S, Cardinality(s) <= n PROVE More(h)[s] = h[s]
    BY <2>1, <2>2
  <2>3. ASSUME NEW s \in SUBSET S, Cardinality(s) <= n + 1, s # {}
        PROVE  More(h)[s] = step[<<c[s], More(h)[s \ {c[s]}]>>]
    <3>1. c[s] \in s
      BY <2>3 DEF Chooses
    <3>2. Cardinality(s \ {c[s]}) <= n
      BY <1>0, <2>3, <3>1, SmallerBy
    <3>3. More(h)[s \ {c[s]}] = h[s \ {c[s]}]
      BY <2>2, <3>2
    <3> QED BY <2>3, <3>3
  <2>4. Good(More(h), n + 1)
    BY <2>3
  <2> HIDE DEF More, Good
  <2>5. \E k \in [SUBSET S -> V] : Good(k, n + 1)
    BY <1>1, <2>1, <2>4
  <2> QED BY <2>5
<1>4. Cardinality(S) \in T
  <2> HIDE DEF T
  <2> QED BY <1>0, <1>2, <1>3, NatAll
<1> QED BY <1>0, <1>4 DEF IsFold

\* Two folds that start and go on alike.
Alike(h, k, R, c) ==
    /\ h[{}] = k[{}]
    /\ \A s \in SUBSET R : s # {} /\ h[s \ {c[s]}] = k[s \ {c[s]}] => h[s] = k[s]

LEMMA FoldsAgree ==
    ASSUME NEW R, IsFiniteSet(R), NEW c, Chooses(c, R), NEW h, NEW k, Alike(h, k, R, c)
    PROVE  \A s \in SUBSET R : h[s] = k[s]
<1> DEFINE T == {n \in Nat : \A s \in SUBSET R : Cardinality(s) = n => h[s] = k[s]}
<1>0. \A s \in SUBSET R : IsFiniteSet(s) /\ Cardinality(s) \in Nat /\ (Cardinality(s) = 0 <=> s = {})
  BY FS_Subset, FS_CardinalityType, FS_EmptySet
<1>1. 0 \in T
  BY <1>0 DEF Alike
<1>2. ASSUME NEW n \in Nat, n \in T PROVE n + 1 \in T
  <2> SUFFICES ASSUME NEW s \in SUBSET R, Cardinality(s) = n + 1 PROVE h[s] = k[s]
    OBVIOUS
  <2>1. s # {} /\ c[s] \in s
    BY <1>0 DEF Chooses
  <2>2. Cardinality(s \ {c[s]}) = n
    BY <1>0, <2>1, SmallerBy
  <2>3. h[s \ {c[s]}] = k[s \ {c[s]}]
    BY <1>2, <2>2
  <2> QED BY <2>1, <2>3 DEF Alike
<1>3. Nat \subseteq T
  <2> HIDE DEF T
  <2> QED BY <1>1, <1>2, NatAll
<1> QED BY <1>0, <1>3

-----------------------------------------------------------------------------
(* Sums over sets *)

\* What a sum over any part of a set satisfies, as MapThenSumSet() is defined.
Summing(H, T, f) ==
    H = [s \in SUBSET T |-> IF s = {} THEN 0
                            ELSE f[CHOOSE x \in s : TRUE] + H[s \ {CHOOSE x \in s : TRUE}]]

\* The sums of all parts of a set, whichever element is taken off first.
SumsOf(g, S, f) ==
    /\ g[{}] = 0
    /\ \A T \in SUBSET S :
          /\ \A x \in T : g[T] = f[x] + g[T \ {x}]
          /\ \E H : Summing(H, T, f)
          /\ \A H : Summing(H, T, f) => H[T] = g[T]

LEMMA SumExists ==
    ASSUME NEW S, IsFiniteSet(S), NEW f \in [S -> Int]
    PROVE  \E g \in [SUBSET S -> Int] : SumsOf(g, S, f)
<1> DEFINE c == [s \in SUBSET S |-> CHOOSE x \in s : TRUE]
           step == [p \in S \X Int |-> f[p[1]] + p[2]]
<1>1. Chooses(c, S)
  BY DEF Chooses
<1>2. step \in [S \X Int -> Int]
  OBVIOUS
<1>3. PICK g \in [SUBSET S -> Int] : IsFold(g, S, c, step, 0)
  <2>1. 0 \in Int
    OBVIOUS
  <2> HIDE DEF c, step
  <2> QED BY <1>1, <1>2, <2>1, FoldExists, Zenon
<1>4. g[{}] = 0
  BY <1>3 DEF IsFold
<1>5. \A s \in SUBSET S : s # {} => c[s] \in s /\ g[s] = f[c[s]] + g[s \ {c[s]}]
  <2> SUFFICES ASSUME NEW s \in SUBSET S, s # {} PROVE c[s] \in s /\ g[s] = f[c[s]] + g[s \ {c[s]}]
    OBVIOUS
  <2>1. c[s] \in s
    BY <1>1 DEF Chooses
  <2>2. g[s] = step[<<c[s], g[s \ {c[s]}]>>]
    <3> HIDE DEF step, c
    <3> QED BY <1>3 DEF IsFold
  <2>3. <<c[s], g[s \ {c[s]}]>> \in S \X Int
    BY <2>1
  <2> QED BY <2>1, <2>2, <2>3
<1>6. ASSUME NEW T \in SUBSET S PROVE \E H : Summing(H, T, f)
  <2> DEFINE H == [s \in SUBSET T |-> g[s]]
  <2>1. \A s \in SUBSET T : H[s] = IF s = {} THEN 0
                 ELSE f[CHOOSE x \in s : TRUE] + H[s \ {CHOOSE x \in s : TRUE}]
    BY ZenonT(40), <1>4, <1>5
  <2>2. H = [s \in SUBSET T |-> H[s]]
    OBVIOUS
  <2> HIDE DEF H
  <2>3. Summing(H, T, f)
    BY <2>1, <2>2 DEF Summing
  <2> QED BY <2>3
<1>10. \A s \in SUBSET S : c[s] = CHOOSE x \in s : TRUE
  OBVIOUS
<1> HIDE DEF c, step
<1>7. ASSUME NEW T \in SUBSET S, NEW H, Summing(H, T, f) PROVE H[T] = g[T]
  <2>1. IsFiniteSet(T) /\ Chooses(c, T)
    BY <1>1, FS_Subset DEF Chooses
  <2>2. \A s \in SUBSET T : H[s] = IF s = {} THEN 0 ELSE f[c[s]] + H[s \ {c[s]}]
    BY <1>7, <1>10 DEF Summing
  <2>3. \A s \in SUBSET T : s # {} /\ H[s \ {c[s]}] = g[s \ {c[s]}] => H[s] = g[s]
    BY <1>5, <2>2
  <2>4. H[{}] = g[{}]
    BY <1>4, <2>2
  <2>5. Alike(H, g, T, c)
    BY <2>3, <2>4 DEF Alike
  <2> QED BY <2>1, <2>5, FoldsAgree
<1>8. ASSUME NEW n \in Nat,
             \A T \in SUBSET S : Cardinality(T) = n => \A x \in T : g[T] = f[x] + g[T \ {x}]
      PROVE  \A T \in SUBSET S : Cardinality(T) = n + 1 => \A x \in T : g[T] = f[x] + g[T \ {x}]
  <2> SUFFICES ASSUME NEW T \in SUBSET S, Cardinality(T) = n + 1, NEW x \in T, x # c[T]
               PROVE  g[T] = f[x] + g[T \ {x}]
    BY <1>5
  <2>1. c[T] \in T /\ g[T] = f[c[T]] + g[T \ {c[T]}] /\ IsFiniteSet(T)
    BY <1>5, FS_Subset
  <2>2. Cardinality(T \ {c[T]}) = n /\ Cardinality(T \ {x}) = n
    BY <2>1, SmallerBy
  <2>3. g[T \ {c[T]}] = f[x] + g[(T \ {c[T]}) \ {x}]
    BY <1>8, <2>1, <2>2
  <2>4. g[T \ {x}] = f[c[T]] + g[(T \ {x}) \ {c[T]}]
    BY <1>8, <2>1, <2>2
  <2>5. (T \ {c[T]}) \ {x} = (T \ {x}) \ {c[T]} /\ (T \ {x}) \ {c[T]} \in SUBSET S
    OBVIOUS
  <2>6. f[x] \in Int /\ f[c[T]] \in Int /\ g[(T \ {x}) \ {c[T]}] \in Int
    BY <2>1, <2>5
  <2>7. g[(T \ {c[T]}) \ {x}] = g[(T \ {x}) \ {c[T]}]
    BY <2>5
  <2> QED BY <2>1, <2>3, <2>4, <2>6, <2>7
<1>9. ASSUME NEW T \in SUBSET S, NEW x \in T PROVE g[T] = f[x] + g[T \ {x}]
  <2> DEFINE N == {n \in Nat : \A U \in SUBSET S : Cardinality(U) = n =>
                                   \A y \in U : g[U] = f[y] + g[U \ {y}]}
  <2>1. \A U \in SUBSET S : IsFiniteSet(U) /\ Cardinality(U) \in Nat /\ (Cardinality(U) = 0 <=> U = {})
    BY FS_Subset, FS_CardinalityType, FS_EmptySet
  <2>2. 0 \in N
    BY <2>1
  <2>3. \A n \in Nat : n \in N => n + 1 \in N
    <3> SUFFICES ASSUME NEW n \in Nat, n \in N PROVE n + 1 \in N
      OBVIOUS
    <3> QED BY <1>8
  <2>4. Nat \subseteq N
    <3> HIDE DEF N
    <3> QED BY <2>2, <2>3, NatAll
  <2> QED BY <2>1, <2>4
<1> QED BY <1>4, <1>6, <1>7, <1>9 DEF SumsOf

\* The sums of the plans: what the coins of a set hold together.
LEMMA SatsAdd ==
    ASSUME NEW S, IsFiniteSet(S), \A x \in S : x.sats \in Int
    PROVE  /\ Sats(S) \in Int /\ Sats({}) = 0
           /\ \A T \in SUBSET S, x \in S : x \in T => Sats(T) = x.sats + Sats(T \ {x})
           /\ \A T \in SUBSET S : Sats(T) \in Int
<1> DEFINE f == [x \in S |-> x.sats]
<1>1. f \in [S -> Int]
  OBVIOUS
<1>2. PICK g \in [SUBSET S -> Int] : SumsOf(g, S, f)
  <2> HIDE DEF f
  <2> QED BY <1>1, SumExists
<1>3. ASSUME NEW T \in SUBSET S PROVE Sats(T) = g[T]
  <2> DEFINE Sum(h) == h = [s \in SUBSET T |-> IF s = {} THEN 0 ELSE (CHOOSE x \in s : TRUE).sats
                                               + h[s \ {CHOOSE x \in s : TRUE}]]
  <2>1. ASSUME NEW h PROVE Sum(h) <=> Summing(h, T, f)
    <3>1. \A s \in SUBSET T : s # {} => (CHOOSE x \in s : TRUE).sats = f[CHOOSE x \in s : TRUE]
      <4> SUFFICES ASSUME NEW s \in SUBSET T, s # {} PROVE (CHOOSE x \in s : TRUE) \in S
        OBVIOUS
      <4> QED OBVIOUS
    <3>2. [s \in SUBSET T |-> IF s = {} THEN 0 ELSE (CHOOSE x \in s : TRUE).sats
                                               + h[s \ {CHOOSE x \in s : TRUE}]]
          = [s \in SUBSET T |-> IF s = {} THEN 0 ELSE f[CHOOSE x \in s : TRUE]
                                               + h[s \ {CHOOSE x \in s : TRUE}]]
      <4> HIDE DEF f
      <4> QED BY <3>1
    <3> HIDE DEF f
    <3> QED BY <3>2, Zenon DEF Summing
  <2>2. Sats(T) = (CHOOSE h : Sum(h))[T]
    BY Zenon DEF Sats, MapThenSumSet, MapThenFoldSet
  <2> HIDE DEF Sum, f
  <2>3. \E h : Sum(h)
    BY <1>2, <2>1 DEF SumsOf
  <2>4. Sum(CHOOSE h : Sum(h))
    BY <2>3, Zenon
  <2> QED BY <1>2, <2>1, <2>2, <2>4 DEF SumsOf
<1>4. S \in SUBSET S /\ {} \in SUBSET S
  OBVIOUS
<1>5. \A T \in SUBSET S : \A x \in T : Sats(T) = x.sats + Sats(T \ {x})
  BY <1>2, <1>3 DEF SumsOf
<1> QED BY <1>2, <1>3, <1>4, <1>5 DEF SumsOf

LEMMA CentsSum ==
    ASSUME NEW S, IsFiniteSet(S), \A x \in S : x.cents \in Int
    PROVE  /\ Cents(S) \in Int /\ Cents({}) = 0
           /\ \A T \in SUBSET S, x \in S : x \in T => Cents(T) = x.cents + Cents(T \ {x})
           /\ \A T \in SUBSET S : Cents(T) \in Int
<1> DEFINE f == [x \in S |-> x.cents]
<1>1. f \in [S -> Int]
  OBVIOUS
<1>2. PICK g \in [SUBSET S -> Int] : SumsOf(g, S, f)
  <2> HIDE DEF f
  <2> QED BY <1>1, SumExists
<1>3. ASSUME NEW T \in SUBSET S PROVE Cents(T) = g[T]
  <2> DEFINE Sum(h) == h = [s \in SUBSET T |-> IF s = {} THEN 0 ELSE (CHOOSE x \in s : TRUE).cents
                                               + h[s \ {CHOOSE x \in s : TRUE}]]
  <2>1. ASSUME NEW h PROVE Sum(h) <=> Summing(h, T, f)
    <3>1. \A s \in SUBSET T : s # {} => (CHOOSE x \in s : TRUE).cents = f[CHOOSE x \in s : TRUE]
      <4> SUFFICES ASSUME NEW s \in SUBSET T, s # {} PROVE (CHOOSE x \in s : TRUE) \in S
        OBVIOUS
      <4> QED OBVIOUS
    <3>2. [s \in SUBSET T |-> IF s = {} THEN 0 ELSE (CHOOSE x \in s : TRUE).cents
                                               + h[s \ {CHOOSE x \in s : TRUE}]]
          = [s \in SUBSET T |-> IF s = {} THEN 0 ELSE f[CHOOSE x \in s : TRUE]
                                               + h[s \ {CHOOSE x \in s : TRUE}]]
      <4> HIDE DEF f
      <4> QED BY <3>1
    <3> HIDE DEF f
    <3> QED BY <3>2, Zenon DEF Summing
  <2>2. Cents(T) = (CHOOSE h : Sum(h))[T]
    BY Zenon DEF Cents, MapThenSumSet, MapThenFoldSet
  <2> HIDE DEF Sum, f
  <2>3. \E h : Sum(h)
    BY <1>2, <2>1 DEF SumsOf
  <2>4. Sum(CHOOSE h : Sum(h))
    BY <2>3, Zenon
  <2> QED BY <1>2, <2>1, <2>2, <2>4 DEF SumsOf
<1>4. S \in SUBSET S /\ {} \in SUBSET S
  OBVIOUS
<1>5. \A T \in SUBSET S : \A x \in T : Cents(T) = x.cents + Cents(T \ {x})
  BY <1>2, <1>3 DEF SumsOf
<1> QED BY <1>2, <1>3, <1>4, <1>5 DEF SumsOf

-----------------------------------------------------------------------------
(* Folds over sequences *)

LEMMA MaxOf ==
    ASSUME NEW n \in Nat, NEW s \in SUBSET (1 .. n), s # {}
    PROVE  Max(s) \in s /\ \A x \in s : x <= Max(s)
<1> DEFINE T == {n - x : x \in s}
<1>1. PICK m \in T : \A k \in T : m <= k
  <2>0. \A x \in s : n - x \in Nat
    OBVIOUS
  <2>1. T \subseteq Nat
    BY <2>0
  <2>2. T # {}
    OBVIOUS
  <2> HIDE DEF T
  <2> QED BY <2>1, <2>2, NatLeast
<1>2. PICK y \in s : m = n - y
  BY <1>1
<1>3. \A x \in s : x <= y
  BY <1>1, <1>2
<1>4. \E x \in s : \A z \in s : z <= x
  BY <1>3
<1> QED BY <1>4 DEF Max

LEMMA MaxUpTo ==
    ASSUME NEW i \in Nat \ {0}
    PROVE  Max(1 .. i) = i /\ (1 .. i) \ {i} = 1 .. i - 1
<1>1. 1 .. i \in SUBSET (1 .. i) /\ 1 .. i # {} /\ i \in Nat
  OBVIOUS
<1>2. Max(1 .. i) \in 1 .. i /\ \A x \in 1 .. i : x <= Max(1 .. i)
  BY <1>1, MaxOf
<1> QED BY <1>2

\* What FoldLeft() of n elements goes through: step takes the place of an element and
\* what came of those before it.
FoldOf(g, n, V, step, base) ==
    /\ g \in [SUBSET (1 .. n) -> V]
    /\ \A s \in SUBSET (1 .. n) :
          g[s] = IF s = {} THEN base ELSE step[<<Max(s), g[s \ {Max(s)}]>>]

LEMMA FoldOver ==
    ASSUME NEW n \in Nat, NEW V, NEW base \in V, NEW step \in [(1 .. n) \X V -> V]
    PROVE  \E g : FoldOf(g, n, V, step, base)
<1> DEFINE S == 1 .. n
           c == [s \in SUBSET S |-> Max(s)]
<1>1. IsFiniteSet(S)
  BY FS_Interval
<1>2. Chooses(c, S)
  BY MaxOf DEF Chooses
<1>3. PICK g \in [SUBSET S -> V] : IsFold(g, S, c, step, base)
  <2> HIDE DEF S, c
  <2>1. step \in [S \X V -> V]
    BY DEF S
  <2> QED BY <1>1, <1>2, <2>1, FoldExists
<1>4. \A s \in SUBSET S : c[s] = Max(s)
  OBVIOUS
<1>5. \A s \in SUBSET S : g[s] = IF s = {} THEN base ELSE step[<<Max(s), g[s \ {Max(s)}]>>]
  <2> HIDE DEF S, c
  <2> QED BY <1>3, <1>4 DEF IsFold
<1> QED BY <1>3, <1>5 DEF FoldOf

LEMMA FoldSteps ==
    ASSUME NEW n \in Nat, NEW V, NEW base, NEW step, NEW g, FoldOf(g, n, V, step, base)
    PROVE  /\ g[{}] = base /\ g[1 .. 0] = base
           /\ \A i \in 1 .. n : g[1 .. i] = step[<<i, g[1 .. i - 1]>>]
           /\ \A i \in 0 .. n : g[1 .. i] \in V
<1>1. g[{}] = base
  BY DEF FoldOf
<1>2. 1 .. 0 = {}
  OBVIOUS
<1>3. ASSUME NEW i \in 1 .. n PROVE g[1 .. i] = step[<<i, g[1 .. i - 1]>>]
  <2>1. i \in 1 .. i /\ 1 .. i \in SUBSET (1 .. n) /\ i \in Nat \ {0}
    OBVIOUS
  <2>2. Max(1 .. i) = i /\ (1 .. i) \ {i} = 1 .. i - 1
    BY <2>1, MaxUpTo
  <2> QED BY <2>1, <2>2 DEF FoldOf
<1>4. \A i \in 0 .. n : 1 .. i \in SUBSET (1 .. n)
  OBVIOUS
<1> QED BY <1>1, <1>2, <1>3, <1>4 DEF FoldOf

\* Whatever starts and goes on like a fold ends like it.
GoesLike(H, g, n) ==
    /\ H[{}] = g[{}]
    /\ \A s \in SUBSET (1 .. n) : s # {} /\ H[s \ {Max(s)}] = g[s \ {Max(s)}] => H[s] = g[s]

LEMMA FoldSame ==
    ASSUME NEW n \in Nat, NEW H, NEW g, GoesLike(H, g, n)
    PROVE  H[1 .. n] = g[1 .. n]
<1> DEFINE S == 1 .. n
           c == [s \in SUBSET S |-> Max(s)]
<1>1. IsFiniteSet(S)
  BY FS_Interval
<1>2. Chooses(c, S)
  BY MaxOf DEF Chooses
<1>3. \A s \in SUBSET S : c[s] = Max(s)
  OBVIOUS
<1>4. Alike(H, g, S, c)
  <2> HIDE DEF c
  <2> QED BY <1>3 DEF GoesLike, Alike
<1> HIDE DEF c
<1> QED BY <1>1, <1>2, <1>4, FoldsAgree

-----------------------------------------------------------------------------
(* Fees *)

\* The coins of a wallet.
Coins(S) == IsFiniteSet(S) /\ \A c \in S : c.sats \in Nat /\ c.type \in {"p2wpkh", "p2tr"}

\* The bytes of the outputs.
LEMMA BytesOf ==
    ASSUME NEW len \in Nat, NEW lens, lens \in {<<len>>, <<len, TaprootLen>>}
    PROVE  OutputBytes(lens) = IF lens = <<len>> THEN 9 + len ELSE 9 + len + 9 + TaprootLen
<1> DEFINE n == Len(lens)
           step == [p \in (1 .. n) \X Int |-> p[2] + 9 + lens[p[1]]]
<1>1. n \in {1, 2} /\ lens[1] = len /\ DOMAIN lens = 1 .. n /\ (n = 2 => lens[2] = TaprootLen)
      /\ (lens = <<len>> <=> n = 1)
  OBVIOUS
<1>2. \A i \in 1 .. n : lens[i] \in Int
  BY <1>1 DEF TaprootLen
<1> HIDE DEF n
<1>3. step \in [(1 .. n) \X Int -> Int] /\ 0 \in Int /\ n \in Nat
  BY <1>1, <1>2
<1>4. PICK g : FoldOf(g, n, Int, step, 0)
  <2> HIDE DEF step
  <2> QED BY <1>3, FoldOver
<1>5. g[1 .. n] = IF n = 1 THEN 9 + len ELSE 9 + len + 9 + TaprootLen
  <2>1. /\ g[1 .. 0] = 0 /\ g[1 .. 1] = step[<<1, g[1 .. 0]>>]
        /\ n = 2 => g[1 .. 2] = step[<<2, g[1 .. 1]>>]
    <3>1. /\ g[1 .. 0] = 0
          /\ \A i \in 1 .. n : g[1 .. i] = step[<<i, g[1 .. i - 1]>>]
      <4> HIDE DEF step
      <4> QED BY <1>3, <1>4, FoldSteps
    <3>2. 1 \in 1 .. n /\ (n = 2 => 2 \in 1 .. n) /\ 1 - 1 = 0 /\ 2 - 1 = 1
      BY <1>1
    <3> HIDE DEF step
    <3> QED BY <3>1, <3>2
  <2>2. g[1 .. 1] = 9 + len
    BY <1>1, <2>1
  <2>3. CASE n = 1
    BY <2>2, <2>3
  <2>4. CASE n = 2
    <3>1. g[1 .. 2] = step[<<2, g[1 .. 1]>>] /\ <<2, g[1 .. 1]>> \in (1 .. n) \X Int
      BY <1>1, <2>1, <2>2, <2>4
    <3>2. g[1 .. 2] = g[1 .. 1] + 9 + lens[2]
      BY <3>1
    <3> QED BY <1>1, <2>2, <2>4, <3>2
  <2> QED BY <1>1, <2>3, <2>4
<1> DEFINE Sum(h) == h = [s \in SUBSET (1 .. n) |->
                            IF s = {} THEN 0 ELSE h[s \ {Max(s)}] + 9 + lens[Max(s)]]
<1>6. \A s \in SUBSET (1 .. n) : s # {} => Max(s) \in 1 .. n /\ s \ {Max(s)} \in SUBSET (1 .. n)
  BY <1>3, MaxOf
<1>7. \A s \in SUBSET (1 .. n) : g[s] = IF s = {} THEN 0 ELSE g[s \ {Max(s)}] + 9 + lens[Max(s)]
  <2>1. ASSUME NEW s \in SUBSET (1 .. n), s # {} PROVE <<Max(s), g[s \ {Max(s)}]>> \in (1 .. n) \X Int
    BY <1>4, <1>6, <2>1 DEF FoldOf
  <2> QED BY <1>4, <2>1 DEF FoldOf
<1>8. Sum(g)
  BY <1>4, <1>7 DEF FoldOf
<1> DEFINE H == CHOOSE h : Sum(h)
<1>9. Sum(H)
  <2> HIDE DEF Sum
  <2> QED BY <1>8, Zenon
<1>10. GoesLike(H, g, n)
  <2>1. \A s \in SUBSET (1 .. n) : H[s] = IF s = {} THEN 0 ELSE H[s \ {Max(s)}] + 9 + lens[Max(s)]
    <3> HIDE DEF H
    <3> QED BY <1>9
  <2> HIDE DEF H
  <2> QED BY <1>7, <2>1 DEF GoesLike
<1>11. OutputBytes(lens) = H[1 .. n]
  BY <1>1, Zenon DEF OutputBytes, FoldLeft, MapThenFoldSet
<1> HIDE DEF H
<1>12. H[1 .. n] = g[1 .. n]
  BY <1>3, <1>10, FoldSame
<1> QED BY <1>1, <1>5, <1>11, <1>12

LEMMA Kinds ==
    ASSUME NEW S, Coins(S)
    PROVE  /\ Segwit(S) \in Nat /\ Taproot(S) \in Nat
           /\ Cardinality(S) = Segwit(S) + Taproot(S)
<1> DEFINE A == {c \in S : c.type = "p2wpkh"}
           B == {c \in S : c.type # "p2wpkh"}
<1>1. IsFiniteSet(A) /\ IsFiniteSet(B)
  BY FS_Subset DEF Coins
<1>2. A \union B = S /\ A \intersect B = {}
  OBVIOUS
<1>3. Cardinality(A) \in Nat /\ Cardinality(B) \in Nat /\ Cardinality({}) = 0
  BY <1>1, FS_CardinalityType, FS_EmptySet
<1> HIDE DEF A, B
<1>4. Cardinality(A \union B) = Cardinality(A) + Cardinality(B) - Cardinality(A \intersect B)
  BY <1>1, FS_Union
<1>5. Cardinality(A \union B) = Cardinality(S) /\ Cardinality(A \intersect B) = 0
  BY <1>2, <1>3, Zenon
<1>7. Cardinality(S) = Cardinality(A) + Cardinality(B)
  BY <1>3, <1>4, <1>5
<1>6. Segwit(S) = Cardinality(A) /\ Taproot(S) = Cardinality(B)
  BY Zenon DEF Segwit, Taproot, A, B
<1> QED BY <1>3, <1>6, <1>7

LEMMA Rounds ==
    ASSUME NEW n \in Int, NEW m \in Int, m <= n
    PROVE  /\ CeilDiv(n, 4) \in Int /\ CeilDiv(n, 1000) \in Int
           /\ CeilDiv(m, 4) <= CeilDiv(n, 4) /\ CeilDiv(m, 1000) <= CeilDiv(n, 1000)
           /\ n >= 0 => CeilDiv(n, 4) >= 0 /\ CeilDiv(n, 1000) >= 0
  BY DEF CeilDiv

\* A heavier transaction costs no less.
LEMMA Rates ==
    ASSUME NEW n \in Int, NEW m \in Int, m <= n
    PROVE  /\ CeilDiv(CeilDiv(n, 4) * FeeRate, 1000) \in Int
           /\ CeilDiv(CeilDiv(m, 4) * FeeRate, 1000) <= CeilDiv(CeilDiv(n, 4) * FeeRate, 1000)
           /\ n >= 0 => CeilDiv(CeilDiv(n, 4) * FeeRate, 1000) >= 0
<1>1. /\ CeilDiv(n, 4) \in Int /\ CeilDiv(m, 4) \in Int /\ CeilDiv(m, 4) <= CeilDiv(n, 4)
      /\ n >= 0 => CeilDiv(n, 4) >= 0
  BY Rounds
<1> DEFINE x == CeilDiv(n, 4)
           y == CeilDiv(m, 4)
<1>2. x * FeeRate \in Int /\ y * FeeRate \in Int /\ y * FeeRate <= x * FeeRate
      /\ (n >= 0 => x * FeeRate >= 0)
  <2> HIDE DEF x, y
  <2>1. x \in Int /\ y \in Int /\ y <= x /\ (n >= 0 => x >= 0)
    BY <1>1 DEF x, y
  <2> QED BY <2>1 DEF FeeRate
<1> HIDE DEF x, y
<1>3. /\ CeilDiv(x * FeeRate, 1000) \in Int
      /\ CeilDiv(y * FeeRate, 1000) <= CeilDiv(x * FeeRate, 1000)
      /\ x * FeeRate >= 0 => CeilDiv(x * FeeRate, 1000) >= 0
  BY <1>2, Rounds
<1> QED BY <1>2, <1>3 DEF x, y

\* The fee that is planned is the network's for what is signed, at least.
LEMMA FeesSuffice ==
    ASSUME NEW S, Coins(S), NEW len \in Nat
    PROVE  /\ Fee(S, OutputWeight(len) + OutputWeight(TaprootLen)) \in Nat
           /\ Fee(S, OutputWeight(len)) \in Nat
           /\ Fee(S, OutputWeight(len) + OutputWeight(TaprootLen)) >= RelayFee(S, <<len, TaprootLen>>)
           /\ Fee(S, OutputWeight(len) + OutputWeight(TaprootLen)) >= RelayFee(S, <<len>>)
           /\ Fee(S, OutputWeight(len)) >= RelayFee(S, <<len>>)
           /\ RelayFee(S, <<len>>) \in Int /\ RelayFee(S, <<len, TaprootLen>>) \in Int
<1> DEFINE s == Segwit(S)
           t == Taproot(S)
           weight(o) == 42 + InputCountExtra(Cardinality(S)) + InputsWeight(S) + o
<1>1. s \in Nat /\ t \in Nat /\ Cardinality(S) = s + t
  BY Kinds
<1>2. OutputBytes(<<len>>) = 9 + len /\ OutputBytes(<<len, TaprootLen>>) = 9 + len + 9 + TaprootLen
  <2>1. <<len>> # <<len, TaprootLen>>
    OBVIOUS
  <2> QED BY <2>1, BytesOf
<1>3. Len(<<len>>) = 1 /\ Len(<<len, TaprootLen>>) = 2
  OBVIOUS
<1>4. /\ SignedWeight(S, <<len>>) \in Int /\ SignedWeight(S, <<len, TaprootLen>>) \in Int
      /\ SignedWeight(S, <<len>>) = weight(OutputWeight(len))
      /\ SignedWeight(S, <<len, TaprootLen>>) = weight(OutputWeight(len) + OutputWeight(TaprootLen))
      /\ SignedWeight(S, <<len>>) <= SignedWeight(S, <<len, TaprootLen>>)
      /\ SignedWeight(S, <<len>>) >= 0
  <2> HIDE DEF s, t
  <2>1. Segwit(S) = s /\ Taproot(S) = t
    BY DEF s, t
  <2> QED BY <1>1, <1>2, <1>3, <2>1
          DEF SignedWeight, VarInt, InputCountExtra, InputsWeight, OutputWeight, TaprootLen
<1> HIDE DEF s, t
<1>5. /\ Fee(S, OutputWeight(len) + OutputWeight(TaprootLen)) = RelayFee(S, <<len, TaprootLen>>)
      /\ Fee(S, OutputWeight(len)) = RelayFee(S, <<len>>)
  BY <1>4 DEF Fee, FeeOf, RelayFee
<1>6. /\ RelayFee(S, <<len>>) <= RelayFee(S, <<len, TaprootLen>>)
      /\ RelayFee(S, <<len>>) \in Int /\ RelayFee(S, <<len>>) >= 0 /\ RelayFee(S, <<len, TaprootLen>>) \in Int
  <2> HIDE DEF weight
  <2> QED BY <1>4, Rates DEF RelayFee
<1> QED BY <1>5, <1>6

LEMMA MinOf ==
    ASSUME NEW T, T \subseteq Nat, T # {}
    PROVE  Min(T) \in T /\ \A n \in T : Min(T) <= n
  BY NatLeast DEF Min

LEMMA Parts ==
    ASSUME NEW S, Coins(S), NEW T \in SUBSET S
    PROVE  Coins(T) /\ Cardinality(T) \in Nat /\ Sats(T) \in Int
<1>1. Coins(T)
  BY FS_Subset DEF Coins
<1>2. \A x \in T : x.sats \in Int
  BY DEF Coins
<1> QED BY <1>1, <1>2, SatsAdd, FS_CardinalityType DEF Coins

\* As many elements as there are, no two alike, are all.
LEMMA Onto ==
    ASSUME NEW S, IsFiniteSet(S), NEW o \in [1 .. Cardinality(S) -> S],
           \A i, j \in 1 .. Cardinality(S) : i # j => o[i] # o[j]
    PROVE  \A x \in S : \E i \in 1 .. Cardinality(S) : x = o[i]
<1> DEFINE n == Cardinality(S)
           R == {o[i] : i \in 1 .. n}
<1>1. n \in Nat
  BY FS_CardinalityType
<1>2. o \in Bijection(1 .. n, R)
  BY DEF Bijection, Injection, Surjection, IsInjective
<1>3. IsFiniteSet(1 .. n) /\ Cardinality(1 .. n) = n
  BY <1>1, FS_Interval
<1>4. R \subseteq S
  OBVIOUS
<1> HIDE DEF R
<1>5. Cardinality(R) = n
  BY <1>2, <1>3, FS_Bijection DEF ExistsBijection
<1>6. R = S
  BY <1>4, <1>5, FS_Subset
<1> QED BY <1>6 DEF R

LEMMA Orders ==
    ASSUME NEW S, Coins(S), NEW order \in LargestFirst(S)
    PROVE  /\ Cardinality(S) \in Nat /\ Len(order) = Cardinality(S)
           /\ order \in [1 .. Len(order) -> S]
           /\ \A i, j \in 1 .. Len(order) : i # j => order[i] # order[j]
           /\ \A i, j \in 1 .. Len(order) : i < j => order[i].sats >= order[j].sats
           /\ \A x \in S : \E i \in 1 .. Len(order) : x = order[i]
<1>1. Cardinality(S) \in Nat
  BY FS_CardinalityType DEF Coins
<1>2. order \in [1 .. Cardinality(S) -> S] /\ order \in SetToSeqs(S)
  BY DEF LargestFirst, SetToSeqs
<1>3. Len(order) = Cardinality(S)
  BY <1>1, <1>2
<1>4. \A x \in S : \E i \in 1 .. Len(order) : x = order[i]
  BY <1>1, <1>2, <1>3, Onto DEF SetToSeqs, Coins
<1> QED BY <1>1, <1>2, <1>3, <1>4 DEF LargestFirst, SetToSeqs

\* Whatever the wallet's coins, the amount and the recipient's script, a spend that is
\* planned pays the relay fee of its own bytes, and less than a folded change above it.
LEMMA SpendsAreRelayed ==
    ASSUME NEW S, Coins(S), NEW order \in LargestFirst(S), NEW amount \in Nat, NEW len \in Nat,
           PlanSpend(order, amount, len) # NoPlan
    PROVE  SpendSound(PlanSpend(order, amount, len), len)
<1> DEFINE prefix(i) == {order[j] : j \in 1 .. i}
           fee(i) == Fee(prefix(i), OutputWeight(len) + OutputWeight(TaprootLen))
           enough == {i \in 1 .. Len(order) : Sats(prefix(i)) >= amount + fee(i)}
           m == Min(enough)
           p == [inputs |-> prefix(m), amount |-> amount, fee |-> fee(m)]
<1>1. enough # {} /\ PlanSpend(order, amount, len) = p
  BY DEF PlanSpend, NoPlan
<1>2. /\ Cardinality(S) \in Nat /\ Len(order) = Cardinality(S)
      /\ order \in [1 .. Len(order) -> S]
  BY Orders
<1>3. m \in 1 .. Len(order) /\ Sats(prefix(m)) >= amount + fee(m)
  <2>1. enough \subseteq Nat
    BY <1>2
  <2>2. m \in enough
    <3> HIDE DEF enough
    <3> QED BY <1>1, <2>1, MinOf
  <2> HIDE DEF m
  <2> QED BY <2>2
<1>4. prefix(m) \in SUBSET S
  <2> HIDE DEF m
  <2> QED BY <1>2, <1>3
<1>5. Coins(prefix(m)) /\ Sats(prefix(m)) \in Int
  <2> HIDE DEF prefix, m
  <2> QED BY <1>4, Parts
<1>6. /\ fee(m) \in Nat /\ fee(m) >= RelayFee(prefix(m), <<len, TaprootLen>>)
      /\ fee(m) >= RelayFee(prefix(m), <<len>>)
      /\ RelayFee(prefix(m), <<len>>) \in Int /\ RelayFee(prefix(m), <<len, TaprootLen>>) \in Int
  <2> HIDE DEF prefix, m
  <2> QED BY <1>5, FeesSuffice
<1>7. p.inputs = prefix(m) /\ p.amount = amount /\ p.fee = fee(m)
  BY Zenon
<1> HIDE DEF prefix, fee, m, p
<1>8. \/ SpendChange(p) = 0 /\ SpendLens(p, len) = <<len>> /\ Sats(prefix(m)) - amount - fee(m) < Fold
      \/ /\ SpendChange(p) = Sats(prefix(m)) - amount - fee(m) /\ SpendChange(p) >= Fold
         /\ SpendLens(p, len) = <<len, TaprootLen>>
  BY <1>3, <1>5, <1>6, <1>7 DEF SpendChange, SpendLens, Folded, Fold
<1>9. RelayFee(p.inputs, SpendLens(p, len)) <= fee(m)
  <2>1. RelayFee(prefix(m), SpendLens(p, len)) <= fee(m)
    BY <1>6, <1>8
  <2> QED BY <2>1, <1>7
<1>10. /\ Sats(p.inputs) - p.amount - SpendChange(p) >= fee(m)
       /\ Sats(p.inputs) - p.amount - SpendChange(p) < fee(m) + Fold
       /\ SpendChange(p) = 0 \/ SpendChange(p) >= Fold
       /\ Sats(p.inputs) - p.amount - SpendChange(p) \in Int
  <2>1. Sats(p.inputs) = Sats(prefix(m)) /\ p.amount = amount
    BY <1>7
  <2> QED BY SMTT(30), <1>3, <1>5, <1>6, <1>8, <2>1 DEF Fold
<1>11. p.fee = fee(m) /\ fee(m) \in Nat /\ RelayFee(p.inputs, SpendLens(p, len)) \in Int
  BY <1>6, <1>7, <1>8
<1> QED BY <1>1, <1>9, <1>10, <1>11 DEF SpendSound

LEMMA MaxSpendsAreRelayed ==
    ASSUME NEW S, Coins(S), NEW len \in Nat, PlanMaxSpend(S, len) # NoPlan
    PROVE  LET p == PlanMaxSpend(S, len) IN SpendSound(p, len) /\ SpendChange(p) = 0
<1> DEFINE fee == Fee(S, OutputWeight(len))
           p == [inputs |-> S, amount |-> Sats(S) - fee, fee |-> fee]
<1>1. PlanMaxSpend(S, len) = p
  BY DEF PlanMaxSpend
<1>2. Sats(S) \in Int /\ fee \in Nat /\ fee >= RelayFee(S, <<len>>)
  BY Parts, FeesSuffice
<1>3. p.inputs = S /\ p.amount = Sats(S) - fee /\ p.fee = fee
  BY Zenon
<1> HIDE DEF fee, p
<1>4. SpendChange(p) = 0 /\ SpendLens(p, len) = <<len>>
  BY <1>2, <1>3 DEF SpendChange, SpendLens, Folded, Fold
<1> QED BY <1>1, <1>2, <1>3, <1>4 DEF SpendSound, Fold

\* No coins of a wallet are worth more than as many of its largest.
LEMMA LargestAreMost ==
    ASSUME NEW S, Coins(S), NEW order \in LargestFirst(S)
    PROVE  \A T \in SUBSET S : Sats(T) <= Sats({order[j] : j \in 1 .. Cardinality(T)})
<1> DEFINE prefix(i) == {order[j] : j \in 1 .. i}
           N == {n \in Nat : \A T \in SUBSET S : Cardinality(T) = n => Sats(T) <= Sats(prefix(n))}
<1>1. /\ Cardinality(S) \in Nat /\ Len(order) = Cardinality(S)
      /\ order \in [1 .. Len(order) -> S]
      /\ \A i, j \in 1 .. Len(order) : i # j => order[i] # order[j]
      /\ \A i, j \in 1 .. Len(order) : i < j => order[i].sats >= order[j].sats
      /\ \A x \in S : \E i \in 1 .. Len(order) : x = order[i]
  BY Orders
<1>2. \A T \in SUBSET S : /\ IsFiniteSet(T) /\ Cardinality(T) \in Nat /\ Cardinality(T) <= Cardinality(S)
                          /\ Cardinality(T) = 0 <=> T = {}
                          /\ Sats(T) \in Int
                          /\ \A x \in T : x.sats \in Nat /\ Sats(T) = x.sats + Sats(T \ {x})
  <2>1. \A x \in S : x.sats \in Int
    BY DEF Coins
  <2> QED BY <2>1, SatsAdd, FS_Subset, FS_CardinalityType, FS_EmptySet DEF Coins
<1>3. 0 \in N
  <2>1. prefix(0) = {}
    OBVIOUS
  <2> HIDE DEF prefix
  <2>2. \A T \in SUBSET S : Cardinality(T) = 0 => Sats(T) = Sats(prefix(0)) /\ Sats(T) \in Int
    BY <1>2, <2>1
  <2> QED BY <2>2
<1>4. ASSUME NEW n \in Nat, n \in N PROVE n + 1 \in N
  <2> SUFFICES ASSUME NEW T \in SUBSET S, Cardinality(T) = n + 1 PROVE Sats(T) <= Sats(prefix(n + 1))
    OBVIOUS
  <2>1. n + 1 \in 1 .. Len(order)
    BY <1>1, <1>2
  <2>2. prefix(n + 1) \in SUBSET S /\ prefix(n) \in SUBSET S
    BY <1>1, <2>1
  <2>3. order[n + 1] \in prefix(n + 1) /\ prefix(n + 1) \ {order[n + 1]} = prefix(n)
    BY <1>1, <2>1
  <2>4. Cardinality(prefix(n)) <= n
    <3> DEFINE f == [j \in 1 .. n |-> order[j]]
    <3>1. f \in Surjection(1 .. n, prefix(n))
      BY <1>1, <2>1 DEF Surjection
    <3>2. IsFiniteSet(1 .. n) /\ Cardinality(1 .. n) = n
      BY FS_Interval
    <3> HIDE DEF f, prefix
    <3> QED BY <3>1, <3>2, FS_Surjection
  <2>5. PICK x \in T : x \notin prefix(n)
    <3> SUFFICES ASSUME T \subseteq prefix(n) PROVE FALSE
      OBVIOUS
    <3> HIDE DEF prefix
    <3>1. Cardinality(T) <= Cardinality(prefix(n))
      BY <1>2, <2>2, FS_Subset
    <3> QED BY <1>2, <2>2, <2>4, <3>1
  <2>6. x.sats <= order[n + 1].sats
    <3>1. PICK j \in 1 .. Len(order) : x = order[j]
      BY <1>1
    <3>2. j >= n + 1
      BY <2>5, <3>1
    <3>3. \A i \in 1 .. Len(order) : order[i].sats \in Nat
      BY <1>1 DEF Coins
    <3> QED BY <1>1, <2>1, <3>1, <3>2, <3>3
  <2>7. Cardinality(T \ {x}) = n
    BY <1>2, SmallerBy
  <2>8. Sats(T \ {x}) <= Sats(prefix(n))
    <3> HIDE DEF prefix
    <3> QED BY <1>4, <2>7
  <2> HIDE DEF prefix
  <2>9. /\ Sats(T) = x.sats + Sats(T \ {x})
        /\ Sats(prefix(n + 1)) = order[n + 1].sats + Sats(prefix(n))
        /\ Sats(T \ {x}) \in Int /\ Sats(prefix(n)) \in Int /\ x.sats \in Nat /\ order[n + 1].sats \in Nat
    BY <1>2, <2>2, <2>3
  <2> QED BY <2>6, <2>8, <2>9
<1>5. Nat \subseteq N
  <2> HIDE DEF N
  <2> QED BY <1>3, <1>4, NatAll
<1> HIDE DEF prefix
<1>6. \A T \in SUBSET S : Sats(T) <= Sats(prefix(Cardinality(T)))
  BY <1>2, <1>5
<1> QED BY <1>6 DEF prefix

\* What is refused could not be done with any of the coins.
LEMMA RefusalsAreDue ==
    ASSUME NEW S, Coins(S), NEW order \in LargestFirst(S), NEW amount \in Nat \ {0}, NEW len \in Nat,
           PlanSpend(order, amount, len) = NoPlan
    PROVE  Hopeless(S, amount, len)
<1> DEFINE prefix(i) == {order[j] : j \in 1 .. i}
           outs == OutputWeight(len) + OutputWeight(TaprootLen)
           fee(i) == Fee(prefix(i), outs)
           enough == {i \in 1 .. Len(order) : Sats(prefix(i)) >= amount + fee(i)}
<1>1. enough = {}
  BY DEF PlanSpend, NoPlan
<1>2. /\ Cardinality(S) \in Nat /\ Len(order) = Cardinality(S)
      /\ order \in [1 .. Len(order) -> S]
      /\ \A i, j \in 1 .. Len(order) : i # j => order[i] # order[j]
  BY Orders
<1>3. outs \in Nat
  BY DEF OutputWeight, TaprootLen
<1> SUFFICES ASSUME NEW T \in SUBSET S
             PROVE  Sats(T) < amount + FeeOf(Cardinality(T), 272 * Cardinality(T), outs)
  BY DEF Hopeless
<1> DEFINE k == Cardinality(T)
<1>4. k \in Nat /\ k <= Cardinality(S) /\ Sats(T) \in Int /\ (k = 0 => T = {}) /\ prefix(k) \in SUBSET S
  <2>1. k \in Nat /\ k <= Cardinality(S) /\ Sats(T) \in Int /\ (k = 0 => T = {})
    BY Parts, FS_Subset, FS_EmptySet DEF Coins
  <2> HIDE DEF k
  <2> QED BY <1>2, <2>1
<1>5. Sats(T) <= Sats(prefix(k))
  BY LargestAreMost
<1>6. Coins(prefix(k)) /\ Sats(prefix(k)) \in Int
  <2> HIDE DEF prefix, k
  <2> QED BY <1>4, Parts
<1>7. Cardinality(prefix(k)) = k
  <2> DEFINE f == [j \in 1 .. k |-> order[j]]
  <2>1. f \in Bijection(1 .. k, prefix(k))
    <3> HIDE DEF k
    <3> QED BY <1>2, <1>4 DEF Bijection, Injection, Surjection, IsInjective
  <2>2. IsFiniteSet(1 .. k) /\ Cardinality(1 .. k) = k
    <3> HIDE DEF k
    <3> QED BY <1>4, FS_Interval
  <2> HIDE DEF f, prefix, k
  <2> QED BY <2>1, <2>2, FS_Bijection DEF ExistsBijection
<1>8. fee(k) \in Nat /\ fee(k) <= FeeOf(k, 272 * k, outs) /\ FeeOf(k, 272 * k, outs) \in Int
  <2> HIDE DEF prefix, k
  <2>1. InputsWeight(prefix(k)) \in Nat /\ InputsWeight(prefix(k)) <= 272 * k
    BY <1>6, <1>7, Kinds DEF InputsWeight
  <2>2. fee(k) \in Nat
    BY <1>6, FeesSuffice
  <2> DEFINE n == 42 + InputCountExtra(k) + 272 * k + outs
             m == 42 + InputCountExtra(k) + InputsWeight(prefix(k)) + outs
  <2>3. n \in Int /\ m \in Int /\ m <= n
    <3> HIDE DEF outs
    <3> QED BY <1>3, <1>4, <2>1 DEF InputCountExtra
  <2>4. fee(k) = CeilDiv(CeilDiv(m, 4) * FeeRate, 1000)
    BY <1>7 DEF Fee, FeeOf
  <2>5. FeeOf(k, 272 * k, outs) = CeilDiv(CeilDiv(n, 4) * FeeRate, 1000)
    BY DEF FeeOf
  <2> HIDE DEF n, m, fee, outs
  <2> QED BY <2>2, <2>3, <2>4, <2>5, Rates
<1>9. CASE k = 0
  <2>1. Sats(T) = 0
    BY <1>4, <1>9, SatsAdd, FS_EmptySet DEF Coins
  <2> HIDE DEF k, fee, outs
  <2> QED BY <1>8, <2>1 DEF k
<1>10. CASE k # 0
  <2>1. k \notin enough /\ k \in 1 .. Len(order)
    <3> HIDE DEF k, enough
    <3> QED BY <1>1, <1>2, <1>4, <1>10
  <2>2. ~(Sats(prefix(k)) >= amount + fee(k))
    <3> HIDE DEF k, fee, prefix
    <3> QED BY <2>1
  <2> HIDE DEF k, fee, prefix, outs
  <2> QED BY <1>4, <1>5, <1>6, <1>8, <2>2 DEF k
<1> QED BY <1>9, <1>10

\* Whatever coins the wallet has, a spend or a sweep that is planned pays the network's
\* fee and leaves no dust, and one that is refused no choice of coins could pay for.
THEOREM SpendsAreSound ==
    ASSUME NEW S, Coins(S)
    PROVE  SpendsSound(S)
<1>1. ScriptLens \subseteq Nat /\ Amounts \subseteq Nat \ {0}
  BY TxPlanAssumption
<1>2. ASSUME NEW len \in ScriptLens, NEW amount \in Amounts, NEW order \in LargestFirst(S)
      PROVE  LET p == PlanSpend(order, amount, len)
             IN IF p = NoPlan THEN Hopeless(S, amount, len) ELSE SpendSound(p, len)
  <2>1. len \in Nat /\ amount \in Nat \ {0} /\ amount \in Nat
    BY <1>1
  <2> QED BY <2>1, SpendsAreRelayed, RefusalsAreDue
<1>3. ASSUME NEW len \in ScriptLens, PlanMaxSpend(S, len) # NoPlan
      PROVE  SpendSound(PlanMaxSpend(S, len), len) /\ SpendChange(PlanMaxSpend(S, len)) = 0
  BY <1>1, <1>3, MaxSpendsAreRelayed
<1> QED BY <1>2, <1>3 DEF SpendsSound

-----------------------------------------------------------------------------
(* Quotes *)

LEMMA CeilDivBounds ==
    ASSUME NEW n \in Nat, NEW d \in Nat \ {0}
    PROVE  /\ CeilDiv(n, d) \in Nat
           /\ CeilDiv(n, d) * d >= n
           /\ (CeilDiv(n, d) - 1) * d < n
<1> DEFINE q == (n + d - 1) \div d
           r == (n + d - 1) % d
<1>1. q \in Int /\ r \in 0 .. d - 1 /\ n + d - 1 = d * q + r
  OBVIOUS
<1> HIDE DEF q, r
<1>2. q * d >= n /\ (q - 1) * d < n
  BY <1>1
<1>3. q >= 0
  BY <1>1, <1>2
<1> QED BY <1>1, <1>2, <1>3 DEF CeilDiv, q

LEMMA Scales ==
    ASSUME NEW a \in Int, NEW b \in Int, a <= b, NEW p \in Nat
    PROVE  a * p <= b * p
  OBVIOUS

\* For every amount, ratio, adjustment and price, the collateral of a mint is worth what
\* is owed, and not two percent more but for the rounding.
THEOREM QuotesAreSound == QuotesSound
<1> SUFFICES ASSUME NEW cents \in Needs, NEW ratio \in Ratios, NEW dca \in DcaBps, NEW price \in Prices
             PROVE  LET c == Collateral(cents, ratio, dca, price)
                        owed == cents * Coin * EffectiveRatio(ratio, dca) * 100
                    IN c * price >= owed /\ (c - c \div 50 - 2) * price <= owed
  BY DEF QuotesSound
<1> DEFINE owed == cents * Coin * EffectiveRatio(ratio, dca) * 100
           base == CeilDiv(owed, price)
           c == base + base \div 100
<1>1. cents \in Nat /\ ratio \in Nat /\ dca \in Nat /\ price \in Nat \ {0} /\ Coin \in Nat
  BY TxPlanAssumption
<1>2. EffectiveRatio(ratio, dca) \in Nat
  <2>1. ratio * dca \in Nat
    BY <1>1
  <2> QED BY <2>1, CeilDivBounds DEF EffectiveRatio
<1>3. owed \in Nat
  <2>1. cents * Coin \in Nat
    BY <1>1
  <2> QED BY <1>2, <2>1
<1>4. Collateral(cents, ratio, dca, price) = c
  BY DEF Collateral, BaseCollateral
<1> HIDE DEF owed
<1>5. base \in Nat /\ base * price >= owed /\ (base - 1) * price < owed
  BY <1>1, <1>3, CeilDivBounds
<1> HIDE DEF base
<1>6. c \in Nat /\ base <= c /\ c - c \div 50 - 2 \in Int /\ c - c \div 50 - 2 <= base - 1
  BY <1>5
<1> HIDE DEF c
<1>7. base * price <= c * price /\ (c - c \div 50 - 2) * price <= (base - 1) * price
  BY <1>1, <1>5, <1>6, Scales
<1>8. c * price \in Int /\ base * price \in Int /\ (base - 1) * price \in Int
      /\ (c - c \div 50 - 2) * price \in Int
  BY <1>1, <1>5, <1>6
<1>9. c * price >= owed /\ (c - c \div 50 - 2) * price <= owed
  BY <1>3, <1>5, <1>7, <1>8
<1> QED BY <1>4, <1>9 DEF owed

-----------------------------------------------------------------------------
(* Mints and transfers *)

DdCoins(D) == IsFiniteSet(D) /\ \A c \in D : c.cents \in Nat

LEMMA Units ==
    DdFee \in Nat /\ DdFee > 0 /\ Fold \in Nat /\ Fold > 0 /\ MinDd \in Nat /\ MinDd > 0
  BY SMT DEF DdFee, Fold, MinDd

LEMMA SmallestOf ==
    ASSUME NEW S, S # {}, \A c \in S : c.sats \in Nat
    PROVE  Smallest(S) \in S /\ \A c \in S : Smallest(S).sats <= c.sats
<1> DEFINE T == {c.sats : c \in S}
<1>1. T \subseteq Nat /\ T # {}
  OBVIOUS
<1>2. PICK m \in T : \A n \in T : m <= n
  <2> HIDE DEF T
  <2> QED BY <1>1, NatLeast
<1>3. \E c \in S : \A d \in S : c.sats <= d.sats
  BY <1>2
<1> QED BY <1>3 DEF Smallest

\* A fee coin is one of the wallet's that is large enough; there is none only if all are
\* too small.
LEMMA FeeCoins ==
    ASSUME NEW S, \A c \in S : c.sats \in Nat, NEW prefer
    PROVE  /\ PickFee(S, prefer) # NoCoin => PickFee(S, prefer) \in S /\ PickFee(S, prefer).sats >= DdFee
           /\ PickFee(S, prefer) = NoCoin => \A c \in S : c.sats < DdFee
<1> DEFINE free == {c \in S : c.sats >= DdFee}
           taproot == {c \in free : c.type # "p2wpkh"}
           own == {c \in taproot : c.key = prefer}
           tier == IF own # {} THEN own ELSE IF taproot # {} THEN taproot ELSE free
<1>1. PickFee(S, prefer) = IF tier = {} THEN NoCoin ELSE Smallest(tier)
  BY DEF PickFee
<1>2. tier \subseteq free /\ (tier = {} => free = {})
  OBVIOUS
<1>3. CASE tier = {}
  <2>1. \A c \in S : c.sats < DdFee
    BY <1>2, <1>3, Units
  <2> HIDE DEF tier
  <2> QED BY <1>1, <1>3, <2>1
<1>4. CASE tier # {}
  <2>1. Smallest(tier) \in tier
    <3>1. \A c \in tier : c.sats \in Nat
      BY <1>2
    <3> HIDE DEF tier
    <3> QED BY <1>4, <3>1, SmallestOf
  <2>2. Smallest(tier) \in S /\ Smallest(tier).sats >= DdFee
    BY <1>2, <2>1
  <2> HIDE DEF tier
  <2>3. Smallest(tier).sats # NoCoin.sats
    BY <2>2, Units DEF NoCoin
  <2> QED BY <1>1, <1>4, <2>2, <2>3
<1> QED BY <1>3, <1>4

\* Whatever the wallet's coins, a mint takes one that covers the collateral and the fee,
\* and what is left over is the fee and a change that is no dust.
THEOREM MintsAreSound ==
    ASSUME NEW S, Coins(S)
    PROVE  MintsSound(S)
<1> SUFFICES ASSUME NEW collateral \in Amounts
             PROVE  LET p == PlanMint(S, collateral)
                    IN IF p = NoPlan
                       THEN \A c \in S : c.type = "p2tr" => c.sats < collateral + DdFee
                       ELSE /\ p.change = 0 \/ p.change >= Fold
                            /\ p.coin.sats - collateral - p.change \in DdFee .. DdFee + Fold - 1
  BY DEF MintsSound
<1> DEFINE fitting == {c \in S : c.type # "p2wpkh" /\ c.sats >= collateral + DdFee}
           m == Smallest(fitting)
           p == [coin |-> m, collateral |-> collateral, change |-> Folded(m.sats - collateral - DdFee)]
<1>1. collateral \in Nat
  BY TxPlanAssumption
<1>2. CASE fitting = {}
  <2>1. PlanMint(S, collateral) = NoPlan
    BY <1>2 DEF PlanMint
  <2>2. \A c \in S : c.type = "p2tr" => c.sats < collateral + DdFee
    BY <1>1, <1>2, Units DEF Coins
  <2> QED BY <2>1, <2>2
<1>3. CASE fitting # {}
  <2>1. PlanMint(S, collateral) = p
    BY <1>3 DEF PlanMint
  <2>2. p # NoPlan /\ p.coin = m /\ p.change = Folded(m.sats - collateral - DdFee)
    BY DEF NoPlan
  <2>3. m \in fitting
    <3>1. \A c \in fitting : c.sats \in Nat
      BY DEF Coins
    <3> HIDE DEF fitting
    <3> QED BY <1>3, <3>1, SmallestOf
  <2>4. m.sats \in Nat /\ m.sats >= collateral + DdFee
    BY <2>3 DEF Coins
  <2> HIDE DEF m, p
  <2>5. /\ p.change = 0 \/ p.change >= Fold
        /\ p.coin.sats - collateral - p.change \in DdFee .. DdFee + Fold - 1
    BY <1>1, <2>2, <2>4, Units DEF Folded
  <2> QED BY <2>1, <2>2, <2>5
<1> QED BY <1>2, <1>3

\* Whatever the wallet holds, a transfer leaves a legal change and pays its fee, and is
\* refused only when no coin of the wallet would do.
THEOREM TransfersAreSound ==
    ASSUME NEW S, Coins(S), NEW D, DdCoins(D)
    PROVE  TransfersSound(S, D)
<1> SUFFICES ASSUME NEW cents \in Needs, cents >= MinDd
             PROVE  LET p == PlanTransfer(S, D, cents)
                    IN IF p = NoPlan
                       THEN \/ \A c \in S : c.sats < DdFee
                            \/ \A c \in D : c.cents < cents \/ c.cents - cents \in 1 .. MinDd - 1
                       ELSE p.fee \in S /\ p.fee.sats - DdFee >= 0 /\ LegalDd(p.coin.cents - cents)
  BY DEF TransfersSound
<1> DEFINE fitting == {c \in D : c.cents >= cents /\ LegalDd(c.cents - cents)}
           coin == CHOOSE c \in fitting : \A d \in fitting : c.cents <= d.cents
           fee == PickFee(S, coin.key)
           p == [coin |-> coin, cents |-> cents, fee |-> fee]
<1>1. cents \in Nat /\ (\A c \in D : c.cents \in Nat) /\ (\A c \in S : c.sats \in Nat)
  BY TxPlanAssumption DEF Coins, DdCoins
<1>2. PlanTransfer(S, D, cents) = IF fitting = {} \/ fee = NoCoin THEN NoPlan ELSE p
  BY Zenon DEF PlanTransfer
<1>3. CASE fitting = {}
  <2>1. \A c \in D : c.cents < cents \/ c.cents - cents \in 1 .. MinDd - 1
    BY <1>1, <1>3, Units DEF LegalDd
  <2> HIDE DEF fee, p
  <2> QED BY <1>2, <1>3, <2>1
<1>4. CASE fee = NoCoin
  <2>1. \A c \in S : c.sats < DdFee
    <3> HIDE DEF coin
    <3> QED BY <1>1, <1>4, FeeCoins
  <2> HIDE DEF p, fitting
  <2> QED BY <1>2, <1>4, <2>1
<1>5. CASE fitting # {} /\ fee # NoCoin
  <2>1. coin \in fitting
    <3> DEFINE T == {c.cents : c \in fitting}
    <3>1. T \subseteq Nat /\ T # {}
      BY <1>1, <1>5
    <3>2. PICK m \in T : \A n \in T : m <= n
      <4> HIDE DEF T
      <4> QED BY <3>1, NatLeast
    <3>3. \E c \in fitting : \A d \in fitting : c.cents <= d.cents
      BY <3>2
    <3> HIDE DEF fitting
    <3> QED BY <3>3
  <2>2. LegalDd(coin.cents - cents)
    BY <2>1
  <2> HIDE DEF coin
  <2>3. fee \in S /\ fee.sats >= DdFee
    BY <1>1, <1>5, FeeCoins
  <2>4. p # NoPlan /\ p.fee = fee /\ p.coin = coin
    BY DEF NoPlan
  <2>5. fee.sats - DdFee >= 0
    BY <1>1, <2>3, Units
  <2> HIDE DEF p, fee, fitting
  <2> QED BY <1>2, <1>5, <2>2, <2>3, <2>4, <2>5
<1> QED BY <1>3, <1>4, <1>5
-----------------------------------------------------------------------------
(* Redemptions *)

LEMMA CentsAdd ==
    ASSUME NEW D, DdCoins(D)
    PROVE  /\ Cents({}) = 0
           /\ \A T \in SUBSET D : Cents(T) \in Nat /\ Cents(D) = Cents(T) + Cents(D \ T)
           /\ \A T \in SUBSET D, x \in D : x \in T => Cents(T) = x.cents + Cents(T \ {x})
           /\ Cents(D) \in Nat
<1>1. \A x \in D : x.cents \in Int /\ x.cents \in Nat
  BY DEF DdCoins
<1>2. /\ Cents({}) = 0
      /\ \A T \in SUBSET D, x \in D : x \in T => Cents(T) = x.cents + Cents(T \ {x})
      /\ \A T \in SUBSET D : Cents(T) \in Int
  BY <1>1, CentsSum DEF DdCoins
<1>3. \A T \in SUBSET D : IsFiniteSet(T) /\ Cardinality(T) \in Nat /\ (Cardinality(T) = 0 <=> T = {})
  BY FS_Subset, FS_CardinalityType, FS_EmptySet DEF DdCoins
<1> DEFINE Good(T) == Cents(T) >= 0 /\ Cents(D) = Cents(T) + Cents(D \ T)
           N == {n \in Nat : \A T \in SUBSET D : Cardinality(T) = n => Good(T)}
<1>4. 0 \in N
  <2>1. Good({})
    BY <1>2
  <2> HIDE DEF Good
  <2> QED BY <1>3, <2>1
<1>5. ASSUME NEW n \in Nat, n \in N PROVE n + 1 \in N
  <2> SUFFICES ASSUME NEW T \in SUBSET D, Cardinality(T) = n + 1 PROVE Good(T)
    BY <1>5
  <2>1. PICK x \in T : TRUE
    BY <1>3
  <2>2. Cardinality(T \ {x}) = n
    BY <1>3, <2>1, SmallerBy
  <2>3. Good(T \ {x})
    <3> HIDE DEF Good
    <3> QED BY <1>5, <2>2
  <2>4. Cents(T) = x.cents + Cents(T \ {x})
    BY <1>2, <2>1
  <2>5. D \ (T \ {x}) \in SUBSET D /\ x \in D \ (T \ {x}) /\ (D \ (T \ {x})) \ {x} = D \ T
    BY <2>1
  <2>6. Cents(D \ (T \ {x})) = x.cents + Cents(D \ T)
    BY <1>2, <2>5
  <2>7. Cents(T \ {x}) \in Int /\ Cents(D \ T) \in Int /\ x.cents \in Nat
    BY <1>1, <1>2, <2>1
  <2> QED BY <2>3, <2>4, <2>6, <2>7
<1>6. Nat \subseteq N
  <2> HIDE DEF N
  <2> QED BY <1>4, <1>5, NatAll
<1>7. \A T \in SUBSET D : Good(T)
  <2> HIDE DEF Good
  <2> QED BY <1>3, <1>6
<1>8. D \in SUBSET D
  OBVIOUS
<1> QED BY <1>2, <1>7, <1>8

\* A list of all elements of a set, each once.
Lists(o, S) ==
    /\ o \in Seq(S) /\ Len(o) = Cardinality(S)
    /\ \A i, j \in 1 .. Len(o) : i # j => o[i] # o[j]
    /\ \A x \in S : \E i \in 1 .. Len(o) : x = o[i]

LEMMA Longer ==
    ASSUME NEW S, IsFiniteSet(S), NEW x \in S, NEW o, Lists(o, S \ {x})
    PROVE  Lists(<<x>> \o o, S)
<1> DEFINE p == <<x>> \o o
<1>1. o \in Seq(S \ {x}) /\ Len(o) \in Nat /\ Cardinality(S) = Len(o) + 1
  BY SmallerBy DEF Lists
<1>2. p \in Seq(S) /\ Len(p) = Len(o) + 1 /\ p[1] = x
  BY <1>1
<1>3. \A i \in 1 .. Len(o) : p[i + 1] = o[i]
  BY <1>1
<1>4. \A i \in 2 .. Len(p) : i - 1 \in 1 .. Len(o) /\ p[i] = o[i - 1] /\ p[i] # x
  BY <1>1, <1>2
<1> HIDE DEF p
<1>5. \A i, j \in 1 .. Len(p) : i # j => p[i] # p[j]
  <2> SUFFICES ASSUME NEW i \in 1 .. Len(p), NEW j \in 1 .. Len(p), i # j PROVE p[i] # p[j]
    OBVIOUS
  <2>1. CASE i = 1 \/ j = 1
    BY <1>1, <1>2, <1>4, <2>1
  <2>2. CASE i # 1 /\ j # 1
    <3>1. i \in 2 .. Len(p) /\ j \in 2 .. Len(p) /\ i - 1 # j - 1
      BY <1>1, <1>2, <2>2
    <3> QED BY <1>4, <3>1 DEF Lists
  <2> QED BY <2>1, <2>2
<1>6. ASSUME NEW y \in S PROVE \E i \in 1 .. Len(p) : y = p[i]
  <2>1. CASE y = x
    BY <1>1, <1>2, <2>1
  <2>2. CASE y # x
    <3>1. PICK i \in 1 .. Len(o) : y = o[i]
      BY <2>2 DEF Lists
    <3>2. i + 1 \in 1 .. Len(p) /\ y = p[i + 1]
      BY <1>1, <1>2, <1>3, <3>1
    <3> QED BY <3>2
  <2> QED BY <2>1, <2>2
<1> QED BY <1>1, <1>2, <1>5, <1>6 DEF Lists, p

LEMMA LargestOf ==
    ASSUME NEW D, DdCoins(D), NEW T \in SUBSET D, T # {}
    PROVE  LET c == CHOOSE c \in T : \A d \in T : CentsOf(c) >= CentsOf(d)
           IN c \in T /\ \A d \in T : c.cents >= d.cents
<1> DEFINE all == Cents(D)
           R == {all - c.cents : c \in T}
<1>1. \A c \in T : c.cents \in Nat /\ Cents(D) = c.cents + Cents(D \ {c}) /\ Cents(D \ {c}) \in Nat
  <2>1. D \in SUBSET D /\ \A c \in T : c \in D /\ D \ {c} \in SUBSET D
    OBVIOUS
  <2>2. /\ \A U \in SUBSET D : Cents(U) \in Nat
        /\ \A U \in SUBSET D, x \in D : x \in U => Cents(U) = x.cents + Cents(U \ {x})
    BY CentsAdd
  <2> QED BY <2>1, <2>2 DEF DdCoins
<1>5. all \in Nat
  BY CentsAdd
<1>7. \A c \in T : all - c.cents \in Nat /\ c.cents \in Nat
  <2> SUFFICES ASSUME NEW c \in T PROVE all - c.cents \in Nat /\ c.cents \in Nat
    OBVIOUS
  <2> DEFINE rest == Cents(D \ {c})
  <2>1. all = c.cents + rest /\ rest \in Nat /\ c.cents \in Nat
    BY <1>1
  <2> HIDE DEF all, rest
  <2> QED BY <1>5, <2>1
<1> HIDE DEF all
<1>2. R \subseteq Nat /\ R # {}
  BY <1>7
<1>3. PICK m \in R : \A n \in R : m <= n
  <2> HIDE DEF R
  <2> QED BY <1>2, NatLeast
<1>4. PICK c \in T : m = all - c.cents
  BY <1>3
<1>6. ASSUME NEW d \in T PROVE c.cents >= d.cents
  <2>1. all - d.cents \in R
    OBVIOUS
  <2>2. all - c.cents <= all - d.cents
    BY <1>3, <1>4, <2>1
  <2> QED BY <1>5, <1>7, <2>2
<1> QED BY <1>6 DEF CentsOf

\* The coins in their falling order are all of them, each once.
LEMMA Listed ==
    ASSUME NEW D, DdCoins(D)
    PROVE  Lists(Falling(D, CentsOf), D)
<1> DEFINE pick(T) == CHOOSE c \in T : \A d \in T : CentsOf(c) >= CentsOf(d)
           c == [T \in SUBSET D |-> pick(T)]
           V == Seq(D)
           step == [p \in D \X V |-> <<p[1]>> \o p[2]]
           Down(h) == h = [s \in SUBSET D |-> IF s = {} THEN <<>> ELSE <<pick(s)>> \o h[s \ {pick(s)}]]
<1>1. IsFiniteSet(D)
  BY DEF DdCoins
<1>2. \A T \in SUBSET D : T # {} => c[T] \in T /\ c[T] = pick(T)
  BY LargestOf
<1>3. Chooses(c, D)
  BY <1>2 DEF Chooses
<1>4. step \in [D \X V -> V] /\ <<>> \in V
  OBVIOUS
<1>5. PICK g \in [SUBSET D -> V] : IsFold(g, D, c, step, <<>>)
  <2> HIDE DEF c, step, V
  <2> QED BY <1>1, <1>3, <1>4, FoldExists
<1>6. g[{}] = <<>> /\ \A T \in SUBSET D : T # {} => g[T] = <<c[T]>> \o g[T \ {c[T]}]
  <2> SUFFICES ASSUME NEW T \in SUBSET D, T # {} PROVE g[T] = <<c[T]>> \o g[T \ {c[T]}]
    BY <1>5 DEF IsFold
  <2>1. c[T] \in D /\ g[T \ {c[T]}] \in V
    BY <1>2, <1>5
  <2>2. g[T] = step[<<c[T], g[T \ {c[T]}]>>]
    <3> HIDE DEF step, c
    <3> QED BY <1>5 DEF IsFold
  <2> HIDE DEF c, V
  <2> QED BY <2>1, <2>2
<1>7. \A T \in SUBSET D : IsFiniteSet(T) /\ Cardinality(T) \in Nat /\ (Cardinality(T) = 0 <=> T = {})
  BY <1>1, FS_Subset, FS_CardinalityType, FS_EmptySet
<1>8. Lists(g[D], D)
  <2> DEFINE N == {n \in Nat : \A T \in SUBSET D : Cardinality(T) = n => Lists(g[T], T)}
  <2>1. 0 \in N
    <3>1. Lists(<<>>, {})
      BY FS_EmptySet DEF Lists
    <3> QED BY <1>6, <1>7, <3>1
  <2>2. ASSUME NEW n \in Nat, n \in N PROVE n + 1 \in N
    <3> SUFFICES ASSUME NEW T \in SUBSET D, Cardinality(T) = n + 1 PROVE Lists(g[T], T)
      OBVIOUS
    <3> HIDE DEF c, pick, V, step, N
    <3>3. T # {}
      BY <1>7
    <3>1. c[T] \in T /\ g[T] = <<c[T]>> \o g[T \ {c[T]}]
      BY <1>2, <1>6, <3>3
    <3>2. Lists(g[T \ {c[T]}], T \ {c[T]})
      <4>1. Cardinality(T \ {c[T]}) = n
        BY SMTT(30), <1>7, <3>1, SmallerBy
      <4>2. T \ {c[T]} \in SUBSET D
        OBVIOUS
      <4> QED BY <2>2, <4>1, <4>2 DEF N
    <3> QED BY <1>7, <3>1, <3>2, Longer
  <2>3. Nat \subseteq N
    <3> HIDE DEF N
    <3> QED BY <2>1, <2>2, NatAll
  <2>4. D \in SUBSET D
    OBVIOUS
  <2> QED BY <1>7, <2>3, <2>4
<1>9. Down(g)
  <2>1. \A s \in SUBSET D : g[s] = IF s = {} THEN <<>> ELSE <<pick(s)>> \o g[s \ {pick(s)}]
    <3> HIDE DEF pick
    <3> QED BY <1>2, <1>6
  <2>2. g = [s \in SUBSET D |-> g[s]]
    <3> HIDE DEF c, pick, V
    <3> QED BY <1>5
  <2>3. [s \in SUBSET D |-> g[s]] = [s \in SUBSET D |-> IF s = {} THEN <<>> ELSE <<pick(s)>> \o g[s \ {pick(s)}]]
    <3> HIDE DEF pick
    <3> QED BY <2>1
  <2> HIDE DEF pick
  <2> QED BY <2>2, <2>3
<1> DEFINE H == CHOOSE h : Down(h)
<1>10. Down(H)
  <2> HIDE DEF Down
  <2> QED BY <1>9, Zenon
<1>11. H[D] = g[D]
  <2>1. \A s \in SUBSET D : H[s] = IF s = {} THEN <<>> ELSE <<pick(s)>> \o H[s \ {pick(s)}]
    <3> HIDE DEF H, pick
    <3> QED BY <1>10
  <2> HIDE DEF H, c, pick
  <2>2. Alike(H, g, D, c)
    BY <1>2, <1>6, <2>1 DEF Alike
  <2>3. D \in SUBSET D
    OBVIOUS
  <2> QED BY <1>1, <1>3, <2>2, <2>3, FoldsAgree
<1>12. Falling(D, CentsOf) = H[D]
  BY Zenon DEF Falling, MapThenFoldSet
<1> HIDE DEF H
<1> QED BY <1>8, <1>11, <1>12

LEMMA CentsMore ==
    ASSUME NEW D, DdCoins(D), NEW T \in SUBSET D
    PROVE  DdCoins(T) /\ Cents(T) \in Nat /\ Cents(D) \in Nat /\ Cents(T) <= Cents(D)
<1>1. DdCoins(T)
  BY FS_Subset DEF DdCoins
<1>2. Cents(T) \in Nat /\ Cents(D) = Cents(T) + Cents(D \ T) /\ D \ T \in SUBSET D
  BY CentsAdd
<1>3. Cents(D \ T) \in Nat
  BY <1>2, CentsAdd
<1> QED BY <1>1, <1>2, <1>3

Own(D) == {c \in D : c.key = Home}

\* The coins that are burned suffice, or are all there are of the position's key.
LEMMA Burns ==
    ASSUME NEW D, DdCoins(D), NEW need \in Nat \ {0}
    PROVE  /\ PlanBurn(D, need) \subseteq Own(D)
           /\ Cents(Own(D)) < need => PlanBurn(D, need) = Own(D)
           /\ Cents(Own(D)) >= need => Cents(PlanBurn(D, need)) >= need
<1> DEFINE own == Own(D)
           o == Falling(own, CentsOf)
           before(i) == Cents({o[j] : j \in 1 .. i - 1})
           B == {i \in 1 .. Len(o) : before(i) < need}
           burn == {o[i] : i \in B}
<1>1. PlanBurn(D, need) = burn
  BY Zenon DEF PlanBurn, Own
<1>2. own \in SUBSET D
  BY DEF Own
<1> HIDE DEF own
<1>3. DdCoins(own) /\ Cents(own) \in Nat
  BY <1>2, CentsMore
<1>4. Lists(o, own)
  BY <1>3, Listed
<1> HIDE DEF o
<1>5. Len(o) \in Nat /\ \A i \in 1 .. Len(o) : o[i] \in own
  BY <1>4 DEF Lists
<1>6. burn \subseteq own
  BY <1>5
<1>7. \A i \in 1 .. Len(o) : {o[j] : j \in 1 .. i - 1} \in SUBSET own /\ before(i) \in Nat /\ before(i) <= Cents(own)
  <2> SUFFICES ASSUME NEW i \in 1 .. Len(o)
               PROVE {o[j] : j \in 1 .. i - 1} \in SUBSET own /\ before(i) \in Nat /\ before(i) <= Cents(own)
    OBVIOUS
  <2>1. {o[j] : j \in 1 .. i - 1} \in SUBSET own
    BY <1>5
  <2> QED BY <1>3, <2>1, CentsMore
<1>8. B = 1 .. Len(o) => burn = own
  <2> SUFFICES ASSUME B = 1 .. Len(o) PROVE own \subseteq burn
    BY <1>6
  <2> HIDE DEF B
  <2>1. \A x \in own : \E i \in 1 .. Len(o) : x = o[i]
    BY <1>4 DEF Lists
  <2> QED BY <2>1
<1>9. CASE Cents(own) < need
  <2>1. \A i \in 1 .. Len(o) : before(i) < need
    <3> HIDE DEF before
    <3> QED BY <1>3, <1>7, <1>9
  <2>2. B = 1 .. Len(o)
    <3> HIDE DEF before
    <3> QED BY <2>1
  <2> HIDE DEF B
  <2> QED BY <1>1, <1>3, <1>6, <1>8, <1>9, <2>2 DEF own
<1>10. CASE Cents(own) >= need /\ B = 1 .. Len(o)
  <2> HIDE DEF B, burn
  <2> QED BY <1>1, <1>3, <1>6, <1>8, <1>10 DEF own
<1>11. CASE Cents(own) >= need /\ B # 1 .. Len(o)
  <2> DEFINE K == {i \in 1 .. Len(o) : before(i) >= need}
  <2>1. K \subseteq Nat /\ K # {}
    <3>1. PICK i \in 1 .. Len(o) : i \notin B
      <4> HIDE DEF before
      <4> QED BY <1>11
    <3>2. before(i) \in Nat /\ ~(before(i) < need)
      <4> HIDE DEF before
      <4> QED BY <1>7, <3>1
    <3> HIDE DEF before, B
    <3>3. i \in K
      BY <3>2
    <3> QED BY <3>3
  <2>2. PICK k \in K : \A n \in K : k <= n
    <3> HIDE DEF K
    <3> QED BY <2>1, NatLeast
  <2>3. {o[j] : j \in 1 .. k - 1} \in SUBSET burn
    <3> SUFFICES ASSUME NEW j \in 1 .. k - 1 PROVE j \in B
      OBVIOUS
    <3>1. j \in 1 .. Len(o) /\ j \notin K
      <4> HIDE DEF before
      <4> QED BY <1>5, <2>2
    <3>2. before(j) \in Nat /\ ~(before(j) >= need)
      <4> HIDE DEF before
      <4> QED BY <1>7, <3>1
    <3> HIDE DEF before
    <3> QED BY <3>1, <3>2
  <2>4. before(k) >= need
    <3> HIDE DEF before
    <3> QED BY <2>2
  <2>5. DdCoins(burn) /\ Cents(burn) \in Nat
    <3> HIDE DEF burn
    <3> QED BY <1>3, <1>6, CentsMore
  <2>6. before(k) <= Cents(burn) /\ before(k) \in Nat
    <3> HIDE DEF burn
    <3> QED BY <2>3, <2>5, CentsMore
  <2>7. Cents(burn) >= need
    <3> HIDE DEF burn, before
    <3> QED BY <2>4, <2>5, <2>6
  <2> HIDE DEF burn, B
  <2> QED BY <1>1, <1>3, <1>6, <1>11, <2>7 DEF own
<1> QED BY <1>3, <1>9, <1>10, <1>11

LEMMA MinTwo ==
    ASSUME NEW a \in Nat, NEW b \in Nat
    PROVE  Min({a, b}) = IF a <= b THEN a ELSE b
<1>1. {a, b} \subseteq Nat /\ {a, b} # {}
  OBVIOUS
<1>2. Min({a, b}) \in {a, b} /\ \A n \in {a, b} : Min({a, b}) <= n
  BY <1>1, MinOf
<1> QED BY <1>2

\* What a leg moves is legal, and so is what it leaves; it is what is missing at least,
\* or the whole coin.
LEMMA MovesAreLegal ==
    ASSUME NEW c, c.cents \in Nat, c.cents >= MinDd, NEW missing \in Nat \ {0}
    PROVE  /\ Moved(c, missing) \in Nat /\ Moved(c, missing) >= MinDd /\ Moved(c, missing) <= c.cents
           /\ LegalDd(c.cents - Moved(c, missing))
           /\ Moved(c, missing) >= missing \/ Moved(c, missing) = c.cents
<1> DEFINE part == Min({c.cents, missing})
<1>1. part \in Nat /\ part <= c.cents /\ part <= missing /\ (part = missing \/ part = c.cents)
  BY MinTwo
<1>2. Moved(c, missing) = IF part < MinDd \/ ~LegalDd(c.cents - part) THEN c.cents ELSE part
  BY DEF Moved
<1> HIDE DEF part
<1> QED BY <1>1, <1>2, Units DEF LegalDd

LegOf(D) == [coin : D, cents : Nat]
Legs(s) == {s[k] : k \in 1 .. Len(s)}

\* Every leg is legal and under the ceiling, and no coin is in two.
LegalLegs(s, cap) ==
    /\ \A k \in 1 .. Len(s) : /\ s[k].cents >= MinDd /\ LegalDd(s[k].coin.cents - s[k].cents)
                              /\ cap # NoCap => s[k].cents <= cap
    /\ \A k, l \in 1 .. Len(s) : k # l => s[k].coin # s[l].coin

LEMMA LegsAdd ==
    ASSUME NEW D, NEW s \in Seq(LegOf(D))
    PROVE  DdCoins(Legs(s)) /\ Legs(s) \subseteq LegOf(D) /\ Cents(Legs(s)) \in Nat
<1>1. Len(s) \in Nat /\ \A k \in 1 .. Len(s) : s[k] \in LegOf(D)
  OBVIOUS
<1>2. IsFiniteSet(1 .. Len(s))
  BY <1>1, FS_Interval
<1>3. IsFiniteSet(Legs(s))
  <2> DEFINE f == [k \in 1 .. Len(s) |-> s[k]]
  <2>1. f \in Surjection(1 .. Len(s), Legs(s))
    BY DEF Surjection, Legs
  <2> HIDE DEF f
  <2> QED BY <1>2, <2>1, FS_Surjection
<1>4. Legs(s) \subseteq LegOf(D)
  BY <1>1 DEF Legs
<1>5. DdCoins(Legs(s))
  BY <1>3, <1>4 DEF DdCoins, LegOf
<1> QED BY <1>4, <1>5, CentsAdd

LEMMA OneMoreLeg ==
    ASSUME NEW D, NEW s \in Seq(LegOf(D)), NEW leg \in LegOf(D), NEW cap \in Nat, LegalLegs(s, cap),
           leg.cents >= MinDd, LegalDd(leg.coin.cents - leg.cents), cap # NoCap => leg.cents <= cap,
           \A k \in 1 .. Len(s) : s[k].coin # leg.coin
    PROVE  /\ Append(s, leg) \in Seq(LegOf(D)) /\ LegalLegs(Append(s, leg), cap)
           /\ Cents(Legs(Append(s, leg))) = Cents(Legs(s)) + leg.cents
           /\ \A k \in 1 .. Len(s) + 1 : Append(s, leg)[k] = IF k = Len(s) + 1 THEN leg ELSE s[k]
           /\ Len(Append(s, leg)) = Len(s) + 1
<1> DEFINE t == Append(s, leg)
<1>1. /\ t \in Seq(LegOf(D)) /\ Len(s) \in Nat /\ Len(t) = Len(s) + 1
      /\ \A k \in 1 .. Len(s) + 1 : t[k] = IF k = Len(s) + 1 THEN leg ELSE s[k]
  OBVIOUS
<1> HIDE DEF t
<1>2. LegalLegs(t, cap)
  <2>1. \A k \in 1 .. Len(t) : /\ t[k].cents >= MinDd /\ LegalDd(t[k].coin.cents - t[k].cents)
                               /\ cap # NoCap => t[k].cents <= cap
    BY <1>1 DEF LegalLegs
  <2>2. \A k, l \in 1 .. Len(t) : k # l => t[k].coin # t[l].coin
    BY <1>1 DEF LegalLegs
  <2> QED BY <2>1, <2>2 DEF LegalLegs
<1>3. Legs(t) = Legs(s) \union {leg} /\ leg \notin Legs(s)
  <2>1. leg \notin Legs(s)
    BY DEF Legs
  <2>2. Legs(t) \subseteq Legs(s) \union {leg}
    BY <1>1 DEF Legs
  <2>3. leg \in Legs(t)
    <3>1. Len(s) + 1 \in 1 .. Len(t) /\ leg = t[Len(s) + 1]
      BY <1>1
    <3> QED BY <3>1 DEF Legs
  <2>4. \A k \in 1 .. Len(s) : k \in 1 .. Len(t) /\ s[k] = t[k]
    BY <1>1
  <2>5. Legs(s) \subseteq Legs(t)
    BY <2>4 DEF Legs
  <2> QED BY <2>1, <2>2, <2>3, <2>5
<1>4. Legs(t) \ {leg} = Legs(s) /\ leg \in Legs(t)
  BY <1>3
<1>5. Cents(Legs(t)) = leg.cents + Cents(Legs(s)) /\ Cents(Legs(s)) \in Nat /\ leg.cents \in Nat
  <2>1. DdCoins(Legs(t)) /\ Cents(Legs(s)) \in Nat
    BY <1>1, LegsAdd
  <2>2. Legs(t) \in SUBSET Legs(t)
    OBVIOUS
  <2>3. \A T \in SUBSET Legs(t), x \in Legs(t) : x \in T => Cents(T) = x.cents + Cents(T \ {x})
    BY <2>1, CentsAdd
  <2>4. Cents(Legs(t)) = leg.cents + Cents(Legs(t) \ {leg})
    BY <1>4, <2>2, <2>3
  <2> QED BY <1>4, <2>1, <2>4 DEF LegOf
<1> QED BY <1>1, <1>2, <1>5 DEF t

GatheredIn(D) == [legs : Seq(LegOf(D)), missing : Int]
Large(order, i) == {order[j] : j \in {j \in 1 .. i : order[j].cents >= MinDd}}

\* What the legs that were made of the first i coins are, and what is still missing.
Gathered(acc, i, order, D, short, cap) ==
    /\ acc \in GatheredIn(D) /\ LegalLegs(acc.legs, cap)
    /\ \A k \in 1 .. Len(acc.legs) : \E j \in 1 .. i : acc.legs[k].coin = order[j]
    /\ Cents(Legs(acc.legs)) = short - acc.missing
    /\ cap = NoCap /\ acc.missing > 0 => Cents(Large(order, i)) = short - acc.missing

LEMMA LegType ==
    ASSUME NEW D, DdCoins(D), NEW acc \in GatheredIn(D), NEW c \in D, NEW cap \in Nat
    PROVE  WithLeg(acc, c, cap) \in GatheredIn(D)
<1>1. acc.legs \in Seq(LegOf(D)) /\ acc.missing \in Int /\ c.cents \in Nat
  BY DEF GatheredIn, DdCoins
<1>2. CASE acc.missing <= 0 \/ c.cents < MinDd \/ (cap # NoCap /\ Moved(c, acc.missing) > cap)
  BY <1>2 DEF WithLeg
<1>3. CASE ~(acc.missing <= 0 \/ c.cents < MinDd \/ (cap # NoCap /\ Moved(c, acc.missing) > cap))
  <2>1. acc.missing \in Nat \ {0} /\ c.cents >= MinDd
    BY <1>1, <1>3, Units
  <2>2. Moved(c, acc.missing) \in Nat
    BY <1>1, <2>1, MovesAreLegal
  <2>3. WithLeg(acc, c, cap) = [legs |-> Append(acc.legs, [coin |-> c, cents |-> Moved(c, acc.missing)]),
                                missing |-> acc.missing - Moved(c, acc.missing)]
    BY <1>3 DEF WithLeg
  <2>4. [coin |-> c, cents |-> Moved(c, acc.missing)] \in LegOf(D)
    BY <2>2 DEF LegOf
  <2>5. Append(acc.legs, [coin |-> c, cents |-> Moved(c, acc.missing)]) \in Seq(LegOf(D))
    BY <1>1, <2>4
  <2>6. acc.missing - Moved(c, acc.missing) \in Int
    BY <1>1, <2>2
  <2> QED BY <2>3, <2>5, <2>6 DEF GatheredIn
<1> QED BY <1>2, <1>3

LEMMA LargeGrows ==
    ASSUME NEW D, DdCoins(D), NEW order, Lists(order, D), NEW i \in 1 .. Len(order)
    PROVE  /\ order[i] \in D /\ order[i].cents \in Nat
           /\ Large(order, i) \in SUBSET D /\ Large(order, i - 1) \in SUBSET D
           /\ order[i].cents < MinDd => Large(order, i) = Large(order, i - 1)
           /\ order[i].cents >= MinDd => Cents(Large(order, i)) = order[i].cents + Cents(Large(order, i - 1))
           /\ Cents(Large(order, i - 1)) \in Nat
           /\ \A j \in 1 .. i - 1 : order[j] # order[i]
<1>1. Len(order) \in Nat /\ \A j \in 1 .. Len(order) : order[j] \in D
  BY DEF Lists
<1>2. order[i] \in D /\ order[i].cents \in Nat
  BY <1>1 DEF DdCoins
<1>3. Large(order, i) \in SUBSET D /\ Large(order, i - 1) \in SUBSET D
  BY <1>1 DEF Large
<1>4. \A j \in 1 .. i - 1 : order[j] # order[i]
  BY <1>1 DEF Lists
<1>5. ASSUME order[i].cents < MinDd PROVE Large(order, i) = Large(order, i - 1)
  <2>1. {j \in 1 .. i : order[j].cents >= MinDd} = {j \in 1 .. i - 1 : order[j].cents >= MinDd}
    BY <1>2, <1>5, Units
  <2> QED BY <2>1, Zenon DEF Large
<1>6. ASSUME order[i].cents >= MinDd
      PROVE  Cents(Large(order, i)) = order[i].cents + Cents(Large(order, i - 1))
  <2>1. order[i] \in Large(order, i)
    BY <1>1, <1>6 DEF Large
  <2>2. Large(order, i - 1) \subseteq Large(order, i) \ {order[i]}
    BY <1>1, <1>4 DEF Large
  <2>3. Large(order, i) \ {order[i]} \subseteq Large(order, i - 1)
    <3> SUFFICES ASSUME NEW j \in 1 .. i, order[j].cents >= MinDd, order[j] # order[i]
                 PROVE  order[j] \in Large(order, i - 1)
      BY DEF Large
    <3>1. j \in 1 .. i - 1
      BY <1>1
    <3> QED BY <3>1 DEF Large
  <2>4. Large(order, i) \ {order[i]} = Large(order, i - 1)
    BY <2>2, <2>3
  <2>5. \A T \in SUBSET D, x \in D : x \in T => Cents(T) = x.cents + Cents(T \ {x})
    BY CentsAdd
  <2>6. Cents(Large(order, i)) = order[i].cents + Cents(Large(order, i) \ {order[i]})
    BY <1>2, <1>3, <2>1, <2>5
  <2> QED BY <2>4, <2>6
<1>7. Cents(Large(order, i - 1)) \in Nat
  BY <1>3, CentsAdd
<1> QED BY <1>2, <1>3, <1>4, <1>5, <1>6, <1>7

LEMMA GatherStep ==
    ASSUME NEW D, DdCoins(D), NEW order, Lists(order, D), NEW short \in Nat, NEW cap \in Nat,
           NEW i \in 1 .. Len(order), NEW acc, Gathered(acc, i - 1, order, D, short, cap)
    PROVE  Gathered(WithLeg(acc, order[i], cap), i, order, D, short, cap)
<1> DEFINE c == order[i]
           m == Moved(c, acc.missing)
           leg == [coin |-> c, cents |-> m]
           next == WithLeg(acc, c, cap)
           old == Cents(Large(order, i - 1))
<1>1. acc.legs \in Seq(LegOf(D)) /\ acc.missing \in Int /\ c.cents \in Nat /\ c \in D /\ i \in Nat
  BY LargeGrows DEF Gathered, GatheredIn
<1>2. next \in GatheredIn(D)
  BY <1>1, LegType DEF Gathered
<1>3. ASSUME acc.missing <= 0 \/ c.cents < MinDd \/ (cap # NoCap /\ m > cap)
      PROVE  Gathered(next, i, order, D, short, cap)
  <2>1. next = acc
    BY <1>3 DEF WithLeg
  <2>2. \A k \in 1 .. Len(acc.legs) : \E j \in 1 .. i : acc.legs[k].coin = order[j]
    BY <1>1 DEF Gathered
  <2>3. ASSUME cap = NoCap, acc.missing > 0 PROVE Cents(Large(order, i)) = short - acc.missing
    <3>1. c.cents < MinDd
      BY <1>1, <1>3, <2>3
    <3>2. Large(order, i) = Large(order, i - 1)
      BY <3>1, LargeGrows
    <3> QED BY <2>3, <3>2 DEF Gathered
  <2> HIDE DEF next
  <2> QED BY <2>1, <2>2, <2>3 DEF Gathered
<1>4. ASSUME ~(acc.missing <= 0 \/ c.cents < MinDd \/ (cap # NoCap /\ m > cap))
      PROVE  Gathered(next, i, order, D, short, cap)
  <2>1. next = [legs |-> Append(acc.legs, leg), missing |-> acc.missing - m]
    BY <1>4 DEF WithLeg
  <2>2. acc.missing \in Nat \ {0} /\ c.cents >= MinDd
    BY <1>1, <1>4, Units
  <2>3. /\ m \in Nat /\ m >= MinDd /\ m <= c.cents /\ LegalDd(c.cents - m)
        /\ m >= acc.missing \/ m = c.cents
    BY <1>1, <2>2, MovesAreLegal
  <2>4. cap # NoCap => m <= cap
    BY <1>4, <2>3
  <2> HIDE DEF m
  <2>5. leg \in LegOf(D) /\ leg.cents = m /\ leg.coin = c
    BY <1>1, <2>3 DEF LegOf
  <2> HIDE DEF leg
  <2>6. \A k \in 1 .. Len(acc.legs) : acc.legs[k].coin # leg.coin
    BY <2>5, LargeGrows DEF Gathered
  <2>7. LegalLegs(acc.legs, cap)
    BY DEF Gathered
  <2>8. /\ LegalLegs(Append(acc.legs, leg), cap)
        /\ Cents(Legs(Append(acc.legs, leg))) = Cents(Legs(acc.legs)) + m
        /\ \A k \in 1 .. Len(acc.legs) + 1 :
              Append(acc.legs, leg)[k] = IF k = Len(acc.legs) + 1 THEN leg ELSE acc.legs[k]
        /\ Len(Append(acc.legs, leg)) = Len(acc.legs) + 1
    <3>1. leg.cents >= MinDd /\ LegalDd(leg.coin.cents - leg.cents) /\ (cap # NoCap => leg.cents <= cap)
      BY <2>3, <2>4, <2>5
    <3>2. acc.legs \in Seq(LegOf(D)) /\ leg \in LegOf(D) /\ cap \in Nat
      BY <1>1, <2>5
    <3> HIDE DEF c
    <3>3. Cents(Legs(Append(acc.legs, leg))) = Cents(Legs(acc.legs)) + leg.cents
      BY <2>6, <2>7, <3>1, <3>2, OneMoreLeg, Zenon
    <3>4. LegalLegs(Append(acc.legs, leg), cap)
      BY <2>6, <2>7, <3>1, <3>2, OneMoreLeg, Zenon
    <3>5. /\ \A k \in 1 .. Len(acc.legs) + 1 :
                Append(acc.legs, leg)[k] = IF k = Len(acc.legs) + 1 THEN leg ELSE acc.legs[k]
          /\ Len(Append(acc.legs, leg)) = Len(acc.legs) + 1
      BY <3>2
    <3> QED BY <2>5, <3>3, <3>4, <3>5
  <2>9. next.legs = Append(acc.legs, leg) /\ next.missing = acc.missing - m
    BY <2>1
  <2> HIDE DEF next
  <2>10. \A k \in 1 .. Len(next.legs) : \E j \in 1 .. i : next.legs[k].coin = order[j]
    <3> SUFFICES ASSUME NEW k \in 1 .. Len(next.legs) PROVE \E j \in 1 .. i : next.legs[k].coin = order[j]
      OBVIOUS
    <3>1. CASE k = Len(acc.legs) + 1
      BY <1>1, <2>5, <2>8, <2>9, <3>1
    <3>2. CASE k # Len(acc.legs) + 1
      <4>1. k \in 1 .. Len(acc.legs) /\ next.legs[k] = acc.legs[k]
        BY <1>1, <2>8, <2>9, <3>2, SMTT(30)
      <4>2. PICK j \in 1 .. i - 1 : acc.legs[k].coin = order[j]
        BY <4>1 DEF Gathered
      <4> QED BY <1>1, <4>1, <4>2
    <3> QED BY <3>1, <3>2
  <2>11. Cents(Legs(next.legs)) = short - next.missing
    <3>1. Cents(Legs(acc.legs)) = short - acc.missing
      BY DEF Gathered
    <3> QED BY <1>1, <2>3, <2>8, <2>9, <3>1
  <2>12. ASSUME cap = NoCap, next.missing > 0 PROVE Cents(Large(order, i)) = short - next.missing
    <3>1. m = c.cents
      BY <1>1, <2>3, <2>9, <2>12
    <3>2. old = short - acc.missing
      BY <2>2, <2>12 DEF Gathered
    <3>3. Cents(Large(order, i)) = c.cents + old /\ old \in Nat
      BY <2>2, LargeGrows
    <3> HIDE DEF old
    <3> QED BY <1>1, <2>3, <2>9, <3>1, <3>2, <3>3
  <2> QED BY <1>2, <2>8, <2>9, <2>10, <2>11, <2>12 DEF Gathered
<1> QED BY <1>3, <1>4

LEMMA NothingGathered ==
    ASSUME NEW D, NEW order, NEW short \in Nat, NEW cap \in Nat
    PROVE  LET start == [legs |-> <<>>, missing |-> short]
           IN start \in GatheredIn(D) /\ Gathered(start, 0, order, D, short, cap)
<1> DEFINE start == [legs |-> <<>>, missing |-> short]
<1>1. start \in GatheredIn(D) /\ start.legs = <<>> /\ start.missing = short
  BY DEF GatheredIn
<1>2. DdCoins({})
  BY FS_EmptySet DEF DdCoins
<1>3. Cents({}) = 0
  BY <1>2, CentsAdd
<1>4. Legs(<<>>) = {} /\ Large(order, 0) = {}
  BY DEF Legs, Large
<1>5. LegalLegs(<<>>, cap)
  BY DEF LegalLegs
<1> HIDE DEF start
<1>6. Gathered(start, 0, order, D, short, cap)
  <2>1. Len(start.legs) = 0 /\ short - start.missing = 0
    BY <1>1
  <2>2. Cents(Legs(start.legs)) = 0 /\ Cents(Large(order, 0)) = 0
    BY <1>1, <1>3, <1>4
  <2> QED BY <1>1, <1>5, <2>1, <2>2 DEF Gathered
<1> QED BY <1>1, <1>6 DEF start

\* The fold of the legs ends in what was gathered from all coins.
LEMMA GatherEnds ==
    ASSUME NEW D, DdCoins(D), NEW order, Lists(order, D), NEW short \in Nat, NEW cap \in Nat
    PROVE  \E end : /\ Gathered(end, Len(order), order, D, short, cap)
                    /\ PlanGather(order, short, cap) = IF end.missing > 0 THEN NoPlan ELSE [legs |-> end.legs]
<1> DEFINE n == Len(order)
           V == GatheredIn(D)
           start == [legs |-> <<>>, missing |-> short]
           step == [p \in (1 .. n) \X V |-> WithLeg(p[2], order[p[1]], cap)]
           Down(h) == h = [s \in SUBSET (1 .. n) |->
                              IF s = {} THEN start ELSE WithLeg(h[s \ {Max(s)}], order[Max(s)], cap)]
<1>1. n \in Nat /\ DOMAIN order = 1 .. n /\ \A i \in 1 .. n : order[i] \in D
  BY DEF Lists
<1>2. start \in V /\ Gathered(start, 0, order, D, short, cap)
  BY NothingGathered
<1> HIDE DEF start, n, V
<1>3. step \in [(1 .. n) \X V -> V]
  <2> SUFFICES ASSUME NEW i \in 1 .. n, NEW acc \in V PROVE WithLeg(acc, order[i], cap) \in V
    OBVIOUS
  <2> QED BY <1>1, LegType DEF V
<1>4. PICK g : FoldOf(g, n, V, step, start)
  <2> HIDE DEF step
  <2> QED BY <1>1, <1>2, <1>3, FoldOver
<1>5. /\ g[{}] = start /\ g[1 .. 0] = start
      /\ \A i \in 1 .. n : g[1 .. i] = step[<<i, g[1 .. i - 1]>>]
      /\ \A i \in 0 .. n : g[1 .. i] \in V
  <2> HIDE DEF step
  <2> QED BY <1>1, <1>4, FoldSteps
<1>6. \A i \in 1 .. n : g[1 .. i] = WithLeg(g[1 .. i - 1], order[i], cap)
  <2> SUFFICES ASSUME NEW i \in 1 .. n PROVE g[1 .. i] = WithLeg(g[1 .. i - 1], order[i], cap)
    OBVIOUS
  <2>1. i - 1 \in 0 .. n
    BY <1>1
  <2>2. <<i, g[1 .. i - 1]>> \in (1 .. n) \X V
    BY <1>5, <2>1
  <2>3. g[1 .. i] = step[<<i, g[1 .. i - 1]>>]
    <3> HIDE DEF step
    <3> QED BY <1>5
  <2> QED BY <2>2, <2>3
<1> DEFINE Holds(i) == Gathered(g[1 .. i], i, order, D, short, cap)
           N == {i \in Nat : i <= n => Holds(i)}
<1>7. 0 \in N
  BY <1>2, <1>5
<1>8. ASSUME NEW i \in Nat, i \in N PROVE i + 1 \in N
  <2> SUFFICES ASSUME i + 1 <= n PROVE Holds(i + 1)
    OBVIOUS
  <2>1. i + 1 \in 1 .. n /\ i + 1 \in 1 .. Len(order) /\ (i + 1) - 1 = i
    BY <1>1 DEF n
  <2>2. Holds((i + 1) - 1)
    BY <1>1, <1>8, <2>1
  <2>3. Gathered(WithLeg(g[1 .. (i + 1) - 1], order[i + 1], cap), i + 1, order, D, short, cap)
    BY <2>1, <2>2, GatherStep
  <2> QED BY <1>6, <2>1, <2>3
<1>9. Holds(n)
  <2>1. Nat \subseteq N
    <3> HIDE DEF N
    <3> QED BY <1>7, <1>8, NatAll
  <2> HIDE DEF Holds
  <2> QED BY <1>1, <2>1
<1>10. \A s \in SUBSET (1 .. n) : s # {} => Max(s) \in 1 .. n /\ s \ {Max(s)} \in SUBSET (1 .. n)
  BY <1>1, MaxOf
<1>11. \A s \in SUBSET (1 .. n) :
          g[s] = IF s = {} THEN start ELSE WithLeg(g[s \ {Max(s)}], order[Max(s)], cap)
  <2> SUFFICES ASSUME NEW s \in SUBSET (1 .. n), s # {}
               PROVE  g[s] = WithLeg(g[s \ {Max(s)}], order[Max(s)], cap)
    BY <1>5
  <2>1. <<Max(s), g[s \ {Max(s)}]>> \in (1 .. n) \X V
    BY <1>4, <1>10 DEF FoldOf
  <2>2. g[s] = step[<<Max(s), g[s \ {Max(s)}]>>]
    <3> HIDE DEF step
    <3> QED BY <1>4 DEF FoldOf
  <2> QED BY <2>1, <2>2
<1>12. Down(g)
  <2>1. g = [s \in SUBSET (1 .. n) |-> g[s]]
    BY <1>4 DEF FoldOf
  <2>2. [s \in SUBSET (1 .. n) |-> g[s]]
        = [s \in SUBSET (1 .. n) |-> IF s = {} THEN start ELSE WithLeg(g[s \ {Max(s)}], order[Max(s)], cap)]
    BY <1>11
  <2> QED BY <2>1, <2>2
<1> DEFINE H == CHOOSE h : Down(h)
<1>13. Down(H)
  <2> HIDE DEF Down
  <2> QED BY <1>12, Zenon
<1>14. H[1 .. n] = g[1 .. n]
  <2>1. \A s \in SUBSET (1 .. n) :
           H[s] = IF s = {} THEN start ELSE WithLeg(H[s \ {Max(s)}], order[Max(s)], cap)
    <3> HIDE DEF H
    <3> QED BY <1>13
  <2> HIDE DEF H
  <2>2. GoesLike(H, g, n)
    BY <1>11, <2>1 DEF GoesLike
  <2> QED BY <1>1, <2>2, FoldSame
<1>15. PlanGather(order, short, cap) = IF H[1 .. n].missing > 0 THEN NoPlan ELSE [legs |-> H[1 .. n].legs]
  BY <1>1, Zenon DEF PlanGather, FoldLeft, MapThenFoldSet, start
<1> HIDE DEF H
<1>16. Gathered(H[1 .. n], Len(order), order, D, short, cap)
  BY <1>9, <1>14 DEF n
<1> QED BY <1>15, <1>16

\* Without a ceiling the legs fail only when the coins that can move do not suffice.
LEMMA Gathers ==
    ASSUME NEW D, DdCoins(D), NEW short \in Nat \ {0}, NEW cap \in Nat
    PROVE  LET p == PlanGather(Falling(D, CentsOf), short, cap)
           IN IF p = NoPlan THEN cap = NoCap => Cents({c \in D : c.cents >= MinDd}) < short
              ELSE /\ p.legs \in Seq(LegOf(D)) /\ LegalLegs(p.legs, cap)
                   /\ Cents(Legs(p.legs)) >= short
<1> DEFINE order == Falling(D, CentsOf)
           p == PlanGather(order, short, cap)
<1>1. Lists(order, D)
  BY Listed
<1> HIDE DEF order
<1>2. PICK end : /\ Gathered(end, Len(order), order, D, short, cap)
                 /\ p = IF end.missing > 0 THEN NoPlan ELSE [legs |-> end.legs]
  BY <1>1, GatherEnds
<1>3. end.legs \in Seq(LegOf(D)) /\ end.missing \in Int /\ LegalLegs(end.legs, cap)
      /\ Cents(Legs(end.legs)) = short - end.missing
  BY <1>2 DEF Gathered, GatheredIn
<1> HIDE DEF p
<1>4. CASE end.missing > 0
  <2>1. Large(order, Len(order)) = {c \in D : c.cents >= MinDd}
    BY <1>1 DEF Large, Lists
  <2>2. cap = NoCap => Cents({c \in D : c.cents >= MinDd}) = short - end.missing
    BY <1>2, <1>4, <2>1 DEF Gathered
  <2>3. p = NoPlan
    BY <1>2, <1>4
  <2> QED BY <1>3, <1>4, <2>2, <2>3 DEF p, order
<1>5. CASE ~(end.missing > 0)
  <2>1. p = [legs |-> end.legs] /\ p # NoPlan
    BY <1>2, <1>5 DEF NoPlan
  <2>2. Cents(Legs(end.legs)) >= short
    BY <1>3, <1>5
  <2> QED BY <1>3, <2>1, <2>2 DEF p, order
<1> QED BY <1>4, <1>5

\* The fee coins of the first i legs: each pays, none pays twice, and one is wanting
\* only when the earlier ones are all there are.
Paid(fees, i, S) ==
    /\ fees \in Seq(S \union {NoCoin}) /\ Len(fees) = i
    /\ \A k \in 1 .. i :
          IF fees[k] = NoCoin
          THEN \A c \in S : c.sats >= DdFee => \E j \in 1 .. k - 1 : fees[j] = c
          ELSE fees[k] \in S /\ fees[k].sats >= DdFee /\ \A j \in 1 .. k - 1 : fees[j] # fees[k]

OneMoreFee(S, fees, key) == Append(fees, PickFee(S \ {fees[k] : k \in 1 .. Len(fees)}, key))

LEMMA FeeStep ==
    ASSUME NEW S, Coins(S), NEW fees \in Seq(S \union {NoCoin}), NEW key
    PROVE  /\ OneMoreFee(S, fees, key) \in Seq(S \union {NoCoin})
           /\ \A i \in Nat : Paid(fees, i, S) => Paid(OneMoreFee(S, fees, key), i + 1, S)
<1> DEFINE taken == {fees[k] : k \in 1 .. Len(fees)}
           free == S \ taken
           pick == PickFee(free, key)
           next == Append(fees, pick)
<1>1. /\ pick # NoCoin => pick \in free /\ pick.sats >= DdFee
      /\ pick = NoCoin => \A c \in free : c.sats < DdFee
  <2>1. \A c \in free : c.sats \in Nat
    BY DEF Coins
  <2> HIDE DEF free
  <2> QED BY <2>1, FeeCoins
<1>2. pick \in S \union {NoCoin}
  <2> HIDE DEF pick
  <2> QED BY <1>1
<1>3. OneMoreFee(S, fees, key) = next
  BY DEF OneMoreFee
<1> HIDE DEF pick
<1>4. /\ next \in Seq(S \union {NoCoin}) /\ Len(fees) \in Nat /\ Len(next) = Len(fees) + 1
      /\ \A k \in 1 .. Len(fees) + 1 : next[k] = IF k = Len(fees) + 1 THEN pick ELSE fees[k]
  BY <1>2
<1> HIDE DEF next
<1>5. ASSUME NEW i \in Nat, Paid(fees, i, S) PROVE Paid(next, i + 1, S)
  <2>1. Len(fees) = i
    BY <1>5 DEF Paid
  <2>2. ASSUME NEW k \in 1 .. i
        PROVE  IF next[k] = NoCoin
               THEN \A c \in S : c.sats >= DdFee => \E j \in 1 .. k - 1 : next[j] = c
               ELSE next[k] \in S /\ next[k].sats >= DdFee /\ \A j \in 1 .. k - 1 : next[j] # next[k]
    <3>1. next[k] = fees[k] /\ \A j \in 1 .. k - 1 : next[j] = fees[j]
      BY <1>4, <2>1
    <3> QED BY <1>5, <3>1 DEF Paid
  <2>3. next[i + 1] = pick /\ \A j \in 1 .. i : next[j] = fees[j] /\ next[j] \in taken
    BY <1>4, <2>1
  <2>4. ASSUME pick = NoCoin, NEW c \in S, c.sats >= DdFee PROVE \E j \in 1 .. i : next[j] = c
    <3>1. c \notin free
      <4> HIDE DEF free
      <4> QED BY <1>1, <2>4, Units DEF Coins
    <3> QED BY <2>1, <2>3, <3>1
  <2>5. ASSUME pick # NoCoin PROVE pick \in S /\ pick.sats >= DdFee /\ \A j \in 1 .. i : next[j] # pick
    <3>1. pick \in S /\ pick \notin taken /\ pick.sats >= DdFee
      <4> HIDE DEF taken
      <4> QED BY <1>1, <2>5
    <3> HIDE DEF taken
    <3> QED BY <2>3, <3>1
  <2>6. ASSUME NEW k \in 1 .. i + 1
        PROVE  IF next[k] = NoCoin
               THEN \A c \in S : c.sats >= DdFee => \E j \in 1 .. k - 1 : next[j] = c
               ELSE next[k] \in S /\ next[k].sats >= DdFee /\ \A j \in 1 .. k - 1 : next[j] # next[k]
    <3>1. CASE k = i + 1
      <4>1. k - 1 = i
        BY <3>1
      <4> QED BY <2>3, <2>4, <2>5, <3>1, <4>1
    <3>2. CASE k # i + 1
      <4>1. k \in 1 .. i
        BY <3>2
      <4> QED BY <2>2, <4>1
    <3> QED BY <3>1, <3>2
  <2> QED BY <1>4, <2>1, <2>6 DEF Paid
<1> QED BY <1>3, <1>4, <1>5

LEMMA FeesPaid ==
    ASSUME NEW S, Coins(S), NEW D, NEW legs \in Seq(D)
    PROVE  Paid(LegFees(S, legs), Len(legs), S)
<1> DEFINE n == Len(legs)
           V == Seq(S \union {NoCoin})
           step == [p \in (1 .. n) \X V |-> OneMoreFee(S, p[2], legs[p[1]].coin.key)]
           Down(h) == h = [s \in SUBSET (1 .. n) |->
                              IF s = {} THEN <<>> ELSE OneMoreFee(S, h[s \ {Max(s)}], legs[Max(s)].coin.key)]
<1>1. n \in Nat /\ DOMAIN legs = 1 .. n
  OBVIOUS
<1>2. <<>> \in V /\ Paid(<<>>, 0, S)
  BY DEF Paid
<1> HIDE DEF n, V
<1>3. step \in [(1 .. n) \X V -> V]
  <2> SUFFICES ASSUME NEW i \in 1 .. n, NEW acc \in V PROVE OneMoreFee(S, acc, legs[i].coin.key) \in V
    OBVIOUS
  <2> QED BY FeeStep DEF V
<1>4. PICK g : FoldOf(g, n, V, step, <<>>)
  <2> HIDE DEF step
  <2> QED BY <1>1, <1>2, <1>3, FoldOver
<1>5. /\ g[{}] = <<>> /\ g[1 .. 0] = <<>>
      /\ \A i \in 1 .. n : g[1 .. i] = step[<<i, g[1 .. i - 1]>>]
      /\ \A i \in 0 .. n : g[1 .. i] \in V
  <2> HIDE DEF step
  <2> QED BY <1>1, <1>4, FoldSteps
<1>6. \A i \in 1 .. n : g[1 .. i - 1] \in V /\ g[1 .. i] = OneMoreFee(S, g[1 .. i - 1], legs[i].coin.key)
  <2> SUFFICES ASSUME NEW i \in 1 .. n
               PROVE  g[1 .. i - 1] \in V /\ g[1 .. i] = OneMoreFee(S, g[1 .. i - 1], legs[i].coin.key)
    OBVIOUS
  <2>1. i - 1 \in 0 .. n
    BY <1>1
  <2>2. <<i, g[1 .. i - 1]>> \in (1 .. n) \X V
    BY <1>5, <2>1
  <2>3. g[1 .. i] = step[<<i, g[1 .. i - 1]>>]
    <3> HIDE DEF step
    <3> QED BY <1>5
  <2> QED BY <2>2, <2>3
<1> DEFINE Holds(i) == Paid(g[1 .. i], i, S)
           N == {i \in Nat : i <= n => Holds(i)}
<1>7. 0 \in N
  BY <1>2, <1>5
<1>8. ASSUME NEW i \in Nat, i \in N PROVE i + 1 \in N
  <2> SUFFICES ASSUME i + 1 <= n PROVE Holds(i + 1)
    OBVIOUS
  <2>1. i + 1 \in 1 .. n /\ (i + 1) - 1 = i
    BY <1>1
  <2>2. Holds(i)
    BY <1>1, <1>8, <2>1
  <2>3. g[1 .. i] \in V /\ g[1 .. i + 1] = OneMoreFee(S, g[1 .. i], legs[i + 1].coin.key)
    BY <1>6, <2>1
  <2>4. Paid(OneMoreFee(S, g[1 .. i], legs[i + 1].coin.key), i + 1, S)
    BY <2>2, <2>3, FeeStep DEF V
  <2> QED BY <2>3, <2>4
<1>9. Holds(n)
  <2>1. Nat \subseteq N
    <3> HIDE DEF N
    <3> QED BY <1>7, <1>8, NatAll
  <2> HIDE DEF Holds
  <2> QED BY <1>1, <2>1
<1>10. \A s \in SUBSET (1 .. n) : s # {} => Max(s) \in 1 .. n /\ s \ {Max(s)} \in SUBSET (1 .. n)
  BY <1>1, MaxOf
<1>11. \A s \in SUBSET (1 .. n) :
          g[s] = IF s = {} THEN <<>> ELSE OneMoreFee(S, g[s \ {Max(s)}], legs[Max(s)].coin.key)
  <2> SUFFICES ASSUME NEW s \in SUBSET (1 .. n), s # {}
               PROVE  g[s] = OneMoreFee(S, g[s \ {Max(s)}], legs[Max(s)].coin.key)
    BY <1>5
  <2>1. <<Max(s), g[s \ {Max(s)}]>> \in (1 .. n) \X V
    BY <1>4, <1>10 DEF FoldOf
  <2>2. g[s] = step[<<Max(s), g[s \ {Max(s)}]>>]
    <3> HIDE DEF step
    <3> QED BY <1>4 DEF FoldOf
  <2> QED BY <2>1, <2>2
<1>12. Down(g)
  <2>1. g = [s \in SUBSET (1 .. n) |-> g[s]]
    BY <1>4 DEF FoldOf
  <2>2. [s \in SUBSET (1 .. n) |-> g[s]]
        = [s \in SUBSET (1 .. n) |->
              IF s = {} THEN <<>> ELSE OneMoreFee(S, g[s \ {Max(s)}], legs[Max(s)].coin.key)]
    BY <1>11
  <2> QED BY <2>1, <2>2
<1> DEFINE H == CHOOSE h : Down(h)
<1>13. Down(H)
  <2> HIDE DEF Down
  <2> QED BY <1>12, Zenon
<1>14. H[1 .. n] = g[1 .. n]
  <2>1. \A s \in SUBSET (1 .. n) :
           H[s] = IF s = {} THEN <<>> ELSE OneMoreFee(S, H[s \ {Max(s)}], legs[Max(s)].coin.key)
    <3> HIDE DEF H
    <3> QED BY <1>13
  <2> HIDE DEF H
  <2>2. GoesLike(H, g, n)
    BY <1>11, <2>1 DEF GoesLike
  <2> QED BY <1>1, <2>2, FoldSame
<1>15. LegFees(S, legs) = H[1 .. n]
  BY <1>1, Zenon DEF LegFees, FoldLeft, MapThenFoldSet, OneMoreFee
<1> HIDE DEF H
<1> QED BY <1>9, <1>14, <1>15 DEF n

\* As many elements are listed as the list is long, or fewer.
Elements(s, n) == {s[i] : i \in 1 .. n}
Distinct(s, n) == \A i, j \in 1 .. n : i # j => s[i] # s[j]

LEMMA Count ==
    ASSUME NEW n \in Nat, NEW s
    PROVE  /\ IsFiniteSet(Elements(s, n)) /\ Cardinality(Elements(s, n)) \in Nat
           /\ Cardinality(Elements(s, n)) <= n
           /\ Distinct(s, n) => Cardinality(Elements(s, n)) = n
<1> DEFINE f == [i \in 1 .. n |-> s[i]]
           R == {s[i] : i \in 1 .. n}
<1>1. IsFiniteSet(1 .. n) /\ Cardinality(1 .. n) = n
  BY FS_Interval
<1>2. f \in Surjection(1 .. n, R)
  BY DEF Surjection
<1>3. ASSUME \A i, j \in 1 .. n : i # j => s[i] # s[j] PROVE f \in Bijection(1 .. n, R)
  BY <1>2, <1>3 DEF Bijection, Injection, Surjection, IsInjective
<1> HIDE DEF f, R
<1>4. IsFiniteSet(R) /\ Cardinality(R) <= n
  BY <1>1, <1>2, FS_Surjection
<1>5. ASSUME \A i, j \in 1 .. n : i # j => s[i] # s[j] PROVE Cardinality(R) = n
  BY <1>1, <1>3, <1>5, FS_Bijection DEF ExistsBijection
<1> QED BY <1>4, <1>5, FS_CardinalityType DEF R, Elements, Distinct

\* What a redemption is made of, once its burn and its legs are planned.
Burned(D, need) == PlanBurn(D, need)
Others(D) == {c \in D : c.key # Home}
Completed(D, need, cap) ==
    IF need - Cents(Burned(D, need)) <= 0 THEN [legs |-> <<>>]
    ELSE PlanGather(Falling(Others(D), CentsOf), need - Cents(Burned(D, need)), cap)

LEMMA Completes ==
    ASSUME NEW D, DdCoins(D), NEW need \in Nat \ {0}, NEW cap \in Nat
    PROVE  LET burn == Burned(D, need)
               gather == Completed(D, need, cap)
           IN /\ burn \subseteq Own(D) /\ Cents(burn) \in Nat
              /\ IF gather = NoPlan
                 THEN /\ burn = Own(D) /\ Cents(Own(D)) < need
                      /\ cap = NoCap => Cents(Own(D)) + Cents({c \in Others(D) : c.cents >= MinDd}) < need
                 ELSE /\ gather.legs \in Seq(LegOf(Others(D))) /\ LegalLegs(gather.legs, cap)
                      /\ Cents(burn) + Cents(Legs(gather.legs)) >= need
              /\ cap = NoCap =>
                    gather = IF Cents(Own(D)) >= need THEN [legs |-> <<>>]
                             ELSE PlanGather(Falling(Others(D), CentsOf), need - Cents(Own(D)), NoCap)
<1> DEFINE burn == Burned(D, need)
           gather == Completed(D, need, cap)
           short == need - Cents(burn)
           own == Own(D)
           others == Others(D)
<1>1. own \in SUBSET D /\ others \in SUBSET D
  BY DEF Own, Others
<1>2. DdCoins(own) /\ DdCoins(others) /\ Cents(own) \in Nat
  <2> HIDE DEF own, others
  <2> QED BY <1>1, CentsMore
<1>3. /\ burn \subseteq own /\ (Cents(own) < need => burn = own)
      /\ Cents(own) >= need => Cents(burn) >= need
  BY Burns DEF Burned
<1> HIDE DEF own, others, burn
<1>4. Cents(burn) \in Nat
  BY <1>2, <1>3, CentsMore
<1>5. gather = IF short <= 0 THEN [legs |-> <<>>] ELSE PlanGather(Falling(others, CentsOf), short, cap)
  BY Zenon DEF Completed, others, burn
<1> HIDE DEF gather
<1>6. CASE short <= 0
  <2>1. Cents(own) >= need /\ Cents(burn) >= need
    BY <1>2, <1>3, <1>4, <1>6
  <2>2. gather = [legs |-> <<>>] /\ gather # NoPlan /\ gather.legs = <<>>
    BY <1>5, <1>6 DEF NoPlan
  <2>3. <<>> \in Seq(LegOf(others)) /\ LegalLegs(<<>>, cap) /\ Legs(<<>>) = {}
    BY DEF LegalLegs, Legs
  <2>4. Cents({}) = 0
    BY <1>2, CentsAdd
  <2>5. Cents(burn) + Cents(Legs(gather.legs)) >= need
    <3>1. Cents(Legs(gather.legs)) = 0
      BY <2>2, <2>3, <2>4
    <3> HIDE DEF gather
    <3> QED BY <1>4, <2>1, <3>1
  <2> QED BY <1>3, <1>4, <2>1, <2>2, <2>3, <2>5 DEF own, others, burn, gather
<1>7. CASE ~(short <= 0)
  <2>1. short \in Nat \ {0} /\ Cents(own) < need /\ burn = own /\ short = need - Cents(own)
    BY <1>2, <1>3, <1>4, <1>7
  <2>2. gather = PlanGather(Falling(others, CentsOf), short, cap)
    BY <1>5, <1>7
  <2> HIDE DEF short
  <2>3. IF gather = NoPlan THEN cap = NoCap => Cents({c \in others : c.cents >= MinDd}) < short
        ELSE /\ gather.legs \in Seq(LegOf(others)) /\ LegalLegs(gather.legs, cap)
             /\ Cents(Legs(gather.legs)) >= short
    BY <1>2, <2>1, <2>2, Gathers
  <2>4. Cents({c \in others : c.cents >= MinDd}) \in Nat
    <3>1. {c \in others : c.cents >= MinDd} \in SUBSET others
      OBVIOUS
    <3> QED BY <1>2, <3>1, CentsMore
  <2>5. ASSUME gather # NoPlan PROVE Cents(burn) + Cents(Legs(gather.legs)) >= need
    <3>1. Cents(Legs(gather.legs)) \in Nat
      BY <2>3, <2>5, LegsAdd
    <3> QED BY <1>4, <2>1, <2>3, <2>5, <3>1
  <2>6. ASSUME gather = NoPlan, cap = NoCap PROVE Cents(own) + Cents({c \in others : c.cents >= MinDd}) < need
    BY <1>2, <2>1, <2>3, <2>4, <2>6
  <2>7. ~(Cents(own) >= need)
    BY <1>2, <2>1
  <2> QED BY <1>3, <1>4, <2>1, <2>2, <2>3, <2>5, <2>6, <2>7 DEF own, others, burn, gather
<1> QED BY <1>4, <1>6, <1>7

LEMMA RedeemsAre ==
    ASSUME NEW S, NEW D, NEW need, NEW cap
    PROVE  LET burn == Burned(D, need)
               gather == Completed(D, need, cap)
               fees == LegFees(S, gather.legs)
               taken == {fees[i] : i \in 1 .. Len(fees)}
               fee == PickFee(S \ taken, IF burn = {} THEN "none" ELSE Home)
               change == \E c \in taken : c.sats - DdFee >= DdFee
           IN PlanRedeem(S, D, need, cap)
              = IF Cents(D) < need \/ gather = NoPlan THEN NoPlan
                ELSE IF NoCoin \in taken \/ (fee = NoCoin /\ ~change) THEN NoPlan
                ELSE [burn |-> burn, legs |-> gather.legs, fees |-> fees, fee |-> fee]
  BY Zenon DEF PlanRedeem, Burned, Others, Completed

\* Whatever the wallet holds, what a redemption would move is legal and under the
\* ceiling, takes no coin twice, pays its fees and completes the burn; and without a
\* ceiling it is refused only when the coins do not suffice.
THEOREM RedeemsAreSound ==
    ASSUME NEW S, Coins(S), NEW D, DdCoins(D)
    PROVE  RedeemsSound(S, D)
<1> SUFFICES ASSUME NEW need \in Needs, NEW cap \in {Cap, NoCap}
             PROVE  LET p == PlanRedeem(S, D, need, cap)
                    IN IF p = NoPlan THEN cap = NoCap => RefusedRightly(S, D, need)
                       ELSE RedeemSound(p, need, cap)
  BY DEF RedeemsSound
<1> DEFINE burn == Burned(D, need)
           gather == Completed(D, need, cap)
           legs == gather.legs
           n == Len(legs)
           fees == LegFees(S, legs)
           taken == {fees[i] : i \in 1 .. Len(fees)}
           fee == PickFee(S \ taken, IF burn = {} THEN "none" ELSE Home)
           change == \E c \in taken : c.sats - DdFee >= DdFee
           p == [burn |-> burn, legs |-> legs, fees |-> fees, fee |-> fee]
           own == Own(D)
           others == Others(D)
           large == {c \in others : c.cents >= MinDd}
<1>1. need \in Nat \ {0} /\ cap \in Nat /\ NoCap \in Nat
  BY TxPlanAssumption DEF NoCap
<1>2. /\ burn \subseteq own /\ Cents(burn) \in Nat
      /\ IF gather = NoPlan
         THEN /\ burn = own /\ Cents(own) < need
              /\ cap = NoCap => Cents(own) + Cents(large) < need
         ELSE legs \in Seq(LegOf(others)) /\ LegalLegs(legs, cap) /\ Cents(burn) + Cents(Legs(legs)) >= need
      /\ cap = NoCap =>
            gather = IF Cents(own) >= need THEN [legs |-> <<>>]
                     ELSE PlanGather(Falling(others, CentsOf), need - Cents(own), NoCap)
  BY <1>1, Completes
<1>3. PlanRedeem(S, D, need, cap)
      = IF Cents(D) < need \/ gather = NoPlan THEN NoPlan
        ELSE IF NoCoin \in taken \/ (fee = NoCoin /\ ~change) THEN NoPlan ELSE p
  BY RedeemsAre
<1>4. p # NoPlan
  BY DEF NoPlan
<1>5. own \in SUBSET D /\ others = D \ own /\ own = {c \in D : c.key = Home}
  BY DEF Own, Others
<1>6. Cents(own) \in Nat /\ Cents(others) \in Nat /\ Cents(D) = Cents(own) + Cents(others) /\ Cents(large) \in Nat
      /\ Cents(large) <= Cents(others)
  <2>1. others \in SUBSET D /\ large \in SUBSET others
    BY <1>5
  <2> HIDE DEF own, others, large
  <2>2. Cents(own) \in Nat /\ Cents(D) = Cents(own) + Cents(D \ own)
    BY <1>5, CentsAdd
  <2>3. DdCoins(others) /\ Cents(others) \in Nat
    BY <2>1, CentsMore
  <2> QED BY <1>5, <2>1, <2>2, <2>3, CentsMore
<1>7. ASSUME gather # NoPlan
      PROVE  /\ legs \in Seq(LegOf(others)) /\ n \in Nat /\ Paid(fees, n, S) /\ Len(fees) = n
             /\ fee # NoCoin => fee \in S /\ fee \notin taken /\ fee.sats >= DdFee
             /\ fee = NoCoin => \A c \in S \ taken : c.sats < DdFee
             /\ taken = {fees[i] : i \in 1 .. n}
  <2>1. legs \in Seq(LegOf(others)) /\ n \in Nat
    BY <1>2, <1>7
  <2>2. Paid(fees, n, S)
    <3> HIDE DEF legs
    <3> QED BY <2>1, FeesPaid
  <2>3. \A c \in S \ taken : c.sats \in Nat
    BY DEF Coins
  <2> HIDE DEF taken, fees
  <2>4. /\ fee # NoCoin => fee \in S \ taken /\ fee.sats >= DdFee
        /\ fee = NoCoin => \A c \in S \ taken : c.sats < DdFee
    BY <2>3, FeeCoins
  <2>5. Len(fees) = n
    BY <2>2 DEF Paid
  <2> HIDE DEF fee, n
  <2>6. taken = {fees[i] : i \in 1 .. n}
    BY <2>5 DEF taken
  <2> QED BY <2>1, <2>2, <2>4, <2>5, <2>6
<1>8. ASSUME gather # NoPlan, NoCoin \notin taken
      PROVE  /\ \A k \in 1 .. n : fees[k] \in S /\ fees[k].sats >= DdFee
             /\ Cardinality(taken) = n
  <2>1. \A k \in 1 .. n : fees[k] # NoCoin
    <3> HIDE DEF fees, n, legs
    <3> QED BY <1>7, <1>8
  <2> HIDE DEF fees, n, legs, taken
  <2>2. \A k \in 1 .. n : fees[k] \in S /\ fees[k].sats >= DdFee /\ \A j \in 1 .. k - 1 : fees[j] # fees[k]
    BY <1>7, <1>8, <2>1 DEF Paid
  <2>3. \A i, j \in 1 .. n : i # j => fees[i] # fees[j]
    <3> SUFFICES ASSUME NEW i \in 1 .. n, NEW j \in 1 .. n, i < j PROVE fees[i] # fees[j]
      BY <1>7, <1>8
    <3>1. i \in 1 .. j - 1
      BY <1>7, <1>8
    <3> QED BY <2>2, <3>1
  <2>4. Cardinality(Elements(fees, n)) = n
    <3>1. Distinct(fees, n) /\ n \in Nat
      BY <1>7, <1>8, <2>3 DEF Distinct
    <3> QED BY <3>1, Count
  <2>5. taken = Elements(fees, n)
    BY <1>7, <1>8 DEF Elements
  <2>6. Cardinality(taken) = n
    BY <2>4, <2>5
  <2> QED BY <2>2, <2>6

<1>9. ASSUME Cents(D) >= need, gather # NoPlan, NoCoin \notin taken, fee # NoCoin \/ change
      PROVE  RedeemSound(p, need, cap)
  <2>1. p.burn = burn /\ p.legs = legs /\ p.fees = fees /\ p.fee = fee
    OBVIOUS
  <2> HIDE DEF p
  <2>2. LegalLegs(legs, cap) /\ Cents(burn) + Cents(Legs(legs)) >= need
    BY <1>2, <1>9
  <2>3. \A l \in Legs(legs) : /\ l.cents >= MinDd /\ LegalDd(l.coin.cents - l.cents)
                              /\ cap # NoCap => l.cents <= cap
    <3> HIDE DEF legs
    <3> QED BY <2>2 DEF LegalLegs, Legs
  <2>4. Cardinality({l.coin : l \in Legs(legs)}) = n
    <3> HIDE DEF legs
    <3>1. n \in Nat /\ \A i, j \in 1 .. n : i # j => legs[i].coin # legs[j].coin
      BY <1>7, <1>9, <2>2 DEF LegalLegs
    <3> DEFINE coins == [i \in 1 .. n |-> legs[i].coin]
    <3>2. \A i \in 1 .. n : coins[i] = legs[i].coin
      OBVIOUS
    <3>3. {l.coin : l \in Legs(legs)} = Elements(coins, n)
      BY <3>2 DEF Legs, Elements
    <3>4. Distinct(coins, n)
      BY <3>1, <3>2 DEF Distinct
    <3> HIDE DEF coins, n
    <3>5. Cardinality(Elements(coins, n)) = n
      BY <3>1, <3>4, Count
    <3> QED BY <3>3, <3>5
  <2>5. Cardinality(taken) = n
    BY <1>8, <1>9
  <2>6. {l.coin : l \in Legs(legs)} \intersect burn = {}
    <3>1. \A l \in Legs(legs) : l.coin \in others
      <4> HIDE DEF legs, others
      <4>1. Legs(legs) \subseteq LegOf(others)
        BY <1>7, <1>9, LegsAdd
      <4> QED BY <4>1 DEF LegOf
    <3> HIDE DEF legs, burn, own, others
    <3> QED BY <1>2, <1>5, <3>1
  <2>7. fee \notin taken
    <3> HIDE DEF taken, fee
    <3> QED BY <1>7, <1>9
  <2>8. \A c \in taken : c.sats >= DdFee /\ c.sats \in Nat
    <3> HIDE DEF fees, n
    <3>1. \A k \in 1 .. n : fees[k].sats >= DdFee /\ fees[k].sats \in Nat
      BY <1>8, <1>9 DEF Coins
    <3>2. taken = {fees[i] : i \in 1 .. n}
      BY <1>7, <1>9
    <3> HIDE DEF taken
    <3> QED BY <3>1, <3>2
  <2>9. fee = NoCoin => \E c \in taken : c.sats >= 2 * DdFee
    <3> SUFFICES ASSUME fee = NoCoin PROVE \E c \in taken : c.sats >= 2 * DdFee
      OBVIOUS
    <3>1. PICK c \in taken : c.sats - DdFee >= DdFee
      <4> HIDE DEF taken, fee
      <4> QED BY <1>9
    <3> HIDE DEF taken
    <3>2. c.sats >= 2 * DdFee
      BY <2>8, <3>1, Units
    <3> QED BY <3>2
  <2>10. {p.legs[i] : i \in 1 .. Len(p.legs)} = Legs(legs) /\ {p.fees[i] : i \in 1 .. Len(p.fees)} = taken
    BY <2>1 DEF Legs
  <2>11. Len(p.legs) = n
    BY <2>1
  <2> HIDE DEF taken, burn, fees, fee, legs, n
  <2> QED BY <2>1, <2>2, <2>3, <2>4, <2>5, <2>6, <2>7, <2>8, <2>9, <2>10, <2>11 DEF RedeemSound
<1> DEFINE feeCoins == {c \in S : c.sats >= DdFee}
           refused(k) == \/ Cents(own) + Cents(large) < need
                         \/ Cardinality(feeCoins) < k
                         \/ Cardinality(feeCoins) = k /\ \A c \in feeCoins : c.sats < 2 * DdFee
<1>10. ASSUME cap = NoCap, refused(IF gather = NoPlan THEN 0 ELSE n) PROVE RefusedRightly(S, D, need)
  <2>1. RefusedRightly(S, D, need)
        <=> \/ Cents(own) + Cents(large) < need
            \/ LET k == IF Cents(own) >= need THEN 0
                        ELSE Len(PlanGather(Falling(others, CentsOf), need - Cents(own), NoCap).legs)
               IN Cardinality(feeCoins) < k \/ (Cardinality(feeCoins) = k /\ \A c \in feeCoins : c.sats < 2 * DdFee)
    <3>1. own = {c \in D : c.key = Home} /\ others = D \ own
      BY <1>5
    <3> HIDE DEF own, others
    <3> QED BY <3>1, Zenon DEF RefusedRightly
  <2> HIDE DEF feeCoins, large, own, others
  <2>2. CASE gather = NoPlan
    BY <1>2, <1>10, <2>1, <2>2
  <2>3. CASE gather # NoPlan
    <3>1. n = IF Cents(own) >= need THEN 0
              ELSE Len(PlanGather(Falling(others, CentsOf), need - Cents(own), NoCap).legs)
      <4> HIDE DEF gather
      <4>1. CASE Cents(own) >= need
        <5>1. legs = <<>>
          BY <1>2, <1>10, <4>1
        <5> HIDE DEF legs
        <5> QED BY <4>1, <5>1
      <4>2. CASE ~(Cents(own) >= need)
        <5>1. gather = PlanGather(Falling(others, CentsOf), need - Cents(own), NoCap)
          BY <1>2, <1>10, <4>2
        <5> QED BY <4>2, <5>1
      <4> QED BY <4>1, <4>2
    <3> HIDE DEF n, gather
    <3> QED BY <1>10, <2>1, <2>3, <3>1
  <2> QED BY <2>2, <2>3
<1>11. ASSUME Cents(D) < need, cap = NoCap PROVE RefusedRightly(S, D, need)
  <2>1. Cents(own) + Cents(large) < need
    <3> HIDE DEF own, others, large
    <3> QED BY <1>1, <1>6, <1>11
  <2> QED BY <1>10, <1>11, <2>1
<1>12. ASSUME gather = NoPlan, cap = NoCap PROVE RefusedRightly(S, D, need)
  <2>1. Cents(own) + Cents(large) < need
    BY <1>2, <1>12
  <2> QED BY <1>10, <1>12, <2>1
<1>13. ASSUME gather # NoPlan, NoCoin \in taken, cap = NoCap PROVE RefusedRightly(S, D, need)
  <2> HIDE DEF fees, legs, n, gather
  <2>1. PICK k \in 1 .. n : fees[k] = NoCoin
    BY <1>7, <1>13
  <2>2. \A c \in S : c.sats >= DdFee => \E j \in 1 .. k - 1 : fees[j] = c
    BY <1>7, <1>13, <2>1 DEF Paid
  <2>3. feeCoins \subseteq Elements(fees, k - 1)
    BY <2>2 DEF Elements
  <2>4. n \in Nat /\ k - 1 \in Nat /\ k - 1 < n
    BY <1>7, <1>13
  <2> HIDE DEF feeCoins
  <2>5. /\ IsFiniteSet(Elements(fees, k - 1)) /\ Cardinality(Elements(fees, k - 1)) \in Nat
        /\ Cardinality(Elements(fees, k - 1)) <= k - 1
    BY <2>4, Count
  <2>6. Cardinality(feeCoins) <= Cardinality(Elements(fees, k - 1)) /\ Cardinality(feeCoins) \in Nat
    BY <2>3, <2>5, FS_Subset, FS_CardinalityType
  <2>7. Cardinality(feeCoins) < n
    BY <2>4, <2>5, <2>6
  <2> QED BY <1>10, <1>13, <2>7
<1>14. ASSUME gather # NoPlan, NoCoin \notin taken, fee = NoCoin, ~change, cap = NoCap
       PROVE  RefusedRightly(S, D, need)
  <2> HIDE DEF fees, legs, n, gather, fee
  <2>1. taken \subseteq feeCoins
    <3>1. \A k \in 1 .. n : fees[k] \in S /\ fees[k].sats >= DdFee
      BY <1>8, <1>14
    <3>2. taken = {fees[i] : i \in 1 .. n}
      BY <1>7, <1>14
    <3> HIDE DEF taken
    <3> QED BY <3>1, <3>2
  <2> HIDE DEF taken
  <2>2. feeCoins \subseteq taken
    <3>1. \A c \in S \ taken : c.sats < DdFee /\ c.sats \in Nat
      BY <1>7, <1>14 DEF Coins
    <3> QED BY <3>1, Units
  <2>3. \A c \in taken : c.sats < 2 * DdFee
    <3> SUFFICES ASSUME NEW c \in taken PROVE c.sats < 2 * DdFee
      OBVIOUS
    <3>1. c.sats \in Nat
      BY <2>1 DEF Coins
    <3>2. ~(c.sats - DdFee >= DdFee)
      BY <1>14
    <3> QED BY <3>1, <3>2, Units
  <2>4. Cardinality(taken) = n
    BY <1>8, <1>14
  <2> HIDE DEF feeCoins
  <2>5. feeCoins = taken
    BY <2>1, <2>2
  <2> QED BY <1>10, <1>14, <2>3, <2>4, <2>5
<1> HIDE DEF p, gather, taken, fee, change, fees, legs, n
<1>15. CASE Cents(D) < need
  BY <1>3, <1>11, <1>15
<1>16. CASE ~(Cents(D) < need)
  <2>1. Cents(D) >= need
    <3> HIDE DEF own, others, large
    <3> QED BY <1>1, <1>6, <1>16
  <2> QED BY <1>3, <1>4, <1>9, <1>12, <1>13, <1>14, <1>16, <2>1
<1> QED BY <1>15, <1>16

\* Many coins are priced for what they weigh.
LEMMA ManyAreSound == ManySound
<1> SUFFICES ASSUME NEW n \in {1, 252, 253}
             PROVE  Fee(Many(n), OutputWeight(TaprootLen)) >= RelayFee(Many(n), <<TaprootLen>>)
  BY DEF ManySound
<1> DEFINE coin == [i \in 1 .. n |-> [sats |-> 60000, type |-> "p2tr", key |-> Home, copy |-> i]]
<1>1. n \in Nat /\ TaprootLen \in Nat
  BY SMT DEF TaprootLen
<1>2. Many(n) = Elements(coin, n)
  BY SMT DEF Elements, Many
<1>3. \A c \in Many(n) : c.sats \in Nat /\ c.type \in {"p2wpkh", "p2tr"}
  BY SMT DEF Many
<1> HIDE DEF coin
<1>4. Coins(Many(n))
  BY <1>1, <1>2, <1>3, Count DEF Coins
<1> QED BY <1>1, <1>4, FeesSuffice

-----------------------------------------------------------------------------
(* What lists of coins, inputs and outputs hold together *)

\* A list's total after each of its elements.
Running(g, n, f) == g \in [0 .. n -> Int] /\ g[0] = 0 /\ \A i \in 1 .. n : g[i] = g[i - 1] + f[i]

\* The total as FoldLeft() defines it.
Totalling(H, n, f) ==
    H = [s \in SUBSET (1 .. n) |-> IF s = {} THEN 0 ELSE H[s \ {Max(s)}] + f[Max(s)]]

LEMMA Totals ==
    ASSUME NEW n \in Nat, NEW f \in [1 .. n -> Int]
    PROVE  \E g : /\ Running(g, n, f)
                  /\ \E H : Totalling(H, n, f)
                  /\ \A H : Totalling(H, n, f) => H[1 .. n] = g[n]
<1> DEFINE step == [p \in (1 .. n) \X Int |-> p[2] + f[p[1]]]
<1>1. step \in [(1 .. n) \X Int -> Int] /\ 0 \in Int
  OBVIOUS
<1>2. PICK h : FoldOf(h, n, Int, step, 0)
  <2> HIDE DEF step
  <2> QED BY <1>1, FoldOver
<1>3. /\ h[1 .. 0] = 0
      /\ \A i \in 1 .. n : h[1 .. i] = step[<<i, h[1 .. i - 1]>>]
      /\ \A i \in 0 .. n : h[1 .. i] \in Int
  <2> HIDE DEF step
  <2> QED BY <1>2, FoldSteps
<1>4. \A i \in 1 .. n : h[1 .. i] = h[1 .. i - 1] + f[i]
  <2> SUFFICES ASSUME NEW i \in 1 .. n PROVE h[1 .. i] = h[1 .. i - 1] + f[i]
    OBVIOUS
  <2>1. <<i, h[1 .. i - 1]>> \in (1 .. n) \X Int
    BY <1>3
  <2>2. h[1 .. i] = step[<<i, h[1 .. i - 1]>>]
    <3> HIDE DEF step
    <3> QED BY <1>3
  <2> QED BY <2>1, <2>2
<1> DEFINE g == [i \in 0 .. n |-> h[1 .. i]]
<1>5. Running(g, n, f)
  <2>1. g \in [0 .. n -> Int] /\ g[0] = 0
    BY <1>3
  <2>2. \A i \in 1 .. n : g[i] = h[1 .. i] /\ g[i - 1] = h[1 .. i - 1]
    OBVIOUS
  <2> HIDE DEF g
  <2> QED BY <1>4, <2>1, <2>2 DEF Running
<1>6. \A s \in SUBSET (1 .. n) : s # {} => Max(s) \in 1 .. n /\ s \ {Max(s)} \in SUBSET (1 .. n)
  BY MaxOf
<1>7. \A s \in SUBSET (1 .. n) : h[s] = IF s = {} THEN 0 ELSE h[s \ {Max(s)}] + f[Max(s)]
  <2>1. ASSUME NEW s \in SUBSET (1 .. n), s # {} PROVE <<Max(s), h[s \ {Max(s)}]>> \in (1 .. n) \X Int
    BY <1>2, <1>6, <2>1 DEF FoldOf
  <2> QED BY <1>2, <2>1 DEF FoldOf
<1> HIDE DEF step
<1>8. Totalling(h, n, f)
  <2>1. h = [s \in SUBSET (1 .. n) |-> h[s]]
    BY <1>2 DEF FoldOf
  <2>2. [s \in SUBSET (1 .. n) |-> h[s]]
        = [s \in SUBSET (1 .. n) |-> IF s = {} THEN 0 ELSE h[s \ {Max(s)}] + f[Max(s)]]
    BY <1>7
  <2> QED BY <2>1, <2>2 DEF Totalling
<1>9. ASSUME NEW H, Totalling(H, n, f) PROVE H[1 .. n] = g[n]
  <2>1. \A s \in SUBSET (1 .. n) : H[s] = IF s = {} THEN 0 ELSE H[s \ {Max(s)}] + f[Max(s)]
    BY <1>9 DEF Totalling
  <2>2. GoesLike(H, h, n)
    BY <1>7, <2>1 DEF GoesLike
  <2>3. H[1 .. n] = h[1 .. n]
    BY <2>2, FoldSame
  <2> QED BY <2>3
<1> HIDE DEF g
<1> QED BY <1>5, <1>8, <1>9

LEMMA SatsRun ==
    ASSUME NEW n \in Nat, NEW list, Len(list) = n, DOMAIN list = 1 .. n, \A i \in 1 .. n : list[i].sats \in Int
    PROVE  \E g : /\ g \in [0 .. n -> Int] /\ g[0] = 0
                  /\ \A i \in 1 .. n : g[i] = g[i - 1] + list[i].sats
                  /\ SatsIn(list) = g[n]
<1> DEFINE f == [i \in 1 .. n |-> list[i].sats]
<1>1. f \in [1 .. n -> Int]
  OBVIOUS
<1>2. PICK g : /\ Running(g, n, f)
               /\ \E H : Totalling(H, n, f)
               /\ \A H : Totalling(H, n, f) => H[1 .. n] = g[n]
  <2> HIDE DEF f
  <2> QED BY <1>1, Totals
<1> DEFINE Sum(h) == h = [s \in SUBSET (1 .. n) |-> IF s = {} THEN 0 ELSE h[s \ {Max(s)}] + list[Max(s)].sats]
<1>3. ASSUME NEW h PROVE Sum(h) <=> Totalling(h, n, f)
  <2>1. \A s \in SUBSET (1 .. n) : s # {} => Max(s) \in 1 .. n
    BY MaxOf
  <2>2. [s \in SUBSET (1 .. n) |-> IF s = {} THEN 0 ELSE h[s \ {Max(s)}] + list[Max(s)].sats]
        = [s \in SUBSET (1 .. n) |-> IF s = {} THEN 0 ELSE h[s \ {Max(s)}] + f[Max(s)]]
    BY <2>1
  <2> HIDE DEF f
  <2> QED BY <2>2, Zenon DEF Totalling
<1>4. SatsIn(list) = (CHOOSE h : Sum(h))[1 .. n]
  BY Zenon DEF SatsIn, FoldLeft, MapThenFoldSet
<1> HIDE DEF Sum, f
<1>5. Sum(CHOOSE h : Sum(h))
  BY <1>2, <1>3, Zenon
<1>6. SatsIn(list) = g[n]
  BY <1>2, <1>3, <1>4, <1>5
<1>7. \A i \in 1 .. n : f[i] = list[i].sats
  BY DEF f
<1> QED BY <1>2, <1>6, <1>7 DEF Running

LEMMA CentsRun ==
    ASSUME NEW n \in Nat, NEW list, Len(list) = n, DOMAIN list = 1 .. n, \A i \in 1 .. n : list[i].cents \in Int
    PROVE  \E g : /\ g \in [0 .. n -> Int] /\ g[0] = 0
                  /\ \A i \in 1 .. n : g[i] = g[i - 1] + list[i].cents
                  /\ CentsIn(list) = g[n]
<1> DEFINE f == [i \in 1 .. n |-> list[i].cents]
<1>1. f \in [1 .. n -> Int]
  OBVIOUS
<1>2. PICK g : /\ Running(g, n, f)
               /\ \E H : Totalling(H, n, f)
               /\ \A H : Totalling(H, n, f) => H[1 .. n] = g[n]
  <2> HIDE DEF f
  <2> QED BY <1>1, Totals
<1> DEFINE Sum(h) == h = [s \in SUBSET (1 .. n) |-> IF s = {} THEN 0 ELSE h[s \ {Max(s)}] + list[Max(s)].cents]
<1>3. ASSUME NEW h PROVE Sum(h) <=> Totalling(h, n, f)
  <2>1. \A s \in SUBSET (1 .. n) : s # {} => Max(s) \in 1 .. n
    BY MaxOf
  <2>2. [s \in SUBSET (1 .. n) |-> IF s = {} THEN 0 ELSE h[s \ {Max(s)}] + list[Max(s)].cents]
        = [s \in SUBSET (1 .. n) |-> IF s = {} THEN 0 ELSE h[s \ {Max(s)}] + f[Max(s)]]
    BY <2>1
  <2> HIDE DEF f
  <2> QED BY <2>2, Zenon DEF Totalling
<1>4. CentsIn(list) = (CHOOSE h : Sum(h))[1 .. n]
  BY Zenon DEF CentsIn, FoldLeft, MapThenFoldSet
<1> HIDE DEF Sum, f
<1>5. Sum(CHOOSE h : Sum(h))
  BY <1>2, <1>3, Zenon
<1>6. CentsIn(list) = g[n]
  BY <1>2, <1>3, <1>4, <1>5
<1>7. \A i \in 1 .. n : f[i] = list[i].cents
  BY DEF f
<1> QED BY <1>2, <1>6, <1>7 DEF Running

LEMMA SatsOfFew ==
    ASSUME NEW n \in Nat, NEW list, Len(list) = n, DOMAIN list = 1 .. n, \A i \in 1 .. n : list[i].sats \in Int
    PROVE  /\ n = 1 => SatsIn(list) = list[1].sats
           /\ n = 2 => SatsIn(list) = list[1].sats + list[2].sats
           /\ n = 3 => SatsIn(list) = list[1].sats + list[2].sats + list[3].sats
           /\ n = 4 => SatsIn(list) = list[1].sats + list[2].sats + list[3].sats + list[4].sats
<1>1. PICK g : /\ g \in [0 .. n -> Int] /\ g[0] = 0
               /\ \A i \in 1 .. n : g[i] = g[i - 1] + list[i].sats
               /\ SatsIn(list) = g[n]
  BY SatsRun, Zenon
<1>2. \A i \in 1 .. n : g[i] = g[i - 1] + list[i].sats /\ list[i].sats \in Int
  BY <1>1
<1>3. n >= 1 => g[1] = list[1].sats
  BY <1>1, <1>2
<1>4. n >= 2 => g[2] = list[1].sats + list[2].sats
  BY <1>2, <1>3
<1>5. n >= 3 => g[3] = list[1].sats + list[2].sats + list[3].sats
  BY <1>2, <1>4
<1>6. n >= 4 => g[4] = list[1].sats + list[2].sats + list[3].sats + list[4].sats
  BY <1>2, <1>5
<1> QED BY <1>1, <1>3, <1>4, <1>5, <1>6

LEMMA Join ==
    ASSUME NEW S, NEW s \in Seq(S), NEW t \in Seq(S)
    PROVE  /\ s \o t \in Seq(S) /\ Len(s \o t) = Len(s) + Len(t)
           /\ \A i \in 1 .. Len(s) : (s \o t)[i] = s[i]
           /\ \A i \in 1 .. Len(t) : (s \o t)[Len(s) + i] = t[i]
  OBVIOUS

LEMMA Singles ==
    ASSUME NEW S, NEW a \in S, NEW b \in S
    PROVE  /\ <<>> \in Seq(S) /\ Len(<<>>) = 0
           /\ <<a>> \in Seq(S) /\ Len(<<a>>) = 1 /\ <<a>>[1] = a
           /\ <<a, b>> \in Seq(S) /\ Len(<<a, b>>) = 2 /\ <<a, b>>[1] = a /\ <<a, b>>[2] = b
  OBVIOUS

LEMMA SatsListed ==
    ASSUME NEW S, Coins(S), NEW n \in Nat, NEW o, Len(o) = n, DOMAIN o = 1 .. n,
           \A i \in 1 .. n : o[i] \in S, Distinct(o, n)
    PROVE  SatsIn(o) = Sats(Elements(o, n))
<1>1. IsFiniteSet(S) /\ \A x \in S : x.sats \in Int
  BY DEF Coins
<1>2. PICK g : /\ g \in [0 .. n -> Int] /\ g[0] = 0
               /\ \A i \in 1 .. n : g[i] = g[i - 1] + o[i].sats
               /\ SatsIn(o) = g[n]
  BY <1>1, SatsRun
<1>3. /\ Sats({}) = 0
      /\ \A T \in SUBSET S, x \in S : x \in T => Sats(T) = x.sats + Sats(T \ {x})
      /\ \A T \in SUBSET S : Sats(T) \in Int
  BY <1>1, SatsAdd
<1> DEFINE N == {k \in Nat : k <= n => g[k] = Sats(Elements(o, k))}
<1>4. 0 \in N
  <2>1. Elements(o, 0) = {}
    BY DEF Elements
  <2> QED BY <1>2, <1>3, <2>1
<1>5. ASSUME NEW k \in Nat, k \in N PROVE k + 1 \in N
  <2> SUFFICES ASSUME k + 1 <= n PROVE g[k + 1] = Sats(Elements(o, k + 1))
    OBVIOUS
  <2>1. k + 1 \in 1 .. n /\ o[k + 1] \in S /\ o[k + 1].sats \in Int
    BY <1>1
  <2>2. g[k + 1] = g[k] + o[k + 1].sats
    BY <1>2, <2>1
  <2>3. /\ Elements(o, k + 1) \in SUBSET S /\ Elements(o, k) \in SUBSET S
        /\ o[k + 1] \in Elements(o, k + 1)
        /\ Elements(o, k + 1) \ {o[k + 1]} = Elements(o, k)
    BY <2>1 DEF Elements, Distinct
  <2>4. Sats(Elements(o, k + 1)) = o[k + 1].sats + Sats(Elements(o, k))
    BY <1>3, <2>1, <2>3
  <2>5. Sats(Elements(o, k)) \in Int /\ g[k] = Sats(Elements(o, k))
    BY <1>3, <1>5, <2>3
  <2> QED BY <2>1, <2>2, <2>4, <2>5
<1>6. n \in N
  <2> HIDE DEF N
  <2> QED BY <1>4, <1>5, NatAll
<1> QED BY <1>2, <1>6

LEMMA CentsListed ==
    ASSUME NEW S, DdCoins(S), NEW n \in Nat, NEW o, Len(o) = n, DOMAIN o = 1 .. n,
           \A i \in 1 .. n : o[i] \in S, Distinct(o, n)
    PROVE  CentsIn(o) = Cents(Elements(o, n))
<1>1. IsFiniteSet(S) /\ \A x \in S : x.cents \in Int
  BY DEF DdCoins
<1>2. PICK g : /\ g \in [0 .. n -> Int] /\ g[0] = 0
               /\ \A i \in 1 .. n : g[i] = g[i - 1] + o[i].cents
               /\ CentsIn(o) = g[n]
  BY <1>1, CentsRun
<1>3. /\ Cents({}) = 0
      /\ \A T \in SUBSET S, x \in S : x \in T => Cents(T) = x.cents + Cents(T \ {x})
      /\ \A T \in SUBSET S : Cents(T) \in Int
  BY <1>1, CentsSum
<1> DEFINE N == {k \in Nat : k <= n => g[k] = Cents(Elements(o, k))}
<1>4. 0 \in N
  <2>1. Elements(o, 0) = {}
    BY DEF Elements
  <2> QED BY <1>2, <1>3, <2>1
<1>5. ASSUME NEW k \in Nat, k \in N PROVE k + 1 \in N
  <2> SUFFICES ASSUME k + 1 <= n PROVE g[k + 1] = Cents(Elements(o, k + 1))
    OBVIOUS
  <2>1. k + 1 \in 1 .. n /\ o[k + 1] \in S /\ o[k + 1].cents \in Int
    BY <1>1
  <2>2. g[k + 1] = g[k] + o[k + 1].cents
    BY <1>2, <2>1
  <2>3. /\ Elements(o, k + 1) \in SUBSET S /\ Elements(o, k) \in SUBSET S
        /\ o[k + 1] \in Elements(o, k + 1)
        /\ Elements(o, k + 1) \ {o[k + 1]} = Elements(o, k)
    BY <2>1 DEF Elements, Distinct
  <2>4. Cents(Elements(o, k + 1)) = o[k + 1].cents + Cents(Elements(o, k))
    BY <1>3, <2>1, <2>3
  <2>5. Cents(Elements(o, k)) \in Int /\ g[k] = Cents(Elements(o, k))
    BY <1>3, <1>5, <2>3
  <2> QED BY <2>1, <2>2, <2>4, <2>5
<1>6. n \in N
  <2> HIDE DEF N
  <2> QED BY <1>4, <1>5, NatAll
<1> QED BY <1>2, <1>6

-----------------------------------------------------------------------------
(* Signatures *)

Body(version, locktime, ins, outs) ==
    [version |-> version, locktime |-> locktime, ins |-> ins, outs |-> outs]

\* The inputs say of their coins what is true of them.
Honest(ins) ==
    /\ ins = [i \in 1 .. Len(ins) |-> ins[i]] /\ Len(ins) \in Nat
    /\ \A i \in 1 .. Len(ins) : ins[i] = In(ins[i].coin, LockOf(ins[i].coin), ins[i].sequence)

LEMMA Known ==
    ASSUME NEW version, NEW locktime, NEW ins, NEW outs, Honest(ins)
    PROVE  LET body == Body(version, locktime, ins, outs)
           IN [body EXCEPT !.ins = Field(body.ins, LAMBDA n : In(n.coin, LockOf(n.coin), n.sequence))] = body
<1>1. [i \in 1 .. Len(ins) |-> In(ins[i].coin, LockOf(ins[i].coin), ins[i].sequence)]
      = [i \in 1 .. Len(ins) |-> ins[i]]
  BY Zenon DEF Honest
<1>2. [i \in 1 .. Len(ins) |-> In(ins[i].coin, LockOf(ins[i].coin), ins[i].sequence)] = ins
  BY <1>1, Zenon DEF Honest
<1> QED BY <1>2 DEF Body, Field

LEMMA Opens ==
    ASSUME NEW version, NEW locktime, NEW ins, NEW outs, Honest(ins), NEW i \in 1 .. Len(ins), NEW key
    PROVE  LET body == Body(version, locktime, ins, outs)
           IN /\ ins[i].script = P2tr(key) => Unlocks(body, i, KeySpend(body, i, key))
              /\ ins[i].script = P2wpkh(key) => Unlocks(body, i, P2wpkhWitness(body, i, key))
              /\ \A lock, cents :
                    /\ ins[i].script = CollateralScript(key, lock, cents)
                    /\ ins[i].sequence # "final" /\ locktime >= lock
                    => Unlocks(body, i, LeafPath(body, i, key, lock, cents))
<1> DEFINE body == Body(version, locktime, ins, outs)
           known == [body EXCEPT !.ins = Field(body.ins, LAMBDA n : In(n.coin, LockOf(n.coin), n.sequence))]
<1>1. known = body
  BY Known
<1>2. body.ins = ins /\ body.locktime = locktime
  BY DEF Body
<1>3. ASSUME NEW witness
      PROVE  Unlocks(body, i, witness) <=>
               \/ /\ ins[i].script.shape = "p2wpkh"
                  /\ witness.key = ins[i].script.key /\ witness.hash = Bip143Sighash(body, i)
               \/ /\ ins[i].script.shape = "p2tr" /\ witness.leaf = NoLeaf
                  /\ witness.key = ins[i].script.key /\ witness.hash = TaprootSighash(body, i, NoLeaf)
               \/ /\ ins[i].script.shape = "p2tr" /\ witness.leaf # NoLeaf
                  /\ {witness.leaf, witness.sibling} = ins[i].script.leaves /\ witness.key = witness.leaf[2]
                  /\ witness.hash = TaprootSighash(body, i, witness.leaf)
                  /\ ins[i].sequence # "final" /\ locktime >= witness.leaf[3]
  <2>1. Unlocks(body, i, witness) <=>
               \/ /\ known.ins[i].script.shape = "p2wpkh"
                  /\ witness.key = known.ins[i].script.key /\ witness.hash = Bip143Sighash(known, i)
               \/ /\ known.ins[i].script.shape = "p2tr" /\ witness.leaf = NoLeaf
                  /\ witness.key = known.ins[i].script.key /\ witness.hash = TaprootSighash(known, i, NoLeaf)
               \/ /\ known.ins[i].script.shape = "p2tr" /\ witness.leaf # NoLeaf
                  /\ {witness.leaf, witness.sibling} = known.ins[i].script.leaves /\ witness.key = witness.leaf[2]
                  /\ witness.hash = TaprootSighash(known, i, witness.leaf)
                  /\ body.ins[i].sequence # "final" /\ body.locktime >= witness.leaf[3]
    <3> HIDE DEF body
    <3> QED BY Zenon DEF Unlocks
  <2> HIDE DEF body, known
  <2> QED BY <1>1, <1>2, <2>1, Zenon
<1> HIDE DEF known, body
<1>4. ins[i].script = P2tr(key) => Unlocks(body, i, KeySpend(body, i, key))
  <2>1. P2tr(key).shape = "p2tr" /\ P2tr(key).key = key
    BY DEF P2tr, Script
  <2>2. /\ KeySpend(body, i, key).key = key /\ KeySpend(body, i, key).leaf = NoLeaf
        /\ KeySpend(body, i, key).hash = TaprootSighash(body, i, NoLeaf)
    BY Zenon DEF KeySpend
  <2> QED BY <1>3, <2>1, <2>2, Zenon
<1>5. ins[i].script = P2wpkh(key) => Unlocks(body, i, P2wpkhWitness(body, i, key))
  <2>1. P2wpkh(key).shape = "p2wpkh" /\ P2wpkh(key).key = key
    BY DEF P2wpkh, Script
  <2>2. /\ P2wpkhWitness(body, i, key).key = key
        /\ P2wpkhWitness(body, i, key).hash = Bip143Sighash(body, i)
    BY Zenon DEF P2wpkhWitness
  <2> QED BY <1>3, <2>1, <2>2, Zenon
<1>6. ASSUME NEW lock, NEW cents, ins[i].script = CollateralScript(key, lock, cents),
             ins[i].sequence # "final", locktime >= lock
      PROVE  Unlocks(body, i, LeafPath(body, i, key, lock, cents))
  <2> DEFINE w == LeafPath(body, i, key, lock, cents)
             leaf == Leaf("normal", key, lock, cents)
  <2>1. ins[i].script.shape = "p2tr" /\ ins[i].script.leaves = {leaf, Leaf("err", key, lock, cents)}
    BY <1>6 DEF CollateralScript, P2tr, Script, Leaves
  <2>2. /\ w.key = key /\ w.leaf = leaf /\ w.sibling = Leaf("err", key, lock, cents)
        /\ w.hash = TaprootSighash(body, i, leaf)
    BY Zenon DEF LeafPath
  <2>3. leaf # NoLeaf /\ leaf[2] = key /\ leaf[3] = lock
    BY DEF Leaf, NoLeaf
  <2> HIDE DEF w, leaf
  <2>4. Unlocks(body, i, w)
    BY <1>3, <1>6, <2>1, <2>2, <2>3, Zenon
  <2> QED BY <2>4 DEF w
<1> QED BY <1>4, <1>5, <1>6 DEF body

LEMMA NumbersRun ==
    ASSUME NEW n \in Nat, NEW list, Len(list) = n, DOMAIN list = 1 .. n, \A i \in 1 .. n : list[i] \in Int
    PROVE  \E g : /\ g \in [0 .. n -> Int] /\ g[0] = 0
                  /\ \A i \in 1 .. n : g[i] = g[i - 1] + list[i]
                  /\ Total(list) = g[n]
<1> DEFINE f == [i \in 1 .. n |-> list[i]]
<1>1. f \in [1 .. n -> Int]
  OBVIOUS
<1>2. PICK g : /\ Running(g, n, f)
               /\ \E H : Totalling(H, n, f)
               /\ \A H : Totalling(H, n, f) => H[1 .. n] = g[n]
  <2> HIDE DEF f
  <2> QED BY <1>1, Totals
<1> DEFINE Sum(h) == h = [s \in SUBSET (1 .. n) |-> IF s = {} THEN 0 ELSE h[s \ {Max(s)}] + list[Max(s)]]
<1>3. ASSUME NEW h PROVE Sum(h) <=> Totalling(h, n, f)
  <2>1. \A s \in SUBSET (1 .. n) : s # {} => Max(s) \in 1 .. n
    BY MaxOf
  <2>2. [s \in SUBSET (1 .. n) |-> IF s = {} THEN 0 ELSE h[s \ {Max(s)}] + list[Max(s)]]
        = [s \in SUBSET (1 .. n) |-> IF s = {} THEN 0 ELSE h[s \ {Max(s)}] + f[Max(s)]]
    BY <2>1
  <2> HIDE DEF f
  <2> QED BY <2>2, Zenon DEF Totalling
<1>4. Total(list) = (CHOOSE h : Sum(h))[1 .. n]
  BY Zenon DEF Total, FoldLeft, MapThenFoldSet
<1> HIDE DEF Sum, f
<1>5. Sum(CHOOSE h : Sum(h))
  BY <1>2, <1>3, Zenon
<1>6. Total(list) = g[n]
  BY <1>2, <1>3, <1>4, <1>5
<1>7. \A i \in 1 .. n : f[i] = list[i]
  BY DEF f
<1> QED BY <1>2, <1>6, <1>7 DEF Running

LEMMA TotalOfFew ==
    ASSUME NEW a \in Int, NEW b \in Int
    PROVE  Total(<<>>) = 0 /\ Total(<<a>>) = a /\ Total(<<a, b>>) = a + b
<1>1. Total(<<>>) = 0
  <2> DEFINE list == <<>>
  <2>1. Len(list) = 0 /\ DOMAIN list = 1 .. 0 /\ \A i \in 1 .. 0 : list[i] \in Int
    OBVIOUS
  <2> HIDE DEF list
  <2>2. Total(list) = 0
    BY <2>1, NumbersRun
  <2> QED BY <2>2 DEF list
<1>2. Total(<<a>>) = a
  <2> DEFINE list == <<a>>
  <2>1. Len(list) = 1 /\ DOMAIN list = 1 .. 1 /\ \A i \in 1 .. 1 : list[i] \in Int
    OBVIOUS
  <2>2. list[1] = a
    OBVIOUS
  <2> HIDE DEF list
  <2>a. 1 \in Nat
    OBVIOUS
  <2>3. PICK g : /\ g \in [0 .. 1 -> Int] /\ g[0] = 0
                 /\ \A i \in 1 .. 1 : g[i] = g[i - 1] + list[i]
                 /\ Total(list) = g[1]
    BY <2>1, <2>a, NumbersRun, ZenonT(40)
  <2>4. Total(list) = a
    BY <2>2, <2>3
  <2> QED BY <2>4 DEF list
<1>3. Total(<<a, b>>) = a + b
  <2> DEFINE list == <<a, b>>
  <2>1. Len(list) = 2 /\ DOMAIN list = 1 .. 2 /\ \A i \in 1 .. 2 : list[i] \in Int
    OBVIOUS
  <2>2. list[1] = a /\ list[2] = b
    OBVIOUS
  <2> HIDE DEF list
  <2>a. 2 \in Nat
    OBVIOUS
  <2>3. PICK g : /\ g \in [0 .. 2 -> Int] /\ g[0] = 0
                 /\ \A i \in 1 .. 2 : g[i] = g[i - 1] + list[i]
                 /\ Total(list) = g[2]
    BY <2>1, <2>a, NumbersRun, ZenonT(40)
  <2>4. g[1] = g[0] + list[1] /\ g[2] = g[1] + list[2]
    BY <2>3
  <2>5. Total(list) = a + b
    BY <2>2, <2>3, <2>4
  <2> QED BY <2>5 DEF list
<1> QED BY <1>1, <1>2, <1>3

\* The coins of a wallet whose keys are K.
DgbOf(K) == [sats : Nat, type : {"p2wpkh", "p2tr"}, key : K, copy : Int]
DdOf(K) == [cents : Nat, key : K, copy : Int]

LEMMA HonestCoins ==
    ASSUME NEW K, NEW sequence
    PROVE  /\ \A c \in DgbOf(K) : /\ LockOf(c) = Script(c.type, c.key) /\ SatsOf(c) = c.sats
                                  /\ "sats" \in DOMAIN c
           /\ \A c \in DdOf(K) : /\ LockOf(c) = P2tr(c.key) /\ SatsOf(c) = 0
                                 /\ "cents" \in DOMAIN c /\ "sats" \notin DOMAIN c
  BY SMT DEF LockOf, SatsOf, DgbOf, DdOf

LEMMA HonestInputs ==
    ASSUME NEW coin, NEW script, NEW sequence, script = LockOf(coin)
    PROVE  LET n == In(coin, script, sequence)
           IN /\ n.coin = coin /\ n.sats = SatsOf(coin) /\ n.script = script /\ n.sequence = sequence
              /\ n = In(n.coin, LockOf(n.coin), n.sequence)
  BY DEF In

LEMMA CoinOpens ==
    ASSUME NEW version, NEW locktime, NEW ins, NEW outs, Honest(ins), NEW i \in 1 .. Len(ins),
           NEW K, NEW coin \in DgbOf(K), ins[i].script = Script(coin.type, coin.key)
    PROVE  LET body == Body(version, locktime, ins, outs) IN Unlocks(body, i, CoinWitness(body, i, coin))
<1> DEFINE body == Body(version, locktime, ins, outs)
<1>1. /\ ins[i].script = P2tr(coin.key) => Unlocks(body, i, KeySpend(body, i, coin.key))
      /\ ins[i].script = P2wpkh(coin.key) => Unlocks(body, i, P2wpkhWitness(body, i, coin.key))
  BY Opens
<1> HIDE DEF body
<1> SUFFICES Unlocks(body, i, CoinWitness(body, i, coin))
  BY DEF body
<1>2. coin.type \in {"p2wpkh", "p2tr"}
  BY DEF DgbOf
<1>3. CASE coin.type = "p2wpkh"
  BY <1>1, <1>3, Zenon DEF CoinWitness, P2wpkh
<1>4. CASE coin.type = "p2tr"
  <2>1. coin.type # "p2wpkh"
    BY <1>4
  <2> QED BY <1>1, <1>4, <2>1, Zenon DEF CoinWitness, P2tr
<1> QED BY <1>2, <1>3, <1>4

LEMMA OneCoin ==
    ASSUME NEW c, c.cents \in Int
    PROVE  Cents({c}) = c.cents
<1>1. IsFiniteSet({c}) /\ \A x \in {c} : x.cents \in Int
  BY FS_Singleton
<1>2. Cents({}) = 0 /\ Cents({c}) = c.cents + Cents({c} \ {c})
  BY <1>1, CentsSum
<1>3. {c} \ {c} = {}
  OBVIOUS
<1>4. Cents({c} \ {c}) = 0
  BY <1>2, <1>3, Zenon
<1> QED BY <1>2, <1>4

LEMMA Assembled ==
    ASSUME NEW a, NEW b, NEW c, NEW d, NEW s, s = <<>> \/ s = <<b>>,
           NEW t, t = <<>> \/ t = <<c>>
    PROVE  LET o == <<a>> \o s \o t \o <<d>>
           IN /\ DOMAIN o = 1 .. Len(o) /\ Len(o) = 2 + Len(s) + Len(t)
              /\ o[1] = a /\ (s = <<b>> => o[2] = b) /\ (t = <<c>> => o[2 + Len(s)] = c)
              /\ o[Len(o)] = d
<1> DEFINE T == {a, b, c, d}
<1>1. s \in Seq(T) /\ t \in Seq(T) /\ <<a>> \in Seq(T) /\ <<d>> \in Seq(T)
  BY Singles
<1>2. /\ Len(<<a>>) = 1 /\ <<a>>[1] = a /\ Len(<<b>>) = 1 /\ <<b>>[1] = b
      /\ Len(<<c>>) = 1 /\ <<c>>[1] = c /\ Len(<<d>>) = 1 /\ <<d>>[1] = d /\ Len(<<>>) = 0
  <2> HIDE DEF T
  <2> QED BY Singles
<1>3. (s = <<>> /\ Len(s) = 0) \/ (s = <<b>> /\ Len(s) = 1 /\ s[1] = b)
  <2>1. CASE s = <<>>
    <3>1. Len(s) = 0
      BY <2>1
    <3> QED BY <2>1, <3>1, Zenon
  <2>2. CASE s = <<b>>
    <3>1. Len(s) = 1 /\ s[1] = b
      BY <2>2
    <3> QED BY <2>2, <3>1, Zenon
  <2> QED BY <2>1, <2>2
<1>4. (t = <<>> /\ Len(t) = 0) \/ (t = <<c>> /\ Len(t) = 1 /\ t[1] = c)
  <2>1. CASE t = <<>>
    <3>1. Len(t) = 0
      BY <2>1
    <3> QED BY <2>1, <3>1, Zenon
  <2>2. CASE t = <<c>>
    <3>1. Len(t) = 1 /\ t[1] = c
      BY <2>2
    <3> QED BY <2>2, <3>1, Zenon
  <2> QED BY <2>1, <2>2
<1> DEFINE p == <<a>> \o s
           q == p \o t
           o == q \o <<d>>
<1>5. p \in Seq(T) /\ Len(p) = 1 + Len(s) /\ p[1] = a /\ (Len(s) = 1 => p[2] = s[1])
  <2> HIDE DEF T
  <2>1. /\ p \in Seq(T) /\ Len(p) = Len(<<a>>) + Len(s)
        /\ \A i \in 1 .. Len(<<a>>) : p[i] = <<a>>[i]
        /\ \A i \in 1 .. Len(s) : p[Len(<<a>>) + i] = s[i]
    BY <1>1, Join, SMTT(30)
  <2> QED BY <1>2, <1>3, <2>1
<1>6. /\ q \in Seq(T) /\ Len(q) = Len(p) + Len(t) /\ \A i \in 1 .. Len(p) : q[i] = p[i]
      /\ Len(t) = 1 => q[Len(p) + 1] = t[1]
  <2> HIDE DEF T, p
  <2>1. /\ q \in Seq(T) /\ Len(q) = Len(p) + Len(t)
        /\ \A i \in 1 .. Len(p) : q[i] = p[i]
        /\ \A i \in 1 .. Len(t) : q[Len(p) + i] = t[i]
    BY <1>1, <1>5, Join, SMTT(30)
  <2> QED BY <1>4, <2>1
<1>7. o \in Seq(T) /\ Len(o) = Len(q) + 1 /\ (\A i \in 1 .. Len(q) : o[i] = q[i]) /\ o[Len(q) + 1] = d
  <2> HIDE DEF T, q
  <2>1. /\ o \in Seq(T) /\ Len(o) = Len(q) + Len(<<d>>)
        /\ \A i \in 1 .. Len(q) : o[i] = q[i]
        /\ \A i \in 1 .. Len(<<d>>) : o[Len(q) + i] = <<d>>[i]
    BY <1>1, <1>6, Join, SMTT(30)
  <2> QED BY <1>2, <2>1
<1> HIDE DEF p, q, o, T
<1>8. DOMAIN o = 1 .. Len(o)
  BY <1>7
<1> QED BY <1>3, <1>4, <1>5, <1>6, <1>7, <1>8 DEF o, q, p

LEMMA HonestOne ==
    ASSUME NEW x, x = In(x.coin, LockOf(x.coin), x.sequence)
    PROVE  Honest(<<x>>) /\ Len(<<x>>) = 1 /\ DOMAIN <<x>> = 1 .. 1 /\ <<x>>[1] = x
  BY DEF Honest

LEMMA HonestTwo ==
    ASSUME NEW x, x = In(x.coin, LockOf(x.coin), x.sequence), NEW y, y = In(y.coin, LockOf(y.coin), y.sequence)
    PROVE  /\ Honest(<<x, y>>) /\ Len(<<x, y>>) = 2 /\ DOMAIN <<x, y>> = 1 .. 2
           /\ <<x, y>>[1] = x /\ <<x, y>>[2] = y
<1>1. Len(<<x, y>>) = 2 /\ DOMAIN <<x, y>> = 1 .. 2 /\ <<x, y>>[1] = x /\ <<x, y>>[2] = y
  OBVIOUS
<1>2. Honest(<<x, y>>)
  BY DEF Honest
<1> QED BY <1>1, <1>2

LEMMA FoldedIs ==
    ASSUME NEW n \in Nat
    PROVE  /\ Folded(n) \in Nat /\ n - Folded(n) \in 0 .. Fold - 1
           /\ Folded(n) > 0 => Folded(n) >= Fold
  BY Units DEF Folded

Amounts2(cents, rest) == IF rest > 0 THEN <<cents, rest>> ELSE <<cents>>

LEMMA AmountsAre ==
    ASSUME NEW cents \in Nat, NEW rest \in Nat
    PROVE  /\ Len(Amounts2(cents, rest)) = IF rest > 0 THEN 2 ELSE 1
           /\ Amounts2(cents, rest)[1] = cents
           /\ rest > 0 => Amounts2(cents, rest)[2] = rest
           /\ Total(Amounts2(cents, rest)) = cents + rest
<1>0. cents \in Int /\ rest \in Int
  OBVIOUS
<1>1. CASE rest > 0
  <2>1. Amounts2(cents, rest) = <<cents, rest>>
    BY <1>1 DEF Amounts2
  <2>2. Total(<<cents, rest>>) = cents + rest
    BY <1>0, TotalOfFew, Zenon
  <2>3. Len(<<cents, rest>>) = 2 /\ <<cents, rest>>[1] = cents /\ <<cents, rest>>[2] = rest
    OBVIOUS
  <2> QED BY <1>1, <2>1, <2>2, <2>3
<1>2. CASE ~(rest > 0)
  <2>1. Amounts2(cents, rest) = <<cents>>
    BY <1>2 DEF Amounts2
  <2>2. Total(<<cents>>) = cents
    BY <1>0, TotalOfFew, Zenon
  <2>3. Len(<<cents>>) = 1 /\ <<cents>>[1] = cents
    OBVIOUS
  <2> QED BY <1>2, <2>1, <2>2, <2>3
<1> QED BY <1>1, <1>2

\* The outputs of a transfer: k tokens, the change of the fee, the metadata.
Laid(o, to, cents, rest, owner, change, script) ==
    LET k == IF rest > 0 THEN 2 ELSE 1
    IN /\ DOMAIN o = 1 .. Len(o)
       /\ Len(o) = k + (IF change > 0 THEN 1 ELSE 0) + 1
       /\ o[1] = Out(0, P2tr(to))
       /\ rest > 0 => o[2] = Out(0, P2tr(owner))
       /\ change > 0 => o[k + 1] = Out(change, script)
       /\ o[Len(o)] = Out(0, Data(Amounts2(cents, rest)))

LEMMA TransferLaid ==
    ASSUME NEW to, NEW cents \in Nat, cents >= MinDd, NEW rest \in Nat, LegalDd(rest), NEW owner,
           NEW change \in Nat, NEW script
    PROVE  Laid(TransferOutputs(to, cents, rest, owner, change, script), to, cents, rest, owner, change, script)
<1> DEFINE a == Out(0, P2tr(to))
           s == IF rest > 0 THEN <<Out(0, P2tr(owner))>> ELSE <<>>
           t == IfAny(change, script)
           amounts == Amounts2(cents, rest)
           d == Out(0, Data(amounts))
           o == <<a>> \o s \o t \o <<d>>
<1>1. ~ \E i \in 1 .. Len(amounts) : amounts[i] < MinDd
  <2> SUFFICES ASSUME NEW i \in 1 .. Len(amounts) PROVE ~(amounts[i] < MinDd)
    OBVIOUS
  <2>0. /\ Len(amounts) = IF rest > 0 THEN 2 ELSE 1
        /\ amounts[1] = cents /\ (rest > 0 => amounts[2] = rest)
    BY AmountsAre, Zenon
  <2>1. i = 1 \/ (i = 2 /\ rest > 0)
    <3> HIDE DEF amounts
    <3> QED BY <2>0
  <2>2. amounts[i] = cents \/ (amounts[i] = rest /\ rest > 0)
    BY <2>0, <2>1, Zenon
  <2> HIDE DEF amounts
  <2> QED BY <2>2, Units DEF LegalDd
<1>2. TransferOutputs(to, cents, rest, owner, change, script) = o
  <2>1. amounts = IF rest > 0 THEN <<cents, rest>> ELSE <<cents>>
    BY DEF Amounts2
  <2> QED BY <1>1, <2>1, Zenon DEF TransferOutputs, Amounts2
<1>3. s = <<>> \/ s = <<Out(0, P2tr(owner))>>
  BY Zenon
<1>4. t = <<>> \/ t = <<Out(change, script)>>
  BY Zenon DEF IfAny
<1>5. /\ rest > 0 => s = <<Out(0, P2tr(owner))>> /\ Len(s) = 1
      /\ ~(rest > 0) => Len(s) = 0
  <2>1. Len(<<Out(0, P2tr(owner))>>) = 1 /\ Len(<<>>) = 0
    OBVIOUS
  <2> QED BY <2>1, Zenon
<1>6. /\ change > 0 => t = <<Out(change, script)>> /\ Len(t) = 1
      /\ ~(change > 0) => Len(t) = 0
  <2>1. Len(<<Out(change, script)>>) = 1 /\ Len(<<>>) = 0
    OBVIOUS
  <2> QED BY <2>1, Zenon DEF IfAny
<1> HIDE DEF a, s, t, d, amounts
<1>7. /\ DOMAIN o = 1 .. Len(o) /\ Len(o) = 2 + Len(s) + Len(t)
      /\ o[1] = a /\ (s = <<Out(0, P2tr(owner))>> => o[2] = Out(0, P2tr(owner)))
      /\ (t = <<Out(change, script)>> => o[2 + Len(s)] = Out(change, script))
      /\ o[Len(o)] = d
  BY <1>3, <1>4, Assembled, SMTT(30)
<1> HIDE DEF o
<1>8. Laid(o, to, cents, rest, owner, change, script)
  <2>1. o[1] = Out(0, P2tr(to)) /\ o[Len(o)] = Out(0, Data(Amounts2(cents, rest)))
    BY <1>7 DEF a, d, amounts
  <2>2. rest > 0 => o[2] = Out(0, P2tr(owner))
    BY <1>5, <1>7
  <2>3. LET k == IF rest > 0 THEN 2 ELSE 1
        IN /\ Len(o) = k + (IF change > 0 THEN 1 ELSE 0) + 1
           /\ change > 0 => o[k + 1] = Out(change, script)
    <3>1. (rest > 0 => Len(s) = 1) /\ (~(rest > 0) => Len(s) = 0)
      BY <1>5, Zenon
    <3>2. (change > 0 => Len(t) = 1) /\ (~(change > 0) => Len(t) = 0)
      BY <1>6, Zenon
    <3>3. change > 0 => o[2 + Len(s)] = Out(change, script)
      BY <1>6, <1>7, Zenon
    <3>4. Len(o) = 2 + Len(s) + Len(t)
      BY <1>7, Zenon
    <3> DEFINE ls == Len(s)
               lt == Len(t)
    <3>5. /\ (rest > 0 => ls = 1) /\ (~(rest > 0) => ls = 0)
          /\ (change > 0 => lt = 1) /\ (~(change > 0) => lt = 0)
          /\ change > 0 => o[2 + ls] = Out(change, script)
          /\ Len(o) = 2 + ls + lt
      BY <3>1, <3>2, <3>3, <3>4, Zenon
    <3> HIDE DEF ls, lt
    <3> QED BY <3>5
  <2>4. DOMAIN o = 1 .. Len(o)
    BY <1>7
  <2> QED BY <2>1, <2>2, <2>3, <2>4 DEF Laid
<1> QED BY <1>2, <1>8

LEMMA LastIs ==
    ASSUME NEW n \in Nat
    PROVE  Min({n}) = n /\ Cardinality({n}) = 1
<1>1. Min({n}) \in {n}
  BY MinOf
<1> QED BY <1>1, FS_Singleton

TransferMade(tx, coin, fee, to, cents) ==
    /\ tx.body.version = "transfer" /\ Len(tx.body.ins) = 2 /\ DOMAIN tx.body.ins = 1 .. 2
    /\ tx.body.ins[1].coin = coin /\ tx.body.ins[1].sats = 0
    /\ tx.body.ins[2].coin = fee /\ tx.body.ins[2].sats = fee.sats
    /\ \E change \in Nat :
          Laid(tx.body.outs, to, cents, coin.cents - cents, coin.key, change, P2tr(coin.key))

LEMMA TransferIsSound ==
    ASSUME NEW K, NEW coin \in DdOf(K), NEW fee \in DgbOf(K), NEW to, to # coin.key, NEW cents \in Nat,
           cents >= MinDd, coin.cents >= cents, LegalDd(coin.cents - cents), fee.sats >= DdFee
    PROVE  /\ TransferSound(BuildTransfer(coin, fee, to, cents, DdFee, P2tr(coin.key)), to, cents)
           /\ TransferMade(BuildTransfer(coin, fee, to, cents, DdFee, P2tr(coin.key)), coin, fee, to, cents)
<1> DEFINE rest == coin.cents - cents
           change == Folded(fee.sats - DdFee)
           script == P2tr(coin.key)
           outs == TransferOutputs(to, cents, rest, coin.key, change, script)
           x == In(coin, P2tr(coin.key), "final")
           y == In(fee, Script(fee.type, fee.key), "final")
           ins == <<x, y>>
           body == Body("transfer", 0, ins, outs)
           tx == [body |-> body, witnesses |-> <<KeySpend(body, 1, coin.key), CoinWitness(body, 2, fee)>>]
           k == IF rest > 0 THEN 2 ELSE 1
           n == Len(outs)
           amounts == Amounts2(cents, rest)
<1>1. rest \in Nat /\ coin.cents \in Nat /\ fee.sats \in Nat /\ fee.sats - DdFee \in Nat
  BY Units DEF DdOf, DgbOf
<1>2. /\ change \in Nat /\ fee.sats - DdFee - change \in 0 .. Fold - 1
      /\ change > 0 => change >= Fold
  BY <1>1, FoldedIs
<1>3. Laid(outs, to, cents, rest, coin.key, change, script)
  <2>1. LegalDd(rest)
    OBVIOUS
  <2> HIDE DEF rest, change, script
  <2> QED BY <1>1, <1>2, <2>1, TransferLaid
<1>4. outs # <<>> /\ n \in Nat
  <2>1. DOMAIN outs = 1 .. Len(outs) /\ Len(outs) = k + (IF change > 0 THEN 1 ELSE 0) + 1
    BY <1>3, Zenon DEF Laid
  <2> HIDE DEF outs, change, rest
  <2>2. Len(outs) >= 2 /\ Len(outs) \in Nat
    BY <2>1
  <2>3. Len(<<>>) = 0
    OBVIOUS
  <2>4. CASE outs = <<>>
    BY <2>2, <2>3, <2>4
  <2> QED BY <2>2, <2>4
<1>5. BuildTransfer(coin, fee, to, cents, DdFee, P2tr(coin.key)) = tx
  <2>1. ~(DdFee < MinDdFee \/ coin.cents < cents \/ fee.sats < DdFee \/ outs = <<>>)
    <3>1. ~(DdFee < MinDdFee)
      BY SMT DEF DdFee, MinDdFee
    <3> HIDE DEF outs
    <3> QED BY <1>1, <1>4, <3>1, Units
  <2> QED BY <2>1, Zenon DEF BuildTransfer, Body
<1>6. /\ x.coin = coin /\ x.sats = 0 /\ x.script = P2tr(coin.key)
      /\ x = In(x.coin, LockOf(x.coin), x.sequence)
  <2>1. LockOf(coin) = P2tr(coin.key) /\ SatsOf(coin) = 0
    BY HonestCoins
  <2> QED BY <2>1, HonestInputs
<1>7. /\ y.coin = fee /\ y.sats = fee.sats /\ y.script = Script(fee.type, fee.key)
      /\ y = In(y.coin, LockOf(y.coin), y.sequence)
  <2>1. LockOf(fee) = Script(fee.type, fee.key) /\ SatsOf(fee) = fee.sats
    BY HonestCoins
  <2> QED BY <2>1, HonestInputs
<1> HIDE DEF x, y
<1>8. /\ Honest(ins) /\ Len(ins) = 2 /\ DOMAIN ins = 1 .. 2 /\ ins[1] = x /\ ins[2] = y
  <2>1. /\ Honest(<<x, y>>) /\ Len(<<x, y>>) = 2 /\ DOMAIN <<x, y>> = 1 .. 2
        /\ <<x, y>>[1] = x /\ <<x, y>>[2] = y
    BY <1>6, <1>7, HonestTwo, Zenon
  <2> QED BY <2>1, Zenon
<1> HIDE DEF ins
<1>9. /\ Unlocks(body, 1, KeySpend(body, 1, coin.key)) /\ Unlocks(body, 2, CoinWitness(body, 2, fee))
  <2>1. 1 \in 1 .. Len(ins) /\ 2 \in 1 .. Len(ins)
    BY <1>8
  <2>2. ins[1].script = P2tr(coin.key) /\ ins[2].script = Script(fee.type, fee.key)
    BY <1>6, <1>7, <1>8, Zenon
  <2>3. Unlocks(body, 1, KeySpend(body, 1, coin.key))
    <3> HIDE DEF outs
    <3> QED BY <1>8, <2>1, <2>2, Opens, Zenon
  <2>4. Unlocks(body, 2, CoinWitness(body, 2, fee))
    <3> HIDE DEF outs
    <3> QED BY <1>8, <2>1, <2>2, CoinOpens, Zenon
  <2> QED BY <2>3, <2>4
<1>10. /\ tx.body = body /\ body.ins = ins /\ body.outs = outs /\ body.version = "transfer"
       /\ tx.witnesses[1] = KeySpend(body, 1, coin.key) /\ tx.witnesses[2] = CoinWitness(body, 2, fee)
  <2>1. body.ins = ins /\ body.outs = outs /\ body.version = "transfer"
    <3> HIDE DEF outs
    <3> QED BY DEF Body
  <2> HIDE DEF body
  <2> QED BY <2>1
<1>11. tx # NoTx
  <2> HIDE DEF body
  <2>1. DOMAIN tx = {"body", "witnesses"} /\ DOMAIN NoTx = {"refused"}
    BY DEF NoTx
  <2> QED BY <2>1, Zenon
<1> HIDE DEF body, outs, tx
<1>12. /\ DOMAIN outs = 1 .. n /\ k \in {1, 2} /\ n = k + (IF change > 0 THEN 1 ELSE 0) + 1
       /\ \A i \in 1 .. k : /\ outs[i].sats = 0 /\ outs[i].script.shape = "p2tr"
                            /\ outs[i].script.key = IF i = 1 THEN to ELSE coin.key
       /\ change > 0 => outs[k + 1].sats = change /\ outs[k + 1].script.shape = "p2tr"
       /\ outs[n].sats = 0 /\ outs[n].script.shape = "data" /\ outs[n].script.data = amounts
  <2>1. /\ DOMAIN outs = 1 .. n /\ n = k + (IF change > 0 THEN 1 ELSE 0) + 1
        /\ outs[1] = Out(0, P2tr(to)) /\ (rest > 0 => outs[2] = Out(0, P2tr(coin.key)))
        /\ (change > 0 => outs[k + 1] = Out(change, script)) /\ outs[n] = Out(0, Data(amounts))
    BY <1>3, Zenon DEF Laid
  <2> HIDE DEF change, amounts
  <2>2. outs[1].sats = 0 /\ outs[1].script.shape = "p2tr" /\ outs[1].script.key = to
    BY <2>1 DEF Out, P2tr, Data, Script
  <2>3. rest > 0 => outs[2].sats = 0 /\ outs[2].script.shape = "p2tr" /\ outs[2].script.key = coin.key
    BY <2>1 DEF Out, P2tr, Data, Script
  <2>4. change > 0 => outs[k + 1].sats = change /\ outs[k + 1].script.shape = "p2tr"
    BY <2>1 DEF Out, P2tr, Data, Script
  <2>5. outs[n].sats = 0 /\ outs[n].script.shape = "data" /\ outs[n].script.data = amounts
    BY <2>1 DEF Out, P2tr, Data, Script
  <2>6. ASSUME NEW i \in 1 .. k
        PROVE  /\ outs[i].sats = 0 /\ outs[i].script.shape = "p2tr"
               /\ outs[i].script.key = IF i = 1 THEN to ELSE coin.key
    <3>1. i = 1 \/ (i = 2 /\ rest > 0)
      OBVIOUS
    <3> QED BY <2>2, <2>3, <3>1
  <2> QED BY <2>1, <2>4, <2>5, <2>6
<1>13. /\ Len(amounts) = k /\ amounts[1] = cents /\ (k = 2 => amounts[2] = rest)
       /\ Total(amounts) = cents + rest
  <2>1. /\ Len(amounts) = (IF rest > 0 THEN 2 ELSE 1) /\ amounts[1] = cents
        /\ (rest > 0 => amounts[2] = rest) /\ Total(amounts) = cents + rest
    <3> HIDE DEF rest
    <3> QED BY <1>1, AmountsAre, Zenon
  <2> HIDE DEF amounts, rest
  <2> QED BY <2>1
<1> HIDE DEF change, amounts
<1>14. Metadata(tx) = {n} /\ Tokens(tx) = 1 .. k
  <2>1. Metadata(tx) = {i \in 1 .. n : outs[i].script.shape = "data"}
    BY <1>10, Zenon DEF Metadata
  <2>2. Tokens(tx) = {i \in 1 .. n : outs[i].sats = 0 /\ outs[i].script.shape = "p2tr"}
    BY <1>10, Zenon DEF Tokens
  <2>3. n \in 1 .. n /\ 1 .. k \subseteq 1 .. n
    BY <1>12
  <2>4. \A i \in 1 .. n : i = n \/ i \in 1 .. k \/ (i = k + 1 /\ change > 0)
    BY <1>2, <1>12
  <2>5. \A i \in 1 .. n : outs[i].script.shape = "data" <=> i = n
    BY <1>12, <2>4
  <2>6. \A i \in 1 .. n : outs[i].sats = 0 /\ outs[i].script.shape = "p2tr" <=> i \in 1 .. k
    BY <1>2, <1>12, <2>4
  <2> HIDE DEF k, n
  <2> QED BY <2>1, <2>2, <2>3, <2>5, <2>6
<1>15. AmountsOf(tx) = amounts
  <2>1. Min(Metadata(tx)) = n /\ Metadata(tx) # {}
    BY <1>4, <1>14, LastIs
  <2>2. AmountsOf(tx) = outs[n].script.data
    BY <1>10, <2>1, Zenon DEF AmountsOf
  <2> QED BY <1>12, <2>2
<1>16. InCents(tx) = coin.cents
  <2>1. CoinsSpent(tx) = {coin, fee}
    <3>1. CoinsSpent(tx) = {ins[i].coin : i \in 1 .. Len(ins)}
      BY <1>10, Zenon DEF CoinsSpent
    <3>2. ins[1].coin = coin /\ ins[2].coin = fee
      BY <1>6, <1>7, <1>8, Zenon
    <3> QED BY <1>8, <3>1, <3>2
  <2>2. {c \in {coin, fee} : "cents" \in DOMAIN c /\ "sats" \notin DOMAIN c} = {coin}
    BY HonestCoins
  <2>3. InCents(tx) = Cents({coin})
    BY <2>1, <2>2, Zenon DEF InCents
  <2> QED BY <1>1, <2>3, OneCoin
<1>17. Conserved(tx, 0)
  <2>1. OutCents(tx) = cents + rest
    BY <1>13, <1>15, Zenon DEF OutCents
  <2>2. cents + rest = coin.cents /\ coin.cents = coin.cents + 0
    BY <1>1
  <2>3. Cardinality(Metadata(tx)) = 1 /\ Cardinality(Tokens(tx)) = k
    <3>1. Cardinality(Metadata(tx)) = 1
      BY <1>4, <1>14, LastIs
    <3>2. Cardinality(1 .. k) = k
      <4>1. k \in Int /\ 1 \in Int /\ k >= 1
        BY <1>12
      <4> HIDE DEF k
      <4>2. Cardinality(1 .. k) = IF 1 > k THEN 0 ELSE k - 1 + 1
        BY <4>1, FS_Interval, Zenon
      <4> QED BY <4>1, <4>2
    <3> QED BY <1>14, <3>1, <3>2
  <2> HIDE DEF k, rest
  <2> QED BY <1>13, <1>15, <1>16, <2>1, <2>2, <2>3 DEF Conserved
<1>18. SatsIn(ins) = fee.sats
  <2>1. \A i \in 1 .. 2 : ins[i].sats \in Int
    BY <1>1, <1>6, <1>7, <1>8
  <2>2. SatsIn(ins) = ins[1].sats + ins[2].sats
    BY <1>8, <2>1, SatsOfFew
  <2> QED BY <1>1, <1>6, <1>7, <1>8, <2>2
<1>19. SatsIn(outs) = change
  <2>1. \A i \in 1 .. n : i = n \/ i \in 1 .. k \/ (i = k + 1 /\ change > 0)
    BY <1>2, <1>12
  <2>2. \A i \in 1 .. n : outs[i].sats \in Int
    BY <1>2, <1>12, <2>1
  <2>3. /\ n = 2 => SatsIn(outs) = outs[1].sats + outs[2].sats
        /\ n = 3 => SatsIn(outs) = outs[1].sats + outs[2].sats + outs[3].sats
        /\ n = 4 => SatsIn(outs) = outs[1].sats + outs[2].sats + outs[3].sats + outs[4].sats
    BY <1>4, <1>12, <2>2, SatsOfFew
  <2>4. outs[1].sats = 0 /\ (k = 2 => outs[2].sats = 0) /\ outs[n].sats = 0 /\ (change > 0 => outs[k + 1].sats = change)
    BY <1>12
  <2> HIDE DEF k, n
  <2> QED BY <1>2, <1>12, <2>3, <2>4
<1>20. Accepted(tx, DdFee, NoLeaf)
  <2>1. \A i, j \in 1 .. Len(ins) : ins[i].coin = ins[j].coin => i = j
    <3>1. coin # fee
      BY HonestCoins
    <3>2. ins[1].coin = coin /\ ins[2].coin = fee
      BY <1>6, <1>7, <1>8, Zenon
    <3> QED BY <1>8, <3>1, <3>2
  <2>2. \A i \in 1 .. Len(ins) : Unlocks(body, i, tx.witnesses[i])
    BY <1>8, <1>9, <1>10
  <2>3. \A i \in 1 .. n : outs[i].sats >= Fold \/ outs[i].sats = 0
    <3>1. \A i \in 1 .. n : i = n \/ i \in 1 .. k \/ (i = k + 1 /\ change > 0)
      BY <1>2, <1>12
    <3> QED BY <1>2, <1>12, <3>1
  <2>4. SatsIn(ins) - SatsIn(outs) \in DdFee .. DdFee + Fold - 1
    BY <1>1, <1>2, <1>18, <1>19, Units
  <2>5. body.version # "plain"
    BY <1>10
  <2> QED BY <1>10, <1>11, <2>1, <2>2, <2>3, <2>4, <2>5, Zenon DEF Accepted
<1>21. \A i \in 1 .. k : amounts[i] >= MinDd /\ (outs[i].script.key = to <=> amounts[i] = cents /\ i = 1)
  <2> SUFFICES ASSUME NEW i \in 1 .. k
               PROVE  amounts[i] >= MinDd /\ (outs[i].script.key = to <=> amounts[i] = cents /\ i = 1)
    OBVIOUS
  <2>1. CASE i = 1
    BY <1>12, <1>13, <2>1
  <2>2. CASE i # 1
    <3>1. i = 2 /\ k = 2 /\ rest > 0
      BY <2>2
    <3>2. amounts[i] = rest /\ outs[i].script.key = coin.key /\ rest >= MinDd
      BY <1>1, <1>12, <1>13, <3>1, Units DEF LegalDd
    <3> QED BY <3>1, <3>2
  <2> QED BY <2>1, <2>2
<1>22. TransferSound(tx, to, cents)
  <2>1. Tokens(tx) = 1 .. Len(AmountsOf(tx)) /\ Metadata(tx) = {Len(tx.body.outs)}
    BY <1>10, <1>13, <1>14, <1>15, Zenon
  <2>2. \A i \in Tokens(tx) : /\ AmountsOf(tx)[i] >= MinDd
                              /\ tx.body.outs[i].script.key = to <=> AmountsOf(tx)[i] = cents /\ i = 1
    BY <1>10, <1>14, <1>15, <1>21, Zenon
  <2> QED BY <1>17, <1>20, <2>1, <2>2, Zenon DEF TransferSound
<1>23. TransferMade(tx, coin, fee, to, cents)
  <2>1. \E left \in Nat : Laid(outs, to, cents, coin.cents - cents, coin.key, left, P2tr(coin.key))
    BY <1>2, <1>3
  <2>2. /\ Len(ins) = 2 /\ DOMAIN ins = 1 .. 2 /\ ins[1].coin = coin /\ ins[1].sats = 0
        /\ ins[2].coin = fee /\ ins[2].sats = fee.sats
    BY <1>6, <1>7, <1>8, Zenon
  <2> QED BY <1>10, <2>1, <2>2, Zenon DEF TransferMade
<1> QED BY <1>5, <1>22, <1>23, Zenon

LEMMA ThreeAndMore ==
    ASSUME NEW a, NEW b, NEW c, NEW d, NEW t, t = <<>> \/ t = <<d>>
    PROVE  LET o == <<a, b, c>> \o t
           IN /\ DOMAIN o = 1 .. Len(o) /\ o[1] = a /\ o[2] = b /\ o[3] = c
              /\ t = <<>> => Len(o) = 3
              /\ t = <<d>> => Len(o) = 4 /\ o[4] = d
<1> DEFINE T == {a, b, c, d}
           s == <<a, b, c>>
           o == s \o t
<1>1. s \in Seq(T) /\ t \in Seq(T)
  <2>1. <<a, b, c>> \in Seq(T) /\ <<>> \in Seq(T) /\ <<d>> \in Seq(T)
    OBVIOUS
  <2> HIDE DEF T
  <2> QED BY <2>1, Zenon
<1>2. Len(s) = 3 /\ s[1] = a /\ s[2] = b /\ s[3] = c
  OBVIOUS
<1>3. t = <<>> => Len(t) = 0
  OBVIOUS
<1>4. t = <<d>> => Len(t) = 1 /\ t[1] = d
  OBVIOUS
<1> HIDE DEF T, s
<1>5. /\ o \in Seq(T) /\ Len(o) = Len(s) + Len(t)
      /\ \A i \in 1 .. Len(s) : o[i] = s[i]
      /\ \A i \in 1 .. Len(t) : o[Len(s) + i] = t[i]
  BY <1>1, Join, SMTT(30)
<1> HIDE DEF o
<1>6. o[1] = a /\ o[2] = b /\ o[3] = c /\ DOMAIN o = 1 .. Len(o)
  BY <1>2, <1>5
<1>7. t = <<>> => Len(o) = 3
  <2>1. CASE Len(t) = 0
    BY <1>2, <1>5, <2>1
  <2> QED BY <1>3, <2>1
<1>8. t = <<d>> => Len(o) = 4 /\ o[4] = d
  <2>1. ASSUME Len(t) = 1, t[1] = d PROVE Len(o) = 4 /\ o[4] = d
    BY <1>2, <1>5, <2>1
  <2> QED BY <1>4, <2>1
<1> QED BY <1>6, <1>7, <1>8 DEF o, s

\* What a mint is made of.
MintMade(tx, coin, owner, cents, collateral) ==
    LET unlock == Tip + 1 + 100 + LockBlocks
        o == tx.body.outs
    IN /\ tx.body.version = "mint" /\ Len(tx.body.ins) = 1 /\ DOMAIN tx.body.ins = 1 .. 1
       /\ tx.body.ins[1].coin = coin /\ tx.body.ins[1].sats = coin.sats
       /\ DOMAIN o = 1 .. Len(o)
       /\ o[1] = Out(collateral, CollateralScript(owner, unlock, cents))
       /\ o[2] = Out(0, P2tr(owner)) /\ o[3] = Out(0, MintData(owner, unlock, cents))
       /\ \E change \in Nat : /\ Len(o) = IF change > 0 THEN 4 ELSE 3
                              /\ change > 0 => o[4] = Out(change, P2wpkh(coin.key))

LEMMA MintIsSound ==
    ASSUME NEW K, NEW coin \in DgbOf(K), coin.type # "p2wpkh", NEW owner, NEW cents \in Nat,
           NEW collateral \in Nat \ {0}, coin.sats >= collateral + DdFee
    PROVE  /\ MintSound(BuildMint(coin, owner, cents, collateral, DdFee), cents)
           /\ MintMade(BuildMint(coin, owner, cents, collateral, DdFee), coin, owner, cents, collateral)
<1> DEFINE unlock == Tip + 1 + 100 + LockBlocks
           change == Folded(coin.sats - collateral - DdFee)
           a == Out(collateral, CollateralScript(owner, unlock, cents))
           b == Out(0, P2tr(owner))
           c == Out(0, MintData(owner, unlock, cents))
           d == Out(change, P2wpkh(coin.key))
           t == IfAny(change, P2wpkh(coin.key))
           outs == <<a, b, c>> \o t
           x == In(coin, P2tr(coin.key), "rbf")
           ins == <<x>>
           body == Body("mint", 0, ins, outs)
           tx == [body |-> body, witnesses |-> <<KeySpend(body, 1, coin.key)>>]
           n == Len(outs)
<1>1. coin.sats \in Nat /\ coin.type = "p2tr" /\ coin.sats - collateral - DdFee \in Nat
  BY Units DEF DgbOf
<1>2. /\ change \in Nat /\ coin.sats - collateral - DdFee - change \in 0 .. Fold - 1
      /\ change > 0 => change >= Fold
  BY <1>1, FoldedIs
<1>3. BuildMint(coin, owner, cents, collateral, DdFee) = tx
  <2>1. ~(DdFee < MinDdFee \/ coin.sats < collateral + DdFee)
    <3>1. ~(DdFee < MinDdFee)
      BY SMT DEF DdFee, MinDdFee
    <3> QED BY <1>1, <3>1, Units
  <2> QED BY <2>1, Zenon DEF BuildMint, Body
<1>4. /\ x.coin = coin /\ x.sats = coin.sats /\ x.script = P2tr(coin.key)
      /\ x = In(x.coin, LockOf(x.coin), x.sequence)
  <2>1. LockOf(coin) = Script(coin.type, coin.key) /\ SatsOf(coin) = coin.sats
    BY HonestCoins
  <2>2. LockOf(coin) = P2tr(coin.key)
    BY <1>1, <2>1, Zenon DEF P2tr
  <2> QED BY <2>1, <2>2, HonestInputs
<1> HIDE DEF x
<1>5. Honest(ins) /\ Len(ins) = 1 /\ DOMAIN ins = 1 .. 1 /\ ins[1] = x
  BY <1>4, HonestOne, Zenon
<1> HIDE DEF ins
<1>6. Unlocks(body, 1, KeySpend(body, 1, coin.key))
  <2>1. 1 \in 1 .. Len(ins)
    BY <1>5
  <2>2. ins[1].script = P2tr(coin.key)
    BY <1>4, <1>5, Zenon
  <2> HIDE DEF outs
  <2> QED BY <1>5, <2>1, <2>2, Opens, Zenon
<1>7. /\ tx.body = body /\ body.ins = ins /\ body.outs = outs /\ body.version = "mint"
      /\ tx.witnesses[1] = KeySpend(body, 1, coin.key)
  <2>1. body.ins = ins /\ body.outs = outs /\ body.version = "mint"
    <3> HIDE DEF outs
    <3> QED BY DEF Body
  <2> HIDE DEF body
  <2> QED BY <2>1
<1>8. tx # NoTx
  <2> HIDE DEF body
  <2>1. DOMAIN tx = {"body", "witnesses"} /\ DOMAIN NoTx = {"refused"}
    BY DEF NoTx
  <2> QED BY <2>1, Zenon
<1> HIDE DEF body, tx
<1>9. /\ DOMAIN outs = 1 .. n /\ outs[1] = a /\ outs[2] = b /\ outs[3] = c
      /\ n = (IF change > 0 THEN 4 ELSE 3) /\ (change > 0 => outs[4] = d)
  <2>1. (change > 0 => t = <<d>>) /\ (~(change > 0) => t = <<>>)
    BY Zenon DEF IfAny
  <2>2. t = <<>> \/ t = <<d>>
    BY <2>1, Zenon
  <2>3. /\ DOMAIN outs = 1 .. Len(outs) /\ outs[1] = a /\ outs[2] = b /\ outs[3] = c
        /\ (t = <<>> => Len(outs) = 3) /\ (t = <<d>> => Len(outs) = 4 /\ outs[4] = d)
    <3> HIDE DEF a, b, c, d, t
    <3> QED BY <2>2, ThreeAndMore, SMTT(30)
  <2> HIDE DEF a, b, c, d, t, outs, change
  <2> QED BY <2>1, <2>3, Zenon
<1> HIDE DEF outs
<1>10. /\ outs[1].sats = collateral /\ outs[1].script.shape = "p2tr"
       /\ outs[2].sats = 0 /\ outs[2].script.shape = "p2tr"
       /\ outs[3].sats = 0 /\ outs[3].script.shape = "data" /\ outs[3].script.data = <<cents>>
       /\ change > 0 => outs[4].sats = change /\ outs[4].script.shape = "p2wpkh"
  <2>1. a.sats = collateral /\ a.script.shape = "p2tr"
    BY DEF Out, CollateralScript, P2tr, Script
  <2>2. b.sats = 0 /\ b.script.shape = "p2tr"
    BY DEF Out, P2tr, Script
  <2>3. c.sats = 0 /\ c.script.shape = "data" /\ c.script.data = <<cents>>
    BY DEF Out, MintData, Data, Script
  <2>4. d.sats = change /\ d.script.shape = "p2wpkh"
    BY DEF Out, P2wpkh, Script
  <2> HIDE DEF a, b, c, d, change
  <2> QED BY <1>9, <2>1, <2>2, <2>3, <2>4, Zenon
<1>20. MintMade(tx, coin, owner, cents, collateral)
  <2> HIDE DEF change
  <2>1. \E left \in Nat : /\ Len(outs) = IF left > 0 THEN 4 ELSE 3
                          /\ left > 0 => outs[4] = Out(left, P2wpkh(coin.key))
    BY <1>2, <1>9
  <2>2. Len(ins) = 1 /\ DOMAIN ins = 1 .. 1 /\ ins[1].coin = coin /\ ins[1].sats = coin.sats
    BY <1>4, <1>5, Zenon
  <2> QED BY <1>7, <1>9, <2>1, <2>2, Zenon DEF MintMade
<1> HIDE DEF a, b, c, d, change
<1>11. n \in Nat /\ \A i \in 1 .. n : i \in {1, 2, 3} \/ (i = 4 /\ change > 0)
  BY <1>9
<1>12. /\ Metadata(tx) = {3} /\ Tokens(tx) = {2}
       /\ {i \in 1 .. Len(tx.body.outs) : tx.body.outs[i].sats > 0 /\ tx.body.outs[i].script.shape = "p2tr"} = {1}
  <2>1. /\ Metadata(tx) = {i \in 1 .. n : outs[i].script.shape = "data"}
        /\ Tokens(tx) = {i \in 1 .. n : outs[i].sats = 0 /\ outs[i].script.shape = "p2tr"}
        /\ {i \in 1 .. Len(tx.body.outs) : tx.body.outs[i].sats > 0 /\ tx.body.outs[i].script.shape = "p2tr"}
           = {i \in 1 .. n : outs[i].sats > 0 /\ outs[i].script.shape = "p2tr"}
    BY <1>7, Zenon DEF Metadata, Tokens
  <2>2. 1 \in 1 .. n /\ 2 \in 1 .. n /\ 3 \in 1 .. n
    BY <1>9
  <2>3. {i \in 1 .. n : outs[i].script.shape = "data"} = {3}
    BY <1>10, <1>11, <2>2
  <2>4. {i \in 1 .. n : outs[i].sats = 0 /\ outs[i].script.shape = "p2tr"} = {2}
    BY <1>10, <1>11, <2>2
  <2>5. {i \in 1 .. n : outs[i].sats > 0 /\ outs[i].script.shape = "p2tr"} = {1}
    BY <1>10, <1>11, <2>2
  <2> QED BY <2>1, <2>3, <2>4, <2>5, Zenon
<1>13. AmountsOf(tx) = <<cents>> /\ Len(<<cents>>) = 1 /\ Total(<<cents>>) = cents
  <2>1. Min(Metadata(tx)) = 3 /\ Metadata(tx) # {}
    BY <1>12, LastIs
  <2>2. AmountsOf(tx) = outs[3].script.data
    BY <1>7, <2>1, Zenon DEF AmountsOf
  <2>3. cents \in Int
    OBVIOUS
  <2> QED BY <1>10, <2>2, <2>3, TotalOfFew, Zenon
<1>14. InCents(tx) = 0
  <2>1. CoinsSpent(tx) = {coin}
    <3>1. CoinsSpent(tx) = {ins[i].coin : i \in 1 .. Len(ins)}
      BY <1>7, Zenon DEF CoinsSpent
    <3>2. ins[1].coin = coin
      BY <1>4, <1>5, Zenon
    <3> QED BY <1>5, <3>1, <3>2
  <2>2. {q \in {coin} : "cents" \in DOMAIN q /\ "sats" \notin DOMAIN q} = {}
    BY HonestCoins
  <2>3. InCents(tx) = Cents({})
    BY <2>1, <2>2, Zenon DEF InCents
  <2>4. Cents({}) = 0
    BY FS_EmptySet, CentsSum
  <2> QED BY <2>3, <2>4
<1>15. Conserved(tx, -cents)
  <2>1. OutCents(tx) = cents
    BY <1>13, Zenon DEF OutCents
  <2>2. Cardinality(Metadata(tx)) = 1 /\ Cardinality(Tokens(tx)) = 1
    BY <1>12, FS_Singleton
  <2>3. Len(AmountsOf(tx)) = 1
    BY <1>13, Zenon
  <2> QED BY <1>14, <2>1, <2>2, <2>3 DEF Conserved
<1>16. SatsIn(ins) = coin.sats
  <2>1. \A i \in 1 .. 1 : ins[i].sats \in Int
    BY <1>1, <1>4, <1>5
  <2> QED BY <1>4, <1>5, <2>1, SatsOfFew
<1>17. SatsIn(outs) = collateral + change
  <2>1. \A i \in 1 .. n : outs[i].sats \in Int
    BY <1>2, <1>10, <1>11
  <2>2. /\ n = 3 => SatsIn(outs) = outs[1].sats + outs[2].sats + outs[3].sats
        /\ n = 4 => SatsIn(outs) = outs[1].sats + outs[2].sats + outs[3].sats + outs[4].sats
    BY <1>9, <1>11, <2>1, SatsOfFew
  <2> HIDE DEF n
  <2> QED BY <1>2, <1>9, <1>10, <2>2
<1>18. Accepted(tx, DdFee, tx.body.outs[1].script)
  <2>1. \A i, j \in 1 .. Len(ins) : ins[i].coin = ins[j].coin => i = j
    BY <1>5
  <2>2. \A i \in 1 .. Len(ins) : Unlocks(body, i, tx.witnesses[i])
    BY <1>5, <1>6, <1>7
  <2>3. \A i \in 1 .. n : outs[i].sats >= Fold \/ outs[i].sats = 0 \/ outs[i].script = outs[1].script
    BY <1>2, <1>10, <1>11
  <2>4. SatsIn(ins) - SatsIn(outs) \in DdFee .. DdFee + Fold - 1
    BY <1>1, <1>2, <1>16, <1>17, Units
  <2>5. body.version # "plain"
    BY <1>7
  <2> QED BY <1>7, <1>8, <2>1, <2>2, <2>3, <2>4, <2>5, Zenon DEF Accepted
<1>19. MintSound(tx, cents)
  BY <1>12, <1>15, <1>18, Zenon DEF MintSound
<1> QED BY <1>3, <1>19, <1>20, Zenon

LEMMA SatsSame ==
    ASSUME NEW n \in Nat, NEW list, Len(list) = n, DOMAIN list = 1 .. n, \A i \in 1 .. n : list[i].sats \in Int,
           NEW other, Len(other) = n, DOMAIN other = 1 .. n, \A i \in 1 .. n : other[i].sats = list[i].sats
    PROVE  SatsIn(other) = SatsIn(list)
<1>1. PICK g : /\ g \in [0 .. n -> Int] /\ g[0] = 0
               /\ \A i \in 1 .. n : g[i] = g[i - 1] + list[i].sats
               /\ SatsIn(list) = g[n]
  BY SatsRun, Zenon
<1>2. \A i \in 1 .. n : other[i].sats \in Int
  OBVIOUS
<1>3. PICK h : /\ h \in [0 .. n -> Int] /\ h[0] = 0
               /\ \A i \in 1 .. n : h[i] = h[i - 1] + other[i].sats
               /\ SatsIn(other) = h[n]
  BY <1>2, SatsRun, Zenon
<1> DEFINE N == {k \in Nat : k <= n => g[k] = h[k]}
<1>4. 0 \in N
  BY <1>1, <1>3
<1>5. ASSUME NEW k \in Nat, k \in N PROVE k + 1 \in N
  <2> SUFFICES ASSUME k + 1 <= n PROVE g[k + 1] = h[k + 1]
    OBVIOUS
  <2>1. k + 1 \in 1 .. n /\ k + 1 - 1 = k /\ k <= n
    OBVIOUS
  <2> QED BY <1>1, <1>3, <1>5, <2>1
<1>6. n \in N
  <2> HIDE DEF N
  <2> QED BY <1>4, <1>5, NatAll
<1> QED BY <1>1, <1>3, <1>6

LEMMA OneAndMore ==
    ASSUME NEW a, NEW d, NEW t, t = <<>> \/ t = <<d>>
    PROVE  LET o == <<a>> \o t
           IN /\ DOMAIN o = 1 .. Len(o) /\ o[1] = a
              /\ t = <<>> => Len(o) = 1
              /\ t = <<d>> => Len(o) = 2 /\ o[2] = d
<1> DEFINE T == {a, d}
           s == <<a>>
           o == s \o t
<1>1. s \in Seq(T) /\ t \in Seq(T)
  <2>1. <<a>> \in Seq(T) /\ <<>> \in Seq(T) /\ <<d>> \in Seq(T)
    OBVIOUS
  <2> HIDE DEF T
  <2> QED BY <2>1, Zenon
<1>2. Len(s) = 1 /\ s[1] = a
  OBVIOUS
<1>3. t = <<>> => Len(t) = 0
  OBVIOUS
<1>4. t = <<d>> => Len(t) = 1 /\ t[1] = d
  OBVIOUS
<1> HIDE DEF T, s
<1>5. /\ o \in Seq(T) /\ Len(o) = Len(s) + Len(t)
      /\ \A i \in 1 .. Len(s) : o[i] = s[i]
      /\ \A i \in 1 .. Len(t) : o[Len(s) + i] = t[i]
  BY <1>1, Join, SMTT(30)
<1> HIDE DEF o
<1>6. o[1] = a /\ DOMAIN o = 1 .. Len(o)
  BY <1>2, <1>5
<1>7. t = <<>> => Len(o) = 1
  <2>1. CASE Len(t) = 0
    BY <1>2, <1>5, <2>1
  <2> QED BY <1>3, <2>1
<1>8. t = <<d>> => Len(o) = 2 /\ o[2] = d
  <2>1. ASSUME Len(t) = 1, t[1] = d PROVE Len(o) = 2 /\ o[2] = d
    BY <1>2, <1>5, <2>1
  <2> QED BY <1>4, <2>1
<1> QED BY <1>6, <1>7, <1>8 DEF o, s

LEMMA LeftFor ==
    ASSUME NEW brought \in Int, NEW spent \in Int, NEW fee \in Int, NEW change \in Int, NEW n \in Int,
           brought - spent - fee - change \in 0 .. n - 1
    PROVE  brought - (spent + change) \in fee .. fee + n - 1
  OBVIOUS

\* What a spend is made of.
SpendMade(tx, coins, m, to, amount) ==
    LET o == tx.body.outs
    IN /\ tx.body.version = "plain" /\ Len(tx.body.ins) = m /\ DOMAIN tx.body.ins = 1 .. m
       /\ \A i \in 1 .. m : tx.body.ins[i].coin = coins[i] /\ tx.body.ins[i].sats = coins[i].sats
       /\ DOMAIN o = 1 .. Len(o) /\ o[1] = Out(amount, to)
       /\ \E change \in Nat : /\ Len(o) = IF change > 0 THEN 2 ELSE 1
                              /\ change > 0 => o[2] = Out(change, Received)

\* A spend of coins that are listed once each and suffice.
LEMMA SpendIsAccepted ==
    ASSUME NEW K, NEW S, Coins(S), S \subseteq DgbOf(K), NEW m \in Nat, NEW coins, Len(coins) = m,
           DOMAIN coins = 1 .. m, \A i \in 1 .. m : coins[i] \in S, Distinct(coins, m), NEW to,
           NEW amount \in Nat, NEW fee \in Nat, Sats(Elements(coins, m)) >= amount + fee
    PROVE  /\ Accepted(BuildSpend(coins, to, amount, fee, Received), fee, to)
           /\ SpendMade(BuildSpend(coins, to, amount, fee, Received), coins, m, to, amount)
<1> DEFINE total == SatsIn(coins)
           change == Folded(total - amount - fee)
           a == Out(amount, to)
           d == Out(change, Received)
           t == IfAny(change, Received)
           outs == <<a>> \o t
           ins == Field(coins, LAMBDA c : In(c, Script(c.type, c.key), "rbf"))
           body == Body("plain", 0, ins, outs)
           tx == [body |-> body, witnesses |-> [i \in 1 .. Len(coins) |-> CoinWitness(body, i, coins[i])]]
           n == Len(outs)
<1>1. total = Sats(Elements(coins, m)) /\ total \in Int /\ total - amount - fee \in Nat
  <2>1. SatsIn(coins) = Sats(Elements(coins, m))
    BY SatsListed
  <2>2. Elements(coins, m) \in SUBSET S
    BY DEF Elements
  <2>3. Sats(Elements(coins, m)) \in Int
    BY <2>2, Parts
  <2> QED BY <2>1, <2>3
<1> HIDE DEF total
<1>2. /\ change \in Nat /\ total - amount - fee - change \in 0 .. Fold - 1
      /\ change > 0 => change >= Fold
  BY <1>1, FoldedIs
<1>3. BuildSpend(coins, to, amount, fee, Received) = tx
  <2>1. ~(total < amount + fee)
    BY <1>1
  <2> QED BY <2>1, Zenon DEF BuildSpend, Body, SatsIn, total
<1>4. ins = [i \in 1 .. m |-> In(coins[i], Script(coins[i].type, coins[i].key), "rbf")]
  BY Zenon DEF Field
<1> HIDE DEF ins
<1>5. ASSUME NEW i \in 1 .. m
      PROVE  /\ ins[i].coin = coins[i] /\ ins[i].sats = coins[i].sats
             /\ ins[i].script = Script(coins[i].type, coins[i].key) /\ coins[i] \in DgbOf(K)
             /\ ins[i] = In(ins[i].coin, LockOf(ins[i].coin), ins[i].sequence)
  <2> DEFINE c == coins[i]
             x == In(c, Script(c.type, c.key), "rbf")
  <2>1. ins[i] = x
    BY <1>4
  <2>2. c \in DgbOf(K)
    OBVIOUS
  <2>3. LockOf(c) = Script(c.type, c.key) /\ SatsOf(c) = c.sats
    BY <2>2, HonestCoins
  <2> HIDE DEF c
  <2>4. x.coin = c /\ x.sats = SatsOf(c) /\ x.script = Script(c.type, c.key)
        /\ x = In(x.coin, LockOf(x.coin), x.sequence)
    BY <2>3, HonestInputs
  <2> HIDE DEF x
  <2> QED BY <2>1, <2>2, <2>3, <2>4 DEF c
<1>6. DOMAIN ins = 1 .. m /\ Len(ins) = m
  BY <1>4
<1>7. Honest(ins)
  <2>1. ins = [i \in 1 .. Len(ins) |-> ins[i]]
    <3>1. ins = [i \in DOMAIN ins |-> ins[i]]
      BY <1>4
    <3> QED BY <1>6, <3>1
  <2> QED BY <1>5, <1>6, <2>1 DEF Honest
<1>8. \A i \in 1 .. m : Unlocks(body, i, CoinWitness(body, i, coins[i]))
  <2> SUFFICES ASSUME NEW i \in 1 .. m PROVE Unlocks(body, i, CoinWitness(body, i, coins[i]))
    OBVIOUS
  <2>1. i \in 1 .. Len(ins) /\ coins[i] \in DgbOf(K) /\ ins[i].script = Script(coins[i].type, coins[i].key)
    BY <1>5, <1>6
  <2> HIDE DEF outs
  <2> QED BY <1>7, <2>1, CoinOpens, Zenon
<1>9. /\ tx.body = body /\ body.ins = ins /\ body.outs = outs /\ body.version = "plain"
      /\ \A i \in 1 .. m : tx.witnesses[i] = CoinWitness(body, i, coins[i])
  <2>1. body.ins = ins /\ body.outs = outs /\ body.version = "plain"
    <3> HIDE DEF outs
    <3> QED BY DEF Body
  <2> HIDE DEF body
  <2> QED BY <2>1
<1>10. tx # NoTx
  <2> HIDE DEF body
  <2>1. DOMAIN tx = {"body", "witnesses"} /\ DOMAIN NoTx = {"refused"}
    BY DEF NoTx
  <2> QED BY <2>1, Zenon
<1> HIDE DEF body, tx
<1>11. /\ DOMAIN outs = 1 .. n /\ outs[1] = a
       /\ n = (IF change > 0 THEN 2 ELSE 1) /\ (change > 0 => outs[2] = d)
  <2>1. (change > 0 => t = <<d>>) /\ (~(change > 0) => t = <<>>)
    BY Zenon DEF IfAny
  <2>2. t = <<>> \/ t = <<d>>
    BY <2>1, Zenon
  <2>3. /\ DOMAIN outs = 1 .. Len(outs) /\ outs[1] = a
        /\ (t = <<>> => Len(outs) = 1) /\ (t = <<d>> => Len(outs) = 2 /\ outs[2] = d)
    <3> HIDE DEF a, d, t
    <3> QED BY <2>2, OneAndMore, SMTT(30)
  <2> HIDE DEF a, d, t, outs, change
  <2> QED BY <2>1, <2>3, Zenon
<1> HIDE DEF outs
<1>12. /\ outs[1].sats = amount /\ outs[1].script = to
       /\ change > 0 => outs[2].sats = change
  <2>1. a.sats = amount /\ a.script = to
    BY DEF Out
  <2>2. d.sats = change
    BY DEF Out
  <2> HIDE DEF a, d, change
  <2> QED BY <1>11, <2>1, <2>2, Zenon
<1>21. SpendMade(tx, coins, m, to, amount)
  <2> HIDE DEF change
  <2>1. \E left \in Nat : /\ Len(outs) = IF left > 0 THEN 2 ELSE 1
                          /\ left > 0 => outs[2] = Out(left, Received)
    BY <1>2, <1>11
  <2>2. \A i \in 1 .. m : ins[i].coin = coins[i] /\ ins[i].sats = coins[i].sats
    BY <1>5
  <2> QED BY <1>6, <1>9, <1>11, <2>1, <2>2, Zenon DEF SpendMade
<1> HIDE DEF a, d, change
<1>13. n \in Nat /\ \A i \in 1 .. n : i = 1 \/ (i = 2 /\ change > 0)
  BY <1>11
<1>14. SatsIn(ins) = total
  <2>1. \A i \in 1 .. m : coins[i].sats \in Int
    BY DEF Coins
  <2>2. \A i \in 1 .. m : ins[i].sats = coins[i].sats
    BY <1>5
  <2> QED BY <1>6, <2>1, <2>2, SatsSame DEF total
<1>15. SatsIn(outs) = amount + change
  <2>1. \A i \in 1 .. n : outs[i].sats \in Int
    BY <1>2, <1>12, <1>13
  <2>2. /\ n = 1 => SatsIn(outs) = outs[1].sats
        /\ n = 2 => SatsIn(outs) = outs[1].sats + outs[2].sats
    BY <1>11, <1>13, <2>1, SatsOfFew
  <2> HIDE DEF n
  <2> QED BY <1>2, <1>11, <1>12, <2>2
<1>16. \A i, j \in 1 .. Len(ins) : ins[i].coin = ins[j].coin => i = j
  BY <1>5, <1>6 DEF Distinct
<1>17. \A i \in 1 .. Len(ins) : Unlocks(body, i, tx.witnesses[i])
  BY <1>6, <1>8, <1>9, Zenon
<1>18. \A i \in 1 .. n : outs[i].sats >= Fold \/ outs[i].script = to
  BY <1>2, <1>12, <1>13
<1>19. SatsIn(ins) - SatsIn(outs) \in fee .. fee + Fold - 1
  <2>1. /\ total \in Int /\ amount \in Int /\ fee \in Int /\ change \in Int /\ Fold \in Int
        /\ total - amount - fee - change \in 0 .. Fold - 1
    BY <1>1, <1>2, Units
  <2>2. total - (amount + change) \in fee .. fee + Fold - 1
    BY <2>1, LeftFor, Zenon
  <2> QED BY <1>14, <1>15, <2>2, Zenon
<1>20. Accepted(tx, fee, to)
  BY <1>9, <1>10, <1>16, <1>17, <1>18, <1>19, Zenon DEF Accepted
<1> QED BY <1>3, <1>20, <1>21, Zenon

LEMMA SpendIsBuilt ==
    ASSUME NEW K, NEW S, Coins(S), S \subseteq DgbOf(K),
           NEW order \in LargestFirst(S), NEW len \in ScriptLens, NEW amount \in Amounts,
           NEW p, p = PlanSpend(order, amount, len), p # NoPlan
    PROVE  /\ Accepted(ConfirmedSend(p, order, len), p.fee, Script("foreign", len)) /\ p.fee \in Nat
           /\ \E m \in Nat \ {0} : \E coins :
                 /\ \A i \in 1 .. m : coins[i] \in S
                 /\ SpendMade(ConfirmedSend(p, order, len), coins, m, Script("foreign", len), amount)
<1> DEFINE prefix(i) == {order[j] : j \in 1 .. i}
           fee(i) == Fee(prefix(i), OutputWeight(len) + OutputWeight(TaprootLen))
           enough == {i \in 1 .. Len(order) : Sats(prefix(i)) >= amount + fee(i)}
           m == Min(enough)
           coins == SubSeq(order, 1, m)
<1>0. amount \in Nat /\ len \in Nat
  BY TxPlanAssumption
<1>1. enough # {} /\ p = [inputs |-> prefix(m), amount |-> amount, fee |-> fee(m)]
  BY Zenon DEF PlanSpend, NoPlan
<1>2. /\ Cardinality(S) \in Nat /\ Len(order) = Cardinality(S)
      /\ order \in [1 .. Len(order) -> S]
      /\ \A i, j \in 1 .. Len(order) : i # j => order[i] # order[j]
  BY Orders
<1>3. m \in 1 .. Len(order) /\ Sats(prefix(m)) >= amount + fee(m)
  <2>1. enough \subseteq Nat
    BY <1>2
  <2>2. m \in enough
    <3> HIDE DEF enough
    <3> QED BY <1>1, <2>1, MinOf
  <2> HIDE DEF m
  <2> QED BY <2>2
<1> HIDE DEF m
<1>4. fee(m) \in Nat
  <2>1. prefix(m) \in SUBSET S
    BY <1>2, <1>3
  <2> HIDE DEF prefix
  <2>2. Coins(prefix(m))
    BY <2>1, Parts
  <2> QED BY <1>0, <2>2, FeesSuffice
<1>5. Cardinality(prefix(m)) = m
  <2>1. Distinct(order, m) /\ m \in Nat
    BY <1>2, <1>3 DEF Distinct
  <2>2. prefix(m) = Elements(order, m)
    BY DEF Elements
  <2> HIDE DEF prefix
  <2> QED BY <2>1, <2>2, Count
<1>6. p.inputs = prefix(m) /\ p.amount = amount /\ p.fee = fee(m)
  <2> HIDE DEF prefix, fee
  <2> QED BY <1>1
<1>7. /\ Len(coins) = m /\ DOMAIN coins = 1 .. m /\ \A i \in 1 .. m : coins[i] = order[i]
  <2>1. order \in Seq(S)
    BY <1>2
  <2> QED BY <1>2, <1>3, <2>1
<1>8. ConfirmedSend(p, order, len) = BuildSpend(coins, Script("foreign", len), amount, fee(m), Received)
  <2> HIDE DEF prefix, fee
  <2> QED BY <1>5, <1>6, Zenon DEF ConfirmedSend
<1> HIDE DEF coins
<1>9. /\ m \in Nat /\ \A i \in 1 .. m : coins[i] \in S
      /\ Distinct(coins, m) /\ Elements(coins, m) = prefix(m)
  <2>1. m \in Nat /\ \A i \in 1 .. m : coins[i] \in S
    BY <1>2, <1>3, <1>7
  <2>2. Distinct(coins, m)
    BY <1>2, <1>3, <1>7 DEF Distinct
  <2>3. Elements(coins, m) = prefix(m)
    BY <1>7 DEF Elements
  <2> QED BY <2>1, <2>2, <2>3
<1>10. /\ Accepted(BuildSpend(coins, Script("foreign", len), amount, fee(m), Received), fee(m), Script("foreign", len))
       /\ SpendMade(BuildSpend(coins, Script("foreign", len), amount, fee(m), Received), coins, m,
                    Script("foreign", len), amount)
  <2>1. Sats(Elements(coins, m)) >= amount + fee(m)
    BY <1>3, <1>9, Zenon
  <2> HIDE DEF fee
  <2> QED BY <1>0, <1>4, <1>7, <1>9, <2>1, SpendIsAccepted
<1>11. m \in Nat \ {0}
  BY <1>3, <1>9
<1> HIDE DEF fee
<1> QED BY <1>4, <1>6, <1>8, <1>9, <1>10, <1>11, Zenon

\* Whatever coins the wallet holds, a spend that is planned is signed so that each input
\* opens, pays its fee but for a folded change, and makes no dust.
THEOREM SpendsAreBuilt ==
    ASSUME NEW K, NEW S, Coins(S), S \subseteq DgbOf(K)
    PROVE  SpendsBuilt(S)
<1> SUFFICES ASSUME NEW order \in LargestFirst(S), NEW len \in ScriptLens, NEW amount \in Amounts,
                    NEW p, p = PlanSpend(order, amount, len), p # NoPlan
             PROVE  Accepted(ConfirmedSend(p, order, len), p.fee, Script("foreign", len))
  BY Zenon DEF SpendsBuilt
<1> QED BY SpendIsBuilt, Zenon

\* One, some more and one.
LEMMA Sandwich ==
    ASSUME NEW m \in Nat, NEW mid, mid = [i \in 1 .. m |-> mid[i]], NEW x, NEW y
    PROVE  LET o == <<x>> \o mid \o <<y>>
           IN /\ o = [i \in 1 .. Len(o) |-> o[i]] /\ DOMAIN o = 1 .. Len(o) /\ Len(o) = m + 2
              /\ o[1] = x /\ o[m + 2] = y
              /\ \A i \in 1 .. m : o[i + 1] = mid[i]
<1> DEFINE T == {x, y} \union {mid[i] : i \in 1 .. m}
           a == <<x>>
           d == <<y>>
           p == a \o mid
           o == p \o d
<1>1. mid \in Seq(T) /\ Len(mid) = m
  <2>1. \A i \in 1 .. m : mid[i] \in T
    OBVIOUS
  <2> HIDE DEF T
  <2>2. mid \in [1 .. m -> T]
    BY <2>1
  <2> QED BY <2>2
<1>2. a \in Seq(T) /\ d \in Seq(T)
  OBVIOUS
<1>3. Len(a) = 1 /\ a[1] = x /\ Len(d) = 1 /\ d[1] = y
  OBVIOUS
<1> HIDE DEF T, a, d
<1>4. /\ p \in Seq(T) /\ Len(p) = Len(a) + Len(mid)
      /\ \A i \in 1 .. Len(a) : p[i] = a[i]
      /\ \A i \in 1 .. Len(mid) : p[Len(a) + i] = mid[i]
  BY <1>1, <1>2, Join, SMTT(30)
<1> HIDE DEF p
<1>5. /\ o \in Seq(T) /\ Len(o) = Len(p) + Len(d)
      /\ \A i \in 1 .. Len(p) : o[i] = p[i]
      /\ \A i \in 1 .. Len(d) : o[Len(p) + i] = d[i]
  BY <1>2, <1>4, Join, SMTT(30)
<1> HIDE DEF o
<1>6. Len(p) = m + 1 /\ Len(o) = m + 2 /\ p[1] = x
  BY <1>1, <1>3, <1>4, <1>5
<1>7. o[1] = x /\ o[m + 2] = y
  <2>1. 1 \in 1 .. Len(p) /\ 1 \in 1 .. Len(d) /\ Len(p) + 1 = m + 2
    BY <1>3, <1>6
  <2> QED BY <1>3, <1>5, <1>6, <2>1
<1>8. ASSUME NEW i \in 1 .. m PROVE o[i + 1] = mid[i]
  <2>1. i + 1 \in 1 .. Len(p) /\ Len(a) + i = i + 1 /\ i \in 1 .. Len(mid)
    BY <1>1, <1>3, <1>6
  <2> QED BY <1>4, <1>5, <2>1
<1>9. o = [i \in 1 .. Len(o) |-> o[i]] /\ DOMAIN o = 1 .. Len(o)
  BY <1>5
<1> QED BY <1>6, <1>7, <1>8, <1>9 DEF o, p, a, d

\* Only the first and the last hold something.
LEMMA SatsOutside ==
    ASSUME NEW m \in Nat, NEW list, Len(list) = m + 2, DOMAIN list = 1 .. m + 2,
           list[1].sats \in Int, list[m + 2].sats \in Int, \A i \in 1 .. m : list[i + 1].sats = 0
    PROVE  SatsIn(list) = list[1].sats + list[m + 2].sats
<1>1. \A i \in 1 .. m + 2 : list[i].sats \in Int
  <2> SUFFICES ASSUME NEW i \in 1 .. m + 2 PROVE list[i].sats \in Int
    OBVIOUS
  <2>1. i = 1 \/ i = m + 2 \/ (i - 1 \in 1 .. m /\ i - 1 + 1 = i)
    OBVIOUS
  <2> QED BY <2>1
<1>2. PICK g : /\ g \in [0 .. m + 2 -> Int] /\ g[0] = 0
               /\ \A i \in 1 .. m + 2 : g[i] = g[i - 1] + list[i].sats
               /\ SatsIn(list) = g[m + 2]
  <2>1. m + 2 \in Nat
    OBVIOUS
  <2> QED BY <1>1, <2>1, SatsRun, Zenon
<1> DEFINE N == {k \in Nat : k <= m => g[k + 1] = list[1].sats}
<1>3. 0 \in N
  <2>1. 1 \in 1 .. m + 2 /\ 1 - 1 = 0 /\ 0 + 1 = 1
    OBVIOUS
  <2> QED BY <1>2, <2>1
<1>4. ASSUME NEW k \in Nat, k \in N PROVE k + 1 \in N
  <2> SUFFICES ASSUME k + 1 <= m PROVE g[k + 1 + 1] = list[1].sats
    OBVIOUS
  <2>1. k + 1 \in 1 .. m /\ k + 1 + 1 \in 1 .. m + 2 /\ k + 1 + 1 - 1 = k + 1 /\ k <= m
    OBVIOUS
  <2>2. g[k + 1] = list[1].sats /\ list[k + 1 + 1].sats = 0
    BY <1>4, <2>1
  <2> QED BY <1>2, <2>1, <2>2
<1>5. m \in N
  <2> HIDE DEF N
  <2> QED BY <1>3, <1>4, NatAll
<1>6. g[m + 1] = list[1].sats
  BY <1>5
<1>7. m + 2 \in 1 .. m + 2 /\ m + 2 - 1 = m + 1
  OBVIOUS
<1> QED BY <1>2, <1>6, <1>7

LEMMA CentsSame ==
    ASSUME NEW n \in Nat, NEW list, Len(list) = n, DOMAIN list = 1 .. n, \A i \in 1 .. n : list[i].cents \in Int,
           NEW other, Len(other) = n, DOMAIN other = 1 .. n, \A i \in 1 .. n : other[i].cents = list[i].cents
    PROVE  CentsIn(other) = CentsIn(list)
<1>1. PICK g : /\ g \in [0 .. n -> Int] /\ g[0] = 0
               /\ \A i \in 1 .. n : g[i] = g[i - 1] + list[i].cents
               /\ CentsIn(list) = g[n]
  BY CentsRun, Zenon
<1>2. \A i \in 1 .. n : other[i].cents \in Int
  OBVIOUS
<1>3. PICK h : /\ h \in [0 .. n -> Int] /\ h[0] = 0
               /\ \A i \in 1 .. n : h[i] = h[i - 1] + other[i].cents
               /\ CentsIn(other) = h[n]
  BY <1>2, CentsRun, Zenon
<1> DEFINE N == {k \in Nat : k <= n => g[k] = h[k]}
<1>4. 0 \in N
  BY <1>1, <1>3
<1>5. ASSUME NEW k \in Nat, k \in N PROVE k + 1 \in N
  <2> SUFFICES ASSUME k + 1 <= n PROVE g[k + 1] = h[k + 1]
    OBVIOUS
  <2>1. k + 1 \in 1 .. n /\ k + 1 - 1 = k /\ k <= n
    OBVIOUS
  <2> QED BY <1>1, <1>3, <1>5, <2>1
<1>6. n \in N
  <2> HIDE DEF N
  <2> QED BY <1>4, <1>5, NatAll
<1> QED BY <1>1, <1>3, <1>6

\* The outputs of a redemption: the collateral, a token and its metadata where there is
\* a change of DigiDollar, and the change of the fee.
RedeemLaid(o, collateral, owner, rest, change, script) ==
    /\ DOMAIN o = 1 .. Len(o)
    /\ Len(o) = 1 + (IF rest > 0 THEN 2 ELSE 0) + (IF change > 0 THEN 1 ELSE 0)
    /\ o[1] = Out(collateral, P2tr(owner))
    /\ rest > 0 => o[2] = Out(0, P2tr(owner)) /\ o[3] = Out(0, Data(<<rest>>))
    /\ change > 0 => o[Len(o)] = Out(change, script)

LEMMA RedeemLays ==
    ASSUME NEW collateral, NEW owner, NEW rest \in Nat, NEW change \in Nat, NEW script
    PROVE  RedeemLaid(RedeemOutputs(collateral, owner, rest, change, script), collateral, owner, rest, change, script)
<1> DEFINE a == Out(collateral, P2tr(owner))
           b == Out(0, P2tr(owner))
           c == Out(0, Data(<<rest>>))
           d == Out(change, script)
           s == IF rest > 0 THEN <<b, c>> ELSE <<>>
           t == IfAny(change, script)
           T == {a, b, c, d}
           r == <<a>>
           p == r \o s
           o == p \o t
<1>1. RedeemOutputs(collateral, owner, rest, change, script) = o
  BY Zenon DEF RedeemOutputs
<1>2. /\ rest > 0 => s = <<b, c>> /\ Len(s) = 2
      /\ ~(rest > 0) => s = <<>> /\ Len(s) = 0
  <2>1. Len(<<b, c>>) = 2 /\ Len(<<>>) = 0
    OBVIOUS
  <2> QED BY <2>1, Zenon
<1>3. /\ change > 0 => t = <<d>> /\ Len(t) = 1
      /\ ~(change > 0) => t = <<>> /\ Len(t) = 0
  <2>1. Len(<<d>>) = 1 /\ Len(<<>>) = 0
    OBVIOUS
  <2> QED BY <2>1, Zenon DEF IfAny
<1>4. r \in Seq(T) /\ s \in Seq(T) /\ t \in Seq(T)
  <2>1. <<a>> \in Seq(T) /\ <<>> \in Seq(T) /\ <<d>> \in Seq(T) /\ <<b, c>> \in Seq(T)
    <3> HIDE DEF a, b, c, d
    <3> QED OBVIOUS
  <2> HIDE DEF T
  <2> QED BY <1>2, <1>3, <2>1, Zenon
<1>5. /\ Len(r) = 1 /\ r[1] = a
      /\ <<b, c>>[1] = b /\ <<b, c>>[2] = c /\ <<d>>[1] = d
  <2> HIDE DEF a, b, c, d
  <2> QED OBVIOUS
<1> HIDE DEF s, t, T, r
<1>6. /\ p \in Seq(T) /\ Len(p) = Len(r) + Len(s)
      /\ \A i \in 1 .. Len(r) : p[i] = r[i]
      /\ \A i \in 1 .. Len(s) : p[Len(r) + i] = s[i]
  BY <1>4, Join, SMTT(30)
<1> HIDE DEF p
<1>7. /\ o \in Seq(T) /\ Len(o) = Len(p) + Len(t)
      /\ \A i \in 1 .. Len(p) : o[i] = p[i]
      /\ \A i \in 1 .. Len(t) : o[Len(p) + i] = t[i]
  <2>1. p \in Seq(T) /\ t \in Seq(T)
    BY <1>4, <1>6, Zenon
  <2> QED BY <2>1, Join, SMTT(30)
<1> HIDE DEF o, a, b, c, d
<1>8. DOMAIN o = 1 .. Len(o) /\ Len(s) \in Nat /\ Len(t) \in Nat
  BY <1>4, <1>7
<1>9. Len(p) = 1 + Len(s) /\ Len(o) = 1 + Len(s) + Len(t) /\ o[1] = a
  <2>1. Len(p) = 1 + Len(s) /\ p[1] = a
    BY <1>5, <1>6, <1>8
  <2> QED BY <1>7, <1>8, <2>1
<1>10. rest > 0 => o[2] = b /\ o[3] = c
  <2>1. rest > 0 => Len(s) = 2 /\ s[1] = b /\ s[2] = c
    BY <1>2, <1>5, Zenon
  <2>2. ASSUME Len(s) = 2, s[1] = b, s[2] = c PROVE o[2] = b /\ o[3] = c
    <3>1. Len(p) = 3 /\ p[2] = b /\ p[3] = c
      BY <1>5, <1>6, <2>2
    <3> QED BY <1>7, <3>1
  <2> QED BY <2>1, <2>2
<1>11. change > 0 => o[Len(o)] = d
  <2>1. change > 0 => Len(t) = 1 /\ t[1] = d
    BY <1>3, <1>5, Zenon
  <2>2. ASSUME Len(t) = 1, t[1] = d PROVE o[Len(o)] = d
    <3>1. 1 \in 1 .. Len(t) /\ Len(p) + 1 = Len(o)
      BY <1>7, <1>8, <1>9, <2>2
    <3> QED BY <1>7, <2>2, <3>1
  <2> QED BY <2>1, <2>2
<1>12. Len(o) = 1 + (IF rest > 0 THEN 2 ELSE 0) + (IF change > 0 THEN 1 ELSE 0)
  <2> DEFINE ls == Len(s)
             lt == Len(t)
  <2>1. /\ (rest > 0 => ls = 2) /\ (~(rest > 0) => ls = 0)
        /\ (change > 0 => lt = 1) /\ (~(change > 0) => lt = 0)
        /\ Len(o) = 1 + ls + lt
    BY <1>2, <1>3, <1>9, Zenon
  <2> HIDE DEF ls, lt
  <2> QED BY <2>1
<1> QED BY <1>1, <1>8, <1>9, <1>10, <1>11, <1>12 DEF RedeemLaid, a, b, c, d

\* What a redemption is made of.
RedeemMade(tx, need, burn, fee) ==
    LET m == Len(burn)
    IN /\ tx.body.version = "redeem" /\ Len(tx.body.ins) = m + 2 /\ DOMAIN tx.body.ins = 1 .. m + 2
       /\ tx.body.ins[1].coin = PositionOf(need) /\ tx.body.ins[1].sats = 5 * Fold
       /\ tx.body.ins[m + 2].coin = fee /\ tx.body.ins[m + 2].sats = fee.sats
       /\ \A i \in 1 .. m : tx.body.ins[i + 1].coin = burn[i] /\ tx.body.ins[i + 1].sats = 0
       /\ InCents(tx) - need \in Nat
       /\ \E change \in Nat :
             RedeemLaid(tx.body.outs, 5 * Fold, Home, InCents(tx) - need, change, Received)

\* A redemption of coins of the position's key that are listed once each and suffice.
LEMMA RedeemIsAccepted ==
    ASSUME NEW need \in Nat \ {0}, NEW D, DdCoins(D), D \subseteq DdOf({Home}), Cents(D) >= need,
           NEW burn, Lists(burn, D), NEW K, NEW fee \in DgbOf(K), fee.sats >= DdFee
    PROVE  LET tx == BuildRedeem(PositionOf(need), burn, fee, DdFee, Received)
           IN /\ Accepted(tx, DdFee, NoLeaf) /\ Conserved(tx, need)
              /\ tx.body.outs[1] = Out(PositionOf(need).sats, P2tr(Home))
              /\ RedeemMade(tx, need, burn, fee)
<1>a. /\ Len(burn) \in Nat /\ DOMAIN burn = 1 .. Len(burn) /\ \A i \in 1 .. Len(burn) : burn[i] \in D
      /\ Distinct(burn, Len(burn)) /\ Elements(burn, Len(burn)) = D
  <2>1. Len(burn) \in Nat /\ DOMAIN burn = 1 .. Len(burn) /\ \A i \in 1 .. Len(burn) : burn[i] \in D
    BY DEF Lists
  <2>2. Distinct(burn, Len(burn))
    BY DEF Lists, Distinct
  <2>3. Elements(burn, Len(burn)) = D
    BY <2>1 DEF Lists, Elements
  <2> QED BY <2>1, <2>2, <2>3
<1>b. Len(burn) # 0
  <2> SUFFICES ASSUME Len(burn) = 0 PROVE FALSE
    OBVIOUS
  <2>1. D = {}
    BY <1>a DEF Elements
  <2>2. Cents(D) = 0
    BY <2>1, CentsAdd
  <2> QED BY <2>2
<1> SUFFICES ASSUME NEW m \in Nat \ {0}, Len(burn) = m, DOMAIN burn = 1 .. m,
                    \A i \in 1 .. m : burn[i] \in D, Distinct(burn, m), Cents(Elements(burn, m)) >= need
             PROVE  LET tx == BuildRedeem(PositionOf(need), burn, fee, DdFee, Received)
                    IN /\ Accepted(tx, DdFee, NoLeaf) /\ Conserved(tx, need)
                       /\ tx.body.outs[1] = Out(PositionOf(need).sats, P2tr(Home))
                       /\ RedeemMade(tx, need, burn, fee)
  <2>1. Len(burn) \in Nat \ {0} /\ Cents(Elements(burn, Len(burn))) >= need
    BY <1>a, <1>b
  <2> QED BY <1>a, <2>1, Zenon
<1> DEFINE position == PositionOf(need)
           lock == CollateralScript(Home, Tip, need)
           rest == CentsIn(burn) - need
           change == Folded(fee.sats - DdFee)
           outs == RedeemOutputs(position.sats, Home, rest, change, Received)
           x == In(position, lock, "cltv")
           y == In(fee, Script(fee.type, fee.key), "final")
           mid == Field(burn, LAMBDA c : In(c, P2tr(Home), "cltv"))
           ins == <<x>> \o mid \o <<y>>
           body == Body("redeem", Tip, ins, outs)
           witness(i) == IF i = 1 THEN LeafPath(body, 1, Home, Tip, need)
                         ELSE IF i = Len(body.ins) THEN CoinWitness(body, i, fee)
                         ELSE KeySpend(body, i, Home)
           tx == [body |-> body, witnesses |-> [i \in 1 .. Len(body.ins) |-> witness(i)]]
           n == Len(outs)
<1>1. /\ position.sats = 5 * Fold /\ position.cents = need /\ position.lock = Tip
      /\ LockOf(position) = lock /\ SatsOf(position) = 5 * Fold
      /\ "sats" \in DOMAIN position /\ "script" \in DOMAIN position
  <2>1. /\ position.sats = 5 * Fold /\ position.cents = need /\ position.lock = Tip /\ position.script = lock
        /\ "sats" \in DOMAIN position /\ "script" \in DOMAIN position
    BY DEF PositionOf
  <2> HIDE DEF position, lock
  <2> QED BY <2>1, Zenon DEF LockOf, SatsOf
<1> HIDE DEF position, lock
<1>2. ASSUME NEW i \in 1 .. m
      PROVE  /\ burn[i] \in DdOf({Home}) /\ burn[i].key = Home /\ burn[i].cents \in Nat
             /\ LockOf(burn[i]) = P2tr(Home) /\ SatsOf(burn[i]) = 0
             /\ "cents" \in DOMAIN burn[i] /\ "sats" \notin DOMAIN burn[i] /\ "script" \notin DOMAIN burn[i]
  <2>1. burn[i] \in DdOf({Home})
    OBVIOUS
  <2>2. burn[i].key = Home /\ burn[i].cents \in Nat /\ "script" \notin DOMAIN burn[i]
    BY <2>1 DEF DdOf
  <2>3. /\ LockOf(burn[i]) = P2tr(burn[i].key) /\ SatsOf(burn[i]) = 0
        /\ "cents" \in DOMAIN burn[i] /\ "sats" \notin DOMAIN burn[i]
    BY <2>1, HonestCoins
  <2> QED BY <2>1, <2>2, <2>3, Zenon
<1>3. CentsIn(burn) = Cents(Elements(burn, m)) /\ CentsIn(burn) \in Nat /\ rest \in Nat
  <2>1. CentsIn(burn) = Cents(Elements(burn, m))
    BY CentsListed
  <2>2. Elements(burn, m) \in SUBSET D
    BY DEF Elements
  <2>3. Cents(Elements(burn, m)) \in Nat
    BY <2>2, CentsMore
  <2> QED BY <2>1, <2>3
<1>4. fee.sats \in Nat /\ fee.sats - DdFee \in Nat
  BY Units DEF DgbOf
<1>5. /\ change \in Nat /\ fee.sats - DdFee - change \in 0 .. Fold - 1
      /\ change > 0 => change >= Fold
  BY <1>4, FoldedIs
<1>6. burn[1].key = Home
  <2>1. 1 \in 1 .. m
    OBVIOUS
  <2> QED BY <1>2, <2>1
<1>7. BuildRedeem(PositionOf(need), burn, fee, DdFee, Received) = tx
  <2>1. ~(DdFee < MinDdFee \/ rest < 0 \/ fee.sats < DdFee)
    <3>1. ~(DdFee < MinDdFee)
      BY SMT DEF DdFee, MinDdFee
    <3> QED BY <1>3, <1>4, <3>1, Units
  <2> DEFINE Built(owner, until, cents, sats, left) ==
               LET b == Body("redeem", until,
                             <<In(position, CollateralScript(owner, until, cents), "cltv")>>
                             \o Field(burn, LAMBDA c : In(c, P2tr(owner), "cltv")) \o <<y>>,
                             RedeemOutputs(sats, owner, left, change, Received))
                   w(i) == IF i = 1 THEN LeafPath(b, 1, owner, until, cents)
                           ELSE IF i = Len(b.ins) THEN CoinWitness(b, i, fee)
                           ELSE KeySpend(b, i, owner)
               IN [body |-> b, witnesses |-> [i \in 1 .. Len(b.ins) |-> w(i)]]
  <2>2. BuildRedeem(position, burn, fee, DdFee, Received)
        = IF DdFee < MinDdFee \/ CentsIn(burn) - position.cents < 0 \/ fee.sats < DdFee THEN NoTx
          ELSE Built(burn[1].key, position.lock, position.cents, position.sats, CentsIn(burn) - position.cents)
    BY Zenon DEF BuildRedeem, Body
  <2>3. Built(Home, Tip, need, position.sats, rest) = tx
    BY Zenon DEF lock
  <2> HIDE DEF Built, tx, rest
  <2>4. rest = CentsIn(burn) - position.cents
    BY <1>1 DEF rest
  <2>5. BuildRedeem(position, burn, fee, DdFee, Received) = Built(Home, Tip, need, position.sats, rest)
    BY <1>1, <1>6, <2>1, <2>2, <2>4, Zenon
  <2> QED BY <2>3, <2>5, Zenon DEF position
<1>8. /\ x.coin = position /\ x.sats = 5 * Fold /\ x.script = lock /\ x.sequence = "cltv"
      /\ x = In(x.coin, LockOf(x.coin), x.sequence)
  BY <1>1, HonestInputs
<1>9. /\ y.coin = fee /\ y.sats = fee.sats /\ y.script = Script(fee.type, fee.key)
      /\ y = In(y.coin, LockOf(y.coin), y.sequence)
  <2>1. LockOf(fee) = Script(fee.type, fee.key) /\ SatsOf(fee) = fee.sats
    BY HonestCoins
  <2> QED BY <2>1, HonestInputs
<1>10. mid = [i \in 1 .. m |-> In(burn[i], P2tr(Home), "cltv")]
  BY Zenon DEF Field
<1> HIDE DEF x, y, mid
<1>11. ASSUME NEW i \in 1 .. m
       PROVE  /\ mid[i].coin = burn[i] /\ mid[i].sats = 0 /\ mid[i].script = P2tr(Home)
              /\ mid[i] = In(mid[i].coin, LockOf(mid[i].coin), mid[i].sequence)
  <2>1. mid[i] = In(burn[i], P2tr(Home), "cltv")
    BY <1>10
  <2>2. LockOf(burn[i]) = P2tr(Home) /\ SatsOf(burn[i]) = 0
    BY <1>2
  <2> DEFINE z == In(burn[i], P2tr(Home), "cltv")
  <2>3. /\ z.coin = burn[i] /\ z.sats = SatsOf(burn[i]) /\ z.script = P2tr(Home)
        /\ z = In(z.coin, LockOf(z.coin), z.sequence)
    BY <2>2, HonestInputs
  <2> HIDE DEF z
  <2> QED BY <2>1, <2>2, <2>3 DEF z
<1>12. /\ ins = [i \in 1 .. Len(ins) |-> ins[i]] /\ DOMAIN ins = 1 .. Len(ins) /\ Len(ins) = m + 2
       /\ ins[1] = x /\ ins[m + 2] = y
       /\ \A i \in 1 .. m : ins[i + 1] = mid[i]
  <2>1. mid = [i \in 1 .. m |-> mid[i]]
    BY <1>10
  <2> QED BY <2>1, Sandwich, SMTT(30)
<1> HIDE DEF ins
<1>13. \A i \in 1 .. m + 2 : \/ (i = 1 /\ ins[i] = x)
                            \/ (i = m + 2 /\ ins[i] = y)
                            \/ (i - 1 \in 1 .. m /\ i # 1 /\ i # m + 2 /\ ins[i] = mid[i - 1])
  <2> SUFFICES ASSUME NEW i \in 1 .. m + 2, i # 1, i # m + 2
               PROVE  i - 1 \in 1 .. m /\ ins[i] = mid[i - 1]
    BY <1>12
  <2>1. i - 1 \in 1 .. m /\ i - 1 + 1 = i
    OBVIOUS
  <2> QED BY <1>12, <2>1
<1>14. Honest(ins)
  <2>1. \A i \in 1 .. m + 2 : ins[i] = In(ins[i].coin, LockOf(ins[i].coin), ins[i].sequence)
    BY <1>8, <1>9, <1>11, <1>13
  <2> QED BY <1>12, <2>1 DEF Honest
<1>15. ASSUME NEW i \in 1 .. m + 2 PROVE Unlocks(body, i, witness(i))
  <2>1. i \in 1 .. Len(ins) /\ body.ins = ins
    <3> HIDE DEF outs
    <3> QED BY <1>12 DEF Body
  <2>2. CASE i = 1
    <3>1. /\ ins[i].script = CollateralScript(Home, Tip, need) /\ ins[i].sequence # "final" /\ Tip >= Tip
      <4>1. ins[i] = x
        BY <1>12, <2>2
      <4>2. Tip >= Tip
        BY TxBuildAssumption
      <4>3. "cltv" # "final"
        OBVIOUS
      <4> QED BY <1>8, <4>1, <4>2, <4>3, Zenon DEF lock
    <3>2. Unlocks(body, i, LeafPath(body, i, Home, Tip, need))
      <4> HIDE DEF outs
      <4> QED BY <1>14, <2>1, <3>1, Opens, Zenon
    <3> HIDE DEF body
    <3> QED BY <2>2, <3>2, Zenon
  <2>3. CASE i = m + 2
    <3>1. ins[i].script = Script(fee.type, fee.key)
      BY <1>9, <1>12, <2>3
    <3>2. Unlocks(body, i, CoinWitness(body, i, fee))
      <4> HIDE DEF outs
      <4> QED BY <1>14, <2>1, <3>1, CoinOpens, Zenon
    <3>3. i # 1 /\ i = Len(body.ins)
      <4>1. i # 1
        BY <2>3
      <4> QED BY <1>12, <2>1, <2>3, <4>1, Zenon
    <3> HIDE DEF body
    <3> QED BY <3>2, <3>3, Zenon
  <2>4. CASE i # 1 /\ i # m + 2
    <3>1. ins[i].script = P2tr(Home)
      BY <1>11, <1>13, <2>4
    <3>2. Unlocks(body, i, KeySpend(body, i, Home))
      <4> HIDE DEF outs
      <4> QED BY <1>14, <2>1, <3>1, Opens, Zenon
    <3>3. i # Len(body.ins)
      BY <1>12, <2>1, <2>4, Zenon
    <3> HIDE DEF body
    <3> QED BY <2>4, <3>2, <3>3, Zenon
  <2> QED BY <2>2, <2>3, <2>4
<1>16. /\ tx.body = body /\ body.ins = ins /\ body.outs = outs /\ body.version = "redeem"
       /\ \A i \in 1 .. Len(ins) : tx.witnesses[i] = witness(i)
  <2>1. body.ins = ins /\ body.outs = outs /\ body.version = "redeem"
    <3> HIDE DEF outs
    <3> QED BY DEF Body
  <2> HIDE DEF body
  <2>2. \A i \in 1 .. Len(body.ins) : tx.witnesses[i] = witness(i)
    <3> HIDE DEF witness
    <3> QED OBVIOUS
  <2> QED BY <2>1, <2>2
<1>17. tx # NoTx
  <2> HIDE DEF body, witness
  <2>1. DOMAIN tx = {"body", "witnesses"} /\ DOMAIN NoTx = {"refused"}
    BY DEF NoTx
  <2> QED BY <2>1, Zenon
<1>18. RedeemLaid(outs, position.sats, Home, rest, change, Received)
  <2> HIDE DEF rest, change
  <2> QED BY <1>3, <1>5, RedeemLays
<1> HIDE DEF body, tx, outs, witness
<1>19. /\ DOMAIN outs = 1 .. n /\ n = 1 + (IF rest > 0 THEN 2 ELSE 0) + (IF change > 0 THEN 1 ELSE 0)
       /\ outs[1] = Out(position.sats, P2tr(Home))
       /\ outs[1].sats = 5 * Fold /\ outs[1].script.shape = "p2tr"
       /\ rest > 0 => /\ outs[2].sats = 0 /\ outs[2].script.shape = "p2tr"
                      /\ outs[3].sats = 0 /\ outs[3].script.shape = "data" /\ outs[3].script.data = <<rest>>
       /\ change > 0 => outs[n].sats = change /\ outs[n].script.shape = "p2tr"
  <2> HIDE DEF rest, change
  <2>1. /\ DOMAIN outs = 1 .. n /\ n = 1 + (IF rest > 0 THEN 2 ELSE 0) + (IF change > 0 THEN 1 ELSE 0)
        /\ outs[1] = Out(position.sats, P2tr(Home))
        /\ rest > 0 => outs[2] = Out(0, P2tr(Home)) /\ outs[3] = Out(0, Data(<<rest>>))
        /\ change > 0 => outs[n] = Out(change, Received)
    BY <1>18, Zenon DEF RedeemLaid
  <2>2. outs[1].sats = 5 * Fold /\ outs[1].script.shape = "p2tr"
    BY <1>1, <2>1 DEF Out, P2tr, Script
  <2>3. rest > 0 => outs[2].sats = 0 /\ outs[2].script.shape = "p2tr"
    BY <2>1 DEF Out, P2tr, Script
  <2>4. rest > 0 => outs[3].sats = 0 /\ outs[3].script.shape = "data" /\ outs[3].script.data = <<rest>>
    BY <2>1 DEF Out, Data, Script
  <2>5. change > 0 => outs[n].sats = change /\ outs[n].script.shape = "p2tr"
    BY <2>1 DEF Out, Received, P2tr, Script
  <2> QED BY <2>1, <2>2, <2>3, <2>4, <2>5
<1> HIDE DEF rest, change
<1>20. n \in Nat /\ n >= 1 /\ \A i \in 1 .. n : i = 1 \/ (i \in {2, 3} /\ rest > 0) \/ (i = n /\ change > 0)
  BY <1>3, <1>5, <1>19
<1>21. /\ Metadata(tx) = {i \in 1 .. n : outs[i].script.shape = "data"}
       /\ Tokens(tx) = {i \in 1 .. n : outs[i].sats = 0 /\ outs[i].script.shape = "p2tr"}
       /\ AmountsOf(tx) = IF Metadata(tx) = {} THEN <<>> ELSE outs[Min(Metadata(tx))].script.data
  BY <1>16, Zenon DEF Metadata, Tokens, AmountsOf
<1>22. OutCents(tx) = rest /\ Cardinality(Metadata(tx)) <= 1 /\ Len(AmountsOf(tx)) = Cardinality(Tokens(tx))
  <2>0. OutCents(tx) = Total(AmountsOf(tx)) /\ 5 * Fold > 0 /\ rest \in Int
    BY <1>3, Units DEF OutCents
  <2>1. CASE rest > 0
    <3>1. 2 \in 1 .. n /\ 3 \in 1 .. n
      BY <1>5, <1>19, <2>1
    <3>2. {i \in 1 .. n : outs[i].script.shape = "data"} = {3}
      BY <1>19, <1>20, <2>1, <3>1
    <3>3. {i \in 1 .. n : outs[i].sats = 0 /\ outs[i].script.shape = "p2tr"} = {2}
      <4>1. ASSUME NEW i \in 1 .. n
            PROVE  outs[i].sats = 0 /\ outs[i].script.shape = "p2tr" <=> i = 2
        <5>1. CASE i = 1
          BY <1>19, <2>0, <5>1
        <5>2. CASE i \in {2, 3}
          BY <1>19, <2>1, <5>2
        <5>3. CASE i = n /\ change > 0 /\ i \notin {1, 2, 3}
          BY <1>5, <1>19, <5>3
        <5> QED BY <1>20, <5>1, <5>2, <5>3
      <4> HIDE DEF n
      <4> QED BY <3>1, <4>1
    <3>4. Metadata(tx) = {3} /\ Tokens(tx) = {2}
      BY <1>21, <3>2, <3>3, Zenon
    <3>5. Min({3}) = 3 /\ Cardinality({3}) = 1 /\ Cardinality({2}) = 1
      BY LastIs
    <3>6. AmountsOf(tx) = <<rest>>
      <4>1. {3} # {}
        OBVIOUS
      <4> QED BY <1>19, <1>21, <2>1, <3>4, <3>5, <4>1, Zenon
    <3>7. Total(<<rest>>) = rest /\ Len(<<rest>>) = 1
      BY <2>0, TotalOfFew
    <3>8. Cardinality(Metadata(tx)) = 1 /\ Cardinality(Tokens(tx)) = 1
      BY <3>4, <3>5, Zenon
    <3>9. OutCents(tx) = rest /\ Len(AmountsOf(tx)) = 1
      BY <2>0, <3>6, <3>7, Zenon
    <3> QED BY <3>8, <3>9
  <2>2. CASE ~(rest > 0)
    <3>1. \A i \in 1 .. n : i = 1 \/ (i = n /\ change > 0)
      BY <1>20, <2>2
    <3>2. {i \in 1 .. n : outs[i].script.shape = "data"} = {}
      BY <1>19, <3>1
    <3>3. {i \in 1 .. n : outs[i].sats = 0 /\ outs[i].script.shape = "p2tr"} = {}
      <4>1. ASSUME NEW i \in 1 .. n PROVE ~(outs[i].sats = 0)
        <5>1. CASE i = 1
          BY <1>19, <2>0, <5>1
        <5>2. CASE i = n /\ change > 0
          BY <1>19, <5>2
        <5> QED BY <3>1, <5>1, <5>2
      <4> QED BY <4>1
    <3>4. Metadata(tx) = {} /\ Tokens(tx) = {} /\ AmountsOf(tx) = <<>>
      BY <1>21, <3>2, <3>3, Zenon
    <3>5. Total(<<>>) = 0 /\ Len(<<>>) = 0
      BY <2>0, TotalOfFew
    <3>6. Cardinality({}) = 0
      BY FS_EmptySet
    <3>7. OutCents(tx) = 0 /\ Len(AmountsOf(tx)) = 0 /\ Cardinality(Metadata(tx)) = 0 /\ Cardinality(Tokens(tx)) = 0
      BY <2>0, <3>4, <3>5, <3>6, Zenon
    <3>8. rest = 0
      BY <1>3, <2>2
    <3> QED BY <3>7, <3>8
  <2> QED BY <2>1, <2>2
<1>23. InCents(tx) = CentsIn(burn)
  <2>1. CoinsSpent(tx) = {ins[i].coin : i \in 1 .. m + 2}
    BY <1>12, <1>16, Zenon DEF CoinsSpent
  <2> DEFINE dollars == {c \in CoinsSpent(tx) : "cents" \in DOMAIN c /\ "sats" \notin DOMAIN c}
  <2>2. ASSUME NEW c \in dollars PROVE c \in Elements(burn, m)
    <3>1. PICK i \in 1 .. m + 2 : c = ins[i].coin
      BY <2>1
    <3>2. "sats" \in DOMAIN fee
      BY HonestCoins
    <3>3. i # 1
      BY <1>1, <1>8, <1>12, <3>1
    <3>4. i # m + 2
      BY <1>9, <1>12, <3>1, <3>2
    <3>5. i - 1 \in 1 .. m /\ c = burn[i - 1]
      BY <1>11, <1>13, <3>1, <3>3, <3>4
    <3> QED BY <3>5 DEF Elements
  <2>3. ASSUME NEW c \in Elements(burn, m) PROVE c \in dollars
    <3>1. PICK i \in 1 .. m : c = burn[i]
      BY DEF Elements
    <3>2. i + 1 \in 1 .. m + 2 /\ ins[i + 1].coin = c
      BY <1>11, <1>12, <3>1
    <3>3. "cents" \in DOMAIN c /\ "sats" \notin DOMAIN c
      BY <1>2, <3>1
    <3> QED BY <2>1, <3>2, <3>3
  <2>4. dollars = Elements(burn, m)
    <3> HIDE DEF dollars
    <3> QED BY <2>2, <2>3, Zenon
  <2>5. InCents(tx) = Cents(dollars)
    BY Zenon DEF InCents
  <2> HIDE DEF dollars
  <2> QED BY <1>3, <2>4, <2>5, Zenon
<1>24. Conserved(tx, need)
  <2>1. CentsIn(burn) = rest + need
    BY <1>3 DEF rest
  <2> QED BY <1>22, <1>23, <2>1, Zenon DEF Conserved
<1>25. SatsIn(ins) = 5 * Fold + fee.sats
  <2>1. ins[1].sats = 5 * Fold /\ ins[m + 2].sats = fee.sats /\ \A i \in 1 .. m : ins[i + 1].sats = 0
    BY <1>8, <1>9, <1>11, <1>12
  <2>2. ins[1].sats \in Int /\ ins[m + 2].sats \in Int /\ m \in Nat
    BY <1>4, <2>1, Units
  <2>3. Len(ins) = m + 2 /\ DOMAIN ins = 1 .. m + 2
    BY <1>12
  <2>4. SatsIn(ins) = ins[1].sats + ins[m + 2].sats
    BY <2>1, <2>2, <2>3, SatsOutside
  <2> QED BY <2>1, <2>4
<1>26. SatsIn(outs) = 5 * Fold + change
  <2>0. 5 * Fold \in Int
    BY Units
  <2>1. \A i \in 1 .. n : outs[i].sats \in Int
    BY <1>5, <1>19, <1>20, <2>0
  <2>2. /\ n = 1 => SatsIn(outs) = outs[1].sats
        /\ n = 2 => SatsIn(outs) = outs[1].sats + outs[2].sats
        /\ n = 3 => SatsIn(outs) = outs[1].sats + outs[2].sats + outs[3].sats
        /\ n = 4 => SatsIn(outs) = outs[1].sats + outs[2].sats + outs[3].sats + outs[4].sats
    BY <1>19, <1>20, <2>1, SatsOfFew
  <2> DEFINE five == 5 * Fold
  <2>3. five \in Int /\ outs[1].sats = five
    BY <1>19, <2>0
  <2> HIDE DEF n, five
  <2>4. SatsIn(outs) = five + change
    BY <1>3, <1>5, <1>19, <2>2, <2>3
  <2> QED BY <2>4 DEF five
<1>27. \A i, j \in 1 .. Len(ins) : ins[i].coin = ins[j].coin => i = j
  <2>1. position # fee /\ \A i \in 1 .. m : burn[i] # position /\ burn[i] # fee
    <3>1. "script" \notin DOMAIN fee /\ "sats" \in DOMAIN fee
      BY DEF DgbOf
    <3> QED BY <1>1, <1>2, <3>1
  <2>2. ASSUME NEW i \in 1 .. m + 2, NEW j \in 1 .. m + 2, i < j PROVE ins[i].coin # ins[j].coin
    <3>1. CASE i = 1 /\ j = m + 2
      BY <1>8, <1>9, <1>12, <2>1, <3>1
    <3>2. CASE i = 1 /\ j # m + 2
      <4>1. j - 1 \in 1 .. m /\ ins[j].coin = burn[j - 1]
        BY <1>11, <1>13, <2>2, <3>2
      <4> QED BY <1>8, <1>12, <2>1, <3>2, <4>1
    <3>3. CASE i # 1 /\ j = m + 2
      <4>1. i - 1 \in 1 .. m /\ ins[i].coin = burn[i - 1]
        BY <1>11, <1>13, <2>2, <3>3
      <4> QED BY <1>9, <1>12, <2>1, <3>3, <4>1
    <3>4. CASE i # 1 /\ j # m + 2
      <4>1. /\ i - 1 \in 1 .. m /\ ins[i].coin = burn[i - 1]
            /\ j - 1 \in 1 .. m /\ ins[j].coin = burn[j - 1] /\ i - 1 # j - 1
        BY <1>11, <1>13, <2>2, <3>4
      <4> QED BY <4>1 DEF Distinct
    <3> QED BY <3>1, <3>2, <3>3, <3>4
  <2> SUFFICES ASSUME NEW i \in 1 .. Len(ins), NEW j \in 1 .. Len(ins), i # j
               PROVE  ins[i].coin # ins[j].coin
    OBVIOUS
  <2>3. i \in 1 .. m + 2 /\ j \in 1 .. m + 2 /\ (i < j \/ j < i)
    BY <1>12
  <2> QED BY <2>2, <2>3
<1>28. \A i \in 1 .. Len(ins) : Unlocks(body, i, tx.witnesses[i])
  BY <1>12, <1>15, <1>16
<1>29. \A i \in 1 .. n : outs[i].sats >= Fold \/ outs[i].sats = 0
  <2>1. 5 * Fold >= Fold
    BY Units
  <2> QED BY <1>5, <1>19, <1>20, <2>1
<1>30. SatsIn(ins) - SatsIn(outs) \in DdFee .. DdFee + Fold - 1
  <2> DEFINE five == 5 * Fold
  <2>1. five \in Int /\ SatsIn(ins) = five + fee.sats /\ SatsIn(outs) = five + change
    BY <1>25, <1>26, Units
  <2> HIDE DEF five
  <2> DEFINE brought == five + fee.sats
  <2>2. /\ brought \in Int /\ DdFee \in Int /\ change \in Int /\ Fold \in Int
        /\ brought - five - DdFee - change \in 0 .. Fold - 1
    <3>1. fee.sats \in Int /\ DdFee \in Int /\ change \in Int /\ Fold \in Int
      BY <1>4, <1>5, Units
    <3>2. fee.sats - DdFee - change \in 0 .. Fold - 1
      BY <1>5
    <3> QED BY <2>1, <3>1, <3>2
  <2> HIDE DEF brought
  <2>3. brought - (five + change) \in DdFee .. DdFee + Fold - 1
    BY <2>1, <2>2, LeftFor, Zenon
  <2> QED BY <2>1, <2>3, Zenon DEF brought
<1>31. Accepted(tx, DdFee, NoLeaf)
  <2>1. body.version # "plain"
    BY <1>16
  <2> QED BY <1>16, <1>17, <1>27, <1>28, <1>29, <1>30, <2>1, Zenon DEF Accepted
<1>32. tx.body.outs[1] = Out(PositionOf(need).sats, P2tr(Home))
  <2>1. position = PositionOf(need)
    BY DEF position
  <2> QED BY <1>16, <1>19, <2>1, Zenon
<1>33. RedeemMade(tx, need, burn, fee)
  <2>1. InCents(tx) - need = rest
    BY <1>23, Zenon DEF rest
  <2>2. RedeemLaid(outs, 5 * Fold, Home, rest, change, Received)
    BY <1>1, <1>18, Zenon
  <2>3. /\ ins[1].coin = position /\ ins[1].sats = 5 * Fold
        /\ ins[m + 2].coin = fee /\ ins[m + 2].sats = fee.sats
        /\ \A i \in 1 .. m : ins[i + 1].coin = burn[i] /\ ins[i + 1].sats = 0
        /\ Len(ins) = m + 2 /\ DOMAIN ins = 1 .. m + 2
    BY <1>8, <1>9, <1>11, <1>12
  <2>4. position = PositionOf(need)
    BY DEF position
  <2> QED BY <1>3, <1>5, <1>16, <2>1, <2>2, <2>3, <2>4, Zenon DEF RedeemMade
<1> QED BY <1>7, <1>24, <1>31, <1>32, <1>33, Zenon

LEMMA MintIsBuilt ==
    ASSUME NEW K, NEW S, Coins(S), S \subseteq DgbOf(K), NEW collateral \in Amounts, NEW owner,
           NEW p, p = PlanMint(S, collateral), p # NoPlan
    PROVE  /\ p.coin \in S
           /\ MintSound(ConfirmedMint(p, 100, owner), 100)
           /\ MintMade(ConfirmedMint(p, 100, owner), p.coin, owner, 100, collateral)
<1> DEFINE fitting == {c \in S : c.type # "p2wpkh" /\ c.sats >= collateral + DdFee}
           coin == Smallest(fitting)
<1>1. collateral \in Nat \ {0} /\ 100 \in Nat
  BY TxPlanAssumption
<1>2. fitting # {} /\ p.coin = coin /\ p.collateral = collateral
  <2>1. fitting # {} /\ p = [coin |-> coin, collateral |-> collateral,
                             change |-> Folded(coin.sats - collateral - DdFee)]
    BY Zenon DEF PlanMint
  <2> HIDE DEF coin
  <2> QED BY <2>1
<1>3. coin \in fitting
  <2>1. \A c \in fitting : c.sats \in Nat
    BY DEF Coins
  <2> HIDE DEF fitting
  <2> QED BY <1>2, <2>1, SmallestOf
<1>4. coin \in S /\ coin \in DgbOf(K) /\ coin.type # "p2wpkh" /\ coin.sats >= collateral + DdFee
  BY <1>3
<1> HIDE DEF coin
<1>5. /\ MintSound(BuildMint(coin, owner, 100, collateral, DdFee), 100)
      /\ MintMade(BuildMint(coin, owner, 100, collateral, DdFee), coin, owner, 100, collateral)
  BY <1>1, <1>4, MintIsSound
<1> QED BY <1>2, <1>4, <1>5, Zenon DEF ConfirmedMint

\* A mint that is planned is signed so, too: one position, one token of its cents, and
\* only the collateral looks like it.
THEOREM MintsAreBuilt ==
    ASSUME NEW K, NEW S, Coins(S), S \subseteq DgbOf(K)
    PROVE  MintsBuilt(S)
<1> SUFFICES ASSUME NEW collateral \in Amounts, NEW owner \in {Home, Payee},
                    NEW p, p = PlanMint(S, collateral), p # NoPlan
             PROVE  MintSound(ConfirmedMint(p, 100, owner), 100)
  BY Zenon DEF MintsBuilt
<1> QED BY MintIsBuilt, Zenon

LEMMA TransferIsBuilt ==
    ASSUME NEW K, NEW S, Coins(S), S \subseteq DgbOf(K), NEW D, DdCoins(D), D \subseteq DdOf(K),
           \A c \in D : c.key # Payee,
           NEW cents \in Needs, cents >= MinDd, NEW p, p = PlanTransfer(S, D, cents), p # NoPlan
    PROVE  /\ p.coin \in D /\ p.fee \in S /\ p.coin.cents >= cents
           /\ TransferSound(ConfirmedTransfer(p), Payee, cents)
           /\ TransferMade(ConfirmedTransfer(p), p.coin, p.fee, Payee, cents)
<1> DEFINE fitting == {c \in D : c.cents >= cents /\ LegalDd(c.cents - cents)}
           coin == CHOOSE c \in fitting : \A d \in fitting : c.cents <= d.cents
           fee == PickFee(S, coin.key)
<1>1. cents \in Nat /\ (\A c \in D : c.cents \in Nat) /\ (\A c \in S : c.sats \in Nat)
  BY TxPlanAssumption DEF Coins, DdCoins
<1>2. fitting # {} /\ fee # NoCoin /\ p.coin = coin /\ p.cents = cents /\ p.fee = fee
  <2>1. fitting # {} /\ fee # NoCoin /\ p = [coin |-> coin, cents |-> cents, fee |-> fee]
    BY Zenon DEF PlanTransfer
  <2> HIDE DEF coin, fee
  <2> QED BY <2>1
<1>3. coin \in fitting
  <2> DEFINE T == {c.cents : c \in fitting}
  <2>1. T \subseteq Nat /\ T # {}
    BY <1>1, <1>2
  <2>2. PICK m \in T : \A n \in T : m <= n
    <3> HIDE DEF T
    <3> QED BY <2>1, NatLeast
  <2>3. \E c \in fitting : \A d \in fitting : c.cents <= d.cents
    BY <2>2
  <2> HIDE DEF fitting
  <2> QED BY <2>3
<1>4. /\ coin \in D /\ coin \in DdOf(K) /\ coin.key # Payee
      /\ coin.cents >= cents /\ LegalDd(coin.cents - cents)
  BY <1>3
<1> HIDE DEF coin
<1>5. fee \in S /\ fee \in DgbOf(K) /\ fee.sats >= DdFee
  <2>1. fee \in S /\ fee.sats >= DdFee
    BY <1>1, <1>2, FeeCoins
  <2> QED BY <2>1
<1> HIDE DEF fee
<1>6. /\ TransferSound(BuildTransfer(coin, fee, Payee, cents, DdFee, P2tr(coin.key)), Payee, cents)
      /\ TransferMade(BuildTransfer(coin, fee, Payee, cents, DdFee, P2tr(coin.key)), coin, fee, Payee, cents)
  BY <1>1, <1>4, <1>5, TransferIsSound
<1> QED BY <1>2, <1>4, <1>5, <1>6, Zenon DEF ConfirmedTransfer

\* A transfer that is planned gives the receiver the cents that were asked for, keeps the
\* rest for its sender, and says so in its metadata, output by output.
THEOREM TransfersAreBuilt ==
    ASSUME NEW K, NEW S, Coins(S), S \subseteq DgbOf(K), NEW D, DdCoins(D), D \subseteq DdOf(K),
           \A c \in D : c.key # Payee
    PROVE  TransfersBuilt(S, D)
<1> SUFFICES ASSUME NEW cents \in Needs, cents >= MinDd,
                    NEW p, p = PlanTransfer(S, D, cents), p # NoPlan
             PROVE  TransferSound(ConfirmedTransfer(p), Payee, cents)
  BY Zenon DEF TransfersBuilt
<1> QED BY TransferIsBuilt, Zenon

\* A planned redemption: its burn, its legs and its fees.
LEMMA RedeemPlanned ==
    ASSUME NEW S, Coins(S), NEW D, DdCoins(D), NEW need \in Nat \ {0},
           NEW p, p = PlanRedeem(S, D, need, NoCap), p # NoPlan
    PROVE  /\ p.burn \subseteq Own(D)
           /\ p.legs \in Seq(LegOf(Others(D))) /\ LegalLegs(p.legs, NoCap)
           /\ Cents(p.burn) + Cents(Legs(p.legs)) >= need
           /\ \A k \in 1 .. Len(p.legs) : p.fees[k] \in S /\ p.fees[k].sats >= DdFee
           /\ p.fee # NoCoin => p.fee \in S /\ p.fee.sats >= DdFee
<1> DEFINE burn == Burned(D, need)
           gather == Completed(D, need, NoCap)
           legs == gather.legs
           n == Len(legs)
           fees == LegFees(S, legs)
           taken == {fees[i] : i \in 1 .. Len(fees)}
           fee == PickFee(S \ taken, IF burn = {} THEN "none" ELSE Home)
           change == \E c \in taken : c.sats - DdFee >= DdFee
<1>1. NoCap \in Nat
  BY DEF NoCap
<1>2. PlanRedeem(S, D, need, NoCap)
      = IF Cents(D) < need \/ gather = NoPlan THEN NoPlan
        ELSE IF NoCoin \in taken \/ (fee = NoCoin /\ ~change) THEN NoPlan
        ELSE [burn |-> burn, legs |-> legs, fees |-> fees, fee |-> fee]
  BY RedeemsAre
<1>3. gather # NoPlan /\ NoCoin \notin taken /\ p = [burn |-> burn, legs |-> legs, fees |-> fees, fee |-> fee]
  <2> HIDE DEF burn, gather, legs, fees, taken, fee, change
  <2> QED BY <1>2
<1>4. p.burn = burn /\ p.legs = legs /\ p.fees = fees /\ p.fee = fee
  <2> HIDE DEF burn, gather, legs, fees, taken, fee, change
  <2> QED BY <1>3
<1>5. /\ burn \subseteq Own(D) /\ legs \in Seq(LegOf(Others(D))) /\ LegalLegs(legs, NoCap)
      /\ Cents(burn) + Cents(Legs(legs)) >= need
  BY <1>1, <1>3, Completes
<1> HIDE DEF burn, gather, legs
<1>6. Paid(fees, n, S) /\ n \in Nat
  BY <1>5, FeesPaid
<1> HIDE DEF fees
<1>7. Len(fees) = n /\ \A k \in 1 .. n : fees[k] # NoCoin
  <2>1. Len(fees) = n
    BY <1>6 DEF Paid
  <2> HIDE DEF n
  <2> QED BY <1>3, <2>1
<1>8. \A k \in 1 .. n : fees[k] \in S /\ fees[k].sats >= DdFee
  BY <1>6, <1>7 DEF Paid
<1>9. fee # NoCoin => fee \in S /\ fee.sats >= DdFee
  <2>1. \A c \in S \ taken : c.sats \in Nat
    BY DEF Coins
  <2> HIDE DEF taken
  <2> QED BY <2>1, FeeCoins
<1> HIDE DEF fee, n, taken, change
<1>10. \A k \in 1 .. Len(p.legs) : p.fees[k] \in S /\ p.fees[k].sats >= DdFee
  BY <1>4, <1>8 DEF n
<1> QED BY <1>4, <1>5, <1>9, <1>10

\* What the legs move arrives as coins of the position's key.
LEMMA ReachedIs ==
    ASSUME NEW D, NEW p, p.legs \in Seq(LegOf(D)), LegalLegs(p.legs, NoCap)
    PROVE  /\ DdCoins(Reached(p)) /\ Reached(p) \subseteq DdOf({Home}) /\ \A c \in Reached(p) : c.copy < 0
           /\ Cents(Reached(p)) = Cents(Legs(p.legs))
<1> DEFINE legs == p.legs
           n == Len(legs)
           r == [i \in 1 .. n |-> [cents |-> legs[i].cents, key |-> Home, copy |-> -i]]
<1>1. n \in Nat /\ DOMAIN legs = 1 .. n /\ \A i \in 1 .. n : legs[i] \in LegOf(D) /\ legs[i].cents \in Nat
  <2>1. legs \in Seq(LegOf(D))
    OBVIOUS
  <2> HIDE DEF legs
  <2>2. n \in Nat /\ DOMAIN legs = 1 .. n /\ \A i \in 1 .. n : legs[i] \in LegOf(D)
    BY <2>1
  <2> QED BY <2>2 DEF LegOf
<1>2. Reached(p) = Elements(r, n)
  <2>1. \A i \in 1 .. n : r[i] = [cents |-> legs[i].cents, key |-> Home, copy |-> -i]
    OBVIOUS
  <2> HIDE DEF r
  <2> QED BY <2>1 DEF Reached, Elements
<1>3. /\ Len(r) = n /\ DOMAIN r = 1 .. n
      /\ \A i \in 1 .. n : r[i].cents = legs[i].cents /\ r[i] \in DdOf({Home}) /\ r[i].copy = -i
  BY <1>1 DEF DdOf
<1> HIDE DEF r
<1>4. Distinct(r, n) /\ Distinct(legs, n)
  <2>1. Distinct(r, n)
    BY <1>1, <1>3 DEF Distinct
  <2>2. Distinct(legs, n)
    BY DEF Distinct, LegalLegs
  <2> QED BY <2>1, <2>2
<1>5. Reached(p) \subseteq DdOf({Home}) /\ \A c \in Reached(p) : c.copy < 0
  <2> SUFFICES ASSUME NEW c \in Reached(p) PROVE c \in DdOf({Home}) /\ c.copy < 0
    OBVIOUS
  <2> HIDE DEF legs
  <2>1. PICK i \in 1 .. n : c = r[i]
    BY <1>2 DEF Elements
  <2>2. i \in Int /\ i > 0
    BY <1>1
  <2> HIDE DEF n
  <2>3. -i < 0
    BY <2>2
  <2>4. c \in DdOf({Home}) /\ c.copy = -i
    BY <1>3, <2>1, Zenon
  <2> QED BY <2>3, <2>4, Zenon
<1>6. DdCoins(Reached(p))
  <2>1. IsFiniteSet(Reached(p))
    BY <1>1, <1>2, Count
  <2> QED BY <1>5, <2>1 DEF DdCoins, DdOf
<1>7. CentsIn(r) = Cents(Reached(p))
  <2>1. \A i \in 1 .. n : r[i] \in Reached(p)
    BY <1>2 DEF Elements
  <2> HIDE DEF n
  <2>2. CentsIn(r) = Cents(Elements(r, n))
    BY <1>1, <1>3, <1>4, <1>6, <2>1, CentsListed
  <2> QED BY <1>2, <2>2
<1>8. CentsIn(legs) = Cents(Legs(legs))
  <2>1. Legs(legs) = Elements(legs, n) /\ DdCoins(Legs(legs))
    BY LegsAdd DEF Legs, Elements
  <2>2. \A i \in 1 .. n : legs[i] \in Legs(legs)
    BY DEF Legs
  <2>3. Len(legs) = n
    OBVIOUS
  <2> HIDE DEF n, legs
  <2>4. CentsIn(legs) = Cents(Elements(legs, n))
    BY <1>1, <1>4, <2>1, <2>2, <2>3, CentsListed
  <2> QED BY <2>1, <2>4
<1>9. CentsIn(r) = CentsIn(legs)
  <2>1. (\A i \in 1 .. n : legs[i].cents \in Int) /\ Len(legs) = n
    BY <1>1
  <2>2. \A i \in 1 .. n : r[i].cents = legs[i].cents
    BY <1>3
  <2> HIDE DEF n, legs
  <2> QED BY <1>1, <1>3, <2>1, <2>2, CentsSame, SMTT(30)
<1> QED BY <1>5, <1>6, <1>7, <1>8, <1>9

\* Its burn, when the legs are confirmed.
RedeemBuilt(S, p, need) ==
    LET tx == ConfirmedRedeem(p, need)
    IN /\ Accepted(tx, DdFee, NoLeaf) /\ Conserved(tx, need)
       /\ tx.body.outs[1] = Out(PositionOf(need).sats, P2tr(Home))
       /\ p.fee \in S
       /\ \E burn : /\ Len(burn) \in Nat /\ \A i \in 1 .. Len(burn) : burn[i] \in DdOf({Home})
                    /\ RedeemMade(tx, need, burn, p.fee)

LEMMA RedeemIsBuilt ==
    ASSUME NEW K, NEW S, Coins(S), S \subseteq DgbOf(K), NEW D, DdCoins(D), D \subseteq DdOf(K),
           \A c \in D : c.copy > 0,
           NEW need \in Needs, NEW p, p = PlanRedeem(S, D, need, NoCap), p # NoPlan, p.fee # NoCoin
    PROVE  RedeemBuilt(S, p, need)
<1>1. need \in Nat \ {0}
  BY TxPlanAssumption
<1>2. /\ p.burn \subseteq Own(D)
      /\ p.legs \in Seq(LegOf(Others(D))) /\ LegalLegs(p.legs, NoCap)
      /\ Cents(p.burn) + Cents(Legs(p.legs)) >= need
      /\ p.fee \in S /\ p.fee.sats >= DdFee
  BY <1>1, RedeemPlanned
<1> DEFINE U == p.burn \union Reached(p)
           B == PlanBurn(U, need)
           list == Falling(B, CentsOf)
<1>4. /\ DdCoins(Reached(p)) /\ Reached(p) \subseteq DdOf({Home}) /\ (\A c \in Reached(p) : c.copy < 0)
      /\ Cents(Reached(p)) = Cents(Legs(p.legs))
  BY <1>2, ReachedIs
<1>5. /\ p.burn \in SUBSET D /\ p.burn \subseteq DdOf({Home}) /\ DdCoins(p.burn)
      /\ p.burn \intersect Reached(p) = {}
  <2>1. p.burn \in SUBSET D
    BY <1>2 DEF Own
  <2>2. p.burn \subseteq DdOf({Home})
    BY <1>2 DEF Own, DdOf
  <2>3. \A c \in p.burn : ~(c.copy < 0)
    <3>1. \A c \in p.burn : c.copy > 0 /\ c.copy \in Int
      BY <2>1, <2>2 DEF DdOf
    <3> QED BY <3>1
  <2> QED BY <1>4, <2>1, <2>2, <2>3, CentsMore
<1>6. U \subseteq DdOf({Home}) /\ DdCoins(U) /\ Own(U) = U
  <2>1. U \subseteq DdOf({Home})
    BY <1>4, <1>5
  <2>2. DdCoins(U)
    BY <1>4, <1>5, FS_Union DEF DdCoins
  <2>3. Own(U) = U
    BY <2>1 DEF Own, DdOf
  <2> QED BY <2>1, <2>2, <2>3
<1>7. Cents(U) >= need
  <2>1. p.burn \in SUBSET U /\ U \ p.burn = Reached(p)
    BY <1>5
  <2> HIDE DEF U
  <2>2. Cents(U) = Cents(p.burn) + Cents(U \ p.burn)
    BY <1>6, <2>1, CentsAdd
  <2> QED BY <1>2, <1>4, <2>1, <2>2
<1> HIDE DEF U
<1>8. B \in SUBSET U /\ Cents(B) >= need
  BY <1>1, <1>6, <1>7, Burns
<1> HIDE DEF B
<1>9. DdCoins(B) /\ B \subseteq DdOf({Home}) /\ Lists(list, B)
  <2>1. DdCoins(B)
    BY <1>6, <1>8, CentsMore
  <2>2. Lists(list, B)
    BY <2>1, Listed
  <2> QED BY <1>6, <1>8, <2>1, <2>2
<1> HIDE DEF list
<1>10. LET tx == BuildRedeem(PositionOf(need), list, p.fee, DdFee, Received)
       IN /\ Accepted(tx, DdFee, NoLeaf) /\ Conserved(tx, need)
          /\ tx.body.outs[1] = Out(PositionOf(need).sats, P2tr(Home))
          /\ RedeemMade(tx, need, list, p.fee)
  <2>1. p.fee \in DgbOf(K) /\ p.fee.sats >= DdFee
    BY <1>2
  <2> QED BY <1>1, <1>8, <1>9, <2>1, RedeemIsAccepted, Zenon
<1>11. ConfirmedRedeem(p, need) = BuildRedeem(PositionOf(need), list, p.fee, DdFee, Received)
  BY Zenon DEF ConfirmedRedeem, list, B, U
<1>12. Len(list) \in Nat /\ \A i \in 1 .. Len(list) : list[i] \in DdOf({Home})
  <2>1. list \in Seq(B) /\ B \subseteq DdOf({Home})
    BY <1>9 DEF Lists
  <2>2. Len(list) \in Nat
    BY <2>1
  <2>3. \A i \in 1 .. Len(list) : list[i] \in B
    BY <2>1
  <2> QED BY <2>1, <2>2, <2>3
<1> QED BY <1>2, <1>10, <1>11, <1>12, Zenon DEF RedeemBuilt

\* Of a redemption that is planned every leg is such a transfer, and what then burns
\* opens the position: its cents are covered, and the collateral comes back first.
THEOREM RedeemsAreBuilt ==
    ASSUME NEW K, NEW S, Coins(S), S \subseteq DgbOf(K), NEW D, DdCoins(D), D \subseteq DdOf(K),
           \A c \in D : c.copy > 0
    PROVE  RedeemsBuilt(S, D)
<1> SUFFICES ASSUME NEW need \in Needs, NEW p, p = PlanRedeem(S, D, need, NoCap), p # NoPlan
             PROVE  /\ \A i \in 1 .. Len(p.legs) :
                          TransferSound(ConfirmedLeg(p.legs[i], p.fees[i]), Home, p.legs[i].cents)
                    /\ p.fee # NoCoin =>
                          /\ Accepted(ConfirmedRedeem(p, need), DdFee, NoLeaf)
                          /\ Conserved(ConfirmedRedeem(p, need), need)
                          /\ ConfirmedRedeem(p, need).body.outs[1] = Out(PositionOf(need).sats, P2tr(Home))
  BY Zenon DEF RedeemsBuilt
<1>1. need \in Nat \ {0}
  BY TxPlanAssumption
<1>2. /\ p.burn \subseteq Own(D)
      /\ p.legs \in Seq(LegOf(Others(D))) /\ LegalLegs(p.legs, NoCap)
      /\ Cents(p.burn) + Cents(Legs(p.legs)) >= need
      /\ \A k \in 1 .. Len(p.legs) : p.fees[k] \in S /\ p.fees[k].sats >= DdFee
  BY <1>1, RedeemPlanned
<1>3. ASSUME NEW i \in 1 .. Len(p.legs)
      PROVE  TransferSound(ConfirmedLeg(p.legs[i], p.fees[i]), Home, p.legs[i].cents)
  <2> DEFINE leg == p.legs[i]
             coin == leg.coin
             fee == p.fees[i]
  <2>1. leg \in LegOf(Others(D)) /\ leg.cents >= MinDd /\ LegalDd(coin.cents - leg.cents)
    BY <1>2 DEF LegalLegs
  <2>2. coin \in DdOf(K) /\ coin.key # Home /\ leg.cents \in Nat /\ coin.cents \in Nat
    BY <2>1 DEF LegOf, Others, DdCoins
  <2>3. fee \in DgbOf(K) /\ fee.sats >= DdFee
    BY <1>2
  <2> HIDE DEF coin, fee, leg
  <2>4. coin.cents >= leg.cents
    BY <2>1, <2>2, Units DEF LegalDd
  <2>5. TransferSound(BuildTransfer(coin, fee, Home, leg.cents, DdFee, P2tr(coin.key)), Home, leg.cents)
    BY <2>1, <2>2, <2>3, <2>4, TransferIsSound
  <2> QED BY <2>5, Zenon DEF ConfirmedLeg, coin, fee, leg
<1>4. ASSUME p.fee # NoCoin
      PROVE  /\ Accepted(ConfirmedRedeem(p, need), DdFee, NoLeaf)
             /\ Conserved(ConfirmedRedeem(p, need), need)
             /\ ConfirmedRedeem(p, need).body.outs[1] = Out(PositionOf(need).sats, P2tr(Home))
  <2>1. RedeemBuilt(S, p, need)
    BY <1>4, RedeemIsBuilt
  <2> QED BY <2>1, Zenon DEF RedeemBuilt
<1> QED BY <1>3, <1>4

-----------------------------------------------------------------------------
(* The wallet's coins *)

Held == held \in [DgbKinds \union DdKinds -> Nat]

LEMMA HeldStays ==
    PlanSpec => []Held
<1>1. PlanInit => Held
  BY DEF PlanInit, Held
<1>2. Held /\ [PlanNext]_held => Held'
  BY DEF Held, PlanNext, Receive
<1> QED BY <1>1, <1>2, PTL DEF PlanSpec

LEMMA FiniteUnion ==
    ASSUME NEW K, IsFiniteSet(K), NEW u, \A k \in K : IsFiniteSet(u[k])
    PROVE  IsFiniteSet(UNION {u[k] : k \in K})
<1> DEFINE all == [k \in K |-> u[k]]
           R == {u[k] : k \in K}
<1>1. all \in Surjection(K, R)
  BY DEF Surjection
<1>2. \A s \in R : IsFiniteSet(s)
  OBVIOUS
<1> HIDE DEF all, R
<1>3. IsFiniteSet(R)
  BY <1>1, FS_Surjection
<1>4. IsFiniteSet(UNION R)
  BY <1>2, <1>3, FS_UNION
<1> QED BY <1>4 DEF R

LEMMA HeldCoins ==
    ASSUME Held
    PROVE  Coins(Money) /\ DdCoins(DigiDollars)
<1>1. /\ \A k \in DgbKinds \union DdKinds : held[k] \in Nat
      /\ IsFiniteSet(DgbKinds) /\ IsFiniteSet(DdKinds)
  BY TxPlanAssumption DEF Held
<1>2. IsFiniteSet(Money)
  <2> DEFINE u == [k \in DgbKinds |-> CoinsOf(k)]
  <2>1. ASSUME NEW k \in DgbKinds PROVE IsFiniteSet(CoinsOf(k))
    <3> DEFINE row == [i \in 1 .. held[k] |-> [sats |-> k.sats, type |-> k.type, key |-> k.key, copy |-> i]]
    <3>1. CoinsOf(k) = Elements(row, held[k])
      BY DEF CoinsOf, Elements
    <3> HIDE DEF row
    <3> QED BY <1>1, <3>1, Count
  <2>2. \A k \in DgbKinds : u[k] = CoinsOf(k)
    OBVIOUS
  <2>3. Money = UNION {u[k] : k \in DgbKinds}
    BY <2>2 DEF Money
  <2> HIDE DEF u
  <2> QED BY <1>1, <2>1, <2>2, <2>3, FiniteUnion
<1>3. IsFiniteSet(DigiDollars)
  <2> DEFINE u == [k \in DdKinds |-> DollarsOf(k)]
  <2>1. ASSUME NEW k \in DdKinds PROVE IsFiniteSet(DollarsOf(k))
    <3> DEFINE row == [i \in 1 .. held[k] |-> [cents |-> k.cents, key |-> k.key, copy |-> i]]
    <3>1. DollarsOf(k) = Elements(row, held[k])
      BY DEF DollarsOf, Elements
    <3> HIDE DEF row
    <3> QED BY <1>1, <3>1, Count
  <2>2. \A k \in DdKinds : u[k] = DollarsOf(k)
    OBVIOUS
  <2>3. DigiDollars = UNION {u[k] : k \in DdKinds}
    BY <2>2 DEF DigiDollars
  <2> HIDE DEF u
  <2> QED BY <1>1, <2>1, <2>2, <2>3, FiniteUnion
<1>4. \A c \in Money : c.sats \in Nat /\ c.type \in {"p2wpkh", "p2tr"}
  BY TxPlanAssumption DEF Money, CoinsOf
<1>5. \A c \in DigiDollars : c.cents \in Nat
  BY TxPlanAssumption DEF DigiDollars, DollarsOf
<1> QED BY <1>2, <1>3, <1>4, <1>5 DEF Coins, DdCoins

LEMMA HeldKeys ==
    ASSUME Held
    PROVE  \E K : /\ Money \subseteq DgbOf(K) /\ DigiDollars \subseteq DdOf(K)
                  /\ \A c \in DigiDollars : c.key # Payee /\ c.copy > 0
<1> DEFINE K == {k.key : k \in DgbKinds \union DdKinds}
<1>1. Money \subseteq DgbOf(K)
  <2> SUFFICES ASSUME NEW k \in DgbKinds, NEW c \in CoinsOf(k) PROVE c \in DgbOf(K)
    BY DEF Money
  <2>1. k.sats \in Nat /\ k.type \in {"p2wpkh", "p2tr"} /\ k.key \in K /\ held[k] \in Nat
    BY TxPlanAssumption DEF Held
  <2> HIDE DEF K
  <2>2. PICK i \in 1 .. held[k] : c = [sats |-> k.sats, type |-> k.type, key |-> k.key, copy |-> i]
    BY DEF CoinsOf
  <2> QED BY <2>1, <2>2 DEF DgbOf
<1>2. ASSUME NEW c \in DigiDollars PROVE c \in DdOf(K) /\ c.key # Payee /\ c.copy > 0
  <2>1. PICK k \in DdKinds : c \in DollarsOf(k)
    BY DEF DigiDollars
  <2>2. k.cents \in Nat /\ k.key \in K /\ held[k] \in Nat /\ k.key # Payee
    BY TxPlanAssumption, TxBuildAssumption DEF Held
  <2> HIDE DEF K
  <2>3. PICK i \in 1 .. held[k] : c = [cents |-> k.cents, key |-> k.key, copy |-> i]
    BY <2>1 DEF DollarsOf
  <2> QED BY <2>2, <2>3 DEF DdOf
<1> QED BY <1>1, <1>2

\* In every state of the wallet, whatever coins have arrived: what is planned and built
\* of them is sound, is accepted by the network and conserves what it should.
THEOREM PlansAreSound ==
    PlanSpec => []PlansSound
<1>1. ASSUME Held PROVE PlansSound
  <2>1. Coins(Money) /\ DdCoins(DigiDollars)
    BY <1>1, HeldCoins
  <2>2. PICK K : /\ Money \subseteq DgbOf(K) /\ DigiDollars \subseteq DdOf(K)
                 /\ \A c \in DigiDollars : c.key # Payee /\ c.copy > 0
    BY <1>1, HeldKeys
  <2>3. BuildsSound(Money, DigiDollars)
    BY <2>1, <2>2, SpendsAreBuilt, TransfersAreBuilt, RedeemsAreBuilt, MintsAreBuilt DEF BuildsSound
  <2>4. /\ SpendsSound(Money) /\ TransfersSound(Money, DigiDollars)
        /\ RedeemsSound(Money, DigiDollars) /\ MintsSound(Money)
    BY <2>1, SpendsAreSound, TransfersAreSound, RedeemsAreSound, MintsAreSound
  <2> QED BY <2>3, <2>4, ManyAreSound, QuotesAreSound, Zenon DEF PlansSound
<1> QED BY <1>1, HeldStays, PTL

-----------------------------------------------------------------------------
(* Sums over places of a list *)

AddsUp(list, S) ==
    /\ SatsAt(list, {}) = 0
    /\ \A T \in SUBSET S : SatsAt(list, T) \in Int
    /\ \A T \in SUBSET S : \A x \in T : SatsAt(list, T) = list[x].sats + SatsAt(list, T \ {x})

LEMMA SatsAtAdd ==
    ASSUME NEW n \in Nat, NEW list, \A i \in 1 .. n : list[i].sats \in Int
    PROVE  AddsUp(list, 1 .. n)
<1> DEFINE S == 1 .. n
           f == [x \in S |-> list[x].sats]
<1>0. IsFiniteSet(S)
  BY FS_Interval
<1>1. f \in [S -> Int]
  OBVIOUS
<1> HIDE DEF S
<1>2. PICK g \in [SUBSET S -> Int] : SumsOf(g, S, f)
  <2> HIDE DEF f
  <2> QED BY <1>0, <1>1, SumExists
<1>3. ASSUME NEW T \in SUBSET S PROVE SatsAt(list, T) = g[T]
  <2> DEFINE Sum(h) == h = [s \in SUBSET T |-> IF s = {} THEN 0 ELSE list[CHOOSE x \in s : TRUE].sats
                                               + h[s \ {CHOOSE x \in s : TRUE}]]
  <2>1. ASSUME NEW h PROVE Sum(h) <=> Summing(h, T, f)
    <3>1. \A s \in SUBSET T : s # {} => list[CHOOSE x \in s : TRUE].sats = f[CHOOSE x \in s : TRUE]
      <4> SUFFICES ASSUME NEW s \in SUBSET T, s # {} PROVE (CHOOSE x \in s : TRUE) \in S
        OBVIOUS
      <4> QED OBVIOUS
    <3>2. [s \in SUBSET T |-> IF s = {} THEN 0 ELSE list[CHOOSE x \in s : TRUE].sats
                                               + h[s \ {CHOOSE x \in s : TRUE}]]
          = [s \in SUBSET T |-> IF s = {} THEN 0 ELSE f[CHOOSE x \in s : TRUE]
                                               + h[s \ {CHOOSE x \in s : TRUE}]]
      <4> HIDE DEF f
      <4> QED BY <3>1
    <3> HIDE DEF f
    <3> QED BY <3>2, Zenon DEF Summing
  <2>2. SatsAt(list, T) = (CHOOSE h : Sum(h))[T]
    BY Zenon DEF SatsAt, MapThenSumSet, MapThenFoldSet
  <2> HIDE DEF Sum, f
  <2>3. \E h : Sum(h)
    BY <1>2, <2>1 DEF SumsOf
  <2>4. Sum(CHOOSE h : Sum(h))
    BY <2>3, Zenon
  <2> QED BY <1>2, <2>1, <2>2, <2>4 DEF SumsOf
<1>4. S \in SUBSET S /\ {} \in SUBSET S
  OBVIOUS
<1>5. \A T \in SUBSET S : \A x \in T : SatsAt(list, T) = f[x] + SatsAt(list, T \ {x})
  BY <1>2, <1>3 DEF SumsOf
<1>6. \A x \in S : f[x] = list[x].sats
  OBVIOUS
<1> HIDE DEF f
<1>7. AddsUp(list, S)
  BY <1>2, <1>3, <1>4, <1>5, <1>6 DEF SumsOf, AddsUp
<1> QED BY <1>7 DEF S

\* Places apart add up; places that hold nothing do not count.
ApartFrom(list, S, U) ==
    /\ \A T \in SUBSET S :
          T \intersect U = {} => SatsAt(list, T \union U) = SatsAt(list, T) + SatsAt(list, U)
    /\ \A T \in SUBSET S :
          T \intersect U = {} /\ (\A i \in T : list[i].sats = 0) => SatsAt(list, T) = 0

LEMMA SatsAtSplit ==
    ASSUME NEW n \in Nat, NEW list, \A i \in 1 .. n : list[i].sats \in Int, NEW U \in SUBSET (1 .. n)
    PROVE  ApartFrom(list, 1 .. n, U)
<1> DEFINE S == 1 .. n
<1>0. AddsUp(list, S)
  BY SatsAtAdd, Zenon
<1>1. /\ SatsAt(list, {}) = 0
      /\ \A V \in SUBSET S : SatsAt(list, V) \in Int
      /\ \A V \in SUBSET S : \A x \in V : SatsAt(list, V) = list[x].sats + SatsAt(list, V \ {x})
  BY <1>0, Zenon DEF AddsUp
<1>2. \A V \in SUBSET S : IsFiniteSet(V) /\ Cardinality(V) \in Nat /\ (Cardinality(V) = 0 <=> V = {})
  <2>1. IsFiniteSet(S)
    BY FS_Interval
  <2> HIDE DEF S
  <2> QED BY <2>1, FS_Subset, FS_CardinalityType, FS_EmptySet
<1> DEFINE Good(V) == /\ SatsAt(list, V \union U) = SatsAt(list, V) + SatsAt(list, U)
                      /\ (\A i \in V : list[i].sats = 0) => SatsAt(list, V) = 0
           N == {k \in Nat : \A V \in SUBSET S : V \intersect U = {} /\ Cardinality(V) = k => Good(V)}
<1>3. 0 \in N
  <2>1. Good({})
    <3>1. {} \union U = U /\ SatsAt(list, U) \in Int
      BY <1>1
    <3> QED BY <1>1, <3>1
  <2> HIDE DEF Good
  <2> QED BY <1>2, <2>1
<1>4. ASSUME NEW k \in Nat, k \in N PROVE k + 1 \in N
  <2> SUFFICES ASSUME NEW V \in SUBSET S, V \intersect U = {}, Cardinality(V) = k + 1 PROVE Good(V)
    BY <1>4
  <2>1. PICK x \in V : TRUE
    BY <1>2
  <2>2. V \ {x} \in SUBSET S /\ (V \ {x}) \intersect U = {} /\ Cardinality(V \ {x}) = k
    BY <1>2, <2>1, SmallerBy
  <2>3. Good(V \ {x})
    <3> HIDE DEF Good
    <3> QED BY <1>4, <2>2
  <2>4. SatsAt(list, V) = list[x].sats + SatsAt(list, V \ {x})
    BY <1>1, <2>1
  <2>5. V \union U \in SUBSET S /\ x \in V \union U /\ (V \union U) \ {x} = (V \ {x}) \union U
    BY <2>1
  <2>6. SatsAt(list, V \union U) = list[x].sats + SatsAt(list, (V \ {x}) \union U)
    BY <1>1, <2>1, <2>5
  <2>7. list[x].sats \in Int /\ SatsAt(list, V \ {x}) \in Int /\ SatsAt(list, U) \in Int
    BY <1>1, <2>1, <2>2
  <2>8. SatsAt(list, V \union U) = SatsAt(list, V) + SatsAt(list, U)
    BY <2>3, <2>4, <2>6, <2>7
  <2>9. (\A i \in V : list[i].sats = 0) => SatsAt(list, V) = 0
    BY <2>1, <2>3, <2>4
  <2> QED BY <2>8, <2>9
<1>5. Nat \subseteq N
  <2> HIDE DEF N
  <2> QED BY <1>3, <1>4, NatAll
<1>6. \A T \in SUBSET S : T \intersect U = {} => Good(T)
  <2> HIDE DEF Good
  <2> QED BY <1>2, <1>5
<1> QED BY <1>6 DEF ApartFrom

Apart(list, S) ==
    /\ \A T, U \in SUBSET S :
          T \intersect U = {} => SatsAt(list, T \union U) = SatsAt(list, T) + SatsAt(list, U)
    /\ \A T \in SUBSET S : (\A i \in T : list[i].sats = 0) => SatsAt(list, T) = 0

LEMMA SatsApart ==
    ASSUME NEW n \in Nat, NEW list, \A i \in 1 .. n : list[i].sats \in Int
    PROVE  Apart(list, 1 .. n)
<1>1. ASSUME NEW U \in SUBSET (1 .. n) PROVE ApartFrom(list, 1 .. n, U)
  BY SatsAtSplit, Zenon
<1>2. ApartFrom(list, 1 .. n, {})
  BY <1>1
<1> QED BY <1>1, <1>2 DEF Apart, ApartFrom

\* A list holds what all of its places hold.
LEMMA SatsAtAll ==
    ASSUME NEW n \in Nat, NEW list, Len(list) = n, DOMAIN list = 1 .. n, \A i \in 1 .. n : list[i].sats \in Int
    PROVE  SatsIn(list) = SatsAt(list, 1 .. n)
<1>1. PICK g : /\ g \in [0 .. n -> Int] /\ g[0] = 0
               /\ \A i \in 1 .. n : g[i] = g[i - 1] + list[i].sats
               /\ SatsIn(list) = g[n]
  BY SatsRun, Zenon
<1>0. AddsUp(list, 1 .. n)
  BY SatsAtAdd, Zenon
<1>2. /\ SatsAt(list, {}) = 0
      /\ \A V \in SUBSET (1 .. n) : SatsAt(list, V) \in Int
      /\ \A V \in SUBSET (1 .. n) : \A x \in V : SatsAt(list, V) = list[x].sats + SatsAt(list, V \ {x})
  BY <1>0, Zenon DEF AddsUp
<1> DEFINE N == {k \in Nat : k <= n => g[k] = SatsAt(list, 1 .. k)}
<1>3. 0 \in N
  <2>1. 1 .. 0 = {}
    OBVIOUS
  <2> QED BY <1>1, <1>2, <2>1
<1>4. ASSUME NEW k \in Nat, k \in N PROVE k + 1 \in N
  <2> SUFFICES ASSUME k + 1 <= n PROVE g[k + 1] = SatsAt(list, 1 .. k + 1)
    OBVIOUS
  <2>1. /\ k + 1 \in 1 .. n /\ k + 1 - 1 = k /\ k <= n
        /\ 1 .. k + 1 \in SUBSET (1 .. n) /\ k + 1 \in 1 .. k + 1
        /\ 1 .. k \in SUBSET (1 .. n) /\ (1 .. k + 1) \ {k + 1} = 1 .. k
    OBVIOUS
  <2>2. g[k + 1] = g[k] + list[k + 1].sats /\ list[k + 1].sats \in Int
    BY <1>1, <2>1
  <2>3. SatsAt(list, 1 .. k + 1) = list[k + 1].sats + SatsAt(list, 1 .. k)
    <3>1. SatsAt(list, 1 .. k + 1) = list[k + 1].sats + SatsAt(list, (1 .. k + 1) \ {k + 1})
      BY <1>2, <2>1, Zenon
    <3> QED BY <2>1, <3>1
  <2>4. g[k] = SatsAt(list, 1 .. k) /\ SatsAt(list, 1 .. k) \in Int
    BY <1>2, <1>4, <2>1
  <2> QED BY <2>2, <2>3, <2>4
<1>5. n \in N
  <2> HIDE DEF N
  <2> QED BY <1>3, <1>4, NatAll
<1> QED BY <1>1, <1>5

-----------------------------------------------------------------------------
(* Rows of the history *)

MineIn(ins) == {i \in DOMAIN ins : IsMine(LockOf(ins[i].coin), OurKeys)}

\* What is known of the inputs and outputs of a transaction of one's own.
OwnTx(tx, n, m) ==
    LET ins == tx.body.ins
        outs == tx.body.outs
    IN /\ Len(ins) = n /\ DOMAIN ins = 1 .. n
       /\ \A i \in 1 .. n : ins[i].sats \in Int /\ ins[i].sats = SatsOf(ins[i].coin)
       /\ Len(outs) = m /\ DOMAIN outs = 1 .. m
       /\ \A v \in 1 .. m : outs[v].sats \in Int
       /\ \A v \in 1 .. m : outs[v].script.shape = "data" => outs[v].sats = 0
       /\ SatsIn(ins) - SatsIn(outs) >= 0

\* Where it comes from and where it goes, so that its row can say so.
OwnRow(tx, n) ==
    LET outs == tx.body.outs
        others == OthersAmong(outs, OurKeys)
        from == MineIn(tx.body.ins)
    IN \/ tx.body.version \in {"plain", "mint"} /\ from = 1 .. n /\ n >= 1
       \/ /\ tx.body.version = "transfer" /\ from = 1 .. n /\ n >= 1
          /\ \A v \in others : outs[v].sats = 0
       \/ /\ tx.body.version = "redeem" /\ from = 2 .. n /\ n >= 2 /\ others = {}
          /\ 1 \in MineAmong(outs, OurKeys) /\ outs[1].sats = tx.body.ins[1].sats

LEMMA Mine ==
    ASSUME NEW script, NEW keys, IsMine(script, keys)
    PROVE  script.shape # "data"
  BY DEF IsMine

SameSats(list, other, n) ==
    /\ Len(list) = n /\ DOMAIN list = 1 .. n /\ \A i \in 1 .. n : list[i].sats \in Int
    /\ Len(other) = n /\ DOMAIN other = 1 .. n /\ \A i \in 1 .. n : other[i].sats = list[i].sats

LEMMA SatsAreSame ==
    ASSUME NEW n \in Nat, NEW list, NEW other, SameSats(list, other, n)
    PROVE  SatsIn(other) = SatsIn(list)
<1>1. /\ Len(list) = n /\ DOMAIN list = 1 .. n /\ \A i \in 1 .. n : list[i].sats \in Int
      /\ Len(other) = n /\ DOMAIN other = 1 .. n /\ \A i \in 1 .. n : other[i].sats = list[i].sats
  BY Zenon DEF SameSats
<1> QED BY <1>1, SatsSame

\* What is looked up of the inputs.
Resolved(vin, ins, n) ==
    /\ Len(vin) = n /\ DOMAIN vin = 1 .. n
    /\ \A i \in 1 .. n : vin[i].known <=> i <= MaxVinResolve
    /\ \A i \in 1 .. n : vin[i].known => vin[i].address = LockOf(ins[i].coin)
    /\ n <= MaxVinResolve => SatsIn(vin) = SatsIn(ins)

LEMMA VinHolds ==
    ASSUME NEW tx, NEW n \in Nat, NEW m \in Nat, OwnTx(tx, n, m), NEW vin,
           vin = [i \in DOMAIN tx.body.ins |->
                     IF i > MaxVinResolve THEN Unresolved
                     ELSE [address |-> LockOf(tx.body.ins[i].coin), sats |-> SatsOf(tx.body.ins[i].coin),
                           known |-> TRUE]]
    PROVE  Resolved(vin, tx.body.ins, n)
<1> DEFINE ins == tx.body.ins
<1>1. /\ Len(ins) = n /\ DOMAIN ins = 1 .. n
      /\ \A i \in 1 .. n : ins[i].sats \in Int /\ ins[i].sats = SatsOf(ins[i].coin)
  BY Zenon DEF OwnTx
<1>2. vin = [i \in 1 .. n |-> IF i > MaxVinResolve THEN Unresolved
                             ELSE [address |-> LockOf(ins[i].coin), sats |-> SatsOf(ins[i].coin), known |-> TRUE]]
  BY <1>1, Zenon
<1> HIDE DEF ins
<1>3. Len(vin) = n /\ DOMAIN vin = 1 .. n
  BY <1>2
<1>4. MaxVinResolve \in Nat /\ Unresolved.known = FALSE
  BY ReadbackAssumption DEF Unresolved
<1>5. ASSUME NEW i \in 1 .. n, i <= MaxVinResolve
      PROVE  vin[i].known = TRUE /\ vin[i].address = LockOf(ins[i].coin) /\ vin[i].sats = SatsOf(ins[i].coin)
  BY <1>2, <1>4, <1>5
<1>6. ASSUME NEW i \in 1 .. n, ~(i <= MaxVinResolve) PROVE vin[i].known = FALSE
  BY <1>2, <1>4, <1>6
<1>7. n <= MaxVinResolve => SatsIn(vin) = SatsIn(ins)
  <2> SUFFICES ASSUME n <= MaxVinResolve PROVE SatsIn(vin) = SatsIn(ins)
    OBVIOUS
  <2>1. \A i \in 1 .. n : i <= MaxVinResolve
    BY <1>4
  <2>2. \A i \in 1 .. n : vin[i].sats = ins[i].sats
    BY <1>1, <1>5, <2>1
  <2>3. \A i \in 1 .. n : ins[i].sats \in Int
    BY <1>1
  <2>4. SameSats(ins, vin, n)
    BY <1>1, <1>3, <2>2, <2>3, Zenon DEF SameSats
  <2> QED BY <2>4, SatsAreSame, Zenon
<1>8. Resolved(vin, ins, n)
  BY <1>3, <1>5, <1>6, <1>7, Zenon DEF Resolved
<1> QED BY <1>8 DEF ins

\* The row that is worded of it.
RowReads(tx, n) ==
    LET row == HistoryRow(EnrichTx(tx), OurKeys)
        toOthers == SatsAt(tx.body.outs, OthersAmong(tx.body.outs, OurKeys))
        toMine == SatsAt(tx.body.outs, MineAmong(tx.body.outs, OurKeys))
    IN /\ row.sent /\ (row.fee = {} <=> n > MaxVinResolve)
       /\ row.amount = CASE tx.body.version = "mint" -> -toOthers
                         [] tx.body.version = "redeem" -> toMine
                         [] tx.body.version = "transfer" -> 0
                         [] OTHER -> -toOthers

LEMMA RowIs ==
    ASSUME NEW tx, NEW n \in Nat, NEW m \in Nat, OwnTx(tx, n, m),
           \E i \in MineIn(tx.body.ins) : i <= 2
    PROVE  RowReads(tx, n)
<1> DEFINE ins == tx.body.ins
           outs == tx.body.outs
           vin == [i \in DOMAIN ins |->
                     IF i > MaxVinResolve THEN Unresolved
                     ELSE [address |-> LockOf(ins[i].coin), sats |-> SatsOf(ins[i].coin), known |-> TRUE]]
           left == SatsIn(vin) - SatsIn(outs)
           fee == IF (\A i \in DOMAIN vin : vin[i].known) /\ left >= 0 THEN {left} ELSE {}
           detail == [type |-> tx.body.version, vin |-> vin, vout |-> outs, fee |-> fee]
           sent == \E i \in DOMAIN vin : vin[i].known /\ IsMine(vin[i].address, OurKeys)
           toOthers == SatsAt(outs, OthersAmong(outs, OurKeys))
           toMine == SatsAt(outs, MineAmong(outs, OurKeys))
           row == [sent |-> sent, fee |-> IF sent THEN fee ELSE {},
                   amount |-> CASE tx.body.version = "mint" -> -toOthers
                                [] tx.body.version = "redeem" -> toMine
                                [] tx.body.version = "transfer" -> 0
                                [] OTHER -> IF sent THEN -toOthers ELSE toMine]
<1>1. EnrichTx(tx) = detail
  BY Zenon DEF EnrichTx
<1>2. HistoryRow(EnrichTx(tx), OurKeys) = row
  <2> HIDE DEF vin, fee
  <2>1. detail.type = tx.body.version /\ detail.vin = vin /\ detail.vout = outs /\ detail.fee = fee
    OBVIOUS
  <2> HIDE DEF detail
  <2> QED BY <1>1, <2>1, Zenon DEF HistoryRow
<1>3. /\ Len(vin) = n /\ DOMAIN vin = 1 .. n
      /\ \A i \in 1 .. n : vin[i].known <=> i <= MaxVinResolve
      /\ \A i \in 1 .. n : vin[i].known => vin[i].address = LockOf(ins[i].coin)
      /\ n <= MaxVinResolve => SatsIn(vin) = SatsIn(ins)
  <2>1. Resolved(vin, ins, n)
    BY VinHolds, Zenon
  <2> HIDE DEF vin, ins
  <2> QED BY <2>1, Zenon DEF Resolved
<1>4. DOMAIN ins = 1 .. n /\ SatsIn(ins) - SatsIn(outs) >= 0
  BY Zenon DEF OwnTx
<1>5. \E i \in MineIn(ins) : i <= 2
  OBVIOUS
<1> HIDE DEF vin, ins
<1>6. sent
  <2>1. PICK i \in 1 .. n : i <= 2 /\ IsMine(LockOf(ins[i].coin), OurKeys)
    BY <1>4, <1>5 DEF MineIn
  <2>2. vin[i].known
    BY <1>3, <2>1, ReadbackAssumption
  <2> QED BY <1>3, <2>1, <2>2, Zenon
<1>7. fee = {} <=> n > MaxVinResolve
  <2>1. CASE n > MaxVinResolve
    <3>1. n \in DOMAIN vin /\ ~(vin[n].known)
      BY <1>3, <2>1, ReadbackAssumption
    <3>2. fee = {}
      BY <3>1, Zenon
    <3> QED BY <2>1, <3>2
  <2>2. CASE ~(n > MaxVinResolve)
    <3>1. \A i \in DOMAIN vin : vin[i].known
      BY <1>3, <2>2, ReadbackAssumption
    <3>2. n <= MaxVinResolve
      BY <2>2, ReadbackAssumption
    <3>3. left >= 0
      BY <1>3, <1>4, <3>2, Zenon
    <3>4. fee = {left}
      BY <3>1, <3>3, Zenon
    <3> HIDE DEF left, fee
    <3> QED BY <2>2, <3>4
  <2> QED BY <2>1, <2>2
<1> HIDE DEF sent, fee, toOthers, toMine
<1>8. /\ row.sent = sent /\ row.fee = (IF sent THEN fee ELSE {})
      /\ row.amount = CASE tx.body.version = "mint" -> -toOthers
                        [] tx.body.version = "redeem" -> toMine
                        [] tx.body.version = "transfer" -> 0
                        [] OTHER -> IF sent THEN -toOthers ELSE toMine
  BY Zenon
<1> HIDE DEF row
<1>9. row.sent /\ (row.fee = {} <=> n > MaxVinResolve)
  BY <1>6, <1>7, <1>8, Zenon
<1>10. row.amount = CASE tx.body.version = "mint" -> -toOthers
                      [] tx.body.version = "redeem" -> toMine
                      [] tx.body.version = "transfer" -> 0
                      [] OTHER -> -toOthers
  BY <1>6, <1>8, Zenon
<1> QED BY <1>2, <1>9, <1>10, Zenon DEF RowReads, toOthers, toMine, outs

LEMMA RowIsSound ==
    ASSUME NEW tx, NEW n \in Nat, NEW m \in Nat, OwnTx(tx, n, m), OwnRow(tx, n)
    PROVE  RowSound(tx)
<1> DEFINE ins == tx.body.ins
           outs == tx.body.outs
           version == tx.body.version
           mine == MineAmong(outs, OurKeys)
           others == OthersAmong(outs, OurKeys)
           from == MineIn(ins)
           row == HistoryRow(EnrichTx(tx), OurKeys)
<1>1. /\ Len(ins) = n /\ DOMAIN ins = 1 .. n
      /\ \A i \in 1 .. n : ins[i].sats \in Int
      /\ Len(outs) = m /\ DOMAIN outs = 1 .. m
      /\ \A v \in 1 .. m : outs[v].sats \in Int
      /\ \A v \in 1 .. m : outs[v].script.shape = "data" => outs[v].sats = 0
  BY Zenon DEF OwnTx
<1>2. \/ version \in {"plain", "mint"} /\ from = 1 .. n /\ n >= 1
      \/ version = "transfer" /\ from = 1 .. n /\ n >= 1 /\ \A v \in others : outs[v].sats = 0
      \/ /\ version = "redeem" /\ from = 2 .. n /\ n >= 2 /\ others = {}
         /\ 1 \in mine /\ outs[1].sats = ins[1].sats
  BY Zenon DEF OwnRow
<1>3. RowReads(tx, n)
  <2>1. \E i \in from : i <= 2
    <3> HIDE DEF from
    <3>1. CASE from = 1 .. n /\ n >= 1
      BY <3>1
    <3>2. CASE from = 2 .. n /\ n >= 2
      BY <3>2
    <3> QED BY <1>2, <3>1, <3>2
  <2> QED BY <2>1, RowIs, Zenon
<1>4. mine = {v \in DOMAIN outs : IsMine(outs[v].script, OurKeys)}
      /\ others = {v \in DOMAIN outs : outs[v].script.shape # "data" /\ ~IsMine(outs[v].script, OurKeys)}
      /\ from = {i \in DOMAIN ins : IsMine(LockOf(ins[i].coin), OurKeys)}
  BY Zenon DEF MineAmong, OthersAmong, MineIn
<1> HIDE DEF ins, outs, mine, others, from
<1> DEFINE O == SatsAt(outs, others)
           M == SatsAt(outs, mine)
           F == SatsAt(ins, from)
           blank == (1 .. m) \ (mine \union others)
<1>5. /\ mine \in SUBSET (1 .. m) /\ others \in SUBSET (1 .. m) /\ mine \intersect others = {}
      /\ from \in SUBSET (1 .. n)
      /\ \A v \in blank : outs[v].sats = 0
  BY <1>1, <1>4
<1>0. Apart(outs, 1 .. m)
  BY <1>1, SatsApart, Zenon
<1>6. SatsIn(outs) = O + M /\ O \in Int /\ M \in Int
  <2>1. SatsIn(outs) = SatsAt(outs, 1 .. m)
    BY <1>1, SatsAtAll
  <2>2. SatsAt(outs, mine \union others) = M + O
    BY <1>5, <1>0, Zenon DEF Apart
  <2>3. SatsAt(outs, blank \union (mine \union others)) = SatsAt(outs, blank) + SatsAt(outs, mine \union others)
        /\ SatsAt(outs, blank) = 0
    <3>1. /\ blank \in SUBSET (1 .. m) /\ mine \union others \in SUBSET (1 .. m)
          /\ blank \intersect (mine \union others) = {}
      BY <1>5
    <3> HIDE DEF blank
    <3> QED BY <1>5, <1>0, <3>1, Zenon DEF Apart
  <2>4. blank \union (mine \union others) = 1 .. m
    BY <1>5
  <2>5. O \in Int /\ M \in Int
    <3>1. AddsUp(outs, 1 .. m)
      BY <1>1, SatsAtAdd
    <3> QED BY <1>5, <3>1, Zenon DEF AddsUp
  <2>6. SatsIn(outs) = M + O
    <3> HIDE DEF O, M
    <3>1. SatsIn(outs) = SatsAt(outs, blank) + (M + O)
      BY <2>1, <2>2, <2>3, <2>4, Zenon
    <3> QED BY <2>3, <2>5, <3>1
  <2> HIDE DEF O, M
  <2> QED BY <2>5, <2>6
<1>7. SatsIn(ins) = SatsAt(ins, 1 .. n) /\ F \in Int
  <2>1. SatsIn(ins) = SatsAt(ins, 1 .. n)
    BY <1>1, SatsAtAll
  <2>2. AddsUp(ins, 1 .. n)
    BY <1>1, SatsAtAdd
  <2> QED BY <1>5, <2>1, <2>2, Zenon DEF AddsUp
<1> DEFINE extra == IF version # "redeem" THEN 0 ELSE SatsAt(outs, mine \ {1})
           amount == CASE version = "mint" -> -O
                       [] version = "redeem" -> M
                       [] version = "transfer" -> 0
                       [] OTHER -> -O
<1>8. amount - (SatsIn(ins) - SatsIn(outs)) - extra = M - F
  <2> HIDE DEF O, M, F
  <2>1. CASE version \in {"plain", "mint"} /\ from = 1 .. n
    <3>1. SatsIn(ins) = F
      BY <1>7, <2>1 DEF F
    <3>2. amount = -O /\ extra = 0
      BY <2>1
    <3>3. F \in Int
      BY <1>7
    <3> HIDE DEF amount, extra
    <3> QED BY <1>6, <3>1, <3>2, <3>3
  <2>2. CASE version = "transfer" /\ from = 1 .. n /\ \A v \in others : outs[v].sats = 0
    <3>1. SatsIn(ins) = F
      BY <1>7, <2>2 DEF F
    <3>2. amount = 0 /\ extra = 0
      BY <2>2
    <3>3. O = 0
      <4>1. SatsAt(outs, others) = 0
        BY <1>0, <1>5, <2>2, Zenon DEF Apart
      <4> QED BY <4>1 DEF O
    <3>4. F \in Int
      BY <1>7
    <3> HIDE DEF amount, extra
    <3> QED BY <1>6, <3>1, <3>2, <3>3, <3>4
  <2>3. CASE /\ version = "redeem" /\ from = 2 .. n /\ n >= 2 /\ others = {}
             /\ 1 \in mine /\ outs[1].sats = ins[1].sats
    <3>1. AddsUp(ins, 1 .. n) /\ AddsUp(outs, 1 .. m)
      BY <1>1, SatsAtAdd
    <3>2. SatsIn(ins) = ins[1].sats + F
      <4>1. 1 .. n \in SUBSET (1 .. n) /\ 1 \in 1 .. n /\ (1 .. n) \ {1} = 2 .. n
        BY <2>3
      <4>2. SatsAt(ins, 1 .. n) = ins[1].sats + SatsAt(ins, (1 .. n) \ {1})
        BY <3>1, <4>1, Zenon DEF AddsUp
      <4> QED BY <1>7, <2>3, <4>1, <4>2 DEF F
    <3>3. M = outs[1].sats + extra /\ extra \in Int
      <4>1. mine \ {1} \in SUBSET (1 .. m)
        BY <1>5
      <4>2. SatsAt(outs, mine) = outs[1].sats + SatsAt(outs, mine \ {1}) /\ SatsAt(outs, mine \ {1}) \in Int
        BY <1>5, <2>3, <3>1, <4>1, Zenon DEF AddsUp
      <4>3. extra = SatsAt(outs, mine \ {1})
        BY <2>3
      <4> QED BY <4>2, <4>3 DEF M
    <3>4. O = 0
      BY <2>3, <3>1, Zenon DEF O, AddsUp
    <3>5. amount = M
      BY <2>3
    <3>6. ins[1].sats \in Int /\ outs[1].sats \in Int
      BY <1>1, <1>5, <2>3
    <3>7. F \in Int
      BY <1>7
    <3>8. outs[1].sats = ins[1].sats
      BY <2>3
    <3> HIDE DEF amount, extra
    <3> QED BY <1>6, <3>2, <3>3, <3>4, <3>5, <3>6, <3>7, <3>8
  <2> QED BY <1>2, <2>1, <2>2, <2>3, Zenon
<1>9. row.sent /\ (row.fee = {} <=> Len(ins) > MaxVinResolve) /\ row.amount = amount
  BY <1>1, <1>3, Zenon DEF RowReads, ins, outs, mine, others
<1>10. BalanceChange(tx) = M - F
  BY <1>4, Zenon DEF BalanceChange, ins, outs, mine
<1> HIDE DEF amount, row
<1> QED BY <1>8, <1>9, <1>10, Zenon DEF RowSound, row, ins, outs, mine, extra, version

-----------------------------------------------------------------------------
(* The rows of what is built *)

LEMMA OutHolds ==
    ASSUME NEW sats, NEW script
    PROVE  Out(sats, script).sats = sats /\ Out(sats, script).script = script
  BY DEF Out

LEMMA KeyScript ==
    ASSUME NEW key
    PROVE  /\ P2tr(key).shape = "p2tr" /\ P2tr(key).key = key /\ P2tr(key).leaves = {}
           /\ key \in OurKeys => IsMine(P2tr(key), OurKeys) /\ IsMine(P2wpkh(key), OurKeys)
  BY DEF IsMine, P2tr, P2wpkh, Script

LEMMA DataScript ==
    ASSUME NEW amounts
    PROVE  Data(amounts).shape = "data" /\ Data(amounts).data = amounts
  BY DEF Data, Script

LEMMA MintScript ==
    ASSUME NEW owner, NEW lock, NEW cents
    PROVE  /\ MintData(owner, lock, cents).shape = "data" /\ MintData(owner, lock, cents).key = owner
           /\ MintData(owner, lock, cents).data = <<cents>>
           /\ MintData(owner, lock, cents).leaves = {Leaf("normal", owner, lock, cents)}
           /\ ~IsMine(CollateralScript(owner, lock, cents), OurKeys)
           /\ CollateralScript(owner, lock, cents).shape = "p2tr"
<1>1. /\ MintData(owner, lock, cents).shape = "data" /\ MintData(owner, lock, cents).key = owner
      /\ MintData(owner, lock, cents).data = <<cents>>
      /\ MintData(owner, lock, cents).leaves = {Leaf("normal", owner, lock, cents)}
  BY DEF MintData, Data, Script
<1> DEFINE c == CollateralScript(owner, lock, cents)
<1>2. c.leaves # {} /\ c.shape = "p2tr" /\ c.key = "nums"
  BY DEF CollateralScript, P2tr, Script, Leaves
<1>3. Script(c.shape, c.key).leaves = {}
  BY DEF Script
<1> HIDE DEF c
<1>4. ~IsMine(c, OurKeys)
  BY <1>2, <1>3, Zenon DEF IsMine
<1> QED BY <1>1, <1>2, <1>4 DEF c

LEMMA OurLocks ==
    /\ \A c \in DgbOf(OurKeys) : IsMine(LockOf(c), OurKeys) /\ SatsOf(c) = c.sats /\ c.sats \in Nat
    /\ \A c \in DdOf(OurKeys) : IsMine(LockOf(c), OurKeys) /\ SatsOf(c) = 0
<1>1. ASSUME NEW c \in DgbOf(OurKeys) PROVE IsMine(LockOf(c), OurKeys)
  <2>1. c.type \in {"p2wpkh", "p2tr"} /\ c.key \in OurKeys /\ LockOf(c) = Script(c.type, c.key)
    BY HonestCoins DEF DgbOf
  <2>2. CASE c.type = "p2tr"
    BY <2>1, <2>2, KeyScript DEF P2tr
  <2>3. CASE c.type = "p2wpkh"
    BY <2>1, <2>3, KeyScript DEF P2wpkh
  <2> QED BY <2>1, <2>2, <2>3
<1>2. ASSUME NEW c \in DdOf(OurKeys) PROVE IsMine(LockOf(c), OurKeys)
  <2>1. c.key \in OurKeys /\ LockOf(c) = P2tr(c.key)
    BY HonestCoins DEF DdOf
  <2> QED BY <2>1, KeyScript
<1>3. /\ \A c \in DgbOf(OurKeys) : SatsOf(c) = c.sats /\ c.sats \in Nat
      /\ \A c \in DdOf(OurKeys) : SatsOf(c) = 0
  BY HonestCoins DEF DgbOf
<1> QED BY <1>1, <1>2, <1>3

\* What a node accepts spends no less than it pays.
LEMMA PaysItself ==
    ASSUME NEW tx, NEW fee \in Nat, NEW given, Accepted(tx, fee, given)
    PROVE  SatsIn(tx.body.ins) - SatsIn(tx.body.outs) >= 0
<1> DEFINE left == SatsIn(tx.body.ins) - SatsIn(tx.body.outs)
<1>1. left \in fee .. fee + Fold - 1
  BY Zenon DEF Accepted
<1> HIDE DEF left
<1>2. left >= 0
  BY <1>1
<1> QED BY <1>2 DEF left

LEMMA TransferRow ==
    ASSUME NEW tx, NEW coin \in DdOf(OurKeys), NEW fee \in DgbOf(OurKeys), NEW to, NEW cents,
           TransferMade(tx, coin, fee, to, cents), Accepted(tx, DdFee, NoLeaf)
    PROVE  RowSound(tx)
<1> DEFINE ins == tx.body.ins
           outs == tx.body.outs
           m == Len(outs)
           rest == coin.cents - cents
<1>1. /\ tx.body.version = "transfer" /\ Len(ins) = 2 /\ DOMAIN ins = 1 .. 2
      /\ ins[1].coin = coin /\ ins[1].sats = 0 /\ ins[2].coin = fee /\ ins[2].sats = fee.sats
  BY Zenon DEF TransferMade
<1>2. PICK change \in Nat : Laid(outs, to, cents, rest, coin.key, change, P2tr(coin.key))
  BY Zenon DEF TransferMade
<1> DEFINE k == IF rest > 0 THEN 2 ELSE 1
           data == Data(Amounts2(cents, rest))
<1>3. /\ DOMAIN outs = 1 .. m /\ m = k + (IF change > 0 THEN 1 ELSE 0) + 1
      /\ outs[1] = Out(0, P2tr(to)) /\ (rest > 0 => outs[2] = Out(0, P2tr(coin.key)))
      /\ (change > 0 => outs[k + 1] = Out(change, P2tr(coin.key)))
      /\ outs[m] = Out(0, data)
  BY <1>2, Zenon DEF Laid
<1>0. SatsIn(ins) - SatsIn(outs) >= 0
  BY PaysItself, Units
<1> HIDE DEF ins, outs, data, rest
<1>4. m \in Nat /\ \A v \in 1 .. m : outs[v] \in {Out(0, P2tr(to)), Out(0, P2tr(coin.key)),
                                                Out(change, P2tr(coin.key)), Out(0, data)}
  <2>1. k \in {1, 2} /\ (k = 2 => rest > 0)
    OBVIOUS
  <2> HIDE DEF k
  <2>2. m \in Nat /\ \A v \in 1 .. m : v = 1 \/ (v = 2 /\ k = 2) \/ (v = k + 1 /\ change > 0) \/ v = m
    <3> HIDE DEF m
    <3> QED BY <1>3, <2>1
  <2> QED BY <1>3, <2>1, <2>2
<1> HIDE DEF m
<1>5. ASSUME NEW v \in 1 .. m
      PROVE  /\ outs[v].sats \in Int
             /\ outs[v].script.shape = "data" => outs[v].sats = 0
             /\ outs[v].sats = 0 \/ IsMine(outs[v].script, OurKeys)
  <2>1. CASE outs[v] = Out(0, P2tr(to)) \/ outs[v] = Out(0, P2tr(coin.key)) \/ outs[v] = Out(0, data)
    <3>1. outs[v].sats = 0
      BY <2>1, OutHolds
    <3> QED BY <3>1
  <2>2. CASE outs[v] = Out(change, P2tr(coin.key))
    <3>1. outs[v].sats = change /\ outs[v].script = P2tr(coin.key) /\ P2tr(coin.key).shape = "p2tr"
      BY <2>2, OutHolds, KeyScript
    <3>2. coin.key \in OurKeys
      BY DEF DdOf
    <3>3. IsMine(outs[v].script, OurKeys)
      BY <3>1, <3>2, KeyScript
    <3>4. change \in Int /\ "p2tr" # "data"
      OBVIOUS
    <3> QED BY <3>1, <3>3, <3>4, Zenon
  <2> QED BY <1>4, <2>1, <2>2
<1>6. ASSUME NEW i \in 1 .. 2
      PROVE  ins[i].sats \in Int /\ ins[i].sats = SatsOf(ins[i].coin) /\ IsMine(LockOf(ins[i].coin), OurKeys)
  <2>1. CASE i = 1
    <3>1. ins[i].coin = coin /\ ins[i].sats = 0 /\ SatsOf(coin) = 0 /\ IsMine(LockOf(coin), OurKeys)
      BY <1>1, <2>1, OurLocks
    <3> QED BY <3>1
  <2>2. CASE i = 2
    <3>1. /\ ins[i].coin = fee /\ ins[i].sats = fee.sats /\ SatsOf(fee) = fee.sats /\ fee.sats \in Nat
          /\ IsMine(LockOf(fee), OurKeys)
      BY <1>1, <2>2, OurLocks
    <3> QED BY <3>1
  <2> QED BY <2>1, <2>2
<1>7. OwnTx(tx, 2, m)
  <2>1. Len(outs) = m
    BY DEF m
  <2> QED BY <1>0, <1>1, <1>3, <1>4, <1>5, <1>6, <2>1, Zenon DEF OwnTx, ins, outs
<1>8. OwnRow(tx, 2)
  <2>1. MineIn(ins) = 1 .. 2
    BY <1>1, <1>6 DEF MineIn
  <2>2. \A v \in OthersAmong(outs, OurKeys) : outs[v].sats = 0
    BY <1>3, <1>5 DEF OthersAmong
  <2>3. 2 >= 1
    OBVIOUS
  <2> QED BY <1>1, <2>1, <2>2, <2>3, Zenon DEF OwnRow, ins, outs
<1>9. 2 \in Nat /\ m \in Nat
  BY <1>4
<1> QED BY <1>7, <1>8, <1>9, RowIsSound, Zenon

LEMMA MintRow ==
    ASSUME NEW tx, NEW coin \in DgbOf(OurKeys), NEW owner, NEW cents, NEW collateral \in Nat,
           MintMade(tx, coin, owner, cents, collateral), NEW given, Accepted(tx, DdFee, given)
    PROVE  RowSound(tx)
<1> DEFINE ins == tx.body.ins
           outs == tx.body.outs
           m == Len(outs)
           unlock == Tip + 1 + 100 + LockBlocks
           a == Out(collateral, CollateralScript(owner, unlock, cents))
           b == Out(0, P2tr(owner))
           c == Out(0, MintData(owner, unlock, cents))
<1>1. /\ tx.body.version = "mint" /\ Len(ins) = 1 /\ DOMAIN ins = 1 .. 1
      /\ ins[1].coin = coin /\ ins[1].sats = coin.sats
      /\ DOMAIN outs = 1 .. m /\ outs[1] = a /\ outs[2] = b /\ outs[3] = c
  BY Zenon DEF MintMade
<1>2. PICK change \in Nat : m = (IF change > 0 THEN 4 ELSE 3) /\ (change > 0 => outs[4] = Out(change, P2wpkh(coin.key)))
  BY Zenon DEF MintMade
<1>0. SatsIn(ins) - SatsIn(outs) >= 0
  BY PaysItself, Units
<1> HIDE DEF ins, outs, a, b, c
<1>3. m \in Nat /\ \A v \in 1 .. m : outs[v] \in {a, b, c, Out(change, P2wpkh(coin.key))}
  <2>1. m \in Nat /\ \A v \in 1 .. m : v = 1 \/ v = 2 \/ v = 3 \/ (v = 4 /\ change > 0)
    <3> HIDE DEF m
    <3> QED BY <1>2
  <2> QED BY <1>1, <1>2, <2>1
<1> HIDE DEF m
<1>4. /\ a.sats = collateral /\ a.script.shape = "p2tr" /\ b.sats = 0 /\ c.sats = 0
  BY OutHolds, MintScript DEF a, b, c
<1>5. Out(change, P2wpkh(coin.key)).sats = change /\ Out(change, P2wpkh(coin.key)).script.shape = "p2wpkh"
  BY OutHolds DEF P2wpkh, Script
<1>6. ASSUME NEW v \in 1 .. m
      PROVE  outs[v].sats \in Int /\ (outs[v].script.shape = "data" => outs[v].sats = 0)
  BY <1>3, <1>4, <1>5
<1>7. \A i \in 1 .. 1 : /\ ins[i].sats \in Int /\ ins[i].sats = SatsOf(ins[i].coin)
                       /\ IsMine(LockOf(ins[i].coin), OurKeys)
  <2>1. SatsOf(coin) = coin.sats /\ coin.sats \in Nat /\ IsMine(LockOf(coin), OurKeys)
    BY OurLocks
  <2> QED BY <1>1, <2>1
<1>8. OwnTx(tx, 1, m)
  <2>1. Len(outs) = m
    BY DEF m
  <2> QED BY <1>0, <1>1, <1>6, <1>7, <2>1, Zenon DEF OwnTx, ins, outs
<1>9. OwnRow(tx, 1)
  <2>1. MineIn(ins) = 1 .. 1
    BY <1>1, <1>7 DEF MineIn
  <2>2. 1 >= 1 /\ "mint" \in {"plain", "mint"}
    OBVIOUS
  <2> QED BY <1>1, <2>1, <2>2, Zenon DEF OwnRow, ins, outs
<1>10. 1 \in Nat /\ m \in Nat
  BY <1>3
<1> QED BY <1>8, <1>9, <1>10, RowIsSound, Zenon

LEMMA SpendRow ==
    ASSUME NEW tx, NEW n \in Nat \ {0}, NEW coins, \A i \in 1 .. n : coins[i] \in DgbOf(OurKeys),
           NEW to, to.shape # "data", NEW amount \in Nat, SpendMade(tx, coins, n, to, amount),
           NEW fee \in Nat, NEW given, Accepted(tx, fee, given)
    PROVE  RowSound(tx)
<1> DEFINE ins == tx.body.ins
           outs == tx.body.outs
           m == Len(outs)
           a == Out(amount, to)
<1>1. /\ tx.body.version = "plain" /\ Len(ins) = n /\ DOMAIN ins = 1 .. n
      /\ \A i \in 1 .. n : ins[i].coin = coins[i] /\ ins[i].sats = coins[i].sats
      /\ DOMAIN outs = 1 .. m /\ outs[1] = a
  BY Zenon DEF SpendMade
<1>2. PICK change \in Nat : m = (IF change > 0 THEN 2 ELSE 1) /\ (change > 0 => outs[2] = Out(change, Received))
  BY Zenon DEF SpendMade
<1>0. SatsIn(ins) - SatsIn(outs) >= 0
  BY PaysItself
<1> HIDE DEF ins, outs, a
<1>3. m \in Nat /\ \A v \in 1 .. m : outs[v] \in {a, Out(change, Received)}
  <2>1. m \in Nat /\ \A v \in 1 .. m : v = 1 \/ (v = 2 /\ change > 0)
    <3> HIDE DEF m
    <3> QED BY <1>2
  <2> QED BY <1>1, <1>2, <2>1
<1> HIDE DEF m
<1>4. a.sats = amount /\ a.script.shape # "data"
  BY OutHolds DEF a
<1>5. Out(change, Received).sats = change /\ Out(change, Received).script.shape = "p2tr"
  BY OutHolds, KeyScript DEF Received
<1>6. ASSUME NEW v \in 1 .. m
      PROVE  outs[v].sats \in Int /\ (outs[v].script.shape = "data" => outs[v].sats = 0)
  BY <1>3, <1>4, <1>5
<1>7. \A i \in 1 .. n : /\ ins[i].sats \in Int /\ ins[i].sats = SatsOf(ins[i].coin)
                       /\ IsMine(LockOf(ins[i].coin), OurKeys)
  <2> SUFFICES ASSUME NEW i \in 1 .. n
               PROVE  /\ ins[i].sats \in Int /\ ins[i].sats = SatsOf(ins[i].coin)
                      /\ IsMine(LockOf(ins[i].coin), OurKeys)
    OBVIOUS
  <2>1. coins[i] \in DgbOf(OurKeys) /\ ins[i].coin = coins[i] /\ ins[i].sats = coins[i].sats
    BY <1>1
  <2>2. SatsOf(coins[i]) = coins[i].sats /\ coins[i].sats \in Nat /\ IsMine(LockOf(coins[i]), OurKeys)
    BY <2>1, OurLocks
  <2> QED BY <2>1, <2>2
<1>8. OwnTx(tx, n, m)
  <2>1. Len(outs) = m
    BY DEF m
  <2> QED BY <1>0, <1>1, <1>6, <1>7, <2>1, Zenon DEF OwnTx, ins, outs
<1>9. OwnRow(tx, n)
  <2>1. MineIn(ins) = 1 .. n
    BY <1>1, <1>7 DEF MineIn
  <2>2. n >= 1 /\ "plain" \in {"plain", "mint"}
    OBVIOUS
  <2> QED BY <1>1, <2>1, <2>2, Zenon DEF OwnRow, ins, outs
<1>10. n \in Nat /\ m \in Nat
  BY <1>3
<1> QED BY <1>8, <1>9, <1>10, RowIsSound, Zenon

LEMMA RedeemRow ==
    ASSUME NEW tx, NEW need, NEW burn, Len(burn) \in Nat,
           \A i \in 1 .. Len(burn) : burn[i] \in DdOf({Home}), NEW fee \in DgbOf(OurKeys),
           RedeemMade(tx, need, burn, fee), Accepted(tx, DdFee, NoLeaf)
    PROVE  RowSound(tx)
<1> DEFINE ins == tx.body.ins
           outs == tx.body.outs
           l == Len(burn)
           n == l + 2
           m == Len(outs)
           position == PositionOf(need)
           rest == InCents(tx) - need
           a == Out(5 * Fold, P2tr(Home))
           b == Out(0, P2tr(Home))
           c == Out(0, Data(<<rest>>))
<1>1. /\ tx.body.version = "redeem" /\ Len(ins) = n /\ DOMAIN ins = 1 .. n
      /\ ins[1].coin = position /\ ins[1].sats = 5 * Fold
      /\ ins[n].coin = fee /\ ins[n].sats = fee.sats
      /\ \A i \in 1 .. l : ins[i + 1].coin = burn[i] /\ ins[i + 1].sats = 0
  BY Zenon DEF RedeemMade
<1>2. rest \in Nat
  BY Zenon DEF RedeemMade
<1>3. PICK change \in Nat : RedeemLaid(outs, 5 * Fold, Home, rest, change, Received)
  BY Zenon DEF RedeemMade
<1>4. /\ DOMAIN outs = 1 .. m /\ m = 1 + (IF rest > 0 THEN 2 ELSE 0) + (IF change > 0 THEN 1 ELSE 0)
      /\ outs[1] = a /\ (rest > 0 => outs[2] = b /\ outs[3] = c)
      /\ (change > 0 => outs[m] = Out(change, Received))
  BY <1>3, Zenon DEF RedeemLaid
<1>0. SatsIn(ins) - SatsIn(outs) >= 0
  BY PaysItself, Units
<1> HIDE DEF ins, outs, a, b, c, position, rest, l
<1>5. /\ m \in Nat /\ m >= 1
      /\ \A v \in 1 .. m : outs[v] \in {a, b, c, Out(change, Received)}
  <2>1. m \in Nat /\ m >= 1 /\ \A v \in 1 .. m : v = 1 \/ (v \in {2, 3} /\ rest > 0) \/ (v = m /\ change > 0)
    <3> HIDE DEF m
    <3> QED BY <1>2, <1>4
  <2> QED BY <1>4, <2>1
<1> HIDE DEF m
<1>6. l \in Nat /\ n \in Nat /\ n >= 2 /\ \A i \in 2 .. n : i = n \/ \E j \in 1 .. l : i = j + 1
  <2>1. l \in Nat
    BY DEF l
  <2>2. ASSUME NEW i \in 2 .. n, i # n PROVE i - 1 \in 1 .. l /\ (i - 1) + 1 = i
    BY <2>1, <2>2
  <2> QED BY <2>1, <2>2
<1>7. a.sats = 5 * Fold /\ a.script = P2tr(Home) /\ b.sats = 0 /\ b.script = P2tr(Home)
      /\ c.sats = 0 /\ c.script.shape = "data"
  BY OutHolds, DataScript DEF a, b, c
<1>8. Out(change, Received).sats = change /\ Out(change, Received).script = P2tr(Home)
  BY OutHolds DEF Received
<1>9. IsMine(P2tr(Home), OurKeys) /\ P2tr(Home).shape = "p2tr" /\ Home \in OurKeys
  BY KeyScript DEF OurKeys
<1>10. ASSUME NEW v \in 1 .. m
       PROVE  /\ outs[v].sats \in Int
              /\ outs[v].script.shape = "data" => outs[v].sats = 0
              /\ outs[v].script.shape = "data" \/ IsMine(outs[v].script, OurKeys)
  <2>1. 5 * Fold \in Int /\ change \in Int /\ 0 \in Int
    BY Units
  <2> QED BY <1>5, <1>7, <1>8, <1>9, <2>1
<1>11. /\ SatsOf(position) = 5 * Fold /\ ~IsMine(LockOf(position), OurKeys)
  <2>1. position.sats = 5 * Fold /\ position.script = CollateralScript(Home, Tip, need)
        /\ "script" \in DOMAIN position /\ "sats" \in DOMAIN position
    BY DEF position, PositionOf
  <2> QED BY <2>1, MintScript DEF SatsOf, LockOf
<1>12. ASSUME NEW i \in 2 .. n
       PROVE  /\ ins[i].sats \in Int /\ ins[i].sats = SatsOf(ins[i].coin)
              /\ IsMine(LockOf(ins[i].coin), OurKeys)
  <2>1. CASE i = n
    <3>1. SatsOf(fee) = fee.sats /\ fee.sats \in Nat /\ IsMine(LockOf(fee), OurKeys)
      BY OurLocks
    <3> QED BY <1>1, <2>1, <3>1
  <2>2. ASSUME NEW j \in 1 .. l, i = j + 1
        PROVE  /\ ins[i].sats \in Int /\ ins[i].sats = SatsOf(ins[i].coin)
               /\ IsMine(LockOf(ins[i].coin), OurKeys)
    <3>1. burn[j] \in DdOf(OurKeys)
      BY <1>9 DEF DdOf, l
    <3>2. SatsOf(burn[j]) = 0 /\ IsMine(LockOf(burn[j]), OurKeys)
      BY <3>1, OurLocks
    <3>3. ins[i].coin = burn[j] /\ ins[i].sats = 0
      BY <1>1, <2>2
    <3> QED BY <3>2, <3>3
  <2> QED BY <1>6, <2>1, <2>2
<1>13. OwnTx(tx, n, m)
  <2>1. \A i \in 1 .. n : ins[i].sats \in Int /\ ins[i].sats = SatsOf(ins[i].coin)
    <3>1. ins[1].sats \in Int /\ ins[1].sats = SatsOf(ins[1].coin)
      BY <1>1, <1>11, Units
    <3>2. \A i \in 1 .. n : i = 1 \/ i \in 2 .. n
      BY <1>6
    <3> QED BY <1>12, <3>1, <3>2
  <2>2. Len(outs) = m
    BY DEF m
  <2> QED BY <1>0, <1>1, <1>4, <1>10, <2>1, <2>2, Zenon DEF OwnTx, ins, outs
<1>14. OwnRow(tx, n)
  <2>1. MineIn(ins) = 2 .. n
    <3>1. \A i \in 1 .. n : i = 1 \/ i \in 2 .. n
      BY <1>6
    <3>2. 2 .. n \subseteq 1 .. n /\ 1 \notin 2 .. n
      BY <1>6
    <3> QED BY <1>1, <1>11, <1>12, <3>1, <3>2, Zenon DEF MineIn
  <2>2. OthersAmong(outs, OurKeys) = {}
    BY <1>4, <1>10 DEF OthersAmong
  <2>3. 1 \in MineAmong(outs, OurKeys) /\ outs[1].sats = ins[1].sats
    BY <1>1, <1>4, <1>5, <1>7, <1>9 DEF MineAmong
  <2> QED BY <1>1, <1>6, <2>1, <2>2, <2>3, Zenon DEF OwnRow, ins, outs
<1> QED BY <1>5, <1>6, <1>13, <1>14, RowIsSound, Zenon

-----------------------------------------------------------------------------
(* The cents that are read *)

FunSum(f, T) == MapThenSumSet(LAMBDA v : f[v], T)

LEMMA FunSumOfFew ==
    ASSUME NEW f, NEW v, f[v] \in Int
    PROVE  FunSum(f, {}) = 0 /\ FunSum(f, {v}) = f[v]
<1> DEFINE S == {v}
           h == [x \in S |-> f[x]]
<1>0. IsFiniteSet(S)
  BY FS_Singleton
<1>1. h \in [S -> Int]
  OBVIOUS
<1>2. PICK g \in [SUBSET S -> Int] : SumsOf(g, S, h)
  <2> HIDE DEF h, S
  <2> QED BY <1>0, <1>1, SumExists
<1> HIDE DEF S
<1>3. ASSUME NEW T \in SUBSET S PROVE FunSum(f, T) = g[T]
  <2> DEFINE Sum(H) == H = [s \in SUBSET T |-> IF s = {} THEN 0 ELSE f[CHOOSE x \in s : TRUE]
                                               + H[s \ {CHOOSE x \in s : TRUE}]]
  <2>1. ASSUME NEW H PROVE Sum(H) <=> Summing(H, T, h)
    <3>1. \A s \in SUBSET T : s # {} => f[CHOOSE x \in s : TRUE] = h[CHOOSE x \in s : TRUE]
      <4> SUFFICES ASSUME NEW s \in SUBSET T, s # {} PROVE (CHOOSE x \in s : TRUE) \in S
        OBVIOUS
      <4> QED OBVIOUS
    <3>2. [s \in SUBSET T |-> IF s = {} THEN 0 ELSE f[CHOOSE x \in s : TRUE]
                                               + H[s \ {CHOOSE x \in s : TRUE}]]
          = [s \in SUBSET T |-> IF s = {} THEN 0 ELSE h[CHOOSE x \in s : TRUE]
                                               + H[s \ {CHOOSE x \in s : TRUE}]]
      <4> HIDE DEF h
      <4> QED BY <3>1
    <3> HIDE DEF h
    <3> QED BY <3>2, Zenon DEF Summing
  <2>2. FunSum(f, T) = (CHOOSE H : Sum(H))[T]
    BY Zenon DEF FunSum, MapThenSumSet, MapThenFoldSet
  <2> HIDE DEF Sum, h
  <2>3. \E H : Sum(H)
    BY <1>2, <2>1 DEF SumsOf
  <2>4. Sum(CHOOSE H : Sum(H))
    BY <2>3, Zenon
  <2> QED BY <1>2, <2>1, <2>2, <2>4 DEF SumsOf
<1>4. S \in SUBSET S /\ {} \in SUBSET S /\ v \in S /\ S \ {v} = {} /\ S = {v}
  BY DEF S
<1>5. h[v] = f[v]
  BY <1>4
<1> HIDE DEF h
<1>6. g[{}] = 0 /\ g[S] = h[v] + g[S \ {v}]
  BY <1>2, <1>4 DEF SumsOf
<1>7. g[S] = f[v]
  <2>1. g[S \ {v}] = 0
    BY <1>4, <1>6, Zenon
  <2>2. f[v] + 0 = f[v]
    OBVIOUS
  <2> QED BY <1>5, <1>6, <2>1, <2>2, Zenon
<1> QED BY <1>3, <1>4, <1>6, <1>7, Zenon

\* The tokens of a transaction and its one metadata output; those before a token.
Tokened(tx, d, amounts, tokens) ==
    /\ tx.body.version # "plain" /\ OpReturns(tx) = {d} /\ tx.body.outs[d].script.data = amounts
    /\ DdVouts(tx.body.outs) = tokens

Placed(tx, amounts, tokens) ==
    DdAmountsByVout(tx) =
        [v \in {u \in tokens : Cardinality({w \in tokens : w <= u}) <= Len(amounts)} |->
            amounts[Cardinality({w \in tokens : w <= v})]]

LEMMA AmountsByVout ==
    ASSUME NEW tx, NEW d \in Nat, NEW amounts, NEW tokens, Tokened(tx, d, amounts, tokens)
    PROVE  Placed(tx, amounts, tokens)
<1>1. Min({d}) = d /\ {d} # {}
  BY LastIs
<1>2. tx.body.version # "plain" /\ OpReturns(tx) = {d} /\ tx.body.outs[d].script.data = amounts
      /\ DdVouts(tx.body.outs) = tokens
  BY Zenon DEF Tokened
<1>3. MetadataOf(tx).data = amounts
  BY <1>1, <1>2, Zenon DEF MetadataOf
<1>4. (IF OpReturns(tx) = {} \/ tx.body.version = "plain" THEN <<>> ELSE MetadataOf(tx).data) = amounts
  BY <1>1, <1>2, <1>3, Zenon
<1> QED BY <1>2, <1>4, Zenon DEF DdAmountsByVout, Placed

\* All outputs up to the k-th: each holds the amount at its own place.
LEMMA FirstHold ==
    ASSUME NEW tx, NEW d \in Nat, NEW amounts, NEW k \in Nat, Len(amounts) = k, Tokened(tx, d, amounts, 1 .. k)
    PROVE  DdAmountsByVout(tx) = [v \in 1 .. k |-> amounts[v]]
<1>1. ASSUME NEW v \in 1 .. k PROVE Cardinality({w \in 1 .. k : w <= v}) = v
  <2>1. {w \in 1 .. k : w <= v} = 1 .. v
    OBVIOUS
  <2>2. Cardinality(1 .. v) = v
    BY FS_Interval
  <2> QED BY <2>1, <2>2
<1> DEFINE place == [v \in 1 .. k |-> Cardinality({w \in 1 .. k : w <= v})]
<1>2. DdAmountsByVout(tx) = [v \in {u \in 1 .. k : place[u] <= Len(amounts)} |-> amounts[place[v]]]
  <2>1. DdAmountsByVout(tx) =
            [v \in {u \in 1 .. k : Cardinality({w \in 1 .. k : w <= u}) <= Len(amounts)} |->
                amounts[Cardinality({w \in 1 .. k : w <= v})]]
    <3>1. Placed(tx, amounts, 1 .. k)
      BY AmountsByVout, Zenon
    <3> QED BY <3>1, Zenon DEF Placed
  <2>2. \A v \in 1 .. k : place[v] = Cardinality({w \in 1 .. k : w <= v})
    OBVIOUS
  <2> HIDE DEF place
  <2> QED BY <2>1, <2>2
<1>3. \A v \in 1 .. k : place[v] = v
  BY <1>1
<1> HIDE DEF place
<1>4. {u \in 1 .. k : place[u] <= Len(amounts)} = 1 .. k
  BY <1>3
<1> QED BY <1>2, <1>3, <1>4

\* One token, wherever it is, holds the one amount.
LEMMA OneHolds ==
    ASSUME NEW tx, NEW d \in Nat, NEW cents, NEW t \in Nat, Tokened(tx, d, <<cents>>, {t})
    PROVE  DdAmountsByVout(tx) = [v \in {t} |-> cents]
<1> DEFINE place == [v \in {t} |-> Cardinality({w \in {t} : w <= v})]
<1>1. place[t] = 1
  <2>1. {w \in {t} : w <= t} = {t}
    OBVIOUS
  <2>2. Cardinality({t}) = 1
    BY LastIs
  <2> QED BY <2>1, <2>2
<1>2. DdAmountsByVout(tx) = [v \in {u \in {t} : place[u] <= Len(<<cents>>)} |-> <<cents>>[place[v]]]
  <2>1. DdAmountsByVout(tx) =
            [v \in {u \in {t} : Cardinality({w \in {t} : w <= u}) <= Len(<<cents>>)} |->
                <<cents>>[Cardinality({w \in {t} : w <= v})]]
    <3>1. Placed(tx, <<cents>>, {t})
      BY AmountsByVout, Zenon
    <3> QED BY <3>1, Zenon DEF Placed
  <2>2. \A v \in {t} : place[v] = Cardinality({w \in {t} : w <= v})
    OBVIOUS
  <2> HIDE DEF place
  <2> QED BY <2>1, <2>2
<1> HIDE DEF place
<1>3. Len(<<cents>>) = 1 /\ <<cents>>[1] = cents
  OBVIOUS
<1>4. {u \in {t} : place[u] <= Len(<<cents>>)} = {t}
  BY <1>1, <1>3
<1> QED BY <1>1, <1>2, <1>3, <1>4

LEMMA ReadsOne ==
    ASSUME NEW tx, NEW A, DdAmountsByVout(tx) = A, NEW key, NEW v, A[v] \in Int,
           {u \in DOMAIN A : tx.body.outs[u].script = P2tr(key)} = {v}
    PROVE  CentsRead(tx, key, A[v])
<1> DEFINE utxos == [u \in {v} |-> A[u]]
<1>1. DdUtxos(tx, P2tr(key)) = utxos
  BY Zenon DEF DdUtxos
<1>2. utxos[v] = A[v] /\ DOMAIN utxos = {v}
  OBVIOUS
<1> HIDE DEF utxos
<1>3. FunSum(utxos, {v}) = A[v]
  BY <1>2, FunSumOfFew
<1>4. FunSum(DdUtxos(tx, P2tr(key)), DOMAIN DdUtxos(tx, P2tr(key))) = A[v]
  BY <1>1, <1>2, <1>3, Zenon
<1> QED BY <1>4 DEF CentsRead, FunSum

LEMMA ReadsNone ==
    ASSUME NEW tx, NEW A, DdAmountsByVout(tx) = A, NEW key,
           \A u \in DOMAIN A : tx.body.outs[u].script # P2tr(key)
    PROVE  CentsRead(tx, key, 0)
<1> DEFINE mine == {u \in DOMAIN A : tx.body.outs[u].script = P2tr(key)}
           utxos == [u \in mine |-> A[u]]
           zero == [u \in {0} |-> 0]
<1>0. mine = {}
  OBVIOUS
<1>1. DdUtxos(tx, P2tr(key)) = utxos
  BY Zenon DEF DdUtxos
<1>2. DOMAIN utxos = {}
  BY <1>0
<1> HIDE DEF utxos
<1>3. FunSum(utxos, {}) = 0
  <2> DEFINE Sum(f, H) == H = [s \in SUBSET {} |-> IF s = {} THEN 0 ELSE f[CHOOSE x \in s : TRUE]
                                                    + H[s \ {CHOOSE x \in s : TRUE}]]
             none == [s \in SUBSET {} |-> 0]
  <2>1. ASSUME NEW f PROVE \A H : Sum(f, H) <=> H = none
    OBVIOUS
  <2>2. FunSum(utxos, {}) = (CHOOSE H : Sum(utxos, H))[{}]
    BY Zenon DEF FunSum, MapThenSumSet, MapThenFoldSet
  <2> HIDE DEF Sum, none
  <2>3. (CHOOSE H : Sum(utxos, H)) = none
    BY <2>1
  <2>4. none[{}] = 0
    BY DEF none
  <2> QED BY <2>2, <2>3, <2>4, Zenon
<1>4. FunSum(DdUtxos(tx, P2tr(key)), DOMAIN DdUtxos(tx, P2tr(key))) = 0
  BY <1>1, <1>2, <1>3, Zenon
<1> QED BY <1>4 DEF CentsRead, FunSum

\* The receiver reads what was sent, the sender the change.
LEMMA TransferCents ==
    ASSUME NEW tx, NEW K, NEW coin \in DdOf(K), NEW fee, NEW to, to # coin.key, NEW cents \in Nat,
           coin.cents >= cents, TransferMade(tx, coin, fee, to, cents), TransferSound(tx, to, cents)
    PROVE  CentsRead(tx, to, cents) /\ CentsRead(tx, coin.key, coin.cents - cents)
<1> DEFINE outs == tx.body.outs
           m == Len(outs)
           rest == coin.cents - cents
           amounts == Amounts2(cents, rest)
           k == IF rest > 0 THEN 2 ELSE 1
<1>0. rest \in Nat
  BY DEF DdOf
<1>1. PICK change \in Nat : Laid(outs, to, cents, rest, coin.key, change, P2tr(coin.key))
  BY Zenon DEF TransferMade
<1> HIDE DEF rest
<1>2. /\ DOMAIN outs = 1 .. m /\ m = k + (IF change > 0 THEN 1 ELSE 0) + 1
      /\ outs[1] = Out(0, P2tr(to)) /\ (rest > 0 => outs[2] = Out(0, P2tr(coin.key)))
      /\ outs[m] = Out(0, Data(amounts))
  BY <1>1, Zenon DEF Laid
<1>3. /\ Len(amounts) = k /\ amounts[1] = cents /\ (rest > 0 => amounts[2] = rest) /\ k \in {1, 2}
  BY <1>0, AmountsAre
<1> HIDE DEF outs, amounts
<1>4. m \in Nat
  BY <1>2
<1> HIDE DEF m
<1>5. DdAmountsByVout(tx) = [v \in 1 .. k |-> amounts[v]]
  <2>1. /\ Metadata(tx) = {m} /\ Tokens(tx) = 1 .. Len(AmountsOf(tx))
    BY Zenon DEF TransferSound, m, outs
  <2>2. OpReturns(tx) = {m} /\ DdVouts(outs) = Tokens(tx)
    BY <1>2, <2>1, Zenon DEF Metadata, OpReturns, Tokens, DdVouts, m, outs
  <2>3. outs[m].script.data = amounts
    BY <1>2, OutHolds, DataScript
  <2>4. AmountsOf(tx) = amounts
    <3>1. Min({m}) = m /\ {m} # {}
      BY <1>4, LastIs
    <3> QED BY <2>1, <2>3, <3>1, Zenon DEF AmountsOf, outs
  <2>5. tx.body.version # "plain"
    <3>1. tx.body.version = "transfer"
      BY Zenon DEF TransferMade
    <3> QED BY <3>1
  <2>6. Tokened(tx, m, amounts, 1 .. k)
    BY <1>3, <2>1, <2>2, <2>3, <2>4, <2>5, Zenon DEF Tokened, outs
  <2>7. k \in Nat
    OBVIOUS
  <2> HIDE DEF k
  <2> QED BY <1>3, <1>4, <2>6, <2>7, FirstHold
<1> DEFINE A == [v \in 1 .. k |-> amounts[v]]
<1>6. /\ P2tr(to) # P2tr(coin.key)
      /\ outs[1].script = P2tr(to) /\ (rest > 0 => outs[2].script = P2tr(coin.key))
  <2>1. P2tr(to).key = to /\ P2tr(coin.key).key = coin.key
    BY KeyScript
  <2> QED BY <1>2, <2>1, OutHolds
<1>7. \A u \in 1 .. k : u = 1 \/ (u = 2 /\ rest > 0)
  OBVIOUS
<1>8. DOMAIN A = 1 .. k /\ A[1] = cents /\ (rest > 0 => A[2] = rest)
  BY <1>3
<1> HIDE DEF A
<1>9. CentsRead(tx, to, cents)
  <2>1. {u \in DOMAIN A : outs[u].script = P2tr(to)} = {1}
    <3>1. 1 \in 1 .. k
      OBVIOUS
    <3> HIDE DEF k
    <3> QED BY <1>6, <1>7, <1>8, <3>1
  <2>2. A[1] \in Int
    BY <1>8
  <2>3. DdAmountsByVout(tx) = A
    BY <1>5 DEF A
  <2>4. CentsRead(tx, to, A[1])
    BY <2>1, <2>2, <2>3, ReadsOne, Zenon DEF outs
  <2> QED BY <1>8, <2>4, Zenon
<1>10. CentsRead(tx, coin.key, rest)
  <2>0. DdAmountsByVout(tx) = A
    BY <1>5 DEF A
  <2>1. CASE rest > 0
    <3>1. {u \in DOMAIN A : outs[u].script = P2tr(coin.key)} = {2}
      <4>1. 2 \in 1 .. k
        BY <2>1
      <4> HIDE DEF k
      <4> QED BY <1>6, <1>7, <1>8, <2>1, <4>1
    <3>2. A[2] \in Int
      BY <1>0, <1>8, <2>1
    <3>3. CentsRead(tx, coin.key, A[2])
      BY <2>0, <3>1, <3>2, ReadsOne, Zenon DEF outs
    <3> QED BY <1>8, <2>1, <3>3, Zenon
  <2>2. CASE ~(rest > 0)
    <3>1. \A u \in DOMAIN A : outs[u].script # P2tr(coin.key)
      BY <1>6, <1>7, <1>8, <2>2
    <3>2. CentsRead(tx, coin.key, 0)
      BY <2>0, <3>1, ReadsNone, Zenon DEF outs
    <3>3. rest = 0
      BY <1>0, <2>2
    <3> QED BY <3>2, <3>3, Zenon
  <2> QED BY <2>1, <2>2
<1> QED BY <1>9, <1>10 DEF rest

\* What is read is read of the tokens.
LEMMA OnlyTokens ==
    ASSUME NEW tx
    PROVE  DOMAIN DdAmountsByVout(tx) \subseteq DdVouts(tx.body.outs)
<1> DEFINE outs == tx.body.outs
           amounts == IF OpReturns(tx) = {} \/ tx.body.version = "plain" THEN <<>> ELSE MetadataOf(tx).data
           place(v) == Cardinality({u \in DdVouts(outs) : u <= v})
<1>1. DdAmountsByVout(tx) = [v \in {u \in DdVouts(outs) : place(u) <= Len(amounts)} |-> amounts[place(v)]]
  BY Zenon DEF DdAmountsByVout
<1> HIDE DEF amounts, place
<1>2. DOMAIN DdAmountsByVout(tx) = {u \in DdVouts(outs) : place(u) <= Len(amounts)}
  BY <1>1, Zenon
<1> QED BY <1>2, Zenon

\* What a redemption burns beyond its need stays with the position's key.
LEMMA RedeemCents ==
    ASSUME NEW tx, NEW need, NEW burn, NEW fee, RedeemMade(tx, need, burn, fee)
    PROVE  CentsRead(tx, Home, InCents(tx) - need)
<1> DEFINE outs == tx.body.outs
           m == Len(outs)
           rest == InCents(tx) - need
           a == Out(5 * Fold, P2tr(Home))
           b == Out(0, P2tr(Home))
           c == Out(0, Data(<<rest>>))
<1>1. rest \in Nat /\ tx.body.version = "redeem"
  BY Zenon DEF RedeemMade
<1>2. PICK change \in Nat : RedeemLaid(outs, 5 * Fold, Home, rest, change, Received)
  BY Zenon DEF RedeemMade
<1> DEFINE d == Out(change, Received)
<1>3. /\ DOMAIN outs = 1 .. m /\ m = 1 + (IF rest > 0 THEN 2 ELSE 0) + (IF change > 0 THEN 1 ELSE 0)
      /\ outs[1] = a /\ (rest > 0 => outs[2] = b /\ outs[3] = c)
      /\ (change > 0 => outs[m] = d)
  BY <1>2, Zenon DEF RedeemLaid
<1> HIDE DEF outs, rest
<1>4. /\ a.sats = 5 * Fold /\ a.script.shape = "p2tr"
      /\ b.sats = 0 /\ b.script = P2tr(Home) /\ b.script.shape = "p2tr"
      /\ c.sats = 0 /\ c.script.shape = "data" /\ c.script.data = <<rest>>
      /\ d.sats = change /\ d.script.shape = "p2tr"
  BY OutHolds, DataScript, KeyScript DEF Received
<1>5. 5 * Fold # 0
  BY Units
<1> HIDE DEF a, b, c, d
<1>6. /\ m \in Nat
      /\ \A v \in 1 .. m :
            /\ outs[v] = a \/ outs[v] = b \/ outs[v] = c \/ (outs[v] = d /\ change > 0)
            /\ outs[v] = b => rest > 0 /\ v = 2
            /\ outs[v] = c => rest > 0 /\ v = 3
  <2>1. m \in Nat /\ \A v \in 1 .. m : v = 1 \/ (v = 2 /\ rest > 0) \/ (v = 3 /\ rest > 0) \/ (v = m /\ change > 0)
    <3> HIDE DEF m
    <3> QED BY <1>1, <1>3
  <2>2. a # b /\ a # c /\ b # c /\ (change > 0 => d # b /\ d # c)
    BY <1>4, <1>5
  <2> HIDE DEF m
  <2> QED BY <1>3, <2>1, <2>2
<1>7. ASSUME NEW v \in 1 .. m
      PROVE  /\ outs[v].sats = 0 /\ outs[v].script.shape = "p2tr" => rest > 0 /\ v = 2
             /\ outs[v].script.shape = "data" => rest > 0 /\ v = 3
  BY <1>4, <1>5, <1>6
<1>8. CASE rest > 0
  <2>1. 2 \in 1 .. m /\ 3 \in 1 .. m /\ m \in Nat
    <3> HIDE DEF m
    <3> QED BY <1>3, <1>6, <1>8
  <2> HIDE DEF m
  <2>2. DdVouts(outs) = {2} /\ OpReturns(tx) = {3}
    <3>1. DdVouts(outs) = {2}
      BY <1>3, <1>4, <1>7, <1>8, <2>1 DEF DdVouts
    <3>2. {v \in 1 .. m : outs[v].script.shape = "data"} = {3}
      BY <1>3, <1>4, <1>7, <1>8, <2>1
    <3> QED BY <1>3, <3>1, <3>2, Zenon DEF OpReturns, outs
  <2>3. outs[3].script.data = <<rest>> /\ outs[2].script = P2tr(Home)
    BY <1>3, <1>4, <1>8
  <2>4. Tokened(tx, 3, <<rest>>, {2})
    <3>1. tx.body.version # "plain"
      BY <1>1
    <3> QED BY <2>2, <2>3, <3>1, Zenon DEF Tokened, outs
  <2> DEFINE A == [v \in {2} |-> rest]
  <2>5. DdAmountsByVout(tx) = A
    <3>1. 3 \in Nat /\ 2 \in Nat
      OBVIOUS
    <3> QED BY <2>4, <3>1, OneHolds
  <2>6. A[2] = rest /\ rest \in Int /\ {u \in DOMAIN A : outs[u].script = P2tr(Home)} = {2}
    BY <1>1, <2>3
  <2> HIDE DEF A
  <2>7. CentsRead(tx, Home, A[2])
    BY <2>5, <2>6, ReadsOne, Zenon DEF outs
  <2> QED BY <2>6, <2>7, Zenon DEF rest
<1>9. CASE ~(rest > 0)
  <2>1. DdVouts(outs) = {}
    BY <1>3, <1>7, <1>9 DEF DdVouts
  <2>2. \A u \in DOMAIN DdAmountsByVout(tx) : tx.body.outs[u].script # P2tr(Home)
    BY <2>1, OnlyTokens, Zenon DEF outs
  <2>3. CentsRead(tx, Home, 0)
    BY <2>2, ReadsNone, Zenon
  <2>4. rest = 0
    BY <1>1, <1>9
  <2> QED BY <2>3, <2>4, Zenon DEF rest
<1> QED BY <1>8, <1>9

\* A mint has one token, its owner's, and one position that bears its owner's key.
Minted(tx, owner, cents, collateral) ==
    LET unlock == Tip + 1 + 100 + LockBlocks
        outs == tx.body.outs
    IN /\ tx.body.version = "mint"
       /\ outs[1] = Out(collateral, CollateralScript(owner, unlock, cents))
       /\ outs[2].script = P2tr(owner) /\ outs[3].script = MintData(owner, unlock, cents)
       /\ DdVouts(outs) = {2} /\ OpReturns(tx) = {3}

LEMMA MintedIs ==
    ASSUME NEW tx, NEW coin, NEW owner, NEW cents, NEW collateral \in Nat \ {0},
           MintMade(tx, coin, owner, cents, collateral)
    PROVE  Minted(tx, owner, cents, collateral)
<1> DEFINE outs == tx.body.outs
           m == Len(outs)
           unlock == Tip + 1 + 100 + LockBlocks
           a == Out(collateral, CollateralScript(owner, unlock, cents))
           b == Out(0, P2tr(owner))
           c == Out(0, MintData(owner, unlock, cents))
<1>1. /\ tx.body.version = "mint" /\ DOMAIN outs = 1 .. m /\ outs[1] = a /\ outs[2] = b /\ outs[3] = c
  BY Zenon DEF MintMade
<1>2. PICK change \in Nat : m = (IF change > 0 THEN 4 ELSE 3) /\ (change > 0 => outs[4] = Out(change, P2wpkh(coin.key)))
  BY Zenon DEF MintMade
<1> DEFINE d == Out(change, P2wpkh(coin.key))
<1> HIDE DEF unlock
<1>3. /\ a.sats = collateral /\ a.script.shape = "p2tr"
      /\ b.sats = 0 /\ b.script = P2tr(owner) /\ b.script.shape = "p2tr"
      /\ c.sats = 0 /\ c.script = MintData(owner, unlock, cents) /\ c.script.shape = "data"
      /\ d.script.shape = "p2wpkh"
  <2>1. d.script.shape = "p2wpkh"
    BY OutHolds DEF P2wpkh, Script
  <2> QED BY <2>1, OutHolds, KeyScript, MintScript
<1> HIDE DEF outs, a, b, c, d
<1>4. /\ 1 \in 1 .. m /\ 2 \in 1 .. m /\ 3 \in 1 .. m
      /\ \A v \in 1 .. m : v = 1 \/ v = 2 \/ v = 3 \/ (v = 4 /\ outs[v] = d)
  <2>1. \A v \in 1 .. m : v = 1 \/ v = 2 \/ v = 3 \/ (v = 4 /\ change > 0)
    <3> HIDE DEF m
    <3> QED BY <1>2
  <2>2. 1 \in 1 .. m /\ 2 \in 1 .. m /\ 3 \in 1 .. m
    <3> HIDE DEF m
    <3> QED BY <1>2
  <2> HIDE DEF m
  <2> QED BY <1>2, <2>1, <2>2 DEF d
<1> HIDE DEF m
<1>5. DdVouts(outs) = {2}
  BY <1>1, <1>3, <1>4 DEF DdVouts
<1>6. {v \in 1 .. m : outs[v].script.shape = "data"} = {3}
  BY <1>1, <1>3, <1>4
<1>7. OpReturns(tx) = {3}
  BY <1>1, <1>6, Zenon DEF OpReturns, outs
<1> QED BY <1>1, <1>3, <1>5, <1>7, Zenon DEF Minted, outs, a, unlock

LEMMA MintCents ==
    ASSUME NEW tx, NEW owner, NEW cents \in Nat, NEW collateral, Minted(tx, owner, cents, collateral)
    PROVE  CentsRead(tx, owner, cents)
<1> DEFINE outs == tx.body.outs
           unlock == Tip + 1 + 100 + LockBlocks
           A == [v \in {2} |-> cents]
<1>1. /\ tx.body.version = "mint" /\ outs[2].script = P2tr(owner)
      /\ outs[3].script = MintData(owner, unlock, cents) /\ DdVouts(outs) = {2} /\ OpReturns(tx) = {3}
  BY Zenon DEF Minted
<1>2. outs[3].script.data = <<cents>>
  BY <1>1, MintScript
<1>3. Tokened(tx, 3, <<cents>>, {2})
  <2>1. tx.body.version # "plain"
    BY <1>1
  <2> QED BY <1>1, <1>2, <2>1, Zenon DEF Tokened
<1>4. DdAmountsByVout(tx) = A
  <2>1. 3 \in Nat /\ 2 \in Nat
    OBVIOUS
  <2> QED BY <1>3, <2>1, OneHolds
<1>5. A[2] = cents /\ {u \in DOMAIN A : outs[u].script = P2tr(owner)} = {2}
  BY <1>1
<1> HIDE DEF A
<1>6. A[2] \in Int
  BY <1>5
<1>7. CentsRead(tx, owner, A[2])
  BY <1>4, <1>5, <1>6, ReadsOne, Zenon
<1> QED BY <1>5, <1>7, Zenon

Opened(tx, owner, cents, collateral, other, spent) ==
    LET unlock == Tip + 1 + 100 + LockBlocks
        position == [cents |-> cents, lock |-> unlock, key |-> owner, sats |-> collateral]
    IN OpenPositions(tx, P2tr(other), spent) = IF other = owner /\ 1 \notin spent THEN {position} ELSE {}

LEMMA MintOpens ==
    ASSUME NEW tx, NEW owner, NEW cents, NEW collateral, Minted(tx, owner, cents, collateral), NEW other, NEW spent
    PROVE  Opened(tx, owner, cents, collateral, other, spent)
<1> DEFINE outs == tx.body.outs
           unlock == Tip + 1 + 100 + LockBlocks
           meta == MintData(owner, unlock, cents)
           leaf == Leaf("normal", owner, unlock, cents)
           position == [cents |-> cents, lock |-> unlock, key |-> owner, sats |-> collateral]
           opened == {[cents |-> f[4], lock |-> f[3], key |-> meta.key, sats |-> outs[1].sats] :
                         f \in {l \in meta.leaves : P2tr(meta.key) = P2tr(other) /\ 1 \notin spent}}
<1>1. /\ tx.body.version = "mint" /\ outs[3].script = meta /\ OpReturns(tx) = {3}
      /\ outs[1] = Out(collateral, CollateralScript(owner, unlock, cents))
  BY Zenon DEF Minted
<1>2. MetadataOf(tx) = meta
  <2>1. Min({3}) = 3
    BY LastIs
  <2> QED BY <1>1, <2>1, Zenon DEF MetadataOf
<1>3. OpenPositions(tx, P2tr(other), spent) = opened
  <2>1. OpReturns(tx) # {}
    BY <1>1
  <2> HIDE DEF meta
  <2> QED BY <1>1, <1>2, <2>1, Zenon DEF OpenPositions
<1>4. meta.key = owner /\ meta.leaves = {leaf} /\ outs[1].sats = collateral
  BY <1>1, MintScript, OutHolds
<1>5. leaf[4] = cents /\ leaf[3] = unlock
  BY DEF Leaf
<1>6. P2tr(owner) = P2tr(other) <=> other = owner
  <2>1. P2tr(owner).key = owner /\ P2tr(other).key = other
    BY KeyScript
  <2> QED BY <2>1
<1> HIDE DEF meta, leaf, outs, unlock
<1>7. opened = IF other = owner /\ 1 \notin spent THEN {position} ELSE {}
  <2>1. CASE other = owner /\ 1 \notin spent
    <3>1. {l \in meta.leaves : P2tr(meta.key) = P2tr(other) /\ 1 \notin spent} = {leaf}
      BY <1>4, <1>6, <2>1
    <3>2. opened = {position}
      BY <1>4, <1>5, <3>1
    <3> QED BY <2>1, <3>2
  <2>2. CASE ~(other = owner /\ 1 \notin spent)
    <3>1. {l \in meta.leaves : P2tr(meta.key) = P2tr(other) /\ 1 \notin spent} = {}
      BY <1>4, <1>6, <2>2
    <3>2. opened = {}
      BY <3>1
    <3> QED BY <2>2, <3>2
  <2> QED BY <2>1, <2>2
<1> QED BY <1>3, <1>7, Zenon DEF unlock, Opened

-----------------------------------------------------------------------------
(* What is built is read back *)

\* A transfer: the receiver reads the cents that were asked for, the sender the rest, no
\* position is opened, and the row of the history is sound.
THEOREM TransfersAreRead ==
    ASSUME NEW S, Coins(S), S \subseteq DgbOf(OurKeys), NEW D, DdCoins(D), D \subseteq DdOf(OurKeys),
           \A c \in D : c.key # Payee
    PROVE  TransfersRead(S, D)
<1> SUFFICES ASSUME NEW cents \in Needs, NEW p, p = PlanTransfer(S, D, cents), p # NoPlan, cents >= MinDd
             PROVE  LET tx == ConfirmedTransfer(p)
                    IN /\ CentsRead(tx, Payee, cents) /\ CentsRead(tx, p.coin.key, p.coin.cents - cents)
                       /\ OpenPositions(tx, P2tr(p.coin.key), {}) = {} /\ RowSound(tx)
  BY Zenon DEF TransfersRead
<1> DEFINE tx == ConfirmedTransfer(p)
<1>1. /\ p.coin \in D /\ p.fee \in S /\ p.coin.cents >= cents
      /\ TransferSound(tx, Payee, cents) /\ TransferMade(tx, p.coin, p.fee, Payee, cents)
  BY TransferIsBuilt
<1>2. /\ p.coin \in DdOf(OurKeys) /\ p.fee \in DgbOf(OurKeys) /\ Payee # p.coin.key /\ cents \in Nat
  BY <1>1, TxPlanAssumption
<1> HIDE DEF tx
<1>3. CentsRead(tx, Payee, cents) /\ CentsRead(tx, p.coin.key, p.coin.cents - cents)
  BY <1>1, <1>2, TransferCents
<1>4. RowSound(tx)
  <2>1. Accepted(tx, DdFee, NoLeaf)
    BY <1>1, Zenon DEF TransferSound
  <2> QED BY <1>1, <1>2, <2>1, TransferRow
<1>5. OpenPositions(tx, P2tr(p.coin.key), {}) = {}
  <2>1. tx.body.version # "mint"
    <3>1. tx.body.version = "transfer"
      BY <1>1, Zenon DEF TransferMade
    <3> QED BY <3>1
  <2> QED BY <2>1, Zenon DEF OpenPositions
<1> QED BY <1>3, <1>4, <1>5, Zenon DEF tx

\* A redemption: its key reads what it burned beyond the need, and the row is sound.
THEOREM RedeemsAreRead ==
    ASSUME NEW S, Coins(S), S \subseteq DgbOf(OurKeys), NEW D, DdCoins(D), D \subseteq DdOf(OurKeys),
           \A c \in D : c.copy > 0
    PROVE  RedeemsRead(S, D)
<1> SUFFICES ASSUME NEW need \in Needs, NEW p, p = PlanRedeem(S, D, need, NoCap), p # NoPlan, p.fee # NoCoin
             PROVE  LET tx == ConfirmedRedeem(p, need) IN CentsRead(tx, Home, InCents(tx) - need) /\ RowSound(tx)
  BY Zenon DEF RedeemsRead
<1> DEFINE tx == ConfirmedRedeem(p, need)
<1>1. /\ Accepted(tx, DdFee, NoLeaf) /\ p.fee \in S
      /\ \E burn : /\ Len(burn) \in Nat /\ \A i \in 1 .. Len(burn) : burn[i] \in DdOf({Home})
                   /\ RedeemMade(tx, need, burn, p.fee)
  <2>1. RedeemBuilt(S, p, need)
    BY RedeemIsBuilt
  <2> QED BY <2>1, Zenon DEF RedeemBuilt
<1>2. PICK burn : /\ Len(burn) \in Nat /\ \A i \in 1 .. Len(burn) : burn[i] \in DdOf({Home})
                  /\ RedeemMade(tx, need, burn, p.fee)
  BY <1>1, Zenon
<1>3. p.fee \in DgbOf(OurKeys)
  BY <1>1
<1> HIDE DEF tx
<1>4. CentsRead(tx, Home, InCents(tx) - need)
  BY <1>2, RedeemCents
<1>5. RowSound(tx)
  BY <1>1, <1>2, <1>3, RedeemRow
<1> QED BY <1>4, <1>5, Zenon DEF tx

\* A mint: its owner reads the cents and, until the collateral is spent, one position
\* that the leaves of the collateral stand for; nobody else does; and the row is sound.
THEOREM MintsAreRead ==
    ASSUME NEW S, Coins(S), S \subseteq DgbOf(OurKeys)
    PROVE  MintsRead(S)
<1> SUFFICES ASSUME NEW collateral \in Amounts, NEW owner \in {Home, Payee},
                    NEW p, p = PlanMint(S, collateral), p # NoPlan
             PROVE  LET tx == ConfirmedMint(p, 100, owner)
                    IN /\ CentsRead(tx, owner, 100) /\ RowSound(tx)
                       /\ OpenPositions(tx, P2tr(owner), {1}) = {}
                       /\ \A other \in OurKeys \union {Payee} :
                             \A position \in OpenPositions(tx, P2tr(other), {}) : other = owner
                       /\ Cardinality(OpenPositions(tx, P2tr(owner), {})) = 1
                       /\ \A position \in OpenPositions(tx, P2tr(owner), {}) :
                             /\ tx.body.outs[1] = Out(collateral, CollateralScript(owner, position.lock, position.cents))
                             /\ position.sats = collateral /\ position.cents = 100
  BY DEF MintsRead
<1> DEFINE tx == ConfirmedMint(p, 100, owner)
           unlock == Tip + 1 + 100 + LockBlocks
           position == [cents |-> 100, lock |-> unlock, key |-> owner, sats |-> collateral]
           opened(other, spent) == OpenPositions(tx, P2tr(other), spent)
<1>1. p.coin \in S /\ MintSound(tx, 100) /\ MintMade(tx, p.coin, owner, 100, collateral)
  BY MintIsBuilt
<1>2. p.coin \in DgbOf(OurKeys) /\ collateral \in Nat \ {0} /\ 100 \in Nat
  BY <1>1, TxPlanAssumption
<1> HIDE DEF tx
<1>3. Minted(tx, owner, 100, collateral)
  BY <1>1, <1>2, MintedIs
<1>4. RowSound(tx)
  <2>1. Accepted(tx, DdFee, tx.body.outs[1].script)
    BY <1>1, Zenon DEF MintSound
  <2> QED BY <1>1, <1>2, <2>1, MintRow
<1>5. CentsRead(tx, owner, 100)
  BY <1>2, <1>3, MintCents
<1>6. ASSUME NEW other, NEW spent
      PROVE  opened(other, spent) = IF other = owner /\ 1 \notin spent THEN {position} ELSE {}
  <2>1. Opened(tx, owner, 100, collateral, other, spent)
    BY <1>3, MintOpens, Zenon
  <2> QED BY <2>1, Zenon DEF Opened
<1> HIDE DEF opened, position
<1>7. opened(owner, {}) = {position} /\ opened(owner, {1}) = {}
  BY <1>6
<1>8. \A other : other # owner => opened(other, {}) = {}
  BY <1>6
<1>9. Cardinality({position}) = 1
  BY FS_Singleton
<1>10. /\ tx.body.outs[1] = Out(collateral, CollateralScript(owner, position.lock, position.cents))
       /\ position.sats = collateral /\ position.cents = 100
  <2>1. position.lock = unlock /\ position.cents = 100 /\ position.sats = collateral
    BY DEF position
  <2>2. tx.body.outs[1] = Out(collateral, CollateralScript(owner, unlock, 100))
    BY <1>3, Zenon DEF Minted
  <2> HIDE DEF unlock
  <2> QED BY <2>1, <2>2
<1>11. \A q \in opened(owner, {}) :
          /\ tx.body.outs[1] = Out(collateral, CollateralScript(owner, q.lock, q.cents))
          /\ q.sats = collateral /\ q.cents = 100
  BY <1>7, <1>10, Zenon
<1>12. \A other \in OurKeys \union {Payee} : \A q \in opened(other, {}) : other = owner
  BY <1>8
<1>13. Cardinality(opened(owner, {})) = 1
  BY <1>7, <1>9, Zenon
<1> QED BY <1>4, <1>5, <1>7, <1>11, <1>12, <1>13, Zenon DEF tx, opened

\* A plain spend: the row is sound.
THEOREM SpendsAreRead ==
    ASSUME NEW S, Coins(S), S \subseteq DgbOf(OurKeys)
    PROVE  SpendsRead(S)
<1> SUFFICES ASSUME NEW order \in LargestFirst(S), NEW len \in ScriptLens, NEW amount \in Amounts,
                    NEW p, p = PlanSpend(order, amount, len), p # NoPlan
             PROVE  RowSound(ConfirmedSend(p, order, len))
  BY Zenon DEF SpendsRead
<1> DEFINE tx == ConfirmedSend(p, order, len)
           to == Script("foreign", len)
<1>1. /\ Accepted(tx, p.fee, to) /\ p.fee \in Nat
      /\ \E m \in Nat \ {0} : \E coins :
            (\A i \in 1 .. m : coins[i] \in S) /\ SpendMade(tx, coins, m, to, amount)
  BY SpendIsBuilt, SMTT(60)
<1>2. PICK m \in Nat \ {0} : \E coins :
            (\A i \in 1 .. m : coins[i] \in S) /\ SpendMade(tx, coins, m, to, amount)
  BY <1>1, Zenon
<1>3. PICK coins : (\A i \in 1 .. m : coins[i] \in S) /\ SpendMade(tx, coins, m, to, amount)
  BY <1>2, Zenon
<1>4. to.shape # "data" /\ amount \in Nat
  BY TxPlanAssumption DEF Script
<1>5. \A i \in 1 .. m : coins[i] \in DgbOf(OurKeys)
  BY <1>3
<1> HIDE DEF tx, to
<1>6. RowSound(tx)
  BY <1>1, <1>3, <1>4, <1>5, SpendRow
<1> QED BY <1>6 DEF tx

LEMMA HeldOurs ==
    ASSUME Held
    PROVE  /\ Money \subseteq DgbOf(OurKeys) /\ DigiDollars \subseteq DdOf(OurKeys)
           /\ \A c \in DigiDollars : c.key # Payee /\ c.copy > 0
<1>1. ASSUME NEW k \in DgbKinds, NEW c \in CoinsOf(k) PROVE c \in DgbOf(OurKeys)
  <2>1. k.sats \in Nat /\ k.type \in {"p2wpkh", "p2tr"} /\ k.key \in OurKeys /\ held[k] \in Nat
    BY TxPlanAssumption DEF Held, OurKeys
  <2>2. PICK i \in 1 .. held[k] : c = [sats |-> k.sats, type |-> k.type, key |-> k.key, copy |-> i]
    BY DEF CoinsOf
  <2> QED BY <2>1, <2>2 DEF DgbOf
<1>2. ASSUME NEW k \in DdKinds, NEW c \in DollarsOf(k)
      PROVE  c \in DdOf(OurKeys) /\ c.key # Payee /\ c.copy > 0
  <2>1. k.cents \in Nat /\ k.key \in OurKeys /\ held[k] \in Nat /\ k.key # Payee
    BY TxPlanAssumption, TxBuildAssumption DEF Held, OurKeys
  <2>2. PICK i \in 1 .. held[k] : c = [cents |-> k.cents, key |-> k.key, copy |-> i]
    BY DEF DollarsOf
  <2> QED BY <2>1, <2>2 DEF DdOf
<1> QED BY <1>1, <1>2 DEF Money, DigiDollars

\* In every state of the wallet, whatever coins have arrived: what it builds of them is
\* read back by the indexer as it was meant, and its history says of it what happened.
THEOREM ReadsAsBuilt ==
    PlanSpec => []ReadAsBuilt
<1>1. ASSUME Held PROVE ReadAsBuilt
  <2>1. Coins(Money) /\ DdCoins(DigiDollars)
    BY <1>1, HeldCoins
  <2>2. /\ Money \subseteq DgbOf(OurKeys) /\ DigiDollars \subseteq DdOf(OurKeys)
        /\ \A c \in DigiDollars : c.key # Payee /\ c.copy > 0
    BY <1>1, HeldOurs
  <2>3. /\ TransfersRead(Money, DigiDollars) /\ RedeemsRead(Money, DigiDollars)
        /\ MintsRead(Money) /\ SpendsRead(Money)
    BY <2>1, <2>2, TransfersAreRead, RedeemsAreRead, MintsAreRead, SpendsAreRead
  <2> QED BY <2>3, Zenon DEF ReadAsBuilt
<1> QED BY <1>1, HeldStays, PTL
=============================================================================
