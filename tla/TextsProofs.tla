---------------------------- MODULE TextsProofs ----------------------------
(***************************************************************************)
(* What is written down is read back, for any boundaries and however far   *)
(* the inputs go from them: TextsSound of module Inputs.                   *)
(*                                                                         *)
(* What the operators compute is known from one step of them. A recursive  *)
(* function exists where the recursion descends (RecursionExists), and a   *)
(* FoldLeft is the last value of a run that takes the list one by one      *)
(* (RunExists), so each has an equation: DigitsAre, PushesAre, LettersAre, *)
(* FlattenSteps, ValueRun, KeepRun and the others.                         *)
(*                                                                         *)
(* Base58: one more digit in a base is one step of Carry, and the digits   *)
(* are those of the number that comes out (CarryCons, CarryDigits); so any *)
(* text is zeros and a number (EveryText), and a change of base keeps both *)
(* (RebasedText, Base58Read).                                              *)
(*                                                                         *)
(* Groups of bits: after every byte the groups so far give back all the    *)
(* bytes, or all but the last, of which one to four bits are left over     *)
(* (Even, Halfway). Five bytes go round (Group0 to Group4), so this holds  *)
(* of every list (EveryGrouped); the padding gives back the last byte      *)
(* (ToGroupsIs), and a group more never gives back the same (GroupsRead).  *)
(*                                                                         *)
(* The other texts are finitely many kinds, taken one by one: addresses    *)
(* (TextForms), descriptors (LinesAre) and bundles of them (BundleHolds).  *)
(***************************************************************************)
EXTENDS Inputs, PlanProofs, SequenceTheorems

-----------------------------------------------------------------------------
(* Recursion, and folds over lists *)

\* A function that is defined by recursion exists where the recursion descends.
Descends(D, R, m, step) ==
    \A x \in D : \A g, h \in [D -> R] :
        (\A y \in D : m[y] < m[x] => g[y] = h[y]) => step[<<x, g>>] = step[<<x, h>>]

Recursive(f, D, step) == \A x \in D : f[x] = step[<<x, f>>]

LEMMA RecursionExists ==
    ASSUME NEW D, NEW R, R # {}, NEW m \in [D -> Nat], NEW step \in [D \X [D -> R] -> R],
           Descends(D, R, m, step)
    PROVE  \E f \in [D -> R] : Recursive(f, D, step)
<1> DEFINE F == [D -> R]
           Good(f, n) == \A x \in D : m[x] < n => f[x] = step[<<x, f>>]
           T == {n \in Nat : \E f \in F : Good(f, n)}
           Next1(f) == [x \in D |-> step[<<x, f>>]]
<1>1. 0 \in T
  <2>1. PICK r \in R : TRUE
    OBVIOUS
  <2>2. [x \in D |-> r] \in F /\ Good([x \in D |-> r], 0)
    OBVIOUS
  <2> QED BY <2>2, Zenon
<1>2. ASSUME NEW n \in Nat, n \in T PROVE n + 1 \in T
  <2>1. PICK f \in F : Good(f, n)
    BY <1>2
  <2>2. Next1(f) \in F
    OBVIOUS
  <2>3. \A x \in D : m[x] < n => Next1(f)[x] = f[x]
    BY <2>1
  <2>4. ASSUME NEW x \in D, m[x] < n + 1 PROVE Next1(f)[x] = step[<<x, Next1(f)>>]
    <3>1. \A y \in D : m[y] < m[x] => f[y] = Next1(f)[y]
      BY <2>3, <2>4
    <3>2. step[<<x, f>>] = step[<<x, Next1(f)>>]
      <4> HIDE DEF Next1
      <4> QED BY <2>1, <2>2, <3>1, Zenon DEF Descends
    <3> QED BY <3>2
  <2>5. Good(Next1(f), n + 1)
    BY <2>4
  <2> HIDE DEF Next1, Good, F
  <2> QED BY <2>2, <2>5
<1>3. ASSUME NEW n \in Nat PROVE \E f \in F : Good(f, n)
  <2>1. n \in T
    <3> HIDE DEF T
    <3> QED BY <1>1, <1>2, NatAll
  <2> QED BY <2>1
<1> DEFINE U == {n \in Nat : \A f, g \in F : Good(f, n) /\ Good(g, n) => \A x \in D : m[x] < n => f[x] = g[x]}
<1>4. 0 \in U
  <2> HIDE DEF Good, F
  <2> QED OBVIOUS
<1>5. ASSUME NEW n \in Nat, n \in U PROVE n + 1 \in U
  <2> SUFFICES ASSUME NEW f \in F, NEW g \in F, Good(f, n + 1), Good(g, n + 1), NEW x \in D, m[x] < n + 1
               PROVE  f[x] = g[x]
    <3> HIDE DEF Good, F
    <3> QED OBVIOUS
  <2>1. Good(f, n) /\ Good(g, n)
    OBVIOUS
  <2>2. \A y \in D : m[y] < n => f[y] = g[y]
    <3> HIDE DEF Good, F
    <3> QED BY <1>5, <2>1
  <2>3. \A y \in D : m[y] < m[x] => f[y] = g[y]
    BY <2>2
  <2>4. step[<<x, f>>] = step[<<x, g>>]
    BY <2>3, Zenon DEF Descends
  <2>5. f[x] = step[<<x, f>>] /\ g[x] = step[<<x, g>>]
    OBVIOUS
  <2> QED BY <2>4, <2>5
<1>6. ASSUME NEW n \in Nat, NEW f \in F, NEW g \in F, Good(f, n), Good(g, n), NEW x \in D, m[x] < n
      PROVE  f[x] = g[x]
  <2>1. n \in U
    <3> HIDE DEF U
    <3> QED BY <1>4, <1>5, NatAll
  <2> HIDE DEF Good, F
  <2> QED BY <1>6, <2>1
<1> DEFINE best(n) == CHOOSE f \in F : Good(f, n)
           all == [x \in D |-> best(m[x] + 1)[x]]
<1>7. \A n \in Nat : best(n) \in F /\ Good(best(n), n)
  <2> HIDE DEF Good, F
  <2> QED BY <1>3
<1> HIDE DEF best
<1>8. all \in F
  BY <1>7
<1>9. ASSUME NEW x \in D PROVE all[x] = step[<<x, all>>]
  <2> DEFINE n == m[x] + 1
             f == best(n)
  <2>1. n \in Nat /\ f \in F /\ Good(f, n)
    <3> HIDE DEF Good, F
    <3> QED BY <1>7
  <2>2. ASSUME NEW y \in D, m[y] < m[x] PROVE f[y] = all[y]
    <3> DEFINE k == m[y] + 1
    <3>1. k \in Nat /\ best(k) \in F /\ Good(best(k), k)
      <4> HIDE DEF Good, F
      <4> QED BY <1>7
    <3>2. k <= n /\ m[y] < k
      BY <2>2
    <3>3. Good(f, k)
      <4> HIDE DEF f, k, n
      <4> QED BY <2>1, <3>1, <3>2
    <3>4. f[y] = best(k)[y]
      <4> HIDE DEF f, k, n, Good, F
      <4> QED BY <1>6, <2>1, <3>1, <3>2, <3>3
    <3> QED BY <3>4
  <2>3. step[<<x, f>>] = step[<<x, all>>]
    <3> HIDE DEF f, all, n
    <3> QED BY <1>8, <2>1, <2>2, Zenon DEF Descends
  <2>4. f[x] = step[<<x, f>>]
    <3> HIDE DEF f
    <3> QED BY <2>1
  <2> QED BY <2>3, <2>4
<1> HIDE DEF all, Good
<1> QED BY <1>8, <1>9, Zenon DEF Recursive

\* A fold over a list goes on from its first element to its last: G is the fold as a
\* function of the places it is over, g of the number of elements it is done with.
Run(g, n, V, step, base) ==
    /\ g \in [0 .. n -> V] /\ g[0] = base
    /\ \A i \in 1 .. n : g[i] = step[<<i, g[i - 1]>>]

OverPlaces(G, n, step, base) ==
    G = [s \in SUBSET (1 .. n) |-> IF s = {} THEN base ELSE step[<<Max(s), G[s \ {Max(s)}]>>]]

GoesOn(H, n, V, step, base) ==
    /\ H[{}] = base
    /\ \A s \in SUBSET (1 .. n) : s # {} /\ H[s \ {Max(s)}] \in V => H[s] = step[<<Max(s), H[s \ {Max(s)}]>>]

HasRun(n, V, step, base) ==
    \E g : /\ Run(g, n, V, step, base)
           /\ \E G \in [SUBSET (1 .. n) -> V] : OverPlaces(G, n, step, base)
           /\ \A H : GoesOn(H, n, V, step, base) => H[1 .. n] = g[n]

LEMMA RunExists ==
    ASSUME NEW n \in Nat, NEW V, NEW base \in V, NEW step \in [(1 .. n) \X V -> V]
    PROVE  HasRun(n, V, step, base)
<1>1. PICK G : FoldOf(G, n, V, step, base)
  BY FoldOver
<1> DEFINE g == [i \in 0 .. n |-> G[1 .. i]]
<1>2. Run(g, n, V, step, base)
  BY <1>1, FoldSteps DEF Run
<1>3. G \in [SUBSET (1 .. n) -> V] /\ OverPlaces(G, n, step, base)
  BY <1>1 DEF FoldOf, OverPlaces
<1>4. ASSUME NEW H, GoesOn(H, n, V, step, base) PROVE H[1 .. n] = g[n]
  <2>1. H[{}] = G[{}]
    BY <1>1, <1>4 DEF GoesOn, FoldOf
  <2>2. ASSUME NEW s \in SUBSET (1 .. n), s # {}, H[s \ {Max(s)}] = G[s \ {Max(s)}] PROVE H[s] = G[s]
    <3>1. G[s \ {Max(s)}] \in V
      BY <1>1 DEF FoldOf
    <3>2. H[s] = step[<<Max(s), H[s \ {Max(s)}]>>]
      BY <1>4, <2>2, <3>1 DEF GoesOn
    <3>3. G[s] = step[<<Max(s), G[s \ {Max(s)}]>>]
      BY <1>1, <2>2 DEF FoldOf
    <3> QED BY <2>2, <3>2, <3>3
  <2>3. GoesLike(H, G, n)
    BY <2>1, <2>2 DEF GoesLike
  <2> QED BY <2>3, FoldSame
<1> HIDE DEF g
<1> QED BY <1>2, <1>3, <1>4, Zenon DEF HasRun

-----------------------------------------------------------------------------
(* The recursive functions and the folds of the texts, one step at a time *)

Bases == {58, 256}

LEMMA DigitsAre ==
    ASSUME NEW b \in Bases, NEW n \in Nat
    PROVE  /\ Digits(n, b) \in Seq(0 .. b - 1)
           /\ Digits(n, b) = IF n = 0 THEN <<>> ELSE <<n % b>> \o Digits(n \div b, b)
           /\ n \div b \in Nat /\ (n > 0 => n \div b < n) /\ n % b \in 0 .. b - 1
           /\ n = b * (n \div b) + (n % b)
<1> DEFINE B == 0 .. b - 1
           R == Seq(B)
           q(x) == x \div b
           r(x) == x % b
           cons(e, s) == <<e>> \o s
           id == [x \in Nat |-> x]
           step == [p \in Nat \X [Nat -> R] |-> IF p[1] = 0 THEN <<>> ELSE cons(r(p[1]), p[2][q(p[1])])]
           Eq(h) == h = [m \in Nat |-> IF m = 0 THEN <<>> ELSE <<m % b>> \o h[m \div b]]
           Fun(h) == h = [m \in Nat |-> IF m = 0 THEN <<>> ELSE cons(r(m), h[q(m)])]
<1>0. /\ \A x \in Nat : q(x) \in Nat /\ r(x) \in B /\ (x > 0 => q(x) < x)
      /\ \A x \in Nat : x = b * q(x) + r(x)
  <2>1. CASE b = 58
    BY <2>1
  <2>2. CASE b = 256
    BY <2>2
  <2> QED BY <2>1, <2>2 DEF Bases
<1>1. <<>> \in R /\ \A d \in B : \A s \in R : cons(d, s) \in R
  <2> HIDE DEF B
  <2> QED OBVIOUS
<1>a. ASSUME NEW h PROVE Eq(h) <=> Fun(h)
  BY Zenon
<1> HIDE DEF R, q, r, B, cons
<1>2. ASSUME NEW x \in Nat, NEW g \in [Nat -> R]
      PROVE  step[<<x, g>>] = IF x = 0 THEN <<>> ELSE cons(r(x), g[q(x)])
  OBVIOUS
<1>3. step \in [Nat \X [Nat -> R] -> R]
  <2>1. ASSUME NEW x \in Nat, NEW g \in [Nat -> R]
        PROVE  (IF x = 0 THEN <<>> ELSE cons(r(x), g[q(x)])) \in R
    BY <1>0, <1>1
  <2> QED BY <2>1
<1>4. Descends(Nat, R, id, step)
  <2> SUFFICES ASSUME NEW x \in Nat, NEW g \in [Nat -> R], NEW h \in [Nat -> R],
                      \A y \in Nat : id[y] < id[x] => g[y] = h[y]
               PROVE  step[<<x, g>>] = step[<<x, h>>]
    BY Zenon DEF Descends
  <2>1. x > 0 => g[q(x)] = h[q(x)]
    BY <1>0
  <2> HIDE DEF step
  <2>2. step[<<x, g>>] = IF x = 0 THEN <<>> ELSE cons(r(x), g[q(x)])
    BY <1>2
  <2>3. step[<<x, h>>] = IF x = 0 THEN <<>> ELSE cons(r(x), h[q(x)])
    BY <1>2
  <2> QED BY <2>1, <2>2, <2>3
<1> HIDE DEF step
<1>5. PICK f \in [Nat -> R] : \A x \in Nat : f[x] = step[<<x, f>>]
  <2>1. id \in [Nat -> Nat] /\ R # {}
    BY <1>1
  <2> HIDE DEF id
  <2>2. \E f \in [Nat -> R] : Recursive(f, Nat, step)
    BY <1>3, <1>4, <2>1, RecursionExists, Zenon
  <2> QED BY <2>2, Zenon DEF Recursive
<1>6. Fun(f)
  <2>1. \A x \in Nat : f[x] = IF x = 0 THEN <<>> ELSE cons(r(x), f[q(x)])
    <3> SUFFICES ASSUME NEW x \in Nat PROVE f[x] = IF x = 0 THEN <<>> ELSE cons(r(x), f[q(x)])
      OBVIOUS
    <3>1. step[<<x, f>>] = IF x = 0 THEN <<>> ELSE cons(r(x), f[q(x)])
      BY <1>2
    <3> QED BY <1>5, <3>1
  <2> QED BY <2>1
<1> DEFINE of == CHOOSE h : Eq(h)
<1> HIDE DEF Eq
<1>7. Eq(of)
  BY <1>6, <1>a, Zenon
<1>8. \A x : Digits(x, b) = of[x]
  BY Zenon DEF Digits, Eq
<1> HIDE DEF of
<1>9. \A x \in Nat : of[x] = IF x = 0 THEN <<>> ELSE cons(r(x), of[q(x)])
  <2>1. Fun(of)
    BY <1>7, <1>a, Zenon
  <2> QED BY <2>1
<1> HIDE DEF Fun
<1> DEFINE T == {k \in Nat : \A x \in Nat : x <= k => of[x] \in R}
<1>10. 0 \in T
  <2>1. of[0] = <<>>
    BY <1>9
  <2> QED BY <1>1, <2>1
<1>11. ASSUME NEW k \in Nat, k \in T PROVE k + 1 \in T
  <2> SUFFICES ASSUME NEW x \in Nat, x = k + 1 PROVE of[x] \in R
    BY <1>11
  <2>1. q(x) \in Nat /\ q(x) <= k /\ r(x) \in B /\ x # 0
    BY <1>0
  <2>2. of[q(x)] \in R
    BY <1>11, <2>1
  <2> QED BY <1>1, <1>9, <2>1, <2>2
<1>12. n \in T
  <2> HIDE DEF T
  <2> QED BY <1>10, <1>11, NatAll
<1>13. of[n] \in R
  BY <1>12
<1>14. Digits(n, b) = IF n = 0 THEN <<>> ELSE cons(r(n), Digits(q(n), b))
  BY <1>8, <1>9
<1>15. Digits(n, b) \in R
  BY <1>8, <1>13
<1>16. q(n) \in Nat /\ r(n) \in B /\ (n > 0 => q(n) < n) /\ n = b * q(n) + r(n)
  BY <1>0
<1> QED BY <1>14, <1>15, <1>16, Zenon DEF R, q, r, B, cons

\* Where it is read, the list of pushes is a push and the rest.
LEMMA PushesAre ==
    ASSUME NEW script \in Seq(Nat), NEW i \in Nat \ {0}
    PROVE  PushesFrom(script, i) =
             IF i > Len(script) THEN <<>>
             ELSE <<SubSeq(script, i + 1, i + script[i])>> \o PushesFrom(script, i + 1 + script[i])
<1> DEFINE n == Len(script)
           D == Nat \ {0}
           push(x) == SubSeq(script, x + 1, x + script[x])
           on(x) == x + 1 + script[x]
           cons(e, s) == <<e>> \o s
           past(x) == x > Len(script)
           X == {push(x) : x \in D}
           R == Seq(X)
           left == [x \in D |-> IF x > n THEN 0 ELSE n + 1 - x]
           step == [p \in D \X [D -> R] |->
                       IF past(p[1]) THEN <<>> ELSE cons(push(p[1]), p[2][on(p[1])])]
           Eq(h) == h = [x \in D |-> IF x > Len(script) THEN <<>>
                                    ELSE <<SubSeq(script, x + 1, x + script[x])>> \o h[x + 1 + script[x]]]
           Fun(h) == h = [x \in D |-> IF past(x) THEN <<>> ELSE cons(push(x), h[on(x)])]
<1>0. n \in Nat /\ \A x \in D : ~past(x) => on(x) \in D /\ on(x) > x /\ x <= n
  OBVIOUS
<1>a. ASSUME NEW h PROVE Eq(h) <=> Fun(h)
  BY Zenon
<1> HIDE DEF push
<1>1. <<>> \in R /\ \A x \in D : \A s \in R : cons(push(x), s) \in R
  <2>1. \A x \in D : push(x) \in X
    OBVIOUS
  <2> HIDE DEF X
  <2>2. <<>> \in R /\ \A e \in X : \A s \in R : cons(e, s) \in R
    OBVIOUS
  <2> QED BY <2>1, <2>2
<1>b. left \in [D -> Nat] /\ \A x \in D : ~past(x) => left[on(x)] < left[x]
  <2> HIDE DEF n, on, past
  <2>1. left \in [D -> Nat]
    BY <1>0
  <2>2. ASSUME NEW x \in D, ~past(x) PROVE left[on(x)] < left[x]
    <3> DEFINE y == on(x)
    <3>1. y \in D /\ y > x /\ x <= n
      BY <1>0, <2>2
    <3> HIDE DEF y
    <3>2. left[y] < left[x]
      BY <1>0, <3>1
    <3> QED BY <3>2 DEF y
  <2> QED BY <2>1, <2>2
<1> HIDE DEF R, cons, on, past, left
<1>2. ASSUME NEW x \in D, NEW g \in [D -> R]
      PROVE  step[<<x, g>>] = IF past(x) THEN <<>> ELSE cons(push(x), g[on(x)])
  <2> HIDE DEF D
  <2> QED OBVIOUS
<1>3. step \in [D \X [D -> R] -> R]
  <2>1. ASSUME NEW x \in D, NEW g \in [D -> R]
        PROVE  (IF past(x) THEN <<>> ELSE cons(push(x), g[on(x)])) \in R
    <3>1. CASE past(x)
      BY <1>1, <3>1
    <3>2. CASE ~past(x)
      <4>1. g[on(x)] \in R
        BY <1>0, <3>2
      <4> QED BY <1>0, <1>1, <3>2, <4>1
    <3> QED BY <1>0, <3>1, <3>2
  <2> QED BY <2>1
<1>4. Descends(D, R, left, step)
  <2> SUFFICES ASSUME NEW x \in D, NEW g \in [D -> R], NEW h \in [D -> R],
                      \A y \in D : left[y] < left[x] => g[y] = h[y]
               PROVE  step[<<x, g>>] = step[<<x, h>>]
    BY Zenon DEF Descends
  <2>1. ~past(x) => g[on(x)] = h[on(x)]
    BY <1>0, <1>b
  <2> HIDE DEF step
  <2>2. step[<<x, g>>] = IF past(x) THEN <<>> ELSE cons(push(x), g[on(x)])
    BY <1>2
  <2>3. step[<<x, h>>] = IF past(x) THEN <<>> ELSE cons(push(x), h[on(x)])
    BY <1>2
  <2> QED BY <1>0, <2>1, <2>2, <2>3
<1> HIDE DEF step
<1>5. PICK f \in [D -> R] : \A x \in D : f[x] = step[<<x, f>>]
  <2>1. R # {} /\ left \in [D -> Nat]
    BY <1>1, <1>b
  <2> HIDE DEF D
  <2>2. \E f \in [D -> R] : Recursive(f, D, step)
    BY <1>3, <1>4, <2>1, RecursionExists, Zenon
  <2> QED BY <2>2, Zenon DEF Recursive
<1>6. Fun(f)
  BY <1>2, <1>5
<1> DEFINE from == CHOOSE h : Eq(h)
<1> HIDE DEF Eq
<1>7. Eq(from)
  BY <1>6, <1>a, Zenon
<1>8. \A x : PushesFrom(script, x) = from[x]
  BY Zenon DEF PushesFrom, Eq
<1> HIDE DEF from
<1>9. \A x \in D : from[x] = IF past(x) THEN <<>> ELSE cons(push(x), from[on(x)])
  <2>1. Fun(from)
    BY <1>7, <1>a, Zenon
  <2> QED BY <2>1
<1> HIDE DEF Fun
<1>10. i \in D
  OBVIOUS
<1> HIDE DEF D
<1>11. PushesFrom(script, i) = IF past(i) THEN <<>> ELSE cons(push(i), PushesFrom(script, on(i)))
  BY <1>8, <1>9, <1>10
<1> QED BY <1>11, Zenon DEF push, on, cons, past

\* The letters of a number.
LEMMA LettersAre ==
    ASSUME NEW n \in Nat
    PROVE  /\ seqLetters[n] \in Seq(0 .. 25)
           /\ seqLetters[n] = IF n < 26 THEN <<n>> ELSE seqLetters[n \div 26 - 1] \o <<n % 26>>
           /\ n >= 26 => n \div 26 - 1 \in Nat /\ n \div 26 - 1 < n /\ n = 26 * (n \div 26 - 1) + (n % 26) + 26
<1> DEFINE B == 0 .. 25
           R == Seq(B)
           q(x) == x \div 26 - 1
           r(x) == x % 26
           one(e) == <<e>>
           more(s, e) == s \o <<e>>
           id == [x \in Nat |-> x]
           step == [p \in Nat \X [Nat -> R] |-> IF p[1] < 26 THEN one(p[1]) ELSE more(p[2][q(p[1])], r(p[1]))]
           Fun(h) == h = [i \in Nat |-> IF i < 26 THEN one(i) ELSE more(h[q(i)], r(i))]
<1>0. \A x \in Nat : /\ r(x) \in B /\ (x < 26 => x \in B)
                     /\ x >= 26 => q(x) \in Nat /\ q(x) < x /\ x = 26 * q(x) + r(x) + 26
  OBVIOUS
<1>1. R # {} /\ \A e \in B : one(e) \in R /\ \A s \in R : more(s, e) \in R
  <2> HIDE DEF B
  <2>1. <<>> \in R /\ \A e \in B : <<e>> \in R
    OBVIOUS
  <2>2. \A s, t \in R : s \o t \in R
    OBVIOUS
  <2>3. R # {}
    BY <2>1
  <2> HIDE DEF R
  <2> QED BY <2>1, <2>2, <2>3
<1>a. seqLetters = CHOOSE h : Fun(h)
  BY Zenon DEF seqLetters
<1> HIDE DEF R, q, r, B, one, more
<1>2. ASSUME NEW x \in Nat, NEW g \in [Nat -> R]
      PROVE  step[<<x, g>>] = IF x < 26 THEN one(x) ELSE more(g[q(x)], r(x))
  OBVIOUS
<1>3. step \in [Nat \X [Nat -> R] -> R]
  <2>1. ASSUME NEW x \in Nat, NEW g \in [Nat -> R]
        PROVE  (IF x < 26 THEN one(x) ELSE more(g[q(x)], r(x))) \in R
    BY <1>0, <1>1
  <2> QED BY <2>1
<1>4. Descends(Nat, R, id, step)
  <2> SUFFICES ASSUME NEW x \in Nat, NEW g \in [Nat -> R], NEW h \in [Nat -> R],
                      \A y \in Nat : id[y] < id[x] => g[y] = h[y]
               PROVE  step[<<x, g>>] = step[<<x, h>>]
    BY Zenon DEF Descends
  <2>1. x >= 26 => g[q(x)] = h[q(x)]
    BY <1>0
  <2> HIDE DEF step
  <2>2. step[<<x, g>>] = IF x < 26 THEN one(x) ELSE more(g[q(x)], r(x))
    BY <1>2
  <2>3. step[<<x, h>>] = IF x < 26 THEN one(x) ELSE more(h[q(x)], r(x))
    BY <1>2
  <2> QED BY <2>1, <2>2, <2>3
<1> HIDE DEF step
<1>5. PICK f \in [Nat -> R] : \A x \in Nat : f[x] = step[<<x, f>>]
  <2>1. id \in [Nat -> Nat]
    OBVIOUS
  <2> HIDE DEF id
  <2>2. \E f \in [Nat -> R] : Recursive(f, Nat, step)
    BY <1>1, <1>3, <1>4, <2>1, RecursionExists, Zenon
  <2> QED BY <2>2, Zenon DEF Recursive
<1>6. Fun(f)
  <2>1. \A x \in Nat : f[x] = IF x < 26 THEN one(x) ELSE more(f[q(x)], r(x))
    <3> SUFFICES ASSUME NEW x \in Nat PROVE f[x] = IF x < 26 THEN one(x) ELSE more(f[q(x)], r(x))
      OBVIOUS
    <3>1. step[<<x, f>>] = IF x < 26 THEN one(x) ELSE more(f[q(x)], r(x))
      BY <1>2
    <3> QED BY <1>5, <3>1
  <2> QED BY <2>1
<1> HIDE DEF Fun
<1>7. Fun(seqLetters)
  BY <1>6, <1>a, Zenon
<1>9. \A x \in Nat : seqLetters[x] = IF x < 26 THEN one(x) ELSE more(seqLetters[q(x)], r(x))
  BY <1>7 DEF Fun
<1> DEFINE T == {k \in Nat : \A x \in Nat : x <= k => seqLetters[x] \in R}
<1>10. 0 \in T
  <2>1. seqLetters[0] = one(0) /\ 0 \in B
    BY <1>0, <1>9
  <2> QED BY <1>1, <2>1
<1>11. ASSUME NEW k \in Nat, k \in T PROVE k + 1 \in T
  <2> SUFFICES ASSUME NEW x \in Nat, x = k + 1 PROVE seqLetters[x] \in R
    BY <1>11
  <2>1. CASE x < 26
    BY <1>0, <1>1, <1>9, <2>1
  <2>2. CASE x >= 26
    <3>1. q(x) \in Nat /\ q(x) <= k /\ r(x) \in B
      BY <1>0, <2>2
    <3>2. seqLetters[q(x)] \in R
      BY <1>11, <3>1
    <3> QED BY <1>1, <1>9, <2>2, <3>1, <3>2
  <2> QED BY <2>1, <2>2
<1>12. n \in T
  <2> HIDE DEF T
  <2> QED BY <1>10, <1>11, NatAll
<1>13. seqLetters[n] \in R
  BY <1>12
<1>14. seqLetters[n] = IF n < 26 THEN one(n) ELSE more(seqLetters[q(n)], r(n))
  BY <1>9
<1>15. n >= 26 => q(n) \in Nat /\ q(n) < n /\ n = 26 * q(n) + r(n) + 26
  BY <1>0
<1> QED BY <1>13, <1>14, <1>15, Zenon DEF R, q, r, B, one, more

\* Lists that are joined are joined one by one.
Joins(g, seqs, n, X) ==
    /\ g \in [1 .. n -> Seq(X)] /\ g[1] = seqs[1] /\ \A i \in 2 .. n : g[i] = g[i - 1] \o seqs[i]
    /\ FlattenSeq(seqs) = g[n]

LEMMA FlattenSteps ==
    ASSUME NEW X, NEW n \in Nat \ {0}, NEW seqs \in [1 .. n -> Seq(X)], Len(seqs) = n
    PROVE  \E g : Joins(g, seqs, n, X)
<1> DEFINE R == Seq(X)
           D == 1 .. n
           join(s, e) == s \o e
           id == [x \in D |-> x]
           step == [p \in D \X [D -> R] |-> IF p[1] = 1 THEN seqs[p[1]] ELSE join(p[2][p[1] - 1], seqs[p[1]])]
           Eq(h) == h = [i \in 1 .. Len(seqs) |-> IF i = 1 THEN seqs[i] ELSE h[i - 1] \o seqs[i]]
           Fun(h) == h = [i \in D |-> IF i = 1 THEN seqs[i] ELSE join(h[i - 1], seqs[i])]
<1>1. <<>> \in R /\ \A s, e \in R : join(s, e) \in R
  OBVIOUS
<1>a. ASSUME NEW h PROVE Eq(h) <=> Fun(h)
  BY Zenon
<1>b. FlattenSeq(seqs) = (CHOOSE h : Eq(h))[n]
  BY Zenon DEF FlattenSeq
<1> HIDE DEF R, join
<1>2. ASSUME NEW x \in D, NEW g \in [D -> R]
      PROVE  step[<<x, g>>] = IF x = 1 THEN seqs[x] ELSE join(g[x - 1], seqs[x])
  OBVIOUS
<1>c. \A x \in D : seqs[x] \in R /\ (x # 1 => x - 1 \in D /\ x - 1 < x)
  BY DEF R
<1>3. step \in [D \X [D -> R] -> R]
  <2>1. ASSUME NEW x \in D, NEW g \in [D -> R]
        PROVE  (IF x = 1 THEN seqs[x] ELSE join(g[x - 1], seqs[x])) \in R
    BY <1>1, <1>c
  <2> QED BY <2>1
<1>4. Descends(D, R, id, step)
  <2> SUFFICES ASSUME NEW x \in D, NEW g \in [D -> R], NEW h \in [D -> R],
                      \A y \in D : id[y] < id[x] => g[y] = h[y]
               PROVE  step[<<x, g>>] = step[<<x, h>>]
    BY Zenon DEF Descends
  <2>1. x # 1 => g[x - 1] = h[x - 1]
    BY <1>c
  <2> HIDE DEF step
  <2>2. step[<<x, g>>] = IF x = 1 THEN seqs[x] ELSE join(g[x - 1], seqs[x])
    BY <1>2
  <2>3. step[<<x, h>>] = IF x = 1 THEN seqs[x] ELSE join(h[x - 1], seqs[x])
    BY <1>2
  <2> QED BY <2>1, <2>2, <2>3
<1> HIDE DEF step
<1>5. PICK f \in [D -> R] : \A x \in D : f[x] = step[<<x, f>>]
  <2>1. id \in [D -> Nat] /\ R # {}
    BY <1>1
  <2> HIDE DEF id, D
  <2>2. \E f \in [D -> R] : Recursive(f, D, step)
    BY <1>3, <1>4, <2>1, RecursionExists, Zenon
  <2> QED BY <2>2, Zenon DEF Recursive
<1>6. Fun(f)
  <2>1. \A x \in D : f[x] = IF x = 1 THEN seqs[x] ELSE join(f[x - 1], seqs[x])
    <3> SUFFICES ASSUME NEW x \in D PROVE f[x] = IF x = 1 THEN seqs[x] ELSE join(f[x - 1], seqs[x])
      OBVIOUS
    <3>1. step[<<x, f>>] = IF x = 1 THEN seqs[x] ELSE join(f[x - 1], seqs[x])
      BY <1>2
    <3> QED BY <1>5, <3>1
  <2> QED BY <2>1
<1> DEFINE g == CHOOSE h : Eq(h)
<1> HIDE DEF Eq
<1>7. Fun(g)
  BY <1>6, <1>a, Zenon
<1>8. FlattenSeq(seqs) = g[n]
  BY <1>b, Zenon
<1> HIDE DEF g
<1>9. DOMAIN g = D /\ \A x \in D : g[x] = IF x = 1 THEN seqs[x] ELSE join(g[x - 1], seqs[x])
  BY <1>7
<1> DEFINE T == {k \in Nat : k + 1 \in D => g[k + 1] \in R}
<1>10. 0 \in T
  BY <1>9, <1>c
<1>11. ASSUME NEW k \in Nat, k \in T PROVE k + 1 \in T
  <2> SUFFICES ASSUME k + 2 \in D PROVE g[k + 2] \in R
    OBVIOUS
  <2>1. k + 1 \in D /\ k + 2 # 1 /\ k + 2 - 1 = k + 1
    BY <1>11
  <2>2. g[k + 1] \in R /\ seqs[k + 2] \in R
    BY <1>11, <1>c, <2>1
  <2>3. g[k + 2] = join(g[k + 1], seqs[k + 2])
    BY <1>9, <2>1
  <2> QED BY <1>1, <2>2, <2>3
<1>12. \A x \in D : g[x] \in R
  <2> SUFFICES ASSUME NEW x \in D PROVE g[x] \in R
    OBVIOUS
  <2>1. x - 1 \in T
    <3> HIDE DEF T
    <3>1. x - 1 \in Nat
      OBVIOUS
    <3> QED BY <1>10, <1>11, <3>1, NatAll
  <2> QED BY <2>1
<1>13. g \in [D -> R]
  <2>1. g = [x \in D |-> g[x]]
    BY <1>7
  <2> QED BY <1>12, <2>1
<1>14. g[1] = seqs[1] /\ \A i \in 2 .. n : g[i] = join(g[i - 1], seqs[i])
  BY <1>9
<1>15. Joins(g, seqs, n, X)
  BY <1>8, <1>13, <1>14, Zenon DEF R, join, Joins
<1> QED BY <1>15

\* The value of bytes, from the last to the first.
Values(g, bytes) ==
    /\ g \in [0 .. Len(bytes) -> Nat] /\ g[0] = 0
    /\ \A i \in 1 .. Len(bytes) : g[i] = g[i - 1] * 256 + bytes[Len(bytes) + 1 - i]

LEMMA ValueRun ==
    ASSUME NEW bytes \in Seq(Nat)
    PROVE  \E g : Values(g, bytes) /\ LeToBigInt(bytes) = g[Len(bytes)]
<1> SUFFICES ASSUME NEW n, n = Len(bytes) PROVE \E g : Values(g, bytes) /\ LeToBigInt(bytes) = g[Len(bytes)]
  BY Zenon
<1> DEFINE W == Nat
           st(i, v) == v * 256 + bytes[n + 1 - i]
           in(i, v) == v * 256 + Reverse(bytes)[i]
           step == [p \in (1 .. n) \X W |-> st(p[1], p[2])]
           Eq(h) == h = [u \in SUBSET DOMAIN Reverse(bytes) |-> IF u = {} THEN 0 ELSE h[u \ {Max(u)}] * 256 + Reverse(bytes)[Max(u)]]
           Fun(h) == h = [u \in SUBSET DOMAIN Reverse(bytes) |-> IF u = {} THEN 0 ELSE in(Max(u), h[u \ {Max(u)}])]
<1>1. n \in Nat /\ DOMAIN Reverse(bytes) = 1 .. n /\ 0 \in W
  BY DEF Reverse
<1>2. ASSUME NEW i \in 1 .. n, NEW v \in W PROVE st(i, v) \in W /\ in(i, v) = st(i, v)
  BY DEF Reverse
<1>3. ASSUME NEW h PROVE Eq(h) <=> Fun(h)
  BY Zenon
<1>4. LeToBigInt(bytes) = (CHOOSE h : Eq(h))[DOMAIN Reverse(bytes)]
  BY Zenon DEF LeToBigInt, FoldLeft, MapThenFoldSet
<1> HIDE DEF W, st, in
<1>5. step \in [(1 .. n) \X W -> W] /\ \A i \in 1 .. n : \A v \in W : step[<<i, v>>] = st(i, v)
  BY <1>2
<1> HIDE DEF step
<1>6. PICK g : /\ Run(g, n, W, step, 0)
               /\ \E G \in [SUBSET (1 .. n) -> W] : OverPlaces(G, n, step, 0)
               /\ \A H : GoesOn(H, n, W, step, 0) => H[1 .. n] = g[n]
  <2>1. step \in [(1 .. n) \X W -> W]
    BY <1>5
  <2>2. HasRun(n, W, step, 0)
    BY <1>1, <2>1, RunExists, Zenon
  <2> QED BY <2>2, Zenon DEF HasRun
<1>7. PICK G \in [SUBSET (1 .. n) -> W] : OverPlaces(G, n, step, 0)
  BY <1>6
<1>8. ASSUME NEW u \in SUBSET (1 .. n), u # {}
      PROVE  Max(u) \in 1 .. n /\ u \ {Max(u)} \in SUBSET (1 .. n)
  BY <1>1, <1>8, MaxOf
<1>9. Fun(G)
  <2>1. ASSUME NEW u \in SUBSET (1 .. n), u # {} PROVE step[<<Max(u), G[u \ {Max(u)}]>>] = in(Max(u), G[u \ {Max(u)}])
    <3>1. Max(u) \in 1 .. n /\ G[u \ {Max(u)}] \in W
      BY <1>8, <2>1
    <3>2. step[<<Max(u), G[u \ {Max(u)}]>>] = st(Max(u), G[u \ {Max(u)}])
      BY <1>5, <3>1, Zenon
    <3>3. in(Max(u), G[u \ {Max(u)}]) = st(Max(u), G[u \ {Max(u)}])
      BY <1>2, <3>1, Zenon
    <3> QED BY <3>2, <3>3
  <2>2. G = [u \in SUBSET (1 .. n) |-> IF u = {} THEN 0 ELSE step[<<Max(u), G[u \ {Max(u)}]>>]]
    BY <1>7, Zenon DEF OverPlaces
  <2>3. \A u \in SUBSET (1 .. n) : G[u] = IF u = {} THEN 0 ELSE in(Max(u), G[u \ {Max(u)}])
    BY <2>1, <2>2
  <2> QED BY <1>1, <2>3
<1> DEFINE F == CHOOSE h : Eq(h)
<1> HIDE DEF Eq
<1>10. Fun(F)
  BY <1>3, <1>9, Zenon
<1> HIDE DEF F
<1>11. GoesOn(F, n, W, step, 0)
  <2>1. F[{}] = 0
    BY <1>1, <1>10
  <2>2. ASSUME NEW u \in SUBSET (1 .. n), u # {}, F[u \ {Max(u)}] \in W
        PROVE  F[u] = step[<<Max(u), F[u \ {Max(u)}]>>]
    <3>1. F[u] = in(Max(u), F[u \ {Max(u)}])
      BY <1>1, <1>10, <2>2
    <3>2. Max(u) \in 1 .. n
      BY <1>8, <2>2
    <3>3. step[<<Max(u), F[u \ {Max(u)}]>>] = st(Max(u), F[u \ {Max(u)}])
      BY <1>5, <2>2, <3>2, Zenon
    <3>4. in(Max(u), F[u \ {Max(u)}]) = st(Max(u), F[u \ {Max(u)}])
      BY <1>2, <2>2, <3>2, Zenon
    <3> QED BY <3>1, <3>3, <3>4
  <2> QED BY <2>1, <2>2 DEF GoesOn
<1>12. F[DOMAIN Reverse(bytes)] = g[n]
  BY <1>1, <1>6, <1>11
<1>13. LeToBigInt(bytes) = g[n]
  BY <1>4, <1>12, Zenon DEF F
<1>14. g \in [0 .. n -> W] /\ g[0] = 0 /\ \A i \in 1 .. n : g[i] = st(i, g[i - 1])
  <2>1. g \in [0 .. n -> W] /\ g[0] = 0 /\ \A i \in 1 .. n : g[i] = step[<<i, g[i - 1]>>]
    BY <1>6, Zenon DEF Run
  <2>2. ASSUME NEW i \in 1 .. n PROVE g[i] = st(i, g[i - 1])
    <3>1. i - 1 \in 0 .. n
      BY <1>1
    <3>2. g[i - 1] \in W
      BY <2>1, <3>1, Zenon
    <3>3. step[<<i, g[i - 1]>>] = st(i, g[i - 1])
      BY <1>5, <3>2, Zenon
    <3> QED BY <2>1, <3>3
  <2> QED BY <2>1, <2>2
<1>15. Values(g, bytes)
  BY <1>14, Zenon DEF W, st, Values
<1> QED BY <1>13, <1>15, Zenon

\* What division leaves.
LEMMA Divides ==
    ASSUME NEW b \in Bases, NEW x \in Nat
    PROVE  /\ x % b \in 0 .. b - 1 /\ x % b \in Nat /\ x \div b \in Nat
           /\ x = b * (x \div b) + (x % b) /\ b \in Nat \ {0}
<1>1. CASE b = 58
  BY <1>1
<1>2. CASE b = 256
  BY <1>2
<1> QED BY <1>1, <1>2 DEF Bases

LEMMA Shifted ==
    ASSUME NEW b \in Bases, NEW x \in Nat, NEW y \in Nat
    PROVE  x * b + y \in Nat /\ b * x + y = x * b + y
<1>1. CASE b = 58
  BY <1>1
<1>2. CASE b = 256
  BY <1>2
<1> QED BY <1>1, <1>2 DEF Bases

\* One step of a change of base, digit by digit.
Carries(g, s, from, to, more) ==
    /\ g \in [0 .. Len(s) -> [out : Seq(Nat), carry : Nat]] /\ g[0] = [out |-> <<>>, carry |-> more]
    /\ \A i \in 1 .. Len(s) : g[i] = [out |-> Append(g[i - 1].out, (s[i] * from + g[i - 1].carry) % to), carry |-> (s[i] * from + g[i - 1].carry) \div to]

LEMMA CarryRun ==
    ASSUME NEW s \in Seq(Nat), NEW from \in Bases, NEW to \in Bases, NEW more \in Nat
    PROVE  \E g : Carries(g, s, from, to, more) /\ Carry(s, from, to, more) = g[Len(s)].out \o Digits(g[Len(s)].carry, to)
<1> SUFFICES ASSUME NEW n, n = Len(s) PROVE \E g : Carries(g, s, from, to, more) /\ Carry(s, from, to, more) = g[Len(s)].out \o Digits(g[Len(s)].carry, to)
  BY Zenon
<1> DEFINE W == [out : Seq(Nat), carry : Nat]
           st(i, v) == [out |-> Append(v.out, (s[i] * from + v.carry) % to), carry |-> (s[i] * from + v.carry) \div to]
           in(i, v) == [out |-> Append(v.out, (s[i] * from + v.carry) % to), carry |-> (s[i] * from + v.carry) \div to]
           step == [p \in (1 .. n) \X W |-> st(p[1], p[2])]
           Eq(h) == h = [u \in SUBSET DOMAIN s |-> IF u = {} THEN [out |-> <<>>, carry |-> more] ELSE [out |-> Append(h[u \ {Max(u)}].out, (s[Max(u)] * from + h[u \ {Max(u)}].carry) % to), carry |-> (s[Max(u)] * from + h[u \ {Max(u)}].carry) \div to]]
           Fun(h) == h = [u \in SUBSET DOMAIN s |-> IF u = {} THEN [out |-> <<>>, carry |-> more] ELSE in(Max(u), h[u \ {Max(u)}])]
<1>1. n \in Nat /\ DOMAIN s = 1 .. n /\ [out |-> <<>>, carry |-> more] \in W
  OBVIOUS
<1>2. ASSUME NEW i \in 1 .. n, NEW v \in W PROVE st(i, v) \in W /\ in(i, v) = st(i, v)
  <2> DEFINE sum == s[i] * from + v.carry
  <2>1. sum \in Nat
    <3>1. s[i] \in Nat
      OBVIOUS
    <3>2. v.carry \in Nat
      BY DEF W
    <3> QED BY <3>1, <3>2, Shifted, Zenon
  <2>2. sum % to \in Nat /\ sum \div to \in Nat
    <3> HIDE DEF sum
    <3> QED BY <2>1, Divides
  <2> HIDE DEF sum
  <2>3. [out |-> Append(v.out, sum % to), carry |-> sum \div to] \in W
    <3> DEFINE a == sum % to
               c == sum \div to
    <3>1. a \in Nat /\ c \in Nat
      BY <2>2
    <3> HIDE DEF a, c
    <3>2. Append(v.out, a) \in Seq(Nat)
      BY <3>1 DEF W
    <3>3. [out |-> Append(v.out, a), carry |-> c] \in W
      BY <3>1, <3>2 DEF W
    <3> QED BY <3>3 DEF a, c
  <2> QED BY <2>3, Zenon DEF sum
<1>3. ASSUME NEW h PROVE Eq(h) <=> Fun(h)
  BY Zenon
<1>4. Carry(s, from, to, more) = (CHOOSE h : Eq(h))[DOMAIN s].out \o Digits((CHOOSE h : Eq(h))[DOMAIN s].carry, to)
  BY Zenon DEF Carry, FoldLeft, MapThenFoldSet
<1> HIDE DEF W, st, in
<1>5. step \in [(1 .. n) \X W -> W] /\ \A i \in 1 .. n : \A v \in W : step[<<i, v>>] = st(i, v)
  BY <1>2
<1> HIDE DEF step
<1>6. PICK g : /\ Run(g, n, W, step, [out |-> <<>>, carry |-> more])
               /\ \E G \in [SUBSET (1 .. n) -> W] : OverPlaces(G, n, step, [out |-> <<>>, carry |-> more])
               /\ \A H : GoesOn(H, n, W, step, [out |-> <<>>, carry |-> more]) => H[1 .. n] = g[n]
  <2>1. step \in [(1 .. n) \X W -> W]
    BY <1>5
  <2>2. HasRun(n, W, step, [out |-> <<>>, carry |-> more])
    BY <1>1, <2>1, RunExists, Zenon
  <2> QED BY <2>2, Zenon DEF HasRun
<1>7. PICK G \in [SUBSET (1 .. n) -> W] : OverPlaces(G, n, step, [out |-> <<>>, carry |-> more])
  BY <1>6
<1>8. ASSUME NEW u \in SUBSET (1 .. n), u # {}
      PROVE  Max(u) \in 1 .. n /\ u \ {Max(u)} \in SUBSET (1 .. n)
  BY <1>1, <1>8, MaxOf
<1>9. Fun(G)
  <2>1. ASSUME NEW u \in SUBSET (1 .. n), u # {} PROVE step[<<Max(u), G[u \ {Max(u)}]>>] = in(Max(u), G[u \ {Max(u)}])
    <3>1. Max(u) \in 1 .. n /\ G[u \ {Max(u)}] \in W
      BY <1>8, <2>1
    <3>2. step[<<Max(u), G[u \ {Max(u)}]>>] = st(Max(u), G[u \ {Max(u)}])
      BY <1>5, <3>1, Zenon
    <3>3. in(Max(u), G[u \ {Max(u)}]) = st(Max(u), G[u \ {Max(u)}])
      BY <1>2, <3>1, Zenon
    <3> QED BY <3>2, <3>3
  <2>2. G = [u \in SUBSET (1 .. n) |-> IF u = {} THEN [out |-> <<>>, carry |-> more] ELSE step[<<Max(u), G[u \ {Max(u)}]>>]]
    BY <1>7, Zenon DEF OverPlaces
  <2>3. \A u \in SUBSET (1 .. n) : G[u] = IF u = {} THEN [out |-> <<>>, carry |-> more] ELSE in(Max(u), G[u \ {Max(u)}])
    BY <2>1, <2>2
  <2> QED BY <1>1, <2>3
<1> DEFINE F == CHOOSE h : Eq(h)
<1> HIDE DEF Eq
<1>10. Fun(F)
  BY <1>3, <1>9, Zenon
<1> HIDE DEF F
<1>11. GoesOn(F, n, W, step, [out |-> <<>>, carry |-> more])
  <2>1. F[{}] = [out |-> <<>>, carry |-> more]
    BY <1>1, <1>10
  <2>2. ASSUME NEW u \in SUBSET (1 .. n), u # {}, F[u \ {Max(u)}] \in W
        PROVE  F[u] = step[<<Max(u), F[u \ {Max(u)}]>>]
    <3>1. F[u] = in(Max(u), F[u \ {Max(u)}])
      BY <1>1, <1>10, <2>2
    <3>2. Max(u) \in 1 .. n
      BY <1>8, <2>2
    <3>3. step[<<Max(u), F[u \ {Max(u)}]>>] = st(Max(u), F[u \ {Max(u)}])
      BY <1>5, <2>2, <3>2, Zenon
    <3>4. in(Max(u), F[u \ {Max(u)}]) = st(Max(u), F[u \ {Max(u)}])
      BY <1>2, <2>2, <3>2, Zenon
    <3> QED BY <3>1, <3>3, <3>4
  <2> QED BY <2>1, <2>2 DEF GoesOn
<1>12. F[DOMAIN s] = g[n]
  BY <1>1, <1>6, <1>11
<1>13. Carry(s, from, to, more) = g[n].out \o Digits(g[n].carry, to)
  BY <1>4, <1>12, Zenon DEF F
<1>14. g \in [0 .. n -> W] /\ g[0] = [out |-> <<>>, carry |-> more] /\ \A i \in 1 .. n : g[i] = st(i, g[i - 1])
  <2>1. g \in [0 .. n -> W] /\ g[0] = [out |-> <<>>, carry |-> more] /\ \A i \in 1 .. n : g[i] = step[<<i, g[i - 1]>>]
    BY <1>6, Zenon DEF Run
  <2>2. ASSUME NEW i \in 1 .. n PROVE g[i] = st(i, g[i - 1])
    <3>1. i - 1 \in 0 .. n
      BY <1>1
    <3>2. g[i - 1] \in W
      BY <2>1, <3>1, Zenon
    <3>3. step[<<i, g[i - 1]>>] = st(i, g[i - 1])
      BY <1>5, <3>2, Zenon
    <3> QED BY <2>1, <3>3
  <2> QED BY <2>1, <2>2
<1>15. Carries(g, s, from, to, more)
  BY <1>14, Zenon DEF W, st, Carries
<1> QED BY <1>13, <1>15, Zenon

\* The value of decimal places.
Places(g, s) ==
    /\ g \in [0 .. Len(s) -> Nat] /\ g[0] = 0
    /\ \A i \in 1 .. Len(s) : g[i] = g[i - 1] * 10 + s[i]

LEMMA AmountRun ==
    ASSUME NEW s \in Seq(Nat)
    PROVE  \E g : Places(g, s) /\ FoldLeft(LAMBDA acc, d : acc * 10 + d, 0, s) = g[Len(s)]
<1> SUFFICES ASSUME NEW n, n = Len(s) PROVE \E g : Places(g, s) /\ FoldLeft(LAMBDA acc, d : acc * 10 + d, 0, s) = g[Len(s)]
  BY Zenon
<1> DEFINE W == Nat
           st(i, v) == v * 10 + s[i]
           in(i, v) == v * 10 + s[i]
           step == [p \in (1 .. n) \X W |-> st(p[1], p[2])]
           Eq(h) == h = [u \in SUBSET DOMAIN s |-> IF u = {} THEN 0 ELSE h[u \ {Max(u)}] * 10 + s[Max(u)]]
           Fun(h) == h = [u \in SUBSET DOMAIN s |-> IF u = {} THEN 0 ELSE in(Max(u), h[u \ {Max(u)}])]
<1>1. n \in Nat /\ DOMAIN s = 1 .. n /\ 0 \in W
  OBVIOUS
<1>2. ASSUME NEW i \in 1 .. n, NEW v \in W PROVE st(i, v) \in W /\ in(i, v) = st(i, v)
  OBVIOUS
<1>3. ASSUME NEW h PROVE Eq(h) <=> Fun(h)
  BY Zenon
<1>4. FoldLeft(LAMBDA acc, d : acc * 10 + d, 0, s) = (CHOOSE h : Eq(h))[DOMAIN s]
  BY Zenon DEF FoldLeft, MapThenFoldSet
<1> HIDE DEF W, st, in
<1>5. step \in [(1 .. n) \X W -> W] /\ \A i \in 1 .. n : \A v \in W : step[<<i, v>>] = st(i, v)
  BY <1>2
<1> HIDE DEF step
<1>6. PICK g : /\ Run(g, n, W, step, 0)
               /\ \E G \in [SUBSET (1 .. n) -> W] : OverPlaces(G, n, step, 0)
               /\ \A H : GoesOn(H, n, W, step, 0) => H[1 .. n] = g[n]
  <2>1. step \in [(1 .. n) \X W -> W]
    BY <1>5
  <2>2. HasRun(n, W, step, 0)
    BY <1>1, <2>1, RunExists, Zenon
  <2> QED BY <2>2, Zenon DEF HasRun
<1>7. PICK G \in [SUBSET (1 .. n) -> W] : OverPlaces(G, n, step, 0)
  BY <1>6
<1>8. ASSUME NEW u \in SUBSET (1 .. n), u # {}
      PROVE  Max(u) \in 1 .. n /\ u \ {Max(u)} \in SUBSET (1 .. n)
  BY <1>1, <1>8, MaxOf
<1>9. Fun(G)
  <2>1. ASSUME NEW u \in SUBSET (1 .. n), u # {} PROVE step[<<Max(u), G[u \ {Max(u)}]>>] = in(Max(u), G[u \ {Max(u)}])
    <3>1. Max(u) \in 1 .. n /\ G[u \ {Max(u)}] \in W
      BY <1>8, <2>1
    <3>2. step[<<Max(u), G[u \ {Max(u)}]>>] = st(Max(u), G[u \ {Max(u)}])
      BY <1>5, <3>1, Zenon
    <3>3. in(Max(u), G[u \ {Max(u)}]) = st(Max(u), G[u \ {Max(u)}])
      BY <1>2, <3>1, Zenon
    <3> QED BY <3>2, <3>3
  <2>2. G = [u \in SUBSET (1 .. n) |-> IF u = {} THEN 0 ELSE step[<<Max(u), G[u \ {Max(u)}]>>]]
    BY <1>7, Zenon DEF OverPlaces
  <2>3. \A u \in SUBSET (1 .. n) : G[u] = IF u = {} THEN 0 ELSE in(Max(u), G[u \ {Max(u)}])
    BY <2>1, <2>2
  <2> QED BY <1>1, <2>3
<1> DEFINE F == CHOOSE h : Eq(h)
<1> HIDE DEF Eq
<1>10. Fun(F)
  BY <1>3, <1>9, Zenon
<1> HIDE DEF F
<1>11. GoesOn(F, n, W, step, 0)
  <2>1. F[{}] = 0
    BY <1>1, <1>10
  <2>2. ASSUME NEW u \in SUBSET (1 .. n), u # {}, F[u \ {Max(u)}] \in W
        PROVE  F[u] = step[<<Max(u), F[u \ {Max(u)}]>>]
    <3>1. F[u] = in(Max(u), F[u \ {Max(u)}])
      BY <1>1, <1>10, <2>2
    <3>2. Max(u) \in 1 .. n
      BY <1>8, <2>2
    <3>3. step[<<Max(u), F[u \ {Max(u)}]>>] = st(Max(u), F[u \ {Max(u)}])
      BY <1>5, <2>2, <3>2, Zenon
    <3>4. in(Max(u), F[u \ {Max(u)}]) = st(Max(u), F[u \ {Max(u)}])
      BY <1>2, <2>2, <3>2, Zenon
    <3> QED BY <3>1, <3>3, <3>4
  <2> QED BY <2>1, <2>2 DEF GoesOn
<1>12. F[DOMAIN s] = g[n]
  BY <1>1, <1>6, <1>11
<1>13. FoldLeft(LAMBDA acc, d : acc * 10 + d, 0, s) = g[n]
  BY <1>4, <1>12, Zenon DEF F
<1>14. g \in [0 .. n -> W] /\ g[0] = 0 /\ \A i \in 1 .. n : g[i] = st(i, g[i - 1])
  <2>1. g \in [0 .. n -> W] /\ g[0] = 0 /\ \A i \in 1 .. n : g[i] = step[<<i, g[i - 1]>>]
    BY <1>6, Zenon DEF Run
  <2>2. ASSUME NEW i \in 1 .. n PROVE g[i] = st(i, g[i - 1])
    <3>1. i - 1 \in 0 .. n
      BY <1>1
    <3>2. g[i - 1] \in W
      BY <2>1, <3>1, Zenon
    <3>3. step[<<i, g[i - 1]>>] = st(i, g[i - 1])
      BY <1>5, <3>2, Zenon
    <3> QED BY <2>1, <3>3
  <2> QED BY <2>1, <2>2
<1>15. Places(g, s)
  BY <1>14, Zenon DEF W, st, Places
<1> QED BY <1>13, <1>15, Zenon

\* The value of letters.
Counts(g, s) ==
    /\ g \in [0 .. Len(s) -> Nat] /\ g[0] = 0
    /\ \A i \in 1 .. Len(s) : g[i] = g[i - 1] * 26 + s[i] + 1

LEMMA LettersRun ==
    ASSUME NEW s \in Seq(Nat)
    PROVE  \E g : Counts(g, s) /\ FoldLeft(LAMBDA acc, d : acc * 26 + d + 1, 0, s) = g[Len(s)]
<1> SUFFICES ASSUME NEW n, n = Len(s) PROVE \E g : Counts(g, s) /\ FoldLeft(LAMBDA acc, d : acc * 26 + d + 1, 0, s) = g[Len(s)]
  BY Zenon
<1> DEFINE W == Nat
           st(i, v) == v * 26 + s[i] + 1
           in(i, v) == v * 26 + s[i] + 1
           step == [p \in (1 .. n) \X W |-> st(p[1], p[2])]
           Eq(h) == h = [u \in SUBSET DOMAIN s |-> IF u = {} THEN 0 ELSE h[u \ {Max(u)}] * 26 + s[Max(u)] + 1]
           Fun(h) == h = [u \in SUBSET DOMAIN s |-> IF u = {} THEN 0 ELSE in(Max(u), h[u \ {Max(u)}])]
<1>1. n \in Nat /\ DOMAIN s = 1 .. n /\ 0 \in W
  OBVIOUS
<1>2. ASSUME NEW i \in 1 .. n, NEW v \in W PROVE st(i, v) \in W /\ in(i, v) = st(i, v)
  OBVIOUS
<1>3. ASSUME NEW h PROVE Eq(h) <=> Fun(h)
  BY Zenon
<1>4. FoldLeft(LAMBDA acc, d : acc * 26 + d + 1, 0, s) = (CHOOSE h : Eq(h))[DOMAIN s]
  BY Zenon DEF FoldLeft, MapThenFoldSet
<1> HIDE DEF W, st, in
<1>5. step \in [(1 .. n) \X W -> W] /\ \A i \in 1 .. n : \A v \in W : step[<<i, v>>] = st(i, v)
  BY <1>2
<1> HIDE DEF step
<1>6. PICK g : /\ Run(g, n, W, step, 0)
               /\ \E G \in [SUBSET (1 .. n) -> W] : OverPlaces(G, n, step, 0)
               /\ \A H : GoesOn(H, n, W, step, 0) => H[1 .. n] = g[n]
  <2>1. step \in [(1 .. n) \X W -> W]
    BY <1>5
  <2>2. HasRun(n, W, step, 0)
    BY <1>1, <2>1, RunExists, Zenon
  <2> QED BY <2>2, Zenon DEF HasRun
<1>7. PICK G \in [SUBSET (1 .. n) -> W] : OverPlaces(G, n, step, 0)
  BY <1>6
<1>8. ASSUME NEW u \in SUBSET (1 .. n), u # {}
      PROVE  Max(u) \in 1 .. n /\ u \ {Max(u)} \in SUBSET (1 .. n)
  BY <1>1, <1>8, MaxOf
<1>9. Fun(G)
  <2>1. ASSUME NEW u \in SUBSET (1 .. n), u # {} PROVE step[<<Max(u), G[u \ {Max(u)}]>>] = in(Max(u), G[u \ {Max(u)}])
    <3>1. Max(u) \in 1 .. n /\ G[u \ {Max(u)}] \in W
      BY <1>8, <2>1
    <3>2. step[<<Max(u), G[u \ {Max(u)}]>>] = st(Max(u), G[u \ {Max(u)}])
      BY <1>5, <3>1, Zenon
    <3>3. in(Max(u), G[u \ {Max(u)}]) = st(Max(u), G[u \ {Max(u)}])
      BY <1>2, <3>1, Zenon
    <3> QED BY <3>2, <3>3
  <2>2. G = [u \in SUBSET (1 .. n) |-> IF u = {} THEN 0 ELSE step[<<Max(u), G[u \ {Max(u)}]>>]]
    BY <1>7, Zenon DEF OverPlaces
  <2>3. \A u \in SUBSET (1 .. n) : G[u] = IF u = {} THEN 0 ELSE in(Max(u), G[u \ {Max(u)}])
    BY <2>1, <2>2
  <2> QED BY <1>1, <2>3
<1> DEFINE F == CHOOSE h : Eq(h)
<1> HIDE DEF Eq
<1>10. Fun(F)
  BY <1>3, <1>9, Zenon
<1> HIDE DEF F
<1>11. GoesOn(F, n, W, step, 0)
  <2>1. F[{}] = 0
    BY <1>1, <1>10
  <2>2. ASSUME NEW u \in SUBSET (1 .. n), u # {}, F[u \ {Max(u)}] \in W
        PROVE  F[u] = step[<<Max(u), F[u \ {Max(u)}]>>]
    <3>1. F[u] = in(Max(u), F[u \ {Max(u)}])
      BY <1>1, <1>10, <2>2
    <3>2. Max(u) \in 1 .. n
      BY <1>8, <2>2
    <3>3. step[<<Max(u), F[u \ {Max(u)}]>>] = st(Max(u), F[u \ {Max(u)}])
      BY <1>5, <2>2, <3>2, Zenon
    <3>4. in(Max(u), F[u \ {Max(u)}]) = st(Max(u), F[u \ {Max(u)}])
      BY <1>2, <2>2, <3>2, Zenon
    <3> QED BY <3>1, <3>3, <3>4
  <2> QED BY <2>1, <2>2 DEF GoesOn
<1>12. F[DOMAIN s] = g[n]
  BY <1>1, <1>6, <1>11
<1>13. FoldLeft(LAMBDA acc, d : acc * 26 + d + 1, 0, s) = g[n]
  BY <1>4, <1>12, Zenon DEF F
<1>14. g \in [0 .. n -> W] /\ g[0] = 0 /\ \A i \in 1 .. n : g[i] = st(i, g[i - 1])
  <2>1. g \in [0 .. n -> W] /\ g[0] = 0 /\ \A i \in 1 .. n : g[i] = step[<<i, g[i - 1]>>]
    BY <1>6, Zenon DEF Run
  <2>2. ASSUME NEW i \in 1 .. n PROVE g[i] = st(i, g[i - 1])
    <3>1. i - 1 \in 0 .. n
      BY <1>1
    <3>2. g[i - 1] \in W
      BY <2>1, <3>1, Zenon
    <3>3. step[<<i, g[i - 1]>>] = st(i, g[i - 1])
      BY <1>5, <3>2, Zenon
    <3> QED BY <2>1, <3>3
  <2> QED BY <2>1, <2>2
<1>15. Counts(g, s)
  BY <1>14, Zenon DEF W, st, Counts
<1> QED BY <1>13, <1>15, Zenon

\* What is kept of rows, one by one.
Keeps(g, s, good, X) ==
    /\ g \in [0 .. Len(s) -> Seq(X)] /\ g[0] = <<>>
    /\ \A i \in 1 .. Len(s) : g[i] = IF s[i] \in good THEN Append(g[i - 1], s[i]) ELSE g[i - 1]

LEMMA KeepRun ==
    ASSUME NEW X, NEW s \in Seq(X), NEW good
    PROVE  \E g : Keeps(g, s, good, X) /\ Keep(s, good) = g[Len(s)]
<1> SUFFICES ASSUME NEW n, n = Len(s) PROVE \E g : Keeps(g, s, good, X) /\ Keep(s, good) = g[Len(s)]
  BY Zenon
<1> DEFINE W == Seq(X)
           st(i, v) == IF s[i] \in good THEN Append(v, s[i]) ELSE v
           in(i, v) == IF s[i] \in good THEN Append(v, s[i]) ELSE v
           step == [p \in (1 .. n) \X W |-> st(p[1], p[2])]
           Eq(h) == h = [u \in SUBSET DOMAIN s |-> IF u = {} THEN <<>> ELSE IF s[Max(u)] \in good THEN Append(h[u \ {Max(u)}], s[Max(u)]) ELSE h[u \ {Max(u)}]]
           Fun(h) == h = [u \in SUBSET DOMAIN s |-> IF u = {} THEN <<>> ELSE in(Max(u), h[u \ {Max(u)}])]
<1>1. n \in Nat /\ DOMAIN s = 1 .. n /\ <<>> \in W
  OBVIOUS
<1>2. ASSUME NEW i \in 1 .. n, NEW v \in W PROVE st(i, v) \in W /\ in(i, v) = st(i, v)
  OBVIOUS
<1>3. ASSUME NEW h PROVE Eq(h) <=> Fun(h)
  BY Zenon
<1>4. Keep(s, good) = (CHOOSE h : Eq(h))[DOMAIN s]
  BY Zenon DEF Keep, FoldLeft, MapThenFoldSet
<1> HIDE DEF W, st, in
<1>5. step \in [(1 .. n) \X W -> W] /\ \A i \in 1 .. n : \A v \in W : step[<<i, v>>] = st(i, v)
  BY <1>2
<1> HIDE DEF step
<1>6. PICK g : /\ Run(g, n, W, step, <<>>)
               /\ \E G \in [SUBSET (1 .. n) -> W] : OverPlaces(G, n, step, <<>>)
               /\ \A H : GoesOn(H, n, W, step, <<>>) => H[1 .. n] = g[n]
  <2>1. step \in [(1 .. n) \X W -> W]
    BY <1>5
  <2>2. HasRun(n, W, step, <<>>)
    BY <1>1, <2>1, RunExists, Zenon
  <2> QED BY <2>2, Zenon DEF HasRun
<1>7. PICK G \in [SUBSET (1 .. n) -> W] : OverPlaces(G, n, step, <<>>)
  BY <1>6
<1>8. ASSUME NEW u \in SUBSET (1 .. n), u # {}
      PROVE  Max(u) \in 1 .. n /\ u \ {Max(u)} \in SUBSET (1 .. n)
  BY <1>1, <1>8, MaxOf
<1>9. Fun(G)
  <2>1. ASSUME NEW u \in SUBSET (1 .. n), u # {} PROVE step[<<Max(u), G[u \ {Max(u)}]>>] = in(Max(u), G[u \ {Max(u)}])
    <3>1. Max(u) \in 1 .. n /\ G[u \ {Max(u)}] \in W
      BY <1>8, <2>1
    <3>2. step[<<Max(u), G[u \ {Max(u)}]>>] = st(Max(u), G[u \ {Max(u)}])
      BY <1>5, <3>1, Zenon
    <3>3. in(Max(u), G[u \ {Max(u)}]) = st(Max(u), G[u \ {Max(u)}])
      BY <1>2, <3>1, Zenon
    <3> QED BY <3>2, <3>3
  <2>2. G = [u \in SUBSET (1 .. n) |-> IF u = {} THEN <<>> ELSE step[<<Max(u), G[u \ {Max(u)}]>>]]
    BY <1>7, Zenon DEF OverPlaces
  <2>3. \A u \in SUBSET (1 .. n) : G[u] = IF u = {} THEN <<>> ELSE in(Max(u), G[u \ {Max(u)}])
    BY <2>1, <2>2
  <2> QED BY <1>1, <2>3
<1> DEFINE F == CHOOSE h : Eq(h)
<1> HIDE DEF Eq
<1>10. Fun(F)
  BY <1>3, <1>9, Zenon
<1> HIDE DEF F
<1>11. GoesOn(F, n, W, step, <<>>)
  <2>1. F[{}] = <<>>
    BY <1>1, <1>10
  <2>2. ASSUME NEW u \in SUBSET (1 .. n), u # {}, F[u \ {Max(u)}] \in W
        PROVE  F[u] = step[<<Max(u), F[u \ {Max(u)}]>>]
    <3>1. F[u] = in(Max(u), F[u \ {Max(u)}])
      BY <1>1, <1>10, <2>2
    <3>2. Max(u) \in 1 .. n
      BY <1>8, <2>2
    <3>3. step[<<Max(u), F[u \ {Max(u)}]>>] = st(Max(u), F[u \ {Max(u)}])
      BY <1>5, <2>2, <3>2, Zenon
    <3>4. in(Max(u), F[u \ {Max(u)}]) = st(Max(u), F[u \ {Max(u)}])
      BY <1>2, <2>2, <3>2, Zenon
    <3> QED BY <3>1, <3>3, <3>4
  <2> QED BY <2>1, <2>2 DEF GoesOn
<1>12. F[DOMAIN s] = g[n]
  BY <1>1, <1>6, <1>11
<1>13. Keep(s, good) = g[n]
  BY <1>4, <1>12, Zenon DEF F
<1>14. g \in [0 .. n -> W] /\ g[0] = <<>> /\ \A i \in 1 .. n : g[i] = st(i, g[i - 1])
  <2>1. g \in [0 .. n -> W] /\ g[0] = <<>> /\ \A i \in 1 .. n : g[i] = step[<<i, g[i - 1]>>]
    BY <1>6, Zenon DEF Run
  <2>2. ASSUME NEW i \in 1 .. n PROVE g[i] = st(i, g[i - 1])
    <3>1. i - 1 \in 0 .. n
      BY <1>1
    <3>2. g[i - 1] \in W
      BY <2>1, <3>1, Zenon
    <3>3. step[<<i, g[i - 1]>>] = st(i, g[i - 1])
      BY <1>5, <3>2, Zenon
    <3> QED BY <2>1, <3>3
  <2> QED BY <2>1, <2>2
<1>15. Keeps(g, s, good, X)
  BY <1>14, Zenon DEF W, st, Keeps
<1> QED BY <1>13, <1>15, Zenon

\* What is kept of coins, each once.
Dedupes(g, s, X) ==
    /\ g \in [0 .. Len(s) -> Seq(X)] /\ g[0] = <<>>
    /\ \A i \in 1 .. Len(s) : g[i] = IF s[i] \in ToSet(g[i - 1]) THEN g[i - 1] ELSE Append(g[i - 1], s[i])

LEMMA DedupeRun ==
    ASSUME NEW X, NEW s \in Seq(X)
    PROVE  \E g : Dedupes(g, s, X) /\ DedupeUtxos(s) = g[Len(s)]
<1> SUFFICES ASSUME NEW n, n = Len(s) PROVE \E g : Dedupes(g, s, X) /\ DedupeUtxos(s) = g[Len(s)]
  BY Zenon
<1> DEFINE W == Seq(X)
           st(i, v) == IF s[i] \in ToSet(v) THEN v ELSE Append(v, s[i])
           in(i, v) == IF s[i] \in ToSet(v) THEN v ELSE Append(v, s[i])
           step == [p \in (1 .. n) \X W |-> st(p[1], p[2])]
           Eq(h) == h = [u \in SUBSET DOMAIN s |-> IF u = {} THEN <<>> ELSE IF s[Max(u)] \in ToSet(h[u \ {Max(u)}]) THEN h[u \ {Max(u)}] ELSE Append(h[u \ {Max(u)}], s[Max(u)])]
           Fun(h) == h = [u \in SUBSET DOMAIN s |-> IF u = {} THEN <<>> ELSE in(Max(u), h[u \ {Max(u)}])]
<1>1. n \in Nat /\ DOMAIN s = 1 .. n /\ <<>> \in W
  OBVIOUS
<1>2. ASSUME NEW i \in 1 .. n, NEW v \in W PROVE st(i, v) \in W /\ in(i, v) = st(i, v)
  OBVIOUS
<1>3. ASSUME NEW h PROVE Eq(h) <=> Fun(h)
  BY Zenon
<1>4. DedupeUtxos(s) = (CHOOSE h : Eq(h))[DOMAIN s]
  BY Zenon DEF DedupeUtxos, FoldLeft, MapThenFoldSet
<1> HIDE DEF W, st, in
<1>5. step \in [(1 .. n) \X W -> W] /\ \A i \in 1 .. n : \A v \in W : step[<<i, v>>] = st(i, v)
  BY <1>2
<1> HIDE DEF step
<1>6. PICK g : /\ Run(g, n, W, step, <<>>)
               /\ \E G \in [SUBSET (1 .. n) -> W] : OverPlaces(G, n, step, <<>>)
               /\ \A H : GoesOn(H, n, W, step, <<>>) => H[1 .. n] = g[n]
  <2>1. step \in [(1 .. n) \X W -> W]
    BY <1>5
  <2>2. HasRun(n, W, step, <<>>)
    BY <1>1, <2>1, RunExists, Zenon
  <2> QED BY <2>2, Zenon DEF HasRun
<1>7. PICK G \in [SUBSET (1 .. n) -> W] : OverPlaces(G, n, step, <<>>)
  BY <1>6
<1>8. ASSUME NEW u \in SUBSET (1 .. n), u # {}
      PROVE  Max(u) \in 1 .. n /\ u \ {Max(u)} \in SUBSET (1 .. n)
  BY <1>1, <1>8, MaxOf
<1>9. Fun(G)
  <2>1. ASSUME NEW u \in SUBSET (1 .. n), u # {} PROVE step[<<Max(u), G[u \ {Max(u)}]>>] = in(Max(u), G[u \ {Max(u)}])
    <3>1. Max(u) \in 1 .. n /\ G[u \ {Max(u)}] \in W
      BY <1>8, <2>1
    <3>2. step[<<Max(u), G[u \ {Max(u)}]>>] = st(Max(u), G[u \ {Max(u)}])
      BY <1>5, <3>1, Zenon
    <3>3. in(Max(u), G[u \ {Max(u)}]) = st(Max(u), G[u \ {Max(u)}])
      BY <1>2, <3>1, Zenon
    <3> QED BY <3>2, <3>3
  <2>2. G = [u \in SUBSET (1 .. n) |-> IF u = {} THEN <<>> ELSE step[<<Max(u), G[u \ {Max(u)}]>>]]
    BY <1>7, Zenon DEF OverPlaces
  <2>3. \A u \in SUBSET (1 .. n) : G[u] = IF u = {} THEN <<>> ELSE in(Max(u), G[u \ {Max(u)}])
    BY <2>1, <2>2
  <2> QED BY <1>1, <2>3
<1> DEFINE F == CHOOSE h : Eq(h)
<1> HIDE DEF Eq
<1>10. Fun(F)
  BY <1>3, <1>9, Zenon
<1> HIDE DEF F
<1>11. GoesOn(F, n, W, step, <<>>)
  <2>1. F[{}] = <<>>
    BY <1>1, <1>10
  <2>2. ASSUME NEW u \in SUBSET (1 .. n), u # {}, F[u \ {Max(u)}] \in W
        PROVE  F[u] = step[<<Max(u), F[u \ {Max(u)}]>>]
    <3>1. F[u] = in(Max(u), F[u \ {Max(u)}])
      BY <1>1, <1>10, <2>2
    <3>2. Max(u) \in 1 .. n
      BY <1>8, <2>2
    <3>3. step[<<Max(u), F[u \ {Max(u)}]>>] = st(Max(u), F[u \ {Max(u)}])
      BY <1>5, <2>2, <3>2, Zenon
    <3>4. in(Max(u), F[u \ {Max(u)}]) = st(Max(u), F[u \ {Max(u)}])
      BY <1>2, <2>2, <3>2, Zenon
    <3> QED BY <3>1, <3>3, <3>4
  <2> QED BY <2>1, <2>2 DEF GoesOn
<1>12. F[DOMAIN s] = g[n]
  BY <1>1, <1>6, <1>11
<1>13. DedupeUtxos(s) = g[n]
  BY <1>4, <1>12, Zenon DEF F
<1>14. g \in [0 .. n -> W] /\ g[0] = <<>> /\ \A i \in 1 .. n : g[i] = st(i, g[i - 1])
  <2>1. g \in [0 .. n -> W] /\ g[0] = <<>> /\ \A i \in 1 .. n : g[i] = step[<<i, g[i - 1]>>]
    BY <1>6, Zenon DEF Run
  <2>2. ASSUME NEW i \in 1 .. n PROVE g[i] = st(i, g[i - 1])
    <3>1. i - 1 \in 0 .. n
      BY <1>1
    <3>2. g[i - 1] \in W
      BY <2>1, <3>1, Zenon
    <3>3. step[<<i, g[i - 1]>>] = st(i, g[i - 1])
      BY <1>5, <3>2, Zenon
    <3> QED BY <2>1, <3>3
  <2> QED BY <2>1, <2>2
<1>15. Dedupes(g, s, X)
  BY <1>14, Zenon DEF W, st, Dedupes
<1> QED BY <1>13, <1>15, Zenon

-----------------------------------------------------------------------------
(* Script numbers *)

\* Two runs that start alike and go on alike are alike.
StepsAlike(g, h, n) == g[0] = h[0] /\ \A i \in 1 .. n : g[i - 1] = h[i - 1] => g[i] = h[i]

LEMMA RunsAlike ==
    ASSUME NEW n \in Nat, NEW g, NEW h, StepsAlike(g, h, n)
    PROVE  \A i \in 0 .. n : g[i] = h[i]
<1> DEFINE T == {k \in Nat : k \in 0 .. n => g[k] = h[k]}
<1>1. 0 \in T
  BY DEF StepsAlike
<1>2. ASSUME NEW k \in Nat, k \in T PROVE k + 1 \in T
  <2> SUFFICES ASSUME k + 1 \in 0 .. n PROVE g[k + 1] = h[k + 1]
    OBVIOUS
  <2>1. k \in 0 .. n /\ k + 1 \in 1 .. n /\ k + 1 - 1 = k
    OBVIOUS
  <2>2. g[k] = h[k]
    BY <1>2, <2>1
  <2> QED BY <2>1, <2>2 DEF StepsAlike
<1>3. Nat \subseteq T
  <2> HIDE DEF T
  <2> QED BY <1>1, <1>2, NatAll
<1> QED BY <1>3

\* It does not matter which of three lists are joined first.
JoinsUp(a, b, c) == (a \o b) \o c = a \o (b \o c)

LEMMA Joined ==
    ASSUME NEW a \in Seq(Nat), NEW b \in Seq(Nat), NEW c \in Seq(Nat)
    PROVE  JoinsUp(a, b, c)
BY ConcatAssociative DEF JoinsUp

\* A function of one place is a list of one.
LEMMA OneAlone ==
    ASSUME NEW n
    PROVE  [i \in 1 .. 1 |-> n] = <<n>>
OBVIOUS

\* One byte more, in front of those above it.
Over(x, a) == x * 256 + a

\* The value of bytes, the lowest first.
LEMMA ValueOf ==
    ASSUME NEW a \in Nat, NEW s \in Seq(Nat)
    PROVE  /\ LeToBigInt(<<>>) = 0 /\ LeToBigInt(s) \in Nat
           /\ LeToBigInt(<<a>> \o s) = Over(LeToBigInt(s), a)
<1>1. LeToBigInt(<<>>) = 0
  <2>1. <<>> \in Seq(Nat) /\ 0 = Len(<<>>)
    OBVIOUS
  <2>2. PICK g : Values(g, <<>>) /\ LeToBigInt(<<>>) = g[Len(<<>>)]
    BY <2>1, ValueRun
  <2> QED BY <2>1, <2>2 DEF Values
<1> DEFINE t == <<a>> \o s
           n == Len(s)
<1>2. /\ t \in Seq(Nat) /\ n + 1 = Len(t) /\ n \in Nat /\ n + 1 \in Nat
      /\ t[1] = a /\ \A i \in 1 .. n : t[i + 1] = s[i]
  OBVIOUS
<1>3. PICK g : Values(g, s) /\ LeToBigInt(s) = g[n]
  BY ValueRun
<1> HIDE DEF t
<1>a. PICK h : Values(h, t) /\ LeToBigInt(t) = h[Len(t)]
  BY <1>2, ValueRun
<1>4. /\ h \in [0 .. n + 1 -> Nat] /\ h[0] = 0
      /\ \A i \in 1 .. n + 1 : h[i] = h[i - 1] * 256 + t[n + 1 + 1 - i]
      /\ LeToBigInt(t) = h[n + 1]
  <2> DEFINE m == Len(t)
  <2>1. /\ h \in [0 .. m -> Nat] /\ h[0] = 0
        /\ \A i \in 1 .. m : h[i] = h[i - 1] * 256 + t[m + 1 - i]
        /\ LeToBigInt(t) = h[m]
    BY <1>a, SMT DEF Values
  <2>2. m = n + 1
    BY <1>2
  <2> HIDE DEF m, n
  <2> QED BY <2>1, <2>2, SMT
<1>5. ASSUME NEW i \in 1 .. n, g[i - 1] = h[i - 1] PROVE g[i] = h[i]
  <2>1. i \in 1 .. n + 1 /\ n + 1 - i \in 1 .. n /\ n + 1 + 1 - i = (n + 1 - i) + 1
    BY <1>2
  <2>2. t[n + 1 + 1 - i] = s[n + 1 - i]
    BY <1>2, <2>1
  <2>3. h[i] = h[i - 1] * 256 + s[n + 1 - i]
    BY <1>4, <2>1, <2>2
  <2>4. g[i] = g[i - 1] * 256 + s[n + 1 - i]
    BY <1>3 DEF Values
  <2> QED BY <1>5, <2>3, <2>4
<1>6. g[n] = h[n]
  <2>1. \A i \in 0 .. n : g[i] = h[i]
    <3>1. g[0] = h[0]
      BY <1>3, <1>4 DEF Values
    <3>2. StepsAlike(g, h, n)
      BY <1>5, <3>1 DEF StepsAlike
    <3> HIDE DEF n
    <3> QED BY <1>2, <3>2, RunsAlike
  <2> QED BY <1>2, <2>1
<1>7. h[n + 1] = h[n] * 256 + a
  <2>1. n + 1 \in 1 .. n + 1 /\ n + 1 - 1 = n /\ n + 1 + 1 - (n + 1) = 1
    BY <1>2
  <2>2. h[n + 1] = h[n + 1 - 1] * 256 + t[n + 1 + 1 - (n + 1)]
    <3>1. \A i \in 1 .. n + 1 : h[i] = h[i - 1] * 256 + t[n + 1 + 1 - i]
      BY <1>4
    <3> DEFINE k == n + 1
    <3>2. k \in 1 .. k
      BY <2>1
    <3>3. \A i \in 1 .. k : h[i] = h[i - 1] * 256 + t[k + 1 - i]
      BY <3>1
    <3> HIDE DEF k
    <3>4. h[k] = h[k - 1] * 256 + t[k + 1 - k]
      BY <3>2, <3>3
    <3> QED BY <3>4 DEF k
  <2> QED BY <1>2, <2>1, <2>2
<1>8. g[n] \in Nat
  BY <1>2, <1>3 DEF Values
<1> QED BY <1>1, <1>3, <1>4, <1>6, <1>7, <1>8 DEF t, Over

Split(m, b, q, r) ==
    m = b * q + r /\ q < m /\ r < b /\ q = m \div b /\ r = m % b

LEMMA DigitsStep ==
    ASSUME NEW b \in Bases, NEW m \in Nat, m # 0
    PROVE  \E q, r \in Nat : Split(m, b, q, r) /\ Digits(m, b) = <<r>> \o Digits(q, b)
<1> DEFINE q == m \div b
           r == m % b
<1>1. q \in Nat /\ r \in Nat /\ m = b * q + r /\ r < b
  BY Divides
<1>2. q < m
  <2>1. m > 0
    OBVIOUS
  <2>2. m > 0 => m \div b < m
    BY DigitsAre
  <2> QED BY <2>1, <2>2
<1>3. Digits(m, b) = <<r>> \o Digits(q, b)
  BY DigitsAre
<1>4. Split(m, b, q, r)
  BY <1>1, <1>2, Zenon DEF Split
<1> HIDE DEF q, r
<1> QED BY <1>1, <1>3, <1>4

LEMMA DigitsIn ==
    ASSUME NEW b \in Bases, NEW n \in Nat
    PROVE  Digits(n, b) \in Seq(Nat)
<1>1. Digits(n, b) \in Seq(0 .. b - 1)
  BY DigitsAre
<1> DEFINE s == Digits(n, b)
<1> HIDE DEF s
<1>2. s \in Seq(0 .. b - 1) /\ b \in Nat
  BY <1>1, Divides DEF s
<1>3. Len(s) \in Nat /\ \A i \in 1 .. Len(s) : s[i] \in Nat
  BY <1>2
<1>4. s = [i \in 1 .. Len(s) |-> s[i]]
  BY <1>2
<1>5. s \in Seq(Nat)
  BY <1>3, <1>4
<1> QED BY <1>5 DEF s

\* The digits of a number are the number, and none of them is missing at the top.
LEMMA DigitsValue ==
    ASSUME NEW n \in Nat, NEW z, z \in {<<>>, << 0 >>}
    PROVE  LeToBigInt(Digits(n, 256) \o z) = n
<1>0. 256 \in Bases
  BY DEF Bases
<1> DEFINE T == {k \in Nat : \A m \in Nat : m <= k => LeToBigInt(Digits(m, 256) \o z) = m}
<1>1. z \in Seq(Nat) /\ LeToBigInt(z) = 0
  <2>1. <<>> \in Seq(Nat) /\ 0 \in Nat
    OBVIOUS
  <2>2. LeToBigInt(<<>>) = 0 /\ LeToBigInt(<<0>> \o <<>>) = Over(0, 0)
    BY <2>1, ValueOf, Zenon
  <2>3. <<0>> \o <<>> = <<0>> /\ <<0>> \in Seq(Nat)
    OBVIOUS
  <2>4. Over(0, 0) = 0
    BY DEF Over
  <2> QED BY <2>1, <2>2, <2>3, <2>4
<1>2. 0 \in T
  <2>1. Digits(0, 256) = <<>>
    BY <1>0, DigitsAre
  <2>2. <<>> \o z = z
    BY <1>1
  <2>3. LeToBigInt(Digits(0, 256) \o z) = 0
    BY <1>1, <2>1, <2>2
  <2>4. \A m \in Nat : m <= 0 => m = 0
    OBVIOUS
  <2> QED BY <2>3, <2>4
<1>3. ASSUME NEW k \in Nat, k \in T PROVE k + 1 \in T
  <2> SUFFICES ASSUME NEW m \in Nat, m = k + 1 PROVE LeToBigInt(Digits(m, 256) \o z) = m
    BY <1>3
  <2>0. PICK q \in Nat, r \in Nat : Split(m, 256, q, r) /\ Digits(m, 256) = <<r>> \o Digits(q, 256)
    <3>1. m # 0
      OBVIOUS
    <3> DEFINE b == 256
    <3>2. b \in Bases
      BY <1>0
    <3> HIDE DEF b
    <3>3. \E q, r \in Nat : Split(m, b, q, r) /\ Digits(m, b) = <<r>> \o Digits(q, b)
      BY <3>1, <3>2, DigitsStep
    <3> QED BY <3>3 DEF b
  <2>1. /\ q \in Nat /\ q <= k /\ r \in Nat /\ m = q * 256 + r
        /\ Digits(m, 256) = <<r>> \o Digits(q, 256)
    BY <2>0 DEF Split
  <2>2. Digits(q, 256) \in Seq(Nat)
    BY <1>0, <2>1, DigitsIn
  <2>3. LeToBigInt(Digits(q, 256) \o z) = q
    BY <1>3, <2>1
  <2>4. Digits(m, 256) \o z = <<r>> \o (Digits(q, 256) \o z) /\ Digits(q, 256) \o z \in Seq(Nat)
    <3>1. <<r>> \in Seq(Nat)
      BY <2>1
    <3>2. JoinsUp(<<r>>, Digits(q, 256), z)
      BY <1>1, <2>2, <3>1, Joined
    <3>3. Digits(q, 256) \o z \in Seq(Nat)
      BY <1>1, <2>2, ConcatProperties
    <3>4. (<<r>> \o Digits(q, 256)) \o z = <<r>> \o (Digits(q, 256) \o z)
      BY <3>2, SMT DEF JoinsUp
    <3> QED BY <2>1, <3>3, <3>4
  <2>5. LeToBigInt(<<r>> \o (Digits(q, 256) \o z)) = Over(LeToBigInt(Digits(q, 256) \o z), r)
    BY <2>1, <2>4, ValueOf
  <2> QED BY <2>1, <2>3, <2>4, <2>5 DEF Over
<1>4. n \in T
  <2> HIDE DEF T
  <2> QED BY <1>2, <1>3, NatAll
<1> QED BY <1>4

LEMMA DigitsTop ==
    ASSUME NEW b \in Bases, NEW n \in Nat \ {0}
    PROVE  /\ Digits(n, b) \in Seq(Nat) /\ Len(Digits(n, b)) > 0
           /\ Last(Digits(n, b)) > 0 /\ Last(Digits(n, b)) \in Nat
<1> DEFINE T == {k \in Nat : \A m \in Nat \ {0} : m <= k =>
                    /\ Digits(m, b) \in Seq(Nat) /\ Len(Digits(m, b)) > 0
                    /\ Last(Digits(m, b)) > 0 /\ Last(Digits(m, b)) \in Nat}
<1>1. 0 \in T
  OBVIOUS
<1>2. ASSUME NEW k \in Nat, k \in T PROVE k + 1 \in T
  <2> SUFFICES ASSUME NEW m \in Nat \ {0}, m = k + 1
               PROVE  /\ Digits(m, b) \in Seq(Nat) /\ Len(Digits(m, b)) > 0
                      /\ Last(Digits(m, b)) > 0 /\ Last(Digits(m, b)) \in Nat
    BY <1>2
  <2>0. PICK q \in Nat, r \in Nat : Split(m, b, q, r) /\ Digits(m, b) = <<r>> \o Digits(q, b)
    <3>1. m # 0
      OBVIOUS
    <3> QED BY <3>1, DigitsStep
  <2>1. /\ q \in Nat /\ q <= k /\ r \in Nat /\ m = b * q + r
        /\ Digits(m, b) = <<r>> \o Digits(q, b)
    BY <2>0 DEF Split
  <2>2. CASE q = 0
    <3>1. Digits(q, b) = <<>>
      BY <2>2, DigitsAre
    <3>2. r = m
      <4>1. CASE b = 58
        BY <2>1, <2>2, <4>1
      <4>2. CASE b = 256
        BY <2>1, <2>2, <4>2
      <4> QED BY <4>1, <4>2 DEF Bases
    <3>3. Digits(m, b) = <<m>>
      <4>1. <<m>> \o <<>> = <<m>>
        OBVIOUS
      <4> QED BY <2>1, <3>1, <3>2, <4>1
    <3>4. <<m>> \in Seq(Nat) /\ Len(<<m>>) = 1 /\ <<m>>[1] = m
      OBVIOUS
    <3> DEFINE e == <<m>>
    <3>5. e \in Seq(Nat) /\ Len(e) > 0 /\ Last(e) > 0 /\ Last(e) \in Nat
      BY <3>4 DEF Last
    <3>6. Digits(m, b) = e
      BY <3>3
    <3> HIDE DEF e
    <3> QED BY <3>5, <3>6
  <2>3. CASE q # 0
    <3>1. /\ Digits(q, b) \in Seq(Nat) /\ Len(Digits(q, b)) > 0
          /\ Last(Digits(q, b)) > 0 /\ Last(Digits(q, b)) \in Nat
      BY <1>2, <2>1, <2>3
    <3> DEFINE d == Digits(q, b)
    <3> HIDE DEF d
    <3>2. d \in Seq(Nat) /\ Len(d) > 0 /\ d[Len(d)] > 0 /\ d[Len(d)] \in Nat
      BY <3>1 DEF d, Last
    <3>3. LET e == <<r>> \o d IN e \in Seq(Nat) /\ Len(e) > 0 /\ e[Len(e)] = d[Len(d)]
      BY <2>1, <3>2
    <3>4. Digits(m, b) = <<r>> \o d
      BY <2>1 DEF d
    <3> QED BY <3>2, <3>3, <3>4 DEF Last
  <2> QED BY <2>1, <2>2, <2>3
<1>3. n \in T
  <2> HIDE DEF T
  <2> QED BY <1>1, <1>2, NatAll
<1> QED BY <1>3

\* A script number: its bytes, its value, and its top byte.
LEMMA MinimalAre ==
    ASSUME NEW n \in Nat
    PROVE  /\ LeMinimal(n) \in Seq(Nat) /\ LeToBigInt(LeMinimal(n)) = n /\ Signed(LeMinimal(n)) = n
           /\ Len(LeMinimal(n)) > 1 /\ Last(LeMinimal(n)) = 0 => LeMinimal(n)[Len(LeMinimal(n)) - 1] >= 128
<1> DEFINE d == Digits(n, 256)
<1>0. 256 \in Bases
  BY DEF Bases
<1>1. LeToBigInt(d \o <<>>) = n /\ LeToBigInt(d \o <<0>>) = n
  BY DigitsValue
<1>2. CASE n = 0
  <2>1. d = <<>>
    BY <1>0, <1>2, DigitsAre
  <2>2. LeMinimal(n) = <<>>
    BY <1>2, <2>1 DEF LeMinimal
  <2>3. LeToBigInt(<<>>) = n
    BY <1>1, <2>1
  <2>4. Signed(<<>>) = 0
    BY DEF Signed
  <2>5. <<>> \in Seq(Nat) /\ ~(Len(<<>>) > 1)
    OBVIOUS
  <2> QED BY <1>2, <2>2, <2>3, <2>4, <2>5
<1>3. CASE n > 0
  <2>1. d \in Seq(Nat) /\ Len(d) > 0 /\ Last(d) > 0 /\ Last(d) \in Nat
    BY <1>0, <1>3, DigitsTop
  <2>2. LeMinimal(n) = IF Last(d) >= 128 THEN Append(d, 0) ELSE d
    BY <1>3 DEF LeMinimal
  <2> HIDE DEF d
  <2>3. d \o <<>> = d /\ d \o <<0>> = Append(d, 0)
    BY <2>1
  <2>4. CASE Last(d) >= 128
    <3> DEFINE b == Append(d, 0)
    <3>1. b \in Seq(Nat) /\ b # <<>> /\ Last(b) = 0 /\ Len(b) > 1 /\ b[Len(b) - 1] = Last(d)
      BY <2>1 DEF Last
    <3> HIDE DEF b
    <3>2. LeMinimal(n) = b /\ LeToBigInt(b) = n
      BY <1>1, <2>2, <2>3, <2>4 DEF b
    <3>3. Signed(b) = n
      BY <3>1, <3>2 DEF Signed
    <3> QED BY <2>4, <3>1, <3>2, <3>3
  <2>5. CASE ~(Last(d) >= 128)
    <3>1. LeMinimal(n) = d /\ LeToBigInt(d) = n /\ d # <<>> /\ Last(d) < 128
      BY <1>1, <2>1, <2>2, <2>3, <2>5
    <3>2. Signed(d) = n
      BY <3>1 DEF Signed
    <3> QED BY <2>1, <3>1, <3>2
  <2> QED BY <2>4, <2>5
<1> QED BY <1>2, <1>3

-----------------------------------------------------------------------------
(* Metadata *)

\* What stands between two lists that are joined to it.
Stands(w, p, t, s) ==
           /\ w \in Seq(Nat) /\ w = (p \o t) \o s /\ p \o t \in Seq(Nat) /\ Len(p \o t) = Len(p) + Len(t)
           /\ Len(w) = Len(p) + Len(t) + Len(s) /\ \A j \in 1 .. Len(t) : w[Len(p) + j] = t[j]

LEMMA Middle ==
    ASSUME NEW p \in Seq(Nat), NEW t \in Seq(Nat), NEW s \in Seq(Nat)
    PROVE  Stands(p \o (t \o s), p, t, s)
<1> DEFINE w == p \o (t \o s)
<1> DEFINE u == t \o s
<1>1. u \in Seq(Nat) /\ Len(u) = Len(t) + Len(s) /\ \A j \in 1 .. Len(t) : u[j] = t[j]
  OBVIOUS
<1>2. p \o t \in Seq(Nat) /\ Len(p \o t) = Len(p) + Len(t)
  OBVIOUS
<1>3. w = (p \o t) \o s
  <2>1. (p \o t) \o s = p \o (t \o s)
    BY Joined DEF JoinsUp
  <2> QED BY <2>1
<1>4. w = p \o u
  OBVIOUS
<1> HIDE DEF u, w
<1>5. w \in Seq(Nat) /\ Len(w) = Len(p) + Len(u) /\ \A j \in 1 .. Len(u) : w[Len(p) + j] = u[j]
  <2>1. Len(p) \in Nat /\ Len(u) \in Nat
    BY <1>1
  <2>2. \A j \in 1 .. Len(p) + Len(u) : (p \o u)[j] = IF j <= Len(p) THEN p[j] ELSE u[j - Len(p)]
    BY <1>1, ConcatProperties
  <2>3. p \o u \in Seq(Nat) /\ Len(p \o u) = Len(p) + Len(u)
    BY <1>1, ConcatProperties
  <2>4. ASSUME NEW j \in 1 .. Len(u) PROVE (p \o u)[Len(p) + j] = u[j]
    <3>1. Len(p) + j \in 1 .. Len(p) + Len(u) /\ ~(Len(p) + j <= Len(p)) /\ Len(p) + j - Len(p) = j
      BY <2>1
    <3> QED BY <2>2, <3>1
  <2> QED BY <1>4, <2>3, <2>4
<1>6. Len(w) = Len(p) + Len(t) + Len(s)
  BY <1>1, <1>5
<1>7. ASSUME NEW j \in 1 .. Len(t) PROVE w[Len(p) + j] = t[j]
  <2>1. j \in 1 .. Len(u)
    <3>1. Len(t) \in Nat /\ Len(s) \in Nat
      OBVIOUS
    <3> QED BY <1>1, <3>1
  <2> QED BY <1>1, <1>5, <2>1
<1>8. Stands(w, p, t, s)
  BY <1>2, <1>3, <1>5, <1>6, <1>7 DEF Stands
<1> QED BY <1>8 DEF w

PushStands(p, b, s) ==
    LET script == p \o (Push(b) \o s)
    IN /\ script \in Seq(Nat) /\ p \o Push(b) \in Seq(Nat) /\ script = (p \o Push(b)) \o s
       /\ PushesFrom(script, Len(p) + 1) = <<b>> \o PushesFrom(script, Len(p \o Push(b)) + 1)

\* A push is read where it stands, and reading goes on behind it.
LEMMA PushRead ==
    ASSUME NEW p \in Seq(Nat), NEW b \in Seq(Nat), NEW s \in Seq(Nat)
    PROVE  PushStands(p, b, s)
<1> DEFINE script == p \o (Push(b) \o s)
           i == Len(p) + 1
<1> DEFINE t == Push(b)
<1>1. t \in Seq(Nat) /\ Len(t) = Len(b) + 1 /\ t[1] = Len(b) /\ \A j \in 1 .. Len(b) : t[j + 1] = b[j]
  BY DEF Push
<1>2. script = p \o (t \o s)
  OBVIOUS
<1>b. i \in Nat /\ i = Len(p) + 1
  OBVIOUS
<1> HIDE DEF t, script, i
<1>a. Stands(script, p, t, s)
  <2>1. Stands(p \o (t \o s), p, t, s)
    BY <1>1, Middle
  <2> QED BY <1>2, <2>1
<1>3. script \in Seq(Nat) /\ Len(script) = Len(p) + Len(b) + 1 + Len(s)
      /\ \A j \in 1 .. Len(b) + 1 : script[Len(p) + j] = t[j]
  BY <1>1, <1>a DEF Stands
<1>4. script = (p \o t) \o s /\ p \o t \in Seq(Nat) /\ Len(p \o t) = Len(p) + Len(b) + 1
  BY <1>1, <1>a DEF Stands
<1>5. script[i] = Len(b) /\ i \in Nat \ {0} /\ ~(i > Len(script)) /\ Len(b) \in Nat
  <2>1. 1 \in 1 .. Len(b) + 1 /\ Len(b) \in Nat /\ Len(s) \in Nat /\ Len(p) \in Nat
    OBVIOUS
  <2>2. script[Len(p) + 1] = t[1]
    BY <1>3, <2>1
  <2> QED BY <1>1, <1>3, <1>b, <2>1, <2>2
<1>6. SubSeq(script, i + 1, i + Len(b)) = b
  <2>1. ASSUME NEW j \in 1 .. Len(b) PROVE script[i + j] = b[j]
    <3>1. j + 1 \in 1 .. Len(b) + 1 /\ Len(p) + (j + 1) = i + j
      BY <1>b
    <3>2. script[Len(p) + (j + 1)] = t[j + 1]
      BY <1>3, <3>1
    <3> QED BY <1>1, <3>1, <3>2
  <2> DEFINE m == Len(b)
             k == i + 1
             l == i + m
  <2>2. m \in Nat /\ k \in Int /\ l \in Int /\ l - k + 1 = m /\ \A j \in 1 .. m : k + j - 1 = i + j
    BY <1>b
  <2>3. SubSeq(script, k, l) = [j \in 1 .. l - k + 1 |-> script[k + j - 1]]
    <3> HIDE DEF m, k, l
    <3>1. script \in Seq(Nat)
      BY <1>3
    <3> QED BY <2>2, <3>1
  <2>4. [j \in 1 .. m |-> script[k + j - 1]] = [j \in 1 .. m |-> b[j]]
    BY <2>1, <2>2
  <2>5. b = [j \in 1 .. m |-> b[j]]
    OBVIOUS
  <2> QED BY <2>2, <2>3, <2>4, <2>5
<1>7. PushesFrom(script, i) = <<SubSeq(script, i + 1, i + script[i])>> \o PushesFrom(script, i + 1 + script[i])
  <2>1. i > Len(script) \/ PushesFrom(script, i) = <<SubSeq(script, i + 1, i + script[i])>> \o PushesFrom(script, i + 1 + script[i])
    BY <1>3, <1>5, PushesAre
  <2> QED BY <1>5, <2>1
<1>8. i + 1 + script[i] = Len(p \o t) + 1
  <2>1. Len(p) \in Nat
    OBVIOUS
  <2> QED BY <1>b, <1>4, <1>5, <2>1
<1>9. PushesFrom(script, i) = <<b>> \o PushesFrom(script, Len(p \o t) + 1)
  BY <1>5, <1>6, <1>7, <1>8
<1> QED BY <1>3, <1>4, <1>9, Zenon DEF PushStands, t, script, i

\* Past the end there is no push.
LEMMA PushesEnd ==
    ASSUME NEW s \in Seq(Nat), NEW i \in Nat, i = Len(s) + 1
    PROVE  PushesFrom(s, i) = <<>>
<1>1. i \in Nat \ {0} /\ i > Len(s)
  OBVIOUS
<1> QED BY <1>1, PushesAre

\* A single push is read, and nothing after it.
LEMMA OnePush ==
    ASSUME NEW p \in Seq(Nat), NEW b \in Seq(Nat), NEW i \in Nat, i = Len(p) + 1
    PROVE  PushesFrom(p \o Push(b), i) = <<b>>
<1>1. <<>> \in Seq(Nat)
  OBVIOUS
<1>2. Push(b) \in Seq(Nat)
  BY DEF Push
<1>3. Push(b) \o <<>> = Push(b) /\ p \o Push(b) \in Seq(Nat) /\ (p \o Push(b)) \o <<>> = p \o Push(b)
  BY <1>2, ConcatProperties, ConcatEmptySeq
<1> DEFINE s == p \o Push(b)
<1>4. PushesFrom(s, i) = <<b>> \o PushesFrom(s, Len(s) + 1)
  <2>1. PushStands(p, b, <<>>)
    BY <1>1, PushRead
  <2> QED BY <1>3, <2>1 DEF PushStands
<1>5. s \in Seq(Nat)
  BY <1>3
<1> HIDE DEF s
<1>6. PushesFrom(s, Len(s) + 1) = <<>>
  <2>1. Len(s) + 1 \in Nat
    BY <1>5
  <2> QED BY <1>5, <2>1, PushesEnd
<1>7. <<b>> \o <<>> = <<b>>
  OBVIOUS
<1> QED BY <1>4, <1>6, <1>7 DEF s

\* One more in front.
LEMMA Conses ==
    ASSUME NEW X, NEW a \in X, NEW s \in Seq(X), NEW t \in Seq(X), Len(t) = Len(s) + 1, t[1] = a,
           \A i \in 1 .. Len(s) : t[i + 1] = s[i]
    PROVE  <<a>> \o s = t
<1> DEFINE o == <<a>>
           w == o \o s
<1>1. o \in Seq(X) /\ Len(o) = 1 /\ o[1] = a /\ Len(s) \in Nat
  OBVIOUS
<1> HIDE DEF o
<1>2. w \in Seq(X) /\ Len(w) = 1 + Len(s) /\ \A i \in 1 .. 1 + Len(s) : w[i] = IF i <= 1 THEN o[i] ELSE s[i - 1]
  <2>1. w \in Seq(X) /\ Len(w) = Len(o) + Len(s)
    BY <1>1, ConcatProperties
  <2>2. \A i \in 1 .. Len(o) + Len(s) : w[i] = IF i <= Len(o) THEN o[i] ELSE s[i - Len(o)]
    BY <1>1, ConcatProperties
  <2> HIDE DEF w
  <2> QED BY <1>1, <2>1, <2>2
<1> HIDE DEF w
<1>3. ASSUME NEW i \in 1 .. Len(t) PROVE w[i] = t[i]
  <2>1. CASE i = 1
    BY <1>1, <1>2, <2>1
  <2>2. CASE i # 1
    <3>1. i - 1 \in 1 .. Len(s) /\ i \in 1 .. 1 + Len(s) /\ ~(i <= 1) /\ i - 1 + 1 = i
      BY <1>1, <2>2
    <3> QED BY <1>2, <3>1
  <2> QED BY <2>1, <2>2
<1>4. Len(w) = Len(t)
  BY <1>1, <1>2
<1>5. w = t
  BY <1>2, <1>3, <1>4, SeqEqual
<1> QED BY <1>5 DEF w, o

\* Lists that are put together from the front, of two to five.
LEMMA Cons2 ==
    ASSUME NEW X, NEW a \in X, NEW b \in X
    PROVE  <<a>> \o <<b>> = <<a, b>>
<1> DEFINE s == <<b>>
           t == <<a, b>>
<1>1. /\ s \in Seq(X) /\ t \in Seq(X) /\ Len(t) = Len(s) + 1 /\ t[1] = a
      /\ \A i \in 1 .. Len(s) : t[i + 1] = s[i]
  OBVIOUS
<1> HIDE DEF s, t
<1>2. <<a>> \o s = t
  BY <1>1, Conses
<1> QED BY <1>2 DEF s, t

LEMMA Cons3 ==
    ASSUME NEW X, NEW a \in X, NEW b \in X, NEW c \in X
    PROVE  <<a>> \o <<b, c>> = <<a, b, c>>
<1> DEFINE s == <<b, c>>
           t == <<a, b, c>>
<1>1. /\ s \in Seq(X) /\ t \in Seq(X) /\ Len(t) = Len(s) + 1 /\ t[1] = a
      /\ \A i \in 1 .. Len(s) : t[i + 1] = s[i]
  OBVIOUS
<1> HIDE DEF s, t
<1>2. <<a>> \o s = t
  BY <1>1, Conses
<1> QED BY <1>2 DEF s, t

LEMMA Cons4 ==
    ASSUME NEW X, NEW a \in X, NEW b \in X, NEW c \in X, NEW d \in X
    PROVE  <<a>> \o <<b, c, d>> = <<a, b, c, d>>
<1> DEFINE s == <<b, c, d>>
           t == <<a, b, c, d>>
<1>1. /\ s \in Seq(X) /\ t \in Seq(X) /\ Len(t) = Len(s) + 1 /\ t[1] = a
      /\ \A i \in 1 .. Len(s) : t[i + 1] = s[i]
  OBVIOUS
<1> HIDE DEF s, t
<1>2. <<a>> \o s = t
  BY <1>1, Conses
<1> QED BY <1>2 DEF s, t

LEMMA Cons5 ==
    ASSUME NEW X, NEW a \in X, NEW b \in X, NEW c \in X, NEW d \in X, NEW e \in X
    PROVE  <<a>> \o <<b, c, d, e>> = <<a, b, c, d, e>>
<1> DEFINE s == <<b, c, d, e>>
           t == <<a, b, c, d, e>>
<1>1. /\ s \in Seq(X) /\ t \in Seq(X) /\ Len(t) = Len(s) + 1 /\ t[1] = a
      /\ \A i \in 1 .. Len(s) : t[i + 1] = s[i]
  OBVIOUS
<1> HIDE DEF s, t
<1>2. <<a>> \o s = t
  BY <1>1, Conses
<1> QED BY <1>2 DEF s, t

\* What every kind of metadata begins with.
Header(c) == (<<OpReturn>> \o Push(Magic)) \o Push(<<c>>)

\* The header is read as its two pushes, whatever comes after it.
LEMMA HeaderRead ==
    ASSUME NEW c \in Nat, NEW s \in Seq(Nat)
    PROVE  /\ Header(c) \in Seq(Nat) /\ Header(c) \o s \in Seq(Nat)
           /\ PushesFrom(Header(c) \o s, 2) =
                <<Magic>> \o (<< <<c>> >> \o PushesFrom(Header(c) \o s, Len(Header(c)) + 1))
<1> DEFINE o == <<OpReturn>>
           m == Magic
           b == <<c>>
           pm == Push(m)
           pb == Push(b)
           w == o \o (pm \o (pb \o s))
<1>1. o \in Seq(Nat) /\ m \in Seq(Nat) /\ b \in Seq(Nat) /\ Len(o) + 1 = 2
  BY DEF OpReturn, Magic
<1> HIDE DEF o, m, b
<1>2. pm \in Seq(Nat) /\ pb \in Seq(Nat)
  BY <1>1 DEF Push
<1>3. pb \o s \in Seq(Nat)
  BY <1>2, ConcatProperties
<1>4. PushStands(o, m, pb \o s)
  BY <1>1, <1>3, PushRead
<1>5. /\ w \in Seq(Nat) /\ o \o pm \in Seq(Nat) /\ w = (o \o pm) \o (pb \o s)
      /\ PushesFrom(w, 2) = <<m>> \o PushesFrom(w, Len(o \o pm) + 1)
  BY <1>1, <1>4, Zenon DEF PushStands
<1>6. PushStands(o \o pm, b, s)
  BY <1>1, <1>5, PushRead
<1> DEFINE h == (o \o pm) \o pb
<1>7. /\ h \in Seq(Nat) /\ (o \o pm) \o (pb \o s) = h \o s
      /\ PushesFrom((o \o pm) \o (pb \o s), Len(o \o pm) + 1) = <<b>> \o PushesFrom((o \o pm) \o (pb \o s), Len(h) + 1)
  BY <1>6, Zenon DEF PushStands
<1>8. Header(c) = h
  BY Zenon DEF Header, o, m, b
<1> HIDE DEF h, w, pm, pb
<1>9. w = h \o s /\ PushesFrom(w, 2) = <<m>> \o (<<b>> \o PushesFrom(w, Len(h) + 1))
  BY <1>5, <1>7
<1> QED BY <1>5, <1>7, <1>8, <1>9 DEF m, b

\* The pushes of metadata of one number, and of three.
LEMMA OneNumber ==
    ASSUME NEW c \in Nat, NEW x \in Seq(Nat)
    PROVE  PushesFrom(Header(c) \o Push(x), 2) = <<Magic, <<c>>, x>>
<1> DEFINE h == Header(c)
           f == PushesFrom(h \o Push(x), Len(h) + 1)
           m == Magic
           b == <<c>>
<1>1. Push(x) \in Seq(Nat)
  BY DEF Push
<1>2. h \in Seq(Nat) /\ PushesFrom(h \o Push(x), 2) = <<m>> \o (<<b>> \o f)
  BY <1>1, HeaderRead
<1> HIDE DEF h
<1>3. f = <<x>>
  <2>1. Len(h) + 1 \in Nat
    BY <1>2
  <2> QED BY <1>2, <2>1, OnePush
<1> HIDE DEF f, m, b
<1>4. <<m>> \o (<<b>> \o <<x>>) = <<m, b, x>>
  <2>1. m \in Seq(Nat) /\ b \in Seq(Nat)
    BY DEF m, b, Magic
  <2>2. <<b>> \o <<x>> = <<b, x>>
    BY <2>1, Cons2
  <2>3. <<m>> \o <<b, x>> = <<m, b, x>>
    BY <2>1, Cons3
  <2> QED BY <2>2, <2>3
<1> QED BY <1>2, <1>3, <1>4 DEF m, b, h

LEMMA ThreeNumbers ==
    ASSUME NEW c \in Nat, NEW x \in Seq(Nat), NEW y \in Seq(Nat), NEW z \in Seq(Nat)
    PROVE  PushesFrom(Header(c) \o ((Push(x) \o Push(y)) \o Push(z)), 2) = <<Magic, <<c>>, x, y, z>>
<1> DEFINE h == Header(c)
           px == Push(x)
           py == Push(y)
           pz == Push(z)
           s == (px \o py) \o pz
           w == h \o s
           m == Magic
           b == <<c>>
<1>1. px \in Seq(Nat) /\ py \in Seq(Nat) /\ pz \in Seq(Nat)
  BY DEF Push
<1>2. py \o pz \in Seq(Nat) /\ s \in Seq(Nat) /\ s = px \o (py \o pz)
  <2> HIDE DEF px, py, pz
  <2>1. py \o pz \in Seq(Nat) /\ px \o py \in Seq(Nat)
    BY <1>1, ConcatProperties
  <2>2. (px \o py) \o pz = px \o (py \o pz)
    <3>1. JoinsUp(px, py, pz)
      BY <1>1, Joined
    <3> QED BY <3>1, Zenon DEF JoinsUp
  <2>3. (px \o py) \o pz \in Seq(Nat)
    BY <1>1, <2>1, ConcatProperties
  <2> QED BY <2>1, <2>2, <2>3
<1> HIDE DEF s
<1>3. h \in Seq(Nat) /\ PushesFrom(w, 2) = <<m>> \o (<<b>> \o PushesFrom(w, Len(h) + 1))
  BY <1>2, HeaderRead
<1> HIDE DEF h
<1>4. PushStands(h, x, py \o pz)
  BY <1>2, <1>3, PushRead
<1>5. /\ h \o px \in Seq(Nat) /\ w = (h \o px) \o (py \o pz)
      /\ PushesFrom(w, Len(h) + 1) = <<x>> \o PushesFrom(w, Len(h \o px) + 1)
  BY <1>2, <1>4, Zenon DEF PushStands
<1> DEFINE i == h \o px
<1>6. i \in Seq(Nat) /\ w = i \o (py \o pz)
  BY <1>5, Zenon
<1>7. PushStands(i, y, pz)
  <2> HIDE DEF i
  <2> QED BY <1>1, <1>6, PushRead
<1>8. /\ i \o py \in Seq(Nat) /\ w = (i \o py) \o pz
      /\ PushesFrom(w, Len(i) + 1) = <<y>> \o PushesFrom(w, Len(i \o py) + 1)
  BY <1>6, <1>7, Zenon DEF PushStands
<1> DEFINE j == i \o py
<1>9. PushesFrom(j \o pz, Len(j) + 1) = <<z>>
  <2>1. j \in Seq(Nat)
    BY <1>8, Zenon
  <2> HIDE DEF j
  <2>2. Len(j) + 1 \in Nat
    BY <2>1
  <2> QED BY <2>1, <2>2, OnePush
<1>10. PushesFrom(w, 2) = <<m>> \o (<<b>> \o (<<x>> \o (<<y>> \o <<z>>)))
  <2>1. w = j \o pz
    BY <1>8, Zenon
  <2>2. PushesFrom(w, Len(j) + 1) = <<z>>
    BY <1>9, <2>1
  <2>3. PushesFrom(w, Len(i) + 1) = <<y>> \o PushesFrom(w, Len(j) + 1)
    BY <1>8, Zenon
  <2>4. PushesFrom(w, Len(h) + 1) = <<x>> \o PushesFrom(w, Len(i) + 1)
    BY <1>5, Zenon
  <2> HIDE DEF w, i, j, m, b
  <2> QED BY <1>3, <2>2, <2>3, <2>4
<1> HIDE DEF m, b
<1>11. <<m>> \o (<<b>> \o (<<x>> \o (<<y>> \o <<z>>))) = <<m, b, x, y, z>>
  <2>1. m \in Seq(Nat) /\ b \in Seq(Nat)
    BY DEF m, b, Magic
  <2>2. <<y>> \o <<z>> = <<y, z>>
    BY Cons2
  <2>3. <<x>> \o <<y, z>> = <<x, y, z>>
    BY Cons3
  <2>4. <<b>> \o <<x, y, z>> = <<b, x, y, z>>
    BY <2>1, Cons4
  <2>5. <<m>> \o <<b, x, y, z>> = <<m, b, x, y, z>>
    BY <2>1, Cons5
  <2> QED BY <2>2, <2>3, <2>4, <2>5
<1> QED BY <1>10, <1>11, Zenon DEF w, s, h, m, b

\* One list, or three, joined.
LEMMA FlattenOne ==
    ASSUME NEW q \in [1 .. 1 -> Seq(Nat)], Len(q) = 1
    PROVE  FlattenSeq(q) = q[1]
<1>1. 1 \in Nat \ {0}
  OBVIOUS
<1>2. PICK g : Joins(g, q, 1, Nat)
  BY <1>1, FlattenSteps
<1> QED BY <1>2 DEF Joins

LEMMA FlattenThree ==
    ASSUME NEW q \in [1 .. 3 -> Seq(Nat)], Len(q) = 3
    PROVE  FlattenSeq(q) = (q[1] \o q[2]) \o q[3]
<1>1. PICK g \in [1 .. 3 -> Seq(Nat)] :
              /\ g[1] = q[1] /\ \A i \in 2 .. 3 : g[i] = g[i - 1] \o q[i]
              /\ FlattenSeq(q) = g[3]
  <2>1. 3 \in Nat \ {0}
    OBVIOUS
  <2>2. PICK g : Joins(g, q, 3, Nat)
    BY <2>1, FlattenSteps
  <2> QED BY <2>2, Zenon DEF Joins
<1>2. g[2] = g[1] \o q[2] /\ g[3] = g[2] \o q[3]
  <2>1. 2 \in 2 .. 3 /\ 3 \in 2 .. 3 /\ 2 - 1 = 1 /\ 3 - 1 = 2
    OBVIOUS
  <2>2. g[2] = g[2 - 1] \o q[2] /\ g[3] = g[3 - 1] \o q[3]
    BY <1>1, <2>1
  <2> QED BY <2>1, <2>2
<1> QED BY <1>1, <1>2

Types == {"mint", "transfer", "redeem"}

\* What is built, as it is read.
LEMMA BuildOne ==
    ASSUME NEW type \in Types, NEW n \in Nat
    PROVE  PushesFrom(BuildMetadata(type, <<n>>), 2) = <<Magic, <<CodeByType[type]>>, LeMinimal(n)>>
<1> DEFINE q == [i \in 1 .. Len(<<n>>) |-> Push(LeMinimal(<<n>>[i]))]
<1>1. CodeByType[type] \in Nat
  BY DEF Types, CodeByType
<1>2. LeMinimal(n) \in Seq(Nat)
  BY MinimalAre
<1>3. Push(LeMinimal(n)) \in Seq(Nat)
  BY <1>2 DEF Push
<1>4. q \in [1 .. 1 -> Seq(Nat)] /\ Len(q) = 1 /\ q[1] = Push(LeMinimal(n))
  <2>1. Len(<<n>>) = 1 /\ <<n>>[1] = n
    OBVIOUS
  <2>2. \A i \in 1 .. 1 : i = 1
    OBVIOUS
  <2> HIDE DEF q
  <2>3. q = [i \in 1 .. 1 |-> Push(LeMinimal(<<n>>[i]))]
    BY <2>1 DEF q
  <2> QED BY <1>3, <2>1, <2>2, <2>3
<1>5. BuildMetadata(type, <<n>>) = Header(CodeByType[type]) \o FlattenSeq(q)
  BY Zenon DEF BuildMetadata, Header
<1> HIDE DEF q
<1>6. FlattenSeq(q) = Push(LeMinimal(n))
  BY <1>4, FlattenOne
<1> QED BY <1>1, <1>2, <1>5, <1>6, OneNumber

LEMMA BuildThree ==
    ASSUME NEW type \in Types, NEW a \in Nat, NEW b \in Nat, NEW c \in Nat
    PROVE  PushesFrom(BuildMetadata(type, <<a, b, c>>), 2) =
             <<Magic, <<CodeByType[type]>>, LeMinimal(a), LeMinimal(b), LeMinimal(c)>>
<1> DEFINE q == [i \in 1 .. Len(<<a, b, c>>) |-> Push(LeMinimal(<<a, b, c>>[i]))]
<1>1. CodeByType[type] \in Nat
  BY DEF Types, CodeByType
<1>2. \A n \in Nat : LeMinimal(n) \in Seq(Nat)
  BY MinimalAre
<1>3. \A n \in Nat : Push(LeMinimal(n)) \in Seq(Nat)
  BY <1>2 DEF Push
<1>4. /\ q \in [1 .. 3 -> Seq(Nat)] /\ Len(q) = 3
      /\ q[1] = Push(LeMinimal(a)) /\ q[2] = Push(LeMinimal(b)) /\ q[3] = Push(LeMinimal(c))
  <2>1. Len(<<a, b, c>>) = 3 /\ <<a, b, c>>[1] = a /\ <<a, b, c>>[2] = b /\ <<a, b, c>>[3] = c
    OBVIOUS
  <2>2. \A i \in 1 .. 3 : i = 1 \/ i = 2 \/ i = 3
    OBVIOUS
  <2> HIDE DEF q
  <2>3. q = [i \in 1 .. 3 |-> Push(LeMinimal(<<a, b, c>>[i]))]
    BY <2>1 DEF q
  <2>4. \A i \in 1 .. 3 : <<a, b, c>>[i] \in Nat
    OBVIOUS
  <2> QED BY <1>3, <2>1, <2>2, <2>3, <2>4
<1>5. BuildMetadata(type, <<a, b, c>>) = Header(CodeByType[type]) \o FlattenSeq(q)
  BY Zenon DEF BuildMetadata, Header
<1> HIDE DEF q
<1>6. FlattenSeq(q) = (Push(LeMinimal(a)) \o Push(LeMinimal(b))) \o Push(LeMinimal(c))
  BY <1>4, FlattenThree
<1>7. LeMinimal(a) \in Seq(Nat) /\ LeMinimal(b) \in Seq(Nat) /\ LeMinimal(c) \in Seq(Nat)
  BY <1>2
<1> DEFINE k == CodeByType[type]
           x == LeMinimal(a)
           y == LeMinimal(b)
           z == LeMinimal(c)
<1> HIDE DEF k, x, y, z
<1>8. k \in Nat /\ x \in Seq(Nat) /\ y \in Seq(Nat) /\ z \in Seq(Nat)
  BY <1>1, <1>7 DEF k, x, y, z
<1>9. PushesFrom(Header(k) \o ((Push(x) \o Push(y)) \o Push(z)), 2) = <<Magic, <<k>>, x, y, z>>
  BY <1>8, ThreeNumbers
<1> QED BY <1>5, <1>6, <1>9, Zenon DEF k, x, y, z

\* MetadataSound: numbers and metadata are read back, each kind as itself only.
LEMMA MetadataHolds ==
    ASSUME NEW n \in Nat
    PROVE  MetadataSound(n)
<1>1. DOMAIN CodeByType = Types
  BY DEF CodeByType, Types
<1>2. \A s, t \in Types : CodeByType[s] = CodeByType[t] => s = t
  BY DEF CodeByType, Types
<1>3. \A s, t \in Types : <<CodeByType[s]>> = <<CodeByType[t]>> => s = t
  <2>1. \A x, y : <<x>> = <<y>> => x = y
    OBVIOUS
  <2> QED BY <1>2, <2>1
<1>4. ASSUME NEW type \in Types, NEW other \in Types
      PROVE  ParseMetadata(other, BuildMetadata(type, <<n>>)) = IF other = type THEN <<n>> ELSE Refused
  <2> DEFINE x == LeMinimal(n)
             c == <<CodeByType[type]>>
             p == <<Magic, c, x>>
  <2>1. PushesFrom(BuildMetadata(type, <<n>>), 2) = p
    BY BuildOne
  <2>2. LeToBigInt(x) = n
    BY MinimalAre
  <2> HIDE DEF x, c
  <2>3. p[1] = Magic /\ p[2] = c /\ Len(p) = 3 /\ p[3] = x
    OBVIOUS
  <2> HIDE DEF p
  <2>4. [i \in 1 .. Len(p) - 2 |-> LeToBigInt(p[i + 2])] = <<n>>
    <3>1. \A i \in 1 .. 1 : i + 2 = 3
      OBVIOUS
    <3>2. [i \in 1 .. Len(p) - 2 |-> LeToBigInt(p[i + 2])] = [i \in 1 .. 1 |-> n]
      BY <2>2, <2>3, <3>1
    <3> QED BY <3>2, OneAlone, Zenon
  <2>5. ParseMetadata(other, BuildMetadata(type, <<n>>)) =
          IF p[1] # Magic \/ p[2] # <<CodeByType[other]>> THEN Refused
          ELSE [i \in 1 .. Len(p) - 2 |-> LeToBigInt(p[i + 2])]
    BY <2>1 DEF ParseMetadata
  <2> QED BY <1>3, <2>3, <2>4, <2>5 DEF c
<1>5. ASSUME NEW type \in Types, NEW other \in Types
      PROVE  ParseMetadata(other, BuildMetadata(type, <<n, 0, Near>>)) = IF other = type THEN <<n, 0, Near>> ELSE Refused
  <2> DEFINE x == LeMinimal(n)
             y == LeMinimal(0)
             z == LeMinimal(Near)
             c == <<CodeByType[type]>>
             p == <<Magic, c, x, y, z>>
  <2>0. Near \in Nat /\ 0 \in Nat
    BY TextsAssumption
  <2>1. PushesFrom(BuildMetadata(type, <<n, 0, Near>>), 2) = p
    BY <2>0, BuildThree
  <2>2. LeToBigInt(x) = n /\ LeToBigInt(y) = 0 /\ LeToBigInt(z) = Near
    BY <2>0, MinimalAre
  <2> HIDE DEF x, y, z, c
  <2>3. p[1] = Magic /\ p[2] = c /\ Len(p) = 5 /\ p[3] = x /\ p[4] = y /\ p[5] = z
    OBVIOUS
  <2> HIDE DEF p
  <2>4. [i \in 1 .. Len(p) - 2 |-> LeToBigInt(p[i + 2])] = <<n, 0, Near>>
    <3> DEFINE v == [i \in 1 .. Len(p) - 2 |-> LeToBigInt(p[i + 2])]
    <3>1. v \in [1 .. 3 -> Nat] /\ v[1] = n /\ v[2] = 0 /\ v[3] = Near
      <4>1. \A i \in 1 .. 3 : i = 1 \/ i = 2 \/ i = 3
        OBVIOUS
      <4>2. Len(p) - 2 = 3 /\ 1 + 2 = 3 /\ 2 + 2 = 4 /\ 3 + 2 = 5
        BY <2>3
      <4> QED BY <2>0, <2>2, <2>3, <4>1, <4>2
    <3> HIDE DEF v
    <3> DEFINE t == <<n, 0, Near>>
    <3>2. v = [i \in 1 .. 3 |-> v[i]]
      BY <3>1
    <3>3. t = [i \in 1 .. 3 |-> t[i]] /\ t[1] = n /\ t[2] = 0 /\ t[3] = Near
      OBVIOUS
    <3> HIDE DEF t
    <3>4. \A i \in 1 .. 3 : v[i] = t[i]
      <4>1. \A i \in 1 .. 3 : i = 1 \/ i = 2 \/ i = 3
        OBVIOUS
      <4> QED BY <3>1, <3>3, <4>1
    <3>5. v = t
      BY <3>2, <3>3, <3>4
    <3> QED BY <3>5 DEF v, t
  <2>5. ParseMetadata(other, BuildMetadata(type, <<n, 0, Near>>)) =
          IF p[1] # Magic \/ p[2] # <<CodeByType[other]>> THEN Refused
          ELSE [i \in 1 .. Len(p) - 2 |-> LeToBigInt(p[i + 2])]
    BY <2>1 DEF ParseMetadata
  <2> QED BY <1>3, <2>3, <2>4, <2>5 DEF c
<1>6. ASSUME NEW type \in Types, NEW other \in Types, NEW numbers \in {<<n>>, <<n, 0, Near>>}
      PROVE  ParseMetadata(other, BuildMetadata(type, numbers)) = IF other = type THEN numbers ELSE Refused
  <2>1. CASE numbers = <<n>>
    BY <1>4, <2>1
  <2>2. CASE numbers = <<n, 0, Near>>
    BY <1>5, <2>2
  <2> QED BY <2>1, <2>2
<1>7. \A type, other \in DOMAIN CodeByType, numbers \in {<<n>>, <<n, 0, Near>>} :
              ParseMetadata(other, BuildMetadata(type, numbers)) = IF other = type THEN numbers ELSE Refused
  BY <1>1, <1>6, Zenon
<1> DEFINE b == LeMinimal(n)
<1>8. Signed(b) = n /\ LeToBigInt(b) = n /\ (Len(b) > 1 /\ Last(b) = 0 => b[Len(b) - 1] >= 128)
  BY MinimalAre
<1> QED BY <1>7, <1>8, Zenon DEF MetadataSound

-----------------------------------------------------------------------------
(* Versions and settings *)

\* VersionsSound: every kind of version is told from the others.
LEMMA VersionsHold == VersionsSound
<1> SUFFICES ASSUME NEW type \in Types PROVE TypeOfVersion(DdVersion(type)) = {type}
  BY DEF VersionsSound, Types, CodeByType
<1>1. DOMAIN CodeByType = Types /\ \A t \in Types : CodeByType[t] \in 1 .. 3
  BY DEF CodeByType, Types
<1>2. \A s, t \in Types : CodeByType[s] = CodeByType[t] => s = t
  BY DEF CodeByType, Types
<1>3. \A c \in 1 .. 3 : (c * 16777216 + 1904) % 65536 = 1904 /\ (c * 16777216 + 1904) \div 16777216 = c
  OBVIOUS
<1> DEFINE c == CodeByType[type]
           v == DdVersion(type)
<1>4. v % 65536 = Marker /\ v \div 16777216 = c
  BY <1>1, <1>3 DEF DdVersion, Marker
<1> HIDE DEF v
<1>5. TypeOfVersion(v) = {t \in Types : CodeByType[t] = c}
  BY <1>1, <1>4 DEF TypeOfVersion
<1>6. {t \in Types : CodeByType[t] = c} = {type}
  BY <1>2
<1> QED BY <1>5, <1>6 DEF v

\* NumbersSound: the lock, the multiplier and the two encodings of a script number.
LEMMA NumbersHold ==
    ASSUME NEW n \in Nat
    PROVE  NumbersSound(n)
<1>1. \A raw \in {Refused, -n, n} : AutolockMinutes(raw) = 0 => raw = 0
  BY DEF AutolockMinutes
<1>2. \A m \in {n, 999, 10001} : DcaBpsOf(m) # Refused => DcaBpsOf(m) >= 10000 /\ DcaBpsOf(m) <= 100000
  BY SMT DEF DcaBpsOf
<1>3. PushScriptNum(n) = Push(LeMinimal(n))
  <2>1. CASE n = 0
    <3>1. Digits(0, 256) = <<>>
      <4>1. 256 \in Bases /\ 0 \in Nat
        BY DEF Bases
      <4> QED BY <4>1, DigitsAre
    <3>2. LeMinimal(0) = <<>>
      BY <3>1 DEF LeMinimal
    <3>3. Push(<<>>) = <<0>>
      BY DEF Push
    <3> QED BY <2>1, <3>2, <3>3 DEF PushScriptNum
  <2>2. CASE n # 0
    BY <2>2 DEF PushScriptNum
  <2> QED BY <2>1, <2>2
<1> QED BY <1>1, <1>2, <1>3, SMT DEF NumbersSound

-----------------------------------------------------------------------------
(* Letters *)

\* What letters count, one more letter at a time.
LettersValue(s) == FoldLeft(LAMBDA acc, d : acc * 26 + d + 1, 0, s)

LEMMA LettersMore ==
    ASSUME NEW s \in Seq(Nat), NEW r \in Nat
    PROVE  /\ LettersValue(s) \in Nat /\ LettersValue(<<r>>) = r + 1
           /\ LettersValue(s \o <<r>>) = LettersValue(s) * 26 + r + 1
<1>1. ASSUME NEW a \in Seq(Nat) PROVE \E g : Counts(g, a) /\ LettersValue(a) = g[Len(a)]
  BY LettersRun, Zenon DEF LettersValue
<1>2. ASSUME NEW a \in Seq(Nat)
      PROVE  LettersValue(a) \in Nat /\ LettersValue(a \o <<r>>) = LettersValue(a) * 26 + r + 1
  <2> DEFINE t == a \o <<r>>
             n == Len(a)
  <2>1. /\ t \in Seq(Nat) /\ Len(t) = n + 1 /\ n \in Nat /\ t[n + 1] = r
        /\ \A i \in 1 .. n : t[i] = a[i]
    OBVIOUS
  <2>2. PICK g : Counts(g, a) /\ LettersValue(a) = g[n]
    BY <1>1
  <2>3. PICK h : Counts(h, t) /\ LettersValue(t) = h[Len(t)]
    BY <1>1, <2>1
  <2> HIDE DEF t
  <2>4. /\ g[0] = 0 /\ h[0] = 0 /\ g[n] \in Nat
        /\ \A i \in 1 .. n : g[i] = g[i - 1] * 26 + a[i] + 1
        /\ \A i \in 1 .. n + 1 : h[i] = h[i - 1] * 26 + t[i] + 1
    <3> HIDE DEF n
    <3>1. n = Len(a)
      BY DEF n
    <3> QED BY <2>1, <2>2, <2>3, <3>1 DEF Counts
  <2> HIDE DEF n
  <2>5. ASSUME NEW i \in 1 .. n, g[i - 1] = h[i - 1] PROVE g[i] = h[i]
    <3>1. i \in 1 .. n + 1
      BY <2>1
    <3> QED BY <2>1, <2>4, <2>5, <3>1
  <2>6. g[n] = h[n]
    <3>1. StepsAlike(g, h, n)
      BY <2>4, <2>5 DEF StepsAlike
    <3> QED BY <2>1, <3>1, RunsAlike
  <2>7. h[n + 1] = h[n] * 26 + r + 1
    <3>1. n + 1 \in 1 .. n + 1 /\ n + 1 - 1 = n
      BY <2>1
    <3> QED BY <2>1, <2>4, <3>1
  <2> QED BY <2>1, <2>2, <2>3, <2>4, <2>6, <2>7 DEF t
<1>3. LettersValue(<<>>) = 0
  <2>1. <<>> \in Seq(Nat) /\ Len(<<>>) = 0
    OBVIOUS
  <2>2. PICK g : Counts(g, <<>>) /\ LettersValue(<<>>) = g[Len(<<>>)]
    BY <1>1, <2>1
  <2> QED BY <2>1, <2>2 DEF Counts
<1>4. LettersValue(<<r>>) = r + 1
  <2>1. <<>> \in Seq(Nat) /\ <<>> \o <<r>> = <<r>>
    OBVIOUS
  <2>2. LettersValue(<<>> \o <<r>>) = LettersValue(<<>>) * 26 + r + 1
    BY <1>2, <2>1
  <2> QED BY <1>3, <2>1, <2>2
<1> QED BY <1>2, <1>4

\* The letters of a number count up to it.
LEMMA LettersCount ==
    ASSUME NEW n \in Nat
    PROVE  LettersValue(seqLetters[n]) = n + 1
<1> DEFINE T == {k \in Nat : \A m \in Nat : m <= k => LettersValue(seqLetters[m]) = m + 1}
<1>1. ASSUME NEW m \in Nat, m < 26 PROVE LettersValue(seqLetters[m]) = m + 1
  <2>1. seqLetters[m] = <<m>>
    <3>1. seqLetters[m] = IF m < 26 THEN <<m>> ELSE seqLetters[m \div 26 - 1] \o <<m % 26>>
      BY LettersAre, Zenon
    <3> QED BY <1>1, <3>1
  <2>2. <<>> \in Seq(Nat)
    OBVIOUS
  <2> QED BY <2>1, <2>2, LettersMore
<1>2. 0 \in T
  <2>1. \A m \in Nat : m <= 0 => m < 26
    OBVIOUS
  <2> QED BY <1>1, <2>1
<1>3. ASSUME NEW k \in Nat, k \in T PROVE k + 1 \in T
  <2> SUFFICES ASSUME NEW m \in Nat, m = k + 1 PROVE LettersValue(seqLetters[m]) = m + 1
    BY <1>3
  <2>1. CASE m < 26
    BY <1>1, <2>1
  <2>2. CASE m >= 26
    <3> DEFINE q == m \div 26 - 1
               r == m % 26
    <3>1. q \in Nat /\ q <= k /\ m = 26 * q + r + 26 /\ r \in Nat
      BY <2>2
    <3>0. seqLetters[m] = IF m < 26 THEN <<m>> ELSE seqLetters[q] \o <<r>>
      BY LettersAre, Zenon
    <3> HIDE DEF q, r
    <3>2. seqLetters[m] = seqLetters[q] \o <<r>> /\ seqLetters[q] \in Seq(0 .. 25)
      <4>1. seqLetters[q] \in Seq(0 .. 25)
        BY <3>1, LettersAre
      <4> QED BY <2>2, <3>0, <4>1
    <3>3. LettersValue(seqLetters[q]) = q + 1
      BY <1>3, <3>1
    <3> DEFINE s == seqLetters[q]
    <3>4. s \in Seq(Nat)
      <4>1. 0 .. 25 \subseteq Nat
        OBVIOUS
      <4> QED BY <3>2, <4>1, SeqMonotonic, Zenon
    <3> HIDE DEF s
    <3>5. LettersValue(s \o <<r>>) = LettersValue(s) * 26 + r + 1
      BY <3>1, <3>4, LettersMore
    <3>6. LettersValue(s) = q + 1 /\ seqLetters[m] = s \o <<r>>
      BY <3>2, <3>3 DEF s
    <3>7. LettersValue(seqLetters[m]) = (q + 1) * 26 + r + 1
      BY <3>5, <3>6
    <3>8. (q + 1) * 26 + r + 1 = m + 1
      BY <3>1
    <3> QED BY <3>7, <3>8
  <2> QED BY <2>1, <2>2
<1>4. n \in T
  <2> HIDE DEF T
  <2> QED BY <1>2, <1>3, NatAll
<1> QED BY <1>4

-----------------------------------------------------------------------------
(* Amounts *)

\* A function of the first numbers is a list.
LEMMA ListOf ==
    ASSUME NEW n \in Nat, NEW X, NEW f \in [1 .. n -> X]
    PROVE  f \in Seq(X) /\ Len(f) = n
<1>1. f \in Seq(X)
  BY SeqDef
<1>2. DOMAIN f = 1 .. n /\ DOMAIN f = 1 .. Len(f) /\ Len(f) \in Nat
  BY <1>1, LenProperties
<1>3. ASSUME NEW k \in Nat, 1 .. n = 1 .. k PROVE k = n
  <2>1. CASE n = 0
    <3>1. k > 0 => 1 \in 1 .. k
      OBVIOUS
    <3> QED BY <1>3, <2>1, <3>1
  <2>2. CASE n > 0
    <3>1. n \in 1 .. n /\ (k > 0 => k \in 1 .. k)
      BY <2>2
    <3>2. n \in 1 .. k
      BY <1>3, <3>1
    <3>3. k \in 1 .. n
      BY <1>3, <3>1, <3>2
    <3> QED BY <3>2, <3>3
  <2> QED BY <2>1, <2>2
<1> QED BY <1>1, <1>2, <1>3

\* What decimal places are worth.
PlacesValue(s) == FoldLeft(LAMBDA acc, d : acc * 10 + d, 0, s)

\* Eight decimal places are a number, digit by digit.
LEMMA PlacesEight ==
    ASSUME NEW s \in Seq(Nat), Len(s) = 8
    PROVE  PlacesValue(s) = ((((((s[1] * 10 + s[2]) * 10 + s[3]) * 10 + s[4]) * 10 + s[5]) * 10 + s[6]) * 10 + s[7]) * 10 + s[8]
<1>1. PICK g : Places(g, s) /\ PlacesValue(s) = g[Len(s)]
  BY AmountRun, Zenon DEF PlacesValue
<1>2. g[0] = 0 /\ \A i \in 1 .. 8 : g[i] = g[i - 1] * 10 + s[i]
  BY <1>1 DEF Places
<1>3. /\ 1 \in 1 .. 8 /\ 2 \in 1 .. 8 /\ 3 \in 1 .. 8 /\ 4 \in 1 .. 8 /\ 5 \in 1 .. 8 /\ 6 \in 1 .. 8
      /\ 7 \in 1 .. 8 /\ 8 \in 1 .. 8
  BY SMT
<1>4. \A i \in 1 .. 8 : s[i] \in Nat
  <2>1. \A i \in 1 .. Len(s) : s[i] \in Nat
    BY ElementOfSeq
  <2>2. Len(s) = 8
    OBVIOUS
  <2> QED BY <2>1, <2>2, Zenon
<1>5. g[1] = s[1]
  <2>1. g[1] = 0 * 10 + s[1]
    BY <1>2, <1>3
  <2> QED BY <1>3, <1>4, <2>1
<1>6. /\ g[2] = g[1] * 10 + s[2] /\ g[3] = g[2] * 10 + s[3] /\ g[4] = g[3] * 10 + s[4]
      /\ g[5] = g[4] * 10 + s[5] /\ g[6] = g[5] * 10 + s[6] /\ g[7] = g[6] * 10 + s[7]
      /\ g[8] = g[7] * 10 + s[8]
  BY <1>2, <1>3
<1> QED BY <1>1, <1>5, <1>6, Zenon

\* The eight places are digits, and a list of them.
LEMMA EightAre ==
    ASSUME NEW m \in Nat, m < SatsPerDgb
    PROVE  /\ EightPlaces(m) \in Seq(Nat) /\ Len(EightPlaces(m)) = 8
           /\ PlacesValue(EightPlaces(m)) = m
<1> DEFINE s == EightPlaces(m)
<1>1. \A i \in 1 .. 8 : i = 1 \/ i = 2 \/ i = 3 \/ i = 4 \/ i = 5 \/ i = 6 \/ i = 7 \/ i = 8
  OBVIOUS
<1>2. /\ 10 ^ (8 - 1) = 10000000 /\ 10 ^ (8 - 2) = 1000000 /\ 10 ^ (8 - 3) = 100000 /\ 10 ^ (8 - 4) = 10000
      /\ 10 ^ (8 - 5) = 1000 /\ 10 ^ (8 - 6) = 100 /\ 10 ^ (8 - 7) = 10 /\ 10 ^ (8 - 8) = 1
  BY SMT
<1>3. /\ s[1] = (m \div 10000000) % 10 /\ s[2] = (m \div 1000000) % 10 /\ s[3] = (m \div 100000) % 10
      /\ s[4] = (m \div 10000) % 10 /\ s[5] = (m \div 1000) % 10 /\ s[6] = (m \div 100) % 10
      /\ s[7] = (m \div 10) % 10 /\ s[8] = (m \div 1) % 10
  BY <1>2, SMT DEF EightPlaces
<1>4. \A i \in 1 .. 8 : s[i] = (m \div 10 ^ (8 - i)) % 10
  BY SMT DEF EightPlaces
<1>5. ASSUME NEW i \in 1 .. 8 PROVE s[i] \in Nat
  <2>1. \A x \in Nat : x % 10 \in Nat /\ \A y \in Nat \ {0} : x \div y \in Nat
    OBVIOUS
  <2> QED BY <1>1, <1>3, SMT
<1>6. DOMAIN s = 1 .. 8
  BY DEF EightPlaces
<1>7. s \in [1 .. 8 -> Nat]
  <2>1. s = [i \in 1 .. 8 |-> s[i]]
    BY DEF EightPlaces
  <2> HIDE DEF s
  <2> QED BY <1>5, <2>1
<1> HIDE DEF s
<1>8. s \in Seq(Nat) /\ Len(s) = 8
  <2>1. 8 \in Nat
    OBVIOUS
  <2> QED BY <1>7, <2>1, ListOf
<1>9. PlacesValue(s) = ((((((s[1] * 10 + s[2]) * 10 + s[3]) * 10 + s[4]) * 10 + s[5]) * 10 + s[6]) * 10 + s[7]) * 10 + s[8]
  BY <1>8, PlacesEight
<1>10. /\ s[1] = m \div 10000000 /\ m \div 1000000 = 10 * (m \div 10000000) + s[2]
      /\ m \div 100000 = 10 * (m \div 1000000) + s[3] /\ m \div 10000 = 10 * (m \div 100000) + s[4]
      /\ m \div 1000 = 10 * (m \div 10000) + s[5] /\ m \div 100 = 10 * (m \div 1000) + s[6]
      /\ m \div 10 = 10 * (m \div 100) + s[7] /\ m = 10 * (m \div 10) + s[8]
  <2>1. s[1] = m \div 10000000
    BY <1>3, SMT DEF SatsPerDgb
  <2>2. m \div 1000000 = 10 * (m \div 10000000) + s[2]
    BY <1>3, SMT
  <2>3. m \div 100000 = 10 * (m \div 1000000) + s[3]
    BY <1>3, SMT
  <2>4. m \div 10000 = 10 * (m \div 100000) + s[4]
    BY <1>3, SMT
  <2>5. m \div 1000 = 10 * (m \div 10000) + s[5]
    BY <1>3, SMT
  <2>6. m \div 100 = 10 * (m \div 1000) + s[6]
    BY <1>3, SMT
  <2>7. m \div 10 = 10 * (m \div 100) + s[7] /\ m = 10 * (m \div 10) + s[8]
    BY <1>3, SMT
  <2> QED BY <2>1, <2>2, <2>3, <2>4, <2>5, <2>6, <2>7, SMT
<1>11. PlacesValue(s) = m
  BY <1>5, <1>9, <1>10, SMT
<1> QED BY <1>8, <1>11 DEF s

Kept(s, e) == {i \in 1 .. e : \E j \in i .. e : s[j] # 0}

\* Of decimal places, those that are kept end with one that is not zero.
LEMMA KeptAre ==
    ASSUME NEW e \in Nat, NEW s \in Seq(Nat), Len(s) = e
    PROVE  \E k \in 0 .. e : /\ Kept(s, e) = 1 .. k /\ Cardinality(Kept(s, e)) = k
                             /\ k # 0 => s[k] # 0
                             /\ \A i \in 1 .. e : i > k => s[i] = 0
<1> SUFFICES \E k \in 0 .. e : /\ Kept(s, e) = 1 .. k
                               /\ k # 0 => s[k] # 0
                               /\ \A i \in 1 .. e : i > k => s[i] = 0
  <2>1. \A k \in 0 .. e : Cardinality(1 .. k) = k
    <3>1. \A k \in 0 .. e : k \in Int /\ 1 \in Int
      OBVIOUS
    <3>2. \A k \in 0 .. e : Cardinality(1 .. k) = IF 1 > k THEN 0 ELSE k - 1 + 1
      BY <3>1, FS_Interval
    <3>3. \A k \in 0 .. e : (IF 1 > k THEN 0 ELSE k - 1 + 1) = k
      OBVIOUS
    <3> QED BY <3>2, <3>3
  <2> QED BY <2>1
<1> DEFINE U == {i \in 1 .. e : s[i] # 0}
<1>1. CASE U = {}
  <2>1. \A i \in 1 .. e : s[i] = 0
    BY <1>1
  <2>2. \A i \in 1 .. e : \A j \in i .. e : j \in 1 .. e
    OBVIOUS
  <2>3. Kept(s, e) = {}
    BY <2>1, <2>2 DEF Kept
  <2>4. 1 .. 0 = {} /\ 0 \in 0 .. e
    OBVIOUS
  <2> QED BY <2>1, <2>3, <2>4
<1>2. CASE U # {}
  <2> DEFINE k == Max(U)
  <2>0. e \in Nat /\ U \in SUBSET (1 .. e)
    OBVIOUS
  <2>1. k \in U /\ \A i \in U : i <= k
    BY <1>2, <2>0, MaxOf
  <2> HIDE DEF k
  <2>2. k \in 1 .. e /\ s[k] # 0
    BY <2>1
  <2>3. \A i \in 1 .. e : i > k => s[i] = 0
    <3> SUFFICES ASSUME NEW i \in 1 .. e, i > k, s[i] # 0 PROVE FALSE
      OBVIOUS
    <3>1. i <= k
      BY <2>1
    <3> QED BY <2>2, <3>1
  <2>4. ASSUME NEW i \in 1 .. e PROVE (\E j \in i .. e : s[j] # 0) <=> i <= k
    <3>1. ASSUME NEW j \in i .. e, s[j] # 0 PROVE i <= k
      <4>1. j \in 1 .. e
        OBVIOUS
      <4>2. j <= k
        BY <2>1, <3>1, <4>1
      <4> QED BY <2>2, <4>2
    <3>2. i <= k => k \in i .. e
      BY <2>2
    <3> QED BY <2>2, <3>1, <3>2
  <2>5. Kept(s, e) = {i \in 1 .. e : i <= k}
    BY <2>4 DEF Kept
  <2>6. {i \in 1 .. e : i <= k} = 1 .. k /\ k \in 0 .. e
    BY <2>2
  <2> HIDE DEF U
  <2> QED BY <2>2, <2>3, <2>5, <2>6
<1> QED BY <1>1, <1>2

\* What is left out are zeros.
LEMMA CutAndFilled ==
    ASSUME NEW e \in Nat, NEW s \in Seq(Nat), Len(s) = e, NEW k \in 0 .. e,
           \A i \in 1 .. e : i > k => s[i] = 0
    PROVE  LET f == SubSeq(s, 1, k)
           IN f \in Seq(Nat) /\ Len(f) = k /\ (k # 0 => Last(f) = s[k]) /\ f \o Zeros(e - Len(f)) = s
<1> DEFINE f == SubSeq(s, 1, k)
           z == Zeros(e - k)
           w == f \o z
<1>1. f \in Seq(Nat) /\ Len(f) = k /\ \A i \in 1 .. k : f[i] = s[i]
  OBVIOUS
<1>2. z \in Seq(Nat) /\ Len(z) = e - k /\ \A i \in 1 .. e - k : z[i] = 0
  <2>1. e - k \in Nat /\ z \in [1 .. e - k -> Nat]
    BY DEF Zeros
  <2>2. \A i \in 1 .. e - k : z[i] = 0
    BY DEF Zeros
  <2> HIDE DEF z
  <2> QED BY <2>1, <2>2, ListOf
<1> HIDE DEF f, z
<1>3. /\ w \in Seq(Nat) /\ Len(w) = Len(f) + Len(z)
      /\ \A i \in 1 .. Len(f) + Len(z) : w[i] = IF i <= Len(f) THEN f[i] ELSE z[i - Len(f)]
  BY <1>1, <1>2, ConcatProperties
<1> HIDE DEF w
<1>4. Len(w) = e /\ \A i \in 1 .. e : w[i] = IF i <= k THEN f[i] ELSE z[i - k]
  BY <1>1, <1>2, <1>3
<1>5. ASSUME NEW i \in 1 .. e PROVE w[i] = s[i]
  <2>1. CASE i <= k
    <3>1. i \in 1 .. k
      BY <2>1
    <3> QED BY <1>1, <1>4, <2>1, <3>1
  <2>2. CASE ~(i <= k)
    <3>1. i - k \in 1 .. e - k /\ i > k
      BY <2>2
    <3> QED BY <1>2, <1>4, <2>2, <3>1
  <2> QED BY <2>1, <2>2
<1>6. w = s
  BY <1>3, <1>4, <1>5, SeqEqual
<1>7. k # 0 => Last(f) = s[k]
  <2>1. k # 0 => k \in 1 .. k
    OBVIOUS
  <2> QED BY <1>1, <2>1 DEF Last
<1> QED BY <1>1, <1>6, <1>7 DEF f, z, w

\* An amount is whole coins and a rest.
LEMMA WholeAndRest ==
    ASSUME NEW n \in Nat
    PROVE  /\ n \div SatsPerDgb \in Nat /\ n % SatsPerDgb \in Nat /\ n % SatsPerDgb < SatsPerDgb
           /\ (n \div SatsPerDgb) * SatsPerDgb + (n % SatsPerDgb) = n
  BY SMT DEF SatsPerDgb

\* What is written of an amount is read as it.
LEMMA AmountRead ==
    ASSUME NEW n \in Nat
    PROVE  /\ SatsToDgb(n) \in [whole : Nat, frac : Seq(Nat)]
           /\ DgbToSats(SatsToDgb(n)) = n
           /\ SatsToDgb(n).frac # <<>> => Last(SatsToDgb(n).frac) # 0
<1> DEFINE m == n % SatsPerDgb
           w == n \div SatsPerDgb
           s == EightPlaces(m)
<1>1. w \in Nat /\ m \in Nat /\ m < SatsPerDgb /\ w * SatsPerDgb + m = n
  BY WholeAndRest
<1>2. s \in Seq(Nat) /\ Len(s) = 8 /\ PlacesValue(s) = m
  BY <1>1, EightAre
<1> DEFINE c == Cardinality(Kept(s, 8))
           f == SubSeq(s, 1, c)
<1>3. SatsToDgb(n) = [whole |-> w, frac |-> f]
  BY Zenon DEF SatsToDgb, Kept
<1> HIDE DEF s
<1>4. c \in 0 .. 8 /\ (c # 0 => s[c] # 0) /\ \A i \in 1 .. 8 : i > c => s[i] = 0
  <2> DEFINE e == 8
  <2>1. e \in Nat /\ Len(s) = e
    BY <1>2
  <2> HIDE DEF e
  <2>2. \E k \in 0 .. e : /\ Kept(s, e) = 1 .. k /\ Cardinality(Kept(s, e)) = k
                          /\ k # 0 => s[k] # 0
                          /\ \A i \in 1 .. e : i > k => s[i] = 0
    BY <1>2, <2>1, KeptAre
  <2>3. PICK k \in 0 .. e : /\ Cardinality(Kept(s, e)) = k
                            /\ k # 0 => s[k] # 0
                            /\ \A i \in 1 .. e : i > k => s[i] = 0
    BY <2>2
  <2>4. k = c
    BY <2>3 DEF e, c
  <2> QED BY <2>3, <2>4, Zenon DEF e
<1> HIDE DEF c
<1>5. f \in Seq(Nat) /\ Len(f) = c /\ (c # 0 => Last(f) = s[c]) /\ f \o Zeros(8 - Len(f)) = s
  <2>1. 8 \in Nat
    OBVIOUS
  <2> DEFINE e == 8
  <2>2. e \in Nat /\ Len(s) = e /\ c \in 0 .. e /\ \A i \in 1 .. e : i > c => s[i] = 0
    BY <1>2, <1>4, <2>1
  <2> HIDE DEF e
  <2>3. LET g == SubSeq(s, 1, c)
        IN g \in Seq(Nat) /\ Len(g) = c /\ (c # 0 => Last(g) = s[c]) /\ g \o Zeros(e - Len(g)) = s
    BY <1>2, <2>2, CutAndFilled
  <2> QED BY <2>3, Zenon DEF e
<1>6. f # <<>> => c # 0
  BY <1>5
<1> HIDE DEF f, m, w
<1>7. DgbToSats([whole |-> w, frac |-> f]) = w * SatsPerDgb + PlacesValue(f \o Zeros(8 - Len(f)))
  BY Zenon DEF DgbToSats, PlacesValue
<1>8. DgbToSats(SatsToDgb(n)) = n
  BY <1>1, <1>2, <1>3, <1>5, <1>7, Zenon
<1>9. SatsToDgb(n).frac = f /\ SatsToDgb(n) \in [whole : Nat, frac : Seq(Nat)]
  BY <1>1, <1>3, <1>5
<1> QED BY <1>4, <1>5, <1>6, <1>8, <1>9, Zenon

\* A ratio is off by half a tenth at most.
LEMMA HealthNear ==
    ASSUME NEW x \in Nat, NEW den \in 1 .. 7
    PROVE  LET off == 2 * (Health(x, den) * den - x * 10) IN off <= den /\ off > -den - 1
<1>1. den = 1 \/ den = 2 \/ den = 3 \/ den = 4 \/ den = 5 \/ den = 6 \/ den = 7
  OBVIOUS
<1>2. CASE den = 1
  BY <1>2, SMT DEF Health
<1>3. CASE den = 2
  BY <1>3, SMT DEF Health
<1>4. CASE den = 3
  BY <1>4, SMT DEF Health
<1>5. CASE den = 4
  BY <1>5, SMT DEF Health
<1>6. CASE den = 5
  BY <1>6, SMT DEF Health
<1>7. CASE den = 6
  BY <1>7, SMT DEF Health
<1>8. CASE den = 7
  BY <1>8, SMT DEF Health
<1> QED BY <1>1, <1>2, <1>3, <1>4, <1>5, <1>6, <1>7, <1>8, Zenon

\* AmountsSound: amounts, letters and ratios.
LEMMA AmountsHold ==
    ASSUME NEW n \in Nat
    PROVE  AmountsSound(n)
<1>1. DgbToSats(SatsToDgb(n)) = n /\ (SatsToDgb(n).frac # <<>> => Last(SatsToDgb(n).frac) # 0)
  BY AmountRead
<1>2. FoldLeft(LAMBDA acc, d : acc * 26 + d + 1, 0, seqLetters[n]) - 1 = n
  <2>1. LettersValue(seqLetters[n]) = n + 1
    BY LettersCount
  <2>2. LettersValue(seqLetters[n]) - 1 = n
    BY <2>1
  <2> QED BY <2>2, Zenon DEF LettersValue
<1>3. n % SatsPerDgb \in Nat
  BY WholeAndRest
<1>4. ASSUME NEW x \in Nat, NEW den \in 1 .. 7
      PROVE  LET off == 2 * (Health(x, den) * den - x * 10) IN off <= den /\ off > -den - 1
  BY HealthNear
<1>5. \A den \in 1 .. 7 : LET off == 2 * (Health(n % SatsPerDgb, den) * den - (n % SatsPerDgb) * 10)
                          IN off <= den /\ off > -den - 1
  BY <1>3, <1>4, Zenon
<1> QED BY <1>1, <1>2, <1>5, Zenon DEF AmountsSound

-----------------------------------------------------------------------------
(* What is kept of rows; answers, requests and names *)

\* What is among the first of a list.
FirstOf(s, k) == {s[i] : i \in 1 .. k}

\* One more of the first, and all of them.
LEMMA FirstMore ==
    ASSUME NEW s, NEW k \in Nat
    PROVE  FirstOf(s, 0) = {} /\ FirstOf(s, k + 1) = FirstOf(s, k) \union {s[k + 1]}
<1>1. 1 .. 0 = {} /\ 1 .. k + 1 = (1 .. k) \union {k + 1}
  OBVIOUS
<1>2. FirstOf(s, 0) = {}
  BY <1>1 DEF FirstOf
<1> DEFINE j == k + 1
<1>3. 1 .. j = (1 .. k) \union {j}
  BY <1>1
<1> HIDE DEF j
<1>4. FirstOf(s, j) = FirstOf(s, k) \union {s[j]}
  BY <1>3, Zenon DEF FirstOf
<1> QED BY <1>2, <1>4 DEF j

LEMMA FirstAll ==
    ASSUME NEW X, NEW s \in Seq(X)
    PROVE  ToSet(s) = FirstOf(s, Len(s)) /\ Len(s) \in Nat
<1>1. DOMAIN s = 1 .. Len(s) /\ Len(s) \in Nat
  BY LenProperties
<1> QED BY <1>1, Zenon DEF ToSet, FirstOf

\* What is in a list with one more.
LEMMA AppendsOne ==
    ASSUME NEW X, NEW s \in Seq(X), NEW e \in X
    PROVE  ToSet(Append(s, e)) = ToSet(s) \union {e} /\ Append(s, e) \in Seq(X) /\ Len(Append(s, e)) = Len(s) + 1
<1> DEFINE t == Append(s, e)
           n == Len(s)
<1>1. t \in Seq(X) /\ Len(t) = n + 1 /\ n \in Nat /\ t[n + 1] = e /\ \A i \in 1 .. n : t[i] = s[i]
  OBVIOUS
<1>2. ToSet(t) = FirstOf(t, n + 1) /\ ToSet(s) = FirstOf(s, n)
  <2>1. ToSet(t) = FirstOf(t, Len(t)) /\ ToSet(s) = FirstOf(s, n)
    BY <1>1, FirstAll
  <2> QED BY <1>1, <2>1
<1> HIDE DEF t, n
<1>3. FirstOf(t, n + 1) = FirstOf(t, n) \union {e}
  BY <1>1, FirstMore
<1>4. FirstOf(t, n) = FirstOf(s, n)
  BY <1>1, Zenon DEF FirstOf
<1>5. ToSet(t) = ToSet(s) \union {e} /\ t \in Seq(X) /\ Len(t) = n + 1
  BY <1>1, <1>2, <1>3, <1>4
<1> QED BY <1>5 DEF t, n

\* filter(): the rows that are kept are those that are good.
LEMMA KeepIs ==
    ASSUME NEW X, NEW s \in Seq(X), NEW good
    PROVE  Keep(s, good) \in Seq(X) /\ ToSet(Keep(s, good)) = ToSet(s) \cap good
<1> DEFINE n == Len(s)
<1>1. PICK g : Keeps(g, s, good, X) /\ Keep(s, good) = g[n]
  BY KeepRun
<1>2. /\ n \in Nat /\ g \in [0 .. n -> Seq(X)] /\ g[0] = <<>> /\ \A i \in 1 .. n : s[i] \in X
      /\ \A i \in 1 .. n : g[i] = IF s[i] \in good THEN Append(g[i - 1], s[i]) ELSE g[i - 1]
  BY <1>1 DEF Keeps
<1>0. ToSet(s) = FirstOf(s, n)
  BY FirstAll
<1> HIDE DEF n
<1> DEFINE T == {k \in Nat : k <= n => ToSet(g[k]) = FirstOf(s, k) \cap good}
<1>3. 0 \in T
  <2>1. ToSet(<<>>) = {}
    BY DEF ToSet
  <2>2. FirstOf(s, 0) = {} /\ 0 \in Nat
    BY FirstMore
  <2> QED BY <1>2, <2>1, <2>2
<1>4. ASSUME NEW k \in Nat, k \in T PROVE k + 1 \in T
  <2> SUFFICES ASSUME k + 1 <= n PROVE ToSet(g[k + 1]) = FirstOf(s, k + 1) \cap good
    OBVIOUS
  <2>1. k + 1 \in 1 .. n /\ k + 1 - 1 = k /\ k \in 0 .. n
    BY <1>2
  <2>2. ToSet(g[k]) = FirstOf(s, k) \cap good
    BY <1>2, <1>4, <2>1
  <2>3. FirstOf(s, k + 1) = FirstOf(s, k) \union {s[k + 1]}
    BY FirstMore
  <2>4. g[k + 1] = IF s[k + 1] \in good THEN Append(g[k], s[k + 1]) ELSE g[k]
    BY <1>2, <2>1
  <2>5. g[k] \in Seq(X) /\ s[k + 1] \in X
    BY <1>2, <2>1
  <2>6. ToSet(Append(g[k], s[k + 1])) = ToSet(g[k]) \union {s[k + 1]}
    BY <2>5, AppendsOne
  <2> QED BY <2>2, <2>3, <2>4, <2>6
<1>5. n \in T
  <2> HIDE DEF T
  <2> QED BY <1>2, <1>3, <1>4, NatAll
<1>6. ToSet(g[n]) = FirstOf(s, n) \cap good /\ g[n] \in Seq(X)
  BY <1>2, <1>5
<1> QED BY <1>0, <1>1, <1>6

\* dedupeUtxos(): as many are left as there are different ones.
LEMMA DedupeIs ==
    ASSUME NEW X, NEW s \in Seq(X)
    PROVE  Len(DedupeUtxos(s)) = Cardinality(ToSet(s))
<1> DEFINE n == Len(s)
<1>1. PICK g : Dedupes(g, s, X) /\ DedupeUtxos(s) = g[n]
  BY DedupeRun
<1>2. /\ n \in Nat /\ g \in [0 .. n -> Seq(X)] /\ g[0] = <<>> /\ \A i \in 1 .. n : s[i] \in X
      /\ \A i \in 1 .. n : g[i] = IF s[i] \in ToSet(g[i - 1]) THEN g[i - 1] ELSE Append(g[i - 1], s[i])
  BY <1>1 DEF Dedupes
<1>0. ToSet(s) = FirstOf(s, n)
  BY FirstAll
<1> HIDE DEF n
<1> DEFINE Fine(k) == /\ ToSet(g[k]) = FirstOf(s, k) /\ IsFiniteSet(FirstOf(s, k))
                      /\ Len(g[k]) = Cardinality(FirstOf(s, k))
           T == {k \in Nat : k <= n => Fine(k)}
<1>3. 0 \in T
  <2>1. ToSet(<<>>) = {} /\ Len(<<>>) = 0
    BY DEF ToSet
  <2>2. FirstOf(s, 0) = {} /\ 0 \in Nat
    BY FirstMore
  <2>3. IsFiniteSet({}) /\ Cardinality({}) = 0
    BY FS_EmptySet
  <2> QED BY <1>2, <2>1, <2>2, <2>3
<1>4. ASSUME NEW k \in Nat, k \in T PROVE k + 1 \in T
  <2> SUFFICES ASSUME k + 1 <= n PROVE Fine(k + 1)
    OBVIOUS
  <2>1. k + 1 \in 1 .. n /\ k + 1 - 1 = k /\ k \in 0 .. n
    BY <1>2
  <2>2. Fine(k)
    BY <1>2, <1>4, <2>1
  <2> DEFINE S == FirstOf(s, k)
             e == s[k + 1]
  <2>3. FirstOf(s, k + 1) = S \union {e}
    BY FirstMore
  <2>4. g[k + 1] = IF e \in S THEN g[k] ELSE Append(g[k], e)
    <3>1. g[k + 1] = IF s[k + 1] \in ToSet(g[k]) THEN g[k] ELSE Append(g[k], s[k + 1])
      BY <1>2, <2>1
    <3> QED BY <2>2, <3>1
  <2>5. g[k] \in Seq(X) /\ e \in X
    BY <1>2, <2>1
  <2>6. ToSet(Append(g[k], e)) = ToSet(g[k]) \union {e} /\ Len(Append(g[k], e)) = Len(g[k]) + 1
    BY <2>5, AppendsOne
  <2>7. /\ IsFiniteSet(S) => IsFiniteSet(S \union {e})
        /\ IsFiniteSet(S) /\ e \notin S => Cardinality(S \union {e}) = Cardinality(S) + 1
    BY FS_AddElement
  <2>8. e \in S => S \union {e} = S
    OBVIOUS
  <2> DEFINE d == g[k + 1]
             c == g[k]
  <2>9. c \in Seq(X) /\ ToSet(c) = S /\ IsFiniteSet(S) /\ Len(c) = Cardinality(S)
    BY <2>2, <2>5
  <2>10. d = IF e \in S THEN c ELSE Append(c, e)
    BY <2>4
  <2>11. ToSet(d) = S \union {e} /\ IsFiniteSet(S \union {e}) /\ Len(d) = Cardinality(S \union {e})
    <3> HIDE DEF d, c, S, e
    <3>1. CASE e \in S
      BY <2>8, <2>9, <2>10, <3>1
    <3>2. CASE e \notin S
      <4>1. d = Append(c, e)
        BY <2>10, <3>2
      <4>2. ToSet(d) = ToSet(c) \union {e} /\ Len(d) = Len(c) + 1
        BY <2>6, <4>1 DEF c
      <4> QED BY <2>7, <2>9, <3>2, <4>2
    <3> QED BY <3>1, <3>2
  <2> QED BY <2>3, <2>11
<1>5. n \in T
  <2> HIDE DEF T
  <2> QED BY <1>2, <1>3, <1>4, NatAll
<1>6. Fine(n)
  BY <1>2, <1>5
<1> QED BY <1>0, <1>1, <1>6

\* AnswersSound: nothing is signed from what is marked or malformed.
LEMMA AnswersHold == AnswersSound
<1> SUFFICES ASSUME NEW marked \in BOOLEAN, NEW rows, rows \in {Refused} \union UNION {[1 .. k -> 0 .. 2] : k \in 0 .. 3}
             PROVE  LET a == Answer(marked, rows)
                    IN /\ Signing(a) # Refused => ~marked /\ Signing(a) = rows /\ \A i \in DOMAIN rows : rows[i] # 0
                       /\ Strict(a) = <<>> => rows = <<>> /\ ~marked
                       /\ rows # Refused => ToSet(Tolerant(a)) = ToSet(rows) \ {0}
  BY Zenon DEF AnswersSound
<1> DEFINE a == Answer(marked, rows)
<1>1. a.marked = marked /\ a.rows = rows
  BY DEF Answer
<1> HIDE DEF a
<1>2. Refused # <<>> /\ Unknowns # <<>>
  <2>1. <<>> \in Seq(Nat) /\ <<-1>> # <<>>
    OBVIOUS
  <2> QED BY <2>1, RefusedAssumption DEF Unknowns
<1>3. Signing(a) # Refused => ~marked /\ Signing(a) = rows /\ \A i \in DOMAIN rows : rows[i] # 0
  <2> SUFFICES ASSUME Signing(a) # Refused PROVE ~marked /\ Signing(a) = rows /\ 0 \notin ToSet(rows)
    BY DEF ToSet
  <2> QED BY <1>1 DEF Signing, Strict
<1>4. Strict(a) = <<>> => rows = <<>> /\ ~marked
  BY <1>1, <1>2 DEF Strict
<1>5. ASSUME rows # Refused PROVE ToSet(Tolerant(a)) = ToSet(rows) \ {0}
  <2>1. PICK k \in 0 .. 3 : rows \in [1 .. k -> 0 .. 2]
    BY <1>5
  <2>2. rows \in Seq(Nat)
    <3>1. k \in Nat /\ 0 .. 2 \subseteq Nat
      OBVIOUS
    <3>2. rows \in [1 .. k -> Nat]
      BY <2>1, <3>1
    <3> QED BY <3>1, <3>2, ListOf
  <2>3. Tolerant(a) = Keep(rows, ToSet(rows) \ {0})
    BY <1>1, <1>5 DEF Tolerant
  <2>4. ToSet(Keep(rows, ToSet(rows) \ {0})) = ToSet(rows) \cap (ToSet(rows) \ {0})
    BY <2>2, KeepIs
  <2> QED BY <2>3, <2>4
<1> QED BY <1>3, <1>4, <1>5, Zenon DEF a

\* RequestsSound: a request is read as it was written, and no other passes for one.
LEMMA RequestsHold ==
    ASSUME NEW n \in Nat
    PROVE  RequestsSound(n)
<1>1. ASSUME NEW sats \in {Refused, n}
      PROVE  LET asked == ParseBip21(EncodeBip21("a", sats)) IN asked.address = <<"a">> /\ asked.sats = sats
  <2> DEFINE amount == IF sats = Refused THEN Refused ELSE SatsToDgb(n)
             text == Request("digibyte", FALSE, "a", amount)
  <2>1. sats # Refused => sats = n /\ SatsToDgb(n) # Refused /\ DgbToSats(SatsToDgb(n)) = n
    BY AmountRead, RefusedAssumption
  <2>2. EncodeBip21("a", sats) = text
    BY DEF EncodeBip21
  <2>3. /\ text.scheme = "digibyte" /\ text.slashes = FALSE /\ text.body = "a" /\ text.amount = amount
    BY Zenon DEF Request
  <2> HIDE DEF text
  <2>4. ParseBip21(text) = [address |-> <<"a">>, sats |-> IF amount = Refused THEN Refused ELSE DgbToSats(amount)]
    BY <2>3 DEF ParseBip21, Bare, NoBody
  <2>5. (IF amount = Refused THEN Refused ELSE DgbToSats(amount)) = sats
    BY <2>1
  <2> HIDE DEF amount
  <2> QED BY <2>2, <2>4, <2>5
<1>2. ASSUME NEW scheme \in {Bare, "digibyte", "other"}, NEW slashes \in BOOLEAN, NEW body \in {NoBody, "a"}
      PROVE  LET r == ParseBip21(Request(scheme, slashes, body, Refused))
             IN r # Refused /\ r.address = <<"a">> => scheme # "other" /\ ~(scheme = "digibyte" /\ slashes)
  <2> DEFINE text == Request(scheme, slashes, body, Refused)
             r == ParseBip21(text)
  <2>1. text.scheme = scheme /\ text.slashes = slashes /\ text.body = body /\ text.amount = Refused
    BY Zenon DEF Request
  <2> HIDE DEF text
  <2>2. <<"//", body>> # <<"a">> /\ <<scheme, body>> # <<"a">>
    OBVIOUS
  <2>3. ASSUME scheme = "other", r # Refused PROVE r.address # <<"a">>
    BY <2>1, <2>2, <2>3 DEF ParseBip21, Bare, NoBody
  <2>4. ASSUME scheme = "digibyte", slashes, r # Refused PROVE r.address # <<"a">>
    BY <2>1, <2>2, <2>4 DEF ParseBip21, Bare, NoBody
  <2> QED BY <2>3, <2>4, Zenon DEF text
<1> QED BY <1>1, <1>2, Zenon DEF RequestsSound

\* newBatchId(): the highest of the day, and one more.
LEMMA BatchIds ==
    ASSUME NEW ids \in SUBSET ({"d", "e"} \X (1 .. 3))
    PROVE  NewBatchId(ids, "d") \notin ids
<1> DEFINE today == {id[2] : id \in {x \in ids : x[1] = "d"}}
           Top(m) == \A k \in today : k <= m
           m == CHOOSE x \in today \union {0} : Top(x)
<1>1. today \in SUBSET (1 .. 3)
  OBVIOUS
<1>2. \E x \in today \union {0} : Top(x)
  <2>1. CASE today = {}
    BY <2>1
  <2>2. CASE today # {}
    <3>1. 3 \in Nat
      OBVIOUS
    <3>2. Max(today) \in today /\ \A x \in today : x <= Max(today)
      <4> HIDE DEF today
      <4> QED BY <1>1, <2>2, <3>1, MaxOf
    <3> HIDE DEF today
    <3> QED BY <3>2
  <2> QED BY <2>1, <2>2
<1>3. m \in today \union {0} /\ Top(m)
  <2> HIDE DEF Top, today
  <2> QED BY <1>2
<1>4. NewBatchId(ids, "d") = <<"d", 1 + m>>
  BY Zenon DEF NewBatchId
<1> HIDE DEF m
<1>5. ASSUME <<"d", 1 + m>> \in ids PROVE FALSE
  <2>1. 1 + m \in today
    <3> DEFINE p == <<"d", 1 + m>>
    <3>1. p \in ids /\ p[1] = "d" /\ p[2] = 1 + m
      BY <1>5
    <3> HIDE DEF p
    <3> QED BY <3>1
  <2>2. m \in Nat /\ ~(1 + m <= m)
    <3> HIDE DEF today
    <3> QED BY <1>1, <1>3
  <2> HIDE DEF today
  <2> QED BY <1>3, <2>1, <2>2
<1> QED BY <1>4, <1>5

\* TreasuriesSound: names, batches and manifests.
LEMMA TreasuriesHold ==
    ASSUME NEW n \in Nat
    PROVE  TreasuriesSound(n)
<1>1. ASSUME NEW m \in {n, n + 1}, NEW tail \in {"none", "alias"}
      PROVE  LET name == [TreasuryName(100, "day", n) EXCEPT !.tail = tail]
             IN /\ TreasurySlug(name) = <<100, "day", seqLetters[n]>>
                /\ TreasurySlug(TreasuryName(100, "day", m)) = TreasurySlug(name) => m = n
  <2> DEFINE ours(k) == [dollars |-> 100, date |-> "day", letters |-> seqLetters[k], tail |-> "none"]
             name == [ours(n) EXCEPT !.tail = tail]
             slug(k) == <<100, "day", seqLetters[k]>>
  <2>1. \A k : TreasuryName(100, "day", k) = ours(k)
    BY SMT DEF TreasuryName
  <2>2. TreasurySlug(name) = slug(n)
    BY SMT DEF TreasurySlug
  <2>3. TreasurySlug(ours(m)) = slug(m)
    BY SMT DEF TreasurySlug
  <2>4. ASSUME slug(m) = slug(n) PROVE m = n
    <3>1. seqLetters[m] = seqLetters[n] /\ m \in Nat
      BY <2>4, SMT
    <3>2. LettersValue(seqLetters[m]) = m + 1 /\ LettersValue(seqLetters[n]) = n + 1
      BY <3>1, LettersCount
    <3> QED BY <3>1, <3>2
  <2> QED BY <2>1, <2>2, <2>3, <2>4, SMT
<1>2. \A ids \in SUBSET ({"d", "e"} \X (1 .. 3)) : NewBatchId(ids, "d") \notin ids
  BY BatchIds
<1>3. ASSUME NEW entries \in UNION {[1 .. k -> [name : {"x", "y"}, wallet : {1, 2}]] : k \in 0 .. 2}
      PROVE  LET e == PickManifestEntry(entries, "x", 1) IN e # Refused => e = [name |-> "x", wallet |-> 1]
  <2> DEFINE E == [name : {"x", "y"}, wallet : {1, 2}]
             good == {e \in ToSet(entries) : e.name = "x" /\ (1 = Refused \/ e.wallet = 1)}
             found == Keep(entries, good)
  <2>1. PICK k \in 0 .. 2 : entries \in [1 .. k -> E]
    OBVIOUS
  <2>2. entries \in Seq(E)
    <3>1. k \in Nat
      OBVIOUS
    <3> HIDE DEF E
    <3> QED BY <2>1, <3>1, ListOf
  <2>3. \A e \in ToSet(entries) : e \in E
    BY <2>1 DEF ToSet
  <2>4. \A e \in good : e = [name |-> "x", wallet |-> 1]
    <3>1. 1 # Refused
      BY RefusedAssumption
    <3> QED BY <2>3, <3>1
  <2>5. found \in Seq(E) /\ ToSet(found) = ToSet(entries) \cap good
    <3> HIDE DEF E, good
    <3> QED BY <2>2, KeepIs
  <2>6. PickManifestEntry(entries, "x", 1) = IF found = <<>> THEN Refused ELSE Head(found)
    BY Zenon DEF PickManifestEntry
  <2> HIDE DEF found, good, E
  <2>7. found # <<>> => Head(found) \in ToSet(found)
    <3>1. found # <<>> => Head(found) = found[1] /\ 1 \in DOMAIN found
      BY <2>5
    <3> QED BY <3>1, Zenon DEF ToSet
  <2> QED BY <2>4, <2>5, <2>6, <2>7
<1> QED BY <1>1, <1>2, <1>3, Zenon DEF TreasuriesSound

-----------------------------------------------------------------------------
(* Addresses *)

\* No two networks and no two kinds share a prefix.
LEMMA PrefixesDiffer ==
    /\ \A m, n \in Networks : /\ Hrp[m] = Hrp[n] => m = n
                              /\ GiftHrp[m] = GiftHrp[n] => m = n
                              /\ Hrp[m] # GiftHrp[n]
                              /\ DdVersionBytes[m] = DdVersionBytes[n] => m = n
    /\ \A n \in Networks : Len(DdVersionBytes[n]) = 2
<1>1. \A m, n \in Networks : /\ Hrp[m] = Hrp[n] => m = n
                             /\ GiftHrp[m] = GiftHrp[n] => m = n
                             /\ Hrp[m] # GiftHrp[n]
  <2>1. Hrp["mainnet"] = "dgb" /\ Hrp["testnet"] = "dgbt" /\ Hrp["regtest"] = "dgbrt"
    BY SMT DEF Hrp
  <2>2. GiftHrp["mainnet"] = "ddgift" /\ GiftHrp["testnet"] = "tdgift" /\ GiftHrp["regtest"] = "rdgift"
    BY SMT DEF GiftHrp
  <2> QED BY <2>1, <2>2, SMT DEF Networks
<1>2. /\ DdVersionBytes["mainnet"] = <<82, 133>> /\ DdVersionBytes["testnet"] = <<177, 41>>
      /\ DdVersionBytes["regtest"] = <<163, 164>>
  BY SMT DEF DdVersionBytes
<1>3. \A m, n \in Networks : DdVersionBytes[m] = DdVersionBytes[n] => m = n
  BY <1>2, SMT DEF Networks
<1>4. \A n \in Networks : Len(DdVersionBytes[n]) = 2
  BY <1>2, SMT DEF Networks
<1> QED BY <1>1, <1>3, <1>4, Zenon

\* What is required of a text, as AddressesSound says it.
AddressSound(t) ==
    /\ LET a == DecodeAddress(t)
       IN a # Refused => /\ a.script.op \in {0, 118, 169} \union 81 .. 96
                         /\ a.script.op = 0 => a.script.program.length \in {20, 32}
                         /\ DecodeGiftKey(t) # Refused => a.networks = {}
    /\ DecodeDd(t) = Refused \/ DecodeGiftKey(t) = Refused
    /\ DecodeDd(t) # Refused /\ DecodeAddress(t) # Refused =>
          DecodeAddress(t).networks = DecodeDd(t).networks

\* The two forms of a text.
IsBech32(t) == t.form = "bech32" /\ t.version \in 0 .. 31
IsBase58(t) == t.form = "base58"

\* Every text that is tried is of one of the forms.
LEMMA TextForms ==
    ASSUME NEW t \in SomeTexts
    PROVE  IsBech32(t) \/ IsBase58(t)
<1>1. CASE t \in {Bech32(hrp, version, Bytes(size, "k"), sum) :
        hrp \in {Hrp[n] : n \in Networks} \union {GiftHrp[n] : n \in Networks} \union {"bc"},
        version \in 0 .. 31, size \in {1, 2, 20, 32, 40, 41}, sum \in {"bech32", "bech32m", "none"}}
  <2>1. PICK hrp, version, size, sum : version \in 0 .. 31 /\ t = Bech32(hrp, version, Bytes(size, "k"), sum)
    BY <1>1
  <2> QED BY <2>1, Zenon DEF Bech32, IsBech32
<1>2. CASE t \in {Base58(version, Bytes(size, "k"), sum) :
        version \in {<<b>> : b \in {0, 5, 30, 63, 126, 140}} \union {DdVersionBytes[n] : n \in Networks},
        size \in {19, 20, 32}, sum \in {"base58check", "none"}}
  <2>1. PICK version, size, sum : t = Base58(version, Bytes(size, "k"), sum)
    BY <1>2
  <2> QED BY <2>1, Zenon DEF Base58, IsBase58
<1> QED BY <1>1, <1>2, SMT DEF SomeTexts

\* What is accepted of a text of the first form, and as what.
LEMMA Bech32Sound ==
    ASSUME NEW t, IsBech32(t)
    PROVE  AddressSound(t)
<1> DEFINE h == t.hrp
           v == t.version
           p == t.program
           nets == {n \in Networks : Hrp[n] = h}
           gift == {n \in Networks : t.form = "bech32" /\ t.hrp = GiftHrp[n]}
           ours == {n \in Networks : t.form = "bech32" /\ t.hrp = Hrp[n]}
           named == {n \in Networks : t.form = "base58" /\ t.version = DdVersionBytes[n]}
<1>1. t.form = "bech32" /\ v \in 0 .. 31 /\ t.form # "base58"
  BY SMT DEF IsBech32
<1>2. ours = nets /\ named = {} /\ (gift = {} \/ nets = {})
  BY <1>1, PrefixesDiffer
<1>3. ~IsLegacy(t)
  BY <1>1 DEF IsLegacy
<1>4. DecodeAddress(t) = IF IsWitness(t) THEN [networks |-> nets, script |-> WitnessScript(t)] ELSE Refused
  BY <1>3, Zenon DEF DecodeAddress
<1>5. DecodeGiftKey(t) = IF gift # {} /\ IsWitness(t) /\ v = 1 /\ p.length = 32
                         THEN [key |-> p, networks |-> gift] ELSE Refused
  BY Zenon DEF DecodeGiftKey
<1>6. DecodeDd(t) = IF ours # {}
                    THEN IF IsWitness(t) /\ v = 1 /\ p.length = 32 THEN [key |-> p, networks |-> ours] ELSE Refused
                    ELSE IF named # {} /\ t.sum = "base58check" /\ t.body.length = 32
                         THEN [key |-> t.body, networks |-> named] ELSE Refused
  BY Zenon DEF DecodeDd
<1> HIDE DEF gift, ours, named, nets
<1>7. IsWitness(t) => v <= 16 /\ (v = 0 => p.length \in {20, 32})
  BY Zenon DEF IsWitness
<1> DEFINE s == WitnessScript(t)
<1>8. s.op = (IF v = 0 THEN 0 ELSE 80 + v) /\ s.program = p
  BY Zenon DEF WitnessScript
<1> HIDE DEF s, v, p
<1>9. ASSUME IsWitness(t)
      PROVE  s.op \in {0, 118, 169} \union 81 .. 96 /\ (s.op = 0 => s.program.length \in {20, 32})
  <2>1. CASE v = 0
    BY <1>7, <1>8, <1>9, <2>1, SMT
  <2>2. CASE v # 0
    <3>1. s.op = 80 + v /\ 80 + v \in 81 .. 96 /\ 80 + v # 0
      BY <1>1, <1>7, <1>8, <1>9, <2>2, SMT
    <3> QED BY <3>1, Zenon
  <2> QED BY <2>1, <2>2
<1> DEFINE a == DecodeAddress(t)
<1>10. a # Refused => IsWitness(t) /\ a.networks = nets /\ a.script = s
  BY <1>4 DEF s
<1>11. DecodeGiftKey(t) # Refused => gift # {}
  BY <1>5
<1>12. DecodeDd(t) # Refused => ours # {} /\ DecodeDd(t).networks = ours
  BY <1>2, <1>6
<1> HIDE DEF a
<1> QED BY <1>2, <1>9, <1>10, <1>11, <1>12, Zenon DEF AddressSound, a

\* What is accepted of a text of the second form, and as what.
LEMMA Base58Sound ==
    ASSUME NEW t, IsBase58(t)
    PROVE  AddressSound(t)
<1> DEFINE gift == {n \in Networks : t.form = "bech32" /\ t.hrp = GiftHrp[n]}
           ours == {n \in Networks : t.form = "bech32" /\ t.hrp = Hrp[n]}
           named == {n \in Networks : t.form = "base58" /\ t.version = DdVersionBytes[n]}
           v == t.version[1]
           s == [op |-> IF v \in {30, 126} THEN 118 ELSE 169, program |-> t.body]
<1>1. t.form = "base58" /\ t.form # "bech32"
  BY SMT DEF IsBase58
<1>2. ours = {} /\ gift = {} /\ ~IsWitness(t)
  BY <1>1 DEF IsWitness
<1>3. DecodeGiftKey(t) = Refused
  BY <1>2, Zenon DEF DecodeGiftKey
<1>4. DecodeAddress(t) = IF IsLegacy(t) THEN [networks |-> LegacyNetworks[v], script |-> s] ELSE Refused
  BY <1>2, Zenon DEF DecodeAddress
<1>5. named # {} => ~IsLegacy(t)
  <2>1. named # {} => Len(t.version) = 2
    BY PrefixesDiffer
  <2>2. IsLegacy(t) => Len(t.version) = 1
    BY Zenon DEF IsLegacy
  <2> QED BY <2>1, <2>2, SMT
<1>6. DecodeDd(t) # Refused => named # {}
  <2>1. DecodeDd(t) = IF ours # {}
                      THEN IF IsWitness(t) /\ t.version = 1 /\ t.program.length = 32
                           THEN [key |-> t.program, networks |-> ours] ELSE Refused
                      ELSE IF named # {} /\ t.sum = "base58check" /\ t.body.length = 32
                           THEN [key |-> t.body, networks |-> named] ELSE Refused
    BY Zenon DEF DecodeDd
  <2> HIDE DEF ours, named
  <2> QED BY <1>2, <2>1, Zenon
<1>7. s.op \in {118, 169} /\ s.op # 0
  BY SMT
<1> HIDE DEF s, named
<1> DEFINE a == DecodeAddress(t)
<1>8. a # Refused => IsLegacy(t) /\ a.script = s
  BY <1>4
<1> HIDE DEF a
<1>9. a # Refused => a.script.op \in {0, 118, 169} \union 81 .. 96 /\ a.script.op # 0
  BY <1>7, <1>8, Zenon
<1> QED BY <1>3, <1>5, <1>6, <1>8, <1>9, Zenon DEF AddressSound, a

\* Keys come back from each of the encodings.
LEMMA KeysRead ==
    ASSUME NEW n \in Networks
    PROVE  LET key == Bytes(32, "k")
           IN /\ DecodeDd(EncodeDd(key, n)) = DecodeDd(EncodeWitness(Hrp[n], 1, key))
              /\ DecodeDd(EncodeDd(key, n)) = [key |-> key, networks |-> {n}]
              /\ DecodeGiftKey(EncodeGiftKey(key, n)) = [key |-> key, networks |-> {n}]
<1> DEFINE key == Bytes(32, "k")
<1>1. key.length = 32 /\ 32 \in 2 .. 40
  BY SMT DEF Bytes
<1> HIDE DEF key
<1>2. ASSUME NEW hrp
      PROVE  LET t == EncodeWitness(hrp, 1, key)
             IN t.form = "bech32" /\ t.hrp = hrp /\ t.version = 1 /\ t.program = key /\ IsWitness(t)
  <2> DEFINE t == EncodeWitness(hrp, 1, key)
  <2>1. t.form = "bech32" /\ t.hrp = hrp /\ t.version = 1 /\ t.program = key /\ t.sum = SumOf(1)
    BY Zenon DEF EncodeWitness, Bech32
  <2> HIDE DEF t
  <2>2. IsWitness(t)
    BY <1>1, <2>1, SMT DEF IsWitness
  <2> QED BY <2>1, <2>2, Zenon DEF t
<1>3. DecodeDd(EncodeDd(key, n)) = [key |-> key, networks |-> {n}]
  <2> DEFINE t == EncodeDd(key, n)
             ours == {m \in Networks : t.form = "bech32" /\ t.hrp = Hrp[m]}
             named == {m \in Networks : t.form = "base58" /\ t.version = DdVersionBytes[m]}
  <2>1. t.form = "base58" /\ t.version = DdVersionBytes[n] /\ t.body = key /\ t.sum = "base58check"
    BY Zenon DEF EncodeDd, Base58
  <2> HIDE DEF t
  <2>2. ours = {} /\ named = {n}
    <3>1. t.form # "bech32"
      BY <2>1, SMT
    <3>2. ours = {}
      BY <3>1
    <3>3. named = {n}
      BY <2>1, PrefixesDiffer
    <3> QED BY <3>2, <3>3
  <2>3. DecodeDd(t) = IF ours # {}
                      THEN IF IsWitness(t) /\ t.version = 1 /\ t.program.length = 32
                           THEN [key |-> t.program, networks |-> ours] ELSE Refused
                      ELSE IF named # {} /\ t.sum = "base58check" /\ t.body.length = 32
                           THEN [key |-> t.body, networks |-> named] ELSE Refused
    BY Zenon DEF DecodeDd
  <2> HIDE DEF ours, named
  <2>4. {n} # {}
    OBVIOUS
  <2> QED BY <1>1, <2>1, <2>2, <2>3, <2>4, Zenon DEF t
<1>4. DecodeDd(EncodeWitness(Hrp[n], 1, key)) = [key |-> key, networks |-> {n}]
  <2> DEFINE t == EncodeWitness(Hrp[n], 1, key)
             ours == {m \in Networks : t.form = "bech32" /\ t.hrp = Hrp[m]}
             named == {m \in Networks : t.form = "base58" /\ t.version = DdVersionBytes[m]}
  <2>1. t.form = "bech32" /\ t.hrp = Hrp[n] /\ t.version = 1 /\ t.program = key /\ IsWitness(t)
    BY <1>2
  <2> HIDE DEF t
  <2>2. ours = {n}
    BY <2>1, PrefixesDiffer
  <2>3. DecodeDd(t) = IF ours # {}
                      THEN IF IsWitness(t) /\ t.version = 1 /\ t.program.length = 32
                           THEN [key |-> t.program, networks |-> ours] ELSE Refused
                      ELSE IF named # {} /\ t.sum = "base58check" /\ t.body.length = 32
                           THEN [key |-> t.body, networks |-> named] ELSE Refused
    BY Zenon DEF DecodeDd
  <2> HIDE DEF ours, named
  <2>4. {n} # {}
    OBVIOUS
  <2> QED BY <1>1, <2>1, <2>2, <2>3, <2>4, Zenon DEF t
<1>5. DecodeGiftKey(EncodeGiftKey(key, n)) = [key |-> key, networks |-> {n}]
  <2> DEFINE t == EncodeWitness(GiftHrp[n], 1, key)
             ours == {m \in Networks : t.form = "bech32" /\ t.hrp = GiftHrp[m]}
  <2>1. t.form = "bech32" /\ t.hrp = GiftHrp[n] /\ t.version = 1 /\ t.program = key /\ IsWitness(t)
    BY <1>2
  <2>0. EncodeGiftKey(key, n) = t
    BY Zenon DEF EncodeGiftKey
  <2> HIDE DEF t
  <2>2. ours = {n}
    BY <2>1, PrefixesDiffer
  <2>3. DecodeGiftKey(t) = IF ours # {} /\ IsWitness(t) /\ t.version = 1 /\ t.program.length = 32
                           THEN [key |-> t.program, networks |-> ours] ELSE Refused
    BY Zenon DEF DecodeGiftKey
  <2> HIDE DEF ours
  <2>4. {n} # {}
    OBVIOUS
  <2> QED BY <1>1, <2>0, <2>1, <2>2, <2>3, <2>4, Zenon
<1> QED BY <1>3, <1>4, <1>5, Zenon DEF key

\* AddressesSound, text by text and network by network.
LEMMA AddressesHold == AddressesSound
<1>1. ASSUME NEW t \in SomeTexts PROVE AddressSound(t)
  BY TextForms, Bech32Sound, Base58Sound
<1>2. \A t \in SomeTexts :
          /\ LET a == DecodeAddress(t)
             IN a # Refused => /\ a.script.op \in {0, 118, 169} \union 81 .. 96
                               /\ a.script.op = 0 => a.script.program.length \in {20, 32}
                               /\ DecodeGiftKey(t) # Refused => a.networks = {}
          /\ DecodeDd(t) = Refused \/ DecodeGiftKey(t) = Refused
          /\ DecodeDd(t) # Refused /\ DecodeAddress(t) # Refused =>
                DecodeAddress(t).networks = DecodeDd(t).networks
  BY <1>1, Zenon DEF AddressSound
<1>3. ASSUME NEW n \in Networks
      PROVE  LET key == Bytes(32, "k")
             IN /\ DecodeDd(EncodeDd(key, n)) = DecodeDd(EncodeWitness(Hrp[n], 1, key))
                /\ DecodeDd(EncodeDd(key, n)) = [key |-> key, networks |-> {n}]
                /\ DecodeGiftKey(EncodeGiftKey(key, n)) = [key |-> key, networks |-> {n}]
  BY KeysRead
<1> QED BY <1>2, <1>3, Zenon DEF AddressesSound

-----------------------------------------------------------------------------
(* Descriptors *)

\* The steps of a path, and a path of five.
Steps == Int \X BOOLEAN
Five(p, c, last) == <<Hardened(p), Hardened(20), Hardened(0), Plain(c), last>>

\* Steps differ where their numbers or their kinds do.
LEMMA StepsAre ==
    /\ \A n \in Int : Hardened(n) \in Steps /\ Plain(n) \in Steps
    /\ \A m, n \in Int : /\ Hardened(m) = Hardened(n) => m = n
                         /\ Plain(m) = Plain(n) => m = n
                         /\ Hardened(m) # Plain(n)
                         /\ IsStar(Plain(n)) <=> n = -1
                         /\ IsStar(Hardened(n)) <=> n = -1
    /\ Star \in Steps /\ Star = Plain(-1) /\ -1 \in Int
<1>1. \A n \in Int : Hardened(n) \in Steps /\ Plain(n) \in Steps
  <2>1. TRUE \in BOOLEAN /\ FALSE \in BOOLEAN
    OBVIOUS
  <2>2. ASSUME NEW B, NEW t \in B, NEW n \in Int PROVE <<n, t>> \in Int \X B
    OBVIOUS
  <2> QED BY <2>1, <2>2, Zenon DEF Hardened, Plain, Steps
<1>2. \A m, n \in Int : /\ Hardened(m) = Hardened(n) => m = n
                        /\ Plain(m) = Plain(n) => m = n
                        /\ Hardened(m) # Plain(n)
                        /\ IsStar(Plain(n)) <=> n = -1
                        /\ IsStar(Hardened(n)) <=> n = -1
  BY SMT DEF Hardened, Plain, IsStar
<1>3. Star = Plain(-1) /\ -1 \in Int
  BY SMT DEF Star
<1> QED BY <1>1, <1>2, <1>3

\* A path of five, from its two parts.
LEMMA FiveJoined ==
    ASSUME NEW X, NEW a \in X, NEW b \in X, NEW c \in X, NEW d \in X, NEW e \in X
    PROVE  /\ <<a, b, c>> \o <<d, e>> = <<a, b, c, d, e>> /\ <<a, b, c>> \in Seq(X) /\ <<d, e>> \in Seq(X)
           /\ <<>> \o <<a, b, c, d, e>> = <<a, b, c, d, e>> /\ <<a, b, c, d, e>> \o <<>> = <<a, b, c, d, e>>
           /\ <<a, b, c, d, e>> \in Seq(X)
<1> DEFINE s == <<a, b, c>>
           t == <<d, e>>
           w == s \o t
           v == <<a, b, c, d, e>>
<1>1. /\ s \in Seq(X) /\ t \in Seq(X) /\ v \in Seq(X) /\ Len(s) = 3 /\ Len(t) = 2 /\ Len(v) = 5
      /\ s[1] = a /\ s[2] = b /\ s[3] = c /\ t[1] = d /\ t[2] = e
      /\ v[1] = a /\ v[2] = b /\ v[3] = c /\ v[4] = d /\ v[5] = e
  OBVIOUS
<1> HIDE DEF s, t, v
<1>2. w \in Seq(X) /\ Len(w) = 5 /\ \A i \in 1 .. 5 : w[i] = IF i <= 3 THEN s[i] ELSE t[i - 3]
  <2>1. w \in Seq(X) /\ Len(w) = Len(s) + Len(t)
    BY <1>1, ConcatProperties
  <2>2. \A i \in 1 .. Len(s) + Len(t) : w[i] = IF i <= Len(s) THEN s[i] ELSE t[i - Len(s)]
    BY <1>1, ConcatProperties
  <2> HIDE DEF w
  <2> QED BY <1>1, <2>1, <2>2
<1> HIDE DEF w
<1>3. \A i \in 1 .. 5 : i = 1 \/ i = 2 \/ i = 3 \/ i = 4 \/ i = 5
  OBVIOUS
<1>4. w[1] = v[1] /\ w[2] = v[2] /\ w[3] = v[3] /\ w[4] = v[4] /\ w[5] = v[5]
  BY <1>1, <1>2
<1>5. \A i \in 1 .. Len(w) : w[i] = v[i]
  BY <1>2, <1>3, <1>4
<1>6. w = v
  BY <1>1, <1>2, <1>5, SeqEqual
<1>7. <<>> \o v = v /\ v \o <<>> = v
  BY <1>1
<1> QED BY <1>1, <1>6, <1>7 DEF s, t, v, w

\* What a line of SomeLines consists of, and the path it stands for.
Spends(d) == d.private /\ d.kind \in {"tr", "wpkh"}
Fits(d) == d.kind \in {"tr", "wpkh", "pkh"} /\ d.private \in BOOLEAN /\ d.key \in Seq(Steps) /\ d.rel \in Seq(Steps)
Parsed(d) == [kind |-> d.kind, key |-> d.key, rel |-> d.rel, wildcard |-> \E i \in DOMAIN d.rel : IsStar(d.rel[i])]

LineIs(d, kind, private, key, rel) == d.kind = kind /\ d.private = private /\ d.key = key /\ d.rel = rel

\* The lines that are tried, each with what it consists of.
LEMMA LinesAre ==
    ASSUME NEW d \in SomeLines
    PROVE  \/ \E c \in {0, 1} : LineIs(d, "tr", TRUE, Account(86), <<Plain(c), Star>>)
           \/ LineIs(d, "tr", TRUE, <<>>, Account(86) \o <<Plain(0), Star>>)
           \/ LineIs(d, "wpkh", TRUE, Account(84), <<Plain(0), Star>>)
           \/ LineIs(d, "tr", FALSE, Account(86), <<Plain(0), Star>>)
           \/ LineIs(d, "pkh", TRUE, Account(44), <<Plain(0), Star>>)
           \/ LineIs(d, "tr", TRUE, Account(86) \o <<Plain(0), Plain(1)>>, <<>>)
           \/ LineIs(d, "tr", TRUE, Account(86), <<Plain(0), Hardened(-1)>>)
           \/ LineIs(d, "tr", TRUE, <<Hardened(86)>>, <<Star, Star>>)
<1>1. ASSUME NEW kind, NEW private, NEW key, NEW rel, d = Line(kind, private, key, rel)
      PROVE  LineIs(d, kind, private, key, rel)
  BY <1>1 DEF Line, LineIs
<1>2. \/ \E c \in {0, 1} : d = Line("tr", TRUE, Account(86), <<Plain(c), Star>>)
      \/ d = Line("tr", TRUE, <<>>, Account(86) \o <<Plain(0), Star>>)
      \/ d = Line("wpkh", TRUE, Account(84), <<Plain(0), Star>>)
      \/ d = Line("tr", FALSE, Account(86), <<Plain(0), Star>>)
      \/ d = Line("pkh", TRUE, Account(44), <<Plain(0), Star>>)
      \/ d = Line("tr", TRUE, Account(86) \o <<Plain(0), Plain(1)>>, <<>>)
      \/ d = Line("tr", TRUE, Account(86), <<Plain(0), Hardened(-1)>>)
      \/ d = Line("tr", TRUE, <<Hardened(86)>>, <<Star, Star>>)
  <2>1. CASE d \in {Line("tr", TRUE, Account(86), <<Plain(c), Star>>) : c \in {0, 1}}
    <3>1. PICK c \in {0, 1} : d = Line("tr", TRUE, Account(86), <<Plain(c), Star>>)
      BY <2>1, Zenon
    <3> QED BY <3>1, Zenon
  <2>2. CASE ~(d \in {Line("tr", TRUE, Account(86), <<Plain(c), Star>>) : c \in {0, 1}})
    BY <2>2, Zenon DEF SomeLines
  <2> QED BY <2>1, <2>2, Zenon
<1> QED BY <1>1, <1>2, Zenon

\* What is known of a path of five.
FiveHolds(p, a, b) ==
    LET f == <<Hardened(p), Hardened(20), Hardened(0), a, b>>
    IN /\ Account(p) \o <<a, b>> = f /\ <<>> \o f = f /\ f \o <<>> = f
       /\ Account(p) \in Seq(Steps) /\ <<a, b>> \in Seq(Steps) /\ f \in Seq(Steps)
       /\ Len(f) = 5 /\ f[1] = Hardened(p) /\ f[4] = a /\ f[5] = b

LEMMA FiveAre ==
    ASSUME NEW p \in Int, NEW a \in Steps, NEW b \in Steps
    PROVE  FiveHolds(p, a, b)
<1>1. Hardened(p) \in Steps /\ Hardened(20) \in Steps /\ Hardened(0) \in Steps
  <2>1. 20 \in Int /\ 0 \in Int
    BY SMT
  <2> QED BY <2>1, StepsAre
<1> DEFINE x == Hardened(p)
           y == Hardened(20)
           z == Hardened(0)
           f == <<x, y, z, a, b>>
<1>2. Account(p) = <<x, y, z>>
  BY Zenon DEF Account
<1> HIDE DEF x, y, z
<1>3. x \in Steps /\ y \in Steps /\ z \in Steps
  BY <1>1 DEF x, y, z
<1>4. /\ <<x, y, z>> \o <<a, b>> = f /\ <<>> \o f = f /\ f \o <<>> = f
      /\ <<x, y, z>> \in Seq(Steps) /\ <<a, b>> \in Seq(Steps) /\ f \in Seq(Steps)
  BY <1>3, FiveJoined
<1>5. Len(f) = 5 /\ f[1] = x /\ f[4] = a /\ f[5] = b
  OBVIOUS
<1> QED BY <1>2, <1>4, <1>5, Zenon DEF x, y, z, FiveHolds

\* parseDescriptor(): a line that can be spent from, with its star.
LEMMA ParsedAre ==
    ASSUME NEW d, Fits(d)
    PROVE  /\ ParseDescriptor(d) = IF Spends(d) THEN Parsed(d) ELSE Refused
           /\ Spends(d) => Parsed(d) # Refused /\ ParseDescriptor(d) # Refused
<1>1. ParseDescriptor(d) = IF Spends(d) THEN Parsed(d) ELSE Refused
  BY Zenon DEF ParseDescriptor, Spends, Parsed
<1>2. Parsed(d) # Refused
  <2> DEFINE w == \E i \in DOMAIN d.rel : IsStar(d.rel[i])
  <2>1. w \in BOOLEAN
    OBVIOUS
  <2> HIDE DEF w
  <2>2. d.kind \in LineKinds /\ d.key \in Path /\ d.rel \in Path
    <3>1. d.kind \in {"tr", "wpkh", "pkh"}
      BY DEF Fits
    <3>2. d.kind \in LineKinds
      BY <3>1 DEF LineKinds
    <3>3. d.key \in Path /\ d.rel \in Path
      BY Zenon DEF Fits, Path, Steps
    <3> QED BY <3>2, <3>3
  <2>3. [kind |-> d.kind, key |-> d.key, rel |-> d.rel, wildcard |-> w]
            \in [kind : LineKinds, key : Path, rel : Path, wildcard : BOOLEAN]
    BY <2>1, <2>2
  <2>4. Parsed(d) \in [kind : LineKinds, key : Path, rel : Path, wildcard : BOOLEAN]
    BY <2>3, Zenon DEF Parsed, w
  <2> QED BY <2>4, DescriptorsAssumption, Zenon
<1> QED BY <1>1, <1>2

\* deriveFromDescriptor(): where the only star is the last step, the index takes its place.
LastStar(r) == Len(r) > 0 /\ r[Len(r)] = Star /\ \A i \in 1 .. Len(r) : i # Len(r) => ~IsStar(r[i])

Starred(d) == Fits(d) /\ Spends(d) /\ LastStar(d.rel)
Replaces(d, index) ==
    FromDescriptor(ParseDescriptor(d), index) = d.key \o [d.rel EXCEPT ![Len(d.rel)] = Plain(index)]

LEMMA StarReplaced ==
    ASSUME NEW d, Starred(d), NEW index \in Nat
    PROVE  Replaces(d, index)
<1> USE DEF Starred
<1> DEFINE r == ParseDescriptor(d).rel
           n == Len(r)
           stars == {i \in DOMAIN r : r[i] = Star}
           Top(i) == \A j \in stars : j <= i
           m == CHOOSE i \in stars : Top(i)
           new == [r EXCEPT ![n] = Plain(index)]
<1>2. r = d.rel /\ ParseDescriptor(d).key = d.key
  <2>1. ParseDescriptor(d) = Parsed(d)
    BY ParsedAre
  <2> QED BY <2>1, SMT DEF Parsed
<1>1. r \in Seq(Steps)
  BY <1>2 DEF Fits
<1> HIDE DEF r
<1>3. n \in Nat /\ DOMAIN r = 1 .. n /\ n > 0 /\ r[n] = Star /\ \A i \in 1 .. n : i # n => ~IsStar(r[i])
  <2>1. LastStar(r)
    BY <1>2
  <2> QED BY <1>1, <2>1, LenProperties DEF LastStar
<1>4. IsStar(Star) /\ ~IsStar(Plain(index))
  <2>1. index \in Int /\ index # -1
    OBVIOUS
  <2> QED BY <2>1, StepsAre
<1> HIDE DEF n
<1>5. stars = {n}
  <2>1. \A i \in 1 .. n : r[i] = Star <=> i = n
    BY <1>3, <1>4
  <2> QED BY <1>3, <2>1
<1>6. m = n
  <2>1. Top(n)
    BY <1>3, <1>5
  <2> HIDE DEF Top
  <2> QED BY <1>5, <2>1
<1>7. new = [r EXCEPT ![m] = Plain(index)]
  BY <1>6
<1> HIDE DEF m
<1>8. DOMAIN new = 1 .. n /\ new[n] = Plain(index) /\ \A i \in 1 .. n : i # n => new[i] = r[i]
  BY <1>3
<1>9. ~\E i \in DOMAIN new : IsStar(new[i])
  BY <1>3, <1>4, <1>8
<1>10. stars # {}
  BY <1>5
<1> DEFINE source == ParseDescriptor(d)
           rel == IF stars = {} THEN r ELSE [r EXCEPT ![m] = Plain(index)]
<1>11. rel = new
  BY <1>7, <1>10
<1> HIDE DEF new
<1>12. FromDescriptor(source, index) = IF \E i \in DOMAIN rel : IsStar(rel[i]) THEN Refused ELSE source.key \o rel
  BY Zenon DEF FromDescriptor, m, r
<1> HIDE DEF rel
<1>13. FromDescriptor(source, index) = d.key \o new
  BY <1>2, <1>9, <1>11, <1>12, Zenon
<1>14. FromDescriptor(source, index) = d.key \o [r EXCEPT ![Len(r)] = Plain(index)]
  BY <1>13, Zenon DEF new, n
<1> QED BY <1>2, <1>14 DEF Replaces

\* Where a star is left, nothing is derived.
LEMMA StarLeft ==
    ASSUME NEW d, Fits(d), Spends(d), NEW i \in DOMAIN d.rel, IsStar(d.rel[i]), NEW index,
           d.rel[i] # Star \/ \E j \in DOMAIN d.rel : d.rel[j] = Star /\ j > i
    PROVE  FromDescriptor(ParseDescriptor(d), index) = Refused
<1> DEFINE r == ParseDescriptor(d).rel
           stars == {k \in DOMAIN r : r[k] = Star}
           Top(k) == \A j \in stars : j <= k
           m == CHOOSE k \in stars : Top(k)
           rel == IF stars = {} THEN r ELSE [r EXCEPT ![m] = Plain(index)]
<1>2. r = d.rel /\ ParseDescriptor(d).key = d.key
  <2>1. ParseDescriptor(d) = Parsed(d)
    BY ParsedAre
  <2> QED BY <2>1, SMT DEF Parsed
<1>1. r \in Seq(Steps)
  BY <1>2 DEF Fits
<1>0. IsStar(r[i]) /\ (r[i] # Star \/ \E j \in DOMAIN r : r[j] = Star /\ j > i) /\ i \in DOMAIN r
  BY <1>2
<1> HIDE DEF r
<1>3. DOMAIN r = 1 .. Len(r) /\ Len(r) \in Nat
  BY <1>1, LenProperties
<1>4. stars # {} => m \in stars /\ Top(m)
  <2> SUFFICES ASSUME stars # {} PROVE \E k \in stars : Top(k)
    <3> HIDE DEF stars, Top
    <3> QED OBVIOUS
  <2>1. stars \in SUBSET (1 .. Len(r))
    BY <1>3
  <2> HIDE DEF stars
  <2>2. Max(stars) \in stars /\ Top(Max(stars))
    BY <1>3, <2>1, MaxOf
  <2> QED BY <2>2
<1> HIDE DEF m
<1>5. stars # {} => m # i
  <2>1. CASE r[i] # Star
    BY <1>4, <2>1
  <2>2. CASE \E j \in DOMAIN r : r[j] = Star /\ j > i
    <3>1. PICK j \in DOMAIN r : r[j] = Star /\ j > i
      BY <2>2
    <3>2. j \in stars
      BY <3>1
    <3>3. m \in stars /\ j <= m
      BY <1>4, <3>2
    <3> QED BY <1>0, <1>3, <3>1, <3>3
  <2> QED BY <1>0, <2>1, <2>2
<1>6. i \in DOMAIN rel /\ rel[i] = r[i]
  BY <1>0, <1>5
<1> DEFINE source == ParseDescriptor(d)
<1>7. FromDescriptor(source, index) = IF \E k \in DOMAIN rel : IsStar(rel[k]) THEN Refused ELSE source.key \o rel
  BY Zenon DEF FromDescriptor, m, r
<1> HIDE DEF rel
<1> QED BY <1>0, <1>6, <1>7, Zenon

\* A line that leads to addresses, and to which.
Leads(d, p, c) ==
    /\ Spends(d) /\ p \in {84, 86} /\ (d.kind = "tr" <=> p = 86) /\ c \in {0, 1}
    /\ d.key \o d.rel = Five(p, c, Star)
    /\ \A i \in Nat : FromDescriptor(ParseDescriptor(d), i) = Five(p, c, Plain(i))
    /\ d.kind = "tr" => (IsReceive(d) <=> c = 0)
    /\ Whole(d)

\* A line that leads to no receive address of its own.
Odd(d) ==
    /\ d.key \o d.rel # Receiving /\ ~IsReceive(d)
    /\ (Whole(d) /\ d.rel = <<>>) \/ (~Whole(d) /\ FromDescriptor(ParseDescriptor(d), 0) = Refused)

\* Two paths of five are the same only where all their steps are.
LEMMA FivesDiffer ==
    ASSUME NEW p \in Int, NEW q \in Int, NEW b \in Int, NEW c \in Int, NEW x, NEW y
    PROVE  Five(p, b, x) = Five(q, c, y) => p = q /\ b = c /\ x = y
<1> SUFFICES ASSUME Five(p, b, x) = Five(q, c, y) PROVE p = q /\ b = c /\ x = y
  OBVIOUS
<1>1. Hardened(p) = Hardened(q) /\ Plain(b) = Plain(c) /\ x = y
  BY DEF Five
<1> QED BY <1>1, StepsAre

FivePlains(p, c, b) ==
    /\ Account(p) \o <<Plain(c), b>> = Five(p, c, b) /\ Account(p) \in Seq(Steps)
    /\ <<Plain(c), b>> \in Seq(Steps) /\ Five(p, c, b) \in Seq(Steps)
    /\ <<>> \o Five(p, c, b) = Five(p, c, b) /\ Five(p, c, b) \o <<>> = Five(p, c, b)

LEMMA FivePlain ==
    ASSUME NEW p \in Int, NEW c \in Int, NEW b \in Steps
    PROVE  FivePlains(p, c, b)
<1> DEFINE a == Plain(c)
<1>1. a \in Steps
  BY StepsAre
<1> HIDE DEF a
<1>2. FiveHolds(p, a, b)
  BY <1>1, FiveAre
<1> QED BY <1>2, Zenon DEF a, Five, FiveHolds, FivePlains

\* A line at the account leads where the words lead.
LEMMA ShortLeads ==
    ASSUME NEW d, NEW kind \in {"tr", "wpkh"}, NEW p \in {84, 86}, kind = "tr" <=> p = 86, NEW c \in {0, 1},
           LineIs(d, kind, TRUE, Account(p), <<Plain(c), Star>>)
    PROVE  Fits(d) /\ Leads(d, p, c)
<1>1. p \in Int /\ c \in Int /\ 0 \in Int
  BY SMT
<1>2. Plain(c) \in Steps /\ Star \in Steps
  BY <1>1, StepsAre
<1>3. /\ Account(p) \o <<Plain(c), Star>> = Five(p, c, Star) /\ Account(p) \in Seq(Steps)
      /\ <<Plain(c), Star>> \in Seq(Steps)
  <2>1. FivePlains(p, c, Star)
    BY <1>1, <1>2, FivePlain
  <2> QED BY <2>1, Zenon DEF FivePlains
<1>4. d.kind = kind /\ d.private /\ d.key = Account(p) /\ d.rel = <<Plain(c), Star>>
  BY Zenon DEF LineIs
<1>5. Fits(d) /\ Spends(d)
  <2>1. d.private = TRUE /\ TRUE \in BOOLEAN
    BY Zenon DEF LineIs
  <2> QED BY <1>3, <1>4, <2>1, Zenon DEF Fits, Spends
<1> DEFINE r == d.rel
<1>6. r = <<Plain(c), Star>>
  BY <1>4
<1> HIDE DEF r
<1>7. Len(r) = 2 /\ r[1] = Plain(c) /\ r[2] = Star /\ DOMAIN r = 1 .. 2
  BY <1>6, SMT
<1>8. ~IsStar(Plain(c)) /\ IsStar(Star)
  <2>1. c # -1
    BY SMT
  <2> QED BY <1>1, <2>1, StepsAre
<1>9. LastStar(r)
  <2>1. \A i \in 1 .. 2 : i # 2 => i = 1
    OBVIOUS
  <2>2. \A i \in 1 .. 2 : i # 2 => ~IsStar(r[i])
    BY <1>7, <1>8, <2>1
  <2>3. Len(r) > 0
    BY <1>7
  <2> QED BY <1>7, <2>2, <2>3, Zenon DEF LastStar
<1>10. ASSUME NEW i \in Nat PROVE FromDescriptor(ParseDescriptor(d), i) = Five(p, c, Plain(i))
  <2>1. FromDescriptor(ParseDescriptor(d), i) = d.key \o [r EXCEPT ![Len(r)] = Plain(i)]
    <3>1. LastStar(d.rel)
      BY <1>9 DEF r
    <3>2. Starred(d)
      BY <1>5, <3>1 DEF Starred
    <3>3. Replaces(d, i)
      BY <3>2, StarReplaced
    <3> QED BY <3>3, Zenon DEF r, Replaces
  <2>2. [r EXCEPT ![2] = Plain(i)] = <<Plain(c), Plain(i)>>
    BY <1>6
  <2>3. Plain(i) \in Steps
    <3>1. i \in Int
      OBVIOUS
    <3> QED BY <3>1, StepsAre
  <2>4. Account(p) \o <<Plain(c), Plain(i)>> = Five(p, c, Plain(i))
    <3>1. FivePlains(p, c, Plain(i))
      BY <1>1, <2>3, FivePlain
    <3> QED BY <3>1, Zenon DEF FivePlains
  <2>5. [r EXCEPT ![Len(r)] = Plain(i)] = <<Plain(c), Plain(i)>>
    BY <1>7, <2>2
  <2>6. FromDescriptor(ParseDescriptor(d), i) = Account(p) \o <<Plain(c), Plain(i)>>
    BY <1>4, <2>1, <2>5, Zenon
  <2> QED BY <2>4, <2>6, Zenon
<1>11. IsReceive(d) <=> c = 0
  <2>1. Plain(c) = Plain(0) <=> c = 0
    BY <1>1, StepsAre
  <2>2. 2 > 1 /\ 2 - 1 = 1
    OBVIOUS
  <2> QED BY <1>7, <2>1, <2>2 DEF IsReceive, r
<1>12. Whole(d)
  <2>1. \A i \in 1 .. 2 : IsStar(r[i]) => i = 2
    BY <1>7, <1>8
  <2> QED BY <1>7, <2>1 DEF Whole, r
<1> QED BY <1>3, <1>4, <1>5, <1>10, <1>11, <1>12, Zenon DEF Leads

\* So does a line at the master key.
LEMMA LongLeads ==
    ASSUME NEW d, LineIs(d, "tr", TRUE, <<>>, Account(86) \o <<Plain(0), Star>>)
    PROVE  Fits(d) /\ Leads(d, 86, 0)
<1>1. 86 \in Int /\ 0 \in Int /\ 86 \in {84, 86} /\ 0 \in {0, 1}
  BY SMT
<1>2. Plain(0) \in Steps /\ Star \in Steps
  BY <1>1, StepsAre
<1>3. /\ Account(86) \o <<Plain(0), Star>> = Five(86, 0, Star) /\ <<>> \o Five(86, 0, Star) = Five(86, 0, Star)
      /\ Five(86, 0, Star) \in Seq(Steps)
  <2>1. FivePlains(86, 0, Star)
    BY <1>1, <1>2, FivePlain
  <2> QED BY <2>1, Zenon DEF FivePlains
<1>4. d.kind = "tr" /\ d.private /\ d.key = <<>> /\ d.rel = Five(86, 0, Star)
  BY <1>3, Zenon DEF LineIs
<1>5. Fits(d) /\ Spends(d)
  <2>1. d.private = TRUE /\ TRUE \in BOOLEAN
    BY Zenon DEF LineIs
  <2>2. <<>> \in Seq(Steps)
    OBVIOUS
  <2> QED BY <1>3, <1>4, <2>1, <2>2, Zenon DEF Fits, Spends
<1> DEFINE r == d.rel
           x == Hardened(86)
           y == Hardened(20)
           z == Hardened(0)
<1>6. r = <<x, y, z, Plain(0), Star>>
  BY <1>4, Zenon DEF Five
<1>a. ~IsStar(x) /\ ~IsStar(y) /\ ~IsStar(z) /\ ~IsStar(Plain(0)) /\ IsStar(Star)
  <2>1. 86 # -1 /\ 20 # -1 /\ 0 # -1 /\ 20 \in Int
    BY SMT
  <2> QED BY <1>1, <2>1, StepsAre
<1> HIDE DEF r, x, y, z
<1>7. /\ Len(r) = 5 /\ r[1] = x /\ r[2] = y /\ r[3] = z /\ r[4] = Plain(0) /\ r[5] = Star /\ DOMAIN r = 1 .. 5
  BY <1>6, SMT
<1>8. \A i \in 1 .. 5 : i # 5 => ~IsStar(r[i])
  <2>1. \A i \in 1 .. 5 : i # 5 => i = 1 \/ i = 2 \/ i = 3 \/ i = 4
    OBVIOUS
  <2> QED BY <1>7, <1>a, <2>1
<1>9. LastStar(r)
  <2>3. Len(r) > 0
    BY <1>7
  <2> QED BY <1>7, <1>8, <2>3, Zenon DEF LastStar
<1>10. ASSUME NEW i \in Nat PROVE FromDescriptor(ParseDescriptor(d), i) = Five(86, 0, Plain(i))
  <2>1. FromDescriptor(ParseDescriptor(d), i) = d.key \o [r EXCEPT ![Len(r)] = Plain(i)]
    <3>1. LastStar(d.rel)
      BY <1>9 DEF r
    <3>2. Starred(d)
      BY <1>5, <3>1 DEF Starred
    <3>3. Replaces(d, i)
      BY <3>2, StarReplaced
    <3> QED BY <3>3, Zenon DEF r, Replaces
  <2>2. [r EXCEPT ![5] = Plain(i)] = <<x, y, z, Plain(0), Plain(i)>>
    BY <1>6
  <2>3. Plain(i) \in Steps
    <3>1. i \in Int
      OBVIOUS
    <3> QED BY <3>1, StepsAre
  <2>4. <<>> \o Five(86, 0, Plain(i)) = Five(86, 0, Plain(i))
    <3>1. FivePlains(86, 0, Plain(i))
      BY <1>1, <2>3, FivePlain
    <3> QED BY <3>1, Zenon DEF FivePlains
  <2>5. <<x, y, z, Plain(0), Plain(i)>> = Five(86, 0, Plain(i))
    BY Zenon DEF x, y, z, Five
  <2> QED BY <1>4, <1>7, <2>1, <2>2, <2>4, <2>5
<1>11. IsReceive(d)
  <2>2. 5 > 1 /\ 5 - 1 = 4
    OBVIOUS
  <2> QED BY <1>7, <2>2 DEF IsReceive, r
<1>12. Whole(d)
  <2>1. \A i \in 1 .. 5 : IsStar(r[i]) => i = 5
    BY <1>8
  <2> QED BY <1>7, <2>1 DEF Whole, r
<1> QED BY <1>1, <1>3, <1>4, <1>5, <1>10, <1>11, <1>12, Zenon DEF Leads

\* A line that only watches, or of an old kind.
LEMMA WatchLines ==
    ASSUME NEW d, NEW kind \in {"tr", "pkh"}, NEW private \in BOOLEAN, NEW p \in {86, 44},
           private => kind = "pkh",
           LineIs(d, kind, private, Account(p), <<Plain(0), Star>>)
    PROVE  Fits(d) /\ ~Spends(d)
<1>1. p \in Int /\ 0 \in Int
  BY SMT
<1>2. FivePlains(p, 0, Star)
  BY <1>1, StepsAre, FivePlain
<1>3. d.kind = kind /\ d.private = private /\ d.key \in Seq(Steps) /\ d.rel \in Seq(Steps)
  BY <1>2, Zenon DEF LineIs, FivePlains
<1>4. Fits(d)
  BY <1>3, Zenon DEF Fits
<1>5. ~Spends(d)
  <2>1. kind = "tr" => kind \notin {"pkh"}
    BY SMT
  <2>2. kind = "pkh" => kind \notin {"tr", "wpkh"}
    BY SMT
  <2> QED BY <1>3, <2>1, <2>2, Zenon DEF Spends
<1> QED BY <1>4, <1>5

\* The line of a single key.
LEMMA SingleLine ==
    ASSUME NEW d, LineIs(d, "tr", TRUE, Account(86) \o <<Plain(0), Plain(1)>>, <<>>)
    PROVE  Fits(d) /\ Spends(d) /\ Odd(d) /\ d.kind = "tr"
<1>1. 86 \in Int /\ 0 \in Int /\ 1 \in Int
  BY SMT
<1>2. FivePlains(86, 0, Plain(1)) /\ FivePlains(86, 0, Star) /\ Plain(1) # Star
  <2>1. Plain(1) \in Steps /\ Star \in Steps /\ Star = Plain(-1) /\ -1 \in Int
    BY <1>1, StepsAre
  <2>2. 1 # -1
    BY SMT
  <2> QED BY <1>1, <2>1, <2>2, StepsAre, FivePlain
<1>3. d.kind = "tr" /\ d.private = TRUE /\ d.key = Five(86, 0, Plain(1)) /\ d.rel = <<>>
  BY <1>2, Zenon DEF LineIs, FivePlains
<1>4. Fits(d) /\ Spends(d)
  <2>1. <<>> \in Seq(Steps) /\ TRUE \in BOOLEAN
    OBVIOUS
  <2> QED BY <1>2, <1>3, <2>1, Zenon DEF Fits, Spends, FivePlains
<1>5. d.key \o d.rel # Receiving
  <2>1. d.key \o d.rel = Five(86, 0, Plain(1))
    BY <1>2, <1>3, Zenon DEF FivePlains
  <2>2. Receiving = Five(86, 0, Star)
    BY <1>2, Zenon DEF FivePlains, Receiving
  <2>3. Five(86, 0, Plain(1)) # Five(86, 0, Star)
    BY <1>1, <1>2, FivesDiffer
  <2> QED BY <2>1, <2>2, <2>3, Zenon
<1>6. ~IsReceive(d) /\ Whole(d)
  <2>1. Len(d.rel) = 0 /\ DOMAIN d.rel = {}
    BY <1>3
  <2> QED BY <2>1 DEF IsReceive, Whole
<1> QED BY <1>3, <1>4, <1>5, <1>6, Zenon DEF Odd

\* The lines of a star that is hardened, and of two.
LEMMA HardenedLine ==
    ASSUME NEW d, LineIs(d, "tr", TRUE, Account(86), <<Plain(0), Hardened(-1)>>)
    PROVE  Fits(d) /\ Spends(d) /\ Odd(d) /\ d.kind = "tr"
<1> DEFINE h == Hardened(-1)
<1>1. 86 \in Int /\ 0 \in Int /\ -1 \in Int
  BY SMT
<1>2. h \in Steps /\ h # Star /\ IsStar(h) /\ Star \in Steps
  BY <1>1, StepsAre
<1>0. LineIs(d, "tr", TRUE, Account(86), <<Plain(0), h>>)
  OBVIOUS
<1> HIDE DEF h
<1>3. FivePlains(86, 0, h) /\ FivePlains(86, 0, Star)
  BY <1>1, <1>2, FivePlain
<1>4. d.kind = "tr" /\ d.private = TRUE /\ d.key = Account(86) /\ d.rel = <<Plain(0), h>>
  BY <1>0, Zenon DEF LineIs
<1>5. Fits(d) /\ Spends(d)
  <2>1. TRUE \in BOOLEAN
    OBVIOUS
  <2> QED BY <1>3, <1>4, <2>1, Zenon DEF Fits, Spends, FivePlains
<1>6. d.key \o d.rel # Receiving
  <2>1. d.key \o d.rel = Five(86, 0, h)
    BY <1>3, <1>4, Zenon DEF FivePlains
  <2>2. Receiving = Five(86, 0, Star)
    BY <1>3, Zenon DEF FivePlains, Receiving
  <2>3. Five(86, 0, h) # Five(86, 0, Star)
    BY <1>1, <1>2, FivesDiffer
  <2> QED BY <2>1, <2>2, <2>3, Zenon
<1>7. Len(d.rel) = 2 /\ d.rel[2] = h /\ DOMAIN d.rel = 1 .. 2 /\ 2 \in 1 .. 2
  BY <1>4, SMT
<1>8. ~IsReceive(d) /\ ~Whole(d)
  BY <1>2, <1>7 DEF IsReceive, Whole
<1>9. FromDescriptor(ParseDescriptor(d), 0) = Refused
  <2>1. 2 \in DOMAIN d.rel /\ IsStar(d.rel[2]) /\ d.rel[2] # Star
    BY <1>2, <1>7
  <2> QED BY <1>5, <2>1, StarLeft
<1> QED BY <1>4, <1>5, <1>6, <1>8, <1>9, Zenon DEF Odd

LEMMA TwoStarsLine ==
    ASSUME NEW d, LineIs(d, "tr", TRUE, <<Hardened(86)>>, <<Star, Star>>)
    PROVE  Fits(d) /\ Spends(d) /\ Odd(d) /\ d.kind = "tr"
<1> DEFINE h == Hardened(86)
<1>1. 86 \in Int /\ 0 \in Int /\ -1 \in Int
  BY SMT
<1>2. h \in Steps /\ IsStar(Star) /\ Star \in Steps /\ Star # Plain(0)
  <2>1. 0 # -1
    BY SMT
  <2> QED BY <1>1, <2>1, StepsAre
<1>0. LineIs(d, "tr", TRUE, <<h>>, <<Star, Star>>)
  OBVIOUS
<1> HIDE DEF h
<1>4. d.kind = "tr" /\ d.private = TRUE /\ d.key = <<h>> /\ d.rel = <<Star, Star>>
  BY <1>0, Zenon DEF LineIs
<1>3. d.key \in Seq(Steps) /\ d.rel \in Seq(Steps) /\ Len(d.key) = 1
  BY <1>2, <1>4
<1>5. Fits(d) /\ Spends(d)
  <2>1. TRUE \in BOOLEAN
    OBVIOUS
  <2> QED BY <1>3, <1>4, <2>1, Zenon DEF Fits, Spends
<1>7. Len(d.rel) = 2 /\ d.rel[1] = Star /\ d.rel[2] = Star /\ DOMAIN d.rel = 1 .. 2 /\ 2 \in 1 .. 2 /\ 1 \in 1 .. 2
  BY <1>4, SMT
<1>6. d.key \o d.rel # Receiving
  <2>1. Len(d.key \o d.rel) = 3
    <3>1. Len(d.key \o d.rel) = Len(d.key) + Len(d.rel)
      BY <1>3, ConcatProperties
    <3> QED BY <1>3, <1>7, <3>1
  <2>2. Receiving = Five(86, 0, Star)
    BY <1>1, <1>2, FivePlain, Zenon DEF FivePlains, Receiving
  <2>3. Len(Five(86, 0, Star)) = 5
    BY SMT DEF Five
  <2>4. 3 # 5
    OBVIOUS
  <2> QED BY <2>1, <2>2, <2>3, <2>4, Zenon
<1>8. ~IsReceive(d) /\ ~Whole(d)
  <2>1. 2 - 1 = 1 /\ 1 # 2
    OBVIOUS
  <2>2. ~IsReceive(d)
    BY <1>2, <1>7, <2>1 DEF IsReceive
  <2>3. ~Whole(d)
    BY <1>2, <1>7, <2>1 DEF Whole
  <2> QED BY <2>2, <2>3
<1>9. FromDescriptor(ParseDescriptor(d), 0) = Refused
  <2>1. 1 \in DOMAIN d.rel /\ IsStar(d.rel[1]) /\ 2 \in DOMAIN d.rel /\ d.rel[2] = Star /\ 2 > 1
    BY <1>2, <1>7
  <2> QED BY <1>5, <2>1, StarLeft
<1> QED BY <1>4, <1>5, <1>6, <1>8, <1>9, Zenon DEF Odd

\* Every line is one of these.
LineSound(d) ==
    Fits(d) /\ (\/ ~Spends(d)
                \/ Spends(d) /\ d.kind = "tr" /\ Odd(d)
                \/ \E p \in {84, 86}, c \in {0, 1} : Leads(d, p, c))

LEMMA LinesSound ==
    ASSUME NEW d \in SomeLines
    PROVE  LineSound(d)
<1>1. ASSUME NEW c \in {0, 1}, LineIs(d, "tr", TRUE, Account(86), <<Plain(c), Star>>) PROVE LineSound(d)
  <2>1. "tr" \in {"tr", "wpkh"} /\ 86 \in {84, 86}
    OBVIOUS
  <2>2. Fits(d) /\ Leads(d, 86, c)
    BY <1>1, <2>1, ShortLeads
  <2> QED BY <2>1, <2>2, Zenon DEF LineSound
<1>2. ASSUME LineIs(d, "tr", TRUE, <<>>, Account(86) \o <<Plain(0), Star>>) PROVE LineSound(d)
  <2>1. 86 \in {84, 86} /\ 0 \in {0, 1}
    OBVIOUS
  <2> QED BY <1>2, <2>1, LongLeads, Zenon DEF LineSound
<1>3. ASSUME LineIs(d, "wpkh", TRUE, Account(84), <<Plain(0), Star>>) PROVE LineSound(d)
  <2>1. "wpkh" \in {"tr", "wpkh"} /\ "wpkh" # "tr" /\ 84 \in {84, 86} /\ 84 # 86 /\ 0 \in {0, 1}
    OBVIOUS
  <2>2. Fits(d) /\ Leads(d, 84, 0)
    BY <1>3, <2>1, ShortLeads
  <2> QED BY <2>1, <2>2, Zenon DEF LineSound
<1>4. ASSUME LineIs(d, "tr", FALSE, Account(86), <<Plain(0), Star>>) PROVE LineSound(d)
  <2>1. "tr" \in {"tr", "pkh"} /\ 86 \in {86, 44} /\ FALSE \in BOOLEAN
    OBVIOUS
  <2>2. Fits(d) /\ ~Spends(d)
    BY <1>4, <2>1, WatchLines
  <2> QED BY <2>2, Zenon DEF LineSound
<1>5. ASSUME LineIs(d, "pkh", TRUE, Account(44), <<Plain(0), Star>>) PROVE LineSound(d)
  <2>1. "pkh" \in {"tr", "pkh"} /\ 44 \in {86, 44} /\ TRUE \in BOOLEAN
    OBVIOUS
  <2>2. Fits(d) /\ ~Spends(d)
    BY <1>5, <2>1, WatchLines
  <2> QED BY <2>2, Zenon DEF LineSound
<1>6. ASSUME LineIs(d, "tr", TRUE, Account(86) \o <<Plain(0), Plain(1)>>, <<>>) PROVE LineSound(d)
  BY <1>6, SingleLine, Zenon DEF LineSound
<1>7. ASSUME LineIs(d, "tr", TRUE, Account(86), <<Plain(0), Hardened(-1)>>) PROVE LineSound(d)
  BY <1>7, HardenedLine, Zenon DEF LineSound
<1>8. ASSUME LineIs(d, "tr", TRUE, <<Hardened(86)>>, <<Star, Star>>) PROVE LineSound(d)
  BY <1>8, TwoStarsLine, Zenon DEF LineSound
<1> QED BY <1>1, <1>2, <1>3, <1>4, <1>5, <1>6, <1>7, <1>8, LinesAre, Zenon

\* What is required of the addresses of two lines, as DescriptorsSound says it.
NeverMeet(d, e, i, j) ==
    LET key == FromDescriptor(ParseDescriptor(d), i)
    IN /\ d.kind = "tr" => \E c \in {0, 1} : key = FromSeed("mainnet", c, i)
       /\ key = FromDescriptor(ParseDescriptor(e), j) => i = j /\ d.key \o d.rel = e.key \o e.rel

LeadsOn(d) == \E p \in {84, 86}, c \in {0, 1} : Leads(d, p, c)

\* Two such lines never meet, except on one path at one index.
LEMMA LeadApart ==
    ASSUME NEW d, NEW e, LeadsOn(d), LeadsOn(e), NEW i \in Nat, NEW j \in Nat
    PROVE  NeverMeet(d, e, i, j)
<1>0. PICK p \in {84, 86}, c \in {0, 1} : Leads(d, p, c)
  BY Zenon DEF LeadsOn
<1>9. PICK q \in {84, 86}, b \in {0, 1} : Leads(e, q, b)
  BY Zenon DEF LeadsOn
<1>a. Leads(d, p, c) /\ Leads(e, q, b)
  BY <1>0, <1>9
<1> DEFINE key == FromDescriptor(ParseDescriptor(d), i)
<1>1. /\ key = Five(p, c, Plain(i)) /\ FromDescriptor(ParseDescriptor(e), j) = Five(q, b, Plain(j))
      /\ d.key \o d.rel = Five(p, c, Star) /\ e.key \o e.rel = Five(q, b, Star)
      /\ (d.kind = "tr" => p = 86)
  BY <1>a, Zenon DEF Leads
<1> HIDE DEF key
<1>2. d.kind = "tr" => \E k \in {0, 1} : key = FromSeed("mainnet", k, i)
  <2>1. CoinType["mainnet"] = 20
    BY SMT DEF CoinType
  <2>2. FromSeed("mainnet", c, i) = Five(86, c, Plain(i))
    BY <2>1, Zenon DEF FromSeed, Five
  <2> QED BY <1>1, <2>2, Zenon
<1>3. ASSUME key = FromDescriptor(ParseDescriptor(e), j) PROVE i = j /\ d.key \o d.rel = e.key \o e.rel
  <2>1. p \in Int /\ q \in Int /\ c \in Int /\ b \in Int /\ i \in Int /\ j \in Int
    BY SMT
  <2>2. Five(p, c, Plain(i)) = Five(q, b, Plain(j))
    BY <1>1, <1>3, Zenon
  <2>3. p = q /\ c = b /\ Plain(i) = Plain(j)
    BY <2>1, <2>2, FivesDiffer
  <2>4. i = j
    BY <2>1, <2>3, StepsAre
  <2> QED BY <1>1, <2>3, <2>4, Zenon
<1> QED BY <1>2, <1>3, Zenon DEF key, NeverMeet

\* DescriptorsSound, for any two of the lines.
LEMMA DescriptorsHold == DescriptorsSound
<1>1. ASSUME NEW d \in SomeLines, d.private, d.kind # "pkh", Whole(d), d.rel # <<>>
      PROVE  LeadsOn(d)
  <2>1. Fits(d) /\ LineSound(d)
    BY LinesSound DEF LineSound
  <2>2. Spends(d)
    BY <1>1, <2>1 DEF Fits, Spends
  <2>3. ~Odd(d)
    BY <1>1, Zenon DEF Odd
  <2> QED BY <2>1, <2>2, <2>3, Zenon DEF LineSound, LeadsOn
<1>3. \A i \in 0 .. 2 : i \in Nat
  BY SMT
<1>4. ASSUME NEW d \in {x \in SomeLines : x.private /\ x.kind # "pkh" /\ Whole(x) /\ x.rel # <<>>},
             NEW e \in {x \in SomeLines : x.private /\ x.kind # "pkh" /\ Whole(x) /\ x.rel # <<>>},
             NEW i \in 0 .. 2, NEW j \in 0 .. 2
      PROVE  NeverMeet(d, e, i, j)
  <2>1. LeadsOn(d) /\ LeadsOn(e)
    BY <1>1
  <2>2. i \in Nat /\ j \in Nat
    BY <1>3, Zenon
  <2> QED BY <2>1, <2>2, LeadApart
<1>5. ASSUME NEW d \in SomeLines, d.private /\ d.kind = "tr" /\ ~Whole(d)
      PROVE  FromDescriptor(ParseDescriptor(d), 0) = Refused
  <2>1. LineSound(d)
    BY LinesSound
  <2>2. Spends(d)
    BY <1>5 DEF Spends
  <2>3. ~\E p \in {84, 86}, c \in {0, 1} : Leads(d, p, c)
    BY <1>5, Zenon DEF Leads
  <2> QED BY <1>5, <2>1, <2>2, <2>3, Zenon DEF LineSound, Odd
<1> QED BY <1>4, <1>5, Zenon DEF DescriptorsSound, NeverMeet

-----------------------------------------------------------------------------
(* Bundles of descriptors *)

\* The first of a list, and what two lists hold that are joined.
LEMMA HeadIn ==
    ASSUME NEW X, NEW s \in Seq(X)
    PROVE  /\ s = <<>> <=> ToSet(s) = {}
           /\ s # <<>> => Head(s) \in ToSet(s) /\ Head(s) \in X /\ Head(s) = s[1]
<1>1. DOMAIN s = 1 .. Len(s) /\ Len(s) \in Nat
  BY LenProperties
<1>2. s = <<>> => ToSet(s) = {}
  BY DEF ToSet
<1>3. s # <<>> => 1 \in DOMAIN s /\ Head(s) = s[1] /\ s[1] \in X
  BY <1>1
<1> QED BY <1>2, <1>3, Zenon DEF ToSet

LEMMA JoinedIn ==
    ASSUME NEW X, NEW s \in Seq(X), NEW t \in Seq(X)
    PROVE  /\ s \o t \in Seq(X) /\ ToSet(s \o t) = ToSet(s) \union ToSet(t)
           /\ s # <<>> => Head(s \o t) = Head(s)
           /\ <<>> \o t = t
<1> DEFINE w == s \o t
           m == Len(s)
           n == Len(t)
<1>1. /\ w \in Seq(X) /\ Len(w) = m + n
      /\ \A i \in 1 .. m + n : w[i] = IF i <= m THEN s[i] ELSE t[i - m]
  BY ConcatProperties
<1>2. m \in Nat /\ n \in Nat
  OBVIOUS
<1>3. ToSet(w) = FirstOf(w, Len(w)) /\ ToSet(s) = FirstOf(s, m) /\ ToSet(t) = FirstOf(t, n)
  BY <1>1, FirstAll
<1>4. /\ s # <<>> => m > 0 /\ Head(s) = s[1]
      /\ <<>> \o t = t
  OBVIOUS
<1>a. w # <<>> => Head(w) = w[1]
  BY <1>1, HeadIn
<1> HIDE DEF w, m, n
<1>5. \A i \in 1 .. m : i \in 1 .. m + n /\ w[i] = s[i]
  BY <1>1, <1>2
<1>6. \A i \in 1 .. n : i + m \in 1 .. m + n /\ w[i + m] = t[i]
  <2> SUFFICES ASSUME NEW i \in 1 .. n PROVE i + m \in 1 .. m + n /\ w[i + m] = t[i]
    OBVIOUS
  <2> DEFINE k == i + m
  <2>1. k \in 1 .. m + n /\ ~(k <= m) /\ k - m = i
    BY <1>2
  <2> HIDE DEF k
  <2>2. w[k] = IF k <= m THEN s[k] ELSE t[k - m]
    BY <1>1, <2>1
  <2>3. w[k] = t[i]
    BY <2>1, <2>2
  <2> QED BY <2>1, <2>3 DEF k
<1>7. \A i \in 1 .. m + n : i \in 1 .. m \/ i - m \in 1 .. n
  BY <1>2
<1>8. FirstOf(w, m + n) \subseteq FirstOf(s, m) \union FirstOf(t, n)
  <2> SUFFICES ASSUME NEW i \in 1 .. m + n PROVE w[i] \in FirstOf(s, m) \union FirstOf(t, n)
    BY DEF FirstOf
  <2>1. CASE i \in 1 .. m
    BY <1>5, <2>1 DEF FirstOf
  <2>2. CASE i \notin 1 .. m
    <3>1. i - m \in 1 .. n /\ ~(i <= m)
      BY <1>2, <1>7, <2>2
    <3>2. w[i] = t[i - m]
      BY <1>1, <3>1
    <3> QED BY <3>1, <3>2 DEF FirstOf
  <2> QED BY <2>1, <2>2
<1>9. FirstOf(s, m) \subseteq FirstOf(w, m + n) /\ FirstOf(t, n) \subseteq FirstOf(w, m + n)
  <2>1. ASSUME NEW i \in 1 .. m PROVE s[i] \in FirstOf(w, m + n)
    <3>1. i \in 1 .. m + n /\ w[i] = s[i]
      BY <1>5
    <3> QED BY <3>1, Zenon DEF FirstOf
  <2>2. ASSUME NEW i \in 1 .. n PROVE t[i] \in FirstOf(w, m + n)
    <3>1. i + m \in 1 .. m + n /\ w[i + m] = t[i]
      BY <1>6
    <3> QED BY <3>1, Zenon DEF FirstOf
  <2> QED BY <2>1, <2>2, Zenon DEF FirstOf
<1>10. ToSet(w) = ToSet(s) \union ToSet(t)
  BY <1>1, <1>3, <1>8, <1>9
<1>11. s # <<>> => Head(w) = Head(s)
  <2> SUFFICES ASSUME s # <<>> PROVE Head(w) = Head(s)
    OBVIOUS
  <2>1. 1 \in 1 .. m /\ Len(w) > 0
    BY <1>1, <1>2, <1>4
  <2>2. w # <<>>
    BY <1>1, <2>1
  <2>3. w[1] = s[1]
    BY <1>5, <2>1
  <2> QED BY <1>4, <1>a, <2>2, <2>3
<1> QED BY <1>1, <1>4, <1>10, <1>11 DEF w

\* Lists that are joined are a list.
LEMMA FlattenIn ==
    ASSUME NEW X, NEW n \in Nat \ {0}, NEW seqs \in [1 .. n -> Seq(X)]
    PROVE  FlattenSeq(seqs) \in Seq(X)
<1>1. Len(seqs) = n
  <2>1. n \in Nat
    OBVIOUS
  <2> DEFINE Y == Seq(X)
  <2>2. seqs \in [1 .. n -> Y]
    OBVIOUS
  <2> HIDE DEF Y
  <2> QED BY <2>1, <2>2, ListOf
<1>2. PICK g : Joins(g, seqs, n, X)
  BY <1>1, FlattenSteps
<1>3. FlattenSeq(seqs) = g[n] /\ g \in [1 .. n -> Seq(X)]
  BY <1>2, Zenon DEF Joins
<1>4. n \in 1 .. n
  OBVIOUS
<1> QED BY <1>3, <1>4

\* The keys that are watched are a list.
LEMMA WatchedIn ==
    ASSUME NEW X, NEW sources \in Seq(X), sources # <<>>
    PROVE  \E Y : WatchedKeys(sources, 1) \in Seq(Y)
<1> DEFINE key(s, i) == FromDescriptor(ParseDescriptor(sources[s]), i - 1)
           n == Len(sources)
           Y == {key(s, i) : s \in 1 .. n, i \in 1 .. 2}
           row(s) == [i \in 1 .. 1 + 1 |-> key(s, i)]
           seqs == [s \in DOMAIN sources |-> row(s)]
<1>1. n \in Nat \ {0} /\ DOMAIN sources = 1 .. n
  OBVIOUS
<1>2. WatchedKeys(sources, 1) = FlattenSeq(seqs)
  BY Zenon DEF WatchedKeys
<1> HIDE DEF key, n
<1>3. ASSUME NEW s \in 1 .. n PROVE row(s) \in Seq(Y)
  <2>1. 1 + 1 = 2 /\ 2 \in Nat
    OBVIOUS
  <2>2. \A i \in 1 .. 2 : key(s, i) \in Y
    OBVIOUS
  <2> HIDE DEF Y
  <2>3. row(s) \in [1 .. 2 -> Y]
    BY <2>1, <2>2
  <2> HIDE DEF row
  <2> QED BY <2>1, <2>3, ListOf
<1> HIDE DEF Y, row
<1>4. seqs \in [1 .. n -> Seq(Y)]
  BY <1>1, <1>3
<1> HIDE DEF seqs
<1>5. FlattenSeq(seqs) \in Seq(Y)
  BY <1>1, <1>4, FlattenIn
<1> QED BY <1>2, <1>5

\* Among the lines that can be spent from, the receive chain is known by its shape.
LEMMA ReceivingIs ==
    ASSUME NEW d \in SomeLines, Spends(d), d.kind = "tr"
    PROVE  IsReceive(d) <=> d.key \o d.rel = Receiving
<1>1. LineSound(d)
  BY LinesSound
<1>2. CASE Odd(d)
  BY <1>2, Zenon DEF Odd
<1>3. CASE ~Odd(d)
  <2>1. PICK p \in {84, 86}, c \in {0, 1} : Leads(d, p, c)
    BY <1>1, <1>3, Zenon DEF LineSound
  <2>2. p = 86 /\ d.key \o d.rel = Five(p, c, Star) /\ (IsReceive(d) <=> c = 0)
    BY <2>1, Zenon DEF Leads
  <2>3. 86 \in Int /\ 0 \in Int /\ c \in Int /\ Star \in Steps
    BY StepsAre, SMT
  <2>4. Receiving = Five(86, 0, Star)
    BY <2>3, FivePlain, Zenon DEF FivePlains, Receiving
  <2>5. Five(86, c, Star) = Five(86, 0, Star) <=> c = 0
    BY <2>3, FivesDiffer
  <2> QED BY <2>2, <2>4, <2>5, Zenon
<1> QED BY <1>2, <1>3

\* The bundle's parts, as lists and as sets.
Spendable(lines) == {d \in ToSet(lines) : Spends(d)}
Taproots(lines) == {d \in Spendable(lines) : d.kind = "tr"}
TaprootOf(lines) == Keep(Usable(lines), {d \in ToSet(Usable(lines)) : d.kind = "tr"})
ReceiveOf(lines) == Keep(TaprootOf(lines), {d \in ToSet(TaprootOf(lines)) : IsReceive(d)})
PrimaryOf(lines) == Head(ReceiveOf(lines) \o TaprootOf(lines))
ExtraOf(lines) == Keep(Usable(lines), ToSet(Usable(lines)) \ {PrimaryOf(lines)})
UnsupportedOf(lines) == {d.kind : d \in {e \in ToSet(lines) : e.private /\ ParseDescriptor(e) = Refused}}
BundleOf(lines) == [primary |-> PrimaryOf(lines), extra |-> ExtraOf(lines), unsupported |-> UnsupportedOf(lines)]

\* parseDescriptorBundle(), in these parts.
LEMMA BundleIs ==
    ASSUME NEW lines
    PROVE  Bundle(lines) = IF TaprootOf(lines) = <<>> THEN Refused ELSE BundleOf(lines)
BY Zenon DEF Bundle, TaprootOf, ReceiveOf, PrimaryOf, ExtraOf, UnsupportedOf, BundleOf

\* What can be spent from, as BundlesSound says it.
LEMMA SpendsIs ==
    ASSUME NEW d \in SomeLines
    PROVE  /\ Fits(d) /\ (ParseDescriptor(d) # Refused <=> Spends(d))
           /\ d.kind \in LineKinds
<1>1. Fits(d)
  BY LinesSound, Zenon DEF LineSound
<1> QED BY <1>1, ParsedAre, Zenon DEF Fits, LineKinds

\* The lists hold the lines of their kind.
LEMMA BundleLists ==
    ASSUME NEW lines \in Seq(SomeLines)
    PROVE  /\ Usable(lines) \in Seq(SomeLines) /\ ToSet(Usable(lines)) = Spendable(lines)
           /\ TaprootOf(lines) \in Seq(SomeLines) /\ ToSet(TaprootOf(lines)) = Taproots(lines)
           /\ ReceiveOf(lines) \in Seq(SomeLines)
           /\ ToSet(ReceiveOf(lines)) = {d \in Taproots(lines) : IsReceive(d)}
           /\ ToSet(lines) \subseteq SomeLines
<1> DEFINE L == SomeLines
           goods == {d \in ToSet(lines) : ParseDescriptor(d) # Refused}
<1>0. \A d \in L : ParseDescriptor(d) # Refused <=> Spends(d)
  BY SpendsIs
<1>1. lines \in Seq(L)
  OBVIOUS
<1> HIDE DEF L
<1>2. \A i \in DOMAIN lines : lines[i] \in L
  BY <1>1
<1>3. ToSet(lines) \subseteq L
  BY <1>2, Zenon DEF ToSet
<1>4. goods = Spendable(lines) /\ goods \subseteq ToSet(lines)
  BY <1>0, <1>3, Zenon DEF Spendable
<1>5. Usable(lines) = Keep(lines, goods)
  BY Zenon DEF Usable
<1> HIDE DEF goods
<1>6. Usable(lines) \in Seq(L) /\ ToSet(Usable(lines)) = Spendable(lines)
  <2>1. Keep(lines, goods) \in Seq(L) /\ ToSet(Keep(lines, goods)) = ToSet(lines) \cap goods
    BY <1>1, KeepIs
  <2>2. ToSet(lines) \cap goods = goods
    BY <1>4, Zenon
  <2> QED BY <1>4, <1>5, <2>1, <2>2, Zenon
<1> DEFINE taps == {d \in ToSet(Usable(lines)) : d.kind = "tr"}
<1>7. taps = Taproots(lines) /\ taps \subseteq ToSet(Usable(lines)) /\ TaprootOf(lines) = Keep(Usable(lines), taps)
  BY <1>6, Zenon DEF Taproots, TaprootOf
<1> HIDE DEF taps
<1>8. TaprootOf(lines) \in Seq(L) /\ ToSet(TaprootOf(lines)) = Taproots(lines)
  <2> DEFINE u == Usable(lines)
  <2>1. u \in Seq(L)
    BY <1>6
  <2> HIDE DEF u
  <2>2. Keep(u, taps) \in Seq(L) /\ ToSet(Keep(u, taps)) = ToSet(u) \cap taps
    BY <2>1, KeepIs
  <2>3. ToSet(u) \cap taps = taps
    BY <1>7, Zenon DEF u
  <2> QED BY <1>7, <2>2, <2>3, Zenon DEF u
<1> DEFINE recs == {d \in ToSet(TaprootOf(lines)) : IsReceive(d)}
<1>9. /\ recs = {d \in Taproots(lines) : IsReceive(d)} /\ recs \subseteq ToSet(TaprootOf(lines))
      /\ ReceiveOf(lines) = Keep(TaprootOf(lines), recs)
  BY <1>8, Zenon DEF ReceiveOf
<1> HIDE DEF recs
<1>10. ReceiveOf(lines) \in Seq(L) /\ ToSet(ReceiveOf(lines)) = recs
  BY <1>8, <1>9, KeepIs
<1> QED BY <1>3, <1>6, <1>8, <1>9, <1>10 DEF L

\* The first key source, where there is one.
LEMMA PrimaryIs ==
    ASSUME NEW lines \in Seq(SomeLines), TaprootOf(lines) # <<>>
    PROVE  /\ PrimaryOf(lines) \in Taproots(lines) /\ PrimaryOf(lines) \in SomeLines
           /\ (\E d \in Taproots(lines) : IsReceive(d)) => IsReceive(PrimaryOf(lines))
<1> DEFINE L == SomeLines
           t == TaprootOf(lines)
           r == ReceiveOf(lines)
           w == r \o t
<1>1. /\ t \in Seq(L) /\ ToSet(t) = Taproots(lines) /\ r \in Seq(L)
      /\ ToSet(r) = {d \in Taproots(lines) : IsReceive(d)} /\ t # <<>>
  BY BundleLists
<1>2. PrimaryOf(lines) = Head(w)
  BY Zenon DEF PrimaryOf
<1> HIDE DEF L, t, r
<1>3. /\ w \in Seq(L) /\ ToSet(w) = ToSet(r) \union ToSet(t)
      /\ r # <<>> => Head(w) = Head(r)
  BY <1>1, JoinedIn
<1> HIDE DEF w
<1>4. ToSet(w) = Taproots(lines) /\ ToSet(t) # {}
  BY <1>1, <1>3, HeadIn
<1>5. Head(w) \in ToSet(w) /\ Head(w) \in L
  BY <1>1, <1>3, <1>4, HeadIn
<1>6. ASSUME NEW d \in Taproots(lines), IsReceive(d) PROVE IsReceive(Head(w))
  <2>1. ToSet(r) # {}
    BY <1>1, <1>6
  <2>2. Head(r) \in ToSet(r) /\ r # <<>>
    BY <1>1, <2>1, HeadIn
  <2> QED BY <1>1, <1>3, <2>2
<1> QED BY <1>2, <1>4, <1>5, <1>6 DEF L

\* The key sources, the first and the others, are what can be spent from.
LEMMA SourcesAre ==
    ASSUME NEW lines \in Seq(SomeLines), TaprootOf(lines) # <<>>
    PROVE  /\ ExtraOf(lines) \in Seq(SomeLines)
           /\ <<PrimaryOf(lines)>> \o ExtraOf(lines) \in Seq(SomeLines)
           /\ <<PrimaryOf(lines)>> \o ExtraOf(lines) # <<>>
           /\ ToSet(<<PrimaryOf(lines)>> \o ExtraOf(lines)) = Spendable(lines)
<1> DEFINE L == SomeLines
           p == PrimaryOf(lines)
           u == Usable(lines)
           rest == ToSet(u) \ {p}
           e == ExtraOf(lines)
           one == <<p>>
           w == one \o e
<1>1. p \in L /\ p \in Taproots(lines)
  BY PrimaryIs
<1>2. u \in Seq(L) /\ ToSet(u) = Spendable(lines)
  BY BundleLists
<1>3. e = Keep(u, rest)
  BY Zenon DEF ExtraOf
<1>4. p \in Spendable(lines)
  BY <1>1, Zenon DEF Taproots
<1> HIDE DEF L, p, u, e
<1>5. e \in Seq(L) /\ ToSet(e) = ToSet(u) \cap rest
  BY <1>2, <1>3, KeepIs
<1>6. one \in Seq(L) /\ one # <<>> /\ ToSet(one) = {p} /\ Head(one) = p
  BY <1>1 DEF ToSet
<1> HIDE DEF one
<1>7. w \in Seq(L) /\ ToSet(w) = ToSet(one) \union ToSet(e)
  BY <1>5, <1>6, JoinedIn
<1> HIDE DEF w
<1>8. ToSet(w) = Spendable(lines)
  BY <1>2, <1>4, <1>5, <1>6, <1>7
<1>9. w # <<>>
  BY <1>4, <1>7, <1>8, HeadIn
<1> QED BY <1>5, <1>7, <1>8, <1>9 DEF w, one, e, p, L

\* What is required of a bundle, as BundlesSound says it.
BundleSound(lines) ==
    LET b == Bundle(lines)
        spendable == {d \in ToSet(lines) : d.private /\ d.kind \in {"tr", "wpkh"}}
        sources == <<b.primary>> \o b.extra
        keys == WatchedKeys(sources, 1)
    IN IF \A d \in spendable : d.kind # "tr" THEN b = Refused
       ELSE /\ b # Refused /\ b.primary.kind = "tr"
            /\ (\E d \in spendable : d.kind = "tr" /\ d.key \o d.rel = Receiving) =>
                  b.primary.key \o b.primary.rel = Receiving
            /\ ToSet(sources) = spendable
            /\ b.unsupported = {d.kind : d \in {e \in ToSet(lines) : e.private} \ spendable}
            /\ Len(DedupeUtxos(keys)) = Cardinality(ToSet(keys))

LEMMA BundleHolds ==
    ASSUME NEW lines \in Seq(SomeLines)
    PROVE  BundleSound(lines)
<1> DEFINE b == Bundle(lines)
           S == Spendable(lines)
           p == PrimaryOf(lines)
           sources == <<p>> \o ExtraOf(lines)
           keys == WatchedKeys(sources, 1)
<1>1. S = {d \in ToSet(lines) : d.private /\ d.kind \in {"tr", "wpkh"}}
  BY Zenon DEF Spendable, Spends
<1>2. ToSet(TaprootOf(lines)) = Taproots(lines) /\ TaprootOf(lines) \in Seq(SomeLines)
  BY BundleLists
<1>3. TaprootOf(lines) = <<>> <=> Taproots(lines) = {}
  BY <1>2, HeadIn, Zenon
<1>4. Taproots(lines) = {} <=> \A d \in S : d.kind # "tr"
  BY Zenon DEF Taproots
<1>5. CASE \A d \in S : d.kind # "tr"
  <2>1. b = Refused
    BY <1>3, <1>4, <1>5, BundleIs, Zenon
  <2> QED BY <1>1, <1>5, <2>1, Zenon DEF BundleSound
<1>6. CASE ~\A d \in S : d.kind # "tr"
  <2>1. TaprootOf(lines) # <<>>
    BY <1>3, <1>4, <1>6, Zenon
  <2>2. b = BundleOf(lines)
    BY <2>1, BundleIs, Zenon
  <2>3. b.primary = p /\ b.extra = ExtraOf(lines) /\ b.unsupported = UnsupportedOf(lines)
    <3> DEFINE x == ExtraOf(lines)
               y == UnsupportedOf(lines)
    <3>1. b = [primary |-> p, extra |-> x, unsupported |-> y]
      BY <2>2, Zenon DEF BundleOf
    <3> HIDE DEF b, p, x, y
    <3>2. b.primary = p /\ b.extra = x /\ b.unsupported = y
      BY <3>1
    <3> QED BY <3>2 DEF x, y
  <2>4. /\ p \in Taproots(lines) /\ p \in SomeLines
        /\ (\E d \in Taproots(lines) : IsReceive(d)) => IsReceive(p)
    BY <2>1, PrimaryIs
  <2>5. /\ ExtraOf(lines) \in Seq(SomeLines) /\ sources \in Seq(SomeLines) /\ sources # <<>>
        /\ ToSet(sources) = S
    BY <2>1, SourcesAre
  <2>6. ToSet(lines) \subseteq SomeLines
    BY BundleLists
  <2>7. \A d \in SomeLines : (ParseDescriptor(d) # Refused <=> Spends(d)) /\ d.kind \in LineKinds
    BY SpendsIs
  <2>8. UnsupportedOf(lines) \subseteq LineKinds
    BY <2>6, <2>7, Zenon DEF UnsupportedOf
  <2>9. b # Refused
    <3>1. BundleOf(lines) \in [primary : SomeLines, extra : Seq(SomeLines), unsupported : SUBSET LineKinds]
      <4> DEFINE x == ExtraOf(lines)
                 y == UnsupportedOf(lines)
                 L == SomeLines
                 K == LineKinds
      <4>1. p \in L /\ x \in Seq(L) /\ y \subseteq K
        BY <2>4, <2>5, <2>8
      <4>2. BundleOf(lines) = [primary |-> p, extra |-> x, unsupported |-> y]
        BY Zenon DEF BundleOf
      <4> HIDE DEF p, x, y, L, K
      <4>3. BundleOf(lines) \in [primary : L, extra : Seq(L), unsupported : SUBSET K]
        BY <4>1, <4>2
      <4> QED BY <4>3 DEF L, K
    <3> QED BY <2>2, <3>1, DescriptorsAssumption, Zenon
  <2>10. \A d \in S : d \in SomeLines /\ Spends(d)
    BY <2>6, Zenon DEF Spendable
  <2>11. p \in S /\ p.kind = "tr" /\ Spends(p)
    BY <2>4, <2>10, Zenon DEF Taproots
  <2>12. ASSUME NEW d \in S, d.kind = "tr", d.key \o d.rel = Receiving PROVE p.key \o p.rel = Receiving
    <3>1. IsReceive(d) /\ d \in Taproots(lines)
      BY <2>10, <2>12, ReceivingIs, Zenon DEF Taproots
    <3>2. IsReceive(p)
      BY <2>4, <3>1, Zenon
    <3> QED BY <2>4, <2>11, <3>2, ReceivingIs, Zenon
  <2>13. UnsupportedOf(lines) = {d.kind : d \in {e \in ToSet(lines) : e.private} \ S}
    <3>1. \A e \in ToSet(lines) : ParseDescriptor(e) = Refused <=> e \notin S
      BY <2>6, <2>7, Zenon DEF Spendable
    <3>2. {e \in ToSet(lines) : e.private /\ ParseDescriptor(e) = Refused} = {e \in ToSet(lines) : e.private} \ S
      BY <3>1, Zenon
    <3> QED BY <3>2, Zenon DEF UnsupportedOf
  <2>14. Len(DedupeUtxos(keys)) = Cardinality(ToSet(keys))
    <3>1. PICK Y : keys \in Seq(Y)
      BY <2>5, WatchedIn
    <3> HIDE DEF keys
    <3> QED BY <3>1, DedupeIs
  <2>15. keys = WatchedKeys(<<b.primary>> \o b.extra, 1) /\ sources = <<b.primary>> \o b.extra
    BY <2>3, Zenon
  <2> HIDE DEF b, S, p, sources, keys
  <2>16. b = Bundle(lines)
    BY Zenon DEF b
  <2> QED BY <1>1, <1>6, <2>3, <2>5, <2>9, <2>11, <2>12, <2>13, <2>14, <2>15, <2>16, Zenon DEF BundleSound
<1> QED BY <1>5, <1>6

\* BundlesSound, bundle by bundle.
LEMMA BundlesHold == BundlesSound
<1>1. ASSUME NEW lines \in SomeBundles PROVE lines \in Seq(SomeLines)
  <2>1. PICK k \in 1 .. 3 : lines \in [1 .. k -> SomeLines]
    BY Zenon DEF SomeBundles
  <2>2. k \in Nat
    BY <2>1
  <2> DEFINE L == SomeLines
  <2>3. lines \in [1 .. k -> L]
    BY <2>1
  <2> HIDE DEF L
  <2>4. lines \in Seq(L)
    BY <2>2, <2>3, ListOf
  <2> QED BY <2>4 DEF L
<1>2. ASSUME NEW lines \in SomeBundles PROVE BundleSound(lines)
  BY <1>1, BundleHolds
<1> QED BY <1>2, Zenon DEF BundlesSound, BundleSound

-----------------------------------------------------------------------------
(* Base58 *)

\* One step of a change of base, digit by digit: the lowest first.
CarryGoes(s, r, from, to, d, x) ==
    /\ Carry(<<r>> \o s, from, to, d) = <<x % to>> \o Carry(s, from, to, x \div to)
    /\ Carry(s, from, to, d) \in Seq(Nat)
    /\ Carry(<<>>, from, to, d) = Digits(d, to)

LEMMA CarryCons ==
    ASSUME NEW s \in Seq(Nat), NEW r \in Nat, NEW from \in Bases, NEW to \in Bases, NEW d \in Nat,
           NEW x \in Nat, x = r * from + d
    PROVE  CarryGoes(s, r, from, to, d, x)
<1> DEFINE V == [out : Seq(Nat), carry : Nat]
           e == x % to
           q == x \div to
           t == <<r>> \o s
           n == Len(s)
           Sum(a, c) == a * from + c
           Put(o, a, c) == [out |-> Append(o, Sum(a, c) % to), carry |-> Sum(a, c) \div to]
<1>1. e \in Nat /\ q \in Nat
  BY Divides
<1>2. /\ t \in Seq(Nat) /\ Len(t) = n + 1 /\ n \in Nat
      /\ t[1] = r /\ \A i \in 1 .. n : t[i + 1] = s[i]
  OBVIOUS
<1> HIDE DEF t
<1>3. ASSUME NEW w \in Seq(Nat), NEW c \in Nat
      PROVE  \E g : /\ g \in [0 .. Len(w) -> V] /\ g[0] = [out |-> <<>>, carry |-> c]
                    /\ \A i \in 1 .. Len(w) : g[i] = Put(g[i - 1].out, w[i], g[i - 1].carry)
                    /\ Carry(w, from, to, c) = g[Len(w)].out \o Digits(g[Len(w)].carry, to)
  <2>1. PICK g : /\ Carries(g, w, from, to, c)
                 /\ Carry(w, from, to, c) = g[Len(w)].out \o Digits(g[Len(w)].carry, to)
    BY CarryRun, Zenon
  <2>2. /\ g \in [0 .. Len(w) -> V] /\ g[0] = [out |-> <<>>, carry |-> c]
        /\ \A i \in 1 .. Len(w) : g[i] = Put(g[i - 1].out, w[i], g[i - 1].carry)
    BY <2>1, Zenon DEF Carries
  <2> HIDE DEF V, Put
  <2> QED BY <2>1, <2>2, Zenon
<1> HIDE DEF Put
<1>4. ASSUME NEW w \in Seq(Nat), NEW c \in Nat
      PROVE  /\ Carry(w, from, to, c) \in Seq(Nat)
             /\ w = <<>> => Carry(w, from, to, c) = Digits(c, to)
  <2>1. PICK g : /\ g \in [0 .. Len(w) -> V] /\ g[0] = [out |-> <<>>, carry |-> c]
                 /\ Carry(w, from, to, c) = g[Len(w)].out \o Digits(g[Len(w)].carry, to)
    <3> HIDE DEF V
    <3>1. \E g : /\ g \in [0 .. Len(w) -> V] /\ g[0] = [out |-> <<>>, carry |-> c]
                 /\ \A i \in 1 .. Len(w) : g[i] = Put(g[i - 1].out, w[i], g[i - 1].carry)
                 /\ Carry(w, from, to, c) = g[Len(w)].out \o Digits(g[Len(w)].carry, to)
      BY <1>3
    <3> QED BY <3>1, Zenon
  <2>2. g[Len(w)] \in V
    <3>1. Len(w) \in 0 .. Len(w)
      BY LenProperties
    <3> QED BY <2>1, <3>1
  <2>3. g[Len(w)].out \in Seq(Nat) /\ Digits(g[Len(w)].carry, to) \in Seq(Nat)
    <3>1. g[Len(w)].out \in Seq(Nat) /\ g[Len(w)].carry \in Nat
      BY <2>2
    <3> QED BY <3>1, DigitsIn
  <2>4. ASSUME w = <<>> PROVE Carry(w, from, to, c) = Digits(c, to)
    <3>1. Len(w) = 0
      BY <2>4
    <3>2. g[Len(w)].out = <<>> /\ g[Len(w)].carry = c
      BY <2>1, <3>1
    <3> DEFINE y == Digits(c, to)
    <3>3. y \in Seq(Nat)
      BY DigitsIn
    <3> HIDE DEF y
    <3>4. <<>> \o y = y
      BY <3>3, ConcatEmptySeq
    <3> QED BY <2>1, <3>2, <3>4, Zenon DEF y
  <2> QED BY <2>1, <2>3, <2>4, ConcatProperties
<1>5. PICK g : /\ g \in [0 .. n -> V] /\ g[0] = [out |-> <<>>, carry |-> q]
               /\ \A i \in 1 .. n : g[i] = Put(g[i - 1].out, s[i], g[i - 1].carry)
               /\ Carry(s, from, to, q) = g[n].out \o Digits(g[n].carry, to)
  BY <1>1, <1>3
<1>6. PICK h : /\ h \in [0 .. n + 1 -> V] /\ h[0] = [out |-> <<>>, carry |-> d]
               /\ \A i \in 1 .. n + 1 : h[i] = Put(h[i - 1].out, t[i], h[i - 1].carry)
               /\ Carry(t, from, to, d) = h[n + 1].out \o Digits(h[n + 1].carry, to)
  <2>1. PICK h : /\ h \in [0 .. Len(t) -> V] /\ h[0] = [out |-> <<>>, carry |-> d]
                 /\ \A i \in 1 .. Len(t) : h[i] = Put(h[i - 1].out, t[i], h[i - 1].carry)
                 /\ Carry(t, from, to, d) = h[Len(t)].out \o Digits(h[Len(t)].carry, to)
    BY <1>2, <1>3
  <2> QED BY <1>2, <2>1
<1> DEFINE G == [i \in 0 .. n |-> [out |-> <<e>> \o g[i].out, carry |-> g[i].carry]]
           H == [i \in 0 .. n |-> h[i + 1]]
<1>7. H[0] = [out |-> <<e>>, carry |-> q]
  <2>1. 1 \in 1 .. n + 1 /\ 1 - 1 = 0 /\ 0 \in 0 .. n /\ 0 + 1 = 1
    BY <1>2
  <2>2. h[1] = Put(h[0].out, t[1], h[0].carry)
    BY <1>6, <2>1
  <2>3. h[1] = Put(<<>>, r, d)
    BY <1>2, <1>6, <2>2
  <2>4. Put(<<>>, r, d) = [out |-> <<e>>, carry |-> q]
    BY DEF Put
  <2> QED BY <2>1, <2>3, <2>4
<1>8. G[0] = [out |-> <<e>>, carry |-> q]
  BY <1>1, <1>2, <1>5
<1>9. ASSUME NEW i \in 1 .. n, G[i - 1] = H[i - 1] PROVE G[i] = H[i]
  <2>1. i \in 0 .. n /\ i - 1 \in 0 .. n /\ i + 1 \in 1 .. n + 1 /\ i + 1 - 1 = i /\ i - 1 + 1 = i
    BY <1>2
  <2> DEFINE o == g[i - 1].out
             c == g[i - 1].carry
  <2>2. o \in Seq(Nat) /\ c \in Nat
    BY <1>5, <2>1
  <2>3. h[i] = [out |-> <<e>> \o o, carry |-> c]
    BY <1>9, <2>1
  <2>4. g[i] = Put(o, s[i], c)
    BY <1>5
  <2>5. h[i + 1] = Put(h[i].out, s[i], h[i].carry)
    <3> DEFINE k == i + 1
    <3>1. k \in 1 .. n + 1 /\ k - 1 = i /\ t[k] = s[i]
      BY <1>2, <2>1
    <3> HIDE DEF k
    <3>2. h[k] = Put(h[k - 1].out, t[k], h[k - 1].carry)
      BY <1>6, <3>1
    <3> QED BY <3>1, <3>2 DEF k
  <2> HIDE DEF o, c
  <2>6. h[i + 1] = Put(<<e>> \o o, s[i], c)
    BY <2>3, <2>5
  <2> DEFINE y == Sum(s[i], c)
             a == y % to
             b == y \div to
  <2>7. a \in Nat /\ b \in Nat
    <3>1. s[i] \in Nat
      BY ElementOfSeq
    <3>2. y \in Nat
      BY <2>2, <3>1, Shifted
    <3> HIDE DEF y
    <3> QED BY <3>2, Divides
  <2>8. g[i] = [out |-> Append(o, a), carry |-> b] /\ h[i + 1] = [out |-> Append(<<e>> \o o, a), carry |-> b]
    BY <2>4, <2>6, Zenon DEF Put
  <2> HIDE DEF a, b, y
  <2> HIDE DEF e
  <2>9. <<e>> \o Append(o, a) = Append(<<e>> \o o, a)
    <3>1. <<e>> \in Seq(Nat) /\ <<a>> \in Seq(Nat) /\ <<e>> \o o \in Seq(Nat)
      BY <1>1, <2>2, <2>7
    <3>2. Append(o, a) = o \o <<a>> /\ Append(<<e>> \o o, a) = (<<e>> \o o) \o <<a>>
      BY <2>2, <2>7, <3>1, AppendIsConcat
    <3>3. JoinsUp(<<e>>, o, <<a>>)
      BY <2>2, <3>1, Joined
    <3> QED BY <3>2, <3>3, Zenon DEF JoinsUp
  <2>10. G[i] = [out |-> <<e>> \o g[i].out, carry |-> g[i].carry] /\ H[i] = h[i + 1]
    BY <2>1
  <2>11. g[i].out = Append(o, a) /\ g[i].carry = b
    <3> HIDE DEF G, H
    <3> QED BY <2>8
  <2>12. G[i] = [out |-> <<e>> \o Append(o, a), carry |-> b]
    BY <2>10, <2>11, Zenon
  <2> QED BY <2>8, <2>9, <2>10, <2>12, Zenon
<1>10. G[n] = H[n] /\ n \in 0 .. n
  <2>1. StepsAlike(G, H, n)
    <3> HIDE DEF G, H, n
    <3> QED BY <1>7, <1>8, <1>9 DEF StepsAlike
  <2>2. n \in 0 .. n
    BY <1>2
  <2> HIDE DEF G, H, n
  <2> QED BY <1>2, <2>1, <2>2, RunsAlike
<1>11. h[n + 1] = [out |-> <<e>> \o g[n].out, carry |-> g[n].carry]
  <2>1. G[n] = [out |-> <<e>> \o g[n].out, carry |-> g[n].carry] /\ H[n] = h[n + 1]
    BY <1>10
  <2> QED BY <1>10, <2>1
<1> DEFINE o == g[n].out
           w == Digits(g[n].carry, to)
<1>12. o \in Seq(Nat) /\ w \in Seq(Nat)
  <2>1. o \in Seq(Nat) /\ g[n].carry \in Nat
    BY <1>5, <1>10
  <2> QED BY <2>1, DigitsIn
<1>13. Carry(t, from, to, d) = (<<e>> \o o) \o w /\ Carry(s, from, to, q) = o \o w
  <2>1. h[n + 1].out = <<e>> \o o /\ h[n + 1].carry = g[n].carry
    <3> HIDE DEF o
    <3>1. h[n + 1] = [out |-> <<e>> \o o, carry |-> g[n].carry]
      BY <1>11 DEF o
    <3> QED BY <3>1
  <2> QED BY <1>5, <1>6, <2>1, Zenon
<1> HIDE DEF o, w, e, q
<1>14. (<<e>> \o o) \o w = <<e>> \o (o \o w)
  <2>1. <<e>> \in Seq(Nat)
    BY <1>1
  <2> QED BY <1>12, <2>1, ConcatAssociative
<1>15. Carry(t, from, to, d) = <<e>> \o Carry(s, from, to, q)
  BY <1>13, <1>14, Zenon
<1>16. Carry(s, from, to, d) \in Seq(Nat)
  BY <1>4
<1>17. <<>> \in Seq(Nat)
  OBVIOUS
<1>18. Carry(<<>>, from, to, d) = Digits(d, to)
  BY <1>4, <1>17
<1> QED BY <1>15, <1>16, <1>18, Zenon DEF t, e, q, CarryGoes

\* A digit more, in one base and in the other.
LEMMA CarrySteps ==
    ASSUME NEW from \in Bases, NEW to \in Bases
    PROVE  /\ \A s \in Seq(Nat), d \in Nat : Carry(s, from, to, d) \in Seq(Nat)
           /\ \A d \in Nat : Carry(<<>>, from, to, d) = Digits(d, to)
           /\ \A s \in Seq(Nat), r, d, x \in Nat :
                  x = r * from + d => CarryGoes(s, r, from, to, d, x)
<1>1. ASSUME NEW s \in Seq(Nat), NEW r \in Nat, NEW d \in Nat, NEW x \in Nat, x = r * from + d
      PROVE  CarryGoes(s, r, from, to, d, x)
  BY <1>1, CarryCons
<1>2. \A d \in Nat : 0 * from + d \in Nat /\ 0 \in Nat
  BY Shifted
<1>3. <<>> \in Seq(Nat)
  OBVIOUS
<1>4. \A s \in Seq(Nat), d \in Nat : Carry(s, from, to, d) \in Seq(Nat) /\ Carry(<<>>, from, to, d) = Digits(d, to)
  <2> SUFFICES ASSUME NEW s \in Seq(Nat), NEW d \in Nat
               PROVE  Carry(s, from, to, d) \in Seq(Nat) /\ Carry(<<>>, from, to, d) = Digits(d, to)
    BY Zenon
  <2> DEFINE x == 0 * from + d
  <2>1. x \in Nat /\ 0 \in Nat /\ x = 0 * from + d
    BY <1>2
  <2> HIDE DEF x
  <2>2. CarryGoes(s, 0, from, to, d, x)
    BY <1>1, <2>1
  <2> QED BY <2>2, Zenon DEF CarryGoes
<1> QED BY <1>1, <1>3, <1>4

Rescales(from, to, q, r, d, v) ==
    \E x, y \in Nat : /\ x = r * from + d /\ y = v * from + d /\ (v > 0 => y > 0)
                      /\ y % to = x % to /\ y \div to = q * from + x \div to /\ x \div to \in Nat

LEMMA Rescaled ==
    ASSUME NEW from \in Bases, NEW to \in Bases, NEW q \in Nat, NEW r \in Nat, NEW d \in Nat, NEW v \in Nat, v = to * q + r
    PROVE  Rescales(from, to, q, r, d, v)
<1> DEFINE x == r * from + d
           y == v * from + d
           a == x % to
           c == x \div to
           w == q * from + c
<1>1. x \in Nat /\ y \in Nat
  BY Shifted
<1>2. a \in 0 .. to - 1 /\ a \in Nat /\ c \in Nat /\ x = to * c + a /\ to \in Nat \ {0}
  <2> HIDE DEF x
  <2> QED BY <1>1, Divides
<1>3. y = to * w + a /\ w \in Nat /\ (v > 0 => y > 0)
  <2> HIDE DEF a, c
  <2>1. CASE from = 58 /\ to = 58
    BY <1>2, <2>1, SMT
  <2>2. CASE from = 58 /\ to = 256
    BY <1>2, <2>2, SMT
  <2>3. CASE from = 256 /\ to = 58
    BY <1>2, <2>3, SMT
  <2>4. CASE from = 256 /\ to = 256
    BY <1>2, <2>4, SMT
  <2> QED BY <2>1, <2>2, <2>3, <2>4, SMT DEF Bases
<1>4. y % to = a /\ y \div to = w
  <2> HIDE DEF x, y, a, w
  <2>1. CASE to = 58
    BY <1>1, <1>2, <1>3, <2>1, SMT
  <2>2. CASE to = 256
    BY <1>1, <1>2, <1>3, <2>2, SMT
  <2> QED BY <2>1, <2>2, SMT DEF Bases
<1> QED BY <1>1, <1>2, <1>3, <1>4, Zenon DEF Rescales

\* A number, digit by digit times a base and one more, is that number.
LEMMA CarryDigits ==
    ASSUME NEW from \in Bases, NEW to \in Bases
    PROVE  \A v, d \in Nat : Carry(Digits(v, to), from, to, d) = Digits(v * from + d, to)
<1> DEFINE Is(v, d) == Carry(Digits(v, to), from, to, d) = Digits(v * from + d, to)
           T == {k \in Nat : \A v, d \in Nat : v <= k => Is(v, d)}
<1>1. ASSUME NEW d \in Nat PROVE Is(0, d)
  <2>1. Digits(0, to) = <<>>
    BY DigitsAre
  <2>2. <<>> \in Seq(Nat) /\ 0 * from + d = d /\ 0 \in Nat
    BY Divides
  <2>3. 0 * from + d \in Nat
    BY <2>2
  <2>4. Carry(<<>>, from, to, d) = Digits(d, to)
    BY CarrySteps
  <2> QED BY <2>1, <2>2, <2>4, Zenon
<1>2. 0 \in T
  <2> HIDE DEF Is
  <2>1. \A v \in Nat : v <= 0 => v = 0
    OBVIOUS
  <2> QED BY <1>1, <2>1
<1>3. ASSUME NEW k \in Nat, k \in T PROVE k + 1 \in T
  <2> SUFFICES ASSUME NEW v \in Nat, NEW d \in Nat, v <= k + 1 PROVE Is(v, d)
    <3> HIDE DEF Is
    <3> QED OBVIOUS
  <2>1. CASE v = 0
    BY <1>1, <2>1
  <2>2. CASE v # 0
    <3>1. PICK q \in Nat, r \in Nat : Split(v, to, q, r) /\ Digits(v, to) = <<r>> \o Digits(q, to)
      BY <2>2, DigitsStep, Zenon
    <3>2. v = to * q + r /\ q < v
      BY <3>1 DEF Split
    <3>3. PICK x \in Nat, y \in Nat : /\ x = r * from + d /\ y = v * from + d /\ (v > 0 => y > 0)
                           /\ y % to = x % to /\ y \div to = q * from + x \div to /\ x \div to \in Nat
      <4>1. Rescales(from, to, q, r, d, v)
        BY <3>2, Rescaled
      <4> QED BY <4>1, Zenon DEF Rescales
    <3>4. Digits(q, to) \in Seq(Nat)
      BY DigitsIn
    <3>5. Carry(Digits(v, to), from, to, d) = <<x % to>> \o Carry(Digits(q, to), from, to, x \div to)
      <4>1. \A s \in Seq(Nat), a, b, z \in Nat :
                  z = a * from + b => CarryGoes(s, a, from, to, b, z)
        BY CarrySteps
      <4>2. CarryGoes(Digits(q, to), r, from, to, d, x)
        BY <3>3, <3>4, <4>1
      <4>3. Carry(<<r>> \o Digits(q, to), from, to, d) = <<x % to>> \o Carry(Digits(q, to), from, to, x \div to)
        BY <4>2, Zenon DEF CarryGoes
      <4> QED BY <3>1, <4>3, Zenon
    <3>6. Carry(Digits(q, to), from, to, x \div to) = Digits(q * from + x \div to, to)
      <4>1. q <= k
        BY <2>2, <3>2
      <4>2. Is(q, x \div to)
        <5> HIDE DEF Is
        <5> QED BY <1>3, <3>3, <4>1
      <4> QED BY <4>2
    <3>7. Digits(y, to) = <<y % to>> \o Digits(y \div to, to)
      <4>1. y # 0
        BY <2>2, <3>3
      <4> QED BY <4>1, DigitsAre
    <3> QED BY <3>3, <3>5, <3>6, <3>7, Zenon
  <2> QED BY <2>1, <2>2
<1>4. ASSUME NEW v \in Nat, NEW d \in Nat PROVE Is(v, d)
  <2>1. v \in T
    <3> HIDE DEF T
    <3> QED BY <1>2, <1>3, NatAll
  <2> HIDE DEF Is
  <2> QED BY <2>1
<1> QED BY <1>4

\* The digits of a number, one for zero.
Normal(v, b) == IF v = 0 THEN <<0>> ELSE Digits(v, b)

\* The same, with the zero that a list of no digits is written as.
LEMMA CarryNormal ==
    ASSUME NEW from \in Bases, NEW to \in Bases, NEW v \in Nat, NEW d \in Nat
    PROVE  Carry(Normal(v, to), from, to, d) = Normal(v * from + d, to)
<1>1. CASE v # 0
  <2>1. v * from + d \in Nat /\ v * from + d # 0
    <3>1. CASE from = 58
      BY <1>1, <3>1, SMT
    <3>2. CASE from = 256
      BY <1>1, <3>2, SMT
    <3> QED BY <3>1, <3>2, SMT DEF Bases
  <2> QED BY <1>1, <2>1, CarryDigits, Zenon DEF Normal
<1>2. CASE v = 0
  <2>1. 0 * from + d = d /\ 0 \in Nat /\ from \in Nat
    BY Divides
  <2>2. Normal(v, to) = <<0>> /\ <<0>> \o <<>> = <<0>> /\ <<>> \in Seq(Nat)
    BY <1>2, SMT DEF Normal
  <2>3. d % to \in Nat /\ d \div to \in Nat
    BY Divides
  <2>4. Carry(<<0>> \o <<>>, from, to, d) = <<d % to>> \o Carry(<<>>, from, to, d \div to)
    <3>1. \A s \in Seq(Nat), a, b, z \in Nat :
              z = a * from + b => CarryGoes(s, a, from, to, b, z)
      BY CarrySteps
    <3>2. CarryGoes(<<>>, 0, from, to, d, d)
      BY <2>1, <2>2, <3>1
    <3> QED BY <3>2, Zenon DEF CarryGoes
  <2>5. Carry(<<>>, from, to, d \div to) = Digits(d \div to, to)
    <3> DEFINE c == d \div to
    <3>1. c \in Nat /\ 0 * from + c \in Nat
      BY <2>1, <2>3
    <3> HIDE DEF c
    <3>2. Carry(<<>>, from, to, c) = Digits(c, to)
      BY <3>1, CarrySteps
    <3> QED BY <3>2 DEF c
  <2>6. CASE d = 0
    <3>1. 0 % to = 0 /\ 0 \div to = 0
      <4>1. CASE to = 58
        BY <4>1, SMT
      <4>2. CASE to = 256
        BY <4>2, SMT
      <4> QED BY <4>1, <4>2, SMT DEF Bases
    <3>2. Digits(0, to) = <<>>
      BY DigitsAre
    <3> QED BY <1>2, <2>1, <2>2, <2>4, <2>5, <2>6, <3>1, <3>2, Zenon DEF Normal
  <2>7. CASE d # 0
    <3>1. Digits(d, to) = <<d % to>> \o Digits(d \div to, to)
      BY <2>7, DigitsAre
    <3> QED BY <1>2, <2>1, <2>2, <2>4, <2>5, <2>7, <3>1, Zenon DEF Normal
  <2> QED BY <2>6, <2>7
<1> QED BY <1>1, <1>2

\* A change of base, digit by digit.
Rebases(g, s, from, to) ==
    /\ g \in [0 .. Len(s) -> Seq(Nat)] /\ g[0] = <<0>>
    /\ \A i \in 1 .. Len(s) : g[i] = Carry(g[i - 1], from, to, s[i])

LEMMA RebasedRun ==
    ASSUME NEW s \in Seq(Nat), NEW from \in Bases, NEW to \in Bases
    PROVE  \E g : Rebases(g, s, from, to) /\ Rebased(s, from, to) = g[Len(s)]
<1> SUFFICES ASSUME NEW n, n = Len(s) PROVE \E g : Rebases(g, s, from, to) /\ Rebased(s, from, to) = g[Len(s)]
  BY Zenon
<1> DEFINE W == Seq(Nat)
           st(i, v) == Carry(v, from, to, s[i])
           in(i, v) == Carry(v, from, to, s[i])
           step == [p \in (1 .. n) \X W |-> st(p[1], p[2])]
           Eq(h) == h = [u \in SUBSET DOMAIN s |-> IF u = {} THEN <<0>> ELSE Carry(h[u \ {Max(u)}], from, to, s[Max(u)])]
           Fun(h) == h = [u \in SUBSET DOMAIN s |-> IF u = {} THEN <<0>> ELSE in(Max(u), h[u \ {Max(u)}])]
<1>1. n \in Nat /\ DOMAIN s = 1 .. n /\ <<0>> \in W
  OBVIOUS
<1>2. ASSUME NEW i \in 1 .. n, NEW v \in W PROVE st(i, v) \in W /\ in(i, v) = st(i, v)
  <2>1. s[i] \in Nat /\ v \in Seq(Nat)
    OBVIOUS
  <2> DEFINE d == s[i]
  <2> HIDE DEF d
  <2>2. d \in Nat /\ 0 \in Nat
    BY <2>1 DEF d
  <2>3. 0 * from + d \in Nat
    BY <2>2, Shifted
  <2>4. Carry(v, from, to, d) \in Seq(Nat)
    BY <2>1, <2>2, CarrySteps
  <2> QED BY <2>4 DEF d
<1>3. ASSUME NEW h PROVE Eq(h) <=> Fun(h)
  BY Zenon
<1>4. Rebased(s, from, to) = (CHOOSE h : Eq(h))[DOMAIN s]
  BY Zenon DEF Rebased, FoldLeft, MapThenFoldSet
<1> HIDE DEF W, st, in
<1>5. step \in [(1 .. n) \X W -> W] /\ \A i \in 1 .. n : \A v \in W : step[<<i, v>>] = st(i, v)
  BY <1>2
<1> HIDE DEF step
<1>6. PICK g : /\ Run(g, n, W, step, <<0>>)
               /\ \E G \in [SUBSET (1 .. n) -> W] : OverPlaces(G, n, step, <<0>>)
               /\ \A H : GoesOn(H, n, W, step, <<0>>) => H[1 .. n] = g[n]
  <2>1. step \in [(1 .. n) \X W -> W]
    BY <1>5
  <2>2. HasRun(n, W, step, <<0>>)
    BY <1>1, <2>1, RunExists, Zenon
  <2> QED BY <2>2, Zenon DEF HasRun
<1>7. PICK G \in [SUBSET (1 .. n) -> W] : OverPlaces(G, n, step, <<0>>)
  BY <1>6
<1>8. ASSUME NEW u \in SUBSET (1 .. n), u # {}
      PROVE  Max(u) \in 1 .. n /\ u \ {Max(u)} \in SUBSET (1 .. n)
  BY <1>1, <1>8, MaxOf
<1>9. Fun(G)
  <2>1. ASSUME NEW u \in SUBSET (1 .. n), u # {} PROVE step[<<Max(u), G[u \ {Max(u)}]>>] = in(Max(u), G[u \ {Max(u)}])
    <3>1. Max(u) \in 1 .. n /\ G[u \ {Max(u)}] \in W
      BY <1>8, <2>1
    <3>2. step[<<Max(u), G[u \ {Max(u)}]>>] = st(Max(u), G[u \ {Max(u)}])
      BY <1>5, <3>1, Zenon
    <3>3. in(Max(u), G[u \ {Max(u)}]) = st(Max(u), G[u \ {Max(u)}])
      BY <1>2, <3>1, Zenon
    <3> QED BY <3>2, <3>3
  <2>2. G = [u \in SUBSET (1 .. n) |-> IF u = {} THEN <<0>> ELSE step[<<Max(u), G[u \ {Max(u)}]>>]]
    BY <1>7, Zenon DEF OverPlaces
  <2>3. \A u \in SUBSET (1 .. n) : G[u] = IF u = {} THEN <<0>> ELSE in(Max(u), G[u \ {Max(u)}])
    BY <2>1, <2>2
  <2> QED BY <1>1, <2>3
<1> DEFINE F == CHOOSE h : Eq(h)
<1> HIDE DEF Eq
<1>10. Fun(F)
  BY <1>3, <1>9, Zenon
<1> HIDE DEF F
<1>11. GoesOn(F, n, W, step, <<0>>)
  <2>1. F[{}] = <<0>>
    BY <1>1, <1>10
  <2>2. ASSUME NEW u \in SUBSET (1 .. n), u # {}, F[u \ {Max(u)}] \in W
        PROVE  F[u] = step[<<Max(u), F[u \ {Max(u)}]>>]
    <3>1. F[u] = in(Max(u), F[u \ {Max(u)}])
      BY <1>1, <1>10, <2>2
    <3>2. Max(u) \in 1 .. n
      BY <1>8, <2>2
    <3>3. step[<<Max(u), F[u \ {Max(u)}]>>] = st(Max(u), F[u \ {Max(u)}])
      BY <1>5, <2>2, <3>2, Zenon
    <3>4. in(Max(u), F[u \ {Max(u)}]) = st(Max(u), F[u \ {Max(u)}])
      BY <1>2, <2>2, <3>2, Zenon
    <3> QED BY <3>1, <3>3, <3>4
  <2> QED BY <2>1, <2>2 DEF GoesOn
<1>12. F[DOMAIN s] = g[n]
  BY <1>1, <1>6, <1>11
<1>13. Rebased(s, from, to) = g[n]
  BY <1>4, <1>12, Zenon DEF F
<1>14. g \in [0 .. n -> W] /\ g[0] = <<0>> /\ \A i \in 1 .. n : g[i] = st(i, g[i - 1])
  <2>1. g \in [0 .. n -> W] /\ g[0] = <<0>> /\ \A i \in 1 .. n : g[i] = step[<<i, g[i - 1]>>]
    BY <1>6, Zenon DEF Run
  <2>2. ASSUME NEW i \in 1 .. n PROVE g[i] = st(i, g[i - 1])
    <3>1. i - 1 \in 0 .. n
      BY <1>1
    <3>2. g[i - 1] \in W
      BY <2>1, <3>1, Zenon
    <3>3. step[<<i, g[i - 1]>>] = st(i, g[i - 1])
      BY <1>5, <3>2, Zenon
    <3> QED BY <2>1, <3>3
  <2> QED BY <2>1, <2>2
<1>15. Rebases(g, s, from, to)
  BY <1>14, Zenon DEF W, st, Rebases
<1> QED BY <1>13, <1>15, Zenon

\* One more digit to bring into another base.
LEMMA RebasedMore ==
    ASSUME NEW from \in Bases, NEW to \in Bases
    PROVE  /\ Rebased(<<>>, from, to) = <<0>>
           /\ \A s \in Seq(Nat), d \in Nat :
                  Rebased(Append(s, d), from, to) = Carry(Rebased(s, from, to), from, to, d)
<1>1. Rebased(<<>>, from, to) = <<0>>
  <2>1. <<>> \in Seq(Nat) /\ Len(<<>>) = 0
    OBVIOUS
  <2>2. PICK g : Rebases(g, <<>>, from, to) /\ Rebased(<<>>, from, to) = g[Len(<<>>)]
    BY <2>1, RebasedRun
  <2> QED BY <2>1, <2>2, Zenon DEF Rebases
<1>2. ASSUME NEW s \in Seq(Nat), NEW d \in Nat
      PROVE  Rebased(Append(s, d), from, to) = Carry(Rebased(s, from, to), from, to, d)
  <2> DEFINE t == Append(s, d)
             n == Len(s)
  <2>1. /\ t \in Seq(Nat) /\ Len(t) = n + 1 /\ n \in Nat
        /\ t[n + 1] = d /\ \A i \in 1 .. n : t[i] = s[i]
    BY AppendProperties, LenProperties
  <2> HIDE DEF t
  <2>2. PICK g : Rebases(g, s, from, to) /\ Rebased(s, from, to) = g[n]
    BY RebasedRun
  <2>3. PICK h : Rebases(h, t, from, to) /\ Rebased(t, from, to) = h[Len(t)]
    BY <2>1, RebasedRun
  <2>4. g[0] = <<0>> /\ \A i \in 1 .. n : g[i] = Carry(g[i - 1], from, to, s[i])
    BY <2>2, Zenon DEF Rebases
  <2>5. h[0] = <<0>> /\ \A i \in 1 .. Len(t) : h[i] = Carry(h[i - 1], from, to, t[i])
    BY <2>3, Zenon DEF Rebases
  <2>6. StepsAlike(g, h, n)
    <3>1. ASSUME NEW i \in 1 .. n, g[i - 1] = h[i - 1] PROVE g[i] = h[i]
      <4>1. i \in 1 .. Len(t)
        BY <2>1
      <4> QED BY <2>1, <2>4, <2>5, <3>1, <4>1
    <3> QED BY <2>4, <2>5, <3>1, Zenon DEF StepsAlike
  <2>7. g[n] = h[n]
    <3>1. n \in 0 .. n
      BY <2>1
    <3> QED BY <2>1, <2>6, <3>1, RunsAlike
  <2>8. h[n + 1] = Carry(h[n], from, to, d)
    <3> DEFINE k == n + 1
    <3>1. k \in 1 .. Len(t) /\ k - 1 = n /\ t[k] = d
      BY <2>1
    <3> HIDE DEF k
    <3>2. h[k] = Carry(h[k - 1], from, to, t[k])
      BY <2>5, <3>1
    <3> QED BY <3>1, <3>2 DEF k
  <2> QED BY <2>1, <2>2, <2>3, <2>7, <2>8 DEF t
<1> QED BY <1>1, <1>2

\* A list the other way round, and with one more in front.
LEMMA ReverseIn ==
    ASSUME NEW X, NEW s \in Seq(X)
    PROVE  /\ Reverse(s) \in Seq(X) /\ Len(Reverse(s)) = Len(s)
           /\ \A i \in 1 .. Len(s) : Reverse(s)[i] = s[Len(s) + 1 - i]
<1> DEFINE n == Len(s)
           w == Reverse(s)
<1>1. n \in Nat /\ \A i \in 1 .. n : s[i] \in X
  BY LenProperties, ElementOfSeq
<1>2. \A i \in 1 .. n : n - i + 1 = n + 1 - i /\ n + 1 - i \in 1 .. n
  BY <1>1
<1>3. w = [i \in 1 .. n |-> s[n - i + 1]]
  BY Zenon DEF Reverse
<1> HIDE DEF n, w
<1>4. w \in [1 .. n -> X] /\ \A i \in 1 .. n : w[i] = s[n + 1 - i]
  BY <1>1, <1>2, <1>3
<1>5. w \in Seq(X) /\ Len(w) = n
  BY <1>1, <1>4, ListOf
<1> QED BY <1>4, <1>5 DEF n, w

LEMMA ReverseCons ==
    ASSUME NEW X, NEW s \in Seq(X), NEW r \in X
    PROVE  Reverse(<<r>> \o s) = Append(Reverse(s), r) /\ Reverse(<<>>) = <<>>
<1> DEFINE t == <<r>> \o s
           n == Len(s)
           u == Reverse(s)
           v == Append(u, r)
           w == Reverse(t)
<1>1. /\ t \in Seq(X) /\ Len(t) = n + 1 /\ n \in Nat
      /\ t[1] = r /\ \A i \in 1 .. n : t[i + 1] = s[i]
  OBVIOUS
<1> HIDE DEF t
<1>2. u \in Seq(X) /\ Len(u) = n /\ \A i \in 1 .. n : u[i] = s[n + 1 - i]
  BY ReverseIn
<1>3. w \in Seq(X) /\ Len(w) = n + 1 /\ \A i \in 1 .. n + 1 : w[i] = t[n + 1 + 1 - i]
  <2>1. w \in Seq(X) /\ Len(w) = Len(t) /\ \A i \in 1 .. Len(t) : w[i] = t[Len(t) + 1 - i]
    BY <1>1, ReverseIn
  <2> QED BY <1>1, <2>1
<1> HIDE DEF u, w, n
<1>4. v \in Seq(X) /\ Len(v) = n + 1 /\ v[n + 1] = r /\ \A i \in 1 .. n : v[i] = u[i]
  BY <1>2, AppendProperties
<1> HIDE DEF v
<1>5. ASSUME NEW i \in 1 .. n + 1 PROVE w[i] = v[i]
  <2>1. CASE i = n + 1
    <3>1. n + 1 + 1 - i = 1
      BY <1>1, <2>1
    <3> QED BY <1>1, <1>3, <1>4, <2>1, <3>1
  <2>2. CASE i # n + 1
    <3>1. i \in 1 .. n /\ n + 1 - i \in 1 .. n /\ n + 1 + 1 - i = (n + 1 - i) + 1
      BY <1>1, <2>2
    <3>2. v[i] = s[n + 1 - i]
      BY <1>2, <1>4, <3>1
    <3> DEFINE k == n + 1 - i
    <3>3. t[k + 1] = s[k]
      BY <1>1, <3>1
    <3> QED BY <1>3, <3>1, <3>2, <3>3
  <2> QED BY <2>1, <2>2
<1>6. w = v
  BY <1>3, <1>4, <1>5, SeqEqual
<1>7. Reverse(<<>>) = <<>>
  <2>1. <<>> \in Seq(X) /\ Len(<<>>) = 0
    OBVIOUS
  <2>2. Reverse(<<>>) \in Seq(X) /\ Len(Reverse(<<>>)) = 0
    BY <2>1, ReverseIn
  <2> QED BY <2>2, EmptySeq
<1> QED BY <1>6, <1>7 DEF u, v, w, t

\* Zeros are as many as they say.
LEMMA ZerosAre ==
    ASSUME NEW n \in Nat
    PROVE  /\ Zeros(n) \in Seq(Nat) /\ Len(Zeros(n)) = n /\ \A i \in 1 .. n : Zeros(n)[i] = 0
           /\ Zeros(n + 1) = Append(Zeros(n), 0) /\ Zeros(0) = <<>>
<1>1. ASSUME NEW k \in Nat PROVE Zeros(k) \in Seq(Nat) /\ Len(Zeros(k)) = k /\ \A i \in 1 .. k : Zeros(k)[i] = 0
  <2>1. Zeros(k) \in [1 .. k -> Nat] /\ \A i \in 1 .. k : Zeros(k)[i] = 0
    BY DEF Zeros
  <2> QED BY <2>1, ListOf
<1> DEFINE u == Zeros(n)
           v == Append(u, 0)
           w == Zeros(n + 1)
<1>2. /\ u \in Seq(Nat) /\ Len(u) = n /\ \A i \in 1 .. n : u[i] = 0
      /\ w \in Seq(Nat) /\ Len(w) = n + 1 /\ \A i \in 1 .. n + 1 : w[i] = 0
  BY <1>1
<1> HIDE DEF u, w
<1>3. v \in Seq(Nat) /\ Len(v) = n + 1 /\ v[n + 1] = 0 /\ \A i \in 1 .. n : v[i] = u[i]
  BY <1>2, AppendProperties
<1> HIDE DEF v
<1>4. ASSUME NEW i \in 1 .. n + 1 PROVE w[i] = v[i]
  BY <1>2, <1>3
<1>5. w = v
  BY <1>2, <1>3, <1>4, SeqEqual
<1>6. Zeros(0) = <<>>
  BY <1>1, EmptySeq
<1> QED BY <1>2, <1>5, <1>6 DEF u, v, w

\* A text: the zeros it leads with, and the digits of a number, the highest first.
Text(z, v, b) == Zeros(z) \o Reverse(Digits(v, b))

\* A text is a list of numbers, and has one digit more where its number has.
LEMMA TextIn ==
    ASSUME NEW b \in Bases, NEW z \in Nat, NEW v \in Nat
    PROVE  /\ Text(z, v, b) \in Seq(Nat) /\ Zeros(z) \in Seq(Nat)
           /\ Reverse(Digits(v, b)) \in Seq(Nat) /\ Digits(v, b) \in Seq(Nat)
<1>1. Digits(v, b) \in Seq(Nat) /\ Zeros(z) \in Seq(Nat)
  BY DigitsIn, ZerosAre
<1>2. Reverse(Digits(v, b)) \in Seq(Nat)
  BY <1>1, ReverseIn
<1> QED BY <1>1, <1>2, ConcatProperties DEF Text

LEMMA TextMore ==
    ASSUME NEW b \in Bases, NEW z \in Nat
    PROVE  /\ Text(z, 0, b) = Zeros(z)
           /\ \A v, q, r \in Nat : v # 0 /\ q = v \div b /\ r = v % b => Text(z, v, b) = Append(Text(z, q, b), r)
<1>1. Text(z, 0, b) = Zeros(z)
  <2>1. Digits(0, b) = <<>>
    BY DigitsAre
  <2>2. <<>> \in Seq(Nat) /\ 0 \in Nat
    OBVIOUS
  <2>3. Reverse(<<>>) = <<>>
    BY <2>2, ReverseCons
  <2>4. Zeros(z) \in Seq(Nat)
    BY ZerosAre
  <2>5. Zeros(z) \o <<>> = Zeros(z)
    BY <2>4, ConcatEmptySeq
  <2> QED BY <2>1, <2>3, <2>5, Zenon DEF Text
<1>2. ASSUME NEW v \in Nat, NEW q \in Nat, NEW r \in Nat, v # 0, q = v \div b, r = v % b
      PROVE  Text(z, v, b) = Append(Text(z, q, b), r)
  <2> DEFINE d == Digits(q, b)
             o == Zeros(z)
             e == Reverse(d)
  <2>1. Digits(v, b) = <<r>> \o d
    BY <1>2, DigitsAre
  <2>2. d \in Seq(Nat) /\ o \in Seq(Nat) /\ e \in Seq(Nat)
    BY TextIn
  <2>3. Text(z, v, b) = o \o Reverse(<<r>> \o d) /\ Text(z, q, b) = o \o e
    BY <2>1, Zenon DEF Text
  <2> HIDE DEF d, o
  <2>4. Reverse(<<r>> \o d) = Append(e, r)
    BY <2>2, ReverseCons
  <2> HIDE DEF e
  <2>5. Append(e, r) = e \o <<r>> /\ <<r>> \in Seq(Nat) /\ o \o e \in Seq(Nat)
    BY <2>2, AppendIsConcat
  <2>6. Append(o \o e, r) = (o \o e) \o <<r>> /\ (o \o e) \o <<r>> = o \o (e \o <<r>>)
    BY <2>2, <2>5, AppendIsConcat, ConcatAssociative
  <2> QED BY <2>3, <2>4, <2>5, <2>6, Zenon
<1> QED BY <1>1, <1>2

\* A text in another base is its number's digits there.
LEMMA RebasedText ==
    ASSUME NEW b \in Bases, NEW to \in Bases, NEW z \in Nat
    PROVE  \A v \in Nat : Rebased(Text(z, v, b), b, to) = Normal(v, to)
<1> DEFINE Zero(k) == Rebased(Text(k, 0, b), b, to) = Normal(0, to)
           Is(v) == Rebased(Text(z, v, b), b, to) = Normal(v, to)
<1>1. ASSUME NEW s \in Seq(Nat), NEW q \in Nat, NEW r \in Nat, Rebased(s, b, to) = Normal(q, to)
      PROVE  Rebased(Append(s, r), b, to) = Normal(q * b + r, to)
  <2>1. Rebased(Append(s, r), b, to) = Carry(Normal(q, to), b, to, r)
    BY <1>1, RebasedMore
  <2>2. Carry(Normal(q, to), b, to, r) = Normal(q * b + r, to)
    BY CarryNormal
  <2> QED BY <2>1, <2>2
<1>2. ASSUME NEW k \in Nat PROVE Zero(k)
  <2> DEFINE T == {i \in Nat : Zero(i)}
  <2>1. 0 \in T
    <3>1. Text(0, 0, b) = <<>>
      BY TextMore, ZerosAre
    <3>2. Rebased(<<>>, b, to) = <<0>>
      BY RebasedMore
    <3>3. Zero(0)
      BY <3>1, <3>2, Zenon DEF Normal
    <3> HIDE DEF Zero
    <3> QED BY <3>3
  <2>2. ASSUME NEW i \in Nat, i \in T PROVE i + 1 \in T
    <3>1. Text(i + 1, 0, b) = Append(Text(i, 0, b), 0)
      <4>1. Text(i + 1, 0, b) = Zeros(i + 1) /\ Text(i, 0, b) = Zeros(i)
        BY TextMore
      <4> QED BY <4>1, ZerosAre
    <3>2. Text(i, 0, b) \in Seq(Nat) /\ 0 \in Nat
      BY TextIn
    <3>3. Rebased(Append(Text(i, 0, b), 0), b, to) = Normal(0 * b + 0, to)
      BY <1>1, <2>2, <3>2
    <3>4. 0 * b + 0 = 0
      BY Divides, SMT
    <3>5. Zero(i + 1)
      BY <3>1, <3>3, <3>4, Zenon
    <3> HIDE DEF Zero
    <3> QED BY <3>5
  <2> HIDE DEF T
  <2>3. k \in T
    BY <2>1, <2>2, NatAll
  <2> QED BY <2>3 DEF T
<1> DEFINE T == {k \in Nat : \A v \in Nat : v <= k => Is(v)}
<1>3. 0 \in T
  <2>1. Is(0)
    BY <1>2
  <2> HIDE DEF Is
  <2>2. \A v \in Nat : v <= 0 => v = 0
    OBVIOUS
  <2> QED BY <2>1, <2>2
<1>4. ASSUME NEW k \in Nat, k \in T PROVE k + 1 \in T
  <2> SUFFICES ASSUME NEW v \in Nat, v <= k + 1 PROVE Is(v)
    <3> HIDE DEF Is
    <3> QED OBVIOUS
  <2>1. CASE v = 0
    BY <1>2, <2>1
  <2>2. CASE v # 0
    <3> DEFINE q == v \div b
               r == v % b
    <3>1. q \in Nat /\ r \in Nat /\ v = b * q + r /\ q < v
      <4>1. v > 0
        BY <2>2
      <4>2. v \div b \in Nat /\ v \div b < v /\ v % b \in Nat /\ v = b * (v \div b) + (v % b)
        BY <4>1, DigitsAre, Divides
      <4> QED BY <4>2
    <3>2. Text(z, v, b) = Append(Text(z, q, b), r)
      BY <2>2, <3>1, TextMore
    <3> HIDE DEF q, r
    <3>3. Text(z, q, b) \in Seq(Nat)
      BY <3>1, TextIn
    <3>4. Is(q)
      <4> HIDE DEF Is
      <4> QED BY <1>4, <3>1
    <3>5. Rebased(Append(Text(z, q, b), r), b, to) = Normal(q * b + r, to)
      BY <1>1, <3>1, <3>3, <3>4
    <3>6. q * b + r = v
      BY <3>1, Shifted
    <3> QED BY <3>2, <3>5, <3>6, Zenon
  <2> QED BY <2>1, <2>2
<1>5. ASSUME NEW v \in Nat PROVE Is(v)
  <2>1. v \in T
    <3> HIDE DEF T
    <3> QED BY <1>3, <1>4, NatAll
  <2> HIDE DEF Is
  <2> QED BY <2>1
<1> QED BY <1>5

\* A digit more is a number whose quotient and remainder are known.
LEMMA Recomposed ==
    ASSUME NEW b \in Bases, NEW v \in Nat, NEW r \in 0 .. b - 1
    PROVE  /\ b * v + r \in Nat /\ (b * v + r) \div b = v /\ (b * v + r) % b = r /\ r \in Nat
           /\ b * v + r = 0 <=> v = 0 /\ r = 0
<1>1. CASE b = 58
  BY <1>1, SMT
<1>2. CASE b = 256
  BY <1>2, SMT
<1> QED BY <1>1, <1>2, SMT DEF Bases

\* Every list of digits is zeros and a number.
LEMMA EveryText ==
    ASSUME NEW b \in Bases, NEW s \in Seq(0 .. b - 1)
    PROVE  \E z, v \in Nat : s = Text(z, v, b)
<1> DEFINE B == 0 .. b - 1
           Is(w) == \E z, v \in Nat : w = Text(z, v, b)
           T == {k \in Nat : \A w \in Seq(B) : Len(w) = k => Is(w)}
<1>1. Is(<<>>)
  <2>1. Text(0, 0, b) = <<>> /\ 0 \in Nat
    BY TextMore, ZerosAre
  <2> QED BY <2>1
<1>2. ASSUME NEW z \in Nat, NEW v \in Nat, NEW r \in B PROVE Is(Append(Text(z, v, b), r))
  <2> DEFINE w == b * v + r
  <2>1. w \in Nat /\ w \div b = v /\ w % b = r /\ r \in Nat /\ (w = 0 <=> v = 0 /\ r = 0)
    BY Recomposed
  <2> HIDE DEF w
  <2>2. CASE w = 0
    <3>1. Text(z, 0, b) = Zeros(z) /\ Text(z + 1, 0, b) = Zeros(z + 1) /\ z + 1 \in Nat /\ 0 \in Nat
      BY TextMore
    <3>2. Zeros(z + 1) = Append(Zeros(z), 0)
      BY ZerosAre
    <3>3. Append(Text(z, v, b), r) = Text(z + 1, 0, b)
      BY <2>1, <2>2, <3>1, <3>2, Zenon
    <3> QED BY <3>1, <3>3, Zenon
  <2>3. CASE w # 0
    <3>1. Text(z, w, b) = Append(Text(z, v, b), r)
      BY <2>1, <2>3, TextMore
    <3> QED BY <2>1, <3>1, Zenon
  <2> QED BY <2>2, <2>3
<1> HIDE DEF B
<1>3. 0 \in T
  <2> SUFFICES ASSUME NEW w \in Seq(B), Len(w) = 0 PROVE Is(w)
    <3> HIDE DEF Is
    <3> QED OBVIOUS
  <2>1. w = <<>>
    BY EmptySeq
  <2> QED BY <1>1, <2>1
<1>4. ASSUME NEW k \in Nat, k \in T PROVE k + 1 \in T
  <2> SUFFICES ASSUME NEW w \in Seq(B), Len(w) = k + 1 PROVE Is(w)
    <3> HIDE DEF Is
    <3> QED OBVIOUS
  <2>1. w # <<>>
    BY EmptySeq
  <2>2. PICK u \in Seq(B), r \in B : w = Append(u, r)
    BY <2>1, SequenceEmptyOrAppend
  <2>3. Len(u) = k
    <3>1. Len(w) = Len(u) + 1 /\ Len(u) \in Nat
      BY <2>2, AppendProperties, LenProperties
    <3> QED BY <3>1
  <2>4. Is(u)
    <3> HIDE DEF Is
    <3> QED BY <1>4, <2>3
  <2>5. PICK z \in Nat, v \in Nat : u = Text(z, v, b)
    BY <2>4
  <2>6. Is(Append(Text(z, v, b), r))
    BY <1>2
  <2> QED BY <2>2, <2>5, <2>6, Zenon
<1>5. Len(s) \in T
  <2>1. Len(s) \in Nat
    BY LenProperties
  <2> HIDE DEF T
  <2> QED BY <1>3, <1>4, <2>1, NatAll
<1>6. s \in Seq(B)
  BY DEF B
<1> HIDE DEF Is
<1>7. Is(s)
  BY <1>5, <1>6
<1> QED BY <1>7 DEF Is

\* The zeros a text leads with, and what follows them.
LEMMA TextZeros ==
    ASSUME NEW b \in Bases, NEW z \in Nat, NEW v \in Nat, v # 0
    PROVE  /\ LeadingZeros(Text(z, v, b)) = z
           /\ SubSeq(Text(z, v, b), z + 1, Len(Text(z, v, b))) = Text(0, v, b)
<1> DEFINE o == Zeros(z)
           d == Digits(v, b)
           e == Reverse(d)
           m == Len(d)
           t == o \o e
<1>1. Text(z, v, b) = t /\ Text(0, v, b) = Zeros(0) \o e
  BY Zenon DEF Text
<1>2. o \in Seq(Nat) /\ Len(o) = z /\ (\A i \in 1 .. z : o[i] = 0) /\ Zeros(0) = <<>>
  BY ZerosAre
<1>3. d \in Seq(Nat) /\ m > 0 /\ Last(d) > 0 /\ Last(d) = d[m] /\ m \in Nat
  BY DigitsTop, LenProperties DEF Last
<1> HIDE DEF o, d
<1>4. e \in Seq(Nat) /\ Len(e) = m /\ e[1] = d[m]
  <2>1. e \in Seq(Nat) /\ Len(e) = m /\ \A i \in 1 .. m : e[i] = d[m + 1 - i]
    BY <1>3, ReverseIn
  <2>2. 1 \in 1 .. m /\ m + 1 - 1 = m
    BY <1>3
  <2> HIDE DEF e, m
  <2>3. e[1] = d[m + 1 - 1]
    BY <2>1, <2>2
  <2> QED BY <2>1, <2>2, <2>3
<1> HIDE DEF e, m
<1>5. /\ t \in Seq(Nat) /\ Len(t) = z + m
      /\ \A i \in 1 .. z + m : t[i] = IF i <= z THEN o[i] ELSE e[i - z]
  BY <1>2, <1>4, ConcatProperties
<1> HIDE DEF t
<1>6. (\A i \in 1 .. z : t[i] = 0) /\ t[z + 1] # 0
  <2>1. ASSUME NEW i \in 1 .. z PROVE t[i] = 0
    <3>1. i \in 1 .. z + m /\ i <= z
      BY <1>3
    <3> QED BY <1>2, <1>5, <3>1
  <2> DEFINE k == z + 1
  <2>2. k \in 1 .. z + m /\ ~(k <= z) /\ k - z = 1
    BY <1>3
  <2> HIDE DEF k
  <2>3. t[k] = e[1]
    BY <1>5, <2>2
  <2> QED BY <1>3, <1>4, <2>1, <2>3 DEF k
<1>7. LeadingZeros(t) = z
  <2> DEFINE n == Len(t)
             S == {i \in 1 .. n : \A j \in 1 .. i : t[j] = 0}
  <2>1. n = z + m
    BY <1>5
  <2> HIDE DEF n
  <2>2. S = 1 .. z
    <3>1. ASSUME NEW i \in S PROVE i \in 1 .. z
      <4>1. i \in 1 .. n /\ \A j \in 1 .. i : t[j] = 0
        OBVIOUS
      <4>2. ~(z + 1 \in 1 .. i)
        BY <1>6, <4>1
      <4> QED BY <4>1, <4>2
    <3>2. ASSUME NEW i \in 1 .. z PROVE i \in S
      <4>1. i \in 1 .. n /\ \A j \in 1 .. i : j \in 1 .. z
        BY <1>3, <2>1
      <4> QED BY <1>6, <4>1
    <3> QED BY <3>1, <3>2
  <2>3. Cardinality(1 .. z) = z
    <3>1. Cardinality(1 .. z) = IF 1 > z THEN 0 ELSE z - 1 + 1
      BY FS_Interval
    <3> QED BY <3>1
  <2>4. LeadingZeros(t) = Cardinality(S)
    BY Zenon DEF LeadingZeros, n
  <2> QED BY <2>2, <2>3, <2>4, Zenon
<1>8. SubSeq(t, z + 1, Len(t)) = e
  <2> SUFFICES ASSUME NEW p, NEW q, p = z + 1, q = Len(t) PROVE SubSeq(t, p, q) = e
    OBVIOUS
  <2> DEFINE w == SubSeq(t, p, q)
  <2>1. p \in Int /\ q \in Int /\ q - p + 1 = m /\ p <= q /\ p = z + 1 /\ q = z + m
    BY <1>3, <1>5
  <2>2. \A i \in p .. q : t[i] \in Nat
    <3>1. \A i \in p .. q : i \in 1 .. Len(t)
      BY <1>5, <2>1
    <3> QED BY <1>5, <3>1, ElementOfSeq
  <2>3. w \in Seq(Nat) /\ Len(w) = m /\ \A i \in 1 .. m : w[i] = t[p + i - 1]
    <3>1. /\ w \in Seq(Nat) /\ Len(w) = IF p <= q THEN q - p + 1 ELSE 0
          /\ \A i \in 1 .. q - p + 1 : w[i] = t[p + i - 1]
      BY <2>1, <2>2, SubSeqProperties
    <3> HIDE DEF w
    <3> QED BY <2>1, <3>1
  <2> HIDE DEF w
  <2>4. ASSUME NEW i \in 1 .. m PROVE w[i] = e[i]
    <3> DEFINE k == p + i - 1
    <3>1. k \in 1 .. z + m /\ ~(k <= z) /\ k - z = i
      BY <1>3, <2>1
    <3> HIDE DEF k
    <3>2. t[k] = e[i]
      BY <1>5, <3>1
    <3> QED BY <2>3, <3>2 DEF k
  <2>5. w = e
    BY <1>4, <2>3, <2>4, SeqEqual
  <2> QED BY <2>5 DEF w
<1>9. <<>> \o e = e
  BY <1>4, ConcatEmptySeq
<1> QED BY <1>1, <1>2, <1>7, <1>8, <1>9, Zenon

\* Encoding and decoding, from one base to another and back.
Between(lo, hi) ==
    /\ \A w : Base58Encode(w) = Zeros(LeadingZeros(w)) \o Reverse(Rebased(SubSeq(w, LeadingZeros(w) + 1, Len(w)), hi, lo))
    /\ \A w : Base58Decode(w) = Zeros(LeadingZeros(w)) \o Reverse(Rebased(w, lo, hi))

LEMMA BackAgain ==
    ASSUME NEW lo \in Bases, NEW hi \in Bases, Between(lo, hi), NEW z \in Nat, NEW v \in Nat, v # 0
    PROVE  Base58Decode(Base58Encode(Text(z, v, hi))) = Text(z, v, hi)
<1> DEFINE bytes == Text(z, v, hi)
           text == Text(z, v, lo)
           rest == SubSeq(bytes, z + 1, Len(bytes))
<1>1. LeadingZeros(bytes) = z /\ rest = Text(0, v, hi) /\ LeadingZeros(text) = z
  BY TextZeros
<1>2. Rebased(Text(0, v, hi), hi, lo) = Normal(v, lo) /\ Normal(v, lo) = Digits(v, lo) /\ 0 \in Nat
  BY RebasedText DEF Normal
<1>3. Rebased(text, lo, hi) = Normal(v, hi) /\ Normal(v, hi) = Digits(v, hi)
  BY RebasedText DEF Normal
<1>4. /\ bytes = Zeros(z) \o Reverse(Digits(v, hi)) /\ text = Zeros(z) \o Reverse(Digits(v, lo))
  BY Zenon DEF Text
<1> HIDE DEF bytes, text
<1>5. Base58Encode(bytes) = text
  <2>1. \A k : k = LeadingZeros(bytes) =>
            Base58Encode(bytes) = Zeros(k) \o Reverse(Rebased(SubSeq(bytes, k + 1, Len(bytes)), hi, lo))
    BY Zenon DEF Between
  <2>2. Base58Encode(bytes) = Zeros(z) \o Reverse(Rebased(rest, hi, lo))
    BY <1>1, <2>1, Zenon
  <2> HIDE DEF rest
  <2> QED BY <1>1, <1>2, <1>4, <2>2, Zenon
<1>6. Base58Decode(text) = bytes
  <2>1. Base58Decode(text) = Zeros(LeadingZeros(text)) \o Reverse(Rebased(text, lo, hi))
    BY Zenon DEF Between
  <2> QED BY <1>1, <1>3, <1>4, <2>1, Zenon
<1> QED BY <1>5, <1>6, Zenon DEF bytes

\* What base58 encodes, it decodes, unless it is nothing but zeros.
LEMMA Base58Read ==
    ASSUME NEW high, high = 256, NEW z \in Nat, NEW v \in Nat, v # 0
    PROVE  Base58Decode(Base58Encode(Text(z, v, high))) = Text(z, v, high)
<1> SUFFICES ASSUME NEW low, low = 58 PROVE Base58Decode(Base58Encode(Text(z, v, high))) = Text(z, v, high)
  OBVIOUS
<1>1. low \in Bases /\ high \in Bases
  BY SMT DEF Bases
<1>2. Between(low, high)
  <2>1. ASSUME NEW w PROVE Base58Encode(w) = Zeros(LeadingZeros(w)) \o Reverse(Rebased(SubSeq(w, LeadingZeros(w) + 1, Len(w)), high, low))
    BY SMT DEF Base58Encode
  <2>2. ASSUME NEW w PROVE Base58Decode(w) = Zeros(LeadingZeros(w)) \o Reverse(Rebased(w, low, high))
    BY SMT DEF Base58Decode
  <2> QED BY <2>1, <2>2 DEF Between
<1> QED BY <1>1, <1>2, BackAgain

-----------------------------------------------------------------------------
(* Groups of bits *)

\* The powers of two that groups are cut with.
LEMMA PowersAre ==
    /\ TwoTo(0) = 1 /\ TwoTo(1) = 2 /\ TwoTo(2) = 4 /\ TwoTo(3) = 8 /\ TwoTo(4) = 16 /\ TwoTo(5) = 32
    /\ TwoTo(6) = 64 /\ TwoTo(7) = 128 /\ TwoTo(8) = 256
    /\ \A p \in 0 .. 8 : TwoTo(p) \in Nat \ {0}
<1>1. /\ TwoTo(0) = 1 /\ TwoTo(1) = 2 /\ TwoTo(2) = 4 /\ TwoTo(3) = 8 /\ TwoTo(4) = 16 /\ TwoTo(5) = 32
      /\ TwoTo(6) = 64 /\ TwoTo(7) = 128 /\ TwoTo(8) = 256
  BY SMT DEF TwoTo
<1>2. \A p \in 0 .. 8 : p = 0 \/ p = 1 \/ p = 2 \/ p = 3 \/ p = 4 \/ p = 5 \/ p = 6 \/ p = 7 \/ p = 8
  BY SMT
<1> QED BY <1>1, <1>2, SMT

\* Each step takes none, one or two groups off.
Groups(value, n, p, to) == [g \in 1 .. n |-> (value \div TwoTo(p + (n - g) * to)) % TwoTo(to)]

LEMMA GroupsAre ==
    ASSUME NEW value, NEW p \in Nat, NEW to \in Nat
    PROVE  /\ Groups(value, 0, p, to) = <<>>
           /\ Groups(value, 1, p, to) = <<(value \div TwoTo(p)) % TwoTo(to)>>
           /\ Groups(value, 2, p, to) = <<(value \div TwoTo(p + to)) % TwoTo(to), (value \div TwoTo(p)) % TwoTo(to)>>
<1> DEFINE G(e) == (value \div TwoTo(e)) % TwoTo(to)
<1>1. \A n : Groups(value, n, p, to) = [g \in 1 .. n |-> G(p + (n - g) * to)]
  BY Zenon DEF Groups
<1>2. p + (1 - 1) * to = p /\ p + (2 - 1) * to = p + to /\ p + (2 - 2) * to = p
  BY SMT
<1> HIDE DEF G
<1>3. Groups(value, 0, p, to) = <<>>
  BY <1>1, SMT
<1> DEFINE S == {G(p), G(p + to)}
<1>4. Groups(value, 1, p, to) = <<G(p)>>
  <2> DEFINE f == Groups(value, 1, p, to)
  <2>1. f = [g \in 1 .. 1 |-> G(p + (1 - g) * to)]
    BY <1>1, Zenon
  <2>2. \A g \in 1 .. 1 : g = 1
    BY SMT
  <2>3. f \in [1 .. 1 -> S] /\ f[1] = G(p)
    <3> HIDE DEF f
    <3> QED BY <1>2, <2>1, <2>2, SMT
  <2> HIDE DEF f
  <2>4. f \in Seq(S) /\ Len(f) = 1
    <3>1. 1 \in Nat
      BY SMT
    <3> QED BY <2>3, <3>1, ListOf
  <2> DEFINE w == <<G(p)>>
  <2>5. w \in Seq(S) /\ Len(w) = 1 /\ w[1] = G(p)
    BY SMT
  <2> HIDE DEF w, S
  <2>6. f = w
    BY <2>2, <2>3, <2>4, <2>5, SeqEqual
  <2> QED BY <2>6 DEF f, w
<1>5. Groups(value, 2, p, to) = <<G(p + to), G(p)>>
  <2> DEFINE f == Groups(value, 2, p, to)
  <2>1. f = [g \in 1 .. 2 |-> G(p + (2 - g) * to)]
    BY <1>1, Zenon
  <2>2. \A g \in 1 .. 2 : g = 1 \/ g = 2
    BY SMT
  <2>3. f \in [1 .. 2 -> S] /\ f[1] = G(p + to) /\ f[2] = G(p)
    <3> HIDE DEF f
    <3> QED BY <1>2, <2>1, <2>2, SMT
  <2> HIDE DEF f
  <2>4. f \in Seq(S) /\ Len(f) = 2
    <3>1. 2 \in Nat
      BY SMT
    <3> QED BY <2>3, <3>1, ListOf
  <2> DEFINE w == <<G(p + to), G(p)>>
  <2>5. w \in Seq(S) /\ Len(w) = 2 /\ w[1] = G(p + to) /\ w[2] = G(p)
    BY SMT
  <2> HIDE DEF w, S
  <2>6. f = w
    BY <2>2, <2>3, <2>4, <2>5, SeqEqual
  <2> QED BY <2>6 DEF f, w
<1> QED BY <1>3, <1>4, <1>5, Zenon DEF G

\* A step, from how many groups it takes off and how many bits it keeps.
Value(acc, d, from) == acc.rest * TwoTo(from) + d
Taking(acc, d, from, to, n, p) ==
    [out |-> acc.out \o Groups(Value(acc, d, from), n, p, to), rest |-> Value(acc, d, from) % TwoTo(p), bits |-> p]

LEMMA TakenIs ==
    ASSUME NEW acc, NEW d, NEW from, NEW to, NEW n, NEW p, n = (acc.bits + from) \div to, p = (acc.bits + from) % to
    PROVE  TakenBits(acc, d, from, to) = Taking(acc, d, from, to, n, p)
BY Zenon DEF TakenBits, Taking, Groups, Value

Regroups == {<<8, 5>>, <<5, 8>>}
States(to) == [out : Seq(Nat), rest : Nat, bits : 0 .. to - 1]

\* What is left between two steps is less than a group.
LEMMA TakenIn ==
    ASSUME NEW from, NEW to, <<from, to>> \in Regroups, NEW acc \in States(to), NEW d \in Nat
    PROVE  TakenBits(acc, d, from, to) \in States(to)
<1> DEFINE n == (acc.bits + from) \div to
           p == (acc.bits + from) % to
           v == Value(acc, d, from)
<1>1. acc.bits \in 0 .. to - 1 /\ acc.rest \in Nat /\ acc.out \in Seq(Nat)
  BY SMT DEF States
<1>2. (from = 8 /\ to = 5) \/ (from = 5 /\ to = 8)
  BY SMT DEF Regroups
<1>3. p \in 0 .. to - 1 /\ n \in 0 .. 2 /\ p + to * n <= 12 /\ p \in Nat /\ to \in 0 .. 8 /\ from \in 0 .. 8
  <2>1. CASE from = 8 /\ to = 5
    BY <1>1, <2>1, SMT
  <2>2. CASE from = 5 /\ to = 8
    BY <1>1, <2>2, SMT
  <2> QED BY <1>2, <2>1, <2>2
<1>4. TakenBits(acc, d, from, to) = Taking(acc, d, from, to, n, p)
  BY TakenIs, Zenon
<1> HIDE DEF n, p
<1>5. p \in 0 .. 8 /\ (n = 2 => p + to \in 0 .. 8)
  BY <1>2, <1>3, SMT
<1>6. TwoTo(p) \in Nat \ {0} /\ TwoTo(to) \in Nat \ {0} /\ TwoTo(from) \in Nat \ {0} /\ (n = 2 => TwoTo(p + to) \in Nat \ {0})
  BY <1>3, <1>5, PowersAre, Zenon
<1>7. \A x \in Nat, y \in Nat \ {0} : x \div y \in Nat /\ x % y \in Nat
  BY SMT
<1>8. v \in Nat
  <2>1. \A x, y, z \in Nat : x * y + z \in Nat
    BY SMT
  <2> QED BY <1>1, <1>6, <2>1 DEF Value
<1> HIDE DEF v
<1> DEFINE w == Groups(v, n, p, to)
<1>9. w \in Seq(Nat)
  <2>1. n = 0 \/ n = 1 \/ n = 2
    BY <1>3, SMT
  <2>2. to \in Nat
    BY <1>2, SMT
  <2> DEFINE x == (v \div TwoTo(p)) % TwoTo(to)
             y == (v \div TwoTo(p + to)) % TwoTo(to)
  <2>3. /\ Groups(v, 0, p, to) = <<>> /\ Groups(v, 1, p, to) = <<x>> /\ Groups(v, 2, p, to) = <<y, x>>
    BY <1>3, <2>2, GroupsAre
  <2>4. x \in Nat
    BY <1>6, <1>7, <1>8, Zenon
  <2>5. n = 2 => y \in Nat
    BY <1>6, <1>7, <1>8, Zenon
  <2> HIDE DEF x, y
  <2>6. <<>> \in Seq(Nat) /\ <<x>> \in Seq(Nat) /\ (n = 2 => <<y, x>> \in Seq(Nat))
    BY <2>4, <2>5
  <2> QED BY <2>1, <2>3, <2>6, Zenon
<1> DEFINE r == v % TwoTo(p)
<1>10. r \in Nat
  BY <1>6, <1>7, <1>8, Zenon
<1>11. TakenBits(acc, d, from, to) = [out |-> acc.out \o w, rest |-> r, bits |-> p]
  BY <1>4, Zenon DEF Taking, v
<1> HIDE DEF w, r
<1>12. acc.out \o w \in Seq(Nat)
  BY <1>1, <1>9, ConcatProperties
<1> DEFINE o == acc.out \o w
<1> HIDE DEF o
<1>13. [out |-> o, rest |-> r, bits |-> p] \in States(to)
  BY <1>3, <1>10, <1>12 DEF States, o
<1> QED BY <1>11, <1>13, Zenon DEF o

\* The groups are taken off one element after the other.
Takes(g, s, from, to) ==
    /\ g \in [0 .. Len(s) -> States(to)] /\ g[0] = [out |-> <<>>, rest |-> 0, bits |-> 0]
    /\ \A i \in 1 .. Len(s) : g[i] = TakenBits(g[i - 1], s[i], from, to)

LEMMA RegroupedRun ==
    ASSUME NEW s \in Seq(Nat), NEW from, NEW to, <<from, to>> \in Regroups
    PROVE  \E g : Takes(g, s, from, to) /\ Regrouped(s, from, to) = g[Len(s)]
<1> SUFFICES ASSUME NEW n, n = Len(s) PROVE \E g : Takes(g, s, from, to) /\ Regrouped(s, from, to) = g[Len(s)]
  BY Zenon
<1> DEFINE W == States(to)
           st(i, v) == TakenBits(v, s[i], from, to)
           in(i, v) == TakenBits(v, s[i], from, to)
           step == [p \in (1 .. n) \X W |-> st(p[1], p[2])]
           Eq(h) == h = [u \in SUBSET DOMAIN s |-> IF u = {} THEN [out |-> <<>>, rest |-> 0, bits |-> 0] ELSE TakenBits(h[u \ {Max(u)}], s[Max(u)], from, to)]
           Fun(h) == h = [u \in SUBSET DOMAIN s |-> IF u = {} THEN [out |-> <<>>, rest |-> 0, bits |-> 0] ELSE in(Max(u), h[u \ {Max(u)}])]
<1>1. n \in Nat /\ DOMAIN s = 1 .. n /\ [out |-> <<>>, rest |-> 0, bits |-> 0] \in W
  <2>1. to - 1 \in Nat
    BY SMT DEF Regroups
  <2> QED BY <2>1 DEF States
<1>2. ASSUME NEW i \in 1 .. n, NEW v \in W PROVE st(i, v) \in W /\ in(i, v) = st(i, v)
  <2>1. s[i] \in Nat
    OBVIOUS
  <2> DEFINE d == s[i]
  <2> HIDE DEF d
  <2>2. TakenBits(v, d, from, to) \in States(to)
    BY <2>1, TakenIn DEF d
  <2> QED BY <2>2 DEF d
<1>3. ASSUME NEW h PROVE Eq(h) <=> Fun(h)
  BY Zenon
<1>4. Regrouped(s, from, to) = (CHOOSE h : Eq(h))[DOMAIN s]
  BY Zenon DEF Regrouped, FoldLeft, MapThenFoldSet
<1> HIDE DEF W, st, in
<1>5. step \in [(1 .. n) \X W -> W] /\ \A i \in 1 .. n : \A v \in W : step[<<i, v>>] = st(i, v)
  BY <1>2
<1> HIDE DEF step
<1>6. PICK g : /\ Run(g, n, W, step, [out |-> <<>>, rest |-> 0, bits |-> 0])
               /\ \E G \in [SUBSET (1 .. n) -> W] : OverPlaces(G, n, step, [out |-> <<>>, rest |-> 0, bits |-> 0])
               /\ \A H : GoesOn(H, n, W, step, [out |-> <<>>, rest |-> 0, bits |-> 0]) => H[1 .. n] = g[n]
  <2>1. step \in [(1 .. n) \X W -> W]
    BY <1>5
  <2>2. HasRun(n, W, step, [out |-> <<>>, rest |-> 0, bits |-> 0])
    BY <1>1, <2>1, RunExists, Zenon
  <2> QED BY <2>2, Zenon DEF HasRun
<1>7. PICK G \in [SUBSET (1 .. n) -> W] : OverPlaces(G, n, step, [out |-> <<>>, rest |-> 0, bits |-> 0])
  BY <1>6
<1>8. ASSUME NEW u \in SUBSET (1 .. n), u # {}
      PROVE  Max(u) \in 1 .. n /\ u \ {Max(u)} \in SUBSET (1 .. n)
  BY <1>1, <1>8, MaxOf
<1>9. Fun(G)
  <2>1. ASSUME NEW u \in SUBSET (1 .. n), u # {} PROVE step[<<Max(u), G[u \ {Max(u)}]>>] = in(Max(u), G[u \ {Max(u)}])
    <3>1. Max(u) \in 1 .. n /\ G[u \ {Max(u)}] \in W
      BY <1>8, <2>1
    <3>2. step[<<Max(u), G[u \ {Max(u)}]>>] = st(Max(u), G[u \ {Max(u)}])
      BY <1>5, <3>1, Zenon
    <3>3. in(Max(u), G[u \ {Max(u)}]) = st(Max(u), G[u \ {Max(u)}])
      BY <1>2, <3>1, Zenon
    <3> QED BY <3>2, <3>3
  <2>2. G = [u \in SUBSET (1 .. n) |-> IF u = {} THEN [out |-> <<>>, rest |-> 0, bits |-> 0] ELSE step[<<Max(u), G[u \ {Max(u)}]>>]]
    BY <1>7, Zenon DEF OverPlaces
  <2>3. \A u \in SUBSET (1 .. n) : G[u] = IF u = {} THEN [out |-> <<>>, rest |-> 0, bits |-> 0] ELSE in(Max(u), G[u \ {Max(u)}])
    BY <2>1, <2>2
  <2> QED BY <1>1, <2>3
<1> DEFINE F == CHOOSE h : Eq(h)
<1> HIDE DEF Eq
<1>10. Fun(F)
  BY <1>3, <1>9, Zenon
<1> HIDE DEF F
<1>11. GoesOn(F, n, W, step, [out |-> <<>>, rest |-> 0, bits |-> 0])
  <2>1. F[{}] = [out |-> <<>>, rest |-> 0, bits |-> 0]
    BY <1>1, <1>10
  <2>2. ASSUME NEW u \in SUBSET (1 .. n), u # {}, F[u \ {Max(u)}] \in W
        PROVE  F[u] = step[<<Max(u), F[u \ {Max(u)}]>>]
    <3>1. F[u] = in(Max(u), F[u \ {Max(u)}])
      BY <1>1, <1>10, <2>2
    <3>2. Max(u) \in 1 .. n
      BY <1>8, <2>2
    <3>3. step[<<Max(u), F[u \ {Max(u)}]>>] = st(Max(u), F[u \ {Max(u)}])
      BY <1>5, <2>2, <3>2, Zenon
    <3>4. in(Max(u), F[u \ {Max(u)}]) = st(Max(u), F[u \ {Max(u)}])
      BY <1>2, <2>2, <3>2, Zenon
    <3> QED BY <3>1, <3>3, <3>4
  <2> QED BY <2>1, <2>2 DEF GoesOn
<1>12. F[DOMAIN s] = g[n]
  BY <1>1, <1>6, <1>11
<1>13. Regrouped(s, from, to) = g[n]
  BY <1>4, <1>12, Zenon DEF F
<1>14. g \in [0 .. n -> W] /\ g[0] = [out |-> <<>>, rest |-> 0, bits |-> 0] /\ \A i \in 1 .. n : g[i] = st(i, g[i - 1])
  <2>1. g \in [0 .. n -> W] /\ g[0] = [out |-> <<>>, rest |-> 0, bits |-> 0] /\ \A i \in 1 .. n : g[i] = step[<<i, g[i - 1]>>]
    BY <1>6, Zenon DEF Run
  <2>2. ASSUME NEW i \in 1 .. n PROVE g[i] = st(i, g[i - 1])
    <3>1. i - 1 \in 0 .. n
      BY <1>1
    <3>2. g[i - 1] \in W
      BY <2>1, <3>1, Zenon
    <3>3. step[<<i, g[i - 1]>>] = st(i, g[i - 1])
      BY <1>5, <3>2, Zenon
    <3> QED BY <2>1, <3>3
  <2> QED BY <2>1, <2>2
<1>15. Takes(g, s, from, to)
  BY <1>14, Zenon DEF W, st, Takes
<1> QED BY <1>13, <1>15, Zenon

\* One more element to regroup.
LEMMA RegroupedMore ==
    ASSUME NEW from, NEW to, <<from, to>> \in Regroups
    PROVE  /\ Regrouped(<<>>, from, to) = [out |-> <<>>, rest |-> 0, bits |-> 0]
           /\ \A s \in Seq(Nat), d \in Nat :
                  /\ Regrouped(Append(s, d), from, to) = TakenBits(Regrouped(s, from, to), d, from, to)
                  /\ Regrouped(s, from, to) \in States(to)
<1> DEFINE start == [out |-> <<>>, rest |-> 0, bits |-> 0]
<1>1. Regrouped(<<>>, from, to) = start
  <2>1. <<>> \in Seq(Nat) /\ Len(<<>>) = 0
    OBVIOUS
  <2>2. PICK g : Takes(g, <<>>, from, to) /\ Regrouped(<<>>, from, to) = g[Len(<<>>)]
    BY <2>1, RegroupedRun
  <2> QED BY <2>1, <2>2, Zenon DEF Takes
<1>2. ASSUME NEW s \in Seq(Nat), NEW d \in Nat
      PROVE  /\ Regrouped(Append(s, d), from, to) = TakenBits(Regrouped(s, from, to), d, from, to)
             /\ Regrouped(s, from, to) \in States(to)
  <2> DEFINE t == Append(s, d)
             n == Len(s)
  <2>1. /\ t \in Seq(Nat) /\ Len(t) = n + 1 /\ n \in Nat
        /\ t[n + 1] = d /\ \A i \in 1 .. n : t[i] = s[i]
    BY AppendProperties, LenProperties
  <2> HIDE DEF t
  <2>2. PICK g : Takes(g, s, from, to) /\ Regrouped(s, from, to) = g[n]
    BY RegroupedRun
  <2>3. PICK h : Takes(h, t, from, to) /\ Regrouped(t, from, to) = h[Len(t)]
    BY <2>1, RegroupedRun
  <2>4. /\ g \in [0 .. n -> States(to)] /\ g[0] = start
        /\ \A i \in 1 .. n : g[i] = TakenBits(g[i - 1], s[i], from, to)
    BY <2>2, Zenon DEF Takes
  <2>5. h[0] = start /\ \A i \in 1 .. Len(t) : h[i] = TakenBits(h[i - 1], t[i], from, to)
    BY <2>3, Zenon DEF Takes
  <2> HIDE DEF start
  <2>6. StepsAlike(g, h, n)
    <3>1. ASSUME NEW i \in 1 .. n, g[i - 1] = h[i - 1] PROVE g[i] = h[i]
      <4>1. i \in 1 .. Len(t)
        BY <2>1
      <4> QED BY <2>1, <2>4, <2>5, <3>1, <4>1
    <3> QED BY <2>4, <2>5, <3>1, Zenon DEF StepsAlike
  <2>7. n \in 0 .. n
    BY <2>1
  <2>8. g[n] = h[n]
    BY <2>1, <2>6, <2>7, RunsAlike
  <2>9. h[n + 1] = TakenBits(h[n], d, from, to)
    <3> DEFINE k == n + 1
    <3>1. k \in 1 .. Len(t) /\ k - 1 = n /\ t[k] = d
      BY <2>1
    <3> HIDE DEF k
    <3>2. h[k] = TakenBits(h[k - 1], t[k], from, to)
      BY <2>5, <3>1
    <3> QED BY <3>1, <3>2 DEF k
  <2>10. g[n] \in States(to)
    BY <2>4, <2>7, Zenon
  <2> QED BY <2>1, <2>2, <2>3, <2>8, <2>9, <2>10 DEF t
<1> QED BY <1>1, <1>2

\* Where a regrouping stands, and what a step makes of it.
St(o, r, k) == [out |-> o, rest |-> r, bits |-> k]

TakesOff(from, to, o, r, k, d, n, p, x) ==
    /\ n = 0 => TakenBits(St(o, r, k), d, from, to) = St(o, x % TwoTo(p), p)
    /\ n = 1 => TakenBits(St(o, r, k), d, from, to) = St(Append(o, (x \div TwoTo(p)) % TwoTo(to)), x % TwoTo(p), p)
    /\ n = 2 => TakenBits(St(o, r, k), d, from, to) =
                    St(Append(Append(o, (x \div TwoTo(p + to)) % TwoTo(to)), (x \div TwoTo(p)) % TwoTo(to)),
                       x % TwoTo(p), p)

LEMMA Takes3 ==
    ASSUME NEW from, NEW to, <<from, to>> \in Regroups, NEW o \in Seq(Nat), NEW r \in Nat, NEW k \in Nat,
           NEW d \in Nat, NEW n, NEW p, n = (k + from) \div to, p = (k + from) % to,
           NEW x, x = r * TwoTo(from) + d
    PROVE  TakesOff(from, to, o, r, k, d, n, p, x)
<1> DEFINE acc == St(o, r, k)
           g == (x \div TwoTo(p)) % TwoTo(to)
           h == (x \div TwoTo(p + to)) % TwoTo(to)
           y == x % TwoTo(p)
<1>1. acc.out = o /\ acc.rest = r /\ acc.bits = k
  BY DEF St
<1>2. TakenBits(acc, d, from, to) = Taking(acc, d, from, to, n, p)
  <2>1. n = (acc.bits + from) \div to /\ p = (acc.bits + from) % to
    BY <1>1, Zenon
  <2> HIDE DEF acc
  <2> QED BY <2>1, TakenIs, Zenon
<1>3. Value(acc, d, from) = x
  BY <1>1, Zenon DEF Value
<1>4. Taking(acc, d, from, to, n, p) = [out |-> o \o Groups(x, n, p, to), rest |-> y, bits |-> p]
  BY <1>1, <1>3, Zenon DEF Taking
<1>5. p \in Nat /\ to \in Nat
  <2>1. CASE from = 8 /\ to = 5
    BY <2>1, SMT
  <2>2. CASE from = 5 /\ to = 8
    BY <2>2, SMT
  <2> QED BY <2>1, <2>2, SMT DEF Regroups
<1>6. Groups(x, 0, p, to) = <<>> /\ Groups(x, 1, p, to) = <<g>> /\ Groups(x, 2, p, to) = <<h, g>>
  BY <1>5, GroupsAre
<1> HIDE DEF g, h, y
<1>7. TakenBits(acc, d, from, to) = St(o \o Groups(x, n, p, to), y, p)
  BY <1>2, <1>4, Zenon DEF St
<1>8. o \o <<>> = o /\ o \o <<g>> = Append(o, g) /\ o \o <<h, g>> = Append(Append(o, h), g)
  <2> SUFFICES ASSUME NEW S, S = Nat \union {g, h} PROVE o \o <<>> = o /\ o \o <<g>> = Append(o, g) /\ o \o <<h, g>> = Append(Append(o, h), g)
    OBVIOUS
  <2>1. g \in S /\ h \in S /\ Nat \subseteq S
    OBVIOUS
  <2>2. o \in Seq(S)
    BY <2>1, SeqMonotonic
  <2>3. <<g>> \in Seq(S) /\ <<h>> \in Seq(S) /\ Append(o, h) \in Seq(S) /\ <<h>> \o <<g>> = <<h, g>>
    <3>1. <<g>> \in Seq(S) /\ <<h>> \in Seq(S) /\ <<h>> \o <<g>> = <<h, g>>
      <4>1. <<g>> \in Seq(S) /\ <<h>> \in Seq(S) /\ Len(<<h>>) = 1 /\ <<h>>[1] = h
        BY <2>1
      <4>2. <<h, g>> \in Seq(S) /\ <<h, g>> = Append(<<h>>, g)
        BY <2>1
      <4>3. Append(<<h>>, g) = <<h>> \o <<g>>
        BY <2>1, <4>1, AppendIsConcat
      <4> QED BY <4>1, <4>2, <4>3, Zenon
    <3> QED BY <2>1, <2>2, <3>1, AppendProperties
  <2>4. Append(o, g) = o \o <<g>> /\ Append(o, h) = o \o <<h>> /\ Append(Append(o, h), g) = Append(o, h) \o <<g>>
    BY <2>1, <2>2, <2>3, AppendIsConcat
  <2>5. (o \o <<h>>) \o <<g>> = o \o (<<h>> \o <<g>>)
    BY <2>2, <2>3, ConcatAssociative
  <2>6. o \o <<>> = o
    BY <2>2, ConcatEmptySeq
  <2> QED BY <2>3, <2>4, <2>5, <2>6, Zenon
<1>9. n = 0 => TakenBits(acc, d, from, to) = St(o, y, p)
  BY <1>6, <1>7, <1>8, Zenon
<1>10. n = 1 => TakenBits(acc, d, from, to) = St(Append(o, g), y, p)
  BY <1>6, <1>7, <1>8, Zenon
<1>11. n = 2 => TakenBits(acc, d, from, to) = St(Append(Append(o, h), g), y, p)
  BY <1>6, <1>7, <1>8, Zenon
<1> QED BY <1>9, <1>10, <1>11, Zenon DEF g, h, y, TakesOff

\* Eight bits more, in groups of five.
Encodes(o, r, d, x) ==
    /\ TakenBits(St(o, r, 0), d, 8, 5) = St(Append(o, (x \div TwoTo(3)) % TwoTo(5)), x % TwoTo(3), 3)
    /\ TakenBits(St(o, r, 1), d, 8, 5) = St(Append(o, (x \div TwoTo(4)) % TwoTo(5)), x % TwoTo(4), 4)
    /\ TakenBits(St(o, r, 2), d, 8, 5) =
           St(Append(Append(o, (x \div TwoTo(5)) % TwoTo(5)), (x \div TwoTo(0)) % TwoTo(5)), x % TwoTo(0), 0)
    /\ TakenBits(St(o, r, 3), d, 8, 5) =
           St(Append(Append(o, (x \div TwoTo(6)) % TwoTo(5)), (x \div TwoTo(1)) % TwoTo(5)), x % TwoTo(1), 1)
    /\ TakenBits(St(o, r, 4), d, 8, 5) =
           St(Append(Append(o, (x \div TwoTo(7)) % TwoTo(5)), (x \div TwoTo(2)) % TwoTo(5)), x % TwoTo(2), 2)

LEMMA EncodesIs ==
    ASSUME NEW o \in Seq(Nat), NEW r \in Nat, NEW d \in Nat, NEW x \in Nat, x = r * TwoTo(8) + d
    PROVE  Encodes(o, r, d, x)
<1> DEFINE Is(k, n, p) == TakesOff(8, 5, o, r, k, d, n, p, x)
<1>1. <<8, 5>> \in Regroups
  BY SMT DEF Regroups
<1>2. ASSUME NEW k \in Nat, NEW n, NEW p, n = (k + 8) \div 5, p = (k + 8) % 5 PROVE Is(k, n, p)
  BY <1>1, <1>2, Takes3
<1>3. /\ 1 = (0 + 8) \div 5 /\ 3 = (0 + 8) % 5 /\ 1 = (1 + 8) \div 5 /\ 4 = (1 + 8) % 5
      /\ 2 = (2 + 8) \div 5 /\ 0 = (2 + 8) % 5 /\ 2 = (3 + 8) \div 5 /\ 1 = (3 + 8) % 5
      /\ 2 = (4 + 8) \div 5 /\ 2 = (4 + 8) % 5 /\ 0 \in Nat /\ 1 \in Nat /\ 2 \in Nat /\ 3 \in Nat /\ 4 \in Nat
  BY SMT
<1>4. Is(0, 1, 3) /\ Is(1, 1, 4) /\ Is(2, 2, 0) /\ Is(3, 2, 1) /\ Is(4, 2, 2)
  <2> HIDE DEF Is
  <2> QED BY <1>2, <1>3
<1>5. 0 + 5 = 5 /\ 1 + 5 = 6 /\ 2 + 5 = 7
  BY SMT
<1>6. /\ TakenBits(St(o, r, 0), d, 8, 5) = St(Append(o, (x \div TwoTo(3)) % TwoTo(5)), x % TwoTo(3), 3)
      /\ TakenBits(St(o, r, 1), d, 8, 5) = St(Append(o, (x \div TwoTo(4)) % TwoTo(5)), x % TwoTo(4), 4)
  BY <1>4, Zenon DEF TakesOff
<1>7. TakenBits(St(o, r, 2), d, 8, 5) =
          St(Append(Append(o, (x \div TwoTo(5)) % TwoTo(5)), (x \div TwoTo(0)) % TwoTo(5)), x % TwoTo(0), 0)
  BY <1>4, <1>5, Zenon DEF TakesOff
<1>8. TakenBits(St(o, r, 3), d, 8, 5) =
          St(Append(Append(o, (x \div TwoTo(6)) % TwoTo(5)), (x \div TwoTo(1)) % TwoTo(5)), x % TwoTo(1), 1)
  BY <1>4, <1>5, Zenon DEF TakesOff
<1>9. TakenBits(St(o, r, 4), d, 8, 5) =
          St(Append(Append(o, (x \div TwoTo(7)) % TwoTo(5)), (x \div TwoTo(2)) % TwoTo(5)), x % TwoTo(2), 2)
  BY <1>4, <1>5, Zenon DEF TakesOff
<1> QED BY <1>6, <1>7, <1>8, <1>9, Zenon DEF Encodes

\* Five bits more, in groups of eight.
Decodes(o, r, d, x) ==
    /\ TakenBits(St(o, r, 0), d, 5, 8) = St(o, x % TwoTo(5), 5)
    /\ TakenBits(St(o, r, 1), d, 5, 8) = St(o, x % TwoTo(6), 6)
    /\ TakenBits(St(o, r, 2), d, 5, 8) = St(o, x % TwoTo(7), 7)
    /\ TakenBits(St(o, r, 3), d, 5, 8) = St(Append(o, (x \div TwoTo(0)) % TwoTo(8)), x % TwoTo(0), 0)
    /\ TakenBits(St(o, r, 4), d, 5, 8) = St(Append(o, (x \div TwoTo(1)) % TwoTo(8)), x % TwoTo(1), 1)
    /\ TakenBits(St(o, r, 5), d, 5, 8) = St(Append(o, (x \div TwoTo(2)) % TwoTo(8)), x % TwoTo(2), 2)
    /\ TakenBits(St(o, r, 6), d, 5, 8) = St(Append(o, (x \div TwoTo(3)) % TwoTo(8)), x % TwoTo(3), 3)
    /\ TakenBits(St(o, r, 7), d, 5, 8) = St(Append(o, (x \div TwoTo(4)) % TwoTo(8)), x % TwoTo(4), 4)

LEMMA DecodesIs ==
    ASSUME NEW o \in Seq(Nat), NEW r \in Nat, NEW d \in Nat, NEW x \in Nat, x = r * TwoTo(5) + d
    PROVE  Decodes(o, r, d, x)
<1> DEFINE Is(k, n, p) == TakesOff(5, 8, o, r, k, d, n, p, x)
<1>1. <<5, 8>> \in Regroups
  BY SMT DEF Regroups
<1>2. ASSUME NEW k \in Nat, NEW n, NEW p, n = (k + 5) \div 8, p = (k + 5) % 8 PROVE Is(k, n, p)
  BY <1>1, <1>2, Takes3
<1>3. /\ 0 = (0 + 5) \div 8 /\ 5 = (0 + 5) % 8 /\ 0 = (1 + 5) \div 8 /\ 6 = (1 + 5) % 8
      /\ 0 = (2 + 5) \div 8 /\ 7 = (2 + 5) % 8 /\ 1 = (3 + 5) \div 8 /\ 0 = (3 + 5) % 8
      /\ 1 = (4 + 5) \div 8 /\ 1 = (4 + 5) % 8 /\ 1 = (5 + 5) \div 8 /\ 2 = (5 + 5) % 8
      /\ 1 = (6 + 5) \div 8 /\ 3 = (6 + 5) % 8 /\ 1 = (7 + 5) \div 8 /\ 4 = (7 + 5) % 8
      /\ 0 \in Nat /\ 1 \in Nat /\ 2 \in Nat /\ 3 \in Nat /\ 4 \in Nat /\ 5 \in Nat /\ 6 \in Nat /\ 7 \in Nat
  BY SMT
<1>4. /\ Is(0, 0, 5) /\ Is(1, 0, 6) /\ Is(2, 0, 7) /\ Is(3, 1, 0)
      /\ Is(4, 1, 1) /\ Is(5, 1, 2) /\ Is(6, 1, 3) /\ Is(7, 1, 4)
  <2> HIDE DEF Is
  <2> QED BY <1>2, <1>3
<1> QED BY <1>4, Zenon DEF Decodes, TakesOff

\* The arithmetic of two bytes, by how many bits of the first are left over: the groups
\* that are taken off, and what the groups before and after them say.
Given1(q, r, u, w, d, x, g, y) ==
    /\ q \in Nat /\ r \in Nat /\ u \in Nat /\ w \in Nat /\ q < 128 /\ r < 2 /\ u < 16 /\ w < 16
    /\ d = 16 * u + w /\ x = r * 256 + d /\ g = (x \div 16) % 32 /\ y = q * 32 + g

LEMMA Num1 ==
    ASSUME NEW q, NEW r, NEW u, NEW w, NEW d, NEW x, NEW g, NEW y, Given1(q, r, u, w, d, x, g, y)
    PROVE  x \in Nat /\ g \in Nat /\ y \in Nat /\ x % 16 = w /\ y % 16 = u /\ (y \div 16) % 256 = 2 * q + r
<1> USE DEF Given1
<1>1. x = 16 * (16 * r + u) + w
  OBVIOUS
<1>2. x \div 16 = 16 * r + u /\ x % 16 = w
  BY <1>1
<1>3. g = 16 * r + u
  BY <1>2
<1>4. y = 16 * (2 * q + r) + u
  BY <1>3
<1>5. y \div 16 = 2 * q + r /\ y % 16 = u
  BY <1>4
<1>6. (2 * q + r) % 256 = 2 * q + r
  OBVIOUS
<1> QED BY <1>2, <1>3, <1>4, <1>5, <1>6

Given2(q, r, u, v, w, d, x, g, h, y, z) ==
    /\ q \in Nat /\ r \in Nat /\ u \in Nat /\ v \in Nat /\ w \in Nat
    /\ q < 64 /\ r < 4 /\ u < 8 /\ v < 32 /\ w < 1 /\ d = 32 * u + 1 * v + w
    /\ x = r * 256 + d /\ g = (x \div 32) % 32 /\ h = (x \div 1) % 32 /\ y = q * 32 + g /\ z = u * 32 + h

LEMMA Num2 ==
    ASSUME NEW q, NEW r, NEW u, NEW v, NEW w, NEW d, NEW x, NEW g, NEW h, NEW y, NEW z, Given2(q, r, u, v, w, d, x, g, h, y, z)
    PROVE  /\ x \in Nat /\ g \in Nat /\ h \in Nat /\ y \in Nat /\ z \in Nat
           /\ x % 1 = w /\ y % 8 = u /\ (y \div 8) % 256 = 4 * q + r /\ z = 32 * u + v
<1> USE DEF Given2
<1>1. x = 32 * (8 * r + u) + (1 * v + w) /\ x = 1 * (32 * (8 * r + u) + v) + w
  OBVIOUS
<1>2. x \div 32 = 8 * r + u
  <2>1. x = 32 * (8 * r + u) + (1 * v + w) /\ 1 * v + w < 32 /\ 1 * v + w \in Nat /\ 8 * r + u \in Nat
    BY <1>1
  <2> QED BY <2>1
<1>3. x \div 1 = 32 * (8 * r + u) + v /\ x % 1 = w
  BY <1>1
<1>4. g = 8 * r + u
  BY <1>2
<1>5. h = v
  BY <1>3
<1>6. y = 8 * (4 * q + r) + u
  BY <1>4
<1>7. y \div 8 = 4 * q + r /\ y % 8 = u
  BY <1>6
<1>8. (4 * q + r) % 256 = 4 * q + r
  OBVIOUS
<1> QED BY <1>1, <1>3, <1>4, <1>5, <1>6, <1>7, <1>8

Given3(q, r, u, v, w, d, x, g, h, y, z) ==
    /\ q \in Nat /\ r \in Nat /\ u \in Nat /\ v \in Nat /\ w \in Nat
    /\ q < 32 /\ r < 8 /\ u < 4 /\ v < 32 /\ w < 2 /\ d = 64 * u + 2 * v + w
    /\ x = r * 256 + d /\ g = (x \div 64) % 32 /\ h = (x \div 2) % 32 /\ y = q * 32 + g /\ z = u * 32 + h

LEMMA Num3 ==
    ASSUME NEW q, NEW r, NEW u, NEW v, NEW w, NEW d, NEW x, NEW g, NEW h, NEW y, NEW z, Given3(q, r, u, v, w, d, x, g, h, y, z)
    PROVE  /\ x \in Nat /\ g \in Nat /\ h \in Nat /\ y \in Nat /\ z \in Nat
           /\ x % 2 = w /\ y % 4 = u /\ (y \div 4) % 256 = 8 * q + r /\ z = 32 * u + v
<1> USE DEF Given3
<1>1. x = 64 * (4 * r + u) + (2 * v + w) /\ x = 2 * (32 * (4 * r + u) + v) + w
  OBVIOUS
<1>2. x \div 64 = 4 * r + u
  <2>1. x = 64 * (4 * r + u) + (2 * v + w) /\ 2 * v + w < 64 /\ 2 * v + w \in Nat /\ 4 * r + u \in Nat
    BY <1>1
  <2> QED BY <2>1
<1>3. x \div 2 = 32 * (4 * r + u) + v /\ x % 2 = w
  BY <1>1
<1>4. g = 4 * r + u
  BY <1>2
<1>5. h = v
  BY <1>3
<1>6. y = 4 * (8 * q + r) + u
  BY <1>4
<1>7. y \div 4 = 8 * q + r /\ y % 4 = u
  BY <1>6
<1>8. (8 * q + r) % 256 = 8 * q + r
  OBVIOUS
<1> QED BY <1>1, <1>3, <1>4, <1>5, <1>6, <1>7, <1>8

Given4(q, r, u, v, w, d, x, g, h, y, z) ==
    /\ q \in Nat /\ r \in Nat /\ u \in Nat /\ v \in Nat /\ w \in Nat
    /\ q < 16 /\ r < 16 /\ u < 2 /\ v < 32 /\ w < 4 /\ d = 128 * u + 4 * v + w
    /\ x = r * 256 + d /\ g = (x \div 128) % 32 /\ h = (x \div 4) % 32 /\ y = q * 32 + g /\ z = u * 32 + h

LEMMA Num4 ==
    ASSUME NEW q, NEW r, NEW u, NEW v, NEW w, NEW d, NEW x, NEW g, NEW h, NEW y, NEW z, Given4(q, r, u, v, w, d, x, g, h, y, z)
    PROVE  /\ x \in Nat /\ g \in Nat /\ h \in Nat /\ y \in Nat /\ z \in Nat
           /\ x % 4 = w /\ y % 2 = u /\ (y \div 2) % 256 = 16 * q + r /\ z = 32 * u + v
<1> USE DEF Given4
<1>1. x = 128 * (2 * r + u) + (4 * v + w) /\ x = 4 * (32 * (2 * r + u) + v) + w
  OBVIOUS
<1>2. x \div 128 = 2 * r + u
  <2>1. x = 128 * (2 * r + u) + (4 * v + w) /\ 4 * v + w < 128 /\ 4 * v + w \in Nat /\ 2 * r + u \in Nat
    BY <1>1
  <2> QED BY <2>1
<1>3. x \div 4 = 32 * (2 * r + u) + v /\ x % 4 = w
  BY <1>1
<1>4. g = 2 * r + u
  BY <1>2
<1>5. h = v
  BY <1>3
<1>6. y = 2 * (16 * q + r) + u
  BY <1>4
<1>7. y \div 2 = 16 * q + r /\ y % 2 = u
  BY <1>6
<1>8. (16 * q + r) % 256 = 16 * q + r
  OBVIOUS
<1> QED BY <1>1, <1>3, <1>4, <1>5, <1>6, <1>7, <1>8

\* The bits at the top of a byte.
LEMMA Top32 ==
    ASSUME NEW u \in Nat, NEW v \in Nat, NEW w \in Nat, NEW d, d = 32 * u + 1 * v + w, 1 * v + w < 32
    PROVE  d \div 32 = u
OBVIOUS

LEMMA Top64 ==
    ASSUME NEW u \in Nat, NEW v \in Nat, NEW w \in Nat, NEW d, d = 64 * u + 2 * v + w, 2 * v + w < 64
    PROVE  d \div 64 = u
OBVIOUS

LEMMA Top128 ==
    ASSUME NEW u \in Nat, NEW v \in Nat, NEW w \in Nat, NEW d, d = 128 * u + 4 * v + w, 4 * v + w < 128
    PROVE  d \div 128 = u
OBVIOUS

IsByte(b) == b \in Nat /\ b < 256

\* The bits of two bytes, b whose last k are left over, and d.
LEMMA Bits0 ==
    ASSUME NEW d, IsByte(d), NEW x, NEW g, x = 0 * TwoTo(8) + d, g = (x \div TwoTo(3)) % TwoTo(5),
           NEW y, y = 0 * TwoTo(5) + g
    PROVE  /\ x \in Nat /\ g \in Nat /\ y \in Nat
           /\ x % TwoTo(3) = d % TwoTo(3) /\ y % TwoTo(5) = d \div TwoTo(3)
<1>1. TwoTo(8) = 256 /\ TwoTo(5) = 32 /\ TwoTo(3) = 8
  BY PowersAre, SMT
<1>2. x = d /\ d \in Nat /\ d < 256
  BY <1>1, SMT DEF IsByte
<1>3. g = (d \div 8) % 32 /\ y = 0 * 32 + g
  BY <1>1, <1>2, SMT
<1>4. g = d \div 8 /\ g \in Nat /\ g < 32
  BY <1>2, <1>3, SMT
<1>5. y = g /\ y % 32 = y
  BY <1>3, <1>4, SMT
<1> QED BY <1>1, <1>2, <1>4, <1>5, SMT

LEMMA Bits1 ==
    ASSUME NEW b, NEW d, IsByte(b), IsByte(d), NEW x, NEW g, NEW y,
           x = (b % TwoTo(1)) * TwoTo(8) + d, g = (x \div TwoTo(4)) % TwoTo(5), y = (b \div TwoTo(1)) * TwoTo(5) + g
    PROVE  /\ x \in Nat /\ g \in Nat /\ y \in Nat
           /\ x % TwoTo(4) = d % TwoTo(4) /\ (y \div TwoTo(4)) % TwoTo(8) = b /\ y % TwoTo(4) = d \div TwoTo(4)
<1> DEFINE q == b \div 2
           r == b % 2
           u == d \div 16
           w == d % 16
<1>1. TwoTo(8) = 256 /\ TwoTo(5) = 32 /\ TwoTo(4) = 16 /\ TwoTo(1) = 2
  BY PowersAre, SMT
<1>2. q \in Nat /\ r \in Nat /\ q < 128 /\ r < 2 /\ b = 2 * q + r
  BY SMT DEF IsByte
<1>3. u \in Nat /\ w \in Nat /\ u < 16 /\ w < 16 /\ d = 16 * u + w
  BY SMT DEF IsByte
<1>4. x = r * 256 + d /\ g = (x \div 16) % 32 /\ y = q * 32 + g
  BY <1>1, Zenon DEF q, r
<1>5. x % TwoTo(4) = x % 16 /\ y % TwoTo(4) = y % 16 /\ (y \div TwoTo(4)) % TwoTo(8) = (y \div 16) % 256
      /\ d % TwoTo(4) = w /\ d \div TwoTo(4) = u
  BY <1>1, SMT
<1> HIDE DEF q, r, u, w
<1>6. x \in Nat /\ g \in Nat /\ y \in Nat /\ x % 16 = w /\ y % 16 = u /\ (y \div 16) % 256 = 2 * q + r
  <2>1. Given1(q, r, u, w, d, x, g, y)
    BY <1>2, <1>3, <1>4 DEF Given1
  <2> QED BY <2>1, Num1
<1> QED BY <1>2, <1>5, <1>6

LEMMA Bits2 ==
    ASSUME NEW b, NEW d, IsByte(b), IsByte(d), NEW x, NEW g, NEW h, NEW y, NEW z,
           x = (b % TwoTo(2)) * TwoTo(8) + d, g = (x \div TwoTo(5)) % TwoTo(5), h = (x \div TwoTo(0)) % TwoTo(5),
           y = (b \div TwoTo(2)) * TwoTo(5) + g, z = (d \div TwoTo(5)) * TwoTo(5) + h
    PROVE  /\ x \in Nat /\ g \in Nat /\ h \in Nat /\ y \in Nat /\ z \in Nat
           /\ x % TwoTo(0) = 0 /\ (y \div TwoTo(3)) % TwoTo(8) = b /\ y % TwoTo(3) = d \div TwoTo(5)
           /\ (z \div TwoTo(0)) % TwoTo(8) = d /\ z % TwoTo(0) = 0
<1> DEFINE q == b \div 4
           r == b % 4
           e == d \div 1
           w == d % 1
           u == e \div 32
           v == e % 32
<1>1. TwoTo(0) = 1 /\ TwoTo(2) = 4 /\ TwoTo(3) = 8 /\ TwoTo(5) = 32 /\ TwoTo(8) = 256
  BY PowersAre, SMT
<1>2. q \in Nat /\ r \in Nat /\ q < 64 /\ r < 4 /\ b = 4 * q + r
  BY SMT DEF IsByte
<1>3. e \in Nat /\ e < 256 /\ w \in Nat /\ w < 1 /\ d = 1 * e + w
  BY SMT DEF IsByte
<1>4. u \in Nat /\ u < 8 /\ v \in Nat /\ v < 32 /\ e = 32 * u + v
  <2> HIDE DEF e
  <2> QED BY <1>3, SMT
<1> DEFINE d0 == d \div 32
<1>5. x = r * 256 + d /\ g = (x \div 32) % 32 /\ h = (x \div 1) % 32 /\ y = q * 32 + g /\ z = d0 * 32 + h
  BY <1>1, Zenon DEF q, r, d0
<1>6. /\ x % TwoTo(0) = x % 1 /\ y % TwoTo(3) = y % 8 /\ (y \div TwoTo(3)) % TwoTo(8) = (y \div 8) % 256
      /\ d % TwoTo(0) = w /\ d \div TwoTo(0) = e /\ d \div TwoTo(5) = d0
  BY <1>1, Zenon DEF w, e, d0
<1> HIDE DEF q, r, e, w, u, v
<1>7. d = 32 * u + 1 * v + w
  BY <1>3, <1>4, SMT
<1>8. d0 = u
  <2>1. 1 * v + w \in Nat /\ 1 * v + w < 32
    BY <1>3, <1>4, SMT
  <2> QED BY <1>3, <1>4, <1>7, <2>1, Top32
<1> HIDE DEF d0
<1>9. /\ x \in Nat /\ g \in Nat /\ h \in Nat /\ y \in Nat /\ z \in Nat
      /\ x % 1 = w /\ y % 8 = u /\ (y \div 8) % 256 = 4 * q + r /\ z = 32 * u + v
  <2>1. Given2(q, r, u, v, w, d, x, g, h, y, z)
    BY <1>2, <1>3, <1>4, <1>5, <1>7, <1>8 DEF Given2
  <2> QED BY <2>1, Num2
<1>10. z = e /\ z \in Nat /\ z < 256
  BY <1>3, <1>4, <1>9, SMT
<1>11. w = 0 /\ (z \div TwoTo(0)) % TwoTo(8) = d /\ z % TwoTo(0) = 0
  <2>1. w = 0 /\ z = d
    BY <1>3, <1>10, SMT
  <2>2. (z \div TwoTo(0)) % TwoTo(8) = (z \div 1) % 256 /\ z % TwoTo(0) = z % 1
    BY <1>1, Zenon
  <2>3. (z \div 1) % 256 = z /\ z % 1 = 0
    BY <1>10, SMT
  <2> QED BY <2>1, <2>2, <2>3
<1> QED BY <1>2, <1>6, <1>8, <1>9, <1>11

LEMMA Bits3 ==
    ASSUME NEW b, NEW d, IsByte(b), IsByte(d), NEW x, NEW g, NEW h, NEW y, NEW z,
           x = (b % TwoTo(3)) * TwoTo(8) + d, g = (x \div TwoTo(6)) % TwoTo(5), h = (x \div TwoTo(1)) % TwoTo(5),
           y = (b \div TwoTo(3)) * TwoTo(5) + g, z = (d \div TwoTo(6)) * TwoTo(5) + h
    PROVE  /\ x \in Nat /\ g \in Nat /\ h \in Nat /\ y \in Nat /\ z \in Nat
           /\ x % TwoTo(1) = d % TwoTo(1) /\ (y \div TwoTo(2)) % TwoTo(8) = b /\ y % TwoTo(2) = d \div TwoTo(6)
           /\ z % TwoTo(7) = d \div TwoTo(1)
<1> DEFINE q == b \div 8
           r == b % 8
           e == d \div 2
           w == d % 2
           u == e \div 32
           v == e % 32
<1>1. TwoTo(1) = 2 /\ TwoTo(2) = 4 /\ TwoTo(3) = 8 /\ TwoTo(5) = 32 /\ TwoTo(6) = 64 /\ TwoTo(7) = 128 /\ TwoTo(8) = 256
  BY PowersAre, SMT
<1>2. q \in Nat /\ r \in Nat /\ q < 32 /\ r < 8 /\ b = 8 * q + r
  BY SMT DEF IsByte
<1>3. e \in Nat /\ e < 128 /\ w \in Nat /\ w < 2 /\ d = 2 * e + w
  BY SMT DEF IsByte
<1>4. u \in Nat /\ u < 4 /\ v \in Nat /\ v < 32 /\ e = 32 * u + v
  <2> HIDE DEF e
  <2> QED BY <1>3, SMT
<1> DEFINE d0 == d \div 64
<1>5. x = r * 256 + d /\ g = (x \div 64) % 32 /\ h = (x \div 2) % 32 /\ y = q * 32 + g /\ z = d0 * 32 + h
  BY <1>1, Zenon DEF q, r, d0
<1>6. /\ x % TwoTo(1) = x % 2 /\ y % TwoTo(2) = y % 4 /\ (y \div TwoTo(2)) % TwoTo(8) = (y \div 4) % 256
      /\ d % TwoTo(1) = w /\ d \div TwoTo(1) = e /\ d \div TwoTo(6) = d0
  BY <1>1, Zenon DEF w, e, d0
<1> HIDE DEF q, r, e, w, u, v
<1>7. d = 64 * u + 2 * v + w
  BY <1>3, <1>4, SMT
<1>8. d0 = u
  <2>1. 2 * v + w \in Nat /\ 2 * v + w < 64
    BY <1>3, <1>4, SMT
  <2> QED BY <1>3, <1>4, <1>7, <2>1, Top64
<1> HIDE DEF d0
<1>9. /\ x \in Nat /\ g \in Nat /\ h \in Nat /\ y \in Nat /\ z \in Nat
      /\ x % 2 = w /\ y % 4 = u /\ (y \div 4) % 256 = 8 * q + r /\ z = 32 * u + v
  <2>1. Given3(q, r, u, v, w, d, x, g, h, y, z)
    BY <1>2, <1>3, <1>4, <1>5, <1>7, <1>8 DEF Given3
  <2> QED BY <2>1, Num3
<1>10. z = e /\ z \in Nat /\ z < 128
  BY <1>3, <1>4, <1>9, SMT
<1>11. z % TwoTo(7) = z
  <2>1. z % TwoTo(7) = z % 128
    BY <1>1, Zenon
  <2>2. z % 128 = z
    BY <1>10, SMT
  <2> QED BY <2>1, <2>2
<1> QED BY <1>2, <1>6, <1>8, <1>9, <1>10, <1>11

LEMMA Bits4 ==
    ASSUME NEW b, NEW d, IsByte(b), IsByte(d), NEW x, NEW g, NEW h, NEW y, NEW z,
           x = (b % TwoTo(4)) * TwoTo(8) + d, g = (x \div TwoTo(7)) % TwoTo(5), h = (x \div TwoTo(2)) % TwoTo(5),
           y = (b \div TwoTo(4)) * TwoTo(5) + g, z = (d \div TwoTo(7)) * TwoTo(5) + h
    PROVE  /\ x \in Nat /\ g \in Nat /\ h \in Nat /\ y \in Nat /\ z \in Nat
           /\ x % TwoTo(2) = d % TwoTo(2) /\ (y \div TwoTo(1)) % TwoTo(8) = b /\ y % TwoTo(1) = d \div TwoTo(7)
           /\ z % TwoTo(6) = d \div TwoTo(2)
<1> DEFINE q == b \div 16
           r == b % 16
           e == d \div 4
           w == d % 4
           u == e \div 32
           v == e % 32
<1>1. TwoTo(1) = 2 /\ TwoTo(2) = 4 /\ TwoTo(4) = 16 /\ TwoTo(5) = 32 /\ TwoTo(6) = 64 /\ TwoTo(7) = 128 /\ TwoTo(8) = 256
  BY PowersAre, SMT
<1>2. q \in Nat /\ r \in Nat /\ q < 16 /\ r < 16 /\ b = 16 * q + r
  BY SMT DEF IsByte
<1>3. e \in Nat /\ e < 64 /\ w \in Nat /\ w < 4 /\ d = 4 * e + w
  BY SMT DEF IsByte
<1>4. u \in Nat /\ u < 2 /\ v \in Nat /\ v < 32 /\ e = 32 * u + v
  <2> HIDE DEF e
  <2> QED BY <1>3, SMT
<1> DEFINE d0 == d \div 128
<1>5. x = r * 256 + d /\ g = (x \div 128) % 32 /\ h = (x \div 4) % 32 /\ y = q * 32 + g /\ z = d0 * 32 + h
  BY <1>1, Zenon DEF q, r, d0
<1>6. /\ x % TwoTo(2) = x % 4 /\ y % TwoTo(1) = y % 2 /\ (y \div TwoTo(1)) % TwoTo(8) = (y \div 2) % 256
      /\ d % TwoTo(2) = w /\ d \div TwoTo(2) = e /\ d \div TwoTo(7) = d0
  BY <1>1, Zenon DEF w, e, d0
<1> HIDE DEF q, r, e, w, u, v
<1>7. d = 128 * u + 4 * v + w
  BY <1>3, <1>4, SMT
<1>8. d0 = u
  <2>1. 4 * v + w \in Nat /\ 4 * v + w < 128
    BY <1>3, <1>4, SMT
  <2> QED BY <1>3, <1>4, <1>7, <2>1, Top128
<1> HIDE DEF d0
<1>9. /\ x \in Nat /\ g \in Nat /\ h \in Nat /\ y \in Nat /\ z \in Nat
      /\ x % 4 = w /\ y % 2 = u /\ (y \div 2) % 256 = 16 * q + r /\ z = 32 * u + v
  <2>1. Given4(q, r, u, v, w, d, x, g, h, y, z)
    BY <1>2, <1>3, <1>4, <1>5, <1>7, <1>8 DEF Given4
  <2> QED BY <2>1, Num4
<1>10. z = e /\ z \in Nat /\ z < 64
  BY <1>3, <1>4, <1>9, SMT
<1>11. z % TwoTo(6) = z
  <2>1. z % TwoTo(6) = z % 64
    BY <1>1, Zenon
  <2>2. z % 64 = z
    BY <1>10, SMT
  <2> QED BY <2>1, <2>2
<1> QED BY <1>2, <1>6, <1>8, <1>9, <1>10, <1>11

\* What is padded: the bits left over, and zeros.
LEMMA BitsPadded ==
    ASSUME NEW b, IsByte(b), NEW k \in {1, 2, 3, 4}, NEW g, NEW y,
           g = (b % TwoTo(k)) * TwoTo(5 - k), y = (b \div TwoTo(k)) * TwoTo(5) + g
    PROVE  g \in Nat /\ y \in Nat /\ (y \div TwoTo(5 - k)) % TwoTo(8) = b /\ y % TwoTo(5 - k) = 0
<1> DEFINE Is(m, n) == \E q, r \in Nat : /\ b = m * q + r /\ r < m /\ b \div m = q /\ b % m = r
                                         /\ r * n \in Nat /\ q * 32 + r * n \in Nat
                                         /\ ((q * 32 + r * n) \div n) % 256 = b /\ (q * 32 + r * n) % n = 0
<1>1. TwoTo(8) = 256 /\ TwoTo(5) = 32 /\ TwoTo(4) = 16 /\ TwoTo(2) = 4 /\ TwoTo(1) = 2 /\ TwoTo(3) = 8
  BY PowersAre, SMT
<1>2. 5 - 1 = 4 /\ 5 - 2 = 3 /\ 5 - 3 = 2 /\ 5 - 4 = 1
  BY SMT
<1>3. Is(2, 16)
  <2> DEFINE q == b \div 2
             r == b % 2
             t == q * 32 + r * 16
  <2>1. q \in Nat /\ r \in Nat /\ b = 2 * q + r /\ r < 2 /\ b < 256
    BY SMT DEF IsByte
  <2> SUFFICES r * 16 \in Nat /\ t \in Nat /\ (t \div 16) % 256 = b /\ t % 16 = 0
    BY <2>1
  <2> HIDE DEF q, r
  <2>2. t = 16 * b /\ t \in Nat /\ r * 16 \in Nat
    BY <2>1, SMT
  <2> HIDE DEF t
  <2>3. t \div 16 = b /\ t % 16 = 0 /\ b % 256 = b
    BY <2>1, <2>2, SMT
  <2> QED BY <2>2, <2>3
<1>4. Is(4, 8)
  <2> DEFINE q == b \div 4
             r == b % 4
             t == q * 32 + r * 8
  <2>1. q \in Nat /\ r \in Nat /\ b = 4 * q + r /\ r < 4 /\ b < 256
    BY SMT DEF IsByte
  <2> SUFFICES r * 8 \in Nat /\ t \in Nat /\ (t \div 8) % 256 = b /\ t % 8 = 0
    BY <2>1
  <2> HIDE DEF q, r
  <2>2. t = 8 * b /\ t \in Nat /\ r * 8 \in Nat
    BY <2>1, SMT
  <2> HIDE DEF t
  <2>3. t \div 8 = b /\ t % 8 = 0 /\ b % 256 = b
    BY <2>1, <2>2, SMT
  <2> QED BY <2>2, <2>3
<1>5. Is(8, 4)
  <2> DEFINE q == b \div 8
             r == b % 8
             t == q * 32 + r * 4
  <2>1. q \in Nat /\ r \in Nat /\ b = 8 * q + r /\ r < 8 /\ b < 256
    BY SMT DEF IsByte
  <2> SUFFICES r * 4 \in Nat /\ t \in Nat /\ (t \div 4) % 256 = b /\ t % 4 = 0
    BY <2>1
  <2> HIDE DEF q, r
  <2>2. t = 4 * b /\ t \in Nat /\ r * 4 \in Nat
    BY <2>1, SMT
  <2> HIDE DEF t
  <2>3. t \div 4 = b /\ t % 4 = 0 /\ b % 256 = b
    BY <2>1, <2>2, SMT
  <2> QED BY <2>2, <2>3
<1>6. Is(16, 2)
  <2> DEFINE q == b \div 16
             r == b % 16
             t == q * 32 + r * 2
  <2>1. q \in Nat /\ r \in Nat /\ b = 16 * q + r /\ r < 16 /\ b < 256
    BY SMT DEF IsByte
  <2> SUFFICES r * 2 \in Nat /\ t \in Nat /\ (t \div 2) % 256 = b /\ t % 2 = 0
    BY <2>1
  <2> HIDE DEF q, r
  <2>2. t = 2 * b /\ t \in Nat /\ r * 2 \in Nat
    BY <2>1, SMT
  <2> HIDE DEF t
  <2>3. t \div 2 = b /\ t % 2 = 0 /\ b % 256 = b
    BY <2>1, <2>2, SMT
  <2> QED BY <2>2, <2>3
<1>7. ASSUME NEW m, NEW n, Is(m, n), TwoTo(k) = m, TwoTo(5 - k) = n
      PROVE  g \in Nat /\ y \in Nat /\ (y \div TwoTo(5 - k)) % TwoTo(8) = b /\ y % TwoTo(5 - k) = 0
  <2>1. PICK q \in Nat, r \in Nat : /\ b \div m = q /\ b % m = r
                                    /\ r * n \in Nat /\ q * 32 + r * n \in Nat
                                    /\ ((q * 32 + r * n) \div n) % 256 = b /\ (q * 32 + r * n) % n = 0
    BY <1>7
  <2>2. g = r * n /\ y = q * 32 + g
    BY <1>1, <1>7, <2>1, Zenon
  <2>3. (y \div TwoTo(5 - k)) % TwoTo(8) = (y \div n) % 256 /\ y % TwoTo(5 - k) = y % n
    BY <1>1, <1>7, Zenon
  <2> QED BY <2>1, <2>2, <2>3
<1> HIDE DEF Is
<1>8. CASE k = 1
  <2>1. TwoTo(k) = 2 /\ TwoTo(5 - k) = 16
    BY <1>1, <1>2, <1>8, Zenon
  <2> QED BY <1>3, <1>7, <2>1
<1>9. CASE k = 2
  <2>1. TwoTo(k) = 4 /\ TwoTo(5 - k) = 8
    BY <1>1, <1>2, <1>9, Zenon
  <2> QED BY <1>4, <1>7, <2>1
<1>10. CASE k = 3
  <2>1. TwoTo(k) = 8 /\ TwoTo(5 - k) = 4
    BY <1>1, <1>2, <1>10, Zenon
  <2> QED BY <1>5, <1>7, <2>1
<1>11. CASE k = 4
  <2>1. TwoTo(k) = 16 /\ TwoTo(5 - k) = 2
    BY <1>1, <1>2, <1>11, Zenon
  <2> QED BY <1>6, <1>7, <2>1
<1> QED BY <1>8, <1>9, <1>10, <1>11

Enc(s) == Regrouped(s, 8, 5)
Dec(s) == Regrouped(s, 5, 8)

\* One more to encode, or to decode.
LEMMA CodesMore ==
    ASSUME NEW s \in Seq(Nat), NEW d \in Nat
    PROVE  /\ Enc(Append(s, d)) = TakenBits(Enc(s), d, 8, 5) /\ Dec(Append(s, d)) = TakenBits(Dec(s), d, 5, 8)
           /\ Enc(<<>>) = St(<<>>, 0, 0) /\ Dec(<<>>) = St(<<>>, 0, 0)
           /\ Append(s, d) \in Seq(Nat)
<1>1. <<8, 5>> \in Regroups /\ <<5, 8>> \in Regroups
  BY SMT DEF Regroups
<1>2. Append(s, d) \in Seq(Nat)
  BY AppendProperties
<1>3. /\ Regrouped(Append(s, d), 8, 5) = TakenBits(Regrouped(s, 8, 5), d, 8, 5)
      /\ Regrouped(<<>>, 8, 5) = [out |-> <<>>, rest |-> 0, bits |-> 0]
  BY <1>1, RegroupedMore
<1>4. /\ Regrouped(Append(s, d), 5, 8) = TakenBits(Regrouped(s, 5, 8), d, 5, 8)
      /\ Regrouped(<<>>, 5, 8) = [out |-> <<>>, rest |-> 0, bits |-> 0]
  BY <1>1, RegroupedMore
<1> QED BY <1>2, <1>3, <1>4, Zenon DEF Enc, Dec, St

\* The parts of a byte are numbers.
LEMMA ByteBits ==
    ASSUME NEW b, IsByte(b), NEW k \in 0 .. 8
    PROVE  b \in Nat /\ b % TwoTo(k) \in Nat /\ b \div TwoTo(k) \in Nat
<1>1. TwoTo(k) \in Nat \ {0} /\ b \in Nat
  BY PowersAre, SMT DEF IsByte
<1>2. \A x \in Nat, y \in Nat \ {0} : x \div y \in Nat /\ x % y \in Nat
  BY SMT
<1> QED BY <1>1, <1>2, Zenon

\* The groups of the bytes so far give back all of them, or all but the last, whose last
\* k bits are left over.
Even(s, o) == o \in Seq(Nat) /\ Enc(s) = St(o, 0, 0) /\ Dec(o) = St(s, 0, 0)
Halfway(s, o, f, b, k, m) ==
    /\ s = Append(f, b) /\ IsByte(b) /\ f \in Seq(Nat) /\ o \in Seq(Nat)
    /\ Enc(s) = St(o, b % TwoTo(k), k) /\ Dec(o) = St(f, b \div TwoTo(k), m)

\* One byte more, by how many bits are left over.
LEMMA Group0 ==
    ASSUME NEW s \in Seq(Nat), NEW o, Even(s, o), NEW d, IsByte(d)
    PROVE  \E p : Halfway(Append(s, d), p, s, d, 3, 5)
<1> DEFINE x == 0 * TwoTo(8) + d
           g == (x \div TwoTo(3)) % TwoTo(5)
           y == 0 * TwoTo(5) + g
           p == Append(o, g)
<1>1. x \in Nat /\ g \in Nat /\ y \in Nat /\ x % TwoTo(3) = d % TwoTo(3) /\ y % TwoTo(5) = d \div TwoTo(3)
  BY Bits0
<1>2. o \in Seq(Nat) /\ Enc(s) = St(o, 0, 0) /\ Dec(o) = St(s, 0, 0)
  BY Zenon DEF Even
<1>3. d \in Nat /\ 0 \in Nat
  BY DEF IsByte
<1>4. Encodes(o, 0, d, x)
  <2> HIDE DEF x
  <2>1. x = 0 * TwoTo(8) + d
    BY Zenon DEF x
  <2> QED BY <1>1, <1>2, <1>3, <2>1, EncodesIs
<1>5. Enc(Append(s, d)) = St(p, d % TwoTo(3), 3)
  <2>1. Enc(Append(s, d)) = TakenBits(St(o, 0, 0), d, 8, 5)
    BY <1>2, <1>3, CodesMore
  <2>2. TakenBits(St(o, 0, 0), d, 8, 5) = St(p, x % TwoTo(3), 3)
    BY <1>4, Zenon DEF Encodes
  <2> QED BY <1>1, <2>1, <2>2, Zenon
<1>6. Decodes(s, 0, g, y)
  <2>1. y = 0 * TwoTo(5) + g
    BY Zenon DEF y
  <2> HIDE DEF y, g
  <2> QED BY <1>1, <1>3, <2>1, DecodesIs
<1> HIDE DEF g, y
<1>7. Dec(p) = St(s, d \div TwoTo(3), 5)
  <2>1. Dec(p) = TakenBits(St(s, 0, 0), g, 5, 8)
    BY <1>1, <1>2, CodesMore
  <2>2. TakenBits(St(s, 0, 0), g, 5, 8) = St(s, y % TwoTo(5), 5)
    BY <1>6, Zenon DEF Decodes
  <2> QED BY <1>1, <2>1, <2>2, Zenon
<1>8. p \in Seq(Nat)
  BY <1>1, <1>2, CodesMore
<1> QED BY <1>5, <1>7, <1>8, Zenon DEF Halfway

LEMMA Group1 ==
    ASSUME NEW s \in Seq(Nat), NEW o, NEW f, NEW b, Halfway(s, o, f, b, 1, 7), NEW d, IsByte(d)
    PROVE  \E p : Halfway(Append(s, d), p, s, d, 4, 4)
<1> DEFINE r == b % TwoTo(1)
           t == b \div TwoTo(1)
           x == r * TwoTo(8) + d
           g == (x \div TwoTo(4)) % TwoTo(5)
           y == t * TwoTo(5) + g
           p == Append(o, g)
<1>2. /\ s = Append(f, b) /\ IsByte(b) /\ f \in Seq(Nat) /\ o \in Seq(Nat)
      /\ Enc(s) = St(o, r, 1) /\ Dec(o) = St(f, t, 7)
  BY Zenon DEF Halfway
<1>1. /\ x \in Nat /\ g \in Nat /\ y \in Nat
      /\ x % TwoTo(4) = d % TwoTo(4) /\ (y \div TwoTo(4)) % TwoTo(8) = b /\ y % TwoTo(4) = d \div TwoTo(4)
  BY <1>2, Bits1
<1>3. d \in Nat /\ r \in Nat /\ t \in Nat
  <2>1. 1 \in 0 .. 8
    BY SMT
  <2> QED BY <1>2, <2>1, ByteBits DEF IsByte
<1> HIDE DEF r, t
<1>4. Encodes(o, r, d, x)
  <2>1. x = r * TwoTo(8) + d
    BY Zenon DEF x
  <2> HIDE DEF x
  <2> QED BY <1>1, <1>2, <1>3, <2>1, EncodesIs
<1>5. Enc(Append(s, d)) = St(p, d % TwoTo(4), 4)
  <2>1. Enc(Append(s, d)) = TakenBits(St(o, r, 1), d, 8, 5)
    BY <1>2, <1>3, CodesMore
  <2>2. TakenBits(St(o, r, 1), d, 8, 5) = St(p, x % TwoTo(4), 4)
    BY <1>4, Zenon DEF Encodes
  <2> QED BY <1>1, <2>1, <2>2, Zenon
<1>6. Decodes(f, t, g, y)
  <2>1. y = t * TwoTo(5) + g
    BY Zenon DEF y
  <2> HIDE DEF y, g
  <2> QED BY <1>1, <1>2, <1>3, <2>1, DecodesIs
<1> HIDE DEF g, y
<1>7. Dec(p) = St(s, d \div TwoTo(4), 4)
  <2>1. Dec(p) = TakenBits(St(f, t, 7), g, 5, 8)
    BY <1>1, <1>2, CodesMore
  <2>2. TakenBits(St(f, t, 7), g, 5, 8) = St(Append(f, (y \div TwoTo(4)) % TwoTo(8)), y % TwoTo(4), 4)
    BY <1>6, Zenon DEF Decodes
  <2> QED BY <1>1, <1>2, <2>1, <2>2, Zenon
<1>8. p \in Seq(Nat)
  BY <1>1, <1>2, CodesMore
<1> QED BY <1>5, <1>7, <1>8, Zenon DEF Halfway

LEMMA Group2 ==
    ASSUME NEW s \in Seq(Nat), NEW o, NEW f, NEW b, Halfway(s, o, f, b, 2, 6), NEW d, IsByte(d)
    PROVE  \E p : Even(Append(s, d), p)
<1> DEFINE r == b % TwoTo(2)
           t == b \div TwoTo(2)
           x == r * TwoTo(8) + d
           g == (x \div TwoTo(5)) % TwoTo(5)
           h == (x \div TwoTo(0)) % TwoTo(5)
           y == t * TwoTo(5) + g
           u == d \div TwoTo(5)
           z == u * TwoTo(5) + h
           q == Append(o, g)
           p == Append(q, h)
<1>2. /\ s = Append(f, b) /\ IsByte(b) /\ f \in Seq(Nat) /\ o \in Seq(Nat)
      /\ Enc(s) = St(o, r, 2) /\ Dec(o) = St(f, t, 6)
  BY Zenon DEF Halfway
<1>1. /\ x \in Nat /\ g \in Nat /\ h \in Nat /\ y \in Nat /\ z \in Nat
      /\ x % TwoTo(0) = 0 /\ (y \div TwoTo(3)) % TwoTo(8) = b /\ y % TwoTo(3) = u
      /\ (z \div TwoTo(0)) % TwoTo(8) = d /\ z % TwoTo(0) = 0
  BY <1>2, Bits2
<1>3. d \in Nat /\ r \in Nat /\ t \in Nat /\ u \in Nat
  <2>1. 2 \in 0 .. 8 /\ 5 \in 0 .. 8
    BY SMT
  <2> QED BY <1>2, <2>1, ByteBits DEF IsByte
<1> HIDE DEF r, t, u
<1>4. Encodes(o, r, d, x)
  <2>1. x = r * TwoTo(8) + d
    BY Zenon DEF x
  <2> HIDE DEF x
  <2> QED BY <1>1, <1>2, <1>3, <2>1, EncodesIs
<1>5. Enc(Append(s, d)) = St(p, 0, 0)
  <2>1. Enc(Append(s, d)) = TakenBits(St(o, r, 2), d, 8, 5)
    BY <1>2, <1>3, CodesMore
  <2>2. TakenBits(St(o, r, 2), d, 8, 5) = St(p, x % TwoTo(0), 0)
    BY <1>4, Zenon DEF Encodes
  <2> QED BY <1>1, <2>1, <2>2, Zenon
<1>6. Decodes(f, t, g, y) /\ Decodes(s, u, h, z)
  <2>1. y = t * TwoTo(5) + g /\ z = u * TwoTo(5) + h
    BY Zenon DEF y, z
  <2> HIDE DEF y, z, g, h
  <2> QED BY <1>1, <1>2, <1>3, <2>1, DecodesIs
<1> HIDE DEF g, h, y, z
<1>7. q \in Seq(Nat) /\ Dec(q) = St(s, u, 3)
  <2>1. Dec(q) = TakenBits(St(f, t, 6), g, 5, 8) /\ q \in Seq(Nat)
    BY <1>1, <1>2, CodesMore
  <2>2. TakenBits(St(f, t, 6), g, 5, 8) = St(Append(f, (y \div TwoTo(3)) % TwoTo(8)), y % TwoTo(3), 3)
    BY <1>6, Zenon DEF Decodes
  <2> QED BY <1>1, <1>2, <2>1, <2>2, Zenon
<1> HIDE DEF q
<1>8. p \in Seq(Nat) /\ Dec(p) = St(Append(s, d), 0, 0)
  <2>1. Dec(p) = TakenBits(St(s, u, 3), h, 5, 8) /\ p \in Seq(Nat)
    BY <1>1, <1>7, CodesMore
  <2>2. TakenBits(St(s, u, 3), h, 5, 8) = St(Append(s, (z \div TwoTo(0)) % TwoTo(8)), z % TwoTo(0), 0)
    BY <1>6, Zenon DEF Decodes
  <2> QED BY <1>1, <2>1, <2>2, Zenon
<1> QED BY <1>5, <1>8, Zenon DEF Even

LEMMA Group3 ==
    ASSUME NEW s \in Seq(Nat), NEW o, NEW f, NEW b, Halfway(s, o, f, b, 3, 5), NEW d, IsByte(d)
    PROVE  \E p : Halfway(Append(s, d), p, s, d, 1, 7)
<1> DEFINE r == b % TwoTo(3)
           t == b \div TwoTo(3)
           x == r * TwoTo(8) + d
           g == (x \div TwoTo(6)) % TwoTo(5)
           h == (x \div TwoTo(1)) % TwoTo(5)
           y == t * TwoTo(5) + g
           u == d \div TwoTo(6)
           z == u * TwoTo(5) + h
           q == Append(o, g)
           p == Append(q, h)
<1>2. /\ s = Append(f, b) /\ IsByte(b) /\ f \in Seq(Nat) /\ o \in Seq(Nat)
      /\ Enc(s) = St(o, r, 3) /\ Dec(o) = St(f, t, 5)
  BY Zenon DEF Halfway
<1>1. /\ x \in Nat /\ g \in Nat /\ h \in Nat /\ y \in Nat /\ z \in Nat
      /\ x % TwoTo(1) = d % TwoTo(1) /\ (y \div TwoTo(2)) % TwoTo(8) = b /\ y % TwoTo(2) = u
      /\ z % TwoTo(7) = d \div TwoTo(1)
  BY <1>2, Bits3
<1>3. d \in Nat /\ r \in Nat /\ t \in Nat /\ u \in Nat
  <2>1. 3 \in 0 .. 8 /\ 6 \in 0 .. 8
    BY SMT
  <2> QED BY <1>2, <2>1, ByteBits DEF IsByte
<1> HIDE DEF r, t, u
<1>4. Encodes(o, r, d, x)
  <2>1. x = r * TwoTo(8) + d
    BY Zenon DEF x
  <2> HIDE DEF x
  <2> QED BY <1>1, <1>2, <1>3, <2>1, EncodesIs
<1>5. Enc(Append(s, d)) = St(p, d % TwoTo(1), 1)
  <2>1. Enc(Append(s, d)) = TakenBits(St(o, r, 3), d, 8, 5)
    BY <1>2, <1>3, CodesMore
  <2>2. TakenBits(St(o, r, 3), d, 8, 5) = St(p, x % TwoTo(1), 1)
    BY <1>4, Zenon DEF Encodes
  <2> QED BY <1>1, <2>1, <2>2, Zenon
<1>6. Decodes(f, t, g, y) /\ Decodes(s, u, h, z)
  <2>1. y = t * TwoTo(5) + g /\ z = u * TwoTo(5) + h
    BY Zenon DEF y, z
  <2> HIDE DEF y, z, g, h
  <2> QED BY <1>1, <1>2, <1>3, <2>1, DecodesIs
<1> HIDE DEF g, h, y, z
<1>7. q \in Seq(Nat) /\ Dec(q) = St(s, u, 2)
  <2>1. Dec(q) = TakenBits(St(f, t, 5), g, 5, 8) /\ q \in Seq(Nat)
    BY <1>1, <1>2, CodesMore
  <2>2. TakenBits(St(f, t, 5), g, 5, 8) = St(Append(f, (y \div TwoTo(2)) % TwoTo(8)), y % TwoTo(2), 2)
    BY <1>6, Zenon DEF Decodes
  <2> QED BY <1>1, <1>2, <2>1, <2>2, Zenon
<1> HIDE DEF q
<1>8. p \in Seq(Nat) /\ Dec(p) = St(s, d \div TwoTo(1), 7)
  <2>1. Dec(p) = TakenBits(St(s, u, 2), h, 5, 8) /\ p \in Seq(Nat)
    BY <1>1, <1>7, CodesMore
  <2>2. TakenBits(St(s, u, 2), h, 5, 8) = St(s, z % TwoTo(7), 7)
    BY <1>6, Zenon DEF Decodes
  <2> QED BY <1>1, <2>1, <2>2, Zenon
<1> QED BY <1>5, <1>8, Zenon DEF Halfway

LEMMA Group4 ==
    ASSUME NEW s \in Seq(Nat), NEW o, NEW f, NEW b, Halfway(s, o, f, b, 4, 4), NEW d, IsByte(d)
    PROVE  \E p : Halfway(Append(s, d), p, s, d, 2, 6)
<1> DEFINE r == b % TwoTo(4)
           t == b \div TwoTo(4)
           x == r * TwoTo(8) + d
           g == (x \div TwoTo(7)) % TwoTo(5)
           h == (x \div TwoTo(2)) % TwoTo(5)
           y == t * TwoTo(5) + g
           u == d \div TwoTo(7)
           z == u * TwoTo(5) + h
           q == Append(o, g)
           p == Append(q, h)
<1>2. /\ s = Append(f, b) /\ IsByte(b) /\ f \in Seq(Nat) /\ o \in Seq(Nat)
      /\ Enc(s) = St(o, r, 4) /\ Dec(o) = St(f, t, 4)
  BY Zenon DEF Halfway
<1>1. /\ x \in Nat /\ g \in Nat /\ h \in Nat /\ y \in Nat /\ z \in Nat
      /\ x % TwoTo(2) = d % TwoTo(2) /\ (y \div TwoTo(1)) % TwoTo(8) = b /\ y % TwoTo(1) = u
      /\ z % TwoTo(6) = d \div TwoTo(2)
  BY <1>2, Bits4
<1>3. d \in Nat /\ r \in Nat /\ t \in Nat /\ u \in Nat
  <2>1. 4 \in 0 .. 8 /\ 7 \in 0 .. 8
    BY SMT
  <2> QED BY <1>2, <2>1, ByteBits DEF IsByte
<1> HIDE DEF r, t, u
<1>4. Encodes(o, r, d, x)
  <2>1. x = r * TwoTo(8) + d
    BY Zenon DEF x
  <2> HIDE DEF x
  <2> QED BY <1>1, <1>2, <1>3, <2>1, EncodesIs
<1>5. Enc(Append(s, d)) = St(p, d % TwoTo(2), 2)
  <2>1. Enc(Append(s, d)) = TakenBits(St(o, r, 4), d, 8, 5)
    BY <1>2, <1>3, CodesMore
  <2>2. TakenBits(St(o, r, 4), d, 8, 5) = St(p, x % TwoTo(2), 2)
    BY <1>4, Zenon DEF Encodes
  <2> QED BY <1>1, <2>1, <2>2, Zenon
<1>6. Decodes(f, t, g, y) /\ Decodes(s, u, h, z)
  <2>1. y = t * TwoTo(5) + g /\ z = u * TwoTo(5) + h
    BY Zenon DEF y, z
  <2> HIDE DEF y, z, g, h
  <2> QED BY <1>1, <1>2, <1>3, <2>1, DecodesIs
<1> HIDE DEF g, h, y, z
<1>7. q \in Seq(Nat) /\ Dec(q) = St(s, u, 1)
  <2>1. Dec(q) = TakenBits(St(f, t, 4), g, 5, 8) /\ q \in Seq(Nat)
    BY <1>1, <1>2, CodesMore
  <2>2. TakenBits(St(f, t, 4), g, 5, 8) = St(Append(f, (y \div TwoTo(1)) % TwoTo(8)), y % TwoTo(1), 1)
    BY <1>6, Zenon DEF Decodes
  <2> QED BY <1>1, <1>2, <2>1, <2>2, Zenon
<1> HIDE DEF q
<1>8. p \in Seq(Nat) /\ Dec(p) = St(s, d \div TwoTo(2), 6)
  <2>1. Dec(p) = TakenBits(St(s, u, 1), h, 5, 8) /\ p \in Seq(Nat)
    BY <1>1, <1>7, CodesMore
  <2>2. TakenBits(St(s, u, 1), h, 5, 8) = St(s, z % TwoTo(6), 6)
    BY <1>6, Zenon DEF Decodes
  <2> QED BY <1>1, <2>1, <2>2, Zenon
<1> QED BY <1>5, <1>8, Zenon DEF Halfway

\* Bytes, and the states they can be in.
Octets == {n \in Nat : IsByte(n)}
Grouped(s) ==
    \/ \E o : Even(s, o)
    \/ \E o, f, b : Halfway(s, o, f, b, 3, 5)
    \/ \E o, f, b : Halfway(s, o, f, b, 1, 7)
    \/ \E o, f, b : Halfway(s, o, f, b, 4, 4)
    \/ \E o, f, b : Halfway(s, o, f, b, 2, 6)

\* Every list of bytes is in one of these states.
LEMMA EveryGrouped ==
    ASSUME NEW s \in Seq(Octets)
    PROVE  Grouped(s)
<1> DEFINE T == {k \in Nat : \A w \in Seq(Octets) : Len(w) = k => Grouped(w)}
<1>1. Grouped(<<>>)
  <2>1. <<>> \in Seq(Nat) /\ 0 \in Nat
    BY SMT
  <2>2. Enc(<<>>) = St(<<>>, 0, 0) /\ Dec(<<>>) = St(<<>>, 0, 0)
    BY <2>1, CodesMore
  <2>3. Even(<<>>, <<>>)
    BY <2>1, <2>2, Zenon DEF Even
  <2> QED BY <2>3, Zenon DEF Grouped
<1>2. ASSUME NEW w \in Seq(Nat), Grouped(w), NEW d, IsByte(d) PROVE Grouped(Append(w, d))
  <2>1. ASSUME NEW o, Even(w, o) PROVE Grouped(Append(w, d))
    <3>1. \E p : Halfway(Append(w, d), p, w, d, 3, 5)
      BY <1>2, <2>1, Group0
    <3> QED BY <3>1, Zenon DEF Grouped
  <2>2. ASSUME NEW o, NEW f, NEW b, Halfway(w, o, f, b, 3, 5) PROVE Grouped(Append(w, d))
    <3>1. \E p : Halfway(Append(w, d), p, w, d, 1, 7)
      BY <1>2, <2>2, Group3
    <3> QED BY <3>1, Zenon DEF Grouped
  <2>3. ASSUME NEW o, NEW f, NEW b, Halfway(w, o, f, b, 1, 7) PROVE Grouped(Append(w, d))
    <3>1. \E p : Halfway(Append(w, d), p, w, d, 4, 4)
      BY <1>2, <2>3, Group1
    <3> QED BY <3>1, Zenon DEF Grouped
  <2>4. ASSUME NEW o, NEW f, NEW b, Halfway(w, o, f, b, 4, 4) PROVE Grouped(Append(w, d))
    <3>1. \E p : Halfway(Append(w, d), p, w, d, 2, 6)
      BY <1>2, <2>4, Group4
    <3> QED BY <3>1, Zenon DEF Grouped
  <2>5. ASSUME NEW o, NEW f, NEW b, Halfway(w, o, f, b, 2, 6) PROVE Grouped(Append(w, d))
    <3>1. \E p : Even(Append(w, d), p)
      BY <1>2, <2>5, Group2
    <3> QED BY <3>1, Zenon DEF Grouped
  <2> QED BY <1>2, <2>1, <2>2, <2>3, <2>4, <2>5, Zenon DEF Grouped
<1>3. 0 \in T
  <2> SUFFICES ASSUME NEW w \in Seq(Octets), Len(w) = 0 PROVE Grouped(w)
    OBVIOUS
  <2>1. w = <<>>
    BY EmptySeq
  <2> QED BY <1>1, <2>1
<1>4. ASSUME NEW k \in Nat, k \in T PROVE k + 1 \in T
  <2> SUFFICES ASSUME NEW w \in Seq(Octets), Len(w) = k + 1 PROVE Grouped(w)
    OBVIOUS
  <2>1. w # <<>>
    BY EmptySeq
  <2>2. PICK u \in Seq(Octets), r \in Octets : w = Append(u, r)
    BY <2>1, SequenceEmptyOrAppend
  <2>3. Len(u) = k
    <3>1. Len(w) = Len(u) + 1 /\ Len(u) \in Nat
      BY <2>2, AppendProperties, LenProperties
    <3> QED BY <3>1
  <2>4. Grouped(u)
    BY <1>4, <2>3
  <2>5. u \in Seq(Nat)
    <3>1. Octets \subseteq Nat
      BY Zenon DEF Octets
    <3> QED BY <3>1, SeqMonotonic
  <2>6. IsByte(r)
    BY Zenon DEF Octets
  <2> QED BY <1>2, <2>2, <2>4, <2>5, <2>6, Zenon
<1>5. Len(s) \in Nat
  BY LenProperties
<1>6. Len(s) \in T
  <2> HIDE DEF T
  <2> QED BY <1>3, <1>4, <1>5, NatAll
<1> QED BY <1>6

\* What the groups of a list of bytes say.
Unpadded(s, o, m) == o \in Seq(Nat) /\ ToGroups(s) = o /\ Dec(o) = St(s, 0, m)

\* The parts of a state.
LEMMA StIs ==
    ASSUME NEW o, NEW r, NEW k
    PROVE  St(o, r, k).out = o /\ St(o, r, k).rest = r /\ St(o, r, k).bits = k
BY DEF St

\* Where bits are left over, the padded group says the last byte.
LEMMA ToGroupsOfHalf ==
    ASSUME NEW s, NEW o, NEW f, NEW b, NEW k \in {1, 2, 3, 4}, NEW m, Halfway(s, o, f, b, k, m), m = 8 - k
    PROVE  \E p : Unpadded(s, p, 5 - k)
<1> DEFINE g == (b % TwoTo(k)) * TwoTo(5 - k)
           t == b \div TwoTo(k)
           y == t * TwoTo(5) + g
           p == Append(o, g)
<1>1. /\ s = Append(f, b) /\ IsByte(b) /\ f \in Seq(Nat) /\ o \in Seq(Nat)
      /\ Enc(s) = St(o, b % TwoTo(k), k) /\ Dec(o) = St(f, t, m)
  BY Zenon DEF Halfway
<1>2. g \in Nat /\ y \in Nat /\ (y \div TwoTo(5 - k)) % TwoTo(8) = b /\ y % TwoTo(5 - k) = 0
  BY <1>1, BitsPadded
<1>3. t \in Nat /\ b \in Nat
  <2>1. k \in 0 .. 8
    BY SMT
  <2> QED BY <1>1, <2>1, ByteBits
<1>4. ToGroups(s) = p
  <2>1. k > 0
    BY SMT
  <2>2. Enc(s).bits = k /\ Enc(s).out = o /\ Enc(s).rest = b % TwoTo(k)
    <3> DEFINE r == b % TwoTo(k)
    <3>1. Enc(s) = St(o, r, k)
      BY <1>1
    <3> HIDE DEF r
    <3>2. St(o, r, k).bits = k /\ St(o, r, k).out = o /\ St(o, r, k).rest = r
      BY StIs
    <3>3. Enc(s).bits = k /\ Enc(s).out = o /\ Enc(s).rest = r
      BY <3>1, <3>2
    <3> QED BY <3>3 DEF r
  <2>3. ToGroups(s) = IF Enc(s).bits > 0 THEN Append(Enc(s).out, Enc(s).rest * TwoTo(5 - Enc(s).bits)) ELSE Enc(s).out
    BY Zenon DEF ToGroups, Enc
  <2> QED BY <2>1, <2>2, <2>3, Zenon
<1>5. Decodes(f, t, g, y)
  <2>1. y = t * TwoTo(5) + g
    BY Zenon DEF y
  <2> HIDE DEF y, g, t
  <2> QED BY <1>1, <1>2, <1>3, <2>1, DecodesIs
<1> HIDE DEF g, y
<1>6. Dec(p) = TakenBits(St(f, t, m), g, 5, 8) /\ p \in Seq(Nat)
  BY <1>1, <1>2, CodesMore
<1>7. TakenBits(St(f, t, m), g, 5, 8) = St(Append(f, (y \div TwoTo(5 - k)) % TwoTo(8)), y % TwoTo(5 - k), 5 - k)
  <2>1. CASE k = 1
    <3>1. m = 7 /\ 5 - k = 4
      BY <2>1, SMT
    <3> QED BY <1>5, <3>1, Zenon DEF Decodes
  <2>2. CASE k = 2
    <3>1. m = 6 /\ 5 - k = 3
      BY <2>2, SMT
    <3> QED BY <1>5, <3>1, Zenon DEF Decodes
  <2>3. CASE k = 3
    <3>1. m = 5 /\ 5 - k = 2
      BY <2>3, SMT
    <3> QED BY <1>5, <3>1, Zenon DEF Decodes
  <2>4. CASE k = 4
    <3>1. m = 4 /\ 5 - k = 1
      BY <2>4, SMT
    <3> QED BY <1>5, <3>1, Zenon DEF Decodes
  <2> QED BY <2>1, <2>2, <2>3, <2>4, Zenon
<1>8. Dec(p) = St(s, 0, 5 - k)
  BY <1>1, <1>2, <1>6, <1>7, Zenon
<1> QED BY <1>4, <1>6, <1>8, Zenon DEF Unpadded

\* Whatever the bytes, their groups say all of them, and fewer than five bits more.
LEMMA ToGroupsIs ==
    ASSUME NEW s \in Seq(Octets)
    PROVE  \E o : \E m \in {0, 1, 2, 3, 4} : Unpadded(s, o, m)
<1>1. Grouped(s)
  BY EveryGrouped
<1>2. ASSUME NEW o, Even(s, o) PROVE Unpadded(s, o, 0)
  <2>1. o \in Seq(Nat) /\ Enc(s) = St(o, 0, 0) /\ Dec(o) = St(s, 0, 0)
    BY <1>2, Zenon DEF Even
  <2>2. Enc(s).bits = 0 /\ Enc(s).out = o
    <3>1. St(o, 0, 0).bits = 0 /\ St(o, 0, 0).out = o
      BY StIs
    <3> QED BY <2>1, <3>1
  <2>3. ToGroups(s) = IF Enc(s).bits > 0 THEN Append(Enc(s).out, Enc(s).rest * TwoTo(5 - Enc(s).bits)) ELSE Enc(s).out
    BY Zenon DEF ToGroups, Enc
  <2>4. ~(0 > 0)
    BY SMT
  <2> QED BY <2>1, <2>2, <2>3, <2>4, Zenon DEF Unpadded
<1>3. 7 = 8 - 1 /\ 6 = 8 - 2 /\ 5 = 8 - 3 /\ 4 = 8 - 4 /\ 5 - 1 = 4 /\ 5 - 2 = 3 /\ 5 - 3 = 2 /\ 5 - 4 = 1
  BY SMT
<1>4. ASSUME NEW k \in {1, 2, 3, 4}, NEW m, m = 8 - k, NEW o, NEW f, NEW b, Halfway(s, o, f, b, k, m)
      PROVE  \E p : Unpadded(s, p, 5 - k)
  BY <1>4, ToGroupsOfHalf
<1>5. ASSUME NEW k \in {1, 2, 3, 4}, NEW p, Unpadded(s, p, 5 - k)
      PROVE  \E o : \E m \in {0, 1, 2, 3, 4} : Unpadded(s, o, m)
  <2>1. 5 - k \in {0, 1, 2, 3, 4}
    BY SMT
  <2> QED BY <1>5, <2>1, Zenon
<1>6. ASSUME NEW o, Even(s, o) PROVE \E q : \E m \in {0, 1, 2, 3, 4} : Unpadded(s, q, m)
  BY <1>2, <1>6, Zenon
<1>7. ASSUME NEW k \in {1, 2, 3, 4}, NEW m, m = 8 - k, NEW o, NEW f, NEW b, Halfway(s, o, f, b, k, m)
      PROVE  \E q : \E n \in {0, 1, 2, 3, 4} : Unpadded(s, q, n)
  <2>1. PICK p : Unpadded(s, p, 5 - k)
    BY <1>4, <1>7
  <2> QED BY <1>5, <2>1
<1> QED BY <1>1, <1>3, <1>6, <1>7, Zenon DEF Grouped

\* What is decoded, from where the regrouping ends.
LEMMA FromGroupsIs ==
    ASSUME NEW w, NEW o, NEW r, NEW k, Dec(w) = St(o, r, k)
    PROVE  FromGroups(w) = IF k >= 5 \/ r # 0 THEN Refused ELSE o
<1>1. St(o, r, k).out = o /\ St(o, r, k).rest = r /\ St(o, r, k).bits = k
  BY StIs
<1>2. Dec(w).out = o /\ Dec(w).rest = r /\ Dec(w).bits = k
  BY <1>1
<1>3. FromGroups(w) = IF Dec(w).bits >= 5 \/ Dec(w).rest # 0 THEN Refused ELSE Dec(w).out
  BY Zenon DEF FromGroups, Dec
<1> QED BY <1>2, <1>3, Zenon

\* It is not what was encoded, where something is left or something else came out.
LEMMA OneMore ==
    ASSUME NEW w, NEW s, s # Refused, NEW q, NEW r, NEW k, Dec(w) = St(q, r, k)
    PROVE  k >= 5 \/ r # 0 \/ q # s => FromGroups(w) # s
<1>1. FromGroups(w) = IF k >= 5 \/ r # 0 THEN Refused ELSE q
  BY FromGroupsIs
<1> QED BY <1>1, Zenon

\* What is regrouped comes back, and never with a group more.
LEMMA GroupsRead ==
    ASSUME NEW s \in Seq(Octets)
    PROVE  /\ FromGroups(ToGroups(s)) = s
           /\ \A extra \in {1, 31} : FromGroups(Append(ToGroups(s), extra)) # s
<1>1. s \in Seq(Nat) /\ s # Refused
  <2>1. Octets \subseteq Nat
    BY Zenon DEF Octets
  <2>2. s \in Seq(Nat)
    BY <2>1, SeqMonotonic
  <2> QED BY <2>2, RefusedAssumption
<1>0. PICK o : \E m \in {0, 1, 2, 3, 4} : Unpadded(s, o, m)
  BY ToGroupsIs
<1>2. PICK m \in {0, 1, 2, 3, 4} : Unpadded(s, o, m)
  BY <1>0
<1>3. o \in Seq(Nat) /\ ToGroups(s) = o /\ Dec(o) = St(s, 0, m)
  BY <1>2, Zenon DEF Unpadded
<1>4. FromGroups(o) = s
  <2>1. FromGroups(o) = IF m >= 5 \/ 0 # 0 THEN Refused ELSE s
    BY <1>3, FromGroupsIs
  <2>2. ~(m >= 5)
    BY SMT
  <2> QED BY <2>1, <2>2, Zenon
<1>5. ASSUME NEW e \in {1, 31} PROVE FromGroups(Append(o, e)) # s
  <2> DEFINE w == Append(o, e)
             x == 0 * TwoTo(5) + e
  <2>1. e \in Nat /\ x \in Nat /\ x % TwoTo(1) # 0 /\ 0 \in Nat
    <3>1. TwoTo(5) = 32 /\ TwoTo(1) = 2
      BY PowersAre, SMT
    <3> QED BY <3>1, SMT
  <2>2. Dec(w) = TakenBits(St(s, 0, m), e, 5, 8)
    BY <1>3, <2>1, CodesMore
  <2>3. Decodes(s, 0, e, x)
    <3>1. x = 0 * TwoTo(5) + e
      BY Zenon DEF x
    <3> HIDE DEF x
    <3> QED BY <1>1, <2>1, <3>1, DecodesIs
  <2> SUFFICES FromGroups(w) # s
    BY Zenon DEF w
  <2> HIDE DEF w, x
  <2>5. 5 >= 5 /\ 6 >= 5 /\ 7 >= 5
    BY SMT
  <2>6. CASE m = 0
    <3>1. Dec(w) = St(s, x % TwoTo(5), 5)
      BY <2>2, <2>3, <2>6, Zenon DEF Decodes
    <3> QED BY <1>1, <2>5, <3>1, OneMore
  <2>7. CASE m = 1
    <3>1. Dec(w) = St(s, x % TwoTo(6), 6)
      BY <2>2, <2>3, <2>7, Zenon DEF Decodes
    <3> QED BY <1>1, <2>5, <3>1, OneMore
  <2>8. CASE m = 2
    <3>1. Dec(w) = St(s, x % TwoTo(7), 7)
      BY <2>2, <2>3, <2>8, Zenon DEF Decodes
    <3> QED BY <1>1, <2>5, <3>1, OneMore
  <2>9. CASE m = 3
    <3> DEFINE h == (x \div TwoTo(0)) % TwoTo(8)
               q == Append(s, h)
               S == Nat \union {h}
    <3>1. Dec(w) = St(q, x % TwoTo(0), 0)
      BY <2>2, <2>3, <2>9, Zenon DEF Decodes
    <3>2. s \in Seq(S) /\ h \in S
      <4>1. Nat \subseteq S
        OBVIOUS
      <4> QED BY <1>1, <4>1, SeqMonotonic
    <3> HIDE DEF h, S
    <3>3. Len(q) = Len(s) + 1 /\ Len(s) \in Nat
      BY <3>2, AppendProperties, LenProperties
    <3> HIDE DEF q
    <3>4. q # s
      BY <3>3
    <3> QED BY <1>1, <3>1, <3>4, OneMore
  <2>10. CASE m = 4
    <3> DEFINE q == Append(s, (x \div TwoTo(1)) % TwoTo(8))
    <3>1. Dec(w) = St(q, x % TwoTo(1), 1)
      BY <2>2, <2>3, <2>10, Zenon DEF Decodes
    <3> HIDE DEF q
    <3> QED BY <1>1, <2>1, <3>1, OneMore
  <2> QED BY <2>6, <2>7, <2>8, <2>9, <2>10, Zenon
<1> QED BY <1>3, <1>4, <1>5, Zenon

-----------------------------------------------------------------------------
(* Bytes *)

\* Bytes that are not nothing but zeros.
Written(w, high) == w \in Seq(0 .. high - 1) /\ \E i \in 1 .. Len(w) : w[i] # 0

\* They are a text of a number that is not zero, and come back from base58.
LEMMA WrittenIs ==
    ASSUME NEW b \in Bases, NEW w, Written(w, b)
    PROVE  \E z, v \in Nat : v # 0 /\ w = Text(z, v, b)
<1>1. w \in Seq(0 .. b - 1) /\ \E i \in 1 .. Len(w) : w[i] # 0
  BY Zenon DEF Written
<1>2. PICK z \in Nat, v \in Nat : w = Text(z, v, b)
  BY <1>1, EveryText
<1>3. v # 0
  <2> SUFFICES ASSUME v = 0 PROVE FALSE
    OBVIOUS
  <2>1. Text(z, 0, b) = Zeros(z)
    BY TextMore
  <2>2. w = Zeros(z)
    BY <1>2, <2>1, Zenon
  <2>3. Len(w) = z /\ \A i \in 1 .. z : w[i] = 0
    BY <2>2, ZerosAre
  <2> QED BY <1>1, <2>3, Zenon
<1> QED BY <1>2, <1>3

LEMMA BytesRead ==
    ASSUME NEW high, high = 256, NEW w, Written(w, high)
    PROVE  Base58Decode(Base58Encode(w)) = w
<1>1. high \in Bases
  BY SMT DEF Bases
<1>2. \E z, v \in Nat : v # 0 /\ w = Text(z, v, high)
  BY <1>1, WrittenIs
<1>3. PICK z \in Nat, v \in Nat : v # 0 /\ w = Text(z, v, high)
  BY <1>2, SMT
<1>4. Base58Decode(Base58Encode(Text(z, v, high))) = Text(z, v, high)
  BY <1>3, Base58Read
<1> QED BY <1>3, <1>4, SMT

\* Bytes are bytes.
LEMMA BytesRegrouped ==
    ASSUME NEW high, high = 256, NEW w \in Seq(0 .. high - 1)
    PROVE  w \in Seq(Octets)
<1>1. 0 .. high - 1 \subseteq Octets
  <2> SUFFICES ASSUME NEW b, b \in 0 .. high - 1 PROVE b \in Octets
    OBVIOUS
  <2>1. b \in Nat /\ b < high
    BY SMT
  <2> QED BY <2>1 DEF Octets, IsByte
<1> QED BY <1>1, SeqMonotonic

\* The lists of bytes that are tried have a byte that is not zero, if the number is not.
Tried(n, high) == {Digits(n, high), <<0>> \o Digits(n, high), Reverse(<<0, 0>> \o Digits(n, high))}

LEMMA TriedAre ==
    ASSUME NEW high \in Bases, NEW n \in Nat, NEW w \in Tried(n, high)
    PROVE  w \in Seq(0 .. high - 1) /\ (n > 0 => Written(w, high))
<1> DEFINE B == 0 .. high - 1
           d == Digits(n, high)
           m == Len(d)
           u == <<0, 0>> \o d
           p == <<0>> \o d
           r == Reverse(u)
<1>1. high \in Bases /\ 0 \in B
  <2>1. 1 <= high /\ high \in Nat
    BY SMT DEF Bases
  <2> QED BY <2>1
<1>2. d \in Seq(B) /\ m \in Nat
  BY <1>1, DigitsAre, LenProperties
<1>3. n > 0 => m > 0 /\ d[m] # 0
  <2> SUFFICES ASSUME n > 0 PROVE m > 0 /\ d[m] # 0
    OBVIOUS
  <2>1. n \in Nat \ {0}
    OBVIOUS
  <2>2. m > 0 /\ Last(d) > 0
    BY <1>1, <2>1, DigitsTop
  <2> QED BY <2>2 DEF Last
<1> HIDE DEF B, d
<1>4. p \in Seq(B) /\ Len(p) = 1 + m /\ (m > 0 => p[1 + m] = d[m])
  <2>1. <<0>> \in Seq(B) /\ Len(<<0>>) = 1
    BY <1>1
  <2>2. p \in Seq(B) /\ Len(p) = 1 + m /\ \A i \in 1 .. 1 + m : p[i] = IF i <= 1 THEN <<0>>[i] ELSE d[i - 1]
    BY <1>2, <2>1, ConcatProperties
  <2> HIDE DEF p
  <2>3. m > 0 => 1 + m \in 1 .. 1 + m /\ ~(1 + m <= 1) /\ 1 + m - 1 = m
    BY <1>2
  <2> QED BY <2>2, <2>3
<1>5. u \in Seq(B) /\ Len(u) = 2 + m /\ (m > 0 => u[2 + m] = d[m])
  <2>1. <<0, 0>> \in Seq(B) /\ Len(<<0, 0>>) = 2
    BY <1>1
  <2>2. u \in Seq(B) /\ Len(u) = 2 + m /\ \A i \in 1 .. 2 + m : u[i] = IF i <= 2 THEN <<0, 0>>[i] ELSE d[i - 2]
    BY <1>2, <2>1, ConcatProperties
  <2> HIDE DEF u
  <2>3. m > 0 => 2 + m \in 1 .. 2 + m /\ ~(2 + m <= 2) /\ 2 + m - 2 = m
    BY <1>2
  <2> QED BY <2>2, <2>3
<1> HIDE DEF u, p
<1>6. r \in Seq(B) /\ Len(r) = 2 + m /\ r[1] = u[2 + m]
  <2>1. r \in Seq(B) /\ Len(r) = Len(u) /\ \A i \in 1 .. Len(u) : r[i] = u[Len(u) + 1 - i]
    BY <1>5, ReverseIn
  <2> HIDE DEF r
  <2>2. 1 \in 1 .. 2 + m /\ 2 + m + 1 - 1 = 2 + m
    BY <1>2
  <2>3. r[1] = u[2 + m + 1 - 1]
    BY <1>5, <2>1, <2>2
  <2> QED BY <1>5, <2>1, <2>2, <2>3
<1> HIDE DEF r
<1>7. n > 0 => (\E i \in 1 .. m : d[i] # 0) /\ (\E i \in 1 .. 1 + m : p[i] # 0) /\ \E i \in 1 .. 2 + m : r[i] # 0
  <2> SUFFICES ASSUME n > 0 PROVE (\E i \in 1 .. m : d[i] # 0) /\ (\E i \in 1 .. 1 + m : p[i] # 0) /\ \E i \in 1 .. 2 + m : r[i] # 0
    OBVIOUS
  <2>1. m \in 1 .. m /\ 1 + m \in 1 .. 1 + m /\ 1 \in 1 .. 2 + m
    BY <1>2, <1>3
  <2> HIDE DEF m
  <2>2. d[m] # 0 /\ p[1 + m] # 0 /\ r[1] # 0
    BY <1>3, <1>4, <1>5, <1>6
  <2> QED BY <2>1, <2>2
<1>8. ASSUME NEW x \in Seq(B), NEW k, Len(x) = k, n > 0 => \E i \in 1 .. k : x[i] # 0
      PROVE  x \in Seq(0 .. high - 1) /\ (n > 0 => Written(x, high))
  BY <1>8, Zenon DEF Written, B
<1>9. w \in {d, p, r}
  BY Zenon DEF d, p, r, u, Tried
<1> HIDE DEF m
<1>10. CASE w = d
  BY <1>2, <1>7, <1>8, <1>10 DEF m
<1>11. CASE w = p
  BY <1>4, <1>7, <1>8, <1>11
<1>12. CASE w = r
  BY <1>6, <1>7, <1>8, <1>12
<1> QED BY <1>9, <1>10, <1>11, <1>12, Zenon

\* What is required of bytes, as BasesSound says it.
BytesSound(n, w) ==
    /\ n > 0 => Base58Decode(Base58Encode(w)) = w
    /\ FromGroups(ToGroups(w)) = w
    /\ \A extra \in {1, 31} : FromGroups(Append(ToGroups(w), extra)) # w

LEMMA BasesHold ==
    ASSUME NEW n \in Nat
    PROVE  BasesSound(n)
<1>1. ASSUME NEW high, high = 256, NEW w \in Tried(n, high) PROVE BytesSound(n, w)
  <2>1. high \in Bases
    BY <1>1, SMT DEF Bases
  <2>2. w \in Seq(0 .. high - 1) /\ (n > 0 => Written(w, high))
    BY <2>1, TriedAre
  <2>3. n > 0 => Base58Decode(Base58Encode(w)) = w
    BY <1>1, <2>2, BytesRead
  <2>4. w \in Seq(Octets)
    BY <1>1, <2>2, BytesRegrouped
  <2> QED BY <2>3, <2>4, GroupsRead, Zenon DEF BytesSound
<1>2. \A w \in Tried(n, 256) : BytesSound(n, w)
  BY <1>1, SMT
<1>3. BasesSound(n) <=> \A w \in Tried(n, 256) : BytesSound(n, w)
  BY DEF BasesSound, BytesSound, Tried
<1> QED BY <1>2, <1>3, SMT

-----------------------------------------------------------------------------
(* The texts *)

\* Every number, not only those near a boundary, is read back as it was written: as a
\* script number and in metadata, as bytes in base58 and in groups of five bits, as an
\* amount, a request, a treasury's letters and a setting.
THEOREM NumbersAreRead ==
    \A n \in Nat : InputSound(n)
BY MetadataHolds, BasesHold, AmountsHold, RequestsHold, TreasuriesHold, NumbersHold, Zenon DEF InputSound

\* Whatever the boundaries are and however far the inputs go from them: what is written
\* down is read back as it was meant, and what is not of its kind is refused.
THEOREM TextsAreSound ==
    TextsSpec => []TextsSound
<1> DEFINE Tries == sample = <<>> \/ sample \in Nat \X Nat
<1>1. TextsInit => Tries
  BY DEF TextsInit
<1>2. Tries /\ [NextSample]_sample => Tries'
  <2> SUFFICES ASSUME Tries, [NextSample]_sample PROVE Tries'
    OBVIOUS
  <2>1. ASSUME NEW b \in Boundaries, sample' = <<b, 0>> PROVE Tries'
    BY <2>1, TextsAssumption
  <2>2. ASSUME sample # <<>>, sample' = [sample EXCEPT ![2] = @ + 1] PROVE Tries'
    <3>1. PICK b \in Nat, d \in Nat : sample = <<b, d>>
      BY <2>2
    <3>2. sample' = <<b, d + 1>>
      BY <2>2, <3>1
    <3> QED BY <3>2
  <2>3. CASE UNCHANGED sample
    BY <2>3
  <2> QED BY <2>1, <2>2, <2>3 DEF NextSample
<1>3. Tries => TextsSound
  <2> SUFFICES ASSUME Tries, sample # <<>> PROVE InputSound(Sample) /\ (sample[2] = 0 => VersionsSound /\ AddressesSound /\ BundlesSound /\ DescriptorsSound /\ AnswersSound)
    BY DEF TextsSound
  <2>1. Sample \in Nat
    BY DEF Sample
  <2> QED BY <2>1, NumbersAreRead, VersionsHold, AddressesHold, BundlesHold, DescriptorsHold, AnswersHold
<1> QED BY <1>1, <1>2, <1>3, PTL DEF TextsSpec
=============================================================================
