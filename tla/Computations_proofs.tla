-------------------------- MODULE Computations_proofs --------------------------
(***************************************************************************)
(* The dashboard's numbers, for any finite set of results: the statistics  *)
(* of result_service/statistics.rs and agent/mod.rs, the scores of         *)
(* scoring.rs and the comparison of routes/compare.rs; and the traces, of  *)
(* any length, as their three readers see them and as the reporter gives   *)
(* them to the results of a directory.  What the code adds up with a loop  *)
(* the model adds up with a fold; the folds are unfolded here by induction *)
(* over the finite sets they run over, as the well-founded order of finite *)
(* subsets.  Power is the module's stand-in for the power law; of it only  *)
(* the bounds and the rise are used.                                       *)
(***************************************************************************)
EXTENDS Computations, FiniteSetTheorems, WellFoundedInduction, TLAPS

\* What a score can be, per mille; a part of a whole; what is left of it; and what a
\* success is worth, the least and the most of it.
Marks == 0..1000
Share(a, d) == (1000 * a) \div d
Rest(p) == 1000 - p
Composite(s, k) == (7000 + 2 * s + k) \div 10
Passing == 700..1000

-----------------------------------------------------------------------------
(* Quotients and remainders. *)

LEMMA Quotient ==
  ASSUME NEW a \in Nat, NEW d \in Nat \ {0}
  PROVE  a \div d \in Nat /\ d * (a \div d) <= a /\ a < d * (a \div d) + d
OBVIOUS

LEMMA ProductRises ==
  ASSUME NEW a \in Nat, NEW b \in Nat, NEW c \in Nat, a <= b PROVE a * c <= b * c
OBVIOUS

LEMMA QuotientRises ==
  ASSUME NEW a \in Nat, NEW b \in Nat, NEW d \in Nat \ {0}, a <= b PROVE a \div d <= b \div d
<1> DEFINE p == a \div d
           q == b \div d
<1>1. p \in Nat /\ d * p <= a /\ q \in Nat /\ b < d * q + d
  BY Quotient
<1> HIDE DEF p, q
<1>2. CASE p > q
  <2>1. (q + 1) * d <= p * d
    BY <1>1, <1>2, ProductRises
  <2> QED BY <1>1, <2>1
<1> QED BY <1>1, <1>2

\* A part of a whole is at most 1000 per mille of it, and a larger part is more.
LEMMA PerMille ==
  ASSUME NEW d \in Nat \ {0}, NEW a \in Nat, NEW b \in Nat, a <= b, b <= d
  PROVE  Share(a, d) \in Marks /\ Share(b, d) \in Marks /\ Share(a, d) <= Share(b, d)
<1>1. Share(d, d) = 1000
  BY DEF Share
<1>2. ASSUME NEW x \in Nat, NEW y \in Nat, x <= y PROVE Share(x, d) \in Nat /\ Share(x, d) <= Share(y, d)
  <2>1. PICK v, w \in Nat : v = 1000 * x /\ w = 1000 * y
    OBVIOUS
  <2>2. v <= w
    BY ONLY x \in Nat, y \in Nat, <1>2, <2>1
  <2>3. v \div d \in Nat
    BY ONLY v \in Nat, d \in Nat \ {0}, Quotient
  <2>4. v \div d <= w \div d
    BY <2>2, QuotientRises, Zenon
  <2>5. Share(x, d) = v \div d /\ Share(y, d) = w \div d
    BY ONLY <2>1 DEF Share
  <2> QED BY ONLY <2>3, <2>4, <2>5
<1>3. Share(a, d) \in Nat /\ Share(b, d) \in Nat /\ Share(a, d) <= Share(b, d)
  BY <1>2, Zenon
<1>4. Share(b, d) <= 1000
  <2>1. Share(b, d) <= Share(d, d)
    BY <1>2, Zenon
  <2> QED BY ONLY <1>1, <2>1
<1>5. ASSUME NEW p \in Nat, p <= 1000 PROVE p \in Marks
  BY <1>5 DEF Marks
<1>6. Share(a, d) <= 1000
  BY ONLY <1>3, <1>4
<1>7. Share(a, d) \in Marks /\ Share(b, d) \in Marks
  BY ONLY <1>3, <1>4, <1>5, <1>6
<1> QED BY <1>3, <1>7, Zenon

LEMMA MarksAreNumbers == ASSUME NEW p \in Marks PROVE p # NaN
BY DEF Marks, NaN

LEMMA RestFalls ==
  ASSUME NEW p \in Marks, NEW q \in Marks, q <= p
  PROVE  Rest(p) \in Marks /\ Rest(q) \in Marks /\ Rest(p) <= Rest(q)
BY DEF Marks, Rest

\* The stand-in stays between 0 and the whole, and rises.
LEMMA PowerRises ==
  ASSUME NEW d \in Nat \ {0}, NEW m \in Nat, NEW n \in Nat, m <= n, n <= d
  PROVE  Power(m, d) \in Marks /\ Power(n, d) \in Marks /\ Power(m, d) <= Power(n, d)
<1>1. ASSUME NEW x \in Nat, NEW y \in Nat, x <= y PROVE x * x \in Nat /\ x * x <= y * y
  <2>1. x * x <= y * x /\ x * y <= y * y
    BY <1>1, ProductRises, Zenon
  <2>2. x * x \in Nat /\ y * y \in Nat /\ x * y \in Nat /\ x * y = y * x
    OBVIOUS
  <2> QED BY ONLY <2>1, <2>2
<1>2. PICK x, y \in Nat : x = d - m /\ y = d - n
  OBVIOUS
<1>3. y <= x /\ x <= d
  BY <1>2
<1>4. x * x \in Nat /\ y * y \in Nat /\ y * y <= x * x /\ x * x <= d * d
  BY <1>1, <1>3
<1>5. d * d \in Nat \ {0}
  BY ONLY d \in Nat \ {0}
<1>6. PICK e \in Nat \ {0} : e = d * d
  BY <1>5, Zenon
<1>7. PICK u, v \in Nat : u = x * x /\ v = y * y
  BY <1>4, Zenon
<1>8. v <= u /\ u <= e
  BY <1>4, <1>6, <1>7, Zenon
<1>9. Power(m, d) = Rest(Share(u, e)) /\ Power(n, d) = Rest(Share(v, e))
  <2>1. (d - m) * (d - m) * 1000 = 1000 * u /\ (d - n) * (d - n) * 1000 = 1000 * v
    BY ONLY d \in Nat, m \in Nat, n \in Nat, u \in Nat, v \in Nat, <1>2, <1>7
  <2>2. m >= 0 /\ n >= 0 /\ ~(m > d) /\ ~(n > d)
    OBVIOUS
  <2>3. Power(m, d) = Rest((1000 * u) \div e)
    BY ONLY <1>6, <2>1, <2>2 DEF Power, Rest
  <2>4. Power(n, d) = Rest((1000 * v) \div e)
    BY ONLY <1>6, <2>1, <2>2 DEF Power, Rest
  <2> QED BY ONLY <2>3, <2>4 DEF Share
<1>10. Share(v, e) \in Marks /\ Share(u, e) \in Marks /\ Share(v, e) <= Share(u, e)
  BY <1>8, PerMille, Zenon
<1>11. /\ Rest(Share(u, e)) \in Marks /\ Rest(Share(v, e)) \in Marks
       /\ Rest(Share(u, e)) <= Rest(Share(v, e))
  BY <1>10, RestFalls, Zenon
<1> QED BY ONLY <1>9, <1>11

LEMMA Remainder ==
  ASSUME NEW a \in Nat, NEW d \in Nat \ {0}
  PROVE  \E q \in Nat, r \in Nat : q = a \div d /\ r = a % d /\ d * q + r = a /\ r < d
<1>1. a % d = a - d * (a \div d)
  OBVIOUS
<1>2. a \div d \in Nat /\ a % d \in 0..(d - 1)
  OBVIOUS
<1>3. PICK q \in Nat, r \in 0..(d - 1) : q = a \div d /\ r = a % d
  BY <1>2
<1>4. d * q + r = a
  BY <1>1, <1>3
<1> QED BY <1>3, <1>4

-----------------------------------------------------------------------------
(* Extremes of finite sets. *)

LEMMA GreatestExists ==
  ASSUME NEW S, S \subseteq Nat, IsFiniteSet(S), S # {}
  PROVE  Max(S) \in S /\ \A n \in S : Max(S) >= n
<1> DEFINE HasMax(T) == \E m \in T : \A n \in T : m >= n
           Without == {T \in FiniteSubsetsOf(S) : T # {} /\ ~HasMax(T)}
<1>1. ASSUME Without # {} PROVE FALSE
  <2>1. PICK T \in Without : \A U \in Without : ~(<<U, T>> \in StrictSubsetOrdering(S))
    BY <1>1, FS_StrictSubsetOrderingWellFounded, WFMin
  <2>2. PICK x \in T : TRUE
    BY <2>1
  <2>3. T \in SUBSET S /\ IsFiniteSet(T \ {x}) /\ x \in Nat /\ T \subseteq Nat
    BY <2>1, <2>2, FS_RemoveElement DEF FiniteSubsetsOf
  <2>4. CASE T = {x}
    BY <2>1, <2>3, <2>4
  <2>5. CASE T # {x}
    <3>1. T \ {x} \notin Without
      BY <2>1, <2>2, <2>3 DEF StrictSubsetOrdering
    <3>2. PICK m \in T \ {x} : \A n \in T \ {x} : m >= n
      BY <2>2, <2>3, <2>5, <3>1 DEF FiniteSubsetsOf
    <3>3. CASE x >= m
      <4>1. \A n \in T : x >= n
        BY <2>3, <3>2, <3>3
      <4> QED BY <2>1, <2>2, <4>1
    <3>4. CASE ~(x >= m)
      <4>1. \A n \in T : m >= n
        BY <2>3, <3>2, <3>4
      <4> QED BY <2>1, <3>2, <4>1
    <3> QED BY <3>3, <3>4
  <2> QED BY <2>4, <2>5
<1>2. HasMax(S)
  BY <1>1 DEF FiniteSubsetsOf
<1> QED BY <1>2 DEF Max

LEMMA LeastExists ==
  ASSUME NEW S, S \subseteq Nat, S # {}
  PROVE  Min(S) \in S /\ \A n \in S : Min(S) <= n
<1>1. PICK x \in S : \A y \in S : ~(<<y, x>> \in OpToRel(<, Nat))
  BY NatLessThanWellFounded, WFMin, Zenon
<1>2. \A y \in S : ~(y < x)
  BY <1>1 DEF OpToRel
<1>3. \A y \in S : x <= y
  BY <1>2
<1> QED BY <1>3 DEF Min

LEMMA ImageIsFinite ==
  ASSUME NEW S, IsFiniteSet(S), NEW T, NEW f \in [S -> T], \A y \in T : \E x \in S : f[x] = y
  PROVE  IsFiniteSet(T)
<1>1. f \in Surjection(S, T)
  BY DEF Surjection
<1> QED BY <1>1, FS_Surjection

LEMMA Interval ==
  ASSUME NEW a \in Nat, NEW b \in Nat, a <= b
  PROVE  IsFiniteSet(a..(b - 1)) /\ Cardinality(a..(b - 1)) = b - a
<1>1. a \in Int /\ b - 1 \in Int
  OBVIOUS
<1>2. IsFiniteSet(a..(b - 1)) /\ Cardinality(a..(b - 1)) = IF a > b - 1 THEN 0 ELSE (b - 1) - a + 1
  BY ONLY <1>1, FS_Interval
<1>3. (IF a > b - 1 THEN 0 ELSE (b - 1) - a + 1) = b - a
  OBVIOUS
<1> QED BY <1>2, <1>3

-----------------------------------------------------------------------------
(* Folds over finite sets. *)

\* A smallest one among sets of finite sets.
LEMMA SmallestSet ==
  ASSUME NEW S, IsFiniteSet(S), NEW F, F \subseteq SUBSET S, F # {}
  PROVE  \E s \in F : \A t \in SUBSET s : t # s => t \notin F
<1>1. F \subseteq FiniteSubsetsOf(S)
  BY FS_Subset DEF FiniteSubsetsOf
<1>2. PICK s \in F : \A t \in F : ~(<<t, s>> \in StrictSubsetOrdering(S))
  BY <1>1, FS_StrictSubsetOrderingWellFounded, WFMin, Zenon
<1>3. ASSUME NEW t \in SUBSET s, t # s, t \in F PROVE FALSE
  <2>1. <<t, s>> \in StrictSubsetOrdering(S)
    BY <1>3 DEF StrictSubsetOrdering
  <2> QED BY <1>2, <1>3, <2>1
<1> QED BY <1>2, <1>3

\* The step of a recursion over the subsets of S: an element is picked and taken out.
Unfolded(h, S, pick, base, step) ==
  [s \in SUBSET S |-> IF s = {} THEN base ELSE step[<<pick[s], h[s \ {pick[s]}]>>]]

Foldable(S, B, pick, base, step) ==
  /\ IsFiniteSet(S) /\ base \in B /\ step \in [S \X B -> B]
  /\ \A s \in SUBSET S : s # {} => pick[s] \in s

IsFold(h, S, B, pick, base, step) == h \in [SUBSET S -> B] /\ h = Unfolded(h, S, pick, base, step)

\* There is a function that is what its own step makes of it.
LEMMA FoldExists ==
  ASSUME NEW S, NEW B, NEW pick, NEW base, NEW step, Foldable(S, B, pick, base, step)
  PROVE  \E h : IsFold(h, S, B, pick, base, step)
<1> USE DEF Foldable
<1> DEFINE Good(n) == \E h \in [SUBSET S -> B] :
                        \A s \in SUBSET S : Cardinality(s) <= n => h[s] = Unfolded(h, S, pick, base, step)[s]
           Bad == {n \in Nat : ~Good(n)}
<1>1. \A s \in SUBSET S : IsFiniteSet(s) /\ Cardinality(s) \in Nat /\ Cardinality(s) <= Cardinality(S)
  BY FS_Subset, FS_CardinalityType
<1>2. ASSUME NEW h \in [SUBSET S -> B] PROVE Unfolded(h, S, pick, base, step) \in [SUBSET S -> B]
  BY DEF Unfolded
<1>3. Good(0)
  <2> DEFINE h == [s \in SUBSET S |-> base]
  <2>1. ASSUME NEW s \in SUBSET S, Cardinality(s) <= 0 PROVE h[s] = Unfolded(h, S, pick, base, step)[s]
    <3>1. s = {}
      BY <1>1, <2>1, FS_EmptySet
    <3> QED BY <3>1 DEF Unfolded
  <2>2. h \in [SUBSET S -> B]
    OBVIOUS
  <2> QED BY <2>1, <2>2, Zenon
<1>4. ASSUME NEW n \in Nat, Good(n) PROVE Good(n + 1)
  <2>1. PICK h \in [SUBSET S -> B] :
          \A s \in SUBSET S : Cardinality(s) <= n => h[s] = Unfolded(h, S, pick, base, step)[s]
    BY <1>4
  <2> DEFINE g == Unfolded(h, S, pick, base, step)
  <2>2. g \in [SUBSET S -> B]
    BY <1>2
  <2>3. ASSUME NEW s \in SUBSET S, Cardinality(s) <= n + 1
        PROVE  g[s] = Unfolded(g, S, pick, base, step)[s]
    <3>1. CASE s = {}
      BY <3>1 DEF Unfolded
    <3>2. CASE s # {}
      <4> DEFINE rest == s \ {pick[s]}
      <4>1. pick[s] \in s /\ rest \in SUBSET S
        BY <3>2
      <4>2. Cardinality(rest) = Cardinality(s) - 1
        BY <1>1, <4>1, FS_RemoveElement
      <4>3. Cardinality(rest) <= n
        BY <1>1, <2>3, <4>2
      <4> HIDE DEF rest
      <4>4. h[rest] = g[rest]
        BY <2>1, <4>1, <4>3
      <4> QED BY <3>2, <4>4 DEF Unfolded, rest
    <3> QED BY <3>1, <3>2
  <2> QED BY <2>2, <2>3, Zenon
<1> HIDE DEF Good
<1>5. ASSUME Bad # {} PROVE FALSE
  <2>1. Min(Bad) \in Bad /\ \A n \in Bad : Min(Bad) <= n
    BY <1>5, LeastExists
  <2>2. PICK m \in Nat : m \in Bad /\ \A n \in Bad : m <= n
    BY <2>1
  <2>3. m # 0
    BY <1>3, <2>2
  <2>4. m - 1 \in Nat /\ ~(m <= m - 1) /\ (m - 1) + 1 = m
    BY <2>3
  <2>5. Good(m - 1)
    BY <2>2, <2>4
  <2>6. Good(m)
    BY <1>4, <2>4, <2>5
  <2> QED BY <2>2, <2>6
<1>6. Good(Cardinality(S))
  BY <1>1, <1>5
<1>7. PICK h \in [SUBSET S -> B] :
        \A s \in SUBSET S : Cardinality(s) <= Cardinality(S) => h[s] = Unfolded(h, S, pick, base, step)[s]
  BY <1>6 DEF Good
<1>8. \A s \in SUBSET S : h[s] = Unfolded(h, S, pick, base, step)[s]
  BY <1>1, <1>7
<1>9. \A s \in SUBSET S : h[s] = IF s = {} THEN base ELSE step[<<pick[s], h[s \ {pick[s]}]>>]
  BY <1>8 DEF Unfolded
<1>10. h = [s \in SUBSET S |-> h[s]]
  OBVIOUS
<1>11. h = Unfolded(h, S, pick, base, step)
  BY <1>9, <1>10, Zenon DEF Unfolded
<1> QED BY <1>11, Zenon DEF IsFold

-----------------------------------------------------------------------------
(* Sums. *)

Chosen(s) == CHOOSE x \in s : TRUE

\* A function that adds up f over the subsets of S, one element at a time.
Adds(h, S, f) ==
  h = [s \in SUBSET S |-> IF s = {} THEN 0 ELSE f[Chosen(s)] + h[s \ {Chosen(s)}]]

LEMMA SumExists ==
  ASSUME NEW S, IsFiniteSet(S), NEW f \in [S -> Nat]
  PROVE  \E h \in [SUBSET S -> Nat] : Adds(h, S, f)
<1> DEFINE step == [p \in S \X Nat |-> f[p[1]] + p[2]]
           pick == [s \in SUBSET S |-> Chosen(s)]
<1>1. step \in [S \X Nat -> Nat] /\ 0 \in Nat
  OBVIOUS
<1>2. \A s \in SUBSET S : s # {} => pick[s] \in s
  BY DEF Chosen
<1> HIDE DEF step, pick
<1>3. PICK h : IsFold(h, S, Nat, pick, 0, step)
  <2>1. Foldable(S, Nat, pick, 0, step)
    BY <1>1, <1>2, Zenon DEF Foldable
  <2> QED BY <2>1, FoldExists, Zenon
<1>4. ASSUME NEW s \in SUBSET S, s # {} PROVE step[<<pick[s], h[s \ {pick[s]}]>>] = f[Chosen(s)] + h[s \ {Chosen(s)}]
  <2>1. pick[s] = Chosen(s) /\ Chosen(s) \in S
    BY <1>2, <1>4 DEF pick
  <2>2. h[s \ {Chosen(s)}] \in Nat
    BY <1>3 DEF IsFold
  <2>3. <<Chosen(s), h[s \ {Chosen(s)}]>> \in S \X Nat
    BY <2>1, <2>2
  <2> QED BY <2>1, <2>3 DEF step
<1>5. \A s \in SUBSET S : h[s] = IF s = {} THEN 0 ELSE step[<<pick[s], h[s \ {pick[s]}]>>]
  BY <1>3, Zenon DEF IsFold, Unfolded
<1>6. \A s \in SUBSET S : h[s] = IF s = {} THEN 0 ELSE f[Chosen(s)] + h[s \ {Chosen(s)}]
  BY <1>4, <1>5
<1>7. h \in [SUBSET S -> Nat] /\ h = [s \in SUBSET S |-> h[s]]
  BY <1>3 DEF IsFold
<1>8. Adds(h, S, f)
  BY <1>6, <1>7, Zenon DEF Adds
<1> QED BY <1>7, <1>8, Zenon

AddsAt(h, f, s) == h[s] = IF s = {} THEN 0 ELSE f[Chosen(s)] + h[s \ {Chosen(s)}]

LEMMA AddsOne ==
  ASSUME NEW S, NEW f, NEW h, Adds(h, S, f), NEW s \in SUBSET S
  PROVE  AddsAt(h, f, s)
<1> DEFINE F(t) == IF t = {} THEN 0 ELSE f[Chosen(t)] + h[t \ {Chosen(t)}]
<1>1. h = [t \in SUBSET S |-> F(t)]
  BY Zenon DEF Adds
<1> HIDE DEF F
<1>2. h[s] = F(s)
  BY <1>1, Zenon
<1> QED BY <1>2 DEF F, AddsAt

\* It is the only one, and it does not matter in which order the elements are taken.
LEMMA SumUnique ==
  ASSUME NEW S, NEW T, IsFiniteSet(S), T \subseteq S, NEW f \in [S -> Nat],
         NEW g, NEW h, Adds(g, T, f), Adds(h, S, f)
  PROVE  \A s \in SUBSET T : g[s] = h[s] /\ h[s] \in Nat
<1> DEFINE Bad == {s \in SUBSET T : ~(g[s] = h[s] /\ h[s] \in Nat)}
<1>1. ASSUME Bad # {} PROVE FALSE
  <2>1. PICK s \in Bad : \A t \in SUBSET s : t # s => t \notin Bad
    <3>1. IsFiniteSet(T) /\ Bad \subseteq SUBSET T
      BY FS_Subset
    <3> HIDE DEF Bad
    <3> QED BY <1>1, <3>1, SmallestSet, Zenon
  <2>2. s \in SUBSET T /\ s \in SUBSET S
    BY <2>1
  <2>3. CASE s = {}
    <3>1. AddsAt(g, f, s) /\ AddsAt(h, f, s)
      BY <2>2, AddsOne, Zenon
    <3> QED BY <2>1, <2>3, <3>1 DEF AddsAt
  <2>4. CASE s # {}
    <3>1. Chosen(s) \in s
      BY <2>4 DEF Chosen
    <3>2. g[s \ {Chosen(s)}] = h[s \ {Chosen(s)}] /\ h[s \ {Chosen(s)}] \in Nat
      BY <2>1, <2>2, <3>1
    <3>3. g[s] = f[Chosen(s)] + g[s \ {Chosen(s)}] /\ h[s] = f[Chosen(s)] + h[s \ {Chosen(s)}]
      <4>1. AddsAt(g, f, s) /\ AddsAt(h, f, s)
        BY <2>2, AddsOne, Zenon
      <4> QED BY <2>4, <4>1, Zenon DEF AddsAt
    <3>4. f[Chosen(s)] \in Nat
      BY <2>2, <3>1
    <3> QED BY <2>1, <3>2, <3>3, <3>4
  <2> QED BY <2>3, <2>4
<1> QED BY <1>1

SumOf(f, S) == SumFunctionOnSet(f, S)

Adder(h, S, f) == h \in [SUBSET S -> Nat] /\ Adds(h, S, f) /\ \A T \in SUBSET S : SumOf(f, T) = h[T]

LEMMA SumIs ==
  ASSUME NEW S, IsFiniteSet(S), NEW f \in [S -> Nat]
  PROVE  \E h : Adder(h, S, f)
<1>1. PICK h \in [SUBSET S -> Nat] : Adds(h, S, f)
  BY SumExists
<1>2. ASSUME NEW T \in SUBSET S PROVE SumOf(f, T) = h[T]
  <2> DEFINE F == [x \in T |-> f[x]]
             g == CHOOSE g : g = [s \in SUBSET T |-> IF s = {} THEN 0 ELSE f[Chosen(s)] + g[s \ {Chosen(s)}]]
  <2>1. \E k : Adds(k, T, f)
    <3>1. IsFiniteSet(T) /\ F \in [T -> Nat]
      BY FS_Subset
    <3>2. PICK k : Adds(k, T, F)
      BY <3>1, SumExists
    <3>3. \A s \in SUBSET T : s # {} => F[Chosen(s)] = f[Chosen(s)]
      BY DEF Chosen
    <3>4. Adds(k, T, f)
      BY <3>2, <3>3, Zenon DEF Adds
    <3> QED BY <3>4
  <2>2. Adds(g, T, f)
    BY <2>1, Zenon DEF Adds
  <2>3. SumOf(f, T) = g[T]
    BY DEF SumOf, SumFunctionOnSet, FoldFunctionOnSet, MapThenFoldSet, Chosen
  <2>4. g[T] = h[T]
    BY <1>1, <2>2, SumUnique
  <2> QED BY <2>3, <2>4
<1> QED BY <1>1, <1>2, Zenon DEF Adder

\* Induction over the subsets of a finite set, for the set P of those a claim holds of.
Inductive(P, S) ==
  {} \in P /\ \A T \in SUBSET S, x \in S : T \in P /\ x \notin T => T \cup {x} \in P

LEMMA SubsetInduction ==
  ASSUME NEW S, IsFiniteSet(S), NEW P, Inductive(P, S)
  PROVE  SUBSET S \subseteq P
<1> USE DEF Inductive
<1> DEFINE Bad == (SUBSET S) \ P
<1>1. ASSUME Bad # {} PROVE FALSE
  <2>1. PICK s \in Bad : \A t \in SUBSET s : t # s => t \notin Bad
    <3>1. Bad \subseteq SUBSET S
      OBVIOUS
    <3> HIDE DEF Bad
    <3> QED BY <1>1, <3>1, SmallestSet, Zenon
  <2>2. PICK x \in s : TRUE
    <3>1. s \notin P
      BY <2>1, Zenon
    <3>2. s # {}
      BY <3>1, Zenon
    <3> QED BY <3>2, Zenon
  <2>3. s \ {x} \in P /\ s \ {x} \in SUBSET S /\ x \in S /\ x \notin s \ {x}
    BY <2>1, <2>2
  <2>4. (s \ {x}) \cup {x} \in P
    BY <2>3, Zenon
  <2>5. (s \ {x}) \cup {x} = s
    BY <2>2
  <2> QED BY <2>1, <2>4, <2>5
<1> QED BY <1>1

\* Numbers over a finite set.
Numbered(S, f) == IsFiniteSet(S) /\ f \in [S -> Nat]

LEMMA SumOne ==
  ASSUME NEW S, NEW f, Numbered(S, f), NEW T \in SUBSET S
  PROVE  /\ SumOf(f, T) \in Nat
         /\ T = {} => SumOf(f, T) = 0
         /\ \A x \in T : SumOf(f, T) = f[x] + SumOf(f, T \ {x})
<1>1. PICK h : Adder(h, S, f)
  BY SumIs, Zenon DEF Numbered
<1>a. h \in [SUBSET S -> Nat] /\ Adds(h, S, f) /\ \A U \in SUBSET S : SumOf(f, U) = h[U]
  BY <1>1, Zenon DEF Adder
<1> DEFINE Bad == {s \in SUBSET S : \E x \in s : h[s] # f[x] + h[s \ {x}]}
<1>2. ASSUME Bad # {} PROVE FALSE
  <2>1. PICK s \in Bad : \A t \in SUBSET s : t # s => t \notin Bad
    <3>1. Bad \subseteq SUBSET S /\ IsFiniteSet(S)
      BY DEF Numbered
    <3> HIDE DEF Bad
    <3> QED BY <1>2, <3>1, SmallestSet, Zenon
  <2>2. PICK x \in s : h[s] # f[x] + h[s \ {x}]
    BY <2>1
  <2> DEFINE p == Chosen(s)
  <2>3. s \in SUBSET S /\ p \in s
    BY <2>1, <2>2 DEF Chosen
  <2>4. h[s] = f[p] + h[s \ {p}]
    <3>1. AddsAt(h, f, s)
      BY <1>a, <2>3, AddsOne, Zenon
    <3>2. s # {}
      BY <2>3
    <3> QED BY <3>1, <3>2, Zenon DEF AddsAt
  <2> HIDE DEF p
  <2>5. p # x
    BY <2>2, <2>4
  <2> DEFINE t == s \ {p}
             u == s \ {x}
             rest == t \ {x}
  <2>6. /\ t \in SUBSET s /\ t # s /\ x \in t /\ u \in SUBSET s /\ u # s /\ p \in u
        /\ u \ {p} = rest /\ rest \in SUBSET S /\ t \in SUBSET S /\ u \in SUBSET S
    BY <2>2, <2>3, <2>5
  <2>7. h[t] = f[x] + h[t \ {x}]
    BY <2>1, <2>6
  <2>8. h[u] = f[p] + h[u \ {p}]
    BY <2>1, <2>6
  <2> HIDE DEF rest, t, u
  <2>9. f[x] \in Nat /\ f[p] \in Nat /\ h[rest] \in Nat /\ h[t] \in Nat /\ h[u] \in Nat
    BY <1>a, <2>2, <2>3, <2>6 DEF Numbered
  <2>10. h[t] = f[x] + h[rest] /\ h[u] = f[p] + h[rest]
    BY <2>6, <2>7, <2>8 DEF rest
  <2>11. h[s] # f[x] + h[u] /\ h[s] = f[p] + h[t]
    BY <2>2, <2>4 DEF t, u
  <2> QED BY ONLY <2>9, <2>10, <2>11
<1>3. \A x \in T : h[T] = f[x] + h[T \ {x}]
  <2>1. T \notin Bad
    BY <1>2, Zenon
  <2> QED BY <2>1
<1>4. T = {} => h[T] = 0
  <2>1. AddsAt(h, f, T)
    BY <1>a, AddsOne, Zenon
  <2> QED BY <2>1, Zenon DEF AddsAt
<1>5. \A x \in T : SumOf(f, T \ {x}) = h[T \ {x}]
  BY <1>a
<1> QED BY <1>a, <1>3, <1>4, <1>5

LEMMA SumMore ==
  ASSUME NEW S, NEW f, Numbered(S, f), NEW T \in SUBSET S, NEW x \in S, x \notin T
  PROVE  SumOf(f, T \cup {x}) = f[x] + SumOf(f, T) /\ SumOf(f, T) \in Nat /\ f[x] \in Nat
<1>1. T \cup {x} \in SUBSET S /\ x \in T \cup {x} /\ (T \cup {x}) \ {x} = T
  OBVIOUS
<1> DEFINE U == T \cup {x}
<1> HIDE DEF U
<1>2. SumOf(f, U) = f[x] + SumOf(f, U \ {x})
  BY <1>1, SumOne DEF U
<1>3. SumOf(f, T) \in Nat
  BY SumOne, Zenon
<1>4. f[x] \in Nat
  BY DEF Numbered
<1> QED BY <1>1, <1>2, <1>3, <1>4 DEF U

\* No number is smaller, so the sum is not; the two may be numbered over different sets.
LEMMA SumRises ==
  ASSUME NEW S, NEW f, Numbered(S, f), NEW R, NEW g, Numbered(R, g),
         NEW U \in SUBSET (S \cap R), \A x \in U : f[x] <= g[x]
  PROVE  SumOf(f, U) <= SumOf(g, U)
<1> DEFINE P == {T \in SUBSET U : SumOf(f, T) <= SumOf(g, T)}
<1>1. {} \in P
  <2>1. SumOf(f, {}) = 0 /\ SumOf(g, {}) = 0
    BY SumOne
  <2> QED BY <2>1
<1>2. ASSUME NEW T \in SUBSET U, NEW x \in U, T \in P, x \notin T PROVE T \cup {x} \in P
  <2>1. SumOf(f, T \cup {x}) = f[x] + SumOf(f, T) /\ SumOf(f, T) \in Nat /\ f[x] \in Nat
    BY <1>2, SumMore
  <2>2. SumOf(g, T \cup {x}) = g[x] + SumOf(g, T) /\ SumOf(g, T) \in Nat /\ g[x] \in Nat
    BY <1>2, SumMore
  <2>3. SumOf(f, T) <= SumOf(g, T) /\ f[x] <= g[x] /\ T \cup {x} \in SUBSET U
    BY <1>2
  <2> QED BY <2>1, <2>2, <2>3
<1>3. IsFiniteSet(U)
  BY FS_Subset DEF Numbered
<1> HIDE DEF P
<1>4. SUBSET U \subseteq P
  <2>1. Inductive(P, U)
    BY <1>1, <1>2, Zenon DEF Inductive
  <2> QED BY <1>3, <2>1, SubsetInduction, Zenon
<1> QED BY <1>4 DEF P

LEMMA SumSame ==
  ASSUME NEW S, NEW f, Numbered(S, f), NEW R, NEW g, Numbered(R, g),
         NEW U \in SUBSET (S \cap R), \A x \in U : f[x] = g[x]
  PROVE  SumOf(f, U) = SumOf(g, U)
<1>1. \A x \in U : f[x] \in Nat /\ g[x] \in Nat /\ f[x] <= g[x] /\ g[x] <= f[x]
  BY DEF Numbered
<1>2. SumOf(f, U) <= SumOf(g, U)
  BY <1>1, SumRises
<1>3. SumOf(g, U) <= SumOf(f, U)
  <2>1. U \in SUBSET (R \cap S)
    OBVIOUS
  <2> QED BY <1>1, <2>1, SumRises
<1>4. SumOf(f, U) \in Nat /\ SumOf(g, U) \in Nat
  BY SumOne
<1> QED BY <1>2, <1>3, <1>4

\* Ones add up to the number of elements.
LEMMA SumOnes ==
  ASSUME NEW S, NEW f, Numbered(S, f), NEW U \in SUBSET S, \A x \in U : f[x] = 1
  PROVE  SumOf(f, U) = Cardinality(U)
<1> DEFINE P == {T \in SUBSET U : SumOf(f, T) = Cardinality(T)}
<1>1. {} \in P
  BY SumOne, FS_EmptySet
<1>2. ASSUME NEW T \in SUBSET U, NEW x \in U, T \in P, x \notin T PROVE T \cup {x} \in P
  <2>1. SumOf(f, T \cup {x}) = f[x] + SumOf(f, T)
    BY <1>2, SumMore
  <2>2. SumOf(f, T) = Cardinality(T) /\ f[x] = 1 /\ T \cup {x} \in SUBSET U
    BY <1>2
  <2>3. IsFiniteSet(T) /\ Cardinality(T) \in Nat
    BY FS_Subset, FS_CardinalityType DEF Numbered
  <2>4. Cardinality(T \cup {x}) = Cardinality(T) + 1
    BY <1>2, <2>3, FS_AddElement
  <2> QED BY <2>1, <2>2, <2>3, <2>4
<1>3. IsFiniteSet(U)
  BY FS_Subset DEF Numbered
<1> HIDE DEF P
<1>4. SUBSET U \subseteq P
  <2>1. Inductive(P, U)
    BY <1>1, <1>2, Zenon DEF Inductive
  <2> QED BY <1>3, <2>1, SubsetInduction, Zenon
<1> QED BY <1>4 DEF P

\* Numbers in disjoint groups: the sums of the groups add up to the sum of all.
Group(S, key, k) == {x \in S : key[x] = k}

LEMMA SumUnion ==
  ASSUME NEW S, NEW f, Numbered(S, f), NEW T \in SUBSET S, NEW U \in SUBSET S, T \cap U = {}
  PROVE  SumOf(f, T \cup U) = SumOf(f, T) + SumOf(f, U)
<1> DEFINE P == {V \in SUBSET U : SumOf(f, T \cup V) = SumOf(f, T) + SumOf(f, V)}
<1>1. {} \in P
  <2>1. T \cup {} = T /\ SumOf(f, {}) = 0 /\ SumOf(f, T) \in Nat
    BY SumOne
  <2> QED BY <2>1
<1>2. ASSUME NEW V \in SUBSET U, NEW x \in U, V \in P, x \notin V PROVE V \cup {x} \in P
  <2>1. SumOf(f, V \cup {x}) = f[x] + SumOf(f, V) /\ SumOf(f, V) \in Nat /\ f[x] \in Nat
    BY <1>2, SumMore
  <2>2. T \cup V \in SUBSET S /\ x \notin T \cup V /\ x \in S /\ V \cup {x} \in SUBSET U
        /\ T \cup (V \cup {x}) = (T \cup V) \cup {x}
    BY <1>2
  <2>3. SumOf(f, (T \cup V) \cup {x}) = f[x] + SumOf(f, T \cup V)
    BY <2>2, SumMore
  <2>4. SumOf(f, T \cup V) = SumOf(f, T) + SumOf(f, V) /\ SumOf(f, T) \in Nat
    BY <1>2, SumOne
  <2>5. SumOf(f, T \cup (V \cup {x})) = SumOf(f, (T \cup V) \cup {x})
    BY <2>2, Zenon
  <2>6. SumOf(f, T \cup (V \cup {x})) = SumOf(f, T) + SumOf(f, V \cup {x})
    BY ONLY <2>1, <2>3, <2>4, <2>5
  <2> QED BY <2>2, <2>6, Zenon
<1>3. IsFiniteSet(U)
  BY FS_Subset DEF Numbered
<1> HIDE DEF P
<1>4. SUBSET U \subseteq P
  <2>1. Inductive(P, U)
    BY <1>1, <1>2, Zenon DEF Inductive
  <2> QED BY <1>3, <2>1, SubsetInduction, Zenon
<1> QED BY <1>4 DEF P

LEMMA GroupsSum ==
  ASSUME NEW S, NEW f, Numbered(S, f), NEW key, NEW K, NEW g, Numbered(K, g), \A x \in S : key[x] \in K,
         \A k \in K : g[k] = SumOf(f, Group(S, key, k))
  PROVE  SumOf(g, K) = SumOf(f, S)
<1> DEFINE Of(L) == {x \in S : key[x] \in L}
           P == {L \in SUBSET K : SumOf(g, L) = SumOf(f, Of(L))}
<1>1. {} \in P
  <2>1. Of({}) = {}
    OBVIOUS
  <2>2. SumOf(g, {}) = 0 /\ SumOf(f, {}) = 0
    BY SumOne
  <2> QED BY <2>1, <2>2
<1>2. ASSUME NEW L \in SUBSET K, NEW k \in K, L \in P, k \notin L PROVE L \cup {k} \in P
  <2>1. SumOf(g, L \cup {k}) = g[k] + SumOf(g, L) /\ SumOf(g, L) \in Nat /\ g[k] \in Nat
    BY <1>2, SumMore
  <2>2. /\ Of(L) \in SUBSET S /\ Group(S, key, k) \in SUBSET S
        /\ Of(L) \cap Group(S, key, k) = {} /\ Of(L \cup {k}) = Of(L) \cup Group(S, key, k)
    BY <1>2 DEF Group
  <2> HIDE DEF Of
  <2>3. SumOf(f, Of(L) \cup Group(S, key, k)) = SumOf(f, Of(L)) + SumOf(f, Group(S, key, k))
    BY <2>2, SumUnion
  <2>4. SumOf(g, L) = SumOf(f, Of(L)) /\ g[k] = SumOf(f, Group(S, key, k))
    BY <1>2 DEF P
  <2>5. SumOf(f, Of(L \cup {k})) = SumOf(f, Of(L) \cup Group(S, key, k))
    BY <2>2, Zenon
  <2>6. SumOf(g, L \cup {k}) = SumOf(f, Of(L \cup {k}))
    BY ONLY <2>1, <2>3, <2>4, <2>5
  <2> QED BY <2>6 DEF Of
<1>3. IsFiniteSet(K)
  BY DEF Numbered
<1>4. Of(K) = S
  OBVIOUS
<1> HIDE DEF P
<1>5. SUBSET K \subseteq P
  <2>1. Inductive(P, K)
    BY <1>1, <1>2, Zenon DEF Inductive
  <2> QED BY <1>3, <2>1, SubsetInduction, Zenon
<1>6. SumOf(g, K) = SumOf(f, Of(K))
  BY <1>5 DEF P
<1> QED BY <1>4, <1>6

\* What sets cover together is no more than the sum of what each covers.
LEMMA SumCovers ==
  ASSUME NEW K, NEW g, Numbered(K, g), NEW C,
         \A k \in K : IsFiniteSet(C[k]) /\ Cardinality(C[k]) <= g[k]
  PROVE  IsFiniteSet(UNION {C[k] : k \in K}) /\ Cardinality(UNION {C[k] : k \in K}) <= SumOf(g, K)
<1> DEFINE Of(L) == UNION {C[k] : k \in L}
           P == {L \in SUBSET K : IsFiniteSet(Of(L)) /\ Cardinality(Of(L)) <= SumOf(g, L)}
<1>1. {} \in P
  <2>1. Of({}) = {} /\ SumOf(g, {}) = 0
    BY SumOne
  <2> QED BY <2>1, FS_EmptySet
<1>2. ASSUME NEW L \in SUBSET K, NEW k \in K, L \in P, k \notin L PROVE L \cup {k} \in P
  <2>1. SumOf(g, L \cup {k}) = g[k] + SumOf(g, L) /\ SumOf(g, L) \in Nat /\ g[k] \in Nat
    BY <1>2, SumMore
  <2>2. Of(L \cup {k}) = Of(L) \cup C[k]
    OBVIOUS
  <2>3. IsFiniteSet(Of(L)) /\ Cardinality(Of(L)) <= SumOf(g, L) /\ IsFiniteSet(C[k]) /\ Cardinality(C[k]) <= g[k]
    BY <1>2
  <2> HIDE DEF Of
  <2>4. /\ IsFiniteSet(Of(L) \cup C[k])
        /\ Cardinality(Of(L) \cup C[k]) = Cardinality(Of(L)) + Cardinality(C[k]) - Cardinality(Of(L) \cap C[k])
        /\ IsFiniteSet(Of(L) \cap C[k])
    BY <2>3, FS_Union, FS_Intersection
  <2>5. Cardinality(Of(L)) \in Nat /\ Cardinality(C[k]) \in Nat /\ Cardinality(Of(L) \cap C[k]) \in Nat
    BY <2>3, <2>4, FS_CardinalityType
  <2>6. Cardinality(Of(L) \cup C[k]) <= g[k] + SumOf(g, L)
    BY <2>1, <2>3, <2>4, <2>5
  <2> QED BY <2>1, <2>2, <2>4, <2>6
<1>3. IsFiniteSet(K)
  BY DEF Numbered
<1> HIDE DEF P
<1>4. SUBSET K \subseteq P
  <2>1. Inductive(P, K)
    BY <1>1, <1>2, Zenon DEF Inductive
  <2> QED BY <1>3, <2>1, SubsetInduction, Zenon
<1> QED BY <1>4 DEF P

\* Marks of 0 and 1 add up to the number of the marked.
LEMMA SumFlags ==
  ASSUME NEW S, NEW f, Numbered(S, f), NEW U \in SUBSET S, NEW V \in SUBSET U,
         \A x \in U : f[x] = IF x \in V THEN 1 ELSE 0
  PROVE  SumOf(f, U) = Cardinality(V)
<1> DEFINE P == {T \in SUBSET U : SumOf(f, T) = Cardinality(T \cap V)}
<1>1. {} \in P
  <2>1. SumOf(f, {}) = 0 /\ {} \cap V = {}
    BY SumOne
  <2> QED BY <2>1, FS_EmptySet
<1>2. ASSUME NEW T \in SUBSET U, NEW x \in U, T \in P, x \notin T PROVE T \cup {x} \in P
  <2>1. SumOf(f, T \cup {x}) = f[x] + SumOf(f, T)
    BY <1>2, SumMore
  <2>2. SumOf(f, T) = Cardinality(T \cap V) /\ T \cup {x} \in SUBSET U
    BY <1>2
  <2>3. IsFiniteSet(T \cap V)
    <3>1. T \cap V \in SUBSET S /\ IsFiniteSet(S)
      BY DEF Numbered
    <3> QED BY <3>1, FS_Subset
  <2>4. Cardinality(T \cap V) \in Nat
    BY <2>3, FS_CardinalityType
  <2>5. CASE x \in V
    <3>1. (T \cup {x}) \cap V = (T \cap V) \cup {x} /\ x \notin T \cap V /\ f[x] = 1
      BY <1>2, <2>5
    <3>2. Cardinality((T \cap V) \cup {x}) = Cardinality(T \cap V) + 1
      BY <2>3, <3>1, FS_AddElement
    <3>3. Cardinality((T \cup {x}) \cap V) = Cardinality(T \cap V) + 1
      BY <3>1, <3>2, Zenon
    <3>4. SumOf(f, T \cup {x}) = Cardinality((T \cup {x}) \cap V)
      BY ONLY <2>1, <2>2, <2>4, <3>1, <3>3
    <3> QED BY <2>2, <3>4, Zenon
  <2>6. CASE x \notin V
    <3>1. (T \cup {x}) \cap V = T \cap V /\ f[x] = 0
      BY <2>6
    <3>2. Cardinality((T \cup {x}) \cap V) = Cardinality(T \cap V)
      BY <3>1, Zenon
    <3>3. SumOf(f, T \cup {x}) = Cardinality((T \cup {x}) \cap V)
      BY ONLY <2>1, <2>2, <2>4, <3>1, <3>2
    <3> QED BY <2>2, <3>3, Zenon
  <2> QED BY <2>5, <2>6
<1>3. IsFiniteSet(U)
  BY FS_Subset DEF Numbered
<1>4. U \cap V = V
  OBVIOUS
<1> HIDE DEF P
<1>5. SUBSET U \subseteq P
  <2>1. Inductive(P, U)
    BY <1>1, <1>2, Zenon DEF Inductive
  <2> QED BY <1>3, <2>1, SubsetInduction, Zenon
<1>6. SumOf(f, U) = Cardinality(U \cap V)
  BY <1>5 DEF P
<1> QED BY <1>4, <1>6

\* A fold that adds is the sum.
LEMMA FoldedIsSum ==
  ASSUME NEW S, NEW f, Numbered(S, f), NEW g, g = CHOOSE h : Adds(h, S, f)
  PROVE  SumOf(f, S) = g[S]
<1>1. PICK h : Adder(h, S, f)
  BY SumIs, Zenon DEF Numbered
<1>2. Adds(h, S, f) /\ SumOf(f, S) = h[S]
  BY <1>1 DEF Adder
<1>3. Adds(g, S, f)
  BY <1>2, Zenon
<1>4. IsFiniteSet(S) /\ f \in [S -> Nat]
  BY DEF Numbered
<1>5. g[S] = h[S]
  BY <1>2, <1>3, <1>4, SumUnique
<1> QED BY <1>2, <1>5

\* The sums of statistics.rs.
TotalDuration(S) == MapThenSumSet(LAMBDA r : r.dur, S)
TotalLength(S) == MapThenSumSet(LAMBDA r : r.end - r.start, S)

LEMMA DurationSum ==
  ASSUME NEW S, NEW f, Numbered(S, f), \A r \in S : f[r] = r.dur
  PROVE  TotalDuration(S) = SumOf(f, S)
<1> DEFINE F(h) == [s \in SUBSET S |-> IF s = {} THEN 0 ELSE Chosen(s).dur + h[s \ {Chosen(s)}]]
           g == CHOOSE h : h = F(h)
<1>1. \A s \in SUBSET S : s # {} => f[Chosen(s)] = Chosen(s).dur
  BY DEF Chosen
<1>2. \A h : Adds(h, S, f) <=> h = F(h)
  BY <1>1, Zenon DEF Adds
<1>3. TotalDuration(S) = g[S]
  BY DEF TotalDuration, MapThenSumSet, MapThenFoldSet, Chosen
<1> HIDE DEF F
<1>4. g = CHOOSE h : Adds(h, S, f)
  BY <1>2, Zenon
<1> QED BY <1>3, <1>4, FoldedIsSum

LEMMA TokenSum ==
  ASSUME NEW S, NEW f, Numbered(S, f), \A r \in S : f[r] = r.tokens
  PROVE  Tokens(S) = SumOf(f, S)
<1> DEFINE F(h) == [s \in SUBSET S |-> IF s = {} THEN 0 ELSE Chosen(s).tokens + h[s \ {Chosen(s)}]]
           g == CHOOSE h : h = F(h)
<1>1. \A s \in SUBSET S : s # {} => f[Chosen(s)] = Chosen(s).tokens
  BY DEF Chosen
<1>2. \A h : Adds(h, S, f) <=> h = F(h)
  BY <1>1, Zenon DEF Adds
<1>3. Tokens(S) = g[S]
  BY DEF Tokens, MapThenSumSet, MapThenFoldSet, Chosen
<1> HIDE DEF F
<1>4. g = CHOOSE h : Adds(h, S, f)
  BY <1>2, Zenon
<1> QED BY <1>3, <1>4, FoldedIsSum

LEMMA LengthSum ==
  ASSUME NEW S, NEW f, Numbered(S, f), \A r \in S : f[r] = r.end - r.start
  PROVE  TotalLength(S) = SumOf(f, S)
<1> DEFINE F(h) == [s \in SUBSET S |-> IF s = {} THEN 0 ELSE (Chosen(s).end - Chosen(s).start) + h[s \ {Chosen(s)}]]
           g == CHOOSE h : h = F(h)
<1>1. \A s \in SUBSET S : s # {} => f[Chosen(s)] = (Chosen(s).end - Chosen(s).start)
  BY DEF Chosen
<1>2. \A h : Adds(h, S, f) <=> h = F(h)
  BY <1>1, Zenon DEF Adds
<1>3. TotalLength(S) = g[S]
  BY DEF TotalLength, MapThenSumSet, MapThenFoldSet, Chosen
<1> HIDE DEF F
<1>4. g = CHOOSE h : Adds(h, S, f)
  BY <1>2, Zenon
<1> QED BY <1>3, <1>4, FoldedIsSum

-----------------------------------------------------------------------------
(* The wall clock. *)

IsSpans(S) ==
  IsFiniteSet(S) /\ \A s \in S : s.start \in Nat /\ s.end \in Nat /\ s.start <= s.end

Moments(s) == s.start..(s.end - 1)
Covered(S) == UNION {Moments(s) : s \in S}

\* The stretches a merge goes through: the one it is in, and the total of those before.
Stretches == {r \in [start : Nat, end : Nat, total : Nat] : r.start <= r.end}

LEMMA MaxOfTwo ==
  ASSUME NEW a \in Nat, NEW b \in Nat
  PROVE  Max({a, b}) = IF a >= b THEN a ELSE b
<1>1. {a, b} \subseteq Nat /\ IsFiniteSet({a, b}) /\ {a, b} # {}
  <2>1. {a, b} = {a} \cup {b}
    OBVIOUS
  <2>2. IsFiniteSet({a} \cup {b})
    BY FS_Singleton, FS_Union
  <2>3. IsFiniteSet({a, b})
    BY <2>1, <2>2, Zenon
  <2> QED BY <2>3
<1>2. PICK m \in {a, b} : m = Max({a, b}) /\ m >= a /\ m >= b
  BY <1>1, GreatestExists
<1> QED BY <1>2

\* Merging a span that starts no earlier than the stretch it is merged into.
LEMMA Extended ==
  ASSUME NEW r \in Stretches, NEW s, s.start \in Nat, s.end \in Nat, s.start <= s.end
  PROVE  /\ Extend(r, s) \in Stretches
         /\ Extend(r, s) = IF s.start <= r.end
              THEN [start |-> r.start, end |-> IF r.end >= s.end THEN r.end ELSE s.end, total |-> r.total]
              ELSE [start |-> s.start, end |-> s.end, total |-> r.total + r.end - r.start]
<1>1. Max({r.end, s.end}) = IF r.end >= s.end THEN r.end ELSE s.end
  BY MaxOfTwo DEF Stretches
<1>2. Extend(r, s) = IF s.start <= r.end
              THEN [start |-> r.start, end |-> IF r.end >= s.end THEN r.end ELSE s.end, total |-> r.total]
              ELSE [start |-> s.start, end |-> s.end, total |-> r.total + r.end - r.start]
  BY <1>1 DEF Extend, Stretches
<1> QED BY <1>2 DEF Stretches

LEMMA LastIsLast ==
  ASSUME NEW S, IsSpans(S), S # {}
  PROVE  LastStarted(S) \in S /\ \A q \in S : q.start <= LastStarted(S).start
<1> DEFINE T == {s.start : s \in S}
           f == [s \in S |-> s.start]
<1>1. IsFiniteSet(S) /\ f \in [S -> T] /\ \A y \in T : \E x \in S : f[x] = y
  BY DEF IsSpans
<1>2. T \subseteq Nat /\ T # {}
  BY DEF IsSpans
<1>3. IsFiniteSet(T)
  <2> HIDE DEF f, T
  <2> QED BY <1>1, ImageIsFinite
<1>4. Max(T) \in T /\ \A n \in T : Max(T) >= n
  <2> HIDE DEF T
  <2> QED BY <1>2, <1>3, GreatestExists
<1>5. PICK s \in S : \A q \in S : q.start <= s.start
  <2>1. PICK s \in S : s.start = Max(T)
    BY <1>4
  <2>2. ASSUME NEW q \in S PROVE q.start <= s.start
    BY <1>4, <2>1, <2>2 DEF IsSpans
  <2> QED BY <2>2
<1> QED BY <1>5 DEF LastStarted

\* What the merge of the spans T, all of them within a day that starts at first, has done.
Merged(r, T, first) ==
  /\ r \in Stretches
  /\ r.start = first \/ \E q \in T : r.start = q.start
  /\ \A q \in T : q.end <= r.end
  /\ Moments(r) \subseteq Covered(T)
  /\ IsFiniteSet(Covered(T))
  /\ Cardinality({n \in Covered(T) : n < r.start}) = r.total

\* The stretch, and what was finished before it, is what is covered.
LEMMA CoveredSoFar ==
  ASSUME NEW r, NEW T, NEW first, IsSpans(T), Merged(r, T, first)
  PROVE  Cardinality(Covered(T)) = r.total + r.end - r.start
<1> DEFINE before == {n \in Covered(T) : n < r.start}
<1>1. Covered(T) = before \cup Moments(r) /\ before \cap Moments(r) = {}
  BY DEF Merged, Covered, Moments, Stretches, IsSpans
<1>2. IsFiniteSet(before) /\ Cardinality(before) = r.total
  BY FS_Subset DEF Merged
<1>3. IsFiniteSet(Moments(r)) /\ Cardinality(Moments(r)) = r.end - r.start
  BY Interval DEF Moments, Merged, Stretches
<1> HIDE DEF before
<1>4. Cardinality(before \cup Moments(r))
        = Cardinality(before) + Cardinality(Moments(r)) - Cardinality(before \cap Moments(r))
  BY <1>2, <1>3, FS_Union
<1>5. Cardinality(before \cap Moments(r)) = 0
  BY <1>1, FS_EmptySet
<1>6. r.total \in Nat /\ r.end \in Nat /\ r.start \in Nat
  BY DEF Merged, Stretches
<1> QED BY <1>1, <1>2, <1>3, <1>4, <1>5, <1>6

LEMMA MergedMore ==
  ASSUME NEW T, IsSpans(T), NEW x \in T, NEW r, NEW first \in Nat,
         Merged(r, T \ {x}, first), \A q \in T : first <= q.start /\ q.start <= x.start
  PROVE  Merged(Extend(r, x), T, first)
<1> DEFINE rest == T \ {x}
           e == Extend(r, x)
<1>1. x.start \in Nat /\ x.end \in Nat /\ x.start <= x.end
  BY DEF IsSpans
<1>2. IsSpans(rest) /\ r \in Stretches
  <2>1. IsFiniteSet(rest)
    BY FS_Subset DEF IsSpans
  <2> QED BY <2>1 DEF IsSpans, Merged
<1>3. Covered(T) = Covered(rest) \cup Moments(x)
  BY DEF Covered
<1>4. r.start <= x.start
  BY DEF Merged
<1>5. IsFiniteSet(Covered(T))
  <2>1. IsFiniteSet(Moments(x)) /\ IsFiniteSet(Covered(rest))
    BY <1>1, Interval DEF Moments, Merged
  <2> QED BY <1>3, <2>1, FS_Union
<1>6. e \in Stretches
  BY <1>1, <1>2, Extended
<1> DEFINE end == IF r.end >= x.end THEN r.end ELSE x.end
<1>7. CASE x.start <= r.end
  <2>1. e = [start |-> r.start, end |-> end, total |-> r.total]
    BY <1>1, <1>2, <1>7, Extended
  <2>2. e.start = r.start /\ e.end = end /\ e.total = r.total
    BY <2>1
  <2> HIDE DEF e
  <2>3. r.start = first \/ \E q \in T : r.start = q.start
    BY DEF Merged
  <2>4. \A q \in T : q.end <= end
    BY <1>1, <1>2 DEF Merged, Stretches, IsSpans
  <2>5. Moments(e) \subseteq Covered(T)
    <3>1. Moments(r) \subseteq Covered(rest)
      BY DEF Merged
    <3>2. ASSUME NEW n \in Moments(e) PROVE n \in Moments(r) \/ n \in Moments(x)
      BY <1>1, <1>2, <1>4, <1>7, <2>2 DEF Moments, Stretches
    <3> QED BY <1>3, <3>1, <3>2
  <2>6. {n \in Covered(T) : n < r.start} = {n \in Covered(rest) : n < r.start}
    <3>1. ASSUME NEW n \in Moments(x) PROVE ~(n < r.start)
      BY <1>1, <1>2, <1>4 DEF Moments, Stretches
    <3> HIDE DEF rest
    <3> QED BY <1>3, <3>1
  <2>7. Cardinality({n \in Covered(rest) : n < r.start}) = r.total
    BY DEF Merged
  <2> HIDE DEF end, rest
  <2> QED BY <1>5, <1>6, <2>2, <2>3, <2>4, <2>5, <2>6, <2>7 DEF Merged, e
<1>8. CASE ~(x.start <= r.end)
  <2>1. e = [start |-> x.start, end |-> x.end, total |-> r.total + r.end - r.start]
    BY <1>1, <1>2, <1>8, Extended
  <2>2. e.start = x.start /\ e.end = x.end /\ e.total = r.total + r.end - r.start
    BY <2>1
  <2> HIDE DEF e
  <2>3. Moments(e) \subseteq Covered(T)
    BY <1>3, <2>2 DEF Moments
  <2>4. \A q \in T : q.end <= x.end
    BY <1>1, <1>2, <1>8 DEF Merged, Stretches, IsSpans
  <2>5. {n \in Covered(T) : n < x.start} = Covered(rest)
    <3>1. ASSUME NEW n \in Moments(x) PROVE ~(n < x.start)
      BY <1>1 DEF Moments
    <3>2. ASSUME NEW q \in rest, NEW n \in Moments(q) PROVE n < x.start
      BY <1>1, <1>2, <1>8, <3>2 DEF Merged, Moments, Stretches, IsSpans
    <3>3. \A n \in Covered(rest) : n < x.start
      BY <3>2 DEF Covered
    <3> HIDE DEF rest
    <3> QED BY <1>3, <3>1, <3>3
  <2>6. Cardinality(Covered(rest)) = r.total + r.end - r.start
    BY <1>2, CoveredSoFar
  <2> HIDE DEF rest
  <2> QED BY <1>5, <1>6, <2>2, <2>3, <2>4, <2>5, <2>6 DEF Merged, e
<1> QED BY <1>7, <1>8

\* The merge of all spans, as the fold defines it.
Before(first) == [start |-> first, end |-> first, total |-> 0]
MergeSteps(S, h, base) ==
  [s \in SUBSET S |-> IF s = {} THEN base ELSE Extend(h[s \ {LastStarted(s)}], LastStarted(s))]
MergeOf(S, first) == (CHOOSE h : h = MergeSteps(S, h, Before(first)))[S]

LEMMA MergeFolds ==
  ASSUME NEW S, IsSpans(S), S # {}
  PROVE  LET first == Min({s.start : s \in S}) IN Merged(MergeOf(S, first), S, first)
<1> DEFINE first == Min({s.start : s \in S})
           base == Before(first)
           pick == [s \in SUBSET S |-> LastStarted(s)]
           step == [p \in S \X Stretches |-> Extend(p[2], p[1])]
           F(h) == MergeSteps(S, h, base)
           g == CHOOSE h : h = F(h)
<1>1. first \in Nat /\ \A s \in S : first <= s.start
  <2> DEFINE starts == {s.start : s \in S}
  <2>1. starts \subseteq Nat /\ starts # {}
    BY DEF IsSpans
  <2>2. Min(starts) \in starts /\ \A n \in starts : Min(starts) <= n
    <3> HIDE DEF starts
    <3> QED BY <2>1, LeastExists
  <2> QED BY <2>1, <2>2
<1> HIDE DEF first
<1>3. base \in Stretches
  BY <1>1 DEF Stretches, Before
<1>4. \A T \in SUBSET S : IsSpans(T)
  BY FS_Subset DEF IsSpans
<1>5. \A T \in SUBSET S : T # {} => LastStarted(T) \in T /\ LastStarted(T) \in S
  BY <1>4, LastIsLast
<1>6. step \in [S \X Stretches -> Stretches]
  <2>1. ASSUME NEW s \in S, NEW r \in Stretches PROVE Extend(r, s) \in Stretches
    BY Extended DEF IsSpans
  <2> QED BY <2>1
<1>7. \A s \in SUBSET S : s # {} => pick[s] \in s
  BY <1>5
<1>8. PICK h : IsFold(h, S, Stretches, pick, base, step)
  <2> HIDE DEF base, pick, step
  <2>1. IsFiniteSet(S)
    BY DEF IsSpans
  <2>2. Foldable(S, Stretches, pick, base, step)
    BY <1>3, <1>6, <1>7, <2>1, Zenon DEF Foldable
  <2> QED BY <2>2, FoldExists, Zenon
<1>9. \A s \in SUBSET S : h[s] \in Stretches
  BY <1>8 DEF IsFold
<1>10. ASSUME NEW s \in SUBSET S, s # {}
       PROVE  step[<<pick[s], h[s \ {pick[s]}]>>] = Extend(h[s \ {LastStarted(s)}], LastStarted(s))
  <2>1. pick[s] = LastStarted(s)
    OBVIOUS
  <2>2. LastStarted(s) \in S /\ s \ {LastStarted(s)} \in SUBSET S
    BY <1>5, <1>10
  <2>3. <<LastStarted(s), h[s \ {LastStarted(s)}]>> \in S \X Stretches
    BY <1>9, <2>2
  <2> QED BY <2>1, <2>3
<1>11. h = F(h)
  <2> HIDE DEF base, pick, step
  <2>1. h = [s \in SUBSET S |-> IF s = {} THEN base ELSE step[<<pick[s], h[s \ {pick[s]}]>>]]
    BY <1>8, Zenon DEF IsFold, Unfolded
  <2> QED BY <1>10, <2>1, Zenon DEF MergeSteps
<1>12. g = F(g)
  <2> HIDE DEF F
  <2> QED BY <1>11, Zenon
<1>13. \A s \in SUBSET S : g[s] = IF s = {} THEN base ELSE Extend(g[s \ {LastStarted(s)}], LastStarted(s))
  <2> HIDE DEF g, base
  <2> QED BY <1>12, Zenon DEF MergeSteps
<1> HIDE DEF g, base, F, pick, step
<1> DEFINE Bad == {T \in SUBSET S : ~Merged(g[T], T, first)}
<1>14. ASSUME Bad # {} PROVE FALSE
  <2>1. PICK T \in Bad : \A U \in SUBSET T : U # T => U \notin Bad
    <3>1. Bad \subseteq SUBSET S /\ IsFiniteSet(S)
      BY DEF IsSpans
    <3> HIDE DEF Bad
    <3> QED BY <1>14, <3>1, SmallestSet, Zenon
  <2>2. T \in SUBSET S /\ ~Merged(g[T], T, first)
    BY <2>1
  <2>3. CASE T = {}
    <3>1. g[T] = base
      BY <1>13, <2>2, <2>3, Zenon
    <3>2. Covered({}) = {} /\ {n \in Covered({}) : n < base.start} = {}
      BY DEF Covered
    <3>3. base.start = first /\ base.total = 0 /\ Moments(base) = {}
      BY <1>1 DEF base, Moments, Before
    <3>4. Merged(base, {}, first)
      BY <1>3, <3>2, <3>3, FS_EmptySet DEF Merged
    <3> QED BY <2>2, <2>3, <3>1, <3>4, Zenon
  <2>4. CASE T # {}
    <3> DEFINE x == LastStarted(T)
               rest == T \ {x}
    <3>1. IsSpans(T) /\ x \in T /\ \A q \in T : q.start <= x.start
      BY <1>4, <2>2, <2>4, LastIsLast
    <3>2. rest \in SUBSET T /\ rest # T /\ rest \in SUBSET S
      BY <2>2, <3>1
    <3>3. Merged(g[rest], rest, first)
      <4>1. rest \notin Bad
        BY <2>1, <3>2, Zenon
      <4> QED BY <3>2, <4>1
    <3>4. g[T] = Extend(g[rest], x)
      BY <1>13, <2>2, <2>4, Zenon
    <3>5. \A q \in T : first <= q.start /\ q.start <= x.start
      BY <1>1, <2>2, <3>1
    <3> HIDE DEF x
    <3>6. Merged(Extend(g[rest], x), T, first)
      BY <1>1, <3>1, <3>3, <3>5, MergedMore
    <3> QED BY <2>2, <3>4, <3>6
  <2> QED BY <2>3, <2>4
<1>15. Merged(g[S], S, first)
  BY <1>14
<1> QED BY <1>15, Zenon DEF g, F, base, first, MergeOf

\* merge_intervals_and_total_duration: however the runs overlap, the merged duration is
\* the number of moments at which at least one was going.
THEOREM WallClockCovers ==
  ASSUME NEW S, IsSpans(S)
  PROVE  IsFiniteSet(Covered(S)) /\ MergedDuration(S) = Cardinality(Covered(S))
<1>1. CASE S = {}
  BY <1>1, FS_EmptySet DEF Covered, MergedDuration
<1>2. CASE S # {}
  <2> DEFINE first == Min({s.start : s \in S})
             last == MergeOf(S, first)
  <2>1. Merged(last, S, first)
    BY <1>2, MergeFolds
  <2>2. MergedDuration(S) = last.total + last.end - last.start
    BY <1>2, Zenon DEF MergedDuration, MapThenFoldSet, MergeOf, MergeSteps, Before
  <2> HIDE DEF last, first
  <2>3. IsFiniteSet(Covered(S)) /\ Cardinality(Covered(S)) = last.total + last.end - last.start
    BY <2>1, CoveredSoFar DEF Merged
  <2> QED BY <2>2, <2>3
<1> QED BY <1>1, <1>2

-----------------------------------------------------------------------------
(* Statistics. *)

\* Results as they are cached: a finite number of them, with their measurements.
Recorded(results) ==
  /\ IsFiniteSet(results)
  /\ \A r \in results : /\ r.ok \in BOOLEAN /\ r.dur \in Nat /\ r.tokens \in Nat
                        /\ r.start \in Nat /\ r.end \in Nat

Running(results) == UNION {r.start..(r.end - 1) : r \in results}

LEMMA PartRecorded ==
  ASSUME NEW results, Recorded(results), NEW part \in SUBSET results
  PROVE  Recorded(part)
BY FS_Subset DEF Recorded

LEMMA ResultSpans ==
  ASSUME NEW results, Recorded(results)
  PROVE  IsSpans(Spans(results)) /\ Covered(Spans(results)) = Running(results)
<1> DEFINE whole == {r \in results : r.end >= r.start}
           f == [r \in whole |-> Span(r)]
<1>1. Spans(results) = {Span(r) : r \in whole}
  BY DEF Spans
<1>2. IsFiniteSet(whole) /\ f \in [whole -> Spans(results)] /\ \A y \in Spans(results) : \E x \in whole : f[x] = y
  <2>1. IsFiniteSet(whole)
    BY FS_Subset DEF Recorded
  <2>2. f \in [whole -> Spans(results)] /\ \A y \in Spans(results) : \E x \in whole : f[x] = y
    BY <1>1
  <2> QED BY <2>1, <2>2
<1>3. IsFiniteSet(Spans(results))
  <2> HIDE DEF f, whole
  <2> QED BY <1>2, ImageIsFinite
<1>4. \A s \in Spans(results) : s.start \in Nat /\ s.end \in Nat /\ s.start <= s.end
  BY DEF Spans, Span, Recorded
<1>5. \A r \in results : Span(r).start = r.start /\ Span(r).end = r.end
  BY DEF Span
<1>6. \A n : n \in Covered(Spans(results)) <=> \E r \in whole : n \in r.start..(r.end - 1)
  BY <1>1, <1>5 DEF Covered, Moments
<1>7. \A n : n \in Running(results) <=> \E r \in results : n \in r.start..(r.end - 1)
  BY DEF Running
<1>8. \A n : \A r \in results : n \in r.start..(r.end - 1) => r \in whole
  BY DEF Recorded
<1>9. Covered(Spans(results)) = Running(results)
  <2> HIDE DEF whole
  <2>1. \A r \in whole : r \in results
    BY DEF whole
  <2> QED BY <1>6, <1>7, <1>8, <2>1
<1> QED BY <1>3, <1>4, <1>9 DEF IsSpans

\* The wall clock of some results is the time during which one of them was running.
LEMMA WallClockOf ==
  ASSUME NEW results, Recorded(results)
  PROVE  /\ IsFiniteSet(Running(results)) /\ WallClock(results) \in Nat
         /\ WallClock(results) = Cardinality(Running(results))
<1>1. IsSpans(Spans(results)) /\ Covered(Spans(results)) = Running(results)
  BY ResultSpans
<1>2. IsFiniteSet(Running(results)) /\ MergedDuration(Spans(results)) = Cardinality(Running(results))
  BY <1>1, WallClockCovers
<1> QED BY <1>2, FS_CardinalityType DEF WallClock

LEMMA WallClockGrows ==
  ASSUME NEW results, Recorded(results), NEW part \in SUBSET results
  PROVE  WallClock(part) <= WallClock(results)
<1>1. Recorded(part) /\ Running(part) \in SUBSET Running(results)
  BY PartRecorded DEF Running
<1>2. Cardinality(Running(part)) <= Cardinality(Running(results))
  BY <1>1, WallClockOf, FS_Subset
<1> QED BY <1>1, <1>2, WallClockOf

\* compute_wall_clock_stats: the runs together take no longer than from the first start
\* to the last end, and no longer than one after the other.
LEMMA WallClockWithin ==
  ASSUME NEW results, Recorded(results)
  PROVE  LET clock == WallClockStats(results)
         IN  /\ clock.total = WallClock(results) /\ clock.total <= clock.span
             /\ clock.total <= clock.sum /\ clock.gain >= 0
<1> DEFINE spans == Spans(results)
           starts == {s.start : s \in spans}
           ends == {s.end : s \in spans}
           clock == IF spans = {} THEN 0 ELSE Max(ends) - Min(starts)
           merged == MergedDuration(spans)
           share == (1000 * merged) \div clock
           whole == {r \in results : r.end >= r.start}
           length == [r \in whole |-> r.end - r.start]
<1>1. IsSpans(spans) /\ IsFiniteSet(Running(results)) /\ merged = Cardinality(Running(results)) /\ merged \in Nat
      /\ Covered(spans) = Running(results) /\ merged = WallClock(results)
  BY ResultSpans, WallClockOf DEF WallClock
<1>2. clock \in Nat /\ merged <= clock
  <2>1. CASE spans = {}
    <3>1. merged = 0 /\ clock = 0
      BY <2>1 DEF MergedDuration
    <3> QED BY <3>1
  <2>2. CASE spans # {}
    <3>1. starts \subseteq Nat /\ starts # {} /\ ends \subseteq Nat /\ ends # {}
      BY <1>1, <2>2 DEF IsSpans
    <3>2. IsFiniteSet(ends)
      <4> DEFINE f == [s \in spans |-> s.end]
      <4>1. IsFiniteSet(spans) /\ f \in [spans -> ends] /\ \A y \in ends : \E x \in spans : f[x] = y
        BY <1>1 DEF IsSpans
      <4> HIDE DEF f, spans, ends
      <4> QED BY <4>1, ImageIsFinite
    <3>3. /\ Min(starts) \in starts /\ \A n \in starts : Min(starts) <= n
          /\ Max(ends) \in ends /\ \A n \in ends : Max(ends) >= n
      <4> HIDE DEF starts, ends, spans
      <4> QED BY <3>1, <3>2, LeastExists, GreatestExists
    <3> DEFINE lo == Min(starts)
               hi == Max(ends)
    <3>4. lo \in Nat /\ hi \in Nat
      BY <3>1, <3>3
    <3>5. \A s \in spans : lo <= s.start /\ s.end <= hi /\ s.start \in Nat /\ s.end \in Nat /\ s.start <= s.end
      <4>1. \A s \in spans : s.start \in starts /\ s.end \in ends
        OBVIOUS
      <4>2. \A s \in spans : s.start \in Nat /\ s.end \in Nat /\ s.start <= s.end
        BY <1>1, Zenon DEF IsSpans
      <4> HIDE DEF starts, ends, spans
      <4>3. ASSUME NEW s \in spans PROVE lo <= s.start /\ s.end <= hi
        BY <3>3, <3>4, <4>1, <4>2
      <4> QED BY <4>2, <4>3
    <3>6. clock = hi - lo
      BY <2>2
    <3> HIDE DEF lo, hi, spans, clock, merged
    <3>7. lo <= hi
      <4>1. PICK s \in spans : TRUE
        BY <2>2
      <4> QED BY <3>4, <3>5, <4>1
    <3>8. Covered(spans) \subseteq lo..(hi - 1)
      BY <3>4, <3>5 DEF Covered, Moments
    <3>9. IsFiniteSet(lo..(hi - 1)) /\ Cardinality(lo..(hi - 1)) = hi - lo
      BY <3>4, <3>7, Interval
    <3>10. Cardinality(Running(results)) <= hi - lo
      <4>1. Covered(spans) \in SUBSET (lo..(hi - 1))
        BY <3>8, Zenon
      <4>2. Cardinality(Covered(spans)) <= Cardinality(lo..(hi - 1))
        BY <3>9, <4>1, FS_Subset, Zenon
      <4> QED BY <1>1, <3>9, <4>2, Zenon
    <3> QED BY <1>1, <3>4, <3>6, <3>7, <3>10
  <2> QED BY <2>1, <2>2
<1>3. TotalLength(whole) = SumOf(length, whole) /\ merged <= SumOf(length, whole)
  <2>1. Numbered(whole, length)
    <3>1. IsFiniteSet(whole)
      BY FS_Subset DEF Recorded
    <3>2. length \in [whole -> Nat]
      BY DEF Recorded
    <3> QED BY <3>1, <3>2 DEF Numbered
  <2>2. \A r \in whole : length[r] = r.end - r.start
    OBVIOUS
  <2> DEFINE C == [r \in whole |-> r.start..(r.end - 1)]
  <2>3. \A r \in whole : IsFiniteSet(C[r]) /\ Cardinality(C[r]) <= length[r]
    <3>1. ASSUME NEW r \in whole PROVE IsFiniteSet(C[r]) /\ Cardinality(C[r]) <= length[r]
      <4>1. r.start \in Nat /\ r.end \in Nat /\ r.start <= r.end
        BY DEF Recorded
      <4>2. IsFiniteSet(r.start..(r.end - 1)) /\ Cardinality(r.start..(r.end - 1)) = r.end - r.start
        BY <4>1, Interval
      <4> QED BY <4>1, <4>2
    <3> QED BY <3>1
  <2>4. UNION {C[r] : r \in whole} = Running(results)
    <3>1. UNION {C[r] : r \in whole} = UNION {r.start..(r.end - 1) : r \in whole}
      OBVIOUS
    <3>2. ASSUME NEW r \in results, NEW n \in r.start..(r.end - 1) PROVE r \in whole
      BY DEF Recorded
    <3>3. \A n : n \in Running(results) <=> \E r \in results : n \in r.start..(r.end - 1)
      BY DEF Running
    <3>4. \A n : n \in UNION {r.start..(r.end - 1) : r \in whole} <=> \E r \in whole : n \in r.start..(r.end - 1)
      OBVIOUS
    <3>5. \A r \in whole : r \in results
      OBVIOUS
    <3> HIDE DEF whole, C
    <3> QED BY <3>1, <3>2, <3>3, <3>4, <3>5
  <2> HIDE DEF length, C, whole, merged
  <2>5. TotalLength(whole) = SumOf(length, whole)
    BY <2>1, <2>2, LengthSum
  <2>6. Cardinality(UNION {C[r] : r \in whole}) <= SumOf(length, whole)
    BY <2>1, <2>3, SumCovers
  <2>7. merged <= SumOf(length, whole)
    BY <1>1, <2>4, <2>6
  <2> QED BY <2>5, <2>7, Zenon
<1>4. WallClockStats(results) =
        [span |-> clock, total |-> merged, sum |-> TotalLength(whole), gain |-> IF clock > 0 THEN 1000 - share ELSE 0]
  BY Zenon DEF WallClockStats, TotalLength
<1> HIDE DEF clock, merged, length, whole
<1>5. clock > 0 => share \in Marks
  <2>1. ASSUME clock > 0 PROVE share \in Marks
    <3>1. PICK d \in Nat \ {0}, a \in Nat : d = clock /\ a = merged /\ a <= d
      BY <1>1, <1>2, <2>1
    <3>2. Share(a, d) \in Marks
      <4>1. a <= a
        OBVIOUS
      <4> QED BY ONLY d \in Nat \ {0}, a \in Nat, <3>1, <4>1, PerMille
    <3>3. share = Share(a, d)
      BY ONLY <3>1 DEF share, Share
    <3> QED BY ONLY <3>2, <3>3
  <2> QED BY <2>1
<1> HIDE DEF share
<1>6. WallClockStats(results).gain >= 0
  <2>1. WallClockStats(results).gain = IF clock > 0 THEN 1000 - share ELSE 0
    BY ONLY <1>4
  <2> QED BY ONLY <1>5, <2>1 DEF Marks
<1>7. /\ WallClockStats(results).total = merged /\ WallClockStats(results).span = clock
      /\ WallClockStats(results).sum = TotalLength(whole)
  BY ONLY <1>4
<1>8. merged <= TotalLength(whole)
  BY <1>3, Zenon
<1> QED BY <1>1, <1>2, <1>6, <1>7, <1>8, Zenon

\* What is counted of each result, and the flag of its success.
CountsOf(results) == [r \in results |-> 1]
FlagsOf(results) == [r \in results |-> IF r.ok THEN 1 ELSE 0]
DurationsOf(results) == [r \in results |-> r.dur]
TokensOf(results) == [r \in results |-> r.tokens]
Good(results) == {r \in results : r.ok}

LEMMA ResultsNumbered ==
  ASSUME NEW results, Recorded(results)
  PROVE  /\ Numbered(results, CountsOf(results)) /\ Numbered(results, FlagsOf(results))
         /\ Numbered(results, DurationsOf(results)) /\ Numbered(results, TokensOf(results))
<1>1. IsFiniteSet(results)
  BY DEF Recorded
<1>2. /\ CountsOf(results) \in [results -> Nat] /\ FlagsOf(results) \in [results -> Nat]
      /\ DurationsOf(results) \in [results -> Nat] /\ TokensOf(results) \in [results -> Nat]
  BY DEF CountsOf, FlagsOf, DurationsOf, TokensOf, Recorded
<1> QED BY <1>1, <1>2, Zenon DEF Numbered

\* The numbers of a part of the results are sums over that part.
LEMMA ItemsAreSums ==
  ASSUME NEW results, Recorded(results), NEW part \in SUBSET results
  PROVE  /\ StatItem(part).total = SumOf(CountsOf(results), part)
         /\ StatItem(part).success = SumOf(FlagsOf(results), part)
         /\ StatItem(part).duration = SumOf(DurationsOf(results), part)
         /\ StatItem(part).tokens = SumOf(TokensOf(results), part)
         /\ StatItem(part).wall = WallClock(part)
<1>1. Recorded(part)
  BY PartRecorded
<1>2. /\ StatItem(part).total = Cardinality(part) /\ StatItem(part).success = Cardinality(Good(part))
      /\ StatItem(part).duration = TotalDuration(part) /\ StatItem(part).tokens = Tokens(part)
      /\ StatItem(part).wall = WallClock(part)
  <2> DEFINE rate == Rate(Cardinality(Good(part)), Cardinality(part))
             d == TotalDuration(part)
             t == Tokens(part)
  <2>1. StatItem(part) = [total |-> Cardinality(part), success |-> Cardinality(Good(part)), rate |-> rate,
                          duration |-> d, tokens |-> t, wall |-> WallClock(part)]
    BY Zenon DEF StatItem, Good, TotalDuration, Tokens
  <2> HIDE DEF rate, d, t
  <2>2. StatItem(part).duration = d /\ StatItem(part).tokens = t
    BY ONLY <2>1
  <2>3. /\ StatItem(part).total = Cardinality(part) /\ StatItem(part).success = Cardinality(Good(part))
        /\ StatItem(part).wall = WallClock(part)
    BY ONLY <2>1
  <2> QED BY <2>2, <2>3, Zenon DEF d, t
<1>3. /\ Numbered(results, CountsOf(results)) /\ Numbered(results, FlagsOf(results))
      /\ Numbered(results, DurationsOf(results)) /\ Numbered(results, TokensOf(results))
      /\ Numbered(part, DurationsOf(part)) /\ Numbered(part, TokensOf(part))
  BY <1>1, ResultsNumbered, Zenon
<1>4. SumOf(CountsOf(results), part) = Cardinality(part)
  <2>1. \A r \in part : CountsOf(results)[r] = 1
    BY DEF CountsOf
  <2> QED BY <1>3, <2>1, SumOnes, Zenon
<1>5. SumOf(FlagsOf(results), part) = Cardinality(Good(part))
  <2>1. Good(part) \in SUBSET part
    BY DEF Good
  <2>2. \A r \in part : FlagsOf(results)[r] = IF r \in Good(part) THEN 1 ELSE 0
    BY DEF FlagsOf, Good
  <2> QED BY <1>3, <2>1, <2>2, SumFlags
<1>6. SumOf(DurationsOf(results), part) = TotalDuration(part)
  <2>1. \A r \in part : DurationsOf(part)[r] = r.dur /\ DurationsOf(results)[r] = DurationsOf(part)[r]
    BY DEF DurationsOf
  <2>2. TotalDuration(part) = SumOf(DurationsOf(part), part)
    BY <1>3, <2>1, DurationSum, Zenon
  <2>3. part \in SUBSET (results \cap part)
    OBVIOUS
  <2>4. SumOf(DurationsOf(results), part) = SumOf(DurationsOf(part), part)
    BY <1>3, <2>1, <2>3, SumSame
  <2> QED BY <2>2, <2>4, Zenon
<1>7. SumOf(TokensOf(results), part) = Tokens(part)
  <2>1. \A r \in part : TokensOf(part)[r] = r.tokens /\ TokensOf(results)[r] = TokensOf(part)[r]
    BY DEF TokensOf
  <2>2. Tokens(part) = SumOf(TokensOf(part), part)
    BY <1>3, <2>1, TokenSum, Zenon
  <2>3. part \in SUBSET (results \cap part)
    OBVIOUS
  <2>4. SumOf(TokensOf(results), part) = SumOf(TokensOf(part), part)
    BY <1>3, <2>1, <2>3, SumSame
  <2> QED BY <2>2, <2>4, Zenon
<1> QED BY <1>2, <1>4, <1>5, <1>6, <1>7, Zenon

\* Numbers of groups that are the sums of each group add up to the sum of everything.
LEMMA GroupsAddUp ==
  ASSUME NEW results, NEW f, Numbered(results, f), NEW key, NEW K, IsFiniteSet(K),
         \A r \in results : key[r] \in K,
         NEW g, g = [k \in K |-> SumOf(f, Group(results, key, k))]
  PROVE  SumFunction(g) = SumOf(f, results)
<1>1. \A k \in K : SumOf(f, Group(results, key, k)) \in Nat
  <2>1. \A k \in K : Group(results, key, k) \in SUBSET results
    BY DEF Group
  <2> QED BY <2>1, SumOne, Zenon
<1>2. g \in [K -> Nat] /\ DOMAIN g = K /\ \A k \in K : g[k] = SumOf(f, Group(results, key, k))
  BY <1>1
<1>3. Numbered(K, g)
  BY <1>2, Zenon DEF Numbered
<1>4. SumOf(g, K) = SumOf(f, results)
  BY <1>2, <1>3, GroupsSum
<1> QED BY <1>2, <1>4, Zenon DEF SumFunction, SumOf

LEMMA GroupsAccount ==
  ASSUME NEW results, Recorded(results), NEW key, DOMAIN key = results, NEW overall,
         overall.success = StatItem(results).success, overall.duration = StatItem(results).duration,
         overall.tokens = StatItem(results).tokens
  PROVE  Accounted(GroupedBy(key), results, overall)
<1> DEFINE K == {key[r] : r \in results}
           Of(k) == Group(results, key, k)
           groups == [k \in K |-> StatItem(Of(k))]
<1>1. GroupedBy(key) = groups
  BY DEF GroupedBy, Group
<1>2. IsFiniteSet(K)
  <2> DEFINE f == [r \in results |-> key[r]]
  <2>1. IsFiniteSet(results) /\ f \in [results -> K] /\ \A y \in K : \E x \in results : f[x] = y
    BY DEF Recorded
  <2> HIDE DEF f, K
  <2> QED BY <2>1, ImageIsFinite
<1>3. \A r \in results : key[r] \in K
  OBVIOUS
<1>4. \A k \in K : Of(k) \in SUBSET results
  BY DEF Group
<1> HIDE DEF K
<1>5. \A k \in K :
        /\ groups[k].total = SumOf(CountsOf(results), Of(k))
        /\ groups[k].success = SumOf(FlagsOf(results), Of(k))
        /\ groups[k].duration = SumOf(DurationsOf(results), Of(k))
        /\ groups[k].tokens = SumOf(TokensOf(results), Of(k))
        /\ groups[k].wall = WallClock(Of(k))
  <2>1. \A k \in K : groups[k] = StatItem(Of(k))
    OBVIOUS
  <2> HIDE DEF groups, Of
  <2> QED BY <1>4, <2>1, ItemsAreSums
<1>6. DOMAIN groups = K
  OBVIOUS
<1> HIDE DEF groups, Of
<1>7. /\ Numbered(results, CountsOf(results)) /\ Numbered(results, FlagsOf(results))
      /\ Numbered(results, DurationsOf(results)) /\ Numbered(results, TokensOf(results))
  BY ResultsNumbered, Zenon
<1>8. /\ [k \in K |-> groups[k].total] = [k \in K |-> SumOf(CountsOf(results), Of(k))]
      /\ [k \in K |-> groups[k].success] = [k \in K |-> SumOf(FlagsOf(results), Of(k))]
      /\ [k \in K |-> groups[k].duration] = [k \in K |-> SumOf(DurationsOf(results), Of(k))]
      /\ [k \in K |-> groups[k].tokens] = [k \in K |-> SumOf(TokensOf(results), Of(k))]
  BY <1>5, Zenon
<1>9. /\ SumFunction([k \in K |-> groups[k].total]) = SumOf(CountsOf(results), results)
      /\ SumFunction([k \in K |-> groups[k].success]) = SumOf(FlagsOf(results), results)
      /\ SumFunction([k \in K |-> groups[k].duration]) = SumOf(DurationsOf(results), results)
      /\ SumFunction([k \in K |-> groups[k].tokens]) = SumOf(TokensOf(results), results)
  <2>1. ASSUME NEW f, Numbered(results, f), NEW g, g = [k \in K |-> SumOf(f, Of(k))]
        PROVE  SumFunction(g) = SumOf(f, results)
    BY <1>2, <1>3, <2>1, GroupsAddUp DEF Of
  <2> QED BY <1>7, <1>8, <2>1, Zenon
<1>10. /\ StatItem(results).total = SumOf(CountsOf(results), results)
       /\ StatItem(results).success = SumOf(FlagsOf(results), results)
       /\ StatItem(results).duration = SumOf(DurationsOf(results), results)
       /\ StatItem(results).tokens = SumOf(TokensOf(results), results)
       /\ StatItem(results).total = Cardinality(results)
  <2>1. results \in SUBSET results
    OBVIOUS
  <2>2. StatItem(results).total = Cardinality(results)
    <3> DEFINE rate == Rate(Cardinality(Good(results)), Cardinality(results))
               d == TotalDuration(results)
               t == Tokens(results)
    <3>1. StatItem(results) = [total |-> Cardinality(results), success |-> Cardinality(Good(results)), rate |-> rate,
                               duration |-> d, tokens |-> t, wall |-> WallClock(results)]
      BY Zenon DEF StatItem, Good, TotalDuration, Tokens
    <3> HIDE DEF rate, d, t
    <3> QED BY ONLY <3>1
  <2> QED BY <2>1, <2>2, ItemsAreSums
<1>11. \A k \in K : groups[k].wall <= WallClock(results)
  BY <1>4, <1>5, WallClockGrows, Zenon
<1>12. SumFunction([k \in K |-> groups[k].wall]) >= WallClock(results)
  <2> DEFINE walls == [k \in K |-> groups[k].wall]
             C == [k \in K |-> Running(Of(k))]
  <2>1. \A k \in K : IsFiniteSet(Running(Of(k))) /\ WallClock(Of(k)) \in Nat
                     /\ WallClock(Of(k)) = Cardinality(Running(Of(k)))
    BY <1>4, PartRecorded, WallClockOf, Zenon
  <2>2. walls \in [K -> Nat] /\ DOMAIN walls = K
    BY <1>5, <2>1
  <2>3. Numbered(K, walls)
    BY <1>2, <2>2, Zenon DEF Numbered
  <2>4. \A k \in K : IsFiniteSet(C[k]) /\ Cardinality(C[k]) <= walls[k]
    BY <1>5, <2>1
  <2>5. UNION {C[k] : k \in K} = Running(results)
    <3>1. \A k \in K : Of(k) = {r \in results : key[r] = k}
      BY DEF Of, Group
    <3>2. \A n : n \in UNION {C[k] : k \in K} <=> \E k \in K : \E r \in Of(k) : n \in r.start..(r.end - 1)
      BY DEF Running
    <3>3. \A n : n \in Running(results) <=> \E r \in results : n \in r.start..(r.end - 1)
      BY DEF Running
    <3> HIDE DEF C
    <3> QED BY <1>3, <3>1, <3>2, <3>3
  <2> HIDE DEF walls, C
  <2>6. Cardinality(UNION {C[k] : k \in K}) <= SumOf(walls, K)
    BY <2>3, <2>4, SumCovers, Zenon
  <2>7. WallClock(results) = Cardinality(Running(results)) /\ WallClock(results) \in Nat
    BY WallClockOf, Zenon
  <2>8. WallClock(results) <= SumOf(walls, K) /\ SumOf(walls, K) \in Nat
    <3>1. SumOf(walls, K) \in Nat
      BY <2>3, SumOne
    <3> QED BY <2>5, <2>6, <2>7, <3>1, Zenon
  <2>9. SumFunction(walls) = SumOf(walls, K)
    BY <2>2, Zenon DEF SumFunction, SumOf
  <2>10. SumFunction(walls) >= WallClock(results)
    BY ONLY <2>7, <2>8, <2>9
  <2> QED BY <2>10 DEF walls
<1> DEFINE now == GroupedBy(key)
<1>13. /\ SumFunction([k \in DOMAIN groups |-> groups[k].total]) = Cardinality(results)
       /\ SumFunction([k \in DOMAIN groups |-> groups[k].success]) = overall.success
       /\ SumFunction([k \in DOMAIN groups |-> groups[k].duration]) = overall.duration
       /\ SumFunction([k \in DOMAIN groups |-> groups[k].tokens]) = overall.tokens
  BY <1>6, <1>9, <1>10, Zenon
<1>14. Accounted(groups, results, overall)
  BY <1>6, <1>11, <1>12, <1>13, Zenon DEF Accounted
<1> QED BY <1>1, <1>14, Zenon

\* format_duration: days, hours, minutes and seconds stand for what they came from.
THEOREM DurationsReadBack ==
  ASSUME NEW secs \in Nat
  PROVE  ReadsBack(secs)
<1>1. PICK d, a \in Nat : d = secs \div 86400 /\ a = secs % 86400 /\ 86400 * d + a = secs /\ a < 86400
  BY Remainder
<1>2. PICK h, b \in Nat : h = a \div 3600 /\ b = a % 3600 /\ 3600 * h + b = a /\ b < 3600
  BY Remainder
<1>3. PICK g, c \in Nat : c = secs % 3600 /\ 3600 * g + c = secs /\ c < 3600
  BY Remainder
<1>4. PICK m, e \in Nat : m = c \div 60 /\ e = c % 60 /\ 60 * m + e = c /\ e < 60
  BY Remainder
<1>5. PICK f, s \in Nat : s = secs % 60 /\ 60 * f + s = secs /\ s < 60
  BY Remainder
<1>6. b = c
  <2>1. 86400 * d + 3600 * h + b = 3600 * g + c
    BY ONLY d \in Nat, a \in Nat, h \in Nat, b \in Nat, g \in Nat, c \in Nat, <1>1, <1>2, <1>3
  <2> QED BY ONLY d \in Nat, h \in Nat, b \in Nat, g \in Nat, c \in Nat, <1>2, <1>3, <2>1
<1>7. e = s
  <2>1. 3600 * g + 60 * m + e = 60 * f + s
    BY ONLY g \in Nat, c \in Nat, m \in Nat, e \in Nat, f \in Nat, s \in Nat, <1>3, <1>4, <1>5
  <2> QED BY ONLY g \in Nat, m \in Nat, e \in Nat, f \in Nat, s \in Nat, <1>4, <1>5, <2>1
<1>8. ((d * 24 + h) * 60 + m) * 60 + s = secs
  BY <1>1, <1>2, <1>4, <1>6, <1>7
<1>9. DurationParts(secs) = [d |-> d, h |-> h, m |-> m, s |-> s]
  BY <1>1, <1>2, <1>3, <1>4, <1>5 DEF DurationParts
<1>10. Seconds([d |-> d, h |-> h, m |-> m, s |-> s]) = secs
  BY <1>8 DEF Seconds
<1> QED BY <1>9, <1>10, Zenon DEF ReadsBack

\* A filter has a category, set or not.
IsFilter(filter) ==
  "category" \in DOMAIN filter /\ filter = [field \in DOMAIN filter |-> filter[field]]

NeverCategory(filter) == [filter EXCEPT !.category = NoFilter]

\* get_statistics and compute_wall_clock_stats, for any results, filter and quick benchmark.
THEOREM NumbersAddUp ==
  ASSUME NEW cache, Recorded(cache), NEW filter, IsFilter(filter), NEW quick
  PROVE  AddUp(cache, filter, quick)
<1> DEFINE rows == Listed(cache, filter, quick)
           all == Listed(cache, NeverCategory(filter), quick)
           st == Statistics(cache, filter, quick)
           clock == WallClockStats(rows)
<1>1. rows \in SUBSET all /\ all \in SUBSET cache
  BY DEF Listed, NeverCategory, InCategory, Matches, QuickEnough, NoFilter, IsFilter
<1>2. filter.category = NoFilter => all = rows
  BY DEF NeverCategory, IsFilter
<1>3. Recorded(rows) /\ Recorded(all)
  BY <1>1, PartRecorded
<1> HIDE DEF rows, all
<1>4. /\ st.overall = [StatItem(rows) EXCEPT !.wall = WallClock(all)]
      /\ st.byLanguage = GroupedBy([r \in rows |-> r.language])
      /\ st.byAgent = GroupedBy([r \in rows |-> r.agent])
      /\ st.byModel = GroupedBy([r \in rows |-> ModelKey(r)])
      /\ st.byCategory = GroupedBy([r \in rows |-> CategoryKey(r)])
  BY DEF Statistics, rows, all, NeverCategory
<1>5. /\ st.overall.success = StatItem(rows).success /\ st.overall.duration = StatItem(rows).duration
      /\ st.overall.tokens = StatItem(rows).tokens /\ st.overall.wall = WallClock(all)
  BY <1>4 DEF StatItem
<1> HIDE DEF st
<1>6. ASSUME NEW key, DOMAIN key = rows PROVE Accounted(GroupedBy(key), rows, st.overall)
  BY <1>3, <1>5, <1>6, GroupsAccount
<1>7. /\ Accounted(st.byLanguage, rows, st.overall) /\ Accounted(st.byAgent, rows, st.overall)
      /\ Accounted(st.byModel, rows, st.overall) /\ Accounted(st.byCategory, rows, st.overall)
  <2> DEFINE a == [r \in rows |-> r.language]
             b == [r \in rows |-> r.agent]
             c == [r \in rows |-> ModelKey(r)]
             d == [r \in rows |-> CategoryKey(r)]
  <2>1. DOMAIN a = rows /\ DOMAIN b = rows /\ DOMAIN c = rows /\ DOMAIN d = rows
    OBVIOUS
  <2> HIDE DEF a, b, c, d
  <2>2. /\ Accounted(GroupedBy(a), rows, st.overall) /\ Accounted(GroupedBy(b), rows, st.overall)
        /\ Accounted(GroupedBy(c), rows, st.overall) /\ Accounted(GroupedBy(d), rows, st.overall)
    BY <1>6, <2>1, Zenon
  <2> QED BY <1>4, <2>2, Zenon DEF a, b, c, d
<1>8. /\ clock.total = WallClock(rows) /\ clock.total <= clock.span /\ clock.total <= clock.sum /\ clock.gain >= 0
  BY <1>3, WallClockWithin
<1> HIDE DEF clock
<1>9. /\ WallClock(rows) = Cardinality(Running(rows)) /\ WallClock(rows) \in Nat
      /\ WallClock(all) \in Nat /\ WallClock(rows) <= WallClock(all)
  BY <1>1, <1>3, WallClockOf, WallClockGrows
<1>10. st.overall.wall >= clock.total /\ (filter.category = NoFilter => st.overall.wall = clock.total)
  BY <1>2, <1>5, <1>8, <1>9
<1>11. {r.language : r \in rows} \subseteq Languages(cache)
  BY <1>1 DEF Languages
<1>12. st.overall.duration \in Nat /\ st.overall.wall \in Nat
  <2>1. rows \in SUBSET rows
    OBVIOUS
  <2>2. StatItem(rows).duration = SumOf(DurationsOf(rows), rows)
    BY <1>3, <2>1, ItemsAreSums
  <2>3. SumOf(DurationsOf(rows), rows) \in Nat
    BY <1>3, <2>1, ResultsNumbered, SumOne
  <2> QED BY <1>5, <1>9, <2>2, <2>3
<1>13. \A secs \in Stretched(st.overall.duration) \cup Stretched(st.overall.wall) : ReadsBack(secs)
  <2>1. ASSUME NEW n \in Nat PROVE Stretched(n) \subseteq Nat
    BY DEF Stretched
  <2> QED BY <1>12, <2>1, DurationsReadBack
<1> DEFINE page == ResultsPage(cache, filter, quick)
<1>14. page.stats = st /\ page.rows = rows /\ page.languages = Languages(cache)
  BY DEF ResultsPage, st, rows
<1> HIDE DEF page
<1>15. Running(rows) = UNION {r.start..(r.end - 1) : r \in page.rows}
  BY <1>14 DEF Running
<1>16. clock = WallClockStats(page.rows)
  BY <1>14, Zenon DEF clock
<1>17. /\ Accounted(page.stats.byLanguage, page.rows, page.stats.overall)
       /\ Accounted(page.stats.byAgent, page.rows, page.stats.overall)
       /\ Accounted(page.stats.byModel, page.rows, page.stats.overall)
       /\ Accounted(page.stats.byCategory, page.rows, page.stats.overall)
  BY <1>7, <1>14, Zenon
<1>18. WallClockStats(page.rows).total = Cardinality(UNION {r.start..(r.end - 1) : r \in page.rows})
  BY <1>8, <1>9, <1>15, <1>16, Zenon
<1>19. /\ WallClockStats(page.rows).total <= WallClockStats(page.rows).span
       /\ WallClockStats(page.rows).total <= WallClockStats(page.rows).sum
       /\ WallClockStats(page.rows).gain >= 0
       /\ page.stats.overall.wall >= WallClockStats(page.rows).total
       /\ filter.category = NoFilter => page.stats.overall.wall = WallClockStats(page.rows).total
  BY <1>8, <1>10, <1>14, <1>16
<1>20. /\ {r.language : r \in page.rows} \subseteq page.languages
       /\ \A secs \in Stretched(page.stats.overall.duration) \cup Stretched(page.stats.overall.wall) : ReadsBack(secs)
  BY <1>11, <1>13, <1>14
<1> QED BY <1>17, <1>18, <1>19, <1>20, Zenon DEF AddUp, page

-----------------------------------------------------------------------------
(* Scores. *)

\* Results as they are cached, of which every success took time.
Measured(results) ==
  /\ IsFiniteSet(results)
  /\ \A r \in results : /\ r.ok \in BOOLEAN /\ r.dur \in Nat /\ r.tokens \in Nat
                        /\ r.ok => r.dur > 0

\* A success is one of those it is measured against, so that these have bounds, and
\* what it took is within them.
LEMMA WithinBounds ==
  ASSUME NEW results, Measured(results), NEW r \in results, r.ok
  PROVE  /\ Timed(results) # {} /\ Peers(results, r) # {}
         /\ \E slow, fast \in Nat : /\ slow = Max(Durations(results, r)) /\ fast = Min(Durations(results, r))
                                   /\ fast <= r.dur /\ r.dur <= slow
         /\ \E most, least \in Nat : /\ most = Max(TokenCounts(results, r)) /\ least = Min(TokenCounts(results, r))
                                    /\ least <= r.tokens /\ r.tokens <= most
<1> DEFINE P == Peers(results, r)
<1>1. Timed(results) \subseteq results /\ P \subseteq results /\ r \in Timed(results) /\ r \in P
  BY DEF Measured, Timed, Peers
<1>2. IsFiniteSet(P)
  BY <1>1, FS_Subset DEF Measured
<1>3. \A p \in P : p.dur \in Nat /\ p.tokens \in Nat
  BY <1>1 DEF Measured
<1> HIDE DEF P
<1>4. Durations(results, r) = {p.dur : p \in P} /\ TokenCounts(results, r) = {p.tokens : p \in P}
  BY DEF Durations, TokenCounts, P
<1>5. IsFiniteSet({p.dur : p \in P}) /\ IsFiniteSet({p.tokens : p \in P})
  <2>1. ASSUME NEW T, NEW f, f \in [P -> T], \A y \in T : \E x \in P : f[x] = y PROVE IsFiniteSet(T)
    BY <1>2, <2>1, ImageIsFinite
  <2>2. IsFiniteSet({p.dur : p \in P})
    <3> DEFINE f == [p \in P |-> p.dur]
    <3>1. f \in [P -> {p.dur : p \in P}] /\ \A y \in {p.dur : p \in P} : \E x \in P : f[x] = y
      OBVIOUS
    <3> HIDE DEF f
    <3> QED BY <2>1, <3>1
  <2>3. IsFiniteSet({p.tokens : p \in P})
    <3> DEFINE f == [p \in P |-> p.tokens]
    <3>1. f \in [P -> {p.tokens : p \in P}] /\ \A y \in {p.tokens : p \in P} : \E x \in P : f[x] = y
      OBVIOUS
    <3> HIDE DEF f
    <3> QED BY <2>1, <3>1
  <2> QED BY <2>2, <2>3
<1>6. /\ {p.dur : p \in P} \subseteq Nat /\ {p.tokens : p \in P} \subseteq Nat
      /\ r.dur \in {p.dur : p \in P} /\ r.tokens \in {p.tokens : p \in P}
  BY <1>1, <1>3
<1> DEFINE D == {p.dur : p \in P}
           C == {p.tokens : p \in P}
<1> HIDE DEF D, C
<1>7. Max(D) \in Nat /\ Min(D) \in Nat /\ Min(D) <= r.dur /\ r.dur <= Max(D)
  <2>1. D \subseteq Nat /\ IsFiniteSet(D) /\ r.dur \in D
    BY <1>5, <1>6 DEF D
  <2>2. Max(D) \in D /\ (\A n \in D : Max(D) >= n) /\ Min(D) \in D /\ \A n \in D : Min(D) <= n
    BY <2>1, GreatestExists, LeastExists
  <2> QED BY <2>1, <2>2
<1>8. Max(C) \in Nat /\ Min(C) \in Nat /\ Min(C) <= r.tokens /\ r.tokens <= Max(C)
  <2>1. C \subseteq Nat /\ IsFiniteSet(C) /\ r.tokens \in C
    BY <1>5, <1>6 DEF C
  <2>2. Max(C) \in C /\ (\A n \in C : Max(C) >= n) /\ Min(C) \in C /\ \A n \in C : Min(C) <= n
    BY <2>1, GreatestExists, LeastExists
  <2> QED BY <2>1, <2>2
<1> QED BY <1>1, <1>4, <1>7, <1>8 DEF D, C, P

\* Two successes of an exercise: less time is no less speed, fewer tokens no fewer marks.
LEMMA SpeedRises ==
  ASSUME NEW results, Measured(results), NEW r \in results, NEW t \in results,
         r.ok, t.ok, Task(r) = Task(t), r.dur <= t.dur
  PROVE  /\ SpeedScore(results, r) \in Marks /\ SpeedScore(results, t) \in Marks
         /\ SpeedScore(results, t) <= SpeedScore(results, r)
<1>1. r.dur \in Nat /\ t.dur \in Nat /\ r.dur > 0 /\ t.dur > 0
  BY DEF Measured
<1>2. Durations(results, t) = Durations(results, r)
  BY DEF Durations, Peers
<1>3. PICK slow, fast \in Nat : /\ slow = Max(Durations(results, r)) /\ fast = Min(Durations(results, r))
                                /\ fast <= r.dur /\ r.dur <= slow
  BY WithinBounds
<1>4. fast <= t.dur /\ t.dur <= slow
  BY <1>2, <1>3, WithinBounds
<1>5. CASE slow = fast
  <2>1. SpeedScore(results, r) = 1000 /\ SpeedScore(results, t) = 1000
    BY <1>1, <1>2, <1>3, <1>5 DEF SpeedScore
  <2> QED BY ONLY <2>1 DEF Marks
<1>6. CASE slow # fast
  <2>1. /\ SpeedScore(results, r) = Share(slow - r.dur, slow - fast)
        /\ SpeedScore(results, t) = Share(slow - t.dur, slow - fast)
    BY <1>1, <1>2, <1>3, <1>6 DEF SpeedScore, Share
  <2>2. PICK x, y \in Nat : x = r.dur /\ y = t.dur
    BY <1>1, Zenon
  <2>3. fast <= x /\ x <= y /\ y <= slow
    BY <1>3, <1>4, <2>2, Zenon
  <2>4. PICK d \in Nat \ {0}, b \in Nat, a \in Nat : d = slow - fast /\ b = slow - x /\ a = slow - y
    <3>1. slow - fast \in Nat \ {0} /\ slow - x \in Nat /\ slow - y \in Nat
      BY ONLY slow \in Nat, fast \in Nat, x \in Nat, y \in Nat, <1>6, <2>3
    <3> QED BY <3>1, Zenon
  <2>5. a <= b /\ b <= d
    BY ONLY slow \in Nat, fast \in Nat, x \in Nat, y \in Nat, <2>3, <2>4
  <2>6. Share(a, d) \in Marks /\ Share(b, d) \in Marks /\ Share(a, d) <= Share(b, d)
    BY <2>5, PerMille, Zenon
  <2>7. SpeedScore(results, r) = Share(b, d) /\ SpeedScore(results, t) = Share(a, d)
    BY <2>1, <2>2, <2>4, Zenon
  <2> QED BY ONLY <2>6, <2>7
<1> QED BY <1>5, <1>6

LEMMA TokensRise ==
  ASSUME NEW results, Measured(results), NEW r \in results, NEW t \in results,
         r.ok, t.ok, Task(r) = Task(t), r.tokens \in 1..t.tokens
  PROVE  /\ TokenScore(results, r) \in Marks /\ TokenScore(results, t) \in Marks
         /\ TokenScore(results, t) <= TokenScore(results, r)
<1>1. PICK x, y \in Nat \ {0} : x = r.tokens /\ y = t.tokens /\ x <= y
  <2>1. r.tokens \in Nat /\ t.tokens \in Nat
    BY DEF Measured
  <2>2. r.tokens \in Nat \ {0} /\ t.tokens \in Nat \ {0} /\ r.tokens <= t.tokens
    BY <2>1
  <2> QED BY <2>2, Zenon
<1>2. TokenCounts(results, t) = TokenCounts(results, r) /\ Peers(results, t) = Peers(results, r)
  BY DEF TokenCounts, Peers
<1>3. PICK most, least \in Nat : /\ most = Max(TokenCounts(results, r)) /\ least = Min(TokenCounts(results, r))
                                 /\ least <= x /\ x <= most
  BY <1>1, WithinBounds
<1>4. y <= most /\ Peers(results, r) # {}
  BY <1>1, <1>2, <1>3, WithinBounds
<1>5. x > 0 /\ y > 0
  OBVIOUS
<1>6. CASE most = least
  <2>1. TokenScore(results, r) = 1000 /\ TokenScore(results, t) = 1000
    BY <1>1, <1>2, <1>3, <1>4, <1>5, <1>6 DEF TokenScore
  <2> QED BY ONLY <2>1 DEF Marks
<1>7. CASE most # least
  <2> DEFINE fewer == Power(x - least, most - least)
             more == Power(y - least, most - least)
  <2>1. /\ most - least \in Nat \ {0} /\ x - least \in Nat /\ y - least \in Nat
        /\ x - least <= y - least /\ y - least <= most - least
    BY ONLY most \in Nat, least \in Nat, x \in Nat, y \in Nat, <1>1, <1>3, <1>4, <1>7
  <2>2. fewer \in Marks /\ more \in Marks /\ fewer <= more
    BY <2>1, PowerRises, Zenon
  <2> HIDE DEF fewer, more
  <2>3. fewer # NaN /\ more # NaN
    BY <2>2, MarksAreNumbers, Zenon
  <2>4. Rest(fewer) \in Marks /\ Rest(more) \in Marks /\ Rest(more) <= Rest(fewer)
    BY <2>2, RestFalls, Zenon
  <2>5. TokenScore(results, r) = Rest(fewer) /\ TokenScore(results, t) = Rest(more)
    <3>1. most # 0
      BY ONLY most \in Nat, least \in Nat, x \in Nat, <1>3, <1>7
    <3>2. TokenScore(results, r) = Rest(fewer)
      BY <1>1, <1>3, <1>4, <1>5, <1>7, <2>3, <3>1 DEF TokenScore, fewer, Rest
    <3>3. TokenScore(results, t) = Rest(more)
      BY <1>1, <1>2, <1>3, <1>4, <1>5, <1>7, <2>3, <3>1 DEF TokenScore, more, Rest
    <3> QED BY <3>2, <3>3
  <2> QED BY ONLY <2>4, <2>5
<1> QED BY <1>6, <1>7

LEMMA SuccessScored ==
  ASSUME NEW results, Measured(results), NEW r \in results, r.ok,
         SpeedScore(results, r) \in Marks, TokenScore(results, r) \in Marks
  PROVE  ScoredResult(results, r).composite = Composite(SpeedScore(results, r), TokenScore(results, r))
<1>1. Timed(results) # {}
  BY WithinBounds, Zenon
<1>2. TokenScore(results, r) # NaN
  BY MarksAreNumbers, Zenon
<1> QED BY <1>1, <1>2 DEF ScoredResult, Weighted, Composite

\* Seven tenths, two tenths and one tenth.
LEMMA WeightsRise ==
  ASSUME NEW s \in Marks, NEW k \in Marks, NEW u \in Marks, NEW v \in Marks, s <= u, k <= v
  PROVE  Composite(s, k) \in Passing /\ Composite(u, v) >= Composite(s, k)
BY DEF Marks, Composite, Passing

\* calculate_scores: a failure scores nothing, and a success at least the 70 % it has
\* for being one and at most everything, whatever the other results are.
THEOREM MarksWithinBounds ==
  ASSUME NEW results, Measured(results), NEW r \in results
  PROVE  ScoredResult(results, r).composite \in IF r.ok THEN 700..1000 ELSE {0}
<1>1. CASE r.ok
  <2>1. r.dur \in Nat /\ r.tokens \in Nat /\ r.dur <= r.dur
    BY DEF Measured
  <2>2. SpeedScore(results, r) \in Marks
    BY <1>1, <2>1, SpeedRises, Zenon
  <2>3. TokenScore(results, r) \in Marks
    <3>1. CASE r.tokens = 0
      BY <3>1 DEF TokenScore, Marks
    <3>2. CASE r.tokens # 0
      <4>1. r.tokens \in 1..r.tokens
        BY <2>1, <3>2
      <4> QED BY <1>1, <4>1, TokensRise, Zenon
    <3> QED BY <3>1, <3>2
  <2>4. ScoredResult(results, r).composite = Composite(SpeedScore(results, r), TokenScore(results, r))
    BY <1>1, <2>2, <2>3, SuccessScored, Zenon
  <2>5. Composite(SpeedScore(results, r), TokenScore(results, r)) \in Passing
    <3>1. ASSUME NEW s \in Marks, NEW k \in Marks PROVE Composite(s, k) \in Passing
      BY DEF Marks, Composite, Passing
    <3>2. PICK s, k \in Marks : s = SpeedScore(results, r) /\ k = TokenScore(results, r)
      BY <2>2, <2>3, Zenon
    <3>3. Composite(s, k) \in Passing
      BY <3>1, Zenon
    <3> QED BY ONLY <3>2, <3>3
  <2> QED BY ONLY <1>1, <2>4, <2>5 DEF Passing
<1>2. CASE ~r.ok
  BY <1>2 DEF ScoredResult, Weighted
<1> QED BY <1>1, <1>2

\* calculate_scores: between two successes of an exercise the one that was no slower and
\* reported no more tokens, but some, never scores less.
THEOREM LessIsNeverWorse ==
  ASSUME NEW results, Measured(results), NEW r \in results, NEW t \in results,
         r.ok, t.ok, Task(r) = Task(t), r.dur <= t.dur, r.tokens \in 1..t.tokens
  PROVE  ScoredResult(results, r).composite >= ScoredResult(results, t).composite
<1>1. /\ SpeedScore(results, r) \in Marks /\ SpeedScore(results, t) \in Marks
      /\ SpeedScore(results, t) <= SpeedScore(results, r)
  BY SpeedRises, Zenon
<1>2. /\ TokenScore(results, r) \in Marks /\ TokenScore(results, t) \in Marks
      /\ TokenScore(results, t) <= TokenScore(results, r)
  BY TokensRise, Zenon
<1>3. Composite(SpeedScore(results, r), TokenScore(results, r))
        >= Composite(SpeedScore(results, t), TokenScore(results, t))
  <2>1. PICK s, k, u, v \in Marks : /\ s = SpeedScore(results, t) /\ u = SpeedScore(results, r)
                                    /\ k = TokenScore(results, t) /\ v = TokenScore(results, r)
    BY <1>1, <1>2, Zenon
  <2>2. s <= u /\ k <= v
    BY <1>1, <1>2, <2>1, Zenon
  <2>3. Composite(u, v) >= Composite(s, k)
    BY <2>2, WeightsRise, Zenon
  <2> QED BY ONLY <2>1, <2>3
<1>4. ScoredResult(results, r).composite = Composite(SpeedScore(results, r), TokenScore(results, r))
  BY <1>1, <1>2, SuccessScored, Zenon
<1>5. ScoredResult(results, t).composite = Composite(SpeedScore(results, t), TokenScore(results, t))
  BY <1>1, <1>2, SuccessScored, Zenon
<1> QED BY ONLY <1>3, <1>4, <1>5

-----------------------------------------------------------------------------
(* The comparison of two models. *)

\* What a model's rows say of a task.
Value(rows, task, metric) ==
  IF \E r \in rows : Task(r) = task
  THEN Metric(CHOOSE r \in rows : Task(r) = task, metric) ELSE Missing

TasksOf(rows) == {Task(r) : r \in rows}

\* The tasks that the left and the right model win, or neither.
LeftWins(left, right, metric) ==
  {t \in TasksOf(left) : Faster(Value(left, t, metric), Value(right, t, metric)) = "a"}
RightWins(left, right, metric) ==
  {t \in TasksOf(left) : Faster(Value(left, t, metric), Value(right, t, metric)) = "b"}
  \cup (TasksOf(right) \ TasksOf(left))

Given(tasks, side) == {[task |-> t, faster |-> side] : t \in tasks}

LEMMA WinsAreTasks ==
  ASSUME NEW cache, NEW a, NEW b, NEW metric
  PROVE  /\ Wins(CompareRows(cache, a, b, metric), "a")
              = Cardinality(Given(LeftWins(OfModel(cache, a), OfModel(cache, b), metric), "a"))
         /\ Wins(CompareRows(cache, a, b, metric), "b")
              = Cardinality(Given(RightWins(OfModel(cache, a), OfModel(cache, b), metric), "b"))
<1> DEFINE rows == CompareRows(cache, a, b, metric)
           left == OfModel(cache, a)
           right == OfModel(cache, b)
           F(t) == Faster(Value(left, t, metric), Value(right, t, metric))
<1>1. rows = {[task |-> t, faster |-> F(t)] : t \in TasksOf(left)} \cup Given(TasksOf(right) \ TasksOf(left), "b")
  BY DEF CompareRows, Value, TasksOf, Given
<1> HIDE DEF rows, left, right, F
<1>2. {w \in rows : w.faster = "a"} = Given({t \in TasksOf(left) : F(t) = "a"}, "a")
  BY <1>1 DEF Given
<1>3. {w \in rows : w.faster = "b"}
        = Given({t \in TasksOf(left) : F(t) = "b"} \cup (TasksOf(right) \ TasksOf(left)), "b")
  BY <1>1 DEF Given
<1>4. /\ Wins(rows, "a") = Cardinality(Given({t \in TasksOf(left) : F(t) = "a"}, "a"))
      /\ Wins(rows, "b")
           = Cardinality(Given({t \in TasksOf(left) : F(t) = "b"} \cup (TasksOf(right) \ TasksOf(left)), "b"))
  BY <1>2, <1>3 DEF Wins
<1> QED BY <1>4 DEF rows, left, right, F, LeftWins, RightWins

LEMMA AsManyRows ==
  ASSUME NEW tasks, IsFiniteSet(tasks), NEW side
  PROVE  Cardinality(Given(tasks, side)) = Cardinality(tasks)
<1> DEFINE f == [t \in tasks |-> [task |-> t, faster |-> side]]
<1>1. f \in Bijection(tasks, Given(tasks, side))
  <2>1. f \in [tasks -> Given(tasks, side)] /\ \A y \in Given(tasks, side) : \E t \in tasks : f[t] = y
    BY DEF Given
  <2>2. \A t, u \in tasks : f[t] = f[u] => t = u
    <3>1. \A t \in tasks : f[t].task = t
      OBVIOUS
    <3> QED BY <3>1
  <2> QED BY <2>1, <2>2, Zenon DEF Bijection, Injection, Surjection, IsInjective
<1> HIDE DEF f
<1> QED BY <1>1, FS_Bijection DEF ExistsBijection

\* compare_page: swapping the two models swaps the winners and changes no count, for any
\* results in which every count is there.
THEOREM ComparisonIsSymmetric ==
  ASSUME NEW cache, IsFiniteSet(cache), NEW a, NEW b, NEW metric \in {"speed", "tokens"},
         \A r \in OfModel(cache, a) \cup OfModel(cache, b) :
           r.dur \in Nat /\ r.tokens \in Nat /\ Metric(r, metric) # Missing
  PROVE  LET there == CompareRows(cache, a, b, metric)
             back == CompareRows(cache, b, a, metric)
         IN Wins(there, "a") = Wins(back, "b") /\ Wins(there, "b") = Wins(back, "a")
<1> DEFINE left == OfModel(cache, a)
           right == OfModel(cache, b)
<1>1. \A r \in left \cup right : Metric(r, metric) \in Nat
  BY DEF Metric
<1>2. IsFiniteSet(left) /\ IsFiniteSet(right)
  BY FS_Subset DEF OfModel
<1> HIDE DEF left, right
<1>3. \A t : /\ IF t \in TasksOf(left) THEN Value(left, t, metric) \in Nat ELSE Value(left, t, metric) = Missing
             /\ IF t \in TasksOf(right) THEN Value(right, t, metric) \in Nat ELSE Value(right, t, metric) = Missing
  BY <1>1 DEF Value, TasksOf
<1>4. /\ LeftWins(left, right, metric) = RightWins(right, left, metric)
      /\ RightWins(left, right, metric) = LeftWins(right, left, metric)
  BY <1>3 DEF LeftWins, RightWins, Faster, Missing
<1>5. IsFiniteSet(LeftWins(left, right, metric)) /\ IsFiniteSet(RightWins(left, right, metric))
  <2>1. IsFiniteSet(TasksOf(left)) /\ IsFiniteSet(TasksOf(right))
    <3>1. ASSUME NEW S, IsFiniteSet(S) PROVE IsFiniteSet(TasksOf(S))
      <4> DEFINE f == [r \in S |-> Task(r)]
      <4>1. f \in [S -> TasksOf(S)] /\ \A y \in TasksOf(S) : \E r \in S : f[r] = y
        BY DEF TasksOf
      <4> HIDE DEF f
      <4> QED BY <3>1, <4>1, ImageIsFinite
    <3> QED BY <1>2, <3>1
  <2>2. LeftWins(left, right, metric) \subseteq TasksOf(left) \cup TasksOf(right)
        /\ RightWins(left, right, metric) \subseteq TasksOf(left) \cup TasksOf(right)
    BY DEF LeftWins, RightWins
  <2>3. IsFiniteSet(TasksOf(left) \cup TasksOf(right))
    BY <2>1, FS_Union
  <2> QED BY <2>2, <2>3, FS_Subset
<1>6. /\ Wins(CompareRows(cache, a, b, metric), "a") = Cardinality(Given(LeftWins(left, right, metric), "a"))
      /\ Wins(CompareRows(cache, a, b, metric), "b") = Cardinality(Given(RightWins(left, right, metric), "b"))
      /\ Wins(CompareRows(cache, b, a, metric), "a") = Cardinality(Given(LeftWins(right, left, metric), "a"))
      /\ Wins(CompareRows(cache, b, a, metric), "b") = Cardinality(Given(RightWins(right, left, metric), "b"))
  <2> DEFINE Agree(x, y) ==
               /\ Wins(CompareRows(cache, x, y, metric), "a")
                    = Cardinality(Given(LeftWins(OfModel(cache, x), OfModel(cache, y), metric), "a"))
               /\ Wins(CompareRows(cache, x, y, metric), "b")
                    = Cardinality(Given(RightWins(OfModel(cache, x), OfModel(cache, y), metric), "b"))
  <2>1. Agree(a, b) /\ Agree(b, a)
    BY ONLY WinsAreTasks
  <2> QED BY ONLY <2>1 DEF left, right
<1> QED BY <1>4, <1>5, <1>6, AsManyRows

-----------------------------------------------------------------------------
(* Every call that a behaviour can make. *)

\* compare_page: one row for each exercise that either model ran.
LEMMA RowsAreTasks ==
  ASSUME NEW cache, IsFiniteSet(cache), NEW a, NEW b, NEW metric
  PROVE  LET rows == CompareRows(cache, a, b, metric)
         IN  /\ IsFiniteSet(rows) /\ \A w \in rows : w.faster \in {"a", "b", "tie"}
             /\ Cardinality(rows) = Cardinality({Task(r) : r \in OfModel(cache, a) \cup OfModel(cache, b)})
<1> DEFINE rows == CompareRows(cache, a, b, metric)
           left == OfModel(cache, a)
           right == OfModel(cache, b)
           tasks == {Task(r) : r \in left \cup right}
           F(t) == Faster(Value(left, t, metric), Value(right, t, metric))
           side == [t \in tasks |-> IF t \in TasksOf(left) THEN F(t) ELSE "b"]
           row == [t \in tasks |-> [task |-> t, faster |-> side[t]]]
<1>1. rows = {[task |-> t, faster |-> F(t)] : t \in TasksOf(left)} \cup Given(TasksOf(right) \ TasksOf(left), "b")
  BY DEF CompareRows, Value, TasksOf, Given
<1>2. \A t : F(t) \in {"a", "b", "tie"}
  BY DEF Faster
<1>3. IsFiniteSet(tasks)
  <2> DEFINE f == [r \in left \cup right |-> Task(r)]
  <2>1. f \in [left \cup right -> tasks] /\ \A y \in tasks : \E r \in left \cup right : f[r] = y
    OBVIOUS
  <2>2. IsFiniteSet(left \cup right)
    BY FS_Subset DEF OfModel
  <2> HIDE DEF f, left, right, tasks
  <2> QED BY <2>1, <2>2, ImageIsFinite
<1>4. tasks = TasksOf(left) \cup TasksOf(right)
  BY DEF TasksOf
<1> HIDE DEF rows, left, right, tasks, F
<1>5. \A t \in tasks : side[t] \in {"a", "b", "tie"}
  BY <1>2
<1>6. rows = {[task |-> t, faster |-> side[t]] : t \in tasks}
  BY <1>1, <1>4 DEF Given
<1> HIDE DEF side
<1>7. row \in Bijection(tasks, rows)
  <2>1. row \in [tasks -> rows] /\ \A w \in rows : \E t \in tasks : row[t] = w
    BY <1>6
  <2>2. \A t \in tasks : row[t].task = t
    OBVIOUS
  <2>3. \A t, u \in tasks : row[t] = row[u] => t = u
    <3> HIDE DEF row
    <3> QED BY <2>2
  <2> QED BY <2>1, <2>3, Zenon DEF Bijection, Injection, Surjection, IsInjective
<1>8. IsFiniteSet(rows) /\ Cardinality(rows) = Cardinality(tasks)
  <2> HIDE DEF row
  <2> QED BY <1>3, <1>7, FS_Bijection DEF ExistsBijection
<1>9. \A w \in rows : w.faster \in {"a", "b", "tie"}
  BY <1>5, <1>6
<1> QED BY <1>8, <1>9, Zenon DEF rows, tasks, left, right

\* Every row goes to one side or to nobody.
LEMMA WinsAddUp ==
  ASSUME NEW rows, IsFiniteSet(rows), \A w \in rows : w.faster \in {"a", "b", "tie"}
  PROVE  Wins(rows, "a") + Wins(rows, "b") + Wins(rows, "tie") = Cardinality(rows)
<1> DEFINE A == {w \in rows : w.faster = "a"}
           B == {w \in rows : w.faster = "b"}
           C == {w \in rows : w.faster = "tie"}
<1>1. rows = (A \cup B) \cup C /\ (A \cup B) \cap C = {} /\ A \cap B = {}
  OBVIOUS
<1>2. IsFiniteSet(A) /\ IsFiniteSet(B) /\ IsFiniteSet(C)
  BY FS_Subset
<1>3. Wins(rows, "a") = Cardinality(A) /\ Wins(rows, "b") = Cardinality(B) /\ Wins(rows, "tie") = Cardinality(C)
  BY Zenon DEF Wins
<1> HIDE DEF A, B, C
<1>4. Cardinality(A) \in Nat /\ Cardinality(B) \in Nat /\ Cardinality(C) \in Nat /\ Cardinality({}) = 0
  BY <1>2, FS_CardinalityType, FS_EmptySet
<1>5. ASSUME NEW S, NEW T, IsFiniteSet(S), IsFiniteSet(T), S \cap T = {}
      PROVE  IsFiniteSet(S \cup T) /\ Cardinality(S \cup T) = Cardinality(S) + Cardinality(T)
  <2>1. IsFiniteSet(S \cup T) /\ Cardinality(S \cup T) = Cardinality(S) + Cardinality(T) - Cardinality(S \cap T)
    BY <1>5, FS_Union
  <2>2. Cardinality(S \cap T) = 0 /\ Cardinality(S) \in Nat /\ Cardinality(T) \in Nat
    BY <1>4, <1>5, FS_CardinalityType
  <2> QED BY <2>1, <2>2
<1>6. IsFiniteSet(A \cup B) /\ Cardinality(A \cup B) = Cardinality(A) + Cardinality(B)
  BY <1>1, <1>2, <1>5, Zenon
<1>7. Cardinality((A \cup B) \cup C) = Cardinality(A \cup B) + Cardinality(C)
  BY <1>1, <1>2, <1>5, <1>6, Zenon
<1>8. Cardinality(rows) = Cardinality((A \cup B) \cup C)
  BY <1>1, Zenon
<1> QED BY ONLY <1>3, <1>4, <1>6, <1>7, <1>8

\* compare_page, for any two models and any results.
THEOREM ModelsCompare ==
  ASSUME NEW cache, Recorded(cache), NEW a, NEW b, NEW metric \in {"speed", "tokens"}
  PROVE  Symmetric(cache, a, b, metric)
<1> DEFINE there == CompareRows(cache, a, b, metric)
           back == CompareRows(cache, b, a, metric)
           ran == OfModel(cache, a) \cup OfModel(cache, b)
<1>1. IsFiniteSet(cache) /\ ran \in SUBSET cache
  BY DEF Recorded, OfModel
<1>2. /\ IsFiniteSet(there) /\ \A w \in there : w.faster \in {"a", "b", "tie"}
      /\ Cardinality(there) = Cardinality({Task(r) : r \in ran})
  BY <1>1, RowsAreTasks, Zenon
<1>3. Wins(there, "a") + Wins(there, "b") + Wins(there, "tie") = Cardinality(there)
  BY <1>2, WinsAddUp, Zenon
<1>4. ASSUME \A r \in ran : Metric(r, metric) # Missing
      PROVE  Wins(there, "a") = Wins(back, "b") /\ Wins(there, "b") = Wins(back, "a")
  <2>1. \A r \in ran : r.dur \in Nat /\ r.tokens \in Nat /\ Metric(r, metric) # Missing
    BY <1>1, <1>4 DEF Recorded
  <2> QED BY <1>1, <2>1, ComparisonIsSymmetric, ZenonT(40)
<1> QED BY <1>2, <1>3, <1>4, Zenon DEF Symmetric

\* calculate_scores, for any results, filter and quick benchmark.
THEOREM ScoringIsFair ==
  ASSUME NEW cache, Recorded(cache), AllTimed(cache), NEW filter, NEW quick
  PROVE  FairlyScored(Scores(cache, filter, quick))
<1> DEFINE results == Scorable(cache, filter, quick)
           scores == Scores(cache, filter, quick)
<1>1. results \in SUBSET cache
  BY DEF Scorable, Listed
<1>2. scores = {ScoredResult(results, r) : r \in results}
  BY DEF Scores
<1> HIDE DEF results, scores
<1>3. Measured(results)
  <2>1. IsFiniteSet(results)
    BY <1>1, FS_Subset DEF Recorded
  <2> QED BY <1>1, <2>1 DEF Measured, Recorded, AllTimed
<1>4. ASSUME NEW s \in scores
      PROVE  s.result \in results /\ s = ScoredResult(results, s.result) /\ s.result.ok \in BOOLEAN
  <2>1. PICK r \in results : s = ScoredResult(results, r)
    BY <1>2
  <2>2. s.result = r
    BY <2>1 DEF ScoredResult
  <2> QED BY <1>3, <2>1, <2>2 DEF Measured
<1>5. ASSUME NEW s \in scores PROVE IF s.result.ok THEN s.composite \in 700..1000 ELSE s.composite = 0
  <2>1. ScoredResult(results, s.result).composite \in IF s.result.ok THEN 700..1000 ELSE {0}
    BY <1>3, <1>4, MarksWithinBounds
  <2> QED BY <1>4, <2>1
<1>6. ASSUME NEW s \in scores, NEW t \in scores, s.result.ok, t.result.ok, Task(s.result) = Task(t.result),
             s.result.dur <= t.result.dur, s.result.tokens \in 1..t.result.tokens
      PROVE  s.composite >= t.composite
  <2>1. ScoredResult(results, s.result).composite >= ScoredResult(results, t.result).composite
    BY <1>3, <1>4, <1>6, LessIsNeverWorse
  <2> QED BY <1>4, <2>1
<1> DEFINE Passes(s) == IF s.result.ok THEN s.composite \in 700..1000 ELSE s.composite = 0
           Beats(s, t) == /\ s.result.ok /\ t.result.ok /\ Task(s.result) = Task(t.result)
                          /\ s.result.dur <= t.result.dur /\ s.result.tokens \in 1..t.result.tokens
<1>7. (\A s \in scores : Passes(s)) /\ \A s, t \in scores : Beats(s, t) => s.composite >= t.composite
  BY <1>5, <1>6
<1>8. FairlyScored(scores) <=>
        (\A s \in scores : Passes(s)) /\ \A s, t \in scores : Beats(s, t) => s.composite >= t.composite
  BY Zenon DEF FairlyScored
<1> HIDE DEF Passes, Beats
<1> QED BY <1>7, <1>8, Zenon DEF scores

\* What a fold is, it is of the type of its step.
LEMMA FoldTyped ==
  ASSUME NEW S, NEW B, NEW pick, NEW base, NEW step, Foldable(S, B, pick, base, step), NEW g,
         g[{}] = base,
         \A s \in SUBSET S : s # {} /\ g[s \ {pick[s]}] \in B => g[s] = step[<<pick[s], g[s \ {pick[s]}]>>]
  PROVE  \A s \in SUBSET S : g[s] \in B
<1> DEFINE P == {s \in SUBSET S : g[s] \notin B}
<1>1. ASSUME P # {} PROVE FALSE
  <2>1. PICK s \in P : \A t \in SUBSET s : t # s => t \notin P
    <3>1. P \subseteq SUBSET S /\ IsFiniteSet(S)
      BY DEF Foldable
    <3> HIDE DEF P
    <3> QED BY <1>1, <3>1, SmallestSet, Zenon
  <2>2. s \in SUBSET S /\ s # {}
    BY <2>1 DEF Foldable
  <2>3. pick[s] \in s
    BY <2>2 DEF Foldable
  <2>4. g[s \ {pick[s]}] \in B
    BY <2>1, <2>2, <2>3
  <2>5. step[<<pick[s], g[s \ {pick[s]}]>>] \in B
    BY <2>2, <2>3, <2>4 DEF Foldable
  <2> QED BY <2>1, <2>2, <2>4, <2>5
<1> QED BY <1>1

\* A part has a smaller sum.
LEMMA SumPart ==
  ASSUME NEW S, NEW f, Numbered(S, f), NEW U \in SUBSET S, NEW T \in SUBSET U
  PROVE  SumOf(f, T) <= SumOf(f, U)
<1>1. T \in SUBSET S /\ U \ T \in SUBSET S /\ T \cap (U \ T) = {} /\ T \cup (U \ T) = U
  OBVIOUS
<1>2. SumOf(f, T \cup (U \ T)) = SumOf(f, T) + SumOf(f, U \ T)
  BY <1>1, SumUnion
<1>3. SumOf(f, T) \in Nat /\ SumOf(f, U \ T) \in Nat
  BY <1>1, SumOne
<1>4. SumOf(f, U) = SumOf(f, T) + SumOf(f, U \ T)
  BY <1>1, <1>2, Zenon
<1> QED BY ONLY <1>3, <1>4

LEMMA SumZeros ==
  ASSUME NEW S, NEW f, Numbered(S, f), NEW U \in SUBSET S, \A x \in U : f[x] = 0
  PROVE  SumOf(f, U) = 0
<1>1. \A x \in U : f[x] = IF x \in {} THEN 1 ELSE 0
  OBVIOUS
<1>2. SumOf(f, U) = Cardinality({})
  BY <1>1, SumFlags
<1> QED BY <1>2, FS_EmptySet

LEMMA SumSplit ==
  ASSUME NEW S, NEW f, Numbered(S, f), NEW g, Numbered(S, g), NEW h, Numbered(S, h),
         \A x \in S : f[x] = g[x] + h[x]
  PROVE  SumOf(f, S) = SumOf(g, S) + SumOf(h, S)
<1> DEFINE P == {T \in SUBSET S : SumOf(f, T) = SumOf(g, T) + SumOf(h, T)}
<1>1. {} \in P
  <2>1. SumOf(f, {}) = 0 /\ SumOf(g, {}) = 0 /\ SumOf(h, {}) = 0
    BY SumOne
  <2> QED BY <2>1
<1>2. ASSUME NEW T \in SUBSET S, NEW x \in S, T \in P, x \notin T PROVE T \cup {x} \in P
  <2>1. /\ SumOf(f, T \cup {x}) = f[x] + SumOf(f, T) /\ SumOf(g, T \cup {x}) = g[x] + SumOf(g, T)
        /\ SumOf(h, T \cup {x}) = h[x] + SumOf(h, T)
    BY <1>2, SumMore
  <2>2. /\ SumOf(f, T) \in Nat /\ SumOf(g, T) \in Nat /\ SumOf(h, T) \in Nat
        /\ f[x] \in Nat /\ g[x] \in Nat /\ h[x] \in Nat
    BY <1>2, SumMore
  <2>3. SumOf(f, T) = SumOf(g, T) + SumOf(h, T) /\ f[x] = g[x] + h[x] /\ T \cup {x} \in SUBSET S
    BY <1>2
  <2> QED BY <2>1, <2>2, <2>3
<1> HIDE DEF P
<1>4. SUBSET S \subseteq P
  <2>1. Inductive(P, S) /\ IsFiniteSet(S)
    BY <1>1, <1>2, Zenon DEF Inductive, Numbered
  <2> QED BY <2>1, SubsetInduction, Zenon
<1> QED BY <1>4 DEF P

-----------------------------------------------------------------------------
(* Traces. *)

UsageCounts == [input : Nat, output : Nat, read : Nat, write : Nat]
DirectCounts == [input : Int, output : Int, read : Int, write : Int]
ServedCounts == [input : Nat, output : Nat]
OuterCounts == [input : Nat, output : Nat, read : Nat, write : Nat, tools : Nat]

\* Only the assistant calls tools.
IsEntry(e) ==
  /\ e.usage \in UsageCounts \cup {NoUsage} /\ e.tools \in Nat /\ e.text \in Nat
  /\ e.direct \in DirectCounts /\ e.served \in ServedCounts /\ e.outer \in OuterCounts
  /\ e.role # "assistant" => e.tools = 0

IsTrace(trace) ==
  IsFiniteSet(DOMAIN trace) /\ DOMAIN trace \subseteq Nat /\ \A i \in DOMAIN trace : IsEntry(trace[i])

LEMMA PlacesOfTrace ==
  ASSUME NEW trace, IsTrace(trace)
  PROVE  /\ WithUsage(trace) \in SUBSET Messages(trace) /\ Messages(trace) \in SUBSET DOMAIN trace
         /\ Accepted(trace) \in SUBSET Messages(trace) /\ Rejected(trace) \in SUBSET DOMAIN trace
         /\ \A P \in SUBSET DOMAIN trace : IsFiniteSet(P) /\ P \subseteq Nat
         /\ \A i \in WithUsage(trace) : trace[i].usage \in UsageCounts
<1>1. \A P \in SUBSET DOMAIN trace : IsFiniteSet(P) /\ P \subseteq Nat
  BY FS_Subset DEF IsTrace
<1> QED BY <1>1 DEF WithUsage, Messages, Accepted, Rejected, IsTrace, IsEntry

\* Sums over the places of a trace.
Outputs(trace, P) == [i \in P |-> trace[i].usage.output]
Reads(trace, P) == [i \in P |-> trace[i].usage.read]
Writes(trace, P) == [i \in P |-> trace[i].usage.write]
Inputs(trace, P) == [i \in P |-> trace[i].usage.input]
InputsAndWrites(trace, P) == [i \in P |-> trace[i].usage.input + trace[i].usage.write]
InputsInAll(trace, P) == [i \in P |-> trace[i].usage.input + trace[i].usage.read + trace[i].usage.write]
Tools(trace, P) == [i \in P |-> trace[i].tools]
Lengths(trace, P) == [i \in P |-> trace[i].text]
ServedOutputs(trace, P) == [i \in P |-> trace[i].served.output]
OuterInputs(trace, P) == [i \in P |-> trace[i].outer.input]
OuterOutputs(trace, P) == [i \in P |-> trace[i].outer.output]
OuterReads(trace, P) == [i \in P |-> trace[i].outer.read]
OuterTools(trace, P) == [i \in P |-> trace[i].outer.tools]

\* A sum over part of the places is a part of the sum.
LEMMA SumWithin ==
  ASSUME NEW P, NEW f, Numbered(P, f), NEW Q \in SUBSET P, NEW g, Numbered(Q, g), \A x \in Q : g[x] = f[x]
  PROVE  SumOf(g, Q) = SumOf(f, Q) /\ SumOf(g, Q) <= SumOf(f, P) /\ SumOf(g, Q) \in Nat /\ SumOf(f, P) \in Nat
<1>1. SumOf(g, Q) = SumOf(f, Q)
  <2>1. Q \in SUBSET (Q \cap P)
    OBVIOUS
  <2> QED BY <2>1, SumSame
<1>2. SumOf(f, Q) <= SumOf(f, P)
  BY SumPart
<1>3. SumOf(g, Q) \in Nat /\ SumOf(f, P) \in Nat
  BY SumOne
<1> QED BY <1>1, <1>2, <1>3

\* What the token report's fallback adds is nothing when nothing stands outside.
LEMMA NothingOutside ==
  ASSUME NEW trace, IsTrace(trace), ToldOnce(trace)
  PROVE  LET R == Rejected(trace) IN
         /\ SumOf(OuterInputs(trace, R), R) = 0 /\ SumOf(OuterOutputs(trace, R), R) = 0
         /\ SumOf(OuterReads(trace, R), R) = 0 /\ SumOf(OuterTools(trace, R), R) = 0
<1> DEFINE R == Rejected(trace)
<1>1. IsFiniteSet(R) /\ \A i \in R : trace[i].outer = NothingOuter
  BY PlacesOfTrace DEF ToldOnce, Rejected
<1>2. \A i \in R : /\ OuterInputs(trace, R)[i] = 0 /\ OuterOutputs(trace, R)[i] = 0
                   /\ OuterReads(trace, R)[i] = 0 /\ OuterTools(trace, R)[i] = 0
  BY <1>1 DEF NothingOuter, OuterInputs, OuterOutputs, OuterReads, OuterTools
<1>3. /\ Numbered(R, OuterInputs(trace, R)) /\ Numbered(R, OuterOutputs(trace, R))
      /\ Numbered(R, OuterReads(trace, R)) /\ Numbered(R, OuterTools(trace, R))
  BY <1>1 DEF NothingOuter, OuterInputs, OuterOutputs, OuterReads, OuterTools, Numbered
<1>4. R \in SUBSET R
  OBVIOUS
<1> HIDE DEF R
<1> QED BY <1>2, <1>3, <1>4, SumZeros DEF R

\* For pi the three readers split the same input in their own ways.
LEMMA PiAgree ==
  ASSUME NEW trace, IsTrace(trace)
  PROVE  LET pi == PiTokens(trace)
             report == ReportedPiTokens(trace)
             detail == TokenReportPi(trace)
         IN /\ report.output = pi.output
            /\ report.input + Total(trace, WithUsage(trace), LAMBDA e : e.usage.write) = pi.uncached
            /\ ToldOnce(trace) =>
                 /\ detail.input <= pi.input /\ detail.output <= pi.output /\ detail.read <= pi.cached
                 /\ Messages(trace) = Accepted(trace) =>
                      detail.input = pi.input /\ detail.output = pi.output /\ detail.read = pi.cached
<1> DEFINE U == WithUsage(trace)
           D == {i \in Accepted(trace) : trace[i].usage # NoUsage}
           R == Rejected(trace)
<1>1. /\ IsFiniteSet(U) /\ IsFiniteSet(D)
      /\ \A i \in U : trace[i].usage \in UsageCounts
      /\ \A i \in D : trace[i].usage \in UsageCounts
  BY PlacesOfTrace DEF IsTrace, IsEntry
<1>2. ASSUME NEW P, P = U \/ P = D
      PROVE  /\ Numbered(P, Reads(trace, P)) /\ Numbered(P, Writes(trace, P)) /\ Numbered(P, Inputs(trace, P))
             /\ Numbered(P, InputsAndWrites(trace, P)) /\ Numbered(P, InputsInAll(trace, P))
             /\ Numbered(P, Outputs(trace, P))
  <2>1. IsFiniteSet(P) /\ \A i \in P : trace[i].usage \in UsageCounts
    BY <1>1, <1>2
  <2> HIDE DEF U, D
  <2> QED BY <2>1 DEF Numbered, Reads, Writes, Inputs, InputsAndWrites, InputsInAll, Outputs, UsageCounts
<1>3. SumOf(InputsAndWrites(trace, U), U) = SumOf(Inputs(trace, U), U) + SumOf(Writes(trace, U), U)
  <2>1. \A i \in U : InputsAndWrites(trace, U)[i] = Inputs(trace, U)[i] + Writes(trace, U)[i]
    BY DEF InputsAndWrites, Inputs, Writes
  <2> HIDE DEF U, D
  <2> QED BY <1>2, <2>1, SumSplit
<1>4. SumOf(InputsInAll(trace, U), U) = SumOf(Reads(trace, U), U) + SumOf(InputsAndWrites(trace, U), U)
  <2>1. \A i \in U : InputsInAll(trace, U)[i] = Reads(trace, U)[i] + InputsAndWrites(trace, U)[i]
    BY <1>1 DEF InputsInAll, InputsAndWrites, Reads, UsageCounts
  <2> HIDE DEF U, D
  <2> QED BY <1>2, <2>1, SumSplit
<1>5. PICK cached, uncached, input, output, write :
        /\ cached = SumOf(Reads(trace, U), U) /\ uncached = SumOf(InputsAndWrites(trace, U), U)
        /\ input = SumOf(Inputs(trace, U), U) /\ write = SumOf(Writes(trace, U), U)
        /\ output = SumOf(Outputs(trace, U), U)
  OBVIOUS
<1>6. /\ PiTokens(trace).input = cached + uncached /\ PiTokens(trace).cached = cached
      /\ PiTokens(trace).uncached = uncached /\ PiTokens(trace).output = output
  BY <1>5 DEF PiTokens, Total, SumFunction, FoldFunction, SumOf, SumFunctionOnSet, Reads, InputsAndWrites, Outputs
<1>7. ReportedPiTokens(trace).input = input /\ ReportedPiTokens(trace).output = output
  BY <1>5 DEF ReportedPiTokens, Total, SumFunction, FoldFunction, SumOf, SumFunctionOnSet, Inputs, Outputs
<1>8. Total(trace, WithUsage(trace), LAMBDA e : e.usage.write) = write
  BY <1>5 DEF Total, SumFunction, FoldFunction, SumOf, SumFunctionOnSet, Writes
<1>9. /\ TokenReportPi(trace).input = SumOf(InputsInAll(trace, D), D) + SumOf(OuterInputs(trace, R), R)
      /\ TokenReportPi(trace).output = SumOf(Outputs(trace, D), D) + SumOf(OuterOutputs(trace, R), R)
      /\ TokenReportPi(trace).read = SumOf(Reads(trace, D), D) + SumOf(OuterReads(trace, R), R)
  BY DEF TokenReportPi, Total, SumFunction, FoldFunction, SumOf, SumFunctionOnSet, InputsInAll, Outputs, Reads,
         OuterInputs, OuterOutputs, OuterReads
<1>10. ASSUME ToldOnce(trace)
       PROVE  /\ D \in SUBSET U /\ (Messages(trace) = Accepted(trace) => D = U)
              /\ TokenReportPi(trace).input = SumOf(InputsInAll(trace, D), D)
              /\ TokenReportPi(trace).output = SumOf(Outputs(trace, D), D)
              /\ TokenReportPi(trace).read = SumOf(Reads(trace, D), D)
  <2>1. D \in SUBSET U /\ (Messages(trace) = Accepted(trace) => D = U)
    BY <1>10 DEF ToldOnce, Accepted, Messages, WithUsage
  <2>2. /\ SumOf(InputsInAll(trace, D), D) \in Nat /\ SumOf(Outputs(trace, D), D) \in Nat
        /\ SumOf(Reads(trace, D), D) \in Nat
    <3> HIDE DEF U, D
    <3>1. D \in SUBSET D
      OBVIOUS
    <3> QED BY <1>2, <3>1, SumOne
  <2>3. SumOf(OuterInputs(trace, R), R) = 0 /\ SumOf(OuterOutputs(trace, R), R) = 0 /\ SumOf(OuterReads(trace, R), R) = 0
    BY <1>10, NothingOutside
  <2> HIDE DEF U, D, R
  <2> QED BY <1>9, <2>1, <2>2, <2>3
<1>11. ASSUME D \in SUBSET U
       PROVE  /\ SumOf(InputsInAll(trace, D), D) <= SumOf(InputsInAll(trace, U), U)
              /\ SumOf(Outputs(trace, D), D) <= SumOf(Outputs(trace, U), U)
              /\ SumOf(Reads(trace, D), D) <= SumOf(Reads(trace, U), U)
  <2> HIDE DEF U, D
  <2>1. \A i \in D : /\ InputsInAll(trace, D)[i] = InputsInAll(trace, U)[i]
                     /\ Outputs(trace, D)[i] = Outputs(trace, U)[i] /\ Reads(trace, D)[i] = Reads(trace, U)[i]
    BY <1>11 DEF InputsInAll, Outputs, Reads
  <2> QED BY <1>2, <1>11, <2>1, SumWithin
<1> HIDE DEF U, D, R
<1>12. PiTokens(trace).input = SumOf(InputsInAll(trace, U), U)
  BY <1>4, <1>5, <1>6, Zenon
<1>13. ASSUME ToldOnce(trace)
       PROVE  /\ TokenReportPi(trace).input <= PiTokens(trace).input
              /\ TokenReportPi(trace).output <= PiTokens(trace).output
              /\ TokenReportPi(trace).read <= PiTokens(trace).cached
  BY <1>5, <1>6, <1>10, <1>11, <1>12, <1>13, Zenon
<1>14. ASSUME ToldOnce(trace), Messages(trace) = Accepted(trace)
       PROVE  /\ TokenReportPi(trace).input = PiTokens(trace).input
              /\ TokenReportPi(trace).output = PiTokens(trace).output
              /\ TokenReportPi(trace).read = PiTokens(trace).cached
  BY <1>5, <1>6, <1>10, <1>12, <1>14, Zenon
<1>15. ReportedPiTokens(trace).input + Total(trace, WithUsage(trace), LAMBDA e : e.usage.write) = PiTokens(trace).uncached
  BY <1>3, <1>5, <1>6, <1>7, <1>8, Zenon
<1>16. ReportedPiTokens(trace).output = PiTokens(trace).output
  BY <1>6, <1>7
<1> QED BY <1>13, <1>14, <1>15, <1>16, Zenon

\* Turns, tool calls and characters of the roles are parts of those of all.
LEMMA CountsAgree ==
  ASSUME NEW trace, IsTrace(trace)
  PROVE  LET detail == TokenReportPi(trace) IN
         /\ TokenReportClaude(trace).tools <= ToolCalls(trace)
         /\ ToldOnce(trace) =>
              /\ detail.tools <= ToolCalls(trace)
              /\ Messages(trace) = Accepted(trace) =>
                   detail.tools = ToolCalls(trace) /\ PiTurns(trace) <= detail.messages
         /\ Chars(trace).input + Chars(trace).output <= Total(trace, DOMAIN trace, LAMBDA e : e.text)
<1> DEFINE D == DOMAIN trace
           M == Messages(trace)
           C == Accepted(trace)
           R == Rejected(trace)
           A == SpokenBy("assistant", trace)
           B == {i \in C : trace[i].role = "assistant" /\ trace[i].usage # NoUsage}
           V == SpokenBy("user", trace)
<1>1. M \in SUBSET D /\ A \in SUBSET M /\ C \in SUBSET M /\ B \in SUBSET A /\ V \in SUBSET D /\ A \cap V = {}
  BY DEF Messages, SpokenBy, Accepted
<1>2. IsFiniteSet(D) /\ \A P \in SUBSET D : Numbered(P, Tools(trace, P)) /\ Numbered(P, Lengths(trace, P))
  <2>1. ASSUME NEW P \in SUBSET D PROVE Numbered(P, Tools(trace, P)) /\ Numbered(P, Lengths(trace, P))
    <3>1. IsFiniteSet(P)
      BY PlacesOfTrace
    <3> QED BY <3>1 DEF Numbered, Tools, Lengths, IsTrace, IsEntry
  <2> QED BY <2>1 DEF IsTrace
<1>3. /\ ToolCalls(trace) = SumOf(Tools(trace, A), A)
      /\ TokenReportPi(trace).tools = SumOf(Tools(trace, C), C) + SumOf(OuterTools(trace, R), R)
      /\ TokenReportClaude(trace).tools = SumOf(Tools(trace, B), B)
  BY DEF ToolCalls, TokenReportPi, TokenReportClaude, Total, SumFunction, SumOf, SumFunctionOnSet, Tools, OuterTools
<1>4. /\ Chars(trace).input = SumOf(Lengths(trace, V), V) /\ Chars(trace).output = SumOf(Lengths(trace, A), A)
      /\ Total(trace, DOMAIN trace, LAMBDA e : e.text) = SumOf(Lengths(trace, D), D)
  BY DEF Chars, Total, SumFunction, SumOf, SumFunctionOnSet, Lengths
<1>5. ASSUME NEW P \in SUBSET D, NEW Q \in SUBSET P
      PROVE  /\ SumOf(Tools(trace, Q), Q) = SumOf(Tools(trace, P), Q)
             /\ SumOf(Tools(trace, Q), Q) <= SumOf(Tools(trace, P), P)
             /\ SumOf(Lengths(trace, Q), Q) = SumOf(Lengths(trace, P), Q)
  <2>1. /\ Numbered(P, Tools(trace, P)) /\ Numbered(P, Lengths(trace, P))
        /\ Numbered(Q, Tools(trace, Q)) /\ Numbered(Q, Lengths(trace, Q))
    BY <1>2
  <2>2. \A i \in Q : Tools(trace, Q)[i] = Tools(trace, P)[i] /\ Lengths(trace, Q)[i] = Lengths(trace, P)[i]
    BY DEF Tools, Lengths
  <2> HIDE DEF D
  <2> QED BY <2>1, <2>2, SumWithin
<1>6. M = C => PiTurns(trace) <= TokenReportPi(trace).messages
  <2>1. IsFiniteSet(M) /\ A \in SUBSET M
    BY <1>1, PlacesOfTrace
  <2>2. Cardinality(A) <= Cardinality(M)
    <3> HIDE DEF A, M
    <3> QED BY <2>1, FS_Subset
  <2>3. PiTurns(trace) = Cardinality(A) /\ TokenReportPi(trace).messages = Cardinality(C)
    BY DEF PiTurns, TokenReportPi
  <2> HIDE DEF A, M, C
  <2> QED BY <2>2, <2>3, Zenon
<1>7. \A i \in M \ A : Tools(trace, M)[i] = 0
  BY DEF Tools, SpokenBy, Messages, IsTrace, IsEntry
<1>t. ToldOnce(trace) => SumOf(OuterTools(trace, R), R) = 0
  BY NothingOutside
<1> HIDE DEF D, M, A, B, C, V, R
<1>8. SumOf(Tools(trace, A), A) = SumOf(Tools(trace, M), M)
  <2>1. A \in SUBSET M /\ M \ A \in SUBSET M /\ A \cap (M \ A) = {} /\ A \cup (M \ A) = M /\ Numbered(M, Tools(trace, M))
    BY <1>1, <1>2
  <2>2. SumOf(Tools(trace, M), A \cup (M \ A)) = SumOf(Tools(trace, M), A) + SumOf(Tools(trace, M), M \ A)
    BY <2>1, SumUnion
  <2>3. SumOf(Tools(trace, M), M \ A) = 0
    BY <1>7, <2>1, SumZeros
  <2>4. SumOf(Tools(trace, M), A) \in Nat
    BY <2>1, SumOne
  <2>5. SumOf(Tools(trace, M), M) = SumOf(Tools(trace, M), A) + SumOf(Tools(trace, M), M \ A)
    BY <2>1, <2>2, Zenon
  <2>6. SumOf(Tools(trace, A), A) = SumOf(Tools(trace, M), A)
    BY <1>1, <1>5
  <2> QED BY ONLY <2>3, <2>4, <2>5, <2>6
<1>9. TokenReportClaude(trace).tools <= ToolCalls(trace)
  <2>1. A \in SUBSET D /\ B \in SUBSET A
    BY <1>1
  <2>2. SumOf(Tools(trace, B), B) <= SumOf(Tools(trace, A), A)
    BY <1>5, <2>1, Zenon
  <2> QED BY <1>3, <2>2, Zenon
<1>10. SumOf(Lengths(trace, V), V) + SumOf(Lengths(trace, A), A) <= SumOf(Lengths(trace, D), D)
  <2>1. V \in SUBSET D /\ A \in SUBSET D /\ V \cap A = {} /\ V \cup A \in SUBSET D /\ Numbered(D, Lengths(trace, D))
    BY <1>1, <1>2
  <2>2. SumOf(Lengths(trace, D), V \cup A) = SumOf(Lengths(trace, D), V) + SumOf(Lengths(trace, D), A)
    BY <2>1, SumUnion
  <2>3. SumOf(Lengths(trace, D), V \cup A) <= SumOf(Lengths(trace, D), D)
    BY <2>1, SumPart
  <2>4. SumOf(Lengths(trace, V), V) = SumOf(Lengths(trace, D), V) /\ SumOf(Lengths(trace, A), A) = SumOf(Lengths(trace, D), A)
    BY <1>5, <2>1
  <2> QED BY <2>2, <2>3, <2>4
<1>11. ToldOnce(trace) => TokenReportPi(trace).tools = SumOf(Tools(trace, C), C)
  <2>1. C \in SUBSET C /\ Numbered(C, Tools(trace, C))
    BY <1>1, <1>2
  <2>2. SumOf(Tools(trace, C), C) \in Nat
    BY <2>1, SumOne
  <2> QED BY <1>3, <1>t, <2>2
<1>12. SumOf(Tools(trace, C), C) <= ToolCalls(trace)
  <2>1. SumOf(Tools(trace, C), C) <= SumOf(Tools(trace, M), M)
    BY <1>1, <1>5, Zenon
  <2> QED BY <1>3, <1>8, <2>1, Zenon
<1>13. M = C => SumOf(Tools(trace, C), C) = ToolCalls(trace)
  BY <1>3, <1>8, Zenon
<1>14. Chars(trace).input + Chars(trace).output <= Total(trace, DOMAIN trace, LAMBDA e : e.text)
  BY <1>4, <1>10, Zenon
<1> QED BY <1>6, <1>9, <1>11, <1>12, <1>13, <1>14, Zenon DEF M, C

-----------------------------------------------------------------------------
(* The readers of claude's traces go through them in order. *)

ClaudeSums == [input : Nat, output : Nat, cached : Nat, uncached : Nat, prev : Nat]
NoClaude == [input |-> 0, output |-> 0, cached |-> 0, uncached |-> 0, prev |-> 0]

\* g is the fold of the dashboard over the places in S.
ClaudeFold(g, trace, S) ==
  \A T \in SUBSET S :
    /\ g[T] \in ClaudeSums
    /\ g[T] = IF T = {} THEN NoClaude ELSE ClaudeStep(g[T \ {Max(T)}], trace[Max(T)])

LEMMA ClaudeStepTyped ==
  ASSUME NEW s \in ClaudeSums, NEW e, e.usage \in UsageCounts
  PROVE  ClaudeStep(s, e) \in ClaudeSums
<1>1. s.prev \in Nat /\ e.usage.input \in Nat /\ e.usage.output \in Nat
  BY DEF ClaudeSums, UsageCounts
<1> DEFINE new == Minus(e.usage.input, s.prev)
           uncached == IF new > 0 THEN new ELSE e.usage.input
<1>2. uncached \in Nat /\ uncached <= e.usage.input
  BY <1>1 DEF Minus
<1>3. ClaudeStep(s, e) = [input |-> s.input + e.usage.input, output |-> s.output + e.usage.output,
        cached |-> s.cached + e.usage.input - uncached, uncached |-> s.uncached + uncached, prev |-> e.usage.input]
  BY DEF ClaudeStep
<1> HIDE DEF uncached, new
<1> QED BY <1>1, <1>2, <1>3 DEF ClaudeSums

LEMMA ClaudeFolds ==
  ASSUME NEW trace, IsTrace(trace)
  PROVE  \E g : ClaudeTokens(trace) = g[WithUsage(trace)] /\ ClaudeFold(g, trace, WithUsage(trace))
<1> DEFINE S == WithUsage(trace)
           F(h) == [s \in SUBSET S |-> IF s = {} THEN NoClaude ELSE ClaudeStep(h[s \ {Max(s)}], trace[Max(s)])]
           g == CHOOSE h : h = F(h)
           pick == [s \in SUBSET S |-> Max(s)]
           step == [p \in S \X ClaudeSums |-> ClaudeStep(p[2], trace[p[1]])]
<1>1. IsFiniteSet(S) /\ \A s \in SUBSET S : IsFiniteSet(s) /\ s \subseteq Nat
  BY PlacesOfTrace
<1>2. \A i \in S : trace[i].usage \in UsageCounts
  BY PlacesOfTrace
<1>3. ClaudeTokens(trace) = g[S]
  BY Zenon DEF ClaudeTokens, InOrder, MapThenFoldSet, NoClaude
<1> HIDE DEF S
<1>4. \A s \in SUBSET S : s # {} => Max(s) \in s
  BY <1>1, GreatestExists
<1>5. step \in [S \X ClaudeSums -> ClaudeSums]
  BY <1>2, ClaudeStepTyped
<1>6. Foldable(S, ClaudeSums, pick, NoClaude, step)
  <2>1. NoClaude \in ClaudeSums
    BY DEF NoClaude, ClaudeSums
  <2> HIDE DEF step
  <2> QED BY <1>1, <1>4, <1>5, <2>1 DEF Foldable
<1>7. ASSUME NEW h, NEW s \in SUBSET S, s # {}, h[s \ {pick[s]}] \in ClaudeSums
      PROVE  step[<<pick[s], h[s \ {pick[s]}]>>] = ClaudeStep(h[s \ {Max(s)}], trace[Max(s)])
  <2>1. pick[s] = Max(s) /\ Max(s) \in S
    BY <1>4, <1>7
  <2>2. <<Max(s), h[s \ {Max(s)}]>> \in S \X ClaudeSums
    BY <1>7, <2>1
  <2> QED BY <2>1, <2>2
<1>8. PICK h : IsFold(h, S, ClaudeSums, pick, NoClaude, step)
  BY <1>6, FoldExists, Zenon
<1>9. h = F(h)
  <2> HIDE DEF pick, step
  <2>1. h = [s \in SUBSET S |-> IF s = {} THEN NoClaude ELSE step[<<pick[s], h[s \ {pick[s]}]>>]]
    BY <1>8, Zenon DEF IsFold, Unfolded
  <2>2. \A s \in SUBSET S : h[s \ {pick[s]}] \in ClaudeSums
    BY <1>8 DEF IsFold
  <2> QED BY <1>7, <2>1, <2>2, Zenon
<1>10. g = F(g)
  <2> HIDE DEF F
  <2> QED BY <1>9, Zenon
<1>11. \A s \in SUBSET S : g[s] = IF s = {} THEN NoClaude ELSE ClaudeStep(g[s \ {Max(s)}], trace[Max(s)])
  <2> HIDE DEF g
  <2> QED BY <1>10, Zenon
<1> HIDE DEF g, F, pick, step
<1>12. \A s \in SUBSET S : g[s] \in ClaudeSums
  <2>1. g[{}] = NoClaude
    BY <1>11
  <2>2. \A s \in SUBSET S : s # {} /\ g[s \ {pick[s]}] \in ClaudeSums => g[s] = step[<<pick[s], g[s \ {pick[s]}]>>]
    BY <1>7, <1>11, Zenon
  <2> QED BY <1>6, <2>1, <2>2, FoldTyped
<1>13. ClaudeFold(g, trace, S)
  BY <1>11, <1>12, Zenon DEF ClaudeFold
<1> QED BY <1>3, <1>13, Zenon DEF S

GrowthSums == [input : Nat, output : Nat, read : Nat, write : Nat, prev : UsageCounts]
NoGrowth == [input |-> 0, output |-> 0, read |-> 0, write |-> 0, prev |-> NoCounts]

\* g is the fold of the token report over the places in S.
GrowthFold(g, trace, S) ==
  \A T \in SUBSET S :
    /\ g[T] \in GrowthSums
    /\ g[T] = IF T = {} THEN NoGrowth ELSE Growth(g[T \ {Max(T)}], trace[Max(T)])

LEMMA CountsTyped ==
  ASSUME NEW e, IsEntry(e)
  PROVE  /\ Counts(e) \in UsageCounts
         /\ e.usage = NoUsage => Counts(e).input = 0 /\ Counts(e).output = 0
         /\ e.usage # NoUsage /\ e.direct = NoUsage =>
              /\ Counts(e).output <= e.usage.output + e.served.output
              /\ e.served = NothingServed => Counts(e).input = e.usage.input
<1>1. CASE e.usage = NoUsage
  <2>1. Counts(e) = NoCounts
    BY <1>1 DEF Counts
  <2> QED BY <1>1, <2>1 DEF NoCounts, UsageCounts
<1>2. CASE e.usage # NoUsage
  <2>1. PICK u \in UsageCounts : u = e.usage
    BY <1>2 DEF IsEntry
  <2>2. PICK d \in DirectCounts : d = e.direct
    BY DEF IsEntry
  <2>3. PICK v \in ServedCounts : v = e.served
    BY DEF IsEntry
  <2>4. /\ u.input \in Nat /\ u.output \in Nat /\ u.read \in Nat /\ u.write \in Nat
        /\ d.input \in Int /\ d.output \in Int /\ d.read \in Int /\ d.write \in Int
        /\ v.input \in Nat /\ v.output \in Nat
    BY DEF UsageCounts, DirectCounts, ServedCounts
  <2>5. PICK i, o, r, w \in Nat :
          /\ i = Direct(e, "input") /\ o = Direct(e, "output") /\ r = Direct(e, "read") /\ w = Direct(e, "write")
          /\ d = NoUsage => i = u.input /\ o = u.output
    <3>1. /\ Direct(e, "input") = IF d.input >= 0 THEN d.input ELSE u.input
          /\ Direct(e, "output") = IF d.output >= 0 THEN d.output ELSE u.output
          /\ Direct(e, "read") = IF d.read >= 0 THEN d.read ELSE u.read
          /\ Direct(e, "write") = IF d.write >= 0 THEN d.write ELSE u.write
      BY <2>1, <2>2 DEF Direct
    <3>2. d = NoUsage => d.input = -1 /\ d.output = -1
      BY DEF NoUsage
    <3> QED BY <2>4, <3>1, <3>2
  <2>6. CASE e.role = "user"
    <3>1. Counts(e) = [input |-> i, output |-> o, read |-> 0, write |-> 0]
      BY <1>2, <2>5, <2>6 DEF Counts, NoCounts
    <3> QED BY <1>2, <2>1, <2>2, <2>3, <2>4, <2>5, <3>1 DEF UsageCounts
  <2>7. CASE e.role # "user"
    <3>1. Counts(e) = [input |-> i + v.input, output |-> o + v.output, read |-> r, write |-> w]
      BY <1>2, <2>3, <2>5, <2>7 DEF Counts
    <3>2. e.served = NothingServed => v.input = 0
      BY <2>3 DEF NothingServed
    <3> QED BY <1>2, <2>1, <2>2, <2>3, <2>4, <2>5, <3>1, <3>2 DEF UsageCounts
  <2> QED BY <2>6, <2>7
<1> QED BY <1>1, <1>2

LEMMA GrowthTyped ==
  ASSUME NEW s \in GrowthSums, NEW e, IsEntry(e)
  PROVE  /\ Growth(s, e) \in GrowthSums /\ Growth(s, e).prev = Counts(e)
         /\ Growth(s, e).input = s.input + Minus(Counts(e).input, s.prev.input)
         /\ Growth(s, e).output = s.output + Minus(Counts(e).output, s.prev.output)
<1>1. PICK c \in UsageCounts : c = Counts(e)
  BY CountsTyped
<1>2. \A a, b \in Nat : Minus(a, b) \in Nat
  BY DEF Minus
<1>3. Growth(s, e) = [input |-> s.input + Minus(c.input, s.prev.input), output |-> s.output + Minus(c.output, s.prev.output),
        read |-> s.read + Minus(c.read, s.prev.read), write |-> s.write + Minus(c.write, s.prev.write), prev |-> c]
  BY <1>1 DEF Growth
<1>4. /\ s.input \in Nat /\ s.output \in Nat /\ s.read \in Nat /\ s.write \in Nat /\ s.prev \in UsageCounts
      /\ \A u \in UsageCounts : u.input \in Nat /\ u.output \in Nat /\ u.read \in Nat /\ u.write \in Nat
  BY DEF GrowthSums, UsageCounts
<1>5. PICK i, o, r, w \in Nat :
        /\ i = Minus(c.input, s.prev.input) /\ o = Minus(c.output, s.prev.output)
        /\ r = Minus(c.read, s.prev.read) /\ w = Minus(c.write, s.prev.write)
  BY <1>2, <1>4
<1>6. Growth(s, e) = [input |-> s.input + i, output |-> s.output + o, read |-> s.read + r, write |-> s.write + w, prev |-> c]
  BY <1>3, <1>5, Zenon
<1>7. Growth(s, e) \in GrowthSums
  BY ONLY <1>4, <1>6, c \in UsageCounts, i \in Nat, o \in Nat, r \in Nat, w \in Nat DEF GrowthSums
<1>8. Growth(s, e).prev = c /\ Growth(s, e).input = s.input + i /\ Growth(s, e).output = s.output + o
  BY ONLY <1>6
<1> QED BY <1>1, <1>5, <1>7, <1>8, Zenon

LEMMA GrowthFolds ==
  ASSUME NEW trace, IsTrace(trace)
  PROVE  \E g : /\ TokenReportClaude(trace).input = g[Accepted(trace)].input
                /\ TokenReportClaude(trace).output = g[Accepted(trace)].output
                /\ GrowthFold(g, trace, Accepted(trace))
<1> DEFINE S == Accepted(trace)
           F(h) == [s \in SUBSET S |-> IF s = {} THEN NoGrowth ELSE Growth(h[s \ {Max(s)}], trace[Max(s)])]
           g == CHOOSE h : h = F(h)
           pick == [s \in SUBSET S |-> Max(s)]
           step == [p \in S \X GrowthSums |-> Growth(p[2], trace[p[1]])]
<1>1. IsFiniteSet(S) /\ \A s \in SUBSET S : IsFiniteSet(s) /\ s \subseteq Nat
  BY PlacesOfTrace
<1>2. \A i \in S : IsEntry(trace[i])
  BY DEF Accepted, Messages, IsTrace
<1>3. InOrder(Growth, NoGrowth, trace, S) = g[S]
  BY Zenon DEF InOrder, MapThenFoldSet
<1>3a. TokenReportClaude(trace).input = g[S].input /\ TokenReportClaude(trace).output = g[S].output
  <2> HIDE DEF g
  <2>1. /\ TokenReportClaude(trace).input = InOrder(Growth, NoGrowth, trace, S).input
        /\ TokenReportClaude(trace).output = InOrder(Growth, NoGrowth, trace, S).output
    BY DEF TokenReportClaude, NoGrowth, NoCounts
  <2> QED BY <1>3, <2>1, Zenon
<1> HIDE DEF S
<1>4. \A s \in SUBSET S : s # {} => Max(s) \in s
  BY <1>1, GreatestExists
<1>5. step \in [S \X GrowthSums -> GrowthSums]
  BY <1>2, GrowthTyped
<1>6. Foldable(S, GrowthSums, pick, NoGrowth, step)
  <2>1. NoGrowth \in GrowthSums
    BY DEF NoGrowth, GrowthSums, NoCounts, UsageCounts
  <2> HIDE DEF step
  <2> QED BY <1>1, <1>4, <1>5, <2>1 DEF Foldable
<1>7. ASSUME NEW h, NEW s \in SUBSET S, s # {}, h[s \ {pick[s]}] \in GrowthSums
      PROVE  step[<<pick[s], h[s \ {pick[s]}]>>] = Growth(h[s \ {Max(s)}], trace[Max(s)])
  <2>1. pick[s] = Max(s) /\ Max(s) \in S
    BY <1>4, <1>7
  <2>2. <<Max(s), h[s \ {Max(s)}]>> \in S \X GrowthSums
    BY <1>7, <2>1
  <2> QED BY <2>1, <2>2
<1>8. PICK h : IsFold(h, S, GrowthSums, pick, NoGrowth, step)
  BY <1>6, FoldExists, Zenon
<1>9. h = F(h)
  <2> HIDE DEF pick, step
  <2>1. h = [s \in SUBSET S |-> IF s = {} THEN NoGrowth ELSE step[<<pick[s], h[s \ {pick[s]}]>>]]
    BY <1>8, Zenon DEF IsFold, Unfolded
  <2>2. \A s \in SUBSET S : h[s \ {pick[s]}] \in GrowthSums
    BY <1>8 DEF IsFold
  <2> QED BY <1>7, <2>1, <2>2, Zenon
<1>10. g = F(g)
  <2> HIDE DEF F
  <2> QED BY <1>9, Zenon
<1>11. \A s \in SUBSET S : g[s] = IF s = {} THEN NoGrowth ELSE Growth(g[s \ {Max(s)}], trace[Max(s)])
  <2> HIDE DEF g
  <2> QED BY <1>10, Zenon
<1> HIDE DEF g, F, pick, step
<1>12. \A s \in SUBSET S : g[s] \in GrowthSums
  <2>1. g[{}] = NoGrowth
    BY <1>11
  <2>2. \A s \in SUBSET S : s # {} /\ g[s \ {pick[s]}] \in GrowthSums => g[s] = step[<<pick[s], g[s \ {pick[s]}]>>]
    BY <1>7, <1>11, Zenon
  <2> QED BY <1>6, <2>1, <2>2, FoldTyped
<1>13. GrowthFold(g, trace, S)
  BY <1>11, <1>12, Zenon DEF GrowthFold
<1> QED BY <1>3a, <1>13, Zenon DEF S

\* The dashboard loses no input: what is not cached is uncached.
LEMMA ClaudeSplits ==
  ASSUME NEW trace, IsTrace(trace), NEW g, ClaudeFold(g, trace, WithUsage(trace))
  PROVE  g[WithUsage(trace)].input = g[WithUsage(trace)].cached + g[WithUsage(trace)].uncached
<1> DEFINE S == WithUsage(trace)
           P == {T \in SUBSET S : g[T].input # g[T].cached + g[T].uncached}
<1>1. ASSUME P # {} PROVE FALSE
  <2>1. PICK T \in P : \A t \in SUBSET T : t # T => t \notin P
    <3>1. P \subseteq SUBSET S /\ IsFiniteSet(S)
      BY PlacesOfTrace
    <3> HIDE DEF P, S
    <3> QED BY <1>1, <3>1, SmallestSet, Zenon
  <2>2. T \in SUBSET S /\ g[T] = IF T = {} THEN NoClaude ELSE ClaudeStep(g[T \ {Max(T)}], trace[Max(T)])
    BY <2>1 DEF ClaudeFold
  <2>3. T # {}
    BY <2>1, <2>2 DEF NoClaude
  <2>4. Max(T) \in T
    BY <2>2, <2>3, PlacesOfTrace, GreatestExists
  <2>e. PICK e : e = trace[Max(T)]
    OBVIOUS
  <2>5. PICK s \in ClaudeSums : s = g[T \ {Max(T)}] /\ e = trace[Max(T)]
    BY <2>2, <2>4, <2>e DEF ClaudeFold
  <2>6. s.input = s.cached + s.uncached
    BY <2>1, <2>2, <2>4, <2>5
  <2>7. e.usage \in UsageCounts
    BY <2>2, <2>4, <2>5, PlacesOfTrace
  <2>8. ClaudeStep(s, e).input = ClaudeStep(s, e).cached + ClaudeStep(s, e).uncached
    BY <2>6, <2>7 DEF ClaudeStep, Minus, ClaudeSums, UsageCounts
  <2> QED BY <2>1, <2>2, <2>3, <2>5, <2>8
<1> QED BY <1>1

\* The dashboard's output only grows with the messages it counts.
LEMMA ClaudeRises ==
  ASSUME NEW trace, IsTrace(trace), NEW g, ClaudeFold(g, trace, WithUsage(trace)), NEW Q \in SUBSET WithUsage(trace)
  PROVE  /\ g[Q].output <= g[WithUsage(trace)].output
         /\ g[Q].output \in Nat /\ g[WithUsage(trace)].output \in Nat
<1> DEFINE S == WithUsage(trace)
           O == Outputs(trace, S)
           P == {T \in SUBSET S : g[T].output # SumOf(O, T)}
<1>1. Numbered(S, O)
  BY PlacesOfTrace DEF Numbered, Outputs, UsageCounts
<1> HIDE DEF O
<1>2. ASSUME P # {} PROVE FALSE
  <2>1. PICK T \in P : \A t \in SUBSET T : t # T => t \notin P
    <3>1. P \subseteq SUBSET S /\ IsFiniteSet(S)
      BY PlacesOfTrace
    <3> HIDE DEF P, S
    <3> QED BY <1>2, <3>1, SmallestSet, Zenon
  <2> DEFINE x == Max(T)
  <2>2. T \in SUBSET S /\ g[T] = IF T = {} THEN NoClaude ELSE ClaudeStep(g[T \ {x}], trace[x])
    BY <2>1 DEF ClaudeFold
  <2>3. T # {}
    <3>1. T = {} => g[T].output = 0 /\ SumOf(O, T) = 0
      BY <1>1, <2>2, SumOne DEF NoClaude
    <3> QED BY <2>1, <3>1
  <2>4. x \in T
    BY <2>2, <2>3, PlacesOfTrace, GreatestExists
  <2> HIDE DEF x
  <2>5. g[T \ {x}].output = SumOf(O, T \ {x})
    BY <2>1, <2>2, <2>4
  <2>6. SumOf(O, T) = O[x] + SumOf(O, T \ {x}) /\ O[x] = trace[x].usage.output /\ O[x] \in Nat /\ SumOf(O, T \ {x}) \in Nat
    BY <1>1, <2>2, <2>4, SumOne DEF O, Outputs, Numbered
  <2>7. g[T].output = g[T \ {x}].output + trace[x].usage.output
    BY <2>2, <2>3 DEF ClaudeStep
  <2>8. g[T].output = SumOf(O, T)
    BY ONLY <2>5, <2>6, <2>7
  <2> QED BY <2>1, <2>8
<1>3. g[Q].output = SumOf(O, Q) /\ g[S].output = SumOf(O, S)
  BY <1>2
<1>4. SumOf(O, Q) <= SumOf(O, S) /\ SumOf(O, Q) \in Nat /\ SumOf(O, S) \in Nat
  <2> HIDE DEF S
  <2>1. Q \in SUBSET S /\ S \in SUBSET S
    BY DEF S
  <2> QED BY <1>1, <2>1, SumPart, SumOne
<1> QED BY <1>3, <1>4

\* The token report adds up only what grew, and grows from one message to the next by
\* what the message and the server's tools used.
LEMMA OutputGrows ==
  ASSUME NEW trace, IsTrace(trace), ToldOnce(trace), NEW g, ClaudeFold(g, trace, WithUsage(trace)),
         NEW h, GrowthFold(h, trace, Accepted(trace))
  PROVE  h[Accepted(trace)].output <= g[WithUsage(trace)].output + SumOf(ServedOutputs(trace, Accepted(trace)), Accepted(trace))
<1> DEFINE S == WithUsage(trace)
           M == Accepted(trace)
           V == ServedOutputs(trace, M)
           P == {T \in SUBSET M : ~(h[T].output <= g[T \cap S].output + SumOf(V, T))}
<1>v. Numbered(M, V)
  BY PlacesOfTrace DEF Numbered, ServedOutputs, IsTrace, IsEntry, ServedCounts
<1> HIDE DEF V
<1>1. ASSUME P # {} PROVE FALSE
  <2>1. PICK T \in P : \A t \in SUBSET T : t # T => t \notin P
    <3>1. P \subseteq SUBSET M /\ IsFiniteSet(M)
      BY PlacesOfTrace
    <3> HIDE DEF P, M
    <3> QED BY <1>1, <3>1, SmallestSet, Zenon
  <2> DEFINE x == Max(T)
             rest == T \ {x}
  <2>2. T \in SUBSET M /\ h[T] = IF T = {} THEN NoGrowth ELSE Growth(h[rest], trace[x])
    BY <2>1 DEF GrowthFold
  <2>3. T # {}
    <3>1. ASSUME T = {} PROVE h[T].output = 0 /\ g[T \cap S].output = 0 /\ SumOf(V, T) = 0
      <4>1. T \cap S = {} /\ T \cap S \in SUBSET S
        BY <3>1
      <4>2. g[T \cap S] = NoClaude
        BY <4>1 DEF ClaudeFold
      <4>3. SumOf(V, T) = 0
        BY <1>v, <2>2, <3>1, SumOne
      <4> QED BY <2>2, <3>1, <4>2, <4>3 DEF NoGrowth, NoClaude
    <3> QED BY <2>1, <3>1
  <2>4. T \subseteq Nat /\ x \in T /\ \A n \in T : x >= n
    BY <2>2, <2>3, PlacesOfTrace, GreatestExists
  <2> HIDE DEF x
  <2>e. PICK e : e = trace[x]
    OBVIOUS
  <2>5. PICK s \in GrowthSums : s = h[rest] /\ e = trace[x] /\ IsEntry(e)
    BY <2>2, <2>4, <2>e DEF GrowthFold, Accepted, Messages, IsTrace
  <2>6. PICK r \in ClaudeSums : r = g[rest \cap S]
    BY <2>2 DEF ClaudeFold
  <2>v. PICK more, old \in Nat : more = e.served.output /\ old = SumOf(V, rest) /\ SumOf(V, T) = more + old
    <3>1. SumOf(V, T) = V[x] + SumOf(V, rest) /\ SumOf(V, rest) \in Nat
      BY <1>v, <2>2, <2>4, SumOne
    <3>2. V[x] = e.served.output /\ V[x] \in Nat
      BY <1>v, <2>2, <2>4, <2>5 DEF V, ServedOutputs, Numbered
    <3> QED BY <3>1, <3>2
  <2>7. s.output <= r.output + old
    BY <2>1, <2>2, <2>4, <2>5, <2>6, <2>v
  <2>8. h[T].output = s.output + Minus(Counts(e).output, s.prev.output)
    BY <2>2, <2>3, <2>5, GrowthTyped
  <2>9. s.prev.output \in Nat /\ s.output \in Nat /\ r.output \in Nat
    BY DEF GrowthSums, ClaudeSums, UsageCounts
  <2>10. CASE x \in S
    <3>1. T \cap S \in SUBSET S /\ T \cap S # {} /\ (T \cap S) \ {x} = rest \cap S /\ T \cap S \subseteq Nat /\ IsFiniteSet(T \cap S)
      BY <2>2, <2>4, <2>10, PlacesOfTrace
    <3>2. Max(T \cap S) = x
      <4>1. PICK U : U = T \cap S
        OBVIOUS
      <4>2. U \subseteq Nat /\ IsFiniteSet(U) /\ U # {}
        BY <3>1, <4>1, Zenon
      <4>3. PICK m \in U : m = Max(U) /\ \A n \in U : m >= n
        BY <4>2, GreatestExists
      <4>4. x \in U /\ U \subseteq T
        BY <2>4, <2>10, <4>1
      <4>5. x \in Nat /\ m \in Nat /\ m >= x /\ x >= m
        BY <2>4, <4>3, <4>4
      <4>6. m = x
        BY ONLY <4>5
      <4> QED BY <4>1, <4>3, <4>6, Zenon
    <3>3. g[T \cap S] = ClaudeStep(g[(T \cap S) \ {Max(T \cap S)}], trace[Max(T \cap S)])
      BY <3>1 DEF ClaudeFold
    <3>4. g[T \cap S] = ClaudeStep(r, e)
      BY <2>5, <2>6, <3>1, <3>2, <3>3, Zenon
    <3>5. e.usage \in UsageCounts /\ e.usage # NoUsage
      BY <2>5, <2>10 DEF WithUsage, IsEntry
    <3>6. PICK c, own \in Nat : c = Counts(e).output /\ own = e.usage.output /\ c <= own + more
      <4>1. e.direct = NoUsage
        BY <2>2, <2>4, <2>5 DEF ToldOnce, Accepted, Messages
      <4>2. Counts(e).output <= e.usage.output + e.served.output /\ Counts(e) \in UsageCounts
        BY <2>5, <3>5, <4>1, CountsTyped
      <4> QED BY <2>v, <3>5, <4>2 DEF UsageCounts
    <3>7. g[T \cap S].output = r.output + own
      BY <3>4, <3>6 DEF ClaudeStep
    <3>8. PICK grew \in Nat : grew = Minus(Counts(e).output, s.prev.output) /\ grew <= own + more
      BY <2>9, <3>6 DEF Minus
    <3>9. h[T].output = s.output + grew
      BY <2>8, <3>8
    <3>10. h[T].output <= g[T \cap S].output + SumOf(V, T)
      BY ONLY <2>7, <2>9, <2>v, <3>7, <3>8, <3>9, own \in Nat
    <3> QED BY <2>1, <3>10
  <2>11. CASE x \notin S
    <3>1. T \cap S = rest \cap S
      BY <2>11
    <3>2. Counts(e).output = 0
      <4>1. e.usage = NoUsage
        BY <2>2, <2>4, <2>5, <2>11 DEF WithUsage, Accepted, ToldOnce, Messages
      <4> QED BY <2>5, <4>1, CountsTyped
    <3>3. Minus(Counts(e).output, s.prev.output) = 0
      <4>1. \A n \in Nat : Minus(0, n) = 0
        BY DEF Minus
      <4> QED BY <2>9, <3>2, <4>1, Zenon
    <3>4. h[T].output <= g[T \cap S].output + SumOf(V, T)
      <4>g. g[T \cap S].output = r.output
        BY <2>6, <3>1, Zenon
      <4>h. h[T].output = s.output + 0
        BY <2>8, <3>3, Zenon
      <4>1. g[T \cap S].output = r.output /\ h[T].output = s.output
        BY ONLY <2>9, <4>g, <4>h
      <4> QED BY ONLY <2>7, <2>9, <2>v, <4>1
    <3> QED BY <2>1, <3>4
  <2> QED BY <2>10, <2>11
<1>2. h[M].output <= g[M \cap S].output + SumOf(V, M)
  BY <1>1
<1>3. g[M \cap S].output <= g[S].output /\ g[M \cap S].output \in Nat /\ g[S].output \in Nat
  BY ClaudeRises
<1>4. h[M].output \in Nat /\ SumOf(V, M) \in Nat
  BY <1>v, SumOne DEF GrowthFold, GrowthSums
<1> QED BY <1>2, <1>3, <1>4 DEF V

\* What one message adds to the input of either reader, when both compare it with the
\* same one before it.
LEMMA InputStep ==
  ASSUME NEW s \in GrowthSums, NEW r \in ClaudeSums, NEW e, IsEntry(e), s.prev.input = r.prev,
         e.usage \in UsageCounts, e.direct = NoUsage, e.served = NothingServed
  PROVE  /\ s.input <= r.uncached => Growth(s, e).input <= ClaudeStep(r, e).uncached
         /\ s.input = r.uncached /\ (r.prev < e.usage.input \/ r.prev = 0) => Growth(s, e).input = ClaudeStep(r, e).uncached
         /\ Growth(s, e).prev.input = e.usage.input /\ ClaudeStep(r, e).prev = e.usage.input
<1>1. PICK n, p \in Nat : n = e.usage.input /\ p = r.prev
  BY DEF ClaudeSums, UsageCounts
<1>2. Counts(e).input = n
  <2>1. e.usage # NoUsage
    BY DEF UsageCounts, NoUsage
  <2> QED BY <1>1, <2>1, CountsTyped
<1>3. Growth(s, e).input = s.input + Minus(n, p) /\ Growth(s, e).prev.input = n
  BY <1>1, <1>2, GrowthTyped
<1>4. ClaudeStep(r, e).uncached = r.uncached + (IF Minus(n, p) > 0 THEN Minus(n, p) ELSE n) /\ ClaudeStep(r, e).prev = n
  <2>1. PICK fresh : fresh = IF Minus(n, p) > 0 THEN Minus(n, p) ELSE n
    OBVIOUS
  <2>2. ClaudeStep(r, e) = [input |-> r.input + n, output |-> r.output + e.usage.output,
                            cached |-> r.cached + n - fresh, uncached |-> r.uncached + fresh, prev |-> n]
    BY <1>1, <2>1, Zenon DEF ClaudeStep
  <2>3. ClaudeStep(r, e).uncached = r.uncached + fresh /\ ClaudeStep(r, e).prev = n
    BY ONLY <2>2
  <2> QED BY <2>1, <2>3, Zenon
<1>5. s.input \in Nat /\ r.uncached \in Nat
  BY DEF GrowthSums, ClaudeSums
<1>6. PICK m \in Nat : m = Minus(n, p) /\ m <= n /\ (p < n \/ p = 0 => m > 0 \/ n = 0)
  <2>1. Minus(n, p) \in Nat /\ Minus(n, p) <= n /\ (p < n \/ p = 0 => Minus(n, p) > 0 \/ n = 0)
    BY DEF Minus
  <2> QED BY <2>1
<1>7. /\ Growth(s, e).input = s.input + m
      /\ ClaudeStep(r, e).uncached = r.uncached + IF m > 0 THEN m ELSE n
  BY <1>3, <1>4, <1>6, Zenon
<1>8. s.input <= r.uncached => Growth(s, e).input <= ClaudeStep(r, e).uncached
  BY ONLY <1>5, <1>6, <1>7, n \in Nat
<1>9. s.input = r.uncached /\ (p < n \/ p = 0) => Growth(s, e).input = ClaudeStep(r, e).uncached
  BY ONLY <1>5, <1>6, <1>7, n \in Nat, p \in Nat
<1> QED BY <1>1, <1>3, <1>4, <1>8, <1>9, Zenon

\* The fold's step at a set of places that is not empty.
LEMMA FoldsAtLast ==
  ASSUME NEW trace, IsTrace(trace), ToldOnce(trace), WithUsage(trace) = Accepted(trace),
         NEW g, ClaudeFold(g, trace, WithUsage(trace)), NEW h, GrowthFold(h, trace, Accepted(trace)),
         NEW T \in SUBSET WithUsage(trace), T # {}
  PROVE  \E x \in T : /\ \A n \in T : x >= n
                      /\ g[T] = ClaudeStep(g[T \ {x}], trace[x]) /\ h[T] = Growth(h[T \ {x}], trace[x])
                      /\ g[T \ {x}] \in ClaudeSums /\ h[T \ {x}] \in GrowthSums
                      /\ trace[x].usage \in UsageCounts /\ IsEntry(trace[x]) /\ trace[x].direct = NoUsage
<1>1. Max(T) \in T /\ \A n \in T : Max(T) >= n
  BY PlacesOfTrace, GreatestExists
<1>2. g[T] = ClaudeStep(g[T \ {Max(T)}], trace[Max(T)]) /\ h[T] = Growth(h[T \ {Max(T)}], trace[Max(T)])
  BY DEF ClaudeFold, GrowthFold
<1>3. T \ {Max(T)} \in SUBSET WithUsage(trace) /\ T \ {Max(T)} \in SUBSET Accepted(trace)
  OBVIOUS
<1>4. g[T \ {Max(T)}] \in ClaudeSums /\ h[T \ {Max(T)}] \in GrowthSums
  BY <1>3 DEF ClaudeFold, GrowthFold
<1>5. trace[Max(T)].usage \in UsageCounts /\ IsEntry(trace[Max(T)]) /\ trace[Max(T)].direct = NoUsage
  BY <1>1, PlacesOfTrace DEF IsTrace, ToldOnce
<1> QED BY <1>1, <1>2, <1>4, <1>5

\* When every message tells its usage the two readers differ only where the input did
\* not grow.
LEMMA InputGrows ==
  ASSUME NEW trace, IsTrace(trace), ToldOnce(trace), WithUsage(trace) = Accepted(trace),
         \A i \in WithUsage(trace) : trace[i].served = NothingServed,
         NEW g, ClaudeFold(g, trace, WithUsage(trace)), NEW h, GrowthFold(h, trace, Accepted(trace))
  PROVE  LET S == WithUsage(trace) IN
         /\ h[S].input <= g[S].uncached
         /\ (\A i, j \in S : i < j => trace[i].usage.input < trace[j].usage.input) => h[S].input = g[S].uncached
<1> DEFINE S == WithUsage(trace)
           Rising == \A i, j \in S : i < j => trace[i].usage.input < trace[j].usage.input
           Below(T) == h[T].input <= g[T].uncached /\ h[T].prev.input = g[T].prev
           Same(T) == /\ h[T].input = g[T].uncached
                      /\ IF T = {} THEN g[T].prev = 0
                         ELSE \E x \in T : g[T].prev = trace[x].usage.input
           P == {T \in SUBSET S : ~(Below(T) /\ (Rising => Same(T)))}
<1>1. S \subseteq Nat /\ IsFiniteSet(S) /\ \A i \in S : trace[i].usage \in UsageCounts
  BY PlacesOfTrace
<1>2. ASSUME P # {} PROVE FALSE
  <2>1. PICK T \in P : \A t \in SUBSET T : t # T => t \notin P
    <3>1. P \subseteq SUBSET S
      OBVIOUS
    <3> HIDE DEF P, S
    <3> QED BY <1>1, <1>2, <3>1, SmallestSet, Zenon
  <2>2. T \in SUBSET S /\ ~(Below(T) /\ (Rising => Same(T)))
    BY <2>1
  <2>3. T # {}
    <3>1. ASSUME T = {} PROVE g[T] = NoClaude /\ h[T] = NoGrowth
      BY <2>2, <3>1, Zenon DEF ClaudeFold, GrowthFold
    <3>2. ASSUME T = {} PROVE Below(T) /\ Same(T)
      BY <3>1, <3>2 DEF NoClaude, NoGrowth, NoCounts
    <3> QED BY <2>2, <3>2
  <2>4. PICK x \in T : /\ \A n \in T : x >= n
                       /\ g[T] = ClaudeStep(g[T \ {x}], trace[x]) /\ h[T] = Growth(h[T \ {x}], trace[x])
                       /\ g[T \ {x}] \in ClaudeSums /\ h[T \ {x}] \in GrowthSums
                       /\ trace[x].usage \in UsageCounts /\ IsEntry(trace[x]) /\ trace[x].direct = NoUsage
    BY <2>2, <2>3, FoldsAtLast
  <2> DEFINE rest == T \ {x}
             s == h[rest]
             r == g[rest]
             e == trace[x]
  <2>5. Below(rest) /\ (Rising => Same(rest))
    <3>1. rest \in SUBSET T /\ rest # T /\ rest \in SUBSET S
      BY <2>2
    <3>2. rest \notin P
      BY <2>1, <3>1
    <3> QED BY <3>1, <3>2
  <2> HIDE DEF S
  <2>6. /\ s \in GrowthSums /\ r \in ClaudeSums /\ e.usage \in UsageCounts
        /\ IsEntry(e) /\ e.direct = NoUsage /\ e.served = NothingServed
        /\ h[T] = Growth(s, e) /\ g[T] = ClaudeStep(r, e)
        /\ s.prev.input = r.prev /\ s.input <= r.uncached
    BY <2>2, <2>4, <2>5 DEF S
  <2>7. Rising => s.input = r.uncached /\ (r.prev < e.usage.input \/ r.prev = 0)
    <3>1. CASE rest = {}
      BY <2>5, <3>1
    <3>2. CASE rest # {}
      <4>1. ASSUME Rising PROVE r.prev < e.usage.input
        <5>1. PICK y \in rest : r.prev = trace[y].usage.input
          BY <2>5, <3>2, <4>1
        <5>2. y \in S /\ x \in S /\ y < x
          BY <1>1, <2>2, <2>4, <5>1
        <5> QED BY <4>1, <5>1, <5>2
      <4> QED BY <2>5, <4>1
    <3> QED BY <3>1, <3>2
  <2> HIDE DEF rest, s, r, e
  <2>8. /\ Growth(s, e).input <= ClaudeStep(r, e).uncached
        /\ s.input = r.uncached /\ (r.prev < e.usage.input \/ r.prev = 0) => Growth(s, e).input = ClaudeStep(r, e).uncached
        /\ Growth(s, e).prev.input = e.usage.input /\ ClaudeStep(r, e).prev = e.usage.input
    BY <2>6, InputStep, ZenonT(40)
  <2>9. Below(T)
    BY <2>6, <2>8, Zenon
  <2>10. Rising => Same(T)
    BY <2>3, <2>4, <2>6, <2>7, <2>8, Zenon DEF e
  <2> QED BY <2>2, <2>9, <2>10, Zenon
<1>3. Below(S) /\ (Rising => Same(S))
  BY <1>2
<1> QED BY <1>3

\* parse_tokens_from_trace, the reporter and the token report, for any trace.
THEOREM TracesReadAlike ==
  ASSUME NEW trace, IsTrace(trace)
  PROVE  ReadersAgree(trace)
<1> DEFINE S == WithUsage(trace)
           A == Accepted(trace)
           grown == TokenReportClaude(trace)
           seen == ClaudeTokens(trace)
           Rising == \A i, j \in S : i < j => trace[i].usage.input < trace[j].usage.input
<1>1. PICK g : seen = g[S] /\ ClaudeFold(g, trace, S)
  BY ClaudeFolds
<1>2. PICK h : grown.input = h[A].input /\ grown.output = h[A].output /\ GrowthFold(h, trace, A)
  BY GrowthFolds
<1>3. seen.input = seen.cached + seen.uncached
  BY <1>1, ClaudeSplits, Zenon
<1>4. ToldOnce(trace) => grown.output <= seen.output + Total(trace, A, LAMBDA e : e.served.output)
  <2>1. Total(trace, A, LAMBDA e : e.served.output) = SumOf(ServedOutputs(trace, A), A)
    BY DEF Total, SumFunction, FoldFunction, SumOf, SumFunctionOnSet, ServedOutputs
  <2>2. ToldOnce(trace) => h[A].output <= g[S].output + SumOf(ServedOutputs(trace, A), A)
    BY <1>1, <1>2, OutputGrows, Zenon
  <2> HIDE DEF S, A, grown, seen
  <2> QED BY <1>1, <1>2, <2>1, <2>2
<1>5. ToldOnce(trace) /\ S = A /\ (\A i \in S : trace[i].served = NothingServed) =>
        grown.input <= seen.uncached /\ (Rising => grown.input = seen.uncached)
  BY <1>1, <1>2, InputGrows, Zenon
<1>6. ReportedClaudeTokens(trace) = seen
  BY DEF ReportedClaudeTokens
<1>7. ClaudeReadersAgree(trace)
  <2> HIDE DEF S, A, grown, seen, Rising
  <2> QED BY <1>3, <1>4, <1>5, <1>6, CountsAgree, Zenon DEF ClaudeReadersAgree, S, A, grown, seen, Rising
<1>8. PiReadersAgree(trace)
  BY CountsAgree, PiAgree, Zenon DEF PiReadersAgree
<1> QED BY <1>7, <1>8, CountsAgree, Zenon DEF ReadersAgree

-----------------------------------------------------------------------------
(* Run directories. *)

\* No two results of a directory were written at once.
IsRun(run) ==
  /\ IsFiniteSet(run.results) /\ IsFiniteSet(run.traces)
  /\ \A r \in run.results : r.at \in Nat
  /\ \A t \in run.traces : t.at \in Nat /\ t.tokens \in Nat
  /\ \A q, r \in run.results : q.at = r.at => q = r

\* What r takes of the traces when the results in T are visited.
OwnIn(T, traces, r) == {t \in traces : t.at < r.at /\ \A q \in T : q.at < r.at => t.at >= q.at}
RowIn(T, traces, r) == [result |-> r, tokens |-> Tokens(OwnIn(T, traces, r))]
Walked(T, traces) ==
  [traces |-> {t \in traces : \A q \in T : t.at >= q.at}, rows |-> {RowIn(T, traces, r) : r \in T}]

LEMMA LatestIsLatest ==
  ASSUME NEW S, IsFiniteSet(S), S # {}, \A r \in S : r.at \in Nat
  PROVE  Latest(S) \in S /\ \A q \in S : q.at <= Latest(S).at
<1> DEFINE T == {s.at : s \in S}
           f == [s \in S |-> s.at]
<1>1. f \in [S -> T] /\ \A y \in T : \E x \in S : f[x] = y
  OBVIOUS
<1>2. T \subseteq Nat /\ T # {}
  OBVIOUS
<1>3. IsFiniteSet(T)
  <2> HIDE DEF f, T
  <2> QED BY <1>1, ImageIsFinite
<1>4. Max(T) \in T /\ \A n \in T : Max(T) >= n
  <2> HIDE DEF T
  <2> QED BY <1>2, <1>3, GreatestExists
<1>5. PICK s \in S : \A q \in S : q.at <= s.at
  <2>1. PICK s \in S : s.at = Max(T)
    BY <1>4
  <2>2. ASSUME NEW q \in S PROVE q.at <= s.at
    BY <1>4, <2>1, <2>2
  <2> QED BY <2>2
<1> QED BY <1>5 DEF Latest

LEMMA TokensAdd ==
  ASSUME NEW S, IsFiniteSet(S), \A t \in S : t.tokens \in Nat
  PROVE  Numbered(S, TokensOf(S)) /\ Tokens(S) = SumOf(TokensOf(S), S) /\ Tokens(S) \in Nat
<1>1. Numbered(S, TokensOf(S)) /\ \A t \in S : TokensOf(S)[t] = t.tokens
  BY DEF Numbered, TokensOf
<1>2. Tokens(S) = SumOf(TokensOf(S), S)
  BY <1>1, TokenSum
<1>3. SumOf(TokensOf(S), S) \in Nat
  BY <1>1, SumOne
<1> QED BY <1>1, <1>2, <1>3

\* Visiting the latest result after the others.
LEMMA WalkedMore ==
  ASSUME NEW S, NEW traces, IsRun([results |-> S, traces |-> traces]), NEW T \in SUBSET S,
         NEW x \in T, \A q \in T : q.at <= x.at
  PROVE  TakeTraces(Walked(T \ {x}, traces), x) = Walked(T, traces)
<1> DEFINE rest == T \ {x}
           w == Walked(rest, traces)
           older == {t \in w.traces : t.at < x.at}
<1>1. /\ \A q \in T : q.at \in Nat /\ x.at \in Nat /\ q.at <= x.at
      /\ \A q \in rest : q.at < x.at
      /\ \A t \in traces : t.at \in Nat
  BY DEF IsRun
<1>2. older = OwnIn(T, traces, x)
  BY <1>1 DEF Walked, OwnIn
<1>3. w.traces \ older = {t \in traces : \A q \in T : t.at >= q.at}
  <2>1. w.traces \ older = {t \in traces : (\A q \in rest : t.at >= q.at) /\ ~(t.at < x.at)}
    BY DEF Walked
  <2>2. \A t \in traces : ((\A q \in rest : t.at >= q.at) /\ ~(t.at < x.at)) <=> \A q \in T : t.at >= q.at
    BY <1>1
  <2> HIDE DEF rest, older, w
  <2> QED BY <2>1, <2>2
<1>4. \A r \in rest : RowIn(rest, traces, r) = RowIn(T, traces, r)
  <2>1. ASSUME NEW r \in rest PROVE OwnIn(rest, traces, r) = OwnIn(T, traces, r)
    BY <1>1 DEF OwnIn
  <2> QED BY <2>1, Zenon DEF RowIn
<1>5. w.rows \cup {RowIn(T, traces, x)} = {RowIn(T, traces, r) : r \in T}
  <2>1. w.rows = {RowIn(rest, traces, r) : r \in rest}
    BY DEF Walked
  <2>2. T = rest \cup {x}
    OBVIOUS
  <2> HIDE DEF rest, w
  <2> QED BY <1>4, <2>1, <2>2
<1>6. RowIn(T, traces, x) = [result |-> x, tokens |-> Tokens(older)]
  BY <1>2, Zenon DEF RowIn
<1>7. TakeTraces(w, x) = [traces |-> w.traces \ older, rows |-> w.rows \cup {[result |-> x, tokens |-> Tokens(older)]}]
  BY Zenon DEF TakeTraces
<1>8. Walked(T, traces) =
        [traces |-> {t \in traces : \A q \in T : t.at >= q.at}, rows |-> {RowIn(T, traces, r) : r \in T}]
  BY Zenon DEF Walked
<1> HIDE DEF w, older
<1>9. TakeTraces(w, x) = Walked(T, traces)
  BY <1>3, <1>5, <1>6, <1>7, <1>8, Zenon
<1> QED BY <1>9 DEF w

\* The reporter's walk over one directory.
LEMMA DirectoryWalked ==
  ASSUME NEW S, NEW traces, IsRun([results |-> S, traces |-> traces])
  PROVE  DirectoryRows(S, traces) = {RowIn(S, traces, r) : r \in S}
<1> DEFINE base == [traces |-> traces, rows |-> {}]
           F(h) == [s \in SUBSET S |-> IF s = {} THEN base ELSE TakeTraces(h[s \ {Latest(s)}], Latest(s))]
           g == CHOOSE h : h = F(h)
           k == [s \in SUBSET S |-> Walked(s, traces)]
<1>1. IsFiniteSet(S) /\ \A r \in S : r.at \in Nat
  BY DEF IsRun
<1>2. DirectoryRows(S, traces) = g[S].rows
  BY Zenon DEF DirectoryRows, MapThenFoldSet
<1>3. \A s \in SUBSET S : s # {} => Latest(s) \in s /\ \A q \in s : q.at <= Latest(s).at
  BY <1>1, FS_Subset, LatestIsLatest
<1>4. Walked({}, traces) = base
  BY DEF Walked
<1> HIDE DEF base
<1>5. \A s \in SUBSET S : s # {} => Walked(s, traces) = TakeTraces(Walked(s \ {Latest(s)}, traces), Latest(s))
  BY <1>3, WalkedMore
<1>6. \A s \in SUBSET S : k[s] = Walked(s, traces)
  OBVIOUS
<1>7. k = F(k)
  <2>1. \A s \in SUBSET S : s \ {Latest(s)} \in SUBSET S
    OBVIOUS
  <2>2. \A s \in SUBSET S : Walked(s, traces) = IF s = {} THEN base ELSE TakeTraces(k[s \ {Latest(s)}], Latest(s))
    BY <1>4, <1>5, <1>6, <2>1, Zenon
  <2> QED BY <2>2, Zenon
<1>8. g = F(g)
  <2> HIDE DEF F
  <2> QED BY <1>7, Zenon
<1>9. \A s \in SUBSET S : g[s] = IF s = {} THEN base ELSE TakeTraces(g[s \ {Latest(s)}], Latest(s))
  <2> HIDE DEF g
  <2> QED BY <1>8, Zenon
<1> HIDE DEF g, k, F
<1> DEFINE P == {s \in SUBSET S : g[s] # Walked(s, traces)}
<1>10. ASSUME P # {} PROVE FALSE
  <2>1. PICK s \in P : \A t \in SUBSET s : t # s => t \notin P
    <3>1. P \subseteq SUBSET S
      OBVIOUS
    <3> HIDE DEF P
    <3> QED BY <1>1, <1>10, <3>1, SmallestSet, Zenon
  <2>2. s \in SUBSET S /\ g[s] # Walked(s, traces)
    BY <2>1
  <2>3. CASE s = {}
    BY <1>4, <1>9, <2>2, <2>3, Zenon
  <2>4. CASE s # {}
    <3>1. s \ {Latest(s)} \in SUBSET s /\ s \ {Latest(s)} # s /\ s \ {Latest(s)} \in SUBSET S
      BY <1>3, <2>2, <2>4
    <3>2. g[s \ {Latest(s)}] = Walked(s \ {Latest(s)}, traces)
      BY <2>1, <3>1
    <3> QED BY <1>5, <1>9, <2>2, <2>4, <3>2, Zenon
  <2> QED BY <2>3, <2>4
<1>11. g[S] = Walked(S, traces)
  BY <1>10
<1> QED BY <1>2, <1>11 DEF Walked

LEMMA RowsAreResults ==
  ASSUME NEW S, NEW traces, IsFiniteSet(S)
  PROVE  IsFiniteSet({RowIn(S, traces, r) : r \in S}) /\ Cardinality({RowIn(S, traces, r) : r \in S}) = Cardinality(S)
<1> DEFINE rows == {RowIn(S, traces, r) : r \in S}
           f == [r \in S |-> RowIn(S, traces, r)]
<1>1. f \in Bijection(S, rows)
  <2>1. f \in [S -> rows] /\ \A y \in rows : \E r \in S : f[r] = y
    OBVIOUS
  <2>2. \A q, r \in S : f[q] = f[r] => q = r
    <3>1. \A r \in S : f[r].result = r
      BY DEF RowIn
    <3> QED BY <3>1
  <2> HIDE DEF f, rows
  <2> QED BY <2>1, <2>2, Zenon DEF Bijection, Injection, Surjection, IsInjective
<1> HIDE DEF f, rows
<1>2. ExistsBijection(S, rows)
  BY <1>1, Zenon DEF ExistsBijection
<1>3. IsFiniteSet(rows) /\ Cardinality(rows) = Cardinality(S)
  BY <1>2, FS_Bijection, Zenon
<1> QED BY <1>3 DEF rows

\* The one result that takes a trace.
Newer(S, t) == {r \in S : t.at < r.at}
Taker(S, t) == CHOOSE r \in Newer(S, t) : \A q \in Newer(S, t) : r.at <= q.at

LEMMA TakerIsOne ==
  ASSUME NEW S, NEW traces, IsRun([results |-> S, traces |-> traces]), NEW t \in traces, Newer(S, t) # {}
  PROVE  Taker(S, t) \in S /\ \A r \in S : Taker(S, t) = r <=> t \in OwnIn(S, traces, r)
<1> DEFINE N == Newer(S, t)
           T == {r.at : r \in N}
<1>1. (\A r \in S : r.at \in Nat) /\ t.at \in Nat /\ \A q, r \in S : q.at = r.at => q = r
  BY DEF IsRun
<1>2. N \subseteq S /\ \A r \in S : r \in N <=> t.at < r.at
  BY DEF Newer
<1>3. T \subseteq Nat /\ T # {}
  BY <1>1, <1>2
<1>4. Min(T) \in T /\ \A n \in T : Min(T) <= n
  <2> HIDE DEF T
  <2> QED BY <1>3, LeastExists
<1>5. PICK least \in N : \A q \in N : least.at <= q.at
  <2>1. PICK r \in N : r.at = Min(T)
    BY <1>4
  <2>2. ASSUME NEW q \in N PROVE r.at <= q.at
    BY <1>4, <2>1, <2>2
  <2> QED BY <2>2
<1> HIDE DEF N, T
<1>6. Taker(S, t) \in N /\ \A q \in N : Taker(S, t).at <= q.at
  BY <1>5, Zenon DEF Taker, N
<1>7. ASSUME NEW r \in S, t \in OwnIn(S, traces, r) PROVE Taker(S, t) = r
  <2>1. t.at < r.at /\ \A q \in S : q.at < r.at => t.at >= q.at
    BY <1>7 DEF OwnIn
  <2>2. Taker(S, t) \in S /\ t.at < Taker(S, t).at /\ Taker(S, t).at <= r.at
    BY <1>2, <1>6, <2>1
  <2>3. ~(Taker(S, t).at < r.at)
    BY <1>1, <2>1, <2>2
  <2>4. Taker(S, t).at = r.at
    BY <1>1, <2>2, <2>3
  <2> QED BY <1>1, <2>2, <2>4
<1>8. Taker(S, t) \in S /\ t \in OwnIn(S, traces, Taker(S, t))
  <2>1. Taker(S, t) \in S /\ t.at < Taker(S, t).at
    BY <1>2, <1>6
  <2>2. ASSUME NEW q \in S, q.at < Taker(S, t).at PROVE t.at >= q.at
    BY <1>1, <1>2, <1>6, <2>1, <2>2
  <2> QED BY <2>1, <2>2 DEF OwnIn
<1> QED BY <1>7, <1>8

\* The tokens of the rows are those of the traces that some result is newer than.
LEMMA TakenTokens ==
  ASSUME NEW S, NEW traces, IsRun([results |-> S, traces |-> traces])
  PROVE  Tokens({RowIn(S, traces, r) : r \in S}) = Tokens({t \in traces : \E r \in S : t.at < r.at})
<1> DEFINE rows == {RowIn(S, traces, r) : r \in S}
           used == {t \in traces : \E r \in S : t.at < r.at}
           own == [r \in S |-> Tokens(OwnIn(S, traces, r))]
           ran == [w \in rows |-> w.result]
           taker == [t \in used |-> Taker(S, t)]
<1>1. IsFiniteSet(S) /\ IsFiniteSet(traces) /\ \A t \in traces : t.tokens \in Nat
  BY DEF IsRun
<1>2. \A r \in S : OwnIn(S, traces, r) \in SUBSET used
  BY DEF OwnIn
<1>3. \A T \in SUBSET used : IsFiniteSet(T) /\ \A t \in T : t.tokens \in Nat
  BY <1>1, FS_Subset
<1>4. \A T \in SUBSET used : Numbered(T, TokensOf(T)) /\ Tokens(T) = SumOf(TokensOf(T), T) /\ Tokens(T) \in Nat
  <2> HIDE DEF used
  <2> QED BY <1>3, TokensAdd
<1>5. Numbered(S, own)
  BY <1>1, <1>2, <1>4 DEF Numbered
<1>6. \A w \in rows : ran[w] = w.result /\ w.result \in S /\ w = RowIn(S, traces, w.result)
  BY DEF RowIn
<1>7. \A r \in S : RowIn(S, traces, r) \in rows /\ RowIn(S, traces, r).result = r
                   /\ RowIn(S, traces, r).tokens = own[r] /\ own[r] \in Nat
  BY <1>2, <1>4 DEF RowIn
<1>8. Numbered(rows, TokensOf(rows)) /\ Tokens(rows) = SumOf(TokensOf(rows), rows)
  <2>1. IsFiniteSet(rows)
    BY <1>1, RowsAreResults
  <2>2. \A w \in rows : w.tokens \in Nat
    BY <1>6, <1>7
  <2> HIDE DEF rows
  <2> QED BY <2>1, <2>2, TokensAdd
<1>9. SumOf(own, S) = SumOf(TokensOf(rows), rows)
  <2>1. ASSUME NEW r \in S PROVE own[r] = SumOf(TokensOf(rows), Group(rows, ran, r))
    <3>1. Group(rows, ran, r) = {RowIn(S, traces, r)}
      <4> HIDE DEF rows, ran, own
      <4> QED BY <1>6, <1>7 DEF Group
    <3>2. TokensOf(rows)[RowIn(S, traces, r)] = own[r]
      <4> HIDE DEF rows, own
      <4> QED BY <1>7 DEF TokensOf
    <3> HIDE DEF rows, ran, own
    <3>3. {RowIn(S, traces, r)} \in SUBSET rows
      BY <1>7
    <3>4. SumOf(TokensOf(rows), {RowIn(S, traces, r)}) = own[r] + SumOf(TokensOf(rows), {})
      <4>1. {RowIn(S, traces, r)} \ {RowIn(S, traces, r)} = {}
        OBVIOUS
      <4>2. SumOf(TokensOf(rows), {RowIn(S, traces, r)}) =
              own[r] + SumOf(TokensOf(rows), {RowIn(S, traces, r)} \ {RowIn(S, traces, r)})
        BY <1>8, <3>2, <3>3, SumOne
      <4> QED BY <4>1, <4>2
    <3>5. SumOf(TokensOf(rows), {}) = 0
      BY <1>8, SumOne
    <3>6. own[r] \in Nat
      BY <1>7
    <3> QED BY <3>1, <3>4, <3>5, <3>6
  <2>2. \A w \in rows : ran[w] \in S
    BY <1>6
  <2> HIDE DEF rows, ran, own
  <2> QED BY <1>5, <1>8, <2>1, <2>2, GroupsSum
<1>10. SumOf(own, S) = SumOf(TokensOf(used), used)
  <2>1. ASSUME NEW r \in S PROVE own[r] = SumOf(TokensOf(used), Group(used, taker, r))
    <3>1. Group(used, taker, r) = OwnIn(S, traces, r)
      <4>1. ASSUME NEW t \in used PROVE taker[t] = r <=> t \in OwnIn(S, traces, r)
        <5>1. Newer(S, t) # {} /\ t \in traces
          BY DEF Newer
        <5>2. taker[t] = Taker(S, t)
          OBVIOUS
        <5> QED BY <5>1, <5>2, TakerIsOne, Zenon
      <4> HIDE DEF used, taker
      <4> QED BY <1>2, <4>1 DEF Group
    <3>2. own[r] = SumOf(TokensOf(OwnIn(S, traces, r)), OwnIn(S, traces, r))
      BY <1>2, <1>4
    <3>3. SumOf(TokensOf(OwnIn(S, traces, r)), OwnIn(S, traces, r)) = SumOf(TokensOf(used), OwnIn(S, traces, r))
      <4>1. PICK T : T = OwnIn(S, traces, r)
        OBVIOUS
      <4>2. T \in SUBSET (T \cap used) /\ \A t \in T : TokensOf(T)[t] = TokensOf(used)[t]
        <5>1. T \in SUBSET used
          BY <1>2, <4>1
        <5> HIDE DEF used
        <5> QED BY <5>1 DEF TokensOf
      <4>3. Numbered(T, TokensOf(T)) /\ Numbered(used, TokensOf(used))
        <5>1. T \in SUBSET used /\ used \in SUBSET used
          BY <1>2, <4>1
        <5> HIDE DEF used
        <5> QED BY <1>4, <5>1
      <4> HIDE DEF used
      <4>4. SumOf(TokensOf(T), T) = SumOf(TokensOf(used), T)
        BY <4>2, <4>3, SumSame
      <4> QED BY <4>1, <4>4
    <3> QED BY <3>1, <3>2, <3>3
  <2>2. \A t \in used : taker[t] \in S
    <3>1. ASSUME NEW t \in used PROVE taker[t] \in S
      <4>1. Newer(S, t) # {} /\ t \in traces
        BY DEF Newer
      <4> QED BY <4>1, TakerIsOne
    <3> QED BY <3>1
  <2>3. Numbered(used, TokensOf(used))
    BY <1>4
  <2> HIDE DEF used, taker, own
  <2> QED BY <1>5, <2>1, <2>2, <2>3, GroupsSum
<1>11. Tokens(used) = SumOf(TokensOf(used), used)
  BY <1>4
<1> HIDE DEF rows, used, own
<1>12. Tokens(rows) = Tokens(used)
  BY <1>8, <1>9, <1>10, <1>11
<1> QED BY <1>12 DEF rows, used

\* The totals of one directory.
LEMMA DirectoryAddsUp ==
  ASSUME NEW S, NEW traces, IsRun([results |-> S, traces |-> traces])
  PROVE  LET stats == DirectoryStats(S, traces) IN
         /\ stats.total = Cardinality(S) /\ stats.total = stats.success + stats.failed
         /\ stats.tokens = Tokens({t \in traces : \E r \in S : t.at < r.at})
<1> DEFINE rows == {RowIn(S, traces, r) : r \in S}
           good == {r \in S : Passed(r)}
           bad == {r \in S : ~Passed(r)}
<1>1. DirectoryRows(S, traces) = rows /\ IsFiniteSet(S)
  BY DirectoryWalked DEF IsRun
<1>2. DirectoryStats(S, traces) =
        [total |-> Cardinality(rows), success |-> Cardinality(good), failed |-> Cardinality(bad), tokens |-> Tokens(rows)]
  BY <1>1, Zenon DEF DirectoryStats
<1>3. Cardinality(rows) = Cardinality(S)
  BY <1>1, RowsAreResults
<1>4. Cardinality(S) = Cardinality(good) + Cardinality(bad)
  <2>1. good \cup bad = S /\ good \cap bad = {} /\ good \subseteq S /\ bad \subseteq S
    OBVIOUS
  <2> HIDE DEF good, bad
  <2>2. IsFiniteSet(good) /\ IsFiniteSet(bad)
    BY <1>1, <2>1, FS_Subset
  <2>3. Cardinality(good) \in Nat /\ Cardinality(bad) \in Nat
    BY <2>2, FS_CardinalityType
  <2>4. Cardinality(good \cup bad) = Cardinality(good) + Cardinality(bad) - Cardinality(good \cap bad)
    BY <2>2, FS_Union
  <2>5. Cardinality(good \cap bad) = 0
    BY <2>1, FS_EmptySet, Zenon
  <2>6. Cardinality(good \cup bad) = Cardinality(S)
    BY <2>1, Zenon
  <2> QED BY ONLY <2>3, <2>4, <2>5, <2>6
<1>5. Tokens(rows) = Tokens({t \in traces : \E r \in S : t.at < r.at})
  BY TakenTokens
<1> HIDE DEF rows, good, bad
<1> QED BY <1>2, <1>3, <1>4, <1>5


\* What is visited: the run directories and the directory above them.
LEMMA ExercisesCounted ==
  ASSUME NEW runs, IsFiniteSet(DOMAIN runs), \A v \in DOMAIN runs : IsFiniteSet(runs[v].results),
         NEW d \in DOMAIN runs, NEW task
  PROVE  ExerciseTotal(runs, task) >= Cardinality({r \in runs[d].results : r.task = task})
<1> DEFINE Done(v) == {r \in Visited(runs, v).results : r.task = task}
           V == Visits(runs)
           f == [v \in V |-> Cardinality(Done(v))]
           F(h) == [s \in SUBSET V |-> IF s = {} THEN 0 ELSE Cardinality(Done(Chosen(s))) + h[s \ {Chosen(s)}]]
           g == CHOOSE h : h = F(h)
<1>1. IsFiniteSet(V)
  BY FS_Singleton, FS_Union DEF Visits
<1>2. \A v \in V : IsFiniteSet(Visited(runs, v).results)
  <2>1. \A v \in DOMAIN runs : Visited(runs, v).results = runs[v].results
    BY DEF Visited
  <2>2. \A v : v \notin DOMAIN runs => Visited(runs, v).results = UNION {runs[e].results : e \in DOMAIN runs}
    BY DEF Visited
  <2>3. IsFiniteSet(UNION {runs[e].results : e \in DOMAIN runs})
    <3> DEFINE R == {runs[e].results : e \in DOMAIN runs}
               at == [e \in DOMAIN runs |-> runs[e].results]
    <3>1. at \in [DOMAIN runs -> R] /\ \A y \in R : \E e \in DOMAIN runs : at[e] = y
      OBVIOUS
    <3>2. \A T \in R : IsFiniteSet(T)
      OBVIOUS
    <3> HIDE DEF at, R
    <3>3. IsFiniteSet(R)
      BY <3>1, ImageIsFinite
    <3>4. IsFiniteSet(UNION R)
      BY <3>2, <3>3, FS_UNION
    <3> QED BY <3>4 DEF R
  <2> QED BY <2>1, <2>2, <2>3, Zenon
<1>3. \A v \in V : Cardinality(Done(v)) \in Nat
  <2>1. ASSUME NEW v \in V PROVE Cardinality(Done(v)) \in Nat
    <3>1. Done(v) \subseteq Visited(runs, v).results
      OBVIOUS
    <3>2. IsFiniteSet(Done(v))
      BY <1>2, <3>1, FS_Subset
    <3> QED BY <3>2, FS_CardinalityType
  <2> QED BY <2>1
<1>4. Done(d) = {r \in runs[d].results : r.task = task}
  BY DEF Visited
<1>5. ExerciseTotal(runs, task) = g[V]
  BY DEF ExerciseTotal, MapThenSumSet, MapThenFoldSet, Chosen
<1>6. d \in V
  BY DEF Visits
<1> HIDE DEF Ran, V
<1>7. Numbered(V, f)
  BY <1>1, <1>3 DEF Numbered
<1>8. \A s \in SUBSET V : s # {} => f[Chosen(s)] = Cardinality(Done(Chosen(s)))
  BY DEF Chosen
<1>9. \A h : Adds(h, V, f) <=> h = F(h)
  BY <1>8, Zenon DEF Adds
<1>10. f[d] = Cardinality(Done(d)) /\ f[d] \in Nat
  BY <1>3, <1>6
<1> HIDE DEF F, f
<1>11. g = CHOOSE h : Adds(h, V, f)
  BY <1>9, Zenon
<1> HIDE DEF g
<1>12. g[V] = SumOf(f, V)
  BY <1>7, <1>11, FoldedIsSum
<1>13. SumOf(f, V) = f[d] + SumOf(f, V \ {d}) /\ SumOf(f, V \ {d}) \in Nat
  <2>1. V \in SUBSET V /\ V \ {d} \in SUBSET V
    OBVIOUS
  <2> QED BY <1>6, <1>7, <2>1, SumOne
<1>14. ExerciseTotal(runs, task) >= Cardinality(Done(d))
  BY ONLY <1>5, <1>10, <1>12, <1>13
<1> QED BY <1>4, <1>14

\* process_results_directory and run_report, for any results and traces.
THEOREM RunsAttributed ==
  ASSUME NEW runs, IsFiniteSet(DOMAIN runs), \A v \in DOMAIN runs : IsRun(runs[v]), NEW d \in DOMAIN runs
  PROVE  Attributed(runs, d)
<1> DEFINE run == runs[d]
           S == run.results
           traces == run.traces
           Older(r) == {q \in S : q.at < r.at}
           Own(r) == {t \in traces : t.at < r.at /\ \A q \in Older(r) : t.at >= q.at}
           used == {t \in traces : \E r \in S : t.at < r.at}
           stats == ReportStats(runs)[d]
<1>1. IsRun([results |-> S, traces |-> traces])
  BY DEF IsRun
<1>2. stats = DirectoryStats(S, traces)
  BY DEF ReportStats, Visits, Visited
<1>3. \A r : Own(r) = OwnIn(S, traces, r)
  BY DEF OwnIn
<1>4. \A w \in DirectoryRows(S, traces) : w.tokens = Tokens(Own(w.result))
  <2>1. \A r : RowIn(S, traces, r).tokens = Tokens(Own(r)) /\ RowIn(S, traces, r).result = r
    BY <1>3 DEF RowIn
  <2> HIDE DEF S, traces, Own
  <2>2. DirectoryRows(S, traces) = {RowIn(S, traces, r) : r \in S}
    BY <1>1, DirectoryWalked
  <2> QED BY <2>1, <2>2
<1>5. stats.total = Cardinality(S) /\ stats.total = stats.success + stats.failed /\ stats.tokens = Tokens(used)
  <2> HIDE DEF S, traces, stats
  <2> QED BY <1>1, <1>2, DirectoryAddsUp, Zenon
<1>6. \A task \in {"java", "go"} : ExerciseTotal(runs, task) >= Cardinality({r \in S : r.task = task})
  <2>1. \A v \in DOMAIN runs : IsFiniteSet(runs[v].results)
    BY DEF IsRun
  <2> QED BY <2>1, ExercisesCounted
<1> QED BY <1>4, <1>5, <1>6, Zenon DEF Attributed

\* find_trace_file_v2, for any directory.
THEOREM OwnTraceFound ==
  ASSUME NEW names, NEW result, NEW extensions
  PROVE  OwnFound(names, result, extensions)
<1> DEFINE exact == <<LogOf(result), TraceOf(result.language, result.exercise), TraceOf(result.agent, result.exercise)>>
           hits == {i \in DOMAIN exact : exact[i] \in names}
           own == TraceOf(result.language, result.exercise)
           prefixed == {n \in names : n.kind = "trace" /\ n.first = result.language /\ n.exercise \in extensions}
<1>1. FoundTrace(names, result, extensions) = IF hits # {} THEN {exact[Min(hits)]} ELSE prefixed
  BY Zenon DEF FoundTrace
<1>2. DOMAIN exact = 1..3 /\ exact[1] = LogOf(result) /\ exact[2] = own
  OBVIOUS
<1>3. hits \subseteq Nat /\ hits \subseteq 1..3 /\ \A i \in hits : exact[i] \in names
  BY <1>2
<1>4. ASSUME hits # {} PROVE Min(hits) \in hits /\ \A n \in hits : Min(hits) <= n
  <2> HIDE DEF hits
  <2> QED BY <1>3, <1>4, LeastExists
<1>5. FoundTrace(names, result, extensions) \subseteq names
  <2>1. prefixed \subseteq names
    OBVIOUS
  <2> HIDE DEF hits, prefixed, exact
  <2>2. CASE hits # {}
    <3>1. exact[Min(hits)] \in names
      BY <1>3, <1>4, <2>2
    <3>2. FoundTrace(names, result, extensions) = {exact[Min(hits)]}
      BY <1>1, <2>2
    <3> QED BY <3>1, <3>2
  <2>3. CASE hits = {}
    BY <1>1, <2>1, <2>3
  <2> QED BY <2>2, <2>3
<1>6. ASSUME own \in names, LogOf(result) \notin names PROVE FoundTrace(names, result, extensions) = {own}
  <2>1. 2 \in hits /\ 1 \notin hits
    BY <1>2, <1>6
  <2> HIDE DEF hits, exact, prefixed, own
  <2>2. Min(hits) \in 1..3 /\ Min(hits) # 1 /\ Min(hits) <= 2
    BY <1>3, <1>4, <2>1
  <2>3. Min(hits) = 2
    BY <2>2
  <2> QED BY <1>1, <1>2, <2>1, <2>3
<1> QED BY <1>5, <1>6, Zenon DEF OwnFound

-----------------------------------------------------------------------------
(* The calls. *)

\* What a call is made with: results of the pool, a trace, run directories.
CallTyped ==
  /\ call.of = "results" => Recorded(call.cache) /\ IsFilter(call.filter)
  /\ call.of = "trace" => IsTrace(call.trace)
  /\ call.of = "runs" => IsFiniteSet(DOMAIN call.runs) /\ \A d \in DOMAIN call.runs : IsRun(call.runs[d])

LEMMA FewAreFinite ==
  ASSUME NEW a, NEW b, NEW c
  PROVE  IsFiniteSet({a, b}) /\ IsFiniteSet({a, b, c})
<1>1. IsFiniteSet({a} \cup {b}) /\ IsFiniteSet(({a} \cup {b}) \cup {c})
  BY FS_Singleton, FS_AddElement
<1>2. {a, b} = {a} \cup {b} /\ {a, b, c} = ({a} \cup {b}) \cup {c}
  OBVIOUS
<1> QED BY <1>1, <1>2, Zenon

LEMMA SixAreFinite ==
  ASSUME NEW a, NEW b, NEW c, NEW d, NEW e, NEW f
  PROVE  IsFiniteSet({a, b, c, d, e, f})
<1>1. IsFiniteSet({a, b, c} \cup {d, e, f})
  BY FewAreFinite, FS_Union, Zenon
<1>2. {a, b, c, d, e, f} = {a, b, c} \cup {d, e, f}
  OBVIOUS
<1> QED BY <1>1, <1>2, Zenon

LEMMA PoolRecorded == Recorded(Pool)
<1>1. IsFiniteSet(Pool)
  <2> DEFINE A == { Result("pi", "java", "", TRUE, 1, 1, 0, 4), Result("pi", "java", "polyglot", TRUE, 3, 2, 1, 3),
                    Result("pi", "java", "polyglot", FALSE, 2, 0, 5, 2), Result("pi", "go", "polyglot", TRUE, 2, 3, 2, 6),
                    Result("pi", "aoc", "aoc2015", TRUE, 2, 2, 8, 9), Result("pi", "aoc", "aoc2015", FALSE, 1, 1, 8, 9) }
             B == { Result("claude", "java", "polyglot", TRUE, 1, 3, 3, 7), Result("claude", "java", "polyglot", TRUE, 0, 2, 4, 5),
                    Result("claude", "go", "polyglot", FALSE, 1, 2, 6, 8), Result("claude", "go", "polyglot", TRUE, 1, 3, 0, 1),
                    Result("reference", "java", "polyglot", TRUE, 1, 0, 0, 2), Result("reference", "go", "polyglot", TRUE, 3, 0, 4, 4) }
  <2>1. IsFiniteSet(A) /\ IsFiniteSet(B)
    BY SixAreFinite, Zenon
  <2>2. Pool = A \cup B
    BY DEF Pool
  <2> HIDE DEF A, B
  <2> QED BY <2>1, <2>2, FS_Union
<1> DEFINE Fit(r) == r.ok \in BOOLEAN /\ r.dur \in Nat /\ r.tokens \in Nat /\ r.start \in Nat /\ r.end \in Nat
<1>2. ASSUME NEW agent, NEW language, NEW category, NEW ok \in BOOLEAN,
             NEW dur \in Nat, NEW tokens \in Nat, NEW start \in Nat, NEW end \in Nat
      PROVE  Fit(Result(agent, language, category, ok, dur, tokens, start, end))
  BY DEF Result
<1> HIDE DEF Fit
<1>3. \A r \in Pool : Fit(r)
  <2>1. ASSUME NEW r \in Pool PROVE Fit(r)
    BY <1>2, <2>1 DEF Pool
  <2> QED BY <2>1
<1> QED BY <1>1, <1>3 DEF Recorded, Fit

LEMMA FiltersTyped == \A filter \in Filters : IsFilter(filter)
BY DEF Filters, IsFilter

LEMMA EntriesTyped == \A e \in Entries : IsEntry(e)
<1>1. ASSUME NEW role, NEW u \in UsageCounts \cup {NoUsage}, NEW n \in Nat, role = "assistant" \/ n = 0
      PROVE  IsEntry(Entry(role, u, n))
  BY <1>1 DEF IsEntry, Entry, NoUsage, NothingServed, NothingOuter, DirectCounts, ServedCounts, OuterCounts
<1>2. Usages \subseteq UsageCounts /\ Big \in UsageCounts
  BY DEF Usages, UsageCounts, Big
<1>3. ASSUME NEW e \in OddEntries PROVE IsEntry(e)
  <2> DEFINE small == [Big EXCEPT !.input = 0]
             both == [NoUsage EXCEPT !.input = 4]
             one == [NoUsage EXCEPT !.output = 3]
             out == [input |-> 2, output |-> 1, read |-> 1, write |-> 1, tools |-> 1]
  <2>1. small \in UsageCounts /\ both \in DirectCounts /\ one \in DirectCounts /\ out \in OuterCounts
    <3>1. small = [input |-> 0, output |-> 2, read |-> 2, write |-> 1]
      BY DEF Big
    <3>2. both = [input |-> 4, output |-> -1, read |-> -1, write |-> -1]
      BY DEF NoUsage
    <3>3. one = [input |-> -1, output |-> 3, read |-> -1, write |-> -1]
      BY DEF NoUsage
    <3> HIDE DEF small, both, one
    <3>4. small \in UsageCounts
      BY <3>1 DEF UsageCounts
    <3>5. both \in DirectCounts /\ one \in DirectCounts
      BY <3>2, <3>3 DEF DirectCounts
    <3>6. out \in OuterCounts
      BY DEF OuterCounts
    <3> QED BY <3>4, <3>5, <3>6
  <2>2. [input |-> 1, output |-> 2] \in ServedCounts
    BY DEF ServedCounts
  <2> HIDE DEF small, both, one, out
  <2>3. /\ IsEntry(Entry("user", NoUsage, 0)) /\ IsEntry(Entry("assistant", Big, 1)) /\ IsEntry(Entry("user", Big, 0))
        /\ IsEntry(Entry("assistant", small, 1)) /\ IsEntry(Entry("assistant", Big, 0)) /\ IsEntry(Entry("none", NoUsage, 0))
    BY <1>1, <1>2, <2>1
  <2>4. CASE \/ e = [Entry("user", NoUsage, 0) EXCEPT !.typed = FALSE]
            \/ e = [Entry("assistant", Big, 1) EXCEPT !.typed = FALSE]
    BY <2>3, <2>4 DEF IsEntry, Entry
  <2>5. CASE e = [Entry("assistant", small, 1) EXCEPT !.plain = FALSE]
    BY <2>3, <2>5 DEF IsEntry, Entry
  <2>6. CASE \/ e = [Entry("assistant", Big, 0) EXCEPT !.direct = both]
            \/ e = [Entry("user", Big, 0) EXCEPT !.direct = one]
    BY <2>1, <2>3, <2>6 DEF IsEntry, Entry
  <2>7. CASE e = [Entry("assistant", Big, 0) EXCEPT !.served = [input |-> 1, output |-> 2]]
    BY <2>2, <2>3, <2>7 DEF IsEntry, Entry
  <2>8. CASE e = [Entry("none", NoUsage, 0) EXCEPT !.typed = FALSE, !.plain = FALSE, !.outer = out]
    BY <2>1, <2>3, <2>8 DEF IsEntry, Entry
  <2> QED BY <1>3, <2>4, <2>5, <2>6, <2>7, <2>8, Zenon DEF OddEntries, small, both, one, out
<1>4. ASSUME NEW e \in Entries PROVE IsEntry(e)
  <2>1. CASE \E u \in Usages \cup {NoUsage}, n \in 0..1 : e = Entry("assistant", u, n)
    BY <1>1, <1>2, <2>1
  <2>2. CASE \E u \in {NoUsage, Big} : e = Entry("user", u, 0)
    BY <1>1, <1>2, <2>2
  <2>3. CASE e = Entry("none", NoUsage, 0)
    BY <1>1, <2>3
  <2>4. \/ \E u \in Usages \cup {NoUsage}, n \in 0..1 : e = Entry("assistant", u, n)
        \/ \E u \in {NoUsage, Big} : e = Entry("user", u, 0)
        \/ e = Entry("none", NoUsage, 0) \/ e \in OddEntries
    BY <1>4 DEF Entries
  <2> QED BY <1>3, <2>1, <2>2, <2>3, <2>4, Zenon
<1> QED BY <1>4

LEMMA TracesTyped == \A trace \in BoundedSeq(Entries, MaxTrace) : IsTrace(trace)
<1>1. ASSUME NEW m \in Int, NEW trace \in [1..m -> Entries] PROVE IsTrace(trace)
  <2>1. IsFiniteSet(1..m) /\ 1..m \subseteq Nat
    BY FS_Interval
  <2>2. DOMAIN trace = 1..m /\ \A i \in 1..m : trace[i] \in Entries
    OBVIOUS
  <2> QED BY <2>1, <2>2, EntriesTyped DEF IsTrace
<1>2. ASSUME NEW trace \in BoundedSeq(Entries, MaxTrace) PROVE IsTrace(trace)
  <2>1. PICK m \in 0..MaxTrace : trace \in [1..m -> Entries]
    BY DEF BoundedSeq, SeqOf
  <2>2. m \in Int
    BY <2>1
  <2> QED BY <1>1, <2>1, <2>2
<1> QED BY <1>2

LEMMA RunsTyped ==
  ASSUME NEW times \in SUBSET {2, 4}, NEW exit, NEW run \in RunDirs(times, exit)
  PROVE  IsRun(run)
<1> DEFINE early(t) == Ran(t, "java", t = 4, 0)
           late == Ran(6, "go", TRUE, exit)
           results == {early(t) : t \in times} \cup {late}
           traces == {[at |-> 1, tokens |-> 1], [at |-> 3, tokens |-> 10], [at |-> 5, tokens |-> 100]}
<1>1. run.results \subseteq results /\ run.traces \subseteq traces
  BY DEF RunDirs
<1>2. (\A t : early(t).at = t) /\ late.at = 6
  BY DEF Ran
<1>3. \A t \in times : t = 2 \/ t = 4
  OBVIOUS
<1>4. \A t \in traces : t.at \in Nat /\ t.tokens \in Nat
  OBVIOUS
<1>5. IsFiniteSet(traces)
  BY FewAreFinite, Zenon
<1> HIDE DEF early, late, traces
<1>6. IsFiniteSet(results)
  <2>1. results \subseteq {early(2), early(4), late}
    BY <1>3
  <2>2. IsFiniteSet({early(2), early(4), late})
    BY FewAreFinite, Zenon
  <2> HIDE DEF results
  <2> QED BY <2>1, <2>2, FS_Subset
<1>7. \A r \in results : r.at \in Nat /\ \A q \in results : q.at = r.at => q = r
  <2>1. ASSUME NEW r \in results PROVE (r.at = 6 /\ r = late) \/ (r.at \in {2, 4} /\ r = early(r.at))
    <3>1. CASE r = late
      BY <1>2, <3>1
    <3>2. ASSUME NEW t \in times, r = early(t) PROVE r.at \in {2, 4} /\ r = early(r.at)
      <4>1. r.at = t
        BY <1>2, <3>2
      <4> QED BY <1>3, <3>2, <4>1
    <3>3. r = late \/ \E t \in times : r = early(t)
      BY <2>1
    <3> QED BY <3>1, <3>2, <3>3
  <2> HIDE DEF results
  <2>2. \A q, r \in results : q.at = r.at => q = r
    <3>1. 6 \notin {2, 4}
      OBVIOUS
    <3> QED BY <2>1, <3>1, Zenon
  <2>3. \A r \in results : r.at \in Nat
    <3>1. \A n \in {2, 4} : n \in Nat
      OBVIOUS
    <3>2. 6 \in Nat
      OBVIOUS
    <3> QED BY <2>1, <3>1, <3>2, Zenon
  <2> QED BY <2>2, <2>3
<1>8. IsFiniteSet(run.results) /\ IsFiniteSet(run.traces)
  <2> HIDE DEF results
  <2> QED BY <1>1, <1>5, <1>6, FS_Subset
<1> HIDE DEF results
<1> QED BY <1>1, <1>4, <1>7, <1>8 DEF IsRun

\* The call is never made with anything else.
THEOREM CallsAreTyped == Spec => []CallTyped
<1>1. Init => CallTyped
  BY DEF Init, CallTyped
<1>2. ASSUME CallTyped, [Next]_call PROVE CallTyped'
  <2>1. CASE ViewResults
    <3>1. PICK cache \in Caches, filter \in Filters : call' = [of |-> "results", cache |-> cache, filter |-> filter]
      BY <2>1 DEF ViewResults
    <3>2. cache \in SUBSET Pool
      BY DEF Caches, kSubset
    <3>3. Recorded(cache) /\ IsFilter(filter)
      BY <3>2, PoolRecorded, PartRecorded, FiltersTyped
    <3> QED BY <3>1, <3>3 DEF CallTyped
  <2>2. ASSUME call'.of \notin {"results", "trace", "runs"} PROVE CallTyped'
    BY <2>2 DEF CallTyped
  <2>3. CASE ReadTrace
    <3>1. PICK trace \in BoundedSeq(Entries, MaxTrace) : call' = [of |-> "trace", trace |-> trace]
      BY <2>3 DEF ReadTrace
    <3>2. IsTrace(trace)
      BY TracesTyped
    <3> QED BY <3>1, <3>2 DEF CallTyped
  <2>4. CASE WalkRuns
    <3>1. PICK pi \in RunDirs({2, 4}, 1), claude \in RunDirs({4}, 0) :
            call' = [of |-> "runs", runs |-> [dir \in {"pi-m", "claude-m"} |-> IF dir = "pi-m" THEN pi ELSE claude]]
      BY <2>4 DEF WalkRuns
    <3>2. IsRun(pi) /\ IsRun(claude)
      BY RunsTyped
    <3>3. IsFiniteSet({"pi-m", "claude-m"})
      BY FewAreFinite, Zenon
    <3>4. call'.of = "runs" /\ DOMAIN call'.runs = {"pi-m", "claude-m"}
          /\ \A d \in DOMAIN call'.runs : call'.runs[d] = pi \/ call'.runs[d] = claude
      BY <3>1
    <3> QED BY <3>2, <3>3, <3>4 DEF CallTyped
  <2>5. CASE ChooseTrace
    <3>1. call'.of = "choice"
      BY <2>5 DEF ChooseTrace
    <3> QED BY <2>2, <3>1
  <2>6. CASE PrintLine
    <3>1. call'.of = "line"
      BY <2>6 DEF PrintLine
    <3> QED BY <2>2, <3>1
  <2>7. CASE StreamMessage
    <3>1. call'.of = "message"
      BY <2>7 DEF StreamMessage
    <3> QED BY <2>2, <3>1
  <2>8. CASE CallTools
    <3>1. call'.of = "tools"
      BY <2>8 DEF CallTools
    <3> QED BY <2>2, <3>1
  <2>9. CASE ConfigurePi
    <3>1. call'.of = "pi"
      BY <2>9 DEF ConfigurePi
    <3> QED BY <2>2, <3>1
  <2>10. CASE MatchGlob
    <3>1. call'.of = "glob"
      BY <2>10 DEF MatchGlob
    <3> QED BY <2>2, <3>1
  <2>11. CASE LookUpModel
    <3>1. call'.of = "lookup"
      BY <2>11 DEF LookUpModel
    <3> QED BY <2>2, <3>1
  <2>12. CASE ReachServer
    <3>1. call'.of = "server"
      BY <2>12 DEF ReachServer
    <3> QED BY <2>2, <3>1
  <2>13. CASE CheckConfig
    <3>1. call'.of = "config"
      BY <2>13 DEF CheckConfig
    <3> QED BY <2>2, <3>1
  <2>14. CASE AskServer
    <3>1. call'.of = "models"
      BY <2>14 DEF AskServer
    <3> QED BY <2>2, <3>1
  <2>15. CASE FindFiles
    <3>1. \E category, success, ms : call' = [of |-> "files", category |-> category, success |-> success, ms |-> ms]
      BY <2>15, Zenon DEF FindFiles
    <3>2. call'.of = "files"
      BY ONLY <3>1
    <3> QED BY <2>2, <3>2
  <2>16. CASE PrepareWorkspace
    <3>1. call'.of = "workspace"
      BY <2>16 DEF PrepareWorkspace
    <3> QED BY <2>2, <3>1
  <2>17. CASE UNCHANGED call
    BY <1>2, <2>17 DEF CallTyped
  <2> QED
    BY <1>2, <2>1, <2>3, <2>4, <2>5, <2>6, <2>7, <2>8, <2>9, <2>10, <2>11, <2>12, <2>13, <2>14, <2>15, <2>16,
       <2>17 DEF Next
<1> QED BY <1>1, <1>2, PTL DEF Spec

\* The statistics of every page that can be asked for add up.
THEOREM PagesAddUp == Spec => []StatisticsAddUp
<1>1. CallTyped => StatisticsAddUp
  BY NumbersAddUp DEF CallTyped, StatisticsAddUp
<1> QED BY <1>1, CallsAreTyped, PTL

\* Its scores are fair.
THEOREM PagesAreFair == Spec => []ScoresAreFair
<1>1. CallTyped => ScoresAreFair
  BY ScoringIsFair DEF CallTyped, ScoresAreFair
<1> QED BY <1>1, CallsAreTyped, PTL

\* Its comparisons are the same from either side.
THEOREM PagesCompare == Spec => []ComparisonsAgree
<1>1. CallTyped => ComparisonsAgree
  BY ModelsCompare DEF CallTyped, ComparisonsAgree
<1> QED BY <1>1, CallsAreTyped, PTL

\* The readers of every trace agree.
THEOREM TracesRead == Spec => []TokensAgree
<1>1. CallTyped => TokensAgree
  BY TracesReadAlike DEF CallTyped, TokensAgree
<1> QED BY <1>1, CallsAreTyped, PTL

\* Every trace is attributed once, to the run it belongs to.
THEOREM TracesGiven == Spec => []TracesAreAttributed
<1>1. CallTyped => TracesAreAttributed
  BY RunsAttributed, OwnTraceFound DEF CallTyped, TracesAreAttributed
<1> QED BY <1>1, CallsAreTyped, PTL
=============================================================================
