---------------------------- MODULE MoneyProofs -----------------------------
(***************************************************************************)
(* What the two roundings of an amount cost, for any precision, any number *)
(* of decimals and any requests.                                           *)
(***************************************************************************)
EXTENDS Money, FiniteSetTheorems, WellFoundedInduction, TLAPS

-----------------------------------------------------------------------------
(* Powers of ten.  What holds of every number is proved by looking at a    *)
(* smallest one of which it does not.                                      *)

LEMMA SmallestNumber ==
    ASSUME NEW S \in SUBSET Nat, S # {}
    PROVE  \E m \in S : \A n \in S : m <= n
<1>1. PICK k \in S : TRUE
  OBVIOUS
<1> DEFINE K == 0 .. k
           T == {0 .. n : n \in {i \in S : i <= k}}
<1>2. T \subseteq FiniteSubsetsOf(K) /\ T # {} /\ IsFiniteSet(K)
  <2>1. T \in SUBSET SUBSET K /\ T # {}
    BY <1>1
  <2>2. IsFiniteSet(K)
    BY <1>1, FS_Interval
  <2> HIDE DEF T, K
  <2> QED
    BY <2>1, <2>2, FS_Subset DEF FiniteSubsetsOf
<1>3. PICK s \in T : \A t \in T : ~(t \subseteq s /\ t # s)
  <2> HIDE DEF T, K
  <2>1. \E s \in T : \A t \in T : <<t, s>> \notin StrictSubsetOrdering(K)
    BY <1>2, FS_StrictSubsetOrderingWellFounded, WFMin
  <2> QED
    BY <1>2, <2>1 DEF StrictSubsetOrdering, FiniteSubsetsOf
<1>4. PICK m \in S : m <= k /\ s = 0 .. m
  BY <1>3
<1>5. \A n \in S : n < m => 0 .. n \in T /\ m \notin 0 .. n /\ m \in s /\ 0 .. n \subseteq s
  BY <1>1, <1>4
<1>6. \A n \in S : ~(n < m)
  <2> HIDE DEF T
  <2> QED
    BY <1>3, <1>5
<1> QED
  BY <1>6

\* f is TenTo as far as n.
UpTo(f, n) == f = [k \in 0 .. n |-> IF k = 0 THEN 1 ELSE 10 * f[k - 1]]

LEMMA PowersExist ==
    \A n \in Nat : \E f : UpTo(f, n)
<1> DEFINE Bad == {n \in Nat : ~ \E f : UpTo(f, n)}
<1>1. SUFFICES ASSUME Bad # {} PROVE FALSE
  OBVIOUS
<1>2. PICK m \in Bad : \A n \in Bad : m <= n
  BY <1>1, SmallestNumber
<1>3. CASE m = 0
  <2>1. UpTo([k \in 0 .. 0 |-> 1], 0)
    BY DEF UpTo
  <2> QED
    BY <1>2, <1>3, <2>1
<1>4. CASE m # 0
  <2>1. m \in Nat /\ m - 1 \in Nat /\ m - 1 \notin Bad
    BY <1>2, <1>4
  <2>2. PICK f : UpTo(f, m - 1)
    BY <2>1
  <2> DEFINE g == [k \in 0 .. m |-> IF k = 0 THEN 1 ELSE 10 * f[k - 1]]
  <2>3. \A k \in 0 .. m - 1 : f[k] = IF k = 0 THEN 1 ELSE 10 * f[k - 1]
    BY <2>2 DEF UpTo
  <2>4. \A k \in 0 .. m - 1 : g[k] = f[k]
    BY <2>1, <2>3
  <2>5. \A k \in 0 .. m : k # 0 => k - 1 \in 0 .. m - 1
    BY <2>1
  <2>6. g = [k \in 0 .. m |-> IF k = 0 THEN 1 ELSE 10 * g[k - 1]]
    BY <2>4, <2>5
  <2> HIDE DEF g
  <2>7. UpTo(g, m)
    BY <2>6 DEF UpTo
  <2> QED
    BY <1>2, <2>7
<1> QED
  BY <1>3, <1>4

LEMMA PowersAgree ==
    ASSUME NEW n \in Nat, NEW f, UpTo(f, n), NEW m \in Nat, NEW g, UpTo(g, m)
    PROVE  \A k \in Nat : k <= n /\ k <= m => f[k] = g[k]
<1> DEFINE Bad == {k \in Nat : k <= n /\ k <= m /\ f[k] # g[k]}
<1>1. SUFFICES ASSUME Bad # {} PROVE FALSE
  OBVIOUS
<1>2. PICK b \in Bad : \A k \in Bad : b <= k
  BY <1>1, SmallestNumber
<1>3. /\ b \in 0 .. n /\ b \in 0 .. m /\ f[b] # g[b]
      /\ b # 0 => b - 1 \in Nat /\ b - 1 <= n /\ b - 1 <= m /\ b - 1 \notin Bad
  BY <1>2
<1>4. /\ f[b] = IF b = 0 THEN 1 ELSE 10 * f[b - 1]
      /\ g[b] = IF b = 0 THEN 1 ELSE 10 * g[b - 1]
  BY <1>3 DEF UpTo
<1>5. b # 0 => f[b - 1] = g[b - 1]
  BY <1>3
<1> QED
  BY <1>3, <1>4, <1>5

LEMMA TenToIs ==
    TenTo = [n \in Nat |-> IF n = 0 THEN 1 ELSE 10 * TenTo[n - 1]]
<1> DEFINE h == [n \in Nat |-> (CHOOSE f : UpTo(f, n))[n]]
<1>1. \A n \in Nat : UpTo(CHOOSE f : UpTo(f, n), n)
  BY PowersExist
<1>2. ASSUME NEW n \in Nat PROVE h[n] = IF n = 0 THEN 1 ELSE 10 * h[n - 1]
  <2> DEFINE f == CHOOSE g : UpTo(g, n)
  <2>1. UpTo(f, n) /\ h[n] = f[n]
    BY <1>1
  <2> HIDE DEF f
  <2>2. n \in 0 .. n /\ f[n] = IF n = 0 THEN 1 ELSE 10 * f[n - 1]
    BY <2>1 DEF UpTo
  <2>3. CASE n # 0
    <3> DEFINE p == n - 1
               g == CHOOSE e : UpTo(e, p)
    <3>1. p \in Nat /\ p <= n /\ p <= p
      BY <2>3
    <3> HIDE DEF p
    <3>2. UpTo(g, p) /\ h[p] = g[p]
      BY <1>1, <3>1
    <3> HIDE DEF g
    <3>3. f[p] = g[p]
      BY <2>1, <3>1, <3>2, PowersAgree
    <3> QED
      BY <2>1, <2>2, <2>3, <3>2, <3>3 DEF p
  <2> QED
    BY <2>1, <2>2, <2>3
<1>3. h = [n \in Nat |-> IF n = 0 THEN 1 ELSE 10 * h[n - 1]]
  <2>1. h = [n \in Nat |-> h[n]]
    OBVIOUS
  <2> HIDE DEF h
  <2> QED
    BY <1>2, <2>1
<1> HIDE DEF h
<1>4. \E e : e = [n \in Nat |-> IF n = 0 THEN 1 ELSE 10 * e[n - 1]]
  BY <1>3
<1> QED
  BY <1>4 DEF TenTo

LEMMA Powers ==
    /\ TenTo[0] = 1
    /\ \A n \in Nat : TenTo[n] \in Nat \ {0} /\ TenTo[n + 1] = 10 * TenTo[n]
<1>1. TenTo[0] = 1 /\ \A n \in Nat : TenTo[n + 1] = 10 * TenTo[n]
  <2>1. \A n \in Nat : TenTo[n] = IF n = 0 THEN 1 ELSE 10 * TenTo[n - 1]
    BY TenToIs
  <2>2. ASSUME NEW n \in Nat PROVE TenTo[n + 1] = 10 * TenTo[n]
    <3>1. n + 1 \in Nat /\ n + 1 # 0 /\ (n + 1) - 1 = n
      OBVIOUS
    <3> QED
      BY <2>1, <3>1
  <2> QED
    BY <2>1, <2>2
<1> DEFINE Bad == {n \in Nat : TenTo[n] \notin Nat \ {0}}
<1>2. ASSUME Bad # {} PROVE FALSE
  <2>1. PICK b \in Bad : \A k \in Bad : b <= k
    BY <1>2, SmallestNumber
  <2>2. b # 0 /\ b - 1 \in Nat /\ b - 1 \notin Bad /\ b = (b - 1) + 1
    BY <1>1, <2>1
  <2>3. TenTo[b - 1] \in Nat \ {0} /\ TenTo[b] = 10 * TenTo[b - 1]
    BY <1>1, <2>2
  <2> QED
    BY <2>1, <2>3
<1> QED
  BY <1>1, <1>2

LEMMA PowerOfSum ==
    \A a, b \in Nat : TenTo[a + b] = TenTo[a] * TenTo[b]
<1> SUFFICES ASSUME NEW a \in Nat PROVE \A b \in Nat : TenTo[a + b] = TenTo[a] * TenTo[b]
  OBVIOUS
<1> DEFINE Bad == {b \in Nat : TenTo[a + b] # TenTo[a] * TenTo[b]}
<1>1. SUFFICES ASSUME Bad # {} PROVE FALSE
  OBVIOUS
<1>2. PICK b \in Bad : \A k \in Bad : b <= k
  BY <1>1, SmallestNumber
<1>3. b # 0
  BY <1>2, Powers
<1> DEFINE p == b - 1
<1>4. p \in Nat /\ p \notin Bad /\ b = p + 1 /\ a + b = (a + p) + 1 /\ a + p \in Nat
  BY <1>2, <1>3
<1> HIDE DEF p
<1>5. TenTo[a + p] = TenTo[a] * TenTo[p]
  BY <1>4
<1>6. TenTo[b] = 10 * TenTo[p] /\ TenTo[a + b] = 10 * TenTo[a + p]
  BY <1>4, Powers
<1>7. TenTo[a] \in Nat /\ TenTo[p] \in Nat
  BY <1>4, Powers
<1>8. TenTo[a + b] = TenTo[a] * TenTo[b]
  <2> DEFINE x == TenTo[a]
             y == TenTo[p]
  <2>1. x \in Nat /\ y \in Nat /\ TenTo[a + b] = 10 * (x * y) /\ TenTo[b] = 10 * y
    BY <1>5, <1>6, <1>7
  <2> HIDE DEF x, y
  <2>2. 10 * (x * y) = x * (10 * y)
    BY <2>1
  <2> QED
    BY <2>1, <2>2 DEF x
<1> QED
  BY <1>2, <1>8

LEMMA PowersGrow ==
    /\ \A n \in Nat : n < TenTo[n]
    /\ \A a, b \in Nat : a <= b => TenTo[a] <= TenTo[b]
    /\ \A a, b \in Nat : a < b => 10 * TenTo[a] <= TenTo[b]
<1> DEFINE Bad == {n \in Nat : ~(n < TenTo[n])}
<1>1. ASSUME Bad # {} PROVE FALSE
  <2>1. PICK b \in Bad : \A k \in Bad : b <= k
    BY <1>1, SmallestNumber
  <2>2. b # 0
    BY <2>1, Powers
  <2>3. b - 1 \in Nat /\ b - 1 \notin Bad /\ b = (b - 1) + 1
    BY <2>1, <2>2
  <2>4. TenTo[b] = 10 * TenTo[b - 1] /\ TenTo[b - 1] \in Nat /\ b - 1 < TenTo[b - 1]
    BY <2>3, Powers
  <2> QED
    BY <2>1, <2>3, <2>4
<1>2. ASSUME NEW a \in Nat, NEW b \in Nat, a <= b PROVE TenTo[a] <= TenTo[b]
  <2>1. b - a \in Nat /\ b = a + (b - a)
    BY <1>2
  <2>2. TenTo[b] = TenTo[a] * TenTo[b - a]
    BY <2>1, PowerOfSum
  <2>3. TenTo[a] \in Nat /\ TenTo[b - a] \in Nat \ {0}
    BY <2>1, Powers
  <2>4. \A x \in Nat, y \in Nat \ {0} : x <= x * y
    OBVIOUS
  <2> QED
    BY <2>2, <2>3, <2>4
<1>3. ASSUME NEW a \in Nat, NEW b \in Nat, a < b PROVE 10 * TenTo[a] <= TenTo[b]
  <2>1. a + 1 \in Nat /\ a + 1 <= b
    BY <1>3
  <2> QED
    BY <1>2, <2>1, Powers
<1> QED
  BY <1>1, <1>2, <1>3

-----------------------------------------------------------------------------
(* Quotients.                                                              *)

LEMMA Quotient ==
    ASSUME NEW a \in Nat, NEW b \in Nat \ {0}
    PROVE  /\ a \div b \in Nat /\ a % b \in Nat
           /\ (a \div b) * b <= a /\ a < (a \div b) * b + b
           /\ a = (a \div b) * b + (a % b)
<1>1. /\ a \div b \in Nat /\ a % b \in Nat
      /\ (a \div b) * b <= a /\ a < (a \div b) * b + b
  OBVIOUS
<1>2. a = (a \div b) * b + (a % b)
  OBVIOUS
<1> QED
  BY <1>1, <1>2

\* Multiples compare as what they are multiples of.
LEMMA Multiples ==
    ASSUME NEW b \in Nat \ {0}, NEW q \in Int, NEW r \in Int
    PROVE  /\ q * b \in Int
           /\ q * b < r * b + b => q <= r
           /\ q <= r => q * b <= r * b
           /\ q < r => q * b + b <= r * b
<1>1. q * b \in Int /\ r * b \in Int
  OBVIOUS
<1>2. \A x, y \in Int : x <= y => x * b <= y * b
  OBVIOUS
<1>3. ASSUME q < r PROVE q * b + b <= r * b
  <2>1. q + 1 <= r /\ q + 1 \in Int /\ (q + 1) * b = q * b + b
    BY <1>3
  <2> QED
    BY <1>2, <2>1
<1>4. ASSUME q * b < r * b + b, r < q PROVE FALSE
  <2>1. r + 1 <= q /\ r + 1 \in Int /\ (r + 1) * b = r * b + b
    BY <1>4
  <2>2. (r + 1) * b <= q * b
    BY <1>2, <2>1
  <2> QED
    BY <1>1, <1>4, <2>1, <2>2
<1> QED
  BY <1>1, <1>2, <1>3, <1>4

LEMMA FloorIs ==
    ASSUME NEW c \in Nat, NEW k \in Nat
    PROVE  /\ Floor(c, k) \in Nat /\ TenTo[k] \in Nat \ {0}
           /\ Floor(c, k) * TenTo[k] <= c /\ c < Floor(c, k) * TenTo[k] + TenTo[k]
BY Powers, Quotient DEF Floor

LEMMA CeilingIs ==
    ASSUME NEW c \in Nat, NEW k \in Nat
    PROVE  /\ Ceiling(c, k) \in Nat /\ TenTo[k] \in Nat \ {0}
           /\ c <= Ceiling(c, k) * TenTo[k] /\ Ceiling(c, k) * TenTo[k] < c + TenTo[k]
<1> DEFINE t == TenTo[k]
           a == c + t - 1
           q == a \div t
<1>1. t \in Nat \ {0} /\ a \in Nat /\ a = c + t - 1
  BY Powers
<1>2. q = Ceiling(c, k)
  BY DEF Ceiling
<1> HIDE DEF t, a
<1>3. q \in Nat /\ q * t <= a /\ a < q * t + t
  BY <1>1, Quotient
<1> HIDE DEF q
<1>4. q * t \in Nat
  BY <1>1, <1>3
<1>5. c <= q * t /\ q * t < c + t
  BY <1>1, <1>3, <1>4
<1> QED
  BY <1>1, <1>2, <1>3, <1>5 DEF t

\* A number and half a unit is between its rounding and the next.
LEMMA HalfUpIs ==
    ASSUME NEW c \in Nat, NEW k \in Nat \ {0}
    PROVE  /\ HalfUp(c, k) \in Nat /\ TenTo[k] \in Nat \ {0}
           /\ 2 * (HalfUp(c, k) * TenTo[k]) <= 2 * c + TenTo[k]
           /\ 2 * c < 2 * (HalfUp(c, k) * TenTo[k]) + TenTo[k]
<1> DEFINE t == TenTo[k]
           h == 5 * TenTo[k - 1]
           a == c + h
           q == a \div t
<1>1. t \in Nat \ {0} /\ h \in Nat /\ 2 * h = t
  <2>1. k - 1 \in Nat /\ k = (k - 1) + 1
    OBVIOUS
  <2>2. TenTo[k - 1] \in Nat \ {0} /\ TenTo[k] = 10 * TenTo[k - 1]
    BY <2>1, Powers
  <2> QED
    BY <2>2
<1>2. q = HalfUp(c, k)
  BY DEF HalfUp
<1> HIDE DEF t, h
<1>3. a \in Nat /\ a = c + h
  BY <1>1
<1> HIDE DEF a
<1>4. q \in Nat /\ q * t <= a /\ a < q * t + t
  BY <1>1, <1>3, Quotient
<1> HIDE DEF q
<1>5. q * t \in Nat
  BY <1>1, <1>4
<1>6. 2 * (q * t) <= 2 * c + t /\ 2 * c < 2 * (q * t) + t
  BY <1>1, <1>3, <1>4, <1>5
<1> QED
  BY <1>1, <1>2, <1>4, <1>6 DEF t

-----------------------------------------------------------------------------
(* decimal.js.                                                             *)

Fits == TenTo[Precision]

LEMMA ExcessIs ==
    ASSUME NEW c \in Nat
    PROVE  /\ c < Fits => Excess(c) = 0
           /\ Fits <= c =>
                 /\ Excess(c) \in Nat \ {0}
                 /\ c < TenTo[Precision + Excess(c)]
                 /\ TenTo[Precision + Excess(c) - 1] <= c
           /\ \A d \in Nat \ {0} :
                 c < TenTo[Precision + d] /\ TenTo[Precision + d - 1] <= c => d = Excess(c)
<1> DEFINE P == Precision
           Is(d) == c < TenTo[P + d] /\ TenTo[P + d - 1] <= c
<1>0. P \in Nat \ {0}
  BY PrecisionAssumption
<1>1. c < Fits => Excess(c) = 0
  BY DEF Excess, Fits
<1>2. ASSUME NEW d \in Nat \ {0}, Is(d) PROVE Fits <= c
  <2>1. P + d - 1 \in Nat /\ P <= P + d - 1
    BY <1>0
  <2>2. Fits <= TenTo[P + d - 1]
    BY <1>0, <2>1, PowersGrow DEF Fits
  <2>3. Fits \in Nat /\ TenTo[P + d - 1] \in Nat
    BY <1>0, <2>1, Powers DEF Fits
  <2> QED
    BY <1>2, <2>2, <2>3
<1>3. ASSUME NEW d \in Nat \ {0}, NEW b \in Nat \ {0}, Is(d), Is(b), d < b PROVE FALSE
  <2>1. P + d \in Nat /\ P + b - 1 \in Nat /\ P + d <= P + b - 1
    BY <1>0, <1>3
  <2>2. TenTo[P + d] <= TenTo[P + b - 1]
    BY <2>1, PowersGrow
  <2>3. TenTo[P + d] \in Nat /\ TenTo[P + b - 1] \in Nat
    BY <2>1, Powers
  <2> QED
    BY <1>3, <2>2, <2>3
<1>4. ASSUME Fits <= c PROVE Excess(c) \in 1 .. c /\ Is(Excess(c))
  <2> DEFINE S == {d \in Nat : c < TenTo[P + d]}
  <2>1. c \in S
    <3>1. P + c \in Nat /\ c <= P + c
      BY <1>0
    <3>2. TenTo[c] <= TenTo[P + c] /\ c < TenTo[c] /\ TenTo[c] \in Nat /\ TenTo[P + c] \in Nat
      BY <3>1, PowersGrow, Powers
    <3> QED
      BY <3>2
  <2>2. PICK m \in S : \A n \in S : m <= n
    BY <2>1, SmallestNumber
  <2>3. m # 0
    BY <1>0, <1>4, <2>2, Powers DEF Fits
  <2>4. m - 1 \in Nat /\ m - 1 \notin S /\ m <= c
    BY <2>1, <2>2, <2>3
  <2>5. P + (m - 1) = P + m - 1 /\ P + m - 1 \in Nat
    BY <1>0, <2>4
  <2>6. TenTo[P + m - 1] <= c
    BY <2>4, <2>5, Powers
  <2>7. m \in 1 .. c /\ Is(m)
    BY <2>2, <2>3, <2>4, <2>6
  <2>8. ~(c < Fits)
    BY <1>0, <1>4, Powers DEF Fits
  <2>9. Excess(c) = CHOOSE d \in 1 .. c : c < TenTo[P + d] /\ c >= TenTo[P + d - 1]
    BY <2>8 DEF Excess, Fits
  <2>10. \E d \in 1 .. c : c < TenTo[P + d] /\ c >= TenTo[P + d - 1]
    BY <2>7
  <2>11. Excess(c) \in 1 .. c /\ c < TenTo[P + Excess(c)] /\ c >= TenTo[P + Excess(c) - 1]
    BY <2>9, <2>10
  <2> QED
    BY <2>11
<1>5. ASSUME NEW d \in Nat \ {0}, Is(d) PROVE d = Excess(c)
  <2>1. Excess(c) \in Nat \ {0} /\ Is(Excess(c))
    BY <1>2, <1>4, <1>5
  <2>2. ~(d < Excess(c)) /\ ~(Excess(c) < d)
    BY <1>3, <1>5, <2>1
  <2> QED
    BY <2>1, <2>2
<1> QED
  BY <1>1, <1>4, <1>5


LEMMA SmallFits ==
    /\ Precision \in Nat \ {0} /\ Fits \in Nat \ {0}
    /\ \A c \in 0 .. MaxMinor : c < Fits
BY PrecisionAssumption, MaxMinorAssumption, Powers DEF Fits

\* Nothing happens to a result that fits, and the smallest that does not
\* loses a nought.
LEMMA FinaliseIs ==
    ASSUME NEW c \in Nat, NEW e \in Int
    PROVE  /\ c < Fits => Finalise(c, e) = [c |-> c, e |-> e]
           /\ c = Fits => Finalise(c, e) = [c |-> TenTo[Precision - 1], e |-> e - 1]
           /\ Fits <= c =>
                 /\ Excess(c) \in Nat \ {0}
                 /\ Finalise(c, e) = [c |-> HalfUp(c, Excess(c)), e |-> e - Excess(c)]
           /\ Finalise(c, e).c \in Nat /\ Finalise(c, e).e \in Int
<1>1. ASSUME c < Fits PROVE Finalise(c, e) = [c |-> c, e |-> e]
  BY <1>1, ExcessIs DEF Finalise
<1>2. ASSUME Fits <= c
      PROVE  /\ Excess(c) \in Nat \ {0}
             /\ Finalise(c, e) = [c |-> HalfUp(c, Excess(c)), e |-> e - Excess(c)]
  <2>1. Excess(c) \in Nat \ {0}
    BY <1>2, ExcessIs
  <2> QED
    BY <2>1 DEF Finalise
<1>3. ASSUME c = Fits
      PROVE  Finalise(c, e) = [c |-> TenTo[Precision - 1], e |-> e - 1]
  <2> DEFINE t == TenTo[Precision - 1]
  <2>1. /\ t \in Nat \ {0} /\ c = 10 * t /\ TenTo[Precision + 1] = 10 * c
    <3>1. Precision - 1 \in Nat /\ Precision = (Precision - 1) + 1
      BY SmallFits
    <3> QED
      BY <1>3, <3>1, SmallFits, Powers DEF Fits
  <2>2. c < TenTo[Precision + 1] /\ TenTo[Precision + 1 - 1] <= c /\ Fits <= c
    <3> DEFINE p == Precision
    <3>1. c \in Nat /\ c < 10 * c
      BY <2>1
    <3>2. TenTo[p] = c
      BY <1>3 DEF Fits
    <3>3. p + 1 - 1 = p
      BY SmallFits
    <3> HIDE DEF p
    <3>4. TenTo[p + 1 - 1] <= c
      BY <3>2, <3>3
    <3>5. c < TenTo[Precision + 1]
      BY <2>1, <3>1
    <3> QED
      BY <1>3, <3>1, <3>4, <3>5 DEF p
  <2>3. Excess(c) = 1
    BY <2>2, ExcessIs
  <2>4. HalfUp(c, 1) = t
    <3>1. TenTo[1] = 10 /\ TenTo[1 - 1] = 1
      <4>1. TenTo[0 + 1] = 10 * TenTo[0]
        BY Powers
      <4> QED
        BY <4>1, Powers
    <3> DEFINE h == HalfUp(c, 1)
    <3>2. h \in Nat /\ 2 * (h * 10) <= 2 * c + 10 /\ 2 * c < 2 * (h * 10) + 10
      <4>1. 1 \in Nat \ {0}
        OBVIOUS
      <4>2. /\ h \in Nat
            /\ 2 * (h * TenTo[1]) <= 2 * c + TenTo[1]
            /\ 2 * c < 2 * (h * TenTo[1]) + TenTo[1]
        BY <4>1, HalfUpIs
      <4> HIDE DEF h
      <4> QED
        BY <3>1, <4>2
    <3> HIDE DEF h, t
    <3>3. h = t
      BY <2>1, <3>2
    <3> QED
      BY <3>3 DEF h
  <2> QED
    BY <1>2, <2>2, <2>3, <2>4
<1>4. Finalise(c, e).c \in Nat /\ Finalise(c, e).e \in Int
  <2>1. CASE c < Fits
    BY <1>1, <2>1
  <2>2. CASE Fits <= c
    BY <1>2, <2>2, HalfUpIs
  <2> QED
    BY <2>1, <2>2, SmallFits
<1> QED
  BY <1>1, <1>2, <1>3, <1>4

-----------------------------------------------------------------------------
(* domain/money.ts.                                                        *)

LEMMA IntegralIs ==
    ASSUME NEW c \in Nat, NEW e \in Int
    PROVE  /\ Integral([c |-> c, e |-> e]) \in Nat
           /\ e <= 0 => Integral([c |-> c, e |-> e]) = c * TenTo[-e]
           /\ e > 0 => Integral([c |-> c, e |-> e]) = c \div TenTo[e]
<1>1. ASSUME e <= 0 PROVE /\ Integral([c |-> c, e |-> e]) = c * TenTo[-e]
                          /\ c * TenTo[-e] \in Nat
  <2>1. -e \in Nat
    BY <1>1
  <2>2. TenTo[-e] \in Nat
    BY <2>1, Powers
  <2>3. c * TenTo[-e] \in Nat
    BY <2>2
  <2> QED
    BY <1>1, <2>3 DEF Integral
<1>2. ASSUME e > 0 PROVE /\ Integral([c |-> c, e |-> e]) = c \div TenTo[e]
                         /\ c \div TenTo[e] \in Nat
  <2>1. Integral([c |-> c, e |-> e]) = c \div TenTo[e]
    BY <1>2 DEF Integral, Floor
  <2>2. c \div TenTo[e] \in Nat
    BY <1>2, FloorIs DEF Floor
  <2> QED
    BY <2>1, <2>2
<1> QED
  BY <1>1, <1>2

LEMMA ScaledIs ==
    ASSUME NEW c \in Nat, NEW e \in Int
    PROVE  Times([c |-> c, e |-> e], [c |-> 1, e |-> -Decimals]) = Finalise(c, e - Decimals)
<1>1. c * 1 = c /\ e + (-Decimals) = e - Decimals
  BY DecimalsAssumption
<1> QED
  BY <1>1 DEF Times

\* What the minor units of a decimal are, if it has no more digits than fit,
\* but for one followed by noughts.
LEMMA UnitsAre ==
    ASSUME NEW c \in Nat, NEW e \in Int
    PROVE  LET x == [c |-> c, e |-> e] IN
           /\ ToMinorUnits(x) \in Nat \cup {Nothing}
           /\ c <= Fits /\ e <= Decimals => ToMinorUnits(x) = c * TenTo[Decimals - e]
           /\ c < Fits /\ e > Decimals /\ ToMinorUnits(x) # Nothing =>
                 c = ToMinorUnits(x) * TenTo[e - Decimals]
<1> DEFINE x == [c |-> c, e |-> e]
           d == Decimals
           s == Finalise(c, e - d)
<1>1. d \in Nat /\ e - d \in Int
  BY DecimalsAssumption
<1>2. ToMinorUnits(x) = IF IsInteger(s) THEN Integral(s) ELSE Nothing
  BY ScaledIs DEF ToMinorUnits
<1> HIDE DEF d
<1>3. ToMinorUnits(x) \in Nat \cup {Nothing}
  <2>1. s.c \in Nat /\ s.e \in Int /\ s = [c |-> s.c, e |-> s.e]
    BY <1>1, FinaliseIs DEF Finalise
  <2>2. Integral([c |-> s.c, e |-> s.e]) \in Nat
    BY <2>1, IntegralIs
  <2> HIDE DEF s
  <2> QED
    BY <1>2, <2>1, <2>2
<1>4. ASSUME c < Fits, e <= d PROVE ToMinorUnits(x) = c * TenTo[d - e]
  <2>1. s = [c |-> c, e |-> e - d] /\ e - d <= 0 /\ -(e - d) = d - e
    BY <1>1, <1>4, FinaliseIs
  <2>2. IsInteger(s)
    BY <2>1 DEF IsInteger
  <2>3. Integral([c |-> c, e |-> e - d]) = c * TenTo[d - e]
    BY <1>1, <2>1, IntegralIs
  <2> HIDE DEF s
  <2> QED
    BY <1>2, <2>1, <2>2, <2>3
<1>5. ASSUME c = Fits, e <= d PROVE ToMinorUnits(x) = c * TenTo[d - e]
  <2> DEFINE t == TenTo[Precision - 1]
             k == d - e
  <2>1. k \in Nat /\ Precision - 1 \in Nat
    BY <1>1, <1>5, SmallFits
  <2>2. t \in Nat /\ c = 10 * t /\ TenTo[k] \in Nat /\ TenTo[k + 1] = 10 * TenTo[k]
    <3>1. Precision = (Precision - 1) + 1
      BY SmallFits
    <3> QED
      BY <1>5, <2>1, <3>1, Powers DEF Fits
  <2>3. /\ s = [c |-> t, e |-> e - d - 1]
        /\ e - d - 1 \in Int /\ e - d - 1 <= 0 /\ -(e - d - 1) = k + 1
    <3>1. s = [c |-> t, e |-> (e - d) - 1]
      BY <1>1, <1>5, FinaliseIs
    <3> QED
      BY <1>1, <1>5, <3>1
  <2>4. IsInteger(s)
    BY <2>3 DEF IsInteger
  <2>5. Integral([c |-> t, e |-> e - d - 1]) = t * TenTo[k + 1]
    BY <2>2, <2>3, IntegralIs
  <2> HIDE DEF s, t, k
  <2>6. t * TenTo[k + 1] = c * TenTo[k]
    <3> DEFINE y == TenTo[k]
    <3>1. y \in Nat /\ TenTo[k + 1] = 10 * y
      BY <2>2
    <3> HIDE DEF y
    <3>2. t * (10 * y) = (10 * t) * y
      BY <2>2, <3>1
    <3> QED
      BY <2>2, <3>1, <3>2 DEF y
  <2>7. ToMinorUnits(x) = c * TenTo[k]
    BY <1>2, <2>3, <2>4, <2>5, <2>6
  <2> QED
    BY <2>7 DEF k
<1>6. ASSUME c < Fits, e > d, ToMinorUnits(x) # Nothing
      PROVE  c = ToMinorUnits(x) * TenTo[e - d]
  <2>1. s = [c |-> c, e |-> e - d] /\ e - d > 0 /\ e - d \in Nat
    BY <1>1, <1>6, FinaliseIs
  <2> HIDE DEF s
  <2>2. c % TenTo[e - d] = 0
    BY <1>2, <1>6, <2>1 DEF IsInteger
  <2>3. ToMinorUnits(x) = c \div TenTo[e - d]
    BY <1>1, <1>2, <1>6, <2>1, IntegralIs
  <2>4. TenTo[e - d] \in Nat \ {0}
    BY <2>1, Powers
  <2> DEFINE t == TenTo[e - d]
  <2> HIDE DEF t, x
  <2>5. c = (c \div t) * t + (c % t) /\ (c \div t) * t \in Nat
    <3>1. t \in Nat \ {0}
      BY <2>4 DEF t
    <3>2. c \div t \in Nat /\ c = (c \div t) * t + (c % t)
      BY <3>1, Quotient
    <3> QED
      BY <3>1, <3>2
  <2>6. c = (c \div t) * t
    BY <2>2, <2>5 DEF t
  <2> QED
    BY <2>3, <2>6 DEF t
<1> QED
  BY <1>1, <1>3, <1>4, <1>5, <1>6, SmallFits DEF d


-----------------------------------------------------------------------------
(* Roundings.                                                              *)

LEMMA AtMost ==
    ASSUME NEW c \in Nat, NEW k \in Nat
    PROVE  /\ Floor(c, k) <= c /\ Ceiling(c, k) <= c
           /\ k = 0 => Floor(c, k) = c /\ Ceiling(c, k) = c
<1> DEFINE t == TenTo[k]
           f == Floor(c, k)
           g == Ceiling(c, k)
<1>1. /\ t \in Nat \ {0} /\ f \in Nat /\ g \in Nat
      /\ f * t <= c /\ c < f * t + t
      /\ c <= g * t /\ g * t < c + t
      /\ k = 0 => t = 1
  BY FloorIs, CeilingIs, Powers
<1> HIDE DEF t, f, g
<1>2. \A x \in Nat : x \in Int /\ x * t \in Nat /\ x <= x * t
  BY <1>1
<1>3. f <= c
  BY <1>1, <1>2
<1>4. ASSUME c < g PROVE FALSE
  <2>1. c * t + t <= g * t
    BY <1>1, <1>2, <1>4, Multiples
  <2> QED
    BY <1>1, <1>2, <2>1
<1>5. g <= c
  BY <1>1, <1>4
<1>6. ASSUME k = 0 PROVE f = c /\ g = c
  <2>1. f * t = f /\ g * t = g /\ t = 1
    BY <1>1, <1>6
  <2> QED
    BY <1>1, <2>1
<1> QED
  BY <1>3, <1>5, <1>6 DEF f, g

\* A rounding to the nearest before one to a multiple costs a unit at most,
\* in favour of the one rounding down and against the one rounding up.
LEMMA RoundedTwice ==
    ASSUME NEW n \in Nat, NEW d \in Nat \ {0}, NEW k \in Nat
    PROVE  LET h == HalfUp(n, d) IN
           /\ Floor(h, k) - Floor(n, d + k) \in 0 .. 1
           /\ Ceiling(h, k) - Ceiling(n, d + k) \in -1 .. 0
<1> DEFINE h == HalfUp(n, d)
           t == TenTo[d]
           u == TenTo[k]
           v == TenTo[d + k]
           f == Floor(h, k)
           g == Floor(n, d + k)
           c == Ceiling(h, k)
           e == Ceiling(n, d + k)
<1>1. /\ t \in Nat \ {0} /\ u \in Nat \ {0} /\ v \in Nat \ {0}
      /\ v = t * u
  <2>1. d + k \in Nat
    OBVIOUS
  <2> QED
    BY <2>1, Powers, PowerOfSum
<1>2. /\ h \in Nat
      /\ 2 * (h * t) <= 2 * n + t /\ 2 * n < 2 * (h * t) + t
  BY HalfUpIs
<1>3. /\ f \in Nat /\ f * u <= h /\ h < f * u + u
      /\ c \in Nat /\ h <= c * u /\ c * u < h + u
  <2> HIDE DEF h
  <2> QED
    BY <1>2, FloorIs, CeilingIs
<1>4. /\ g \in Nat /\ g * v <= n /\ n < g * v + v
      /\ e \in Nat /\ n <= e * v /\ e * v < n + v
  <2>1. d + k \in Nat
    OBVIOUS
  <2> QED
    BY <2>1, FloorIs, CeilingIs
<1> HIDE DEF h, t, u, v, f, g, c, e
<1>5. \A x, y \in Int : x <= y => x * t <= y * t
  BY <1>1, Multiples
<1>6. /\ (f * u) * t = f * v /\ (c * u) * t = c * v /\ u * t = v
      /\ f * u \in Nat /\ c * u \in Nat /\ f * v \in Nat /\ c * v \in Nat /\ h * t \in Nat
      /\ g * v \in Nat /\ e * v \in Nat
  BY <1>1, <1>2, <1>3, <1>4
<1>7. /\ f * v <= h * t /\ h * t + t <= f * v + v
      /\ h * t <= c * v /\ c * v + t <= h * t + v
  <2>1. f * v <= h * t /\ h * t <= c * v
    BY <1>2, <1>3, <1>5, <1>6
  <2>2. (h + 1) * t <= (f * u + u) * t /\ (c * u + 1) * t <= (h + u) * t
    <3>1. h + 1 <= f * u + u /\ c * u + 1 <= h + u
      BY <1>2, <1>3, <1>6, <1>1
    <3> QED
      BY <1>1, <1>2, <1>5, <1>6, <3>1
  <2>3. /\ (h + 1) * t = h * t + t /\ (c * u + 1) * t = c * v + t
    <3>1. \A x \in Nat : (x + 1) * t = x * t + t
      BY <1>1
    <3> QED
      BY <1>2, <1>6, <3>1
  <2>4. (f * u + u) * t = f * v + v /\ (h + u) * t = h * t + v
    <3>1. \A x \in Nat : (x + u) * t = x * t + u * t
      BY <1>1
    <3> QED
      BY <1>2, <1>6, <3>1
  <2> QED
    BY <2>1, <2>2, <2>3, <2>4
<1>8. t <= v
  BY <1>1
<1>9. f <= g + 1 /\ g <= f
  <2>1. f * v < (g + 1) * v + v /\ g * v < f * v + v
    <3>1. (g + 1) * v = g * v + v
      BY <1>1, <1>4
    <3> QED
      BY <1>1, <1>2, <1>4, <1>6, <1>7, <1>8, <3>1
  <2> QED
    BY <1>1, <1>3, <1>4, <2>1, Multiples
<1>10. c <= e /\ e <= c + 1
  <2>1. c * v < e * v + v /\ e * v < (c + 1) * v + v
    <3>1. (c + 1) * v = c * v + v
      BY <1>1, <1>3
    <3> QED
      BY <1>1, <1>2, <1>4, <1>6, <1>7, <1>8, <3>1
  <2> QED
    BY <1>1, <1>3, <1>4, <2>1, Multiples
<1>11. f - g \in 0 .. 1 /\ c - e \in -1 .. 0
  BY <1>3, <1>4, <1>9, <1>10
<1> QED
  BY <1>11 DEF f, g, c, e, h


-----------------------------------------------------------------------------
(* quote-pricing.ts.                                                       *)

\* n units of 10^-k minor units, rounded for the house.
Rounded(side, n, k) == IF side = "BUY" THEN Ceiling(n, k) ELSE Floor(n, k)

\* What computeQuoteAmount returns, against the exact product.
LEMMA QuoteAmountIs ==
    ASSUME NEW side \in Sides, NEW base \in 0 .. MaxMinor, NEW price \in Decimal
    PROVE  LET n == base * price.c
               q == QuoteAmount(side, base, price)
           IN  /\ q \in Nat \cup {Nothing}
               /\ n < Fits => q = Rounded(side, n, price.e)
               /\ q \in 0 .. MaxMinor => q - Rounded(side, n, price.e) \in -1 .. 1
<1> DEFINE D == Decimals
           e == price.e
           n == base * price.c
           x == Finalise(n, D + e)
           q == QuoteAmount(side, base, price)
<1>1. /\ base \in Nat /\ price.c \in Nat /\ e \in Nat /\ D \in Nat /\ D + e \in Int
      /\ n \in Nat
  <2>1. base \in Nat /\ price.c \in Nat /\ e \in Nat /\ D \in Nat
    BY MaxMinorAssumption, DecimalsAssumption DEF Decimal
  <2> QED
    BY <2>1
<1>2. q = RoundToMinorUnits(x, side = "BUY")
  <2>1. FromMinorUnits(base) = [c |-> base, e |-> D]
    BY <1>1, SmallFits, FinaliseIs DEF FromMinorUnits
  <2> QED
    BY <2>1 DEF QuoteAmount, Times
<1> HIDE DEF D, e, n, q
<1>3. x.c \in Nat /\ x.e \in Int
  BY <1>1, FinaliseIs
<1> DEFINE y == IF x.e <= D THEN x ELSE [c |-> Rounded(side, x.c, x.e - D), e |-> D]
<1>4. q = ToMinorUnits(y)
  BY <1>2 DEF RoundToMinorUnits, Rounded, D
<1>5. \A m \in Nat, k \in Nat :
         /\ Rounded(side, m, k) \in Nat /\ Rounded(side, m, k) <= m
         /\ k = 0 => Rounded(side, m, k) = m
  BY FloorIs, CeilingIs, AtMost DEF Rounded
<1>6. q \in Nat \cup {Nothing}
  <2>1. CASE x.e <= D
    <3>1. x = [c |-> x.c, e |-> x.e]
      BY <1>1, FinaliseIs DEF Finalise
    <3> HIDE DEF x
    <3>2. y = [c |-> x.c, e |-> x.e]
      BY <2>1, <3>1
    <3> QED
      BY <1>3, <1>4, <3>2, UnitsAre
  <2>2. CASE ~(x.e <= D)
    <3> DEFINE r == Rounded(side, x.c, x.e - D)
    <3>1. r \in Nat
      <4>1. x.e - D \in Nat
        BY <1>1, <1>3, <2>2
      <4> QED
        BY <1>3, <1>5, <4>1
    <3>2. y = [c |-> r, e |-> D] /\ D \in Int
      BY <1>1, <2>2
    <3> HIDE DEF r, y
    <3> QED
      BY <1>4, <3>1, <3>2, UnitsAre
  <2> QED
    BY <2>1, <2>2
\* Both cases that can be accepted: c of the digits, k decimals too many.
<1>7. ASSUME NEW c \in Nat, NEW k \in Nat, c <= Fits, x = [c |-> c, e |-> D + k]
      PROVE  q = Rounded(side, c, k)
  <2> DEFINE r == Rounded(side, c, k)
  <2>1. y = [c |-> r, e |-> D]
    <3>1. x.c = c /\ x.e = D + k
      BY <1>7
    <3> HIDE DEF x
    <3>2. CASE k = 0
      <4>1. x.e <= D /\ r = c /\ D + k = D
        BY <1>1, <1>5, <3>1, <3>2
      <4> QED
        BY <1>7, <4>1
    <3>3. CASE k # 0
      <4>1. ~(x.e <= D) /\ x.e - D = k
        BY <1>1, <3>1, <3>3
      <4> QED
        BY <3>1, <4>1
    <3> QED
      BY <3>2, <3>3
  <2>2. r \in Nat /\ r <= Fits /\ D \in Int /\ D <= Decimals /\ Decimals - D = 0
    <3>1. r \in Nat /\ r <= c
      BY <1>5
    <3>2. Fits \in Nat
      BY SmallFits
    <3>3. D \in Int /\ D <= Decimals /\ Decimals - D = 0
      BY DecimalsAssumption DEF D
    <3> HIDE DEF r
    <3> QED
      BY <1>7, <3>1, <3>2, <3>3
  <2> HIDE DEF r, y
  <2>3. ToMinorUnits([c |-> r, e |-> D]) = r * TenTo[Decimals - D]
    BY <2>2, UnitsAre
  <2>4. TenTo[Decimals - D] = 1
    BY <2>2, Powers
  <2>5. q = r
    BY <1>4, <2>1, <2>2, <2>3, <2>4
  <2> QED
    BY <2>5 DEF r
<1>8. ASSUME n < Fits PROVE q = Rounded(side, n, e)
  <2>1. x = [c |-> n, e |-> D + e] /\ n <= Fits
    BY <1>1, <1>8, FinaliseIs, SmallFits
  <2> QED
    BY <1>1, <1>7, <2>1
<1>9. ASSUME Fits <= n, q \in 0 .. MaxMinor PROVE q - Rounded(side, n, e) \in -1 .. 1
  <2> DEFINE d == Excess(n)
             h == HalfUp(n, d)
             t == TenTo[d]
             p == Precision - 1
  <2>1. /\ d \in Nat \ {0} /\ x = [c |-> h, e |-> D + e - d]
        /\ n < TenTo[Precision + d] /\ TenTo[Precision + d - 1] <= n
    BY <1>1, <1>9, ExcessIs, FinaliseIs
  <2> HIDE DEF d
  <2>2. /\ h \in Nat /\ t \in Nat \ {0}
        /\ 2 * (h * t) <= 2 * n + t /\ 2 * n < 2 * (h * t) + t
    BY <1>1, <2>1, HalfUpIs
  <2>3. /\ p \in Nat /\ TenTo[p] \in Nat \ {0} /\ Fits = 10 * TenTo[p]
        /\ TenTo[Precision + d] = Fits * t /\ TenTo[Precision + d - 1] = TenTo[p] * t
    <3>1. p \in Nat /\ Precision = p + 1 /\ Precision + d - 1 = p + d /\ Precision \in Nat
      BY <2>1, SmallFits
    <3> HIDE DEF p
    <3>2. TenTo[Precision + d] = TenTo[Precision] * TenTo[d] /\ TenTo[p + d] = TenTo[p] * TenTo[d]
      BY <2>1, <3>1, PowerOfSum
    <3>3. TenTo[p] \in Nat \ {0} /\ TenTo[Precision] = 10 * TenTo[p]
      BY <3>1, Powers
    <3> QED
      BY <3>1, <3>2, <3>3 DEF Fits
  <2> HIDE DEF h, t, p
  <2>4. h <= Fits /\ TenTo[p] <= h
    <3>1. h * t \in Int /\ Fits * t \in Int /\ TenTo[p] * t \in Int /\ Fits \in Int /\ TenTo[p] \in Int
      BY <2>2, <2>3, SmallFits
    <3>2. h * t < Fits * t + t /\ TenTo[p] * t < h * t + t
      BY <1>1, <2>1, <2>2, <2>3, <3>1
    <3> QED
      BY <2>2, <3>1, <3>2, Multiples
  <2>5. CASE d <= e
    <3> DEFINE k == e - d
    <3>1. k \in Nat /\ D + e - d = D + k /\ d + k = e
      BY <1>1, <2>1, <2>5
    <3> HIDE DEF k
    <3>2. q = Rounded(side, h, k)
      <4>1. x = [c |-> h, e |-> D + k]
        BY <2>1, <3>1
      <4> HIDE DEF x
      <4> QED
        BY <1>7, <2>2, <2>4, <3>1, <4>1
    <3>3. /\ Floor(h, k) - Floor(n, e) \in 0 .. 1
          /\ Ceiling(h, k) - Ceiling(n, e) \in -1 .. 0
      <4>1. /\ Floor(h, k) - Floor(n, d + k) \in 0 .. 1
            /\ Ceiling(h, k) - Ceiling(n, d + k) \in -1 .. 0
        BY <1>1, <2>1, <3>1, RoundedTwice DEF h
      <4> QED
        BY <3>1, <4>1
    <3> QED
      BY <3>2, <3>3 DEF Rounded
  <2>6. CASE e < d
    <3> DEFINE f == D + e - d
               k == D - f
    <3>1. f \in Int /\ f <= D /\ k = d - e /\ k \in Nat \ {0}
      BY <1>1, <2>1, <2>6
    <3>2. x.e = f /\ x = [c |-> h, e |-> f]
      BY <2>1
    <3> HIDE DEF x, f
    <3>3. y = [c |-> h, e |-> f]
      BY <3>1, <3>2
    <3> HIDE DEF y
    <3>4. q = h * TenTo[k]
      BY <1>4, <2>2, <2>4, <3>1, <3>3, UnitsAre DEF D
    <3>5. TenTo[k] \in Nat /\ 10 <= TenTo[k]
      <4>1. 0 \in Nat /\ k \in Nat /\ 0 < k
        BY <3>1
      <4> HIDE DEF k
      <4>2. 10 * TenTo[0] <= TenTo[k]
        BY <4>1, PowersGrow
      <4> QED
        BY <4>1, <4>2, Powers
    <3>6. Fits <= q
      <4> DEFINE z == TenTo[k]
                 w == TenTo[p]
      <4>1. w \in Nat /\ z \in Nat /\ h \in Nat /\ w <= h /\ 10 <= z /\ q = h * z /\ Fits = 10 * w
        BY <2>2, <2>3, <2>4, <3>4, <3>5
      <4> HIDE DEF z, w
      <4>2. 10 * w <= 10 * h /\ h * 10 <= h * z
        BY <4>1
      <4>3. h * z \in Nat
        BY <4>1
      <4> QED
        BY <4>1, <4>2, <4>3
    <3> QED
      BY <1>9, <3>6, SmallFits
  <2> QED
    BY <1>1, <2>1, <2>5, <2>6
<1>10. ASSUME n < Fits, q \in 0 .. MaxMinor PROVE q - Rounded(side, n, e) \in -1 .. 1
  <2>1. q = Rounded(side, n, e) /\ q \in Int
    BY <1>8, <1>10
  <2> QED
    BY <2>1
<1> QED
  BY <1>1, <1>6, <1>8, <1>9, <1>10, SmallFits DEF n, e, q


-----------------------------------------------------------------------------
(* The inductive invariant: a success stored what the request says.        *)

IInv ==
    /\ asked \in Requests \cup {NoRequest}
    /\ answer.code \in {201, 400, 500}
    /\ answer.code # 201 => answer.base = 0 /\ answer.quote = 0
    /\ answer.code = 201 =>
          /\ asked \in Requests
          /\ answer.base \in 1 .. MaxMinor /\ answer.quote \in 1 .. MaxMinor
          /\ answer.base = ToMinorUnits(asked.amount)
          /\ answer.quote = IF asked.kind = "quote"
                            THEN QuoteAmount(asked.side, answer.base, asked.price)
                            ELSE answer.base


LEMMA RequestsAre ==
    \A r \in Requests :
        /\ r # NoRequest
        /\ r.kind \in {"quote", "deposit"}
        /\ r.amount \in Decimal /\ r.amount = [c |-> r.amount.c, e |-> r.amount.e]
        /\ r.amount.c \in Nat /\ r.amount.e \in Nat
        /\ r.kind = "quote" => r.side \in Sides /\ r.price \in Decimal
<1>1. \A x \in Decimal : x.c \in Nat /\ x.e \in Nat /\ x = [c |-> x.c, e |-> x.e]
  BY DEF Decimal
<1>2. ASSUME NEW r \in Requests
      PROVE  /\ r # NoRequest
             /\ r.kind \in {"quote", "deposit"} /\ r.amount \in Decimal
             /\ r.kind = "quote" => r.side \in Sides /\ r.price \in Decimal
  <2>1. CASE r \in [kind: {"quote"}, side: Sides, amount: Amounts, price: Prices]
    BY <2>1, AmountsAssumption, PricesAssumption DEF NoRequest
  <2>2. CASE r \in [kind: {"deposit"}, amount: Amounts]
    BY <2>2, AmountsAssumption DEF NoRequest
  <2> QED
    BY <2>1, <2>2 DEF Requests
<1> QED
  BY <1>1, <1>2

LEMMA Amount ==
    ASSUME NEW r \in Requests
    PROVE  ToMinorUnits(r.amount) \in Nat \cup {Nothing}
<1> DEFINE c == r.amount.c
           e == r.amount.e
<1>1. c \in Nat /\ e \in Int /\ r.amount = [c |-> c, e |-> e]
  BY RequestsAre
<1> HIDE DEF c, e
<1>2. ToMinorUnits([c |-> c, e |-> e]) \in Nat \cup {Nothing}
  BY <1>1, UnitsAre
<1> QED
  BY <1>1, <1>2

LEMMA QuoteStep ==
    ASSUME NEW r \in Requests, CreateQuote(r)
    PROVE  IInv'
<1> DEFINE base == ToMinorUnits(r.amount)
           quote == QuoteAmount(r.side, base, r.price)
<1>1. /\ r.kind = "quote" /\ asked' = r
      /\ answer' = IF base = Nothing \/ base <= 0 THEN BadRequest
                   ELSE IF quote <= 0 THEN BadRequest
                   ELSE Stored(base, quote)
  BY DEF CreateQuote
<1>2. base \in Nat \cup {Nothing} /\ Nothing = -1 /\ MaxMinor \in Nat
  BY Amount, MaxMinorAssumption DEF Nothing
<1>3. r.side \in Sides /\ r.price \in Decimal
  BY <1>1, RequestsAre
<1>4. base \in 0 .. MaxMinor => quote \in Nat \cup {Nothing}
  <2> HIDE DEF base
  <2> QED
    BY <1>3, QuoteAmountIs
<1>5. asked' \in Requests /\ asked'.amount = r.amount /\ asked'.side = r.side
      /\ asked'.price = r.price /\ asked'.kind = "quote"
  BY <1>1
<1>6. quote = QuoteAmount(r.side, base, r.price) /\ base = ToMinorUnits(r.amount)
  OBVIOUS
<1> HIDE DEF base, quote
<1>7. \/ answer' = BadRequest
      \/ answer' = [code |-> 500, base |-> 0, quote |-> 0]
      \/ /\ answer' = [code |-> 201, base |-> base, quote |-> quote]
         /\ base \in 1 .. MaxMinor /\ quote \in 1 .. MaxMinor
  BY <1>1, <1>2, <1>4 DEF Stored
<1>8. CASE answer' = BadRequest \/ answer' = [code |-> 500, base |-> 0, quote |-> 0]
  <2>1. answer'.code \in {400, 500} /\ answer'.base = 0 /\ answer'.quote = 0
    BY <1>8 DEF BadRequest
  <2> QED
    BY <1>5, <2>1 DEF IInv
<1>9. CASE /\ answer' = [code |-> 201, base |-> base, quote |-> quote]
           /\ base \in 1 .. MaxMinor /\ quote \in 1 .. MaxMinor
  <2>1. answer'.code = 201 /\ answer'.base = base /\ answer'.quote = quote
    BY <1>9
  <2> QED
    BY <1>5, <1>6, <1>9, <2>1 DEF IInv
<1> QED
  BY <1>7, <1>8, <1>9

LEMMA DepositStep ==
    ASSUME NEW r \in Requests, CreateDeposit(r)
    PROVE  IInv'
<1> DEFINE minor == ToMinorUnits(r.amount)
<1>1. /\ r.kind = "deposit" /\ asked' = r
      /\ answer' = IF minor = Nothing \/ minor <= 0 THEN BadRequest
                   ELSE Stored(minor, minor)
  BY DEF CreateDeposit
<1>2. minor \in Nat \cup {Nothing} /\ Nothing = -1 /\ MaxMinor \in Nat
  BY Amount, MaxMinorAssumption DEF Nothing
<1>3. asked' \in Requests /\ asked'.amount = r.amount /\ asked'.kind # "quote"
  BY <1>1
<1>4. minor = ToMinorUnits(r.amount)
  OBVIOUS
<1> HIDE DEF minor
<1>5. \/ answer' = BadRequest
      \/ answer' = [code |-> 500, base |-> 0, quote |-> 0]
      \/ /\ answer' = [code |-> 201, base |-> minor, quote |-> minor]
         /\ minor \in 1 .. MaxMinor
  BY <1>1, <1>2 DEF Stored
<1>6. CASE answer' = BadRequest \/ answer' = [code |-> 500, base |-> 0, quote |-> 0]
  <2>1. answer'.code \in {400, 500} /\ answer'.base = 0 /\ answer'.quote = 0
    BY <1>6 DEF BadRequest
  <2> QED
    BY <1>3, <2>1 DEF IInv
<1>7. CASE /\ answer' = [code |-> 201, base |-> minor, quote |-> minor]
           /\ minor \in 1 .. MaxMinor
  <2>1. answer'.code = 201 /\ answer'.base = minor /\ answer'.quote = minor
    BY <1>7
  <2> QED
    BY <1>3, <1>4, <1>7, <2>1 DEF IInv
<1> QED
  BY <1>5, <1>6, <1>7

LEMMA Invariance == Spec => []IInv
<1>1. Init => IInv
  BY DEF Init, IInv, BadRequest
<1>2. IInv /\ [Next]_vars => IInv'
  <2>1. ASSUME IInv, UNCHANGED vars PROVE IInv'
    BY <2>1 DEF IInv, vars
  <2> QED
    BY <2>1, QuoteStep, DepositStep DEF Next
<1> QED
  BY <1>1, <1>2, PTL DEF Spec

-----------------------------------------------------------------------------
(* What the amounts promise.                                               *)

\* TypeOK: whatever createQuote and createDeposit store is positive and fits
\* its column, and what they refuse stores nothing.
THEOREM TypesOK == Spec => []TypeOK
<1>1. IInv => TypeOK
  BY DEF IInv, TypeOK
<1> QED
  BY <1>1, Invariance, PTL

LEMMA QuotedIs ==
    ASSUME IInv, Quoted
    PROVE  /\ asked.side \in Sides /\ asked.price \in Decimal
           /\ answer.base \in 0 .. MaxMinor /\ answer.quote \in 0 .. MaxMinor
           /\ answer.quote = QuoteAmount(asked.side, answer.base, asked.price)
           /\ Owed = Rounded(asked.side, answer.base * asked.price.c, asked.price.e)
<1>1. /\ asked \in Requests /\ asked.kind = "quote"
      /\ answer.base \in 1 .. MaxMinor /\ answer.quote \in 1 .. MaxMinor
      /\ answer.quote = QuoteAmount(asked.side, answer.base, asked.price)
  BY DEF IInv, Quoted
<1>2. Owed = Rounded(asked.side, answer.base * asked.price.c, asked.price.e)
  BY DEF Owed, Rounded, ExactProduct
<1>3. asked.side \in Sides /\ asked.price \in Decimal
  BY <1>1, RequestsAre
<1>4. 1 .. MaxMinor \subseteq 0 .. MaxMinor
  BY MaxMinorAssumption
<1> QED
  BY <1>1, <1>2, <1>3, <1>4

\* RoundedForTheHouseWhenItFits: computeQuoteAmount rounds once, up for a BUY
\* and down for a SELL, whenever decimal.js keeps all digits of the product.
THEOREM ForTheHouse == Spec => []RoundedForTheHouseWhenItFits
<1>1. IInv => RoundedForTheHouseWhenItFits
  <2> SUFFICES ASSUME IInv, Quoted, ExactProduct < TenTo[Precision]
               PROVE  answer.quote = Owed
    BY DEF RoundedForTheHouseWhenItFits
  <2>1. answer.base * asked.price.c < Fits
    BY DEF ExactProduct, Fits
  <2> QED
    BY <2>1, QuotedIs, QuoteAmountIs
<1> QED
  BY <1>1, Invariance, PTL

\* OffByAtMostOne: where decimal.js drops digits of the product first, what
\* is owed differs from the exact amount by one minor unit at most.
THEOREM OneUnitAtMost == Spec => []OffByAtMostOne
<1>1. IInv => OffByAtMostOne
  BY QuotedIs, QuoteAmountIs DEF OffByAtMostOne
<1> QED
  BY <1>1, Invariance, PTL

\* AcceptedAsWritten: toMinorUnits stores the very amount of the string, or
\* refuses it, unless it has more digits than decimal.js keeps.
THEOREM AsWritten == Spec => []AcceptedAsWritten
<1>1. IInv => AcceptedAsWritten
  <2> SUFFICES ASSUME IInv, Accepted, asked.amount.c < Fits
               PROVE  answer.base * TenTo[asked.amount.e] = asked.amount.c * TenTo[Decimals]
    BY DEF AcceptedAsWritten, Fits
  <2> DEFINE c == asked.amount.c
             e == asked.amount.e
             b == answer.base
             D == Decimals
  <2>1. /\ c \in Nat /\ e \in Nat /\ b \in Nat /\ c <= Fits /\ c < Fits /\ D \in Nat
        /\ b = ToMinorUnits([c |-> c, e |-> e]) /\ b # Nothing
    <3>1. asked \in Requests /\ b \in 1 .. MaxMinor /\ b = ToMinorUnits(asked.amount)
      BY DEF IInv, Accepted
    <3>2. c \in Nat /\ e \in Nat /\ asked.amount = [c |-> c, e |-> e]
      BY <3>1, RequestsAre
    <3> HIDE DEF c, e, b
    <3> QED
      BY <3>1, <3>2, SmallFits, MaxMinorAssumption, DecimalsAssumption DEF Nothing, c
  <2> HIDE DEF c, e, b
  <2>2. CASE e <= D
    <3>1. b = c * TenTo[D - e]
      BY <2>1, <2>2, UnitsAre
    <3>2. D - e \in Nat /\ D = (D - e) + e
      BY <2>1, <2>2
    <3>3. TenTo[D] = TenTo[D - e] * TenTo[e]
      <4> DEFINE k == D - e
      <4> HIDE DEF k
      <4>1. TenTo[k + e] = TenTo[k] * TenTo[e]
        BY <2>1, <3>2, PowerOfSum DEF k
      <4> QED
        BY <3>2, <4>1 DEF k
    <3>4. TenTo[D - e] \in Nat /\ TenTo[e] \in Nat
      BY <2>1, <3>2, Powers
    <3> QED
      BY <2>1, <3>1, <3>3, <3>4 DEF b, c, e
  <2>3. CASE D < e
    <3>1. c = b * TenTo[e - D]
      BY <2>1, <2>3, UnitsAre
    <3>2. e - D \in Nat /\ e = (e - D) + D
      BY <2>1, <2>3
    <3>3. TenTo[e] = TenTo[e - D] * TenTo[D]
      <4> DEFINE k == e - D
      <4> HIDE DEF k
      <4>1. TenTo[k + D] = TenTo[k] * TenTo[D]
        BY <2>1, <3>2, PowerOfSum DEF k
      <4> QED
        BY <3>2, <4>1 DEF k
    <3>4. TenTo[e - D] \in Nat /\ TenTo[D] \in Nat
      BY <2>1, <3>2, Powers
    <3> QED
      BY <2>1, <3>1, <3>3, <3>4 DEF b, c, e
  <2> QED
    BY <2>1, <2>2, <2>3
<1> QED
  BY <1>1, Invariance, PTL

\* ShownAmountReadsBack: toMinorUnits undoes formatMinorUnits on every amount
\* that a column holds, but for those that toString writes with an exponent.
THEOREM ReadsBack == Spec => []ShownAmountReadsBack
<1>1. ASSUME NEW m \in 1 .. MaxMinor
      PROVE  LET back == Parsed(FormatMinorUnits(m))
             IN  /\ back \in {m, Nothing}
                 /\ back = Nothing <=> m < TenTo[Decimals + ToExpNeg + 1]
  <2> DEFINE x == [c |-> m, e |-> Decimals]
  <2>1. m \in Nat /\ m # 0 /\ m < Fits /\ m <= Fits /\ Decimals \in Nat /\ m # Nothing
    BY SmallFits, MaxMinorAssumption, DecimalsAssumption DEF Nothing
  <2>2. FromMinorUnits(m) = x
    BY <2>1, FinaliseIs DEF FromMinorUnits
  <2>3. ToMinorUnits(x) = m
    <3>1. Decimals \in Int /\ Decimals <= Decimals /\ Decimals - Decimals = 0
      BY <2>1
    <3>2. ToMinorUnits(x) = m * TenTo[Decimals - Decimals]
      BY <2>1, <3>1, UnitsAre
    <3> QED
      BY <2>1, <3>1, <3>2, Powers
  <2>4. Exponential(x) <=> m < TenTo[Decimals + ToExpNeg + 1]
    BY <2>1 DEF Exponential
  <2>5. Parsed(FormatMinorUnits(m)) = IF Exponential(x) THEN Nothing ELSE m
    BY <2>2, <2>3 DEF Parsed, FormatMinorUnits
  <2> QED
    BY <2>1, <2>4, <2>5
<1>2. IInv => ShownAmountReadsBack
  BY <1>1 DEF IInv, ShownAmountReadsBack, Accepted
<1> QED
  BY <1>2, Invariance, PTL

=============================================================================
