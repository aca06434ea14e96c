---------------------------- MODULE BackoffProofs ----------------------------
(***************************************************************************)
(* Theorems about the delays of Backoff.tla, for every policy and budget.  *)
(* Powers are defined by recursion: that the function exists, and what it  *)
(* is for each exponent, is proved first, from the fact that a set of      *)
(* naturals that holds 0 and with every n its successor holds them all.    *)
(***************************************************************************)
EXTENDS Backoff, WellFoundedInduction, TLAPS

LEMMA NatInductionOnSets ==
  ASSUME NEW S, 0 \in S, \A n \in Nat : n \in S => n + 1 \in S
  PROVE  Nat \subseteq S
  <1> DEFINE R == OpToRel(<, Nat)
             T == Nat \ S
  <1>1. IsWellFoundedOn(R, Nat)
    BY NatLessThanWellFounded
  <1>2. \A i, j \in Nat : i < j => <<i, j>> \in R
    BY DEF OpToRel
  <1> HIDE DEF R
  <1>3. SUFFICES ASSUME T # {} PROVE FALSE
    OBVIOUS
  <1>4. T \subseteq Nat
    OBVIOUS
  <1> HIDE DEF T
  <1>5. PICK n \in T : \A m \in T : ~ (<<m, n>> \in R)
    BY <1>1, <1>3, <1>4, WFMin
  <1>6. n \in Nat /\ n # 0
    BY <1>4 DEF T
  <1>7. n - 1 \in Nat /\ n - 1 < n
    BY <1>6
  <1>8. n - 1 \notin T
    BY <1>2, <1>5, <1>6, <1>7
  <1> QED
    BY <1>6, <1>7, <1>8 DEF T

-----------------------------------------------------------------------------
(* Powers *)

\* The powers of b up to the exponent n.
PowersTo(b, n) ==
  {g \in [0 .. n -> Nat] : g[0] = 1 /\ \A k \in 1 .. n : g[k] = b * g[k - 1]}

LEMMA PowersExist ==
  ASSUME NEW b \in Nat
  PROVE  \A n \in Nat : PowersTo(b, n) # {}
  <1> DEFINE S == {n \in Nat : PowersTo(b, n) # {}}
  <1>1. 0 \in S
    <2>1. [k \in 0 .. 0 |-> 1] \in PowersTo(b, 0)
      BY DEF PowersTo
    <2> QED
      BY <2>1
  <1>2. ASSUME NEW n \in Nat, n \in S PROVE n + 1 \in S
    <2>1. PICK g \in PowersTo(b, n) : TRUE
      BY <1>2
    <2> DEFINE h == [k \in 0 .. n + 1 |-> IF k <= n THEN g[k] ELSE b * g[n]]
    <2>2. /\ g \in [0 .. n -> Nat] /\ g[0] = 1
          /\ \A k \in 1 .. n : g[k] = b * g[k - 1]
      BY <2>1 DEF PowersTo
    <2>3. h \in [0 .. n + 1 -> Nat]
      <3>1. g[n] \in Nat
        BY <2>2
      <3>2. b * g[n] \in Nat
        BY <3>1
      <3>3. \A k \in 0 .. n + 1 : k <= n => g[k] \in Nat
        BY <2>2
      <3> QED
        BY <3>2, <3>3
    <2>4. ASSUME NEW k \in 1 .. n + 1 PROVE h[k] = b * h[k - 1]
      <3>1. k \in 0 .. n + 1 /\ k - 1 \in 0 .. n + 1 /\ k - 1 <= n
        OBVIOUS
      <3>2. h[k - 1] = g[k - 1]
        BY <3>1
      <3>3. CASE k <= n
        <4>1. h[k] = g[k] /\ k \in 1 .. n
          BY <3>1, <3>3
        <4> QED
          BY <2>2, <3>2, <4>1
      <3>4. CASE k = n + 1
        <4>1. h[k] = b * g[n] /\ k - 1 = n
          BY <3>1, <3>4
        <4> QED
          BY <3>2, <4>1
      <3> QED
        BY <3>3, <3>4
    <2>5. h[0] = 1
      BY <2>2
    <2> HIDE DEF h
    <2>6. h \in PowersTo(b, n + 1)
      BY <2>3, <2>4, <2>5 DEF PowersTo
    <2> QED
      BY <2>6
  <1> HIDE DEF S
  <1>3. Nat \subseteq S
    BY <1>1, <1>2, NatInductionOnSets
  <1> QED
    BY <1>3 DEF S

LEMMA PowersAgree ==
  ASSUME NEW b \in Nat, NEW m \in Nat, NEW n \in Nat, m <= n,
         NEW g \in PowersTo(b, m), NEW h \in PowersTo(b, n)
  PROVE  \A k \in 0 .. m : g[k] = h[k]
  <1> DEFINE S == {k \in Nat : k <= m => g[k] = h[k]}
  <1>1. 0 \in S
    BY DEF PowersTo
  <1>2. ASSUME NEW k \in Nat, k \in S PROVE k + 1 \in S
    <2>1. CASE k + 1 <= m
      <3>1. k + 1 \in 1 .. m /\ k + 1 \in 1 .. n /\ (k + 1) - 1 = k
        BY <2>1
      <3>2. g[k] = h[k]
        BY <1>2, <2>1
      <3>3. g[k + 1] = b * g[k] /\ h[k + 1] = b * h[k]
        BY <3>1 DEF PowersTo
      <3> QED
        BY <3>2, <3>3
    <2>2. CASE ~ (k + 1 <= m)
      BY <2>2
    <2> QED
      BY <2>1, <2>2
  <1> HIDE DEF S
  <1>3. Nat \subseteq S
    BY <1>1, <1>2, NatInductionOnSets
  <1> QED
    BY <1>3 DEF S

\* The equations of Power.
LEMMA PowerSteps ==
  ASSUME NEW b \in Nat
  PROVE  /\ Power(b, 0) = 1
         /\ \A n \in Nat : Power(b, n + 1) = b * Power(b, n)
  <1> DEFINE Solves(f) == f = [k \in Nat |-> IF k = 0 THEN 1 ELSE b * f[k - 1]]
             F == [n \in Nat |-> (CHOOSE g \in PowersTo(b, n) : TRUE)[n]]
             pow == CHOOSE f : Solves(f)
  <1>1. \A n \in Nat : (CHOOSE g \in PowersTo(b, n) : TRUE) \in PowersTo(b, n)
    BY PowersExist
  <1>2. F[0] = 1
    BY <1>1 DEF PowersTo
  <1>3. ASSUME NEW n \in Nat, n # 0 PROVE F[n] = b * F[n - 1]
    <2> DEFINE g == CHOOSE g \in PowersTo(b, n - 1) : TRUE
               h == CHOOSE h \in PowersTo(b, n) : TRUE
    <2>1. n - 1 \in Nat /\ n - 1 <= n /\ n - 1 \in 0 .. n - 1 /\ n \in 1 .. n
      BY <1>3
    <2>2. g \in PowersTo(b, n - 1) /\ h \in PowersTo(b, n)
      BY <1>1, <2>1
    <2>3. F[n] = h[n] /\ F[n - 1] = g[n - 1]
      BY <2>1
    <2> HIDE DEF g, h, F
    <2>4. g[n - 1] = h[n - 1]
      BY <2>1, <2>2, PowersAgree
    <2>5. h[n] = b * h[n - 1]
      BY <2>1, <2>2 DEF PowersTo
    <2> QED
      BY <2>3, <2>4, <2>5
  <1>4. Solves(F)
    <2> DEFINE G == [k \in Nat |-> IF k = 0 THEN 1 ELSE b * F[k - 1]]
    <2>1. F = [n \in Nat |-> F[n]] /\ DOMAIN F = Nat
      OBVIOUS
    <2> HIDE DEF F
    <2>2. \A k \in Nat : F[k] = G[k]
      BY <1>2, <1>3
    <2>3. F = G
      BY <2>1, <2>2
    <2> QED
      BY <2>3
  <1>5. Solves(pow)
    <2> HIDE DEF F, Solves
    <2> QED
      BY <1>4
  <1>6. \A n : Power(b, n) = pow[n]
    BY DEF Power
  <1> HIDE DEF pow
  <1>7. pow[0] = 1
    BY <1>5
  <1>8. ASSUME NEW n \in Nat PROVE pow[n + 1] = b * pow[n]
    <2>1. n + 1 \in Nat /\ n + 1 # 0 /\ (n + 1) - 1 = n
      OBVIOUS
    <2> QED
      BY <1>5, <2>1
  <1> QED
    BY <1>6, <1>7, <1>8

LEMMA PowerTyped ==
  ASSUME NEW b \in Nat
  PROVE  /\ \A n \in Nat : Power(b, n) \in Nat
         /\ b # 0 => \A n \in Nat : Power(b, n) # 0
  <1> DEFINE S == {n \in Nat : Power(b, n) \in Nat /\ (b # 0 => Power(b, n) # 0)}
  <1>1. 0 \in S
    BY PowerSteps
  <1>2. ASSUME NEW n \in Nat, n \in S PROVE n + 1 \in S
    <2>1. Power(b, n) \in Nat /\ Power(b, n + 1) = b * Power(b, n)
      BY <1>2, PowerSteps
    <2>2. \A x, y \in Nat : x * y \in Nat /\ (x # 0 /\ y # 0 => x * y # 0)
      OBVIOUS
    <2> QED
      BY <1>2, <2>1, <2>2
  <1> HIDE DEF S
  <1>3. Nat \subseteq S
    BY <1>1, <1>2, NatInductionOnSets
  <1> QED
    BY <1>3 DEF S

-----------------------------------------------------------------------------
(* Products and quotients *)

LEMMA ProductsRise ==
  ASSUME NEW x \in Nat, NEW y \in Nat, NEW z \in Nat, x <= y
  PROVE  /\ x * z <= y * z /\ z * x <= z * y
         /\ x < y /\ z # 0 => x * z < y * z /\ z * x < z * y
  <1>1. PICK k \in Nat : y = x + k
    <2>1. y - x \in Nat /\ y = x + (y - x)
      OBVIOUS
    <2> QED
      BY <2>1
  <1>2. y * z = x * z + k * z /\ z * y = z * x + z * k
    BY <1>1
  <1>3. k * z \in Nat /\ z * k \in Nat /\ x * z \in Nat /\ z * x \in Nat
    OBVIOUS
  <1>4. k # 0 /\ z # 0 => k * z # 0 /\ z * k # 0
    OBVIOUS
  <1> QED
    BY <1>1, <1>2, <1>3, <1>4

LEMMA Quotient ==
  ASSUME NEW a \in Nat, NEW m \in Nat \ {0}
  PROVE  /\ a \div m \in Nat
         /\ (a \div m) * m <= a
         /\ a < (a \div m + 1) * m
  OBVIOUS

LEMMA QuotientAtLeast ==
  ASSUME NEW a \in Nat, NEW m \in Nat \ {0}, NEW x \in Nat, x * m <= a
  PROVE  x <= a \div m
  <1>1. /\ a \div m \in Nat
        /\ a < (a \div m + 1) * m
    BY Quotient
  <1>2. SUFFICES ASSUME a \div m + 1 <= x PROVE FALSE
    BY <1>1
  <1> DEFINE q == a \div m + 1
  <1>3. q \in Nat /\ a < q * m /\ q <= x
    BY <1>1, <1>2
  <1> HIDE DEF q
  <1>4. q * m <= x * m /\ q * m \in Nat /\ x * m \in Nat
    BY <1>3, ProductsRise
  <1> QED
    BY <1>3, <1>4

LEMMA QuotientBelow ==
  ASSUME NEW a \in Nat, NEW m \in Nat \ {0}, NEW x \in Nat, a < x * m
  PROVE  a \div m < x
  <1> DEFINE q == a \div m
  <1>1. q \in Nat /\ q * m <= a
    BY Quotient
  <1> HIDE DEF q
  <1>2. q < x
    <2>1. SUFFICES ASSUME x <= q PROVE FALSE
      BY <1>1
    <2>2. x * m <= q * m /\ x * m \in Nat /\ q * m \in Nat
      BY <1>1, <2>1, ProductsRise
    <2> QED
      BY <1>1, <2>2
  <1> QED
    BY <1>2 DEF q

\* A fraction that is over a limit stays over it when both are multiplied, the
\* numerator by no less than the denominator.
LEMMA FractionsGrow ==
  ASSUME NEW x \in Nat, NEW y \in Nat, NEW n \in Nat, NEW d \in Nat \ {0},
         d <= n, y < x
  PROVE  y * d < x * n
  <1>1. y * d < x * d
    BY ProductsRise
  <1>2. x * d <= x * n
    BY ProductsRise
  <1>3. y * d \in Nat /\ x * d \in Nat /\ x * n \in Nat
    OBVIOUS
  <1> QED
    BY <1>1, <1>2, <1>3

-----------------------------------------------------------------------------
(* Overflows and delays *)

LEMMA PolicyTyped ==
  ASSUME policy \in BackoffPolicy
  PROVE  /\ policy.strategy \in {"fixed", "exponential"}
         /\ policy.base \in Nat /\ policy.max \in Nat
         /\ policy.multiplier[1] \in Nat /\ policy.multiplier[2] \in Nat \ {0}
         /\ policy.multiplier[2] <= policy.multiplier[1]
         /\ FloatMax \in Nat
  <1>1. policy.multiplier \in Multipliers
    BY DEF BackoffPolicy
  <1>2. policy.base \in Bases /\ policy.max \in Caps /\ policy.strategy \in {"fixed", "exponential"}
    BY DEF BackoffPolicy
  <1> QED
    BY <1>1, <1>2, MultipliersAssumption, DelaysAssumption, LimitsAssumption

\* What overflows goes on to.
LEMMA OverflowsNext ==
  ASSUME policy \in BackoffPolicy, NEW e \in Nat, Overflows(e)
  PROVE  Overflows(e + 1)
  <1> DEFINE n == policy.multiplier[1]
             d == policy.multiplier[2]
             b == policy.base
             P == Power(n, e)
             L == FloatMax * Power(d, e)
  <1>1. n \in Nat /\ d \in Nat \ {0} /\ d <= n /\ b \in Nat /\ FloatMax \in Nat
    BY PolicyTyped
  <1>2. /\ policy.strategy = "exponential"
        /\ P > L \/ b * P > L
    BY DEF Overflows
  <1>3. Power(n, e) \in Nat /\ Power(d, e) \in Nat
    BY <1>1, PowerTyped
  <1>4. P \in Nat /\ b * P \in Nat /\ L \in Nat
    BY <1>1, <1>3
  <1>5. FloatMax * Power(d, e + 1) = L * d
    <2>1. Power(d, e + 1) = d * Power(d, e)
      BY <1>1, PowerSteps
    <2> QED
      BY <1>1, <1>3, <2>1
  <1>6. Power(n, e + 1) = P * n
    <2>1. Power(n, e + 1) = n * Power(n, e)
      BY <1>1, PowerSteps
    <2> QED
      BY <1>1, <1>3, <2>1
  <1>7. b * Power(n, e + 1) = (b * P) * n
    BY <1>1, <1>4, <1>6
  <1>8. L < P => L * d < P * n
    BY <1>1, <1>4, FractionsGrow
  <1>9. L < b * P => L * d < (b * P) * n
    BY <1>1, <1>4, FractionsGrow
  <1>10. Power(n, e + 1) > FloatMax * Power(d, e + 1)
           \/ b * Power(n, e + 1) > FloatMax * Power(d, e + 1)
    <2> HIDE DEF L, P, n, d, b
    <2>1. CASE L < P
      <3>1. L * d < P * n
        BY <1>8, <2>1
      <3> QED
        BY <1>1, <1>4, <1>5, <1>6, <3>1
    <2>2. CASE L < b * P
      <3>1. L * d < (b * P) * n
        BY <1>9, <2>2
      <3> QED
        BY <1>1, <1>4, <1>5, <1>7, <3>1
    <2> QED
      BY <1>2, <1>4, <2>1, <2>2
  <1> QED
    BY <1>2, <1>10 DEF Overflows

LEMMA OverflowsStay ==
  ASSUME policy \in BackoffPolicy, NEW e \in Nat, NEW f \in Nat, e <= f, Overflows(e)
  PROVE  Overflows(f)
  <1> DEFINE S == {k \in Nat : Overflows(e + k)}
  <1>1. 0 \in S
    <2>1. e + 0 = e
      OBVIOUS
    <2> QED
      BY <2>1
  <1>2. ASSUME NEW k \in Nat, k \in S PROVE k + 1 \in S
    <2>1. Overflows((e + k) + 1)
      BY <1>2, OverflowsNext
    <2>2. (e + k) + 1 = e + (k + 1)
      OBVIOUS
    <2> QED
      BY <2>1, <2>2
  <1> HIDE DEF S
  <1>3. f - e \in S
    BY <1>1, <1>2, NatInductionOnSets
  <1>4. e + (f - e) = f
    OBVIOUS
  <1> QED
    BY <1>3, <1>4 DEF S

LEMMA GrownTyped ==
  ASSUME policy \in BackoffPolicy, NEW e \in Nat
  PROVE  Grown(e) \in Nat
  <1>1. /\ policy.base \in Nat
        /\ Power(policy.multiplier[1], e) \in Nat
        /\ Power(policy.multiplier[2], e) \in Nat \ {0}
    BY PolicyTyped, PowerTyped
  <1>2. policy.base * Power(policy.multiplier[1], e) \in Nat
    BY <1>1
  <1> QED
    BY <1>1, <1>2, Quotient DEF Grown

LEMMA GrownFirst ==
  ASSUME policy \in BackoffPolicy
  PROVE  Grown(0) = policy.base
  <1>1. Power(policy.multiplier[1], 0) = 1 /\ Power(policy.multiplier[2], 0) = 1
    BY PolicyTyped, PowerSteps
  <1>2. policy.base \in Nat
    BY PolicyTyped
  <1> QED
    BY <1>1, <1>2 DEF Grown

\* Truncated products follow each other within one of the multiple.
LEMMA GrownSteps ==
  ASSUME policy \in BackoffPolicy, NEW e \in Nat
  PROVE  /\ Times(Grown(e)) <= Grown(e + 1)
         /\ Grown(e + 1) <= Times(Grown(e) + 1)
  <1> DEFINE n == policy.multiplier[1]
             d == policy.multiplier[2]
             A == policy.base * Power(n, e)
             M == Power(d, e)
             g == Grown(e)
  <1>1. n \in Nat /\ d \in Nat \ {0} /\ policy.base \in Nat
    BY PolicyTyped
  <1>2. Power(n, e) \in Nat /\ M \in Nat \ {0}
    BY <1>1, PowerTyped
  <1>3. A \in Nat /\ g = A \div M
    BY <1>1, <1>2 DEF Grown
  <1>4. g \in Nat /\ g * M <= A /\ A < (g + 1) * M
    BY <1>2, <1>3, Quotient
  <1>5. Grown(e + 1) = (A * n) \div (M * d)
    <2>1. Power(n, e + 1) = n * Power(n, e) /\ Power(d, e + 1) = d * Power(d, e)
      BY <1>1, PowerSteps
    <2>2. policy.base * (n * Power(n, e)) = A * n /\ d * Power(d, e) = M * d
      BY <1>1, <1>2
    <2> QED
      BY <2>1, <2>2 DEF Grown
  <1>6. Times(g) = (g * n) \div d /\ Times(g + 1) = ((g + 1) * n) \div d
    BY DEF Times
  <1> HIDE DEF n, d, A, M, g
  <1>7. A * n \in Nat /\ M * d \in Nat \ {0} /\ g * n \in Nat /\ (g + 1) * n \in Nat
    BY <1>1, <1>2, <1>3, <1>4
  <1>8. (g * n) \div d <= (A * n) \div (M * d)
    <2> DEFINE q == (g * n) \div d
    <2>1. q \in Nat /\ q * d <= g * n
      BY <1>1, <1>7, Quotient
    <2> HIDE DEF q
    <2>2. (q * d) * M <= (g * n) * M
      <3>1. q * d \in Nat /\ M \in Nat
        BY <1>1, <1>2, <2>1
      <3> QED
        BY <1>7, <2>1, <3>1, ProductsRise
    <2>3. (g * M) * n <= A * n
      BY <1>1, <1>2, <1>3, <1>4, ProductsRise
    <2>4. (q * d) * M = q * (M * d) /\ (g * n) * M = (g * M) * n
      BY <1>1, <1>2, <1>4, <2>1
    <2>5. q * (M * d) \in Nat /\ (g * M) * n \in Nat
      BY <1>1, <1>2, <1>4, <2>1
    <2>6. q * (M * d) <= A * n
      BY <1>7, <2>2, <2>3, <2>4, <2>5
    <2> QED
      BY <1>7, <2>1, <2>6, QuotientAtLeast DEF q
  <1>9. (A * n) \div (M * d) <= ((g + 1) * n) \div d
    <2> DEFINE q == (A * n) \div (M * d)
    <2>1. q \in Nat /\ q * (M * d) <= A * n
      BY <1>7, Quotient
    <2> HIDE DEF q
    <2>2. q * d <= (g + 1) * n
      <3>1. SUFFICES ASSUME (g + 1) * n < q * d PROVE FALSE
        BY <1>1, <1>7, <2>1
      <3>2. ((g + 1) * n) * M < (q * d) * M
        BY <1>1, <1>2, <1>7, <2>1, <3>1, ProductsRise
      <3>3. A * n <= ((g + 1) * M) * n
        BY <1>1, <1>2, <1>3, <1>4, ProductsRise
      <3>4. (q * d) * M = q * (M * d) /\ ((g + 1) * n) * M = ((g + 1) * M) * n
        BY <1>1, <1>2, <1>4, <2>1
      <3>5. q * (M * d) \in Nat /\ ((g + 1) * M) * n \in Nat
        BY <1>1, <1>2, <1>4, <2>1
      <3> QED
        BY <1>7, <2>1, <3>2, <3>3, <3>4, <3>5
    <2> QED
      BY <1>1, <1>7, <2>1, <2>2, QuotientAtLeast DEF q
  <1> QED
    BY <1>5, <1>6, <1>8, <1>9 DEF g

\* Multiples rise, and are no less than what is multiplied.
LEMMA TimesRises ==
  ASSUME policy \in BackoffPolicy, NEW x \in Nat, NEW y \in Nat, x <= y
  PROVE  Times(x) \in Nat /\ Times(x) <= Times(y) /\ x <= Times(x)
  <1> DEFINE n == policy.multiplier[1]
             d == policy.multiplier[2]
  <1>1. n \in Nat /\ d \in Nat \ {0} /\ d <= n
    BY PolicyTyped
  <1>2. Times(x) = (x * n) \div d /\ Times(y) = (y * n) \div d
    BY DEF Times
  <1> HIDE DEF n, d
  <1>3. x * n \in Nat /\ y * n \in Nat /\ x * n <= y * n
    BY <1>1, ProductsRise
  <1>4. Times(x) \in Nat /\ Times(x) * d <= x * n
    BY <1>1, <1>2, <1>3, Quotient
  <1>5. Times(x) <= Times(y)
    <2>1. Times(x) * d <= y * n
      BY <1>1, <1>3, <1>4
    <2> QED
      BY <1>1, <1>2, <1>3, <1>4, <2>1, QuotientAtLeast
  <1>6. x <= Times(x)
    <2>1. x * d <= x * n
      BY <1>1, ProductsRise
    <2> QED
      BY <1>1, <1>2, <1>3, <2>1, QuotientAtLeast
  <1> QED
    BY <1>4, <1>5, <1>6

\* The cap does not come between a delay and the next.
LEMMA DelayFollows ==
  ASSUME policy \in BackoffPolicy, NEW e \in Nat
  PROVE  LET delayed == Capped(Grown(e))
         IN  Capped(Grown(e + 1)) \in Capped(Times(delayed)) .. Capped(Times(delayed + 1))
  <1> DEFINE g == Grown(e)
             h == Grown(e + 1)
             m == policy.max
             c == Capped(g)
  <1>1. m \in Nat /\ g \in Nat /\ h \in Nat
    BY PolicyTyped, GrownTyped
  <1>2. Times(g) <= h /\ h <= Times(g + 1)
    BY GrownSteps
  <1>3. c \in Nat /\ c <= g /\ c <= m /\ (c = g \/ c = m)
    BY <1>1 DEF Capped
  <1> HIDE DEF g, h, c
  <1>4. Times(c) \in Nat /\ Times(c) <= Times(g) /\ Times(g) \in Nat /\ Times(g + 1) \in Nat
    BY <1>1, <1>3, TimesRises
  <1>5. Times(c + 1) \in Nat /\ c + 1 <= Times(c + 1)
    BY <1>3, TimesRises
  <1>6. Capped(Times(c)) <= Capped(h)
    BY <1>1, <1>2, <1>4 DEF Capped
  <1>7. Capped(h) <= Capped(Times(c + 1))
    BY <1>1, <1>2, <1>3, <1>4, <1>5 DEF Capped
  <1>8. Capped(h) \in Int /\ Capped(Times(c)) \in Int /\ Capped(Times(c + 1)) \in Int
    BY <1>1, <1>4, <1>5 DEF Capped
  <1> QED
    BY <1>6, <1>7, <1>8 DEF c, g, h

-----------------------------------------------------------------------------
(* Delays do not shrink *)

LEMMA GrownRises ==
  ASSUME policy \in BackoffPolicy, NEW e \in Nat, NEW f \in Nat, e <= f
  PROVE  Grown(e) <= Grown(f)
  <1> DEFINE S == {k \in Nat : Grown(e) <= Grown(e + k)}
  <1>1. 0 \in S
    <2>1. e + 0 = e /\ Grown(e) \in Nat
      BY GrownTyped
    <2> QED
      BY <2>1
  <1>2. ASSUME NEW k \in Nat, k \in S PROVE k + 1 \in S
    <2>1. Grown(e) \in Nat /\ Grown(e + k) \in Nat /\ Grown((e + k) + 1) \in Nat
      BY GrownTyped
    <2>2. Grown(e + k) <= Times(Grown(e + k)) /\ Times(Grown(e + k)) \in Nat
      BY <2>1, TimesRises
    <2>3. Times(Grown(e + k)) <= Grown((e + k) + 1)
      BY GrownSteps
    <2>4. Grown(e) <= Grown(e + k)
      BY <1>2
    <2>5. Grown(e) <= Grown((e + k) + 1)
      BY <2>1, <2>2, <2>3, <2>4
    <2>6. (e + k) + 1 = e + (k + 1)
      OBVIOUS
    <2> QED
      BY <2>5, <2>6
  <1> HIDE DEF S
  <1>3. f - e \in S
    BY <1>1, <1>2, NatInductionOnSets
  <1>4. e + (f - e) = f
    OBVIOUS
  <1> QED
    BY <1>3, <1>4 DEF S

LEMMA DelaysRise ==
  ASSUME policy \in BackoffPolicy, NEW m \in Nat, NEW n \in Nat, 0 < m, m <= n
  PROVE  /\ DelayForAttempt(m) \in Nat /\ DelayForAttempt(n) \in Nat
         /\ DelayForAttempt(m) <= DelayForAttempt(n)
  <1>1. m - 1 \in Nat /\ n - 1 \in Nat /\ m - 1 <= n - 1
    OBVIOUS
  <1>2. Exponent(m) = m - 1 /\ Exponent(n) = n - 1
    BY DEF Exponent
  <1>3. policy.base \in Nat /\ policy.max \in Nat
    BY PolicyTyped
  <1>4. /\ Grown(m - 1) \in Nat /\ Grown(n - 1) \in Nat
        /\ Grown(m - 1) <= Grown(n - 1)
    BY <1>1, GrownTyped, GrownRises
  <1>5. /\ Capped(Grown(m - 1)) \in Nat /\ Capped(Grown(n - 1)) \in Nat
        /\ Capped(Grown(m - 1)) <= Capped(Grown(n - 1))
    BY <1>3, <1>4 DEF Capped
  <1> QED
    BY <1>2, <1>3, <1>5 DEF DelayForAttempt

-----------------------------------------------------------------------------
(* The invariant *)

LEMMA InitBackoff == Init => BackoffInv
  BY LimitsAssumption DEF Init, BackoffInv, OverflowIsForeseeable

\* The calendar never runs below 0: a retry waits for no more than is left.
LEMMA CalendarTyped ==
  ASSUME BackoffInv, TimePasses, attempts \in Nat, outcome = "retrying"
  PROVE  calendar' \in Nat
  BY DEF BackoffInv, TimePasses

LEMMA StepBackoff ==
  ASSUME BackoffInv, [Next]_vars
  PROVE  BackoffInv'
  <1>1. /\ policy \in BackoffPolicy /\ maxRetries \in Nat /\ attempts \in Nat
        /\ maxRetries \in 0 .. MaxRetries /\ calendar \in Nat
    BY LimitsAssumption DEF BackoffInv
  <1>2. CASE UNCHANGED vars
    BY <1>2 DEF vars, BackoffInv, OverflowIsForeseeable, LastRetryRaises, Overflows,
                DelayForAttempt, Capped, Grown
  <1>3. ASSUME policy' = policy, NEW e
        PROVE  (Overflows(e)' <=> Overflows(e)) /\ DelayForAttempt(e)' = DelayForAttempt(e)
    BY <1>3 DEF Overflows, DelayForAttempt, Capped, Grown
  <1>4. CASE FailFinally
    <2>1. /\ policy' = policy /\ maxRetries' = maxRetries /\ attempts' = attempts + 1
          /\ outcome = "retrying" /\ outcome' = "dead_letter" /\ calendar' = calendar
          /\ attempts + 1 >= maxRetries
      BY <1>4 DEF FailFinally, Fail
    <2>2. maxRetries >= 2 => ~ LastRetryRaises
      <3> SUFFICES ASSUME maxRetries >= 2 PROVE ~ LastRetryRaises
        OBVIOUS
      <3>1. attempts > 0
        BY <1>1, <2>1
      <3>2. /\ attempts < maxRetries /\ ~ Overflows(attempts - 1)
            /\ DelayForAttempt(attempts) <= calendar
        BY <2>1, <3>1 DEF BackoffInv
      <3>3. attempts - 1 = maxRetries - 2 /\ attempts = maxRetries - 1
        BY <1>1, <2>1, <3>2
      <3>4. DelayForAttempt(attempts) \in Nat
        BY <1>1, <3>1, DelaysRise
      <3> QED
        BY <1>1, <3>2, <3>3, <3>4 DEF LastRetryRaises
    <2>3. OverflowIsForeseeable'
      BY <1>3, <2>1, <2>2 DEF OverflowIsForeseeable, LastRetryRaises
    <2> QED
      BY <1>1, <2>1, <2>3 DEF BackoffInv
  <1>5. CASE FailAndRetry
    <2>1. /\ policy' = policy /\ maxRetries' = maxRetries /\ attempts' = attempts + 1
          /\ outcome = "retrying" /\ outcome' = "retrying"
          /\ attempts + 1 < maxRetries
          /\ delay' = DelayForAttempt(attempts + 1)
      BY <1>5 DEF FailAndRetry, Fail
    <2>2. ~ Overflows(attempts) /\ ~ (DelayForAttempt(attempts + 1) > calendar')
      <3>1. Exponent(attempts + 1) = attempts
        BY <1>1 DEF Exponent
      <3> QED
        BY <1>5, <3>1 DEF FailAndRetry, RetryRaises
    <2>3. (~ Overflows(attempts - 1))'
      <3>1. attempts' - 1 = attempts
        BY <1>1, <2>1
      <3> QED
        BY <2>1, <2>2, <3>1 DEF Overflows
    <2>4. delay' = DelayForAttempt(attempts)'
      BY <2>1 DEF DelayForAttempt, Capped, Grown
    <2>5. calendar' \in Nat /\ delay' <= calendar'
      <3>1. calendar' \in Nat
        BY <1>1, <1>5, <2>1, CalendarTyped DEF FailAndRetry
      <3>2. DelayForAttempt(attempts + 1) \in Nat
        BY <1>1, DelaysRise
      <3> QED
        BY <2>1, <2>2, <3>1, <3>2
    <2>6. OverflowIsForeseeable'
      BY <2>1 DEF OverflowIsForeseeable
    <2> QED
      BY <1>1, <2>1, <2>3, <2>4, <2>5, <2>6 DEF BackoffInv
  <1>6. CASE FailAndRaise
    <2>1. /\ UNCHANGED <<policy, maxRetries, attempts>>
          /\ outcome = "retrying" /\ outcome' = "raised"
          /\ attempts + 1 < maxRetries
      BY <1>6 DEF FailAndRaise, Fail
    <2>2. Overflows(attempts) \/ DelayForAttempt(attempts + 1) > calendar'
      <3>1. Exponent(attempts + 1) = attempts
        BY <1>1 DEF Exponent
      <3> QED
        BY <1>6, <3>1 DEF FailAndRaise, RetryRaises
    <2>3. /\ maxRetries - 2 \in Nat /\ attempts <= maxRetries - 2
          /\ maxRetries - 1 \in Nat /\ attempts + 1 <= maxRetries - 1
      BY <1>1, <2>1
    <2>4. calendar' \in Nat
      BY <1>1, <1>6, <2>1, CalendarTyped DEF FailAndRaise
    <2>5. Overflows(maxRetries - 2) \/ DelayForAttempt(maxRetries - 1) > calendar'
      <3>1. CASE Overflows(attempts)
        BY <1>1, <2>3, <3>1, OverflowsStay
      <3>2. CASE DelayForAttempt(attempts + 1) > calendar'
        <4>1. /\ DelayForAttempt(attempts + 1) \in Nat /\ DelayForAttempt(maxRetries - 1) \in Nat
              /\ DelayForAttempt(attempts + 1) <= DelayForAttempt(maxRetries - 1)
          BY <1>1, <2>3, DelaysRise
        <4> QED
          BY <2>4, <3>2, <4>1
      <3> QED
        BY <2>2, <3>1, <3>2
    <2>6. OverflowIsForeseeable'
      BY <1>3, <2>1, <2>5 DEF OverflowIsForeseeable, LastRetryRaises
    <2> QED
      BY <1>1, <2>1, <2>4, <2>6 DEF BackoffInv
  <1> QED
    BY <1>2, <1>4, <1>5, <1>6 DEF Next

-----------------------------------------------------------------------------
(* Theorems *)

\* A task that retries waits for the delay that delay_for_attempt gives for its
\* last failure, for every policy and budget.
THEOREM BackoffInvariant == Spec => []BackoffInv
  <1>1. BackoffInv /\ [Next]_vars => BackoffInv'
    BY StepBackoff
  <1> QED
    BY <1>1, InitBackoff, PTL DEF Spec

\* A failure of a task raises OverflowError only when its last retry would raise
\* it then, and the last retry of a dead letter has not, whatever the policy, the
\* budget, the largest float and the calendar.
THEOREM OverflowForeseeable == Spec => []OverflowIsForeseeable
  <1>1. BackoffInv => OverflowIsForeseeable
    BY DEF BackoffInv
  <1> QED
    BY <1>1, BackoffInvariant, PTL

\* Under the exponential strategy each delay is the multiple of the one before
\* it, within the second that int() cuts off, up to the cap.
THEOREM DelaysFollow == Spec => DelaysFollowThePolicy
  <1>1. ASSUME BackoffInv
        PROVE  FailAndRetry /\ policy.strategy = "exponential" =>
                 IF delay = -1
                   THEN delay' = Capped(policy.base)
                   ELSE delay' \in Capped(Times(delay)) .. Capped(Times(delay + 1))
    <2> SUFFICES ASSUME FailAndRetry, policy.strategy = "exponential"
                 PROVE  IF delay = -1
                          THEN delay' = Capped(policy.base)
                          ELSE delay' \in Capped(Times(delay)) .. Capped(Times(delay + 1))
      OBVIOUS
    <2>1. policy \in BackoffPolicy /\ attempts \in Nat /\ outcome = "retrying"
      BY <1>1 DEF BackoffInv, FailAndRetry, Fail
    <2>2. delay' = Capped(Grown(attempts))
      BY <2>1 DEF FailAndRetry, DelayForAttempt, Exponent
    <2>3. CASE attempts = 0
      BY <1>1, <2>1, <2>2, <2>3, GrownFirst DEF BackoffInv
    <2>4. CASE attempts > 0
      <3>1. attempts - 1 \in Nat /\ (attempts - 1) + 1 = attempts
        BY <2>1, <2>4
      <3>2. delay = Capped(Grown(attempts - 1))
        BY <1>1, <2>1, <2>4 DEF BackoffInv, DelayForAttempt, Exponent
      <3>3. delay # -1
        BY <2>1, <3>1, <3>2, GrownTyped, PolicyTyped DEF Capped
      <3>4. delay' \in Capped(Times(delay)) .. Capped(Times(delay + 1))
        BY <2>1, <2>2, <3>1, <3>2, DelayFollows
      <3> QED
        BY <3>3, <3>4
    <2> QED
      BY <2>1, <2>3, <2>4
  <1>2. BackoffInv => [FailAndRetry /\ policy.strategy = "exponential" =>
                 IF delay = -1
                   THEN delay' = Capped(policy.base)
                   ELSE delay' \in Capped(Times(delay)) .. Capped(Times(delay + 1))]_vars
    BY <1>1
  <1> QED
    BY <1>2, BackoffInvariant, PTL DEF DelaysFollowThePolicy
=============================================================================
