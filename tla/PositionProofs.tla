--------------------------- MODULE PositionProofs ---------------------------
(***************************************************************************)
(* Proofs about a position, for every set of fills and funding payments:   *)
(* its side, quantity, peak, entry and close time agree with its signed    *)
(* quantity; what it holds is what was bought less what was sold, with the *)
(* adjustments logged; and purging an order takes exactly the order's      *)
(* fills out of it; the realized profit is what is held at its average     *)
(* price and the cash that was paid and received; and the average close    *)
(* price is that of the closings.                                          *)
(*                                                                         *)
(* The invariant says of the position's own log what the purge relies on   *)
(* when it replays it: the signed quantity is the sum of the fills logged, *)
(* less their commission in the base currency, although the log is cleared *)
(* whenever the position is reopened.                                      *)
(*                                                                         *)
(* The prices and profits are exact fractions in lowest terms.  What the   *)
(* proofs need of them comes first: Fraction returns the only reduced      *)
(* fraction of its worth, so fractions can be compared by what they are    *)
(* worth.                                                                  *)
(***************************************************************************)
EXTENDS PositionPurge, CoreLemmas

\* A step that names no prover is Zenon's.
USE Zenon

\* A sum over a sequence grows by the value at the index added.
LEMMA SumUpto ==
    ASSUME NEW n \in Nat, NEW w, NEW v, \A i \in 1 .. n + 1 : v[i] \in Int,
           \A i \in 1 .. n : w[i] = v[i]
    PROVE  /\ SumFunctionOnSet(w, 1 .. n) \in Int
           /\ SumFunctionOnSet(v, 1 .. n + 1) = SumFunctionOnSet(w, 1 .. n) + v[n + 1]
<1> DEFINE S == 1 .. n
           R == 1 .. n + 1
<1>1. IsFiniteSet(S) /\ IsFiniteSet(R)
  BY FS_Interval, SMT
<1>2. n + 1 \in R /\ R \ {n + 1} = S
  BY SMT
<1>3. \A i \in S : w[i] \in Int /\ w[i] = v[i]
  BY SMT
<1>4. \A i \in R : v[i] \in Int
  OBVIOUS
<1> HIDE DEF S, R
<1>5. SumFunctionOnSet(w, S) \in Int
  BY <1>1, <1>3, SumType
<1>6. SumFunctionOnSet(w, S) = SumFunctionOnSet(v, S)
  BY <1>1, <1>3, SumSame
<1>7. SumFunctionOnSet(v, R) = v[n + 1] + SumFunctionOnSet(v, R \ {n + 1})
  BY <1>1, <1>2, <1>4, SumWithout
<1>8. v[n + 1] \in Int
  BY <1>2, <1>4
<1>9. SumFunctionOnSet(v, R) = SumFunctionOnSet(w, S) + v[n + 1]
  BY <1>2, <1>5, <1>6, <1>7, <1>8, SMT
<1> QED BY <1>5, <1>9 DEF S, R

\* What Position::apply writes into the log of the cycle, which is a new one if the
\* position was flat.
LEMMA ApplyFillLogs ==
    ASSUME NEW p, Shape(p), NEW fill
    PROVE  LET r == ApplyFill(p, fill)
               c == IF p.side = "Flat" THEN Reopened(p, fill) ELSE p
           IN /\ r.events = Append(c.events, fill)
              /\ r.adjustments = IF fill.currency = "Base"
                                 THEN Append(c.adjustments, CommissionAdjustment(fill))
                                 ELSE c.adjustments
              /\ r.buy_qty = IF fill.order_side = "Buy" THEN c.buy_qty + fill.last_qty
                             ELSE c.buy_qty
              /\ r.sell_qty = IF fill.order_side = "Sell" THEN c.sell_qty + fill.last_qty
                              ELSE c.sell_qty
              /\ p.side = "Flat" =>
                    /\ c.events = << >> /\ c.adjustments = << >>
                    /\ c.buy_qty = 0 /\ c.sell_qty = 0
<1> DEFINE c == IF p.side = "Flat" THEN Reopened(p, fill) ELSE p
           l == Logged(c, fill)
           t == handle_fill(l, fill)
           h == IF fill.currency = "Base"
                THEN apply_adjustment(t, CommissionAdjustment(fill)) ELSE t
           r == Settled(h, fill)
<1>1. ApplyFill(p, fill) = r
  BY DEF ApplyFill
<1>2. /\ DOMAIN c = PositionFields
      /\ p.side = "Flat" => /\ c.events = << >> /\ c.adjustments = << >>
                            /\ c.buy_qty = 0 /\ c.sell_qty = 0
  BY DEF Reopened, Shape, PositionFields
<1> HIDE DEF c
<1>3. /\ DOMAIN l = PositionFields
      /\ l.events = Append(c.events, fill)
      /\ \A f \in {"adjustments", "buy_qty", "sell_qty"} : l[f] = c[f]
  BY <1>2 DEF Logged, PositionFields
<1> HIDE DEF l
<1>4. /\ DOMAIN t = PositionFields
      /\ \A f \in {"events", "adjustments"} : t[f] = l[f]
      /\ t.buy_qty = IF fill.order_side = "Buy" THEN l.buy_qty + fill.last_qty ELSE l.buy_qty
      /\ t.sell_qty = IF fill.order_side = "Sell" THEN l.sell_qty + fill.last_qty
                      ELSE l.sell_qty
  BY <1>3 DEF handle_fill, PositionFields
<1> HIDE DEF t
<1>5. /\ DOMAIN h = PositionFields
      /\ \A f \in {"events", "buy_qty", "sell_qty"} : h[f] = t[f]
      /\ h.adjustments = IF fill.currency = "Base"
                         THEN Append(t.adjustments, CommissionAdjustment(fill))
                         ELSE t.adjustments
  BY <1>4 DEF apply_adjustment, PositionFields
<1> HIDE DEF h
<1>6. \A f \in {"events", "adjustments", "buy_qty", "sell_qty"} : r[f] = h[f]
  BY <1>5 DEF Settled, PositionFields
<1> HIDE DEF r
<1> QED BY <1>1, <1>2, <1>3, <1>4, <1>5, <1>6 DEF c

-----------------------------------------------------------------------------
\* A fraction, and the integer n that d times the fraction is.
IsFraction(x) == x \in Int \X (Nat \ {0})
Worth(x, d, n) == x[1] * d = n * x[2]

\* What % and \div say of each other.
LEMMA Division ==
    ASSUME NEW n \in Int, NEW k \in Nat \ {0}
    PROVE  /\ n \div k \in Int /\ n % k \in Nat /\ n % k < k
           /\ n = k * (n \div k) + (n % k)
BY SMT

\* A number that divides without a remainder.
LEMMA Divides ==
    ASSUME NEW n \in Int, NEW k \in Nat \ {0}, NEW q \in Int, n = k * q
    PROVE  n % k = 0 /\ n \div k = q
BY SMT

\* The laws of multiplication, one at a time.
LEMMA Product ==
    /\ \A a, b \in Int : a * b \in Int /\ a * b = b * a
    /\ \A a, b, c \in Int : (a * b) * c = a * (b * c)
    /\ \A a, b, c \in Int : a * (b + c) = a * b + a * c /\ a * (b - c) = a * b - a * c
    /\ \A a, b, c \in Int : a # 0 /\ a * b = a * c => b = c
    /\ \A a, b \in Nat \ {0} : a * b \in Nat \ {0}
    /\ \A a, b, c, d \in Nat \ {0} : a <= b /\ c < d => a * c < b * d
<1>1. \A a, b, c \in Int : a # 0 /\ a * b = a * c => b = c
  BY SMT
<1>2. \A a, b, c \in Int : (a * b) * c = a * (b * c)
  BY SMT
<1>3. \A a, b, c \in Int : a * (b + c) = a * b + a * c /\ a * (b - c) = a * b - a * c
  BY SMT
<1>4. \A a, b \in Nat \ {0} : a * b \in Nat \ {0}
  BY SMT
<1>5. \A a, b, c, d \in Nat \ {0} : a <= b /\ c < d => a * c < b * d
  BY SMT
<1>6. \A a, b \in Int : a * b \in Int /\ a * b = b * a
  BY SMT
<1> QED BY <1>1, <1>2, <1>3, <1>4, <1>5, <1>6

\* The terms by which d times a fraction n over d can be an integer: n * y over d is x.
Terms(n, d) == {y \in Nat \ {0} : \E x \in Int : x * d = n * y}

\* The denominator of the reduced fraction is the least possible.
LEMMA LeastTerm ==
    ASSUME NEW n \in Int, NEW d \in Nat \ {0}
    PROVE  \E x \in Int, m \in Nat \ {0}, q \in Nat \ {0} :
              /\ x * d = n * m /\ d = q * m /\ n = q * x
              /\ \A y \in Terms(n, d) : m <= y
<1>1. d \in Terms(n, d) /\ Terms(n, d) \subseteq Nat
  BY DEF Terms
<1>2. PICK m \in Terms(n, d) : \A y \in Terms(n, d) : m <= y
  BY <1>1, LeastElement
<1>3. m \in Nat \ {0}
  BY DEF Terms
<1>4. PICK x \in Int : x * d = n * m
  BY DEF Terms
<1> DEFINE q == d \div m
           r == d % m
<1>5. q \in Int /\ r \in Nat /\ r < m /\ d = m * q + r
  BY <1>3, Division, SMT
<1> HIDE DEF q, r
<1>6. r = 0
  <2> SUFFICES ASSUME r # 0 PROVE FALSE
    OBVIOUS
  <2>1. n * d = n * (m * q) + n * r
    BY <1>3, <1>5, Product, SMT
  <2>2. n * (m * q) = (x * d) * q /\ (x * d) * q = (x * q) * d
    BY <1>3, <1>4, <1>5, Product, SMT
  <2>3. n * r = (n - x * q) * d
    <3>1. (n - x * q) * d = n * d - (x * q) * d
      BY <1>5, Product, SMT
    <3> QED BY <1>5, <2>1, <2>2, <3>1, SMT
  <2>4. n - x * q \in Int /\ r \in Nat \ {0}
    BY <1>5, SMT
  <2>5. r \in Terms(n, d)
    BY <2>3, <2>4 DEF Terms
  <2> QED BY <1>2, <1>3, <1>5, <2>5, SMT
<1>7. d = q * m /\ q \in Nat \ {0}
  BY <1>3, <1>5, <1>6, SMT
<1>8. n = q * x
  <2>1. m * n = x * (q * m) /\ x * (q * m) = m * (q * x)
    BY <1>3, <1>4, <1>7, Product, SMT
  <2>2. q * x \in Int
    BY <1>7, SMT
  <2> QED BY <1>3, <2>1, <2>2, Product, SMT
<1> QED BY <1>2, <1>3, <1>4, <1>7, <1>8

\* Fraction(n, d) is n over d, with the least denominator.
LEMMA FractionIs ==
    ASSUME NEW n \in Int, NEW d \in Nat \ {0}
    PROVE  LET f == Fraction(n, d)
           IN /\ IsFraction(f) /\ f = <<f[1], f[2]>>
              /\ Worth(f, d, n)
              /\ f[2] \in Terms(n, d)
              /\ \A y \in Terms(n, d) : f[2] <= y
<1> DEFINE Greatest(k) == /\ n % k = 0 /\ d % k = 0
                          /\ \A j \in (k + 1) .. d : n % j # 0 \/ d % j # 0
           g == CHOOSE k \in 1 .. d : Greatest(k)
           K == {d - k : k \in {j \in 1 .. d : n % j = 0 /\ d % j = 0}}
<1>1. \E k \in 1 .. d : Greatest(k)
  <2>1. K \in SUBSET Nat
    BY SMT
  <2>2. n % 1 = 0 /\ d % 1 = 0
    BY Divides, SMT
  <2>3. d - 1 \in K
    BY <2>2, SMT
  <2>4. PICK a \in K : \A b \in K : a <= b
    BY <2>1, <2>3, LeastElement
  <2>5. PICK k \in 1 .. d : n % k = 0 /\ d % k = 0 /\ a = d - k
    OBVIOUS
  <2>6. ASSUME NEW j \in (k + 1) .. d, n % j = 0, d % j = 0
        PROVE  FALSE
    <3>1. j \in 1 .. d
      BY <2>5, SMT
    <3>2. d - j \in K
      BY <2>6, <3>1
    <3>3. a <= d - j
      BY <2>4, <3>2
    <3> HIDE DEF K
    <3> QED BY <2>5, <3>3, SMT
  <2> QED BY <2>5, <2>6
<1>2. g \in 1 .. d /\ Greatest(g)
  BY <1>1
<1> DEFINE f1 == n \div g
           f2 == d \div g
<1>3. Fraction(n, d) = <<f1, f2>>
  BY DEF Fraction
<1> HIDE DEF g, K
<1>4. g \in Nat \ {0}
  BY <1>2, SMT
<1>5. /\ n = g * f1 /\ f1 \in Int
      /\ d = g * f2 /\ f2 \in Int
  <2>1. n = g * f1 + (n % g) /\ f1 \in Int
    BY <1>4, Division
  <2>2. d = g * f2 + (d % g) /\ f2 \in Int
    BY <1>4, Division, SMT
  <2> HIDE DEF f1, f2
  <2>3. g * f1 \in Int /\ g * f2 \in Int
    BY <1>4, <2>1, <2>2, Product, SMT
  <2> QED BY <1>2, <2>1, <2>2, <2>3, SMT
<1> HIDE DEF f1, f2
<1>6. f2 \in Nat \ {0}
  BY <1>4, <1>5, SMT
<1>7. f1 * d = n * f2
  <2>1. f1 * (g * f2) = (g * f1) * f2
    BY <1>4, <1>5, Product, SMT
  <2> QED BY <1>5, <2>1
<1>8. f2 \in Terms(n, d)
  BY <1>5, <1>6, <1>7 DEF Terms
<1>9. PICK x \in Int, m \in Nat \ {0}, q \in Nat \ {0} :
              /\ x * d = n * m /\ d = q * m /\ n = q * x
              /\ \A y \in Terms(n, d) : m <= y
  BY LeastTerm
<1>10. q <= g
  <2>1. n % q = 0 /\ d % q = 0
    BY <1>9, Divides, SMT
  <2>2. q \in 1 .. d
    <3>1. q * m >= q
      BY SMT
    <3> QED BY <1>9, <3>1, SMT
  <2>3. q \notin (g + 1) .. d
    BY <1>2, <2>1
  <2> QED BY <1>4, <2>2, <2>3, SMT
<1>11. f2 <= m
  <2> SUFFICES ASSUME m < f2 PROVE FALSE
    BY <1>6, SMT
  <2>1. q * m < g * f2
    BY <1>4, <1>6, <1>10, Product
  <2>2. q * m = g * f2
    BY <1>5, <1>9
  <2>3. q * m \in Int
    BY Product, SMT
  <2> QED BY <2>1, <2>2, <2>3, SMT
<1>12. \A y \in Terms(n, d) : f2 <= y
  <2>1. \A y \in Terms(n, d) : y \in Nat
    BY DEF Terms
  <2> QED BY <1>6, <1>9, <1>11, <2>1, SMT
<1> QED BY <1>3, <1>5, <1>6, <1>7, <1>8, <1>12, SMT DEF IsFraction, Worth

\* What is equal to the same fraction has the same terms.
LEMMA SameTerms ==
    ASSUME NEW n \in Int, NEW d \in Nat \ {0}, NEW x, IsFraction(x), Worth(x, d, n),
           NEW e \in Nat \ {0}, NEW m \in Int, Worth(x, e, m)
    PROVE  n * e = m * d
<1> DEFINE a == x[1]
           b == x[2]
<1>1. a \in Int /\ b \in Nat \ {0}
  BY DEF IsFraction
<1>2. a * d = n * b /\ a * e = m * b
  BY DEF Worth
<1> HIDE DEF a, b
<1>3. b * (n * e) = (a * d) * e /\ b * (m * d) = (a * e) * d
  BY <1>1, <1>2, Product, SMT
<1>4. (a * d) * e = (a * e) * d
  BY <1>1, Product, SMT
<1>5. n * e \in Int /\ m * d \in Int
  BY Product, SMT
<1> QED BY <1>1, <1>3, <1>4, <1>5, Product, SMT

\* Two reduced fractions of the same worth are the same.
LEMMA SameFraction ==
    ASSUME NEW n \in Int, NEW d \in Nat \ {0}, NEW m \in Int, NEW e \in Nat \ {0},
           n * e = m * d
    PROVE  Fraction(n, d) = Fraction(m, e)
<1>1. ASSUME NEW a \in Int, NEW b \in Nat \ {0}, NEW u \in Int, NEW v \in Nat \ {0}, a * v = u * b,
             NEW y \in Terms(a, b)
      PROVE  y \in Terms(u, v)
  <2>1. y \in Nat \ {0}
    BY DEF Terms
  <2>2. PICK x \in Int : x * b = a * y
    BY DEF Terms
  <2>3. b * (x * v) = (x * b) * v /\ (a * y) * v = (a * v) * y /\ (u * b) * y = b * (u * y)
    BY <2>1, Product, SMT
  <2>4. b * (x * v) = b * (u * y)
    BY <1>1, <2>2, <2>3
  <2>5. x * v = u * y
    <3>1. x * v \in Int /\ u * y \in Int
      BY <2>1, Product, SMT
    <3> QED BY <2>4, <3>1, Product, SMT
  <2> QED BY <2>1, <2>5 DEF Terms
<1> DEFINE f == Fraction(n, d)
           h == Fraction(m, e)
<1>2. /\ IsFraction(f) /\ f = <<f[1], f[2]>> /\ Worth(f, d, n)
      /\ f[2] \in Terms(n, d) /\ \A y \in Terms(n, d) : f[2] <= y
  BY FractionIs
<1>3. /\ IsFraction(h) /\ h = <<h[1], h[2]>> /\ Worth(h, e, m)
      /\ h[2] \in Terms(m, e) /\ \A y \in Terms(m, e) : h[2] <= y
  BY FractionIs
<1> HIDE DEF f, h
<1>4. m * d = n * e
  OBVIOUS
<1>5. h[2] \in Terms(n, d) /\ f[2] \in Terms(m, e)
  BY <1>1, <1>2, <1>3, <1>4, SMT
<1>6. f[2] \in Nat \ {0} /\ h[2] \in Nat \ {0} /\ f[1] \in Int /\ h[1] \in Int
  BY <1>2, <1>3 DEF IsFraction
<1>7. f[2] = h[2]
  <2>1. f[2] <= h[2] /\ h[2] <= f[2]
    BY <1>2, <1>3, <1>5
  <2> QED BY <1>6, <2>1, SMT
<1>8. f[1] = h[1]
  <2> DEFINE a == f[1]
             b == h[1]
             c == f[2]
  <2>1. a * d = n * c /\ b * e = m * c
    BY <1>2, <1>3, <1>7 DEF Worth
  <2>2. a \in Int /\ b \in Int /\ c \in Nat \ {0}
    BY <1>6
  <2> HIDE DEF a, b, c
  <2>3. (d * e) * a = (a * d) * e /\ (n * c) * e = (n * e) * c
    BY <2>2, Product, SMT
  <2>4. (d * e) * b = (b * e) * d /\ (m * c) * d = (m * d) * c
    BY <2>2, Product, SMT
  <2>5. (d * e) * a = (d * e) * b
    BY <2>1, <2>3, <2>4, <1>4
  <2>6. d * e \in Nat \ {0}
    BY Product
  <2>7. a = b
    BY <2>2, <2>5, <2>6, Product, SMT
  <2> QED BY <2>7 DEF a, b
<1> QED BY <1>2, <1>3, <1>7, <1>8 DEF f, h

\* Worth with other terms.
LEMMA WorthScaled ==
    ASSUME NEW x, IsFraction(x), NEW d \in Nat \ {0}, NEW n \in Int, NEW k \in Nat \ {0}
    PROVE  Worth(x, k * d, k * n) <=> Worth(x, d, n)
<1> DEFINE a == x[1]
           b == x[2]
<1>1. a \in Int /\ b \in Nat \ {0}
  BY DEF IsFraction
<1> HIDE DEF a, b
<1>2. a * (k * d) = k * (a * d) /\ (k * n) * b = k * (n * b)
  BY <1>1, Product, SMT
<1>3. a * d \in Int /\ n * b \in Int
  BY <1>1, Product, SMT
<1>4. a * (k * d) = (k * n) * b <=> a * d = n * b
  BY <1>2, <1>3, Product, SMT
<1> QED BY <1>4 DEF Worth, a, b

\* The sum of two fractions, the multiple of one, and an integer as a fraction.
LEMMA WorthOfPlus ==
    ASSUME NEW x, IsFraction(x), NEW y, IsFraction(y), NEW d \in Nat \ {0},
           NEW n \in Int, NEW m \in Int, Worth(x, d, n), Worth(y, d, m)
    PROVE  IsFraction(Plus(x, y)) /\ Worth(Plus(x, y), d, n + m)
<1> DEFINE a == x[1]
           b == x[2]
           u == y[1]
           v == y[2]
           p == a * v + u * b
           q == b * v
           z == Fraction(p, q)
<1>1. a \in Int /\ b \in Nat \ {0} /\ u \in Int /\ v \in Nat \ {0}
  BY DEF IsFraction
<1>2. a * d = n * b /\ u * d = m * v
  BY DEF Worth
<1>3. Plus(x, y) = z
  BY DEF Plus
<1> HIDE DEF a, b, u, v
<1>4. p \in Int /\ q \in Nat \ {0}
  <2>1. a * v \in Int /\ u * b \in Int
    BY <1>1, Product, SMT
  <2> QED BY <1>1, <2>1, Product, SMT
<1>5. p * d = (n + m) * q
  <2>1. p * d = (a * v) * d + (u * b) * d
    BY <1>1, Product, SMT
  <2>2. (a * v) * d = (a * d) * v /\ (u * b) * d = (u * d) * b
    BY <1>1, Product, SMT
  <2>3. (n * b) * v = n * q /\ (m * v) * b = m * q
    BY <1>1, Product, SMT
  <2>4. (n + m) * q = n * q + m * q
    BY <1>4, Product, SMT
  <2> QED BY <1>2, <2>1, <2>2, <2>3, <2>4
<1> HIDE DEF p, q, z
<1>6. IsFraction(z) /\ Worth(z, q, p)
  BY <1>4, FractionIs DEF z
<1>7. Worth(z, d, n + m)
  <2> DEFINE r == z[1]
             s == z[2]
  <2>1. r \in Int /\ s \in Nat \ {0} /\ r * q = p * s
    BY <1>6 DEF IsFraction, Worth
  <2> HIDE DEF r, s
  <2>2. q * (r * d) = (r * q) * d /\ (p * s) * d = (p * d) * s
    BY <1>4, <2>1, Product, SMT
  <2>3. ((n + m) * q) * s = q * ((n + m) * s)
    BY <1>4, <2>1, Product, SMT
  <2>4. q * (r * d) = q * ((n + m) * s)
    BY <1>5, <2>1, <2>2, <2>3
  <2>5. r * d \in Int /\ (n + m) * s \in Int
    BY <2>1, Product, SMT
  <2>6. r * d = (n + m) * s
    BY <1>4, <2>4, <2>5, Product, SMT
  <2> QED BY <2>6 DEF Worth, r, s
<1> QED BY <1>3, <1>6, <1>7

LEMMA WorthOfTimes ==
    ASSUME NEW x, IsFraction(x), NEW d \in Nat \ {0}, NEW n \in Int, Worth(x, d, n), NEW k \in Int
    PROVE  IsFraction(Times(k, x)) /\ Worth(Times(k, x), d, k * n)
<1> DEFINE a == x[1]
           b == x[2]
           z == Fraction(k * a, b)
<1>1. a \in Int /\ b \in Nat \ {0}
  BY DEF IsFraction
<1>2. a * d = n * b
  BY DEF Worth
<1>3. Times(k, x) = z
  BY DEF Times
<1> HIDE DEF a, b
<1>4. k * a \in Int
  BY <1>1, Product
<1> HIDE DEF z
<1>5. IsFraction(z) /\ Worth(z, b, k * a)
  BY <1>1, <1>4, FractionIs DEF z
<1> DEFINE r == z[1]
           s == z[2]
<1>6. r \in Int /\ s \in Nat \ {0} /\ r * b = (k * a) * s
  BY <1>5 DEF IsFraction, Worth
<1> HIDE DEF r, s
<1>7. b * (r * d) = (r * b) * d /\ ((k * a) * s) * d = (k * (a * d)) * s
  BY <1>1, <1>6, Product, SMT
<1>8. (k * (n * b)) * s = b * ((k * n) * s)
  BY <1>1, <1>6, Product, SMT
<1>9. b * (r * d) = b * ((k * n) * s)
  BY <1>2, <1>6, <1>7, <1>8
<1>10. r * d \in Int /\ (k * n) * s \in Int
  <2>1. k * n \in Int
    BY Product
  <2> QED BY <1>6, <2>1, Product, SMT
<1>11. r * d = (k * n) * s
  BY <1>1, <1>9, <1>10, Product, SMT
<1>12. Worth(z, d, k * n)
  BY <1>11 DEF Worth, r, s
<1> QED BY <1>3, <1>5, <1>12

LEMMA WorthOfInteger ==
    ASSUME NEW k \in Int, NEW d \in Nat \ {0}
    PROVE  IsFraction(<<k, 1>>) /\ Worth(<<k, 1>>, d, k * d)
BY SMT DEF IsFraction, Worth

\* The fractions that Fraction returns; each is the only one of its worth.
Reduced(x) == \E n \in Int, d \in Nat \ {0} : x = Fraction(n, d)

LEMMA ReducedIs ==
    ASSUME NEW x, Reduced(x)
    PROVE  /\ IsFraction(x)
           /\ \A d \in Nat \ {0}, n \in Int : Worth(x, d, n) => x = Fraction(n, d)
<1>1. PICK m \in Int, e \in Nat \ {0} : x = Fraction(m, e)
  BY DEF Reduced
<1>2. IsFraction(x) /\ Worth(x, e, m)
  BY <1>1, FractionIs
<1>3. ASSUME NEW d \in Nat \ {0}, NEW n \in Int, Worth(x, d, n)
      PROVE  x = Fraction(n, d)
  <2>1. m * d = n * e
    BY <1>2, <1>3, SameTerms, SMT
  <2> QED BY <1>1, <2>1, SameFraction
<1> QED BY <1>2, <1>3

LEMMA ReducedSame ==
    ASSUME NEW x, Reduced(x), NEW y, Reduced(y), NEW d \in Nat \ {0}, NEW n \in Int,
           Worth(x, d, n), Worth(y, d, n)
    PROVE  x = y
BY ReducedIs

\* Sums, multiples and integers are reduced.
LEMMA ReducedResults ==
    /\ \A x, y : IsFraction(x) /\ IsFraction(y) => Reduced(Plus(x, y))
    /\ \A x : \A k \in Int : IsFraction(x) => Reduced(Times(k, x))
    /\ \A k \in Int : Reduced(<<k, 1>>)
<1>1. ASSUME NEW x, NEW y, IsFraction(x), IsFraction(y)
      PROVE  Reduced(Plus(x, y))
  <2>1. x[1] \in Int /\ x[2] \in Nat \ {0} /\ y[1] \in Int /\ y[2] \in Nat \ {0}
    BY <1>1 DEF IsFraction
  <2>2. x[1] * y[2] \in Int /\ y[1] * x[2] \in Int /\ x[2] * y[2] \in Nat \ {0}
    BY <2>1, Product, SMT
  <2> QED BY <2>2, SMT DEF Plus, Reduced
<1>2. ASSUME NEW x, NEW k \in Int, IsFraction(x)
      PROVE  Reduced(Times(k, x))
  <2>1. x[1] \in Int /\ x[2] \in Nat \ {0}
    BY <1>2 DEF IsFraction
  <2>2. k * x[1] \in Int
    BY <2>1, Product
  <2> QED BY <2>1, <2>2 DEF Times, Reduced
<1>3. ASSUME NEW k \in Int
      PROVE  Reduced(<<k, 1>>)
  <2> DEFINE f == Fraction(k, 1)
  <2>1. /\ IsFraction(f) /\ f = <<f[1], f[2]>> /\ Worth(f, 1, k)
        /\ \A y \in Terms(k, 1) : f[2] <= y
    BY FractionIs, SMT
  <2>2. 1 \in Terms(k, 1)
    BY SMT DEF Terms
  <2> HIDE DEF f
  <2>3. f[2] = 1
    BY <2>1, <2>2, SMT DEF IsFraction
  <2>4. f[1] = k
    BY <2>1, <2>3, SMT DEF IsFraction, Worth
  <2>5. f = <<k, 1>>
    BY <2>1, <2>3, <2>4
  <2> QED BY <2>5, SMT DEF f, Reduced
<1> QED BY <1>1, <1>2, <1>3

-----------------------------------------------------------------------------
\* The value of a position at its average price, and cash.
Balance(signed, avg_px, cash) == Plus(Times(signed, avg_px), <<cash, 1>>)

\* d times the balance, if d times the price is n.
LEMMA WorthOfBalance ==
    ASSUME NEW x, IsFraction(x), NEW d \in Nat \ {0}, NEW s \in Int, NEW c \in Int,
           NEW m \in Int, Worth(Times(s, x), d, m)
    PROVE  /\ Reduced(Balance(s, x, c))
           /\ Worth(Balance(s, x, c), d, m + c * d)
<1>1. IsFraction(Times(s, x))
  BY ReducedResults, ReducedIs
<1>2. IsFraction(<<c, 1>>) /\ Worth(<<c, 1>>, d, c * d)
  BY WorthOfInteger
<1>3. c * d \in Int
  BY Product, SMT
<1> QED BY <1>1, <1>2, <1>3, WorthOfPlus, ReducedResults DEF Balance

\* A fraction with its own terms.
LEMMA WorthOfItself ==
    ASSUME NEW x, IsFraction(x)
    PROVE  x[1] \in Int /\ x[2] \in Nat \ {0} /\ Worth(x, x[2], x[1])
BY DEF IsFraction, Worth

\* What a fill does to the cash.
Flow(fill) == -(Signed(fill) * fill.last_px) - SettlementCommission(fill)

\* The fields of a position that the profit depends on.
Priced(p) ==
    /\ DOMAIN p = PositionFields
    /\ p.signed_qty \in Int
    /\ p.side = SideOf(p.signed_qty)
    /\ p.signed_qty # 0 => p.quantity = abs(p.signed_qty)
    /\ IsFraction(p.avg_px_open)
    /\ Reduced(p.realized_pnl)

\* handle_buy_order_fill and handle_sell_order_fill keep the profit equal to the value held
\* at the average price and the cash that was paid or received.
LEMMA FillProfit ==
    ASSUME NEW p, Priced(p), NEW fill, IsFill(fill), fill.last_qty # 0, fill.last_px \in Int,
           p.signed_qty = 0 => p.avg_px_open = <<fill.last_px, 1>>
    PROVE  LET r == handle_fill(p, fill)
           IN /\ IsFraction(r.avg_px_open)
              /\ Reduced(r.realized_pnl)
              /\ r.signed_qty = p.signed_qty + Signed(fill)
              /\ \A c \in Int :
                    p.realized_pnl = Balance(p.signed_qty, p.avg_px_open, c) =>
                    r.realized_pnl = Balance(r.signed_qty, r.avg_px_open, c + Flow(fill))
<1> DEFINE r == handle_fill(p, fill)
           s == p.signed_qty
           d == Signed(fill)
           q == fill.last_qty
           x == fill.last_px
           k == SettlementCommission(fill)
           v == p.avg_px_open
           a == v[1]
           b == v[2]
           w == r.avg_px_open
           g == IF s * d < 0 THEN calculate_pnl_raw(p, x, q) ELSE <<0, 1>>
           pnl == p.realized_pnl
<1>1. /\ s \in Int /\ d \in Int /\ x \in Int /\ k \in Int /\ q \in Nat \ {0}
      /\ d = q \/ d = -q
  BY SMT DEF Priced, IsFill, Signed, SettlementCommission
<1>2. a \in Int /\ b \in Nat \ {0} /\ Worth(v, b, a) /\ IsFraction(v) /\ Reduced(pnl) /\ IsFraction(pnl)
  BY WorthOfItself, ReducedIs DEF Priced
<1>3. /\ w = IF s * d > 0 THEN calculate_avg_px(p.quantity, v, x, q)
             ELSE IF s * d < 0 /\ s * (s + d) < 0 THEN <<x, 1>> ELSE v
      /\ r.realized_pnl = Plus(Plus(pnl, g), <<-k, 1>>)
      /\ r.signed_qty = s + d
  BY DEF handle_fill, Priced, PositionFields
<1> DEFINE f == d * x
<1>4. f \in Int /\ Flow(fill) = (-f) - k
  BY <1>1, Product DEF Flow
<1>5. \A c \in Int : c + Flow(fill) = c - f - k
  BY <1>1, <1>4, SMT
<1> SUFFICES \E n \in Int : /\ IsFraction(w) /\ IsFraction(g) /\ Worth(g, b, n)
                            /\ Worth(Times(s + d, w), b, s * a + n + f * b)
  <2>1. PICK n \in Int : /\ IsFraction(w) /\ IsFraction(g) /\ Worth(g, b, n)
                         /\ Worth(Times(s + d, w), b, s * a + n + f * b)
    OBVIOUS
  <2> HIDE DEF r, s, d, x, k, v, a, b, w, g, f, pnl
  <2>2. Reduced(r.realized_pnl)
    <3>1. IsFraction(Plus(pnl, g)) /\ IsFraction(<<-k, 1>>)
      BY <1>1, <1>2, <2>1, ReducedResults, ReducedIs, SMT
    <3> QED BY <1>3, <3>1, ReducedResults
  <2>3. \A c \in Int : Plus(Plus(Balance(s, v, c), g), <<-k, 1>>) = Balance(s + d, w, c - f - k)
    <3> SUFFICES ASSUME NEW c \in Int
                 PROVE  Plus(Plus(Balance(s, v, c), g), <<-k, 1>>) = Balance(s + d, w, c - f - k)
      OBVIOUS
    <3> DEFINE t == s + d
               e == c - f - k
               m == s * a
               fb == f * b
               cb == c * b
               kb == k * b
               o == Balance(s, v, c)
               y == Plus(o, g)
               z == Plus(y, <<-k, 1>>)
    <3>1. /\ t \in Int /\ e \in Int /\ m \in Int /\ fb \in Int /\ cb \in Int /\ kb \in Int
          /\ (-k) * b = -kb /\ e * b = cb - fb - kb
      BY <1>1, <1>2, <1>4, SMT
    <3>2. Worth(Times(s, v), b, m)
      BY <1>1, <1>2, WorthOfTimes
    <3>3. Worth(Times(t, w), b, m + n + fb)
      BY <2>1
    <3> HIDE DEF t, e, m
    <3>4. Reduced(o) /\ IsFraction(o) /\ Worth(o, b, m + cb)
      BY <1>1, <1>2, <3>1, <3>2, WorthOfBalance, ReducedIs
    <3> HIDE DEF o
    <3>5. IsFraction(y) /\ Worth(y, b, (m + cb) + n)
      BY <1>2, <2>1, <3>1, <3>4, WorthOfPlus, SMT
    <3> HIDE DEF y
    <3>6. IsFraction(<<-k, 1>>) /\ Worth(<<-k, 1>>, b, -kb)
      BY <1>1, <1>2, <3>1, WorthOfInteger, SMT
    <3>7. Worth(z, b, ((m + cb) + n) + (-kb)) /\ Reduced(z)
      BY <1>2, <3>1, <3>5, <3>6, WorthOfPlus, ReducedResults, SMT
    <3> HIDE DEF z
    <3>8. Reduced(Balance(t, w, e)) /\ Worth(Balance(t, w, e), b, (m + n + fb) + (cb - fb - kb))
      <4>1. m + n + fb \in Int
        BY <3>1, SMT
      <4> QED BY <1>2, <2>1, <3>1, <3>3, <4>1, WorthOfBalance
    <3>9. /\ (m + n + fb) + (cb - fb - kb) = ((m + cb) + n) + (-kb)
          /\ ((m + cb) + n) + (-kb) \in Int
      BY <3>1, SMT
    <3>10. z = Balance(t, w, e)
      BY <1>2, <3>7, <3>8, <3>9, ReducedSame
    <3> QED BY <3>10 DEF z, y, o, t, e
  <2>4. \A c \in Int : pnl = Balance(s, v, c) => r.realized_pnl = Balance(r.signed_qty, w, c + Flow(fill))
    BY <1>3, <1>5, <2>3
  <2> QED BY <1>3, <2>1, <2>2, <2>4 DEF r, s, d, v, w, pnl
<1>6. CASE s = 0
  <2>1. s * d = 0
    BY <1>1, <1>6, SMT
  <2>2. w = v /\ g = <<0, 1>>
    BY <1>3, <2>1, SMT
  <2>3. v = <<x, 1>> /\ a = x /\ b = 1
    BY <1>6, SMT
  <2>4. IsFraction(g) /\ Worth(g, b, 0)
    BY <2>2, <2>3, SMT DEF IsFraction, Worth
  <2>5. Worth(Times(s + d, w), b, d * x)
    <3> HIDE DEF s, d, x, v, a, b, w, g
    <3>1. s + d = d
      BY <1>1, <1>6, SMT
    <3>2. Worth(w, b, x)
      BY <1>2, <2>2, <2>3
    <3> QED BY <1>1, <1>2, <2>2, <3>1, <3>2, WorthOfTimes
  <2>6. d * x = s * a + 0 + f * b
    <3> HIDE DEF s, d, x, v, a, b, w, g, f
    <3>1. s * a = 0 /\ f * b = f
      BY <1>2, <1>4, <1>6, <2>3, SMT
    <3> QED BY <1>1, <1>4, <3>1, SMT DEF f
  <2> HIDE DEF s, d, x, v, a, b, w, g, f
  <2> QED BY <1>2, <2>2, <2>4, <2>5, <2>6, SMT
<1>7. CASE s # 0
  <2> DEFINE m == abs(s)
             o == IF s > 0 THEN 1 ELSE -1
  <2>1. m \in Nat \ {0} /\ o \in {1, -1} /\ s = o * m /\ p.quantity = m
    BY <1>1, <1>7, SMT DEF abs, Priced
  <2>2. /\ s > 0 => p.side = "Long"
        /\ s < 0 => p.side = "Short"
    BY <1>1, SMT DEF Priced, SideOf
  <2> DEFINE points == calculate_points(p.side, v, x)
             e == o * (x * b - a)
  <2>3. IsFraction(points) /\ Worth(points, b, e)
    <3>1. /\ IsFraction(<<x, 1>>) /\ Worth(<<x, 1>>, b, x * b) /\ x * b \in Int
          /\ IsFraction(<<-x, 1>>) /\ Worth(<<-x, 1>>, b, (-x) * b) /\ (-x) * b = -(x * b)
      BY <1>1, <1>2, WorthOfInteger, Product, SMT
    <3>2. IsFraction(Times(-1, v)) /\ Worth(Times(-1, v), b, (-1) * a) /\ (-1) * a = -a
      BY <1>2, WorthOfTimes, SMT
    <3>3. CASE s > 0
      <4>1. points = Plus(<<x, 1>>, Times(-1, v))
        BY <2>2, <3>3 DEF calculate_points
      <4>2. e = x * b + (-a)
        BY <1>2, <3>1, <3>3, SMT
      <4> HIDE DEF s, x, v, a, b, points, e
      <4> QED BY <1>2, <3>1, <3>2, <4>1, <4>2, WorthOfPlus, SMT
    <3>4. CASE s < 0
      <4>1. points = Plus(v, <<-x, 1>>)
        BY <2>2, <3>4 DEF calculate_points
      <4>2. e = a + (-(x * b))
        BY <1>1, <1>2, <3>1, <3>4, SMT
      <4> HIDE DEF s, x, v, a, b, points, e
      <4> QED BY <1>1, <1>2, <3>1, <4>1, <4>2, WorthOfPlus, SMT
    <3> QED BY <1>1, <1>7, <3>3, <3>4, SMT
  <2>4. CASE d = o * q
    <3>1. s * d > 0
      BY <1>1, <1>7, <2>1, <2>4, SMT
    <3>2. w = calculate_avg_px(m, v, x, q) /\ g = <<0, 1>>
      BY <1>1, <1>3, <2>1, <3>1, SMT
    <3> DEFINE A == a * m + x * q * b
               B == b * (m + q)
    <3>3. w = Fraction(A, B)
      BY <2>1, <3>2 DEF calculate_avg_px
    <3> HIDE DEF s, d, q, x, v, a, b, w, g, f, m, o
    <3>4. A \in Int /\ B \in Nat \ {0} /\ m + q \in Nat \ {0} /\ B = (m + q) * b
      BY <1>1, <1>2, <2>1, Product, SMT
    <3>5. IsFraction(w) /\ Worth(w, B, A)
      BY <3>3, <3>4, FractionIs
    <3>6. o * A \in Int /\ s + d \in Int /\ (s + d) * A = (m + q) * (o * A)
      <4> HIDE DEF A
      <4>1. s + d = o * (m + q)
        BY <1>1, <2>1, <2>4, SMT
      <4> QED BY <1>1, <2>1, <3>4, <4>1, SMT
    <3>7. IsFraction(Times(s + d, w)) /\ Worth(Times(s + d, w), B, (s + d) * A)
      BY <3>4, <3>5, <3>6, WorthOfTimes
    <3>8. Worth(Times(s + d, w), b, o * A)
      <4> HIDE DEF A, B
      <4> QED BY <1>2, <3>4, <3>6, <3>7, WorthScaled
    <3>9. o * A = s * a + 0 + f * b
      BY <1>1, <1>2, <2>1, <2>4, SMT DEF f
    <3>10. IsFraction(g) /\ Worth(g, b, 0)
      BY <1>2, <3>2, SMT DEF IsFraction, Worth
    <3> QED BY <3>5, <3>8, <3>9, <3>10, SMT
  <2>5. CASE d = -(o * q)
    <3>1. s * d < 0
      BY <1>1, <1>7, <2>1, <2>5, SMT
    <3> DEFINE u == IF q < m THEN q ELSE m
    <3>2. g = Times(u, points)
      BY <3>1 DEF calculate_pnl_raw
    <3>3. w = IF s * (s + d) < 0 THEN <<x, 1>> ELSE v
      BY <1>1, <1>3, <3>1, SMT
    <3>4. s * (s + d) < 0 <=> m < q
      BY <1>1, <1>7, <2>1, <2>5, SMT
    <3>5. u \in Nat \ {0} /\ e \in Int /\ u * e \in Int /\ s + d \in Int
      BY <1>1, <1>2, <2>1, SMT
    <3> HIDE DEF s, d, q, x, v, a, b, w, g, f, m, o, points
    <3>6. IsFraction(g) /\ Worth(g, b, u * e)
      <4> HIDE DEF u, e
      <4> QED BY <1>2, <2>3, <3>2, <3>5, WorthOfTimes, SMT
    <3>7. CASE m < q
      <4>1. w = <<x, 1>> /\ u = m
        BY <1>1, <2>1, <3>3, <3>4, <3>7, SMT
      <4>2. IsFraction(w) /\ Worth(w, b, x * b) /\ x * b \in Int
        BY <1>1, <1>2, <4>1, WorthOfInteger, Product, SMT
      <4>3. Worth(Times(s + d, w), b, (s + d) * (x * b))
        BY <1>2, <3>5, <4>2, WorthOfTimes
      <4>4. (s + d) * (x * b) = s * a + u * e + f * b
        BY <1>1, <1>2, <2>1, <2>5, <4>1, SMT DEF f
      <4> QED BY <3>5, <3>6, <4>2, <4>3, <4>4
    <3>8. CASE ~(m < q)
      <4>1. w = v /\ u = q
        BY <1>1, <2>1, <3>3, <3>4, <3>8, SMT
      <4>2. Worth(Times(s + d, w), b, (s + d) * a)
        BY <1>2, <3>5, <4>1, WorthOfTimes
      <4>3. (s + d) * a = s * a + u * e + f * b
        BY <1>1, <1>2, <2>1, <2>5, <4>1, SMT DEF f
      <4> QED BY <1>2, <3>5, <3>6, <4>1, <4>2, <4>3
    <3> QED BY <3>7, <3>8
  <2> QED BY <1>1, <2>1, <2>4, <2>5, SMTT(60)
<1> QED BY <1>6, <1>7

LEMMA PlusZero ==
    ASSUME NEW x, Reduced(x)
    PROVE  Plus(x, <<0, 1>>) = x
<1>1. IsFraction(x) /\ x[1] \in Int /\ x[2] \in Nat \ {0} /\ Worth(x, x[2], x[1])
  BY ReducedIs, WorthOfItself
<1>2. IsFraction(<<0, 1>>) /\ Worth(<<0, 1>>, x[2], 0)
  BY <1>1, SMT DEF IsFraction, Worth
<1>3. Worth(Plus(x, <<0, 1>>), x[2], x[1] + 0) /\ Reduced(Plus(x, <<0, 1>>))
  BY <1>1, <1>2, WorthOfPlus, ReducedResults, SMT
<1>4. x[1] + 0 = x[1]
  BY <1>1, SMT
<1> QED BY <1>1, <1>3, <1>4, ReducedSame

\* The balance of nothing is the cash.
LEMMA NothingHeld ==
    ASSUME NEW x, IsFraction(x), NEW c \in Int
    PROVE  Balance(0, x, c) = <<c, 1>>
<1>1. x[1] \in Int /\ x[2] \in Nat \ {0} /\ Worth(x, x[2], x[1])
  BY WorthOfItself
<1>2. Worth(Times(0, x), x[2], 0)
  <2>1. Worth(Times(0, x), x[2], 0 * x[1]) /\ 0 * x[1] = 0
    BY <1>1, WorthOfTimes, SMT
  <2> QED BY <2>1
<1>3. Reduced(Balance(0, x, c)) /\ Worth(Balance(0, x, c), x[2], 0 + c * x[2])
  BY <1>1, <1>2, WorthOfBalance, SMT
<1>4. Reduced(<<c, 1>>) /\ Worth(<<c, 1>>, x[2], c * x[2])
  BY <1>1, ReducedResults, WorthOfInteger
<1>5. 0 + c * x[2] = c * x[2] /\ c * x[2] \in Int
  BY <1>1, SMT
<1> QED BY <1>1, <1>3, <1>4, <1>5, ReducedSame

\* Cash that comes in or goes out changes the balance by itself.
LEMMA CashAdded ==
    ASSUME NEW s \in Int, NEW x, IsFraction(x), NEW c \in Int, NEW k \in Int
    PROVE  Plus(Balance(s, x, c), <<k, 1>>) = Balance(s, x, c + k)
<1> DEFINE a == x[1]
           b == x[2]
           m == s * a
           o == Balance(s, x, c)
<1>1. a \in Int /\ b \in Nat \ {0} /\ Worth(x, b, a)
  BY WorthOfItself
<1>2. Worth(Times(s, x), b, m) /\ m \in Int
  BY <1>1, WorthOfTimes, Product
<1> HIDE DEF a, b, m, o
<1>3. c * b \in Int /\ k * b \in Int /\ c + k \in Int /\ (c + k) * b = c * b + k * b
  BY <1>1, SMT
<1>4. Reduced(o) /\ IsFraction(o) /\ Worth(o, b, m + c * b)
  BY <1>1, <1>2, WorthOfBalance, ReducedIs DEF o
<1>5. Reduced(Balance(s, x, c + k)) /\ Worth(Balance(s, x, c + k), b, m + (c + k) * b)
  BY <1>1, <1>2, <1>3, WorthOfBalance
<1>6. IsFraction(<<k, 1>>) /\ Worth(<<k, 1>>, b, k * b)
  BY <1>1, WorthOfInteger
<1>7. m + c * b \in Int
  BY <1>2, <1>3, SMT
<1>8. Reduced(Plus(o, <<k, 1>>)) /\ Worth(Plus(o, <<k, 1>>), b, (m + c * b) + k * b)
  BY <1>1, <1>3, <1>4, <1>6, <1>7, WorthOfPlus, ReducedResults
<1>9. (m + c * b) + k * b = m + (c + k) * b /\ m + (c + k) * b \in Int
  BY <1>2, <1>3, SMT
<1> QED BY <1>1, <1>5, <1>8, <1>9, ReducedSame DEF o

\* Position::apply, on a position in use, on a closed one and on a blank one: if the
\* commission is not in the base currency, the profit stays the balance, also when the fill
\* reverses the position; on a flat position both start from nothing.
LEMMA ApplyFillProfit ==
    ASSUME NEW p, Shape(p), Coherent(p) \/ p.side = "Flat", p.side = "Flat" <=> p.signed_qty = 0,
           p.side # "Flat" => Priced(p),
           NEW fill, IsFill(fill), fill.last_qty # 0, fill.last_px \in Int
    PROVE  LET r == ApplyFill(p, fill)
           IN /\ Priced(r)
              /\ BaseCommission(fill) = 0 =>
                   \A k \in Int :
                     (IF p.side = "Flat" THEN k = 0
                      ELSE p.realized_pnl = Balance(p.signed_qty, p.avg_px_open, k))
                     => r.realized_pnl = Balance(r.signed_qty, r.avg_px_open, k + Flow(fill))
<1> DEFINE c == IF p.side = "Flat" THEN Reopened(p, fill) ELSE p
           l == Logged(c, fill)
           t == handle_fill(l, fill)
           h == IF fill.currency = "Base"
                THEN apply_adjustment(t, CommissionAdjustment(fill)) ELSE t
           r == Settled(h, fill)
           Same(x, y) == /\ x.signed_qty = y.signed_qty /\ x.avg_px_open = y.avg_px_open
                         /\ x.realized_pnl = y.realized_pnl
<1>1. /\ Priced(c)
      /\ c.signed_qty = 0 => c.avg_px_open = <<fill.last_px, 1>>
      /\ \A k \in Int :
           (IF p.side = "Flat" THEN k = 0
            ELSE p.realized_pnl = Balance(p.signed_qty, p.avg_px_open, k))
           => c.realized_pnl = Balance(c.signed_qty, c.avg_px_open, k)
  <2>1. CASE p.side = "Flat"
    <3>1. c = Reopened(p, fill)
      BY <2>1
    <3> HIDE DEF c
    <3>2. /\ DOMAIN c = PositionFields
          /\ c.signed_qty = 0 /\ c.side = "Flat"
          /\ c.avg_px_open = <<fill.last_px, 1>> /\ c.realized_pnl = <<0, 1>>
      BY <2>1, <3>1 DEF Reopened, Shape, PositionFields
    <3>3. IsFraction(c.avg_px_open) /\ Reduced(c.realized_pnl)
      BY <3>2, ReducedResults, WorthOfInteger, SMT
    <3>4. SideOf(0) = "Flat"
      BY SMT DEF SideOf
    <3>5. c.realized_pnl = Balance(c.signed_qty, c.avg_px_open, 0)
      BY <3>2, <3>3, NothingHeld, SMT
    <3> QED BY <2>1, <3>2, <3>3, <3>4, <3>5, SMT DEF Priced
  <2>2. CASE p.side # "Flat"
    BY <2>2
  <2> QED BY <2>1, <2>2
<1> HIDE DEF c
<1>2. /\ DOMAIN l = PositionFields /\ Same(l, c)
      /\ l.side = c.side /\ l.quantity = c.quantity
  BY <1>1 DEF Logged, Priced, PositionFields
<1> HIDE DEF l
<1>3. Priced(l)
  BY <1>1, <1>2 DEF Priced
<1>4. /\ IsFraction(t.avg_px_open) /\ Reduced(t.realized_pnl)
      /\ t.signed_qty = l.signed_qty + Signed(fill)
      /\ \A k \in Int : l.realized_pnl = Balance(l.signed_qty, l.avg_px_open, k) =>
                        t.realized_pnl = Balance(t.signed_qty, t.avg_px_open, k + Flow(fill))
  BY <1>1, <1>2, <1>3, FillProfit
<1>5. DOMAIN t = PositionFields
  BY <1>2 DEF handle_fill
<1> HIDE DEF t
<1>6. Signed(fill) \in Int /\ BaseCommission(fill) \in Int /\ t.signed_qty \in Int
  BY <1>3, <1>4, ChangeType, SMT DEF Priced
<1>7. /\ DOMAIN h = PositionFields
      /\ h.avg_px_open = t.avg_px_open /\ h.realized_pnl = t.realized_pnl
      /\ BaseCommission(fill) = 0 => h.signed_qty = t.signed_qty
  <2>1. CASE fill.currency = "Base"
    <3> DEFINE adj == CommissionAdjustment(fill)
    <3>1. adj.quantity_change = -BaseCommission(fill) /\ adj.pnl_change = 0
      BY DEF CommissionAdjustment
    <3>2. h = apply_adjustment(t, adj)
      BY <2>1
    <3> HIDE DEF h, adj
    <3>3. /\ DOMAIN h = PositionFields
          /\ h.avg_px_open = t.avg_px_open
          /\ h.realized_pnl = Plus(t.realized_pnl, <<0, 1>>)
          /\ h.signed_qty = t.signed_qty + (-BaseCommission(fill))
      BY <1>5, <3>1, <3>2 DEF apply_adjustment, PositionFields
    <3>4. h.realized_pnl = t.realized_pnl
      BY <1>4, <3>3, PlusZero
    <3>5. BaseCommission(fill) = 0 => h.signed_qty = t.signed_qty
      BY <1>6, <3>3, SMT
    <3> QED BY <3>3, <3>4, <3>5
  <2>2. CASE fill.currency # "Base"
    BY <1>5, <2>2
  <2> QED BY <2>1, <2>2
<1> HIDE DEF h
<1>8. Same(r, h)
  BY <1>7 DEF Settled, PositionFields
<1> HIDE DEF r
<1>9. ApplyFill(p, fill) = r
  BY DEF ApplyFill, c, l, t, h, r
<1>10. Shape(r) /\ Coherent(r)
  BY <1>9, ApplyFillFacts
<1>11. Priced(r)
  BY <1>4, <1>7, <1>8, <1>10 DEF Priced, Shape, Coherent
<1> QED BY <1>1, <1>2, <1>4, <1>7, <1>8, <1>9, <1>11

-----------------------------------------------------------------------------
\* An adjustment other than for a commission changes the profit only.
Adjustments ==
    {a \in [type : {"Commission", "Funding"}, quantity_change : Int, pnl_change : Int] :
        a.type # "Commission" => a.quantity_change = 0}

QuantityChanges(adjustments) ==
    [n \in DOMAIN adjustments |-> adjustments[n].quantity_change]

Changes(events) == [n \in DOMAIN events |-> Change(events[n])]

\* The changes made by the fills of all orders but one.
Others(events, c) ==
    [n \in DOMAIN events |->
        IF events[n].client_order_id = c THEN 0 ELSE Change(events[n])]

\* The cash that the fills logged paid or brought in, and the payments logged.
Flows(events) == [n \in DOMAIN events |-> Flow(events[n])]

Payments(adjustments) == [n \in DOMAIN adjustments |-> adjustments[n].pnl_change]

\* The profit is what is held at the average price, and the cash; unless a commission of
\* the cycle was in the base currency.
Profit(p) ==
    /\ IsFraction(p.avg_px_open)
    /\ Reduced(p.realized_pnl)
    /\ (\A i \in DOMAIN p.events : BaseCommission(p.events[i]) = 0) =>
          p.realized_pnl =
             Balance(p.signed_qty, p.avg_px_open,
                     SumFunction(Flows(p.events)) + SumFunction(Payments(p.adjustments)))

\* The fills against the side of the first one: their quantities and their values.
Counter(events, n) == events[n].order_side # events[1].order_side

ClosedQty(events) ==
    [n \in DOMAIN events |-> IF Counter(events, n) THEN events[n].last_qty ELSE 0]

ClosedValue(events) ==
    [n \in DOMAIN events |->
        IF Counter(events, n) THEN events[n].last_qty * events[n].last_px ELSE 0]

\* A cycle that has not reversed: what its first k fills leave is on the side of the first.
HeldAfter(events, k) == SumFunction([n \in 1 .. k |-> Signed(events[n])])

Unreversed(events) ==
    \A i \in DOMAIN events :
        /\ BaseCommission(events[i]) = 0
        /\ HeldAfter(events, i) = 0 \/ SideOf(HeldAfter(events, i)) = SideOf(Signed(events[1]))

\* The average close price of such a cycle, and its weight, which is one of the two totals.
Closing(p) ==
    Unreversed(p.events) =>
        LET weight == SumFunction(ClosedQty(p.events))
            value  == SumFunction(ClosedValue(p.events))
            some   == \E n \in DOMAIN p.events : Counter(p.events, n)
        IN /\ weight = IF p.events[1].order_side = "Buy" THEN p.sell_qty ELSE p.buy_qty
           /\ weight \in Nat /\ value \in Int
           /\ some => weight # 0
           /\ p.avg_px_close = IF some THEN Fraction(value, weight) ELSE None

\* The two books of a position agree with what it holds, and its profit with them.
Books(p) ==
    /\ Shape(p)
    /\ p.events \in Seq(FillEvents)
    /\ p.adjustments \in Seq(Adjustments)
    /\ p.buy_qty \in Int /\ p.sell_qty \in Int
    /\ p.signed_qty = p.buy_qty - p.sell_qty + SumFunction(QuantityChanges(p.adjustments))
    /\ p.signed_qty = SumFunction(Changes(p.events))
    /\ Profit(p)
    /\ Closing(p)

\* A position that Position::apply can be given: one in use, or a blank one.
Ready(p) ==
    /\ Books(p)
    /\ Coherent(p) \/ p.side = "Flat"
    /\ p.side = "Flat" <=> p.signed_qty = 0

\* The inductive invariant.
IInv == Books(position) /\ Coherent(position)

-----------------------------------------------------------------------------
\* The enumerated fills satisfy what the lemmas ask of a fill.
LEMMA FillEventsAreFills == \A fill \in FillEvents : IsFill(fill)
<1> SUFFICES ASSUME NEW fill \in FillEvents PROVE IsFill(fill)
  OBVIOUS
<1>1. fill.order_side \in OrderSide /\ fill.last_qty \in FillQtys /\ fill.commission \in Commissions
  BY DEF FillEvents
<1>2. \A n \in Commissions : n \in Int
  BY PositionAssumption, SMT
<1> QED BY <1>1, <1>2, PositionAssumption DEF IsFill

\* The property is the coherence of the one position.
LEMMA CoherentPosition == SideFollowsQuantity <=> Coherent(position)
BY DEF SideFollowsQuantity, Coherent

\* A position in use can be given a fill.
LEMMA CoherentReady ==
    ASSUME NEW p, Books(p), Coherent(p)
    PROVE  Ready(p)
BY SMT DEF Ready, Books, Coherent, Shape, SideOf

\* A sum over a sequence that grew by one.
LEMMA AppendSum ==
    ASSUME NEW n \in Nat, NEW v, NEW w, DOMAIN w = 1 .. n, DOMAIN v = 1 .. n + 1,
           \A i \in 1 .. n + 1 : v[i] \in Int, \A i \in 1 .. n : w[i] = v[i]
    PROVE  SumFunction(w) \in Int /\ SumFunction(v) = SumFunction(w) + v[n + 1]
<1>1. /\ SumFunctionOnSet(w, 1 .. n) \in Int
      /\ SumFunctionOnSet(v, 1 .. n + 1) = SumFunctionOnSet(w, 1 .. n) + v[n + 1]
  BY SumUpto
<1> QED BY <1>1 DEF SumFunction

\* What is known of the terms of the sums.
LEMMA FillTerms ==
    ASSUME NEW fill \in FillEvents
    PROVE  /\ IsFill(fill) /\ fill.last_qty # 0 /\ fill.last_px \in Int
           /\ Change(fill) \in Int /\ Flow(fill) \in Int
<1>1. IsFill(fill) /\ Change(fill) \in Int /\ Signed(fill) \in Int
  BY FillEventsAreFills, ChangeType
<1>2. fill.last_qty # 0 /\ fill.last_px \in Int
  BY PositionAssumption DEF FillEvents
<1>3. SettlementCommission(fill) \in Int
  BY <1>1, SMT DEF SettlementCommission, IsFill
<1>4. Flow(fill) \in Int
  BY <1>1, <1>2, <1>3, SMT DEF Flow
<1> QED BY <1>1, <1>2, <1>4

\* The sums over a log that is empty, and over one that grew.
LEMMA LogSums ==
    /\ SumFunction(QuantityChanges(<< >>)) = 0
    /\ SumFunction(Changes(<< >>)) = 0
    /\ SumFunction(Payments(<< >>)) = 0
    /\ SumFunction(Flows(<< >>)) = 0
    /\ \A s \in Seq(Adjustments), a \in Adjustments :
          /\ SumFunction(QuantityChanges(s)) \in Int
          /\ SumFunction(QuantityChanges(Append(s, a))) =
                SumFunction(QuantityChanges(s)) + a.quantity_change
          /\ SumFunction(Payments(s)) \in Int
          /\ SumFunction(Payments(Append(s, a))) = SumFunction(Payments(s)) + a.pnl_change
    /\ \A s \in Seq(FillEvents), f \in FillEvents :
          /\ SumFunction(Changes(s)) \in Int
          /\ SumFunction(Changes(Append(s, f))) = SumFunction(Changes(s)) + Change(f)
          /\ SumFunction(Flows(s)) \in Int
          /\ SumFunction(Flows(Append(s, f))) = SumFunction(Flows(s)) + Flow(f)
<1>1. /\ SumFunction(QuantityChanges(<< >>)) = 0 /\ SumFunction(Changes(<< >>)) = 0
      /\ SumFunction(Payments(<< >>)) = 0 /\ SumFunction(Flows(<< >>)) = 0
  <2>1. /\ DOMAIN QuantityChanges(<< >>) = {} /\ DOMAIN Changes(<< >>) = {}
        /\ DOMAIN Payments(<< >>) = {} /\ DOMAIN Flows(<< >>) = {}
        /\ IsFiniteSet({})
    BY FS_EmptySet, SMT DEF QuantityChanges, Changes, Payments, Flows
  <2> QED BY <2>1, SumType DEF SumFunction
<1>2. ASSUME NEW s \in Seq(Adjustments), NEW a \in Adjustments
      PROVE  /\ SumFunction(QuantityChanges(s)) \in Int
             /\ SumFunction(QuantityChanges(Append(s, a))) =
                   SumFunction(QuantityChanges(s)) + a.quantity_change
             /\ SumFunction(Payments(s)) \in Int
             /\ SumFunction(Payments(Append(s, a))) = SumFunction(Payments(s)) + a.pnl_change
  <2> DEFINE n == Len(s)
             r == Append(s, a)
             w == QuantityChanges(s)
             v == QuantityChanges(r)
             x == Payments(s)
             y == Payments(r)
  <2>1. /\ n \in Nat /\ DOMAIN s = 1 .. n /\ DOMAIN r = 1 .. n + 1
        /\ r[n + 1] = a /\ \A i \in 1 .. n : r[i] = s[i]
        /\ \A i \in 1 .. n + 1 : r[i] \in Adjustments
    BY SMT
  <2> HIDE DEF n, r
  <2>2. /\ DOMAIN w = 1 .. n /\ DOMAIN v = 1 .. n + 1
        /\ DOMAIN x = 1 .. n /\ DOMAIN y = 1 .. n + 1
    BY <2>1 DEF QuantityChanges, Payments
  <2>3. /\ \A i \in 1 .. n + 1 : v[i] \in Int
        /\ \A i \in 1 .. n : w[i] = v[i]
        /\ v[n + 1] = a.quantity_change
    BY <2>1, SMT DEF QuantityChanges, Adjustments
  <2>4. /\ \A i \in 1 .. n + 1 : y[i] \in Int
        /\ \A i \in 1 .. n : x[i] = y[i]
        /\ y[n + 1] = a.pnl_change
    BY <2>1, SMT DEF Payments, Adjustments
  <2> HIDE DEF w, v, x, y
  <2>5. SumFunction(w) \in Int /\ SumFunction(v) = SumFunction(w) + a.quantity_change
    BY <2>1, <2>2, <2>3, AppendSum
  <2>6. SumFunction(x) \in Int /\ SumFunction(y) = SumFunction(x) + a.pnl_change
    BY <2>1, <2>2, <2>4, AppendSum
  <2> QED BY <2>5, <2>6 DEF w, v, x, y, r
<1>3. ASSUME NEW s \in Seq(FillEvents), NEW f \in FillEvents
      PROVE  /\ SumFunction(Changes(s)) \in Int
             /\ SumFunction(Changes(Append(s, f))) = SumFunction(Changes(s)) + Change(f)
             /\ SumFunction(Flows(s)) \in Int
             /\ SumFunction(Flows(Append(s, f))) = SumFunction(Flows(s)) + Flow(f)
  <2> DEFINE n == Len(s)
             r == Append(s, f)
             w == Changes(s)
             v == Changes(r)
             x == Flows(s)
             y == Flows(r)
  <2>1. /\ n \in Nat /\ DOMAIN s = 1 .. n /\ DOMAIN r = 1 .. n + 1
        /\ r[n + 1] = f /\ \A i \in 1 .. n : r[i] = s[i]
        /\ \A i \in 1 .. n + 1 : r[i] \in FillEvents
    BY SMT
  <2> HIDE DEF n, r
  <2>2. /\ DOMAIN w = 1 .. n /\ DOMAIN v = 1 .. n + 1
        /\ DOMAIN x = 1 .. n /\ DOMAIN y = 1 .. n + 1
    BY <2>1 DEF Changes, Flows
  <2>3. /\ \A i \in 1 .. n + 1 : v[i] \in Int
        /\ \A i \in 1 .. n : w[i] = v[i]
        /\ v[n + 1] = Change(f)
    BY <2>1, FillTerms, SMT DEF Changes
  <2>4. /\ \A i \in 1 .. n + 1 : y[i] \in Int
        /\ \A i \in 1 .. n : x[i] = y[i]
        /\ y[n + 1] = Flow(f)
    BY <2>1, FillTerms, SMT DEF Flows
  <2> HIDE DEF w, v, x, y
  <2>5. SumFunction(w) \in Int /\ SumFunction(v) = SumFunction(w) + Change(f)
    BY <2>1, <2>2, <2>3, AppendSum
  <2>6. SumFunction(x) \in Int /\ SumFunction(y) = SumFunction(x) + Flow(f)
    BY <2>1, <2>2, <2>4, AppendSum
  <2> QED BY <2>5, <2>6 DEF w, v, x, y, r
<1> QED BY <1>1, <1>2, <1>3

LEMMA FlowsType ==
    ASSUME NEW s \in Seq(FillEvents)
    PROVE  SumFunction(Flows(s)) \in Int
<1>1. IsFiniteSet(DOMAIN s) /\ DOMAIN Flows(s) = DOMAIN s
  <2>1. DOMAIN s = 1 .. Len(s) /\ Len(s) \in Nat
    BY SMT
  <2> QED BY <2>1, FS_Interval, SMT DEF Flows
<1>2. \A n \in DOMAIN s : Flows(s)[n] \in Int
  BY FillTerms, SMT DEF Flows
<1> QED BY <1>1, <1>2, SumType DEF SumFunction

\* What Position::apply does to the average close price.
LEMMA ApplyFillAverage ==
    ASSUME NEW p, Shape(p), NEW fill
    PROVE  LET r == ApplyFill(p, fill)
               c == IF p.side = "Flat" THEN Reopened(p, fill) ELSE p
           IN /\ r.avg_px_close =
                    IF c.signed_qty * Signed(fill) < 0
                    THEN calculate_avg_px_close_px(c, fill.last_px, fill.last_qty)
                    ELSE c.avg_px_close
              /\ p.side = "Flat" => c.avg_px_close = None /\ c.signed_qty = p.signed_qty
<1> DEFINE c == IF p.side = "Flat" THEN Reopened(p, fill) ELSE p
           l == Logged(c, fill)
           t == handle_fill(l, fill)
           h == IF fill.currency = "Base"
                THEN apply_adjustment(t, CommissionAdjustment(fill)) ELSE t
           r == Settled(h, fill)
<1>1. ApplyFill(p, fill) = r
  BY DEF ApplyFill
<1>2. /\ DOMAIN c = PositionFields
      /\ p.side = "Flat" => c.avg_px_close = None /\ c.signed_qty = p.signed_qty
  BY DEF Reopened, Shape, PositionFields
<1> HIDE DEF c
<1>3. /\ DOMAIN l = PositionFields
      /\ \A f \in {"avg_px_close", "signed_qty", "side", "buy_qty", "sell_qty"} : l[f] = c[f]
  BY <1>2 DEF Logged, PositionFields
<1> HIDE DEF l
<1>4. calculate_avg_px_close_px(l, fill.last_px, fill.last_qty) =
         calculate_avg_px_close_px(c, fill.last_px, fill.last_qty)
  BY <1>3 DEF calculate_avg_px_close_px
<1>5. /\ DOMAIN t = PositionFields
      /\ t.avg_px_close = IF l.signed_qty * Signed(fill) < 0
                          THEN calculate_avg_px_close_px(l, fill.last_px, fill.last_qty)
                          ELSE l.avg_px_close
  BY <1>3 DEF handle_fill, PositionFields
<1> HIDE DEF t
<1>6. DOMAIN h = PositionFields /\ h.avg_px_close = t.avg_px_close
  BY <1>5 DEF apply_adjustment, PositionFields
<1> HIDE DEF h
<1>7. r.avg_px_close = h.avg_px_close
  BY <1>6 DEF Settled, PositionFields
<1> HIDE DEF r
<1>8. r.avg_px_close = IF c.signed_qty * Signed(fill) < 0
                       THEN calculate_avg_px_close_px(c, fill.last_px, fill.last_qty)
                       ELSE c.avg_px_close
  BY <1>3, <1>4, <1>5, <1>6, <1>7
<1> QED BY <1>1, <1>2, <1>8 DEF c

\* The running average: one more price in the average of the closings.
Grows(value, weight, px, qty) ==
    /\ calculate_avg_px(weight, Fraction(value, weight), px, qty) =
          Fraction(value + qty * px, weight + qty)
    /\ <<px, 1>> = Fraction(qty * px, qty)
    /\ Fraction(value, weight) # None

LEMMA AverageGrows ==
    ASSUME NEW value \in Int, NEW weight \in Nat \ {0}, NEW px \in Int, NEW qty \in Nat \ {0}
    PROVE  Grows(value, weight, px, qty)
<1> DEFINE f == Fraction(value, weight)
           a == f[1]
           b == f[2]
<1>1. a \in Int /\ b \in Nat \ {0} /\ a * weight = value * b /\ f \in Int \X (Nat \ {0})
  BY FractionIs DEF IsFraction, Worth
<1>2. calculate_avg_px(weight, f, px, qty) = Fraction(a * weight + px * qty * b, b * (weight + qty))
  BY DEF calculate_avg_px
<1>3. f # None
  BY <1>1, PositionAssumption, SMT
<1> HIDE DEF a, b
<1> DEFINE n == a * weight + px * qty * b
           d == b * (weight + qty)
           m == value + qty * px
           e == weight + qty
<1>4. n \in Int /\ d \in Nat \ {0} /\ m \in Int /\ e \in Nat \ {0} /\ n * e = m * d
  <2>1. n \in Int /\ m \in Int /\ e \in Nat \ {0}
    BY <1>1, SMT
  <2>2. d \in Nat \ {0}
    BY <1>1, <2>1, Product
  <2>3. n = m * b
    <3>1. (px * qty) * b = (qty * px) * b /\ m * b = value * b + (qty * px) * b
      BY <1>1, SMT
    <3> QED BY <1>1, <3>1
  <2>4. n * e = m * d
    <3> HIDE DEF n, m, e
    <3>1. d = b * e
      BY DEF e
    <3> HIDE DEF d
    <3> QED BY <1>1, <2>1, <2>3, <3>1, Product, SMT
  <2> QED BY <2>1, <2>2, <2>4
<1>5. Fraction(n, d) = Fraction(m, e)
  <2> HIDE DEF n, d, m, e
  <2> QED BY <1>4, SameFraction, SMT
<1>6. <<px, 1>> = Fraction(qty * px, qty)
  <2>1. Reduced(<<px, 1>>) /\ Worth(<<px, 1>>, qty, px * qty)
    BY ReducedResults, WorthOfInteger
  <2>2. px * qty \in Int /\ px * qty = qty * px
    BY SMT
  <2> QED BY <2>1, <2>2, ReducedIs
<1> QED BY <1>2, <1>3, <1>5, <1>6 DEF f, Grows

LEMMA OppositeSigns ==
    ASSUME NEW a \in Int, NEW b \in Int
    PROVE  a * b < 0 <=> (a > 0 /\ b < 0) \/ (a < 0 /\ b > 0)
BY SMT

\* Position::apply keeps the average close price.
LEMMA ApplyFillClosing ==
    ASSUME NEW p, Ready(p), NEW fill \in FillEvents
    PROVE  Closing(ApplyFill(p, fill))
<1> DEFINE r == ApplyFill(p, fill)
           c == IF p.side = "Flat" THEN Reopened(p, fill) ELSE p
<1>1. /\ fill.order_side \in {"Buy", "Sell"} /\ fill.last_qty \in Nat \ {0} /\ fill.last_px \in Int
      /\ Signed(fill) \in Int
      /\ Shape(p) /\ p.signed_qty \in Int /\ p.events \in Seq(FillEvents)
      /\ p.buy_qty \in Int /\ p.sell_qty \in Int
  BY FillTerms, ChangeType DEF IsFill, OrderSide, Ready, Books, Shape
<1>2. /\ r.events = Append(c.events, fill)
      /\ r.buy_qty = IF fill.order_side = "Buy" THEN c.buy_qty + fill.last_qty ELSE c.buy_qty
      /\ r.sell_qty = IF fill.order_side = "Sell" THEN c.sell_qty + fill.last_qty
                      ELSE c.sell_qty
      /\ p.side = "Flat" => c.events = << >> /\ c.buy_qty = 0 /\ c.sell_qty = 0
  BY <1>1, ApplyFillLogs
<1>3. /\ r.avg_px_close = IF c.signed_qty * Signed(fill) < 0
                          THEN calculate_avg_px_close_px(c, fill.last_px, fill.last_qty)
                          ELSE c.avg_px_close
      /\ p.side = "Flat" => c.avg_px_close = None /\ c.signed_qty = p.signed_qty
  BY <1>1, ApplyFillAverage
<1>4. CASE p.side = "Flat"
  <2> HIDE DEF c, r
  <2>1. r.events = <<fill>> /\ r.avg_px_close = None
    <3>1. c.signed_qty = 0 /\ c.events = << >> /\ c.avg_px_close = None
      BY <1>2, <1>3, <1>4 DEF Ready
    <3>2. ~(c.signed_qty * Signed(fill) < 0)
      BY <1>1, <3>1, SMT
    <3> QED BY <1>2, <1>3, <3>1, <3>2, SMT
  <2>2. DOMAIN r.events = {1} /\ r.events[1] = fill /\ IsFiniteSet({1})
    BY <2>1, FS_Singleton, SMT
  <2>3. \A n \in DOMAIN r.events : ~Counter(r.events, n)
    BY <2>2 DEF Counter
  <2>4. /\ DOMAIN ClosedQty(r.events) = {1} /\ DOMAIN ClosedValue(r.events) = {1}
        /\ \A n \in {1} : ClosedQty(r.events)[n] = 0 /\ ClosedValue(r.events)[n] = 0
    BY <2>2, <2>3 DEF ClosedQty, ClosedValue
  <2>5. SumFunction(ClosedQty(r.events)) = 0 /\ SumFunction(ClosedValue(r.events)) = 0
    BY <2>2, <2>4, SumOfZeros DEF SumFunction
  <2>6. IF r.events[1].order_side = "Buy" THEN r.sell_qty = 0 ELSE r.buy_qty = 0
    BY <1>1, <1>2, <1>4, <2>2
  <2> QED BY <2>1, <2>3, <2>5, <2>6, SMTT(60) DEF Closing, r
<1>5. CASE p.side # "Flat"
  <2> DEFINE e == p.events
             s == r.events
             n == Len(e)
             q == fill.last_qty
             x == fill.last_px
  <2>1. c = p /\ Coherent(p) /\ p.signed_qty # 0 /\ p.side = SideOf(p.signed_qty)
    BY <1>5 DEF Ready, Coherent
  <2>2. /\ n \in Nat /\ DOMAIN e = 1 .. n /\ DOMAIN s = 1 .. n + 1 /\ s[n + 1] = fill
        /\ \A i \in 1 .. n : s[i] = e[i] /\ e[i] \in FillEvents
        /\ \A i \in 1 .. n + 1 : s[i] \in FillEvents
    BY <1>1, <1>2, <2>1, SMTT(60)
  <2> HIDE DEF r, c, e, s, n
  <2> SUFFICES ASSUME Unreversed(s) PROVE Closing(r)
    BY DEF Closing, s, r
  <2>3. n # 0
    <3> SUFFICES ASSUME n = 0 PROVE FALSE
      OBVIOUS
    <3>1. e = << >>
      BY <1>1, SMT DEF e, n
    <3>2. p.signed_qty = SumFunction(Changes(e))
      BY DEF e, Ready, Books
    <3> QED BY <2>1, <3>1, <3>2, LogSums
  <2>4. 1 \in 1 .. n /\ n \in 1 .. n /\ n + 1 \in 1 .. n + 1 /\ \A i \in 1 .. n : i \in 1 .. n + 1
    BY <2>2, <2>3, SMT
  <2>5. s[1] = e[1] /\ e[1] \in FillEvents
    BY <2>2, <2>4
  <2>6. \A i \in 1 .. n : HeldAfter(s, i) = HeldAfter(e, i)
    <3> SUFFICES ASSUME NEW i \in 1 .. n PROVE HeldAfter(s, i) = HeldAfter(e, i)
      OBVIOUS
    <3>1. \A k \in 1 .. i : s[k] = e[k]
      BY <2>2, SMT
    <3>2. [k \in 1 .. i |-> Signed(s[k])] = [k \in 1 .. i |-> Signed(e[k])]
      BY <3>1
    <3> QED BY <3>2 DEF HeldAfter
  <2>7. Unreversed(e)
    BY <2>2, <2>4, <2>5, <2>6 DEF Unreversed
  <2>8. HeldAfter(e, n) = p.signed_qty
    <3>1. \A i \in 1 .. n : Change(e[i]) = Signed(e[i])
      <4> SUFFICES ASSUME NEW i \in 1 .. n PROVE Change(e[i]) = Signed(e[i])
        OBVIOUS
      <4>1. BaseCommission(e[i]) = 0
        BY <2>2, <2>7 DEF Unreversed
      <4>2. Signed(e[i]) \in Int
        BY <2>2, FillTerms, ChangeType
      <4> QED BY <4>1, <4>2, SMT DEF Change
    <3>2. Changes(e) = [i \in 1 .. n |-> Signed(e[i])]
      BY <2>2, <3>1 DEF Changes
    <3>3. p.signed_qty = SumFunction(Changes(e))
      BY DEF e, Ready, Books
    <3> QED BY <3>2, <3>3 DEF HeldAfter
  <2>9. p.side = SideOf(Signed(e[1]))
    BY <2>1, <2>2, <2>4, <2>7, <2>8 DEF Unreversed
  <2>10. /\ e[1].order_side \in {"Buy", "Sell"}
         /\ p.side = IF e[1].order_side = "Buy" THEN "Long" ELSE "Short"
    <3>1. e[1].order_side \in {"Buy", "Sell"} /\ e[1].last_qty \in Nat \ {0}
      BY <2>5, FillTerms DEF IsFill, OrderSide
    <3> QED BY <2>9, <3>1, SMT DEF SideOf, Signed
  <2>11. c.signed_qty * Signed(fill) < 0 <=> fill.order_side # e[1].order_side
    <3>1. e[1].order_side = "Buy" => p.signed_qty > 0
      BY <1>1, <2>1, <2>10 DEF SideOf
    <3>2. e[1].order_side = "Sell" => p.signed_qty < 0
      BY <1>1, <2>1, <2>10 DEF SideOf
    <3>3. fill.order_side = "Buy" => Signed(fill) > 0
      BY <1>1, SMT DEF Signed
    <3>4. fill.order_side = "Sell" => Signed(fill) < 0
      BY <1>1, SMT DEF Signed
    <3>5. c.signed_qty = p.signed_qty /\ p.signed_qty \in Int /\ Signed(fill) \in Int
      BY <1>1, <2>1
    <3>6. p.signed_qty * Signed(fill) < 0 <=>
             \/ p.signed_qty > 0 /\ Signed(fill) < 0
             \/ p.signed_qty < 0 /\ Signed(fill) > 0
      BY <3>5, OppositeSigns
    <3>7. CASE e[1].order_side = "Buy"
      BY <1>1, <3>1, <3>3, <3>4, <3>5, <3>6, <3>7, SMT
    <3>8. CASE e[1].order_side = "Sell"
      BY <1>1, <3>2, <3>3, <3>4, <3>5, <3>6, <3>8, SMT
    <3> QED BY <2>10, <3>7, <3>8
  <2> DEFINE weight == SumFunction(ClosedQty(e))
             value == SumFunction(ClosedValue(e))
             some == \E i \in DOMAIN e : Counter(e, i)
             against == Counter(s, n + 1)
  <2>12. /\ weight = IF e[1].order_side = "Buy" THEN p.sell_qty ELSE p.buy_qty
         /\ weight \in Nat /\ value \in Int
         /\ some => weight # 0
         /\ p.avg_px_close = IF some THEN Fraction(value, weight) ELSE None
    BY <2>7 DEF Ready, Books, Closing, e
  <2>13. \A i \in 1 .. n : Counter(s, i) <=> Counter(e, i)
    BY <2>2, <2>5 DEF Counter
  <2>14. against <=> fill.order_side # e[1].order_side
    BY <2>2, <2>5 DEF Counter
  <2>15. (\E i \in DOMAIN s : Counter(s, i)) <=> some \/ against
    <3>1. \A i \in 1 .. n + 1 : i \in 1 .. n \/ i = n + 1
      BY <2>2, SMT
    <3> QED BY <2>2, <2>4, <2>13, <3>1
  <2>16. /\ SumFunction(ClosedQty(s)) = weight + IF against THEN q ELSE 0
         /\ SumFunction(ClosedValue(s)) = value + IF against THEN q * x ELSE 0
    <3> DEFINE w == ClosedQty(e)
               v == ClosedQty(s)
               y == ClosedValue(e)
               z == ClosedValue(s)
    <3>1. \A i \in 1 .. n + 1 : /\ s[i].last_qty \in Int
                                /\ s[i].last_qty * s[i].last_px \in Int
      <4>1. \A i \in 1 .. n + 1 : s[i].last_qty \in Int /\ s[i].last_px \in Int
        BY <2>2, FillTerms, SMT DEF IsFill
      <4> QED BY <4>1, SMT
    <3>2. /\ DOMAIN w = 1 .. n /\ DOMAIN v = 1 .. n + 1
          /\ \A i \in 1 .. n + 1 : v[i] \in Int
          /\ \A i \in 1 .. n : w[i] = v[i]
          /\ v[n + 1] = IF against THEN q ELSE 0
      BY <2>2, <2>4, <2>13, <3>1, SMT DEF ClosedQty
    <3>3. /\ DOMAIN y = 1 .. n /\ DOMAIN z = 1 .. n + 1
          /\ \A i \in 1 .. n + 1 : z[i] \in Int
          /\ \A i \in 1 .. n : y[i] = z[i]
          /\ z[n + 1] = IF against THEN q * x ELSE 0
      BY <2>2, <2>4, <2>13, <3>1, SMT DEF ClosedValue
    <3> HIDE DEF w, v, y, z, against
    <3>4. SumFunction(v) = SumFunction(w) + v[n + 1]
      BY <2>2, <3>2, AppendSum
    <3>5. SumFunction(z) = SumFunction(y) + z[n + 1]
      BY <2>2, <3>3, AppendSum
    <3> QED BY <3>2, <3>3, <3>4, <3>5 DEF w, v, y, z
  <2>17. r.avg_px_close = IF against
                          THEN IF p.avg_px_close = None THEN <<x, 1>>
                               ELSE calculate_avg_px(weight, p.avg_px_close, x, q)
                          ELSE p.avg_px_close
    <3>1. (IF p.side = "Long" THEN p.sell_qty ELSE p.buy_qty) = weight
      BY <2>10, <2>12
    <3>2. calculate_avg_px_close_px(p, x, q) =
             IF p.avg_px_close = None THEN <<x, 1>>
             ELSE calculate_avg_px(weight, p.avg_px_close, x, q)
      BY <3>1 DEF calculate_avg_px_close_px
    <3> HIDE DEF weight, against
    <3> QED BY <1>3, <2>1, <2>11, <2>14, <3>2
  <2>18. (IF s[1].order_side = "Buy" THEN r.sell_qty ELSE r.buy_qty) =
            weight + IF against THEN q ELSE 0
    <3> HIDE DEF weight, against
    <3> QED BY <1>1, <1>2, <2>1, <2>5, <2>10, <2>12, <2>14, SMT
  <2> HIDE DEF weight, value, some, against
  <2>19. CASE against
    <3>1. weight + q \in Nat \ {0} /\ value + q * x \in Int
      <4>1. weight \in Nat /\ value \in Int /\ q \in Nat \ {0} /\ x \in Int
        BY <1>1, <2>12
      <4> HIDE DEF q, x
      <4> QED BY <4>1, SMT
    <3>2. r.avg_px_close = Fraction(value + q * x, weight + q)
      <4>1. CASE some
        <5>1. weight \in Nat \ {0} /\ p.avg_px_close = Fraction(value, weight)
          BY <2>12, <4>1
        <5> HIDE DEF q, x
        <5>2. q \in Nat \ {0} /\ x \in Int
          BY <1>1 DEF q, x
        <5>3. /\ calculate_avg_px(weight, Fraction(value, weight), x, q) =
                    Fraction(value + q * x, weight + q)
              /\ Fraction(value, weight) # None
          <6>1. value \in Int
            BY <2>12
          <6>2. Grows(value, weight, x, q)
            BY <5>1, <5>2, <6>1, AverageGrows
          <6> QED BY <6>2 DEF Grows
        <5> HIDE DEF r
        <5> QED BY <2>17, <2>19, <5>1, <5>3
      <4>2. CASE ~some
        <5>1. weight = 0 /\ value = 0
          <6>1. \A i \in 1 .. n : ~Counter(e, i)
            BY <2>2, <4>2 DEF some
          <6>2. /\ DOMAIN ClosedQty(e) = 1 .. n /\ DOMAIN ClosedValue(e) = 1 .. n
                /\ \A i \in 1 .. n : ClosedQty(e)[i] = 0 /\ ClosedValue(e)[i] = 0
            BY <2>2, <6>1 DEF ClosedQty, ClosedValue
          <6>3. IsFiniteSet(1 .. n)
            BY <2>2, FS_Interval, SMT
          <6> QED BY <6>2, <6>3, SumOfZeros DEF SumFunction, weight, value
        <5>2. r.avg_px_close = <<x, 1>>
          BY <2>12, <2>17, <2>19, <4>2
        <5> HIDE DEF q, x
        <5>3. q \in Nat \ {0} /\ x \in Int /\ 0 + q * x = q * x /\ 0 + q = q
          BY <1>1, SMT DEF q, x
        <5>4. <<x, 1>> = Fraction(q * x, q)
          <6>1. Grows(0, 1, x, q)
            BY <5>3, AverageGrows, SMT
          <6> QED BY <6>1 DEF Grows
        <5> QED BY <5>1, <5>2, <5>3, <5>4
      <4> QED BY <4>1, <4>2
    <3> QED BY <2>15, <2>16, <2>18, <2>19, <3>1, <3>2 DEF Closing, s
  <2>20. CASE ~against
    <3>1. weight + 0 = weight /\ value + 0 = value
      BY <2>12, SMT
    <3> QED BY <2>12, <2>15, <2>16, <2>17, <2>18, <2>20, <3>1 DEF Closing, s
  <2> QED BY <2>19, <2>20
<1> QED BY <1>4, <1>5

\* Position::apply keeps both books, through reopenings and reversals.
LEMMA ApplyFillBooks ==
    ASSUME NEW p, Ready(p), NEW fill \in FillEvents
    PROVE  /\ Books(ApplyFill(p, fill))
           /\ Coherent(ApplyFill(p, fill))
           /\ ApplyFill(p, fill).signed_qty = p.signed_qty + Change(fill)
<1> DEFINE r == ApplyFill(p, fill)
           c == IF p.side = "Flat" THEN Reopened(p, fill) ELSE p
           a == CommissionAdjustment(fill)
<1>1. IsFill(fill)
  BY FillEventsAreFills
<1>2. /\ Signed(fill) \in Int /\ BaseCommission(fill) \in Int
      /\ Change(fill) = Signed(fill) - BaseCommission(fill)
  BY <1>1, ChangeType DEF Change
<1>3. Shape(r) /\ Coherent(r) /\ r.signed_qty = p.signed_qty + Change(fill)
  BY <1>1, ApplyFillFacts DEF Ready, Books
<1>4. /\ r.events = Append(c.events, fill)
      /\ r.adjustments = IF fill.currency = "Base" THEN Append(c.adjustments, a)
                         ELSE c.adjustments
      /\ r.buy_qty = IF fill.order_side = "Buy" THEN c.buy_qty + fill.last_qty ELSE c.buy_qty
      /\ r.sell_qty = IF fill.order_side = "Sell" THEN c.sell_qty + fill.last_qty
                      ELSE c.sell_qty
      /\ p.side = "Flat" => /\ c.events = << >> /\ c.adjustments = << >>
                            /\ c.buy_qty = 0 /\ c.sell_qty = 0
  BY ApplyFillLogs DEF Ready, Books
<1>5. /\ c.events \in Seq(FillEvents) /\ c.adjustments \in Seq(Adjustments)
      /\ c.buy_qty \in Int /\ c.sell_qty \in Int
      /\ p.signed_qty \in Int
      /\ p.signed_qty = c.buy_qty - c.sell_qty + SumFunction(QuantityChanges(c.adjustments))
      /\ p.signed_qty = SumFunction(Changes(c.events))
  <2>1. CASE p.side = "Flat"
    <3>1. p.signed_qty = 0
      BY <2>1 DEF Ready
    <3>2. << >> \in Seq(FillEvents) /\ << >> \in Seq(Adjustments)
      BY SMT
    <3> HIDE DEF c
    <3>3. c.events = << >> /\ c.adjustments = << >> /\ c.buy_qty = 0 /\ c.sell_qty = 0
      BY <1>4, <2>1
    <3>4. /\ SumFunction(QuantityChanges(c.adjustments)) = 0
          /\ SumFunction(Changes(c.events)) = 0
      BY <3>3, LogSums
    <3> QED BY <3>1, <3>2, <3>3, <3>4, SMTT(60)
  <2>2. CASE p.side # "Flat"
    BY <2>2 DEF Ready, Books, Shape
  <2> QED BY <2>1, <2>2
<1>6. a \in Adjustments /\ a.quantity_change = -BaseCommission(fill)
  BY <1>2, SMT DEF CommissionAdjustment, Adjustments
<1> HIDE DEF r, c, a
<1>7. r.events \in Seq(FillEvents) /\ r.adjustments \in Seq(Adjustments)
  BY <1>4, <1>5, <1>6, SMT
<1>8. r.signed_qty = SumFunction(Changes(r.events))
  BY <1>3, <1>4, <1>5, LogSums
<1>9. /\ r.buy_qty \in Int /\ r.sell_qty \in Int
      /\ r.buy_qty - r.sell_qty = c.buy_qty - c.sell_qty + Signed(fill)
  <2>1. fill.order_side \in {"Buy", "Sell"} /\ fill.last_qty \in Nat
    BY <1>1 DEF IsFill, OrderSide
  <2>2. CASE fill.order_side = "Buy"
    BY <1>4, <1>5, <2>1, <2>2, SMTT(60) DEF Signed
  <2>3. CASE fill.order_side = "Sell"
    BY <1>4, <1>5, <2>1, <2>3, SMT DEF Signed
  <2> QED BY <2>1, <2>2, <2>3
<1> DEFINE before == SumFunction(QuantityChanges(c.adjustments))
           now == SumFunction(QuantityChanges(r.adjustments))
<1>10. before \in Int /\ now = before - BaseCommission(fill)
  <2>1. before \in Int
    BY <1>5, <1>6, LogSums
  <2>2. CASE fill.currency = "Base"
    <3>1. now = before + a.quantity_change
      BY <1>4, <1>5, <1>6, <2>2, LogSums
    <3> HIDE DEF before, now
    <3> QED BY <1>2, <1>6, <2>1, <3>1
  <2>3. CASE fill.currency # "Base"
    <3>1. now = before /\ BaseCommission(fill) = 0
      BY <1>4, <2>3 DEF BaseCommission
    <3> HIDE DEF before, now
    <3> QED BY <2>1, <3>1, SMT
  <2> QED BY <2>2, <2>3
<1>11. p.signed_qty = c.buy_qty - c.sell_qty + before
  BY <1>5
<1> HIDE DEF before, now
<1>12. r.signed_qty = r.buy_qty - r.sell_qty + now
  BY <1>2, <1>3, <1>5, <1>9, <1>10, <1>11, SMTT(60)
<1>13. Profit(r)
  <2>1. fill.last_qty # 0 /\ fill.last_px \in Int /\ Flow(fill) \in Int
    BY FillTerms
  <2>2. /\ Priced(r)
        /\ BaseCommission(fill) = 0 =>
             \A k \in Int :
               (IF p.side = "Flat" THEN k = 0
                ELSE p.realized_pnl = Balance(p.signed_qty, p.avg_px_open, k))
               => r.realized_pnl = Balance(r.signed_qty, r.avg_px_open, k + Flow(fill))
    <3>1. p.side # "Flat" => Priced(p)
      BY DEF Ready, Books, Coherent, Shape, Profit, Priced
    <3> QED BY <1>1, <2>1, <3>1, ApplyFillProfit DEF Ready, Books, r
  <2> DEFINE flows == SumFunction(Flows(c.events))
             paid == SumFunction(Payments(c.adjustments))
  <2>3. /\ flows \in Int /\ SumFunction(Flows(r.events)) = flows + Flow(fill)
        /\ paid \in Int /\ SumFunction(Payments(r.adjustments)) = paid
    <3>1. flows \in Int /\ SumFunction(Flows(r.events)) = flows + Flow(fill)
      BY <1>4, <1>5, LogSums
    <3>2. paid \in Int /\ SumFunction(Payments(Append(c.adjustments, a))) = paid + a.pnl_change
      BY <1>5, <1>6, LogSums
    <3>3. a.pnl_change = 0
      BY DEF a, CommissionAdjustment
    <3> HIDE DEF flows, paid
    <3>4. paid + a.pnl_change = paid
      BY <3>2, <3>3, SMT
    <3> QED BY <1>4, <3>1, <3>2, <3>4 DEF paid
  <2>4. ASSUME \A i \in DOMAIN r.events : BaseCommission(r.events[i]) = 0
        PROVE  /\ BaseCommission(fill) = 0
               /\ \A i \in DOMAIN c.events : BaseCommission(c.events[i]) = 0
    <3> DEFINE n == Len(c.events)
    <3>1. /\ n \in Nat /\ DOMAIN c.events = 1 .. n /\ DOMAIN r.events = 1 .. n + 1
          /\ r.events[n + 1] = fill /\ \A i \in 1 .. n : r.events[i] = c.events[i]
      BY <1>4, <1>5, SMT
    <3> HIDE DEF n
    <3>2. n + 1 \in DOMAIN r.events /\ \A i \in 1 .. n : i \in DOMAIN r.events
      BY <3>1, SMT
    <3> QED BY <2>4, <3>1, <3>2
  <2>5. ASSUME \A i \in DOMAIN c.events : BaseCommission(c.events[i]) = 0
        PROVE  IF p.side = "Flat" THEN flows + paid = 0
               ELSE p.realized_pnl = Balance(p.signed_qty, p.avg_px_open, flows + paid)
    <3>1. CASE p.side = "Flat"
      <4>1. c.events = << >> /\ c.adjustments = << >>
        BY <1>4, <3>1
      <4>2. flows = 0 /\ paid = 0
        BY <4>1, LogSums
      <4> QED BY <3>1, <4>2, SMT
    <3>2. CASE p.side # "Flat"
      <4>1. c = p
        BY <3>2 DEF c
      <4> QED BY <2>5, <3>2, <4>1 DEF Ready, Books, Profit
    <3> QED BY <3>1, <3>2
  <2> HIDE DEF flows, paid
  <2>6. flows + paid \in Int /\ (flows + paid) + Flow(fill) = (flows + Flow(fill)) + paid
    BY <2>1, <2>3, SMT
  <2>7. ASSUME \A i \in DOMAIN r.events : BaseCommission(r.events[i]) = 0
        PROVE  r.realized_pnl = Balance(r.signed_qty, r.avg_px_open, (flows + Flow(fill)) + paid)
    BY <2>2, <2>4, <2>5, <2>6, <2>7
  <2> QED BY <2>2, <2>3, <2>7 DEF Profit, Priced
<1>14. Books(r)
  BY <1>3, <1>7, <1>8, <1>9, <1>12, <1>13, ApplyFillClosing DEF Books, now, r
<1> QED BY <1>3, <1>14 DEF r

\* The books of a position without fills.
LEMMA BlankBooks ==
    ASSUME NEW p, Shape(p), p.events = << >>, p.adjustments = << >>, p.signed_qty = 0,
           p.buy_qty = 0, p.sell_qty = 0, IsFraction(p.avg_px_open), p.realized_pnl = <<0, 1>>,
           p.avg_px_close = None
    PROVE  Books(p)
<1>1. p.events \in Seq(FillEvents) /\ p.adjustments \in Seq(Adjustments)
  BY SMT
<1>2. /\ SumFunction(QuantityChanges(p.adjustments)) = 0
      /\ SumFunction(Changes(p.events)) = 0
  BY LogSums
<1>3. Profit(p)
  <2>1. SumFunction(Flows(p.events)) = 0 /\ SumFunction(Payments(p.adjustments)) = 0
    BY LogSums
  <2>2. Balance(0, p.avg_px_open, 0) = <<0, 1>> /\ Reduced(<<0, 1>>)
    BY NothingHeld, ReducedResults, SMT
  <2> QED BY <2>1, <2>2, SMT DEF Profit
<1>4. Closing(p)
  <2>1. DOMAIN p.events = {} /\ IsFiniteSet({})
    BY FS_EmptySet, SMT
  <2>2. DOMAIN ClosedQty(p.events) = {} /\ DOMAIN ClosedValue(p.events) = {}
    BY <2>1 DEF ClosedQty, ClosedValue
  <2>3. SumFunction(ClosedQty(p.events)) = 0 /\ SumFunction(ClosedValue(p.events)) = 0
    BY <2>1, <2>2, SumType DEF SumFunction
  <2> QED BY <2>1, <2>3, SMTT(60) DEF Closing
<1> QED BY <1>1, <1>2, <1>3, <1>4, SMTT(60) DEF Books

\* Position::new keeps them, starting from a blank record.
LEMMA NewPositionBooks ==
    ASSUME NEW fill \in FillEvents
    PROVE  Books(NewPosition(fill)) /\ Coherent(NewPosition(fill))
<1> DEFINE blank ==
      [events |-> << >>, adjustments |-> << >>, buy_qty |-> 0, sell_qty |-> 0,
       opening_order_id |-> fill.client_order_id, closing_order_id |-> None,
       entry |-> fill.order_side, side |-> "Flat", signed_qty |-> 0,
       quantity |-> fill.last_qty, peak_qty |-> fill.last_qty, ts_closed |-> FALSE,
       avg_px_open |-> <<fill.last_px, 1>>, avg_px_close |-> None,
       realized_pnl |-> <<0, 1>>]
<1>1. IsFill(fill)
  BY FillEventsAreFills
<1>2. Shape(blank) /\ blank.side = "Flat" /\ blank.signed_qty = 0
  BY <1>1, SMTT(60) DEF Shape, PositionFields, IsFill, PositionSide
<1>3. /\ blank.events = << >> /\ blank.adjustments = << >>
      /\ blank.buy_qty = 0 /\ blank.sell_qty = 0
      /\ IsFraction(blank.avg_px_open) /\ blank.realized_pnl = <<0, 1>>
      /\ blank.avg_px_close = None
  BY FillTerms, WorthOfInteger, SMTT(60)
<1>4. NewPosition(fill) = ApplyFill(blank, fill)
  BY DEF NewPosition
<1> HIDE DEF blank
<1>5. Ready(blank)
  BY <1>2, <1>3, BlankBooks DEF Ready
<1> QED BY <1>4, <1>5, ApplyFillBooks

\* A payment, and every adjustment but for a commission, changes nothing of the quantity.
LEMMA FundBooks ==
    ASSUME NEW p, Books(p), Coherent(p), NEW adj \in Adjustments, adj.quantity_change = 0
    PROVE  LET r == apply_adjustment(p, adj)
           IN Books(r) /\ Coherent(r) /\ r.signed_qty = p.signed_qty /\ r.events = p.events
<1> DEFINE r == apply_adjustment(p, adj)
<1>1. Shape(p) /\ p.signed_qty \in Int
  BY DEF Books, Shape
<1>2. p.signed_qty + adj.quantity_change = p.signed_qty
  BY <1>1, SMT
<1>3. DOMAIN r = PositionFields /\ r = [f \in PositionFields |-> r[f]]
  BY <1>1 DEF apply_adjustment, Shape, PositionFields
<1>4. \A f \in {"quantity", "peak_qty", "entry", "ts_closed", "events", "buy_qty", "sell_qty"} :
         r[f] = p[f]
  BY <1>1 DEF apply_adjustment, Shape, PositionFields
<1>5. r.signed_qty = p.signed_qty + adj.quantity_change
  BY <1>1 DEF apply_adjustment, Shape, PositionFields
<1>6. r.side = SideOf(p.signed_qty + adj.quantity_change)
  BY <1>1 DEF apply_adjustment, Shape, PositionFields
<1>7. /\ r.adjustments = Append(p.adjustments, adj)
      /\ r.avg_px_open = p.avg_px_open
      /\ r.avg_px_close = p.avg_px_close
      /\ r.realized_pnl = Plus(p.realized_pnl, <<adj.pnl_change, 1>>)
  BY <1>1 DEF apply_adjustment, Shape, PositionFields
<1> HIDE DEF r
<1>8. /\ r.signed_qty = p.signed_qty /\ r.side = p.side
      /\ r.quantity = p.quantity /\ r.peak_qty = p.peak_qty /\ r.entry = p.entry
      /\ r.ts_closed = p.ts_closed /\ r.events = p.events
      /\ r.buy_qty = p.buy_qty /\ r.sell_qty = p.sell_qty
  BY <1>2, <1>4, <1>5, <1>6 DEF Coherent
<1>9. Shape(r) /\ Coherent(r)
  BY <1>1, <1>3, <1>8 DEF Shape, Coherent
<1>10. /\ r.adjustments \in Seq(Adjustments)
       /\ SumFunction(QuantityChanges(r.adjustments)) = SumFunction(QuantityChanges(p.adjustments))
  <2>1. p.adjustments \in Seq(Adjustments)
    BY DEF Books
  <2>2. /\ SumFunction(QuantityChanges(p.adjustments)) \in Int
        /\ SumFunction(QuantityChanges(r.adjustments)) =
              SumFunction(QuantityChanges(p.adjustments)) + adj.quantity_change
    BY <1>7, <2>1, LogSums
  <2> QED BY <1>7, <2>1, <2>2, SMT
<1>11. Profit(r)
  <2> DEFINE flows == SumFunction(Flows(p.events))
             paid == SumFunction(Payments(p.adjustments))
             x == p.avg_px_open
             k == adj.pnl_change
  <2>1. k \in Int /\ p.adjustments \in Seq(Adjustments) /\ p.events \in Seq(FillEvents)
    BY DEF Adjustments, Books
  <2>2. paid \in Int /\ SumFunction(Payments(r.adjustments)) = paid + k
    BY <1>7, <2>1, LogSums
  <2>3. flows \in Int
    BY <2>1, FlowsType
  <2>4. Profit(p) /\ IsFraction(x) /\ IsFraction(p.realized_pnl) /\ IsFraction(<<k, 1>>)
    <3>1. Profit(p)
      BY DEF Books
    <3> QED BY <2>1, <3>1, ReducedIs, WorthOfInteger, SMTT(60) DEF Profit
  <2>5. IsFraction(r.avg_px_open) /\ Reduced(r.realized_pnl)
    BY <1>7, <2>4, ReducedResults
  <2> HIDE DEF flows, paid, x, k
  <2>6. flows + paid \in Int /\ (flows + paid) + k = flows + (paid + k)
    BY <2>1, <2>2, <2>3, SMT
  <2>7. Plus(Balance(p.signed_qty, x, flows + paid), <<k, 1>>) =
           Balance(p.signed_qty, x, (flows + paid) + k)
    BY <1>1, <2>1, <2>4, <2>6, CashAdded, SMT
  <2>8. (\A i \in DOMAIN p.events : BaseCommission(p.events[i]) = 0) =>
           p.realized_pnl = Balance(p.signed_qty, x, flows + paid)
    BY <2>4 DEF Profit, flows, paid, x
  <2>9. /\ r.realized_pnl = Plus(p.realized_pnl, <<k, 1>>) /\ r.avg_px_open = x
        /\ r.events = p.events /\ r.signed_qty = p.signed_qty
    BY <1>7, <1>8 DEF k, x
  <2>10. SumFunction(Flows(r.events)) + SumFunction(Payments(r.adjustments)) = flows + (paid + k)
    BY <2>2, <2>9 DEF flows
  <2> QED BY <2>5, <2>6, <2>7, <2>8, <2>9, <2>10 DEF Profit
<1>12. Closing(r)
  BY <1>7, <1>8 DEF Books, Closing
<1>13. Books(r)
  BY <1>8, <1>9, <1>10, <1>11, <1>12 DEF Books
<1> QED BY <1>8, <1>9, <1>13 DEF r

-----------------------------------------------------------------------------
\* The positions that a replay passes through.
IsReplay(after, p, events, kept) ==
    /\ after[0] = p
    /\ \A n \in 1 .. Len(events) :
          after[n] = IF n \in kept THEN ApplyFill(after[n - 1], events[n]) ELSE after[n - 1]

\* The replay is defined: what each step of it yields is what the step before it yielded
\* with one more fill.
LEMMA ReplayedIs ==
    ASSUME NEW p, NEW events \in Seq(FillEvents), NEW kept
    PROVE  IsReplay(Replayed(p, events, kept), p, events, kept)
<1> DEFINE F(f, m) == [n \in 0 .. m |->
                         IF n = 0 THEN p
                         ELSE IF n \in kept THEN ApplyFill(f[n - 1], events[n]) ELSE f[n - 1]]
           Bad == {m \in Nat : ~ \E f : f = F(f, m)}
           iter == CHOOSE f : f = F(f, Len(events))
<1>1. Replayed(p, events, kept) = iter
  BY DEF Replayed
<1>2. ASSUME NEW m \in Bad, \A y \in Bad : m <= y
      PROVE  FALSE
  <2>1. m \in Nat /\ ~ \E f : f = F(f, m)
    OBVIOUS
  <2>2. m # 0
    <3> DEFINE f == [n \in 0 .. 0 |-> p]
    <3>1. f = F(f, 0)
      BY SMT
    <3> QED BY <2>1, <3>1
  <2>3. m - 1 \in Nat /\ m - 1 \notin Bad
    <3> HIDE DEF Bad
    <3> QED BY <1>2, <2>1, <2>2, SMT
  <2>4. PICK g : g = F(g, m - 1)
    BY <2>3
  <2> DEFINE last == IF m \in kept THEN ApplyFill(g[m - 1], events[m]) ELSE g[m - 1]
             h == [n \in 0 .. m |-> IF n < m THEN g[n] ELSE last]
  <2>5. \A n \in 0 .. m : n < m => n \in 0 .. m - 1
    BY <2>1, SMT
  <2>6. \A n \in 0 .. m : h[n] = F(h, m)[n]
    <3> TAKE n \in 0 .. m
    <3>1. CASE n = 0
      BY <2>1, <2>2, <2>4, <2>5, <3>1, SMT
    <3>2. CASE n # 0 /\ n < m
      <4>1. n \in 0 .. m - 1 /\ n - 1 \in 0 .. m /\ n - 1 < m
        BY <2>1, <3>2, SMT
      <4>2. h[n] = g[n] /\ h[n - 1] = g[n - 1]
        BY <3>2, <4>1
      <4>3. g[n] = IF n \in kept THEN ApplyFill(g[n - 1], events[n]) ELSE g[n - 1]
        BY <2>4, <3>2, <4>1
      <4> HIDE DEF h
      <4> QED BY <3>2, <4>2, <4>3
    <3>3. CASE n = m
      <4>1. m - 1 \in 0 .. m /\ m - 1 < m /\ m \in 0 .. m /\ ~(m < m)
        BY <2>1, <2>2, SMT
      <4>2. h[m] = last /\ h[m - 1] = g[m - 1]
        BY <4>1
      <4> HIDE DEF h
      <4> QED BY <2>2, <3>3, <4>2
    <3> QED BY <2>1, <3>1, <3>2, <3>3, SMTT(60)
  <2>7. h = F(h, m)
    BY <2>6
  <2> HIDE DEF h, F
  <2> QED BY <2>1, <2>7
<1>3. Bad = {}
  BY <1>2, LeastElement
<1>4. Len(events) \in Nat
  BY SMT
<1>5. iter = F(iter, Len(events))
  <2>1. \E f : f = F(f, Len(events))
    BY <1>3, <1>4
  <2> HIDE DEF F
  <2> QED BY <2>1
<1> HIDE DEF iter
<1>6. /\ iter[0] = p
      /\ \A n \in 1 .. Len(events) :
            iter[n] = IF n \in kept THEN ApplyFill(iter[n - 1], events[n]) ELSE iter[n - 1]
  BY <1>4, <1>5, SMTT(60)
<1> QED BY <1>1, <1>6 DEF IsReplay

\* The same of the adjustments.
LEMMA ReadjustedIs ==
    ASSUME NEW p, NEW adjustments \in Seq(Adjustments), NEW kept
    PROVE  LET after == Readjusted(p, adjustments, kept)
           IN /\ after[0] = p
              /\ \A n \in 1 .. Len(adjustments) :
                    after[n] = IF n \in kept THEN apply_adjustment(after[n - 1], adjustments[n])
                               ELSE after[n - 1]
<1> DEFINE F(f, m) == [n \in 0 .. m |->
                         IF n = 0 THEN p
                         ELSE IF n \in kept THEN apply_adjustment(f[n - 1], adjustments[n])
                         ELSE f[n - 1]]
           Bad == {m \in Nat : ~ \E f : f = F(f, m)}
           iter == CHOOSE f : f = F(f, Len(adjustments))
<1>1. Readjusted(p, adjustments, kept) = iter
  BY DEF Readjusted
<1>2. ASSUME NEW m \in Bad, \A y \in Bad : m <= y
      PROVE  FALSE
  <2>1. m \in Nat /\ ~ \E f : f = F(f, m)
    OBVIOUS
  <2>2. m # 0
    <3> DEFINE f == [n \in 0 .. 0 |-> p]
    <3>1. f = F(f, 0)
      BY SMT
    <3> QED BY <2>1, <3>1
  <2>3. m - 1 \in Nat /\ m - 1 \notin Bad
    <3> HIDE DEF Bad
    <3> QED BY <1>2, <2>1, <2>2, SMT
  <2>4. PICK g : g = F(g, m - 1)
    BY <2>3
  <2> DEFINE last == IF m \in kept THEN apply_adjustment(g[m - 1], adjustments[m]) ELSE g[m - 1]
             h == [n \in 0 .. m |-> IF n < m THEN g[n] ELSE last]
  <2>5. \A n \in 0 .. m : n < m => n \in 0 .. m - 1
    BY <2>1, SMT
  <2>6. \A n \in 0 .. m : h[n] = F(h, m)[n]
    <3> TAKE n \in 0 .. m
    <3>1. CASE n = 0
      BY <2>1, <2>2, <2>4, <2>5, <3>1, SMT
    <3>2. CASE n # 0 /\ n < m
      <4>1. n \in 0 .. m - 1 /\ n - 1 \in 0 .. m /\ n - 1 < m
        BY <2>1, <3>2, SMT
      <4>2. h[n] = g[n] /\ h[n - 1] = g[n - 1]
        BY <3>2, <4>1
      <4>3. g[n] = IF n \in kept THEN apply_adjustment(g[n - 1], adjustments[n]) ELSE g[n - 1]
        BY <2>4, <3>2, <4>1
      <4> HIDE DEF h
      <4> QED BY <3>2, <4>2, <4>3
    <3>3. CASE n = m
      <4>1. m - 1 \in 0 .. m /\ m - 1 < m /\ m \in 0 .. m /\ ~(m < m)
        BY <2>1, <2>2, SMT
      <4>2. h[m] = last /\ h[m - 1] = g[m - 1]
        BY <4>1
      <4> HIDE DEF h
      <4> QED BY <2>2, <3>3, <4>2
    <3> QED BY <2>1, <3>1, <3>2, <3>3, SMTT(60)
  <2>7. h = F(h, m)
    BY <2>6
  <2> HIDE DEF h, F
  <2> QED BY <2>1, <2>7
<1>3. Bad = {}
  BY <1>2, LeastElement
<1>4. Len(adjustments) \in Nat
  BY SMT
<1>5. iter = F(iter, Len(adjustments))
  <2>1. \E f : f = F(f, Len(adjustments))
    BY <1>3, <1>4
  <2> HIDE DEF F
  <2> QED BY <2>1
<1> HIDE DEF iter
<1>6. /\ iter[0] = p
      /\ \A n \in 1 .. Len(adjustments) :
            iter[n] = IF n \in kept THEN apply_adjustment(iter[n - 1], adjustments[n])
                      ELSE iter[n - 1]
  BY <1>4, <1>5, SMTT(60)
<1> QED BY <1>1, <1>6

\* What the replay of some fills, here those of all orders but c, makes of a blank position:
\* it holds the sum of their changes, wherever it passes through flat on the way, and no
\* fill of c is in its log.
Replay(r, events, c) ==
    /\ Books(r) /\ Coherent(r)
    /\ r.signed_qty = SumFunctionOnSet(Others(events, c), DOMAIN events)
    /\ \A i \in DOMAIN r.events : r.events[i].client_order_id # c

LEMMA ReplayedBooks ==
    ASSUME NEW p, Ready(p), p.signed_qty = 0, p.events = << >>,
           NEW events \in Seq(FillEvents), NEW c,
           Remaining(events, c) # {}
    PROVE  Replay(Replayed(p, events, Remaining(events, c))[Len(events)], events, c)
<1> DEFINE m == Len(events)
           kept == Remaining(events, c)
           w == Others(events, c)
           after == Replayed(p, events, kept)
           Good(q, n) ==
              /\ Ready(q)
              /\ (\E i \in kept : i <= n) => Coherent(q)
              /\ q.signed_qty = SumFunctionOnSet(w, 1 .. n)
              /\ \A i \in DOMAIN q.events : q.events[i].client_order_id # c
<1>1. /\ m \in Nat /\ DOMAIN events = 1 .. m
      /\ \A n \in 1 .. m :
            /\ events[n] \in FillEvents
            /\ w[n] = IF events[n].client_order_id = c THEN 0 ELSE Change(events[n])
  <2>1. m \in Nat /\ DOMAIN events = 1 .. m /\ \A n \in 1 .. m : events[n] \in FillEvents
    BY SMT
  <2> HIDE DEF m
  <2> QED BY <2>1 DEF Others
<1>1a. \A n : n \in kept <=> n \in DOMAIN events /\ events[n].client_order_id # c
  BY DEF Remaining
<1> HIDE DEF w, kept
<1>2. /\ after[0] = p
      /\ \A n \in 1 .. m :
            after[n] = IF n \in kept THEN ApplyFill(after[n - 1], events[n]) ELSE after[n - 1]
  <2>1. IsReplay(after, p, events, kept)
    BY ReplayedIs
  <2> QED BY <2>1 DEF IsReplay
<1> HIDE DEF after
<1>3. \A n \in 1 .. m : Change(events[n]) \in Int /\ w[n] \in Int
  <2>1. \A n \in 1 .. m : Change(events[n]) \in Int
    BY <1>1, FillEventsAreFills, ChangeType
  <2> QED BY <1>1, <2>1, SMT
<1> HIDE DEF m
<1>4. Good(after[0], 0)
  <2>1. SumFunctionOnSet(w, 1 .. 0) = 0
    <3>1. 1 .. 0 = {} /\ IsFiniteSet({})
      BY FS_EmptySet, SMT
    <3> QED BY <3>1, SumType
  <2>2. \A i \in kept : ~(i <= 0)
    BY <1>1, <1>1a, SMT
  <2>3. DOMAIN p.events = {}
    BY SMT
  <2> QED BY <1>2, <2>1, <2>2, <2>3
<1>5. ASSUME NEW n \in 1 .. m, Good(after[n - 1], n - 1)
      PROVE  Good(after[n], n)
  <2> DEFINE q == after[n - 1]
  <2>1. /\ n - 1 \in Nat /\ (n - 1) + 1 = n /\ n \in Nat
        /\ SumFunctionOnSet(w, 1 .. n - 1) \in Int
        /\ SumFunctionOnSet(w, 1 .. n) = SumFunctionOnSet(w, 1 .. n - 1) + w[n]
    <3>1. n - 1 \in Nat /\ (n - 1) + 1 = n /\ n \in Nat /\ 1 .. n \subseteq 1 .. m
      BY <1>1, SMT
    <3> DEFINE k == n - 1
    <3>2. \A i \in 1 .. k + 1 : w[i] \in Int
      BY <1>3, <3>1
    <3> HIDE DEF k
    <3>3. /\ SumFunctionOnSet(w, 1 .. k) \in Int
          /\ SumFunctionOnSet(w, 1 .. k + 1) = SumFunctionOnSet(w, 1 .. k) + w[k + 1]
      BY <3>1, <3>2, SumUpto DEF k
    <3> QED BY <3>1, <3>3 DEF k
  <2>2. CASE n \in kept
    <3> DEFINE r == ApplyFill(q, events[n])
    <3>1. after[n] = r /\ events[n] \in FillEvents /\ w[n] = Change(events[n])
      BY <1>1, <1>1a, <1>2, <2>2
    <3>2. Books(r) /\ Coherent(r) /\ r.signed_qty = q.signed_qty + Change(events[n])
      BY <1>5, <3>1, ApplyFillBooks
    <3>3. Ready(r)
      BY <3>2, CoherentReady
    <3>4. \A i \in DOMAIN r.events : r.events[i].client_order_id # c
      <4> DEFINE b == IF q.side = "Flat" THEN Reopened(q, events[n]) ELSE q
      <4>1. /\ r.events = Append(b.events, events[n])
            /\ q.side = "Flat" => b.events = << >>
        <5>1. Shape(q)
          BY <1>5 DEF Ready, Books
        <5> HIDE DEF q
        <5> QED BY <5>1, ApplyFillLogs
      <4>2. /\ b.events \in Seq(FillEvents)
            /\ \A i \in DOMAIN b.events : b.events[i].client_order_id # c
        <5>1. CASE q.side = "Flat"
          <6>1. b.events = << >>
            BY <4>1, <5>1
          <6> HIDE DEF b
          <6> QED BY <6>1, SMT
        <5>2. CASE q.side # "Flat"
          <6>1. b = q
            BY <5>2
          <6> QED BY <1>5, <6>1 DEF Ready, Books
        <5> QED BY <5>1, <5>2
      <4>3. events[n].client_order_id # c
        BY <1>1a, <2>2
      <4> HIDE DEF b, r, q
      <4>4. \A i \in DOMAIN r.events : \/ i \in DOMAIN b.events /\ r.events[i] = b.events[i]
                                       \/ r.events[i] = events[n]
        BY <4>1, <4>2, SMT
      <4> QED BY <4>2, <4>3, <4>4
    <3> HIDE DEF r, q
    <3>5. r.signed_qty = SumFunctionOnSet(w, 1 .. n)
      BY <1>5, <2>1, <3>1, <3>2 DEF q
    <3> QED BY <3>1, <3>2, <3>3, <3>4, <3>5
  <2>3. CASE n \notin kept
    <3>1. after[n] = q
      BY <1>2, <2>3
    <3>2. w[n] = 0
      BY <1>1, <1>1a, <2>3
    <3>3. SumFunctionOnSet(w, 1 .. n) = SumFunctionOnSet(w, 1 .. n - 1)
      BY <2>1, <3>2, SMT
    <3>4. (\E i \in kept : i <= n) => \E i \in kept : i <= n - 1
      BY <1>1, <1>1a, <2>1, <2>3, SMT
    <3> QED BY <1>5, <3>1, <3>3, <3>4
  <2> QED BY <2>2, <2>3
<1> DEFINE Bad == {n \in Nat : n <= m /\ ~Good(after[n], n)}
<1>6. ASSUME NEW n \in Bad, \A y \in Bad : n <= y
      PROVE  FALSE
  <2> HIDE DEF Good
  <2>1. n \in Nat /\ n <= m /\ ~Good(after[n], n)
    OBVIOUS
  <2>2. n # 0
    BY <1>4, <2>1
  <2>3. n - 1 \in Nat /\ n - 1 \notin Bad /\ n - 1 <= m /\ n \in 1 .. m
    <3>1. n - 1 \in Nat /\ n - 1 <= m /\ n \in 1 .. m
      BY <1>1, <2>1, <2>2, SMT
    <3> HIDE DEF Bad
    <3> QED BY <1>6, <2>1, <3>1, SMT
  <2>4. Good(after[n - 1], n - 1)
    BY <2>3
  <2> QED BY <1>5, <2>1, <2>3, <2>4
<1>7. Bad = {}
  BY <1>6, LeastElement
<1>8. Good(after[m], m)
  <2> HIDE DEF Good
  <2> QED BY <1>1, <1>7, SMT
<1>9. \E i \in kept : i <= m
  BY <1>1, <1>1a, SMT DEF kept
<1> QED BY <1>1, <1>2, <1>8, <1>9 DEF Ready, w, kept, after, m, Replay

\* Applying adjustments that are not for a commission changes no quantity and no fill.
LEMMA ReadjustedBooks ==
    ASSUME NEW p, Books(p), Coherent(p), NEW adjustments \in Seq(Adjustments),
           NEW kept, \A n \in kept : n \in DOMAIN adjustments /\ adjustments[n].quantity_change = 0
    PROVE  LET r == Readjusted(p, adjustments, kept)[Len(adjustments)]
           IN Books(r) /\ Coherent(r) /\ r.signed_qty = p.signed_qty /\ r.events = p.events
<1> DEFINE m == Len(adjustments)
           after == Readjusted(p, adjustments, kept)
           Good(q) == Books(q) /\ Coherent(q) /\ q.signed_qty = p.signed_qty /\ q.events = p.events
<1>1. m \in Nat /\ DOMAIN adjustments = 1 .. m /\ \A n \in 1 .. m : adjustments[n] \in Adjustments
  BY SMT
<1>2. /\ after[0] = p
      /\ \A n \in 1 .. m :
            after[n] = IF n \in kept THEN apply_adjustment(after[n - 1], adjustments[n])
                       ELSE after[n - 1]
  BY ReadjustedIs, SMT
<1> HIDE DEF m, after
<1>3. Good(after[0])
  BY <1>2
<1>4. ASSUME NEW n \in 1 .. m, Good(after[n - 1])
      PROVE  Good(after[n])
  <2>1. CASE n \in kept
    <3> DEFINE q == after[n - 1]
               r == apply_adjustment(q, adjustments[n])
    <3>1. after[n] = r
      BY <1>2, <2>1
    <3>2. adjustments[n] \in Adjustments /\ adjustments[n].quantity_change = 0
      BY <1>1, <2>1
    <3>3. Books(r) /\ Coherent(r) /\ r.signed_qty = q.signed_qty /\ r.events = q.events
      BY <1>4, <3>2, FundBooks
    <3> QED BY <1>4, <3>1, <3>3
  <2>2. CASE n \notin kept
    BY <1>2, <1>4, <2>2
  <2> QED BY <2>1, <2>2
<1> DEFINE Bad == {n \in Nat : n <= m /\ ~Good(after[n])}
<1>5. ASSUME NEW n \in Bad, \A y \in Bad : n <= y
      PROVE  FALSE
  <2> HIDE DEF Good
  <2>1. n \in Nat /\ n <= m /\ ~Good(after[n])
    OBVIOUS
  <2>2. n # 0
    BY <1>3, <2>1
  <2>3. n - 1 \in Nat /\ n - 1 \notin Bad /\ n - 1 <= m /\ n \in 1 .. m
    <3>1. n - 1 \in Nat /\ n - 1 <= m /\ n \in 1 .. m
      BY <1>1, <2>1, <2>2, SMT
    <3> HIDE DEF Bad
    <3> QED BY <1>5, <2>1, <3>1, SMT
  <2>4. Good(after[n - 1])
    BY <2>3
  <2> QED BY <1>4, <2>1, <2>3, <2>4
<1>6. Bad = {}
  BY <1>5, LeastElement
<1>7. Good(after[m])
  <2> HIDE DEF Good
  <2> QED BY <1>1, <1>6, SMT
<1> QED BY <1>7 DEF after, m

\* The sum over the fills of one order and the sum over those of the others are together
\* the sum over all.
LEMMA ContributionSplits ==
    ASSUME NEW p, p.events \in Seq(FillEvents), NEW c
    PROVE  /\ SumFunctionOnSet(Others(p.events, c), DOMAIN p.events) =
                 SumFunction(Changes(p.events)) - Contribution(p, c)
           /\ SumFunction(Changes(p.events)) \in Int
           /\ Contribution(p, c) \in Int
<1> DEFINE e == p.events
           m == Len(e)
           u == Changes(e)
           v == [n \in DOMAIN e |-> IF e[n].client_order_id = c
                                    THEN Signed(e[n]) - BaseCommission(e[n]) ELSE 0]
           w == Others(e, c)
           Good(n) == SumFunctionOnSet(w, 1 .. n) =
                         SumFunctionOnSet(u, 1 .. n) - SumFunctionOnSet(v, 1 .. n)
<1>1. m \in Nat /\ DOMAIN e = 1 .. m /\ \A n \in 1 .. m : e[n] \in FillEvents
  BY SMT
<1> HIDE DEF e, m
<1>2. /\ DOMAIN u = 1 .. m /\ DOMAIN v = 1 .. m /\ DOMAIN w = 1 .. m
      /\ \A n \in 1 .. m : u[n] \in Int /\ v[n] \in Int /\ w[n] \in Int /\ w[n] = u[n] - v[n]
  <2>1. \A n \in 1 .. m : Change(e[n]) \in Int /\ Change(e[n]) = Signed(e[n]) - BaseCommission(e[n])
    BY <1>1, FillEventsAreFills, ChangeType DEF Change
  <2> QED BY <1>1, <2>1, SMT DEF Changes, Others
<1> HIDE DEF u, v, w
<1>3. Good(0)
  <2>1. 1 .. 0 = {} /\ IsFiniteSet({})
    BY FS_EmptySet, SMT
  <2> QED BY <2>1, SumType, SMT
<1>4. ASSUME NEW n \in Nat, n + 1 <= m, Good(n)
      PROVE  Good(n + 1)
  <2>1. /\ n + 1 \in 1 .. m
        /\ \A i \in 1 .. n + 1 : u[i] \in Int /\ v[i] \in Int /\ w[i] \in Int
    BY <1>1, <1>2, <1>4, SMT
  <2>2. /\ SumFunctionOnSet(u, 1 .. n) \in Int
        /\ SumFunctionOnSet(u, 1 .. n + 1) = SumFunctionOnSet(u, 1 .. n) + u[n + 1]
    BY <2>1, SumUpto
  <2>3. /\ SumFunctionOnSet(v, 1 .. n) \in Int
        /\ SumFunctionOnSet(v, 1 .. n + 1) = SumFunctionOnSet(v, 1 .. n) + v[n + 1]
    BY <2>1, SumUpto
  <2>4. /\ SumFunctionOnSet(w, 1 .. n) \in Int
        /\ SumFunctionOnSet(w, 1 .. n + 1) = SumFunctionOnSet(w, 1 .. n) + w[n + 1]
    BY <2>1, SumUpto
  <2>5. w[n + 1] = u[n + 1] - v[n + 1] /\ u[n + 1] \in Int /\ v[n + 1] \in Int
    BY <1>2, <2>1
  <2> QED BY <1>4, <2>2, <2>3, <2>4, <2>5, SMT
<1> DEFINE Bad == {n \in Nat : n <= m /\ ~Good(n)}
<1>5. ASSUME NEW n \in Bad, \A y \in Bad : n <= y
      PROVE  FALSE
  <2> HIDE DEF Good
  <2>1. n \in Nat /\ n <= m /\ ~Good(n)
    OBVIOUS
  <2>2. n # 0
    BY <1>3, <2>1
  <2>3. n - 1 \in Nat /\ n - 1 \notin Bad /\ n - 1 <= m /\ (n - 1) + 1 = n
    <3>1. n - 1 \in Nat /\ n - 1 <= m /\ (n - 1) + 1 = n
      BY <1>1, <2>1, <2>2, SMT
    <3> HIDE DEF Bad
    <3> QED BY <1>5, <2>1, <3>1, SMT
  <2>4. Good(n - 1)
    BY <2>3
  <2>5. Good((n - 1) + 1)
    BY <1>4, <2>1, <2>3, <2>4
  <2> QED BY <2>1, <2>3, <2>5
<1>6. Bad = {}
  BY <1>5, LeastElement
<1>7. Good(m)
  <2> HIDE DEF Good
  <2> QED BY <1>1, <1>6, SMT
<1>8. SumFunctionOnSet(u, 1 .. m) \in Int /\ SumFunctionOnSet(v, 1 .. m) \in Int
  <2>1. IsFiniteSet(1 .. m)
    BY <1>1, FS_Interval, SMT
  <2> QED BY <1>2, <2>1, SumType
<1>9. SumFunction(u) = SumFunctionOnSet(u, 1 .. m) /\ SumFunction(v) = SumFunctionOnSet(v, 1 .. m)
  BY <1>2 DEF SumFunction
<1>10. Contribution(p, c) = SumFunction(v)
  BY DEF Contribution, v, e
<1> QED BY <1>1, <1>7, <1>8, <1>9, <1>10 DEF u, w, e

\* Purging an order leaves a position in order, with the fills of the others only.
LEMMA PurgeBooks ==
    ASSUME NEW p, Books(p), Coherent(p), NEW c \in ClientOrderIds
    PROVE  LET r == purge_events_for_order(p, c)
           IN /\ Books(r) /\ Coherent(r)
              /\ r.signed_qty = p.signed_qty - Contribution(p, c)
              /\ \A i \in DOMAIN r.events : r.events[i].client_order_id # c
<1> DEFINE e == p.events
           kept == Remaining(e, c)
           w == Others(e, c)
           r == purge_events_for_order(p, c)
<1>1. /\ e \in Seq(FillEvents) /\ p.adjustments \in Seq(Adjustments)
      /\ DOMAIN p = PositionFields
      /\ p.peak_qty \in Nat /\ p.entry \in OrderSide
  BY DEF Books, Shape
<1>2. /\ SumFunctionOnSet(w, DOMAIN e) = p.signed_qty - Contribution(p, c)
      /\ p.signed_qty \in Int /\ Contribution(p, c) \in Int
  BY <1>1, ContributionSplits DEF Books
<1>3. \A n : n \in kept <=> n \in DOMAIN e /\ e[n].client_order_id # c
  BY DEF Remaining
<1>5. CASE kept = {}
  <2>1. r = Emptied(p)
    BY <1>5 DEF purge_events_for_order
  <2>2. SumFunctionOnSet(w, DOMAIN e) = 0
    <3>1. \A n \in DOMAIN e : e[n].client_order_id = c
      BY <1>3, <1>5
    <3>2. \A n \in DOMAIN e : w[n] = 0
      BY <3>1 DEF Others
    <3>3. IsFiniteSet(DOMAIN e)
      <4>1. DOMAIN e = 1 .. Len(e) /\ Len(e) \in Nat
        BY <1>1, SMT
      <4> QED BY <4>1, FS_Interval, SMT
    <3> HIDE DEF w, e
    <3> QED BY <3>2, <3>3, SumOfZeros
  <2>3. /\ DOMAIN r = PositionFields
        /\ r = [f \in PositionFields |-> r[f]]
        /\ r.events = << >> /\ r.adjustments = << >> /\ r.buy_qty = 0 /\ r.sell_qty = 0
        /\ r.signed_qty = 0 /\ r.quantity = 0 /\ r.side = "Flat" /\ r.ts_closed = TRUE
        /\ r.peak_qty = p.peak_qty /\ r.entry = p.entry
        /\ r.avg_px_open = p.avg_px_open /\ r.realized_pnl = <<0, 1>> /\ r.avg_px_close = None
    BY <1>1, <2>1, ZenonT(60) DEF Emptied, Blank, PositionFields
  <2> HIDE DEF r, w, e
  <2>4. Shape(r)
    <3>1. r.ts_closed \in BOOLEAN
      BY <2>3
    <3> QED BY <1>1, <2>3, <3>1, SMT DEF Shape, PositionSide
  <2>5. Coherent(r)
    <3>1. SideOf(0) = "Flat" /\ abs(0) = 0
      BY SMT DEF SideOf, abs
    <3> QED BY <1>1, <2>3, <3>1, SMT DEF Coherent
  <2>5a. Books(r)
    <3>1. IsFraction(r.avg_px_open)
      BY <2>3 DEF Books, Profit
    <3> QED BY <2>3, <2>4, <3>1, BlankBooks
  <2>6. DOMAIN r.events = {}
    BY <2>3, SMT
  <2>7. r.signed_qty = p.signed_qty - Contribution(p, c)
    BY <1>2, <2>2, <2>3
  <2> QED BY <2>5, <2>5a, <2>6, <2>7 DEF r
<1>6. CASE kept # {}
  <2> DEFINE b == Restarted(p, e[Min(kept)])
             q == Replayed(b, e, kept)[Len(e)]
  <2>1. r = Readjusted(q, p.adjustments, Preserved(p))[Len(p.adjustments)]
    BY <1>6 DEF purge_events_for_order
  <2>2. e[Min(kept)] \in FillEvents
    <3>1. kept \in SUBSET Nat /\ kept \subseteq DOMAIN e
      BY <1>1, SMT DEF Remaining
    <3>2. Min(kept) \in kept
      BY <1>6, <3>1, LeastElement DEF Min
    <3> QED BY <1>1, <3>1, <3>2, SMT
  <2>3. /\ DOMAIN b = PositionFields
        /\ b = [f \in PositionFields |-> b[f]]
        /\ b.events = << >> /\ b.adjustments = << >> /\ b.buy_qty = 0 /\ b.sell_qty = 0
        /\ b.signed_qty = 0 /\ b.quantity = 0 /\ b.side = "Flat" /\ b.ts_closed = FALSE
        /\ b.peak_qty = 0 /\ b.entry = e[Min(kept)].order_side
        /\ b.avg_px_open = <<0, 1>> /\ b.realized_pnl = <<0, 1>> /\ b.avg_px_close = None
    BY <1>1, ZenonT(60) DEF Restarted, Blank, PositionFields
  <2>4. e[Min(kept)].order_side \in OrderSide
    BY <2>2 DEF FillEvents
  <2> HIDE DEF b
  <2>5. Ready(b)
    <3>1. Shape(b)
      <4>1. b.ts_closed \in BOOLEAN
        BY <2>3
      <4> QED BY <2>3, <2>4, <4>1, SMT DEF Shape, PositionSide
    <3>2. IsFraction(b.avg_px_open)
      <4>1. IsFraction(<<0, 1>>)
        BY SMT DEF IsFraction
      <4> QED BY <2>3, <4>1
    <3> QED BY <2>3, <3>1, <3>2, BlankBooks DEF Ready
  <2> HIDE DEF e, r
  <2>7. /\ Books(q) /\ Coherent(q)
        /\ q.signed_qty = SumFunctionOnSet(w, DOMAIN e)
        /\ \A i \in DOMAIN q.events : q.events[i].client_order_id # c
    <3>1. b.signed_qty = 0 /\ b.events = << >>
      BY <2>3
    <3>2. e \in Seq(FillEvents)
      BY <1>1
    <3>3. Replay(Replayed(b, e, Remaining(e, c))[Len(e)], e, c)
      BY <1>6, <2>5, <3>1, <3>2, ReplayedBooks, Zenon
    <3> QED BY <3>3 DEF Replay
  <2>8. \A n \in Preserved(p) :
           n \in DOMAIN p.adjustments /\ p.adjustments[n].quantity_change = 0
    <3>1. \A n \in DOMAIN p.adjustments : p.adjustments[n] \in Adjustments
      BY <1>1, SMT
    <3> QED BY <3>1 DEF Preserved, Adjustments
  <2> HIDE DEF q
  <2>9. Books(r) /\ Coherent(r) /\ r.signed_qty = q.signed_qty /\ r.events = q.events
    BY <1>1, <2>1, <2>7, <2>8, ReadjustedBooks
  <2> QED BY <1>2, <2>7, <2>9 DEF r
<1> QED BY <1>5, <1>6

-----------------------------------------------------------------------------
LEMMA InvInit == Init => IInv
BY NewPositionBooks DEF Init, IInv

LEMMA InvNext == IInv /\ [PurgeNext]_position => IInv'
<1> SUFFICES ASSUME IInv, [PurgeNext]_position PROVE IInv'
  OBVIOUS
<1>1. SUFFICES Books(position') /\ Coherent(position')
  BY DEF IInv, Books, Coherent, Shape
<1>2. Books(position) /\ Coherent(position)
  BY DEF IInv
<1>3. ASSUME NEW fill \in FillEvents, Fill(fill)
      PROVE  Books(position') /\ Coherent(position')
  BY <1>2, <1>3, CoherentReady, ApplyFillBooks DEF Fill
<1>4. ASSUME NEW amount \in Fundings, Fund(amount)
      PROVE  Books(position') /\ Coherent(position')
  <2> DEFINE adj == [type |-> "Funding", quantity_change |-> 0, pnl_change |-> amount]
  <2>1. position' = apply_adjustment(position, adj)
    BY <1>4 DEF Fund
  <2>2. amount \in Int
    BY PositionAssumption
  <2>3. adj \in Adjustments /\ adj.quantity_change = 0
    BY <2>2, SMT DEF Adjustments
  <2> HIDE DEF adj
  <2> QED BY <1>2, <2>1, <2>3, FundBooks
<1>5. ASSUME NEW c \in ClientOrderIds, Purge(c)
      PROVE  Books(position') /\ Coherent(position')
  BY <1>2, <1>5, PurgeBooks DEF Purge
<1>6. CASE UNCHANGED position
  BY <1>2, <1>6
<1> QED BY <1>3, <1>4, <1>5, <1>6 DEF PurgeNext, Next

\* Side, quantity, peak, entry and close time agree with the signed quantity after every
\* sequence of fills, funding payments and purges: the assertions at the end of
\* Position::apply never fail, and the engine's flip test (is_opposite_side) reads the
\* right side.
THEOREM SideAlwaysFollowsQuantity == PurgeSpec => []SideFollowsQuantity
<1>1. IInv => SideFollowsQuantity
  BY CoherentPosition DEF IInv
<1> QED BY <1>1, InvInit, InvNext, PTL DEF PurgeSpec

\* What is held is always what was bought less what was sold since the position opened,
\* with the adjustments logged, also after a purge rebuilt all of them.
THEOREM BooksAlwaysBalance == PurgeSpec => []BooksBalance
<1>1. IInv => BooksBalance
  BY DEF IInv, Books, BooksBalance, QuantityChanges
<1> QED BY <1>1, InvInit, InvNext, PTL DEF PurgeSpec

\* The profit realized fill by fill, against an average price that moves with every fill
\* that increases the position, is always exactly what the cash flows of the cycle say,
\* through reversals, funding payments and purges.
THEOREM ProfitAlwaysCashFlow == PurgeSpec => []ProfitIsCashFlow
<1>1. IInv => ProfitIsCashFlow
  BY DEF IInv, Books, Profit, ProfitIsCashFlow, Flows, Flow, Payments, Balance
<1> QED BY <1>1, InvInit, InvNext, PTL DEF PurgeSpec

\* While a cycle has not reversed, its average close price is always the average of the
\* fills against its first one: the weight that calculate_avg_px_close_px reads, a total
\* kept by the two handlers, is that of exactly those fills.
THEOREM AverageCloseAlwaysOfClosings == PurgeSpec => []AverageCloseIsOfClosings
<1>1. IInv => AverageCloseIsOfClosings
  BY DEF IInv, Books, Closing, AverageCloseIsOfClosings, Unreversed, HeldAfter, Counter,
         ClosedQty, ClosedValue
<1> QED BY <1>1, InvInit, InvNext, PTL DEF PurgeSpec

\* Every purge of an order removes its fills, and exactly their quantity.
THEOREM PurgeAlwaysRemoves == PurgeSpec => PurgeRemovesTheOrder
<1>1. ASSUME IInv, NEW c \in ClientOrderIds, Purge(c)
      PROVE  /\ position'.signed_qty = position.signed_qty - Contribution(position, c)
             /\ \A i \in DOMAIN position'.events : position'.events[i].client_order_id # c
  BY <1>1, PurgeBooks DEF IInv, Purge
<1>2. IInv =>
        [\A c \in ClientOrderIds : Purge(c) =>
            /\ position'.signed_qty = position.signed_qty - Contribution(position, c)
            /\ \A i \in DOMAIN position'.events :
                  position'.events[i].client_order_id # c]_position
  BY <1>1
<1> QED BY <1>2, InvInit, InvNext, PTL DEF PurgeSpec, PurgeRemovesTheOrder
=============================================================================
