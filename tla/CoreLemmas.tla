----------------------------- MODULE CoreLemmas -----------------------------
(***************************************************************************)
(* Facts that the proofs about several components share.  First, that a    *)
(* sum over a finite set (the library's SumFunctionOnSet) does not depend  *)
(* on the order in which the elements are taken.  Then, what Position's    *)
(* apply and apply_adjustment do to the quantity fields of a position, for *)
(* every position and every fill: they are about one position record and   *)
(* are used for Position and for the engine that holds many of them.       *)
(***************************************************************************)
EXTENDS PositionCore, FiniteSets, Functions, FiniteSetTheorems, WellFoundedInduction, TLAPS

\* A step that names no prover is Zenon's.
USE Zenon

\* A nonempty set of naturals has a least element: induction, in the form used here.
LEMMA LeastElement ==
    ASSUME NEW S \in SUBSET Nat, S # {}
    PROVE  \E x \in S : \A y \in S : x <= y
<1> DEFINE R == {ss \in Nat \X Nat : ss[1] < ss[2]}
<1>1. IsWellFoundedOn(R, Nat)
  BY NatLessThanWellFounded DEF OpToRel
<1>2. \A x, y \in Nat : y < x => <<y, x>> \in R
  OBVIOUS
<1> HIDE DEF R
<1>3. PICK x \in S : \A y \in S : ~ (<<y, x>> \in R)
  BY <1>1, WFMin
<1>4. \A y \in S : ~ (y < x)
  BY <1>2, <1>3
<1> QED BY <1>4, SMT

-----------------------------------------------------------------------------
\* The element that the sum of the library takes out of a set next.
Chosen(T) == CHOOSE x \in T : TRUE

\* g sums w over the sets of F.
Sums(w, F, g) ==
    \A T \in F : g[T] = IF T = {} THEN 0 ELSE w[Chosen(T)] + g[T \ {Chosen(T)}]

\* A set that is not empty is larger than without the chosen element.
LEMMA ChosenFacts ==
    ASSUME NEW T, IsFiniteSet(T), T # {}
    PROVE  /\ Chosen(T) \in T
           /\ IsFiniteSet(T \ {Chosen(T)})
           /\ Cardinality(T \ {Chosen(T)}) \in Nat
           /\ Cardinality(T \ {Chosen(T)}) = Cardinality(T) - 1
<1>1. Chosen(T) \in T
  BY DEF Chosen
<1> QED BY <1>1, FS_RemoveElement, FS_CardinalityType

\* There is a sum.
LEMMA SumsExist ==
    ASSUME NEW S, IsFiniteSet(S), NEW w, \A x \in S : w[x] \in Int
    PROVE  \E g \in [SUBSET S -> Int] : Sums(w, SUBSET S, g)
<1> DEFINE Upto(n) == {T \in SUBSET S : Cardinality(T) <= n}
           Bad == {n \in Nat : ~ \E g \in [Upto(n) -> Int] : Sums(w, Upto(n), g)}
<1>1. \A T \in SUBSET S : /\ IsFiniteSet(T) /\ Cardinality(T) \in Nat
                          /\ Cardinality(T) = 0 <=> T = {}
  BY FS_Subset, FS_CardinalityType, FS_EmptySet
<1>2. ASSUME NEW n \in Bad, \A y \in Bad : n <= y
      PROVE  FALSE
  <2>1. n \in Nat /\ ~ \E g \in [Upto(n) -> Int] : Sums(w, Upto(n), g)
    OBVIOUS
  <2>2. CASE n = 0
    <3>1. Upto(0) = {{}}
      BY <1>1, SMT
    <3> DEFINE z == [T \in {{}} |-> 0]
    <3>2. z \in [{{}} -> Int] /\ Sums(w, {{}}, z)
      BY SMT DEF Sums
    <3> HIDE DEF Upto, z
    <3> QED BY <2>1, <2>2, <3>1, <3>2
  <2>3. CASE n # 0
    <3>1. n - 1 \in Nat /\ n - 1 \notin Bad
      <4> HIDE DEF Bad
      <4> QED BY <1>2, <2>1, <2>3, SMT
    <3>2. PICK g \in [Upto(n - 1) -> Int] : Sums(w, Upto(n - 1), g)
      BY <3>1
    <3> DEFINE next(T) == w[Chosen(T)] + g[T \ {Chosen(T)}]
               h == [T \in Upto(n) |-> IF T = {} THEN 0 ELSE next(T)]
    <3>3. ASSUME NEW T \in Upto(n), T # {}
          PROVE  /\ T \ {Chosen(T)} \in Upto(n - 1) /\ T \ {Chosen(T)} \in Upto(n)
                 /\ next(T) \in Int
      <4>1. T \in SUBSET S /\ IsFiniteSet(T) /\ Cardinality(T) <= n /\ Cardinality(T) \in Nat
        BY <1>1
      <4>a. /\ Chosen(T) \in T
            /\ Cardinality(T \ {Chosen(T)}) \in Nat
            /\ Cardinality(T \ {Chosen(T)}) = Cardinality(T) - 1
        BY <3>3, <4>1, ChosenFacts
      <4>2. T \ {Chosen(T)} \in Upto(n - 1) /\ T \ {Chosen(T)} \in Upto(n)
        BY <2>1, <4>1, <4>a, SMT
      <4>3. w[Chosen(T)] \in Int
        BY <4>1, <4>a
      <4> HIDE DEF Upto
      <4>4. g[T \ {Chosen(T)}] \in Int
        BY <3>2, <4>2
      <4> QED BY <4>2, <4>3, <4>4, SMT
    <3>4. \A T \in Upto(n - 1) : T \in Upto(n)
      BY <1>1, <2>1, SMT
    <3> HIDE DEF Upto
    <3>5. \A T \in Upto(n - 1) : h[T] = g[T]
      BY <3>2, <3>4 DEF Sums
    <3>6. \A T \in Upto(n) : h[T] = IF T = {} THEN 0 ELSE w[Chosen(T)] + h[T \ {Chosen(T)}]
      BY <3>3, <3>5
    <3> HIDE DEF next
    <3>7. h \in [Upto(n) -> Int]
      <4>1. \A T \in Upto(n) : T # {} => next(T) \in Int
        BY <3>3
      <4>2. \A T \in Upto(n) : h[T] \in Int
        BY <4>1, SMT
      <4> QED BY <4>2
    <3> QED BY <2>1, <3>6, <3>7 DEF Sums
  <2> QED BY <2>2, <2>3
<1>3. Bad = {}
  BY <1>2, LeastElement
<1>4. Cardinality(S) \in Nat /\ Upto(Cardinality(S)) = SUBSET S
  BY FS_Subset, FS_CardinalityType
<1> HIDE DEF Upto
<1>5. \E g \in [Upto(Cardinality(S)) -> Int] : Sums(w, Upto(Cardinality(S)), g)
  BY <1>3, <1>4
<1> QED BY <1>4, <1>5

\* There is one only, and it depends on nothing outside the set summed over.
LEMMA SumsAgree ==
    ASSUME NEW S, IsFiniteSet(S), NEW w, NEW v, \A x \in S : w[x] = v[x],
           NEW g, Sums(w, SUBSET S, g), NEW h, Sums(v, SUBSET S, h)
    PROVE  g[S] = h[S]
<1> DEFINE Bad == {n \in Nat : \E T \in SUBSET S : Cardinality(T) = n /\ g[T] # h[T]}
<1>1. \A T \in SUBSET S : IsFiniteSet(T) /\ Cardinality(T) \in Nat
  BY FS_Subset, FS_CardinalityType
<1>2. ASSUME NEW n \in Bad, \A y \in Bad : n <= y
      PROVE  FALSE
  <2>1. PICK T \in SUBSET S : Cardinality(T) = n /\ g[T] # h[T]
    OBVIOUS
  <2>2. T # {}
    BY <2>1 DEF Sums
  <2> DEFINE V == T \ {Chosen(T)}
  <2>3. Chosen(T) \in T /\ V \in SUBSET S /\ Cardinality(V) = n - 1 /\ n - 1 \in Nat
    BY <1>1, <2>1, <2>2, ChosenFacts
  <2>4. n - 1 \notin Bad
    BY <1>2, <2>3, SMT
  <2>5. g[V] = h[V]
    BY <2>3, <2>4
  <2>6. w[Chosen(T)] = v[Chosen(T)]
    BY <2>3
  <2> QED BY <2>1, <2>2, <2>5, <2>6 DEF Sums
<1>3. Bad = {}
  BY <1>2, LeastElement
<1> QED BY <1>1, <1>3

\* SumFunctionOnSet is the sum.
LEMMA SumIsTheSum ==
    ASSUME NEW S, IsFiniteSet(S), NEW w, \A x \in S : w[x] \in Int
    PROVE  \E g \in [SUBSET S -> Int] : Sums(w, SUBSET S, g) /\ SumFunctionOnSet(w, S) = g[S]
<1> DEFINE F(f) == [T \in SUBSET S |-> IF T = {} THEN 0
                                      ELSE w[CHOOSE x \in T : TRUE] + f[T \ {CHOOSE x \in T : TRUE}]]
           iter == CHOOSE f : f = F(f)
<1>1. SumFunctionOnSet(w, S) = iter[S]
  BY DEF SumFunctionOnSet, FoldFunctionOnSet, MapThenFoldSet
<1>2. PICK g \in [SUBSET S -> Int] : Sums(w, SUBSET S, g)
  BY SumsExist
<1>3. g = F(g)
  BY <1>2 DEF Sums, Chosen
<1>4. iter = F(iter)
  BY <1>3
<1> HIDE DEF iter
<1>5. Sums(w, SUBSET S, iter)
  BY <1>4 DEF Sums, Chosen
<1>6. iter[S] = g[S]
  BY <1>2, <1>5, SumsAgree
<1> QED BY <1>1, <1>2, <1>6

\* A sum of integers is an integer and depends on the values summed only.
LEMMA SumType ==
    ASSUME NEW S, IsFiniteSet(S), NEW w, \A x \in S : w[x] \in Int
    PROVE  /\ SumFunctionOnSet(w, S) \in Int
           /\ S = {} => SumFunctionOnSet(w, S) = 0
<1>1. PICK g \in [SUBSET S -> Int] : Sums(w, SUBSET S, g) /\ SumFunctionOnSet(w, S) = g[S]
  BY SumIsTheSum
<1>2. g[S] \in Int
  BY <1>1
<1>3. S = {} => g[S] = 0
  BY <1>1 DEF Sums
<1> QED BY <1>1, <1>2, <1>3

LEMMA SumSame ==
    ASSUME NEW S, IsFiniteSet(S), NEW w, NEW v, \A x \in S : w[x] \in Int /\ w[x] = v[x]
    PROVE  SumFunctionOnSet(w, S) = SumFunctionOnSet(v, S)
<1>1. PICK g : Sums(w, SUBSET S, g) /\ SumFunctionOnSet(w, S) = g[S]
  BY SumIsTheSum
<1>2. PICK h : Sums(v, SUBSET S, h) /\ SumFunctionOnSet(v, S) = h[S]
  BY SumIsTheSum
<1>3. g[S] = h[S]
  BY <1>1, <1>2, SumsAgree, SMT
<1> QED BY <1>1, <1>2, <1>3

\* A sum over a part of the set is found in the sum over the whole.
LEMMA SumOfPart ==
    ASSUME NEW S, IsFiniteSet(S), NEW w, \A x \in S : w[x] \in Int,
           NEW g, Sums(w, SUBSET S, g), NEW T \in SUBSET S
    PROVE  SumFunctionOnSet(w, T) = g[T]
<1>1. IsFiniteSet(T) /\ \A x \in T : w[x] \in Int
  BY FS_Subset
<1>2. PICK h : Sums(w, SUBSET T, h) /\ SumFunctionOnSet(w, T) = h[T]
  BY <1>1, SumIsTheSum
<1>3. Sums(w, SUBSET T, g)
  BY DEF Sums
<1>4. g[T] = h[T]
  BY <1>1, <1>2, <1>3, SumsAgree
<1> QED BY <1>2, <1>4

\* Any element may be taken out of a sum, not only the one the library chooses.
LEMMA SumWithout ==
    ASSUME NEW S, IsFiniteSet(S), NEW w, \A x \in S : w[x] \in Int, NEW a \in S
    PROVE  SumFunctionOnSet(w, S) = w[a] + SumFunctionOnSet(w, S \ {a})
<1>1. PICK g \in [SUBSET S -> Int] : Sums(w, SUBSET S, g) /\ SumFunctionOnSet(w, S) = g[S]
  BY SumIsTheSum
<1> DEFINE Bad == {n \in Nat : \E T \in SUBSET S : \E x \in T :
                      Cardinality(T) = n /\ g[T] # w[x] + g[T \ {x}]}
<1>2. \A T \in SUBSET S : IsFiniteSet(T) /\ Cardinality(T) \in Nat
  BY FS_Subset, FS_CardinalityType
<1>3. ASSUME NEW n \in Bad, \A y \in Bad : n <= y
      PROVE  FALSE
  <2>1. PICK T \in SUBSET S : \E x \in T : Cardinality(T) = n /\ g[T] # w[x] + g[T \ {x}]
    OBVIOUS
  <2>2. PICK x \in T : Cardinality(T) = n /\ g[T] # w[x] + g[T \ {x}]
    BY <2>1
  <2> DEFINE c == Chosen(T)
  <2>3. c \in T /\ g[T] = w[c] + g[T \ {c}]
    BY <1>1 DEF Sums, Chosen
  <2>4. x # c
    BY <2>2, <2>3
  <2> HIDE DEF c
  <2>5. /\ Cardinality(T \ {c}) = n - 1 /\ Cardinality(T \ {x}) = n - 1 /\ n - 1 \in Nat
        /\ n - 1 \notin Bad
    <3>1. Cardinality(T \ {c}) = Cardinality(T) - 1 /\ Cardinality(T \ {x}) = Cardinality(T) - 1
      BY <1>2, <2>3, FS_RemoveElement
    <3>2. Cardinality(T \ {c}) \in Nat /\ n \in Nat
      BY <1>2, <2>2
    <3> HIDE DEF Bad
    <3> QED BY <1>3, <2>2, <3>1, <3>2, SMT
  <2>6. g[T \ {c}] = w[x] + g[(T \ {c}) \ {x}]
    BY <2>3, <2>4, <2>5
  <2>7. g[T \ {x}] = w[c] + g[(T \ {x}) \ {c}]
    BY <2>3, <2>4, <2>5
  <2>8. (T \ {c}) \ {x} = (T \ {x}) \ {c}
    OBVIOUS
  <2> DEFINE rest == g[(T \ {x}) \ {c}]
  <2>9. w[x] \in Int /\ w[c] \in Int /\ rest \in Int
    BY <1>1, <2>3
  <2>10. g[T] = w[c] + (w[x] + rest) /\ g[T \ {x}] = w[c] + rest
    BY <2>3, <2>6, <2>7, <2>8
  <2> HIDE DEF rest, Bad
  <2>11. g[T] = w[x] + g[T \ {x}]
    BY <2>9, <2>10, SMT
  <2> QED BY <2>2, <2>11
<1>4. Bad = {}
  BY <1>3, LeastElement
<1>5. g[S] = w[a] + g[S \ {a}]
  BY <1>2, <1>4
<1>6. SumFunctionOnSet(w, S \ {a}) = g[S \ {a}]
  BY <1>1, SumOfPart, SMT
<1> QED BY <1>1, <1>5, <1>6

\* Where two functions differ in one place, their sums differ by the same.
LEMMA SumChanged ==
    ASSUME NEW S, IsFiniteSet(S), NEW a \in S,
           NEW w, NEW v, \A x \in S : w[x] \in Int /\ v[x] \in Int,
           \A x \in S \ {a} : w[x] = v[x]
    PROVE  SumFunctionOnSet(v, S) = SumFunctionOnSet(w, S) + v[a] - w[a]
<1>1. IsFiniteSet(S \ {a})
  BY FS_Subset
<1>2. SumFunctionOnSet(w, S \ {a}) = SumFunctionOnSet(v, S \ {a})
  BY <1>1, SumSame
<1>3. SumFunctionOnSet(w, S \ {a}) \in Int
  BY <1>1, SumType
<1>4. SumFunctionOnSet(w, S) = w[a] + SumFunctionOnSet(w, S \ {a})
  BY SumWithout
<1>5. SumFunctionOnSet(v, S) = v[a] + SumFunctionOnSet(v, S \ {a})
  BY SumWithout
<1> QED BY <1>2, <1>3, <1>4, <1>5, SMT
\* A sum of zeros is zero.
LEMMA SumOfZeros ==
    ASSUME NEW S, IsFiniteSet(S), NEW w, \A x \in S : w[x] = 0
    PROVE  SumFunctionOnSet(w, S) = 0
<1>1. PICK g \in [SUBSET S -> Int] : Sums(w, SUBSET S, g) /\ SumFunctionOnSet(w, S) = g[S]
  <2>1. \A x \in S : w[x] \in Int
    BY SMT
  <2> QED BY <2>1, SumIsTheSum
<1> DEFINE z == [T \in SUBSET S |-> 0]
<1>2. Sums(w, SUBSET S, z)
  <2>1. ASSUME NEW T \in SUBSET S, T # {}
        PROVE  w[Chosen(T)] = 0 /\ T \ {Chosen(T)} \in SUBSET S
    BY <2>1 DEF Chosen
  <2> QED BY <2>1, SMT DEF Sums
<1>3. g[S] = z[S]
  <2> HIDE DEF z
  <2> QED BY <1>1, <1>2, SumsAgree, SMT
<1> QED BY <1>1, <1>3

-----------------------------------------------------------------------------
PositionFields ==
    {"events", "adjustments", "buy_qty", "sell_qty", "opening_order_id", "closing_order_id",
     "entry", "side", "signed_qty", "quantity", "peak_qty", "ts_closed", "avg_px_open",
     "avg_px_close", "realized_pnl"}

\* The fields a position has, and the types of those the quantity depends on.
Shape(p) ==
    /\ DOMAIN p = PositionFields
    /\ p = [f \in PositionFields |-> p[f]]
    /\ p.signed_qty \in Int
    /\ p.quantity \in Nat
    /\ p.peak_qty \in Nat
    /\ p.entry \in OrderSide
    /\ p.side \in PositionSide
    /\ p.ts_closed \in BOOLEAN

\* SideFollowsQuantity, of any position.
Coherent(p) ==
    /\ p.side = SideOf(p.signed_qty)
    /\ p.quantity = abs(p.signed_qty)
    /\ p.peak_qty >= p.quantity
    /\ p.side = "Long" => p.entry = "Buy"
    /\ p.side = "Short" => p.entry = "Sell"
    /\ p.ts_closed <=> p.side = "Flat"

\* A fill as the quantity depends on it.
IsFill(fill) ==
    /\ fill.order_side \in OrderSide
    /\ fill.last_qty \in Nat
    /\ fill.commission \in Int

\* The change of quantity a fill makes.
Change(fill) == Signed(fill) - BaseCommission(fill)

\* abs is the distance from 0.
LEMMA AbsFacts == \A n \in Int : abs(n) \in Nat /\ (abs(n) = 0 <=> n = 0)
BY SMT DEF abs

\* A fill changes the quantity by an integer.
LEMMA ChangeType ==
    ASSUME NEW fill, IsFill(fill)
    PROVE  Signed(fill) \in Int /\ BaseCommission(fill) \in Int /\ Change(fill) \in Int
BY SMT DEF IsFill, Change, Signed, BaseCommission, OrderSide

\* Position::apply, on an open position, on a closed one and on the blank one of
\* Position::new, changes the signed quantity by exactly the fill less its commission in
\* the base currency, and leaves side, quantity, peak, entry and close time in agreement
\* with it, also when the fill reverses the position.
LEMMA ApplyFillFacts ==
    ASSUME NEW p, Shape(p), NEW fill, IsFill(fill),
           Coherent(p) \/ p.side = "Flat", p.side = "Flat" <=> p.signed_qty = 0
    PROVE  /\ Shape(ApplyFill(p, fill))
           /\ Coherent(ApplyFill(p, fill))
           /\ ApplyFill(p, fill).signed_qty = p.signed_qty + Change(fill)
<1> DEFINE c == IF p.side = "Flat" THEN Reopened(p, fill) ELSE p
           l == Logged(c, fill)
           t == handle_fill(l, fill)
           h == IF fill.currency = "Base"
                THEN apply_adjustment(t, CommissionAdjustment(fill)) ELSE t
<1>1. /\ Shape(c)
      /\ c.signed_qty = p.signed_qty
      /\ c.ts_closed = FALSE
  <2>1. CASE p.side = "Flat"
    BY <2>1, ZenonT(60) DEF Reopened, Shape, PositionFields
  <2>2. CASE p.side # "Flat"
    BY <2>2 DEF Coherent, Shape
  <2> QED BY <2>1, <2>2
<1> HIDE DEF c
<1>2. Shape(l) /\ l.signed_qty = p.signed_qty /\ l.ts_closed = FALSE
  BY <1>1 DEF Logged, Shape, PositionFields
<1> HIDE DEF l
<1>3. /\ Shape(t)
      /\ t.signed_qty = p.signed_qty + Signed(fill)
      /\ t.ts_closed = FALSE
  <2>1. Signed(fill) \in Int
    BY ChangeType
  <2>2. /\ DOMAIN t = PositionFields
        /\ t = [f \in PositionFields |-> t[f]]
    BY <1>2, ZenonT(60) DEF handle_fill, Shape, PositionFields
  <2>3. \A f \in {"quantity", "peak_qty", "entry", "side", "ts_closed"} : t[f] = l[f]
    BY <1>2 DEF handle_fill, Shape, PositionFields
  <2>4. t.signed_qty = l.signed_qty + Signed(fill)
    BY <1>2 DEF handle_fill, Shape, PositionFields
  <2> HIDE DEF t
  <2> QED
    BY <1>2, <2>1, <2>2, <2>3, <2>4, SMT DEF Shape
<1> HIDE DEF t
<1>4. /\ Shape(h)
      /\ h.signed_qty = p.signed_qty + Change(fill)
      /\ h.ts_closed = FALSE
  <2>1. CASE fill.currency = "Base"
    <3>1. /\ CommissionAdjustment(fill).quantity_change = -BaseCommission(fill)
          /\ BaseCommission(fill) \in Int
          /\ Signed(fill) \in Int
      BY ChangeType DEF CommissionAdjustment
    <3> DEFINE s == t.signed_qty + CommissionAdjustment(fill).quantity_change
    <3>2. s \in Int /\ abs(s) \in Nat /\ SideOf(s) \in PositionSide
      BY <1>3, <3>1, AbsFacts, SMT DEF Shape, SideOf, PositionSide
    <3>3. h = apply_adjustment(t, CommissionAdjustment(fill))
      BY <2>1
    <3> HIDE DEF h
    <3>4. Shape(h) /\ h.signed_qty = s /\ h.ts_closed = FALSE
      BY <1>3, <3>2, <3>3 DEF apply_adjustment, Shape, PositionFields
    <3> QED BY <1>3, <3>1, <3>4, SMT DEF Change, Shape
  <2>2. CASE fill.currency # "Base"
    BY <1>3, <2>2, ChangeType, SMT DEF Change, BaseCommission, Shape
  <2> QED BY <2>1, <2>2
<1> HIDE DEF h
<1>5. ApplyFill(p, fill) = Settled(h, fill)
  BY DEF ApplyFill, c, l, t, h
<1>6. abs(h.signed_qty) \in Nat /\ (abs(h.signed_qty) = 0 <=> h.signed_qty = 0)
  BY <1>4, AbsFacts DEF Shape
<1> QED
  <2> DEFINE r == Settled(h, fill)
  <2>1. /\ DOMAIN r = PositionFields
        /\ r = [f \in PositionFields |-> r[f]]
        /\ r.signed_qty = h.signed_qty
        /\ r.quantity = abs(h.signed_qty)
        /\ r.peak_qty = IF abs(h.signed_qty) > h.peak_qty THEN abs(h.signed_qty) ELSE h.peak_qty
        /\ r.side = SideOf(h.signed_qty)
        /\ r.entry = IF h.signed_qty > 0 THEN "Buy" ELSE IF h.signed_qty < 0 THEN "Sell"
                     ELSE h.entry
        /\ r.ts_closed = IF abs(h.signed_qty) = 0 THEN TRUE ELSE h.ts_closed
    <3> DEFINE qty == abs(h.signed_qty)
               side == SideOf(h.signed_qty)
               peak == IF qty > h.peak_qty THEN qty ELSE h.peak_qty
               entry == IF h.signed_qty > 0 THEN "Buy"
                        ELSE IF h.signed_qty < 0 THEN "Sell" ELSE h.entry
               closing == IF qty = 0 THEN fill.client_order_id ELSE h.closing_order_id
               closed == IF qty = 0 THEN TRUE ELSE h.ts_closed
    <3>1. r = [h EXCEPT !.quantity = qty, !.peak_qty = peak, !.side = side, !.entry = entry,
                        !.closing_order_id = closing, !.ts_closed = closed]
      BY DEF Settled
    <3>2. DOMAIN h = PositionFields
      BY <1>4 DEF Shape
    <3> HIDE DEF r, qty, side, peak, entry, closing, closed
    <3>3. DOMAIN r = PositionFields /\ r = [f \in PositionFields |-> r[f]]
      BY <3>1, <3>2
    <3>4. /\ r.signed_qty = h.signed_qty /\ r.quantity = qty /\ r.peak_qty = peak
          /\ r.side = side /\ r.entry = entry
      BY <3>1, <3>2 DEF PositionFields
    <3>5. r.ts_closed = closed
      BY <3>1, <3>2 DEF PositionFields
    <3> QED
      BY <3>3, <3>4, <3>5 DEF qty, side, peak, entry, closed
  <2> HIDE DEF r
  <2>2. Shape(r)
    <3>1. r.ts_closed \in BOOLEAN
      BY <2>1, <1>4
    <3>2. r.side \in PositionSide /\ r.entry \in OrderSide
      BY <2>1, <1>4 DEF SideOf, PositionSide, OrderSide, Shape
    <3>3. r.signed_qty \in Int /\ r.quantity \in Nat /\ r.peak_qty \in Nat
      BY <2>1, <1>4, <1>6 DEF Shape
    <3> QED BY <2>1, <3>1, <3>2, <3>3 DEF Shape
  <2>3. Coherent(r)
    <3>1. r.ts_closed <=> r.side = "Flat"
      <4>1. CASE h.signed_qty = 0
        <5>1. r.side = "Flat"
          BY <4>1, <2>1, SMT DEF SideOf
        <5>2. r.ts_closed = TRUE
          BY <4>1, <2>1, <1>6
        <5> QED BY <5>1, <5>2
      <4>2. CASE h.signed_qty # 0
        <5>1. r.side # "Flat"
          BY <4>2, <2>1, <1>4, SMT DEF SideOf, Shape
        <5>2. r.ts_closed = FALSE
          BY <4>2, <2>1, <1>4, <1>6
        <5> QED BY <5>1, <5>2
      <4> QED BY <4>1, <4>2
    <3>2. r.peak_qty >= r.quantity
      BY <2>1, <1>4, <1>6, SMT DEF Shape
    <3>3. (r.side = "Long" => r.entry = "Buy") /\ (r.side = "Short" => r.entry = "Sell")
      BY <2>1, <1>4 DEF SideOf, Shape
    <3> QED BY <2>1, <3>1, <3>2, <3>3 DEF Coherent
  <2> QED BY <1>4, <1>5, <2>1, <2>2, <2>3 DEF r

\* Position::new yields a coherent position, although the record it starts from is flat
\* with a quantity.
LEMMA NewPositionFacts ==
    ASSUME NEW fill, IsFill(fill)
    PROVE  /\ Shape(NewPosition(fill))
           /\ Coherent(NewPosition(fill))
           /\ NewPosition(fill).signed_qty = Change(fill)
<1> DEFINE blank ==
      [events |-> << >>, adjustments |-> << >>, buy_qty |-> 0, sell_qty |-> 0,
       opening_order_id |-> fill.client_order_id, closing_order_id |-> None,
       entry |-> fill.order_side, side |-> "Flat", signed_qty |-> 0,
       quantity |-> fill.last_qty, peak_qty |-> fill.last_qty, ts_closed |-> FALSE,
       avg_px_open |-> <<fill.last_px, 1>>, avg_px_close |-> None,
       realized_pnl |-> <<0, 1>>]
<1>1. Shape(blank) /\ blank.side = "Flat" /\ blank.signed_qty = 0
  BY SMT DEF Shape, PositionFields, IsFill, PositionSide
<1>2. NewPosition(fill) = ApplyFill(blank, fill)
  BY DEF NewPosition
<1> HIDE DEF blank
<1> QED BY <1>1, <1>2, ApplyFillFacts, ChangeType, SMT
=============================================================================
