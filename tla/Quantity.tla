------------------------------ MODULE Quantity ------------------------------
(***************************************************************************)
(* The values every component shares: Option::None, and the arithmetic of  *)
(* Quantity (crates/model/src/types/quantity.rs), an unsigned fixed-point  *)
(* number of which only the raw integer matters here.                      *)
(***************************************************************************)
EXTENDS Integers

CONSTANTS
    None,     \* Option::None
    RawMax    \* the largest raw value

ASSUME RawMaxAssumption == RawMax \in Nat

\* The saturating sum.  OrderCore makes a Quantity of it with from_raw, which panics above
\* QUANTITY_RAW_MAX, here RawMax: what the sum is beyond it is never seen (see Order).
saturating_add(a, b) == IF a + b > RawMax THEN RawMax ELSE a + b

saturating_sub(a, b) == IF a > b THEN a - b ELSE 0

\* Decimal::abs and f64::abs of a signed quantity.
abs(n) == IF n < 0 THEN -n ELSE n
=============================================================================
