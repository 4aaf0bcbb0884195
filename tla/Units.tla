------------------------------- MODULE Units -------------------------------
(***************************************************************************)
(* Amounts of beat.  The code keeps balances as u64 counts of base units   *)
(* and speaks of sums over maps of balances.  Total(f) is that sum: f is   *)
(* read as a heap of f[x] units for each x in its domain, and the heap is  *)
(* counted.  Counting, rather than a fold, is what lets UnitsTheorems      *)
(* derive the laws of Total from the theorems on finite cardinality.       *)
(***************************************************************************)
EXTENDS Integers, FiniteSets

\* The units of a map of amounts: <<x, i>> is the i-th unit that x holds.
UnitsOf(f) == UNION {{x} \X (1..f[x]) : x \in DOMAIN f}

\* The sum of a map of amounts.
Total(f) == Cardinality(UnitsOf(f))

\* u64::saturating_sub
SatSub(a, b) == IF a > b THEN a - b ELSE 0

\* u64::min and u64::max
Least(a, b) == IF a < b THEN a ELSE b
Greatest(a, b) == IF a > b THEN a ELSE b
=============================================================================
