------------------------------- MODULE Totals -------------------------------
(***************************************************************************)
(* The sum of a Nat-valued function over a finite set.  The contracts keep *)
(* the same money in several mappings (a reserve counter, the balances of  *)
(* each stablecoin, the fees of each market), so most properties of the    *)
(* protocol compare such sums.  A sum is the number of units, one unit     *)
(* being a pair of an index and its rank: this needs no recursion, so the  *)
(* modules that use it can be proved about.                                *)
(***************************************************************************)
EXTENDS Integers, FiniteSets

Units(f, S) == UNION {{s} \X (1..f[s]) : s \in S}

Total(f, S) == Cardinality(Units(f, S))

AtLeastZero(n) == IF n < 0 THEN 0 ELSE n

Smaller(a, b) == IF a <= b THEN a ELSE b
=============================================================================
