------------------------- MODULE ArithmeticTheorems -------------------------
(***************************************************************************)
(* Facts about totals, quotients and finite sets of numbers, cited by the  *)
(* proofs of the protocol's modules, and what the arithmetic of the pools  *)
(* guarantees for all amounts.                                             *)
(***************************************************************************)
EXTENDS Totals, PoolMathV2, FiniteSetTheorems, FunctionTheorems,
        WellFoundedInduction, TLAPS

(* The units of f over S are finitely many, so a total is a natural number. *)
LEMMA TotalType ==
  ASSUME NEW S, IsFiniteSet(S), NEW f, \A s \in S : f[s] \in Nat
  PROVE  /\ IsFiniteSet(Units(f, S))
         /\ Total(f, S) \in Nat
<1> DEFINE C == {{s} \X (1..f[s]) : s \in S}
           g == [s \in S |-> {s} \X (1..f[s])]
<1>1. g \in Surjection(S, C)
  BY DEF Surjection
<1>2. IsFiniteSet(C)
  BY <1>1, FS_Surjection
<1>3. \A c \in C : IsFiniteSet(c)
  <2> SUFFICES ASSUME NEW s \in S
               PROVE  IsFiniteSet({s} \X (1..f[s]))
    OBVIOUS
  <2>1. IsFiniteSet({s})
    BY FS_Singleton
  <2>2. IsFiniteSet(1..f[s])
    BY FS_Interval
  <2>3. QED
    BY <2>1, <2>2, FS_Product
<1>4. IsFiniteSet(UNION C)
  <2> HIDE DEF C
  <2> QED BY <1>2, <1>3, FS_UNION
<1>5. QED
  BY <1>4, FS_CardinalityType DEF Units, Total

(* The total over the empty set is zero. *)
LEMMA TotalEmpty ==
  ASSUME NEW f
  PROVE  Total(f, {}) = 0
BY FS_EmptySet DEF Total, Units

(* Two functions that agree on S have the same total over S. *)
LEMMA TotalSame ==
  ASSUME NEW S, NEW f, NEW g, \A s \in S : f[s] = g[s]
  PROVE  Total(f, S) = Total(g, S)
<1>1. Units(f, S) = Units(g, S)
  BY DEF Units
<1>2. QED
  BY <1>1 DEF Total

(* A new index adds its own value to the total. *)
LEMMA TotalAddElement ==
  ASSUME NEW S, IsFiniteSet(S), NEW x, x \notin S,
         NEW f, \A s \in S \cup {x} : f[s] \in Nat
  PROVE  Total(f, S \cup {x}) = Total(f, S) + f[x]
<1> DEFINE A == {x} \X (1..f[x])
<1>1. Units(f, S \cup {x}) = Units(f, S) \cup A
  BY DEF Units
<1>2. Units(f, S) \cap A = {}
  BY DEF Units
<1>3. IsFiniteSet(Units(f, S)) /\ Total(f, S) \in Nat
  BY TotalType
<1>4. IsFiniteSet(A) /\ Cardinality(A) = f[x]
  <2>1. IsFiniteSet({x}) /\ Cardinality({x}) = 1
    BY FS_Singleton
  <2>2. IsFiniteSet(1..f[x]) /\ Cardinality(1..f[x]) = f[x]
    BY FS_Interval
  <2>3. IsFiniteSet(A) /\ Cardinality(A) = 1 * f[x]
    BY <2>1, <2>2, FS_Product
  <2>4. QED
    BY <2>3
<1>5. Cardinality(Units(f, S) \cup A) =
        Cardinality(Units(f, S)) + Cardinality(A) - Cardinality({})
  BY <1>2, <1>3, <1>4, FS_Union
<1>6. Cardinality({}) = 0
  BY FS_EmptySet
<1>7. Total(f, S \cup {x}) = Total(f, S) + Cardinality(A) - 0
  BY <1>1, <1>5, <1>6 DEF Total
<1>8. f[x] \in Nat
  OBVIOUS
<1>9. QED
  BY <1>3, <1>4, <1>7, <1>8

(* Taking one index out of S takes its value out of the total. *)
LEMMA TotalRemoveElement ==
  ASSUME NEW S, IsFiniteSet(S), NEW x \in S,
         NEW f, \A s \in S : f[s] \in Nat
  PROVE  /\ IsFiniteSet(S \ {x})
         /\ Total(f, S \ {x}) \in Nat
         /\ Total(f, S) = Total(f, S \ {x}) + f[x]
<1>1. IsFiniteSet(S \ {x})
  BY FS_RemoveElement
<1>2. (S \ {x}) \cup {x} = S
  OBVIOUS
<1>3. Total(f, (S \ {x}) \cup {x}) = Total(f, S \ {x}) + f[x]
  BY <1>1, TotalAddElement
<1>4. QED
  BY <1>1, <1>2, <1>3, TotalType

(* Changing the value at one index changes the total by the difference. *)
LEMMA TotalUpdate ==
  ASSUME NEW S, IsFiniteSet(S), NEW x \in S,
         NEW f, \A s \in S : f[s] \in Nat,
         NEW g, \A s \in S : g[s] \in Nat,
         \A s \in S \ {x} : g[s] = f[s]
  PROVE  Total(g, S) = Total(f, S) - f[x] + g[x]
<1>1. Total(g, S \ {x}) = Total(f, S \ {x})
  BY TotalSame
<1>2. Total(f, S \ {x}) \in Nat /\ Total(f, S) = Total(f, S \ {x}) + f[x]
  BY TotalRemoveElement
<1>3. Total(g, S) = Total(g, S \ {x}) + g[x]
  BY TotalRemoveElement
<1>4. f[x] \in Nat /\ g[x] \in Nat
  OBVIOUS
<1>5. QED
  BY <1>1, <1>2, <1>3, <1>4

(* A total over a subset is at most the total over the set. *)
LEMMA TotalSubset ==
  ASSUME NEW S, IsFiniteSet(S), NEW T \in SUBSET S,
         NEW f, \A s \in S : f[s] \in Nat
  PROVE  Total(f, T) <= Total(f, S)
<1>1. Units(f, T) \subseteq Units(f, S)
  BY DEF Units
<1>2. IsFiniteSet(Units(f, S))
  BY TotalType
<1>3. QED
  BY <1>1, <1>2, FS_Subset DEF Total

(* Totals add up: the total of a pointwise sum is the sum of the totals.   *)
(* The subsets of S that refute it have a minimal one; taking an element   *)
(* out of that one refutes it again.                                       *)
LEMMA TotalSum ==
  ASSUME NEW S, IsFiniteSet(S),
         NEW f, \A s \in S : f[s] \in Nat,
         NEW g, \A s \in S : g[s] \in Nat,
         NEW h, \A s \in S : h[s] = f[s] + g[s]
  PROVE  Total(h, S) = Total(f, S) + Total(g, S)
<1> DEFINE Bad == {T \in SUBSET S : Total(h, T) # Total(f, T) + Total(g, T)}
<1>1. ASSUME Bad # {} PROVE FALSE
  <2>1. SUBSET S = FiniteSubsetsOf(S)
    BY FS_FiniteSubsetsOfFinite
  <2>2. IsWellFoundedOn(StrictSubsetOrdering(S), FiniteSubsetsOf(S))
    BY FS_StrictSubsetOrderingWellFounded
  <2>3. Bad \subseteq FiniteSubsetsOf(S)
    BY <2>1
  <2>4. PICK T \in Bad : \A U \in Bad : <<U, T>> \notin StrictSubsetOrdering(S)
    <3> HIDE DEF Bad
    <3> QED BY <1>1, <2>2, <2>3, WFMin
  <2>5. T \in SUBSET S /\ IsFiniteSet(T)
    BY FS_Subset
  <2>6. T # {}
    <3>1. Total(h, {}) = 0 /\ Total(f, {}) = 0 /\ Total(g, {}) = 0
      BY TotalEmpty
    <3>2. {} \notin Bad
      BY <3>1
    <3>3. QED
      BY <3>2
  <2>7. PICK x \in T : TRUE
    BY <2>6
  <2>8. \A s \in T : f[s] \in Nat /\ g[s] \in Nat /\ h[s] \in Nat /\ h[s] = f[s] + g[s]
    BY <2>5
  <2>9. T \ {x} \notin Bad
    <3>1. <<T \ {x}, T>> \in StrictSubsetOrdering(S)
      BY <2>5 DEF StrictSubsetOrdering
    <3> HIDE DEF Bad
    <3>2. QED
      BY <2>4, <3>1
  <2>10. Total(h, T \ {x}) = Total(f, T \ {x}) + Total(g, T \ {x})
    BY <2>5, <2>9
  <2>11. /\ Total(f, T \ {x}) \in Nat
         /\ Total(f, T) = Total(f, T \ {x}) + f[x]
    BY <2>5, <2>8, TotalRemoveElement
  <2>12. /\ Total(g, T \ {x}) \in Nat
         /\ Total(g, T) = Total(g, T \ {x}) + g[x]
    BY <2>5, <2>8, TotalRemoveElement
  <2>13. Total(h, T) = Total(h, T \ {x}) + h[x]
    BY <2>5, <2>8, TotalRemoveElement
  <2>14. Total(h, T) = Total(f, T) + Total(g, T)
    BY <2>8, <2>10, <2>11, <2>12, <2>13
  <2>15. QED
    BY <2>14
<1>2. QED
  BY <1>1

(* A total grows with its terms. *)
LEMMA TotalMonotone ==
  ASSUME NEW S, IsFiniteSet(S),
         NEW f, \A s \in S : f[s] \in Nat,
         NEW g, \A s \in S : g[s] \in Nat,
         \A s \in S : f[s] <= g[s]
  PROVE  Total(f, S) <= Total(g, S)
<1> DEFINE d == [s \in S |-> g[s] - f[s]]
<1>1. \A s \in S : d[s] \in Nat /\ g[s] = f[s] + d[s]
  OBVIOUS
<1>2. Total(g, S) = Total(f, S) + Total(d, S)
  <2> HIDE DEF d
  <2> QED BY <1>1, TotalSum
<1>3. Total(f, S) \in Nat /\ Total(d, S) \in Nat
  BY <1>1, TotalType
<1>4. QED
  BY <1>2, <1>3

(* Indices whose value is zero do not count. *)
LEMMA TotalZeros ==
  ASSUME NEW S, NEW T \in SUBSET S,
         NEW f, \A s \in S \ T : f[s] = 0
  PROVE  Total(f, S) = Total(f, T)
<1>1. \A s \in S \ T : {s} \X (1..f[s]) = {}
  BY 1..0 = {}
<1>2. Units(f, S) = Units(f, T)
  BY <1>1 DEF Units
<1>3. QED
  BY <1>2 DEF Total

-----------------------------------------------------------------------------
(* Division on the naturals rounds down. *)
LEMMA DivRoundsDown ==
  ASSUME NEW a \in Nat, NEW b \in Nat \ {0}
  PROVE  /\ a \div b \in Nat
         /\ (a \div b) * b <= a
         /\ a < (a \div b + 1) * b
<1>1. a = b * (a \div b) + (a % b) /\ a % b \in 0..(b - 1) /\ a \div b \in Int
  OBVIOUS
<1>2. a \div b >= 0
  OBVIOUS
<1>3. QED
  BY <1>1, <1>2

(* A quotient is the largest number whose product stays within the         *)
(* dividend.                                                               *)
LEMMA DivIsLargest ==
  ASSUME NEW a \in Nat, NEW b \in Nat \ {0}, NEW q \in Nat, q * b <= a
  PROVE  q <= a \div b
<1>1. a < (a \div b + 1) * b /\ a \div b \in Nat
  BY DivRoundsDown
<1> DEFINE d == a \div b
<1>2. SUFFICES ASSUME q >= d + 1 PROVE FALSE
  BY <1>1
<1>3. q * b >= (d + 1) * b
  <2> HIDE DEF d
  <2>1. d \in Nat
    BY <1>1 DEF d
  <2>2. PICK e \in Nat : q = (d + 1) + e
    <3>1. q - (d + 1) \in Nat /\ q = (d + 1) + (q - (d + 1))
      BY <1>2, <2>1
    <3>2. QED
      BY <3>1
  <2>3. q * b = (d + 1) * b + e * b /\ e * b >= 0
    BY <2>1, <2>2
  <2>4. QED
    BY <2>1, <2>3
<1>4. QED
  BY <1>1, <1>3

(* Quotients by the same number are in the order of their dividends.       *)
LEMMA DivMonotone ==
  ASSUME NEW a \in Nat, NEW b \in Nat, NEW c \in Nat \ {0}, a <= b
  PROVE  a \div c <= b \div c
<1>1. a \div c \in Nat /\ (a \div c) * c <= a
  BY DivRoundsDown
<1>2. (a \div c) * c \in Nat
  BY <1>1
<1>3. (a \div c) * c <= b
  BY <1>1, <1>2
<1>4. QED
  BY <1>1, <1>3, DivIsLargest

LEMMA PowersOfTwo ==
  ASSUME NEW n \in Nat
  PROVE  2 ^ n \in Nat \ {0}
<1> DEFINE S == 1 .. n
<1>1. IsFiniteSet(S) /\ Cardinality(S) = n
  BY FS_Interval
<1> HIDE DEF S
<1>2. IsFiniteSet(SUBSET S) /\ Cardinality(SUBSET S) = 2 ^ n
  BY <1>1, FS_SUBSET
<1>3. S \in SUBSET S
  OBVIOUS
<1>4. Cardinality(SUBSET S) \in Nat /\ Cardinality(SUBSET S) # 0
  BY <1>2, <1>3, FS_CardinalityType, FS_EmptySet
<1>5. QED
  BY <1>2, <1>4

(* A nonempty finite set of integers has a greatest element, by induction  *)
(* on its subsets.                                                         *)
LEMMA HasGreatest ==
  ASSUME NEW S \in SUBSET Int, IsFiniteSet(S), S # {}
  PROVE  \E x \in S : \A y \in S : x >= y
<1> DEFINE Without == {T \in SUBSET S : T # {} /\ ~ \E x \in T : \A y \in T : x >= y}
<1>1. SUFFICES ASSUME Without # {} PROVE FALSE
  <2>1. S \notin Without => \E x \in S : \A y \in S : x >= y
    OBVIOUS
  <2>2. QED
    BY <1>1, <2>1
<1>2. Without \subseteq FiniteSubsetsOf(S)
  BY FS_FiniteSubsetsOfFinite
<1>3. PICK T \in Without : \A U \in Without : <<U, T>> \notin StrictSubsetOrdering(S)
  <2>1. IsWellFoundedOn(StrictSubsetOrdering(S), FiniteSubsetsOf(S))
    BY FS_StrictSubsetOrderingWellFounded
  <2> HIDE DEF Without
  <2>2. QED
    BY <1>1, <1>2, <2>1, WFMin
<1>4. PICK x \in T : TRUE
  OBVIOUS
<1> DEFINE U == T \ {x}
<1>5. <<U, T>> \in StrictSubsetOrdering(S)
  BY <1>4 DEF StrictSubsetOrdering
<1>6. U \notin Without
  BY <1>3, <1>5
<1>7. CASE U = {}
  BY <1>4, <1>7
<1>8. CASE U # {}
  <2>1. PICK m \in U : \A y \in U : m >= y
    BY <1>6, <1>8
  <2>2. m \in Int /\ x \in Int /\ T \subseteq Int
    BY <1>4
  <2>3. CASE x >= m
    <3>1. \A y \in T : x >= y
      BY <2>1, <2>2, <2>3
    <3>2. QED
      BY <1>4, <3>1
  <2>4. CASE m >= x
    <3>1. \A y \in T : m >= y
      BY <2>1, <2>4
    <3>2. QED
      BY <2>1, <3>1
  <2>5. QED
    BY <2>2, <2>3, <2>4
<1>9. QED
  BY <1>7, <1>8

LEMMA HasLeast ==
  ASSUME NEW S \in SUBSET Int, IsFiniteSet(S), S # {}
  PROVE  \E x \in S : \A y \in S : x <= y
<1> DEFINE T == {-x : x \in S}
           f == [x \in S |-> -x]
<1>1. f \in Surjection(S, T)
  BY DEF Surjection
<1>2. T \in SUBSET Int /\ IsFiniteSet(T) /\ T # {}
  <2>1. IsFiniteSet(T)
    <3> HIDE DEF T, f
    <3>1. QED
      BY <1>1, FS_Surjection
  <2>2. \A x \in S : -x \in Int
    OBVIOUS
  <2>3. \E x \in S : -x \in T
    OBVIOUS
  <2>4. QED
    BY <2>1, <2>2, <2>3
<1>3. PICK y \in T : \A z \in T : y >= z
  <2> HIDE DEF T
  <2>1. QED
    BY <1>2, HasGreatest
<1>4. PICK x \in S : y = -x
  OBVIOUS
<1>5. ASSUME NEW z \in S PROVE x <= z
  <2>1. y >= -z
    BY <1>3
  <2>2. x \in Int /\ z \in Int
    OBVIOUS
  <2>3. QED
    BY <1>4, <2>1, <2>2
<1>6. QED
  BY <1>5

(* The output of a swap: a natural number, at most the reserve it is taken *)
(* from, and such that the product of the reserves does not fall           *)
(* (getAmountOut).                                                         *)
LEMMA GetAmountOutFacts ==
  ASSUME NEW amountIn \in Nat, NEW reserveIn \in Nat, NEW reserveOut \in Nat,
         CanQuoteOut(amountIn, reserveIn, reserveOut)
  PROVE  LET out == GetAmountOut(amountIn, reserveIn, reserveOut)
         IN /\ out \in Nat
            /\ out <= reserveOut
            /\ (reserveIn + amountIn) * (reserveOut - out)
                 >= reserveIn * reserveOut
<1> DEFINE num == amountIn * reserveOut
           den == reserveIn + amountIn
           out == num \div den
<1>1. num \in Nat /\ den \in Nat \ {0}
  BY DEF CanQuoteOut
<1>2. out \in Nat /\ out * den <= num
  <2> HIDE DEF num, den
  <2> QED BY <1>1, DivRoundsDown
<1>3. out <= reserveOut
  <2>1. SUFFICES ASSUME out > reserveOut PROVE FALSE
    BY <1>2
  <2>2. PICK e \in Nat : out = reserveOut + 1 + e
    <3>1. out - reserveOut - 1 \in Nat
      BY <1>2, <2>1
    <3>2. out = reserveOut + 1 + (out - reserveOut - 1)
      BY <1>2
    <3>3. QED
      BY <3>1, <3>2
  <2> HIDE DEF out
  <2>3. out * den = reserveOut * reserveIn + reserveOut * amountIn + den + e * den
    BY <2>2
  <2>4. reserveOut * reserveIn >= 0 /\ e * den >= 0 /\ den > 0
    BY <1>1
  <2>5. QED
    BY <1>2, <2>3, <2>4
<1>4. den * (reserveOut - out) >= reserveIn * reserveOut
  <2> HIDE DEF out
  <2>1. den * (reserveOut - out) = reserveIn * reserveOut + num - out * den
    BY <1>2
  <2>2. QED
    BY <1>1, <1>2, <2>1
<1>5. QED
  BY <1>2, <1>3, <1>4 DEF GetAmountOut

(* A fee is part of the amount it is taken from, at any rate up to 100%.   *)
LEMMA FeeAmountFacts ==
  ASSUME NEW amountIn \in Nat, NEW feeBps \in 0..BASIS_POINTS
  PROVE  /\ FeeAmount(amountIn, feeBps) \in Nat
         /\ FeeAmount(amountIn, feeBps) <= amountIn
<1> DEFINE fee == (amountIn * feeBps) \div 10000
<1>1. amountIn * feeBps \in Nat /\ amountIn * feeBps <= amountIn * 10000
  <2>1. PICK e \in Nat : 10000 = feeBps + e
    <3>1. 10000 - feeBps \in Nat
      BY DEF BASIS_POINTS
    <3>2. QED
      BY <3>1 DEF BASIS_POINTS
  <2>2. amountIn * 10000 = amountIn * feeBps + amountIn * e /\ amountIn * e >= 0
    BY <2>1
  <2>3. QED
    BY <2>2
<1>2. fee \in Nat /\ fee * 10000 <= amountIn * feeBps
  BY <1>1, DivRoundsDown
<1>3. fee <= amountIn
  <2> HIDE DEF fee
  <2> QED BY <1>1, <1>2
<1>4. QED
  BY <1>2, <1>3 DEF FeeAmount, BASIS_POINTS

(* A round trip never profits: tokens bought and sold back at once return  *)
(* at most what was paid, before any fee (getAmountOut, buy then sell).    *)
THEOREM RoundTripNeverProfits ==
  ASSUME NEW paid \in Nat, NEW usd \in Nat, NEW tokens \in Nat,
         CanQuoteOut(paid, usd, tokens),
         NEW bought, bought = GetAmountOut(paid, usd, tokens),
         CanQuoteOut(bought, tokens - bought, usd + paid)
  PROVE  GetAmountOut(bought, tokens - bought, usd + paid) <= paid
<1>1. bought \in Nat /\ bought <= tokens
  BY GetAmountOutFacts
<1>2. tokens \in Nat \ {0}
  BY DEF CanQuoteOut
<1>3. bought * (usd + paid) <= paid * tokens
  <2>1. usd + paid \in Nat \ {0} /\ paid * tokens \in Nat
    BY DEF CanQuoteOut
  <2>2. bought = (paid * tokens) \div (usd + paid)
    BY DEF GetAmountOut
  <2>3. QED
    BY <2>1, <2>2, DivRoundsDown
<1> DEFINE back == (bought * (usd + paid)) \div tokens
<1>4. back \in Nat /\ back * tokens <= bought * (usd + paid)
  <2>1. bought * (usd + paid) \in Nat
    BY <1>1
  <2>2. QED
    BY <1>2, <2>1, DivRoundsDown
<1>5. back <= paid
  <2> HIDE DEF back
  <2>1. back * tokens <= paid * tokens
    <3>1. back * tokens \in Int /\ bought * (usd + paid) \in Int /\ paid * tokens \in Int
      BY <1>1, <1>4
    <3>2. QED
      BY <1>3, <1>4, <3>1
  <2>2. SUFFICES ASSUME back >= paid + 1 PROVE FALSE
    BY <1>4
  <2>3. PICK e \in Nat : back = paid + 1 + e
    <3>1. back - paid - 1 \in Nat /\ back = paid + 1 + (back - paid - 1)
      BY <1>4, <2>2
    <3>2. QED
      BY <3>1
  <2>4. back * tokens = paid * tokens + tokens + e * tokens /\ e * tokens >= 0
    BY <1>2, <2>3
  <2>5. QED
    BY <1>2, <2>1, <2>4
<1>6. (tokens - bought) + bought = tokens
  BY <1>1
<1>7. QED
  BY <1>5, <1>6 DEF GetAmountOut
=============================================================================
