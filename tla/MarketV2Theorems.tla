-------------------------- MODULE MarketV2Theorems --------------------------
(***************************************************************************)
(* Proofs about the V2 money flow, for all coins, markets, users, amounts  *)
(* and fee rates.                                                          *)
(***************************************************************************)
EXTENDS MarketV2, ArithmeticTheorems

-----------------------------------------------------------------------------
(* What _sendStable pays.                                                  *)

(* A non-empty set of numbers up to n has a least one.                     *)
LEMMA LeastNumber ==
  ASSUME NEW n \in Nat, NEW K \in SUBSET (0..n), K # {}
  PROVE  \E k \in K : \A j \in K : k <= j
<1> DEFINE S == 1..n
           I == {1..k : k \in K}
<1>1. IsFiniteSet(S)
  BY FS_Interval
<1>2. I \subseteq FiniteSubsetsOf(S) /\ I # {}
  <2>1. FiniteSubsetsOf(S) = SUBSET S
    BY <1>1, FS_FiniteSubsetsOfFinite
  <2>2. \A k \in K : 1..k \in SUBSET S
    OBVIOUS
  <2>3. I # {}
    OBVIOUS
  <2>4. I \subseteq SUBSET S
    <3> HIDE DEF S
    <3> QED BY <2>2
  <2> HIDE DEF I, S
  <2>5. QED
    BY <2>1, <2>3, <2>4
<1>3. PICK T \in I : \A U \in I : <<U, T>> \notin StrictSubsetOrdering(S)
  <2> HIDE DEF I, S
  <2>1. IsWellFoundedOn(StrictSubsetOrdering(S), FiniteSubsetsOf(S))
    BY <1>1, FS_StrictSubsetOrderingWellFounded
  <2> QED BY <1>2, <2>1, WFMin
<1>4. PICK k \in K : T = 1..k
  OBVIOUS
<1>5. ASSUME NEW j \in K, j < k PROVE FALSE
  <2>1. 1..j \subseteq 1..k /\ k \in 1..k /\ k \notin 1..j
    BY <1>5
  <2>2. 1..j \in SUBSET S /\ 1..k \in SUBSET S /\ 1..j # 1..k
    BY <2>1
  <2>3. <<1..j, T>> \in StrictSubsetOrdering(S)
    BY <1>4, <2>1, <2>2 DEF StrictSubsetOrdering
  <2>4. QED
    BY <1>3, <2>3
<1>6. QED
  BY <1>5

(* The list and the preferred coin are finitely many coins.                *)
LEMMA PayableFacts ==
  ASSUME stablecoins \in Seq(Stables), NEW preferred \in Stables
  PROVE  /\ Range(stablecoins) \subseteq Stables
         /\ Payable(preferred) \subseteq Stables
         /\ IsFiniteSet(Range(stablecoins))
         /\ IsFiniteSet(Payable(preferred))
         /\ \A s \in Stables : /\ AheadOf(preferred, s) \subseteq Stables
                               /\ IsFiniteSet(AheadOf(preferred, s))
<1>1. Range(stablecoins) \subseteq Stables
  BY DEF Range
<1>2. \A s \in Stables : AheadOf(preferred, s) \subseteq Stables
  BY DEF AheadOf
<1>3. QED
  BY <1>1, <1>2, FiniteAssumption, FS_Subset DEF Payable

(* Each coin is paid out of what is held of it.                            *)
LEMMA PayoutWithinHoldings ==
  ASSUME stablecoins \in Seq(Stables), NEW preferred \in Stables,
         NEW h \in [Stables -> Nat], NEW amount \in Nat
  PROVE  /\ Payout(h, preferred, amount) \in [Stables -> Nat]
         /\ \A s \in Stables : Payout(h, preferred, amount)[s] <= h[s]
<1> SUFFICES ASSUME NEW s \in Stables
             PROVE  /\ Payout(h, preferred, amount)[s] \in Nat
                    /\ Payout(h, preferred, amount)[s] <= h[s]
  BY DEF Payout
<1>1. Total(h, AheadOf(preferred, s)) \in Nat
  BY PayableFacts, TotalType
<1>2. QED
  BY <1>1 DEF Payout, Smaller, AtLeastZero

(* The coins are drawn on one after the other, so altogether the payout is *)
(* the amount, or everything payable when this is less.                    *)
LEMMA PayoutTotal ==
  ASSUME stablecoins \in Seq(Stables), IsInjective(stablecoins),
         NEW preferred \in Stables,
         NEW h \in [Stables -> Nat], NEW amount \in Nat
  PROVE  Total(Payout(h, preferred, amount), Stables)
           = Smaller(amount, Total(h, Payable(preferred)))
<1> DEFINE p == Payout(h, preferred, amount)
           n == Len(stablecoins)
           Drawn(k) == {preferred} \cup {stablecoins[j] : j \in 1..k}
           Right(k) == Total(p, Drawn(k)) = Smaller(amount, Total(h, Drawn(k)))
           Bad == {k \in 0..n : ~ Right(k)}
<1>1. n \in Nat /\ DOMAIN stablecoins = 1..n
      /\ \A j \in 1..n : stablecoins[j] \in Stables
  OBVIOUS
<1>2. p \in [Stables -> Nat]
  BY PayoutWithinHoldings
<1>3. \A k \in 0..n : Drawn(k) \subseteq Stables /\ IsFiniteSet(Drawn(k))
  <2> SUFFICES ASSUME NEW k \in 0..n PROVE Drawn(k) \subseteq Stables
    BY FiniteAssumption, FS_Subset
  <2> QED BY <1>1
<1>4. \A k \in 0..n : Total(h, Drawn(k)) \in Nat
  <2> SUFFICES ASSUME NEW k \in 0..n PROVE Total(h, Drawn(k)) \in Nat
    OBVIOUS
  <2>1. IsFiniteSet(Drawn(k)) /\ \A s \in Drawn(k) : h[s] \in Nat
    BY <1>3
  <2> HIDE DEF Drawn
  <2> QED BY <2>1, TotalType
<1>5. Right(0)
  <2>1. Drawn(0) = {} \cup {preferred}
    OBVIOUS
  <2>2. Total(h, {} \cup {preferred}) = Total(h, {}) + h[preferred]
    BY FS_EmptySet, TotalAddElement
  <2>3. Total(p, {} \cup {preferred}) = Total(p, {}) + p[preferred]
    <3> HIDE DEF p
    <3> QED BY <1>2, FS_EmptySet, TotalAddElement
  <2>4. Total(h, {}) = 0 /\ Total(p, {}) = 0
    <3> HIDE DEF p
    <3> QED BY TotalEmpty
  <2>5. AheadOf(preferred, preferred) = {} /\ preferred \in Payable(preferred)
    BY DEF AheadOf, Payable
  <2>6. p[preferred] = Smaller(h[preferred], AtLeastZero(amount - 0))
    BY <2>4, <2>5 DEF Payout
  <2>7. p[preferred] = Smaller(amount, h[preferred])
    BY <2>6 DEF Smaller, AtLeastZero
  <2>8. Total(h, Drawn(0)) = h[preferred] /\ Total(p, Drawn(0)) = p[preferred]
    <3>1. h[preferred] \in Nat /\ p[preferred] \in Nat
      BY <1>2
    <3> HIDE DEF p, Drawn
    <3>2. Total(h, Drawn(0)) = 0 + h[preferred]
      BY <2>1, <2>2, <2>4
    <3>3. Total(p, Drawn(0)) = 0 + p[preferred]
      BY <2>1, <2>3, <2>4
    <3>4. QED
      BY <3>1, <3>2, <3>3
  <2>9. QED
    <3> HIDE DEF p, Drawn
    <3> QED BY <2>7, <2>8
<1>6. ASSUME NEW k \in 1..n, Right(k - 1) PROVE Right(k)
  <2> DEFINE s == stablecoins[k]
  <2>1. s \in Stables /\ k - 1 \in 0..n
    BY <1>1, <1>6
  <2>2. Drawn(k) = Drawn(k - 1) \cup {s}
    <3>1. 1..k = (1..(k - 1)) \cup {k}
      BY <1>6
    <3>2. QED
      BY <3>1
  <2>3. CASE s \in Drawn(k - 1)
    <3>1. Drawn(k) = Drawn(k - 1)
      <4> HIDE DEF Drawn
      <4> QED BY <2>2, <2>3
    <3>2. QED
      BY <1>6, <3>1
  <2>4. CASE s \notin Drawn(k - 1)
    <3>1. AheadOf(preferred, s) = Drawn(k - 1)
      <4>1. s # preferred
        BY <2>4
      <4>2. {j \in DOMAIN stablecoins :
               \E i \in DOMAIN stablecoins : j < i /\ stablecoins[i] = s} = 1..(k - 1)
        <5>1. \A i \in DOMAIN stablecoins : stablecoins[i] = s => i = k
          BY <1>1, <1>6 DEF IsInjective
        <5>2. QED
          BY <1>1, <5>1
      <4>3. AheadOf(preferred, s) = {preferred} \cup {stablecoins[j] : j \in 1..(k - 1)}
        BY <4>1, <4>2 DEF AheadOf
      <4>4. QED
        BY <4>3
    <3>2. s \in Payable(preferred)
      BY <1>1 DEF Payable, Range
    <3>3. p[s] = Smaller(h[s], AtLeastZero(amount - Total(h, Drawn(k - 1))))
      <4> HIDE DEF Drawn, s
      <4> QED BY <2>1, <3>1, <3>2 DEF Payout
    <3>4. Total(h, Drawn(k)) = Total(h, Drawn(k - 1)) + h[s]
      <4>1. IsFiniteSet(Drawn(k - 1)) /\ \A x \in Drawn(k - 1) \cup {s} : h[x] \in Nat
        BY <1>3, <2>1
      <4> HIDE DEF Drawn, s
      <4> QED BY <2>2, <2>4, <4>1, TotalAddElement
    <3>5. Total(p, Drawn(k)) = Total(p, Drawn(k - 1)) + p[s]
      <4>1. IsFiniteSet(Drawn(k - 1)) /\ \A x \in Drawn(k - 1) \cup {s} : p[x] \in Nat
        BY <1>2, <1>3, <2>1
      <4> HIDE DEF Drawn, s, p
      <4> QED BY <2>2, <2>4, <4>1, TotalAddElement
    <3>6. Total(h, Drawn(k - 1)) \in Nat /\ h[s] \in Nat
      BY <1>4, <2>1
    <3>7. Total(p, Drawn(k - 1)) = Smaller(amount, Total(h, Drawn(k - 1)))
      BY <1>6
    <3>8. QED
      <4>1. \A x, y \in Nat :
              Smaller(amount, x) + Smaller(y, AtLeastZero(amount - x))
                = Smaller(amount, x + y)
        BY DEF Smaller, AtLeastZero
      <4>2. Smaller(amount, Total(h, Drawn(k - 1)))
              + Smaller(h[s], AtLeastZero(amount - Total(h, Drawn(k - 1))))
              = Smaller(amount, Total(h, Drawn(k - 1)) + h[s])
        <5> HIDE DEF Drawn, s, p
        <5> QED BY <3>6, <4>1
      <4>3. QED
        <5> HIDE DEF Drawn, s, p
        <5> QED BY <3>3, <3>4, <3>5, <3>7, <4>2
  <2>5. QED
    BY <2>3, <2>4
<1>7. Bad = {}
  <2> SUFFICES ASSUME Bad # {} PROVE FALSE
    OBVIOUS
  <2>1. PICK k \in Bad : \A j \in Bad : k <= j
    <3>1. Bad \in SUBSET (0..n)
      OBVIOUS
    <3> HIDE DEF Bad
    <3>2. QED
      BY <1>1, <3>1, LeastNumber
  <2>2. k # 0
    BY <1>5
  <2>3. k \in 1..n /\ k - 1 \in 0..n /\ k - 1 \notin Bad
    <3>1. k \in 0..n
      OBVIOUS
    <3>2. k \in 1..n /\ k - 1 \in 0..n /\ ~ (k <= k - 1)
      BY <1>1, <2>2, <3>1
    <3> HIDE DEF Bad
    <3>3. QED
      BY <2>1, <3>2
  <2>4. Right(k - 1)
    <3> HIDE DEF Right
    <3> QED BY <2>3
  <2>5. QED
    <3> HIDE DEF Right
    <3> QED BY <1>6, <2>1, <2>3, <2>4
<1>8. Right(n)
  <2>1. n \in 0..n
    BY <1>1
  <2> HIDE DEF Right
  <2>2. QED
    BY <1>7, <2>1
<1>9. Drawn(n) = Payable(preferred)
  BY <1>1 DEF Payable, Range
<1>10. Total(p, Stables) = Total(p, Payable(preferred))
  <2>1. \A s \in Stables \ Payable(preferred) : p[s] = 0
    BY DEF Payout
  <2> HIDE DEF p
  <2>2. QED
    BY <1>2, <2>1, PayableFacts, FiniteAssumption, TotalZeros
<1>11. QED
  BY <1>8, <1>9, <1>10

-----------------------------------------------------------------------------
(* Type correctness.                                                       *)

(* A covered transfer keeps the balances natural numbers.                  *)
LEMMA TransferFacts ==
  ASSUME NEW A, NEW f \in [A -> Nat], NEW x \in A, NEW y \in A, x # y,
         NEW a \in Nat, a <= f[x]
  PROVE  /\ Transfer(f, x, y, a) \in [A -> Nat]
         /\ Transfer(f, x, y, a)[x] = f[x] - a
         /\ Transfer(f, x, y, a)[y] = f[y] + a
         /\ \A z \in A \ {x, y} : Transfer(f, x, y, a)[z] = f[z]
BY DEF Transfer

(* A trade has a trader, a coin, a market and a rate of the right kind.    *)
LEMMA RateIsPart ==
  ASSUME NEW feeBps \in FeeRates, NEW amount \in Nat
  PROVE  FeeAmount(amount, feeBps) \in Nat /\ FeeAmount(amount, feeBps) <= amount
<1>1. feeBps \in 0..BASIS_POINTS
  BY PoolAssumption DEF BASIS_POINTS
<1>2. QED
  BY <1>1, FeeAmountFacts

LEMMA RecordFeeType ==
  ASSUME CollectorTypeOK, NEW n \in Markets, NEW s \in Stables,
         NEW amount \in Nat, RecordFee(n, s, amount)
  PROVE  /\ pendingFees' \in [Markets -> Nat]
         /\ feeBalances' \in [Markets -> [Stables -> Nat]]
         /\ feeStablecoins' \in [Markets -> Seq(Stables)]
<1>1. pendingFees' \in [Markets -> Nat]
  BY DEF CollectorTypeOK, RecordFee
<1>2. feeBalances' \in [Markets -> [Stables -> Nat]]
  BY DEF CollectorTypeOK, RecordFee
<1>3. feeStablecoins' \in [Markets -> Seq(Stables)]
  <2>1. TrackStable(feeStablecoins[n], feeBalances[n][s], s) \in Seq(Stables)
    BY DEF CollectorTypeOK, TrackStable
  <2>2. QED
    BY <2>1 DEF CollectorTypeOK, RecordFee
<1>4. QED
  BY <1>1, <1>2, <1>3

LEMMA AccumulateFeeType ==
  ASSUME CollectorTypeOK, NEW n \in Markets, NEW s \in Stables,
         NEW amount \in Nat, AccumulateFee(n, s, amount)
  PROVE  CollectorTypeOK'
BY RecordFeeType DEF AccumulateFee, historyVars, CollectorTypeOK

LEMMA UnpaidType ==
  ASSUME TypeOK, RecordByAnyone
  PROVE  TypeOK'
<1>1. PICK n \in Markets, amount \in RecordAmounts : AccumulateUnpaid(n, amount)
  BY DEF RecordByAnyone
<1>2. amount \in Nat /\ CollectorTypeOK
  BY RecordAssumption DEF TypeOK
<1>3. CollectorTypeOK'
  <2>1. CASE /\ \E s \in Stables : RecordFee(n, s, amount)
             /\ unpaid' = unpaid + amount
             /\ UNCHANGED coinless
    BY <1>2, <2>1, RecordFeeType DEF CollectorTypeOK
  <2>2. CASE /\ pendingFees' = [pendingFees EXCEPT ![n] = @ + amount]
             /\ coinless' = [coinless EXCEPT ![n] = @ + amount]
             /\ UNCHANGED <<feeBalances, feeStablecoins, unpaid>>
    BY <1>2, <2>2 DEF CollectorTypeOK
  <2>3. QED
    BY <1>1, <2>1, <2>2 DEF AccumulateUnpaid
<1>4. QED
  BY <1>3
     DEF RecordByAnyone, TypeOK, PoolTypeOK, RegistryTypeOK, poolVars,
         registryVars, positionVars

(* A buy moves amounts that are there: the payer has the coins, the pool   *)
(* has the tokens, and the fee is part of the payment.                     *)
LEMMA BuyType ==
  ASSUME TypeOK,
         NEW m \in Markets, NEW s \in Stables, NEW u \in Users, NEW to \in Users,
         NEW amount \in Nat, NEW minOut \in Nat, NEW feeBps \in FeeRates,
         Buy(m, s, u, to, amount, minOut, feeBps), UNCHANGED positionVars
  PROVE  TypeOK'
<1> DEFINE fee == FeeAmount(amount, feeBps)
           usd == EffectiveReserveUSD(m)
           out == GetAmountOut(amount - fee, usd, reserveToken[m])
<1>1. fee \in Nat /\ fee <= amount /\ amount - fee \in Nat
  <2>1. fee \in Nat /\ fee <= amount
    BY RateIsPart
  <2> HIDE DEF fee
  <2>2. QED
    BY <2>1
<1>2. usd \in Nat /\ reserveToken[m] \in Nat
  BY PoolAssumption DEF EffectiveReserveUSD, TypeOK, PoolTypeOK
<1>3. out \in Nat /\ out <= reserveToken[m]
  <2>1. CanQuoteOut(amount - fee, usd, reserveToken[m])
    BY DEF Buy
  <2> HIDE DEF fee, usd
  <2>2. QED
    BY <1>1, <1>2, <2>1, GetAmountOutFacts
<1>4. /\ amount <= stableBal[s][u]
      /\ out <= tokenBal[m][m]
      /\ stableBal' = [stableBal EXCEPT ![s] =
           Transfer(Transfer(@, u, m, amount), m, FeeCollector, fee)]
      /\ tokenBal' = [tokenBal EXCEPT ![m] = Transfer(@, m, to, out)]
      /\ realReserveUSD' = [realReserveUSD EXCEPT ![m] = @ + amount - fee]
      /\ reserveToken' = [reserveToken EXCEPT ![m] = @ - out]
      /\ cumulativeFees' = [cumulativeFees EXCEPT ![m] = @ + fee]
      /\ IF fee > 0 THEN AccumulateFee(m, s, fee) ELSE UNCHANGED collectorVars
      /\ UNCHANGED registryVars
  BY DEF Buy, RealAfterBuy
<1>5. CollectorTypeOK'
  <2>1. CASE AccumulateFee(m, s, fee)
    <3> HIDE DEF fee
    <3> QED BY <1>1, <2>1, AccumulateFeeType DEF TypeOK
  <2>2. CASE UNCHANGED collectorVars
    BY <2>2 DEF TypeOK, CollectorTypeOK, collectorVars, historyVars
  <2>3. QED
    BY <1>4, <2>1, <2>2
<1> HIDE DEF fee, usd, out
<1>6. stableBal' \in [Stables -> [Accounts -> Nat]]
  <2>1. u \in Accounts /\ m \in Accounts /\ FeeCollector \in Accounts
        /\ u # m /\ m # FeeCollector /\ u # FeeCollector
    BY AccountsAssumption DEF Accounts
  <2>2. stableBal \in [Stables -> [Accounts -> Nat]]
    BY DEF TypeOK
  <2>3. stableBal[s] \in [Accounts -> Nat] /\ amount <= stableBal[s][u]
    BY <1>4, <2>2
  <2> DEFINE paid == Transfer(stableBal[s], u, m, amount)
  <2>4. paid \in [Accounts -> Nat] /\ fee <= paid[m]
    <3>1. paid \in [Accounts -> Nat] /\ paid[m] = stableBal[s][m] + amount
      BY <2>1, <2>3, TransferFacts
    <3>2. stableBal[s][m] \in Nat
      BY <2>1, <2>3
    <3> HIDE DEF paid
    <3>3. QED
      BY <1>1, <3>1, <3>2
  <2>5. Transfer(paid, m, FeeCollector, fee) \in [Accounts -> Nat]
    <3> HIDE DEF paid
    <3> QED BY <1>1, <2>1, <2>4, TransferFacts
  <2>6. QED
    BY <1>4, <2>2, <2>5
<1>7. PoolTypeOK'
  <2>1. m \in Accounts /\ to \in Accounts /\ m # to
    BY AccountsAssumption DEF Accounts
  <2>2. PoolTypeOK
    BY DEF TypeOK
  <2>3. Transfer(tokenBal[m], m, to, out) \in [Accounts -> Nat]
    <3>1. tokenBal[m] \in [Accounts -> Nat] /\ out <= tokenBal[m][m]
      BY <1>4, <2>2 DEF PoolTypeOK
    <3>2. QED
      BY <1>3, <2>1, <3>1, TransferFacts
  <2>4. tokenBal' \in [Markets -> [Accounts -> Nat]]
    BY <1>4, <2>2, <2>3 DEF PoolTypeOK
  <2>5. realReserveUSD' \in [Markets -> Nat]
    BY <1>1, <1>4, <2>2 DEF PoolTypeOK
  <2>6. reserveToken' \in [Markets -> Nat]
    BY <1>3, <1>4, <2>2 DEF PoolTypeOK
  <2>7. cumulativeFees' \in [Markets -> Nat]
    BY <1>1, <1>4, <2>2 DEF PoolTypeOK
  <2>8. QED
    BY <2>4, <2>5, <2>6, <2>7 DEF PoolTypeOK
<1>8. QED
  BY <1>4, <1>5, <1>6, <1>7
     DEF TypeOK, positionVars, registryVars, RegistryTypeOK

(* What a sale does, in terms of the amounts it moves.                     *)
SaleMoves(m, s, u, to, amount, out, feeUsd, feeCoins, outCoins) ==
  /\ out + feeUsd <= realReserveUSD[m]
  /\ amount <= tokenBal[m][u]
  /\ \A c \in Stables : feeCoins[c] + outCoins[c] <= stableBal[c][m]
  /\ Total(feeCoins, Stables) = feeUsd
  /\ Total(outCoins, Stables) = out
  /\ \A c \in Stables \ approved : feeCoins[c] = 0 /\ outCoins[c] = 0
  /\ stableBal' = [c \in Stables |->
       Transfer(Transfer(stableBal[c], m, FeeCollector, feeCoins[c]),
                m, to, outCoins[c])]
  /\ tokenBal' = [tokenBal EXCEPT ![m] = Transfer(@, u, m, amount)]
  /\ realReserveUSD' = [realReserveUSD EXCEPT ![m] = @ - (out + feeUsd)]
  /\ reserveToken' = [reserveToken EXCEPT ![m] = @ + amount]
  /\ cumulativeFees' = [cumulativeFees EXCEPT ![m] = @ + feeUsd]
  /\ IF feeUsd > 0 THEN AccumulateFee(m, s, feeUsd)
                   ELSE UNCHANGED collectorVars
  /\ UNCHANGED registryVars

(* The coins a sale moves add up to the amounts it books (swap,            *)
(* _sendStable).                                                           *)
LEMMA SellFacts ==
  ASSUME TypeOK, ListMatchesFlags,
         NEW m \in Markets, NEW s \in Stables, NEW u \in Users, NEW to \in Users,
         NEW amount \in Nat, NEW minOut \in Nat, NEW feeBps \in FeeRates,
         Sell(m, s, u, to, amount, minOut, feeBps)
  PROVE  \E out, feeUsd \in Nat, feeCoins, outCoins \in [Stables -> Nat] :
           SaleMoves(m, s, u, to, amount, out, feeUsd, feeCoins, outCoins)
<1> DEFINE fee == FeeAmount(amount, feeBps)
           usd == EffectiveReserveUSD(m)
           out == GetAmountOut(amount - fee, reserveToken[m], usd)
           feeUsd == FeeUsdValue(fee, amount, reserveToken[m], usd)
           h == Holdings(m)
           feeCoins == Payout(h, s, feeUsd)
           left == [c \in Stables |-> h[c] - feeCoins[c]]
           outCoins == Payout(left, s, out)
<1>1. fee \in Nat /\ fee <= amount /\ amount - fee \in Nat
  <2>1. fee \in Nat /\ fee <= amount
    BY RateIsPart
  <2> HIDE DEF fee
  <2>2. QED
    BY <2>1
<1>2. usd \in Nat \ {0} /\ reserveToken[m] \in Nat
  BY PoolAssumption DEF EffectiveReserveUSD, TypeOK, PoolTypeOK
<1>3. CanQuoteOut(amount - fee, reserveToken[m], usd)
  BY DEF Sell
<1>4. out \in Nat
  <2> HIDE DEF fee, usd
  <2> QED BY <1>1, <1>2, <1>3, GetAmountOutFacts
<1>5. feeUsd \in Nat
  <2>1. CASE fee > 0
    <3>1. reserveToken[m] + amount \in Nat
          /\ CanQuoteOut(fee, reserveToken[m] + amount, usd)
      BY <1>1, <1>2, <1>3, <2>1 DEF CanQuoteOut
    <3>2. GetAmountOut(fee, reserveToken[m] + amount, usd) \in Nat
      <4> HIDE DEF fee, usd
      <4> QED BY <1>1, <1>2, <3>1, GetAmountOutFacts
    <3>3. QED
      BY <2>1, <3>2 DEF FeeUsdValue
  <2>2. CASE ~ (fee > 0)
    BY <2>2 DEF FeeUsdValue
  <2>3. QED
    BY <2>1, <2>2
<1>6. stablecoins \in Seq(Stables) /\ IsInjective(stablecoins)
  BY DEF TypeOK, RegistryTypeOK, ListMatchesFlags
<1>7. h \in [Stables -> Nat]
  BY AccountsAssumption DEF Holdings, TypeOK, Accounts
<1>8. feeCoins \in [Stables -> Nat] /\ \A c \in Stables : feeCoins[c] <= h[c]
  <2> HIDE DEF h, feeUsd
  <2> QED BY <1>5, <1>6, <1>7, PayoutWithinHoldings
<1>9. left \in [Stables -> Nat]
  <2> HIDE DEF h, feeCoins
  <2> QED BY <1>7, <1>8
<1>10. outCoins \in [Stables -> Nat] /\ \A c \in Stables : outCoins[c] <= left[c]
  <2> HIDE DEF left, out
  <2> QED BY <1>4, <1>6, <1>9, PayoutWithinHoldings
<1>11. CanSendStable(h, s, feeUsd) /\ CanSendStable(left, s, out)
  BY DEF Sell
<1>12. Total(feeCoins, Stables) = feeUsd
  <2>1. Total(feeCoins, Stables) = Smaller(feeUsd, Total(h, Payable(s)))
    <3> HIDE DEF h, feeUsd
    <3> QED BY <1>5, <1>6, <1>7, PayoutTotal
  <2> HIDE DEF h, feeUsd, feeCoins
  <2>2. QED
    BY <1>11, <2>1 DEF CanSendStable, Smaller
<1>13. Total(outCoins, Stables) = out
  <2>1. Total(outCoins, Stables) = Smaller(out, Total(left, Payable(s)))
    <3> HIDE DEF left, out
    <3> QED BY <1>4, <1>6, <1>9, PayoutTotal
  <2> HIDE DEF left, out, outCoins
  <2>2. QED
    BY <1>11, <2>1 DEF CanSendStable, Smaller
<1>14. \A c \in Stables : feeCoins[c] + outCoins[c] <= stableBal[c][m]
  <2> SUFFICES ASSUME NEW c \in Stables
               PROVE  feeCoins[c] + outCoins[c] <= stableBal[c][m]
    OBVIOUS
  <2>1. h[c] = stableBal[c][m] /\ left[c] = h[c] - feeCoins[c]
    BY DEF Holdings
  <2> HIDE DEF h, left, feeCoins, outCoins
  <2>2. QED
    BY <1>7, <1>8, <1>10, <2>1
<1>15. /\ out + feeUsd <= realReserveUSD[m]
       /\ amount <= tokenBal[m][u]
       /\ stableBal' = [c \in Stables |->
            Transfer(Transfer(stableBal[c], m, FeeCollector, feeCoins[c]),
                     m, to, outCoins[c])]
       /\ tokenBal' = [tokenBal EXCEPT ![m] = Transfer(@, u, m, amount)]
       /\ realReserveUSD' = [realReserveUSD EXCEPT ![m] = @ - (out + feeUsd)]
       /\ reserveToken' = [reserveToken EXCEPT ![m] = @ + amount]
       /\ cumulativeFees' = [cumulativeFees EXCEPT ![m] = @ + feeUsd]
       /\ IF feeUsd > 0 THEN AccumulateFee(m, s, feeUsd)
                        ELSE UNCHANGED collectorVars
       /\ UNCHANGED registryVars
  BY DEF Sell, IsWithinRealLiquidity, TokensAfterSell
<1>16. \A c \in Stables \ approved : feeCoins[c] = 0 /\ outCoins[c] = 0
  <2>1. Payable(s) = approved
    BY DEF Payable, ListMatchesFlags, Sell
  <2> HIDE DEF h, left, feeUsd, out
  <2>2. QED
    BY <2>1 DEF Payout
<1> HIDE DEF out, feeUsd, feeCoins, outCoins
<1>17. SaleMoves(m, s, u, to, amount, out, feeUsd, feeCoins, outCoins)
  BY <1>12, <1>13, <1>14, <1>15, <1>16 DEF SaleMoves
<1>18. QED
  BY <1>4, <1>5, <1>8, <1>10, <1>17

(* A sale keeps the types: the pool and the seller have what they pay.     *)
LEMMA SellType ==
  ASSUME TypeOK, ListMatchesFlags,
         NEW m \in Markets, NEW s \in Stables, NEW u \in Users, NEW to \in Users,
         NEW amount \in Nat, NEW minOut \in Nat, NEW feeBps \in FeeRates,
         Sell(m, s, u, to, amount, minOut, feeBps), UNCHANGED positionVars
  PROVE  TypeOK'
<1>1. PICK out, feeUsd \in Nat, feeCoins, outCoins \in [Stables -> Nat] :
        SaleMoves(m, s, u, to, amount, out, feeUsd, feeCoins, outCoins)
  BY SellFacts
<1>2. m \in Accounts /\ u \in Accounts /\ to \in Accounts
      /\ FeeCollector \in Accounts /\ m # u /\ m # to /\ m # FeeCollector
  BY AccountsAssumption DEF Accounts
<1>3. stableBal' \in [Stables -> [Accounts -> Nat]]
  <2> SUFFICES ASSUME NEW c \in Stables
               PROVE  Transfer(Transfer(stableBal[c], m, FeeCollector, feeCoins[c]),
                               m, to, outCoins[c]) \in [Accounts -> Nat]
    BY <1>1 DEF SaleMoves
  <2> DEFINE bal == stableBal[c]
             mid == Transfer(bal, m, FeeCollector, feeCoins[c])
  <2>1. /\ bal \in [Accounts -> Nat] /\ bal[m] \in Nat
        /\ feeCoins[c] \in Nat /\ outCoins[c] \in Nat
        /\ feeCoins[c] + outCoins[c] <= bal[m]
    BY <1>1, <1>2 DEF TypeOK, SaleMoves
  <2> HIDE DEF bal
  <2>2. mid \in [Accounts -> Nat] /\ mid[m] = bal[m] - feeCoins[c]
    <3>1. feeCoins[c] <= bal[m]
      BY <2>1
    <3>2. QED
      BY <1>2, <2>1, <3>1, TransferFacts
  <2> HIDE DEF mid
  <2>3. outCoins[c] <= mid[m]
    BY <2>1, <2>2
  <2>4. Transfer(mid, m, to, outCoins[c]) \in [Accounts -> Nat]
    BY <1>2, <2>1, <2>2, <2>3, TransferFacts
  <2>5. QED
    BY <2>4 DEF mid, bal
<1>4. PoolTypeOK'
  <2>1. PoolTypeOK
    BY DEF TypeOK
  <2>2. Transfer(tokenBal[m], u, m, amount) \in [Accounts -> Nat]
    <3>1. tokenBal[m] \in [Accounts -> Nat] /\ amount <= tokenBal[m][u]
      BY <1>1, <2>1 DEF PoolTypeOK, SaleMoves
    <3>2. QED
      BY <1>2, <3>1, TransferFacts
  <2>3. tokenBal' \in [Markets -> [Accounts -> Nat]]
    BY <1>1, <2>1, <2>2 DEF PoolTypeOK, SaleMoves
  <2>4. realReserveUSD' \in [Markets -> Nat]
    BY <1>1, <2>1 DEF PoolTypeOK, SaleMoves
  <2>5. reserveToken' \in [Markets -> Nat]
    BY <1>1, <2>1 DEF PoolTypeOK, SaleMoves
  <2>6. cumulativeFees' \in [Markets -> Nat]
    BY <1>1, <2>1 DEF PoolTypeOK, SaleMoves
  <2>7. QED
    BY <2>3, <2>4, <2>5, <2>6 DEF PoolTypeOK
<1>5. CollectorTypeOK'
  <2>1. CASE AccumulateFee(m, s, feeUsd)
    BY <2>1, AccumulateFeeType DEF TypeOK
  <2>2. CASE UNCHANGED collectorVars
    BY <2>2 DEF TypeOK, CollectorTypeOK, collectorVars, historyVars
  <2>3. QED
    BY <1>1, <2>1, <2>2 DEF SaleMoves
<1>6. QED
  BY <1>1, <1>3, <1>4, <1>5
     DEF TypeOK, SaleMoves, positionVars, registryVars, RegistryTypeOK

-----------------------------------------------------------------------------
(* The registry.                                                           *)

(* Adding a coin that is not approved keeps list and flags in agreement.   *)
LEMMA AddKeepsList ==
  ASSUME RegistryTypeOK, ListMatchesFlags,
         NEW caller, NEW s \in Stables, AddStablecoin(caller, s)
  PROVE  RegistryTypeOK' /\ ListMatchesFlags'
<1> DEFINE n == Len(stablecoins)
<1>1. /\ s \notin approved
      /\ approved' = approved \cup {s}
      /\ stablecoins' = Append(stablecoins, s)
  BY DEF AddStablecoin
<1>2. /\ stablecoins \in Seq(Stables) /\ n \in Nat
      /\ DOMAIN stablecoins = 1..n
      /\ \A i, j \in 1..n : stablecoins[i] = stablecoins[j] => i = j
      /\ approved = {stablecoins[i] : i \in 1..n}
  BY DEF RegistryTypeOK, ListMatchesFlags, IsInjective, Range
<1>3. /\ stablecoins' \in Seq(Stables)
      /\ DOMAIN stablecoins' = 1..(n + 1)
      /\ \A i \in 1..n : stablecoins'[i] = stablecoins[i]
      /\ stablecoins'[n + 1] = s
  BY <1>1, <1>2
<1> HIDE DEF n
<1>4. {stablecoins'[i] : i \in 1..(n + 1)} = approved'
  <2>1. 1..(n + 1) = 1..n \cup {n + 1}
    BY <1>2
  <2>2. {stablecoins'[i] : i \in 1..(n + 1)}
          = {stablecoins[i] : i \in 1..n} \cup {s}
    BY <1>3, <2>1
  <2>3. QED
    BY <1>1, <1>2, <2>2
<1>5. \A i, j \in 1..(n + 1) : stablecoins'[i] = stablecoins'[j] => i = j
  <2>1. \A i \in 1..n : stablecoins'[i] # s
    BY <1>1, <1>2, <1>3
  <2>2. \A i \in 1..(n + 1) : i \in 1..n \/ i = n + 1
    BY <1>2
  <2>3. QED
    BY <1>2, <1>3, <2>1, <2>2
<1>6. QED
  BY <1>1, <1>2, <1>3, <1>4, <1>5
     DEF RegistryTypeOK, ListMatchesFlags, IsInjective, Range

(* Overwriting the removed coin by the last one and popping that removes   *)
(* exactly the one coin.                                                   *)
LEMMA RemoveKeepsList ==
  ASSUME RegistryTypeOK, ListMatchesFlags,
         NEW caller, NEW s \in Stables, RemoveStablecoin(caller, s)
  PROVE  RegistryTypeOK' /\ ListMatchesFlags'
<1> DEFINE n == Len(stablecoins)
<1>1. approved' = approved \ {s}
  BY DEF RemoveStablecoin
<1>2. PICK k \in DOMAIN stablecoins :
        stablecoins[k] = s /\ stablecoins' = SwapAndPop(stablecoins, k)
  BY DEF RemoveStablecoin
<1>3. /\ stablecoins \in Seq(Stables) /\ n \in Nat
      /\ DOMAIN stablecoins = 1..n
      /\ \A i \in 1..n : stablecoins[i] \in Stables
      /\ \A i, j \in 1..n : stablecoins[i] = stablecoins[j] => i = j
      /\ approved = {stablecoins[i] : i \in 1..n}
      /\ k \in 1..n
  BY DEF RegistryTypeOK, ListMatchesFlags, IsInjective, Range
<1>4. stablecoins' = [j \in 1..(n - 1) |-> IF j = k THEN stablecoins[n] ELSE stablecoins[j]]
  BY <1>2 DEF SwapAndPop
<1> HIDE DEF n
<1>5. n - 1 \in Nat /\ n \in 1..n /\ \A j \in 1..(n - 1) : j \in 1..n /\ j # n
  BY <1>3
<1>6. stablecoins' \in Seq(Stables) /\ DOMAIN stablecoins' = 1..(n - 1)
  <2>1. \A j \in 1..(n - 1) :
          (IF j = k THEN stablecoins[n] ELSE stablecoins[j]) \in Stables
    BY <1>3, <1>5
  <2>2. QED
    BY <1>4, <1>5, <2>1
<1>7. {stablecoins'[j] : j \in 1..(n - 1)} = approved \ {s}
  <2>1. ASSUME NEW j \in 1..(n - 1)
        PROVE  stablecoins'[j] \in approved \ {s}
    BY <1>2, <1>3, <1>4, <1>5
  <2>2. ASSUME NEW c \in approved \ {s}
        PROVE  \E j \in 1..(n - 1) : stablecoins'[j] = c
    <3>1. PICK i \in 1..n : stablecoins[i] = c /\ i # k
      BY <1>2, <1>3
    <3>2. CASE i = n
      <4>1. k \in 1..(n - 1)
        BY <1>3, <3>1, <3>2
      <4>2. QED
        BY <1>4, <3>1, <3>2, <4>1
    <3>3. CASE i # n
      <4>1. i \in 1..(n - 1)
        BY <1>3, <3>3
      <4>2. QED
        BY <1>4, <3>1, <4>1
    <3>4. QED
      BY <3>2, <3>3
  <2>3. QED
    BY <2>1, <2>2
<1>8. \A i, j \in 1..(n - 1) : stablecoins'[i] = stablecoins'[j] => i = j
  BY <1>3, <1>4, <1>5
<1>9. QED
  BY <1>1, <1>6, <1>7, <1>8, <1>3
     DEF RegistryTypeOK, ListMatchesFlags, IsInjective, Range

LEMMA RegistryStep ==
  ASSUME RegistryTypeOK, ListMatchesFlags, [RegistryNext]_registryVars
  PROVE  RegistryTypeOK' /\ ListMatchesFlags'
<1>1. CASE RegistryNext
  BY <1>1, AddKeepsList, RemoveKeepsList DEF RegistryNext
<1>2. CASE UNCHANGED registryVars
  BY <1>2 DEF registryVars, RegistryTypeOK, ListMatchesFlags, Range, IsInjective
<1>3. QED
  BY <1>1, <1>2

LEMMA RegistryStart == RegistryInit => RegistryTypeOK /\ ListMatchesFlags
<1>1. ASSUME RegistryInit PROVE RegistryTypeOK
  BY <1>1, InitialStablecoinsAssumption DEF RegistryInit, RegistryTypeOK, Range
<1>2. ASSUME RegistryInit PROVE ListMatchesFlags
  BY <1>2, InitialStablecoinsAssumption DEF RegistryInit, ListMatchesFlags
<1>3. QED
  BY <1>1, <1>2

-----------------------------------------------------------------------------
(* The other steps.                                                        *)

(* What the collector pays in a coin it has.                               *)
LEMMA FeePaymentFacts ==
  ASSUME TypeOK, NEW n \in Markets, NEW s \in Stables
  PROVE  /\ FeePayment(n, s) \in Nat
         /\ FeePayment(n, s) <= stableBal[s][FeeCollector]
         /\ FeePayment(n, s) <= feeBalances[n][s]
<1>1. FeeCollector \in Accounts
  BY DEF Accounts
<1>2. stableBal[s][FeeCollector] \in Nat /\ feeBalances[n][s] \in Nat
  BY <1>1 DEF TypeOK, CollectorTypeOK
<1>3. QED
  BY <1>2 DEF FeePayment, Smaller

LEMMA SendAllFeesType ==
  ASSUME TypeOK, NEW n \in Markets, NEW to \in Users \cup {Dead}, SendAllFees(n, to)
  PROVE  /\ stableBal' \in [Stables -> [Accounts -> Nat]]
         /\ feeBalances' \in [Markets -> [Stables -> Nat]]
         /\ feeStablecoins' \in [Markets -> Seq(Stables)]
<1>1. stableBal' \in [Stables -> [Accounts -> Nat]]
  <2> SUFFICES ASSUME NEW s \in Stables
               PROVE  Transfer(stableBal[s], FeeCollector, to, FeePayment(n, s))
                        \in [Accounts -> Nat]
    BY DEF SendAllFees
  <2>1. FeeCollector \in Accounts /\ to \in Accounts /\ FeeCollector # to
    BY AccountsAssumption DEF Accounts
  <2>2. stableBal[s] \in [Accounts -> Nat]
    BY DEF TypeOK
  <2>3. QED
    BY <2>1, <2>2, FeePaymentFacts, TransferFacts
<1>2. feeBalances' \in [Markets -> [Stables -> Nat]]
  <2>1. feeBalances \in [Markets -> [Stables -> Nat]]
    BY DEF TypeOK, CollectorTypeOK
  <2>2. [s \in Stables |-> IF s \in Range(feeStablecoins[n])
                             THEN 0 ELSE feeBalances[n][s]] \in [Stables -> Nat]
    BY <2>1
  <2>3. QED
    BY <2>1, <2>2 DEF SendAllFees, ClearedBalances
<1>3. feeStablecoins' \in [Markets -> Seq(Stables)]
  BY DEF SendAllFees, TypeOK, CollectorTypeOK
<1>4. QED
  BY <1>1, <1>2, <1>3

(* A claim either pays everything recorded out or only resets the pending  *)
(* counter.                                                                *)
LEMMA ClaimCases ==
  ASSUME TypeOK, NEW n \in Markets, ClaimFees(n)
  PROVE  /\ pendingFees' = [pendingFees EXCEPT ![n] = 0]
         /\ coinless' = [coinless EXCEPT ![n] = 0] /\ UNCHANGED unpaid
         /\ UNCHANGED <<poolVars, registryVars, positionVars>>
         /\ \/ \E to \in Users \cup {Dead} : SendAllFees(n, to)
            \/ UNCHANGED <<stableBal, feeBalances, feeStablecoins>>
<1>1. /\ feeStrategy[n] \in Strategies /\ nftOwner[n] \in Users
      /\ "CLAIM" # "BURN"
  BY DEF TypeOK
<1>2. QED
  BY <1>1 DEF ClaimFees, DistributeFees, PendingAfterDistribution

LEMMA ClaimType ==
  ASSUME TypeOK, NEW n \in Markets, ClaimFees(n)
  PROVE  TypeOK'
<1>1. /\ pendingFees' \in [Markets -> Nat]
      /\ coinless' \in [Markets -> Nat]
      /\ unpaid' \in Nat
  <2>1. pendingFees \in [Markets -> Nat] /\ coinless \in [Markets -> Nat] /\ unpaid \in Nat
    BY DEF TypeOK, CollectorTypeOK
  <2>2. /\ pendingFees' = [pendingFees EXCEPT ![n] = 0]
        /\ coinless' = [coinless EXCEPT ![n] = 0] /\ UNCHANGED unpaid
    BY ClaimCases
  <2>3. QED
    BY <2>1, <2>2
<1>2. /\ stableBal' \in [Stables -> [Accounts -> Nat]]
      /\ feeBalances' \in [Markets -> [Stables -> Nat]]
      /\ feeStablecoins' \in [Markets -> Seq(Stables)]
  <2>1. CASE \E to \in Users \cup {Dead} : SendAllFees(n, to)
    BY <2>1, SendAllFeesType
  <2>2. CASE UNCHANGED <<stableBal, feeBalances, feeStablecoins>>
    BY <2>2 DEF TypeOK, CollectorTypeOK
  <2>3. QED
    BY <2>1, <2>2, ClaimCases
<1>3. UNCHANGED <<poolVars, registryVars, positionVars>>
  BY ClaimCases
<1>4. QED
  BY <1>1, <1>2, <1>3
     DEF TypeOK, CollectorTypeOK, PoolTypeOK, RegistryTypeOK, poolVars,
         registryVars, positionVars

(* sync writes balances that are natural numbers into the reserves.        *)
LEMMA SyncType ==
  ASSUME TypeOK, NEW m \in Markets, Sync(m), UNCHANGED positionVars
  PROVE  TypeOK'
<1>1. m \in Accounts
  BY DEF Accounts
<1>2. Holdings(m) \in [Stables -> Nat]
  BY <1>1 DEF Holdings, TypeOK
<1>3. Total(Holdings(m), Range(stablecoins)) \in Nat
  <2>1. IsFiniteSet(Range(stablecoins)) /\ Range(stablecoins) \subseteq Stables
    <3>1. stablecoins \in Seq(Stables)
      BY DEF TypeOK, RegistryTypeOK
    <3>2. Range(stablecoins) \subseteq Stables
      BY <3>1 DEF Range
    <3>3. QED
      BY <3>2, FiniteAssumption, FS_Subset
  <2>2. QED
    BY <1>2, <2>1, TotalType
<1>4. realReserveUSD' \in [Markets -> Nat] /\ reserveToken' \in [Markets -> Nat]
  BY <1>1, <1>3 DEF Sync, StableBalance, TypeOK, PoolTypeOK
<1>5. QED
  BY <1>4
     DEF Sync, TypeOK, CollectorTypeOK, PoolTypeOK, RegistryTypeOK,
         collectorVars, historyVars, registryVars, positionVars

LEMMA SendType ==
  ASSUME TypeOK, NEW s \in Stables, NEW u \in Users, NEW m \in Markets,
         NEW a \in Nat, SendStableToPool(s, u, m, a) \/ SendTokenToPool(u, m, a)
  PROVE  TypeOK'
<1>1. u \in Accounts /\ m \in Accounts /\ u # m
  BY AccountsAssumption DEF Accounts
<1>2. CASE SendStableToPool(s, u, m, a)
  <2>1. Transfer(stableBal[s], u, m, a) \in [Accounts -> Nat]
    <3>1. stableBal[s] \in [Accounts -> Nat] /\ a <= stableBal[s][u]
      BY <1>2 DEF TypeOK, SendStableToPool
    <3>2. QED
      BY <1>1, <3>1, TransferFacts
  <2>2. stableBal' \in [Stables -> [Accounts -> Nat]]
    BY <1>2, <2>1 DEF TypeOK, SendStableToPool
  <2>3. QED
    BY <1>2, <2>2
       DEF SendStableToPool, TypeOK, CollectorTypeOK, PoolTypeOK,
           RegistryTypeOK, poolVars, collectorVars, historyVars, registryVars,
           positionVars
<1>3. CASE SendTokenToPool(u, m, a)
  <2>1. Transfer(tokenBal[m], u, m, a) \in [Accounts -> Nat]
    <3>1. tokenBal[m] \in [Accounts -> Nat] /\ a <= tokenBal[m][u]
      BY <1>3 DEF TypeOK, PoolTypeOK, SendTokenToPool
    <3>2. QED
      BY <1>1, <3>1, TransferFacts
  <2>2. tokenBal' \in [Markets -> [Accounts -> Nat]]
    BY <1>3, <2>1 DEF TypeOK, PoolTypeOK, SendTokenToPool
  <2>3. QED
    BY <1>3, <2>2
       DEF SendTokenToPool, TypeOK, CollectorTypeOK, PoolTypeOK,
           RegistryTypeOK, collectorVars, historyVars, registryVars, positionVars
<1>4. QED
  BY <1>2, <1>3

LEMMA InitType == Init => TypeOK
<1> SUFFICES ASSUME Init PROVE TypeOK
  OBVIOUS
<1>1. stableBal \in [Stables -> [Accounts -> Nat]]
  BY AmountsAssumption DEF Init
<1>2. RegistryTypeOK
  BY RegistryStart DEF Init
<1>3. CollectorTypeOK
  BY DEF Init, CollectorInit, CollectorTypeOK
<1>4. PoolTypeOK
  BY PoolAssumption DEF Init, PoolInit, PoolTypeOK
<1>5. QED
  BY <1>1, <1>2, <1>3, <1>4 DEF Init, TypeOK

(* The registry's part of the state changes only by the registry's steps.  *)
LEMMA OthersKeepRegistry ==
  ASSUME [Next]_vars
  PROVE  [RegistryNext]_registryVars
<1>1. ASSUME Trade PROVE UNCHANGED registryVars
  BY <1>1 DEF Trade, Buy, Sell
<1>2. CASE Next
  BY <1>1, <1>2
     DEF Next, RecordByAnyone, Administer, Sync, ClaimFees, SetFeeStrategy,
         TransferPosition, SendStableToPool, SendTokenToPool
<1>3. CASE UNCHANGED vars
  BY <1>3 DEF vars
<1>4. QED
  BY <1>2, <1>3

LEMMA StepType ==
  ASSUME TypeOK, ListMatchesFlags, [Next]_vars
  PROVE  TypeOK'
<1>1. CASE Trade
  <2>1. PICK m \in Markets, s \in Stables, u, to \in Users,
             amount \in TradeAmounts, minOut \in MinOuts, feeBps \in FeeRates :
          /\ \/ Buy(m, s, u, to, amount, minOut, feeBps)
             \/ Sell(m, s, u, to, amount, minOut, feeBps)
          /\ UNCHANGED positionVars
    BY <1>1 DEF Trade
  <2>2. amount \in Nat /\ minOut \in Nat
    BY AmountsAssumption
  <2>3. QED
    BY <2>1, <2>2, BuyType, SellType
<1>2. CASE Administer
  <2>1. RegistryTypeOK'
    BY <1>2, RegistryStep DEF Administer, TypeOK
  <2>2. QED
    BY <1>2, <2>1
       DEF Administer, TypeOK, CollectorTypeOK, PoolTypeOK, poolVars,
           collectorVars, historyVars, positionVars
<1>3. CASE \E m \in Markets : Sync(m) /\ UNCHANGED positionVars
  BY <1>3, SyncType
<1>4. CASE \E n \in Markets : ClaimFees(n)
  BY <1>4, ClaimType
<1>5. ASSUME NEW n \in Markets, NEW st \in Strategies, SetFeeStrategy(n, st)
      PROVE  TypeOK'
  BY <1>5
     DEF SetFeeStrategy, TypeOK, CollectorTypeOK, PoolTypeOK, RegistryTypeOK,
         poolVars, collectorVars, historyVars, registryVars
<1>6. ASSUME NEW n \in Markets, NEW u \in Users, TransferPosition(n, u)
      PROVE  TypeOK'
  BY <1>6
     DEF TransferPosition, TypeOK, CollectorTypeOK, PoolTypeOK, RegistryTypeOK,
         poolVars, collectorVars, historyVars, registryVars
<1>7. CASE \E s \in Stables, u \in Users, m \in Markets, a \in TransferAmounts :
             SendStableToPool(s, u, m, a) \/ SendTokenToPool(u, m, a)
  BY <1>7, SendType, AmountsAssumption
<1>8. CASE UNCHANGED vars
  BY <1>8
     DEF vars, TypeOK, CollectorTypeOK, PoolTypeOK, RegistryTypeOK, poolVars,
         collectorVars, historyVars, registryVars, positionVars
<1>9. QED
  BY <1>1, <1>2, <1>3, <1>4, <1>5, <1>6, <1>7, <1>8, UnpaidType DEF Next

-----------------------------------------------------------------------------
(* The reserves are backed.                                                *)

(* A buy of market m leaves the coins and the tokens of the other pools    *)
(* alone and adds to its own coins what it adds to its real reserve.       *)
LEMMA BuyKeepsBacking ==
  ASSUME TypeOK, TokensBacked, ReservesBacked,
         NEW m \in Markets, NEW s \in Stables, NEW u \in Users, NEW to \in Users,
         NEW amount \in Nat, NEW minOut \in Nat, NEW feeBps \in FeeRates,
         Buy(m, s, u, to, amount, minOut, feeBps)
  PROVE  TokensBacked' /\ ReservesBacked'
<1> DEFINE fee == FeeAmount(amount, feeBps)
           out == GetAmountOut(amount - fee, EffectiveReserveUSD(m), reserveToken[m])
<1>1. fee \in Nat /\ fee <= amount
  BY RateIsPart
<1>2. out \in Nat /\ out <= reserveToken[m]
  <2>1. CanQuoteOut(amount - fee, EffectiveReserveUSD(m), reserveToken[m])
    BY DEF Buy
  <2>2. EffectiveReserveUSD(m) \in Nat /\ reserveToken[m] \in Nat
    BY PoolAssumption DEF EffectiveReserveUSD, TypeOK, PoolTypeOK
  <2> HIDE DEF fee
  <2>3. amount - fee \in Nat
    BY <1>1
  <2>4. QED
    BY <2>1, <2>2, <2>3, GetAmountOutFacts
<1>3. /\ amount <= stableBal[s][u]
      /\ out <= tokenBal[m][m]
      /\ stableBal' = [stableBal EXCEPT ![s] =
           Transfer(Transfer(@, u, m, amount), m, FeeCollector, fee)]
      /\ tokenBal' = [tokenBal EXCEPT ![m] = Transfer(@, m, to, out)]
      /\ realReserveUSD' = [realReserveUSD EXCEPT ![m] = @ + amount - fee]
      /\ reserveToken' = [reserveToken EXCEPT ![m] = @ - out]
  BY DEF Buy, RealAfterBuy
<1> HIDE DEF fee, out
<1>4. /\ Markets \subseteq Accounts /\ u \in Accounts /\ to \in Accounts
      /\ FeeCollector \in Accounts
      /\ \A k \in Markets : k # u /\ k # to /\ k # FeeCollector
      /\ u # FeeCollector
  BY AccountsAssumption DEF Accounts
<1>5. TokensBacked'
  <2>1. tokenBal \in [Markets -> [Accounts -> Nat]] /\ reserveToken \in [Markets -> Nat]
    BY DEF TypeOK, PoolTypeOK
  <2>2. Transfer(tokenBal[m], m, to, out)[m] = tokenBal[m][m] - out
    <3>1. tokenBal[m] \in [Accounts -> Nat]
      BY <2>1
    <3>2. QED
      BY <1>2, <1>3, <1>4, <3>1, TransferFacts
  <2>3. SUFFICES ASSUME NEW k \in Markets PROVE reserveToken'[k] <= tokenBal'[k][k]
    BY DEF TokensBacked
  <2>4. reserveToken[k] <= tokenBal[k][k] /\ tokenBal[k][k] \in Nat
    BY <1>4, <2>1 DEF TokensBacked
  <2>5. QED
    BY <1>2, <1>3, <2>1, <2>2, <2>4
<1>6. ReservesBacked'
  <2>1. stableBal \in [Stables -> [Accounts -> Nat]] /\ realReserveUSD \in [Markets -> Nat]
    BY DEF TypeOK, PoolTypeOK
  <2>2. SUFFICES ASSUME NEW k \in Markets
                 PROVE  realReserveUSD'[k] <= Total(Holdings(k)', Stables)
    BY DEF ReservesBacked
  <2> DEFINE bal == stableBal[s]
             paid == Transfer(bal, u, m, amount)
             new == Transfer(paid, m, FeeCollector, fee)
             h == Holdings(k)
  <2>3. bal \in [Accounts -> Nat] /\ bal[m] \in Nat /\ bal[k] \in Nat
    BY <1>4, <2>1
  <2>4. /\ paid \in [Accounts -> Nat]
        /\ paid[m] = bal[m] + amount
        /\ k # m => paid[k] = bal[k]
    <3>1. amount <= bal[u]
      BY <1>3
    <3> HIDE DEF bal
    <3>2. QED
      BY <1>4, <2>3, <3>1, TransferFacts
  <2>5. /\ new[m] = bal[m] + amount - fee
        /\ k # m => new[k] = bal[k]
    <3> HIDE DEF paid, bal
    <3>1. fee <= paid[m]
      BY <1>1, <2>3, <2>4
    <3>2. new[m] = paid[m] - fee /\ (k # m => new[k] = paid[k])
      BY <1>1, <1>4, <2>4, <3>1, TransferFacts
    <3> HIDE DEF new
    <3>3. QED
      BY <1>1, <2>3, <2>4, <3>2
  <2>6. h \in [Stables -> Nat] /\ h[s] = bal[k]
    BY <1>4, <2>1 DEF Holdings
  <2>7. /\ Holdings(k)' = [c \in Stables |-> stableBal'[c][k]]
        /\ stableBal'[s] = new
        /\ \A c \in Stables \ {s} : stableBal'[c] = stableBal[c]
    BY <1>3, <2>1 DEF Holdings
  <2>8. /\ \A c \in Stables : Holdings(k)'[c] \in Nat
        /\ Holdings(k)'[s] = new[k]
        /\ \A c \in Stables \ {s} : Holdings(k)'[c] = h[c]
    <3>1. Holdings(k)'[s] = new[k]
      BY <2>7
    <3>2. \A c \in Stables \ {s} : Holdings(k)'[c] = h[c]
      BY <2>7 DEF Holdings
    <3>3. new[k] \in Nat
      <4> HIDE DEF new, bal
      <4> QED BY <1>1, <2>3, <2>5
    <3> HIDE DEF new, h
    <3>4. QED
      BY <2>6, <3>1, <3>2, <3>3
  <2>9. Total(Holdings(k)', Stables) = Total(h, Stables) - h[s] + new[k]
    <3> HIDE DEF new, h
    <3>1. \A c \in Stables : h[c] \in Nat
      BY <2>6
    <3>2. QED
      BY <2>8, <3>1, FiniteAssumption, TotalUpdate
  <2>10. Total(h, Stables) \in Nat /\ realReserveUSD[k] <= Total(h, Stables)
    <3>1. Total(h, Stables) \in Nat
      <4> HIDE DEF h
      <4> QED BY <2>6, FiniteAssumption, TotalType
    <3>2. QED
      BY <3>1 DEF ReservesBacked
  <2> HIDE DEF h, new, bal
  <2>11. CASE k = m
    BY <1>1, <1>3, <2>1, <2>3, <2>5, <2>6, <2>9, <2>10, <2>11
  <2>12. CASE k # m
    BY <1>3, <2>1, <2>3, <2>5, <2>6, <2>9, <2>10, <2>12
  <2>13. QED
    BY <2>11, <2>12
<1>7. QED
  BY <1>5, <1>6

(* What a sale leaves the pools of each coin.                              *)
SalePaidFrom(m, feeCoins, outCoins) ==
  \A k \in Markets, c \in Stables :
    /\ k = m => stableBal'[c][k] = stableBal[c][k] - (feeCoins[c] + outCoins[c])
    /\ k # m => stableBal'[c][k] = stableBal[c][k]

LEMMA SaleHoldings ==
  ASSUME TypeOK, NEW m \in Markets, NEW s \in Stables,
         NEW u \in Users, NEW to \in Users, NEW amount \in Nat,
         NEW out \in Nat, NEW feeUsd \in Nat,
         NEW feeCoins \in [Stables -> Nat], NEW outCoins \in [Stables -> Nat],
         SaleMoves(m, s, u, to, amount, out, feeUsd, feeCoins, outCoins)
  PROVE  SalePaidFrom(m, feeCoins, outCoins)
<1> SUFFICES ASSUME NEW k \in Markets, NEW c \in Stables
             PROVE  /\ k = m => stableBal'[c][k] = stableBal[c][k] - (feeCoins[c] + outCoins[c])
                    /\ k # m => stableBal'[c][k] = stableBal[c][k]
  BY DEF SalePaidFrom
<1>1. /\ Markets \subseteq Accounts /\ u \in Accounts /\ to \in Accounts
      /\ FeeCollector \in Accounts
      /\ \A j \in Markets : j # u /\ j # to /\ j # FeeCollector
  BY AccountsAssumption DEF Accounts
<1>2. stableBal \in [Stables -> [Accounts -> Nat]]
  BY DEF TypeOK
<1> DEFINE bal == stableBal[c]
           mid == Transfer(bal, m, FeeCollector, feeCoins[c])
<1>3. /\ bal \in [Accounts -> Nat] /\ bal[m] \in Nat
      /\ feeCoins[c] \in Nat /\ outCoins[c] \in Nat
      /\ feeCoins[c] + outCoins[c] <= bal[m]
  BY <1>1, <1>2 DEF SaleMoves
<1>4. stableBal'[c] = Transfer(mid, m, to, outCoins[c])
  BY DEF SaleMoves
<1> HIDE DEF bal
<1>5. /\ mid \in [Accounts -> Nat]
      /\ mid[m] = bal[m] - feeCoins[c]
      /\ k # m => mid[k] = bal[k]
  <2>1. feeCoins[c] <= bal[m]
    BY <1>3
  <2>2. QED
    BY <1>1, <1>3, <2>1, TransferFacts
<1> HIDE DEF mid
<1>6. /\ Transfer(mid, m, to, outCoins[c])[m] = mid[m] - outCoins[c]
      /\ k # m => Transfer(mid, m, to, outCoins[c])[k] = mid[k]
  <2>1. outCoins[c] <= mid[m]
    BY <1>3, <1>5
  <2>2. QED
    BY <1>1, <1>3, <1>5, <2>1, TransferFacts
<1>7. CASE k = m
  <2>1. stableBal'[c][m] = bal[m] - feeCoins[c] - outCoins[c]
    BY <1>4, <1>5, <1>6
  <2>2. QED
    BY <1>3, <1>7, <2>1 DEF bal
<1>8. CASE k # m
  BY <1>4, <1>5, <1>6, <1>8 DEF bal
<1>9. QED
  BY <1>7, <1>8

(* A sale takes out of the pool's coins what it takes off the real reserve.*)
LEMMA SellKeepsBacking ==
  ASSUME TypeOK, ListMatchesFlags, TokensBacked, ReservesBacked,
         NEW m \in Markets, NEW s \in Stables, NEW u \in Users, NEW to \in Users,
         NEW amount \in Nat, NEW minOut \in Nat, NEW feeBps \in FeeRates,
         Sell(m, s, u, to, amount, minOut, feeBps)
  PROVE  TokensBacked' /\ ReservesBacked'
<1>1. PICK out, feeUsd \in Nat, feeCoins, outCoins \in [Stables -> Nat] :
        SaleMoves(m, s, u, to, amount, out, feeUsd, feeCoins, outCoins)
  BY SellFacts
<1>2. /\ Markets \subseteq Accounts /\ u \in Accounts /\ to \in Accounts
      /\ FeeCollector \in Accounts
      /\ \A k \in Markets : k # u /\ k # to /\ k # FeeCollector
  BY AccountsAssumption DEF Accounts
<1>3. /\ tokenBal \in [Markets -> [Accounts -> Nat]]
      /\ stableBal \in [Stables -> [Accounts -> Nat]]
      /\ reserveToken \in [Markets -> Nat]
      /\ realReserveUSD \in [Markets -> Nat]
  BY DEF TypeOK, PoolTypeOK
<1>4. TokensBacked'
  <2>1. Transfer(tokenBal[m], u, m, amount)[m] = tokenBal[m][m] + amount
    <3>1. tokenBal[m] \in [Accounts -> Nat] /\ amount <= tokenBal[m][u]
      BY <1>1, <1>3 DEF SaleMoves
    <3>2. QED
      BY <1>2, <3>1, TransferFacts
  <2>2. SUFFICES ASSUME NEW k \in Markets PROVE reserveToken'[k] <= tokenBal'[k][k]
    BY DEF TokensBacked
  <2>3. reserveToken[k] <= tokenBal[k][k] /\ tokenBal[k][k] \in Nat
    BY <1>2, <1>3 DEF TokensBacked
  <2>4. QED
    BY <1>1, <1>3, <2>1, <2>3 DEF SaleMoves
<1>5. ASSUME NEW k \in Markets, NEW c \in Stables
      PROVE  /\ k = m => stableBal'[c][k] = stableBal[c][k] - (feeCoins[c] + outCoins[c])
             /\ k # m => stableBal'[c][k] = stableBal[c][k]
  <2>1. SalePaidFrom(m, feeCoins, outCoins)
    BY <1>1, SaleHoldings
  <2>2. QED
    BY <2>1 DEF SalePaidFrom
<1>6. ReservesBacked'
  <2>1. SUFFICES ASSUME NEW k \in Markets
                 PROVE  realReserveUSD'[k] <= Total(Holdings(k)', Stables)
    BY DEF ReservesBacked
  <2> DEFINE h == Holdings(k)
             new == [c \in Stables |-> stableBal'[c][k]]
  <2>2. Holdings(k)' = new
    BY DEF Holdings
  <2>3. /\ \A c \in Stables : h[c] \in Nat /\ h[c] = stableBal[c][k]
        /\ \A c \in Stables : new[c] = stableBal'[c][k]
    BY <1>2, <1>3 DEF Holdings
  <2>4. Total(h, Stables) \in Nat /\ realReserveUSD[k] <= Total(h, Stables)
    <3>1. Total(h, Stables) \in Nat
      <4> HIDE DEF h
      <4> QED BY <2>3, FiniteAssumption, TotalType
    <3>2. QED
      BY <3>1 DEF ReservesBacked
  <2>5. CASE k = m
    <3> DEFINE moved == [c \in Stables |-> feeCoins[c] + outCoins[c]]
    <3>1. \A c \in Stables : moved[c] = feeCoins[c] + outCoins[c] /\ moved[c] \in Nat
      OBVIOUS
    <3> HIDE DEF h, new, moved
    <3>2. Total(moved, Stables) = feeUsd + out
      <4>1. Total(moved, Stables) = Total(feeCoins, Stables) + Total(outCoins, Stables)
        BY <3>1, FiniteAssumption, TotalSum
      <4>2. QED
        BY <1>1, <4>1 DEF SaleMoves
    <3>3. \A c \in Stables : new[c] \in Nat /\ h[c] = new[c] + moved[c]
      <4> SUFFICES ASSUME NEW c \in Stables
                   PROVE  new[c] \in Nat /\ h[c] = new[c] + moved[c]
        OBVIOUS
      <4>1. moved[c] <= h[c]
        BY <1>1, <2>3, <2>5, <3>1 DEF SaleMoves
      <4>2. new[c] = h[c] - moved[c]
        BY <1>5, <2>3, <2>5, <3>1
      <4>3. QED
        BY <2>3, <3>1, <4>1, <4>2
    <3>4. Total(h, Stables) = Total(new, Stables) + Total(moved, Stables)
      BY <3>1, <3>3, FiniteAssumption, TotalSum
    <3>5. Total(new, Stables) \in Nat
      BY <3>3, FiniteAssumption, TotalType
    <3>6. realReserveUSD'[k] = realReserveUSD[k] - (out + feeUsd)
      BY <1>1, <1>3, <2>5 DEF SaleMoves
    <3>7. realReserveUSD[k] \in Nat
      BY <1>3
    <3>8. QED
      BY <2>2, <2>4, <3>2, <3>4, <3>5, <3>6, <3>7
  <2>6. CASE k # m
    <3>1. \A c \in Stables : new[c] = h[c]
      BY <1>5, <2>3, <2>6
    <3>2. Total(new, Stables) = Total(h, Stables)
      <4> HIDE DEF h, new
      <4> QED BY <3>1, TotalSame
    <3>3. realReserveUSD'[k] = realReserveUSD[k]
      BY <1>1, <1>3, <2>6 DEF SaleMoves
    <3>4. QED
      BY <2>2, <2>4, <3>2, <3>3
  <2>7. QED
    BY <2>5, <2>6
<1>7. QED
  BY <1>4, <1>6

(* A step that changes no reserve and takes no coin or token from a pool   *)
(* keeps the pools backed.                                                 *)
LEMMA PoolsOnlyGain ==
  ASSUME TypeOK, TypeOK', TokensBacked, ReservesBacked,
         UNCHANGED <<reserveToken, realReserveUSD>>,
         \A m \in Markets : tokenBal[m][m] <= tokenBal'[m][m],
         \A m \in Markets, s \in Stables : stableBal[s][m] <= stableBal'[s][m]
  PROVE  TokensBacked' /\ ReservesBacked'
<1>1. /\ Markets \subseteq Accounts
      /\ reserveToken \in [Markets -> Nat] /\ realReserveUSD \in [Markets -> Nat]
      /\ \A m \in Markets : tokenBal[m][m] \in Nat /\ tokenBal'[m][m] \in Nat
      /\ \A m \in Markets, s \in Stables :
           stableBal[s][m] \in Nat /\ stableBal'[s][m] \in Nat
  BY DEF TypeOK, PoolTypeOK, Accounts
<1>2. TokensBacked'
  <2>1. SUFFICES ASSUME NEW m \in Markets PROVE reserveToken'[m] <= tokenBal'[m][m]
    BY DEF TokensBacked
  <2>2. reserveToken[m] <= tokenBal[m][m] /\ reserveToken[m] \in Nat
    BY <1>1 DEF TokensBacked
  <2>3. QED
    BY <1>1, <2>2
<1>3. ReservesBacked'
  <2>1. SUFFICES ASSUME NEW m \in Markets
                 PROVE  realReserveUSD'[m] <= Total(Holdings(m)', Stables)
    BY DEF ReservesBacked
  <2> DEFINE h == Holdings(m)
             new == [s \in Stables |-> stableBal'[s][m]]
  <2>2. Holdings(m)' = new
    BY DEF Holdings
  <2>3. \A s \in Stables : h[s] \in Nat /\ new[s] \in Nat /\ h[s] <= new[s]
    BY <1>1 DEF Holdings
  <2>4. realReserveUSD[m] <= Total(h, Stables)
    BY DEF ReservesBacked
  <2> HIDE DEF h, new
  <2>5. Total(h, Stables) <= Total(new, Stables)
    BY <2>3, FiniteAssumption, TotalMonotone
  <2>6. Total(h, Stables) \in Nat /\ Total(new, Stables) \in Nat
    BY <2>3, FiniteAssumption, TotalType
  <2>7. realReserveUSD'[m] = realReserveUSD[m] /\ realReserveUSD[m] \in Nat
    BY <1>1
  <2>8. QED
    BY <2>2, <2>4, <2>5, <2>6, <2>7
<1>4. QED
  BY <1>2, <1>3

(* sync counts the approved coins only, which are some of those held.      *)
LEMMA SyncKeepsBacking ==
  ASSUME TypeOK, TokensBacked, ReservesBacked, NEW m \in Markets, Sync(m)
  PROVE  TokensBacked' /\ ReservesBacked'
<1>1. /\ reserveToken \in [Markets -> Nat] /\ realReserveUSD \in [Markets -> Nat]
      /\ \A k \in Markets : tokenBal[k][k] \in Nat
      /\ \A k \in Markets : Holdings(k) \in [Stables -> Nat]
  BY DEF TypeOK, PoolTypeOK, Accounts, Holdings
<1>2. TokensBacked'
  BY <1>1 DEF Sync, TokensBacked
<1>3. ReservesBacked'
  <2>1. SUFFICES ASSUME NEW k \in Markets
                 PROVE  realReserveUSD'[k] <= Total(Holdings(k)', Stables)
    BY DEF ReservesBacked
  <2>2. Holdings(k)' = Holdings(k)
    BY DEF Sync, Holdings
  <2>3. Range(stablecoins) \in SUBSET Stables
    <3>1. stablecoins \in Seq(Stables)
      BY DEF TypeOK, RegistryTypeOK
    <3>2. QED
      BY <3>1 DEF Range
  <2>4. Total(Holdings(k), Range(stablecoins)) <= Total(Holdings(k), Stables)
    BY <1>1, <2>3, FiniteAssumption, TotalSubset
  <2>5. realReserveUSD' =
          [realReserveUSD EXCEPT ![m] = Total(Holdings(m), Range(stablecoins))]
    BY DEF Sync, StableBalance
  <2>6. realReserveUSD[k] <= Total(Holdings(k), Stables)
    BY DEF ReservesBacked
  <2>7. QED
    BY <1>1, <2>2, <2>4, <2>5, <2>6
<1>4. QED
  BY <1>2, <1>3

(* A claim moves coins of the collector only.                              *)
LEMMA ClaimKeepsBacking ==
  ASSUME TypeOK, TypeOK', TokensBacked, ReservesBacked, NEW n \in Markets, ClaimFees(n)
  PROVE  TokensBacked' /\ ReservesBacked'
<1>1. UNCHANGED poolVars
  BY ClaimCases
<1>2. ASSUME NEW m \in Markets, NEW s \in Stables
      PROVE  stableBal'[s][m] = stableBal[s][m]
  <2>1. ASSUME NEW to \in Users \cup {Dead}, SendAllFees(n, to)
        PROVE  stableBal'[s][m] = stableBal[s][m]
    <3>1. /\ FeeCollector \in Accounts /\ to \in Accounts /\ m \in Accounts
          /\ FeeCollector # to /\ m # to /\ m # FeeCollector
      BY AccountsAssumption DEF Accounts
    <3>2. stableBal[s] \in [Accounts -> Nat]
      BY DEF TypeOK
    <3>3. Transfer(stableBal[s], FeeCollector, to, FeePayment(n, s))[m] = stableBal[s][m]
      BY <3>1, <3>2, FeePaymentFacts, TransferFacts
    <3>4. QED
      BY <2>1, <3>3 DEF SendAllFees
  <2>2. QED
    BY <2>1, ClaimCases
<1>3. /\ \A m \in Markets : tokenBal[m][m] <= tokenBal'[m][m]
      /\ \A m \in Markets, s \in Stables : stableBal[s][m] <= stableBal'[s][m]
  BY <1>1, <1>2 DEF poolVars, TypeOK, PoolTypeOK, Accounts
<1>4. QED
  BY <1>1, <1>3, PoolsOnlyGain DEF poolVars

(* What is sent to a pool outside a swap only adds to what it holds.       *)
LEMMA SendKeepsBacking ==
  ASSUME TypeOK, TypeOK', TokensBacked, ReservesBacked,
         NEW s \in Stables, NEW u \in Users, NEW m \in Markets, NEW a \in Nat,
         SendStableToPool(s, u, m, a) \/ SendTokenToPool(u, m, a)
  PROVE  TokensBacked' /\ ReservesBacked'
<1>1. /\ u \in Accounts /\ m \in Accounts /\ u # m
      /\ Markets \subseteq Accounts /\ \A k \in Markets : k # u
  BY AccountsAssumption DEF Accounts
<1>2. /\ stableBal \in [Stables -> [Accounts -> Nat]]
      /\ tokenBal \in [Markets -> [Accounts -> Nat]]
  BY DEF TypeOK, PoolTypeOK
<1>3. CASE SendStableToPool(s, u, m, a)
  <2>1. a <= stableBal[s][u] /\ stableBal[s] \in [Accounts -> Nat]
    BY <1>2, <1>3 DEF SendStableToPool
  <2>2. \A k \in Markets : Transfer(stableBal[s], u, m, a)[k] >= stableBal[s][k]
    <3> SUFFICES ASSUME NEW k \in Markets
                 PROVE  Transfer(stableBal[s], u, m, a)[k] >= stableBal[s][k]
      OBVIOUS
    <3>1. /\ Transfer(stableBal[s], u, m, a)[m] = stableBal[s][m] + a
          /\ k # m => Transfer(stableBal[s], u, m, a)[k] = stableBal[s][k]
      BY <1>1, <2>1, TransferFacts
    <3>2. stableBal[s][k] \in Nat
      BY <1>1, <2>1
    <3>3. QED
      BY <3>1, <3>2
  <2>3. \A k \in Markets, c \in Stables : stableBal[c][k] <= stableBal'[c][k]
    BY <1>1, <1>2, <1>3, <2>2 DEF SendStableToPool
  <2>4. UNCHANGED poolVars /\ \A k \in Markets : tokenBal[k][k] <= tokenBal'[k][k]
    BY <1>1, <1>2, <1>3 DEF SendStableToPool, poolVars
  <2>5. QED
    BY <2>3, <2>4, PoolsOnlyGain DEF poolVars
<1>4. CASE SendTokenToPool(u, m, a)
  <2>1. a <= tokenBal[m][u] /\ tokenBal[m] \in [Accounts -> Nat]
    BY <1>2, <1>4 DEF SendTokenToPool
  <2>2. Transfer(tokenBal[m], u, m, a)[m] = tokenBal[m][m] + a /\ tokenBal[m][m] \in Nat
    BY <1>1, <2>1, TransferFacts
  <2>3. \A k \in Markets : tokenBal[k][k] <= tokenBal'[k][k]
    <3>1. /\ tokenBal'[m] = Transfer(tokenBal[m], u, m, a)
          /\ \A k \in Markets : k # m => tokenBal'[k] = tokenBal[k]
      BY <1>2, <1>4 DEF SendTokenToPool
    <3>2. \A k \in Markets : tokenBal[k][k] \in Nat
      BY <1>1, <1>2
    <3>3. QED
      BY <2>2, <3>1, <3>2
  <2>4. \A k \in Markets, c \in Stables : stableBal[c][k] <= stableBal'[c][k]
    BY <1>1, <1>2, <1>4 DEF SendTokenToPool
  <2>5. QED
    BY <1>4, <2>3, <2>4, PoolsOnlyGain DEF SendTokenToPool
<1>5. QED
  BY <1>3, <1>4

-----------------------------------------------------------------------------
(* The inductive invariant.  ReservesBacked needs ListMatchesFlags: a coin *)
(* listed twice would be paid out once and taken off the reserve twice.    *)
Backed == TypeOK /\ ListMatchesFlags /\ TokensBacked /\ ReservesBacked

LEMMA InitBacked == Init => Backed
<1> SUFFICES ASSUME Init PROVE Backed
  OBVIOUS
<1>1. TypeOK /\ ListMatchesFlags
  BY InitType, RegistryStart DEF Init
<1>2. TokensBacked
  BY PoolAssumption DEF Init, PoolInit, TokensBacked, Accounts
<1>3. ReservesBacked
  <2>1. SUFFICES ASSUME NEW m \in Markets
                 PROVE  realReserveUSD[m] <= Total(Holdings(m), Stables)
    BY DEF ReservesBacked
  <2>2. Holdings(m) \in [Stables -> Nat]
    BY <1>1 DEF Holdings, TypeOK, Accounts
  <2>3. Total(Holdings(m), Stables) \in Nat
    BY <2>2, FiniteAssumption, TotalType
  <2>4. QED
    BY <2>3 DEF Init, PoolInit
<1>4. QED
  BY <1>1, <1>2, <1>3 DEF Backed

LEMMA StepBacked == Backed /\ [Next]_vars => Backed'
<1> SUFFICES ASSUME Backed, [Next]_vars PROVE Backed'
  OBVIOUS
<1>1. TypeOK /\ ListMatchesFlags /\ TokensBacked /\ ReservesBacked
  BY DEF Backed
<1>2. TypeOK' /\ ListMatchesFlags'
  BY <1>1, StepType, OthersKeepRegistry, RegistryStep DEF TypeOK
<1>3. ASSUME UNCHANGED <<stableBal, poolVars>>
      PROVE  TokensBacked' /\ ReservesBacked'
  BY <1>1, <1>3 DEF TokensBacked, ReservesBacked, Holdings, poolVars
<1>4. TokensBacked' /\ ReservesBacked'
  <2>1. CASE Trade
    <3>1. PICK m \in Markets, s \in Stables, u, to \in Users,
               amount \in TradeAmounts, minOut \in MinOuts, feeBps \in FeeRates :
            \/ Buy(m, s, u, to, amount, minOut, feeBps)
            \/ Sell(m, s, u, to, amount, minOut, feeBps)
      BY <2>1 DEF Trade
    <3>2. amount \in Nat /\ minOut \in Nat
      BY AmountsAssumption
    <3>3. QED
      BY <1>1, <3>1, <3>2, BuyKeepsBacking, SellKeepsBacking
  <2>2. CASE Administer
    BY <1>3, <2>2 DEF Administer
  <2>3. CASE \E m \in Markets : Sync(m) /\ UNCHANGED positionVars
    BY <1>1, <2>3, SyncKeepsBacking
  <2>4. CASE \E n \in Markets : ClaimFees(n)
    BY <1>1, <1>2, <2>4, ClaimKeepsBacking
  <2>5. CASE \E n \in Markets, st \in Strategies : SetFeeStrategy(n, st)
    BY <1>3, <2>5 DEF SetFeeStrategy
  <2>6. CASE \E n \in Markets, u \in Users : TransferPosition(n, u)
    BY <1>3, <2>6 DEF TransferPosition
  <2>7. CASE \E s \in Stables, u \in Users, m \in Markets, a \in TransferAmounts :
               SendStableToPool(s, u, m, a) \/ SendTokenToPool(u, m, a)
    BY <1>1, <1>2, <2>7, SendKeepsBacking, AmountsAssumption
  <2>8. CASE UNCHANGED vars
    BY <1>3, <2>8 DEF vars
  <2>9. CASE RecordByAnyone
    BY <1>3, <2>9 DEF RecordByAnyone
  <2>10. QED
    BY <2>1, <2>2, <2>3, <2>4, <2>5, <2>6, <2>7, <2>8, <2>9 DEF Next
<1>5. QED
  BY <1>2, <1>4 DEF Backed

LEMMA AlwaysBacked == Spec => []Backed
BY InitBacked, StepBacked, PTL DEF Spec

(* The state variables keep their types, whoever trades, claims or         *)
(* administers: no subtraction in the pools or the collector underflows.   *)
THEOREM TypeCorrect == Spec => []TypeOK
<1>1. Backed => TypeOK
  BY DEF Backed
<1>2. QED
  BY <1>1, AlwaysBacked, PTL

(* Through any additions and removals the list of approved coins names     *)
(* exactly the approved ones, each once (addStablecoin, removeStablecoin). *)
THEOREM ListAgreesWithFlags == Spec => []ListMatchesFlags
<1>1. Backed => ListMatchesFlags
  BY DEF Backed
<1>2. QED
  BY <1>1, AlwaysBacked, PTL

(* No pool counts on a token it does not hold (swap, sync).                *)
THEOREM TokensAlwaysBacked == Spec => []TokensBacked
<1>1. Backed => TokensBacked
  BY DEF Backed
<1>2. QED
  BY <1>1, AlwaysBacked, PTL

(* No pool counts on a dollar it does not hold in some coin, across buys,  *)
(* sales paid in any mix of coins, syncs, coins sent by hand and changes   *)
(* of the list of coins (swap, _sendStable, sync).                         *)
THEOREM ReservesAlwaysBacked == Spec => []ReservesBacked
<1>1. Backed => ReservesBacked
  BY DEF Backed
<1>2. QED
  BY <1>1, AlwaysBacked, PTL

-----------------------------------------------------------------------------
(* The collector's books.                                                  *)

LEMMA RecordedFacts ==
  ASSUME TypeOK
  PROVE  /\ RecordedFees \in [Markets -> Nat]
         /\ Total(RecordedFees, Markets) \in Nat
         /\ CollectorHoldings \in [Stables -> Nat]
         /\ Total(CollectorHoldings, Stables) \in Nat
<1>1. RecordedFees \in [Markets -> Nat]
  <2> SUFFICES ASSUME NEW n \in Markets PROVE Total(feeBalances[n], Stables) \in Nat
    BY DEF RecordedFees
  <2>1. \A s \in Stables : feeBalances[n][s] \in Nat
    BY DEF TypeOK, CollectorTypeOK
  <2>2. QED
    BY <2>1, FiniteAssumption, TotalType
<1>2. CollectorHoldings \in [Stables -> Nat]
  BY DEF CollectorHoldings, TypeOK, Accounts
<1>3. QED
  BY <1>1, <1>2, FiniteAssumption, TotalType

(* A recorded fee raises what is recorded of its market and of no other.   *)
LEMMA FeeIsRecorded ==
  ASSUME TypeOK, NEW n \in Markets, NEW s \in Stables, NEW amount \in Nat,
         RecordFee(n, s, amount)
  PROVE  /\ RecordedFees'[n] = RecordedFees[n] + amount
         /\ \A k \in Markets \ {n} : RecordedFees'[k] = RecordedFees[k]
         /\ Total(RecordedFees', Markets) = Total(RecordedFees, Markets) + amount
<1> DEFINE f == feeBalances[n]
           g == feeBalances'[n]
<1>1. /\ \A c \in Stables : f[c] \in Nat /\ g[c] \in Nat
      /\ \A c \in Stables \ {s} : g[c] = f[c]
      /\ g[s] = f[s] + amount
      /\ \A k \in Markets \ {n} : feeBalances'[k] = feeBalances[k]
  BY DEF TypeOK, CollectorTypeOK, RecordFee
<1>2. Total(g, Stables) = Total(f, Stables) + amount
  <2> HIDE DEF f, g
  <2>1. Total(g, Stables) = Total(f, Stables) - f[s] + g[s]
    BY <1>1, FiniteAssumption, TotalUpdate
  <2>2. Total(f, Stables) \in Nat
    BY <1>1, FiniteAssumption, TotalType
  <2>3. QED
    BY <1>1, <2>1, <2>2
<1>3. /\ RecordedFees'[n] = RecordedFees[n] + amount
      /\ \A k \in Markets \ {n} : RecordedFees'[k] = RecordedFees[k]
  BY <1>1, <1>2 DEF RecordedFees
<1>4. Total(RecordedFees', Markets) = Total(RecordedFees, Markets) + amount
  <2>1. \A k \in Markets : RecordedFees[k] \in Nat /\ RecordedFees'[k] \in Nat
    BY <1>3, RecordedFacts
  <2>2. Total(RecordedFees', Markets)
          = Total(RecordedFees, Markets) - RecordedFees[n] + RecordedFees'[n]
    BY <1>3, <2>1, FiniteAssumption, TotalUpdate
  <2>3. QED
    BY <1>3, <2>1, <2>2, RecordedFacts
<1>5. QED
  BY <1>3, <1>4

(* A coin goes on the market's list with its first fee.                    *)
LEMMA FeeIsListed ==
  ASSUME CollectorTypeOK, FeesListed,
         NEW n \in Markets, NEW s \in Stables, NEW amount \in Nat,
         RecordFee(n, s, amount)
  PROVE  FeesListed'
<1> DEFINE list == feeStablecoins[n]
<1>1. /\ \A c \in Stables \ {s} : feeBalances'[n][c] = feeBalances[n][c]
      /\ feeBalances[n][s] \in Nat
      /\ feeStablecoins'[n] = IF feeBalances[n][s] = 0 THEN Append(list, s) ELSE list
      /\ \A k \in Markets \ {n} : /\ feeBalances'[k] = feeBalances[k]
                                  /\ feeStablecoins'[k] = feeStablecoins[k]
  BY DEF CollectorTypeOK, RecordFee, TrackStable
<1>2. /\ Range(list) \subseteq Range(Append(list, s))
      /\ s \in Range(Append(list, s))
  <2>1. /\ list \in Seq(Stables) /\ Len(list) \in Nat
        /\ DOMAIN list = 1..Len(list)
        /\ DOMAIN Append(list, s) = 1..(Len(list) + 1)
        /\ \A i \in 1..Len(list) : Append(list, s)[i] = list[i]
        /\ Append(list, s)[Len(list) + 1] = s
    BY DEF CollectorTypeOK
  <2> HIDE DEF list
  <2>2. \A i \in DOMAIN list : i \in DOMAIN Append(list, s) /\ Append(list, s)[i] = list[i]
    BY <2>1
  <2>3. Len(list) + 1 \in DOMAIN Append(list, s)
    BY <2>1
  <2>4. QED
    BY <2>1, <2>2, <2>3 DEF Range
<1>3. \A c \in Stables : feeBalances[n][c] > 0 => c \in Range(list)
  BY DEF FeesListed
<1> HIDE DEF list
<1>4. ASSUME NEW c \in Stables, feeBalances'[n][c] > 0
      PROVE  c \in Range(feeStablecoins'[n])
  <2>1. CASE feeBalances[n][s] = 0
    BY <1>1, <1>2, <1>3, <1>4, <2>1
  <2>2. CASE feeBalances[n][s] # 0
    BY <1>1, <1>3, <1>4, <2>2
  <2>3. QED
    BY <2>1, <2>2
<1>5. QED
  <2> SUFFICES ASSUME NEW k \in Markets, NEW c \in Stables, feeBalances'[k][c] > 0
               PROVE  c \in Range(feeStablecoins'[k])
    BY DEF FeesListed
  <2>1. CASE k = n
    BY <1>4, <2>1
  <2>2. CASE k # n
    BY <1>1, <2>2 DEF FeesListed
  <2>3. QED
    BY <2>1, <2>2

(* A record of an amount keeps the lists complete, and the pending fees    *)
(* within the records.                                                     *)
LEMMA RecordKeepsLists ==
  ASSUME TypeOK, FeesListed, PendingCovered, UNCHANGED coinless,
         NEW n \in Markets, NEW s \in Stables, NEW amount \in Nat,
         RecordFee(n, s, amount)
  PROVE  FeesListed' /\ PendingCovered'
<1>1. FeesListed'
  BY FeeIsListed DEF TypeOK
<1>2. PendingCovered'
  <2>1. /\ \A k \in Markets : /\ pendingFees[k] \in Nat /\ RecordedFees[k] \in Nat
                              /\ coinless[k] \in Nat
        /\ \A k \in Markets : pendingFees[k] <= RecordedFees[k] + coinless[k]
        /\ pendingFees'[n] = pendingFees[n] + amount
        /\ \A k \in Markets \ {n} : pendingFees'[k] = pendingFees[k]
    BY RecordedFacts DEF PendingCovered, RecordFee, TypeOK, CollectorTypeOK
  <2>2. /\ RecordedFees'[n] = RecordedFees[n] + amount
        /\ \A k \in Markets \ {n} : RecordedFees'[k] = RecordedFees[k]
    BY FeeIsRecorded
  <2>3. \A k \in Markets : pendingFees'[k] <= RecordedFees'[k] + coinless[k]
    BY <2>1, <2>2
  <2>4. QED
    BY <2>3 DEF PendingCovered
<1>3. QED
  BY <1>1, <1>2

(* Recording a fee that arrived keeps the collector's books consistent.    *)
LEMMA FeeArrives ==
  ASSUME TypeOK, TypeOK', CollectorConsistent,
         NEW n \in Markets, NEW s \in Stables, NEW amount \in Nat,
         IF amount > 0 THEN AccumulateFee(n, s, amount) ELSE UNCHANGED collectorVars,
         Total(CollectorHoldings', Stables) = Total(CollectorHoldings, Stables) + amount
  PROVE  CollectorConsistent'
<1>1. /\ FeesCovered /\ FeesListed /\ PendingCovered
      /\ unpaid \in Nat
  BY DEF CollectorConsistent, TypeOK, CollectorTypeOK
<1>2. CASE amount > 0
  <2>1. RecordFee(n, s, amount) /\ UNCHANGED <<unpaid, coinless>>
    BY <1>2 DEF AccumulateFee, historyVars
  <2>2. FeesCovered'
    BY <1>1, <2>1, FeeIsRecorded, RecordedFacts DEF FeesCovered
  <2>3. FeesListed' /\ PendingCovered'
    BY <1>1, <2>1, RecordKeepsLists
  <2>4. QED
    BY <2>2, <2>3 DEF CollectorConsistent
<1>3. CASE ~ (amount > 0)
  <2>1. UNCHANGED collectorVars /\ amount = 0
    BY <1>3
  <2>2. RecordedFees' = RecordedFees
    BY <2>1 DEF RecordedFees, collectorVars
  <2>3. FeesCovered'
    BY <1>1, <2>1, <2>2, RecordedFacts DEF FeesCovered, collectorVars, historyVars
  <2>4. FeesListed' /\ PendingCovered'
    BY <1>1, <2>1, <2>2 DEF FeesListed, PendingCovered, collectorVars, historyVars
  <2>5. QED
    BY <2>3, <2>4 DEF CollectorConsistent
<1>4. QED
  BY <1>2, <1>3

(* Recording a fee that nobody paid raises the history with the record.    *)
LEMMA UnpaidIsCounted ==
  ASSUME TypeOK, CollectorConsistent, RecordByAnyone
  PROVE  CollectorConsistent'
<1>1. /\ FeesCovered /\ FeesListed /\ PendingCovered
      /\ unpaid \in Nat /\ UNCHANGED stableBal
  BY DEF CollectorConsistent, TypeOK, CollectorTypeOK, RecordByAnyone
<1>2. PICK n \in Markets, amount \in RecordAmounts : AccumulateUnpaid(n, amount)
  BY DEF RecordByAnyone
<1>3. amount \in Nat /\ CollectorHoldings' = CollectorHoldings
  BY <1>1, RecordAssumption DEF CollectorHoldings
<1>4. ASSUME NEW s \in Stables, RecordFee(n, s, amount),
             unpaid' = unpaid + amount, UNCHANGED coinless
      PROVE  CollectorConsistent'
  <2>1. FeesListed' /\ PendingCovered'
    BY <1>1, <1>3, <1>4, RecordKeepsLists
  <2>2. Total(RecordedFees', Markets) = Total(RecordedFees, Markets) + amount
    BY <1>3, <1>4, FeeIsRecorded
  <2>3. FeesCovered'
    BY <1>1, <1>3, <1>4, <2>2, RecordedFacts DEF FeesCovered
  <2>4. QED
    BY <2>1, <2>3 DEF CollectorConsistent
<1>5. CASE /\ pendingFees' = [pendingFees EXCEPT ![n] = @ + amount]
           /\ coinless' = [coinless EXCEPT ![n] = @ + amount]
           /\ UNCHANGED <<feeBalances, feeStablecoins, unpaid>>
  <2>1. RecordedFees' = RecordedFees
    BY <1>5 DEF RecordedFees
  <2>2. FeesListed' /\ FeesCovered'
    BY <1>1, <1>3, <1>5, <2>1 DEF FeesListed, FeesCovered
  <2>3. /\ \A k \in Markets : /\ pendingFees[k] \in Nat /\ RecordedFees[k] \in Nat
                              /\ coinless[k] \in Nat
        /\ pendingFees'[n] = pendingFees[n] + amount
        /\ coinless'[n] = coinless[n] + amount
        /\ \A k \in Markets \ {n} : /\ pendingFees'[k] = pendingFees[k]
                                    /\ coinless'[k] = coinless[k]
    BY <1>5, RecordedFacts DEF TypeOK, CollectorTypeOK
  <2>4. \A k \in Markets : pendingFees'[k] <= RecordedFees[k] + coinless'[k]
    BY <1>1, <1>3, <2>3 DEF PendingCovered
  <2>5. QED
    BY <2>1, <2>2, <2>4 DEF PendingCovered, CollectorConsistent
<1>6. QED
  BY <1>2, <1>4, <1>5 DEF AccumulateUnpaid

(* A sale brings the collector, over all coins, the value of its fee.      *)
LEMMA CollectorAfterSell ==
  ASSUME TypeOK, NEW m \in Markets, NEW s \in Stables,
         NEW u \in Users, NEW to \in Users, NEW amount \in Nat,
         NEW out \in Nat, NEW feeUsd \in Nat,
         NEW feeCoins \in [Stables -> Nat], NEW outCoins \in [Stables -> Nat],
         SaleMoves(m, s, u, to, amount, out, feeUsd, feeCoins, outCoins)
  PROVE  Total(CollectorHoldings', Stables) = Total(CollectorHoldings, Stables) + feeUsd
<1>1. /\ m \in Accounts /\ to \in Accounts /\ FeeCollector \in Accounts
      /\ m # to /\ m # FeeCollector /\ to # FeeCollector
  BY AccountsAssumption DEF Accounts
<1>2. ASSUME NEW c \in Stables
      PROVE  CollectorHoldings'[c] = CollectorHoldings[c] + feeCoins[c]
  <2> DEFINE bal == stableBal[c]
             mid == Transfer(bal, m, FeeCollector, feeCoins[c])
  <2>1. /\ bal \in [Accounts -> Nat] /\ bal[m] \in Nat
        /\ feeCoins[c] \in Nat /\ outCoins[c] \in Nat
        /\ feeCoins[c] + outCoins[c] <= bal[m]
    BY <1>1 DEF TypeOK, SaleMoves
  <2>2. stableBal'[c] = Transfer(mid, m, to, outCoins[c])
    BY DEF SaleMoves
  <2>3. CollectorHoldings[c] = bal[FeeCollector]
        /\ CollectorHoldings'[c] = stableBal'[c][FeeCollector]
    BY DEF CollectorHoldings
  <2> HIDE DEF bal
  <2>4. /\ mid \in [Accounts -> Nat]
        /\ mid[m] = bal[m] - feeCoins[c]
        /\ mid[FeeCollector] = bal[FeeCollector] + feeCoins[c]
    <3>1. feeCoins[c] <= bal[m]
      BY <2>1
    <3>2. QED
      BY <1>1, <2>1, <3>1, TransferFacts
  <2> HIDE DEF mid
  <2>5. outCoins[c] <= mid[m]
    BY <2>1, <2>4
  <2>6. Transfer(mid, m, to, outCoins[c])[FeeCollector] = mid[FeeCollector]
    BY <1>1, <2>1, <2>4, <2>5, TransferFacts
  <2>7. QED
    BY <2>2, <2>3, <2>4, <2>6
<1>3. /\ \A c \in Stables : CollectorHoldings[c] \in Nat
      /\ \A c \in Stables : CollectorHoldings'[c] \in Nat
  BY <1>2, RecordedFacts
<1>4. Total(CollectorHoldings', Stables)
        = Total(CollectorHoldings, Stables) + Total(feeCoins, Stables)
  BY <1>2, <1>3, FiniteAssumption, TotalSum
<1>5. QED
  BY <1>4 DEF SaleMoves

(* A buy brings the collector its fee in the coin that is paid.            *)
LEMMA CollectorAfterBuy ==
  ASSUME TypeOK, TypeOK', CollectorConsistent,
         NEW m \in Markets, NEW s \in Stables, NEW u \in Users, NEW to \in Users,
         NEW amount \in Nat, NEW minOut \in Nat, NEW feeBps \in FeeRates,
         Buy(m, s, u, to, amount, minOut, feeBps)
  PROVE  CollectorConsistent'
<1> DEFINE fee == FeeAmount(amount, feeBps)
<1>1. fee \in Nat /\ fee <= amount
  BY RateIsPart
<1>2. /\ amount <= stableBal[s][u]
      /\ stableBal' = [stableBal EXCEPT ![s] =
           Transfer(Transfer(@, u, m, amount), m, FeeCollector, fee)]
      /\ IF fee > 0 THEN AccumulateFee(m, s, fee) ELSE UNCHANGED collectorVars
  BY DEF Buy
<1> HIDE DEF fee
<1>3. /\ u \in Accounts /\ m \in Accounts /\ FeeCollector \in Accounts
      /\ u # m /\ m # FeeCollector /\ u # FeeCollector
  BY AccountsAssumption DEF Accounts
<1>4. CollectorHoldings'[s] = CollectorHoldings[s] + fee
  <2> DEFINE bal == stableBal[s]
             paid == Transfer(bal, u, m, amount)
  <2>1. /\ bal \in [Accounts -> Nat] /\ bal[m] \in Nat /\ amount <= bal[u]
        /\ stableBal'[s] = Transfer(paid, m, FeeCollector, fee)
        /\ CollectorHoldings[s] = bal[FeeCollector]
        /\ CollectorHoldings'[s] = stableBal'[s][FeeCollector]
    BY <1>2, <1>3 DEF TypeOK, CollectorHoldings
  <2> HIDE DEF bal
  <2>2. /\ paid \in [Accounts -> Nat]
        /\ paid[m] = bal[m] + amount
        /\ paid[FeeCollector] = bal[FeeCollector]
    BY <1>3, <2>1, TransferFacts
  <2> HIDE DEF paid
  <2>3. fee <= paid[m]
    BY <1>1, <2>1, <2>2
  <2>4. Transfer(paid, m, FeeCollector, fee)[FeeCollector] = paid[FeeCollector] + fee
    BY <1>1, <1>3, <2>2, <2>3, TransferFacts
  <2>5. QED
    BY <2>1, <2>2, <2>4
<1>5. \A c \in Stables \ {s} : CollectorHoldings'[c] = CollectorHoldings[c]
  BY <1>2 DEF TypeOK, CollectorHoldings
<1>6. \A c \in Stables : CollectorHoldings[c] \in Nat /\ CollectorHoldings'[c] \in Nat
  BY <1>1, <1>4, <1>5, RecordedFacts
<1>7. Total(CollectorHoldings', Stables) = Total(CollectorHoldings, Stables) + fee
  <2>1. Total(CollectorHoldings', Stables)
          = Total(CollectorHoldings, Stables) - CollectorHoldings[s] + CollectorHoldings'[s]
    BY <1>5, <1>6, FiniteAssumption, TotalUpdate
  <2>2. QED
    BY <1>1, <1>4, <1>6, <2>1, RecordedFacts
<1>8. QED
  BY <1>1, <1>2, <1>7, FeeArrives

(* What a claim takes from the collector was recorded of that market, and  *)
(* nothing of it stays recorded.  This is where the list must be complete: *)
(* a coin that is recorded and not listed would stay.                      *)
LEMMA CollectorAfterPayment ==
  ASSUME TypeOK, TypeOK', CollectorConsistent,
         NEW n \in Markets, NEW to \in Users \cup {Dead},
         SendAllFees(n, to), pendingFees' = [pendingFees EXCEPT ![n] = 0],
         coinless' = [coinless EXCEPT ![n] = 0], UNCHANGED unpaid
  PROVE  CollectorConsistent'
<1>1. FeesCovered /\ FeesListed /\ PendingCovered /\ unpaid \in Nat
  BY DEF CollectorConsistent, TypeOK, CollectorTypeOK
<1>2. /\ \A s \in Stables : feeBalances[n][s] \in Nat
      /\ \A s \in Stables \ Range(feeStablecoins[n]) : feeBalances[n][s] = 0
  BY <1>1 DEF FeesListed, TypeOK, CollectorTypeOK
<1>3. /\ \A s \in Stables : feeBalances'[n][s] = 0
      /\ \A k \in Markets \ {n} : feeBalances'[k] = feeBalances[k]
  BY <1>2 DEF SendAllFees, ClearedBalances, TypeOK, CollectorTypeOK
<1>4. /\ RecordedFees'[n] = 0
      /\ \A k \in Markets \ {n} : RecordedFees'[k] = RecordedFees[k]
  <2>1. Total(feeBalances'[n], Stables) = Total(feeBalances'[n], {})
    BY <1>3, TotalZeros
  <2>2. QED
    BY <1>3, <2>1, TotalEmpty DEF RecordedFees
<1>5. \A k \in Markets : RecordedFees[k] \in Nat /\ RecordedFees'[k] \in Nat
  BY <1>4, RecordedFacts
<1>6. FeesCovered'
  <2> DEFINE payment == [s \in Stables |-> FeePayment(n, s)]
  <2>1. \A s \in Stables : /\ payment[s] \in Nat
                           /\ payment[s] <= CollectorHoldings[s]
                           /\ payment[s] <= feeBalances[n][s]
    BY FeePaymentFacts DEF CollectorHoldings
  <2>2. \A s \in Stables : CollectorHoldings'[s] = CollectorHoldings[s] - payment[s]
    <3> SUFFICES ASSUME NEW s \in Stables
                 PROVE  CollectorHoldings'[s] = CollectorHoldings[s] - payment[s]
      OBVIOUS
    <3>1. /\ FeeCollector \in Accounts /\ to \in Accounts /\ FeeCollector # to
          /\ stableBal[s] \in [Accounts -> Nat]
      BY AccountsAssumption DEF Accounts, TypeOK
    <3>2. Transfer(stableBal[s], FeeCollector, to, FeePayment(n, s))[FeeCollector]
            = stableBal[s][FeeCollector] - FeePayment(n, s)
      BY <3>1, FeePaymentFacts, TransferFacts
    <3>3. QED
      BY <3>2 DEF SendAllFees, CollectorHoldings
  <2> HIDE DEF payment
  <2>3. \A s \in Stables : /\ CollectorHoldings[s] \in Nat
                           /\ CollectorHoldings'[s] \in Nat
                           /\ CollectorHoldings[s] = CollectorHoldings'[s] + payment[s]
    BY <2>1, <2>2, RecordedFacts
  <2>4. Total(CollectorHoldings, Stables)
          = Total(CollectorHoldings', Stables) + Total(payment, Stables)
    BY <2>1, <2>3, FiniteAssumption, TotalSum
  <2>5. Total(payment, Stables) <= RecordedFees[n]
    <3>1. Total(payment, Stables) <= Total(feeBalances[n], Stables)
      BY <1>2, <2>1, FiniteAssumption, TotalMonotone
    <3>2. QED
      BY <3>1 DEF RecordedFees
  <2>6. Total(RecordedFees', Markets)
          = Total(RecordedFees, Markets) - RecordedFees[n] + RecordedFees'[n]
    BY <1>4, <1>5, FiniteAssumption, TotalUpdate
  <2>7. /\ Total(CollectorHoldings', Stables) \in Nat
        /\ Total(payment, Stables) \in Nat
        /\ Total(RecordedFees, Markets) \in Nat
    BY <2>1, <2>3, RecordedFacts, FiniteAssumption, TotalType
  <2>8. QED
    BY <1>1, <1>4, <1>5, <2>4, <2>5, <2>6, <2>7 DEF FeesCovered
<1>7. FeesListed'
  <2> SUFFICES ASSUME NEW k \in Markets, NEW s \in Stables, feeBalances'[k][s] > 0
               PROVE  s \in Range(feeStablecoins'[k])
    BY DEF FeesListed
  <2>1. k # n
    BY <1>3
  <2>2. feeStablecoins'[k] = feeStablecoins[k] /\ feeBalances'[k] = feeBalances[k]
    BY <1>3, <2>1 DEF SendAllFees, TypeOK, CollectorTypeOK
  <2>3. QED
    BY <1>1, <2>2 DEF FeesListed
<1>8. PendingCovered'
  <2>1. /\ pendingFees'[n] = 0 /\ coinless'[n] = 0
        /\ \A k \in Markets \ {n} : /\ pendingFees'[k] = pendingFees[k]
                                    /\ coinless'[k] = coinless[k]
    BY DEF TypeOK, CollectorTypeOK
  <2>2. ASSUME NEW k \in Markets PROVE pendingFees'[k] <= RecordedFees'[k] + coinless'[k]
    <3>1. CASE k = n
      BY <1>4, <2>1, <3>1
    <3>2. CASE k # n
      BY <1>1, <1>4, <2>1, <3>2 DEF PendingCovered
    <3>3. QED
      BY <3>1, <3>2
  <2>3. QED
    BY <2>2 DEF PendingCovered
<1>9. QED
  BY <1>6, <1>7, <1>8 DEF CollectorConsistent

(* The books stay consistent when nothing is recorded and the collector's  *)
(* coins stay where they are.                                              *)
LEMMA CollectorLeftAlone ==
  ASSUME TypeOK, TypeOK', CollectorConsistent,
         UNCHANGED <<feeBalances, feeStablecoins, unpaid>>,
         \A n \in Markets : \/ /\ pendingFees'[n] = pendingFees[n]
                               /\ coinless'[n] = coinless[n]
                            \/ pendingFees'[n] = 0,
         \A s \in Stables : stableBal'[s][FeeCollector] = stableBal[s][FeeCollector]
  PROVE  CollectorConsistent'
<1>1. FeesCovered /\ FeesListed /\ PendingCovered
  BY DEF CollectorConsistent
<1>2. RecordedFees' = RecordedFees /\ CollectorHoldings' = CollectorHoldings
  BY DEF RecordedFees, CollectorHoldings
<1>3. FeesCovered'
  BY <1>1, <1>2 DEF FeesCovered
<1>4. FeesListed'
  BY <1>1 DEF FeesListed
<1>5. PendingCovered'
  <2>1. \A n \in Markets : /\ pendingFees'[n] \in Nat /\ pendingFees[n] \in Nat
                           /\ coinless'[n] \in Nat /\ RecordedFees[n] \in Nat
    BY RecordedFacts DEF TypeOK, CollectorTypeOK
  <2>2. QED
    BY <1>1, <1>2, <2>1 DEF PendingCovered
<1>6. QED
  BY <1>3, <1>4, <1>5 DEF CollectorConsistent

LEMMA InitCollector == Init => CollectorConsistent
<1> SUFFICES ASSUME Init PROVE CollectorConsistent
  OBVIOUS
<1>1. TypeOK
  BY InitType
<1>2. \A n \in Markets : RecordedFees[n] = 0
  <2> SUFFICES ASSUME NEW n \in Markets PROVE Total(feeBalances[n], Stables) = 0
    BY DEF RecordedFees
  <2>1. \A s \in Stables : feeBalances[n][s] = 0
    BY DEF Init, CollectorInit
  <2>2. Total(feeBalances[n], Stables) = Total(feeBalances[n], {})
    BY <2>1, TotalZeros
  <2>3. QED
    BY <2>2, TotalEmpty
<1>3. Total(RecordedFees, Markets) = 0
  <2>1. Total(RecordedFees, Markets) = Total(RecordedFees, {})
    BY <1>2, TotalZeros
  <2>2. QED
    BY <2>1, TotalEmpty
<1>4. FeesCovered
  BY <1>1, <1>3, RecordedFacts DEF FeesCovered, Init, CollectorInit
<1>5. FeesListed
  BY DEF Init, CollectorInit, FeesListed
<1>6. PendingCovered
  BY <1>2 DEF Init, CollectorInit, PendingCovered
<1>7. QED
  BY <1>4, <1>5, <1>6 DEF CollectorConsistent

LEMMA StepCollector ==
  ASSUME Backed, CollectorConsistent, [Next]_vars
  PROVE  CollectorConsistent'
<1>1. TypeOK /\ ListMatchesFlags
  BY DEF Backed
<1>2. TypeOK'
  BY StepBacked DEF Backed
<1>3. ASSUME UNCHANGED <<stableBal, collectorVars>>
      PROVE  CollectorConsistent'
  BY <1>1, <1>2, <1>3, CollectorLeftAlone DEF collectorVars, historyVars
<1>4. CASE Trade
  <2>1. PICK m \in Markets, s \in Stables, u, to \in Users,
             amount \in TradeAmounts, minOut \in MinOuts, feeBps \in FeeRates :
          \/ Buy(m, s, u, to, amount, minOut, feeBps)
          \/ Sell(m, s, u, to, amount, minOut, feeBps)
    BY <1>4 DEF Trade
  <2>2. amount \in Nat /\ minOut \in Nat
    BY AmountsAssumption
  <2>3. CASE Buy(m, s, u, to, amount, minOut, feeBps)
    BY <1>1, <1>2, <2>2, <2>3, CollectorAfterBuy
  <2>4. CASE Sell(m, s, u, to, amount, minOut, feeBps)
    <3>1. PICK out, feeUsd \in Nat, feeCoins, outCoins \in [Stables -> Nat] :
            SaleMoves(m, s, u, to, amount, out, feeUsd, feeCoins, outCoins)
      BY <1>1, <2>2, <2>4, SellFacts
    <3>2. Total(CollectorHoldings', Stables) = Total(CollectorHoldings, Stables) + feeUsd
      BY <1>1, <2>2, <3>1, CollectorAfterSell
    <3>3. QED
      BY <1>1, <1>2, <3>1, <3>2, FeeArrives DEF SaleMoves
  <2>5. QED
    BY <2>1, <2>3, <2>4
<1>5. CASE Administer
  BY <1>3, <1>5 DEF Administer
<1>6. ASSUME NEW m \in Markets, Sync(m) PROVE CollectorConsistent'
  BY <1>3, <1>6 DEF Sync
<1>7. ASSUME NEW n \in Markets, ClaimFees(n) PROVE CollectorConsistent'
  <2>1. /\ pendingFees' = [pendingFees EXCEPT ![n] = 0]
        /\ coinless' = [coinless EXCEPT ![n] = 0] /\ UNCHANGED unpaid
    BY <1>1, <1>7, ClaimCases
  <2>2. CASE \E to \in Users \cup {Dead} : SendAllFees(n, to)
    BY <1>1, <1>2, <2>1, <2>2, CollectorAfterPayment
  <2>3. CASE UNCHANGED <<stableBal, feeBalances, feeStablecoins>>
    <3>1. \A k \in Markets : \/ /\ pendingFees'[k] = pendingFees[k]
                                /\ coinless'[k] = coinless[k]
                             \/ pendingFees'[k] = 0
      BY <1>1, <2>1 DEF TypeOK, CollectorTypeOK
    <3>2. QED
      BY <1>1, <1>2, <2>1, <2>3, <3>1, CollectorLeftAlone
  <2>4. QED
    BY <1>1, <1>7, <2>2, <2>3, ClaimCases
<1>8. ASSUME NEW n \in Markets, NEW st \in Strategies, SetFeeStrategy(n, st)
      PROVE  CollectorConsistent'
  BY <1>3, <1>8 DEF SetFeeStrategy
<1>9. ASSUME NEW n \in Markets, NEW u \in Users, TransferPosition(n, u)
      PROVE  CollectorConsistent'
  BY <1>3, <1>9 DEF TransferPosition
<1>10. ASSUME NEW s \in Stables, NEW u \in Users, NEW m \in Markets,
              NEW a \in TransferAmounts, SendStableToPool(s, u, m, a)
       PROVE  CollectorConsistent'
  <2>1. /\ FeeCollector \notin {u, m} /\ FeeCollector \in Accounts
        /\ u \in Accounts /\ m \in Accounts
    BY AccountsAssumption DEF Accounts
  <2>2. \A c \in Stables : stableBal'[c][FeeCollector] = stableBal[c][FeeCollector]
    BY <1>1, <1>10, <2>1 DEF SendStableToPool, Transfer, TypeOK
  <2>3. UNCHANGED <<pendingFees, feeBalances, feeStablecoins, unpaid, coinless>>
    BY <1>10 DEF SendStableToPool, collectorVars, historyVars
  <2>4. QED
    BY <1>1, <1>2, <2>2, <2>3, CollectorLeftAlone
<1>11. ASSUME NEW u \in Users, NEW m \in Markets, NEW a \in TransferAmounts,
              SendTokenToPool(u, m, a)
       PROVE  CollectorConsistent'
  BY <1>3, <1>11 DEF SendTokenToPool
<1>12. CASE UNCHANGED vars
  BY <1>3, <1>12 DEF vars
<1>13. CASE RecordByAnyone
  BY <1>1, <1>13, UnpaidIsCounted
<1>14. QED
  BY <1>4, <1>5, <1>6, <1>7, <1>8, <1>9, <1>10, <1>11, <1>12,
     <1>13 DEF Next

(* Whatever coins sales pay their fees in, whatever claims find the        *)
(* collector short of a coin and whatever strangers record: over all coins *)
(* the collector holds every recorded fee that a pool recorded, each       *)
(* recorded coin is on its market's list, and a market may claim no more   *)
(* than was recorded for it (accumulateFee, _sendAllFees).                 *)
THEOREM CollectorStaysConsistent == Spec => []CollectorConsistent
<1>1. Init => CollectorConsistent
  BY InitCollector
<1>2. Backed /\ CollectorConsistent /\ [Next]_vars => CollectorConsistent'
  BY StepCollector
<1>3. QED
  BY <1>1, <1>2, AlwaysBacked, PTL DEF Spec

-----------------------------------------------------------------------------
(* The price.                                                              *)

(* Only a buy takes tokens off a pool's reserve, and it pays for them.     *)
LEMMA StepKeepsProduct ==
  ASSUME Backed, [Next]_vars, NEW k \in Markets, reserveToken'[k] < reserveToken[k]
  PROVE  EffectiveReserveUSD(k)' * reserveToken'[k]
           >= EffectiveReserveUSD(k) * reserveToken[k]
<1>1. TypeOK /\ ListMatchesFlags /\ TokensBacked
  BY DEF Backed
<1>2. reserveToken[k] \in Nat /\ reserveToken \in [Markets -> Nat]
      /\ realReserveUSD \in [Markets -> Nat] /\ EffectiveReserveUSD(k) \in Nat
  BY <1>1, PoolAssumption DEF TypeOK, PoolTypeOK, EffectiveReserveUSD
<1>3. ASSUME UNCHANGED reserveToken PROVE FALSE
  BY <1>2, <1>3
<1>4. CASE Trade
  <2>1. PICK m \in Markets, s \in Stables, u, to \in Users,
             amount \in TradeAmounts, minOut \in MinOuts, feeBps \in FeeRates :
          \/ Buy(m, s, u, to, amount, minOut, feeBps)
          \/ Sell(m, s, u, to, amount, minOut, feeBps)
    BY <1>4 DEF Trade
  <2>2. amount \in Nat /\ minOut \in Nat
    BY AmountsAssumption
  <2>3. CASE Buy(m, s, u, to, amount, minOut, feeBps)
    <3> DEFINE fee == FeeAmount(amount, feeBps)
               net == amount - fee
               usd == EffectiveReserveUSD(m)
               out == GetAmountOut(net, usd, reserveToken[m])
    <3>1. /\ realReserveUSD' = [realReserveUSD EXCEPT ![m] = @ + amount - fee]
          /\ reserveToken' = [reserveToken EXCEPT ![m] = @ - out]
          /\ CanQuoteOut(net, usd, reserveToken[m])
      BY <2>3 DEF Buy, RealAfterBuy
    <3>2. fee \in Nat /\ fee <= amount
      BY <2>2, RateIsPart
    <3>3. k = m
      <4> HIDE DEF out
      <4> QED BY <1>2, <3>1
    <3>4. net \in Nat /\ usd \in Nat
      <4> HIDE DEF fee
      <4> QED BY <1>2, <2>2, <3>2, <3>3
    <3>5. out \in Nat /\ (usd + net) * (reserveToken[m] - out) >= usd * reserveToken[m]
      <4> HIDE DEF net, usd
      <4> QED BY <1>2, <3>1, <3>3, <3>4, GetAmountOutFacts
    <3>6. EffectiveReserveUSD(k)' = usd + net
      <4>1. realReserveUSD'[m] = realReserveUSD[m] + net
        <5> HIDE DEF fee, out
        <5> QED BY <1>2, <2>2, <3>1, <3>2
      <4>2. EffectiveReserveUSD(k)' = VirtualUSD + realReserveUSD'[m]
        BY <3>3 DEF EffectiveReserveUSD
      <4>3. usd = VirtualUSD + realReserveUSD[m] /\ realReserveUSD[m] \in Nat
        BY <1>2 DEF EffectiveReserveUSD
      <4> HIDE DEF net, usd
      <4>4. QED
        BY <3>4, <4>1, <4>2, <4>3, PoolAssumption
    <3>7. reserveToken'[k] = reserveToken[m] - out
      <4> HIDE DEF out
      <4> QED BY <1>2, <3>1, <3>3
    <3> HIDE DEF net, usd, out
    <3>8. QED
      BY <3>3, <3>5, <3>6, <3>7 DEF usd
  <2>4. CASE Sell(m, s, u, to, amount, minOut, feeBps)
    <3>1. reserveToken' = [reserveToken EXCEPT ![m] = @ + amount]
      BY <2>4 DEF Sell, TokensAfterSell
    <3>2. QED
      BY <1>2, <2>2, <3>1
  <2>5. QED
    BY <2>1, <2>3, <2>4
<1>5. ASSUME NEW m \in Markets, Sync(m) PROVE FALSE
  <2>1. reserveToken[m] <= tokenBal[m][m] /\ tokenBal[m][m] \in Nat
    BY <1>1 DEF TokensBacked, TypeOK, PoolTypeOK, Accounts
  <2>2. reserveToken' = [reserveToken EXCEPT ![m] = tokenBal[m][m]]
    BY <1>5 DEF Sync
  <2>3. QED
    BY <1>2, <2>1, <2>2
<1>6. ASSUME NEW n \in Markets, ClaimFees(n) PROVE FALSE
  BY <1>3, <1>6 DEF ClaimFees, poolVars
<1>7. CASE \/ RecordByAnyone
           \/ Administer
           \/ \E n \in Markets, st \in Strategies : SetFeeStrategy(n, st)
           \/ \E n \in Markets, u \in Users : TransferPosition(n, u)
           \/ \E s \in Stables, u \in Users, m \in Markets, a \in TransferAmounts :
                SendStableToPool(s, u, m, a) \/ SendTokenToPool(u, m, a)
           \/ UNCHANGED vars
  BY <1>3, <1>7
     DEF RecordByAnyone, Administer, SetFeeStrategy, TransferPosition,
         SendStableToPool, SendTokenToPool, vars, poolVars
<1>8. QED
  BY <1>4, <1>5, <1>6, <1>7 DEF Next

(* No buy lowers the product that sets the price, and no other step takes  *)
(* tokens off a reserve: sync only ever finds at least the reserve, which  *)
(* is where the backing is needed (swap, sync).                            *)
THEOREM BuysKeepProduct == Spec => BuyKeepsProduct
<1>1. Backed /\ [Next]_vars =>
        [\A m \in Markets :
           reserveToken'[m] < reserveToken[m] =>
             EffectiveReserveUSD(m)' * reserveToken'[m]
               >= EffectiveReserveUSD(m) * reserveToken[m]]_vars
  BY StepKeepsProduct
<1>2. QED
  BY <1>1, AlwaysBacked, PTL DEF Spec, BuyKeepsProduct

-----------------------------------------------------------------------------
(* What a pool can pay out when no coin is removed from the list.          *)

NoHandTransfer ==
  ~ \E s \in Stables, u \in Users, m \in Markets, a \in TransferAmounts :
      SendStableToPool(s, u, m, a) \/ SendTokenToPool(u, m, a)

LEMMA HoldingsFacts ==
  ASSUME TypeOK, ListMatchesFlags, NEW k \in Markets
  PROVE  /\ approved \in SUBSET Stables /\ IsFiniteSet(approved)
         /\ Range(stablecoins) = approved
         /\ Holdings(k) \in [Stables -> Nat]
         /\ \A c \in Stables : Holdings(k)[c] = stableBal[c][k]
         /\ Total(Holdings(k), approved) \in Nat
<1>1. approved \in SUBSET Stables /\ Range(stablecoins) = approved
  BY DEF TypeOK, RegistryTypeOK, ListMatchesFlags
<1>2. IsFiniteSet(approved)
  BY <1>1, FiniteAssumption, FS_Subset
<1>3. Holdings(k) \in [Stables -> Nat] /\ \A c \in Stables : Holdings(k)[c] = stableBal[c][k]
  BY DEF Holdings, TypeOK, Accounts
<1>4. Total(Holdings(k), approved) \in Nat
  BY <1>1, <1>2, <1>3, TotalType
<1>5. QED
  BY <1>1, <1>2, <1>3, <1>4

(* A trade changes what pool k holds of the approved coins by what it      *)
(* changes its real reserve, its tokens by what it changes their reserve,  *)
(* and nothing of the other coins.                                         *)
BooksMoveTogether(k) ==
  /\ Total(Holdings(k)', approved) + realReserveUSD[k]
       = Total(Holdings(k), approved) + realReserveUSD'[k]
  /\ tokenBal'[k][k] + reserveToken[k] = tokenBal[k][k] + reserveToken'[k]
  /\ \A c \in Stables \ approved : stableBal'[c][k] = stableBal[c][k]
  /\ UNCHANGED registryVars

LEMMA BuyMovesBooks ==
  ASSUME TypeOK, TypeOK', ListMatchesFlags, NEW k \in Markets,
         NEW m \in Markets, NEW s \in Stables, NEW u \in Users, NEW to \in Users,
         NEW amount \in Nat, NEW minOut \in Nat, NEW feeBps \in FeeRates,
         Buy(m, s, u, to, amount, minOut, feeBps)
  PROVE  BooksMoveTogether(k)
<1> DEFINE fee == FeeAmount(amount, feeBps)
           out == GetAmountOut(amount - fee, EffectiveReserveUSD(m), reserveToken[m])
<1>1. fee \in Nat /\ fee <= amount
  BY RateIsPart
<1>2. out \in Nat
  <2>1. CanQuoteOut(amount - fee, EffectiveReserveUSD(m), reserveToken[m])
    BY DEF Buy
  <2>2. EffectiveReserveUSD(m) \in Nat /\ reserveToken[m] \in Nat
    BY PoolAssumption DEF EffectiveReserveUSD, TypeOK, PoolTypeOK
  <2> HIDE DEF fee
  <2>3. amount - fee \in Nat
    BY <1>1
  <2>4. QED
    BY <2>1, <2>2, <2>3, GetAmountOutFacts
<1>3. /\ s \in approved
      /\ amount <= stableBal[s][u]
      /\ out <= tokenBal[m][m]
      /\ stableBal' = [stableBal EXCEPT ![s] =
           Transfer(Transfer(@, u, m, amount), m, FeeCollector, fee)]
      /\ tokenBal' = [tokenBal EXCEPT ![m] = Transfer(@, m, to, out)]
      /\ realReserveUSD' = [realReserveUSD EXCEPT ![m] = @ + amount - fee]
      /\ reserveToken' = [reserveToken EXCEPT ![m] = @ - out]
      /\ UNCHANGED registryVars
  BY DEF Buy, RealAfterBuy
<1> HIDE DEF fee, out
<1>4. /\ k \in Accounts /\ m \in Accounts /\ u \in Accounts /\ to \in Accounts
      /\ FeeCollector \in Accounts
      /\ k \notin {u, to, FeeCollector} /\ m \notin {u, to, FeeCollector}
      /\ u # FeeCollector
  BY AccountsAssumption DEF Accounts
<1>5. /\ tokenBal \in [Markets -> [Accounts -> Nat]] /\ reserveToken \in [Markets -> Nat]
      /\ stableBal \in [Stables -> [Accounts -> Nat]] /\ realReserveUSD \in [Markets -> Nat]
  BY DEF TypeOK, PoolTypeOK
<1>6. tokenBal'[k][k] + reserveToken[k] = tokenBal[k][k] + reserveToken'[k]
  <2>1. Transfer(tokenBal[m], m, to, out)[m] = tokenBal[m][m] - out
    <3>1. tokenBal[m] \in [Accounts -> Nat]
      BY <1>5
    <3>2. QED
      BY <1>2, <1>3, <1>4, <3>1, TransferFacts
  <2>2. tokenBal[k][k] \in Nat /\ reserveToken[k] \in Nat
    BY <1>4, <1>5
  <2>3. CASE k = m
    BY <1>2, <1>3, <1>5, <2>1, <2>2, <2>3
  <2>4. CASE k # m
    BY <1>3, <1>5, <2>2, <2>4
  <2>5. QED
    BY <2>3, <2>4
<1>7. stableBal'[s][k] = stableBal[s][k] + (IF k = m THEN amount - fee ELSE 0)
  <2> DEFINE bal == stableBal[s]
             paid == Transfer(bal, u, m, amount)
  <2>1. /\ bal \in [Accounts -> Nat] /\ bal[m] \in Nat /\ bal[k] \in Nat /\ amount <= bal[u]
        /\ stableBal'[s] = Transfer(paid, m, FeeCollector, fee)
    BY <1>3, <1>4, <1>5
  <2> HIDE DEF bal
  <2>2. /\ paid \in [Accounts -> Nat]
        /\ paid[m] = bal[m] + amount
        /\ k # m => paid[k] = bal[k]
    BY <1>4, <2>1, TransferFacts
  <2> HIDE DEF paid
  <2>3. fee <= paid[m]
    BY <1>1, <2>1, <2>2
  <2>4. /\ Transfer(paid, m, FeeCollector, fee)[m] = paid[m] - fee
        /\ k # m => Transfer(paid, m, FeeCollector, fee)[k] = paid[k]
    BY <1>1, <1>4, <2>2, <2>3, TransferFacts
  <2>5. stableBal'[s][k] = bal[k] + (IF k = m THEN amount - fee ELSE 0)
    BY <1>1, <2>1, <2>2, <2>4
  <2>6. QED
    BY <2>5 DEF bal
<1>8. \A c \in Stables \ {s} : stableBal'[c][k] = stableBal[c][k]
  BY <1>3, <1>5
<1>9. Total(Holdings(k)', approved) + realReserveUSD[k]
        = Total(Holdings(k), approved) + realReserveUSD'[k]
  <2> DEFINE h == Holdings(k)
             new == [c \in Stables |-> stableBal'[c][k]]
  <2>1. Holdings(k)' = new
    BY DEF Holdings
  <2>2. /\ \A c \in Stables : h[c] \in Nat /\ h[c] = stableBal[c][k]
        /\ \A c \in Stables : new[c] \in Nat /\ new[c] = stableBal'[c][k]
    <3>1. \A c \in Stables : stableBal'[c][k] \in Nat
      BY <1>4 DEF TypeOK
    <3>2. QED
      BY <3>1, HoldingsFacts
  <2>3. approved \in SUBSET Stables /\ IsFiniteSet(approved) /\ Total(h, approved) \in Nat
    BY HoldingsFacts
  <2> HIDE DEF h, new
  <2>4. Total(new, approved) = Total(h, approved) - h[s] + new[s]
    BY <1>3, <1>8, <2>2, <2>3, TotalUpdate
  <2>5. realReserveUSD'[k] = realReserveUSD[k] + (IF k = m THEN amount - fee ELSE 0)
    BY <1>1, <1>3, <1>5
  <2>6. new[s] = h[s] + (IF k = m THEN amount - fee ELSE 0)
    BY <1>7, <2>2
  <2>7. h[s] \in Nat /\ realReserveUSD[k] \in Nat
    BY <1>5, <2>2
  <2>8. Total(new, approved) = Total(h, approved) + (IF k = m THEN amount - fee ELSE 0)
    BY <1>1, <2>3, <2>4, <2>6, <2>7
  <2>9. Total(new, approved) + realReserveUSD[k] = Total(h, approved) + realReserveUSD'[k]
    BY <1>1, <2>3, <2>5, <2>7, <2>8
  <2>10. QED
    BY <2>1, <2>9 DEF h
<1>10. QED
  BY <1>3, <1>6, <1>8, <1>9 DEF BooksMoveTogether

LEMMA SellMovesBooks ==
  ASSUME TypeOK, TypeOK', ListMatchesFlags, NEW k \in Markets,
         NEW m \in Markets, NEW s \in Stables, NEW u \in Users, NEW to \in Users,
         NEW amount \in Nat, NEW minOut \in Nat, NEW feeBps \in FeeRates,
         Sell(m, s, u, to, amount, minOut, feeBps)
  PROVE  BooksMoveTogether(k)
<1>1. PICK out, feeUsd \in Nat, feeCoins, outCoins \in [Stables -> Nat] :
        SaleMoves(m, s, u, to, amount, out, feeUsd, feeCoins, outCoins)
  BY SellFacts
<1>2. /\ k \in Accounts /\ m \in Accounts /\ u \in Accounts /\ k # u /\ m # u
  BY AccountsAssumption DEF Accounts
<1>3. /\ tokenBal \in [Markets -> [Accounts -> Nat]] /\ reserveToken \in [Markets -> Nat]
      /\ realReserveUSD \in [Markets -> Nat]
      /\ tokenBal[k][k] \in Nat /\ reserveToken[k] \in Nat /\ realReserveUSD[k] \in Nat
  BY <1>2 DEF TypeOK, PoolTypeOK
<1>4. tokenBal'[k][k] + reserveToken[k] = tokenBal[k][k] + reserveToken'[k]
  <2>1. Transfer(tokenBal[m], u, m, amount)[m] = tokenBal[m][m] + amount
    <3>1. tokenBal[m] \in [Accounts -> Nat] /\ amount <= tokenBal[m][u]
      BY <1>1, <1>3 DEF SaleMoves
    <3>2. QED
      BY <1>2, <3>1, TransferFacts
  <2>2. tokenBal'[m] = Transfer(tokenBal[m], u, m, amount)
        /\ reserveToken'[m] = reserveToken[m] + amount
        /\ (k # m => tokenBal'[k] = tokenBal[k] /\ reserveToken'[k] = reserveToken[k])
    BY <1>1, <1>3 DEF SaleMoves
  <2>3. CASE k = m
    BY <1>3, <2>1, <2>2, <2>3
  <2>4. CASE k # m
    BY <1>3, <2>2, <2>4
  <2>5. QED
    BY <2>3, <2>4
<1>5. ASSUME NEW c \in Stables
      PROVE  /\ k = m => stableBal'[c][k] = stableBal[c][k] - (feeCoins[c] + outCoins[c])
             /\ k # m => stableBal'[c][k] = stableBal[c][k]
  <2>1. SalePaidFrom(m, feeCoins, outCoins)
    BY <1>1, SaleHoldings
  <2>2. QED
    BY <2>1 DEF SalePaidFrom
<1>6. \A c \in Stables \ approved : stableBal'[c][k] = stableBal[c][k]
  <2>1. \A c \in Stables : stableBal[c][k] \in Nat
    BY <1>2 DEF TypeOK
  <2>2. \A c \in Stables \ approved : feeCoins[c] = 0 /\ outCoins[c] = 0
    BY <1>1 DEF SaleMoves
  <2>3. QED
    BY <1>5, <2>1, <2>2
<1>7. Total(Holdings(k)', approved) + realReserveUSD[k]
        = Total(Holdings(k), approved) + realReserveUSD'[k]
  <2> DEFINE h == Holdings(k)
             new == [c \in Stables |-> stableBal'[c][k]]
             moved == [c \in Stables |-> feeCoins[c] + outCoins[c]]
  <2>1. Holdings(k)' = new
    BY DEF Holdings
  <2>2. /\ \A c \in Stables : h[c] \in Nat /\ h[c] = stableBal[c][k]
        /\ \A c \in Stables : new[c] \in Nat /\ new[c] = stableBal'[c][k]
    <3>1. \A c \in Stables : stableBal'[c][k] \in Nat
      BY <1>2 DEF TypeOK
    <3>2. QED
      BY <3>1, HoldingsFacts
  <2>3. approved \in SUBSET Stables /\ IsFiniteSet(approved) /\ Total(h, approved) \in Nat
    BY HoldingsFacts
  <2>4. \A c \in Stables : moved[c] = feeCoins[c] + outCoins[c] /\ moved[c] \in Nat
    OBVIOUS
  <2> HIDE DEF h, new, moved
  <2>5. CASE k = m
    <3>1. Total(moved, Stables) = feeUsd + out
      <4>1. Total(moved, Stables) = Total(feeCoins, Stables) + Total(outCoins, Stables)
        BY <2>4, FiniteAssumption, TotalSum
      <4>2. QED
        BY <1>1, <4>1 DEF SaleMoves
    <3>2. Total(moved, approved) = feeUsd + out
      <4>1. \A c \in Stables \ approved : moved[c] = 0
        BY <1>1, <2>4 DEF SaleMoves
      <4>2. QED
        BY <2>3, <3>1, <4>1, TotalZeros
    <3>3. \A c \in approved : h[c] = new[c] + moved[c]
      BY <1>5, <2>2, <2>3, <2>4, <2>5
    <3>4. Total(h, approved) = Total(new, approved) + Total(moved, approved)
      BY <2>2, <2>3, <2>4, <3>3, TotalSum
    <3>5. Total(new, approved) \in Nat
      BY <2>2, <2>3, TotalType
    <3>6. realReserveUSD'[k] = realReserveUSD[k] - (out + feeUsd)
      BY <1>1, <1>3, <2>5 DEF SaleMoves
    <3>7. Total(new, approved) + realReserveUSD[k] = Total(h, approved) + realReserveUSD'[k]
      BY <1>3, <3>2, <3>4, <3>5, <3>6
    <3>8. QED
      BY <2>1, <3>7 DEF h
  <2>6. CASE k # m
    <3>1. \A c \in approved : new[c] = h[c]
      BY <1>5, <2>2, <2>3, <2>6
    <3>2. Total(new, approved) = Total(h, approved)
      BY <3>1, TotalSame
    <3>3. realReserveUSD'[k] = realReserveUSD[k]
      BY <1>1, <1>3, <2>6 DEF SaleMoves
    <3>4. QED
      BY <2>1, <3>2, <3>3 DEF h
  <2>7. QED
    BY <2>5, <2>6
<1>8. QED
  BY <1>1, <1>4, <1>6, <1>7 DEF BooksMoveTogether, SaleMoves

(* Every step either leaves a pool's coins and both reserves alone, or is  *)
(* a trade, a sync or a transfer by hand.                                  *)
LEMMA ClaimKeepsHoldings ==
  ASSUME TypeOK, NEW n \in Markets, ClaimFees(n), NEW k \in Markets, NEW c \in Stables
  PROVE  stableBal'[c][k] = stableBal[c][k]
<1>1. ASSUME NEW to \in Users \cup {Dead}, SendAllFees(n, to)
      PROVE  stableBal'[c][k] = stableBal[c][k]
  <2>1. /\ FeeCollector \in Accounts /\ to \in Accounts /\ k \in Accounts
        /\ FeeCollector # to /\ k # to /\ k # FeeCollector
    BY AccountsAssumption DEF Accounts
  <2>2. stableBal[c] \in [Accounts -> Nat]
    BY DEF TypeOK
  <2>3. Transfer(stableBal[c], FeeCollector, to, FeePayment(n, c))[k] = stableBal[c][k]
    BY <2>1, <2>2, FeePaymentFacts, TransferFacts
  <2>4. QED
    BY <1>1, <2>3 DEF SendAllFees
<1>2. QED
  BY <1>1, ClaimCases

LEMMA StepCases ==
  ASSUME TypeOK, TypeOK', ListMatchesFlags, [Next]_vars, NEW k \in Markets
  PROVE  \/ BooksMoveTogether(k)
         \/ \E m \in Markets : Sync(m)
         \/ /\ UNCHANGED <<tokenBal, reserveToken, realReserveUSD>>
            /\ \A c \in Stables : stableBal'[c][k] = stableBal[c][k]
         \/ /\ ~ NoHandTransfer
            /\ UNCHANGED <<reserveToken, realReserveUSD, registryVars>>
            /\ \A c \in Stables : stableBal'[c][k] >= stableBal[c][k]
<1> DEFINE Alone == /\ UNCHANGED <<tokenBal, reserveToken, realReserveUSD>>
                    /\ \A c \in Stables : stableBal'[c][k] = stableBal[c][k]
<1>1. ASSUME UNCHANGED <<stableBal, poolVars>> PROVE Alone
  BY <1>1 DEF poolVars
<1>2. CASE Trade
  <2>1. PICK m \in Markets, s \in Stables, u, to \in Users,
             amount \in TradeAmounts, minOut \in MinOuts, feeBps \in FeeRates :
          \/ Buy(m, s, u, to, amount, minOut, feeBps)
          \/ Sell(m, s, u, to, amount, minOut, feeBps)
    BY <1>2 DEF Trade
  <2>2. amount \in Nat /\ minOut \in Nat
    BY AmountsAssumption
  <2>3. BooksMoveTogether(k)
    BY <2>1, <2>2, BuyMovesBooks, SellMovesBooks
  <2>4. QED
    BY <2>3
<1>3. CASE Administer
  BY <1>1, <1>3 DEF Administer
<1>4. CASE \E m \in Markets : Sync(m) /\ UNCHANGED positionVars
  BY <1>4
<1>5. ASSUME NEW n \in Markets, ClaimFees(n) PROVE Alone
  BY <1>5, ClaimKeepsHoldings DEF ClaimFees, poolVars
<1>6. ASSUME NEW n \in Markets, NEW st \in Strategies, SetFeeStrategy(n, st) PROVE Alone
  BY <1>1, <1>6 DEF SetFeeStrategy
<1>7. ASSUME NEW n \in Markets, NEW u \in Users, TransferPosition(n, u) PROVE Alone
  BY <1>1, <1>7 DEF TransferPosition
<1>8. ASSUME NEW s \in Stables, NEW u \in Users, NEW m \in Markets, NEW a \in TransferAmounts,
             SendStableToPool(s, u, m, a) \/ SendTokenToPool(u, m, a)
      PROVE  /\ ~ NoHandTransfer
             /\ UNCHANGED <<reserveToken, realReserveUSD, registryVars>>
             /\ \A c \in Stables : stableBal'[c][k] >= stableBal[c][k]
  <2>1. ~ NoHandTransfer
    BY <1>8 DEF NoHandTransfer
  <2>2. UNCHANGED <<reserveToken, realReserveUSD, registryVars>>
    BY <1>8 DEF SendStableToPool, SendTokenToPool, poolVars
  <2>3. ASSUME NEW c \in Stables PROVE stableBal'[c][k] >= stableBal[c][k]
    <3>1. /\ u \in Accounts /\ m \in Accounts /\ k \in Accounts /\ u # m /\ k # u
          /\ a \in Nat /\ stableBal[c] \in [Accounts -> Nat] /\ stableBal[c][k] \in Nat
      <4>1. u \in Accounts /\ m \in Accounts /\ k \in Accounts /\ u # m /\ k # u
        BY AccountsAssumption DEF Accounts
      <4>2. stableBal[c] \in [Accounts -> Nat]
        BY DEF TypeOK
      <4>3. QED
        BY <4>1, <4>2, AmountsAssumption
    <3>2. CASE stableBal'[c] = stableBal[c]
      BY <3>1, <3>2
    <3>3. CASE a <= stableBal[c][u] /\ stableBal'[c] = Transfer(stableBal[c], u, m, a)
      <4>1. /\ stableBal'[c][m] = stableBal[c][m] + a
            /\ k # m => stableBal'[c][k] = stableBal[c][k]
        BY <3>1, <3>3, TransferFacts
      <4>2. QED
        BY <3>1, <4>1
    <3>4. QED
      BY <1>8, <3>2, <3>3 DEF SendStableToPool, SendTokenToPool, TypeOK
  <2>4. QED
    BY <2>1, <2>2, <2>3
<1>9. CASE UNCHANGED vars
  BY <1>1, <1>9 DEF vars
<1>10. CASE RecordByAnyone
  BY <1>1, <1>10 DEF RecordByAnyone
<1>11. QED
  BY <1>2, <1>3, <1>4, <1>5, <1>6, <1>7, <1>8, <1>9, <1>10 DEF Next

(* What sync writes.                                                       *)
LEMMA SyncWrites ==
  ASSUME TypeOK, ListMatchesFlags, NEW m \in Markets, Sync(m), NEW k \in Markets
  PROVE  /\ UNCHANGED <<stableBal, tokenBal, registryVars>>
         /\ IF k = m THEN /\ reserveToken'[k] = tokenBal[k][k]
                          /\ realReserveUSD'[k] = Total(Holdings(k), approved)
                     ELSE /\ reserveToken'[k] = reserveToken[k]
                          /\ realReserveUSD'[k] = realReserveUSD[k]
<1>1. UNCHANGED <<stableBal, tokenBal, registryVars>>
  BY DEF Sync
<1>2. /\ reserveToken' = [reserveToken EXCEPT ![m] = tokenBal[m][m]]
      /\ realReserveUSD' = [realReserveUSD EXCEPT ![m] = Total(Holdings(m), approved)]
  BY HoldingsFacts DEF Sync, StableBalance
<1>3. reserveToken \in [Markets -> Nat] /\ realReserveUSD \in [Markets -> Nat]
  BY DEF TypeOK, PoolTypeOK
<1>4. QED
  BY <1>1, <1>2, <1>3

LEMMA StepKeepsFloor ==
  ASSUME Backed, [Next]_vars, NEW k \in Markets, CanPay(k), NoRemoval
  PROVE  CanPay(k)'
<1>1. TypeOK /\ ListMatchesFlags /\ TypeOK' /\ ListMatchesFlags'
  BY StepBacked DEF Backed
<1>2. SUFFICES realReserveUSD'[k] <= Total(Holdings(k)', approved')
  BY <1>1, HoldingsFacts DEF CanPay, ListMatchesFlags
<1> DEFINE h == Holdings(k)
           new == [c \in Stables |-> stableBal'[c][k]]
<1>3. Holdings(k)' = new
  BY DEF Holdings
<1>4. /\ approved \in SUBSET Stables /\ IsFiniteSet(approved)
      /\ approved' \in SUBSET Stables /\ IsFiniteSet(approved')
  BY <1>1, HoldingsFacts, FiniteAssumption, FS_Subset DEF TypeOK, RegistryTypeOK
<1>5. approved \in SUBSET approved'
  BY DEF NoRemoval
<1>6. /\ \A c \in Stables : h[c] \in Nat /\ h[c] = stableBal[c][k]
      /\ \A c \in Stables : new[c] \in Nat /\ new[c] = stableBal'[c][k]
  <2>1. \A c \in Stables : stableBal'[c][k] \in Nat
    BY <1>1 DEF TypeOK, Accounts
  <2>2. QED
    BY <1>1, <2>1, HoldingsFacts
<1>7. realReserveUSD[k] <= Total(h, approved)
  BY <1>1, HoldingsFacts DEF CanPay
<1>8. realReserveUSD[k] \in Nat /\ realReserveUSD'[k] \in Nat
  BY <1>1 DEF TypeOK, PoolTypeOK
<1> HIDE DEF h, new
<1>9. /\ Total(h, approved) \in Nat
      /\ Total(new, approved) \in Nat
      /\ Total(new, approved') \in Nat
      /\ Total(new, approved) <= Total(new, approved')
  BY <1>4, <1>5, <1>6, TotalType, TotalSubset
<1>10. CASE BooksMoveTogether(k)
  <2>1. Total(new, approved) + realReserveUSD[k] = Total(h, approved) + realReserveUSD'[k]
    BY <1>3, <1>10 DEF BooksMoveTogether, h
  <2>2. QED
    BY <1>3, <1>7, <1>8, <1>9, <2>1
<1>11. CASE \E m \in Markets : Sync(m)
  <2>1. PICK m \in Markets : Sync(m)
    BY <1>11
  <2>2. /\ \A c \in approved : new[c] = h[c]
        /\ \/ realReserveUSD'[k] = Total(h, approved)
           \/ realReserveUSD'[k] = realReserveUSD[k]
    <3>1. /\ UNCHANGED stableBal
          /\ \/ realReserveUSD'[k] = Total(Holdings(k), approved)
             \/ realReserveUSD'[k] = realReserveUSD[k]
      BY <1>1, <2>1, SyncWrites
    <3>2. QED
      BY <1>4, <1>6, <3>1 DEF h
  <2>3. Total(new, approved) = Total(h, approved)
    BY <2>2, TotalSame
  <2>4. QED
    BY <1>3, <1>7, <1>8, <1>9, <2>2, <2>3
<1>12. CASE /\ UNCHANGED realReserveUSD
            /\ \A c \in Stables : stableBal'[c][k] >= stableBal[c][k]
  <2>1. \A c \in approved : h[c] <= new[c]
    BY <1>4, <1>6, <1>12
  <2>2. Total(h, approved) <= Total(new, approved)
    BY <1>4, <1>6, <2>1, TotalMonotone
  <2>3. QED
    BY <1>3, <1>7, <1>8, <1>9, <1>12, <2>2
<1>13. CASE /\ UNCHANGED realReserveUSD
            /\ \A c \in Stables : stableBal'[c][k] = stableBal[c][k]
  <2>1. \A c \in Stables : stableBal'[c][k] >= stableBal[c][k]
    BY <1>6, <1>13
  <2>2. QED
    BY <1>12, <1>13, <2>1
<1>14. QED
  BY <1>1, <1>10, <1>11, <1>12, <1>13, StepCases

(* Sync leaves a reserve that the pool can pay.                            *)
LEMMA CorrectedCanPay ==
  ASSUME Backed, [Next]_vars, NEW k \in Markets,
         realReserveUSD'[k] # realReserveUSD[k], UNCHANGED stableBal
  PROVE  CanPay(k)'
<1>1. TypeOK /\ ListMatchesFlags /\ TypeOK' /\ ListMatchesFlags'
  BY StepBacked DEF Backed
<1>2. realReserveUSD[k] \in Nat /\ realReserveUSD'[k] \in Nat
  BY <1>1 DEF TypeOK, PoolTypeOK
<1>3. Holdings(k)' = Holdings(k)
  BY DEF Holdings
<1>4. ~ BooksMoveTogether(k)
  <2>1. SUFFICES ASSUME BooksMoveTogether(k) PROVE FALSE
    OBVIOUS
  <2>2. Total(Holdings(k), approved) \in Nat
    BY <1>1, HoldingsFacts
  <2>3. Total(Holdings(k), approved) + realReserveUSD[k]
          = Total(Holdings(k), approved) + realReserveUSD'[k]
    BY <1>3, <2>1 DEF BooksMoveTogether
  <2>4. QED
    BY <1>2, <2>2, <2>3
<1>5. PICK m \in Markets : Sync(m)
  BY <1>1, <1>4, StepCases
<1>6. realReserveUSD'[k] = Total(Holdings(k), approved) /\ approved' = approved
  BY <1>1, <1>5, SyncWrites DEF registryVars
<1>7. Range(stablecoins)' = approved'
  BY <1>1, HoldingsFacts DEF ListMatchesFlags
<1>8. QED
  BY <1>1, <1>2, <1>3, <1>6, <1>7 DEF CanPay

LEMMA InitHoldings ==
  ASSUME Init, NEW k \in Markets
  PROVE  /\ \A c \in Stables : stableBal[c][k] = 0
         /\ realReserveUSD[k] = 0
         /\ reserveToken[k] = tokenBal[k][k]
BY AccountsAssumption DEF Init, PoolInit, Accounts

(* A pool that holds its real reserve in coins of the list does so until a *)
(* coin is removed, and does so again once sync has corrected the reserve  *)
(* (swap, _sendStable, sync, addStablecoin).                               *)
THEOREM FloorStaysPayable == Spec => FloorIsPayable
<1>1. ASSUME Backed, [Next]_vars
      PROVE  [\A m \in Markets :
                /\ CanPay(m) /\ NoRemoval => CanPay(m)'
                /\ realReserveUSD'[m] # realReserveUSD[m] /\ UNCHANGED stableBal
                     => CanPay(m)']_vars
  BY <1>1, StepKeepsFloor, CorrectedCanPay
<1>2. QED
  BY <1>1, AlwaysBacked, PTL DEF Spec, FloorIsPayable

(* So while coins are only added, a sale that passes the real-liquidity    *)
(* floor can be paid (swap, _sendStable).                                  *)
THEOREM AdditionsKeepFloorPayable ==
  Spec /\ [][NoRemoval]_vars => [](\A m \in Markets : CanPay(m))
<1> DEFINE AllCanPay == \A m \in Markets : CanPay(m)
<1>1. Init => AllCanPay
  <2> SUFFICES ASSUME Init, NEW k \in Markets
               PROVE  realReserveUSD[k] <= Total(Holdings(k), Range(stablecoins))
    BY DEF CanPay
  <2>1. TypeOK /\ ListMatchesFlags
    BY InitBacked DEF Backed
  <2>2. Range(stablecoins) = approved /\ Total(Holdings(k), approved) \in Nat
    BY <2>1, HoldingsFacts
  <2>3. QED
    BY <2>2, InitHoldings
<1>2. Backed /\ AllCanPay /\ [Next]_vars /\ [NoRemoval]_vars => AllCanPay'
  <2>1. UNCHANGED vars => NoRemoval
    BY DEF NoRemoval, vars, registryVars
  <2>2. QED
    BY <2>1, StepKeepsFloor
<1>3. QED
  BY <1>1, <1>2, AlwaysBacked, PTL DEF Spec

(* The inductive form of BooksExact: sync counts approved coins only, so a *)
(* pool must hold nothing of the others.                                   *)
BooksInCoins ==
  \A k \in Markets :
    /\ reserveToken[k] = tokenBal[k][k]
    /\ realReserveUSD[k] = Total(Holdings(k), approved)
    /\ \A c \in Stables \ approved : stableBal[c][k] = 0

LEMMA BooksInCoinsAreExact ==
  ASSUME TypeOK, ListMatchesFlags, BooksInCoins
  PROVE  BooksExact
<1> SUFFICES ASSUME NEW k \in Markets
             PROVE  /\ reserveToken[k] = tokenBal[k][k]
                    /\ realReserveUSD[k] = Total(Holdings(k), Stables)
  BY DEF BooksExact
<1>1. approved \in SUBSET Stables /\ \A c \in Stables \ approved : Holdings(k)[c] = 0
  BY HoldingsFacts DEF BooksInCoins
<1>2. Total(Holdings(k), Stables) = Total(Holdings(k), approved)
  BY <1>1, TotalZeros
<1>3. QED
  BY <1>2 DEF BooksInCoins

LEMMA StepKeepsBooks ==
  ASSUME Backed, BooksInCoins, [Next]_vars, [NoRemoval /\ NoHandTransfer]_vars
  PROVE  BooksInCoins'
<1>1. TypeOK /\ ListMatchesFlags /\ TypeOK' /\ ListMatchesFlags'
  BY StepBacked DEF Backed
<1>2. SUFFICES ASSUME NEW k \in Markets
               PROVE  /\ reserveToken'[k] = tokenBal'[k][k]
                      /\ realReserveUSD'[k] = Total(Holdings(k)', approved')
                      /\ \A c \in Stables \ approved' : stableBal'[c][k] = 0
  BY DEF BooksInCoins
<1> DEFINE h == Holdings(k)
           new == [c \in Stables |-> stableBal'[c][k]]
<1>3. Holdings(k)' = new
  BY DEF Holdings
<1>4. /\ approved \in SUBSET Stables /\ IsFiniteSet(approved)
      /\ approved' \in SUBSET Stables /\ IsFiniteSet(approved')
  BY <1>1, HoldingsFacts, FiniteAssumption, FS_Subset DEF TypeOK, RegistryTypeOK
<1>5. approved \in SUBSET approved'
  BY DEF NoRemoval, vars, registryVars
<1>6. /\ \A c \in Stables : h[c] \in Nat /\ h[c] = stableBal[c][k]
      /\ \A c \in Stables : new[c] \in Nat /\ new[c] = stableBal'[c][k]
  <2>1. \A c \in Stables : stableBal'[c][k] \in Nat
    BY <1>1 DEF TypeOK, Accounts
  <2>2. QED
    BY <1>1, <2>1, HoldingsFacts
<1>7. /\ reserveToken[k] = tokenBal[k][k]
      /\ realReserveUSD[k] = Total(h, approved)
      /\ \A c \in Stables \ approved : stableBal[c][k] = 0
  BY DEF BooksInCoins
<1>8. /\ realReserveUSD[k] \in Nat /\ realReserveUSD'[k] \in Nat
      /\ reserveToken[k] \in Nat /\ reserveToken'[k] \in Nat
      /\ tokenBal[k][k] \in Nat /\ tokenBal'[k][k] \in Nat
  BY <1>1 DEF TypeOK, PoolTypeOK, Accounts
<1> HIDE DEF h, new
<1>9. Total(h, approved) \in Nat /\ Total(new, approved) \in Nat
  BY <1>4, <1>6, TotalType
<1>10. ASSUME \A c \in Stables \ approved : stableBal'[c][k] = stableBal[c][k]
       PROVE  /\ Total(new, approved') = Total(new, approved)
              /\ \A c \in Stables \ approved' : stableBal'[c][k] = 0
  <2>1. \A c \in Stables \ approved : new[c] = 0 /\ stableBal'[c][k] = 0
    BY <1>6, <1>7, <1>10
  <2>2. \A c \in approved' \ approved : new[c] = 0
    BY <1>4, <2>1
  <2>3. QED
    BY <1>5, <2>1, <2>2, TotalZeros
<1>11. CASE BooksMoveTogether(k)
  <2>1. /\ Total(new, approved) + realReserveUSD[k] = Total(h, approved) + realReserveUSD'[k]
        /\ tokenBal'[k][k] + reserveToken[k] = tokenBal[k][k] + reserveToken'[k]
        /\ \A c \in Stables \ approved : stableBal'[c][k] = stableBal[c][k]
    BY <1>3, <1>11 DEF BooksMoveTogether, h
  <2>2. /\ Total(new, approved') = Total(new, approved)
        /\ \A c \in Stables \ approved' : stableBal'[c][k] = 0
    BY <1>10, <2>1
  <2>3. reserveToken'[k] = tokenBal'[k][k] /\ realReserveUSD'[k] = Total(new, approved)
    BY <1>7, <1>8, <1>9, <2>1
  <2>4. QED
    BY <1>3, <2>2, <2>3
<1>12. ASSUME \A c \in Stables : stableBal'[c][k] = stableBal[c][k]
       PROVE  /\ Total(new, approved') = Total(h, approved)
              /\ \A c \in Stables \ approved' : stableBal'[c][k] = 0
  <2>1. \A c \in approved : new[c] = h[c]
    BY <1>4, <1>6, <1>12
  <2>2. QED
    BY <1>10, <1>12, <2>1, TotalSame
<1>13. CASE \E m \in Markets : Sync(m)
  <2>1. PICK m \in Markets : Sync(m)
    BY <1>13
  <2>2. /\ UNCHANGED <<stableBal, tokenBal>>
        /\ reserveToken'[k] \in {tokenBal[k][k], reserveToken[k]}
        /\ realReserveUSD'[k] \in {Total(h, approved), realReserveUSD[k]}
    BY <1>1, <2>1, SyncWrites DEF h
  <2>3. QED
    BY <1>3, <1>7, <1>12, <2>2
<1>14. CASE /\ UNCHANGED <<tokenBal, reserveToken, realReserveUSD>>
            /\ \A c \in Stables : stableBal'[c][k] = stableBal[c][k]
  BY <1>3, <1>7, <1>12, <1>14
<1>15. CASE ~ NoHandTransfer
  <2>1. UNCHANGED vars
    BY <1>15
  <2>2. UNCHANGED <<stableBal, tokenBal, reserveToken, realReserveUSD>>
    BY <2>1 DEF vars, poolVars
  <2>3. QED
    BY <1>14, <2>2
<1>16. QED
  BY <1>1, <1>11, <1>13, <1>14, <1>15, StepCases

(* As long as nobody sends coins or tokens to a pool by hand and no coin   *)
(* is removed, the reserves are the balances (swap, sync).                 *)
THEOREM BooksStayExact == Spec /\ [][NoRemoval /\ NoHandTransfer]_vars => []BooksExact
<1>1. Init => BooksInCoins
  <2> SUFFICES ASSUME Init, NEW k \in Markets
               PROVE  /\ reserveToken[k] = tokenBal[k][k]
                      /\ realReserveUSD[k] = Total(Holdings(k), approved)
                      /\ \A c \in Stables \ approved : stableBal[c][k] = 0
    BY DEF BooksInCoins
  <2>1. TypeOK /\ ListMatchesFlags
    BY InitBacked DEF Backed
  <2>2. \A c \in approved : Holdings(k)[c] = 0
    BY <2>1, HoldingsFacts, InitHoldings
  <2>3. Total(Holdings(k), approved) = 0
    <3>1. Total(Holdings(k), approved) = Total(Holdings(k), {})
      BY <2>2, TotalZeros
    <3>2. QED
      BY <3>1, TotalEmpty
  <2>4. QED
    BY <2>3, InitHoldings
<1>2. Backed /\ BooksInCoins /\ [Next]_vars /\ [NoRemoval /\ NoHandTransfer]_vars
        => BooksInCoins'
  BY StepKeepsBooks
<1>3. Backed /\ BooksInCoins => BooksExact
  BY BooksInCoinsAreExact DEF Backed
<1>4. QED
  BY <1>1, <1>2, <1>3, AlwaysBacked, PTL DEF Spec
=============================================================================
