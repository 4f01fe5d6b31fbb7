-------------------------- MODULE MarketV1Theorems --------------------------
(***************************************************************************)
(* Proofs about the V1 money flow, for all users, markets, prices, amounts *)
(* and fee rates.                                                          *)
(***************************************************************************)
EXTENDS MarketV1, ArithmeticTheorems

LEMMA AccountsFinite == IsFiniteSet(Accounts)
<1>1. IsFiniteSet({FeeCollector})
  BY FS_Singleton
<1>2. IsFiniteSet(Users \cup Markets)
  BY AccountsAssumption, FS_Union
<1>3. QED
  BY <1>1, <1>2, FS_Union DEF Accounts

LEMMA AccountsDistinct ==
  /\ FeeCollector \in Accounts /\ Users \subseteq Accounts /\ Markets \subseteq Accounts
  /\ \A m \in Markets : m # FeeCollector
  /\ \A u \in Users : u # FeeCollector
  /\ \A u \in Users, m \in Markets : u # m
BY AccountsAssumption DEF Accounts

-----------------------------------------------------------------------------
(* Moving an amount that the sender has keeps every balance natural and    *)
(* the sum of the balances.                                                *)
LEMMA TransferFacts ==
  ASSUME NEW b \in [Accounts -> Nat], NEW from \in Accounts, NEW to \in Accounts,
         NEW amount \in Nat, amount <= b[from]
  PROVE  /\ Transfer(b, from, to, amount) \in [Accounts -> Nat]
         /\ Total(Transfer(b, from, to, amount), Accounts) = Total(b, Accounts)
         /\ \A a \in Accounts \ {from, to} : Transfer(b, from, to, amount)[a] = b[a]
         /\ from # to => /\ Transfer(b, from, to, amount)[from] = b[from] - amount
                         /\ Transfer(b, from, to, amount)[to] = b[to] + amount
<1> DEFINE c == [b EXCEPT ![from] = @ - amount]
           d == Transfer(b, from, to, amount)
<1>1. c \in [Accounts -> Nat] /\ c[from] = b[from] - amount
      /\ \A a \in Accounts \ {from} : c[a] = b[a]
  OBVIOUS
<1>2. d = [c EXCEPT ![to] = @ + amount]
  BY DEF Transfer
<1> HIDE DEF c, d
<1>3. d \in [Accounts -> Nat] /\ d[to] = c[to] + amount
      /\ \A a \in Accounts \ {to} : d[a] = c[a]
  BY <1>1, <1>2
<1>4. Total(c, Accounts) = Total(b, Accounts) - b[from] + c[from]
  BY <1>1, AccountsFinite, TotalUpdate
<1>5. Total(d, Accounts) = Total(c, Accounts) - c[to] + d[to]
  BY <1>1, <1>3, AccountsFinite, TotalUpdate
<1>6. Total(b, Accounts) \in Nat /\ Total(c, Accounts) \in Nat
  BY <1>1, AccountsFinite, TotalType
<1>7. Total(d, Accounts) = Total(b, Accounts)
  BY <1>1, <1>3, <1>4, <1>5, <1>6
<1>8. QED
  BY <1>1, <1>3, <1>7 DEF d

(* A balance that changes changes the sum by as much. *)
LEMMA BalanceChange ==
  ASSUME NEW b \in [Accounts -> Nat], NEW a \in Accounts, NEW v \in Nat
  PROVE  /\ [b EXCEPT ![a] = v] \in [Accounts -> Nat]
         /\ Total(b, Accounts) \in Nat
         /\ b[a] <= Total(b, Accounts)
         /\ Total([b EXCEPT ![a] = v], Accounts) = Total(b, Accounts) - b[a] + v
<1> DEFINE c == [b EXCEPT ![a] = v]
<1>1. c \in [Accounts -> Nat] /\ c[a] = v /\ \A x \in Accounts \ {a} : c[x] = b[x]
  OBVIOUS
<1> HIDE DEF c
<1>2. Total(c, Accounts) = Total(b, Accounts) - b[a] + c[a]
  BY <1>1, AccountsFinite, TotalUpdate
<1>3. /\ Total(b, Accounts \ {a}) \in Nat
      /\ Total(b, Accounts) = Total(b, Accounts \ {a}) + b[a]
  BY AccountsFinite, TotalRemoveElement
<1>4. QED
  BY <1>1, <1>2, <1>3 DEF c

-----------------------------------------------------------------------------
(* The arithmetic of a swap.                                               *)

LEMMA FeeFacts ==
  ASSUME NEW amountIn \in Nat, NEW feeBps \in FeeRates
  PROVE  FeeOf(amountIn, feeBps) \in Nat /\ FeeOf(amountIn, feeBps) <= amountIn
<1>1. feeBps \in 0..BASIS_POINTS
  BY PoolAssumption DEF BASIS_POINTS
<1>2. FeeOf(amountIn, feeBps) = FeeAmount(amountIn, feeBps)
  BY DEF FeeOf, FeeAmount, BASIS_POINTS
<1>3. QED
  BY <1>1, <1>2, FeeAmountFacts

LEMMA AmountOutFacts ==
  ASSUME NEW amountIn \in Nat, NEW reserveIn \in Nat, NEW reserveOut \in Nat,
         CanQuote(amountIn, reserveIn, reserveOut)
  PROVE  /\ AmountOut(amountIn, reserveIn, reserveOut) \in Nat
         /\ AmountOut(amountIn, reserveIn, reserveOut) <= reserveOut
         /\ (reserveIn + amountIn) * (reserveOut - AmountOut(amountIn, reserveIn, reserveOut))
              >= reserveIn * reserveOut
<1>1. AmountOut(amountIn, reserveIn, reserveOut) = GetAmountOut(amountIn, reserveIn, reserveOut)
  BY DEF AmountOut, GetAmountOut
<1>2. CanQuoteOut(amountIn, reserveIn, reserveOut)
  BY DEF CanQuote, CanQuoteOut
<1>3. QED
  BY <1>1, <1>2, GetAmountOutFacts

LEMMA ProductMonotone ==
  ASSUME NEW a \in Nat, NEW b \in Nat, NEW c \in Nat, a <= b
  PROVE  a * c <= b * c
<1>1. PICK e \in Nat : b = a + e
  <2>1. b - a \in Nat /\ b = a + (b - a)
    OBVIOUS
  <2>2. QED
    BY <2>1
<1>2. b * c = a * c + e * c /\ e * c \in Nat /\ a * c \in Nat
  BY <1>1
<1>3. QED
  BY <1>2

(* A purchase keeps the gap between the token reserve and the tokens held, *)
(* adds the whole input to the USID reserve and never lowers the product.  *)
LEMMA BuyFacts ==
  ASSUME PoolTypeOK, NEW m \in Markets, NEW to \in Users, NEW amountIn \in Nat,
         NEW amountOutMin, NEW feeBps \in FeeRates,
         CanBuy(m, amountIn, amountOutMin, feeBps),
         NEW e, e = BuyEffect(m, to, amountIn, feeBps)
  PROVE  /\ e \in Effects
         /\ e.fee = FeeOf(amountIn, feeBps) /\ e.earned = e.fee
         /\ e.fee <= amountIn
         /\ e.usd = reserveUSID[m] + amountIn
         /\ e.token - e.holders[m] = reserveToken[m] - tokenBal[m][m]
         /\ e.k = e.usd * e.token
         /\ e.usd * e.token >= reserveUSID[m] * reserveToken[m]
<1> DEFINE fee == FeeOf(amountIn, feeBps)
           out == BuyOut(m, amountIn, feeBps)
           usd == reserveUSID[m]
           token == reserveToken[m]
           held == tokenBal[m]
           holders == Transfer(held, m, to, out)
<1>1. usd \in Nat /\ token \in Nat /\ held \in [Accounts -> Nat]
  BY DEF PoolTypeOK
<1>2. fee \in Nat /\ fee <= amountIn /\ amountIn - fee \in Nat
  BY FeeFacts
<1>3. CanQuote(amountIn - fee, usd, token) /\ out <= held[m]
  BY DEF CanBuy
<1>4. out = AmountOut(amountIn - fee, usd, token)
  BY DEF BuyOut
<1>5. e = [usd |-> usd + amountIn, token |-> token - out,
           k |-> (usd + amountIn) * (token - out),
           earned |-> fee, fee |-> fee, holders |-> holders]
  BY DEF BuyEffect, UsdAfterBuy
<1> HIDE DEF fee, out, usd, token, held, holders
<1>6. /\ out \in Nat /\ out <= token
      /\ (usd + (amountIn - fee)) * (token - out) >= usd * token
  BY <1>1, <1>2, <1>3, <1>4, AmountOutFacts
<1>7. /\ holders \in [Accounts -> Nat]
      /\ holders[m] = held[m] - out
  <2>1. m \in Accounts /\ to \in Accounts /\ m # to
    BY AccountsDistinct
  <2>2. QED
    BY <1>1, <1>3, <1>6, <2>1, TransferFacts DEF holders
<1>8. token - out \in Nat /\ held[m] \in Nat
  BY <1>1, <1>6, AccountsDistinct
<1>9. (usd + amountIn) * (token - out) \in Nat
      /\ (usd + amountIn) * (token - out) >= (usd + (amountIn - fee)) * (token - out)
  BY <1>1, <1>2, <1>8, ProductMonotone
<1>10. (usd + amountIn) * (token - out) >= usd * token
  <2>1. usd * token \in Nat /\ (usd + (amountIn - fee)) * (token - out) \in Nat
    BY <1>1, <1>2, <1>8
  <2>2. QED
    BY <1>6, <1>9, <2>1
<1>11. e \in Effects
  BY <1>1, <1>2, <1>5, <1>7, <1>8, <1>9 DEF Effects
<1>12. (token - out) - (held[m] - out) = token - held[m]
  BY <1>1, <1>6, <1>8
<1>13. QED
  BY <1>1, <1>2, <1>5, <1>7, <1>10, <1>11, <1>12 DEF fee, usd, token, held

(* A sale takes its output and its fee off the USID reserve, adds at most  *)
(* the fee to the gap between the token reserve and the tokens held, and   *)
(* never lowers the product, before or after the fee is settled.           *)
LEMMA SellFacts ==
  ASSUME PoolTypeOK, NEW m \in Markets, NEW seller \in Users, NEW amountIn \in Nat,
         NEW amountOutMin, NEW feeBps \in FeeRates,
         CanSell(m, seller, amountIn, amountOutMin, feeBps),
         NEW e, e = SellEffect(m, seller, amountIn, feeBps)
  PROVE  /\ e \in Effects
         /\ SellOut(m, amountIn, feeBps) \in Nat
         /\ e.fee = UsidFee(m, amountIn, feeBps)
         /\ e.usd + SellOut(m, amountIn, feeBps) + e.fee = reserveUSID[m]
         /\ e.token - e.holders[m] = reserveToken[m] - tokenBal[m][m] + e.earned
         /\ e.k <= e.usd * e.token
         /\ e.usd * e.token >= reserveUSID[m] * reserveToken[m]
<1> DEFINE fee == FeeOf(amountIn, feeBps)
           out == SellOut(m, amountIn, feeBps)
           uf == UsidFee(m, amountIn, feeBps)
           usd == reserveUSID[m]
           token == reserveToken[m]
           held == tokenBal[m]
           holders == Transfer(held, seller, m, amountIn)
<1>1. usd \in Nat /\ token \in Nat /\ held \in [Accounts -> Nat]
  BY DEF PoolTypeOK
<1>2. fee \in Nat /\ fee <= amountIn /\ amountIn - fee \in Nat
  BY FeeFacts
<1>3. /\ CanQuote(amountIn - fee, token, usd)
      /\ fee > 0 => CanQuote(fee, token + amountIn, usd - out)
      /\ amountIn <= held[seller]
  BY DEF CanSell
<1>4. /\ out = AmountOut(amountIn - fee, token, usd)
      /\ uf = IF fee > 0 THEN AmountOut(fee, token + amountIn, usd - out) ELSE 0
  BY DEF SellOut, UsidFee
<1>5. e = [usd |-> (usd - out) - uf, token |-> token + amountIn + fee,
           k |-> (usd - out) * (token + amountIn),
           earned |-> fee, fee |-> uf, holders |-> holders]
  BY DEF SellEffect, TokenAfterSell
<1> HIDE DEF fee, out, uf, usd, token, held, holders
<1>6. /\ out \in Nat /\ out <= usd
      /\ (token + (amountIn - fee)) * (usd - out) >= token * usd
  BY <1>1, <1>2, <1>3, <1>4, AmountOutFacts
<1>7. usd - out \in Nat /\ token + amountIn \in Nat
  BY <1>1, <1>6
<1>8. /\ uf \in Nat /\ uf <= usd - out
      /\ (token + amountIn + fee) * ((usd - out) - uf) >= (token + amountIn) * (usd - out)
  <2>1. CASE fee > 0
    BY <1>2, <1>3, <1>4, <1>7, <2>1, AmountOutFacts
  <2>2. CASE fee = 0
    <3>1. uf = 0
      BY <1>4, <2>2
    <3>2. token + amountIn + fee = token + amountIn /\ (usd - out) - uf = usd - out
      BY <1>1, <1>7, <2>2, <3>1
    <3>3. (token + amountIn) * (usd - out) \in Nat
      BY <1>7
    <3>4. QED
      BY <1>7, <3>1, <3>2, <3>3
  <2>3. QED
    BY <1>2, <2>1, <2>2
<1>9. (usd - out) - uf \in Nat
  BY <1>7, <1>8
<1>10. (token + amountIn) * (usd - out) >= token * usd
  <2>1. (token + (amountIn - fee)) * (usd - out) <= (token + amountIn) * (usd - out)
    BY <1>1, <1>2, <1>7, ProductMonotone
  <2>2. /\ (token + (amountIn - fee)) * (usd - out) \in Nat
        /\ (token + amountIn) * (usd - out) \in Nat
        /\ token * usd \in Nat
    BY <1>1, <1>2, <1>7
  <2>3. QED
    BY <1>6, <2>1, <2>2
<1>11. /\ (token + amountIn) * (usd - out) = (usd - out) * (token + amountIn)
       /\ token * usd = usd * token
       /\ (token + amountIn + fee) * ((usd - out) - uf)
            = ((usd - out) - uf) * (token + amountIn + fee)
       /\ (usd - out) * (token + amountIn) \in Nat
       /\ usd * token \in Nat
       /\ ((usd - out) - uf) * (token + amountIn + fee) \in Nat
  BY <1>1, <1>2, <1>7, <1>9
<1>12. /\ holders \in [Accounts -> Nat]
       /\ holders[m] = held[m] + amountIn
       /\ held[m] \in Nat
  <2>1. m \in Accounts /\ seller \in Accounts /\ m # seller
    BY AccountsDistinct
  <2>2. QED
    BY <1>1, <1>3, <2>1, TransferFacts DEF holders
<1>13. e \in Effects
  BY <1>1, <1>2, <1>5, <1>8, <1>9, <1>11, <1>12 DEF Effects
<1>14. e.token - e.holders[m] = token - held[m] + e.earned
  BY <1>1, <1>2, <1>5, <1>12
<1>15. e.usd + out + e.fee = usd
  BY <1>1, <1>5, <1>6, <1>8
<1>16. e.k <= e.usd * e.token /\ e.usd * e.token >= usd * token
  <2>1. e.k = (usd - out) * (token + amountIn)
        /\ e.usd * e.token = ((usd - out) - uf) * (token + amountIn + fee)
    BY <1>5
  <2> DEFINE x == (usd - out) * (token + amountIn)
             y == ((usd - out) - uf) * (token + amountIn + fee)
             z == usd * token
  <2>2. x \in Nat /\ y \in Nat /\ z \in Nat /\ y >= x /\ x >= z
    BY <1>8, <1>10, <1>11
  <2>3. e.k = x /\ e.usd * e.token = y
    BY <2>1
  <2> HIDE DEF x, y
  <2>4. QED
    BY <2>2, <2>3
<1>17. e.fee = uf
  BY <1>5
<1>18. QED
  BY <1>6, <1>13, <1>14, <1>15, <1>16, <1>17 DEF out, uf, usd, token, held

-----------------------------------------------------------------------------
(* Trades.                                                                 *)

(* The inductive invariant: a withdrawal or a burn only keeps the supply   *)
(* natural because the supply is the sum of the balances; the other parts  *)
(* are inductive beside the types.                                         *)
Inv ==
  /\ TypeOK
  /\ SupplyExact
  /\ CollectorSolvent
  /\ GapWithinFees
  /\ KLastIsFloor

ProductsKept ==
  \A m \in created :
    tokenBal'[m] # tokenBal[m] =>
      reserveUSID'[m] * reserveToken'[m] >= reserveUSID[m] * reserveToken[m]

LEMMA OwedType ==
  ASSUME PoolTypeOK
  PROVE  /\ Owed \in [Markets -> Nat]
         /\ Total(Owed, Markets) \in Nat
<1>1. Owed \in [Markets -> Nat]
  BY DEF PoolTypeOK, Owed
<1>2. QED
  BY <1>1, AccountsAssumption, TotalType

LEMMA OwedTypeNext ==
  ASSUME PoolTypeOK'
  PROVE  /\ Owed' \in [Markets -> Nat]
         /\ Total(Owed', Markets) \in Nat
<1>1. Owed' \in [Markets -> Nat]
  BY DEF PoolTypeOK, Owed
<1>2. QED
  BY <1>1, AccountsAssumption, TotalType

(* What a set of swaps must do for the invariant.                          *)
LEMMA SwapsKeepInv ==
  ASSUME Inv, NEW S \in SUBSET Markets, NEW e \in [S -> Effects], Apply(e),
         balanceOf' \in [Accounts -> Nat],
         Total(balanceOf', Accounts) = Total(balanceOf, Accounts),
         Total(Owed', Markets) - Total(Owed, Markets)
           <= balanceOf'[FeeCollector] - balanceOf[FeeCollector],
         \A m \in Markets \ S : balanceOf'[m] = balanceOf[m],
         \A m \in S :
           /\ e[m].usd - balanceOf'[m] <= reserveUSID[m] - balanceOf[m] + e[m].earned
           /\ e[m].token - e[m].holders[m]
                <= reserveToken[m] - tokenBal[m][m] + e[m].earned
           /\ e[m].k <= e[m].usd * e[m].token
           /\ e[m].usd * e[m].token >= reserveUSID[m] * reserveToken[m],
         UNCHANGED <<totalSupply, paxBal, paxHeld, oracleVars, positionVars>>
  PROVE  Inv' /\ ProductsKept
<1>1. PoolTypeOK /\ USIDTypeOK
  BY DEF Inv, TypeOK
<1>2. \A m \in S : /\ e[m].usd \in Nat /\ e[m].token \in Nat /\ e[m].k \in Nat
                   /\ e[m].earned \in Nat /\ e[m].fee \in Nat
                   /\ e[m].holders \in [Accounts -> Nat]
  BY DEF Effects
<1>3. DOMAIN e = S
  OBVIOUS
<1>4. PoolTypeOK'
  BY <1>1, <1>2, <1>3 DEF PoolTypeOK, Apply
<1>5. TypeOK'
  BY <1>1, <1>4 DEF Inv, TypeOK, USIDTypeOK, oracleVars, positionVars
<1>6. SupplyExact'
  BY DEF Inv, SupplyExact
<1>7. CollectorSolvent'
  <2>1. Total(Owed, Markets) \in Nat /\ Total(Owed', Markets) \in Nat
    BY <1>1, <1>4, OwedType, OwedTypeNext
  <2>2. balanceOf[FeeCollector] \in Nat /\ balanceOf'[FeeCollector] \in Nat
    BY <1>1, AccountsDistinct DEF USIDTypeOK
  <2>3. QED
    BY <1>1, <2>1, <2>2 DEF Inv, CollectorSolvent, PoolTypeOK, Apply
<1>8. GapWithinFees'
  <2> SUFFICES ASSUME NEW m \in Markets
               PROVE  /\ reserveUSID'[m] <= balanceOf'[m] + cumulativeFees'[m]
                      /\ reserveToken'[m] <= tokenBal'[m][m] + cumulativeFees'[m]
    BY DEF GapWithinFees
  <2>1. /\ balanceOf[m] \in Nat /\ balanceOf'[m] \in Nat
        /\ tokenBal[m][m] \in Nat /\ cumulativeFees[m] \in Nat
        /\ reserveUSID[m] \in Nat /\ reserveToken[m] \in Nat
    BY <1>1, AccountsDistinct DEF USIDTypeOK, PoolTypeOK
  <2>2. /\ reserveUSID[m] <= balanceOf[m] + cumulativeFees[m]
        /\ reserveToken[m] <= tokenBal[m][m] + cumulativeFees[m]
    BY DEF Inv, GapWithinFees
  <2>3. CASE m \in S
    <3>1. /\ reserveUSID'[m] = e[m].usd /\ reserveToken'[m] = e[m].token
          /\ tokenBal'[m] = e[m].holders
          /\ cumulativeFees'[m] = cumulativeFees[m] + e[m].earned
      BY <1>3, <2>3 DEF Apply
    <3>2. e[m].holders[m] \in Nat
      BY <1>2, <2>3, AccountsDistinct
    <3>3. QED
      BY <1>2, <2>1, <2>2, <2>3, <3>1, <3>2
  <2>4. CASE m \notin S
    <3>1. /\ reserveUSID'[m] = reserveUSID[m] /\ reserveToken'[m] = reserveToken[m]
          /\ tokenBal'[m] = tokenBal[m]
          /\ cumulativeFees'[m] = cumulativeFees[m] + 0
      BY <1>3, <2>4 DEF Apply
    <3>2. QED
      BY <2>1, <2>2, <2>4, <3>1
  <2>5. QED
    BY <2>3, <2>4
<1>9. KLastIsFloor'
  <2> SUFFICES ASSUME NEW m \in Markets
               PROVE  kLast'[m] <= reserveUSID'[m] * reserveToken'[m]
    BY DEF KLastIsFloor
  <2>1. CASE m \in S
    BY <1>3, <2>1 DEF Apply
  <2>2. CASE m \notin S
    BY <1>3, <2>2 DEF Apply, Inv, KLastIsFloor
  <2>3. QED
    BY <2>1, <2>2
<1>10. ProductsKept
  <2> SUFFICES ASSUME NEW m \in created, tokenBal'[m] # tokenBal[m]
               PROVE  reserveUSID'[m] * reserveToken'[m]
                        >= reserveUSID[m] * reserveToken[m]
    BY DEF ProductsKept
  <2>1. m \in S
    BY <1>3 DEF Apply, Inv, TypeOK
  <2>2. QED
    BY <1>3, <2>1 DEF Apply
<1>11. QED
  BY <1>5, <1>6, <1>7, <1>8, <1>9, <1>10 DEF Inv

(* The fees of one and of two swaps are owed by the collector.             *)
LEMMA OwedAfterOne ==
  ASSUME PoolTypeOK, PoolTypeOK', NEW m \in Markets, NEW fee \in Nat,
         accumulatedFees'[m] = accumulatedFees[m] + fee,
         \A x \in Markets \ {m} : accumulatedFees'[x] = accumulatedFees[x],
         airdropPool' = airdropPool
  PROVE  Total(Owed', Markets) = Total(Owed, Markets) + fee
<1>1. Owed \in [Markets -> Nat] /\ Owed' \in [Markets -> Nat]
      /\ Total(Owed, Markets) \in Nat
  BY OwedType, OwedTypeNext
<1>2. Owed'[m] = Owed[m] + fee /\ \A x \in Markets \ {m} : Owed'[x] = Owed[x]
  BY DEF Owed, PoolTypeOK
<1> DEFINE f == Owed
           g == Owed'
<1> HIDE DEF f, g
<1>3. Total(g, Markets) = Total(f, Markets) - f[m] + g[m]
  BY <1>1, <1>2, AccountsAssumption, TotalUpdate DEF f, g
<1>4. QED
  BY <1>1, <1>2, <1>3 DEF f, g

LEMMA OwedAfterTwo ==
  ASSUME PoolTypeOK, PoolTypeOK', NEW m \in Markets, NEW n \in Markets, m # n,
         NEW fee \in Nat, NEW feeNext \in Nat,
         accumulatedFees'[m] = accumulatedFees[m] + fee,
         accumulatedFees'[n] = accumulatedFees[n] + feeNext,
         \A x \in Markets \ {m, n} : accumulatedFees'[x] = accumulatedFees[x],
         airdropPool' = airdropPool
  PROVE  Total(Owed', Markets) = Total(Owed, Markets) + fee + feeNext
<1>1. Owed \in [Markets -> Nat] /\ Owed' \in [Markets -> Nat]
      /\ Total(Owed, Markets) \in Nat
  BY OwedType, OwedTypeNext
<1>2. /\ Owed'[m] = Owed[m] + fee /\ Owed'[n] = Owed[n] + feeNext
      /\ \A x \in Markets \ {m, n} : Owed'[x] = Owed[x]
  BY DEF Owed, PoolTypeOK
<1> DEFINE f == Owed
           g == Owed'
           h == [f EXCEPT ![m] = g[m]]
<1>3. /\ h \in [Markets -> Nat] /\ h[m] = g[m]
      /\ \A x \in Markets \ {m} : h[x] = f[x]
      /\ \A x \in Markets \ {n} : g[x] = h[x]
  BY <1>1, <1>2
<1> HIDE DEF f, g, h
<1>4. Total(h, Markets) = Total(f, Markets) - f[m] + h[m]
  BY <1>1, <1>3, AccountsAssumption, TotalUpdate DEF f
<1>5. Total(g, Markets) = Total(h, Markets) - h[n] + g[n]
  BY <1>1, <1>3, AccountsAssumption, TotalUpdate DEF g
<1>6. f[m] \in Nat /\ f[n] \in Nat /\ h[n] = f[n]
      /\ h[m] = f[m] + fee /\ g[n] = f[n] + feeNext /\ Total(f, Markets) \in Nat
  BY <1>1, <1>2, <1>3 DEF f, g
<1>7. QED
  BY <1>4, <1>5, <1>6 DEF f, g

NothingElseMoves ==
  UNCHANGED <<totalSupply, paxBal, paxHeld, oracleVars, positionVars>>

LEMMA BuyKeepsInv ==
  ASSUME Inv, NEW m \in Markets, NEW payer \in Users, NEW to \in Users,
         NEW amountIn \in Nat, NEW amountOutMin, NEW feeBps \in FeeRates,
         Buy(m, payer, to, amountIn, amountOutMin, feeBps), NothingElseMoves
  PROVE  Inv' /\ ProductsKept
<1> DEFINE e == BuyEffect(m, to, amountIn, feeBps)
           fee == FeeOf(amountIn, feeBps)
           es == [x \in {m} |-> e]
           paid == Transfer(balanceOf, payer, m, amountIn)
<1>1. PoolTypeOK /\ balanceOf \in [Accounts -> Nat]
  BY DEF Inv, TypeOK, USIDTypeOK
<1>2. /\ amountIn <= balanceOf[payer]
      /\ CanBuy(m, amountIn, amountOutMin, feeBps)
      /\ Apply(es)
      /\ balanceOf' = Transfer(paid, m, FeeCollector, fee)
  BY DEF Buy
<1>3. /\ e \in Effects
      /\ e.fee = fee /\ e.earned = fee /\ fee \in Nat /\ fee <= amountIn
      /\ e.usd = reserveUSID[m] + amountIn
      /\ e.token - e.holders[m] = reserveToken[m] - tokenBal[m][m]
      /\ e.k = e.usd * e.token
      /\ e.usd * e.token >= reserveUSID[m] * reserveToken[m]
  BY <1>1, <1>2, BuyFacts, FeeFacts
<1>4. m \in Accounts /\ payer \in Accounts /\ FeeCollector \in Accounts
      /\ m # payer /\ m # FeeCollector /\ payer # FeeCollector
  BY AccountsDistinct
<1>5. es \in [{m} -> Effects] /\ es[m] = e
  BY <1>3
<1> HIDE DEF e, fee, es, paid
<1>6. /\ paid \in [Accounts -> Nat]
      /\ Total(paid, Accounts) = Total(balanceOf, Accounts)
      /\ \A a \in Accounts \ {payer, m} : paid[a] = balanceOf[a]
      /\ paid[m] = balanceOf[m] + amountIn
  BY <1>1, <1>2, <1>4, TransferFacts DEF paid
<1>7. balanceOf[m] \in Nat /\ balanceOf[FeeCollector] \in Nat
  BY <1>1, <1>4
<1>8. fee <= paid[m]
  BY <1>3, <1>6, <1>7
<1>9. /\ balanceOf' \in [Accounts -> Nat]
      /\ Total(balanceOf', Accounts) = Total(balanceOf, Accounts)
      /\ \A a \in Accounts \ {m, FeeCollector} : balanceOf'[a] = paid[a]
      /\ balanceOf'[m] = balanceOf[m] + amountIn - fee
      /\ balanceOf'[FeeCollector] = balanceOf[FeeCollector] + fee
  <2>1. /\ balanceOf' \in [Accounts -> Nat]
        /\ Total(balanceOf', Accounts) = Total(balanceOf, Accounts)
        /\ \A a \in Accounts \ {m, FeeCollector} : balanceOf'[a] = paid[a]
        /\ balanceOf'[m] = paid[m] - fee
        /\ balanceOf'[FeeCollector] = paid[FeeCollector] + fee
    BY <1>2, <1>3, <1>4, <1>6, <1>8, TransferFacts
  <2>2. paid[FeeCollector] = balanceOf[FeeCollector]
    BY <1>4, <1>6
  <2>3. paid[m] = balanceOf[m] + amountIn
    BY <1>6
  <2>4. balanceOf'[m] = balanceOf[m] + amountIn - fee
    <3>1. balanceOf'[m] = paid[m] - fee
      BY <2>1
    <3>2. fee \in Nat /\ balanceOf[m] \in Nat
      BY <1>3, <1>7
    <3>3. QED
      BY <2>3, <3>1, <3>2
  <2>5. QED
    BY <1>6, <2>1, <2>2, <2>4
<1>10. \A x \in Markets \ {m} : balanceOf'[x] = balanceOf[x]
  BY <1>6, <1>9, AccountsDistinct
<1>11. Total(Owed', Markets) - Total(Owed, Markets)
         <= balanceOf'[FeeCollector] - balanceOf[FeeCollector]
  <2>1. DOMAIN es = {m}
    BY DEF es
  <2>2. /\ accumulatedFees'[m] = accumulatedFees[m] + fee
        /\ \A x \in Markets \ {m} : accumulatedFees'[x] = accumulatedFees[x] + 0
        /\ airdropPool' = airdropPool
    BY <1>2, <1>3, <1>5, <2>1 DEF Apply
  <2>3. \A x \in Markets \ {m} : accumulatedFees'[x] = accumulatedFees[x]
    BY <1>1, <2>2 DEF PoolTypeOK
  <2>4. PoolTypeOK'
    BY <1>1, <1>2, <1>5, <2>1 DEF PoolTypeOK, Apply, Effects
  <2>5. Total(Owed', Markets) = Total(Owed, Markets) + fee
    BY <1>1, <1>3, <2>2, <2>3, <2>4, OwedAfterOne
  <2>6. Total(Owed, Markets) \in Nat
    BY <1>1, OwedType
  <2>7. QED
    BY <1>3, <1>7, <1>9, <2>5, <2>6
<1>12. /\ e.usd - balanceOf'[m] <= reserveUSID[m] - balanceOf[m] + e.earned
       /\ e.token - e.holders[m] <= reserveToken[m] - tokenBal[m][m] + e.earned
       /\ e.k <= e.usd * e.token
  <2>1. reserveUSID[m] \in Nat /\ reserveToken[m] \in Nat /\ tokenBal[m][m] \in Nat
    BY <1>1, <1>4 DEF PoolTypeOK
  <2>2. e.k \in Nat
    BY <1>3 DEF Effects
  <2>3. e.k <= e.usd * e.token
    BY <1>3, <2>2
  <2>4. e.usd - balanceOf'[m] <= reserveUSID[m] - balanceOf[m] + e.earned
    BY <1>3, <1>7, <1>9, <2>1
  <2>5. e.token - e.holders[m] <= reserveToken[m] - tokenBal[m][m] + e.earned
    BY <1>3, <2>1
  <2>6. QED
    BY <2>3, <2>4, <2>5
<1>13. \A x \in {m} : x = m
  OBVIOUS
<1>14. {m} \in SUBSET Markets
  OBVIOUS
<1>15. QED
  BY <1>2, <1>3, <1>5, <1>9, <1>10, <1>11, <1>12, <1>13, <1>14, SwapsKeepInv
     DEF NothingElseMoves

LEMMA SellKeepsInv ==
  ASSUME Inv, NEW m \in Markets, NEW seller \in Users, NEW to \in Users,
         NEW amountIn \in Nat, NEW amountOutMin, NEW feeBps \in FeeRates,
         Sell(m, seller, to, amountIn, amountOutMin, feeBps), NothingElseMoves
  PROVE  Inv' /\ ProductsKept
<1> DEFINE e == SellEffect(m, seller, amountIn, feeBps)
           fee == UsidFee(m, amountIn, feeBps)
           out == SellOut(m, amountIn, feeBps)
           es == [x \in {m} |-> e]
           taxed == Transfer(balanceOf, m, FeeCollector, fee)
<1>1. PoolTypeOK /\ balanceOf \in [Accounts -> Nat]
  BY DEF Inv, TypeOK, USIDTypeOK
<1>2. /\ CanSell(m, seller, amountIn, amountOutMin, feeBps)
      /\ out + fee <= balanceOf[m]
      /\ Apply(es)
      /\ balanceOf' = Transfer(taxed, m, to, out)
  BY DEF Sell, CanSell
<1>3. /\ e \in Effects
      /\ e.fee = fee /\ out \in Nat
      /\ e.usd + out + e.fee = reserveUSID[m]
      /\ e.token - e.holders[m] = reserveToken[m] - tokenBal[m][m] + e.earned
      /\ e.k <= e.usd * e.token
      /\ e.usd * e.token >= reserveUSID[m] * reserveToken[m]
  BY <1>1, <1>2, SellFacts
<1>4. m \in Accounts /\ to \in Accounts /\ FeeCollector \in Accounts
      /\ m # to /\ m # FeeCollector /\ to # FeeCollector
  BY AccountsDistinct
<1>5. es \in [{m} -> Effects] /\ es[m] = e
  BY <1>3
<1> HIDE DEF e, fee, out, es, taxed
<1>6. fee \in Nat /\ e.usd \in Nat /\ e.earned \in Nat /\ e.token \in Nat
      /\ e.holders[m] \in Nat
  BY <1>3, <1>4 DEF Effects
<1>7. balanceOf[m] \in Nat /\ balanceOf[FeeCollector] \in Nat
  BY <1>1, <1>4
<1>8. /\ taxed \in [Accounts -> Nat]
      /\ Total(taxed, Accounts) = Total(balanceOf, Accounts)
      /\ \A a \in Accounts \ {m, FeeCollector} : taxed[a] = balanceOf[a]
      /\ taxed[m] = balanceOf[m] - fee
      /\ taxed[FeeCollector] = balanceOf[FeeCollector] + fee
  <2>1. fee <= balanceOf[m]
    BY <1>2, <1>3, <1>6, <1>7
  <2>2. QED
    BY <1>1, <1>4, <1>6, <2>1, TransferFacts DEF taxed
<1>9. /\ balanceOf' \in [Accounts -> Nat]
      /\ Total(balanceOf', Accounts) = Total(balanceOf, Accounts)
      /\ \A a \in Accounts \ {m, to} : balanceOf'[a] = taxed[a]
      /\ balanceOf'[m] = balanceOf[m] - fee - out
  <2>1. out <= taxed[m]
    BY <1>2, <1>3, <1>6, <1>7, <1>8
  <2>2. QED
    BY <1>2, <1>3, <1>4, <1>8, <2>1, TransferFacts
<1>10. /\ \A x \in Markets \ {m} : balanceOf'[x] = balanceOf[x]
       /\ balanceOf'[FeeCollector] = balanceOf[FeeCollector] + fee
  BY <1>4, <1>8, <1>9, AccountsDistinct
<1>11. Total(Owed', Markets) - Total(Owed, Markets)
         <= balanceOf'[FeeCollector] - balanceOf[FeeCollector]
  <2>1. DOMAIN es = {m}
    BY DEF es
  <2>2. /\ accumulatedFees'[m] = accumulatedFees[m] + fee
        /\ \A x \in Markets \ {m} : accumulatedFees'[x] = accumulatedFees[x] + 0
        /\ airdropPool' = airdropPool
    BY <1>2, <1>3, <1>5, <2>1 DEF Apply
  <2>3. \A x \in Markets \ {m} : accumulatedFees'[x] = accumulatedFees[x]
    BY <1>1, <2>2 DEF PoolTypeOK
  <2>4. PoolTypeOK'
    BY <1>1, <1>2, <1>5, <2>1 DEF PoolTypeOK, Apply, Effects
  <2>5. Total(Owed', Markets) = Total(Owed, Markets) + fee
    BY <1>1, <1>6, <2>2, <2>3, <2>4, OwedAfterOne
  <2>6. Total(Owed, Markets) \in Nat
    BY <1>1, OwedType
  <2>7. QED
    BY <1>6, <1>7, <1>10, <2>5, <2>6
<1>12. /\ e.usd - balanceOf'[m] <= reserveUSID[m] - balanceOf[m] + e.earned
       /\ e.token - e.holders[m] <= reserveToken[m] - tokenBal[m][m] + e.earned
  <2>1. reserveUSID[m] \in Nat /\ reserveToken[m] \in Nat /\ tokenBal[m][m] \in Nat
    BY <1>1, <1>4 DEF PoolTypeOK
  <2>2. e.usd - balanceOf'[m] <= reserveUSID[m] - balanceOf[m] + e.earned
    BY <1>3, <1>6, <1>7, <1>9, <2>1
  <2>3. e.token - e.holders[m] <= reserveToken[m] - tokenBal[m][m] + e.earned
    BY <1>3, <1>6, <2>1
  <2>4. QED
    BY <2>2, <2>3
<1>13. \A x \in {m} : x = m
  OBVIOUS
<1>14. {m} \in SUBSET Markets
  OBVIOUS
<1>15. QED
  BY <1>2, <1>3, <1>5, <1>9, <1>10, <1>11, <1>12, <1>13, <1>14, SwapsKeepInv
     DEF NothingElseMoves

LEMMA MultiHopKeepsInv ==
  ASSUME Inv, NEW m \in Markets, NEW n \in Markets, NEW seller \in Users,
         NEW to \in Users, NEW amountIn \in Nat, NEW amountOutMin,
         NEW feeBps \in FeeRates, NEW feeBpsNext \in FeeRates,
         MultiHop(m, n, seller, to, amountIn, amountOutMin, feeBps, feeBpsNext),
         NothingElseMoves
  PROVE  Inv' /\ ProductsKept
<1> DEFINE usid == SellOut(m, amountIn, feeBps)
           sale == SellEffect(m, seller, amountIn, feeBps)
           fee == UsidFee(m, amountIn, feeBps)
           purchase == BuyEffect(n, to, usid, feeBpsNext)
           feeNext == FeeOf(usid, feeBpsNext)
           es == [x \in {m, n} |-> IF x = m THEN sale ELSE purchase]
           b1 == Transfer(balanceOf, m, FeeCollector, fee)
           b2 == Transfer(b1, m, n, usid)
<1>1. PoolTypeOK /\ balanceOf \in [Accounts -> Nat]
  BY DEF Inv, TypeOK, USIDTypeOK
<1>2. /\ m # n
      /\ CanSell(m, seller, amountIn, 0, feeBps)
      /\ CanBuy(n, usid, amountOutMin, feeBpsNext)
      /\ usid + fee <= balanceOf[m]
      /\ Apply(es)
      /\ balanceOf' = Transfer(Transfer(Transfer(balanceOf, m, FeeCollector, sale.fee),
                                        m, n, usid),
                               n, FeeCollector, purchase.fee)
  BY DEF MultiHop, CanSell
<1>3. /\ sale \in Effects
      /\ sale.fee = fee /\ usid \in Nat
      /\ sale.usd + usid + sale.fee = reserveUSID[m]
      /\ sale.token - sale.holders[m] = reserveToken[m] - tokenBal[m][m] + sale.earned
      /\ sale.k <= sale.usd * sale.token
      /\ sale.usd * sale.token >= reserveUSID[m] * reserveToken[m]
  BY <1>1, <1>2, SellFacts
<1>4. /\ purchase \in Effects
      /\ purchase.fee = feeNext /\ purchase.earned = feeNext
      /\ feeNext \in Nat /\ feeNext <= usid
      /\ purchase.usd = reserveUSID[n] + usid
      /\ purchase.token - purchase.holders[n] = reserveToken[n] - tokenBal[n][n]
      /\ purchase.k = purchase.usd * purchase.token
      /\ purchase.usd * purchase.token >= reserveUSID[n] * reserveToken[n]
  BY <1>1, <1>2, <1>3, BuyFacts, FeeFacts
<1>5. m \in Accounts /\ n \in Accounts /\ FeeCollector \in Accounts
      /\ m # FeeCollector /\ n # FeeCollector
  BY AccountsDistinct
<1>6. es \in [{m, n} -> Effects] /\ es[m] = sale /\ es[n] = purchase
      /\ DOMAIN es = {m, n}
  BY <1>2, <1>3, <1>4
<1>7. balanceOf' = Transfer(b2, n, FeeCollector, feeNext)
  BY <1>2, <1>3, <1>4
<1> HIDE DEF usid, sale, fee, purchase, feeNext, es, b1, b2
<1>8. /\ fee \in Nat /\ sale.usd \in Nat /\ sale.earned \in Nat /\ sale.token \in Nat
      /\ sale.holders[m] \in Nat
      /\ purchase.usd \in Nat /\ purchase.token \in Nat /\ purchase.k \in Nat
      /\ purchase.holders[n] \in Nat
  BY <1>3, <1>4, <1>5 DEF Effects
<1>9. /\ balanceOf[m] \in Nat /\ balanceOf[n] \in Nat
      /\ balanceOf[FeeCollector] \in Nat
  BY <1>1, <1>5
<1>10. /\ b1 \in [Accounts -> Nat]
       /\ Total(b1, Accounts) = Total(balanceOf, Accounts)
       /\ \A a \in Accounts \ {m, FeeCollector} : b1[a] = balanceOf[a]
       /\ b1[m] = balanceOf[m] - fee
       /\ b1[FeeCollector] = balanceOf[FeeCollector] + fee
  <2>1. fee <= balanceOf[m]
    BY <1>2, <1>3, <1>8, <1>9
  <2>2. QED
    BY <1>1, <1>5, <1>8, <2>1, TransferFacts DEF b1
<1>11. /\ b2 \in [Accounts -> Nat]
       /\ Total(b2, Accounts) = Total(balanceOf, Accounts)
       /\ \A a \in Accounts \ {m, n} : b2[a] = b1[a]
       /\ b2[m] = balanceOf[m] - fee - usid
       /\ b2[n] = balanceOf[n] + usid
  <2>1. usid <= b1[m]
    BY <1>2, <1>3, <1>8, <1>9, <1>10
  <2>2. b1[n] = balanceOf[n]
    BY <1>2, <1>5, <1>10
  <2>3. /\ b2 \in [Accounts -> Nat]
        /\ Total(b2, Accounts) = Total(b1, Accounts)
        /\ \A a \in Accounts \ {m, n} : b2[a] = b1[a]
        /\ b2[m] = b1[m] - usid
        /\ b2[n] = b1[n] + usid
    BY <1>2, <1>3, <1>5, <1>10, <2>1, TransferFacts DEF b2
  <2>4. QED
    BY <1>10, <2>2, <2>3
<1>12. /\ balanceOf' \in [Accounts -> Nat]
       /\ Total(balanceOf', Accounts) = Total(balanceOf, Accounts)
       /\ \A a \in Accounts \ {n, FeeCollector} : balanceOf'[a] = b2[a]
       /\ balanceOf'[n] = balanceOf[n] + usid - feeNext
       /\ balanceOf'[FeeCollector] = b2[FeeCollector] + feeNext
  <2>1. feeNext <= b2[n]
    BY <1>3, <1>4, <1>9, <1>11
  <2>2. /\ balanceOf' \in [Accounts -> Nat]
        /\ Total(balanceOf', Accounts) = Total(b2, Accounts)
        /\ \A a \in Accounts \ {n, FeeCollector} : balanceOf'[a] = b2[a]
        /\ balanceOf'[n] = b2[n] - feeNext
        /\ balanceOf'[FeeCollector] = b2[FeeCollector] + feeNext
    BY <1>4, <1>5, <1>7, <1>11, <2>1, TransferFacts
  <2>3. balanceOf'[n] = balanceOf[n] + usid - feeNext
    <3>1. balanceOf'[n] = b2[n] - feeNext /\ b2[n] = balanceOf[n] + usid
      BY <1>11, <2>2
    <3>2. usid \in Nat /\ feeNext \in Nat /\ balanceOf[n] \in Nat
      BY <1>3, <1>4, <1>9
    <3>3. QED
      BY <3>1, <3>2
  <2>4. QED
    BY <1>11, <2>2, <2>3
<1>13. /\ \A x \in Markets \ {m, n} : balanceOf'[x] = balanceOf[x]
       /\ balanceOf'[m] = balanceOf[m] - fee - usid
       /\ balanceOf'[FeeCollector] = balanceOf[FeeCollector] + fee + feeNext
  BY <1>2, <1>5, <1>10, <1>11, <1>12, AccountsDistinct
<1>14. Total(Owed', Markets) - Total(Owed, Markets)
         <= balanceOf'[FeeCollector] - balanceOf[FeeCollector]
  <2>1. /\ accumulatedFees'[m] = accumulatedFees[m] + fee
        /\ accumulatedFees'[n] = accumulatedFees[n] + feeNext
        /\ \A x \in Markets \ {m, n} : accumulatedFees'[x] = accumulatedFees[x] + 0
        /\ airdropPool' = airdropPool
    BY <1>2, <1>3, <1>4, <1>6 DEF Apply
  <2>2. \A x \in Markets \ {m, n} : accumulatedFees'[x] = accumulatedFees[x]
    BY <1>1, <2>1 DEF PoolTypeOK
  <2>3. PoolTypeOK'
    BY <1>1, <1>2, <1>6 DEF PoolTypeOK, Apply, Effects
  <2>4. Total(Owed', Markets) = Total(Owed, Markets) + fee + feeNext
    BY <1>1, <1>2, <1>4, <1>8, <2>1, <2>2, <2>3, OwedAfterTwo
  <2>5. Total(Owed, Markets) \in Nat
    BY <1>1, OwedType
  <2>6. QED
    BY <1>4, <1>8, <1>9, <1>13, <2>4, <2>5
<1>15. \A x \in {m, n} :
         /\ es[x].usd - balanceOf'[x] <= reserveUSID[x] - balanceOf[x] + es[x].earned
         /\ es[x].token - es[x].holders[x]
              <= reserveToken[x] - tokenBal[x][x] + es[x].earned
         /\ es[x].k <= es[x].usd * es[x].token
         /\ es[x].usd * es[x].token >= reserveUSID[x] * reserveToken[x]
  <2>1. /\ reserveUSID[m] \in Nat /\ reserveToken[m] \in Nat /\ tokenBal[m][m] \in Nat
        /\ reserveUSID[n] \in Nat /\ reserveToken[n] \in Nat /\ tokenBal[n][n] \in Nat
    BY <1>1, <1>5 DEF PoolTypeOK
  <2>2. /\ sale.usd - balanceOf'[m] <= reserveUSID[m] - balanceOf[m] + sale.earned
        /\ sale.token - sale.holders[m] <= reserveToken[m] - tokenBal[m][m] + sale.earned
    BY <1>3, <1>8, <1>9, <1>13, <2>1
  <2>3. purchase.usd - balanceOf'[n] <= reserveUSID[n] - balanceOf[n] + purchase.earned
    BY <1>3, <1>4, <1>8, <1>9, <1>12, <2>1
  <2>4. purchase.token - purchase.holders[n]
          <= reserveToken[n] - tokenBal[n][n] + purchase.earned
    BY <1>4, <1>8, <2>1
  <2>5. purchase.k <= purchase.usd * purchase.token
    BY <1>4, <1>8
  <2>6. QED
    BY <1>3, <1>4, <1>6, <2>2, <2>3, <2>4, <2>5
<1>16. {m, n} \in SUBSET Markets
  OBVIOUS
<1>17. QED
  BY <1>2, <1>6, <1>12, <1>13, <1>14, <1>15, <1>16, SwapsKeepInv DEF NothingElseMoves

LEMMA TradeKeepsInv == Inv /\ Trade => Inv' /\ ProductsKept
<1> SUFFICES ASSUME Inv, NEW m \in created, NEW u \in Users, NEW to \in Users,
                    NEW amount \in TradeAmounts, NEW feeBps \in FeeRates,
                    \/ Buy(m, u, to, amount, 0, feeBps)
                    \/ Sell(m, u, to, amount, 0, feeBps)
                    \/ \E n \in created, next \in FeeRates :
                         MultiHop(m, n, u, to, amount, 0, feeBps, next),
                    NothingElseMoves
             PROVE  Inv' /\ ProductsKept
  BY DEF Trade, NothingElseMoves
<1>1. created \subseteq Markets /\ amount \in Nat
  BY AmountsAssumption DEF Inv, TypeOK
<1>2. CASE Buy(m, u, to, amount, 0, feeBps)
  BY <1>1, <1>2, BuyKeepsInv
<1>3. CASE Sell(m, u, to, amount, 0, feeBps)
  BY <1>1, <1>3, SellKeepsInv
<1>4. CASE \E n \in created, next \in FeeRates :
             MultiHop(m, n, u, to, amount, 0, feeBps, next)
  BY <1>1, <1>4, MultiHopKeepsInv
<1>5. QED
  BY <1>2, <1>3, <1>4

-----------------------------------------------------------------------------
(* Steps of the stablecoin and of the oracle, and transfers by hand.       *)

(* A step that only moves USID and takes none from a pool or the collector *)
(* keeps the invariant if it keeps the supply exact.                       *)
LEMMA LedgerKeepsInv ==
  ASSUME Inv, USIDTypeOK', SupplyExact', UNCHANGED <<poolVars, positionVars>>,
         balanceOf'[FeeCollector] >= balanceOf[FeeCollector],
         \A m \in Markets : balanceOf'[m] >= balanceOf[m]
  PROVE  Inv' /\ ProductsKept
<1>1. PoolTypeOK /\ USIDTypeOK
  BY DEF Inv, TypeOK
<1>2. TypeOK'
  BY DEF Inv, TypeOK, PoolTypeOK, poolVars, reserveVars, collectorVars, positionVars
<1>3. CollectorSolvent'
  <2>1. Owed' = Owed
    BY DEF Owed, poolVars, collectorVars
  <2>2. Total(Owed, Markets) \in Nat
    BY <1>1, OwedType
  <2>3. balanceOf[FeeCollector] \in Nat /\ balanceOf'[FeeCollector] \in Nat
    BY <1>1, AccountsDistinct DEF USIDTypeOK
  <2>4. QED
    BY <1>1, <2>1, <2>2, <2>3
       DEF Inv, CollectorSolvent, PoolTypeOK, poolVars, collectorVars
<1>4. GapWithinFees'
  <2> SUFFICES ASSUME NEW m \in Markets
               PROVE  /\ reserveUSID'[m] <= balanceOf'[m] + cumulativeFees'[m]
                      /\ reserveToken'[m] <= tokenBal'[m][m] + cumulativeFees'[m]
    BY DEF GapWithinFees
  <2>1. /\ balanceOf[m] \in Nat /\ balanceOf'[m] \in Nat
        /\ cumulativeFees[m] \in Nat /\ reserveUSID[m] \in Nat
    BY <1>1, AccountsDistinct DEF USIDTypeOK, PoolTypeOK
  <2>2. reserveUSID[m] <= balanceOf[m] + cumulativeFees[m]
    BY DEF Inv, GapWithinFees
  <2>3. reserveUSID[m] <= balanceOf'[m] + cumulativeFees[m]
    BY <2>1, <2>2
  <2>4. QED
    BY <2>3 DEF Inv, GapWithinFees, poolVars, reserveVars
<1>5. KLastIsFloor'
  BY DEF Inv, KLastIsFloor, poolVars, reserveVars
<1>6. ProductsKept
  BY DEF ProductsKept, poolVars
<1>7. QED
  BY <1>2, <1>3, <1>4, <1>5, <1>6 DEF Inv

LEMMA ConversionFacts ==
  ASSUME USIDTypeOK, NEW amount \in Nat
  PROVE  USIDForPAX(amount) \in Nat /\ PAXForUSID(amount) \in Nat
<1>1. PRICE_UNIT \in Nat \ {0} /\ PaxPriceInUSD \in Nat \ {0}
  BY PriceAssumption DEF USIDTypeOK, PaxPriceInUSD
<1>2. amount * PaxPriceInUSD \in Nat /\ amount * PRICE_UNIT \in Nat
  BY <1>1
<1>3. QED
  BY <1>1, <1>2, DivRoundsDown DEF USIDForPAX, PAXForUSID

LEMMA DepositKeepsInv ==
  ASSUME Inv, NEW u \in Users, NEW amount \in Nat, Deposit(u, amount),
         UNCHANGED <<poolVars, positionVars>>
  PROVE  Inv' /\ ProductsKept
<1> DEFINE usid == USIDForPAX(amount)
           v == balanceOf[u] + usid
<1>1. USIDTypeOK /\ usid \in Nat /\ balanceOf \in [Accounts -> Nat]
  BY ConversionFacts DEF Inv, TypeOK, USIDTypeOK
<1>2. /\ amount <= paxBal[u]
      /\ paxBal' = [paxBal EXCEPT ![u] = @ - amount]
      /\ paxHeld' = paxHeld + amount
      /\ totalSupply' = totalSupply + usid
      /\ balanceOf' = [balanceOf EXCEPT ![u] = v]
      /\ UNCHANGED oracleVars
  BY DEF Deposit
<1>3. u \in Accounts /\ balanceOf[u] \in Nat /\ v \in Nat
  BY <1>1, AccountsDistinct DEF USIDTypeOK
<1> HIDE DEF usid, v
<1>4. /\ balanceOf' \in [Accounts -> Nat]
      /\ Total(balanceOf', Accounts) = Total(balanceOf, Accounts) - balanceOf[u] + v
      /\ Total(balanceOf, Accounts) \in Nat
  BY <1>1, <1>2, <1>3, BalanceChange
<1>5. USIDTypeOK'
  BY <1>1, <1>2, <1>4 DEF USIDTypeOK, oracleVars
<1>6. SupplyExact'
  BY <1>1, <1>2, <1>3, <1>4 DEF Inv, SupplyExact, v
<1>7. \A a \in Accounts \ {u} : balanceOf'[a] = balanceOf[a] /\ balanceOf[a] \in Nat
  BY <1>1, <1>2 DEF USIDTypeOK
<1>8. /\ balanceOf'[FeeCollector] >= balanceOf[FeeCollector]
      /\ \A m \in Markets : balanceOf'[m] >= balanceOf[m]
  BY <1>7, AccountsDistinct
<1>9. QED
  BY <1>5, <1>6, <1>8, LedgerKeepsInv

LEMMA WithdrawKeepsInv ==
  ASSUME Inv, NEW u \in Users, NEW amount \in Nat, Withdraw(u, amount),
         UNCHANGED <<poolVars, positionVars>>
  PROVE  Inv' /\ ProductsKept
<1> DEFINE pax == PAXForUSID(amount)
           v == balanceOf[u] - amount
<1>1. USIDTypeOK /\ pax \in Nat /\ balanceOf \in [Accounts -> Nat]
  BY ConversionFacts DEF Inv, TypeOK, USIDTypeOK
<1>2. /\ amount <= balanceOf[u] /\ pax <= paxHeld
      /\ balanceOf' = [balanceOf EXCEPT ![u] = v]
      /\ totalSupply' = totalSupply - amount
      /\ paxHeld' = paxHeld - pax
      /\ paxBal' = [paxBal EXCEPT ![u] = @ + pax]
      /\ UNCHANGED oracleVars
  BY DEF Withdraw
<1>3. u \in Accounts /\ balanceOf[u] \in Nat /\ v \in Nat
  BY <1>1, <1>2, AccountsDistinct DEF USIDTypeOK
<1> HIDE DEF pax, v
<1>4. /\ balanceOf' \in [Accounts -> Nat]
      /\ Total(balanceOf', Accounts) = Total(balanceOf, Accounts) - balanceOf[u] + v
      /\ Total(balanceOf, Accounts) \in Nat
      /\ balanceOf[u] <= Total(balanceOf, Accounts)
  BY <1>1, <1>2, <1>3, BalanceChange
<1>5. totalSupply' = Total(balanceOf', Accounts) /\ totalSupply' \in Nat
  BY <1>1, <1>2, <1>3, <1>4 DEF Inv, SupplyExact, v
<1>6. USIDTypeOK'
  BY <1>1, <1>2, <1>4, <1>5 DEF USIDTypeOK, oracleVars
<1>7. SupplyExact'
  BY <1>5 DEF SupplyExact
<1>8. \A a \in Accounts \ {u} : balanceOf'[a] = balanceOf[a] /\ balanceOf[a] \in Nat
  BY <1>1, <1>2 DEF USIDTypeOK
<1>9. /\ balanceOf'[FeeCollector] >= balanceOf[FeeCollector]
      /\ \A m \in Markets : balanceOf'[m] >= balanceOf[m]
  BY <1>8, AccountsDistinct
<1>10. QED
  BY <1>6, <1>7, <1>9, LedgerKeepsInv

LEMMA ExchangeKeepsInv == Inv /\ Exchange => Inv' /\ ProductsKept
<1>1. DepositAmounts \subseteq Nat /\ WithdrawAmounts \subseteq Nat
  BY AmountsAssumption
<1>2. QED
  BY <1>1, DepositKeepsInv, WithdrawKeepsInv DEF Exchange

LEMMA BurnKeepsInv ==
  ASSUME Inv, NEW u \in Users, NEW amount \in Nat, Burn(u, amount),
         UNCHANGED <<paxBal, paxHeld, oracleVars, poolVars, positionVars>>
  PROVE  Inv' /\ ProductsKept
<1> DEFINE v == balanceOf[u] - amount
<1>1. USIDTypeOK /\ balanceOf \in [Accounts -> Nat]
  BY DEF Inv, TypeOK, USIDTypeOK
<1>2. /\ amount <= balanceOf[u]
      /\ balanceOf' = [balanceOf EXCEPT ![u] = v]
      /\ totalSupply' = totalSupply - amount
  BY DEF Burn
<1>3. u \in Accounts /\ balanceOf[u] \in Nat /\ v \in Nat
  BY <1>1, <1>2, AccountsDistinct
<1> HIDE DEF v
<1>4. /\ balanceOf' \in [Accounts -> Nat]
      /\ Total(balanceOf', Accounts) = Total(balanceOf, Accounts) - balanceOf[u] + v
      /\ Total(balanceOf, Accounts) \in Nat
      /\ balanceOf[u] <= Total(balanceOf, Accounts)
  BY <1>1, <1>2, <1>3, BalanceChange
<1>5. totalSupply' = Total(balanceOf', Accounts) /\ totalSupply' \in Nat
  BY <1>1, <1>2, <1>3, <1>4 DEF Inv, SupplyExact, v
<1>6. USIDTypeOK' /\ SupplyExact'
  BY <1>1, <1>4, <1>5 DEF USIDTypeOK, SupplyExact, oracleVars
<1>7. \A a \in Accounts \ {u} : balanceOf'[a] = balanceOf[a] /\ balanceOf[a] \in Nat
  BY <1>1, <1>2
<1>8. /\ balanceOf'[FeeCollector] >= balanceOf[FeeCollector]
      /\ \A m \in Markets : balanceOf'[m] >= balanceOf[m]
  BY <1>7, AccountsDistinct
<1>9. QED
  BY <1>6, <1>8, LedgerKeepsInv

LEMMA TransferUSIDKeepsInv ==
  ASSUME Inv, NEW u \in Users, NEW to \in Users \cup Markets, NEW amount \in Nat,
         TransferUSID(u, to, amount),
         UNCHANGED <<paxBal, paxHeld, oracleVars, poolVars, positionVars>>
  PROVE  Inv' /\ ProductsKept
<1>1. USIDTypeOK /\ balanceOf \in [Accounts -> Nat]
  BY DEF Inv, TypeOK, USIDTypeOK
<1>2. /\ amount <= balanceOf[u]
      /\ balanceOf' = Transfer(balanceOf, u, to, amount)
      /\ UNCHANGED totalSupply
  BY DEF TransferUSID
<1>3. u \in Accounts /\ to \in Accounts
  BY AccountsDistinct
<1>4. /\ balanceOf' \in [Accounts -> Nat]
      /\ Total(balanceOf', Accounts) = Total(balanceOf, Accounts)
      /\ \A a \in Accounts \ {u, to} : balanceOf'[a] = balanceOf[a]
      /\ u # to => balanceOf'[to] = balanceOf[to] + amount
  BY <1>1, <1>2, <1>3, TransferFacts
<1>5. USIDTypeOK' /\ SupplyExact'
  BY <1>1, <1>2, <1>4 DEF USIDTypeOK, oracleVars, Inv, SupplyExact
<1>6. \A a \in Accounts : balanceOf[a] \in Nat
  BY <1>1
<1>7. balanceOf'[FeeCollector] >= balanceOf[FeeCollector]
  BY <1>4, <1>6, AccountsDistinct
<1>8. ASSUME NEW m \in Markets PROVE balanceOf'[m] >= balanceOf[m]
  <2>1. m \in Accounts /\ m # u
    BY AccountsDistinct
  <2>2. CASE m = to
    BY <1>4, <1>6, <2>1, <2>2
  <2>3. CASE m # to
    BY <1>4, <1>6, <2>1, <2>3
  <2>4. QED
    BY <2>2, <2>3
<1>9. QED
  BY <1>5, <1>7, <1>8, LedgerKeepsInv

LEMMA HoldersMoveKeepsInv == Inv /\ HoldersMove => Inv' /\ ProductsKept
<1>1. TransferAmounts \subseteq Nat
  BY AmountsAssumption
<1>2. Inv => created \subseteq Markets
  BY DEF Inv, TypeOK
<1>3. QED
  BY <1>1, <1>2, BurnKeepsInv, TransferUSIDKeepsInv DEF HoldersMove

LEMMA PriceMovesKeepInv == Inv /\ PriceMoves => Inv' /\ ProductsKept
<1> SUFFICES ASSUME Inv, PriceMoves
             PROVE  Inv' /\ ProductsKept
  OBVIOUS
<1>1. UNCHANGED <<poolVars, positionVars>> /\ UNCHANGED <<ledgerVars, paxBal, paxHeld>>
  BY DEF PriceMoves, SetFallbackPrice, ToggleFallbackMode, DexPriceMoves
<1>2. USIDTypeOK
  BY DEF Inv, TypeOK
<1>3. USIDTypeOK'
  BY <1>1, <1>2 DEF USIDTypeOK, PriceMoves, SetFallbackPrice, ToggleFallbackMode,
     DexPriceMoves, ledgerVars
<1>4. SupplyExact'
  BY <1>1 DEF Inv, SupplyExact, ledgerVars
<1>5. /\ balanceOf'[FeeCollector] >= balanceOf[FeeCollector]
      /\ \A m \in Markets : balanceOf'[m] >= balanceOf[m]
  BY <1>1, <1>2, AccountsDistinct DEF USIDTypeOK, ledgerVars
<1>6. QED
  BY <1>1, <1>3, <1>4, <1>5, LedgerKeepsInv

(* Tokens sent to the pool by hand only narrow the gap of its reserve.     *)
LEMMA TokensMoveKeepsInv == Inv /\ TokensMove => Inv' /\ ProductsKept
<1> SUFFICES ASSUME Inv, NEW m \in created, NEW u \in Users,
                    NEW amount \in TransferAmounts, NEW to \in Users \cup {m},
                    amount <= tokenBal[m][u],
                    tokenBal' = [tokenBal EXCEPT ![m] = Transfer(@, u, to, amount)],
                    UNCHANGED <<usidVars, reserveVars, cumulativeFees, collectorVars,
                                positionVars>>
             PROVE  Inv' /\ ProductsKept
  BY DEF TokensMove
<1> DEFINE held == tokenBal[m]
           moved == Transfer(held, u, to, amount)
<1>1. m \in Markets /\ amount \in Nat /\ PoolTypeOK /\ held \in [Accounts -> Nat]
  BY AmountsAssumption DEF Inv, TypeOK, PoolTypeOK
<1>2. u \in Accounts /\ to \in Accounts /\ m \in Accounts /\ u # m
  BY <1>1, AccountsDistinct
<1>3. amount <= held[u] /\ tokenBal' = [tokenBal EXCEPT ![m] = moved]
  OBVIOUS
<1> HIDE DEF held
<1>4. /\ moved \in [Accounts -> Nat]
      /\ \A a \in Accounts \ {u, to} : moved[a] = held[a]
      /\ u # to => moved[to] = held[to] + amount
  BY <1>1, <1>2, <1>3, TransferFacts
<1> HIDE DEF moved
<1>5. moved[m] >= held[m] /\ moved[m] \in Nat /\ held[m] \in Nat
  BY <1>1, <1>2, <1>4
<1>6. PoolTypeOK'
  BY <1>1, <1>3, <1>4 DEF PoolTypeOK, reserveVars, collectorVars
<1>7. TypeOK'
  BY <1>6 DEF Inv, TypeOK, USIDTypeOK, usidVars, ledgerVars, oracleVars, positionVars
<1>8. SupplyExact'
  BY DEF Inv, SupplyExact, usidVars, ledgerVars
<1>9. CollectorSolvent'
  <2>1. Owed' = Owed
    BY DEF Owed, collectorVars
  <2>2. QED
    BY <2>1 DEF Inv, CollectorSolvent, collectorVars, usidVars, ledgerVars
<1>10. GapWithinFees'
  <2> SUFFICES ASSUME NEW x \in Markets
               PROVE  /\ reserveUSID'[x] <= balanceOf'[x] + cumulativeFees'[x]
                      /\ reserveToken'[x] <= tokenBal'[x][x] + cumulativeFees'[x]
    BY DEF GapWithinFees
  <2>1. /\ reserveUSID[x] <= balanceOf[x] + cumulativeFees[x]
        /\ reserveToken[x] <= tokenBal[x][x] + cumulativeFees[x]
    BY DEF Inv, GapWithinFees
  <2>2. /\ UNCHANGED <<reserveUSID, reserveToken, cumulativeFees, balanceOf>>
    BY DEF usidVars, ledgerVars, reserveVars
  <2>3. reserveToken[x] \in Nat /\ cumulativeFees[x] \in Nat
    BY <1>1 DEF PoolTypeOK
  <2>4. CASE x = m
    <3>1. tokenBal'[m] = moved
      BY <1>1, <1>3 DEF PoolTypeOK
    <3>2. reserveToken[m] <= moved[m] + cumulativeFees[m]
      BY <1>5, <2>1, <2>3, <2>4 DEF held
    <3>3. QED
      BY <2>1, <2>2, <2>4, <3>1, <3>2
  <2>5. CASE x # m
    BY <1>1, <1>3, <2>1, <2>2, <2>5 DEF PoolTypeOK
  <2>6. QED
    BY <2>4, <2>5
<1>11. KLastIsFloor'
  BY DEF Inv, KLastIsFloor, reserveVars
<1>12. ProductsKept
  <2> SUFFICES ASSUME NEW x \in created
               PROVE  reserveUSID'[x] * reserveToken'[x]
                        >= reserveUSID[x] * reserveToken[x]
    BY DEF ProductsKept
  <2>1. reserveUSID[x] * reserveToken[x] \in Nat
    BY <1>1 DEF PoolTypeOK, Inv, TypeOK
  <2>2. QED
    BY <2>1 DEF reserveVars
<1>13. QED
  BY <1>7, <1>8, <1>9, <1>10, <1>11, <1>12 DEF Inv

-----------------------------------------------------------------------------
(* Steps of the positions and of the fee collector.                        *)

(* A step that moves no token of a market, takes no USID from a pool and   *)
(* leaves the reserves alone, or syncs one pool.                           *)
LEMMA PositionKeepsInv ==
  ASSUME Inv, TypeOK', SupplyExact', CollectorSolvent',
         UNCHANGED <<tokenBal, cumulativeFees>>, NEW n \in Markets,
         \A m \in Markets : balanceOf'[m] >= balanceOf[m],
         UNCHANGED reserveVars \/ SyncTo(n, balanceOf'[n])
  PROVE  Inv' /\ ProductsKept
<1>1. /\ PoolTypeOK /\ balanceOf \in [Accounts -> Nat]
      /\ PoolTypeOK' /\ balanceOf' \in [Accounts -> Nat]
  BY DEF Inv, TypeOK, USIDTypeOK
<1>2. ASSUME NEW m \in Markets
      PROVE  /\ balanceOf[m] \in Nat /\ balanceOf'[m] \in Nat /\ tokenBal[m][m] \in Nat
             /\ cumulativeFees[m] \in Nat /\ reserveUSID[m] \in Nat
             /\ reserveToken[m] \in Nat
  BY <1>1, AccountsDistinct DEF PoolTypeOK
<1>3. ASSUME NEW m \in Markets
      PROVE  \/ /\ reserveUSID'[m] = reserveUSID[m]
                /\ reserveToken'[m] = reserveToken[m]
                /\ kLast'[m] = kLast[m]
             \/ /\ reserveUSID'[m] = balanceOf'[m]
                /\ reserveToken'[m] = tokenBal[m][m]
                /\ kLast'[m] = balanceOf'[m] * tokenBal[m][m]
  <2>1. CASE UNCHANGED reserveVars
    BY <2>1 DEF reserveVars
  <2>2. CASE SyncTo(n, balanceOf'[n])
    BY <1>1, <2>2 DEF SyncTo, KAfterSync, PoolTypeOK
  <2>3. QED
    BY <2>1, <2>2
<1>4. GapWithinFees'
  <2> SUFFICES ASSUME NEW m \in Markets
               PROVE  /\ reserveUSID'[m] <= balanceOf'[m] + cumulativeFees[m]
                      /\ reserveToken'[m] <= tokenBal[m][m] + cumulativeFees[m]
    BY DEF GapWithinFees
  <2>1. /\ reserveUSID[m] <= balanceOf[m] + cumulativeFees[m]
        /\ reserveToken[m] <= tokenBal[m][m] + cumulativeFees[m]
        /\ balanceOf'[m] >= balanceOf[m]
    BY DEF Inv, GapWithinFees
  <2>2. QED
    BY <1>2, <1>3, <2>1
<1>5. KLastIsFloor'
  <2> SUFFICES ASSUME NEW m \in Markets
               PROVE  kLast'[m] <= reserveUSID'[m] * reserveToken'[m]
    BY DEF KLastIsFloor
  <2>1. kLast[m] <= reserveUSID[m] * reserveToken[m]
    BY DEF Inv, KLastIsFloor
  <2>2. balanceOf'[m] * tokenBal[m][m] \in Nat
    BY <1>2
  <2>3. QED
    BY <1>3, <2>1, <2>2
<1>6. ProductsKept
  BY DEF ProductsKept
<1>7. QED
  BY <1>4, <1>5, <1>6 DEF Inv

LEMMA SyncKeepsInv ==
  ASSUME Inv, NEW n \in Markets, Sync(n)
  PROVE  Inv' /\ ProductsKept
<1>1. /\ SyncTo(n, balanceOf[n])
      /\ UNCHANGED <<usidVars, tokenBal, cumulativeFees, collectorVars, positionVars>>
      /\ balanceOf' = balanceOf
  BY DEF Sync, usidVars, ledgerVars
<1>2. PoolTypeOK /\ balanceOf \in [Accounts -> Nat]
  BY DEF Inv, TypeOK, USIDTypeOK
<1>3. balanceOf[n] \in Nat /\ tokenBal[n][n] \in Nat /\ balanceOf[n] * tokenBal[n][n] \in Nat
  <2>1. balanceOf[n] \in Nat /\ tokenBal[n][n] \in Nat
    BY <1>2, AccountsDistinct DEF PoolTypeOK
  <2>2. QED
    BY <2>1
<1>4. PoolTypeOK'
  BY <1>1, <1>2, <1>3 DEF PoolTypeOK, SyncTo, KAfterSync, collectorVars
<1>5. TypeOK'
  BY <1>1, <1>4 DEF Inv, TypeOK, USIDTypeOK, usidVars, ledgerVars, oracleVars, positionVars
<1>6. SupplyExact'
  BY <1>1 DEF Inv, SupplyExact, usidVars, ledgerVars
<1>7. CollectorSolvent'
  <2>1. Owed' = Owed
    BY <1>1 DEF Owed, collectorVars
  <2>2. QED
    BY <1>1, <2>1 DEF Inv, CollectorSolvent, collectorVars
<1>8. \A m \in Markets : balanceOf'[m] >= balanceOf[m]
  BY <1>1, <1>2, AccountsDistinct
<1>9. QED
  BY <1>1, <1>5, <1>6, <1>7, <1>8, PositionKeepsInv

LEMMA OwnersKeepInv ==
  ASSUME Inv, NEW n \in Markets,
         \/ \E strategy \in Strategies : SetFeeStrategy(n, strategy)
         \/ \E to \in Users : TransferPosition(n, to)
  PROVE  Inv' /\ ProductsKept
<1>1. UNCHANGED <<usidVars, poolVars, created>>
  BY DEF SetFeeStrategy, TransferPosition
<1>2. nftOwner' \in [Markets -> Users] /\ feeStrategy' \in [Markets -> Strategies]
  BY DEF SetFeeStrategy, TransferPosition, Inv, TypeOK
<1>3. TypeOK'
  BY <1>1, <1>2 DEF Inv, TypeOK, USIDTypeOK, PoolTypeOK, usidVars, ledgerVars, oracleVars,
     poolVars, reserveVars, collectorVars
<1>4. SupplyExact'
  BY <1>1 DEF Inv, SupplyExact, usidVars, ledgerVars
<1>5. CollectorSolvent'
  <2>1. Owed' = Owed
    BY <1>1 DEF Owed, poolVars, collectorVars
  <2>2. QED
    BY <1>1, <2>1 DEF Inv, CollectorSolvent, usidVars, ledgerVars,
       poolVars, collectorVars
<1>6. \A m \in Markets : balanceOf'[m] >= balanceOf[m]
  BY <1>1, AccountsDistinct DEF Inv, TypeOK, USIDTypeOK, usidVars, ledgerVars
<1>7. UNCHANGED <<tokenBal, cumulativeFees>> /\ UNCHANGED reserveVars
  BY <1>1 DEF poolVars
<1>8. QED
  BY <1>3, <1>4, <1>5, <1>6, <1>7, PositionKeepsInv

(* What a change of one market's debts does to the sum of all.             *)
LEMMA OwedChange ==
  ASSUME PoolTypeOK, PoolTypeOK', NEW n \in Markets,
         \A x \in Markets \ {n} : Owed'[x] = Owed[x]
  PROVE  /\ Total(Owed, Markets) \in Nat
         /\ Owed[n] \in Nat /\ Owed'[n] \in Nat
         /\ Total(Owed', Markets) = Total(Owed, Markets) - Owed[n] + Owed'[n]
<1>1. Owed \in [Markets -> Nat] /\ Owed' \in [Markets -> Nat]
      /\ Total(Owed, Markets) \in Nat
  BY OwedType, OwedTypeNext
<1> DEFINE f == Owed
           g == Owed'
<1> HIDE DEF f, g
<1>2. Total(g, Markets) = Total(f, Markets) - f[n] + g[n]
  BY <1>1, AccountsAssumption, TotalUpdate DEF f, g
<1>3. QED
  BY <1>1, <1>2 DEF f, g

(* The fees of a market leave the pending counter with the USID that       *)
(* covers them, or become its airdrop pool.                                *)
LEMMA ClaimKeepsInv ==
  ASSUME Inv, NEW n \in Markets, ClaimFees(n)
  PROVE  Inv' /\ ProductsKept
<1> DEFINE amount == accumulatedFees[n]
           owner == nftOwner[n]
<1>1. /\ accumulatedFees' = [accumulatedFees EXCEPT ![n] = 0]
      /\ \/ /\ TransferUSID(FeeCollector, owner, amount)
            /\ UNCHANGED <<reserveVars, airdropPool>>
         \/ /\ Burn(FeeCollector, amount)
            /\ UNCHANGED <<reserveVars, airdropPool>>
         \/ /\ airdropPool' = [airdropPool EXCEPT ![n] = @ + amount]
            /\ UNCHANGED <<reserveVars, ledgerVars>>
         \/ /\ TransferUSID(FeeCollector, n, amount)
            /\ SyncTo(n, balanceOf'[n])
            /\ UNCHANGED airdropPool
      /\ UNCHANGED <<tokenBal, cumulativeFees, unpaid>>
      /\ UNCHANGED <<paxBal, paxHeld, oracleVars, positionVars>>
  BY DEF ClaimFees, DistributeFees, AccumulatedAfterDistribution
<1>2. PoolTypeOK /\ USIDTypeOK /\ balanceOf \in [Accounts -> Nat]
  BY DEF Inv, TypeOK, USIDTypeOK
<1>3. amount \in Nat /\ owner \in Users /\ airdropPool[n] \in Nat
  BY <1>2 DEF PoolTypeOK, Inv, TypeOK
<1>4. owner \in Accounts /\ n \in Accounts /\ FeeCollector \in Accounts
      /\ owner # FeeCollector /\ n # FeeCollector
  BY <1>3, AccountsDistinct
<1>5. /\ accumulatedFees' \in [Markets -> Nat] /\ accumulatedFees'[n] = 0
      /\ \A x \in Markets \ {n} : accumulatedFees'[x] = accumulatedFees[x]
  BY <1>1, <1>2 DEF PoolTypeOK
<1>6. balanceOf[FeeCollector] \in Nat
  BY <1>2, <1>4
<1> HIDE DEF owner
<1>7. SUFFICES ASSUME USIDTypeOK', SupplyExact',
                      airdropPool' \in [Markets -> Nat],
                      \A x \in Markets \ {n} : airdropPool'[x] = airdropPool[x],
                      balanceOf'[FeeCollector] \in Nat,
                      balanceOf'[FeeCollector] - airdropPool'[n]
                        = balanceOf[FeeCollector] - airdropPool[n] - amount,
                      \A m \in Markets : balanceOf'[m] >= balanceOf[m],
                      UNCHANGED reserveVars \/ SyncTo(n, balanceOf'[n])
               PROVE  Inv' /\ ProductsKept
  <2>1. ASSUME NEW to \in Accounts, to # FeeCollector,
               TransferUSID(FeeCollector, to, amount)
        PROVE  /\ USIDTypeOK' /\ SupplyExact'
               /\ balanceOf'[FeeCollector] \in Nat
               /\ balanceOf'[FeeCollector] = balanceOf[FeeCollector] - amount
               /\ \A m \in Markets : balanceOf'[m] >= balanceOf[m]
    <3>1. /\ amount <= balanceOf[FeeCollector]
          /\ balanceOf' = Transfer(balanceOf, FeeCollector, to, amount)
          /\ UNCHANGED totalSupply
      BY <2>1 DEF TransferUSID
    <3>2. /\ balanceOf' \in [Accounts -> Nat]
          /\ Total(balanceOf', Accounts) = Total(balanceOf, Accounts)
          /\ \A a \in Accounts \ {FeeCollector, to} : balanceOf'[a] = balanceOf[a]
          /\ balanceOf'[FeeCollector] = balanceOf[FeeCollector] - amount
          /\ balanceOf'[to] = balanceOf[to] + amount
      <4> HIDE DEF amount
      <4> QED BY <1>2, <1>3, <1>4, <2>1, <3>1, TransferFacts
    <3>3. USIDTypeOK' /\ SupplyExact'
      BY <1>1, <1>2, <3>1, <3>2 DEF USIDTypeOK, oracleVars, Inv, SupplyExact
    <3>4. ASSUME NEW m \in Markets PROVE balanceOf'[m] >= balanceOf[m]
      <4>1. m \in Accounts /\ m # FeeCollector /\ balanceOf[m] \in Nat
        BY <1>2, AccountsDistinct
      <4>2. CASE m = to
        BY <1>3, <3>2, <4>1, <4>2
      <4>3. CASE m # to
        BY <3>2, <4>1, <4>3
      <4>4. QED
        BY <4>2, <4>3
    <3>5. balanceOf'[FeeCollector] \in Nat
      BY <1>4, <3>2
    <3>6. QED
      BY <3>2, <3>3, <3>4, <3>5
  <2> HIDE DEF amount
  <2>2. airdropPool \in [Markets -> Nat]
    BY <1>2 DEF PoolTypeOK
  <2>3. CASE /\ TransferUSID(FeeCollector, owner, amount)
             /\ UNCHANGED <<reserveVars, airdropPool>>
    <3>1. balanceOf'[FeeCollector] = balanceOf[FeeCollector] - amount
          /\ airdropPool'[n] = airdropPool[n]
      BY <1>4, <2>1, <2>3
    <3>2. balanceOf'[FeeCollector] - airdropPool'[n]
            = balanceOf[FeeCollector] - airdropPool[n] - amount
      BY <1>3, <1>6, <3>1
    <3>3. QED
      BY <1>4, <1>7, <2>1, <2>2, <2>3, <3>2
  <2>4. CASE /\ Burn(FeeCollector, amount)
             /\ UNCHANGED <<reserveVars, airdropPool>>
    <3> DEFINE v == balanceOf[FeeCollector] - amount
    <3>1. /\ amount <= balanceOf[FeeCollector]
          /\ balanceOf' = [balanceOf EXCEPT ![FeeCollector] = v]
          /\ totalSupply' = totalSupply - amount
      BY <2>4 DEF Burn
    <3>2. v \in Nat
      BY <1>3, <1>6, <3>1
    <3> HIDE DEF v
    <3>3. /\ balanceOf' \in [Accounts -> Nat]
          /\ Total(balanceOf', Accounts)
               = Total(balanceOf, Accounts) - balanceOf[FeeCollector] + v
          /\ Total(balanceOf, Accounts) \in Nat
          /\ balanceOf[FeeCollector] <= Total(balanceOf, Accounts)
      BY <1>2, <1>4, <3>1, <3>2, BalanceChange
    <3>4. totalSupply' = Total(balanceOf', Accounts) /\ totalSupply' \in Nat
      BY <1>3, <1>6, <3>1, <3>2, <3>3 DEF Inv, SupplyExact, v
    <3>5. USIDTypeOK' /\ SupplyExact'
      BY <1>1, <1>2, <3>3, <3>4 DEF USIDTypeOK, oracleVars, SupplyExact
    <3>6. /\ balanceOf'[FeeCollector] = v
          /\ \A a \in Accounts \ {FeeCollector} : balanceOf'[a] = balanceOf[a]
      BY <1>2, <1>4, <3>1
    <3>7. \A m \in Markets : balanceOf'[m] >= balanceOf[m]
      BY <1>2, <3>6, AccountsDistinct
    <3>8. airdropPool'[n] = airdropPool[n]
      BY <2>4
    <3>9. balanceOf'[FeeCollector] - airdropPool'[n]
            = balanceOf[FeeCollector] - airdropPool[n] - amount
      BY <1>3, <1>6, <3>6, <3>8 DEF v
    <3>10. QED
      BY <1>7, <2>2, <2>4, <3>2, <3>5, <3>6, <3>7, <3>9
  <2>5. CASE /\ airdropPool' = [airdropPool EXCEPT ![n] = @ + amount]
             /\ UNCHANGED <<reserveVars, ledgerVars>>
    <3>1. /\ airdropPool' \in [Markets -> Nat]
          /\ airdropPool'[n] = airdropPool[n] + amount
          /\ \A x \in Markets \ {n} : airdropPool'[x] = airdropPool[x]
      BY <1>3, <2>2, <2>5
    <3>2. balanceOf' = balanceOf /\ totalSupply' = totalSupply
      BY <2>5 DEF ledgerVars
    <3>3. USIDTypeOK' /\ SupplyExact'
      BY <1>1, <1>2, <3>2 DEF USIDTypeOK, oracleVars, Inv, SupplyExact
    <3>4. balanceOf'[FeeCollector] - airdropPool'[n]
            = balanceOf[FeeCollector] - airdropPool[n] - amount
      BY <1>3, <1>6, <3>1, <3>2
    <3>5. \A m \in Markets : balanceOf'[m] >= balanceOf[m]
      BY <1>2, <3>2, AccountsDistinct
    <3>6. QED
      BY <1>6, <1>7, <2>5, <3>1, <3>2, <3>3, <3>4, <3>5
  <2>6. CASE /\ TransferUSID(FeeCollector, n, amount)
             /\ SyncTo(n, balanceOf'[n])
             /\ UNCHANGED airdropPool
    <3>1. balanceOf'[FeeCollector] = balanceOf[FeeCollector] - amount
          /\ airdropPool'[n] = airdropPool[n]
      BY <1>4, <2>1, <2>6
    <3>2. balanceOf'[FeeCollector] - airdropPool'[n]
            = balanceOf[FeeCollector] - airdropPool[n] - amount
      BY <1>3, <1>6, <3>1
    <3>3. QED
      BY <1>4, <1>7, <2>1, <2>2, <2>6, <3>2
  <2>7. QED
    BY <1>1, <2>3, <2>4, <2>5, <2>6 DEF amount
<1>8. PoolTypeOK'
  <2>1. CASE UNCHANGED reserveVars
    BY <1>1, <1>2, <1>5, <1>7, <2>1 DEF PoolTypeOK, reserveVars
  <2>2. CASE SyncTo(n, balanceOf'[n])
    <3>1. balanceOf'[n] \in Nat /\ tokenBal[n][n] \in Nat
      BY <1>2, <1>4, <1>7 DEF PoolTypeOK, USIDTypeOK
    <3>2. balanceOf'[n] * tokenBal[n][n] \in Nat
      BY <3>1
    <3>3. QED
      BY <1>1, <1>2, <1>5, <1>7, <2>2, <3>1, <3>2 DEF PoolTypeOK, SyncTo, KAfterSync
  <2>3. QED
    BY <1>7, <2>1, <2>2
<1>9. TypeOK'
  BY <1>1, <1>7, <1>8 DEF Inv, TypeOK, positionVars
<1>10. CollectorSolvent'
  <2>1. \A x \in Markets \ {n} : Owed'[x] = Owed[x]
    BY <1>5, <1>7 DEF Owed
  <2>2. /\ Total(Owed, Markets) \in Nat
        /\ Total(Owed', Markets) = Total(Owed, Markets) - Owed[n] + Owed'[n]
    BY <1>2, <1>8, <2>1, OwedChange
  <2>3. Owed[n] = amount + airdropPool[n] /\ Owed'[n] = 0 + airdropPool'[n]
    BY <1>5 DEF Owed
  <2>4. airdropPool'[n] \in Nat
    BY <1>7
  <2>5. /\ Total(Owed, Markets) <= balanceOf[FeeCollector] + unpaid
        /\ unpaid \in Nat /\ unpaid' = unpaid
    BY <1>1, <1>2 DEF Inv, CollectorSolvent, PoolTypeOK
  <2>6. Total(Owed', Markets) <= balanceOf'[FeeCollector] + unpaid'
    <3> HIDE DEF amount
    <3> QED BY <1>3, <1>6, <1>7, <2>2, <2>3, <2>4, <2>5
  <2>7. QED
    BY <2>6 DEF CollectorSolvent
<1>11. QED
  BY <1>1, <1>7, <1>9, <1>10, PositionKeepsInv

(* An airdrop moves the sum of its shares from the collector to users.     *)
LEMMA AirdropFacts ==
  ASSUME NEW b \in [Accounts -> Nat], NEW shares \in [Users -> Nat],
         NEW total, total = Total(shares, Users), total <= b[FeeCollector],
         NEW d, d = [a \in Accounts |->
                       CASE a \in Users -> b[a] + shares[a]
                         [] a = FeeCollector -> b[a] - total
                         [] OTHER -> b[a]]
  PROVE  /\ d \in [Accounts -> Nat]
         /\ Total(d, Accounts) = Total(b, Accounts)
         /\ total \in Nat
         /\ d[FeeCollector] = b[FeeCollector] - total
         /\ \A m \in Markets : d[m] = b[m]
<1> DEFINE h == [a \in Accounts |-> IF a \in Users THEN shares[a] ELSE 0]
           c == [a \in Accounts |-> b[a] + h[a]]
<1>1. FeeCollector \in Accounts /\ FeeCollector \notin Users /\ Users \subseteq Accounts
      /\ Markets \subseteq Accounts /\ \A m \in Markets : m # FeeCollector /\ m \notin Users
  BY AccountsDistinct
<1>2. total \in Nat
  <2>1. IsFiniteSet(Users)
    BY AccountsAssumption
  <2>2. QED
    BY <2>1, TotalType
<1>3. /\ \A a \in Accounts : h[a] \in Nat
      /\ \A a \in Users : h[a] = shares[a]
      /\ \A a \in Accounts \ Users : h[a] = 0
      /\ \A a \in Accounts : b[a] \in Nat /\ c[a] \in Nat /\ c[a] = b[a] + h[a]
  BY <1>1
<1>4. b[FeeCollector] - total \in Nat
  BY <1>1, <1>2
<1>5. /\ \A a \in Users : d[a] = b[a] + shares[a]
      /\ d[FeeCollector] = b[FeeCollector] - total
      /\ \A a \in Accounts \ (Users \cup {FeeCollector}) : d[a] = b[a]
      /\ d \in [Accounts -> Nat]
  <2>1. /\ \A a \in Users : d[a] = b[a] + shares[a]
        /\ d[FeeCollector] = b[FeeCollector] - total
        /\ \A a \in Accounts \ (Users \cup {FeeCollector}) : d[a] = b[a]
    BY <1>1
  <2>2. \A a \in Accounts : d[a] \in Nat
    <3>1. \A a \in Users : d[a] \in Nat
      BY <1>1, <2>1
    <3>2. d[FeeCollector] \in Nat
      BY <1>4, <2>1
    <3>3. QED
      BY <2>1, <3>1, <3>2
  <2>3. QED
    BY <2>1, <2>2
<1> HIDE DEF h, c
<1>6. Total(h, Accounts) = total
  <2>1. Total(h, Accounts) = Total(h, Users)
    BY <1>1, <1>3, TotalZeros
  <2>2. Total(h, Users) = Total(shares, Users)
    BY <1>3, TotalSame
  <2>3. QED
    BY <2>1, <2>2
<1>7. Total(c, Accounts) = Total(b, Accounts) + Total(h, Accounts)
  BY <1>3, AccountsFinite, TotalSum
<1>8. \A a \in Accounts \ {FeeCollector} : d[a] = c[a]
  BY <1>3, <1>5
<1>9. Total(d, Accounts) = Total(c, Accounts) - c[FeeCollector] + d[FeeCollector]
  <2>1. \A a \in Accounts : d[a] \in Nat /\ c[a] \in Nat
    BY <1>3, <1>5
  <2>2. QED
    BY <1>1, <1>8, <2>1, AccountsFinite, TotalUpdate
<1>10. c[FeeCollector] = b[FeeCollector] /\ b[FeeCollector] \in Nat
  BY <1>1, <1>3
<1>11. Total(b, Accounts) \in Nat
  BY AccountsFinite, TotalType
<1>12. Total(d, Accounts) = Total(b, Accounts)
  BY <1>2, <1>5, <1>6, <1>7, <1>9, <1>10, <1>11
<1>13. \A m \in Markets : d[m] = b[m]
  BY <1>1, <1>5
<1>14. QED
  BY <1>2, <1>5, <1>12, <1>13

LEMMA AirdropKeepsInv == Inv /\ Airdrop => Inv' /\ ProductsKept
<1> SUFFICES ASSUME Inv, NEW n \in created, NEW shares \in [Users -> Shares],
                    ClaimAirdrop(n, shares),
                    UNCHANGED <<paxBal, paxHeld, oracleVars, positionVars>>
             PROVE  Inv' /\ ProductsKept
  BY DEF Airdrop
<1> DEFINE total == Total(shares, Users)
<1>1. /\ total <= airdropPool[n] /\ total <= balanceOf[FeeCollector]
      /\ airdropPool' = [airdropPool EXCEPT ![n] = @ - total]
      /\ balanceOf' = [a \in Accounts |->
           CASE a \in Users -> balanceOf[a] + shares[a]
             [] a = FeeCollector -> balanceOf[a] - total
             [] OTHER -> balanceOf[a]]
      /\ UNCHANGED <<tokenBal, reserveVars, cumulativeFees>>
      /\ UNCHANGED <<totalSupply, accumulatedFees, unpaid>>
  BY DEF ClaimAirdrop, WithinAirdropPool
<1>2. /\ PoolTypeOK /\ USIDTypeOK /\ balanceOf \in [Accounts -> Nat]
      /\ n \in Markets /\ shares \in [Users -> Nat]
  BY AmountsAssumption DEF Inv, TypeOK, USIDTypeOK
<1> HIDE DEF total
<1>3. /\ balanceOf' \in [Accounts -> Nat]
      /\ Total(balanceOf', Accounts) = Total(balanceOf, Accounts)
      /\ total \in Nat
      /\ balanceOf'[FeeCollector] = balanceOf[FeeCollector] - total
      /\ \A m \in Markets : balanceOf'[m] = balanceOf[m]
  BY <1>1, <1>2, AirdropFacts DEF total
<1>4. airdropPool[n] \in Nat /\ accumulatedFees[n] \in Nat
      /\ balanceOf[FeeCollector] \in Nat
  BY <1>2, AccountsDistinct DEF PoolTypeOK
<1>5. /\ airdropPool' \in [Markets -> Nat]
      /\ airdropPool'[n] = airdropPool[n] - total
      /\ \A x \in Markets \ {n} : airdropPool'[x] = airdropPool[x]
  <2>1. airdropPool[n] - total \in Nat
    BY <1>1, <1>3, <1>4
  <2>2. QED
    BY <1>1, <1>2, <2>1 DEF PoolTypeOK
<1>6. PoolTypeOK'
  BY <1>1, <1>2, <1>5 DEF PoolTypeOK, reserveVars
<1>7. TypeOK'
  BY <1>1, <1>2, <1>3, <1>6 DEF Inv, TypeOK, USIDTypeOK, oracleVars, positionVars
<1>8. SupplyExact'
  BY <1>1, <1>3 DEF Inv, SupplyExact
<1>9. CollectorSolvent'
  <2>1. \A x \in Markets \ {n} : Owed'[x] = Owed[x]
    BY <1>1, <1>5 DEF Owed
  <2>2. /\ Total(Owed, Markets) \in Nat
        /\ Total(Owed', Markets) = Total(Owed, Markets) - Owed[n] + Owed'[n]
    BY <1>2, <1>6, <2>1, OwedChange
  <2>3. Owed[n] = accumulatedFees[n] + airdropPool[n]
        /\ Owed'[n] = accumulatedFees[n] + (airdropPool[n] - total)
    BY <1>1, <1>2, <1>5 DEF Owed
  <2>4. /\ Total(Owed, Markets) <= balanceOf[FeeCollector] + unpaid
        /\ unpaid \in Nat /\ unpaid' = unpaid
    BY <1>1, <1>2 DEF Inv, CollectorSolvent, PoolTypeOK
  <2>5. Total(Owed', Markets) <= balanceOf'[FeeCollector] + unpaid'
    BY <1>3, <1>4, <2>2, <2>3, <2>4
  <2>6. QED
    BY <2>5 DEF CollectorSolvent
<1>10. \A m \in Markets : balanceOf'[m] >= balanceOf[m]
  BY <1>2, <1>3, AccountsDistinct
<1>11. QED
  BY <1>1, <1>2, <1>7, <1>8, <1>9, <1>10, PositionKeepsInv

(* A fee that nobody paid is owed, and counted in the history.             *)
LEMMA RecordKeepsInv == Inv /\ RecordByAnyone => Inv' /\ ProductsKept
<1> SUFFICES ASSUME Inv, NEW n \in Markets, NEW amount \in RecordAmounts,
                    AccumulateUnpaid(n, amount), UNCHANGED <<usidVars, positionVars>>
             PROVE  Inv' /\ ProductsKept
  BY DEF RecordByAnyone
<1>1. amount \in Nat /\ PoolTypeOK /\ unpaid \in Nat
  BY PoolAssumption DEF Inv, TypeOK, PoolTypeOK
<1>2. /\ accumulatedFees' = [accumulatedFees EXCEPT ![n] = @ + amount]
      /\ unpaid' = unpaid + amount
      /\ UNCHANGED <<tokenBal, reserveVars, cumulativeFees, airdropPool>>
  BY DEF AccumulateUnpaid
<1>3. PoolTypeOK'
  BY <1>1, <1>2 DEF PoolTypeOK, reserveVars
<1>4. TypeOK'
  BY <1>3 DEF Inv, TypeOK, USIDTypeOK, usidVars, ledgerVars, oracleVars, positionVars
<1>5. SupplyExact'
  BY DEF Inv, SupplyExact, usidVars, ledgerVars
<1>6. CollectorSolvent'
  <2>1. /\ accumulatedFees'[n] = accumulatedFees[n] + amount
        /\ \A x \in Markets \ {n} : accumulatedFees'[x] = accumulatedFees[x]
    BY <1>1, <1>2 DEF PoolTypeOK
  <2>2. Total(Owed', Markets) = Total(Owed, Markets) + amount
    BY <1>1, <1>2, <1>3, <2>1, OwedAfterOne
  <2>3. Total(Owed, Markets) \in Nat /\ balanceOf[FeeCollector] \in Nat
    BY <1>1, OwedType, AccountsDistinct DEF Inv, TypeOK, USIDTypeOK
  <2>4. balanceOf' = balanceOf /\ Total(Owed, Markets) <= balanceOf[FeeCollector] + unpaid
    BY DEF Inv, CollectorSolvent, usidVars, ledgerVars
  <2>5. Total(Owed', Markets) <= balanceOf'[FeeCollector] + unpaid'
    BY <1>1, <1>2, <2>2, <2>3, <2>4
  <2>6. QED
    BY <2>5 DEF CollectorSolvent
<1>7. \A m \in Markets : balanceOf'[m] >= balanceOf[m]
  BY AccountsDistinct DEF Inv, TypeOK, USIDTypeOK, usidVars, ledgerVars
<1>8. QED
  BY <1>2, <1>4, <1>5, <1>6, <1>7, PositionKeepsInv DEF positionVars

(* A new market is minted exactly what its reserves record.                *)
LEMMA CreateMarketKeepsInv ==
  ASSUME Inv, NEW m \in Markets, NEW strategy \in Strategies, CreateMarket(m, strategy)
  PROVE  Inv' /\ ProductsKept
<1> DEFINE v == balanceOf[m] + INITIAL_USID
           k == INITIAL_USID * INITIAL_TOKENS
           held == [tokenBal[m] EXCEPT ![m] = INITIAL_TOKENS]
<1>1. /\ m \notin created /\ created' = created \cup {m}
      /\ feeStrategy' = [feeStrategy EXCEPT ![m] = strategy]
      /\ tokenBal' = [tokenBal EXCEPT ![m] = held]
      /\ totalSupply' = totalSupply + INITIAL_USID
      /\ balanceOf' = [balanceOf EXCEPT ![m] = v]
      /\ reserveUSID' = [reserveUSID EXCEPT ![m] = INITIAL_USID]
      /\ reserveToken' = [reserveToken EXCEPT ![m] = INITIAL_TOKENS]
      /\ kLast' = [kLast EXCEPT ![m] = k]
      /\ UNCHANGED <<paxBal, paxHeld, oracleVars, cumulativeFees, collectorVars>>
      /\ UNCHANGED nftOwner
  BY DEF CreateMarket, Mint
<1>2. /\ PoolTypeOK /\ USIDTypeOK /\ balanceOf \in [Accounts -> Nat]
      /\ tokenBal[m] \in [Accounts -> Nat]
      /\ INITIAL_USID \in Nat /\ INITIAL_TOKENS \in Nat
  BY PoolAssumption DEF Inv, TypeOK, USIDTypeOK, PoolTypeOK
<1>3. m \in Accounts /\ m # FeeCollector /\ FeeCollector \in Accounts
  BY AccountsDistinct
<1>4. balanceOf[m] \in Nat /\ v \in Nat /\ k \in Nat
  BY <1>2, <1>3
<1>5. held \in [Accounts -> Nat] /\ held[m] = INITIAL_TOKENS
  BY <1>2, <1>3
<1> HIDE DEF held
<1>6. PoolTypeOK'
  <2> HIDE DEF k
  <2> QED BY <1>1, <1>2, <1>4, <1>5 DEF PoolTypeOK, collectorVars
<1>7. /\ balanceOf' \in [Accounts -> Nat]
      /\ Total(balanceOf, Accounts) \in Nat
      /\ Total(balanceOf', Accounts) = Total(balanceOf, Accounts) - balanceOf[m] + v
  <2>1. balanceOf' = [balanceOf EXCEPT ![m] = v] /\ v \in Nat
    BY <1>1, <1>4
  <2>2. balanceOf \in [Accounts -> Nat] /\ m \in Accounts
    BY <1>2, <1>3
  <2> HIDE DEF v, k
  <2>3. QED
    BY <2>1, <2>2, BalanceChange
<1>8. totalSupply' \in Nat /\ totalSupply' = Total(balanceOf', Accounts)
  BY <1>1, <1>2, <1>4, <1>7 DEF Inv, SupplyExact
<1>9. TypeOK'
  BY <1>1, <1>2, <1>6, <1>7, <1>8 DEF Inv, TypeOK, USIDTypeOK, oracleVars
<1>10. SupplyExact'
  BY <1>8 DEF SupplyExact
<1>11. \A a \in Accounts \ {m} : balanceOf'[a] = balanceOf[a]
  BY <1>1, <1>2
<1>12. CollectorSolvent'
  <2>1. Owed' = Owed
    BY <1>1 DEF Owed, collectorVars
  <2>2. QED
    BY <1>1, <1>3, <1>11, <2>1 DEF Inv, CollectorSolvent, collectorVars
<1>13. GapWithinFees'
  <2> SUFFICES ASSUME NEW x \in Markets
               PROVE  /\ reserveUSID'[x] <= balanceOf'[x] + cumulativeFees[x]
                      /\ reserveToken'[x] <= tokenBal'[x][x] + cumulativeFees[x]
    BY <1>1 DEF GapWithinFees
  <2>1. cumulativeFees[x] \in Nat
    BY <1>2 DEF PoolTypeOK
  <2>2. CASE x = m
    <3>1. /\ reserveUSID'[m] = INITIAL_USID /\ reserveToken'[m] = INITIAL_TOKENS
          /\ balanceOf'[m] = balanceOf[m] + INITIAL_USID
          /\ tokenBal'[m] = held
      BY <1>1, <1>2, <1>3 DEF PoolTypeOK
    <3>2. QED
      BY <1>2, <1>4, <1>5, <2>1, <2>2, <3>1
  <2>3. CASE x # m
    <3>1. /\ reserveUSID'[x] = reserveUSID[x] /\ reserveToken'[x] = reserveToken[x]
          /\ tokenBal'[x] = tokenBal[x]
      BY <1>1, <1>2, <2>3 DEF PoolTypeOK
    <3>2. balanceOf'[x] = balanceOf[x]
      BY <1>11, <2>3, AccountsDistinct
    <3>3. QED
      BY <3>1, <3>2 DEF Inv, GapWithinFees
  <2>4. QED
    BY <2>2, <2>3
<1>14. KLastIsFloor'
  <2> SUFFICES ASSUME NEW x \in Markets
               PROVE  kLast'[x] <= reserveUSID'[x] * reserveToken'[x]
    BY DEF KLastIsFloor
  <2>1. CASE x = m
    BY <1>1, <1>2, <1>4, <2>1 DEF PoolTypeOK
  <2>2. CASE x # m
    BY <1>1, <1>2, <2>2 DEF PoolTypeOK, Inv, KLastIsFloor
  <2>3. QED
    BY <2>1, <2>2
<1>15. ProductsKept
  <2> SUFFICES ASSUME NEW x \in created, tokenBal'[x] # tokenBal[x]
               PROVE  FALSE
    BY DEF ProductsKept
  <2>1. x # m /\ x \in Markets
    BY <1>1 DEF Inv, TypeOK
  <2>2. QED
    BY <1>1, <1>2, <2>1 DEF PoolTypeOK
<1>16. QED
  BY <1>9, <1>10, <1>12, <1>13, <1>14, <1>15 DEF Inv

-----------------------------------------------------------------------------
LEMMA ZeroTotal ==
  ASSUME NEW S, NEW f, \A s \in S : f[s] = 0
  PROVE  Total(f, S) = 0
<1>1. Total(f, S) = Total(f, {})
  BY TotalZeros
<1>2. QED
  BY <1>1, TotalEmpty

LEMMA InitInv == Init => Inv
<1> SUFFICES ASSUME Init
             PROVE  Inv
  OBVIOUS
<1>1. TypeOK
  <2>1. PaxFunds \in Nat
    BY PriceAssumption
  <2>2. USIDTypeOK /\ PoolTypeOK
    BY <2>1 DEF Init, USIDInit, PoolInit, USIDTypeOK, PoolTypeOK
  <2>3. QED
    BY <2>2 DEF Init, TypeOK, Strategies
<1>2. SupplyExact
  <2>1. \A a \in Accounts : balanceOf[a] = 0
    BY DEF Init, USIDInit
  <2>2. Total(balanceOf, Accounts) = 0
    BY <2>1, ZeroTotal
  <2>3. QED
    BY <2>2 DEF Init, USIDInit, SupplyExact
<1>3. CollectorSolvent
  <2>1. \A m \in Markets : Owed[m] = 0
    BY DEF Init, PoolInit, Owed
  <2>2. Total(Owed, Markets) = 0
    <3> DEFINE f == Owed
    <3> HIDE DEF f
    <3>1. Total(f, Markets) = 0
      BY <2>1, ZeroTotal DEF f
    <3>2. QED
      BY <3>1 DEF f
  <2>3. balanceOf[FeeCollector] = 0
    BY AccountsDistinct DEF Init, USIDInit
  <2>4. QED
    BY <2>2, <2>3 DEF CollectorSolvent, Init, PoolInit
<1>4. GapWithinFees
  BY AccountsDistinct DEF Init, USIDInit, PoolInit, GapWithinFees
<1>5. KLastIsFloor
  BY DEF Init, PoolInit, KLastIsFloor
<1>6. QED
  BY <1>1, <1>2, <1>3, <1>4, <1>5 DEF Inv

LEMMA StutterKeepsInv == Inv /\ UNCHANGED vars => Inv' /\ ProductsKept
<1> SUFFICES ASSUME Inv, UNCHANGED vars
             PROVE  Inv' /\ ProductsKept
  OBVIOUS
<1>1. UNCHANGED <<usidVars, poolVars, positionVars>>
  BY DEF vars
<1>2. USIDTypeOK /\ USIDTypeOK' /\ SupplyExact'
  BY <1>1 DEF Inv, TypeOK, USIDTypeOK, SupplyExact, usidVars, ledgerVars, oracleVars
<1>3. /\ balanceOf'[FeeCollector] >= balanceOf[FeeCollector]
      /\ \A m \in Markets : balanceOf'[m] >= balanceOf[m]
  BY <1>1, <1>2, AccountsDistinct DEF USIDTypeOK, usidVars, ledgerVars
<1>4. QED
  BY <1>1, <1>2, <1>3, LedgerKeepsInv

LEMMA NextKeepsInv == Inv /\ [Next]_vars => Inv' /\ ProductsKept
<1> SUFFICES ASSUME Inv, [Next]_vars
             PROVE  Inv' /\ ProductsKept
  OBVIOUS
<1>1. CASE \E m \in Markets, strategy \in Strategies : CreateMarket(m, strategy)
  BY <1>1, CreateMarketKeepsInv
<1>2. CASE Trade
  BY <1>2, TradeKeepsInv
<1>3. CASE Airdrop
  BY <1>3, AirdropKeepsInv
<1>4. CASE Position
  <2>1. created \subseteq Markets
    BY DEF Inv, TypeOK
  <2>2. PICK n \in Markets :
          \/ Sync(n)
          \/ ClaimFees(n)
          \/ \E strategy \in Strategies : SetFeeStrategy(n, strategy)
          \/ \E to \in Users : TransferPosition(n, to)
    BY <1>4, <2>1 DEF Position
  <2>3. QED
    BY <2>2, SyncKeepsInv, ClaimKeepsInv, OwnersKeepInv
<1>5. CASE Exchange
  BY <1>5, ExchangeKeepsInv
<1>6. CASE HoldersMove
  BY <1>6, HoldersMoveKeepsInv
<1>7. CASE TokensMove
  BY <1>7, TokensMoveKeepsInv
<1>8. CASE PriceMoves
  BY <1>8, PriceMovesKeepInv
<1>9. CASE UNCHANGED vars
  BY <1>9, StutterKeepsInv
<1>10. CASE RecordByAnyone
  BY <1>10, RecordKeepsInv
<1>11. QED
  BY <1>1, <1>2, <1>3, <1>4, <1>5, <1>6, <1>7, <1>8, <1>9, <1>10 DEF Next

(* The inductive invariant holds always.                                   *)
THEOREM AlwaysInv == Spec => []Inv
<1>1. Inv /\ [Next]_vars => Inv'
  BY NextKeepsInv
<1>2. QED
  BY <1>1, InitInv, PTL DEF Spec

(* Every balance, reserve and counter is a natural number of an existing   *)
(* account or market: no subtraction of the contracts can pass below zero. *)
THEOREM TypeCorrect == Spec => []TypeOK
<1>1. Inv => TypeOK
  BY DEF Inv
<1>2. QED
  BY <1>1, AlwaysInv, PTL

(* The supply of USID is what the accounts hold, through deposits at any   *)
(* price, new markets, burned fees, airdrops and swaps over two pools      *)
(* (USID.sol, FeeCollector.sol, HLPMMPool.swap).                           *)
THEOREM SupplyAlwaysExact == Spec => []SupplyExact
<1>1. Inv => SupplyExact
  BY DEF Inv
<1>2. QED
  BY <1>1, AlwaysInv, PTL

(* What the collector owes for the pending fees and the airdrop pools of   *)
(* all markets together exceeds what it holds by no more than strangers    *)
(* have recorded (accumulateFee, distributeFees, claimAirdrop).            *)
THEOREM CollectorAlwaysSolvent == Spec => []CollectorSolvent
<1>1. Inv => CollectorSolvent
  BY DEF Inv
<1>2. QED
  BY <1>1, AlwaysInv, PTL

(* What the reserves promise beyond the balances of a pool never exceeds   *)
(* the fees the pool has counted (swap, sync).                             *)
THEOREM GapAlwaysWithinFees == Spec => []GapWithinFees
<1>1. Inv => GapWithinFees
  BY DEF Inv
<1>2. QED
  BY <1>1, AlwaysInv, PTL

(* kLast, taken before the fee of a sale is settled, is never above the    *)
(* product of the reserves (swap, sync, initialize).                       *)
THEOREM KLastAlwaysFloor == Spec => []KLastIsFloor
<1>1. Inv => KLastIsFloor
  BY DEF Inv
<1>2. QED
  BY <1>1, AlwaysInv, PTL

(* No step that moves a created market's tokens lowers the product of its  *)
(* reserves: purchases, sales and both legs of a swap over two pools.      *)
THEOREM SwapsKeepProduct == Spec => SwapKeepsProduct
<1>1. Inv /\ [Next]_vars => [ProductsKept]_vars
  BY NextKeepsInv
<1>2. [ProductsKept]_vars
       => [\A m \in created :
             tokenBal'[m] # tokenBal[m] =>
               reserveUSID'[m] * reserveToken'[m] >= reserveUSID[m] * reserveToken[m]]_vars
  BY DEF ProductsKept
<1>3. QED
  BY <1>1, <1>2, AlwaysInv, PTL DEF Spec, SwapKeepsProduct

-----------------------------------------------------------------------------
(* Rounding.                                                               *)

LEMMA Distribute ==
  ASSUME NEW a \in Int, NEW b \in Int, NEW c \in Int
  PROVE  (a + b) * c = a * c + b * c /\ a * c \in Int /\ b * c \in Int
OBVIOUS

(* PAX and USID move by a and b, and b is worth no more than a.            *)
LEMMA SurplusStep ==
  ASSUME NEW held \in Int, NEW issued \in Int, NEW price \in Int, NEW unit \in Int,
         NEW a \in Int, NEW b \in Int, b * unit <= a * price
  PROVE  (held + a) * price - (issued + b) * unit >= held * price - issued * unit
<1>1. /\ (held + a) * price = held * price + a * price
      /\ held * price \in Int /\ a * price \in Int
  BY Distribute
<1>2. /\ (issued + b) * unit = issued * unit + b * unit
      /\ issued * unit \in Int /\ b * unit \in Int
  BY Distribute
<1> DEFINE x == held * price
           y == a * price
           z == issued * unit
           w == b * unit
<1>3. (x + y) - (z + w) >= x - z
  <2>1. x \in Int /\ y \in Int /\ z \in Int /\ w \in Int /\ w <= y
    BY <1>1, <1>2
  <2> HIDE DEF x, y, z, w
  <2>2. QED
    BY <2>1
<1>4. QED
  BY <1>1, <1>2, <1>3

(* USID in circulation that was minted for PAX.                            *)
Issued == totalSupply - INITIAL_USID * Cardinality(created)

LEMMA IssuedFacts ==
  ASSUME Inv
  PROVE  /\ Issued \in Int /\ paxHeld \in Int /\ totalSupply \in Nat
         /\ PaxPriceInUSD \in Nat \ {0} /\ PRICE_UNIT \in Nat \ {0}
         /\ INITIAL_USID * Cardinality(created) \in Nat
         /\ IsFiniteSet(created)
<1>1. USIDTypeOK /\ created \subseteq Markets
  BY DEF Inv, TypeOK
<1>2. IsFiniteSet(created)
  BY <1>1, AccountsAssumption, FS_Subset
<1>3. Cardinality(created) \in Nat /\ INITIAL_USID \in Nat
  BY <1>2, FS_CardinalityType, PoolAssumption
<1>4. INITIAL_USID * Cardinality(created) \in Nat
  BY <1>3
<1>5. /\ PaxPriceInUSD \in Nat \ {0} /\ PRICE_UNIT \in Nat \ {0}
      /\ paxHeld \in Nat /\ totalSupply \in Nat
  BY <1>1, PriceAssumption DEF USIDTypeOK, PaxPriceInUSD
<1>6. QED
  BY <1>2, <1>4, <1>5 DEF Issued

(* A step that takes a of PAX and issues b of USID for it.                 *)
LEMMA MovesSurplus ==
  ASSUME Inv, NEW a \in Int, NEW b \in Int,
         b * PRICE_UNIT <= a * PaxPriceInUSD,
         paxHeld' = paxHeld + a, Issued' = Issued + b,
         PaxPriceInUSD' = PaxPriceInUSD
  PROVE  Surplus' >= Surplus
<1>1. Surplus = paxHeld * PaxPriceInUSD - Issued * PRICE_UNIT
  BY DEF Surplus, Issued
<1>2. Surplus' = (paxHeld + a) * PaxPriceInUSD - (Issued + b) * PRICE_UNIT
  BY DEF Surplus, Issued
<1>3. Issued \in Int /\ paxHeld \in Int /\ PaxPriceInUSD \in Int /\ PRICE_UNIT \in Int
  BY IssuedFacts
<1>4. QED
  BY <1>1, <1>2, <1>3, SurplusStep

(* A step that leaves PAX alone and burns or keeps USID.                   *)
LEMMA BurnsSurplus ==
  ASSUME Inv, NEW amount \in Nat, paxHeld' = paxHeld,
         totalSupply' = totalSupply - amount, created' = created,
         PaxPriceInUSD' = PaxPriceInUSD
  PROVE  Surplus' >= Surplus
<1> DEFINE minted == INITIAL_USID * Cardinality(created)
<1>1. minted \in Nat /\ totalSupply \in Nat /\ paxHeld \in Int /\ PRICE_UNIT \in Nat
      /\ PaxPriceInUSD \in Nat /\ Issued \in Int
  BY IssuedFacts
<1>2. Issued = totalSupply - minted /\ Issued' = (totalSupply - amount) - minted
  BY DEF Issued
<1> HIDE DEF minted
<1>3. Issued' = Issued + (-amount) /\ -amount \in Int
  BY <1>1, <1>2
<1>4. paxHeld' = paxHeld + 0
  BY <1>1
<1>5. (-amount) * PRICE_UNIT <= 0 * PaxPriceInUSD
  <2>1. (-amount) * PRICE_UNIT = -(amount * PRICE_UNIT) /\ amount * PRICE_UNIT \in Nat
    BY <1>1
  <2>2. 0 * PaxPriceInUSD = 0
    BY <1>1
  <2>3. QED
    BY <2>1, <2>2
<1>6. QED
  BY <1>3, <1>4, <1>5, MovesSurplus

LEMMA DepositKeepsSurplus ==
  ASSUME Inv, NEW u \in Users, NEW amount \in Nat, Deposit(u, amount),
         created' = created, PaxPriceInUSD' = PaxPriceInUSD
  PROVE  Surplus' >= Surplus
<1> DEFINE usid == USIDForPAX(amount)
           minted == INITIAL_USID * Cardinality(created)
<1>1. minted \in Nat /\ totalSupply \in Nat /\ PRICE_UNIT \in Nat \ {0}
      /\ PaxPriceInUSD \in Nat \ {0}
  BY IssuedFacts
<1>2. paxHeld' = paxHeld + amount /\ totalSupply' = totalSupply + usid
  BY DEF Deposit
<1>3. usid \in Nat /\ usid * PRICE_UNIT <= amount * PaxPriceInUSD
  <2>1. amount * PaxPriceInUSD \in Nat
    BY <1>1
  <2>2. QED
    BY <1>1, <2>1, DivRoundsDown DEF USIDForPAX
<1>4. Issued = totalSupply - minted /\ Issued' = (totalSupply + usid) - minted
  BY <1>2 DEF Issued
<1> HIDE DEF usid, minted
<1>5. Issued' = Issued + usid
  BY <1>1, <1>3, <1>4
<1>6. QED
  BY <1>2, <1>3, <1>5, MovesSurplus

LEMMA WithdrawKeepsSurplus ==
  ASSUME Inv, NEW u \in Users, NEW amount \in Nat, Withdraw(u, amount),
         created' = created, PaxPriceInUSD' = PaxPriceInUSD
  PROVE  Surplus' >= Surplus
<1> DEFINE pax == PAXForUSID(amount)
           minted == INITIAL_USID * Cardinality(created)
<1>1. minted \in Nat /\ totalSupply \in Nat /\ PRICE_UNIT \in Nat \ {0}
      /\ PaxPriceInUSD \in Nat \ {0} /\ paxHeld \in Int
  BY IssuedFacts
<1>2. paxHeld' = paxHeld - pax /\ totalSupply' = totalSupply - amount
  BY DEF Withdraw
<1>3. pax \in Nat /\ pax * PaxPriceInUSD <= amount * PRICE_UNIT
  <2>1. amount * PRICE_UNIT \in Nat
    BY <1>1
  <2>2. QED
    BY <1>1, <2>1, DivRoundsDown DEF PAXForUSID
<1>4. Issued = totalSupply - minted /\ Issued' = (totalSupply - amount) - minted
  BY <1>2 DEF Issued
<1> HIDE DEF pax, minted
<1>5. Issued' = Issued + (-amount) /\ paxHeld' = paxHeld + (-pax)
      /\ -amount \in Int /\ -pax \in Int
  BY <1>1, <1>2, <1>3, <1>4
<1>6. (-amount) * PRICE_UNIT <= (-pax) * PaxPriceInUSD
  <2>1. /\ (-amount) * PRICE_UNIT = -(amount * PRICE_UNIT)
        /\ (-pax) * PaxPriceInUSD = -(pax * PaxPriceInUSD)
        /\ amount * PRICE_UNIT \in Int /\ pax * PaxPriceInUSD \in Int
    BY <1>1, <1>3
  <2>2. QED
    BY <1>3, <2>1
<1>7. QED
  BY <1>5, <1>6, MovesSurplus

(* The USID of a new market has no PAX behind it and is not counted.       *)
LEMMA CreateKeepsSurplus ==
  ASSUME Inv, NEW m \in Markets, NEW strategy \in Strategies, CreateMarket(m, strategy),
         PaxPriceInUSD' = PaxPriceInUSD
  PROVE  Surplus' >= Surplus
<1>1. /\ totalSupply \in Nat /\ PRICE_UNIT \in Nat /\ PaxPriceInUSD \in Nat
      /\ IsFiniteSet(created) /\ paxHeld \in Int /\ Issued \in Int
  BY IssuedFacts
<1>2. /\ m \notin created /\ created' = created \cup {m}
      /\ totalSupply' = totalSupply + INITIAL_USID /\ paxHeld' = paxHeld
  BY DEF CreateMarket, Mint
<1>3. Cardinality(created) \in Nat /\ Cardinality(created') = Cardinality(created) + 1
  BY <1>1, <1>2, FS_AddElement, FS_CardinalityType
<1> DEFINE c == Cardinality(created)
<1>4. Issued = totalSupply - INITIAL_USID * c
      /\ Issued' = (totalSupply + INITIAL_USID) - INITIAL_USID * (c + 1)
  BY <1>2, <1>3 DEF Issued
<1> HIDE DEF c
<1>5. c \in Nat /\ INITIAL_USID \in Nat
  BY <1>3, PoolAssumption DEF c
<1>6. INITIAL_USID * (c + 1) = INITIAL_USID * c + INITIAL_USID /\ INITIAL_USID * c \in Nat
  BY <1>5
<1>7. Issued' = Issued + 0 /\ paxHeld' = paxHeld + 0
  BY <1>1, <1>2, <1>4, <1>5, <1>6
<1>8. 0 * PRICE_UNIT <= 0 * PaxPriceInUSD
  BY <1>1
<1>9. QED
  BY <1>7, <1>8, MovesSurplus

(* The other steps leave PAX and the markets alone and at most burn USID.   *)
LEMMA OthersKeepSurplus ==
  ASSUME Inv, PaxPriceInUSD' = PaxPriceInUSD,
         \/ Trade \/ Airdrop \/ Position \/ HoldersMove \/ RecordByAnyone
         \/ TokensMove \/ PriceMoves \/ UNCHANGED vars
  PROVE  Surplus' >= Surplus
<1>1. totalSupply \in Nat /\ PoolTypeOK /\ created \subseteq Markets
  BY DEF Inv, TypeOK, USIDTypeOK
<1>2. paxHeld' = paxHeld /\ created' = created
  BY DEF Trade, Airdrop, Position, HoldersMove, TokensMove, PriceMoves, vars, Sync,
     RecordByAnyone, ClaimFees, SetFeeStrategy, TransferPosition, SetFallbackPrice,
     ToggleFallbackMode, DexPriceMoves, usidVars, positionVars
<1>3. SUFFICES ASSUME totalSupply' # totalSupply
               PROVE  \E amount \in Nat : totalSupply' = totalSupply - amount
  <2>1. CASE totalSupply' = totalSupply
    <3>1. totalSupply' = totalSupply - 0
      BY <1>1, <2>1
    <3>2. QED
      BY <1>2, <3>1, BurnsSurplus
  <2>2. CASE totalSupply' # totalSupply
    BY <1>2, <1>3, <2>2, BurnsSurplus
  <2>3. QED
    BY <2>1, <2>2
<1>4. \/ \E u \in Users, amount \in TransferAmounts : Burn(u, amount)
      \/ \E n \in created : Burn(FeeCollector, accumulatedFees[n])
  BY <1>3 DEF Trade, Airdrop, Position, HoldersMove, TokensMove, PriceMoves, vars, Sync,
     RecordByAnyone, ClaimFees, SetFeeStrategy, TransferPosition, SetFallbackPrice,
     ToggleFallbackMode, DexPriceMoves, usidVars, ledgerVars, ClaimAirdrop,
     DistributeFees, TransferUSID
<1>5. CASE \E u \in Users, amount \in TransferAmounts : Burn(u, amount)
  BY <1>5, AmountsAssumption DEF Burn
<1>6. CASE \E n \in created : Burn(FeeCollector, accumulatedFees[n])
  BY <1>1, <1>6 DEF Burn, PoolTypeOK
<1>7. QED
  BY <1>4, <1>5, <1>6

LEMMA NextKeepsSurplus ==
  Inv /\ [Next]_vars => (PaxPriceInUSD' = PaxPriceInUSD => Surplus' >= Surplus)
<1> SUFFICES ASSUME Inv, [Next]_vars, PaxPriceInUSD' = PaxPriceInUSD
             PROVE  Surplus' >= Surplus
  OBVIOUS
<1>1. CASE \E m \in Markets, strategy \in Strategies : CreateMarket(m, strategy)
  BY <1>1, CreateKeepsSurplus
<1>2. CASE Exchange
  <2>1. created' = created
    BY <1>2 DEF Exchange, positionVars
  <2>2. DepositAmounts \subseteq Nat /\ WithdrawAmounts \subseteq Nat
    BY AmountsAssumption
  <2>3. QED
    BY <1>2, <2>1, <2>2, DepositKeepsSurplus, WithdrawKeepsSurplus DEF Exchange
<1>3. CASE \/ Trade \/ Airdrop \/ Position \/ HoldersMove \/ RecordByAnyone
           \/ TokensMove \/ PriceMoves \/ UNCHANGED vars
  BY <1>3, OthersKeepSurplus
<1>4. QED
  BY <1>1, <1>2, <1>3 DEF Next

(* No step but a change of the price lowers what the PAX held is worth     *)
(* beyond the USID issued for it: each conversion of deposit and withdraw  *)
(* rounds against its caller (PaxPriceOracle.getUSIDForPAX, getPAXForUSID).*)
THEOREM RoundingAlwaysKeepsBacking == Spec => RoundingKeepsBacking
<1>1. Inv /\ [Next]_vars => [PaxPriceInUSD' = PaxPriceInUSD => Surplus' >= Surplus]_vars
  BY NextKeepsSurplus
<1>2. QED
  BY <1>1, AlwaysInv, PTL DEF Spec, RoundingKeepsBacking
=============================================================================
