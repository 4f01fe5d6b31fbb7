----------------------------- MODULE HLPMMPoolV2 ----------------------------
(***************************************************************************)
(* contracts/v2/core/HLPMMPoolV2.sol: the reserves of a market's pool and  *)
(* the swaps against them.  The price is set by a virtual USD reserve that *)
(* nobody paid in plus the real one; only the real one may be paid out.    *)
(*                                                                         *)
(* A swap is called by the router in the transaction that moved the input  *)
(* to the pool, so a swap is one action that does both.  A revert undoes   *)
(* the transaction, so a call that reverts is an action that is not        *)
(* enabled.  The fee rate is any member of FeeRates: calculateFee derives  *)
(* it from the pool's age, volatility and holders.                         *)
(***************************************************************************)
EXTENDS PoolMathV2, StablecoinRegistry, FeeCollectorV2

CONSTANTS
  VirtualUSD,     \* HLPMMFactoryV2.VIRTUAL_USD
  InitialTokens,  \* HLPMMFactoryV2.INITIAL_TOKENS, all minted to the pool
  FeeRates        \* rates in basis points, within MIN_FEE..MAX_FEE

ASSUME PoolAssumption ==
  /\ VirtualUSD \in Nat \ {0}
  /\ InitialTokens \in Nat \ {0}
  /\ FeeRates \subseteq 10..300

VARIABLES
  tokenBal,        \* balances of each market's HLPMMTokenV2
  realReserveUSD,
  reserveToken,
  cumulativeFees

poolVars == <<tokenBal, realReserveUSD, reserveToken, cumulativeFees>>

PoolTypeOK ==
  /\ tokenBal \in [Markets -> [Accounts -> Nat]]
  /\ realReserveUSD \in [Markets -> Nat]
  /\ reserveToken \in [Markets -> Nat]
  /\ cumulativeFees \in [Markets -> Nat]

PoolInit ==
  /\ tokenBal = [m \in Markets |->
       [a \in Accounts |-> IF a = m THEN InitialTokens ELSE 0]]
  /\ realReserveUSD = [m \in Markets |-> 0]
  /\ reserveToken = [m \in Markets |-> InitialTokens]
  /\ cumulativeFees = [m \in Markets |-> 0]

EffectiveReserveUSD(m) == VirtualUSD + realReserveUSD[m]

-----------------------------------------------------------------------------
(* _sendStable: the preferred coin first, then the registry's list.        *)

Holdings(m) == [s \in Stables |-> stableBal[s][m]]

(* The coins drawn on before coin s. *)
AheadOf(preferred, s) ==
  IF s = preferred
    THEN {}
    ELSE {preferred} \cup
         {stablecoins[j] : j \in {k \in DOMAIN stablecoins :
            \E i \in DOMAIN stablecoins : k < i /\ stablecoins[i] = s}}

Payable(preferred) == Range(stablecoins) \cup {preferred}

(* What is paid in each coin: as much as is left to pay after the coins    *)
(* ahead of it, up to what the pool holds.                                 *)
Payout(holdings, preferred, amount) ==
  [s \in Stables |->
    IF s \in Payable(preferred)
      THEN Smaller(holdings[s],
                   AtLeastZero(amount - Total(holdings, AheadOf(preferred, s))))
      ELSE 0]

CanSendStable(holdings, preferred, amount) ==
  amount <= Total(holdings, Payable(preferred))

-----------------------------------------------------------------------------

(* The fee leaves the pool, so the real reserve grows by the rest.         *)
RealAfterBuy_WithFee(real, amountIn, fee) == real + amountIn

RealAfterBuy(real, amountIn, fee) == real + amountIn - fee

(* Buy tokens of market m: the payer's coins go to the pool, the fee goes  *)
(* on to the collector in the same coin, the tokens go to the recipient.   *)
Buy(m, s, payer, to, amountIn, amountOutMin, feeBps) ==
  LET fee == FeeAmount(amountIn, feeBps)
      out == GetAmountOut(amountIn - fee, EffectiveReserveUSD(m), reserveToken[m])
  IN /\ amountIn > 0
     /\ s \in approved
     /\ amountIn <= stableBal[s][payer]
     /\ CanQuoteOut(amountIn - fee, EffectiveReserveUSD(m), reserveToken[m])
     /\ out <= tokenBal[m][m]
     /\ out >= amountOutMin
     /\ stableBal' = [stableBal EXCEPT ![s] =
          Transfer(Transfer(@, payer, m, amountIn), m, FeeCollector, fee)]
     /\ tokenBal' = [tokenBal EXCEPT ![m] = Transfer(@, m, to, out)]
     /\ realReserveUSD' =
          [realReserveUSD EXCEPT ![m] = RealAfterBuy(@, amountIn, fee)]
     /\ reserveToken' = [reserveToken EXCEPT ![m] = @ - out]
     /\ cumulativeFees' = [cumulativeFees EXCEPT ![m] = @ + fee]
     /\ IF fee > 0 THEN AccumulateFee(m, s, fee) ELSE UNCHANGED collectorVars
     /\ UNCHANGED registryVars

(* The USD value of a fee taken in tokens. *)
FeeUsdValue(fee, amountIn, tokens, effectiveUSD) ==
  IF fee > 0 THEN GetAmountOut(fee, tokens + amountIn, effectiveUSD) ELSE 0

TokensAfterSell_FeeTwice(tokens, amountIn, fee) == tokens + amountIn + fee

TokensAfterSell(tokens, amountIn, fee) == tokens + amountIn

(* Sell tokens of market m.  The fee's value is paid to the collector in   *)
(* whatever coins _sendStable finds, and recorded under the preferred one. *)
Sell(m, preferred, seller, to, amountIn, amountOutMin, feeBps) ==
  LET fee == FeeAmount(amountIn, feeBps)
      effectiveUSD == EffectiveReserveUSD(m)
      out == GetAmountOut(amountIn - fee, reserveToken[m], effectiveUSD)
      feeUsd == FeeUsdValue(fee, amountIn, reserveToken[m], effectiveUSD)
      feeCoins == Payout(Holdings(m), preferred, feeUsd)
      left == [s \in Stables |-> Holdings(m)[s] - feeCoins[s]]
      outCoins == Payout(left, preferred, out)
  IN /\ amountIn > 0
     /\ preferred \in approved
     /\ amountIn <= tokenBal[m][seller]
     /\ CanQuoteOut(amountIn - fee, reserveToken[m], effectiveUSD)
     /\ IsWithinRealLiquidity(out + feeUsd, realReserveUSD[m])
     /\ out >= amountOutMin
     /\ CanSendStable(Holdings(m), preferred, feeUsd)
     /\ CanSendStable(left, preferred, out)
     /\ stableBal' = [s \in Stables |->
          Transfer(Transfer(stableBal[s], m, FeeCollector, feeCoins[s]),
                   m, to, outCoins[s])]
     /\ tokenBal' = [tokenBal EXCEPT ![m] = Transfer(@, seller, m, amountIn)]
     /\ realReserveUSD' = [realReserveUSD EXCEPT ![m] = @ - (out + feeUsd)]
     /\ reserveToken' =
          [reserveToken EXCEPT ![m] = TokensAfterSell(@, amountIn, fee)]
     /\ cumulativeFees' = [cumulativeFees EXCEPT ![m] = @ + feeUsd]
     /\ IF feeUsd > 0 THEN AccumulateFee(m, preferred, feeUsd)
                      ELSE UNCHANGED collectorVars
     /\ UNCHANGED registryVars

(* getTotalStableBalance: the coins approved now. *)
StableBalance_AllCoins(m) == Total(Holdings(m), Stables)

StableBalance(m) == Total(Holdings(m), Range(stablecoins))

(* sync: the reserves become the balances, in the coins still approved.    *)
Sync(m) ==
  /\ reserveToken' = [reserveToken EXCEPT ![m] = tokenBal[m][m]]
  /\ realReserveUSD' = [realReserveUSD EXCEPT ![m] = StableBalance(m)]
  /\ UNCHANGED <<stableBal, tokenBal, cumulativeFees>>
  /\ UNCHANGED <<collectorVars, registryVars>>
=============================================================================
