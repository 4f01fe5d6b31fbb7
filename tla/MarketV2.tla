------------------------------ MODULE MarketV2 ------------------------------
(***************************************************************************)
(* The V2 money flow: pools, stablecoin registry, fee collector and market *)
(* positions together.  Of the NFT contract only the owner and the fee     *)
(* strategy of a position matter here: a claim pays the owner whoever may  *)
(* act for him.                                                            *)
(***************************************************************************)
EXTENDS HLPMMPoolV2

CONSTANTS
  Funds,            \* what each user holds of each stablecoin at first
  TradeAmounts,     \* amounts users trade
  TransferAmounts,  \* amounts users send to a pool outside a swap
  MinOuts           \* the amountOutMin arguments tried

ASSUME AmountsAssumption ==
  /\ Funds \in Nat
  /\ TradeAmounts \subseteq Nat
  /\ TransferAmounts \subseteq Nat
  /\ MinOuts \subseteq Nat

VARIABLES
  nftOwner,    \* _owners
  feeStrategy

positionVars == <<nftOwner, feeStrategy>>
vars == <<stableBal, poolVars, collectorVars, registryVars, positionVars>>

TypeOK ==
  /\ stableBal \in [Stables -> [Accounts -> Nat]]
  /\ nftOwner \in [Markets -> Users]
  /\ feeStrategy \in [Markets -> Strategies]
  /\ RegistryTypeOK
  /\ CollectorTypeOK
  /\ PoolTypeOK

Init ==
  /\ stableBal = [s \in Stables |->
       [a \in Accounts |-> IF a \in Users THEN Funds ELSE 0]]
  /\ nftOwner \in [Markets -> Users]
  /\ feeStrategy \in [Markets -> Strategies]
  /\ RegistryInit
  /\ CollectorInit
  /\ PoolInit

(* MarketNFTV2.claimFees: the owner is paid, as the position's strategy    *)
(* says.                                                                   *)
ClaimFees(n) ==
  /\ DistributeFees(n, nftOwner[n], feeStrategy[n])
  /\ UNCHANGED <<poolVars, registryVars, positionVars>>

SetFeeStrategy(n, strategy) ==
  /\ feeStrategy' = [feeStrategy EXCEPT ![n] = strategy]
  /\ UNCHANGED <<stableBal, poolVars, collectorVars, registryVars, nftOwner>>

TransferPosition(n, to) ==
  /\ nftOwner' = [nftOwner EXCEPT ![n] = to]
  /\ UNCHANGED <<stableBal, poolVars, collectorVars, registryVars, feeStrategy>>

(* An ERC-20 transfer of coins to a pool, not followed by a swap. *)
SendStableToPool(s, from, m, amount) ==
  /\ amount <= stableBal[s][from]
  /\ stableBal' = [stableBal EXCEPT ![s] = Transfer(@, from, m, amount)]
  /\ UNCHANGED <<poolVars, collectorVars, registryVars, positionVars>>

(* The same for the market's own token. *)
SendTokenToPool(from, m, amount) ==
  /\ amount <= tokenBal[m][from]
  /\ tokenBal' = [tokenBal EXCEPT ![m] = Transfer(@, from, m, amount)]
  /\ UNCHANGED <<stableBal, realReserveUSD, reserveToken, cumulativeFees>>
  /\ UNCHANGED <<collectorVars, registryVars, positionVars>>

Trade ==
  \E m \in Markets, s \in Stables, u, to \in Users, amount \in TradeAmounts,
     minOut \in MinOuts, feeBps \in FeeRates :
    /\ Buy(m, s, u, to, amount, minOut, feeBps)
         \/ Sell(m, s, u, to, amount, minOut, feeBps)
    /\ UNCHANGED positionVars

(* A call of the collector's accumulateFee that no pool makes. *)
RecordByAnyone ==
  /\ \E n \in Markets, amount \in RecordAmounts : AccumulateUnpaid(n, amount)
  /\ UNCHANGED <<stableBal, poolVars, registryVars, positionVars>>

Administer ==
  /\ RegistryNext
  /\ UNCHANGED <<stableBal, poolVars, collectorVars, positionVars>>

Next ==
  \/ Trade
  \/ RecordByAnyone
  \/ Administer
  \/ \E m \in Markets : Sync(m) /\ UNCHANGED positionVars
  \/ \E n \in Markets : ClaimFees(n)
  \/ \E n \in Markets, st \in Strategies : SetFeeStrategy(n, st)
  \/ \E n \in Markets, u \in Users : TransferPosition(n, u)
  \/ \E s \in Stables, u \in Users, m \in Markets, a \in TransferAmounts :
       SendStableToPool(s, u, m, a) \/ SendTokenToPool(u, m, a)

Spec == Init /\ [][Next]_vars

-----------------------------------------------------------------------------
(* A pool never counts on tokens it does not hold, so a buyer's transfer   *)
(* cannot fail (swap, sync).                                               *)
TokensBacked == \A m \in Markets : reserveToken[m] <= tokenBal[m][m]

(* "realReserveUSD: Sum of all real stablecoins held" (HLPMMPoolV2.sol:48):*)
(* the real reserve never exceeds what the pool holds over all coins,      *)
(* approved or not, whatever mix of coins the fees and payouts were made   *)
(* in, and across syncs, donations and removals of a coin.                 *)
ReservesBacked ==
  \A m \in Markets : realReserveUSD[m] <= Total(Holdings(m), Stables)

(* No coin is removed in this step. *)
NoRemoval == approved \subseteq approved'

(* The pool can pay its whole real reserve in coins of the list, so no sale*)
(* that passes the real-liquidity floor ends in                            *)
(* "INSUFFICIENT_STABLE_BALANCE".                                          *)
CanPay(m) == realReserveUSD[m] <= Total(Holdings(m), Range(stablecoins))

(* A pool that can pay stays able to until a coin is removed, and whenever *)
(* sync corrects the reserve the pool can pay it, whatever coins were sent *)
(* to it by hand and listed since (swap, _sendStable, sync, addStablecoin).*)
FloorIsPayable ==
  [][\A m \in Markets :
       /\ CanPay(m) /\ NoRemoval => CanPay(m)'
       /\ realReserveUSD'[m] /= realReserveUSD[m] /\ UNCHANGED stableBal
            => CanPay(m)']_vars

(* When nobody transfers coins to a pool by hand and no coin is removed,   *)
(* both reserves are exactly the balances, so sync changes nothing         *)
(* (HLPMMPoolV2.test.js: "Sync should not change anything if balances are  *)
(* consistent").                                                           *)
BooksExact ==
  \A m \in Markets :
    /\ reserveToken[m] = tokenBal[m][m]
    /\ realReserveUSD[m] = Total(Holdings(m), Stables)

RecordedFees == [n \in Markets |-> Total(feeBalances[n], Stables)]

CollectorHoldings == [s \in Stables |-> stableBal[s][FeeCollector]]

(* Over all coins and markets the collector is short of the fees it has    *)
(* recorded by no more than what was recorded by accounts that are no      *)
(* pool: accumulateFee does not check that its caller paid, and sales and  *)
(* claims do not add to the shortage.  It may lack more coin by coin.      *)
FeesCovered ==
  Total(RecordedFees, Markets) <= Total(CollectorHoldings, Stables) + unpaid

(* A coin with a recorded fee is on its market's list: _sendAllFees visits *)
(* the list and then deletes it, so a recorded coin that is not listed     *)
(* would not be paid until the market earns in it again.                   *)
FeesListed ==
  \A n \in Markets, s \in Stables :
    feeBalances[n][s] > 0 => s \in Range(feeStablecoins[n])

(* What a market may claim was recorded coin by coin as well, except for   *)
(* calls of accumulateFee with address(0) since its last claim, across any *)
(* sequence of claims under any strategy.                                  *)
PendingCovered ==
  \A n \in Markets : pendingFees[n] <= RecordedFees[n] + coinless[n]

(* The collector's counters, lists and balances agree in all three ways.   *)
CollectorConsistent == FeesCovered /\ FeesListed /\ PendingCovered

(* A buy never lowers the product of the reserves that set the price.      *)
BuyKeepsProduct ==
  [][\A m \in Markets :
       reserveToken'[m] < reserveToken[m] =>
         EffectiveReserveUSD(m)' * reserveToken'[m]
           >= EffectiveReserveUSD(m) * reserveToken[m]]_vars

-----------------------------------------------------------------------------
(* What the repository says of the program and the program does not do.    *)

(* FeeCollectorV2.sol:97, "@return amount Total USD value distributed": a  *)
(* claim under CLAIM pays the owner what it reports.                       *)
ClaimPaysWhatItReports ==
  [][\A n \in Markets :
       pendingFees[n] > 0 /\ pendingFees'[n] = 0 /\ feeStrategy[n] = "CLAIM" =>
         Total([s \in Stables |-> stableBal'[s][nftOwner[n]]], Stables)
           = Total([s \in Stables |-> stableBal[s][nftOwner[n]]], Stables)
             + pendingFees[n]]_vars
=============================================================================
