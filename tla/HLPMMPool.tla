------------------------------ MODULE HLPMMPool -----------------------------
(***************************************************************************)
(* contracts/core/HLPMMPool.sol and contracts/periphery/FeeCollector.sol:  *)
(* the V1 pool trades a market's token against USID and pays its fees to   *)
(* the collector.  The USID reserve keeps counting the fee of a purchase   *)
(* that was paid out, and the token reserve counts the fee of a sale       *)
(* twice, until the next sync.                                             *)
(*                                                                         *)
(* As in V2, the router moves the input to the pool in the transaction     *)
(* that swaps it, so the two are one action; swap trusts its caller for    *)
(* that, and calls of swap that no router makes are left out.  A revert is *)
(* an action that is not enabled.  The rate is any member of FeeRates.     *)
(***************************************************************************)
EXTENDS USID

CONSTANTS
  INITIAL_USID,
  INITIAL_TOKENS,
  FeeRates,         \* basis points, within MIN_FEE..MAX_FEE
  RecordAmounts     \* amounts accounts that are no pool record as fees

ASSUME PoolAssumption ==
  /\ INITIAL_USID \in Nat \ {0}
  /\ INITIAL_TOKENS \in Nat \ {0}
  /\ FeeRates \subseteq 10..300
  /\ RecordAmounts \subseteq Nat \ {0}

VARIABLES
  tokenBal,         \* balances of each market's HLPMMToken
  reserveUSID,
  reserveToken,
  kLast,
  cumulativeFees,
  accumulatedFees,  \* FeeCollector: nftId -> USID
  airdropPool,      \* FeeCollector: nftId -> USID
  unpaid            \* history, no storage: what accounts that are no pool,
                    \* and so pay nothing, have recorded as fees

reserveVars == <<reserveUSID, reserveToken, kLast>>
collectorVars == <<accumulatedFees, airdropPool, unpaid>>
poolVars == <<tokenBal, reserveVars, cumulativeFees, collectorVars>>

PoolTypeOK ==
  /\ tokenBal \in [Markets -> [Accounts -> Nat]]
  /\ reserveUSID \in [Markets -> Nat]
  /\ reserveToken \in [Markets -> Nat]
  /\ kLast \in [Markets -> Nat]
  /\ cumulativeFees \in [Markets -> Nat]
  /\ accumulatedFees \in [Markets -> Nat]
  /\ airdropPool \in [Markets -> Nat]
  /\ unpaid \in Nat

PoolInit ==
  /\ tokenBal = [m \in Markets |-> [a \in Accounts |-> 0]]
  /\ reserveUSID = [m \in Markets |-> 0]
  /\ reserveToken = [m \in Markets |-> 0]
  /\ kLast = [m \in Markets |-> 0]
  /\ cumulativeFees = [m \in Markets |-> 0]
  /\ accumulatedFees = [m \in Markets |-> 0]
  /\ airdropPool = [m \in Markets |-> 0]
  /\ unpaid = 0

-----------------------------------------------------------------------------
(* PoolMath.getAmountOut and its reverts. *)
CanQuote(amountIn, reserveIn, reserveOut) ==
  amountIn > 0 /\ reserveIn > 0 /\ reserveOut > 0

AmountOut_RoundsUp(amountIn, reserveIn, reserveOut) ==
  (amountIn * reserveOut) \div (reserveIn + amountIn) + 1

AmountOut(amountIn, reserveIn, reserveOut) ==
  (amountIn * reserveOut) \div (reserveIn + amountIn)

(* FeeCalculator.calculateFee at a given rate. *)
FeeOf(amountIn, feeBps) == (amountIn * feeBps) \div 10000

(* What a swap makes of pool m: its reserves, kLast, the growth of         *)
(* cumulativeFees, the USID fee for the collector and the balances of the  *)
(* market's token.                                                         *)
Effects == [usd : Nat, token : Nat, k : Nat, earned : Nat, fee : Nat,
            holders : [Accounts -> Nat]]

(* A purchase: the fee leaves the pool but stays in the reserve. *)
UsdAfterBuy_FeeTwice(usd, amountIn, fee) == usd + amountIn + fee

UsdAfterBuy(usd, amountIn, fee) == usd + amountIn

BuyOut(m, amountIn, feeBps) ==
  AmountOut(amountIn - FeeOf(amountIn, feeBps), reserveUSID[m], reserveToken[m])

CanBuy(m, amountIn, amountOutMin, feeBps) ==
  /\ CanQuote(amountIn - FeeOf(amountIn, feeBps), reserveUSID[m], reserveToken[m])
  /\ BuyOut(m, amountIn, feeBps) >= amountOutMin
  /\ BuyOut(m, amountIn, feeBps) <= tokenBal[m][m]

BuyEffect(m, to, amountIn, feeBps) ==
  LET fee == FeeOf(amountIn, feeBps)
      out == BuyOut(m, amountIn, feeBps)
      usd == UsdAfterBuy(reserveUSID[m], amountIn, fee)
      token == reserveToken[m] - out
  IN [usd |-> usd, token |-> token, k |-> usd * token,
      earned |-> fee, fee |-> fee,
      holders |-> Transfer(tokenBal[m], m, to, out)]

SellOut(m, amountIn, feeBps) ==
  AmountOut(amountIn - FeeOf(amountIn, feeBps), reserveToken[m], reserveUSID[m])

(* The USID value of a fee in tokens, at the reserves after the swap. *)
UsidFee(m, amountIn, feeBps) ==
  LET fee == FeeOf(amountIn, feeBps)
  IN IF fee > 0
       THEN AmountOut(fee, reserveToken[m] + amountIn,
                      reserveUSID[m] - SellOut(m, amountIn, feeBps))
       ELSE 0

CanSell(m, seller, amountIn, amountOutMin, feeBps) ==
  LET fee == FeeOf(amountIn, feeBps)
      out == SellOut(m, amountIn, feeBps)
  IN /\ amountIn <= tokenBal[m][seller]
     /\ CanQuote(amountIn - fee, reserveToken[m], reserveUSID[m])
     /\ fee > 0 => CanQuote(fee, reserveToken[m] + amountIn, reserveUSID[m] - out)
     /\ out >= amountOutMin
     /\ out + UsidFee(m, amountIn, feeBps) <= balanceOf[m]

(* The fee is part of amountIn and is added once more. *)
TokenAfterSell(token, amountIn, fee) == token + amountIn + fee

(* A sale: kLast is taken before the fee is settled, and cumulativeFees    *)
(* grows by tokens.                                                        *)
SellEffect(m, seller, amountIn, feeBps) ==
  LET fee == FeeOf(amountIn, feeBps)
      usd == reserveUSID[m] - SellOut(m, amountIn, feeBps)
      usidFee == UsidFee(m, amountIn, feeBps)
  IN [usd |-> usd - usidFee,
      token |-> TokenAfterSell(reserveToken[m], amountIn, fee),
      k |-> usd * (reserveToken[m] + amountIn),
      earned |-> fee, fee |-> usidFee,
      holders |-> Transfer(tokenBal[m], seller, m, amountIn)]

(* The effects e of the pools that swap, on all variables of the pools.    *)
Apply(e) ==
  LET Swapped(m) == m \in DOMAIN e
  IN /\ reserveUSID' =
          [m \in Markets |-> IF Swapped(m) THEN e[m].usd ELSE reserveUSID[m]]
     /\ reserveToken' =
          [m \in Markets |-> IF Swapped(m) THEN e[m].token ELSE reserveToken[m]]
     /\ kLast' = [m \in Markets |-> IF Swapped(m) THEN e[m].k ELSE kLast[m]]
     /\ cumulativeFees' = [m \in Markets |->
          cumulativeFees[m] + IF Swapped(m) THEN e[m].earned ELSE 0]
     /\ accumulatedFees' = [m \in Markets |->
          accumulatedFees[m] + IF Swapped(m) THEN e[m].fee ELSE 0]
     /\ tokenBal' =
          [m \in Markets |-> IF Swapped(m) THEN e[m].holders ELSE tokenBal[m]]
     /\ UNCHANGED <<airdropPool, unpaid>>

-----------------------------------------------------------------------------
(* swapExactUSIDForTokens *)
Buy(m, payer, to, amountIn, amountOutMin, feeBps) ==
  /\ amountIn <= balanceOf[payer]
  /\ CanBuy(m, amountIn, amountOutMin, feeBps)
  /\ Apply([x \in {m} |-> BuyEffect(m, to, amountIn, feeBps)])
  /\ balanceOf' = Transfer(Transfer(balanceOf, payer, m, amountIn),
                           m, FeeCollector, FeeOf(amountIn, feeBps))

(* swapExactTokensForUSID *)
Sell(m, seller, to, amountIn, amountOutMin, feeBps) ==
  /\ CanSell(m, seller, amountIn, amountOutMin, feeBps)
  /\ Apply([x \in {m} |-> SellEffect(m, seller, amountIn, feeBps)])
  /\ balanceOf' =
       Transfer(Transfer(balanceOf, m, FeeCollector, UsidFee(m, amountIn, feeBps)),
                m, to, SellOut(m, amountIn, feeBps))

(* swapExactTokensForTokensMultiHop from the token of m over USID to that  *)
(* of n: the first pool pays the second one.                               *)
MultiHop(m, n, seller, to, amountIn, amountOutMin, feeBps, feeBpsNext) ==
  LET usid == SellOut(m, amountIn, feeBps)
      sale == SellEffect(m, seller, amountIn, feeBps)
      purchase == BuyEffect(n, to, usid, feeBpsNext)
  IN /\ m # n
     /\ CanSell(m, seller, amountIn, 0, feeBps)
     /\ CanBuy(n, usid, amountOutMin, feeBpsNext)
     /\ Apply([x \in {m, n} |-> IF x = m THEN sale ELSE purchase])
     /\ balanceOf' =
          Transfer(Transfer(Transfer(balanceOf, m, FeeCollector, sale.fee),
                            m, n, usid),
                   n, FeeCollector, purchase.fee)

KAfterSync(m, usidBalance) == usidBalance * tokenBal[m][m]

(* sync, on what the pool holds of USID then. *)
SyncTo(m, usidBalance) ==
  /\ reserveUSID' = [reserveUSID EXCEPT ![m] = usidBalance]
  /\ reserveToken' = [reserveToken EXCEPT ![m] = tokenBal[m][m]]
  /\ kLast' = [kLast EXCEPT ![m] = KAfterSync(m, usidBalance)]

-----------------------------------------------------------------------------
(* FeeCollector.accumulateFee called by an account that is no pool, for    *)
(* any market: the sender is only checked not to be address(0).            *)
AccumulateUnpaid(n, amount) ==
  /\ accumulatedFees' = [accumulatedFees EXCEPT ![n] = @ + amount]
  /\ unpaid' = unpaid + amount
  /\ UNCHANGED <<tokenBal, reserveVars, cumulativeFees, airdropPool>>

Strategies == {"CLAIM", "BURN", "AIRDROP", "LP_REWARDS"}

AccumulatedAfterDistribution_Kept(n) == accumulatedFees

AccumulatedAfterDistribution(n) == [accumulatedFees EXCEPT ![n] = 0]

(* FeeCollector.distributeFees *)
DistributeFees(n, recipient, strategy) ==
  LET amount == accumulatedFees[n]
  IN /\ amount > 0
     /\ accumulatedFees' = AccumulatedAfterDistribution(n)
     /\ \/ /\ strategy = "CLAIM"
           /\ TransferUSID(FeeCollector, recipient, amount)
           /\ UNCHANGED <<reserveVars, airdropPool>>
        \/ /\ strategy = "BURN"
           /\ Burn(FeeCollector, amount)
           /\ UNCHANGED <<reserveVars, airdropPool>>
        \/ /\ strategy = "AIRDROP"
           /\ airdropPool' = [airdropPool EXCEPT ![n] = @ + amount]
           /\ UNCHANGED <<reserveVars, ledgerVars>>
        \/ /\ strategy = "LP_REWARDS"
           /\ TransferUSID(FeeCollector, n, amount)
           /\ SyncTo(n, balanceOf'[n])
           /\ UNCHANGED airdropPool
     /\ UNCHANGED <<tokenBal, cumulativeFees, unpaid>>

WithinAirdropPool(n, total) == total <= airdropPool[n]

(* claimAirdrop: shares gives each recipient the sum of his amounts.       *)
ClaimAirdrop(n, shares) ==
  LET total == Total(shares, Users)
  IN /\ WithinAirdropPool(n, total)
     /\ total <= balanceOf[FeeCollector]
     /\ airdropPool' = [airdropPool EXCEPT ![n] = @ - total]
     /\ balanceOf' = [a \in Accounts |->
          CASE a \in Users -> balanceOf[a] + shares[a]
            [] a = FeeCollector -> balanceOf[a] - total
            [] OTHER -> balanceOf[a]]
     /\ UNCHANGED <<tokenBal, reserveVars, cumulativeFees>>
     /\ UNCHANGED <<totalSupply, accumulatedFees, unpaid>>
=============================================================================
