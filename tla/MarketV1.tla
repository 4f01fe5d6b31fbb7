------------------------------ MODULE MarketV1 ------------------------------
(***************************************************************************)
(* The V1 money flow: USID, pools, fee collector and market positions, and *)
(* the factory that creates markets.  Of a position (MarketNFT) the owner  *)
(* and the strategy matter: fees go to the owner whoever claims them.      *)
(***************************************************************************)
EXTENDS HLPMMPool

CONSTANTS
  DepositAmounts,   \* PAX
  WithdrawAmounts,  \* USID
  TradeAmounts,
  TransferAmounts,  \* sent outside of swaps
  Shares            \* amounts of an airdrop

ASSUME AmountsAssumption ==
  /\ DepositAmounts \subseteq Nat
  /\ WithdrawAmounts \subseteq Nat
  /\ TradeAmounts \subseteq Nat
  /\ TransferAmounts \subseteq Nat
  /\ Shares \subseteq Nat

VARIABLES
  created,      \* the markets of the factory
  nftOwner,
  feeStrategy

positionVars == <<created, nftOwner, feeStrategy>>
vars == <<usidVars, poolVars, positionVars>>

TypeOK ==
  /\ USIDTypeOK
  /\ PoolTypeOK
  /\ created \subseteq Markets
  /\ nftOwner \in [Markets -> Users]
  /\ feeStrategy \in [Markets -> Strategies]

Init ==
  /\ USIDInit
  /\ PoolInit
  /\ created = {}
  /\ nftOwner \in [Markets -> Users]
  /\ feeStrategy = [m \in Markets |-> "CLAIM"]

-----------------------------------------------------------------------------
(* HLPMMFactory.createMarket with HLPMMToken.initialize, USID.mint,        *)
(* HLPMMPool.initialize and MarketNFT.mint.  The owner of a market that is *)
(* not created is not a state of the program; he becomes its creator.      *)
CreateMarket(m, initialStrategy) ==
  /\ m \notin created
  /\ created' = created \cup {m}
  /\ feeStrategy' = [feeStrategy EXCEPT ![m] = initialStrategy]
  /\ tokenBal' = [tokenBal EXCEPT ![m][m] = INITIAL_TOKENS]
  /\ Mint(m, INITIAL_USID)
  /\ reserveUSID' = [reserveUSID EXCEPT ![m] = INITIAL_USID]
  /\ reserveToken' = [reserveToken EXCEPT ![m] = INITIAL_TOKENS]
  /\ kLast' = [kLast EXCEPT ![m] = INITIAL_USID * INITIAL_TOKENS]
  /\ UNCHANGED <<paxBal, paxHeld, oracleVars, cumulativeFees, collectorVars>>
  /\ UNCHANGED nftOwner

Trade ==
  \E m \in created, u, to \in Users, amount \in TradeAmounts, feeBps \in FeeRates :
    /\ \/ Buy(m, u, to, amount, 0, feeBps)
       \/ Sell(m, u, to, amount, 0, feeBps)
       \/ \E n \in created, next \in FeeRates :
            MultiHop(m, n, u, to, amount, 0, feeBps, next)
    /\ UNCHANGED <<totalSupply, paxBal, paxHeld, oracleVars, positionVars>>

Sync(m) ==
  /\ SyncTo(m, balanceOf[m])
  /\ UNCHANGED <<usidVars, tokenBal, cumulativeFees, collectorVars, positionVars>>

ClaimFees(n) ==
  /\ DistributeFees(n, nftOwner[n], feeStrategy[n])
  /\ UNCHANGED <<paxBal, paxHeld, oracleVars, positionVars>>

SetFeeStrategy(n, strategy) ==
  /\ feeStrategy' = [feeStrategy EXCEPT ![n] = strategy]
  /\ UNCHANGED <<usidVars, poolVars, created, nftOwner>>

TransferPosition(n, to) ==
  /\ nftOwner' = [nftOwner EXCEPT ![n] = to]
  /\ UNCHANGED <<usidVars, poolVars, created, feeStrategy>>

Airdrop ==
  \E n \in created, shares \in [Users -> Shares] :
    /\ ClaimAirdrop(n, shares)
    /\ UNCHANGED <<paxBal, paxHeld, oracleVars, positionVars>>

(* A call of the collector's accumulateFee that no pool makes. *)
RecordByAnyone ==
  /\ \E n \in Markets, amount \in RecordAmounts : AccumulateUnpaid(n, amount)
  /\ UNCHANGED <<usidVars, positionVars>>

Position ==
  \E n \in created :
    \/ Sync(n)
    \/ ClaimFees(n)
    \/ \E strategy \in Strategies : SetFeeStrategy(n, strategy)
    \/ \E to \in Users : TransferPosition(n, to)

Exchange ==
  /\ \E u \in Users :
       \/ \E amount \in DepositAmounts : Deposit(u, amount)
       \/ \E amount \in WithdrawAmounts : Withdraw(u, amount)
  /\ UNCHANGED <<poolVars, positionVars>>

(* A user burns his own USID, or sends it to a user or a pool by hand. *)
HoldersMove ==
  /\ \E u \in Users, amount \in TransferAmounts :
       \/ Burn(u, amount)
       \/ \E to \in Users \cup created : TransferUSID(u, to, amount)
  /\ UNCHANGED <<paxBal, paxHeld, oracleVars, poolVars, positionVars>>

(* The same for the market's own token. *)
TokensMove ==
  /\ \E m \in created, u \in Users, amount \in TransferAmounts :
       \E to \in Users \cup {m} :
         /\ amount <= tokenBal[m][u]
         /\ tokenBal' = [tokenBal EXCEPT ![m] = Transfer(@, u, to, amount)]
  /\ UNCHANGED <<usidVars, reserveVars, cumulativeFees, collectorVars, positionVars>>

PriceMoves ==
  /\ \/ \E price \in Prices : SetFallbackPrice(price)
     \/ \E enabled \in BOOLEAN : ToggleFallbackMode(enabled)
     \/ \E price \in Prices \cup {0} : DexPriceMoves(price)
  /\ UNCHANGED <<poolVars, positionVars>>

Next ==
  \/ \E m \in Markets, strategy \in Strategies : CreateMarket(m, strategy)
  \/ Trade
  \/ Airdrop
  \/ RecordByAnyone
  \/ Position
  \/ Exchange
  \/ HoldersMove
  \/ TokensMove
  \/ PriceMoves

Spec == Init /\ [][Next]_vars

-----------------------------------------------------------------------------
(* The supply is what the accounts hold, through deposits at changing      *)
(* prices, mints for markets, burned fees and swaps over several pools.    *)
SupplyExact == totalSupply = Total(balanceOf, Accounts)

(* What the collector owes for fees and airdrops of all markets exceeds    *)
(* its USID by no more than what accounts that are no pool recorded: the   *)
(* pools pay what they record, and no claim or airdrop, under any sequence *)
(* of strategies, takes more than it was owed.                             *)
Owed == [n \in Markets |-> accumulatedFees[n] + airdropPool[n]]

CollectorSolvent ==
  Total(Owed, Markets) <= balanceOf[FeeCollector] + unpaid

(* A reserve may exceed what the pool holds (swap counts a fee that it     *)
(* pays out), but never by more than all fees the pool has taken.          *)
GapWithinFees ==
  \A m \in Markets :
    /\ reserveUSID[m] <= balanceOf[m] + cumulativeFees[m]
    /\ reserveToken[m] <= tokenBal[m][m] + cumulativeFees[m]

(* kLast is never above the product of the reserves, and a swap never      *)
(* lowers it: the fee of a sale is settled in the pool's favour.           *)
KLastIsFloor == \A m \in Markets : kLast[m] <= reserveUSID[m] * reserveToken[m]

SwapKeepsProduct ==
  [][\A m \in created :
       tokenBal'[m] # tokenBal[m] =>
         reserveUSID'[m] * reserveToken'[m] >= reserveUSID[m] * reserveToken[m]]_vars

(* What the PAX held is worth beyond the USID issued for PAX, in units of  *)
(* 1/PRICE_UNIT dollar: the USID minted for markets has no PAX behind it.  *)
Surplus ==
  paxHeld * PaxPriceInUSD
    - (totalSupply - INITIAL_USID * Cardinality(created)) * PRICE_UNIT

(* No step lowers the surplus unless the price changes: both conversions   *)
(* round against the user, in any mix of deposits, withdrawals and burns.  *)
RoundingKeepsBacking ==
  [][PaxPriceInUSD' = PaxPriceInUSD => Surplus' >= Surplus]_vars
=============================================================================
