-------------------------------- MODULE USID --------------------------------
(***************************************************************************)
(* contracts/core/USID.sol and contracts/periphery/PaxPriceOracle.sol: the *)
(* V1 stablecoin, minted for PAX and redeemed for PAX at the oracle's      *)
(* price, and minted without PAX for every new market.                     *)
(*                                                                         *)
(* Prices are in units of 1/PRICE_UNIT dollar (1e18 in the code).  The     *)
(* addresses of factory and oracle are set once at deployment.  Allowances *)
(* are left out: the routers only move what the caller approved for the    *)
(* same call.                                                              *)
(***************************************************************************)
EXTENDS Integers, FiniteSets, Totals

CONSTANTS
  Users,
  Markets,       \* a market's NFT, token and pool are one value, as in V2
  FeeCollector,  \* the collector's account
  PaxFunds,      \* what each user holds of PAX at first
  PRICE_UNIT,
  Prices         \* prices the exchange or the oracle's owner may set

Accounts == Users \cup Markets \cup {FeeCollector}

ASSUME AccountsAssumption ==
  /\ IsFiniteSet(Users) /\ IsFiniteSet(Markets)
  /\ Users \cap Markets = {}
  /\ FeeCollector \notin Users \cup Markets

ASSUME PriceAssumption ==
  /\ PaxFunds \in Nat
  /\ PRICE_UNIT \in Nat \ {0}
  /\ Prices \subseteq Nat \ {0}

VARIABLES
  balanceOf,
  totalSupply,
  paxBal,         \* PAX of each user
  paxHeld,        \* address(USID).balance
  dexPrice,       \* getSpotPrice of the exchange; 0 also stands for a revert
  fallbackPrice,
  useFallback

oracleVars == <<dexPrice, fallbackPrice, useFallback>>
ledgerVars == <<balanceOf, totalSupply>>
usidVars == <<ledgerVars, paxBal, paxHeld, oracleVars>>

USIDTypeOK ==
  /\ balanceOf \in [Accounts -> Nat]
  /\ totalSupply \in Nat
  /\ paxBal \in [Users -> Nat]
  /\ paxHeld \in Nat
  /\ dexPrice \in Prices \cup {0}
  /\ fallbackPrice \in Prices \cup {PRICE_UNIT}
  /\ useFallback \in BOOLEAN

USIDInit ==
  /\ balanceOf = [a \in Accounts |-> 0]
  /\ totalSupply = 0
  /\ paxBal = [u \in Users |-> PaxFunds]
  /\ paxHeld = 0
  /\ dexPrice \in Prices
  /\ fallbackPrice = PRICE_UNIT
  /\ useFallback = FALSE

-----------------------------------------------------------------------------
PaxPriceInUSD ==
  IF useFallback \/ dexPrice = 0 THEN fallbackPrice ELSE dexPrice

USIDForPAX_RoundsUp(paxAmount) ==
  (paxAmount * PaxPriceInUSD + PRICE_UNIT - 1) \div PRICE_UNIT

USIDForPAX(paxAmount) == (paxAmount * PaxPriceInUSD) \div PRICE_UNIT

PAXForUSID_RoundsUp(usidAmount) ==
  (usidAmount * PRICE_UNIT + PaxPriceInUSD - 1) \div PaxPriceInUSD

PAXForUSID(usidAmount) == (usidAmount * PRICE_UNIT) \div PaxPriceInUSD

SetFallbackPrice(price) ==
  /\ fallbackPrice' = price
  /\ UNCHANGED <<ledgerVars, paxBal, paxHeld, dexPrice, useFallback>>

ToggleFallbackMode(enabled) ==
  /\ useFallback' = enabled
  /\ UNCHANGED <<ledgerVars, paxBal, paxHeld, dexPrice, fallbackPrice>>

(* The exchange is an external contract: its price moves, is zero or       *)
(* cannot be had.                                                          *)
DexPriceMoves(price) ==
  /\ dexPrice' = price
  /\ UNCHANGED <<ledgerVars, paxBal, paxHeld, fallbackPrice, useFallback>>

-----------------------------------------------------------------------------
Transfer(balances, from, to, amount) ==
  [[balances EXCEPT ![from] = @ - amount] EXCEPT ![to] = @ + amount]

Deposit(u, paxAmount) ==
  LET usidAmount == USIDForPAX(paxAmount)
  IN /\ paxAmount > 0
     /\ paxAmount <= paxBal[u]
     /\ usidAmount > 0
     /\ paxBal' = [paxBal EXCEPT ![u] = @ - paxAmount]
     /\ paxHeld' = paxHeld + paxAmount
     /\ totalSupply' = totalSupply + usidAmount
     /\ balanceOf' = [balanceOf EXCEPT ![u] = @ + usidAmount]
     /\ UNCHANGED oracleVars

Withdraw(u, usidAmount) ==
  LET paxAmount == PAXForUSID(usidAmount)
  IN /\ usidAmount > 0
     /\ usidAmount <= balanceOf[u]
     /\ paxAmount > 0
     /\ paxAmount <= paxHeld
     /\ balanceOf' = [balanceOf EXCEPT ![u] = @ - usidAmount]
     /\ totalSupply' = totalSupply - usidAmount
     /\ paxHeld' = paxHeld - paxAmount
     /\ paxBal' = [paxBal EXCEPT ![u] = @ + paxAmount]
     /\ UNCHANGED oracleVars

(* mint, burn and transfer as other contracts call them: their effect on   *)
(* the ledger alone.                                                       *)
Mint(to, amount) ==
  /\ totalSupply' = totalSupply + amount
  /\ balanceOf' = [balanceOf EXCEPT ![to] = @ + amount]

Burn_SupplyKept(from, amount) ==
  /\ amount <= balanceOf[from]
  /\ balanceOf' = [balanceOf EXCEPT ![from] = @ - amount]
  /\ UNCHANGED totalSupply

Burn(from, amount) ==
  /\ amount <= balanceOf[from]
  /\ balanceOf' = [balanceOf EXCEPT ![from] = @ - amount]
  /\ totalSupply' = totalSupply - amount

TransferUSID(from, to, amount) ==
  /\ amount <= balanceOf[from]
  /\ balanceOf' = Transfer(balanceOf, from, to, amount)
  /\ UNCHANGED totalSupply
=============================================================================
