--------------------------- MODULE FeeCollectorV2 ---------------------------
(***************************************************************************)
(* contracts/v2/periphery/FeeCollectorV2.sol: what each market has earned, *)
(* as one counter in USD and as one counter per stablecoin.  The coins     *)
(* themselves are balances of the FeeCollector account of the stablecoins. *)
(***************************************************************************)
EXTENDS ProtocolV2, Totals

CONSTANT RecordAmounts  \* amounts accounts that are no pool record as fees

ASSUME RecordAssumption == RecordAmounts \subseteq Nat

VARIABLES
  stableBal,       \* balances of the external stablecoin contracts
  pendingFees,     \* _pendingFees:    nftId -> USD
  feeBalances,     \* _feeBalances:    nftId -> coin -> amount
  feeStablecoins   \* _feeStablecoins: nftId -> list of coins

(* History variables, no storage of the contract: what accounts that are   *)
(* no pool, and so pay nothing, have recorded.                             *)
VARIABLES
  unpaid,    \* under a coin, over all markets
  coinless   \* under address(0): nftId -> USD since the market's last claim

historyVars == <<unpaid, coinless>>
collectorVars == <<pendingFees, feeBalances, feeStablecoins, historyVars>>

CollectorTypeOK ==
  /\ pendingFees \in [Markets -> Nat]
  /\ feeBalances \in [Markets -> [Stables -> Nat]]
  /\ feeStablecoins \in [Markets -> Seq(Stables)]
  /\ unpaid \in Nat
  /\ coinless \in [Markets -> Nat]

CollectorInit ==
  /\ pendingFees = [n \in Markets |-> 0]
  /\ feeBalances = [n \in Markets |-> [s \in Stables |-> 0]]
  /\ feeStablecoins = [n \in Markets |-> <<>>]
  /\ unpaid = 0
  /\ coinless = [n \in Markets |-> 0]

(* A coin is pushed on the market's list when its counter was zero. *)
TrackStable_FirstCoin(list, recorded, s) ==
  IF list = <<>> THEN Append(list, s) ELSE list

TrackStable(list, recorded, s) ==
  IF recorded = 0 THEN Append(list, s) ELSE list

RecordFee(n, s, amount) ==
  /\ pendingFees' = [pendingFees EXCEPT ![n] = @ + amount]
  /\ feeBalances' = [feeBalances EXCEPT ![n][s] = @ + amount]
  /\ feeStablecoins' =
       [feeStablecoins EXCEPT ![n] = TrackStable(@, feeBalances[n][s], s)]

(* accumulateFee called by a pool, which has just paid the amount. *)
AccumulateFee(n, s, amount) ==
  RecordFee(n, s, amount) /\ UNCHANGED historyVars

(* accumulateFee called by anybody else ("Anyone can call this"), for any  *)
(* market and amount, with a coin or with address(0).                      *)
AccumulateUnpaid(n, amount) ==
  \/ /\ \E s \in Stables : RecordFee(n, s, amount)
     /\ unpaid' = unpaid + amount
     /\ UNCHANGED coinless
  \/ /\ pendingFees' = [pendingFees EXCEPT ![n] = @ + amount]
     /\ coinless' = [coinless EXCEPT ![n] = @ + amount]
     /\ UNCHANGED <<feeBalances, feeStablecoins, unpaid>>

(* What _sendAllFees pays in coin s: the recorded amount, or what the      *)
(* collector holds of that coin when this is less.                         *)
FeePayment(n, s) ==
  IF s \in Range(feeStablecoins[n])
    THEN Smaller(feeBalances[n][s], stableBal[s][FeeCollector])
    ELSE 0

ClearedBalances_Kept(n) == feeBalances

(* The counters of the listed coins are zeroed, paid in full or not. *)
ClearedBalances(n) ==
  [feeBalances EXCEPT ![n] =
    [s \in Stables |-> IF s \in Range(feeStablecoins[n]) THEN 0 ELSE @[s]]]

SendAllFees(n, to) ==
  /\ stableBal' = [s \in Stables |->
       Transfer(stableBal[s], FeeCollector, to, FeePayment(n, s))]
  /\ feeBalances' = ClearedBalances(n)
  /\ feeStablecoins' = [feeStablecoins EXCEPT ![n] = <<>>]

PendingAfterDistribution_Kept(n) == pendingFees

PendingAfterDistribution(n) == [pendingFees EXCEPT ![n] = 0]

(* AIRDROP and LP_REWARDS only reset the pending counter. *)
DistributeFees(n, recipient, strategy) ==
  /\ pendingFees[n] > 0
  /\ pendingFees' = PendingAfterDistribution(n)
  /\ coinless' = [coinless EXCEPT ![n] = 0]
  /\ UNCHANGED unpaid
  /\ CASE strategy = "CLAIM" -> SendAllFees(n, recipient)
       [] strategy = "BURN"  -> SendAllFees(n, Dead)
       [] OTHER -> UNCHANGED <<stableBal, feeBalances, feeStablecoins>>
=============================================================================
