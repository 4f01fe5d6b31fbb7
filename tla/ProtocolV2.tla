----------------------------- MODULE ProtocolV2 -----------------------------
(***************************************************************************)
(* The accounts of one deployment of the V2 contracts.  A market is named  *)
(* by its nftId; the same value stands for its NFT, its token and the      *)
(* address of its pool, which the factory ties together one to one.        *)
(***************************************************************************)
EXTENDS Integers, FiniteSets, Sequences, Functions

CONSTANTS
  Users,               \* traders and position owners
  Operators,           \* users that hold ADMIN or OPERATOR
  Markets,
  Stables,             \* the stablecoins that exist, approved or not
  InitialStablecoins,  \* the list given to the registry's constructor
  FeeCollector,        \* the collector's own account
  Dead                 \* address(0xdead), where BURN sends the coins

Accounts == Users \cup Markets \cup {FeeCollector, Dead}

ASSUME AccountsAssumption ==
  /\ Users \cap Markets = {}
  /\ {FeeCollector, Dead} \cap (Users \cup Markets) = {}
  /\ FeeCollector # Dead
  /\ Operators \subseteq Users

ASSUME FiniteAssumption == IsFiniteSet(Stables) /\ IsFiniteSet(Markets)

(* The constructor does not refuse a coin listed twice (addStablecoin      *)
(* does); the deployment scripts list each coin once.                      *)
ASSUME InitialStablecoinsAssumption ==
  /\ InitialStablecoins \in Seq(Stables)
  /\ IsInjective(InitialStablecoins)

(* A token transfer, on the balances of one token.  It is only made where  *)
(* the sender has the amount: a transfer without funds reverts.            *)
Transfer(balances, from, to, amount) ==
  [[balances EXCEPT ![from] = @ - amount] EXCEPT ![to] = @ + amount]

Strategies == {"CLAIM", "BURN", "AIRDROP", "LP_REWARDS"}
=============================================================================
