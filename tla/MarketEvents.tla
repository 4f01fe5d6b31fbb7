---------------------------- MODULE MarketEvents ----------------------------
(***************************************************************************)
(* The V1 contracts as the indexer sees them: the logs each transaction    *)
(* emits, in order, and the contract state those logs report.  A block is  *)
(* one transaction; amounts matter only where the indexer adds them up, so *)
(* reserves are represented by the block of their last change.  Token      *)
(* Transfer logs are left out.                                             *)
(***************************************************************************)
EXTENDS Naturals, Sequences, FiniteSets

CONSTANTS
  Markets,            \* market, its pool and its position share an id
  Users,
  SwapFees,           \* the fees a swap may pay
  RecordAmounts,      \* amounts accounts that are no pool record as fees
  CLAIM, LP_REWARDS,  \* strategies the code treats apart
  Strategies,         \* the strategies owners choose
  MaxBlocks           \* bound on the length of the chain

ASSUME EventsAssumption ==
  /\ SwapFees \subseteq Nat
  /\ RecordAmounts \subseteq Nat \ {0}
  /\ MaxBlocks \in Nat

VARIABLES
  chain,     \* the blocks, each a sequence of logs
  created,   \* the markets of the factory
  owner,     \* MarketNFT._owners
  strategy,  \* MarketNFT.feeStrategy
  fees,      \* FeeCollector.accumulatedFees
  reserves   \* the block in which a pool's reserves last changed

(* A history variable, no storage of the contracts: what others than the   *)
(* pool have recorded as fees of a market since its last claim.            *)
VARIABLE unreported

contracts == <<created, owner, strategy, fees, reserves, unreported>>
chainVars == <<chain, contracts>>

Args == Nat \union Users \union Strategies \union {CLAIM}

LogKinds ==
  {"MarketCreated", "FactoryMarketCreated", "Swap", "Sync", "FeeClaimed",
   "FeesClaimed", "FeeStrategyUpdated", "NFTFeeStrategyUpdated",
   "NFTTransfer", "NFTMint"}

Logs == [kind : LogKinds, market : Markets, arg : Args, block : Nat, index : Nat]

Height == Len(chain)
NextBlock == Height + 1

Emitted == UNION {{chain[b][i] : i \in DOMAIN chain[b]} : b \in 1 .. Height}

(* The id of a row: its log's transaction, here its block, and log index. *)
Id(log) == <<log.block, log.index>>

Before(log, other) ==
  log.block < other.block \/ (log.block = other.block /\ log.index <= other.index)

(* A transaction is mined with the logs <<kind, argument>> of market m. *)
Mine(m, logs) ==
  /\ Height < MaxBlocks
  /\ chain' = Append(chain,
       [i \in 1 .. Len(logs) |->
          [kind |-> logs[i][1], market |-> m, arg |-> logs[i][2],
           block |-> NextBlock, index |-> i]])

(* The two logs of a strategy change, emitter first. *)
StrategyLogs(s) == << <<"FeeStrategyUpdated", s>>, <<"NFTFeeStrategyUpdated", s>> >>

EventsInit ==
  /\ chain = <<>>
  /\ created = {}
  /\ owner \in [Markets -> Users]
  /\ strategy = [m \in Markets |-> CLAIM]
  /\ fees = [m \in Markets |-> 0]
  /\ reserves = [m \in Markets |-> 0]
  /\ unreported = [m \in Markets |-> 0]

(* The position is minted, with its strategy events, before the factory    *)
(* reports the market.                                                     *)
CreateMarket(m, s) ==
  /\ m \notin created
  /\ created' = created \union {m}
  /\ strategy' = [strategy EXCEPT ![m] = s]
  /\ reserves' = [reserves EXCEPT ![m] = NextBlock]
  /\ Mine(m, << <<"Sync", NextBlock>>, <<"NFTMint", owner[m]>> >>
             \o (IF s = CLAIM THEN <<>> ELSE StrategyLogs(s))
             \o << <<"MarketCreated", owner[m]>>,
                   <<"FactoryMarketCreated", owner[m]>> >>)
  /\ UNCHANGED <<owner, fees, unreported>>

Swap(m, fee) ==
  /\ m \in created
  /\ fees' = [fees EXCEPT ![m] = @ + fee]
  /\ reserves' = [reserves EXCEPT ![m] = NextBlock]
  /\ Mine(m, << <<"Swap", fee>>, <<"Sync", NextBlock>> >>)
  /\ UNCHANGED <<created, owner, strategy, unreported>>

(* accumulateFee called by an account that is no pool, for any market:     *)
(* FeeAccumulated is the only log, and nothing off chain reads it.         *)
RecordFee(m, amount) ==
  /\ fees' = [fees EXCEPT ![m] = @ + amount]
  /\ unreported' = [unreported EXCEPT ![m] = @ + amount]
  /\ Mine(m, <<>>)
  /\ UNCHANGED <<created, owner, strategy, reserves>>

(* Coins sent to the pool and picked up by its sync. *)
SyncPool(m) ==
  /\ m \in created
  /\ reserves' = [reserves EXCEPT ![m] = NextBlock]
  /\ Mine(m, << <<"Sync", NextBlock>> >>)
  /\ UNCHANGED <<created, owner, strategy, fees, unreported>>

(* The collector reports a claim through the emitter, the position itself  *)
(* a second time.  LP_REWARDS gives the fees to the pool and syncs it.     *)
(* That the collector may lack what was recorded unpaid is left out, so    *)
(* that claims are here which the contract refuses.                        *)
ClaimFees(m) ==
  LET pays == strategy[m] = LP_REWARDS
  IN /\ m \in created
     /\ fees[m] > 0
     /\ fees' = [fees EXCEPT ![m] = 0]
     /\ unreported' = [unreported EXCEPT ![m] = 0]
     /\ reserves' = IF pays THEN [reserves EXCEPT ![m] = NextBlock] ELSE reserves
     /\ Mine(m, (IF pays THEN << <<"Sync", NextBlock>> >> ELSE <<>>)
                \o << <<"FeeClaimed", fees[m]>>, <<"FeesClaimed", fees[m]>> >>)
     /\ UNCHANGED <<created, owner, strategy>>

SetFeeStrategy(m, s) ==
  /\ m \in created
  /\ strategy' = [strategy EXCEPT ![m] = s]
  /\ Mine(m, StrategyLogs(s))
  /\ UNCHANGED <<created, owner, fees, reserves, unreported>>

TransferPosition(m, to) ==
  /\ m \in created
  /\ owner' = [owner EXCEPT ![m] = to]
  /\ Mine(m, << <<"NFTTransfer", to>> >>)
  /\ UNCHANGED <<created, strategy, fees, reserves, unreported>>

Transaction ==
  \E m \in Markets :
    \/ \E s \in Strategies : CreateMarket(m, s) \/ SetFeeStrategy(m, s)
    \/ \E fee \in SwapFees : Swap(m, fee)
    \/ \E amount \in RecordAmounts : RecordFee(m, amount)
    \/ SyncPool(m)
    \/ ClaimFees(m)
    \/ \E to \in Users : TransferPosition(m, to)
=============================================================================
