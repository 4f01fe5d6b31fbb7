# A TLA+ verification of the HLPMM protocol

HLPMM is an automated market maker with virtual liquidity: every market is an
NFT ("position") whose owner earns the trading fees, an ERC-20 token, and a pool
that trades the token against a dollar. Version 1 trades against the protocol's
own stablecoin USID, version 2 against a list of approved external stablecoins.
A PostgreSQL indexer and a subgraph follow the V1 contracts; the indexer's
process also builds candles, ranks the markets and answers GraphQL queries;
scripts deploy the contracts, create markets and keep the price of PAX. This
directory models the parts that move money, the timelock of the V2
administrator, the indexer with its services, the subgraph and the scripts. TLC
checks the models on small instances, and TLAPS proves for every instance the
results about money, the timelock, the indexer's tables, the subgraph's
balances, the references that readers follow, the candles, the ranking and the
scripts.

Paths below are relative to the repository, `V2/` is `contracts/v2/`.

## 1. The system

### Contracts, version 1

| component | state | operations | interacts with |
|---|---|---|---|
| `core/USID.sol` | balances, supply, PAX held | `deposit`, `withdraw`, `mint`, `burn`, transfers | asks the price oracle; minted to by the factory, moved by pools, routers, collector |
| `periphery/PaxPriceOracle.sol` | fallback price and mode | `getPaxPriceInUSD`, setters | the spot price of an external exchange, which may revert |
| `core/HLPMMPool.sol` | `reserveUSID`, `reserveToken`, `kLast`, `cumulativeFees`, price samples | `initialize`, `swap`, `sync` | token and USID balances; pays fees to the collector in the middle of a swap |
| `periphery/FeeCollector.sol` | pending fees and airdrop pool of each position | `accumulateFee` (open to any caller), `distributeFees`, `claimAirdrop` | one USID balance for all markets; pools (LP_REWARDS) |
| `core/HLPMMFactory.sol`, `periphery/HLPMMRouter.sol`, `tokens/MarketNFT.sol` | list of markets; owner and strategy of a position | `createMarket`; swaps along a path; `claimFees`, `setFeeStrategy`, transfers | all of the above |
| `tokens/HLPMMToken.sol` | balances, allowances | ERC-20 | pool |

### Contracts, version 2

| component | state | operations | interacts with |
|---|---|---|---|
| `V2/core/HLPMMPoolV2.sol` | virtual dollars, `realReserveUSD`, `reserveToken`, large holders | `swap`, `sync`, `_sendStable` | balances in every coin; the registry's list; the collector |
| `V2/admin/StablecoinRegistry.sol` | approved flag of each coin, ordered list | `addStablecoin`, `removeStablecoin` | read by pools and collector at every swap |
| `V2/periphery/FeeCollectorV2.sol` | per market: pending total, fee of each coin, list of fee coins | `accumulateFee` (open to any caller), `distributeFees` | pays what it holds in each coin |
| `V2/tokens/MarketNFTV2.sol` | owner, strategy, approvals | `claimFees`, `setFeeStrategy`, transfers | collector |
| `V2/admin/AdminController.sol` | roles, delay, queued actions with two flags | `grantRole`, `revokeRole`, `setTimelockDelay`, `queueAction`, `executeAction`, `cancelAction` | calls any target, itself among them |
| `V2/libraries/*` | samples of the price | swap arithmetic, dynamic fee, volatility | pools |
| `V2/core/HLPMMFactoryV2.sol`, routers, quoters, emitters | wiring | creation, routing, reading | pools |

### Off chain

| component | state | operations | interacts with |
|---|---|---|---|
| `indexer/src/indexer.ts`, `db/index.ts` | checkpoint `last_block`, tracked pools and tokens, the batch in memory | fetch, sort, handle, checkpoint, retry after an error | node, database |
| `indexer/src/handlers/`: market, swap, position, reserves | rows of markets, swaps, positions, claims, price series; protocol counters | one handler for each event, several SQL statements, no transaction | database |
| `indexer/src/handlers/token.ts`, `usid.ts`, `helpers.ts` | users, balances, supplies, holder and transfer counts | the two Transfer handlers, `getOrCreateUser` | database |
| `indexer/src/services/candles.ts` | candles in memory and a cursor over swaps, for each market | a timer's tick; `flushAllWIP` when it stops | swap and candle tables |
| `indexer/src/services/trending.ts` | none between timers | reads markets and swaps, writes the ranking in one transaction | database |
| `indexer/src/graphql/*` | none of its own | reads rows and, by nested queries, the rows they refer to | database, beside the writers |
| `subgraph/src/*` | entities | the same events, by a Graph node that applies each handler as a whole | node |
| `scripts/deploy.js`, `deploy-v2.js` | `deployments.json`, `deployments-v2.json` | deploy, wire, save | chain |
| `scripts/createMarket.js` | `markets.json` | create a market, append its record | chain; other processes on the same file |
| `scripts/oracle-keeper.js` | `lastPrice`, `errorCount` | periodic price update; restarted by systemd | price API, oracle |

### What is hard, and what must hold

* **Reserves are not balances.** Both pools keep reserves as numbers beside the
  token balances and update the two in different orders: V1 leaves the fee of a
  purchase in `reserveUSID` after paying it out and adds the fee of a sale to
  `reserveToken` twice; V2 pays a sale out of several coins in list order.
  Reserves must be payable, or exceed the balances by a known amount.
* **Money of all markets in one account.** Both collectors hold the fees of all
  markets together and only counters tell them apart. No sequence of strategies
  may pay one market's fees with another's; the total must suffice. Both also
  accept fees recorded by anybody, paid or not (`FeeCollector.sol:63`,
  `FeeCollectorV2.sol:77`): the shortage must not exceed what was recorded that
  way, and everything that follows the collector differs from it by that much.
* **Rounding.** Every quotient must be rounded in the protocol's favour, over
  any sequence of trades or conversions.
* **A timelock whose target may be itself.** An executed action may execute,
  cancel or queue others, or shorten the delay. No action may run twice, out of
  its window, or after a cancellation.
* **A database without transactions.** Handlers run several statements, each its
  own commit; a restart replays a batch from the checkpoint; an error inside a
  handler is logged and skipped; two contracts report the same fact. Nothing the
  checkpoint has passed may be missing; rows must not depend on replays, and
  balances and counts must follow the contracts.
* **Readers between statements.** The API reads whatever is committed, between
  any two statements of a handler: the rows it refers to must exist, pages must
  not move.
* **A cursor over a table that grows.** The candle service remembers a time and
  an id while rows are ordered by time and log index, keeps candles in memory
  and recovers its position from what it wrote: no swap may be passed.
* **Scripts that await only sending**, that may die anywhere, share a file, or
  lose a confirmation: what they saved must be usable, and a price must arrive.

`PROJECT.json` lists these with the line where each one bites ("hazards").

## 2. The modules

    Totals                     sums over finite sets, by counting units
    PoolMathV2                 the swap arithmetic of V2
    ProtocolV2                 constants and coin balances of V2
      StablecoinRegistry       the list of coins
      FeeCollectorV2           recorded and pending fees, distribution
      HLPMMPoolV2              swap, sync, _sendStable
        MarketV2               positions, users, operators: the composition
          MCMarketV2           bounds for TLC
    USID                       V1 stablecoin and price oracle
      HLPMMPool                V1 pool and fee collector
        MarketV1               factory, router, positions: the composition
          MCMarketV1           bounds for TLC
    AdminController            roles and timelock
      MCAdminController        the grants tried by TLC
    MarketEvents               the V1 contracts as a source of logs
      Subgraph                 the subgraph on that source: the abstract specification
        Indexer                the indexer's loop and handlers: implements Subgraph
    TokenEvents                the Transfer logs of USID and a market's token
      SubgraphAccounts         balances and counts as functions of the logs
        Accounts               token and USID handlers under the indexer's loop
          MCAccounts           the users, interchangeable
    Entities                   which rows the handlers write, and what they refer to
      Api                      what GraphQL readers are promised
        MCApi                  the lengths of the price series
    Candles                    the candle service
      Services                 what it promises, with and without faults
        MCServices             timeframes and prices
    Trending                   the trending service
      MCTrending               symmetry
    Deployment                 deployment scripts and createMarket.js
    OracleKeeper               the price keeper and its oracle
      Operations               the scripts together
    ArithmeticTheorems         lemmas on sums, quotients, least elements
    MarketV2Theorems, MarketV1Theorems, IndexerTheorems, AccountsTheorems,
    ApiTheorems                the proofs about these compositions
    ServicesTheorems           the proofs about Services and Trending
    OperationsTheorems         the proofs about Operations and AdminController

Conventions. A call that reverts changes nothing, so a revert is an action that
is not enabled and every `require` or `revert` is a conjunct of its guard. A
router moves the caller's input into the pool in the transaction that swaps it,
so a routed trade is one action; coins that arrive without a swap are actions of
their own. `swap` relies on its caller for the input and does not compare
balances; everything below is about trades made through the routers. A market's
position, token and pool are created together and never separated, so one model
value stands for all three. Amounts are natural numbers and division rounds
down; widths are not modelled, as Solidity 0.8 reverts on overflow. Allowances
are left out: the routers only move what the caller approved for the call.
Addresses set once at deployment are constants. An operator whose name has a
suffix after an underscore, such as `Burn_SupplyKept`, is a plausible wrong
version of the definition after it. It is not part of any specification; putting
it in the definition's place must violate the property `PROJECT.json` pairs it
with.

### V2 money flow: `MarketV2`

`realReserveUSD`, `reserveToken`, `cumulativeFees` are the pool's storage and
`tokenBal`, `stableBal` the balances in the token contracts, so that the two can
part. `Payout` is what `_sendStable` sends of each coin: first the preferred
coin, then the approved ones in list order. `Buy` and `Sell` are `swap` in its
two directions, with the fee recorded by the collector; `Sync` is `sync`.
`feeBalances`, `feeStablecoins`, `pendingFees` are the collector's mappings;
`DistributeFees` is the claim under each of the four strategies.
`accumulateFee` checks neither its caller nor a payment: `AccumulateFee` is the
pool's call, inside a trade that pays, and `RecordByAnyone` is any other call,
for any market, with a coin or with `address(0)`. Two history variables, which
are no storage of the contracts, count the latter: `unpaid` (under a coin) and
`coinless` (under `address(0)`, since a market's last claim). `Administer`
adds and removes coins with the registry's swap-and-pop. The fee rate of a swap
is any member of `FeeRates`: how it follows age, volatility and concentration is
left to a later module, so the properties hold for whatever rate the pool
computes. `Init` is the state after `createMarket`.

### V1 money flow: `MarketV1`

`USID` has the ledger, the PAX held and the oracle's price in units of
1/`PRICE_UNIT` dollar; the exchange's spot price moves at will and may be zero
or unavailable. In `HLPMMPool` the effect of a swap on its pool is a record
(`BuyEffect`, `SellEffect`: new reserves, `kLast`, fees, token balances), which
`Apply` writes into the pools that take part; a swap of one token for another
over USID (`MultiHop`) is two such effects with the first pool's output paid
into the second pool. The oddities of the code are kept: the fee of a purchase
stays in `reserveUSID`, the fee of a sale is added to `reserveToken` on top of
the input, `kLast` of a sale is taken before its fee is settled, `sync` drops
what exceeds the balance. `MarketV1` adds creation (which mints USID without
PAX), claims under the four strategies, airdrops, burns and hand transfers, and,
as in V2, calls of `accumulateFee` by accounts that are no pool
(`RecordByAnyone`, counted in the history variable `unpaid`): `onlyPool` refuses
nobody but `address(0)`. Recorded this way, fees of one market are paid out of
another's, or their claim reverts.

### Indexer: `MarketEvents`, `Subgraph` and `Indexer`

`MarketEvents` is the chain: each transaction appends a block with its logs in
the order the contracts emit them, and keeps the contract state the logs report.
Reserves are represented by the block of their last change, which is what the
indexer may get wrong. `RecordFee` is the collector's `accumulateFee` called by others than
the pool: a block without a log that anything off chain reads, counted in the
history variable `unreported` until the market's next claim. `Subgraph` is both a component and the abstract
specification: one log, one step, all changes of its handler together. Its
handlers do the same to the entities as the indexer's do to the tables, except
that pools are watched from the block on in which they are created; so `Sync`
logs, the only ones for which that matters, are left out of the comparison.

`Indexer` follows `startIndexer`: `StartBatch` reads the checkpoint and fetches
(pool logs only of pools tracked then), `TakeLog` takes the next log in order
and lists the statements of its handler, each `Statement` action is one SQL
statement, `Checkpoint` saves `last_block`. `HandlerFails` is the swallowed
error of `processLog`; `Restart` is a stop of the process or an error that
reaches the loop, between any two statements. `lost` records the logs whose
handler was cut short, so that a property can say "unless its own handler
failed".

The refinement is `Sub == INSTANCE Subgraph WITH handled <- Passed, books <-
Entities`. `Passed` is the set of logs the loop is done with or at: those up to
the checkpoint or taken from the open batch, `Sync` left out. `Entities` is what
the tables will be once the statements still listed have run (`EntitiesOf`). So
`TakeLog` is the step of `Subgraph`, and statements, batches and the checkpoint
stutter; a statement that does not do its part of the handler, or a counter read
at the wrong moment, breaks `ImplementsSubgraph`.

### Accounts: `TokenEvents`, `SubgraphAccounts`, `Accounts`

The chain here has the Transfer logs of USID and of one market's token, with the
logs whose handlers only look up a user. `Accounts` runs `handleTokenTransfer`,
`handleUSIDTransfer` and `getOrCreateUser` statement by statement under the same
loop. Everything a batch needs is fetched when it starts, so blocks are mined
between batches, and token logs are fetched for tokens tracked by then: `batch`
is the set of places (block and index) of the logs fetched and not handled yet,
and `TakeLog` takes the first of them.
`SubgraphAccounts` is the subgraph's version as a recursive function: block by
block, and within a block log by log, where the mint of a new token comes last,
as its data source starts with the block of the creation.
`disturbed` records the histories for which the code's holder counts are not
made: a balance that returns from zero in `usid.ts`, and logs a batch did not
fetch.

### Readers: `Entities` and `Api`

`Entities` keeps, of each row, its references, its prices and what is needed to
order it; each handler is the sequence of inserts and updates it runs. The loop
is reduced to taking one log at a time and going back to a checkpoint. The last
log of a behaviour may be handled while readers read, at any statement. Emission
is bounded by making the next log only when all earlier ones are handled, which
loses nothing for readers, since the handlers do not look at the chain. `Api`
states what the resolvers promise: `Relations` are the fields of the schema that
may not be null, with the row and table each resolver asks for; `Listed` and
`pagination` are the list queries. Prices are small numbers, and a swap moves
one token, so that its amount in USID is its price.

### Candles: `Candles` and `Services`

A worker for each market has the cursor (`time`, `id`) and one candle per
timeframe in memory. `StartTick`, `Visit` (the query, in the order of time and
log index, at most `Limit` rows, restricted to ids and times beyond the cursor),
`TakeIn` and `WriteCandle` are the code between two of its `await`s: everything
in between runs without interruption in Node. `stopCandleService` clears the
timer, `flushAllWIP` writes what is in memory while a tick in flight may go on,
`Exit` ends the process, `Crash` ends it at any point; a new process takes its
cursor from the last candle written. The rows a query returned are kept as
indices into the swap table, and the tick takes the least of them (`Current`).
Every swap trades one unit, so a candle's volumes are its trade count.

### Ranking: `Trending`

`ReadMarkets` and `computeScores` are the two moments at which the service
reads; swaps, creations and changes of holders come in between. The rows are
written one at a time inside a transaction (`UpsertScore`, `Commit`,
`Rollback`); the tables it reads do not change while it writes, since nothing it
writes depends on them any more. Scores are integers in thousandths where the
code has floating point, and freshness halves in steps instead of continuously.

### Scripts: `Deployment`, `OracleKeeper`, `Operations`

A deployment script is a list of steps. `new` waits for the transaction to be
mined, `set` only until it is sent; the account's transactions are mined in
nonce order; `ScriptDies` ends it anywhere, and a later run starts from fresh
contracts. A creator reads the deployment file, creates a market and waits,
reads `markets.json`, and writes it with its line, as separate steps. The keeper
starts, sets the fallback mode, then in each round asks the API, sends and
waits; a request may fail, a confirmation may be lost with the transaction mined
later, and the process may be stopped or give up after
`MaxErrors`. `Operations` puts them together: the keeper signs with the
deployer's key, so it runs once the deployment is saved and mined; creators and
the keeper touch nothing in common, so a behaviour has one or the other.

### Timelock: `AdminController`

An id is the record of what is hashed (call, earliest execution, block time).
Executing an action may call the controller again, on the controller's own
authority, to execute, cancel or queue: calls nest two deep. The flag `executed`
is set before the call, and `running` carries the actions in progress.

## 3. The runs

All bounds are constants in the `.cfg` files. Every run switches the deadlock
check off because behaviours end at the bounds, or because a contract with no
enabled call is legitimate. `MaxOps` counts calls in a behaviour.

| run | question | instance |
|---|---|---|
| `MarketV2_trade` | Are the books exact while nobody sends or removes coins, and the collector's records covered and listed when anybody may add to them? | 2 markets sharing the collector, 2 coins, 1 user, a fee of 3%, unpaid records of 0 and 2, 5 calls |
| `MarketV2_admin` | Do reserves stay backed, and sales payable, when coins are added, removed, and sent by hand? Does a purchase ever give too much? | 1 market, 2 coins of which 1 is listed at first, an operator, rates whose fee is 0.3% (rounds to a fee of 0) and 3%, 7 calls, minimum outputs that bind |
| `MarketV2_claims` | *(violated)* a claim pays what it reports | 1 market, 2 coins, 6 calls |
| `MarketV1` | Supply, collector, reserves and PAX together | 2 markets, 1 user, 2 rates, 2 prices, deposits and withdrawals that round, unpaid records of 1, 7 calls |
| `AdminController` | Once, in the window, never after a cancellation | 2 accounts, 4 times, 2 queued actions, delays below, at and above the limits |
| `Indexer_books` | Does the indexer record what the subgraph does? | 2 markets, 4 blocks, batches of 2, unreported fees of 1, no faults |
| `Indexer_faults` | What survives a restart and a swallowed error? Is every block indexed? | 1 market, 2 owners, 3 blocks, batches of 2, one restart, one error |
| `Accounts` | Do balances, supplies and counts follow the contracts? | 2 users, 4 blocks, batches of 2, amounts of 1, one fault |
| `Api` | What does a reader see between statements? | 2 markets, 2 users, 2 prices, 2 logs after the first market's, one fault |
| `Services` | Are candles those of the swaps, through stops and crashes? | 1 market, timeframes of 2 and 4 s, 3 swaps within 4 s with ids in any order, row limit 2, one restart, one failed write |
| `Trending` | Is the ranking whole, and does it rank the better market first? | 2 markets, 2 users, 2 swaps, times 0 to 2, 2 computations |
| `Operations` | Are saved addresses wired, records genuine, and does a price arrive? | 2 script runs of either version, 2 creators, 2 markets, 2 prices, 2 changes of the answer, 2 faults |

Why these are enough. A collector shared by markets can go wrong with two. Each
seven-call V1 behaviour has room for creating two markets, a deposit, swaps in
both, and a claim followed by an airdrop. In `MarketV2_admin` the shortest
interesting history (buy in one coin, list and use another, remove the first,
sync, sell) fits in seven calls; so does a coin that is sent to the pool, listed,
and taken up by `sync` between a purchase and the sale that the floor admits,
and a `sync` that counted coins not listed breaks `FloorIsPayable`.
`MarketV2_trade` has room for a sale whose fee is paid in another coin than the
one it is recorded under, unpaid records in both markets, and a claim; a record
of 0 is what lists a coin twice. At price 3/2 a deposit of 101 PAX gives 151 USID
for 151 1/2, and a withdrawal of 2 USID gives 1 PAX for 1 1/3, so both
conversions round; at 2/2 both are exact. Four blocks with batches of two give batches that
end within and at the chain's head; three blocks give a market created in one
batch and used in the next, with a restart and an error at any of the statements
in between. Four blocks of `Accounts` are a creation, a transfer that empties an
account, one that fills it again and one more. Two timeframes of which one
divides the other give a period that ends in one and goes on in the other; three
swaps with a row limit of two need two queries; ids in any order are what
transaction hashes give. Two prices and two logs give a series a period that
opens where the one before it closed. Two computations show a reader an old
ranking beside the new one. Two creators suffice to lose or mix up a line of a
file, two script runs to follow a dead one. Two queued actions are the smallest
number for an action about another one; the three delays are below
`MIN_TIMELOCK`, equal to the minimum's and beyond `MAX_TIMELOCK`. The two users
of `Accounts`, the users of `Api` and the markets and users of `Trending` are
interchangeable, and TLC uses that symmetry; no run with a liveness property
does.

What the passing properties say (each is stated and commented in its module):

* `BooksExact`: with no donation and no removal, V2 reserves are the balances.
* `FloorIsPayable`: a pool that can pay its whole real reserve in listed coins,
  so that a sale which passes the liquidity floor can be paid, stays able to
  until a coin is removed, though coins are sent by hand, added and taken up by
  `sync`; and whenever `sync` corrects the reserve the pool can pay it.
* `TokensBacked`, `ReservesBacked`: with donations, syncs and removals too, a
  pool never counts on a token or dollar it does not hold.
* `CollectorConsistent`: over all coins and markets, the V2 collector falls short
  of what it has recorded by at most what was recorded unpaid; a recorded coin is
  listed; what a market has pending is recorded in coins too, but for what was
  recorded under `address(0)` since its last claim.
* `CollectorSolvent`: the V1 collector falls short of what it owes for fees and
  airdrops by at most what was recorded unpaid.
* `BuyKeepsProduct` (V2), `SwapKeepsProduct` (V1): who gains from rounding and
  from the order in which fees are settled.
* `SupplyExact`, `GapWithinFees`, `RoundingKeepsBacking`: see the proofs below.
* `ListMatchesFlags`: swap-and-pop removes exactly the coin asked for.
* `ExecutedIsFinal`, `CancelledIsFinal`, `TimelockRespected`: an action runs
  once, in its window, and not after its cancellation, though actions act on
  actions.
* `ImplementsSubgraph`, `PendingIndexed`, `LaterStrategyIndexed`: without faults
  the tables are the subgraph's entities after the log the indexer is at, and
  what both tell of strategies chosen later is true of the contracts; what they
  tell of pending fees falls short of the collector's by exactly what others than
  the pool recorded since the last claim.
* `NoSwapSkipped`, `CreatedAreTracked`, `CountsNeverShort`,
  `ReservesFollowSwaps`, `OnlyOpenBatchReplayed`: what the rows can be relied on
  for through a restart and an error.
* `USIDIndexed`, `SubgraphBalances`, `HoldersExact`, `UsersNeverOvercounted`:
  balances are the contracts', and each way in which a count may be off is
  named.
* `RelationsResolve`, `SeriesPrices`, `PagesStay`: no reader meets a null that
  the schema forbids, except for the position of a market whose creation is not
  handled to its end; prices in the series are those of the swaps; a full page
  never changes.
* `CandlesExact`, `NoSwapPassed`, `FinestSurvives`: see below for the two ways
  in which a swap can be lost.
* `RankingWhole`, `LeadersRankFirst`: one computation's ranking or another's,
  never a mix; a market that is no worse in any signal ranks no worse.
* `SavedIsWired`, `RecordsGenuine`: a file names only what is fit for use.

Section 5 says which of these are proved for every instance.

Fairness. Contracts carry none: nobody is obliged to call them. Three liveness
properties need some.

* `EventuallyIndexed`: weak fairness of `IndexerStep`. The loop is `while
  (true)` with a sleep, catches every error and continues
  (`indexer.ts:234-298`), so while the process runs, its next step is taken.
  Mining, errors and restarts have no fairness.
* `EventuallyTaken`: weak fairness of each step of the candle service. It runs
  from a timer that is set again after every tick, failed or not (`candles.ts`),
  a stop runs to its end, and the process is started again after it ends.
* `EventuallyPosted`: weak fairness of the keeper's start and steps and of
  mining. `oracle-keeper.service` has `Restart=always`; the loop catches its
  errors and sleeps. What was sent is mined in nonce order.

Faults are finitely many, as in any run in which the processes are eventually
left alone.

## 4. Where the code and its documents differ

One run ends in a violation of what a comment says.

`MarketV2_claims`. A V2 sale pays its fee in whatever coins the pool has
(`HLPMMPoolV2.sol:252`, through `_sendStable`) but records it under the
preferred coin (`:253`). A claim then finds less of that coin, pays what there
is, deletes the record and reports the full amount, while
`FeeCollectorV2.sol:97` says that it returns what was distributed. The line is
quoted in `PROJECT.json` under "findings".

The models have the following as the code has it. No run is spent on them,
because nothing in the repository promises otherwise in so many words, or
because a property names them as its exception:

* A V2 sale pays the fee's value on top of the output, each priced as if the
  other were not paid, so the product falls; README.md:41 speaks of a constant
  product invariant. The `sync` after LP_REWARDS also removes earlier fees from
  `reserveUSID`, which may end below what it was.
* Anybody may record fees in either collector without paying
  (`FeeCollector.sol:45-48, 63`, `FeeCollectorV2.sol:77-80`, whose comment says
  "Anyone can call this"). A claim then spends what pools paid for other markets,
  and the pending fees of the indexer and the subgraph, which follow the Swap
  logs, are less than the collector's. `CollectorConsistent`, `CollectorSolvent`
  and `PendingIndexed` take exactly these amounts out of the account.
* One claim is added twice to `total_fees_claimed`, as two contracts report it;
  the subgraph does the same. The strategy a market is created with is never
  indexed. If the emitter's handler fails after inserting the market, the
  factory's handler returns early and the pool is never tracked.
* The token transfers of a market's creation are not fetched if its batch
  started before it, so the pool's row is missing in the indexer and there in
  the subgraph. A USID balance that returns from zero is not counted as a holder
  again. The subgraph loads the protocol before it counts a new creator and
  saves it afterwards.
* The candle cursor compares ids, while rows are ordered by log index: of two
  swaps in one second, the one with the smaller id may be passed over
  (`Hidden`). A failed write loses the swap it was at. After a restart, or a
  stop beside a tick, trades of a period may be counted twice.
* `deploy-v2.js:153` prints that all permissions are wired while the setters may
  still be pending. Two creators that overlap may lose each other's line of
  `markets.json`.
* If an update loses its confirmation, is mined late, and the API returns to the
  last confirmed price, the keeper takes that one for current
  (`EventuallyPosted` excepts it). An unchanged price does not reset
  `errorCount`, so the process ends after failures far apart, and relies on
  systemd.

## 5. What is proved

The proofs hold for all values of the constants that satisfy the named
assumptions: finite, disjoint sets of users and markets, natural amounts, rates
within the fee limits (V1: 10 to 300 basis points), nonzero prices and initial
amounts; for the indexer, batches of at least one block, a zero address that is
neither a pool nor a router, and a missing row that is not a number; for the
candles, timeframes that are multiples of the finest one (`TIMEFRAMES` are); for
the ranking, nonzero prices; for the scripts, any number of runs, creators and
markets. The bounds of TLC (`MaxOps`)
belong to the MC modules and play no part in them; `MaxBlocks`, `MaxFaults` and
`MaxRuns` are guards of the modules themselves, and the proofs hold for any of
their values.

**Sums** (`ArithmeticTheorems`). A total is the cardinality of the set of units
`{<<s, i>> : i in 1..f[s]}`. This avoids recursion, and the facts (adding or
removing an index, updating one value, sum of two functions, monotonicity)
follow from the theorems on finite sets.

**Arithmetic** (same module). The quotient of a swap is natural, at most the
reserve, and does not lower the product, from which `RoundTripNeverProfits`:
buying and selling back at once returns no more than was paid. The V1 formula is
the same, so these lemmas serve both. `HasLeast` and `HasGreatest` (a nonempty
finite set of integers has a least and a greatest element) are what the proofs
about recursive functions, quotients and candles start from.

**V1 money** (`MarketV1Theorems`). The inductive invariant is `Inv`: types,
`SupplyExact`, `CollectorSolvent`, `GapWithinFees` and `KLastIsFloor` together.
The types alone are not inductive: a burn or a withdrawal keeps the supply
natural only because the supply is the sum of the balances. The argument for
swaps goes through their effect records: `BuyFacts` and `SellFacts` say what an
effect does to the gap, to `kLast` and to the product; `SwapsKeepInv` shows that
any set of effects with these promises keeps `Inv`, and purchase, sale and
two-pool swap instantiate it. The remaining actions go through `LedgerKeepsInv`
(USID moves, no pool loses any) and `PositionKeepsInv` (no token moves, at most
one sync). The same lemmas give the action property `SwapKeepsProduct`.
`RoundingKeepsBacking` is proved from `SurplusStep`: a step that takes `a` of
PAX for `b` of USID with `b * PRICE_UNIT <= a * price` cannot lower the surplus,
and both quotients are rounded so that this holds.

**V2 money** (`MarketV2Theorems`). `Backed` strengthens the types with
`TokensBacked`, `ReservesBacked` and `ListMatchesFlags`. The list must name each
coin once, else a payout could take a coin twice; the payout's parts must add up
to its amount, which is what the lemmas about `Payout` show. It gives
`TypeCorrect`, `ListAgreesWithFlags`, `TokensAlwaysBacked` and
`ReservesAlwaysBacked`, and the other results build on it:

* `CollectorStaysConsistent`. `CollectorConsistent` is inductive relative to the
  types and the list of coins. A record of anybody's raises a counter and the
  history variable that stands for it alike. A sale pays its fee in whatever coins the pool
  has and records it under one of them, so coin by coin the collector is wrong
  (section 4); the proof is about sums over coins, for which a fee adds as much
  to the holdings as to the records, and a claim removes all records of its
  market while paying no more than they were.
* `BuysKeepProduct`. The product rises by the arithmetic above. The other
  steps must not take tokens off a reserve: `sync` sets it to the balance, which
  is at least the reserve because of `TokensBacked`.
* `FloorStaysPayable`, a statement about steps, relative to `Backed`: in a step
  that removes no coin, what a pool holds in listed coins can only fall by a
  payout, which takes exactly what the real reserve falls by. Since pools start
  empty it follows (`AdditionsKeepFloorPayable`) that in behaviours in which no
  coin is removed every pool can always pay.
* `BooksStayExact`, for behaviours in which no coin is removed and nobody sends
  coins or tokens to a pool by hand. Its inductive form, `BooksInCoins`, says further that a pool
  holds nothing of a coin that is not listed; otherwise a sync, which counts
  listed coins only, would lower the reserve below the balances.

The hypotheses of the last one are the ones the tests of `sync` have
(`HLPMMPoolV2.test.js`), stated as formulas over the steps; they are the bounds
under which `MarketV2_trade` checks `BooksExact`.

**Timelock** (`OperationsTheorems`, which has both). The delay is never below
`MIN_TIMELOCK`, so an action's earliest execution lies after the time in its id
(`Waiting`), so a queued action cannot be queued anew at the time it runs; with
`NeverBoth` (an id is never both executed and cancelled) this is inductive and
gives all five results.

**Indexer** (`IndexerTheorems`). None of the safety properties is inductive:
they speak of what the checkpoint has passed, and a row is written long before
that. The invariant speaks instead of the logs the loop is done with (`Passed`:
up to the checkpoint, or taken from the open batch), and for each kind of row it
says that the row is there, or its statement is still to run for the log at
hand, or the log's handler was cut short. `Inv` has five parts:

* `ChainInv`: a log knows its place; a swap comes in a later block than its
  market's creation; a Sync carries its own block.
* `LoopInv`: what the loop is done with comes before what is left of the batch,
  and the checkpoint before both.
* `CreationsInv`, `SwapsInv`: the rows of creations and swaps as above. A swap
  finds its market because of the order of blocks and `CreationsInv`.
* `CountsInv`: a market's count is at least the number of its passed swaps whose
  handlers were not cut short, unless the one of its creation was. A
  restart empties `todo` and takes back the open batch, so it only shrinks the
  set that is counted.

It gives `NoSwapIsSkipped`, `CreatedMarketsAreTracked`, `CountsAreNeverShort`,
`ReservesFollowTheSwaps` and, as an action property,
`OnlyTheOpenBatchIsReplayed`.

A second layer serves the properties about behaviours without faults.
`FaultsInv`: without restarts, a log whose handler was cut short is never taken
again. `DueInv`: what is still to run are statements of the handler at hand,
each listed once. `ChoicesInv`: a strategy chosen later is in the table, or a
newer one is, or its statement is still to run. `BooksInv`: the entities (tables
with the listed statements) hold the markets that the passed logs created and
the pending fees that those logs leave; that the collector has these and
`unreported` on top is part of `ChainInv` (`FeesReported`). They give `LaterStrategiesAreIndexed`,
`PendingFeesAreIndexed` and, for behaviours without restarts and errors,
`IndexerImplementsSubgraph`: the entities take exactly the steps of the
subgraph's.

**Accounts** (`AccountsTheorems`). The properties compare the tables with the
contracts once the loop has caught up; in between, the tables are behind by the
logs not yet handled and by the statements not yet run. `Inv` has seven parts:

* `ChainInv`: an account's USID is what the chain's transfers have brought it
  less what they took (`Ledger`), and no transfer takes more than the earlier
  ones had left with its sender (`Covered`). Without the second, a `Debit` could
  find a row below its amount. The sums run over the places of logs.
* `LoopInv`: the logs handled are those before the rest of the batch.
* `TodoInv`: `todo` lists each statement at most once and a statement that
  follows from another one comes first.
* `RowsInv`: the types of the tables.
* `UsersInv`: `totalUsers`, with the user just inserted and not yet counted, is
  at most the number of users and short of it by at most the faults so far.
* `HoldersInv`: a holder count, with the statement that is about to correct it,
  is the number of nonzero rows, for a token not in `disturbed`.
* `MoneyInv`: a balance row is the sum of the handled transfers, less what
  `Debit` and `Credit` of the log at hand still owe it; so for the supply.

The last two are about behaviours without faults, as the properties are. They
give `USIDAlwaysIndexed`, `HoldersAlwaysExact` and
`UsersAreNeverOvercounted`; only the last holds through faults.

`SubgraphHasBalances` compares the recursive function of `SubgraphAccounts` with
the contracts. That the function is what its definition says, for every chain,
is shown from its runs over one chain and the next: a counterexample would have a
least index (`HasLeast`), which replaces induction. `BooksInv` then says, of the
entities at the end of every block, that balances and supplies are the
contracts' after it, and that nobody has tokens before the creation, without
which handling the mint last would matter.

**Readers** (`ApiTheorems`). `RelationsAlwaysResolve` holds between any two
statements, so its invariant follows the handler: `HandlerInv` says of what is
left of it that each statement refers to rows that are there or inserted by an
earlier one of the rest (`InOrder`), and that the insertion of a market is followed by its position's.
`RowsOK` says the same of the tables, and `PositionsInv` names the only markets
without a position: those whose creation is at hand, was cut short, or will be
taken again (`Awaits`).

**Candles** (`ServicesTheorems`). The invariants are in four layers.

* `BaseInv`: types; swaps are in the order of time; the rows fetched are of one
  market, not behind its cursor (`RowsInv`) and after everything its worker has
  taken (`AheadInv`; seconds with a hidden swap are excepted throughout); a
  candle in memory is of the last period the worker took a swap of (`WipInv`),
  one in the table of a period before the cursor (`KeysInv`).
* `MissedInv`: there are at most as many swaps passed and not taken in as writes
  have failed: a write that fails passes the one at hand. It gives
  `CursorsPassNoSwap`.
* `ExactWip` and `RowsSound`: a candle in memory is that of the swaps the worker
  has taken in of its period, which for the finest timeframe stays true through
  restarts, since a new worker starts at the beginning of a finest period; a row
  has the opening price of its period's first swap, and no price outside them.
  `CompleteInv`: once a period is over, no trade of it is missing from its row.
  They give `FinestCandlesSurvive`. That timeframes are multiples of the finest
  is needed where the new worker's start, which may be that of a row of any
  timeframe, has to be that of a finest period too.
* `StopInv` and `ExactRows`: before the first stop or crash, a row is the candle
  of its period's swaps, and not in memory any more. With `ExactWip` they give
  `CandlesStayExact`.

**Ranking** (`ServicesTheorems`). `LeadersAlwaysRankFirst` is about arithmetic:
normalization keeps the order of any finite set of values, with the rounding of
both quotients, weights are positive, and so a market that is no worse in each
signal has no lower score. `RankingStaysWhole` needs the phases of a computation:
what was read is of markets that are still there (`SnapshotInv`), scores and
ranks agree with each other (`IndexedInv`, `PhaseInv`), and the transaction's
rows replace those of readers at once (`WritingInv`, `ReadersInv`).

**Scripts** (`OperationsTheorems`). `SavedIsWired` is about a file that is
written after transactions were sent and before they are mined. `InNonceOrder`
says which steps of the current run are mined and which pend: the first so
many, and the rest in order at the end of the queue, after those of runs that
died. Since `new` waits for its transaction, all steps before one are mined when
it returns. `RecordsGenuine` needs that what a creator is about to write was
read from the file and adds its own line alone (`MarketsInv`): a creator that
overwrites another's line loses it but invents none. Together they give
`SavedRunsAreWired` and `RecordsAreGenuine`.

`KLastIsFloor` and `NeverBoth` are proved for every instance and so need no run
of their own.

**Only model-checked.**

* Liveness under fairness, which is beyond the prover: `EventuallyIndexed`,
  `EventuallyTaken`, `EventuallyPosted`.
* `SeriesPrices` and `PagesStay` of the readers: not proved so far.

The library's theorems of induction take an operator as parameter, which the
installed provers cannot instantiate. Where a proof needs induction (the
subgraph's recursive function) it argues by the least counterexample instead.
No module declares a recursive operator, and no theorem is about `ENABLED`.

## 6. What is not modelled

* How the fee rate arises: age, volatility samples, concentration of holders,
  32-bit times (planned, `SwapFee`).
* Paths of more than two pools, the V2 two-leg swap, deadlines, allowances,
  approvals of positions, V2 market creation as an action (planned).
* The protocol's day series, the users' volumes, and decimal arithmetic on
  strings in the indexer.
* Of GraphQL, filters and orders other than those of the market series, and
  plain fields: they read one row. Of the subgraph, `Sync` and the time series.
* The scripts other than deployment, `createMarket.js` and the keeper: one-off
  tests and diagnostics.
* V1 and V2 quoters and emitters' storage, V1's helper libraries; generated code
  (ABIs, the subgraph's schema classes), which has no logic of its own.
* Setters of addresses that the models take as constants:
  `FeeCollectorV2.setProtocolAddresses`; `FeeCollector.setFactory`,
  `setMarketNFT` and `setEventEmitter`, the last two of which the deployer may
  call at any time.
* Calls of `swap` that no router makes, USID sent by hand to the collector, and
  airdrops to accounts other than users'.
* Reorganizations of the chain: the indexer has no code for them.
* Smaller abstractions. `MultiHop` takes two different markets, though the router
  accepts a path that returns to the first pool. `TokenEvents.Trade` lacks the
  USID transfer by which a pool pays the fee to the collector, one more log of a
  kind that is modelled. `computeScores` reads in
  one step what the service reads by three awaited queries. `Minted` has only
  the event's market; the fallback of `createMarket.js:91-97` to the market
  count, for a receipt without the event, is what the mutant `Minted_Count`
  does. `Candles.Visit` takes swaps in the order of the table, where the query
  orders by time and log index, which differs if two blocks share a second. A
  write of a candle that is committed while its acknowledgement is lost is not a
  case of `WriteFails`. In `MarketEvents` a claim never reverts for lack of USID
  in the collector.
* Interference within one transaction: tokens and coins are assumed not to call
  back.

## 7. Plan

In this order:

1. `SwapFee`: `FeeCalculatorV2`, `VolatilityOracle` and the list of large
   holders, and their V1 counterparts; the rate lies within its limits, the
   average within the range of its samples, the sampling interval is kept. It
   replaces the free choice of the rate in both compositions by what it can
   return.
2. `MarketNFT` approvals, `HLPMMFactoryV2.createMarket` and the two-leg swap as
   actions of `MarketV2`.
3. The protocol's day series in `Entities` and the subgraph's time series.
4. Proofs: the price series and pages of the readers (`SeriesPrices`,
   `PagesStay`).
