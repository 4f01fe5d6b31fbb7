------------------------------- MODULE Indexer -------------------------------
(***************************************************************************)
(* The PostgreSQL indexer: startIndexer's loop and the handlers it calls.  *)
(* Every SQL statement commits on its own, so each is a step; a crash, a   *)
(* restart or an error outside the handlers may come between any two and   *)
(* forgets the batch, and an error inside a handler is swallowed with the  *)
(* rest of the handler.  The indexer is the only writer of these rows, so  *)
(* a value read and written back in one handler is added to in place.      *)
(***************************************************************************)
EXTENDS MarketEvents, Integers, Functions

CONSTANTS
  BatchSize,     \* config.batchSize
  MaxCrashes,    \* bound on restarts and errors of the loop
  MaxFailures    \* bound on swallowed errors of handlers

ASSUME IndexerAssumption ==
  /\ BatchSize \in Nat \ {0}
  /\ MaxCrashes \in Nat
  /\ MaxFailures \in Nat

VARIABLES
  db,        \* the tables, one field per table or column
  toBlock,   \* end of the batch, 0 between batches
  batch,     \* the logs of the batch not handled yet
  current,   \* the log being handled, if todo is not empty
  todo,      \* the statements its handler has still to run
  crashes,
  failures,
  lost       \* ids of the logs whose last handler was cut short by an error

loopVars == <<toBlock, batch, current, todo>>
faultVars == <<crashes, failures, lost>>
vars == <<chainVars, db, loopVars, faultVars>>

Zeros == [m \in Markets |-> 0]

Init ==
  /\ EventsInit
  /\ db = [lastBlock |-> 0, markets |-> {}, nfts |-> {}, tracked |-> {},
           owner |-> owner, strategy |-> [m \in Markets |-> CLAIM],
           swapCount |-> Zeros, marketFees |-> Zeros, reserves |-> Zeros,
           pending |-> Zeros, claimed |-> Zeros, changes |-> Zeros,
           totalMarkets |-> 0, totalSwaps |-> 0, marketsCreated |-> 0,
           swapRows |-> {}, claimRows |-> {},
           changeRows |-> {}, transferRows |-> {}]
  /\ toBlock = 0
  /\ batch = {}
  /\ current = <<>>
  /\ todo = <<>>
  /\ crashes = 0
  /\ failures = 0
  /\ lost = {}
-----------------------------------------------------------------------------
(* The loop.  Pool logs are asked for only from the pools tracked when the *)
(* batch starts; the tracked set read again after a MarketCreated selects  *)
(* among logs already fetched, and so changes nothing.                     *)
Fetched(from, to) ==
  {log \in UNION {{chain[b][i] : i \in DOMAIN chain[b]} : b \in from .. to} :
     log.kind = "Sync" => log.market \in db.tracked}

BatchEnd(from) ==
  IF from + BatchSize - 1 <= Height THEN from + BatchSize - 1 ELSE Height

(* Mutants: the checkpoint saved before the batch is handled; the block of *)
(* the checkpoint read again; only full batches read.                      *)
StartBatch_CheckpointFirst ==
  LET from == db.lastBlock + 1
  IN /\ toBlock = 0
     /\ from <= Height
     /\ toBlock' = BatchEnd(from)
     /\ batch' = Fetched(from, BatchEnd(from))
     /\ db' = [db EXCEPT !.lastBlock = BatchEnd(from)]
     /\ UNCHANGED <<chainVars, current, todo, faultVars>>

StartBatch_FromCheckpoint ==
  LET from == IF db.lastBlock = 0 THEN 1 ELSE db.lastBlock
  IN /\ toBlock = 0
     /\ from <= Height
     /\ toBlock' = BatchEnd(from)
     /\ batch' = Fetched(from, BatchEnd(from))
     /\ UNCHANGED <<chainVars, db, current, todo, faultVars>>

StartBatch_FullOnly ==
  LET from == db.lastBlock + 1
  IN /\ toBlock = 0
     /\ from + BatchSize - 1 <= Height
     /\ toBlock' = BatchEnd(from)
     /\ batch' = Fetched(from, BatchEnd(from))
     /\ UNCHANGED <<chainVars, db, current, todo, faultVars>>

StartBatch ==
  LET from == db.lastBlock + 1
  IN /\ toBlock = 0
     /\ from <= Height
     /\ toBlock' = BatchEnd(from)
     /\ batch' = Fetched(from, BatchEnd(from))
     /\ UNCHANGED <<chainVars, db, current, todo, faultVars>>

(* Each handler as the statements it runs, after its early returns.        *)
(* Mutant: a market that has a row is skipped here too.                    *)
handleMarketCreated_SkipKnown(log) ==
  IF log.market \in db.markets THEN <<>>
  ELSE <<"CountCreator", "InsertMarket", "InsertNFT", "CountMarket", "TrackPool">>

handleMarketCreated(log) ==
  <<"CountCreator", "InsertMarket", "InsertNFT", "CountMarket", "TrackPool">>

(* Mutant: no skip in the factory's handler. *)
handleFactoryMarketCreated_Repeats(log) == handleMarketCreated(log)

handleFactoryMarketCreated(log) ==
  IF log.market \in db.markets THEN <<>> ELSE handleMarketCreated(log)

(* Mutant: a swap whose row exists is taken for counted. *)
handleSwap_SkipRecorded(log) ==
  IF log.market \notin db.markets \/ Id(log) \in db.swapRows THEN <<>>
  ELSE <<"InsertSwap", "UpdateMarket", "CountSwap", "AddPending">>

handleSwap(log) ==
  IF log.market \notin db.markets THEN <<>>
  ELSE <<"InsertSwap", "UpdateMarket", "CountSwap", "AddPending">>

handleSync(log) ==
  IF log.market \notin db.markets THEN <<>> ELSE <<"SetReserves">>

handleFeeClaimed(log) ==
  IF log.market \notin db.nfts THEN <<>> ELSE <<"InsertClaim", "ApplyClaim">>

handleNFTFeesClaimed(log) == handleFeeClaimed(log)

handleFeeStrategyUpdated(log) ==
  IF log.market \notin db.nfts THEN <<>> ELSE <<"InsertChange", "ApplyStrategy">>

handleNFTFeeStrategyUpdated(log) == handleFeeStrategyUpdated(log)

handleNFTTransfer(log) ==
  IF log.market \notin db.nfts THEN <<>> ELSE <<"InsertTransfer", "SetOwner">>

processLog(log) ==
  CASE log.kind = "MarketCreated"         -> handleMarketCreated(log)
    [] log.kind = "Swap"                  -> handleSwap(log)
    [] log.kind = "FeeClaimed"            -> handleFeeClaimed(log)
    [] log.kind = "FeeStrategyUpdated"    -> handleFeeStrategyUpdated(log)
    [] log.kind = "FactoryMarketCreated"  -> handleFactoryMarketCreated(log)
    [] log.kind = "NFTTransfer"           -> handleNFTTransfer(log)
    [] log.kind = "NFTFeeStrategyUpdated" -> handleNFTFeeStrategyUpdated(log)
    [] log.kind = "FeesClaimed"           -> handleNFTFeesClaimed(log)
    [] log.kind = "Sync"                  -> handleSync(log)
    [] OTHER                              -> <<>>

(* Mutant: the logs of a batch are handled in no order. *)
TakeLog_AnyOrder ==
  /\ toBlock > 0
  /\ todo = <<>>
  /\ \E log \in batch :
       /\ batch' = batch \ {log}
       /\ current' = log
       /\ todo' = processLog(log)
       /\ lost' = lost \ {Id(log)}
  /\ UNCHANGED <<chainVars, db, toBlock, crashes, failures>>

TakeLog ==
  /\ toBlock > 0
  /\ todo = <<>>
  /\ \E log \in batch :
       /\ \A other \in batch : Before(log, other)
       /\ batch' = batch \ {log}
       /\ current' = log
       /\ todo' = processLog(log)
       /\ lost' = lost \ {Id(log)}
  /\ UNCHANGED <<chainVars, db, toBlock, crashes, failures>>

Checkpoint ==
  /\ toBlock > 0
  /\ batch = {}
  /\ todo = <<>>
  /\ db' = [db EXCEPT !.lastBlock = toBlock]
  /\ toBlock' = 0
  /\ UNCHANGED <<chainVars, batch, current, todo, faultVars>>
-----------------------------------------------------------------------------
(* The statements, as what each does to the tables when log is handled. *)
CountCreator(d, log) == [d EXCEPT !.marketsCreated = @ + 1]

InsertMarket(d, log) ==
  IF log.market \in d.markets THEN d
  ELSE [d EXCEPT !.markets = @ \union {log.market},
                 !.reserves[log.market] = log.block]

InsertNFT(d, log) ==
  IF log.market \in d.nfts THEN d
  ELSE [d EXCEPT !.nfts = @ \union {log.market}, !.owner[log.market] = log.arg]

CountMarket(d, log) == [d EXCEPT !.totalMarkets = @ + 1]

TrackPool(d, log) == [d EXCEPT !.tracked = @ \union {log.market}]

InsertSwap(d, log) == [d EXCEPT !.swapRows = @ \union {Id(log)}]

UpdateMarket(d, log) ==
  [d EXCEPT !.swapCount[log.market] = @ + 1,
            !.marketFees[log.market] = @ + log.arg,
            !.reserves[log.market] = log.block]

CountSwap(d, log) == [d EXCEPT !.totalSwaps = @ + 1]

AddPending(d, log) ==
  IF log.market \in d.nfts THEN [d EXCEPT !.pending[log.market] = @ + log.arg] ELSE d

SetReserves(d, log) == [d EXCEPT !.reserves[log.market] = log.arg]

InsertClaim(d, log) == [d EXCEPT !.claimRows = @ \union {Id(log)}]

(* Mutant: the claim leaves pending_fees alone. *)
ApplyClaim_KeepPending(d, log) == [d EXCEPT !.claimed[log.market] = @ + log.arg]

ApplyClaim(d, log) ==
  [d EXCEPT !.claimed[log.market] = @ + log.arg, !.pending[log.market] = 0]

InsertChange(d, log) == [d EXCEPT !.changeRows = @ \union {Id(log)}]

(* Mutant: the change is counted but not applied. *)
ApplyStrategy_CountOnly(d, log) == [d EXCEPT !.changes[log.market] = @ + 1]

ApplyStrategy(d, log) ==
  [d EXCEPT !.strategy[log.market] = log.arg, !.changes[log.market] = @ + 1]

InsertTransfer(d, log) == [d EXCEPT !.transferRows = @ \union {Id(log)}]

SetOwner(d, log) == [d EXCEPT !.owner[log.market] = log.arg]

After(d, statement, log) ==
  CASE statement = "CountCreator"   -> CountCreator(d, log)
    [] statement = "InsertMarket"   -> InsertMarket(d, log)
    [] statement = "InsertNFT"      -> InsertNFT(d, log)
    [] statement = "CountMarket"    -> CountMarket(d, log)
    [] statement = "TrackPool"      -> TrackPool(d, log)
    [] statement = "InsertSwap"     -> InsertSwap(d, log)
    [] statement = "UpdateMarket"   -> UpdateMarket(d, log)
    [] statement = "CountSwap"      -> CountSwap(d, log)
    [] statement = "AddPending"     -> AddPending(d, log)
    [] statement = "SetReserves"    -> SetReserves(d, log)
    [] statement = "InsertClaim"    -> InsertClaim(d, log)
    [] statement = "ApplyClaim"     -> ApplyClaim(d, log)
    [] statement = "InsertChange"   -> InsertChange(d, log)
    [] statement = "ApplyStrategy"  -> ApplyStrategy(d, log)
    [] statement = "InsertTransfer" -> InsertTransfer(d, log)
    [] statement = "SetOwner"       -> SetOwner(d, log)

Statement ==
  /\ todo # <<>>
  /\ db' = After(db, Head(todo), current)
  /\ todo' = Tail(todo)
  /\ UNCHANGED <<chainVars, toBlock, batch, current, faultVars>>
-----------------------------------------------------------------------------
(* processLog logs an error of a handler and goes on with the next log. *)
HandlerFails ==
  /\ todo # <<>>
  /\ failures < MaxFailures
  /\ todo' = <<>>
  /\ failures' = failures + 1
  /\ lost' = lost \union {Id(current)}
  /\ UNCHANGED <<chainVars, db, toBlock, batch, current, crashes>>

(* The process stops, shut down or not, or the loop's own error handler    *)
(* runs: the batch is forgotten and starts again from the checkpoint.      *)
Restart ==
  /\ toBlock > 0
  /\ crashes < MaxCrashes
  /\ toBlock' = 0
  /\ batch' = {}
  /\ todo' = <<>>
  /\ crashes' = crashes + 1
  /\ UNCHANGED <<chainVars, db, current, failures, lost>>

IndexerStep == StartBatch \/ TakeLog \/ Statement \/ Checkpoint

Mined == Transaction /\ UNCHANGED <<db, loopVars, faultVars>>

Next == Mined \/ IndexerStep \/ HandlerFails \/ Restart

Spec == Init /\ [][Next]_vars

(* The loop runs for as long as the process does; restarts are bounded. *)
FairSpec == Spec /\ WF_vars(IndexerStep)
-----------------------------------------------------------------------------
(* What the tables are, read as the subgraph's entities: a log counts as   *)
(* handled when it is taken, so that the statements its handler has still  *)
(* to run are added to the tables.                                         *)
EntitiesOf(d, due, log) ==
  LET DueFor(m, statement) == statement \in due /\ m = log.market
      WithRow(rows, statement, row) ==
        IF statement \in due THEN rows \union {row} ELSE rows
      WithCount(count, statement) == IF statement \in due THEN count + 1 ELSE count
      WithSum(column, statement, n) ==
        [m \in Markets |-> IF DueFor(m, statement) THEN column[m] + n ELSE column[m]]
      Owner(m) ==
        CASE m \in d.nfts /\ ~ DueFor(m, "SetOwner")    -> d.owner[m]
          [] m \notin d.nfts /\ ~ DueFor(m, "InsertNFT") -> <<>>
          [] OTHER                                       -> log.arg
  IN [markets |-> WithRow(d.markets, "InsertMarket", log.market),
      nfts |-> WithRow(d.nfts, "InsertNFT", log.market),
      tracked |-> WithRow(d.tracked, "TrackPool", log.market),
      owner |-> [m \in Markets |-> Owner(m)],
      feeStrategy |-> [m \in Markets |->
        IF DueFor(m, "ApplyStrategy") THEN log.arg ELSE d.strategy[m]],
      swapCount |-> WithSum(d.swapCount, "UpdateMarket", 1),
      feesUSID |-> WithSum(d.marketFees, "UpdateMarket", log.arg),
      pendingFees |-> [m \in Markets |->
        CASE DueFor(m, "ApplyClaim") -> 0
          [] DueFor(m, "AddPending") -> d.pending[m] + log.arg
          [] OTHER                   -> d.pending[m]],
      totalFeesClaimed |-> WithSum(d.claimed, "ApplyClaim", log.arg),
      totalMarkets |-> WithCount(d.totalMarkets, "CountMarket"),
      totalSwaps |-> WithCount(d.totalSwaps, "CountSwap"),
      marketsCreated |-> WithCount(d.marketsCreated, "CountCreator"),
      swaps |-> WithRow(d.swapRows, "InsertSwap", Id(log)),
      claims |-> WithRow(d.claimRows, "InsertClaim", Id(log)),
      changes |-> WithRow(d.changeRows, "InsertChange", Id(log)),
      transfers |-> WithRow(d.transferRows, "InsertTransfer", Id(log))]

Entities == EntitiesOf(db, Range(todo), current)

(* The logs the loop is done with: those up to the checkpoint, and those   *)
(* of the open batch it has taken.  Sync logs are left out, because those  *)
(* of pools not tracked are never fetched.                                 *)
Passed ==
  {log \in Emitted : /\ log.kind # "Sync"
                     /\ \/ log.block <= db.lastBlock
                        \/ log.block <= toBlock /\ log \notin batch}

Sub == INSTANCE Subgraph WITH handled <- Passed, books <- Entities

(* Without faults the indexer does what the subgraph does: batches, the    *)
(* checkpoint and separate statements change nothing of what is recorded.  *)
ImplementsSubgraph == Sub!Spec
-----------------------------------------------------------------------------
(* The logs of one kind and market in the blocks 1 .. to. *)
LogsOf(kind, m, to) ==
  {log \in UNION {{chain[b][i] : i \in DOMAIN chain[b]} : b \in 1 .. to} :
     log.kind = kind /\ log.market = m}

Idle == toBlock = 0
CaughtUp == Idle /\ db.lastBlock = Height

CreationLost(m) == \E log \in LogsOf("MarketCreated", m, Height) : Id(log) \in lost

(* The checkpoint never passes a swap that has no row, unless its handler, *)
(* or the one that creates its market, was cut short by an error: restarts *)
(* lose nothing.                                                           *)
NoSwapSkipped ==
  \A m \in Markets : \A log \in LogsOf("Swap", m, db.lastBlock) :
    Id(log) \in db.swapRows \union lost \/ CreationLost(m)

(* A market the checkpoint has passed is tracked, so that its pool's logs  *)
(* are asked for in every later batch, unless its handler was cut short.   *)
CreatedAreTracked ==
  \A m \in Markets :
    LogsOf("MarketCreated", m, db.lastBlock) # {} => m \in db.tracked \/ CreationLost(m)

(* Batches handled again after a restart may count a swap twice but never  *)
(* miss one: between batches swap_count is at least the swaps that the     *)
(* checkpoint has passed.                                                  *)
CountsNeverShort ==
  Idle /\ lost = {} => \A m \in Markets :
    db.swapCount[m] >= Cardinality(LogsOf("Swap", m, db.lastBlock))

(* Once caught up with no restart and no error, pending_fees of a market   *)
(* falls short of what the collector has recorded by exactly what others   *)
(* than its pool recorded since its last claim, which no log tells.        *)
PendingIndexed ==
  CaughtUp /\ lost = {} /\ crashes = 0 =>
    \A m \in created : db.pending[m] + unreported[m] = fees[m]

(* Once caught up the reserves of a market are at least as new as its last *)
(* swap, although replayed batches write old reserves first.               *)
ReservesFollowSwaps ==
  CaughtUp /\ lost = {} => \A m \in Markets :
    \A log \in LogsOf("Swap", m, Height) : db.reserves[m] >= log.block

(* A strategy set after the market's creation is the one indexed. *)
LaterStrategyIndexed ==
  CaughtUp /\ lost = {} => \A m \in Markets :
    (\E log \in LogsOf("FeeStrategyUpdated", m, Height),
        made \in LogsOf("MarketCreated", m, Height) : log.block > made.block)
      => db.strategy[m] = strategy[m]

(* The checkpoint only moves forward, and no log at or before it is        *)
(* handled again, so that a restart replays at most the open batch.        *)
OnlyOpenBatchReplayed ==
  [][/\ db.lastBlock <= db'.lastBlock
     /\ current' # current => current'.block > db.lastBlock]_vars

(* Every block is indexed in the end. *)
EventuallyIndexed ==
  \A b \in 1 .. MaxBlocks : Height >= b ~> db.lastBlock >= b
=============================================================================
