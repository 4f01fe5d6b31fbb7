------------------------------ MODULE Subgraph ------------------------------
(***************************************************************************)
(* The subgraph on the same chain: a Graph node gives every log to its     *)
(* handler once, in order, and a handler's entity changes take effect      *)
(* together.  It is also what the PostgreSQL indexer promises to replace,  *)
(* so Indexer is shown to implement Spec.  Sync logs are left out: when a  *)
(* new pool's first one is seen differs between the two.                   *)
(***************************************************************************)
EXTENDS MarketEvents

VARIABLES
  handled,   \* the events handled
  books      \* the entities

sgVars == <<chainVars, handled, books>>

Events == {log \in Emitted : log.kind # "Sync"}

Nothing ==
  [markets |-> {}, nfts |-> {}, tracked |-> {},
   owner |-> [m \in Markets |-> <<>>], feeStrategy |-> [m \in Markets |-> CLAIM],
   swapCount |-> [m \in Markets |-> 0], feesUSID |-> [m \in Markets |-> 0],
   pendingFees |-> [m \in Markets |-> 0], totalFeesClaimed |-> [m \in Markets |-> 0],
   totalMarkets |-> 0, totalSwaps |-> 0, marketsCreated |-> 0,
   swaps |-> {}, claims |-> {}, changes |-> {}, transfers |-> {}]

handleMarketCreated(b, log) ==
  [b EXCEPT !.markets = @ \union {log.market},
            !.nfts = @ \union {log.market},
            !.tracked = @ \union {log.market},
            !.owner[log.market] = log.arg,
            !.feeStrategy[log.market] = CLAIM,
            !.marketsCreated = @ + 1,
            !.totalMarkets = @ + 1]

handleFactoryMarketCreated(b, log) ==
  IF log.market \in b.markets THEN b ELSE handleMarketCreated(b, log)

handleSwap(b, log) ==
  IF log.market \notin b.markets THEN b
  ELSE [b EXCEPT !.swaps = @ \union {Id(log)},
                 !.swapCount[log.market] = @ + 1,
                 !.feesUSID[log.market] = @ + log.arg,
                 !.pendingFees[log.market] = @ + log.arg,
                 !.totalSwaps = @ + 1]

handleFeeClaimed(b, log) ==
  IF log.market \notin b.nfts THEN b
  ELSE [b EXCEPT !.claims = @ \union {Id(log)},
                 !.totalFeesClaimed[log.market] = @ + log.arg,
                 !.pendingFees[log.market] = 0]

handleNFTFeesClaimed(b, log) == handleFeeClaimed(b, log)

handleFeeStrategyUpdated(b, log) ==
  IF log.market \notin b.nfts THEN b
  ELSE [b EXCEPT !.changes = @ \union {Id(log)},
                 !.feeStrategy[log.market] = log.arg]

handleNFTFeeStrategyUpdated(b, log) == handleFeeStrategyUpdated(b, log)

handleNFTTransfer(b, log) ==
  IF log.market \notin b.nfts THEN b
  ELSE [b EXCEPT !.transfers = @ \union {Id(log)},
                 !.owner[log.market] = log.arg]

(* A mint finds no position and, if it did, comes from nobody. *)
Handle(b, log) ==
  CASE log.kind = "MarketCreated"         -> handleMarketCreated(b, log)
    [] log.kind = "FactoryMarketCreated"  -> handleFactoryMarketCreated(b, log)
    [] log.kind = "Swap"                  -> handleSwap(b, log)
    [] log.kind = "FeeClaimed"            -> handleFeeClaimed(b, log)
    [] log.kind = "FeesClaimed"           -> handleNFTFeesClaimed(b, log)
    [] log.kind = "FeeStrategyUpdated"    -> handleFeeStrategyUpdated(b, log)
    [] log.kind = "NFTFeeStrategyUpdated" -> handleNFTFeeStrategyUpdated(b, log)
    [] log.kind = "NFTTransfer"           -> handleNFTTransfer(b, log)
    [] OTHER                              -> b

Init ==
  /\ EventsInit
  /\ handled = {}
  /\ books = Nothing

HandleNext ==
  \E log \in Events \ handled :
    /\ \A other \in Events \ handled : Before(log, other)
    /\ handled' = handled \union {log}
    /\ books' = Handle(books, log)
    /\ UNCHANGED chainVars

Mined == Transaction /\ UNCHANGED <<handled, books>>

Next == Mined \/ HandleNext

Spec == Init /\ [][Next]_sgVars
=============================================================================
