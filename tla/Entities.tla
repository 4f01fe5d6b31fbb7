------------------------------ MODULE Entities ------------------------------
(***************************************************************************)
(* The indexer's tables as the GraphQL API reads them: which rows each     *)
(* handler writes, in which order, and the rows they refer to.  Every      *)
(* statement commits on its own.  Of a row's columns only references,      *)
(* prices and what the scores of Trending need are kept: counters are in   *)
(* Indexer, balances in Accounts.  The loop takes a log at a time here; a  *)
(* restart goes back to the checkpoint.  A swap moves one token, so that   *)
(* its amount in USID is its price.                                        *)
(***************************************************************************)
EXTENDS Integers, SequencesExt

CONSTANTS
  Markets,      \* a market, its pool, its token and its position share an id
  Users,
  USID,         \* the id of the stablecoin's token row
  Prices,       \* the prices swaps may leave behind
  SeriesLength, \* the length of the periods of each series of a market
  MaxLogs,      \* bound on the logs after the first market's
  MaxTime,      \* bound on time, in units of the shortest series
  MaxFaults     \* bound on restarts and swallowed errors of handlers

ASSUME EntitiesAssumption ==
  /\ Prices \subseteq Nat \ {0}
  /\ DOMAIN SeriesLength = {"market_5min_data", "market_hour_data", "market_day_data"}
  /\ \A table \in DOMAIN SeriesLength : SeriesLength[table] \in Nat \ {0}
  /\ MaxLogs \in Nat /\ MaxTime \in Nat
  /\ MaxFaults \in Nat

VARIABLES
  db,          \* the tables: their ids, each with its row
  logs,        \* the logs of the chain
  next,        \* index of the log to handle next
  checkpoint,  \* index of the last log before the checkpoint
  todo,        \* statements the handler has still to run
  restarts,
  failures

vars == <<db, logs, next, checkpoint, todo, restarts, failures>>

InitialPrice == 1
Nothing == [id \in {} |-> 0]

Series == {"market_5min_data", "market_hour_data", "market_day_data"}
Hour == SeriesLength["market_hour_data"]

Tables ==
  {"user", "token", "market", "market_nft", "swap", "fee_claim", "nft_transfer",
   "fee_strategy_change", "user_token_balance"} \union Series

(* The relations of each GraphQL type that must not be null: the field,    *)
(* and the table its resolver looks in.                                    *)
Relations ==
  [user |-> {},
   token |-> {},
   market |-> {<<"token", "token">>, <<"nft", "market_nft">>, <<"creator", "user">>},
   market_nft |-> {<<"owner", "user">>, <<"market", "market">>},
   swap |-> {<<"market", "market">>, <<"user", "user">>},
   fee_claim |-> {<<"nft", "market_nft">>, <<"recipient", "user">>},
   nft_transfer |-> {<<"nft", "market_nft">>, <<"from", "user">>, <<"to", "user">>},
   fee_strategy_change |-> {<<"nft", "market_nft">>},
   user_token_balance |-> {<<"user", "user">>, <<"token", "token">>},
   market_5min_data |-> {<<"market", "market">>},
   market_hour_data |-> {<<"market", "market">>},
   market_day_data |-> {<<"market", "market">>}]

(* The rows the handlers insert. *)
UserRow == Nothing
TokenRow == [market |-> Nothing]
MarketRow(log) ==
  [token |-> log.market, nft |-> log.market, creator |-> log.user,
   price |-> InitialPrice, holders |-> 1, lastSwap |-> 0,
   volume |-> 0, ath |-> InitialPrice, atl |-> InitialPrice]
MarketNFTRow(log) == [owner |-> log.user, market |-> log.market]
SwapRow(log) == [market |-> log.market, user |-> log.user, time |-> log.time, price |-> log.price]
FeeClaimRow(log) == [nft |-> log.market, recipient |-> log.user]
NFTTransferRow(log) == [nft |-> log.market, from |-> log.from, to |-> log.user]
FeeStrategyChangeRow(log) == [nft |-> log.market]
BalanceRow(user, token) == [user |-> user, token |-> token]
-----------------------------------------------------------------------------
(* Statements. *)
Insert(table, id, row) == [op |-> "insert", table |-> table, id |-> id, row |-> row]
Update(table, id, fields) == [op |-> "update", table |-> table, id |-> id, row |-> fields]
Upsert(table, log) == [op |-> "series", table |-> table, id |-> log.market, row |-> log]
Refresh(log) == [op |-> "refresh", table |-> "market", id |-> log.market, row |-> log]
CountHolders(token) == [op |-> "holders", table |-> "market", id |-> token, row |-> Nothing]

(* The first function where it is defined, the second one elsewhere.       *)
Over(f, g) ==
  [x \in DOMAIN f \union DOMAIN g |-> IF x \in DOMAIN f THEN f[x] ELSE g[x]]

Single(id, row) == [x \in {id} |-> row]

(* ON CONFLICT DO NOTHING *)
Inserted(rows, id, row) == Over(rows, Single(id, row))

Updated(rows, id, fields) ==
  IF id \in DOMAIN rows THEN [rows EXCEPT ![id] = Over(fields, @)] ELSE rows

(* One more swap in its period. *)
Traded(row, price) ==
  [row EXCEPT !.high = Max({@, price}), !.low = Min({@, price}), !.close = price, !.swaps = @ + 1]

(* Mutant: a period opens at its own first price. *)
upsertOHLC_OwnOpen(rows, m, period, price) ==
  LET id == <<m, period>>
  IN IF id \in DOMAIN rows
     THEN [rows EXCEPT ![id] = Traded(@, price)]
     ELSE Inserted(rows, id, [market |-> m, open |-> price, high |-> price, low |-> price,
                              close |-> price, swaps |-> 1])

(* A new period opens at the close of the one before it, if there is one. *)
upsertOHLC(rows, m, period, price) ==
  LET id == <<m, period>>
      before == <<m, period - 1>>
      open == IF before \in DOMAIN rows THEN rows[before].close ELSE price
  IN IF id \in DOMAIN rows
     THEN [rows EXCEPT ![id] = Traded(@, price)]
     ELSE Inserted(rows, id, [market |-> m, open |-> open, high |-> Max({open, price}),
                              low |-> Min({open, price}), close |-> price, swaps |-> 1])

SwapsOf(d, m) == {d.swap[i] : i \in {j \in DOMAIN d.swap : d.swap[j].market = m}}

(* Amounts of the swaps since a time, from the rows themselves. *)
VolumeSince(d, m, time) ==
  MapThenSumSet(LAMBDA i : d.swap[i].price,
                {i \in DOMAIN d.swap : d.swap[i].market = m /\ d.swap[i].time > time})

refreshMarketEnrichedFields(d, m, time) ==
  LET prices == {swap.price : swap \in SwapsOf(d, m)}
  IN IF m \notin DOMAIN d.market THEN d.market
     ELSE [d.market EXCEPT ![m] =
             [@ EXCEPT !.volume = VolumeSince(d, m, time - Hour),
                       !.ath = Max(prices), !.atl = Min(prices), !.lastSwap = time]]

Holders(d, token) == Cardinality({id \in DOMAIN d.user_token_balance : id[2] = token})

RowsAfter(d, s) ==
  LET rows == d[s.table]
  IN CASE s.op = "insert"  -> Inserted(rows, s.id, s.row)
       [] s.op = "update"  -> Updated(rows, s.id, s.row)
       [] s.op = "series"  -> upsertOHLC(rows, s.id, s.row.time \div SeriesLength[s.table],
                                         s.row.price)
       [] s.op = "refresh" -> refreshMarketEnrichedFields(d, s.id, s.row.time)
       [] s.op = "holders" -> Updated(rows, s.id, [holders |-> Holders(d, s.id)])

After(d, s) == [d EXCEPT ![s.table] = RowsAfter(d, s)]
-----------------------------------------------------------------------------
(* The handlers, as the statements they run after their early returns. *)
getOrCreateUser(user) == Insert("user", user, UserRow)

(* Mutant: the token row is written last. *)
handleMarketCreated_TokenLast(log, n) ==
  <<getOrCreateUser(log.user),
    Insert("market", log.market, MarketRow(log)),
    Insert("market_nft", log.market, MarketNFTRow(log)),
    Insert("token", log.market, TokenRow),
    Update("token", log.market, [market |-> log.market])>>

handleMarketCreated(log, n) ==
  <<getOrCreateUser(log.user),
    Insert("token", log.market, TokenRow),
    Insert("market", log.market, MarketRow(log)),
    Update("token", log.market, [market |-> log.market]),
    Insert("market_nft", log.market, MarketNFTRow(log))>>

handleFactoryMarketCreated(log, n) ==
  IF log.market \in DOMAIN db.market THEN <<>> ELSE handleMarketCreated(log, n)

(* The market's reserves, volumes and counters, its position's pending     *)
(* fees and the protocol's rows are in Indexer.                            *)
handleSwap(log, n) ==
  IF log.market \notin DOMAIN db.market THEN <<>>
  ELSE <<getOrCreateUser(log.user),
         Insert("swap", n, SwapRow(log)),
         Update("market", log.market, [price |-> log.price]),
         Upsert("market_hour_data", log),
         Upsert("market_day_data", log),
         Upsert("market_5min_data", log),
         Refresh(log)>>

handleFeeClaimed(log, n) ==
  IF log.market \notin DOMAIN db.market_nft THEN <<>>
  ELSE <<getOrCreateUser(log.user), Insert("fee_claim", n, FeeClaimRow(log))>>

handleFeeStrategyUpdated(log, n) ==
  IF log.market \notin DOMAIN db.market_nft THEN <<>>
  ELSE <<Insert("fee_strategy_change", n, FeeStrategyChangeRow(log))>>

handleNFTTransfer(log, n) ==
  IF log.market \notin DOMAIN db.market_nft THEN <<>>
  ELSE <<getOrCreateUser(log.from), getOrCreateUser(log.user),
         Insert("nft_transfer", n, NFTTransferRow(log)),
         Update("market_nft", log.market, [owner |-> log.user])>>

(* The receiver's balance row appears with its first transfer. *)
Receive(log, token) ==
  <<getOrCreateUser(log.from), getOrCreateUser(log.user),
    Insert("user_token_balance", <<log.user, token>>, BalanceRow(log.user, token))>>

handleUSIDTransfer(log, n) == <<Insert("token", USID, TokenRow)>> \o Receive(log, USID)

handleTokenTransfer(log, n) ==
  IF log.market \notin DOMAIN db.token THEN <<>>
  ELSE Receive(log, log.market) \o <<CountHolders(log.market)>>

processLog(log, n) ==
  CASE log.kind = "MarketCreated"        -> handleMarketCreated(log, n)
    [] log.kind = "FactoryMarketCreated" -> handleFactoryMarketCreated(log, n)
    [] log.kind = "Swap"                 -> handleSwap(log, n)
    [] log.kind = "FeeClaimed"           -> handleFeeClaimed(log, n)
    [] log.kind = "FeeStrategyUpdated"   -> handleFeeStrategyUpdated(log, n)
    [] log.kind = "NFTTransfer"          -> handleNFTTransfer(log, n)
    [] log.kind = "USIDTransfer"         -> handleUSIDTransfer(log, n)
    [] log.kind = "TokenTransfer"        -> handleTokenTransfer(log, n)
-----------------------------------------------------------------------------
Log(kind, m, from, user, time, price) ==
  [kind |-> kind, market |-> m, from |-> from, user |-> user, time |-> time, price |-> price]

LastTime == IF logs = <<>> THEN 0 ELSE Last(logs).time

Created == {log.market : log \in {l \in ToSet(logs) : l.kind = "MarketCreated"}}

Creation(m, user, time) ==
  <<Log("MarketCreated", m, user, user, time, InitialPrice),
    Log("FactoryMarketCreated", m, user, user, time, InitialPrice)>>

Owner(m) ==
  LET moves == SelectSeq(logs, LAMBDA log :
                 log.market = m /\ log.kind \in {"MarketCreated", "NFTTransfer"})
  IN Last(moves).user

(* Some logs of one transaction reach an indexer that has handled all      *)
(* others: when they were mined makes no difference to it.  Tokens come    *)
(* from the pool, which has a user row of its own.                         *)
Emit ==
  /\ next > Len(logs) /\ todo = <<>>
  /\ Len(logs) < MaxLogs + 2
  /\ \E user \in Users :
       \/ \E m \in Markets \ Created : logs' = logs \o Creation(m, user, LastTime)
       \/ \E from \in Users \ {user} :
            logs' = Append(logs, Log("USIDTransfer", USID, from, user, LastTime, 0))
       \/ \E m \in Created :
            \/ \E price \in Prices, time \in LastTime .. MaxTime :
                 logs' = Append(logs, Log("Swap", m, user, user, time, price))
            \/ \E kind \in {"FeeClaimed", "NFTTransfer"} :
                 logs' = Append(logs, Log(kind, m, Owner(m), user, LastTime, 0))
            \/ logs' = Append(logs, Log("FeeStrategyUpdated", m, Owner(m), Owner(m), LastTime, 0))
            \/ logs' = Append(logs, Log("TokenTransfer", m, m, user, LastTime, 0))
  /\ UNCHANGED <<db, next, checkpoint, todo, restarts, failures>>

TakeLog ==
  /\ next <= Len(logs) /\ todo = <<>>
  /\ todo' = processLog(logs[next], next)
  /\ next' = next + 1
  /\ UNCHANGED <<db, logs, checkpoint, restarts, failures>>

Statement ==
  /\ todo # <<>>
  /\ db' = After(db, Head(todo))
  /\ todo' = Tail(todo)
  /\ UNCHANGED <<logs, next, checkpoint, restarts, failures>>

Checkpoint ==
  /\ todo = <<>> /\ checkpoint # next - 1
  /\ checkpoint' = next - 1
  /\ UNCHANGED <<db, logs, next, todo, restarts, failures>>

HandlerFails ==
  /\ todo # <<>> /\ restarts + failures < MaxFaults
  /\ todo' = <<>>
  /\ failures' = failures + 1
  /\ UNCHANGED <<db, logs, next, checkpoint, restarts>>

Restart ==
  /\ restarts + failures < MaxFaults
  /\ next' = checkpoint + 1
  /\ todo' = <<>>
  /\ restarts' = restarts + 1
  /\ UNCHANGED <<db, logs, checkpoint, failures>>

Next == Emit \/ TakeLog \/ Statement \/ Checkpoint \/ HandlerFails \/ Restart

(* A first market is created but not indexed yet. *)
Init ==
  /\ db = [table \in Tables |-> Nothing]
  /\ \E m \in Markets, user \in Users : logs = Creation(m, user, 0)
  /\ next = 1 /\ checkpoint = 0
  /\ todo = <<>>
  /\ restarts = 0 /\ failures = 0
=============================================================================
