-------------------------------- MODULE Api --------------------------------
(***************************************************************************)
(* The GraphQL API over the tables while the indexer writes them: every    *)
(* query reads what is committed at the time.                              *)
(* Rows are never deleted, so that a row found by one query of a request   *)
(* is there for the queries of its nested resolvers.                       *)
(***************************************************************************)
EXTENDS Entities

Spec == Init /\ [][Next]_vars
-----------------------------------------------------------------------------
(* The id a row's mapper keeps for the resolver of a relation. *)
Reference(table, id, relation) == db[table][id][relation[1]]

(* The resolver of a relation finds the row. *)
Resolves(table, id, relation) == Reference(table, id, relation) \in DOMAIN db[relation[2]]

(* A market whose creation is not handled to its end, now or after an      *)
(* error or a restart, and so may have no position: a reader of its nft    *)
(* gets an error.                                                          *)
Unfinished(m) ==
  \/ failures > 0
  \/ \E i \in next .. Len(logs) : logs[i].kind = "MarketCreated" /\ logs[i].market = m
  \/ \E s \in ToSet(todo) : s.table = "market_nft" /\ s.id = m

(* Whatever a reader asks for, every relation that must not be null is     *)
(* found, at any point of any handler, through restarts and errors: only   *)
(* the position of a market may be missing, while or after its creation    *)
(* is cut short.                                                           *)
RelationsResolve ==
  \A table \in Tables : \A id \in DOMAIN db[table] : \A relation \in Relations[table] :
    \/ Resolves(table, id, relation)
    \/ table = "market" /\ relation[1] = "nft" /\ Unfinished(id)

CaughtUp == next > Len(logs) /\ todo = <<>>

(* The prices of the swaps of a market in a period, in order. *)
PricesIn(m, length, period) ==
  LET swaps == SelectSeq(logs, LAMBDA log : /\ log.kind = "Swap" /\ log.market = m
                                            /\ log.time \div length = period)
  IN [i \in DOMAIN swaps |-> swaps[i].price]

(* Once caught up without failed handlers, the prices of every series are  *)
(* those of the swaps, each period opening where the one before it closed, *)
(* and so are the market's highest and lowest prices, however often swaps  *)
(* were replayed.                                                          *)
SeriesPrices ==
  CaughtUp /\ failures = 0 =>
    \A m \in Created, table \in Series, period \in 0 .. MaxTime :
      LET prices == PricesIn(m, SeriesLength[table], period)
          before == PricesIn(m, SeriesLength[table], period - 1)
          open == IF before = <<>> THEN Head(prices) ELSE Last(before)
          row == db[table][<<m, period>>]
      IN prices # <<>> =>
           /\ row.open = open /\ row.close = Last(prices)
           /\ row.high = Max(ToSet(prices) \union {open})
           /\ row.low = Min(ToSet(prices) \union {open})
           /\ row.swaps >= Len(prices)
           /\ db.market[m].ath >= row.high
           /\ db.market[m].atl <= Min(ToSet(prices))
-----------------------------------------------------------------------------
(* The periods that a filter on the market leaves. *)
OfMarket(d, table, m) == {id[2] : id \in {x \in DOMAIN d[table] : x[1] = m}}

(* Mutant: the newest period comes first. *)
Listed_NewestFirst(d, table, m) == SetToSortSeq(OfMarket(d, table, m), >)

(* The list query of a series in its default order, by period ascending,   *)
(* with LIMIT and OFFSET.                                                  *)
Listed(d, table, m) == SetToSortSeq(OfMarket(d, table, m), <)

pagination(list, first, skip) == SubSeq(list, skip + 1, Min({skip + first, Len(list)}))

(* A reader who pages through a series meets no period twice and misses    *)
(* none: without failed handlers full pages stay as they are, also when a  *)
(* restart replays older swaps.                                            *)
PagesStay ==
  [][\A m \in Markets, table \in Series, first \in 1 .. 2, skip \in 0 .. 1 :
       LET page == pagination(Listed(db, table, m), first, skip)
       IN Len(page) = first /\ failures = 0 =>
            pagination(Listed(db', table, m), first, skip) = page]_db
=============================================================================
