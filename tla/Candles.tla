------------------------------- MODULE Candles -------------------------------
(***************************************************************************)
(* The candle service of the indexer: a tick reads the swaps the indexer   *)
(* has inserted since the worker's cursor and builds a candle per          *)
(* timeframe in memory; a candle is written when a swap of a later period  *)
(* arrives, or when the service stops.  A write is the only point at which *)
(* another part of the process runs, so each is a step of its own.  Every  *)
(* swap trades one unit, so a candle's volumes are its trade_count.        *)
(***************************************************************************)
EXTENDS Integers, SequencesExt

CONSTANTS
  MarketIds,
  Timeframes,   \* their lengths in seconds, from the finest to the coarsest
  SpotPrices,   \* the price after each swap of a behaviour
  Ids,          \* ids of swap rows, in the order of their strings; 0 is the empty one
  LastSecond,   \* the last second of a behaviour
  Limit,        \* rows a query returns at most
  MaxRestarts,  \* bound on restarts, clean or not
  MaxFailures   \* bound on writes that fail

ASSUME CandlesAssumption ==
  /\ Timeframes \in Seq(Nat \ {0}) /\ Timeframes # <<>>
  /\ \A k \in DOMAIN Timeframes : Timeframes[k] % Timeframes[1] = 0
  /\ SpotPrices \in Seq(Nat)
  /\ Ids \subseteq Nat \ {0}
  /\ LastSecond \in Nat /\ Limit \in Nat \ {0}
  /\ MaxRestarts \in Nat /\ MaxFailures \in Nat

VARIABLES
  swaps,     \* the swap table in the order it is filled, that of time and log_index
  candles,   \* the candle table: <<market, timeframe, period_start>> to a row
  workers,   \* what is in memory of each market, once its worker exists
  running,   \* FALSE once the service is asked to stop
  visiting,  \* markets the tick in flight has not finished, {} between ticks
  rows,      \* indices of the swaps it has fetched of one of them and not taken in yet
  tf,        \* the timeframe it is at
  written,   \* has it written the candle this timeframe's new one replaces?
  closing,   \* candles flushAllWIP has still to look at
  taken,     \* swaps the workers have put behind them
  restarts, failures, unclean  \* the history of faults

faults == <<restarts, failures, unclean>>
tick == <<visiting, rows, tf, written>>
candleVars == <<swaps, candles, workers, running, tick, closing, taken, faults>>

Frames == DOMAIN Timeframes

periodStart(time, k) == (time \div Timeframes[k]) * Timeframes[k]

NoCandle == [open |-> 0, high |-> 0, low |-> 0, close |-> 0, trades |-> 0, period |-> -1]
NoWorker == [time |-> -1, id |-> -1, wip |-> [k \in Frames |-> NoCandle]]

NoWorkers == [m \in MarketIds |-> NoWorker]

CandlesInit ==
  /\ swaps = <<>>
  /\ candles = [key \in {} |-> NoCandle]
  /\ workers = NoWorkers
  /\ running = TRUE
  /\ visiting = {} /\ rows = {} /\ tf = 1 /\ written = FALSE
  /\ closing = {}
  /\ taken = {}
  /\ restarts = 0 /\ failures = 0 /\ unclean = FALSE
-----------------------------------------------------------------------------
(* The indexer's handleSwap; its rows come in the order of time, but the   *)
(* id starts with the hash of the transaction and may have any order.      *)
InsertSwap(m, time, id) ==
  /\ Len(swaps) < Len(SpotPrices)
  /\ swaps # <<>> => time >= Last(swaps).time
  /\ \A i \in DOMAIN swaps : swaps[i].id # id
  /\ swaps' = Append(swaps, [market |-> m, time |-> time, id |-> id,
                             price |-> SpotPrices[Len(swaps) + 1]])
  /\ UNCHANGED <<candles, workers, running, tick, closing, taken, faults>>

StartTick ==
  /\ running
  /\ visiting = {}
  /\ visiting' = MarketIds
  /\ UNCHANGED <<swaps, candles, workers, running, rows, tf, written, closing, taken, faults>>

Periods(m) == {key[3] : key \in {x \in DOMAIN candles : x[1] = m}}

(* Mutant: it goes on from the end of that period. *)
Seeded_AtEnd(m) ==
  [NoWorker EXCEPT !.id = 0,
     !.time = IF Periods(m) = {} THEN 0 ELSE Max(Periods(m)) + Timeframes[1]]

(* A new worker goes on from the last period written of its market. *)
Seeded(m) ==
  [NoWorker EXCEPT !.id = 0, !.time = IF Periods(m) = {} THEN 0 ELSE Max(Periods(m))]

(* Mutant: swaps of the cursor's second are left out. *)
Unread_Later(m, w) == {i \in DOMAIN swaps : swaps[i].market = m /\ swaps[i].time > w.time}

Unread(m, w) ==
  {i \in DOMAIN swaps :
     /\ swaps[i].market = m
     /\ swaps[i].time > w.time \/ (swaps[i].time = w.time /\ swaps[i].id > w.id)}

(* Mutant: the row limit cuts off the oldest swaps. *)
Fetch_Newest(unread) == {i \in unread : Cardinality({j \in unread : j >= i}) <= Limit}

Fetch(unread) == {i \in unread : Cardinality({j \in unread : j <= i}) <= Limit}

Visit(m) ==
  /\ m \in visiting
  /\ rows = {}
  /\ LET new == workers[m] = NoWorker
         w == IF new THEN Seeded(m) ELSE workers[m]
         fetched == Fetch(Unread(m, w))
         past == {i \in DOMAIN swaps : swaps[i].market = m /\ swaps[i].time < w.time}
     IN /\ workers' = [workers EXCEPT ![m] = w]
        /\ taken' = IF new THEN taken \union past ELSE taken
        /\ rows' = fetched
        /\ visiting' = IF fetched = {} THEN visiting \ {m} ELSE visiting
  /\ UNCHANGED <<swaps, candles, running, tf, written, closing, faults>>
-----------------------------------------------------------------------------
Higher(a, b) == IF a > b THEN a ELSE b
Lower(a, b) == IF a < b THEN a ELSE b

(* ON CONFLICT DO UPDATE: everything adds up but the opening price. *)
Merge(row, c) ==
  [open |-> row.open, high |-> Higher(row.high, c.high), low |-> Lower(row.low, c.low),
   close |-> c.close, trades |-> row.trades + c.trades, period |-> row.period]

flushCandle(m, k, c) ==
  LET key == <<m, k, c.period>>
  IN [x \in DOMAIN candles \union {key} |->
        IF x # key THEN candles[x]
        ELSE IF key \in DOMAIN candles THEN Merge(candles[key], c) ELSE c]

Fresh(price, period) ==
  [open |-> price, high |-> price, low |-> price, close |-> price,
   trades |-> 0, period |-> period]

(* Mutant: the lowest price starts at 0 and stays there. *)
Trade_LowFromZero(c, price) ==
  [open |-> c.open, high |-> Higher(c.high, price), low |-> Lower(0, price),
   close |-> price, trades |-> c.trades + 1, period |-> c.period]

Trade(c, price) ==
  [open |-> c.open, high |-> Higher(c.high, price), low |-> Lower(c.low, price),
   close |-> price, trades |-> c.trades + 1, period |-> c.period]

(* What the tick is at: the swap, its market, the candle in memory. *)
Current == Min(rows)
NextSwap == swaps[Current]
Wip == workers[NextSwap.market].wip[tf]
RollsOver == Wip.trades > 0 /\ Wip.period # periodStart(NextSwap.time, tf)

MoveCursor(w, s) == [w EXCEPT !.time = s.time, !.id = s.id]

WriteCandle ==
  /\ rows # {} /\ RollsOver /\ ~written
  /\ candles' = flushCandle(NextSwap.market, tf, Wip)
  /\ written' = TRUE
  /\ workers' = [workers EXCEPT ![NextSwap.market] = MoveCursor(@, NextSwap)]
  /\ UNCHANGED <<swaps, running, visiting, rows, tf, closing, taken, faults>>

(* The tick catches the error and is over; the cursor has moved already. *)
WriteFails ==
  /\ rows # {} /\ RollsOver /\ ~written
  /\ failures < MaxFailures
  /\ failures' = failures + 1
  /\ workers' = [workers EXCEPT ![NextSwap.market] = MoveCursor(@, NextSwap)]
  /\ visiting' = {} /\ rows' = {} /\ tf' = 1
  /\ UNCHANGED <<swaps, candles, running, written, closing, taken, restarts, unclean>>

TakeIn ==
  /\ rows # {}
  /\ RollsOver => written
  /\ LET s == NextSwap
         c == IF Wip.period = periodStart(s.time, tf) THEN Wip
              ELSE Fresh(s.price, periodStart(s.time, tf))
         lastFrame == tf = Len(Timeframes)
     IN /\ workers' = [workers EXCEPT ![s.market] =
                         [MoveCursor(@, s) EXCEPT !.wip[tf] = Trade(c, s.price)]]
        /\ tf' = IF lastFrame THEN 1 ELSE tf + 1
        /\ rows' = IF lastFrame THEN rows \ {Current} ELSE rows
        /\ visiting' = IF rows' = {} THEN visiting \ {s.market} ELSE visiting
        /\ taken' = IF lastFrame THEN taken \union {Current} ELSE taken
  /\ written' = FALSE
  /\ UNCHANGED <<swaps, candles, running, closing, faults>>
-----------------------------------------------------------------------------
(* A tick in flight goes on while flushAllWIP writes what is in memory,    *)
(* which stays there.                                                      *)
stopCandleService ==
  /\ running
  /\ restarts < MaxRestarts
  /\ running' = FALSE
  /\ closing' = MarketIds \X Frames
  /\ unclean' = (unclean \/ visiting # {})
  /\ UNCHANGED <<swaps, candles, workers, tick, taken, restarts, failures>>

flushAllWIP ==
  \E entry \in closing :
    LET c == workers[entry[1]].wip[entry[2]]
    IN /\ closing' = closing \ {entry}
       /\ candles' = IF c.trades > 0 THEN flushCandle(entry[1], entry[2], c) ELSE candles
       /\ UNCHANGED <<swaps, workers, running, tick, taken, faults>>

(* The process ends and starts again with nothing in memory. *)
Reboot ==
  /\ restarts' = restarts + 1
  /\ workers' = NoWorkers
  /\ running' = TRUE
  /\ visiting' = {} /\ rows' = {} /\ tf' = 1 /\ written' = FALSE
  /\ closing' = {}
  /\ taken' = {}
  /\ UNCHANGED <<swaps, candles, failures>>

Exit == ~running /\ closing = {} /\ Reboot /\ UNCHANGED unclean

Crash == restarts < MaxRestarts /\ unclean' = TRUE /\ Reboot

CandlesNext ==
  \/ \E m \in MarketIds, time \in 0 .. LastSecond, id \in Ids : InsertSwap(m, time, id)
  \/ StartTick
  \/ \E m \in MarketIds : Visit(m)
  \/ WriteCandle \/ WriteFails \/ TakeIn
  \/ stopCandleService \/ flushAllWIP \/ Exit \/ Crash
=============================================================================
