------------------------------ MODULE Services ------------------------------
(***************************************************************************)
(* What the candle service promises of the candle table, with and without  *)
(* faults.                                                                 *)
(***************************************************************************)
EXTENDS Candles

CandlesSpec == CandlesInit /\ [][CandlesNext]_candleVars

FairSpec ==
  /\ CandlesSpec
  /\ WF_candleVars(StartTick) /\ WF_candleVars(\E m \in MarketIds : Visit(m))
  /\ WF_candleVars(WriteCandle) /\ WF_candleVars(TakeIn)
  /\ WF_candleVars(flushAllWIP) /\ WF_candleVars(Exit)
-----------------------------------------------------------------------------
(* The swaps of a period, and the candle they make. *)
SwapsOf(m, k, period) ==
  {i \in DOMAIN swaps : swaps[i].market = m /\ periodStart(swaps[i].time, k) = period}

CandleOf(S, period) ==
  LET prices == {swaps[i].price : i \in S}
  IN [open |-> swaps[Min(S)].price, high |-> Max(prices), low |-> Min(prices),
      close |-> swaps[Max(S)].price, trades |-> Cardinality(S), period |-> period]

(* The row of a candle together with what is in memory of it. *)
Known(m, k, period) ==
  LET key == <<m, k, period>>
      c == workers[m].wip[k]
  IN IF c.period # period THEN candles[key]
     ELSE IF key \in DOMAIN candles THEN Merge(candles[key], c) ELSE c

BetweenSwaps == tf = 1 /\ ~written

(* A swap behind one of its own second with a greater id: the cursor may   *)
(* pass it, or go back from the other one to it.                           *)
Hidden(i) ==
  \E j \in DOMAIN swaps : /\ swaps[j].market = swaps[i].market
                          /\ swaps[j].time = swaps[i].time
                          /\ j < i /\ swaps[j].id > swaps[i].id

(* Without faults the candles, written or in memory, are those of the      *)
(* swaps taken in, in every timeframe, where ids follow the order of logs. *)
CandlesExact ==
  restarts = 0 /\ failures = 0 /\ running /\ BetweenSwaps =>
    \A m \in MarketIds, k \in Frames, period \in 0 .. LastSecond :
      LET S == SwapsOf(m, k, period)
      IN S \intersect taken # {} /\ (\A i \in S : ~Hidden(i)) =>
           Known(m, k, period) = CandleOf(S \intersect taken, period)

(* The cursor passes no other swap without the worker taking it in, but    *)
(* for one at every failed write: the row limit and restarts lose none.    *)
Passed ==
  {i \in DOMAIN swaps : /\ swaps[i].time < workers[swaps[i].market].time
                        /\ i \notin taken
                        /\ ~Hidden(i)}

NoSwapPassed == BetweenSwaps => Cardinality(Passed) <= failures

(* Through crashes and stops the finest candles before the cursor lose     *)
(* nothing: the prices are right, and no trade is missing.  Only counts    *)
(* may be too high, from a period that was read again.                     *)
FinestSurvives ==
  failures = 0 => \A m \in MarketIds, period \in 0 .. LastSecond :
    LET S == SwapsOf(m, 1, period)
        row == candles[<<m, 1, period>>]
        exact == CandleOf(S, period)
    IN /\ S # {} /\ (\A i \in S : ~Hidden(i))
       /\ period + Timeframes[1] <= workers[m].time
       /\ BetweenSwaps
       => /\ <<m, 1, period>> \in DOMAIN candles
          /\ [row EXCEPT !.trades = 0] = [exact EXCEPT !.trades = 0]
          /\ row.trades >= exact.trades
-----------------------------------------------------------------------------
(* Every swap that no other one hides is taken in in the end, or put       *)
(* behind by a write that failed, through crashes and restarts.            *)
Inserted(i) == i <= Len(swaps)

Behind(i) == Inserted(i) => i \in taken \/ Hidden(i) \/ failures > 0

EventuallyTaken ==
  \A i \in 1 .. Len(SpotPrices) : Inserted(i) ~> Behind(i)
=============================================================================
