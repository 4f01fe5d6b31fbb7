---------------------------- MODULE OracleKeeper ----------------------------
(***************************************************************************)
(* scripts/oracle-keeper.js, run by systemd with Restart=always: it puts   *)
(* the price of an HTTP API on chain as PaxPriceOracle's fallback price.   *)
(* A transaction whose confirmation was not received may be mined later.   *)
(* The keeper's account owns the oracle, or the process would exit at once.*)
(***************************************************************************)
EXTENDS Integers, Sequences

CONSTANTS Prices,       \* prices above zero
          MaxErrors,    \* errors tolerated since the last update, 10 in the code
          MaxQuotes,    \* changes of the API's answer
          MaxFaults     \* failed requests, lost confirmations, stops

ASSUME KeeperAssumption ==
  Prices \subseteq Nat \ {0} /\ {MaxErrors, MaxQuotes, MaxFaults} \subseteq Nat

\* The API answers a price, or something without one: invalid data or zero.
Answers == Prices \cup {0}

VARIABLES answer, quotes,       \* what the API answers now, and how often it changed
          fallbackPrice, useFallback,   \* the oracle
          txs,                  \* the keeper's price transactions not mined
          keeper,               \* "down", "starting", "asleep", "awake" or "waiting"
          sent,                 \* the price of the update in progress
          lastPrice, errorCount,
          stray,                \* history: an update was lost sight of since the last success
          faults

oracleVars == <<fallbackPrice, useFallback>>
processVars == <<keeper, sent, lastPrice, errorCount>>
keeperVars == <<answer, quotes, oracleVars, txs, processVars, stray, faults>>

KeeperInit ==
  /\ answer \in Prices /\ quotes = 0
  /\ fallbackPrice = 1 /\ useFallback = FALSE /\ txs = <<>>
  /\ keeper = "down" /\ sent = 0 /\ lastPrice = 0 /\ errorCount = 0
  /\ stray = FALSE /\ faults = 0

Quote(a) ==
  /\ quotes < MaxQuotes /\ a # answer
  /\ answer' = a /\ quotes' = quotes + 1
  /\ UNCHANGED <<oracleVars, txs, processVars, stray, faults>>

StartKeeper ==
  /\ keeper = "down"
  /\ keeper' = "starting" /\ sent' = 0 /\ lastPrice' = 0 /\ errorCount' = 0
  /\ stray' = FALSE
  /\ UNCHANGED <<answer, quotes, oracleVars, txs, faults>>

\* Fallback mode is switched on, and awaited, before the loop.
EnableFallback ==
  /\ keeper = "starting"
  /\ useFallback' = TRUE /\ keeper' = "awake"
  /\ UNCHANGED <<answer, quotes, fallbackPrice, txs, sent, lastPrice, errorCount, stray, faults>>

Worthwhile == answer \in Prices /\ answer # lastPrice

\* Invalid data, zero and an unchanged price end the round; it is no success
\* that would reset the count of errors.
Skip ==
  /\ keeper = "awake" /\ ~Worthwhile
  /\ keeper' = "asleep"
  /\ UNCHANGED <<answer, quotes, oracleVars, txs, sent, lastPrice, errorCount, stray, faults>>

SendPrice ==
  /\ keeper = "awake" /\ Worthwhile
  /\ txs' = Append(txs, answer) /\ sent' = answer /\ keeper' = "waiting"
  /\ UNCHANGED <<answer, quotes, oracleVars, lastPrice, errorCount, stray, faults>>

MinePrice ==
  /\ txs # <<>>
  /\ fallbackPrice' = Head(txs) /\ txs' = Tail(txs)
  /\ UNCHANGED <<answer, quotes, useFallback, processVars, stray, faults>>

\* tx.wait returns: the last transaction sent is mined.
Confirm ==
  /\ keeper = "waiting" /\ txs = <<>>
  /\ errorCount' = 0 /\ lastPrice' = sent /\ sent' = 0 /\ keeper' = "asleep"
  /\ stray' = FALSE
  /\ UNCHANGED <<answer, quotes, oracleVars, txs, faults>>

Fault == faults < MaxFaults /\ faults' = faults + 1

\* The round throws: the API or the node did not answer, before the price was
\* sent or while its confirmation was awaited.
RoundFails_Remembered ==
  /\ Fault /\ keeper \in {"awake", "waiting"}
  /\ errorCount' = errorCount + 1 /\ sent' = 0 /\ stray' = (stray \/ keeper = "waiting")
  /\ keeper' = IF errorCount' > MaxErrors THEN "down" ELSE "asleep"
  /\ lastPrice' = IF Worthwhile THEN answer ELSE lastPrice
  /\ UNCHANGED <<answer, quotes, oracleVars, txs>>

RoundFails ==
  /\ Fault /\ keeper \in {"awake", "waiting"}
  /\ errorCount' = errorCount + 1 /\ sent' = 0 /\ stray' = (stray \/ keeper = "waiting")
  /\ keeper' = IF errorCount' > MaxErrors THEN "down" ELSE "asleep"
  /\ UNCHANGED <<answer, quotes, oracleVars, txs, lastPrice>>

Wake ==
  /\ keeper = "asleep" /\ keeper' = "awake"
  /\ UNCHANGED <<answer, quotes, oracleVars, txs, sent, lastPrice, errorCount, stray, faults>>

\* A failed start, SIGINT or a kill.
KeeperStops ==
  /\ Fault /\ keeper # "down"
  /\ keeper' = "down"
  /\ UNCHANGED <<answer, quotes, oracleVars, txs, sent, lastPrice, errorCount, stray>>

KeeperStep == EnableFallback \/ Skip \/ SendPrice \/ Confirm \/ Wake

KeeperNext ==
  \/ \E a \in Answers : Quote(a)
  \/ StartKeeper \/ KeeperStep \/ MinePrice \/ RoundFails \/ KeeperStops
=============================================================================
