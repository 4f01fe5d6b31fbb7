----------------------------- MODULE Operations -----------------------------
(***************************************************************************)
(* The scripts together.  The keeper signs with the deployer's key, so it   *)
(* is started on a deployment that is saved and mined, and no script of    *)
(* that account runs beside it.  Creating markets and keeping the price    *)
(* touch no common state and no property relates the two, so a behaviour   *)
(* has one or the other.                                                   *)
(***************************************************************************)
EXTENDS Deployment, OracleKeeper

operationsVars == <<deployVars, marketVars, keeperVars>>

OperationsInit == DeployInit /\ KeeperInit

Deployed == file["v1"] # 0 /\ pc = 0 /\ pending = <<>>
NeverStarted == keeper = "down" /\ ~useFallback
NoMarkets == markets = <<>> /\ \A c \in Creators : creator[c].at = "new"

OperationsNext ==
  \/ NeverStarted /\ ScriptNext /\ UNCHANGED keeperVars
  \/ NeverStarted /\ MarketNext /\ UNCHANGED keeperVars
  \/ Deployed /\ NoMarkets /\ KeeperNext /\ UNCHANGED <<deployVars, marketVars>>

OperationsSpec == OperationsInit /\ [][OperationsNext]_operationsVars

\* systemd restarts the keeper, its loop neither ends nor blocks while calls
\* return, and the chain mines what was sent.
Fairness ==
  /\ WF_operationsVars(Deployed /\ NoMarkets /\ StartKeeper /\ UNCHANGED <<deployVars, marketVars>>)
  /\ WF_operationsVars(KeeperStep /\ UNCHANGED <<deployVars, marketVars>>)
  /\ WF_operationsVars(MinePrice /\ UNCHANGED <<deployVars, marketVars>>)

FairSpec == OperationsSpec /\ Fairness

\* Once an oracle is deployed, a price that stays on the API reaches it, whatever
\* failed before, with one exception: an update to another price lost its
\* confirmation and was mined late, and the API is back at the last confirmed
\* price, which the keeper takes for current.
EventuallyPosted ==
  \A p \in Prices :
    <>[](answer = p /\ Deployed /\ NoMarkets) => \/ <>[](fallbackPrice = p)
                                         \/ <>[](stray /\ lastPrice = p)
=============================================================================
