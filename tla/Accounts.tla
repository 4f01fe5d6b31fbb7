------------------------------ MODULE Accounts ------------------------------
(***************************************************************************)
(* Users, balances and holder counts in the PostgreSQL indexer: the        *)
(* Transfer handlers and getOrCreateUser, one SQL statement at a time,     *)
(* under the loop that module Indexer describes.  A batch reads nothing of *)
(* the chain after it starts, so blocks are mined between batches.         *)
(***************************************************************************)
EXTENDS SubgraphAccounts, Totals

CONSTANTS
  BatchSize,    \* config.batchSize
  MaxFaults     \* bound on restarts and swallowed errors of handlers

ASSUME AccountsAssumption ==
  /\ IsFiniteSet(Users)
  /\ Zero \notin {Pool, Router}
  /\ NoRow \notin Int
  /\ BatchSize \in Nat \ {0}
  /\ MaxFaults \in Nat

VARIABLES
  rows,       \* the tables
  lastBlock,  \* the checkpoint
  toBlock,    \* end of the batch, 0 between batches
  batch,      \* where the logs of the batch are that are not handled yet
  current,    \* the log being handled, if todo is not empty
  todo,       \* the statements its handler has still to run
  faults,     \* restarts and swallowed errors so far
  disturbed   \* tokens whose holder count the handlers do not promise

vars == <<tokenVars, rows, lastBlock, toBlock, batch, current, todo,
          faults, disturbed>>

NoRows ==
  [users |-> {}, totalUsers |-> 0, tokens |-> {}, linked |-> FALSE, tracked |-> FALSE,
   balance |-> [t \in Tokens |-> [a \in Accounts |-> NoRow]],
   holderCount |-> [t \in Tokens |-> 0], transferCount |-> [t \in Tokens |-> 0],
   totalSupply |-> [t \in Tokens |-> 0], marketHolders |-> NoRow]

Init ==
  /\ TokensInit
  /\ rows = NoRows
  /\ lastBlock = 0 /\ toBlock = 0
  /\ batch = {} /\ current = <<>> /\ todo = <<>>
  /\ faults = 0
  /\ disturbed = {}
-----------------------------------------------------------------------------
(* The place of a log: its block, and its index there. *)
LogAt(p) == chain[p[1]][p[2]]
Places(from, to) == UNION {{b} \X DOMAIN chain[b] : b \in from .. to}
Before(p, q) == p[1] < q[1] \/ (p[1] = q[1] /\ p[2] < q[2])

(* The token is followed from the batch after the one it is created in. *)
Skipped(log) == log.kind = "Transfer" /\ log.token = "TKN" /\ ~rows.tracked

StartBatch ==
  LET end == IF lastBlock + BatchSize <= Height THEN lastBlock + BatchSize ELSE Height
  IN /\ toBlock = 0
     /\ lastBlock < Height
     /\ toBlock' = end
     /\ batch' = {p \in Places(lastBlock + 1, end) : ~Skipped(LogAt(p))}
     /\ UNCHANGED <<tokenVars, rows, lastBlock, current, todo, faults, disturbed>>

Debits(log) == IF log.from = Zero THEN <<>> ELSE <<"InsertFrom", "Debit">>

Credits(log) == IF log.to = Zero THEN <<>> ELSE <<"InsertTo", "Credit">>

TokenTransfer(log) ==
  IF "TKN" \notin rows.tokens THEN <<>>
  ELSE <<"CountTransfer">> \o Debits(log) \o Credits(log) \o <<"SyncHolders">>

USIDTransfer(log) ==
  <<"InsertUSID", "CountTransfer", "Supply">> \o Debits(log) \o Credits(log)

NewMarket == <<"InsertFrom", "InsertToken", "InsertMarket", "LinkToken", "TrackToken">>

(* The factory's log finds the market, unless the emitter's handler failed. *)
Statements(log) ==
  CASE log.kind = "MarketCreated" -> NewMarket
    [] log.kind = "FactoryMarketCreated" ->
         IF rows.marketHolders = NoRow THEN NewMarket ELSE <<>>
    [] log.kind = "Swap" -> IF rows.marketHolders = NoRow THEN <<>> ELSE <<"InsertFrom">>
    [] log.kind = "Transfer" /\ log.token = "TKN"  -> TokenTransfer(log)
    [] log.kind = "Transfer" /\ log.token = "USID" -> USIDTransfer(log)

TakeLog ==
  /\ toBlock > 0 /\ todo = <<>>
  /\ \E p \in batch :
       /\ \A q \in batch \ {p} : Before(p, q)
       /\ current' = LogAt(p)
       /\ batch' = batch \ {p}
       /\ todo' = Statements(LogAt(p))
  /\ UNCHANGED <<tokenVars, rows, lastBlock, toBlock, faults, disturbed>>

Checkpoint ==
  /\ toBlock > 0 /\ todo = <<>> /\ batch = {}
  /\ lastBlock' = toBlock
  /\ toBlock' = 0
  /\ UNCHANGED <<tokenVars, rows, batch, current, todo, faults, disturbed>>
-----------------------------------------------------------------------------
InsertUser(r, user) == [r EXCEPT !.users = @ \union {user}]

(* Mutant: the balance is replaced. *)
DebitRow_Replace(r, log) ==
  IF r.balance[log.token][log.from] = NoRow THEN r
  ELSE [r EXCEPT !.balance[log.token][log.from] = log.value]

DebitRow(r, log) ==
  IF r.balance[log.token][log.from] = NoRow THEN r
  ELSE [r EXCEPT !.balance[log.token][log.from] = @ - log.value]

CreditRow(r, log) ==
  [r EXCEPT !.balance[log.token][log.to] = IF @ = NoRow THEN log.value ELSE @ + log.value]

(* A mint raises the supply, and whatever goes to the zero address lowers it. *)
SupplyRow(r, log) ==
  [r EXCEPT !.totalSupply["USID"] = @ + (IF log.from = Zero THEN log.value ELSE 0)
                                      - (IF log.to = Zero THEN log.value ELSE 0)]

After(r, statement, log) ==
  CASE statement = "InsertFrom"    -> InsertUser(r, log.from)
    [] statement = "InsertTo"      -> InsertUser(r, log.to)
    [] statement = "CountUser"     -> [r EXCEPT !.totalUsers = @ + 1]
    [] statement = "InsertToken"   -> [r EXCEPT !.tokens = @ \union {"TKN"}]
    [] statement = "InsertMarket"  -> [r EXCEPT !.marketHolders = IF @ = NoRow THEN 1 ELSE @]
    [] statement = "LinkToken"     -> [r EXCEPT !.linked = TRUE]
    [] statement = "TrackToken"    -> [r EXCEPT !.tracked = TRUE]
    [] statement = "InsertUSID"    -> [r EXCEPT !.tokens = @ \union {"USID"}]
    [] statement = "CountTransfer" -> [r EXCEPT !.transferCount[log.token] = @ + 1]
    [] statement = "Supply"        -> SupplyRow(r, log)
    [] statement = "Debit"         -> DebitRow(r, log)
    [] statement = "Credit"        -> CreditRow(r, log)
    [] statement = "CountHolder"   -> [r EXCEPT !.holderCount[log.token] = @ + 1]
    [] statement = "UncountHolder" -> [r EXCEPT !.holderCount[log.token] = @ - 1]
    [] statement = "SyncHolders"   ->
         IF r.linked THEN [r EXCEPT !.marketHolders = r.holderCount["TKN"]] ELSE r

(* Mutants: a row that reaches zero is not uncounted; a user found is      *)
(* counted again.                                                          *)
FollowUp_NeverUncount(r, statement, log) ==
  LET Bal(a) == r.balance[log.token][a]
  IN CASE statement = "InsertFrom" /\ log.from \notin r.users -> <<"CountUser">>
       [] statement = "InsertTo" /\ log.to \notin r.users     -> <<"CountUser">>
       [] statement = "Credit" /\ (Bal(log.to) = NoRow \/ (Bal(log.to) = 0 /\ log.token = "TKN")) ->
            <<"CountHolder">>
       [] OTHER -> <<>>

FollowUp_CountAlways(r, statement, log) ==
  CASE statement \in {"InsertFrom", "InsertTo"} -> <<"CountUser">>
    [] OTHER -> <<>>

(* The statements a handler adds once it knows the rows: a new user is     *)
(* counted; a balance that reaches zero is uncounted; a new row is counted *)
(* and, for the market token alone, one that leaves zero.                  *)
FollowUp(r, statement, log) ==
  LET Bal(a) == r.balance[log.token][a]
  IN CASE statement = "InsertFrom" /\ log.from \notin r.users -> <<"CountUser">>
       [] statement = "InsertTo" /\ log.to \notin r.users     -> <<"CountUser">>
       [] statement = "Debit" /\ Bal(log.from) # NoRow /\ Bal(log.from) = log.value ->
            <<"UncountHolder">>
       [] statement = "Credit" /\ (Bal(log.to) = NoRow \/ (Bal(log.to) = 0 /\ log.token = "TKN")) ->
            <<"CountHolder">>
       [] OTHER -> <<>>

Held(balance) == IF balance = NoRow THEN 0 ELSE balance

(* What the holder counts are not made for: a row taken below zero, which  *)
(* an account has whose first tokens came unseen, or brought to zero by a  *)
(* credit; transfers of 0; and USID coming back to an emptied account.     *)
Disturbs(statement, log) ==
  LET row(a) == rows.balance[log.token][a]
  IN \/ statement = "Debit" /\ row(log.from) = 0
     \/ statement = "Credit" /\ Held(row(log.to)) + log.value = 0
     \/ statement = "Credit" /\ log.token = "USID" /\ row(log.to) = 0

Statement ==
  /\ todo # <<>>
  /\ rows' = After(rows, Head(todo), current)
  /\ todo' = FollowUp(rows, Head(todo), current) \o Tail(todo)
  /\ disturbed' = IF Disturbs(Head(todo), current)
                  THEN disturbed \union {current.token} ELSE disturbed
  /\ UNCHANGED <<tokenVars, lastBlock, toBlock, batch, current, faults>>

HandlerFails ==
  /\ todo # <<>>
  /\ faults < MaxFaults
  /\ faults' = faults + 1
  /\ todo' = <<>>
  /\ UNCHANGED <<tokenVars, rows, lastBlock, toBlock, batch, current, disturbed>>

Restart ==
  /\ toBlock > 0
  /\ faults < MaxFaults
  /\ faults' = faults + 1
  /\ toBlock' = 0
  /\ batch' = {}
  /\ todo' = <<>>
  /\ UNCHANGED <<tokenVars, rows, lastBlock, current, disturbed>>

Mined ==
  /\ toBlock = 0
  /\ Transaction
  /\ UNCHANGED <<rows, lastBlock, toBlock, batch, current, todo, faults, disturbed>>

Next == Mined \/ StartBatch \/ TakeLog \/ Statement \/ Checkpoint \/ HandlerFails \/ Restart

Spec == Init /\ [][Next]_vars
-----------------------------------------------------------------------------
FaultFree == faults = 0
CaughtUp == toBlock = 0 /\ lastBlock = Height

Holders(r, t) == {a \in Accounts : Held(r.balance[t][a]) # 0}
Issued(r, t) == Total([a \in Accounts |-> Held(r.balance[t][a])], Accounts)

(* Once caught up without faults, the rows of USID are the contract's      *)
(* balances and add up to total_supply (usid.ts).                          *)
USIDIndexed ==
  FaultFree /\ CaughtUp =>
    /\ \A a \in Accounts \ {Zero} : Held(rows.balance["USID"][a]) = balances["USID"][a]
    /\ rows.totalSupply["USID"] = Issued(rows, "USID")

(* The subgraph's rows are the balances in both tokens: unlike the indexer *)
(* it sees the mint to the pool and the rest of the creating block.        *)
SubgraphBalances ==
  LET s == SubgraphEntities
  IN /\ \A t \in Tokens, a \in Accounts \ {Zero} : Held(s.balance[t][a]) = balances[t][a]
     /\ s.totalSupply["USID"] = Issued(s, "USID")

(* Without faults a holder count is the number of rows that are not zero,  *)
(* unless the history has one of the cases it is not made for.             *)
HoldersExact ==
  FaultFree /\ todo = <<>> => \A t \in Tokens \ disturbed :
    rows.holderCount[t] = Cardinality(Holders(rows, t))

(* Every restart and every swallowed error loses the count of at most one  *)
(* user; a replay never counts one twice.                                  *)
UsersNeverOvercounted ==
  todo = <<>> =>
    /\ rows.totalUsers <= Cardinality(rows.users)
    /\ Cardinality(rows.users) <= rows.totalUsers + faults
=============================================================================
