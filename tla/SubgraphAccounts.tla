-------------------------- MODULE SubgraphAccounts --------------------------
(***************************************************************************)
(* Users, balances and holder counts in the subgraph, as functions of the  *)
(* logs: a Graph node applies each handler to the entities as a whole.     *)
(***************************************************************************)
EXTENDS TokenEvents

CONSTANT NoRow   \* the balance of an account without a row

NoEntities ==
  [users |-> {}, totalUsers |-> 0, tokens |-> {}, markets |-> 0,
   balance |-> [t \in Tokens |-> [a \in Accounts |-> NoRow]],
   holderCount |-> [t \in Tokens |-> 0], transferCount |-> [t \in Tokens |-> 0],
   totalSupply |-> [t \in Tokens |-> 0], marketHolders |-> 0]

getOrCreateUser(s, user) ==
  IF user \in s.users THEN s
  ELSE [s EXCEPT !.users = @ \union {user}, !.totalUsers = @ + 1]

(* The protocol entity is loaded before the creator's row is made and      *)
(* saved after it, which undoes the count of a new user.                   *)
sgMarketCreated(s, creator) ==
  [getOrCreateUser(s, creator) EXCEPT
     !.tokens = @ \union {"TKN"},
     !.totalSupply["TKN"] = Supply,
     !.markets = @ + 1,
     !.marketHolders = 1,
     !.totalUsers = s.totalUsers]

Debit(s, t, from, value) ==
  LET u == getOrCreateUser(s, from)
      left == u.balance[t][from] - value
  IN IF u.balance[t][from] = NoRow THEN u
     ELSE [u EXCEPT !.balance[t][from] = left,
                    !.holderCount[t] = IF left = 0 THEN @ - 1 ELSE @]

(* Mutant: the value is not added to a row that is new. *)
Credit_SecondOnly(s, t, to, value) ==
  LET u == getOrCreateUser(s, to)
      new == u.balance[t][to] = NoRow
  IN [u EXCEPT !.balance[t][to] = IF new THEN 0 ELSE @ + value,
               !.holderCount[t] = IF new THEN @ + 1 ELSE @]

Credit(s, t, to, value) ==
  LET u == getOrCreateUser(s, to)
      new == u.balance[t][to] = NoRow
  IN [u EXCEPT !.balance[t][to] = IF new THEN value ELSE @ + value,
               !.holderCount[t] = IF new THEN @ + 1 ELSE @]

Moved(s, log) ==
  LET debited == IF log.from = Zero THEN s ELSE Debit(s, log.token, log.from, log.value)
  IN IF log.to = Zero THEN debited ELSE Credit(debited, log.token, log.to, log.value)

handleTokenTransfer(s, log) ==
  IF "TKN" \notin s.tokens THEN s
  ELSE LET moved == Moved([s EXCEPT !.transferCount["TKN"] = @ + 1], log)
       IN [moved EXCEPT !.marketHolders = moved.holderCount["TKN"]]

handleUSIDTransfer(s, log) ==
  Moved([s EXCEPT !.tokens = @ \union {"USID"},
                  !.transferCount["USID"] = @ + 1,
                  !.totalSupply["USID"] =
                     @ + (IF log.from = Zero THEN log.value ELSE 0)
                       - (IF log.to = Zero THEN log.value ELSE 0)], log)

sgHandle(s, log) ==
  CASE log.kind = "MarketCreated" -> sgMarketCreated(s, log.from)
    [] log.kind = "FactoryMarketCreated" -> s
    [] log.kind = "Swap"          -> getOrCreateUser(s, log.from)
    [] log.kind = "Transfer" /\ log.token = "TKN"  -> handleTokenTransfer(s, log)
    [] log.kind = "Transfer" /\ log.token = "USID" -> handleUSIDTransfer(s, log)

(* The token of a new market is followed from its block on, its mint, the  *)
(* first log of that block, after the others.                              *)
Triggers(block) ==
  IF \E i \in DOMAIN block : block[i].kind = "MarketCreated"
  THEN Append(Tail(block), Head(block)) ELSE block

AfterLogs(s, logs) ==
  LET after[i \in 0 .. Len(logs)] ==
        IF i = 0 THEN s ELSE sgHandle(after[i - 1], logs[i])
  IN after[Len(logs)]

EntitiesAfter(blocks) ==
  LET after[b \in 0 .. Len(blocks)] ==
        IF b = 0 THEN NoEntities ELSE AfterLogs(after[b - 1], Triggers(blocks[b]))
  IN after[Len(blocks)]

SubgraphEntities == EntitiesAfter(chain)
=============================================================================
