----------------------------- MODULE ApiTheorems -----------------------------
(***************************************************************************)
(* What readers of the GraphQL API can rely on, for any markets, users,    *)
(* prices and times: every reference between rows is found.                *)
(***************************************************************************)
EXTENDS Api, SequenceTheorems, TLAPS

-----------------------------------------------------------------------------
(* What readers find in tables d.                                          *)
Has(d, table, id) == id \in DOMAIN d[table]

(* A position comes after its market, so this relation is looked at apart. *)
Deferred(table, r) == table = "market" /\ r[1] = "nft"

(* The statement inserts the row id of a table.                            *)
Brings(s, table, id) == s.op = "insert" /\ s.table = table /\ s.id = id

(* The statement makes a row refer to the row id of a table.               *)
Needs(s, table, id) ==
  \/ /\ s.op = "insert"
     /\ \E r \in Relations[s.table] :
          ~ Deferred(s.table, r) /\ table = r[2] /\ id = s.row[r[1]]
  \/ s.op = "series" /\ table = "market" /\ id = s.id
  \/ s.op = "update" /\ s.table = "market_nft" /\ table = "user" /\ id = s.row["owner"]

(* Updates leave alone the references of a row, but for a position's owner. *)
WellFormed(s) ==
  \/ /\ s.op = "insert" /\ s.table \in Tables \ Series
     /\ \A r \in Relations[s.table] : r[1] \in DOMAIN s.row
     /\ s.table = "market" => s.row["nft"] = s.id
  \/ /\ s.op = "update" /\ s.table \in {"market", "token"}
     /\ DOMAIN s.row \intersect {"token", "nft", "creator"} = {}
  \/ s.op = "update" /\ s.table = "market_nft" /\ DOMAIN s.row = {"owner"}
  \/ s.op = "series" /\ s.table \in Series
  \/ s.op \in {"refresh", "holders"} /\ s.table = "market"

(* A row of a table with the relations of its type.                        *)
Linked(d, table, row) ==
  \A r \in Relations[table] :
    r[1] \in DOMAIN row /\ (~ Deferred(table, r) => Has(d, r[2], row[r[1]]))

RowsOK(d) ==
  /\ d = [table \in Tables |-> d[table]]
  /\ \A table \in Tables : \A id \in DOMAIN d[table] : Linked(d, table, d[table][id])
  /\ \A m \in DOMAIN d["market"] : d["market"][m]["nft"] = m

LEMMA RelationFacts ==
  /\ Relations["market"] =
       {<<"token", "token">>, <<"nft", "market_nft">>, <<"creator", "user">>}
  /\ Relations["market_nft"] = {<<"owner", "user">>, <<"market", "market">>}
  /\ Relations["token"] = {}
  /\ \A table \in Series : Relations[table] = {<<"market", "market">>}
  /\ \A table \in Tables : \A r \in Relations[table] : r[2] \in Tables
<1>1. /\ Relations["market"] =
           {<<"token", "token">>, <<"nft", "market_nft">>, <<"creator", "user">>}
      /\ Relations["market_nft"] = {<<"owner", "user">>, <<"market", "market">>}
      /\ Relations["token"] = {}
  BY DEF Relations
<1>2. \A table \in Series : Relations[table] = {<<"market", "market">>}
  BY DEF Relations, Series
<1>3. ASSUME NEW table \in Tables, NEW r \in Relations[table]
      PROVE  r[2] \in Tables
  BY <1>3 DEF Relations, Tables, Series
<1>4. QED
  BY <1>1, <1>2, <1>3

(* Of one table, what keeps the rows of all of them linked.                *)
LEMMA OneTableChanges ==
  ASSUME NEW d, RowsOK(d), NEW t \in Tables, NEW rows,
         DOMAIN d[t] \subseteq DOMAIN rows,
         \A id \in DOMAIN rows : Linked([d EXCEPT ![t] = rows], t, rows[id]),
         t = "market" => \A id \in DOMAIN rows : rows[id]["nft"] = id
  PROVE  RowsOK([d EXCEPT ![t] = rows])
<1> DEFINE e == [d EXCEPT ![t] = rows]
<1>1. e = [table \in Tables |-> IF table = t THEN rows ELSE d[table]]
  BY DEF RowsOK
<1>2. e[t] = rows /\ \A table \in Tables \ {t} : e[table] = d[table]
  BY <1>1
<1>3. e = [table \in Tables |-> e[table]]
  BY <1>1
<1> HIDE DEF e
<1>4. \A table \in Tables : \A id : Has(d, table, id) => Has(e, table, id)
  BY <1>2 DEF Has
<1>5. ASSUME NEW table \in Tables, NEW id \in DOMAIN e[table]
      PROVE  Linked(e, table, e[table][id])
  <2>1. CASE table = t
    BY <1>2, <1>5, <2>1 DEF e
  <2>2. CASE table # t
    <3>1. e[table] = d[table] /\ Linked(d, table, d[table][id])
      BY <1>2, <1>5, <2>2 DEF RowsOK
    <3>2. \A r \in Relations[table] : r[2] \in Tables
      BY RelationFacts
    <3>3. QED
      BY <1>4, <3>1, <3>2 DEF Linked
  <2>3. QED
    BY <2>1, <2>2
<1>6. "market" \in Tables
  BY DEF Tables
<1>7. \A m \in DOMAIN e["market"] : e["market"][m]["nft"] = m
  BY <1>2, <1>6 DEF RowsOK
<1>8. QED
  BY <1>3, <1>5, <1>7 DEF RowsOK, e

(* A statement leaves the rows linked if those it needs are there.         *)
LEMMA StatementKeepsRows ==
  ASSUME NEW d, RowsOK(d), NEW s, WellFormed(s),
         \A table, id : Needs(s, table, id) => Has(d, table, id)
  PROVE  /\ RowsOK(After(d, s))
         /\ \A table \in Tables : \A id :
              /\ Brings(s, table, id) \/ Has(d, table, id) => Has(After(d, s), table, id)
              /\ table \notin Series /\ Has(After(d, s), table, id) =>
                   Brings(s, table, id) \/ Has(d, table, id)
<1> DEFINE t == s.table
           old == d[t]
           rows == RowsAfter(d, s)
           e == After(d, s)
<1>1. /\ t \in Tables /\ Series \subseteq Tables
      /\ {"market", "market_nft", "token", "user"} \subseteq Tables \ Series
  BY DEF WellFormed, Tables, Series
<1>2. e = [d EXCEPT ![t] = rows]
  BY DEF After
<1>3. e[t] = rows /\ \A table \in Tables \ {t} : e[table] = d[table]
  BY <1>1, <1>2 DEF RowsOK
<1>4. /\ \A id \in DOMAIN old : Linked(d, t, old[id])
      /\ t = "market" => \A id \in DOMAIN old : old[id]["nft"] = id
  BY <1>1 DEF RowsOK
<1>5. \A r \in Relations[t] : r[2] \in Tables
  BY <1>1, RelationFacts
<1> HIDE DEF t, old, rows, e
(* It is enough to look at the one table. *)
<1>6. ASSUME DOMAIN old \subseteq DOMAIN rows,
             \A id \in DOMAIN rows : \A r \in Relations[t] :
               /\ r[1] \in DOMAIN rows[id]
               /\ ~ Deferred(t, r) =>
                    \/ Has(d, r[2], rows[id][r[1]])
                    \/ id \in DOMAIN old /\ rows[id][r[1]] = old[id][r[1]],
             t = "market" => \A id \in DOMAIN rows : rows[id]["nft"] = id,
             \A id : Brings(s, t, id) => id \in DOMAIN rows,
             \A id \in DOMAIN rows : id \in DOMAIN old \/ Brings(s, t, id) \/ t \in Series
      PROVE  /\ RowsOK(e)
             /\ \A table \in Tables : \A id :
                  /\ Brings(s, table, id) \/ Has(d, table, id) => Has(e, table, id)
                  /\ table \notin Series /\ Has(e, table, id) =>
                       Brings(s, table, id) \/ Has(d, table, id)
  <2>1. \A table \in Tables : \A id :
          /\ Brings(s, table, id) \/ Has(d, table, id) => Has(e, table, id)
          /\ table \notin Series /\ Has(e, table, id) =>
               Brings(s, table, id) \/ Has(d, table, id)
    BY <1>1, <1>3, <1>6 DEF Has, Brings, t, old
  <2>2. ASSUME NEW id \in DOMAIN rows PROVE Linked(e, t, rows[id])
    <3>1. ASSUME NEW r \in Relations[t]
          PROVE  r[1] \in DOMAIN rows[id] /\ (~ Deferred(t, r) => Has(e, r[2], rows[id][r[1]]))
      <4>1. id \in DOMAIN old => (~ Deferred(t, r) => Has(d, r[2], old[id][r[1]]))
        BY <1>4, <3>1 DEF Linked
      <4>2. QED
        BY <1>5, <1>6, <2>1, <2>2, <3>1, <4>1
    <3>2. QED
      BY <3>1 DEF Linked
  <2>3. RowsOK(e)
    BY <1>1, <1>2, <1>6, <2>2, OneTableChanges DEF old
  <2>4. QED
    BY <2>1, <2>3
<1>7. CASE s.op = "insert"
  <2>1. /\ DOMAIN rows = DOMAIN old \union {s.id}
        /\ \A id \in DOMAIN old : rows[id] = old[id]
        /\ s.id \notin DOMAIN old => rows[s.id] = s.row
    BY <1>7 DEF RowsAfter, Inserted, Over, Single, rows, old, t
  <2>2. /\ \A r \in Relations[t] : r[1] \in DOMAIN s.row
        /\ t = "market" => s.row["nft"] = s.id
    BY <1>7 DEF WellFormed, t
  <2>3. \A r \in Relations[t] : ~ Deferred(t, r) => Has(d, r[2], s.row[r[1]])
    BY <1>7 DEF Needs, t
  <2>4. ASSUME NEW id \in DOMAIN rows, NEW r \in Relations[t]
        PROVE  /\ r[1] \in DOMAIN rows[id]
               /\ ~ Deferred(t, r) => \/ Has(d, r[2], rows[id][r[1]])
                                      \/ id \in DOMAIN old /\ rows[id][r[1]] = old[id][r[1]]
    <3>1. CASE id \in DOMAIN old
      BY <1>4, <2>1, <2>4, <3>1 DEF Linked
    <3>2. CASE id \notin DOMAIN old
      BY <2>1, <2>2, <2>3, <2>4, <3>2
    <3>3. QED
      BY <3>1, <3>2
  <2>5. t = "market" => \A id \in DOMAIN rows : rows[id]["nft"] = id
    BY <1>4, <2>1, <2>2
  <2>6. \A id : Brings(s, t, id) <=> id = s.id
    BY <1>7 DEF Brings, t
  <2>7. QED
    BY <1>6, <2>1, <2>4, <2>5, <2>6 DEF e
<1>8. CASE s.op # "insert" /\ t \notin Series
  <2>1. \A id : ~ Brings(s, t, id)
    BY <1>8 DEF Brings
  (* The row keeps what it refers to, or a position gets its new owner. *)
  <2>2. ASSUME DOMAIN rows = DOMAIN old,
               \A id \in DOMAIN old : \A r \in Relations[t] :
                 /\ r[1] \in DOMAIN rows[id]
                 /\ \/ rows[id][r[1]] = old[id][r[1]]
                    \/ Has(d, r[2], rows[id][r[1]]) /\ t # "market"
        PROVE  /\ RowsOK(e)
               /\ \A table \in Tables : \A id :
                    /\ Brings(s, table, id) \/ Has(d, table, id) => Has(e, table, id)
                    /\ table \notin Series /\ Has(e, table, id) =>
                         Brings(s, table, id) \/ Has(d, table, id)
    <3> DEFINE nft == <<"nft", "market_nft">>
    <3>1. t = "market" => nft \in Relations[t] /\ nft[1] = "nft"
      BY RelationFacts
    <3> HIDE DEF nft
    <3>2. t = "market" => \A id \in DOMAIN rows : rows[id]["nft"] = id
      BY <1>4, <2>2, <3>1
    <3>3. QED
      BY <1>6, <2>1, <2>2, <3>2
  <2>3. CASE s.op = "update" /\ t \in {"market", "token"}
    <3>1. /\ rows = Updated(old, s.id, s.row)
          /\ DOMAIN s.row \intersect {"token", "nft", "creator"} = {}
      BY <1>1, <2>3 DEF RowsAfter, WellFormed, rows, old, t
    <3>2. /\ DOMAIN rows = DOMAIN old
          /\ \A id \in DOMAIN old : rows[id] = old[id] \/ rows[id] = Over(s.row, old[id])
      BY <3>1 DEF Updated
    <3>3. \A id \in DOMAIN old : \A f \in DOMAIN old[id] :
            f \notin DOMAIN s.row => f \in DOMAIN rows[id] /\ rows[id][f] = old[id][f]
      BY <3>2 DEF Over
    <3>4. \A r \in Relations[t] : r[1] \notin DOMAIN s.row
      BY <2>3, <3>1, RelationFacts
    <3>5. \A id \in DOMAIN old : \A r \in Relations[t] : r[1] \in DOMAIN old[id]
      BY <1>4 DEF Linked
    <3>6. QED
      BY <2>2, <3>2, <3>3, <3>4, <3>5 DEF e
  <2>4. CASE s.op = "update" /\ t = "market_nft"
    <3>1. /\ rows = Updated(old, s.id, s.row)
          /\ DOMAIN s.row = {"owner"}
      BY <2>4 DEF RowsAfter, WellFormed, rows, old, t
    <3>2. /\ DOMAIN rows = DOMAIN old
          /\ \A id \in DOMAIN old : rows[id] = old[id] \/ rows[id] = Over(s.row, old[id])
      BY <3>1 DEF Updated
    <3>3. Has(d, "user", s.row["owner"])
      BY <2>4 DEF Needs, t
    <3>4. Relations[t] = {<<"owner", "user">>, <<"market", "market">>}
      BY <2>4, RelationFacts
    <3>5. \A id \in DOMAIN old : "owner" \in DOMAIN old[id] /\ "market" \in DOMAIN old[id]
      BY <1>4, <3>4 DEF Linked
    <3>6. \A id \in DOMAIN old :
            /\ "owner" \in DOMAIN rows[id] /\ "market" \in DOMAIN rows[id]
            /\ rows[id]["market"] = old[id]["market"]
            /\ rows[id]["owner"] = old[id]["owner"] \/ rows[id]["owner"] = s.row["owner"]
      <4>1. ASSUME NEW id \in DOMAIN old, rows[id] = Over(s.row, old[id])
            PROVE  /\ DOMAIN rows[id] = {"owner"} \union DOMAIN old[id]
                   /\ rows[id]["owner"] = s.row["owner"]
                   /\ rows[id]["market"] = old[id]["market"]
        BY <3>1, <3>5, <4>1 DEF Over
      <4>2. QED
        BY <3>2, <3>5, <4>1
    <3>7. QED
      BY <2>2, <2>4, <3>2, <3>3, <3>4, <3>6 DEF e
  <2>5. CASE s.op \in {"refresh", "holders"}
    <3>1. t = "market"
      BY <2>5 DEF WellFormed, t
    <3>2. \A id \in DOMAIN old : {"token", "nft", "creator"} \subseteq DOMAIN old[id]
      BY <1>4, <3>1, RelationFacts DEF Linked
    <3>3. /\ DOMAIN rows = DOMAIN old
          /\ \A id \in DOMAIN old :
               /\ {"token", "nft", "creator"} \subseteq DOMAIN rows[id]
               /\ \A f \in {"token", "nft", "creator"} : rows[id][f] = old[id][f]
      <4>1. CASE s.op = "refresh"
        <5>1. rows = refreshMarketEnrichedFields(d, s.id, s.row.time)
          BY <4>1 DEF RowsAfter, rows
        <5>2. QED
          BY <3>1, <3>2, <5>1 DEF refreshMarketEnrichedFields, old
      <4>2. CASE s.op = "holders"
        <5>1. rows = Updated(old, s.id, [holders |-> Holders(d, s.id)])
          BY <4>2 DEF RowsAfter, rows, old, t
        <5> DEFINE new == [holders |-> Holders(d, s.id)]
        <5>2. DOMAIN new = {"holders"}
          OBVIOUS
        <5> HIDE DEF new
        <5>3. QED
          BY <3>2, <5>1, <5>2 DEF Updated, Over, new
      <4>3. QED
        BY <2>5, <4>1, <4>2
    <3>4. \A r \in Relations[t] : r[1] \in {"token", "nft", "creator"}
      BY <3>1, RelationFacts
    <3>5. QED
      <4>1. \A id \in DOMAIN old : \A r \in Relations[t] :
              r[1] \in DOMAIN rows[id] /\ rows[id][r[1]] = old[id][r[1]]
        BY <3>3, <3>4
      <4>2. QED
        BY <2>2, <3>3, <4>1 DEF e
  <2>6. QED
    BY <1>8, <2>3, <2>4, <2>5 DEF WellFormed, t
<1>9. CASE s.op # "insert" /\ t \in Series
  <2> DEFINE price == s.row.price
             period == s.row.time \div SeriesLength[s.table]
             key == <<s.id, period>>
  <2>1. s.op = "series" /\ rows = upsertOHLC(old, s.id, period, price)
    BY <1>1, <1>9 DEF RowsAfter, WellFormed, rows, old, t
  <2>2. Has(d, "market", s.id) /\ \A id : ~ Brings(s, t, id)
    BY <1>9, <2>1 DEF Needs, Brings
  <2>3. Relations[t] = {<<"market", "market">>} /\ t # "market"
    BY <1>1, <1>9, RelationFacts
  <2>4. \A id \in DOMAIN old : "market" \in DOMAIN old[id]
    BY <1>4, <2>3 DEF Linked
  <2> HIDE DEF period, key, price
  <2>5. /\ DOMAIN old \subseteq DOMAIN rows /\ DOMAIN rows \subseteq DOMAIN old \union {key}
        /\ \A id \in DOMAIN old : /\ "market" \in DOMAIN rows[id]
                                  /\ rows[id]["market"] = old[id]["market"]
        /\ key \notin DOMAIN old /\ key \in DOMAIN rows =>
             "market" \in DOMAIN rows[key] /\ rows[key]["market"] = s.id
    <3>1. CASE key \in DOMAIN old
      <4> DEFINE row == old[key]
                 changed == Traded(row, price)
      <4>1. rows = [old EXCEPT ![key] = changed]
        BY <2>1, <3>1 DEF upsertOHLC, key
      <4>2. DOMAIN changed = DOMAIN row /\ ("market" \in DOMAIN row => changed["market"] = row["market"])
        BY DEF Traded
      <4> HIDE DEF changed
      <4>3. /\ DOMAIN rows = DOMAIN old
            /\ \A id \in DOMAIN old : rows[id] = IF id = key THEN changed ELSE old[id]
        BY <4>1
      <4>4. QED
        BY <2>4, <3>1, <4>2, <4>3
    <3>2. CASE key \notin DOMAIN old
      <4> DEFINE before == <<s.id, period - 1>>
                 open == IF before \in DOMAIN old THEN old[before].close ELSE price
                 row == [market |-> s.id, open |-> open, high |-> Max({open, price}),
                         low |-> Min({open, price}), close |-> price, swaps |-> 1]
      <4>1. rows = Inserted(old, key, row)
        BY <2>1, <3>2 DEF upsertOHLC, key
      <4>2. row["market"] = s.id /\ "market" \in DOMAIN row
        OBVIOUS
      <4> HIDE DEF row
      <4>3. QED
        BY <3>2, <4>1, <4>2, <2>4 DEF Inserted, Over, Single
    <3>3. QED
      BY <3>1, <3>2
  <2>6. \A id \in DOMAIN rows :
          /\ "market" \in DOMAIN rows[id]
          /\ \/ Has(d, "market", rows[id]["market"])
             \/ id \in DOMAIN old /\ rows[id]["market"] = old[id]["market"]
    BY <2>2, <2>5
  <2>7. QED
    BY <1>6, <1>9, <2>2, <2>3, <2>5, <2>6 DEF e
<1>10. QED
  BY <1>7, <1>8, <1>9 DEF e
-----------------------------------------------------------------------------
(* The statements of the handlers: what they need and bring.               *)
LEMMA MoreRelations ==
  /\ Relations["user"] = {}
  /\ Relations["swap"] = {<<"market", "market">>, <<"user", "user">>}
  /\ Relations["fee_claim"] = {<<"nft", "market_nft">>, <<"recipient", "user">>}
  /\ Relations["nft_transfer"] =
       {<<"nft", "market_nft">>, <<"from", "user">>, <<"to", "user">>}
  /\ Relations["fee_strategy_change"] = {<<"nft", "market_nft">>}
  /\ Relations["user_token_balance"] = {<<"user", "user">>, <<"token", "token">>}
BY DEF Relations

LEMMA InsertFacts ==
  ASSUME NEW table \in Tables \ Series, NEW id, NEW row,
         \A r \in Relations[table] : r[1] \in DOMAIN row,
         table = "market" => row["nft"] = id
  PROVE  LET s == Insert(table, id, row)
         IN /\ WellFormed(s)
            /\ \A t, i : Needs(s, t, i) =>
                 \E r \in Relations[table] :
                   ~ Deferred(table, r) /\ t = r[2] /\ i = row[r[1]]
            /\ \A t, i : Brings(s, t, i) <=> t = table /\ i = id
<1> DEFINE s == Insert(table, id, row)
<1>1. s.op = "insert" /\ s.table = table /\ s.id = id /\ s.row = row
  BY DEF Insert
<1> HIDE DEF s
<1>2. QED
  BY <1>1 DEF WellFormed, Needs, Brings, s

LEMMA UserStatement ==
  ASSUME NEW u
  PROVE  LET s == getOrCreateUser(u)
         IN /\ WellFormed(s) /\ \A t, i : ~ Needs(s, t, i)
            /\ \A t, i : Brings(s, t, i) <=> t = "user" /\ i = u
BY InsertFacts, MoreRelations DEF getOrCreateUser, Tables, Series

LEMMA TokenStatement ==
  ASSUME NEW m
  PROVE  LET s == Insert("token", m, TokenRow)
         IN /\ WellFormed(s) /\ \A t, i : ~ Needs(s, t, i)
            /\ \A t, i : Brings(s, t, i) <=> t = "token" /\ i = m
BY InsertFacts, RelationFacts DEF Tables, Series

LEMMA MarketStatement ==
  ASSUME NEW log
  PROVE  LET s == Insert("market", log.market, MarketRow(log))
         IN /\ WellFormed(s)
            /\ \A t, i : Needs(s, t, i) =>
                 (t = "token" /\ i = log.market) \/ (t = "user" /\ i = log.user)
            /\ \A t, i : Brings(s, t, i) <=> t = "market" /\ i = log.market
<1> DEFINE row == MarketRow(log)
<1>1. /\ {"token", "nft", "creator"} \subseteq DOMAIN row
      /\ row["token"] = log.market /\ row["nft"] = log.market /\ row["creator"] = log.user
  BY DEF MarketRow
<1>2. "market" \in Tables \ Series
  BY DEF Tables, Series
<1> HIDE DEF row
<1>3. \A r \in Relations["market"] : r[1] \in DOMAIN row
  BY <1>1, RelationFacts
<1>4. \A r \in Relations["market"] : ~ Deferred("market", r) =>
        \/ r[2] = "token" /\ row[r[1]] = log.market
        \/ r[2] = "user" /\ row[r[1]] = log.user
  BY <1>1, RelationFacts DEF Deferred
<1> DEFINE s == Insert("market", log.market, row)
<1>5. /\ WellFormed(s)
      /\ \A t, i : Needs(s, t, i) =>
           \E r \in Relations["market"] :
             ~ Deferred("market", r) /\ t = r[2] /\ i = row[r[1]]
      /\ \A t, i : Brings(s, t, i) <=> t = "market" /\ i = log.market
  BY <1>1, <1>2, <1>3, InsertFacts
<1> HIDE DEF s
<1>6. /\ WellFormed(s)
      /\ \A t, i : Needs(s, t, i) =>
           (t = "token" /\ i = log.market) \/ (t = "user" /\ i = log.user)
      /\ \A t, i : Brings(s, t, i) <=> t = "market" /\ i = log.market
  BY <1>4, <1>5
<1>7. QED
  BY <1>6 DEF s, row

LEMMA MarketNFTStatement ==
  ASSUME NEW log
  PROVE  LET s == Insert("market_nft", log.market, MarketNFTRow(log))
         IN /\ WellFormed(s)
            /\ \A t, i : Needs(s, t, i) =>
                 (t = "market" /\ i = log.market) \/ (t = "user" /\ i = log.user)
            /\ \A t, i : Brings(s, t, i) <=> t = "market_nft" /\ i = log.market
<1> DEFINE row == MarketNFTRow(log)
<1>1. /\ {"owner", "market"} \subseteq DOMAIN row
      /\ row["owner"] = log.user /\ row["market"] = log.market
  BY DEF MarketNFTRow
<1>2. "market_nft" \in Tables \ Series
  BY DEF Tables, Series
<1> HIDE DEF row
<1>3. \A r \in Relations["market_nft"] : r[1] \in DOMAIN row
  BY <1>1, RelationFacts
<1>4. \A r \in Relations["market_nft"] :
        \/ r[2] = "market" /\ row[r[1]] = log.market
        \/ r[2] = "user" /\ row[r[1]] = log.user
  BY <1>1, RelationFacts
<1> DEFINE s == Insert("market_nft", log.market, row)
<1>5. /\ WellFormed(s)
      /\ \A t, i : Needs(s, t, i) =>
           \E r \in Relations["market_nft"] : t = r[2] /\ i = row[r[1]]
      /\ \A t, i : Brings(s, t, i) <=> t = "market_nft" /\ i = log.market
  BY <1>1, <1>2, <1>3, InsertFacts
<1> HIDE DEF s
<1>6. /\ WellFormed(s)
      /\ \A t, i : Needs(s, t, i) =>
           (t = "market" /\ i = log.market) \/ (t = "user" /\ i = log.user)
      /\ \A t, i : Brings(s, t, i) <=> t = "market_nft" /\ i = log.market
  BY <1>4, <1>5
<1>7. QED
  BY <1>6 DEF s, row

(* A row of the tables that grow with every event.                         *)
LEMMA EventStatements ==
  ASSUME NEW log, NEW n
  PROVE  LET swp == Insert("swap", n, SwapRow(log))
             claim == Insert("fee_claim", n, FeeClaimRow(log))
             change == Insert("fee_strategy_change", n, FeeStrategyChangeRow(log))
             move == Insert("nft_transfer", n, NFTTransferRow(log))
         IN /\ \A s \in {swp, claim, change, move} :
                 WellFormed(s) /\ \A i : ~ Brings(s, "market", i) /\ ~ Brings(s, "market_nft", i)
            /\ \A t, i : Needs(swp, t, i) =>
                 (t = "market" /\ i = log.market) \/ (t = "user" /\ i = log.user)
            /\ \A t, i : Needs(claim, t, i) =>
                 (t = "market_nft" /\ i = log.market) \/ (t = "user" /\ i = log.user)
            /\ \A t, i : Needs(change, t, i) => t = "market_nft" /\ i = log.market
            /\ \A t, i : Needs(move, t, i) =>
                 \/ t = "market_nft" /\ i = log.market
                 \/ t = "user" /\ i \in {log.user, log.from}
<1> DEFINE swp == Insert("swap", n, SwapRow(log))
           claim == Insert("fee_claim", n, FeeClaimRow(log))
           change == Insert("fee_strategy_change", n, FeeStrategyChangeRow(log))
           move == Insert("nft_transfer", n, NFTTransferRow(log))
<1>0. {"swap", "fee_claim", "fee_strategy_change", "nft_transfer"} \subseteq
        Tables \ Series
  BY DEF Tables, Series
<1>1. /\ WellFormed(swp) /\ \A i : ~ Brings(swp, "market", i) /\ ~ Brings(swp, "market_nft", i)
      /\ \A t, i : Needs(swp, t, i) =>
           (t = "market" /\ i = log.market) \/ (t = "user" /\ i = log.user)
  <2> DEFINE row == SwapRow(log)
  <2>1. /\ {"market", "user"} \subseteq DOMAIN row
        /\ row["market"] = log.market /\ row["user"] = log.user
    BY DEF SwapRow
  <2> HIDE DEF row
  <2>2. \A r \in Relations["swap"] : r[1] \in DOMAIN row
    BY <2>1, MoreRelations
  <2>3. \A r \in Relations["swap"] :
          \/ r[2] = "market" /\ row[r[1]] = log.market
          \/ r[2] = "user" /\ row[r[1]] = log.user
    BY <2>1, MoreRelations
  <2> DEFINE s == Insert("swap", n, row)
  <2>4. /\ WellFormed(s)
        /\ \A t, i : Needs(s, t, i) =>
             \E r \in Relations["swap"] : t = r[2] /\ i = row[r[1]]
        /\ \A t, i : Brings(s, t, i) <=> t = "swap" /\ i = n
    BY <1>0, <2>2, InsertFacts
  <2> HIDE DEF s
  <2>5. /\ WellFormed(s) /\ \A i : ~ Brings(s, "market", i) /\ ~ Brings(s, "market_nft", i)
        /\ \A t, i : Needs(s, t, i) =>
             (t = "market" /\ i = log.market) \/ (t = "user" /\ i = log.user)
    BY <2>3, <2>4
  <2>6. QED
    BY <2>5 DEF s, row
<1>2. /\ WellFormed(claim)
      /\ \A i : ~ Brings(claim, "market", i) /\ ~ Brings(claim, "market_nft", i)
      /\ \A t, i : Needs(claim, t, i) =>
           (t = "market_nft" /\ i = log.market) \/ (t = "user" /\ i = log.user)
  <2> DEFINE row == FeeClaimRow(log)
  <2>1. /\ {"nft", "recipient"} \subseteq DOMAIN row
        /\ row["nft"] = log.market /\ row["recipient"] = log.user
    BY DEF FeeClaimRow
  <2> HIDE DEF row
  <2>2. \A r \in Relations["fee_claim"] : r[1] \in DOMAIN row
    BY <2>1, MoreRelations
  <2>3. \A r \in Relations["fee_claim"] :
          \/ r[2] = "market_nft" /\ row[r[1]] = log.market
          \/ r[2] = "user" /\ row[r[1]] = log.user
    BY <2>1, MoreRelations
  <2> DEFINE s == Insert("fee_claim", n, row)
  <2>4. /\ WellFormed(s)
        /\ \A t, i : Needs(s, t, i) =>
             \E r \in Relations["fee_claim"] : t = r[2] /\ i = row[r[1]]
        /\ \A t, i : Brings(s, t, i) <=> t = "fee_claim" /\ i = n
    BY <1>0, <2>2, InsertFacts
  <2> HIDE DEF s
  <2>5. /\ WellFormed(s) /\ \A i : ~ Brings(s, "market", i) /\ ~ Brings(s, "market_nft", i)
        /\ \A t, i : Needs(s, t, i) =>
             (t = "market_nft" /\ i = log.market) \/ (t = "user" /\ i = log.user)
    BY <2>3, <2>4
  <2>6. QED
    BY <2>5 DEF s, row
<1>3. /\ WellFormed(change)
      /\ \A i : ~ Brings(change, "market", i) /\ ~ Brings(change, "market_nft", i)
      /\ \A t, i : Needs(change, t, i) => t = "market_nft" /\ i = log.market
  <2> DEFINE row == FeeStrategyChangeRow(log)
  <2>1. "nft" \in DOMAIN row /\ row["nft"] = log.market
    BY DEF FeeStrategyChangeRow
  <2> HIDE DEF row
  <2>2. \A r \in Relations["fee_strategy_change"] :
          r[1] \in DOMAIN row /\ r[2] = "market_nft" /\ row[r[1]] = log.market
    BY <2>1, MoreRelations
  <2> DEFINE s == Insert("fee_strategy_change", n, row)
  <2>4. /\ WellFormed(s)
        /\ \A t, i : Needs(s, t, i) =>
             \E r \in Relations["fee_strategy_change"] : t = r[2] /\ i = row[r[1]]
        /\ \A t, i : Brings(s, t, i) <=> t = "fee_strategy_change" /\ i = n
    BY <1>0, <2>2, InsertFacts
  <2> HIDE DEF s
  <2>5. /\ WellFormed(s) /\ \A i : ~ Brings(s, "market", i) /\ ~ Brings(s, "market_nft", i)
        /\ \A t, i : Needs(s, t, i) => t = "market_nft" /\ i = log.market
    BY <2>2, <2>4
  <2>6. QED
    BY <2>5 DEF s, row
<1>4. /\ WellFormed(move)
      /\ \A i : ~ Brings(move, "market", i) /\ ~ Brings(move, "market_nft", i)
      /\ \A t, i : Needs(move, t, i) =>
           \/ t = "market_nft" /\ i = log.market
           \/ t = "user" /\ i \in {log.user, log.from}
  <2> DEFINE row == NFTTransferRow(log)
  <2>1. /\ {"nft", "from", "to"} \subseteq DOMAIN row
        /\ row["nft"] = log.market /\ row["from"] = log.from /\ row["to"] = log.user
    BY DEF NFTTransferRow
  <2> HIDE DEF row
  <2>2. \A r \in Relations["nft_transfer"] : r[1] \in DOMAIN row
    BY <2>1, MoreRelations
  <2>3. \A r \in Relations["nft_transfer"] :
          \/ r[2] = "market_nft" /\ row[r[1]] = log.market
          \/ r[2] = "user" /\ row[r[1]] \in {log.user, log.from}
    BY <2>1, MoreRelations
  <2> DEFINE s == Insert("nft_transfer", n, row)
  <2>4. /\ WellFormed(s)
        /\ \A t, i : Needs(s, t, i) =>
             \E r \in Relations["nft_transfer"] : t = r[2] /\ i = row[r[1]]
        /\ \A t, i : Brings(s, t, i) <=> t = "nft_transfer" /\ i = n
    BY <1>0, <2>2, InsertFacts
  <2> HIDE DEF s
  <2>5. /\ WellFormed(s) /\ \A i : ~ Brings(s, "market", i) /\ ~ Brings(s, "market_nft", i)
        /\ \A t, i : Needs(s, t, i) =>
             (t = "market_nft" /\ i = log.market) \/ (t = "user" /\ i \in {log.user, log.from})
    BY <2>3, <2>4
  <2>6. QED
    BY <2>5 DEF s, row
<1> HIDE DEF swp, claim, change, move
<1>5. QED
  BY <1>1, <1>2, <1>3, <1>4 DEF swp, claim, change, move

LEMMA BalanceStatement ==
  ASSUME NEW user, NEW token
  PROVE  LET s == Insert("user_token_balance", <<user, token>>, BalanceRow(user, token))
         IN /\ WellFormed(s) /\ \A i : ~ Brings(s, "market", i) /\ ~ Brings(s, "market_nft", i)
            /\ \A t, i : Needs(s, t, i) =>
                 (t = "user" /\ i = user) \/ (t = "token" /\ i = token)
<1> DEFINE row == BalanceRow(user, token)
<1>1. /\ {"user", "token"} \subseteq DOMAIN row
      /\ row["user"] = user /\ row["token"] = token
  BY DEF BalanceRow
<1>2. "user_token_balance" \in Tables \ Series
  BY DEF Tables, Series
<1> HIDE DEF row
<1>3. \A r \in Relations["user_token_balance"] : r[1] \in DOMAIN row
  BY <1>1, MoreRelations
<1>4. \A r \in Relations["user_token_balance"] :
        \/ r[2] = "user" /\ row[r[1]] = user
        \/ r[2] = "token" /\ row[r[1]] = token
  BY <1>1, MoreRelations
<1> DEFINE s == Insert("user_token_balance", <<user, token>>, row)
<1>5. /\ WellFormed(s)
      /\ \A t, i : Needs(s, t, i) =>
           \E r \in Relations["user_token_balance"] : t = r[2] /\ i = row[r[1]]
      /\ \A t, i : Brings(s, t, i) <=> t = "user_token_balance" /\ i = <<user, token>>
  BY <1>2, <1>3, InsertFacts
<1> HIDE DEF s
<1>6. /\ WellFormed(s) /\ \A i : ~ Brings(s, "market", i) /\ ~ Brings(s, "market_nft", i)
      /\ \A t, i : Needs(s, t, i) =>
           (t = "user" /\ i = user) \/ (t = "token" /\ i = token)
  BY <1>4, <1>5
<1>7. QED
  BY <1>6 DEF s, row

(* Statements that change rows insert none, but for a period of a series.  *)
LEMMA ChangeStatements ==
  ASSUME NEW log
  PROVE  /\ \A s \in {Update("token", log.market, [market |-> log.market]),
                      Update("market", log.market, [price |-> log.price]),
                      Refresh(log), CountHolders(log.market)} :
              /\ WellFormed(s) /\ \A t, i : ~ Needs(s, t, i) /\ ~ Brings(s, t, i)
         /\ \A table \in Series : LET s == Upsert(table, log) IN
              /\ WellFormed(s) /\ \A t, i : ~ Brings(s, t, i)
              /\ \A t, i : Needs(s, t, i) => t = "market" /\ i = log.market
         /\ LET s == Update("market_nft", log.market, [owner |-> log.user]) IN
              /\ WellFormed(s) /\ \A t, i : ~ Brings(s, t, i)
              /\ \A t, i : Needs(s, t, i) => t = "user" /\ i = log.user
<1>1. LET s == Update("token", log.market, [market |-> log.market]) IN
      WellFormed(s) /\ \A t, i : ~ Needs(s, t, i) /\ ~ Brings(s, t, i)
  BY DEF Update, WellFormed, Needs, Brings
<1>2. LET s == Update("market", log.market, [price |-> log.price]) IN
      WellFormed(s) /\ \A t, i : ~ Needs(s, t, i) /\ ~ Brings(s, t, i)
  BY DEF Update, WellFormed, Needs, Brings
<1>3. \A s \in {Refresh(log), CountHolders(log.market)} :
      WellFormed(s) /\ \A t, i : ~ Needs(s, t, i) /\ ~ Brings(s, t, i)
  BY DEF Refresh, CountHolders, WellFormed, Needs, Brings
<1>4. ASSUME NEW table \in Series
      PROVE  LET s == Upsert(table, log) IN
             /\ WellFormed(s) /\ \A t, i : ~ Brings(s, t, i)
             /\ \A t, i : Needs(s, t, i) => t = "market" /\ i = log.market
  BY DEF Upsert, WellFormed, Needs, Brings
<1>5. LET s == Update("market_nft", log.market, [owner |-> log.user]) IN
      /\ WellFormed(s) /\ \A t, i : ~ Brings(s, t, i)
      /\ \A t, i : Needs(s, t, i) => t = "user" /\ i = log.user
  BY DEF Update, WellFormed, Needs, Brings
<1>6. QED
  BY <1>1, <1>2, <1>3, <1>4, <1>5

-----------------------------------------------------------------------------
(* Statements in an order in which each finds the rows it needs in tables  *)
(* d or inserted by earlier ones; a market is followed by its position.    *)
InOrder(d, q) ==
  /\ \E S : q \in Seq(S)
  /\ \A i \in 1 .. Len(q) :
       /\ WellFormed(q[i])
       /\ \A table, id : Needs(q[i], table, id) =>
            Has(d, table, id) \/ \E j \in 1 .. i - 1 : Brings(q[j], table, id)
       /\ \A m : Brings(q[i], "market", m) =>
            \E j \in i + 1 .. Len(q) : Brings(q[j], "market_nft", m)

(* No market is inserted.                                                  *)
NoMarket(q) ==
  \A i \in 1 .. Len(q) : \A m : ~ Brings(q[i], "market", m) /\ ~ Brings(q[i], "market_nft", m)

LEMMA NothingInOrder == InOrder(db, <<>>) /\ NoMarket(<<>>)
<1>1. <<>> \in Seq({}) /\ 1 .. Len(<<>>) = {}
  OBVIOUS
<1>2. QED
  BY <1>1 DEF InOrder, NoMarket

LEMMA MarketCreatedInOrder ==
  ASSUME NEW log, NEW n
  PROVE  LET q == handleMarketCreated(log, n)
         IN /\ InOrder(db, q)
            /\ \E i \in 1 .. Len(q) : Brings(q[i], "market", log.market)
            /\ \E i \in 1 .. Len(q) : Brings(q[i], "market_nft", log.market)
            /\ \A i \in 1 .. Len(q) : \A m : Brings(q[i], "market_nft", m) => m = log.market
<1> DEFINE a == getOrCreateUser(log.user)
           b == Insert("token", log.market, TokenRow)
           c == Insert("market", log.market, MarketRow(log))
           e == Update("token", log.market, [market |-> log.market])
           f == Insert("market_nft", log.market, MarketNFTRow(log))
           q == <<a, b, c, e, f>>
<1>1. WellFormed(a) /\ \A t, i : ~ Needs(a, t, i) /\ (Brings(a, t, i) <=> t = "user" /\ i = log.user)
  BY UserStatement
<1>2. WellFormed(b) /\ \A t, i : ~ Needs(b, t, i) /\ (Brings(b, t, i) <=> t = "token" /\ i = log.market)
  BY TokenStatement
<1>3. /\ WellFormed(c)
      /\ \A t, i : /\ Needs(c, t, i) => (t = "token" /\ i = log.market) \/ (t = "user" /\ i = log.user)
                   /\ Brings(c, t, i) <=> t = "market" /\ i = log.market
  BY MarketStatement
<1>4. WellFormed(e) /\ \A t, i : ~ Needs(e, t, i) /\ ~ Brings(e, t, i)
  BY ChangeStatements
<1>5. /\ WellFormed(f)
      /\ \A t, i : /\ Needs(f, t, i) => (t = "market" /\ i = log.market) \/ (t = "user" /\ i = log.user)
                   /\ Brings(f, t, i) <=> t = "market_nft" /\ i = log.market
  BY MarketNFTStatement
<1>6. handleMarketCreated(log, n) = q
  BY DEF handleMarketCreated
<1> HIDE DEF a, b, c, e, f
<1>7. /\ q \in Seq({a, b, c, e, f}) /\ Len(q) = 5
      /\ q[1] = a /\ q[2] = b /\ q[3] = c /\ q[4] = e /\ q[5] = f
  OBVIOUS
<1> HIDE DEF q
<1>8. \A i \in 1 .. 5 :
        /\ WellFormed(q[i])
        /\ \A table, id : Needs(q[i], table, id) =>
             Has(db, table, id) \/ \E j \in 1 .. i - 1 : Brings(q[j], table, id)
        /\ \A m : Brings(q[i], "market", m) =>
             \E j \in i + 1 .. 5 : Brings(q[j], "market_nft", m)
  BY <1>1, <1>2, <1>3, <1>4, <1>5, <1>7
<1>9. /\ \E i \in 1 .. 5 : Brings(q[i], "market", log.market)
      /\ \E i \in 1 .. 5 : Brings(q[i], "market_nft", log.market)
      /\ \A i \in 1 .. 5 : \A m : Brings(q[i], "market_nft", m) => m = log.market
  BY <1>1, <1>2, <1>3, <1>4, <1>5, <1>7
<1>10. QED
  BY <1>6, <1>7, <1>8, <1>9 DEF InOrder

(* The other handlers insert no market.                                    *)
LEMMA SwapInOrder ==
  ASSUME NEW log, NEW n
  PROVE  LET q == handleSwap(log, n) IN InOrder(db, q) /\ NoMarket(q)
<1>1. CASE log.market \notin DOMAIN db["market"]
  <2>1. handleSwap(log, n) = <<>>
    BY <1>1 DEF handleSwap
  <2>2. QED
    BY <2>1, NothingInOrder
<1>2. CASE log.market \in DOMAIN db["market"]
  <2> DEFINE a == getOrCreateUser(log.user)
             b == Insert("swap", n, SwapRow(log))
             c == Update("market", log.market, [price |-> log.price])
             e1 == Upsert("market_hour_data", log)
             e2 == Upsert("market_day_data", log)
             e3 == Upsert("market_5min_data", log)
             f == Refresh(log)
             q == <<a, b, c, e1, e2, e3, f>>
  <2>1. WellFormed(a) /\ \A t, i : ~ Needs(a, t, i) /\ (Brings(a, t, i) <=> t = "user" /\ i = log.user)
    BY UserStatement
  <2>2. /\ WellFormed(b) /\ \A i : ~ Brings(b, "market", i) /\ ~ Brings(b, "market_nft", i)
        /\ \A t, i : Needs(b, t, i) => (t = "market" /\ i = log.market) \/ (t = "user" /\ i = log.user)
    BY EventStatements
  <2>3. \A s \in {c, f} : WellFormed(s) /\ \A t, i : ~ Needs(s, t, i) /\ ~ Brings(s, t, i)
    BY ChangeStatements
  <2>4. \A s \in {e1, e2, e3} :
          /\ WellFormed(s) /\ \A t, i : ~ Brings(s, t, i)
          /\ \A t, i : Needs(s, t, i) => t = "market" /\ i = log.market
    <3>1. {"market_5min_data", "market_hour_data", "market_day_data"} = Series
      BY DEF Series
    <3>2. QED
      BY <3>1, ChangeStatements
  <2>5. handleSwap(log, n) = q
    BY <1>2 DEF handleSwap
  <2>6. Has(db, "market", log.market)
    BY <1>2 DEF Has
  <2> HIDE DEF a, b, c, e1, e2, e3, f
  <2>7. /\ q \in Seq({a, b, c, e1, e2, e3, f}) /\ Len(q) = 7 /\ q[1] = a /\ q[2] = b
        /\ q[3] = c /\ q[4] = e1 /\ q[5] = e2 /\ q[6] = e3 /\ q[7] = f
    OBVIOUS
  <2> HIDE DEF q
  <2>8. \A i \in 1 .. 7 :
          /\ WellFormed(q[i])
          /\ \A table, id : Needs(q[i], table, id) =>
               Has(db, table, id) \/ \E j \in 1 .. i - 1 : Brings(q[j], table, id)
          /\ \A m : ~ Brings(q[i], "market", m) /\ ~ Brings(q[i], "market_nft", m)
    BY <2>1, <2>2, <2>3, <2>4, <2>6, <2>7
  <2>9. QED
    BY <2>5, <2>7, <2>8 DEF InOrder, NoMarket
<1>3. QED
  BY <1>1, <1>2

LEMMA FeeClaimedInOrder ==
  ASSUME NEW log, NEW n
  PROVE  LET q == handleFeeClaimed(log, n) IN InOrder(db, q) /\ NoMarket(q)
<1>1. CASE log.market \notin DOMAIN db["market_nft"]
  <2>1. handleFeeClaimed(log, n) = <<>>
    BY <1>1 DEF handleFeeClaimed
  <2>2. QED
    BY <2>1, NothingInOrder
<1>2. CASE log.market \in DOMAIN db["market_nft"]
  <2> DEFINE a == getOrCreateUser(log.user)
             b == Insert("fee_claim", n, FeeClaimRow(log))
             q == <<a, b>>
  <2>1. WellFormed(a) /\ \A t, i : ~ Needs(a, t, i) /\ (Brings(a, t, i) <=> t = "user" /\ i = log.user)
    BY UserStatement
  <2>2. /\ WellFormed(b) /\ \A i : ~ Brings(b, "market", i) /\ ~ Brings(b, "market_nft", i)
        /\ \A t, i : Needs(b, t, i) =>
             (t = "market_nft" /\ i = log.market) \/ (t = "user" /\ i = log.user)
    BY EventStatements
  <2>3. handleFeeClaimed(log, n) = q
    BY <1>2 DEF handleFeeClaimed
  <2>4. Has(db, "market_nft", log.market)
    BY <1>2 DEF Has
  <2> HIDE DEF a, b
  <2>5. q \in Seq({a, b}) /\ Len(q) = 2 /\ q[1] = a /\ q[2] = b
    OBVIOUS
  <2> HIDE DEF q
  <2>6. \A i \in 1 .. 2 :
          /\ WellFormed(q[i])
          /\ \A table, id : Needs(q[i], table, id) =>
               Has(db, table, id) \/ \E j \in 1 .. i - 1 : Brings(q[j], table, id)
          /\ \A m : ~ Brings(q[i], "market", m) /\ ~ Brings(q[i], "market_nft", m)
    BY <2>1, <2>2, <2>4, <2>5
  <2>7. QED
    BY <2>3, <2>5, <2>6 DEF InOrder, NoMarket
<1>3. QED
  BY <1>1, <1>2

LEMMA FeeStrategyUpdatedInOrder ==
  ASSUME NEW log, NEW n
  PROVE  LET q == handleFeeStrategyUpdated(log, n) IN InOrder(db, q) /\ NoMarket(q)
<1>1. CASE log.market \notin DOMAIN db["market_nft"]
  <2>1. handleFeeStrategyUpdated(log, n) = <<>>
    BY <1>1 DEF handleFeeStrategyUpdated
  <2>2. QED
    BY <2>1, NothingInOrder
<1>2. CASE log.market \in DOMAIN db["market_nft"]
  <2> DEFINE a == Insert("fee_strategy_change", n, FeeStrategyChangeRow(log))
             q == <<a>>
  <2>1. /\ WellFormed(a) /\ \A i : ~ Brings(a, "market", i) /\ ~ Brings(a, "market_nft", i)
        /\ \A t, i : Needs(a, t, i) => t = "market_nft" /\ i = log.market
    BY EventStatements
  <2>2. handleFeeStrategyUpdated(log, n) = q
    BY <1>2 DEF handleFeeStrategyUpdated
  <2>3. Has(db, "market_nft", log.market)
    BY <1>2 DEF Has
  <2> HIDE DEF a
  <2>4. q \in Seq({a}) /\ Len(q) = 1 /\ q[1] = a
    OBVIOUS
  <2> HIDE DEF q
  <2>5. QED
    BY <2>1, <2>2, <2>3, <2>4 DEF InOrder, NoMarket
<1>3. QED
  BY <1>1, <1>2

LEMMA NFTTransferInOrder ==
  ASSUME NEW log, NEW n
  PROVE  LET q == handleNFTTransfer(log, n) IN InOrder(db, q) /\ NoMarket(q)
<1>1. CASE log.market \notin DOMAIN db["market_nft"]
  <2>1. handleNFTTransfer(log, n) = <<>>
    BY <1>1 DEF handleNFTTransfer
  <2>2. QED
    BY <2>1, NothingInOrder
<1>2. CASE log.market \in DOMAIN db["market_nft"]
  <2> DEFINE a1 == getOrCreateUser(log.from)
             a2 == getOrCreateUser(log.user)
             b == Insert("nft_transfer", n, NFTTransferRow(log))
             c == Update("market_nft", log.market, [owner |-> log.user])
             q == <<a1, a2, b, c>>
  <2>1. /\ WellFormed(a1) /\ WellFormed(a2) /\ \A t, i : ~ Needs(a1, t, i) /\ ~ Needs(a2, t, i)
        /\ \A t, i : Brings(a1, t, i) <=> t = "user" /\ i = log.from
        /\ \A t, i : Brings(a2, t, i) <=> t = "user" /\ i = log.user
    BY UserStatement
  <2>2. /\ WellFormed(b) /\ \A i : ~ Brings(b, "market", i) /\ ~ Brings(b, "market_nft", i)
        /\ \A t, i : Needs(b, t, i) =>
             (t = "market_nft" /\ i = log.market) \/ (t = "user" /\ i \in {log.user, log.from})
    BY EventStatements
  <2>3. WellFormed(c) /\ \A t, i : ~ Brings(c, t, i) /\ (Needs(c, t, i) => t = "user" /\ i = log.user)
    BY ChangeStatements
  <2>4. handleNFTTransfer(log, n) = q
    BY <1>2 DEF handleNFTTransfer
  <2>5. Has(db, "market_nft", log.market)
    BY <1>2 DEF Has
  <2> HIDE DEF a1, a2, b, c
  <2>6. /\ q \in Seq({a1, a2, b, c}) /\ Len(q) = 4
        /\ q[1] = a1 /\ q[2] = a2 /\ q[3] = b /\ q[4] = c
    OBVIOUS
  <2> HIDE DEF q
  <2>7. \A i \in 1 .. 4 :
          /\ WellFormed(q[i])
          /\ \A table, id : Needs(q[i], table, id) =>
               Has(db, table, id) \/ \E j \in 1 .. i - 1 : Brings(q[j], table, id)
          /\ \A m : ~ Brings(q[i], "market", m) /\ ~ Brings(q[i], "market_nft", m)
    BY <2>1, <2>2, <2>3, <2>5, <2>6
  <2>8. QED
    BY <2>4, <2>6, <2>7 DEF InOrder, NoMarket
<1>3. QED
  BY <1>1, <1>2

LEMMA TransfersInOrder ==
  ASSUME NEW log, NEW n
  PROVE  /\ LET q == handleUSIDTransfer(log, n) IN InOrder(db, q) /\ NoMarket(q)
         /\ LET q == handleTokenTransfer(log, n) IN InOrder(db, q) /\ NoMarket(q)
<1> DEFINE a1 == getOrCreateUser(log.from)
           a2 == getOrCreateUser(log.user)
           b(token) == Insert("user_token_balance", <<log.user, token>>,
                                  BalanceRow(log.user, token))
           c == Insert("token", USID, TokenRow)
           e == CountHolders(log.market)
<1>1. /\ WellFormed(a1) /\ WellFormed(a2) /\ \A t, i : ~ Needs(a1, t, i) /\ ~ Needs(a2, t, i)
      /\ \A t, i : Brings(a1, t, i) <=> t = "user" /\ i = log.from
      /\ \A t, i : Brings(a2, t, i) <=> t = "user" /\ i = log.user
  BY UserStatement
<1>2. \A token :
        /\ WellFormed(b(token))
        /\ \A i : ~ Brings(b(token), "market", i) /\ ~ Brings(b(token), "market_nft", i)
        /\ \A t, i : Needs(b(token), t, i) =>
             (t = "user" /\ i = log.user) \/ (t = "token" /\ i = token)
  BY BalanceStatement
<1>3. WellFormed(c) /\ \A t, i : ~ Needs(c, t, i) /\ (Brings(c, t, i) <=> t = "token" /\ i = USID)
  BY TokenStatement
<1>4. WellFormed(e) /\ \A t, i : ~ Needs(e, t, i) /\ ~ Brings(e, t, i)
  BY ChangeStatements
<1>5. LET q == handleUSIDTransfer(log, n) IN InOrder(db, q) /\ NoMarket(q)
  <2> DEFINE bb == b(USID)
             p == <<c>>
             r == <<a1, a2, bb>>
             q == p \o r
  <2>1. handleUSIDTransfer(log, n) = q
    BY DEF handleUSIDTransfer, Receive
  <2>2. /\ WellFormed(bb) /\ \A i : ~ Brings(bb, "market", i) /\ ~ Brings(bb, "market_nft", i)
        /\ \A t, i : Needs(bb, t, i) => (t = "user" /\ i = log.user) \/ (t = "token" /\ i = USID)
    BY <1>2
  <2> HIDE DEF a1, a2, bb, c
  <2>3. /\ p \in Seq({c, a1, a2, bb}) /\ Len(p) = 1 /\ p[1] = c
        /\ r \in Seq({c, a1, a2, bb}) /\ Len(r) = 3 /\ r[1] = a1 /\ r[2] = a2 /\ r[3] = bb
    OBVIOUS
  <2> HIDE DEF p, r
  <2>4. /\ q \in Seq({c, a1, a2, bb}) /\ Len(q) = 4
        /\ q[1] = c /\ q[2] = a1 /\ q[3] = a2 /\ q[4] = bb
    <3>1. /\ q \in Seq({c, a1, a2, bb}) /\ Len(q) = Len(p) + Len(r)
          /\ \A i \in 1 .. Len(p) + Len(r) : q[i] = IF i <= Len(p) THEN p[i] ELSE r[i - Len(p)]
      <4> DEFINE S == {c, a1, a2, bb}
      <4>1. p \in Seq(S) /\ r \in Seq(S)
        BY <2>3
      <4> HIDE DEF S
      <4>2. /\ q \in Seq(S) /\ Len(q) = Len(p) + Len(r)
            /\ \A i \in 1 .. Len(p) + Len(r) : q[i] = IF i <= Len(p) THEN p[i] ELSE r[i - Len(p)]
        BY <4>1, ConcatProperties
      <4>3. QED
        BY <4>2 DEF S
    <3> HIDE DEF q
    <3>2. QED
      BY <2>3, <3>1
  <2> HIDE DEF q
  <2>5. \A i \in 1 .. 4 :
          /\ WellFormed(q[i])
          /\ \A table, id : Needs(q[i], table, id) =>
               Has(db, table, id) \/ \E j \in 1 .. i - 1 : Brings(q[j], table, id)
          /\ \A m : ~ Brings(q[i], "market", m) /\ ~ Brings(q[i], "market_nft", m)
    BY <1>1, <1>3, <2>2, <2>4
  <2>6. QED
    BY <2>1, <2>4, <2>5 DEF InOrder, NoMarket
<1>6. LET q == handleTokenTransfer(log, n) IN InOrder(db, q) /\ NoMarket(q)
  <2>1. CASE log.market \notin DOMAIN db["token"]
    <3>1. handleTokenTransfer(log, n) = <<>>
      BY <2>1 DEF handleTokenTransfer
    <3>2. QED
      BY <3>1, NothingInOrder
  <2>2. CASE log.market \in DOMAIN db["token"]
    <3> DEFINE bb == b(log.market)
               p == <<a1, a2, bb>>
               r == <<e>>
               q == p \o r
    <3>1. handleTokenTransfer(log, n) = q
      BY <2>2 DEF handleTokenTransfer, Receive
    <3>2. /\ WellFormed(bb) /\ \A i : ~ Brings(bb, "market", i) /\ ~ Brings(bb, "market_nft", i)
          /\ \A t, i : Needs(bb, t, i) =>
               (t = "user" /\ i = log.user) \/ (t = "token" /\ i = log.market)
      BY <1>2
    <3>3. Has(db, "token", log.market)
      BY <2>2 DEF Has
    <3> HIDE DEF a1, a2, bb, e
    <3>4. /\ p \in Seq({a1, a2, bb, e}) /\ Len(p) = 3 /\ p[1] = a1 /\ p[2] = a2 /\ p[3] = bb
          /\ r \in Seq({a1, a2, bb, e}) /\ Len(r) = 1 /\ r[1] = e
      OBVIOUS
    <3> HIDE DEF p, r
    <3>5. /\ q \in Seq({a1, a2, bb, e}) /\ Len(q) = 4
          /\ q[1] = a1 /\ q[2] = a2 /\ q[3] = bb /\ q[4] = e
      <4>1. /\ q \in Seq({a1, a2, bb, e}) /\ Len(q) = Len(p) + Len(r)
            /\ \A i \in 1 .. Len(p) + Len(r) : q[i] = IF i <= Len(p) THEN p[i] ELSE r[i - Len(p)]
        <5> DEFINE S == {a1, a2, bb, e}
        <5>1. p \in Seq(S) /\ r \in Seq(S)
          BY <3>4
        <5> HIDE DEF S
        <5>2. /\ q \in Seq(S) /\ Len(q) = Len(p) + Len(r)
              /\ \A i \in 1 .. Len(p) + Len(r) : q[i] = IF i <= Len(p) THEN p[i] ELSE r[i - Len(p)]
          BY <5>1, ConcatProperties
        <5>3. QED
          BY <5>2 DEF S
      <4> HIDE DEF q
      <4>2. QED
        BY <3>4, <4>1
    <3> HIDE DEF q
    <3>6. \A i \in 1 .. 4 :
            /\ WellFormed(q[i])
            /\ \A table, id : Needs(q[i], table, id) =>
                 Has(db, table, id) \/ \E j \in 1 .. i - 1 : Brings(q[j], table, id)
            /\ \A m : ~ Brings(q[i], "market", m) /\ ~ Brings(q[i], "market_nft", m)
      BY <1>1, <1>4, <3>2, <3>3, <3>5
    <3>7. QED
      BY <3>1, <3>5, <3>6 DEF InOrder, NoMarket
  <2>3. QED
    BY <2>1, <2>2
<1>7. QED
  BY <1>5, <1>6

-----------------------------------------------------------------------------
(* The logs: that of the factory follows the emitter's of the same market. *)
Kinds ==
  {"MarketCreated", "FactoryMarketCreated", "Swap", "FeeClaimed", "FeeStrategyUpdated",
   "NFTTransfer", "USIDTransfer", "TokenTransfer"}

Creates(log, m) == log.kind = "MarketCreated" /\ log.market = m

LogsOK(ls) ==
  /\ \E S : ls \in Seq(S)
  /\ \A i \in 1 .. Len(ls) :
       /\ ls[i].kind \in Kinds
       /\ ls[i].kind = "FactoryMarketCreated" =>
            \E j \in 1 .. i - 1 : Creates(ls[j], ls[i].market)

(* The handler at hand is that of the last log taken, and what it has      *)
(* still to run is in order.                                               *)
HandlerInv ==
  /\ next \in 1 .. Len(logs) + 1 /\ checkpoint \in 0 .. next - 1 /\ failures \in Nat
  /\ todo # <<>> => checkpoint < next - 1
  /\ InOrder(db, todo)

(* A market without its position: the position is about to be inserted, or *)
(* the market's creation is taken again, or a handler failed.              *)
Awaits(m) ==
  \/ failures > 0
  \/ \E i \in next .. Len(logs) : Creates(logs[i], m)
  \/ \E j \in 1 .. Len(todo) : Brings(todo[j], "market_nft", m)

PositionsInv ==
  /\ \A m \in DOMAIN db["market"] : Has(db, "market_nft", m) \/ Awaits(m)
  /\ failures = 0 =>
       /\ \A i \in 1 .. next - 1 : \A m : Creates(logs[i], m) =>
            \/ Has(db, "market", m)
            \/ i = next - 1 /\ \E j \in 1 .. Len(todo) : Brings(todo[j], "market", m)
       /\ \A j \in 1 .. Len(todo) : \A m :
            Brings(todo[j], "market_nft", m) => Creates(logs[next - 1], m)

TablesInv == RowsOK(db) /\ LogsOK(logs) /\ HandlerInv /\ PositionsInv

LEMMA AppendedLogs ==
  ASSUME NEW ls, LogsOK(ls), NEW log, log.kind \in Kinds,
         log.kind = "FactoryMarketCreated" =>
           \E j \in 1 .. Len(ls) : Creates(ls[j], log.market)
  PROVE  /\ LogsOK(Append(ls, log)) /\ Len(Append(ls, log)) = Len(ls) + 1 /\ Len(ls) \in Nat
         /\ \A i \in 1 .. Len(ls) : Append(ls, log)[i] = ls[i]
         /\ Append(ls, log)[Len(ls) + 1] = log
<1>1. PICK S : ls \in Seq(S)
  BY DEF LogsOK
<1> DEFINE T == S \union {log}
           new == Append(ls, log)
<1>2. ls \in Seq(T) /\ log \in T
  BY <1>1
<1> HIDE DEF T
<1>3. /\ new \in Seq(T) /\ Len(new) = Len(ls) + 1 /\ Len(ls) \in Nat
      /\ \A i \in 1 .. Len(ls) : new[i] = ls[i]
      /\ new[Len(ls) + 1] = log
  BY <1>2
<1> HIDE DEF new
<1>4. ASSUME NEW i \in 1 .. Len(new)
      PROVE  /\ new[i].kind \in Kinds
             /\ new[i].kind = "FactoryMarketCreated" =>
                  \E j \in 1 .. i - 1 : Creates(new[j], new[i].market)
  <2>1. CASE i \in 1 .. Len(ls)
    <3>1. \A j \in 1 .. i : new[j] = ls[j]
      BY <1>3, <2>1
    <3>2. QED
      BY <1>3, <2>1, <3>1 DEF LogsOK
  <2>2. CASE i = Len(ls) + 1
    BY <1>3, <2>2
  <2>3. QED
    BY <1>3, <2>1, <2>2
<1>5. QED
  BY <1>3, <1>4 DEF LogsOK, new

LEMMA TwoAppended ==
  ASSUME NEW S, NEW q \in Seq(S), NEW a, NEW b
  PROVE  q \o <<a, b>> = Append(Append(q, a), b)
<1> DEFINE T == S \union {a, b}
           pair == <<a, b>>
           one == Append(q, a)
           two == Append(one, b)
<1>1. q \in Seq(T) /\ a \in T /\ b \in T /\ Len(q) \in Nat
  OBVIOUS
<1>2. pair \in Seq(T) /\ Len(pair) = 2 /\ pair[1] = a /\ pair[2] = b
  OBVIOUS
<1> HIDE DEF T, pair
<1>3. /\ one \in Seq(T) /\ Len(one) = Len(q) + 1 /\ one[Len(q) + 1] = a
      /\ \A i \in 1 .. Len(q) : one[i] = q[i]
  BY <1>1
<1> HIDE DEF one
<1>4. /\ two \in Seq(T) /\ Len(two) = Len(one) + 1 /\ two[Len(one) + 1] = b
      /\ \A i \in 1 .. Len(one) : two[i] = one[i]
  BY <1>1, <1>3
<1>5. /\ q \o pair \in Seq(T) /\ Len(q \o pair) = Len(q) + Len(pair)
      /\ \A i \in 1 .. Len(q) + Len(pair) :
           (q \o pair)[i] = IF i <= Len(q) THEN q[i] ELSE pair[i - Len(q)]
  BY <1>1, <1>2, ConcatProperties
<1> DEFINE r == q \o pair
<1> HIDE DEF two, r
<1>6. Len(r) = Len(two) /\ \A i \in 1 .. Len(r) : r[i] = two[i]
  BY <1>1, <1>2, <1>3, <1>4, <1>5 DEF r
<1>7. r = two
  BY <1>4, <1>5, <1>6, SeqEqual DEF r
<1>8. QED
  BY <1>7 DEF r, two, one, pair

(* New logs come after those there are.                                    *)
LEMMA LongerLogs ==
  ASSUME TablesInv, LogsOK(logs'), Len(logs') \in Nat, Len(logs') >= Len(logs),
         \A i \in 1 .. Len(logs) : logs'[i] = logs[i],
         UNCHANGED <<db, next, checkpoint, todo, failures>>
  PROVE  TablesInv'
<1>0. Len(logs) \in Nat
  BY DEF TablesInv, LogsOK
<1>1. HandlerInv'
  BY <1>0 DEF TablesInv, HandlerInv
<1>2. \A i \in next .. Len(logs) : logs'[i] = logs[i] /\ i \in next .. Len(logs')
  BY <1>0 DEF TablesInv, HandlerInv
<1>3. next - 1 \in 0 .. Len(logs) /\ \A i \in 1 .. next - 1 : logs'[i] = logs[i]
  BY <1>0 DEF TablesInv, HandlerInv
<1>4. \A m : Awaits(m) => Awaits(m)'
  BY <1>2 DEF Awaits
<1>5. \A m \in DOMAIN db["market"] : Has(db, "market_nft", m) \/ Awaits(m)'
  BY <1>4 DEF TablesInv, PositionsInv
<1>6. ASSUME failures = 0, NEW j \in 1 .. Len(todo), NEW m, Brings(todo[j], "market_nft", m)
      PROVE  Creates(logs'[next - 1], m)
  <2>1. todo # <<>>
    <3>1. todo = <<>> => 1 .. Len(todo) = {}
      OBVIOUS
    <3>2. QED
      BY <1>6, <3>1
  <2>2. next - 1 \in 1 .. next - 1
    BY <1>3, <2>1 DEF TablesInv, HandlerInv
  <2>3. QED
    BY <1>3, <1>6, <2>2 DEF TablesInv, PositionsInv
<1>7. PositionsInv'
  BY <1>3, <1>5, <1>6 DEF TablesInv, PositionsInv
<1>8. QED
  BY <1>1, <1>7 DEF TablesInv

LEMMA EmitKeepsTables ==
  ASSUME TablesInv, Emit
  PROVE  TablesInv'
<1>1. UNCHANGED <<db, next, checkpoint, todo, failures>>
  BY DEF Emit
<1>2. PICK user :
        \/ \E m : logs' = logs \o Creation(m, user, LastTime)
        \/ \E log : logs' = Append(logs, log) /\ log.kind \in Kinds \ {"FactoryMarketCreated"}
  <2>1. PICK user \in Users :
       \/ \E m \in Markets \ Created : logs' = logs \o Creation(m, user, LastTime)
       \/ \E from \in Users \ {user} :
            logs' = Append(logs, Log("USIDTransfer", USID, from, user, LastTime, 0))
       \/ \E m \in Created :
            \/ \E price \in Prices, time \in LastTime .. MaxTime :
                 logs' = Append(logs, Log("Swap", m, user, user, time, price))
            \/ \E kind \in {"FeeClaimed", "NFTTransfer"} :
                 logs' = Append(logs, Log(kind, m, Owner(m), user, LastTime, 0))
            \/ logs' = Append(logs, Log("FeeStrategyUpdated", m, Owner(m), Owner(m), LastTime, 0))
            \/ logs' = Append(logs, Log("TokenTransfer", m, m, user, LastTime, 0))
    BY DEF Emit
  <2>2. \A kind, m, from, to, time, price : Log(kind, m, from, to, time, price).kind = kind
    BY DEF Log
  <2>3. \A kind, m, from, to, time, price :
          /\ kind \in Kinds \ {"FactoryMarketCreated"}
          /\ logs' = Append(logs, Log(kind, m, from, to, time, price))
          => \E log : logs' = Append(logs, log) /\ log.kind \in Kinds \ {"FactoryMarketCreated"}
    BY <2>2
  <2>4. {"USIDTransfer", "Swap", "FeeClaimed", "NFTTransfer", "FeeStrategyUpdated", "TokenTransfer"} =
          Kinds \ {"FactoryMarketCreated", "MarketCreated"}
    BY DEF Kinds
  <2>5. QED
    BY <2>1, <2>3, <2>4
<1>3. LogsOK(logs)
  BY DEF TablesInv
<1>4. CASE \E log : logs' = Append(logs, log) /\ log.kind \in Kinds \ {"FactoryMarketCreated"}
  BY <1>1, <1>3, <1>4, AppendedLogs, LongerLogs
<1>5. ASSUME NEW m, logs' = logs \o Creation(m, user, LastTime)
      PROVE  TablesInv'
  <2> DEFINE a == Log("MarketCreated", m, user, user, LastTime, InitialPrice)
             b == Log("FactoryMarketCreated", m, user, user, LastTime, InitialPrice)
             one == Append(logs, a)
             two == Append(one, b)
  <2>1. /\ a.kind = "MarketCreated" /\ b.kind = "FactoryMarketCreated"
        /\ a.market = m /\ b.market = m
    BY DEF Log
  <2>2. Creation(m, user, LastTime) = <<a, b>>
    BY DEF Creation
  <2> HIDE DEF a, b
  <2>3. logs \o <<a, b>> = two
    BY <1>3, TwoAppended DEF LogsOK
  <2>4. /\ LogsOK(one) /\ Len(one) = Len(logs) + 1 /\ Len(logs) \in Nat
        /\ \A i \in 1 .. Len(logs) : one[i] = logs[i]
        /\ one[Len(logs) + 1] = a
    BY <1>3, <2>1, AppendedLogs DEF Kinds
  <2> HIDE DEF one
  <2>5. \E j \in 1 .. Len(one) : Creates(one[j], b.market)
    BY <2>1, <2>4 DEF Creates
  <2>6. /\ LogsOK(two) /\ Len(two) = Len(one) + 1
        /\ \A i \in 1 .. Len(one) : two[i] = one[i]
    BY <2>1, <2>4, <2>5, AppendedLogs DEF Kinds
  <2> HIDE DEF two
  <2>7. QED
    <3>1. logs' = two
      BY <1>5, <2>2, <2>3
    <3>2. /\ LogsOK(logs') /\ Len(logs') = Len(logs) + 2
          /\ \A i \in 1 .. Len(logs) : logs'[i] = logs[i]
      BY <2>4, <2>6, <3>1
    <3>3. Len(logs') \in Nat /\ Len(logs') >= Len(logs)
      BY <2>4, <3>2
    <3>4. QED
      BY <1>1, <3>2, <3>3, LongerLogs
<1>6. QED
  BY <1>2, <1>4, <1>5

(* The handler of the next log is as its kind says.                        *)
LEMMA HandlersInOrder ==
  ASSUME NEW log, log.kind \in Kinds, NEW n
  PROVE  LET q == processLog(log, n)
         IN /\ InOrder(db, q)
            /\ \/ NoMarket(q) /\ log.kind # "MarketCreated"
               \/ /\ \E i \in 1 .. Len(q) : Brings(q[i], "market", log.market)
                  /\ \E i \in 1 .. Len(q) : Brings(q[i], "market_nft", log.market)
                  /\ \A i \in 1 .. Len(q) : \A m : Brings(q[i], "market_nft", m) => m = log.market
                  /\ \/ log.kind = "MarketCreated"
                     \/ log.kind = "FactoryMarketCreated" /\ ~ Has(db, "market", log.market)
<1>1. CASE log.kind = "MarketCreated"
  <2>1. processLog(log, n) = handleMarketCreated(log, n)
    BY <1>1 DEF processLog
  <2>2. QED
    BY <1>1, <2>1, MarketCreatedInOrder
<1>2. CASE log.kind = "FactoryMarketCreated"
  <2>1. processLog(log, n) = handleFactoryMarketCreated(log, n)
    BY <1>2 DEF processLog
  <2>2. CASE log.market \in DOMAIN db["market"]
    <3>1. handleFactoryMarketCreated(log, n) = <<>>
      BY <2>2 DEF handleFactoryMarketCreated
    <3>2. QED
      BY <1>2, <2>1, <3>1, NothingInOrder
  <2>3. CASE log.market \notin DOMAIN db["market"]
    <3>1. handleFactoryMarketCreated(log, n) = handleMarketCreated(log, n)
      BY <2>3 DEF handleFactoryMarketCreated
    <3>2. QED
      BY <1>2, <2>1, <2>3, <3>1, MarketCreatedInOrder DEF Has
  <2>4. QED
    BY <2>2, <2>3
<1>3. CASE log.kind = "Swap"
  <2>1. processLog(log, n) = handleSwap(log, n)
    BY <1>3 DEF processLog
  <2>2. QED
    BY <1>3, <2>1, SwapInOrder
<1>4. CASE log.kind = "FeeClaimed"
  <2>1. processLog(log, n) = handleFeeClaimed(log, n)
    BY <1>4 DEF processLog
  <2>2. QED
    BY <1>4, <2>1, FeeClaimedInOrder
<1>5. CASE log.kind = "FeeStrategyUpdated"
  <2>1. processLog(log, n) = handleFeeStrategyUpdated(log, n)
    BY <1>5 DEF processLog
  <2>2. QED
    BY <1>5, <2>1, FeeStrategyUpdatedInOrder
<1>6. CASE log.kind = "NFTTransfer"
  <2>1. processLog(log, n) = handleNFTTransfer(log, n)
    BY <1>6 DEF processLog
  <2>2. QED
    BY <1>6, <2>1, NFTTransferInOrder
<1>7. CASE log.kind = "USIDTransfer"
  <2>1. processLog(log, n) = handleUSIDTransfer(log, n)
    BY <1>7 DEF processLog
  <2>2. QED
    BY <1>7, <2>1, TransfersInOrder
<1>8. CASE log.kind = "TokenTransfer"
  <2>1. processLog(log, n) = handleTokenTransfer(log, n)
    BY <1>8 DEF processLog
  <2>2. QED
    BY <1>8, <2>1, TransfersInOrder
<1>9. QED
  BY <1>1, <1>2, <1>3, <1>4, <1>5, <1>6, <1>7, <1>8 DEF Kinds

LEMMA TakeLogKeepsTables ==
  ASSUME TablesInv, TakeLog
  PROVE  TablesInv'
<1> DEFINE log == logs[next]
<1>1. /\ next <= Len(logs) /\ todo = <<>> /\ todo' = processLog(log, next)
      /\ next' = next + 1 /\ UNCHANGED <<db, logs, checkpoint, failures>>
  BY DEF TakeLog
<1>2. /\ Len(logs) \in Nat /\ next \in 1 .. Len(logs) /\ log.kind \in Kinds
      /\ checkpoint \in 0 .. next - 1 /\ failures \in Nat
  BY <1>1 DEF TablesInv, LogsOK, HandlerInv
<1>3. /\ InOrder(db, todo')
      /\ \/ NoMarket(todo') /\ log.kind # "MarketCreated"
         \/ /\ \E i \in 1 .. Len(todo') : Brings(todo'[i], "market", log.market)
            /\ \E i \in 1 .. Len(todo') : Brings(todo'[i], "market_nft", log.market)
            /\ \A i \in 1 .. Len(todo') : \A m : Brings(todo'[i], "market_nft", m) => m = log.market
            /\ \/ log.kind = "MarketCreated"
               \/ log.kind = "FactoryMarketCreated" /\ ~ Has(db, "market", log.market)
  BY <1>1, <1>2, HandlersInOrder
<1>4. HandlerInv'
  BY <1>1, <1>2, <1>3 DEF HandlerInv
<1>5. 1 .. Len(todo) = {}
  BY <1>1
<1>6. failures = 0 => \A i \in 1 .. next - 1 : \A m : Creates(logs[i], m) => Has(db, "market", m)
  BY <1>5 DEF TablesInv, PositionsInv
(* Without failures the market of a factory's log is there. *)
<1>7. failures = 0 /\ log.kind = "FactoryMarketCreated" => Has(db, "market", log.market)
  BY <1>2, <1>6 DEF TablesInv, LogsOK
<1>8. ASSUME NEW m \in DOMAIN db["market"]
      PROVE  Has(db, "market_nft", m) \/ Awaits(m)'
  <2>1. CASE failures > 0
    BY <1>1, <2>1 DEF Awaits
  <2>2. ASSUME NEW i \in next .. Len(logs), Creates(logs[i], m)
        PROVE  Awaits(m)'
    <3>1. CASE i = next
      BY <1>1, <1>3, <2>2, <3>1 DEF Awaits, Creates
    <3>2. CASE i # next
      BY <1>1, <1>2, <2>2, <3>2 DEF Awaits
    <3>3. QED
      BY <3>1, <3>2
  <2>3. QED
    BY <1>5, <2>1, <2>2 DEF TablesInv, PositionsInv, Awaits
<1>9. ASSUME failures = 0
      PROVE  /\ \A i \in 1 .. next : \A m : Creates(logs[i], m) =>
                  \/ Has(db, "market", m)
                  \/ i = next /\ \E j \in 1 .. Len(todo') : Brings(todo'[j], "market", m)
             /\ \A j \in 1 .. Len(todo') : \A m :
                  Brings(todo'[j], "market_nft", m) => Creates(log, m)
  <2>1. ASSUME NEW i \in 1 .. next, NEW m, Creates(logs[i], m)
        PROVE  \/ Has(db, "market", m)
               \/ i = next /\ \E j \in 1 .. Len(todo') : Brings(todo'[j], "market", m)
    BY <1>2, <1>3, <1>6, <1>9, <2>1 DEF Creates
  <2>2. \A j \in 1 .. Len(todo') : \A m : Brings(todo'[j], "market_nft", m) => Creates(log, m)
    BY <1>3, <1>7, <1>9 DEF NoMarket, Creates
  <2>3. QED
    BY <2>1, <2>2
<1>10. next' - 1 = next
  BY <1>1, <1>2
<1>11. PositionsInv'
  BY <1>1, <1>8, <1>9, <1>10 DEF PositionsInv
<1>12. QED
  BY <1>1, <1>4, <1>11 DEF TablesInv

LEMMA NeededTables ==
  ASSUME NEW s, WellFormed(s), NEW table, NEW id, Needs(s, table, id)
  PROVE  table \in Tables
<1>1. {"market", "user"} \subseteq Tables
  BY DEF Tables
<1>2. CASE s.op = "insert"
  BY <1>2, RelationFacts DEF WellFormed, Needs
<1>3. CASE s.op # "insert"
  BY <1>1, <1>3 DEF Needs
<1>4. QED
  BY <1>2, <1>3

LEMMA StatementKeepsTables ==
  ASSUME TablesInv, Statement
  PROVE  TablesInv'
<1> DEFINE s == Head(todo)
           rest == Tail(todo)
<1>1. /\ todo # <<>> /\ db' = After(db, s) /\ todo' = rest
      /\ UNCHANGED <<logs, next, checkpoint, failures>>
  BY DEF Statement
<1>2. PICK S : todo \in Seq(S)
  BY DEF TablesInv, HandlerInv, InOrder
<1>3. /\ Len(todo) \in Nat \ {0} /\ s = todo[1] /\ rest \in Seq(S)
      /\ Len(rest) = Len(todo) - 1
      /\ \A i \in 1 .. Len(todo) - 1 : rest[i] = todo[i + 1]
  BY <1>1, <1>2
<1> HIDE DEF s, rest
<1>4. \A i \in 1 .. Len(todo) :
        /\ WellFormed(todo[i])
        /\ \A table, id : Needs(todo[i], table, id) =>
             Has(db, table, id) \/ \E j \in 1 .. i - 1 : Brings(todo[j], table, id)
        /\ \A m : Brings(todo[i], "market", m) =>
             \E j \in i + 1 .. Len(todo) : Brings(todo[j], "market_nft", m)
  BY DEF TablesInv, HandlerInv, InOrder
<1>5. WellFormed(s) /\ \A table, id : Needs(s, table, id) => Has(db, table, id)
  BY <1>3, <1>4
<1>6. /\ RowsOK(db')
      /\ \A table \in Tables : \A id :
           /\ Brings(s, table, id) \/ Has(db, table, id) => Has(db', table, id)
           /\ table \notin Series /\ Has(db', table, id) =>
                Brings(s, table, id) \/ Has(db, table, id)
  BY <1>1, <1>5, StatementKeepsRows DEF TablesInv
<1>7. \A i \in 1 .. Len(todo) : \A table, id : Needs(todo[i], table, id) => table \in Tables
  BY <1>4, NeededTables
<1>8. ASSUME NEW i \in 1 .. Len(rest)
      PROVE  /\ WellFormed(rest[i])
             /\ \A table, id : Needs(rest[i], table, id) =>
                  Has(db', table, id) \/ \E j \in 1 .. i - 1 : Brings(rest[j], table, id)
             /\ \A m : Brings(rest[i], "market", m) =>
                  \E j \in i + 1 .. Len(rest) : Brings(rest[j], "market_nft", m)
  <2>1. rest[i] = todo[i + 1] /\ i + 1 \in 1 .. Len(todo)
    BY <1>3
  <2>2. ASSUME NEW table, NEW id, Needs(rest[i], table, id)
        PROVE  Has(db', table, id) \/ \E j \in 1 .. i - 1 : Brings(rest[j], table, id)
    <3>1. table \in Tables
      BY <1>7, <2>1, <2>2
    <3>2. CASE Has(db, table, id)
      BY <1>6, <3>1, <3>2
    <3>3. ASSUME NEW j \in 1 .. i, Brings(todo[j], table, id)
          PROVE  Has(db', table, id) \/ \E k \in 1 .. i - 1 : Brings(rest[k], table, id)
      <4>1. CASE j = 1
        BY <1>3, <1>6, <3>1, <3>3, <4>1
      <4>2. CASE j # 1
        <5>1. j - 1 \in 1 .. i - 1 /\ rest[j - 1] = todo[j]
          BY <1>3, <4>2
        <5>2. QED
          BY <3>3, <5>1
      <4>3. QED
        BY <4>1, <4>2
    <3>4. (i + 1) - 1 = i
      BY <1>3
    <3>5. QED
      BY <1>4, <2>1, <2>2, <3>2, <3>3, <3>4
  <2>3. ASSUME NEW m, Brings(rest[i], "market", m)
        PROVE  \E j \in i + 1 .. Len(rest) : Brings(rest[j], "market_nft", m)
    <3>1. PICK j \in (i + 1) + 1 .. Len(todo) : Brings(todo[j], "market_nft", m)
      BY <1>4, <2>1, <2>3
    <3>2. j - 1 \in i + 1 .. Len(rest) /\ rest[j - 1] = todo[j]
      BY <1>3
    <3>3. QED
      BY <3>1, <3>2
  <2>4. QED
    BY <1>4, <2>1, <2>2, <2>3
<1>9. InOrder(db', rest)
  BY <1>3, <1>8 DEF InOrder
<1>10. HandlerInv'
  BY <1>1, <1>9 DEF TablesInv, HandlerInv
<1>11. {"market", "market_nft"} \subseteq Tables \ Series
  BY DEF Tables, Series
<1>12. \A j \in 1 .. Len(todo) : j = 1 \/ (j - 1 \in 1 .. Len(rest) /\ rest[j - 1] = todo[j])
  BY <1>3
<1>13. ASSUME NEW m, Has(db', "market", m)
       PROVE  Has(db', "market_nft", m) \/ Awaits(m)'
  <2>1. ASSUME NEW j \in 1 .. Len(todo), Brings(todo[j], "market_nft", m)
        PROVE  Has(db', "market_nft", m) \/ Awaits(m)'
    BY <1>1, <1>3, <1>6, <1>11, <1>12, <2>1 DEF Awaits
  <2>2. CASE Has(db, "market", m)
    <3>1. Has(db, "market_nft", m) => Has(db', "market_nft", m)
      BY <1>6, <1>11
    <3>2. Has(db, "market_nft", m) \/ Awaits(m)
      BY <2>2 DEF TablesInv, PositionsInv, Has
    <3>3. QED
      BY <1>1, <2>1, <3>1, <3>2 DEF Awaits
  <2>3. CASE Brings(s, "market", m)
    <3>1. PICK j \in 2 .. Len(todo) : Brings(todo[j], "market_nft", m)
      BY <1>3, <1>4, <2>3
    <3>2. QED
      BY <2>1, <3>1
  <2>4. QED
    BY <1>6, <1>11, <1>13, <2>2, <2>3
<1>14. ASSUME failures = 0
       PROVE  /\ \A i \in 1 .. next - 1 : \A m : Creates(logs[i], m) =>
                   \/ Has(db', "market", m)
                   \/ i = next - 1 /\ \E j \in 1 .. Len(rest) : Brings(rest[j], "market", m)
              /\ \A j \in 1 .. Len(rest) : \A m :
                   Brings(rest[j], "market_nft", m) => Creates(logs[next - 1], m)
  <2>1. ASSUME NEW i \in 1 .. next - 1, NEW m, Creates(logs[i], m)
        PROVE  \/ Has(db', "market", m)
               \/ i = next - 1 /\ \E j \in 1 .. Len(rest) : Brings(rest[j], "market", m)
    <3>1. \/ Has(db, "market", m)
          \/ i = next - 1 /\ \E j \in 1 .. Len(todo) : Brings(todo[j], "market", m)
      BY <1>14, <2>1 DEF TablesInv, PositionsInv
    <3>2. QED
      BY <1>3, <1>6, <1>11, <1>12, <3>1
  <2>2. \A j \in 1 .. Len(rest) : \A m :
          Brings(rest[j], "market_nft", m) => Creates(logs[next - 1], m)
    <3>1. \A j \in 1 .. Len(rest) : j + 1 \in 1 .. Len(todo) /\ rest[j] = todo[j + 1]
      BY <1>3
    <3>2. QED
      BY <1>14, <3>1 DEF TablesInv, PositionsInv
  <2>3. QED
    BY <2>1, <2>2
<1>15. PositionsInv'
  BY <1>1, <1>13, <1>14 DEF PositionsInv, Has, rest
<1>16. QED
  BY <1>1, <1>6, <1>10, <1>15 DEF TablesInv

LEMMA RestKeepsTables ==
  ASSUME TablesInv, Checkpoint \/ HandlerFails \/ Restart
  PROVE  TablesInv'
<1>0. Len(logs) \in Nat
  BY DEF TablesInv, LogsOK
<1>1. CASE Checkpoint
  <2>1. /\ todo = <<>> /\ checkpoint' = next - 1
        /\ UNCHANGED <<db, logs, next, todo, failures>>
    BY <1>1 DEF Checkpoint
  <2>2. HandlerInv'
    BY <1>0, <2>1 DEF TablesInv, HandlerInv
  <2>3. PositionsInv'
    BY <2>1 DEF TablesInv, PositionsInv, Awaits
  <2>4. QED
    BY <2>1, <2>2, <2>3 DEF TablesInv
<1>2. CASE HandlerFails
  <2>1. /\ todo' = <<>> /\ failures' = failures + 1
        /\ UNCHANGED <<db, logs, next, checkpoint>>
    BY <1>2 DEF HandlerFails
  <2>2. HandlerInv'
    BY <2>1, NothingInOrder DEF TablesInv, HandlerInv
  <2>3. failures' > 0
    BY <2>1 DEF TablesInv, HandlerInv
  <2>4. PositionsInv'
    BY <2>1, <2>3 DEF PositionsInv, Awaits
  <2>5. QED
    BY <2>1, <2>2, <2>4 DEF TablesInv
<1>3. CASE Restart
  <2>1. next' = checkpoint + 1 /\ todo' = <<>> /\ UNCHANGED <<db, logs, checkpoint, failures>>
    BY <1>3 DEF Restart
  <2>2. /\ checkpoint \in 0 .. next - 1 /\ next \in 1 .. Len(logs) + 1
        /\ next' \in 1 .. next /\ next' - 1 = checkpoint
    BY <1>0, <2>1 DEF TablesInv, HandlerInv
  <2>3. HandlerInv'
    BY <1>0, <2>1, <2>2, NothingInOrder DEF TablesInv, HandlerInv
  <2>4. todo = <<>> => 1 .. Len(todo) = {}
    OBVIOUS
  <2>5. \A j \in 1 .. Len(todo) : checkpoint < next - 1
    BY <2>4 DEF TablesInv, HandlerInv
  (* The creation at hand is taken again. *)
  <2>6. ASSUME NEW m \in DOMAIN db["market"]
        PROVE  Has(db, "market_nft", m) \/ Awaits(m)'
    <3>1. CASE failures > 0
      BY <2>1, <3>1 DEF Awaits
    <3>2. ASSUME NEW i \in next .. Len(logs), Creates(logs[i], m)
          PROVE  Awaits(m)'
      BY <1>0, <2>1, <2>2, <3>2 DEF Awaits
    <3>3. ASSUME failures = 0, NEW j \in 1 .. Len(todo), Brings(todo[j], "market_nft", m)
          PROVE  Awaits(m)'
      <4>1. Creates(logs[next - 1], m) /\ checkpoint < next - 1
        BY <2>5, <3>3 DEF TablesInv, PositionsInv
      <4>2. next - 1 \in next' .. Len(logs)
        BY <1>0, <2>1, <2>2, <4>1
      <4>3. QED
        BY <2>1, <4>1, <4>2 DEF Awaits
    <3>4. failures = 0 \/ failures > 0
      BY DEF TablesInv, HandlerInv
    <3>5. QED
      BY <3>1, <3>2, <3>3, <3>4 DEF TablesInv, PositionsInv, Awaits
  <2>7. ASSUME failures = 0, NEW i \in 1 .. checkpoint, NEW m, Creates(logs[i], m)
        PROVE  Has(db, "market", m)
    <3>1. i \in 1 .. next - 1
      BY <1>0, <2>2
    <3>2. \A j \in 1 .. Len(todo) : i # next - 1
      BY <1>0, <2>2, <2>5
    <3>3. QED
      BY <2>7, <3>1, <3>2 DEF TablesInv, PositionsInv
  <2>8. 1 .. Len(todo') = {}
    BY <2>1
  <2>9. PositionsInv'
    BY <2>1, <2>2, <2>6, <2>7, <2>8 DEF PositionsInv
  <2>10. QED
    BY <2>1, <2>3, <2>9 DEF TablesInv
<1>4. QED
  BY <1>1, <1>2, <1>3

LEMMA InitTables == Init => TablesInv
<1> SUFFICES ASSUME Init PROVE TablesInv
  OBVIOUS
<1>1. /\ db = [table \in Tables |-> Nothing]
      /\ next = 1 /\ checkpoint = 0 /\ todo = <<>> /\ failures = 0
  BY DEF Init
<1>2. PICK m, user : logs = Creation(m, user, 0)
  BY DEF Init
<1>3. \A table \in Tables : DOMAIN db[table] = {}
  BY <1>1 DEF Nothing
<1>4. "market" \in Tables
  BY DEF Tables
<1>5. RowsOK(db)
  <2>1. db = [table \in Tables |-> db[table]]
    BY <1>1
  <2>2. QED
    BY <1>3, <1>4, <2>1 DEF RowsOK
<1>6. LogsOK(logs) /\ Len(logs) = 2
  <2> DEFINE a == Log("MarketCreated", m, user, user, 0, InitialPrice)
             b == Log("FactoryMarketCreated", m, user, user, 0, InitialPrice)
  <2>1. /\ a.kind = "MarketCreated" /\ b.kind = "FactoryMarketCreated"
        /\ a.market = m /\ b.market = m
    BY DEF Log
  <2>2. logs = <<a, b>>
    BY <1>2 DEF Creation
  <2> HIDE DEF a, b
  <2>3. logs \in Seq({a, b}) /\ Len(logs) = 2 /\ logs[1] = a /\ logs[2] = b
    BY <2>2
  <2>4. QED
    BY <2>1, <2>3 DEF LogsOK, Kinds, Creates
<1>7. HandlerInv
  BY <1>1, <1>6, NothingInOrder DEF HandlerInv
<1>8. 1 .. Len(todo) = {} /\ 1 .. next - 1 = {}
  BY <1>1
<1>9. PositionsInv
  BY <1>3, <1>4, <1>8 DEF PositionsInv
<1>10. QED
  BY <1>5, <1>6, <1>7, <1>9 DEF TablesInv

LEMMA AlwaysTables == Spec => []TablesInv
<1>1. TablesInv /\ [Next]_vars => TablesInv'
  <2> SUFFICES ASSUME TablesInv, [Next]_vars PROVE TablesInv'
    OBVIOUS
  <2>1. CASE Emit
    BY <2>1, EmitKeepsTables
  <2>2. CASE TakeLog
    BY <2>2, TakeLogKeepsTables
  <2>3. CASE Statement
    BY <2>3, StatementKeepsTables
  <2>4. CASE Checkpoint \/ HandlerFails \/ Restart
    BY <2>4, RestKeepsTables
  <2>5. CASE UNCHANGED vars
    BY <2>5 DEF vars, TablesInv, HandlerInv, PositionsInv, Awaits
  <2>6. QED
    BY <2>1, <2>2, <2>3, <2>4, <2>5 DEF Next
<1>2. QED
  BY <1>1, InitTables, PTL DEF Spec

(* A reader who follows any relation that must not be null finds the row,  *)
(* but for the position of a market whose creation is not finished.        *)
THEOREM RelationsAlwaysResolve == Spec => []RelationsResolve
<1>1. TablesInv => RelationsResolve
  <2> SUFFICES ASSUME TablesInv, NEW table \in Tables, NEW id \in DOMAIN db[table],
                      NEW relation \in Relations[table]
               PROVE  \/ Resolves(table, id, relation)
                      \/ table = "market" /\ relation[1] = "nft" /\ Unfinished(id)
    BY DEF RelationsResolve
  <2>1. CASE ~ Deferred(table, relation)
    BY <2>1 DEF TablesInv, RowsOK, Linked, Has, Resolves, Reference
  <2>2. CASE Deferred(table, relation)
    <3>1. table = "market" /\ relation[1] = "nft" /\ relation[2] = "market_nft"
      BY <2>2, RelationFacts DEF Deferred
    <3>2. db["market"][id]["nft"] = id
      BY <3>1 DEF TablesInv, RowsOK
    <3>3. CASE Has(db, "market_nft", id)
      BY <3>1, <3>2, <3>3 DEF Has, Resolves, Reference
    <3>4. CASE Awaits(id)
      <4>1. ASSUME NEW j \in 1 .. Len(todo), Brings(todo[j], "market_nft", id)
            PROVE  Unfinished(id)
        <5>1. PICK S : todo \in Seq(S)
          BY DEF TablesInv, HandlerInv, InOrder
        <5>2. todo[j] \in ToSet(todo)
          BY <5>1 DEF ToSet
        <5>3. QED
          BY <4>1, <5>2 DEF Brings, Unfinished
      <4>2. QED
        BY <3>1, <3>4, <4>1 DEF Awaits, Creates, Unfinished
    <3>5. QED
      BY <3>1, <3>3, <3>4 DEF TablesInv, PositionsInv
  <2>3. QED
    BY <2>1, <2>2
<1>2. QED
  BY <1>1, AlwaysTables, PTL
=============================================================================
