-------------------------- MODULE OperationsTheorems --------------------------
(***************************************************************************)
(* Proofs about the deployment scripts and the creators of markets, for    *)
(* any number of runs, creators and markets, while the price keeper runs;  *)
(* and about the admin controller, by which operators act with a delay.    *)
(***************************************************************************)
EXTENDS Operations, AdminController, SequenceTheorems, TLAPS

(* A step has been carried out on the contracts of a run. *)
Mined(r, step) ==
  IF step.op = "new" THEN step.of \in deployed[r] ELSE step.links \subseteq links[r]

(* The last m transactions pending are the last m the current run sent, in *)
(* order, and no others are its own.                                       *)
LastPending(m) ==
  \A i \in DOMAIN pending :
    IF i <= Len(pending) - m
    THEN pending[i].run < run
    ELSE pending[i] = [run |-> run, step |-> Steps[pc - 1 - (Len(pending) - i)]]

(* The steps before those have been mined, and no others have deployed.    *)
MinedUpTo(n) ==
  /\ \A i \in 1 .. n : Mined(run, Steps[i])
  /\ \A c \in deployed[run] : \E i \in 1 .. n : Steps[i] = New(c)

(* While a script runs, its steps are mined in the order of their nonces.  *)
InNonceOrder ==
  pc # 0 => /\ run \in Runs /\ pc <= Len(Steps) + 1
            /\ \E m, n \in 0 .. (pc - 1) : /\ m + n = pc - 1 /\ m <= Len(pending)
                                           /\ LastPending(m) /\ MinedUpTo(n)

ScriptSteps == ToSet(DeployV1) \union ToSet(DeployV2)
Txs(r) == [run : 1 .. r, step : ScriptSteps]

ScriptsOK ==
  /\ version \in [Runs -> Versions]
  /\ run \in 0 .. MaxRuns
  /\ pc \in Nat
  /\ pending \in Seq(Txs(run))
  /\ DOMAIN deployed = Runs /\ DOMAIN links = Runs
  /\ \A r \in Runs : r > run => deployed[r] = {}
  /\ file \in [Versions -> 0 .. run]

ScriptsInv == ScriptsOK /\ InNonceOrder /\ SavedIsWired

-----------------------------------------------------------------------------
Line(c) == [run |-> creator[c].run, id |-> creator[c].id, by |-> c]
Genuine(line) ==
  /\ line.id \in DOMAIN markets
  /\ markets[line.id] = [run |-> line.run, by |-> line.by]

(* Lines, each by a creator of its own, who has finished or is c.          *)
Lines == [run : Nat, id : Nat, by : Creators]
Written(lines, c) ==
  /\ \A i \in DOMAIN lines :
       Genuine(lines[i]) /\ (lines[i].by = c \/ creator[lines[i].by].at = "done")
  /\ \A i, j \in DOMAIN lines : lines[i].by = lines[j].by => i = j

(* A creator at work knows its own market; what it is about to write adds  *)
(* its line to those of creators that have finished.                       *)
MarketsInv ==
  /\ markets \in Seq([run : Nat, by : Creators \union {"user"}])
  /\ creator \in [Creators -> [at : {"new", "sent", "mined", "read", "done"},
                               run : Nat, id : Nat, seen : Seq(Lines)]]
  /\ records \in Seq(Lines)
  /\ \A c \in Creators :
       /\ creator[c].at \in {"mined", "read"} => Genuine(Line(c))
       /\ creator[c].at = "read" => Written(creator[c].seen, c)
  /\ \A i \in DOMAIN records : Genuine(records[i]) /\ creator[records[i].by].at = "done"
  /\ \A i, j \in DOMAIN records : records[i].by = records[j].by => i = j

Inv == ScriptsInv /\ MarketsInv

-----------------------------------------------------------------------------
(* The scripts.                                                            *)

LEMMA ScriptFacts ==
  /\ DeployV1 \in Seq(ScriptSteps) /\ Len(DeployV1) = 13
  /\ DeployV2 \in Seq(ScriptSteps) /\ Len(DeployV2) = 14
  /\ \A step \in ScriptSteps : step.op = "new" => step = New(step.of)
  /\ DeployV1[13] = New("router")
  /\ \A i \in 1 .. 12 : DeployV1[i] # New("router")
<1>1. /\ DeployV1 \in Seq(Range(DeployV1)) /\ Len(DeployV1) = 13
      /\ DeployV2 \in Seq(Range(DeployV2)) /\ Len(DeployV2) = 14
  BY DEF DeployV1, DeployV2, Range
<1>2. Range(DeployV1) \subseteq ScriptSteps /\ Range(DeployV2) \subseteq ScriptSteps
  BY DEF ScriptSteps, ToSet, Range
<1>3. ASSUME NEW step \in ScriptSteps, step.op = "new" PROVE step = New(step.of)
  <2>1. CASE step \in ToSet(DeployV1)
    BY <1>3, <2>1 DEF ToSet, DeployV1, New, Set, SetUSIDFactory, SetUSIDOracle,
       SetEmitterFactory, SetNFTFactory, SetCollectorFactory
  <2>2. CASE step \in ToSet(DeployV2)
    BY <1>3, <2>2 DEF ToSet, DeployV2, New, Set
  <2>3. QED
    BY <2>1, <2>2 DEF ScriptSteps
<1>4. /\ DeployV1[13] = New("router")
      /\ \A i \in 1 .. 12 : DeployV1[i] # New("router")
  BY DEF DeployV1, New, Set, SetUSIDFactory, SetUSIDOracle,
     SetEmitterFactory, SetNFTFactory, SetCollectorFactory
<1>5. QED
  BY <1>1, <1>2, <1>3, <1>4

LEMMA StepsFacts ==
  ASSUME ScriptsOK, run \in Runs
  PROVE  /\ version[run] \in Versions
         /\ Steps \in Seq(ScriptSteps) /\ Len(Steps) \in Nat \ {0}
         /\ DOMAIN Steps = 1 .. Len(Steps)
         /\ \A i \in 1 .. Len(Steps) : Steps[i] \in ScriptSteps
<1>1. version[run] \in Versions
  BY DEF ScriptsOK
<1>2. Steps \in {DeployV1, DeployV2}
  BY DEF Steps, Script
<1> DEFINE s == Steps
<1>3. s \in Seq(ScriptSteps) /\ (Len(s) = 13 \/ Len(s) = 14)
  BY <1>2, ScriptFacts
<1> HIDE DEF s
<1>4. Len(s) # 0
  BY <1>3
<1>5. s \in Seq(ScriptSteps)
  BY <1>3
<1>6. /\ Len(s) \in Nat /\ DOMAIN s = 1 .. Len(s)
      /\ \A i \in 1 .. Len(s) : s[i] \in ScriptSteps
  BY <1>5
<1>7. QED
  BY <1>1, <1>4, <1>5, <1>6 DEF s

(* The wiring of a run that is done or at least sent.                      *)
OnItsWay(r) ==
  links[r] \union UNION {tx.step.links : tx \in {t \in ToSet(pending) : t.run = r}}

LEMMA InitScripts == DeployInit => ScriptsInv
BY DeploymentAssumption DEF DeployInit, ScriptsInv, ScriptsOK, InNonceOrder, SavedIsWired,
   Runs, Versions

LEMMA StutterKeepsScripts ==
  ASSUME ScriptsInv, UNCHANGED deployVars
  PROVE  ScriptsInv'
<1>1. /\ version' = version /\ run' = run /\ pc' = pc /\ pending' = pending
      /\ deployed' = deployed /\ links' = links /\ file' = file
  BY DEF deployVars
<1>2. ScriptsOK'
  BY <1>1 DEF ScriptsInv, ScriptsOK
<1>3. InNonceOrder'
  <2>1. Steps' = Steps
    BY <1>1 DEF Steps
  <2>2. \A m : LastPending(m)' <=> LastPending(m)
    BY <1>1, <2>1 DEF LastPending
  <2>3. \A n : MinedUpTo(n)' <=> MinedUpTo(n)
    BY <1>1, <2>1 DEF MinedUpTo, Mined
  <2>4. QED
    BY <1>1, <2>1, <2>2, <2>3 DEF ScriptsInv, InNonceOrder
<1>4. SavedIsWired'
  BY <1>1 DEF ScriptsInv, SavedIsWired
<1>5. QED
  BY <1>2, <1>3, <1>4 DEF ScriptsInv

LEMMA StartKeepsScripts ==
  ASSUME ScriptsInv, NEW v \in Versions, StartScript(v)
  PROVE  ScriptsInv'
<1>1. /\ pc = 0 /\ run < MaxRuns /\ run' = run + 1 /\ pc' = 1
      /\ version' = [version EXCEPT ![run + 1] = v]
      /\ pending' = pending /\ deployed' = deployed /\ links' = links /\ file' = file
  BY DEF StartScript
<1>2. run \in Nat /\ MaxRuns \in Nat /\ run + 1 \in Runs
  BY <1>1, DeploymentAssumption DEF ScriptsInv, ScriptsOK, Runs
<1>3. pending \in Seq(Txs(run))
  BY DEF ScriptsInv, ScriptsOK
<1>4. pending \in Seq(Txs(run + 1))
  <2>1. Txs(run) \subseteq Txs(run + 1)
    BY <1>2 DEF Txs
  <2>2. QED
    BY <1>3, <2>1
<1>5. ScriptsOK'
  BY <1>1, <1>2, <1>4 DEF ScriptsInv, ScriptsOK, Runs
<1>6. InNonceOrder'
  <2>1. Len(pending) \in Nat /\ \A i \in DOMAIN pending : pending[i].run < run + 1
    <3>1. \A i \in DOMAIN pending : pending[i] \in Txs(run)
      BY <1>3
    <3>2. QED
      BY <1>2, <1>3, <3>1 DEF Txs
  <2>2. deployed[run + 1] = {}
    BY <1>1, <1>2 DEF ScriptsInv, ScriptsOK
  <2>3. Len(Steps') \in {13, 14}
    BY ScriptFacts DEF Steps, Script
  <2>4. \A i \in DOMAIN pending : i <= Len(pending)
    BY <1>3
  <2>5. LastPending(0)'
    BY <1>1, <2>1, <2>4 DEF LastPending
  <2>6. MinedUpTo(0)'
    BY <1>1, <2>2 DEF MinedUpTo
  <2>7. 0 \in 0 .. (pc' - 1) /\ 0 + 0 = pc' - 1 /\ 0 <= Len(pending') /\ pc' <= Len(Steps') + 1
    BY <1>1, <2>1, <2>3
  <2>8. QED
    BY <1>1, <1>2, <2>5, <2>6, <2>7 DEF InNonceOrder
<1>7. SavedIsWired'
  BY <1>1 DEF ScriptsInv, SavedIsWired
<1>8. QED
  BY <1>5, <1>6, <1>7 DEF ScriptsInv

LEMMA DieKeepsScripts ==
  ASSUME ScriptsInv, ScriptDies
  PROVE  ScriptsInv'
<1>1. /\ version' = version /\ run' = run /\ pc' = 0 /\ pending' = pending
      /\ deployed' = deployed /\ links' = links /\ file' = file
  BY DEF ScriptDies
<1>2. ScriptsOK'
  BY <1>1 DEF ScriptsInv, ScriptsOK
<1>3. InNonceOrder' /\ SavedIsWired'
  BY <1>1 DEF ScriptsInv, InNonceOrder, SavedIsWired
<1>4. QED
  BY <1>2, <1>3 DEF ScriptsInv

LEMMA SendKeepsScripts ==
  ASSUME ScriptsInv, SendStep
  PROVE  ScriptsInv'
<1> DEFINE tx == [run |-> run, step |-> Steps[pc]]
<1>1. /\ pc # 0 /\ pc <= Len(Steps) /\ pending' = Append(pending, tx) /\ pc' = pc + 1
      /\ version' = version /\ run' = run
      /\ deployed' = deployed /\ links' = links /\ file' = file
  BY DEF SendStep
<1>2. run \in Runs /\ pc \in Nat
  BY <1>1 DEF ScriptsInv, ScriptsOK, InNonceOrder
<1>3. /\ Steps[pc] \in ScriptSteps /\ Steps' = Steps /\ Len(Steps) \in Nat
  BY <1>1, <1>2, StepsFacts DEF ScriptsInv, Steps
<1>4. /\ pending \in Seq(Txs(run))
      /\ tx \in Txs(run)
  BY <1>2, <1>3 DEF ScriptsInv, ScriptsOK, Runs, Txs
<1> HIDE DEF tx
<1>5. /\ Len(pending) \in Nat /\ DOMAIN pending = 1 .. Len(pending)
      /\ DOMAIN pending' = 1 .. (Len(pending) + 1) /\ Len(pending') = Len(pending) + 1
      /\ \A i \in 1 .. Len(pending) : pending'[i] = pending[i]
      /\ pending'[Len(pending) + 1] = tx
      /\ pending' \in Seq(Txs(run))
  BY <1>1, <1>4
<1>6. ScriptsOK'
  BY <1>1, <1>2, <1>5 DEF ScriptsInv, ScriptsOK
<1>7. InNonceOrder'
  <2>1. PICK m \in 0 .. (pc - 1), n \in 0 .. (pc - 1) :
          m + n = pc - 1 /\ m <= Len(pending) /\ LastPending(m) /\ MinedUpTo(n)
    BY <1>1 DEF ScriptsInv, InNonceOrder
  <2>2. LastPending(m + 1)'
    <3> SUFFICES ASSUME NEW i \in DOMAIN pending'
                 PROVE  IF i <= Len(pending') - (m + 1)
                        THEN pending'[i].run < run'
                        ELSE pending'[i] = [run |-> run', step |-> Steps'[pc' - 1 - (Len(pending') - i)]]
      BY DEF LastPending
    <3>1. i \in 1 .. (Len(pending) + 1) /\ Len(pending') - (m + 1) = Len(pending) - m
      BY <1>5, <2>1
    <3>2. CASE i = Len(pending) + 1
      <4>1. ~ (i <= Len(pending) - m) /\ pc' - 1 - (Len(pending') - i) = pc
        BY <1>1, <1>2, <1>5, <2>1, <3>2
      <4>2. QED
        BY <1>1, <1>3, <1>5, <3>1, <3>2, <4>1 DEF tx
    <3>3. CASE i # Len(pending) + 1
      <4>1. /\ i \in DOMAIN pending
            /\ pc' - 1 - (Len(pending') - i) = pc - 1 - (Len(pending) - i)
        <5>1. i \in DOMAIN pending
          BY <1>5, <3>1, <3>3
        <5>2. pc' = pc + 1 /\ Len(pending') = Len(pending) + 1
          BY <1>1, <1>5
        <5>3. pc \in Nat /\ Len(pending) \in Nat /\ i \in Nat
          BY <1>2, <1>5, <3>1
        <5>4. QED
          BY <5>1, <5>2, <5>3
      <4>2. IF i <= Len(pending) - m
            THEN pending[i].run < run
            ELSE pending[i] = [run |-> run, step |-> Steps[pc - 1 - (Len(pending) - i)]]
        BY <2>1, <4>1 DEF LastPending
      <4>3. QED
        BY <1>1, <1>3, <1>5, <3>1, <4>1, <4>2
    <3>4. QED
      BY <3>2, <3>3
  <2>3. /\ m + 1 \in 0 .. (pc' - 1) /\ n \in 0 .. (pc' - 1) /\ m + 1 <= Len(pending')
        /\ (m + 1) + n = pc' - 1 /\ pc' <= Len(Steps') + 1
    BY <1>1, <1>2, <1>3, <1>5, <2>1
  <2>4. MinedUpTo(n)'
    BY <1>1, <1>2, <1>3, <2>1 DEF MinedUpTo, Mined
  <2>5. QED
    BY <1>1, <1>2, <2>2, <2>3, <2>4 DEF InNonceOrder
<1>8. SavedIsWired'
  <2>1. \A r : OnItsWay(r) \subseteq OnItsWay(r)'
    <3>1. ToSet(pending) \subseteq ToSet(pending')
      BY <1>5 DEF ToSet
    <3>2. QED
      BY <1>1, <3>1 DEF OnItsWay
  <2>2. QED
    BY <1>1, <2>1 DEF ScriptsInv, SavedIsWired, OnItsWay
<1>9. QED
  BY <1>6, <1>7, <1>8 DEF ScriptsInv

(* The last step of the V1 script is awaited, and mined after the setters; *)
(* the V2 script has sent all of its steps.                                *)
LEMMA SaveKeepsScripts ==
  ASSUME ScriptsInv, SaveFile
  PROVE  ScriptsInv'
<1> DEFINE v == version[run]
<1>1. /\ pc # 0 /\ pc > Len(Steps) /\ Awaited
      /\ file' = [file EXCEPT ![v] = run] /\ pc' = 0
      /\ version' = version /\ run' = run /\ pending' = pending
      /\ deployed' = deployed /\ links' = links
  BY DEF SaveFile
<1>2. run \in Runs /\ pc \in Nat /\ pc <= Len(Steps) + 1
  BY <1>1 DEF ScriptsInv, ScriptsOK, InNonceOrder
<1>3. /\ v \in Versions /\ Steps \in Seq(ScriptSteps) /\ Len(Steps) \in Nat \ {0}
      /\ DOMAIN Steps = 1 .. Len(Steps)
      /\ \A i \in 1 .. Len(Steps) : Steps[i] \in ScriptSteps
  BY <1>2, StepsFacts DEF ScriptsInv
<1>4. pc - 1 = Len(Steps)
  BY <1>1, <1>2, <1>3
<1>5. PICK m \in 0 .. (pc - 1), n \in 0 .. (pc - 1) :
        m + n = pc - 1 /\ m <= Len(pending) /\ LastPending(m) /\ MinedUpTo(n)
  BY <1>1 DEF ScriptsInv, InNonceOrder
<1>6. /\ pending \in Seq(Txs(run)) /\ Len(pending) \in Nat
      /\ DOMAIN pending = 1 .. Len(pending)
  BY DEF ScriptsInv, ScriptsOK
<1>7. ScriptsOK'
  BY <1>1, <1>2, <1>3 DEF ScriptsInv, ScriptsOK, Runs
<1>8. LinksOf(v) = UNION {Steps[i].links : i \in 1 .. Len(Steps)}
  BY <1>3 DEF LinksOf, ToSet, Steps
<1>9. ASSUME v = "v1"
      PROVE  LinksOf("v1") \subseteq links[run]
  <2>1. Steps = DeployV1 /\ Len(Steps) = 13 /\ pc - 1 = 13
    BY <1>4, <1>9, ScriptFacts DEF Steps, Script
  <2>2. "router" \in deployed[run]
    <3>1. pc > 1 /\ Steps[pc - 1] = New("router")
      BY <1>2, <2>1, ScriptFacts
    <3>2. Steps[pc - 1].op = "new" /\ Steps[pc - 1].of = "router"
      BY <3>1 DEF New
    <3>3. QED
      BY <1>1, <3>1, <3>2 DEF Awaited
  <2>3. n = 13
    <3>1. PICK i \in 1 .. n : Steps[i] = New("router")
      BY <1>5, <2>2 DEF MinedUpTo
    <3>2. i \notin 1 .. 12
      BY <2>1, <3>1, ScriptFacts
    <3>3. QED
      BY <2>1, <3>2
  <2>4. ASSUME NEW i \in 1 .. 13 PROVE Steps[i].links \subseteq links[run]
    <3>1. Mined(run, Steps[i])
      BY <1>5, <2>3, <2>4 DEF MinedUpTo
    <3>2. CASE Steps[i].op = "new"
      <4>1. Steps[i] = New(Steps[i].of)
        BY <1>3, <2>1, <3>2, ScriptFacts
      <4>2. Steps[i].links = {}
        BY <4>1 DEF New
      <4>3. QED
        BY <4>2
    <3>3. CASE Steps[i].op # "new"
      BY <3>1, <3>3 DEF Mined
    <3>4. QED
      BY <3>2, <3>3
  <2>5. QED
    BY <1>8, <1>9, <2>1, <2>4
<1>10. ASSUME v = "v2"
       PROVE  LinksOf("v2") \subseteq OnItsWay(run)
  <2>1. ASSUME NEW i \in 1 .. Len(Steps) PROVE Steps[i].links \subseteq OnItsWay(run)
    <3>1. CASE i <= n
      <4>1. Mined(run, Steps[i])
        BY <1>5, <2>1, <3>1 DEF MinedUpTo
      <4>2. CASE Steps[i].op = "new"
        <5>1. Steps[i] = New(Steps[i].of)
          BY <1>3, <2>1, <4>2, ScriptFacts
        <5>2. Steps[i].links = {}
          BY <5>1 DEF New
        <5>3. QED
          BY <5>2
      <4>3. CASE Steps[i].op # "new"
        BY <4>1, <4>3 DEF Mined, OnItsWay
      <4>4. QED
        BY <4>2, <4>3
    <3>2. CASE i > n
      <4> DEFINE j == Len(pending) - (Len(Steps) - i)
      <4>1. /\ j \in DOMAIN pending /\ ~ (j <= Len(pending) - m)
            /\ pc - 1 - (Len(pending) - j) = i
        BY <1>3, <1>4, <1>5, <1>6, <2>1, <3>2
      <4>2. pending[j] = [run |-> run, step |-> Steps[i]]
        BY <1>5, <4>1 DEF LastPending
      <4>3. pending[j] \in {t \in ToSet(pending) : t.run = run}
        BY <4>1, <4>2 DEF ToSet
      <4>4. Steps[i].links \in {tx.step.links : tx \in {t \in ToSet(pending) : t.run = run}}
        BY <4>2, <4>3
      <4>5. QED
        BY <4>4 DEF OnItsWay
    <3>3. QED
      BY <1>3, <1>5, <2>1, <3>1, <3>2
  <2>2. QED
    BY <1>8, <1>10, <2>1
<1>11. SavedIsWired'
  <2>1. /\ file \in [Versions -> 0 .. run] /\ SavedIsWired
    BY DEF ScriptsInv, ScriptsOK
  <2>2. CASE v = "v1"
    BY <1>1, <1>9, <2>1, <2>2 DEF SavedIsWired, Versions
  <2>3. CASE v = "v2"
    BY <1>1, <1>10, <2>1, <2>3 DEF SavedIsWired, Versions, OnItsWay
  <2>4. QED
    BY <1>3, <2>2, <2>3 DEF Versions
<1>12. QED
  BY <1>1, <1>7, <1>11 DEF ScriptsInv, InNonceOrder

LEMMA MineKeepsScripts ==
  ASSUME ScriptsInv, MineStep
  PROVE  ScriptsInv'
<1> DEFINE head == Head(pending)
<1>1. /\ pending # <<>> /\ pending' = Tail(pending)
      /\ version' = version /\ run' = run /\ pc' = pc /\ file' = file
      /\ IF head.step.op = "new"
         THEN /\ deployed' = [deployed EXCEPT ![head.run] = @ \cup {head.step.of}]
              /\ links' = links
         ELSE /\ links' = [links EXCEPT ![head.run] = @ \cup head.step.links]
              /\ deployed' = deployed
  BY DEF MineStep
<1>2. /\ run \in 0 .. MaxRuns /\ run \in Nat /\ pc \in Nat
      /\ DOMAIN deployed = Runs /\ DOMAIN links = Runs
      /\ pending \in Seq(Txs(run))
  BY DEF ScriptsInv, ScriptsOK
<1>3. /\ head \in Txs(run) /\ head = pending[1]
      /\ Len(pending) \in Nat /\ Len(pending) >= 1
      /\ DOMAIN pending = 1 .. Len(pending)
      /\ Len(pending') = Len(pending) - 1 /\ DOMAIN pending' = 1 .. (Len(pending) - 1)
      /\ pending' \in Seq(Txs(run))
      /\ \A i \in 1 .. (Len(pending) - 1) : pending'[i] = pending[i + 1]
  BY <1>1, <1>2
<1>4. PICK r \in 1 .. run, step \in ScriptSteps :
        head = [run |-> r, step |-> step] /\ pending[1].run = r /\ pending[1].step = step
  BY <1>3 DEF Txs
<1>5. r \in Runs
  BY <1>2, <1>4, DeploymentAssumption DEF Runs
<1>6. /\ \A q \in Runs : deployed[q] \subseteq deployed'[q] /\ links[q] \subseteq links'[q]
      /\ \A q \in Runs : q # r => deployed'[q] = deployed[q]
      /\ deployed'[r] = deployed[r] \union (IF step.op = "new" THEN {step.of} ELSE {})
      /\ step.op # "new" => step.links \subseteq links'[r]
      /\ DOMAIN deployed' = Runs /\ DOMAIN links' = Runs
  BY <1>1, <1>2, <1>4, <1>5
<1> HIDE DEF head
<1>7. ScriptsOK'
  <2>1. \A q \in Runs : q > run => deployed'[q] = {}
    BY <1>2, <1>4, <1>6 DEF ScriptsInv, ScriptsOK, Runs
  <2>2. QED
    BY <1>1, <1>3, <1>6, <2>1 DEF ScriptsInv, ScriptsOK
<1>8. InNonceOrder'
  <2> SUFFICES ASSUME pc # 0
               PROVE  /\ run \in Runs /\ pc <= Len(Steps') + 1
                      /\ \E m, n \in 0 .. (pc - 1) :
                           /\ m + n = pc - 1 /\ m <= Len(pending')
                           /\ LastPending(m)' /\ MinedUpTo(n)'
    BY <1>1 DEF InNonceOrder
  <2>1. run \in Runs /\ pc <= Len(Steps) + 1 /\ Steps' = Steps
    BY <1>1 DEF ScriptsInv, InNonceOrder, Steps
  <2>2. PICK m \in 0 .. (pc - 1), n \in 0 .. (pc - 1) :
          m + n = pc - 1 /\ m <= Len(pending) /\ LastPending(m) /\ MinedUpTo(n)
    BY DEF ScriptsInv, InNonceOrder
  <2>3. \A i \in 1 .. n : Mined(run, Steps[i])'
    BY <1>1, <1>6, <2>1, <2>2 DEF MinedUpTo, Mined
  (* What remains pending of the run has moved up by one. *)
  <2>4. ASSUME NEW k \in Nat, k = m \/ (k = m - 1 /\ m = Len(pending))
        PROVE  LastPending(k)'
    <3> SUFFICES ASSUME NEW i \in DOMAIN pending'
                 PROVE  IF i <= Len(pending') - k
                        THEN pending'[i].run < run'
                        ELSE pending'[i] = [run |-> run', step |-> Steps'[pc' - 1 - (Len(pending') - i)]]
      BY DEF LastPending
    <3> DEFINE j == i + 1
    <3>0. i \in Nat /\ i \in 1 .. (Len(pending) - 1) /\ m \in Nat
      BY <1>2, <1>3
    <3>1. /\ j \in DOMAIN pending /\ pending'[i] = pending[j]
          /\ i <= Len(pending') - k => j <= Len(pending) - m
          /\ ~ (i <= Len(pending') - k) => ~ (j <= Len(pending) - m)
          /\ pc' - 1 - (Len(pending') - i) = pc - 1 - (Len(pending) - j)
      <4>1. j \in DOMAIN pending /\ pending'[i] = pending[j]
        BY <1>3, <3>0
      <4>2. /\ i <= Len(pending') - k => j <= Len(pending) - m
            /\ ~ (i <= Len(pending') - k) => ~ (j <= Len(pending) - m)
        <5>1. CASE k = m
          BY <1>3, <3>0, <5>1
        <5>2. CASE k = m - 1 /\ m = Len(pending)
          BY <1>3, <3>0, <5>2
        <5>3. QED
          BY <2>4, <5>1, <5>2
      <4>3. pc' - 1 - (Len(pending') - i) = pc - 1 - (Len(pending) - j)
        BY <1>1, <1>2, <1>3, <3>0
      <4>4. QED
        BY <4>1, <4>2, <4>3
    <3> HIDE DEF j
    <3>2. IF j <= Len(pending) - m
          THEN pending[j].run < run
          ELSE pending[j] = [run |-> run, step |-> Steps[pc - 1 - (Len(pending) - j)]]
      BY <2>2, <3>1 DEF LastPending
    <3>3. CASE i <= Len(pending') - k
      BY <1>1, <3>1, <3>2, <3>3
    <3>4. CASE ~ (i <= Len(pending') - k)
      BY <1>1, <2>1, <3>1, <3>2, <3>4
    <3>5. QED
      BY <3>3, <3>4
  (* The transaction is of an earlier run: nothing changes for this one. *)
  <2>5. CASE m < Len(pending)
    <3>1. r < run
      <4>1. 1 \in DOMAIN pending /\ 1 <= Len(pending) - m
        BY <1>3, <2>2, <2>5
      <4>2. pending[1].run < run
        BY <2>2, <4>1 DEF LastPending
      <4>3. QED
        BY <1>3, <1>4, <4>2
    <3>2. MinedUpTo(n)'
      BY <1>1, <1>2, <1>6, <2>1, <2>2, <2>3, <3>1 DEF MinedUpTo
    <3>3. m <= Len(pending') /\ m \in Nat
      BY <1>3, <2>2, <2>5
    <3>4. LastPending(m)'
      BY <2>4, <3>3
    <3>5. QED
      BY <2>1, <2>2, <3>2, <3>3, <3>4
  (* It is the first that the run has pending. *)
  <2>6. CASE m = Len(pending)
    <3>1. r = run /\ step = Steps[n + 1]
      <4>1. /\ 1 \in DOMAIN pending /\ ~ (1 <= Len(pending) - m)
            /\ pc - 1 - (Len(pending) - 1) = n + 1
        BY <1>2, <1>3, <2>2, <2>6
      <4>2. pending[1] = [run |-> run, step |-> Steps[n + 1]]
        BY <2>2, <4>1 DEF LastPending
      <4>3. pending[1].run = run /\ pending[1].step = Steps[n + 1]
        BY <4>2
      <4>4. QED
        BY <1>4, <4>3
    <3>2. Mined(run, Steps[n + 1])'
      BY <1>1, <1>6, <2>1, <3>1 DEF Mined
    <3>3. ASSUME NEW c \in deployed'[run]
          PROVE  \E i \in 1 .. (n + 1) : Steps[i] = New(c)
      <4>1. CASE c \in deployed[run]
        <5>1. PICK i \in 1 .. n : Steps[i] = New(c)
          BY <2>2, <4>1 DEF MinedUpTo
        <5>2. i \in 1 .. (n + 1)
          BY <2>2
        <5>3. QED
          BY <5>1, <5>2
      <4>2. CASE c \notin deployed[run]
        <5>1. step.op = "new" /\ c = step.of
          BY <1>6, <3>1, <3>3, <4>2
        <5>2. step = New(c)
          BY <5>1, ScriptFacts
        <5>3. n + 1 \in 1 .. (n + 1)
          BY <2>2
        <5>4. QED
          BY <3>1, <5>2, <5>3
      <4>3. QED
        BY <4>1, <4>2
    <3>4. \A i \in 1 .. (n + 1) : Mined(run, Steps[i])'
      <4>1. \A i \in 1 .. (n + 1) : i \in 1 .. n \/ i = n + 1
        BY <2>2
      <4>2. QED
        BY <2>3, <3>2, <4>1
    <3>5. MinedUpTo(n + 1)'
      BY <1>1, <2>1, <3>3, <3>4 DEF MinedUpTo
    <3>6. /\ m - 1 \in Nat /\ m - 1 \in 0 .. (pc - 1) /\ n + 1 \in 0 .. (pc - 1)
          /\ (m - 1) + (n + 1) = pc - 1 /\ m - 1 <= Len(pending')
      BY <1>2, <1>3, <2>2, <2>6
    <3>7. LastPending(m - 1)'
      BY <2>4, <2>6, <3>6
    <3>8. QED
      BY <2>1, <3>5, <3>6, <3>7
  <2>7. QED
    BY <1>2, <1>3, <2>2, <2>5, <2>6
<1>9. SavedIsWired'
  (* The wiring of a mined setter moves from the pending to the links. *)
  <2>1. ASSUME NEW q \in Runs PROVE OnItsWay(q) \subseteq OnItsWay(q)'
    <3> SUFFICES ASSUME NEW tx \in ToSet(pending), tx.run = q
                 PROVE  tx.step.links \subseteq OnItsWay(q)'
      BY <1>6 DEF OnItsWay
    <3>1. PICK i \in 1 .. Len(pending) : tx = pending[i]
      BY <1>3 DEF ToSet
    <3>2. CASE i = 1
      <4>1. q = r /\ tx.step = step
        BY <1>3, <1>4, <3>1, <3>2
      <4>2. CASE step.op = "new"
        <5>1. step = New(step.of)
          BY <4>2, ScriptFacts
        <5>2. step.links = {}
          BY <5>1 DEF New
        <5>3. QED
          BY <4>1, <5>2
      <4>3. CASE step.op # "new"
        BY <1>6, <4>1, <4>3 DEF OnItsWay
      <4>4. QED
        BY <4>2, <4>3
    <3>3. CASE i # 1
      <4>1. i - 1 \in DOMAIN pending' /\ pending'[i - 1] = tx
        <5>1. i - 1 \in 1 .. (Len(pending) - 1) /\ (i - 1) + 1 = i
          BY <1>3, <3>3
        <5>2. QED
          BY <1>3, <3>1, <5>1
      <4>2. tx \in ToSet(pending')
        BY <4>1 DEF ToSet
      <4>3. QED
        BY <4>2 DEF OnItsWay
    <3>4. QED
      BY <3>2, <3>3
  <2>2. /\ SavedIsWired /\ file["v1"] \in 0 .. run /\ file["v2"] \in 0 .. run
    BY DEF ScriptsInv, ScriptsOK, Versions
  <2>3. /\ file["v1"] # 0 => file["v1"] \in Runs
        /\ file["v2"] # 0 => file["v2"] \in Runs
    BY <1>2, <2>2, DeploymentAssumption DEF Runs
  <2>4. file["v1"] # 0 => LinksOf("v1") \subseteq links'[file["v1"]]
    BY <1>6, <2>2, <2>3 DEF SavedIsWired
  <2>5. file["v2"] # 0 => LinksOf("v2") \subseteq OnItsWay(file["v2"])'
    <3>1. file["v2"] # 0 => LinksOf("v2") \subseteq OnItsWay(file["v2"])
      BY <2>2 DEF SavedIsWired, OnItsWay
    <3>2. ASSUME NEW q, q = file["v2"], q # 0 PROVE LinksOf("v2") \subseteq OnItsWay(q)'
      BY <2>1, <2>3, <3>1, <3>2
    <3>3. QED
      BY <1>1, <3>2 DEF OnItsWay
  <2>6. QED
    BY <1>1, <2>4, <2>5 DEF SavedIsWired, OnItsWay
<1>10. QED
  BY <1>7, <1>8, <1>9 DEF ScriptsInv

LEMMA StepKeepsScripts ==
  ASSUME ScriptsInv, [OperationsNext]_operationsVars
  PROVE  ScriptsInv'
<1>1. CASE ScriptNext
  BY <1>1, StartKeepsScripts, SendKeepsScripts, SaveKeepsScripts, DieKeepsScripts,
     MineKeepsScripts DEF ScriptNext
<1>2. CASE UNCHANGED deployVars
  BY <1>2, StutterKeepsScripts
<1>3. MarketNext => UNCHANGED deployVars
  BY DEF MarketNext, CreateDirectly, CreatorNext, SendMarket, MineMarket, ReadRecords,
         WriteRecords, CreatorDies
<1>4. QED
  BY <1>1, <1>2, <1>3 DEF OperationsNext, operationsVars

-----------------------------------------------------------------------------
(* The creators.                                                           *)

LEMMA InitMarkets == OperationsInit => MarketsInv
BY DEF OperationsInit, DeployInit, MarketsInv

(* Lines stay genuine, and those who have finished stay so.                *)
LEMMA WrittenStays ==
  ASSUME NEW lines \in Seq(Lines), NEW c, Written(lines, c),
         \A line : Genuine(line) => Genuine(line)',
         \A d \in Creators : creator[d].at = "done" => creator'[d].at = "done"
  PROVE  Written(lines, c)'
<1>1. \A i \in DOMAIN lines : lines[i] \in Lines
  OBVIOUS
<1>2. \A i \in DOMAIN lines : lines[i].by \in Creators
  BY <1>1 DEF Lines
<1>3. QED
  BY <1>2 DEF Written

(* A step of creator c, which keeps to its own entry.                      *)
LEMMA CreatorStep ==
  ASSUME MarketsInv, NEW c \in Creators, NEW entry,
         entry \in [at : {"new", "sent", "mined", "read", "done"},
                    run : Nat, id : Nat, seen : Seq(Lines)],
         creator[c].at # "done", creator' = [creator EXCEPT ![c] = entry],
         \A line : Genuine(line) => Genuine(line)',
         markets' \in Seq([run : Nat, by : Creators \union {"user"}]),
         entry.at \in {"mined", "read"} => Genuine(Line(c))',
         entry.at = "read" => Written(entry.seen, c)',
         \/ records' = records
         \/ entry.at = "done" /\ records' \in Seq(Lines) /\ Written(records, c)'
  PROVE  MarketsInv'
<1>1. creator \in [Creators -> [at : {"new", "sent", "mined", "read", "done"},
                               run : Nat, id : Nat, seen : Seq(Lines)]]
  BY DEF MarketsInv
<1>2. /\ creator'[c] = entry /\ \A d \in Creators \ {c} : creator'[d] = creator[d]
      /\ creator' \in [Creators -> [at : {"new", "sent", "mined", "read", "done"},
                                   run : Nat, id : Nat, seen : Seq(Lines)]]
  BY <1>1
<1>3. \A d \in Creators : creator[d].at = "done" => creator'[d].at = "done"
  BY <1>2
<1>4. ASSUME NEW d \in Creators
      PROVE  /\ creator'[d].at \in {"mined", "read"} => Genuine(Line(d))'
             /\ (creator[d].at = "read" => Written(creator[d].seen, d))'
  <2>1. CASE d = c
    BY <1>2, <2>1 DEF Line
  <2>2. CASE d # c
    <3>1. creator'[d] = creator[d] /\ Line(d)' = Line(d)
      BY <1>2, <2>2 DEF Line
    <3>2. ASSUME NEW lines, lines = creator[d].seen, creator[d].at = "read"
          PROVE  Written(lines, d)'
      <4>1. Written(lines, d) /\ lines \in Seq(Lines)
        BY <1>1, <3>2 DEF MarketsInv
      <4>2. QED
        BY <1>3, <4>1, WrittenStays
    <3>3. creator'[d].at = "read" => \A lines : lines = creator'[d].seen => Written(lines, d)'
      BY <3>1, <3>2
    <3>4. (creator[d].at = "read" => Written(creator[d].seen, d))'
      BY <3>3 DEF Written
    <3>5. creator[d].at \in {"mined", "read"} => Genuine(Line(d))
      BY DEF MarketsInv
    <3>6. creator'[d].at \in {"mined", "read"} => Genuine(Line(d))'
      BY <3>1, <3>5 DEF Line
    <3>7. QED
      BY <3>4, <3>6
  <2>3. QED
    BY <2>1, <2>2
<1>5. /\ records' \in Seq(Lines)
      /\ \A i \in DOMAIN records' :
           Genuine(records[i])' /\ creator'[records'[i].by].at = "done"
      /\ \A i, j \in DOMAIN records' : records'[i].by = records'[j].by => i = j
  <2>1. CASE records' = records
    <3>1. \A i \in DOMAIN records : records[i] \in Lines
      BY DEF MarketsInv
    <3>2. \A i \in DOMAIN records : records[i].by \in Creators
      BY <3>1 DEF Lines
    <3>3. ASSUME NEW i \in DOMAIN records, NEW line, line = records[i]
          PROVE  Genuine(line)' /\ creator'[line.by].at = "done"
      BY <1>3, <3>2, <3>3 DEF MarketsInv
    <3>4. \A i \in DOMAIN records' : \A line :
            line = records'[i] => Genuine(line)' /\ creator'[line.by].at = "done"
      BY <2>1, <3>3
    <3>5. \A i \in DOMAIN records' :
            Genuine(records[i])' /\ creator'[records'[i].by].at = "done"
      BY <3>4 DEF Genuine
    <3>6. QED
      BY <2>1, <3>5 DEF MarketsInv
  <2>2. CASE entry.at = "done" /\ records' \in Seq(Lines) /\ Written(records, c)'
    BY <1>2, <2>2 DEF Written
  <2>3. QED
    BY <2>1, <2>2
<1>6. QED
  BY <1>2, <1>4, <1>5 DEF MarketsInv

(* The factory numbers markets in their order and never takes one back.    *)
LEMMA MarketAdded ==
  ASSUME MarketsInv, NEW r \in Nat, NEW by \in Creators \union {"user"},
         markets' = Append(markets, [run |-> r, by |-> by])
  PROVE  /\ markets' \in Seq([run : Nat, by : Creators \union {"user"}])
         /\ \A line : Genuine(line) => Genuine(line)'
         /\ Len(markets) + 1 \in DOMAIN markets' /\ Len(markets) + 1 \in Nat
         /\ markets'[Len(markets) + 1] = [run |-> r, by |-> by]
<1> DEFINE m == [run |-> r, by |-> by]
           S == [run : Nat, by : Creators \union {"user"}]
<1>1. markets \in Seq(S) /\ m \in S
  BY DEF MarketsInv
<1> HIDE DEF m, S
<1>2. markets' = Append(markets, m)
  BY DEF m
<1>3. /\ markets' \in Seq(S) /\ Len(markets) \in Nat
      /\ DOMAIN markets = 1 .. Len(markets)
      /\ DOMAIN markets' = 1 .. (Len(markets) + 1)
      /\ \A i \in 1 .. Len(markets) : markets'[i] = markets[i]
      /\ markets'[Len(markets) + 1] = m
  BY <1>1, <1>2
<1>4. QED
  BY <1>3 DEF m, S, Genuine

LEMMA OnlyMarketsGrow ==
  ASSUME MarketsInv, creator' = creator, records' = records,
         markets' \in Seq([run : Nat, by : Creators \union {"user"}]),
         \A line : Genuine(line) => Genuine(line)'
  PROVE  MarketsInv'
<1>1. \A d \in Creators : Line(d)' = Line(d)
  BY DEF Line
<1>2. ASSUME NEW d \in Creators
      PROVE  /\ creator'[d].at \in {"mined", "read"} => Genuine(Line(d))'
             /\ (creator[d].at = "read" => Written(creator[d].seen, d))'
  <2>1. ASSUME NEW line, line = Line(d), creator[d].at \in {"mined", "read"}
        PROVE  Genuine(line)'
    BY <2>1 DEF MarketsInv
  <2>2. ASSUME NEW lines, lines = creator[d].seen, creator[d].at = "read"
        PROVE  Written(lines, d)'
    <3>1. Written(lines, d) /\ lines \in Seq(Lines)
      BY <2>2 DEF MarketsInv
    <3>2. QED
      BY <3>1, WrittenStays
  <2>3. creator'[d].at = "read" => \A lines : lines = creator'[d].seen => Written(lines, d)'
    BY <2>2
  <2>4. (creator[d].at = "read" => Written(creator[d].seen, d))'
    BY <2>3 DEF Written
  <2>5. creator'[d].at \in {"mined", "read"} => \A line : line = Line(d)' => Genuine(line)'
    BY <1>1, <2>1
  <2>6. creator'[d].at \in {"mined", "read"} => Genuine(Line(d))'
    BY <2>5 DEF Genuine
  <2>7. QED
    BY <2>4, <2>6
<1>3. ASSUME NEW i \in DOMAIN records' PROVE Genuine(records[i])'
  <2>1. ASSUME NEW line, line = records[i] PROVE Genuine(line)'
    BY <2>1 DEF MarketsInv
  <2>2. \A line : line = records'[i] => Genuine(line)'
    BY <2>1
  <2>3. QED
    BY <2>2 DEF Genuine
<1>4. QED
  BY <1>2, <1>3 DEF MarketsInv

LEMMA CreatorKeepsMarkets ==
  ASSUME Inv, NEW c \in Creators, CreatorNext(c)
  PROVE  MarketsInv'
<1> DEFINE e == creator[c]
<1>1. /\ e \in [at : {"new", "sent", "mined", "read", "done"},
                run : Nat, id : Nat, seen : Seq(Lines)]
      /\ creator \in [Creators -> [at : {"new", "sent", "mined", "read", "done"},
                                  run : Nat, id : Nat, seen : Seq(Lines)]]
      /\ markets \in Seq([run : Nat, by : Creators \union {"user"}])
      /\ records \in Seq(Lines) /\ MarketsInv
  BY DEF Inv, MarketsInv
<1>2. file["v1"] \in Nat
  BY DeploymentAssumption DEF Inv, ScriptsInv, ScriptsOK, Versions
<1>3. /\ markets' = markets => \A line : Genuine(line) => Genuine(line)'
      /\ <<>> \in Seq(Lines)
  BY DEF Genuine
<1>4. CASE SendMarket(c)
  <2> DEFINE entry == [e EXCEPT !.at = "sent", !.run = file["v1"]]
  <2>1. /\ e.at = "new" /\ markets' = markets /\ records' = records
        /\ creator' = [creator EXCEPT ![c] = entry]
    BY <1>1, <1>4 DEF SendMarket
  <2>2. /\ entry \in [at : {"new", "sent", "mined", "read", "done"},
                      run : Nat, id : Nat, seen : Seq(Lines)]
        /\ entry.at = "sent"
    BY <1>1, <1>2
  <2> HIDE DEF entry
  <2>3. QED
    BY <1>1, <1>3, <2>1, <2>2, CreatorStep
<1>5. CASE MineMarket(c)
  <2> DEFINE entry == [e EXCEPT !.at = "mined", !.id = Len(markets) + 1]
  <2>1. /\ e.at = "sent" /\ markets' = Append(markets, [run |-> e.run, by |-> c])
        /\ records' = records /\ creator' = [creator EXCEPT ![c] = entry]
    BY <1>1, <1>5 DEF MineMarket
  <2>2. /\ markets' \in Seq([run : Nat, by : Creators \union {"user"}])
        /\ \A line : Genuine(line) => Genuine(line)'
        /\ Len(markets) + 1 \in DOMAIN markets' /\ Len(markets) + 1 \in Nat
        /\ markets'[Len(markets) + 1] = [run |-> e.run, by |-> c]
    BY <1>1, <2>1, MarketAdded
  <2>3. /\ entry \in [at : {"new", "sent", "mined", "read", "done"},
                      run : Nat, id : Nat, seen : Seq(Lines)]
        /\ entry.at = "mined" /\ entry.run = e.run /\ entry.id = Len(markets) + 1
    BY <1>1, <2>2
  <2> HIDE DEF entry
  <2>4. creator'[c] = entry
    BY <1>1, <2>1
  <2>5. Genuine(Line(c))'
    BY <2>2, <2>3, <2>4 DEF Genuine, Line
  <2>6. QED
    BY <1>1, <2>1, <2>2, <2>3, <2>5, CreatorStep
<1>6. CASE ReadRecords(c)
  <2>1. PICK line, lines, entry :
          /\ line = Line(c) /\ lines = Append(records, line)
          /\ entry = [e EXCEPT !.at = "read", !.seen = lines]
    OBVIOUS
  <2>2. /\ e.at = "mined" /\ markets' = markets /\ records' = records
        /\ creator' = [creator EXCEPT ![c] = entry]
    BY <1>1, <1>6, <2>1 DEF ReadRecords, Minted, Line
  <2>3. line \in Lines /\ line.by = c /\ Genuine(line) /\ line.id = e.id /\ line.run = e.run
    BY <1>1, <2>1, <2>2 DEF Line, Lines, MarketsInv
  <2>4. /\ lines \in Seq(Lines)
        /\ DOMAIN lines = 1 .. (Len(records) + 1)
        /\ DOMAIN records = 1 .. Len(records) /\ Len(records) \in Nat
        /\ lines[Len(records) + 1] = line
        /\ \A i \in 1 .. Len(records) : lines[i] = records[i]
    BY <1>1, <2>1, <2>3
  <2>5. /\ entry \in [at : {"new", "sent", "mined", "read", "done"},
                      run : Nat, id : Nat, seen : Seq(Lines)]
        /\ entry.at = "read" /\ entry.run = e.run /\ entry.id = e.id
        /\ entry.seen = lines
    BY <1>1, <2>1, <2>4
  (* Its own line has an author of its own: the others have finished. *)
  <2>6. Written(lines, c)
    <3>1. ASSUME NEW i \in DOMAIN lines
          PROVE  Genuine(lines[i]) /\ (lines[i].by = c \/ creator[lines[i].by].at = "done")
      <4>1. CASE i \in DOMAIN records
        BY <2>4, <4>1 DEF MarketsInv, Inv
      <4>2. CASE i \notin DOMAIN records
        <5>1. lines[i] = line
          BY <2>4, <4>2
        <5>2. QED
          BY <2>3, <5>1
      <4>3. QED
        BY <4>1, <4>2
    <3>2. \A i \in DOMAIN records : records[i].by # c
      BY <2>2 DEF MarketsInv, Inv
    <3>3. ASSUME NEW i \in DOMAIN lines, NEW j \in DOMAIN lines, lines[i].by = lines[j].by
          PROVE  i = j
      BY <2>3, <2>4, <3>2, <3>3 DEF MarketsInv, Inv
    <3>4. QED
      BY <3>1, <3>3 DEF Written
  <2>7. creator'[c] = entry /\ \A d \in Creators \ {c} : creator'[d] = creator[d]
    BY <1>1, <2>2
  <2>8. \A d \in Creators : creator[d].at = "done" => creator'[d].at = "done"
    BY <2>2, <2>7
  <2>9. Written(entry.seen, c)'
    BY <1>3, <2>2, <2>4, <2>5, <2>6, <2>8, WrittenStays
  <2>10. Genuine(line)' /\ Line(c)' = line
    BY <1>3, <2>1, <2>2, <2>3, <2>5, <2>7 DEF Line
  <2>11. Genuine(Line(c))'
    BY <2>10 DEF Genuine
  <2>12. QED
    BY <1>1, <1>3, <2>2, <2>5, <2>9, <2>11, CreatorStep
<1>7. CASE WriteRecords(c)
  <2>1. PICK lines, entry : lines = e.seen /\ entry = [e EXCEPT !.at = "done", !.seen = <<>>]
    OBVIOUS
  <2>2. /\ e.at = "read" /\ markets' = markets /\ records' = lines
        /\ creator' = [creator EXCEPT ![c] = entry]
    BY <1>1, <1>7, <2>1 DEF WriteRecords
  <2>3. /\ entry \in [at : {"new", "sent", "mined", "read", "done"},
                      run : Nat, id : Nat, seen : Seq(Lines)]
        /\ entry.at = "done"
    BY <1>1, <1>3, <2>1
  <2>4. lines \in Seq(Lines) /\ Written(lines, c)
    BY <1>1, <2>1, <2>2 DEF MarketsInv
  <2>5. creator'[c] = entry /\ \A d \in Creators \ {c} : creator'[d] = creator[d]
    BY <1>1, <2>2
  <2>6. \A d \in Creators : creator[d].at = "done" => creator'[d].at = "done"
    BY <2>3, <2>5
  <2>7. Written(lines, c)'
    BY <1>3, <2>2, <2>4, <2>6, WrittenStays
  <2>8. Written(records, c)'
    BY <2>2, <2>7 DEF Written
  <2>9. QED
    BY <1>1, <1>3, <2>2, <2>3, <2>4, <2>8, CreatorStep
<1>8. CASE CreatorDies(c)
  <2> DEFINE entry == [e EXCEPT !.at = "done", !.seen = <<>>]
  <2>1. /\ e.at # "done" /\ markets' = markets /\ records' = records
        /\ creator' = [creator EXCEPT ![c] = entry]
    BY <1>1, <1>8 DEF CreatorDies
  <2>2. /\ entry \in [at : {"new", "sent", "mined", "read", "done"},
                      run : Nat, id : Nat, seen : Seq(Lines)]
        /\ entry.at = "done"
    BY <1>1, <1>3
  <2> HIDE DEF entry
  <2>3. QED
    BY <1>1, <1>3, <2>1, <2>2, CreatorStep
<1>9. QED
  BY <1>4, <1>5, <1>6, <1>7, <1>8 DEF CreatorNext

LEMMA StepKeepsMarkets ==
  ASSUME Inv, [OperationsNext]_operationsVars
  PROVE  MarketsInv'
<1>1. ASSUME NEW r \in Runs, CreateDirectly(r) PROVE MarketsInv'
  <2>1. /\ markets' = Append(markets, [run |-> r, by |-> "user"])
        /\ creator' = creator /\ records' = records
    BY <1>1 DEF CreateDirectly
  <2>2. r \in Nat /\ MarketsInv
    BY DeploymentAssumption DEF Runs, Inv
  <2>3. /\ markets' \in Seq([run : Nat, by : Creators \union {"user"}])
        /\ \A line : Genuine(line) => Genuine(line)'
    BY <2>1, <2>2, MarketAdded
  <2>4. QED
    BY <2>1, <2>2, <2>3, OnlyMarketsGrow
<1>2. CASE UNCHANGED marketVars
  <2>1. markets' = markets /\ creator' = creator /\ records' = records
    BY <1>2 DEF marketVars
  <2>2. \A line : Genuine(line) => Genuine(line)'
    BY <2>1 DEF Genuine
  <2>3. markets' \in Seq([run : Nat, by : Creators \union {"user"}]) /\ MarketsInv
    BY <2>1 DEF Inv, MarketsInv
  <2>4. QED
    BY <2>1, <2>2, <2>3, OnlyMarketsGrow
<1>3. ScriptNext => UNCHANGED marketVars
  BY DEF ScriptNext, StartScript, SendStep, SaveFile, ScriptDies, MineStep
<1>4. QED
  BY <1>1, <1>2, <1>3, CreatorKeepsMarkets DEF OperationsNext, MarketNext, operationsVars

LEMMA AlwaysInv == OperationsSpec => []Inv
<1>1. OperationsInit => Inv
  BY InitScripts, InitMarkets DEF OperationsInit, Inv
<1>2. Inv /\ [OperationsNext]_operationsVars => Inv'
  BY StepKeepsScripts, StepKeepsMarkets DEF Inv
<1>3. QED
  BY <1>1, <1>2, PTL DEF OperationsSpec

-----------------------------------------------------------------------------
(* A saved deployments.json names a fully wired V1 deployment whatever     *)
(* scripts died before it, and a saved deployments-v2.json one whose       *)
(* missing wiring is on its way (deploy.js, deploy-v2.js).                 *)
THEOREM SavedRunsAreWired == OperationsSpec => []SavedIsWired
<1>1. Inv => SavedIsWired
  BY DEF Inv, ScriptsInv
<1>2. QED
  BY <1>1, AlwaysInv, PTL

(* Every line of markets.json names the market its writer created, each    *)
(* once, for any number of creators that overlap or die (createMarket.js). *)
THEOREM RecordsAreGenuine == OperationsSpec => []RecordsGenuine
<1>1. Inv => RecordsGenuine
  <2> SUFFICES ASSUME Inv PROVE RecordsGenuine
    OBVIOUS
  <2>1. ASSUME NEW i \in DOMAIN records
        PROVE  /\ records[i].id \in NFTsOf(records[i].run)
               /\ markets[records[i].id].by = records[i].by
    <3>1. Genuine(records[i])
      BY DEF Inv, MarketsInv
    <3>2. QED
      BY <3>1 DEF Genuine, NFTsOf
  <2>2. IsInjective(records)
    BY DEF Inv, MarketsInv, IsInjective
  <2>3. QED
    BY <2>1, <2>2 DEF RecordsGenuine
<1>2. QED
  BY <1>1, AlwaysInv, PTL
-----------------------------------------------------------------------------
(* The timelock, for every set of accounts, every delay and every nesting   *)
(* the model allows.                                                       *)

USE ControllerAssumption DEF Holders

(* Every queued action waits at least MIN_TIMELOCK, and what is executed   *)
(* has become ready.  The second part is what keeps a new entry from       *)
(* falling on an executed one: that one was queued in an earlier block.    *)
Waiting ==
  /\ timelockDelay >= MIN_TIMELOCK
  /\ \A id \in queued : /\ id.queuedAt <= now
                        /\ id.executeAfter >= id.queuedAt + MIN_TIMELOCK
  /\ \A id \in executed : now >= id.executeAfter

ControllerInv == TypeOK /\ Waiting /\ NeverBoth

LEMMA InitInv == Init => ControllerInv
  BY DelayAssumption DEF Init, ControllerInv, TypeOK, Waiting, NeverBoth, Roles

(* The fields of plain calls. *)
LEMMA PlainFields ==
  ASSUME NEW call \in PlainCalls
  PROVE  /\ call.op = "grantRole" => call.to \in RoleGrants
         /\ call.op = "revokeRole" => call.to \in Holders
         /\ call.op = "setTimelockDelay" => call.to \in Delays
         /\ call.op \in {"grantRole", "revokeRole", "setTimelockDelay", "external"}
  BY DEF PlainCalls

(* The fields of calls about actions. *)
LEMMA NestedFields ==
  ASSUME NEW call \in NestedCalls
  PROVE  /\ call.op = "queueAction" => call.to \in PlainCalls
         /\ call.op \in {"executeAction", "cancelAction"} => call.to \in PlainIds
         /\ call.op \in {"queueAction", "executeAction", "cancelAction"}
  BY DEF NestedCalls

(* Plain calls leave the queue alone and keep roles and delay well formed. *)
PlainEffect(running) ==
  /\ roles' \in [Holders -> Roles]
  /\ timelockDelay' \in Nat
  /\ timelockDelay' >= MIN_TIMELOCK
  /\ executed' = executed \union running
  /\ queued' = queued /\ cancelled' = cancelled /\ now' = now

LEMMA GrantEffect ==
  ASSUME ControllerInv, NEW caller, NEW grant \in RoleGrants, NEW running,
         GrantRole(caller, grant[1], grant[2], running)
  PROVE  PlainEffect(running)
  BY DEF ControllerInv, TypeOK, Waiting, GrantRole, PlainEffect

LEMMA RevokeEffect ==
  ASSUME ControllerInv, NEW caller, NEW account \in Holders, NEW running,
         RevokeRole(caller, account, running)
  PROVE  PlainEffect(running)
  BY DEF ControllerInv, TypeOK, Waiting, RevokeRole, PlainEffect, Roles

LEMMA DelayEffect ==
  ASSUME ControllerInv, NEW caller, NEW newDelay \in Delays, NEW running,
         SetTimelockDelay(caller, newDelay, running)
  PROVE  PlainEffect(running)
  BY DEF ControllerInv, TypeOK, Waiting, SetTimelockDelay, PlainEffect

LEMMA CallEffect ==
  ASSUME ControllerInv, NEW caller, NEW call \in PlainCalls, NEW running,
         PlainCall(caller, call, running)
  PROVE  PlainEffect(running)
<1>1. CASE call.op = "grantRole" /\ GrantRole(caller, call.to[1], call.to[2], running)
  BY <1>1, PlainFields, GrantEffect
<1>2. CASE call.op = "revokeRole" /\ RevokeRole(caller, call.to, running)
  BY <1>2, PlainFields, RevokeEffect
<1>3. CASE call.op = "setTimelockDelay" /\ SetTimelockDelay(caller, call.to, running)
  BY <1>3, PlainFields, DelayEffect
<1>4. CASE call.op = "external" /\ ExternalCall(running)
  BY <1>4 DEF ExternalCall, PlainEffect, ControllerInv, TypeOK, Waiting
<1> QED BY <1>1, <1>2, <1>3, <1>4 DEF PlainCall

-----------------------------------------------------------------------------
(* The actions a call may be part of: ready ones. *)
AllReady(running) == \A id \in running : IsReady(id)

(* What a step promises: the flag executed is only raised, on ready        *)
(* actions, and cancellations from earlier blocks stay.                    *)
Promise ==
  /\ executed \subseteq executed'
  /\ \A id \in executed' \ executed : IsReady(id)
  /\ \A id \in cancelled : id.queuedAt < now => id \in cancelled'

LEMMA PlainStep ==
  ASSUME ControllerInv, NEW running, AllReady(running), PlainEffect(running)
  PROVE  ControllerInv' /\ Promise
  BY DEF ControllerInv, TypeOK, Waiting, NeverBoth, AllReady, IsReady, PlainEffect, Promise

LEMMA NewIdFields ==
  ASSUME ControllerInv, NEW call \in PlainCalls \union NestedCalls
  PROVE  /\ NewId(call) \in Ids
         /\ NewId(call).queuedAt = now
         /\ NewId(call).executeAfter >= now + MIN_TIMELOCK
         /\ \A id \in executed : id.queuedAt < now
  <1>1. /\ now \in Nat /\ timelockDelay \in Nat /\ timelockDelay >= MIN_TIMELOCK
    BY DEF ControllerInv, TypeOK, Waiting
  <1>2. NewId(call) \in Ids
    BY <1>1 DEF NewId, Ids
  <1>3. NewId(call).queuedAt = now /\ NewId(call).executeAfter = now + timelockDelay
    BY DEF NewId
  <1>4. ASSUME NEW id \in executed PROVE id.queuedAt < now
    <2>1. id \in queued /\ id \in Ids
      BY DEF ControllerInv, TypeOK
    <2>2. id.queuedAt \in Nat /\ id.executeAfter \in Nat
      BY <2>1 DEF Ids
    <2>3. id.executeAfter >= id.queuedAt + MIN_TIMELOCK /\ now >= id.executeAfter
      BY <2>1 DEF ControllerInv, Waiting
    <2> QED BY <1>1, <2>2, <2>3
  <1> QED BY <1>1, <1>2, <1>3, <1>4

LEMMA QueueStep ==
  ASSUME ControllerInv, NEW caller, NEW call \in PlainCalls \union NestedCalls, NEW running,
         AllReady(running), QueueAction(caller, call, running)
  PROVE  ControllerInv' /\ Promise
<1> DEFINE id == NewId(call)
<1>1. /\ id \in Ids /\ id.queuedAt = now
      /\ id.executeAfter >= now + MIN_TIMELOCK
      /\ \A other \in executed : other.queuedAt < now
  BY NewIdFields
<1>2. /\ queued' = queued \union {id}
      /\ executed' = (executed \union running) \ {id}
      /\ cancelled' = cancelled \ {id}
      /\ roles' = roles /\ timelockDelay' = timelockDelay /\ now' = now
  BY DEF QueueAction
<1>3. now \in Nat /\ timelockDelay \in Nat
  BY DEF ControllerInv, TypeOK
<1> HIDE DEF id
<1>4. id \notin executed
  BY <1>1, <1>3
<1>5. TypeOK'
  BY <1>1, <1>2 DEF ControllerInv, TypeOK, AllReady, IsReady
<1>6. Waiting'
  BY <1>1, <1>2, <1>3 DEF ControllerInv, Waiting, AllReady, IsReady
<1>7. NeverBoth'
  BY <1>2 DEF ControllerInv, NeverBoth, AllReady, IsReady
<1>8. Promise
  BY <1>1, <1>2, <1>3, <1>4 DEF Promise, AllReady
<1> QED BY <1>5, <1>6, <1>7, <1>8 DEF ControllerInv

LEMMA CancelStep ==
  ASSUME ControllerInv, NEW caller, NEW id, NEW running,
         AllReady(running), CancelAction(caller, id, running)
  PROVE  ControllerInv' /\ Promise
  BY DEF ControllerInv, TypeOK, Waiting, NeverBoth, AllReady, IsReady, CancelAction, Promise

LEMMA ExecuteStep ==
  ASSUME ControllerInv, NEW caller, NEW id \in queued, ExecuteAction(caller, id)
  PROVE  ControllerInv' /\ Promise
<1>1. IsReady(id) /\ AllReady({id})
  BY DEF ExecuteAction, AllReady
<1>2. id.call \in PlainCalls \union NestedCalls
  BY DEF ControllerInv, TypeOK, Ids
<1>3. CASE PlainCall(Controller, id.call, {id})
  <2>1. id.call.op \in {"grantRole", "revokeRole", "setTimelockDelay", "external"}
    BY <1>3 DEF PlainCall
  <2>2. id.call \in PlainCalls
    BY <1>2, <2>1, NestedFields
  <2> QED BY <1>1, <1>3, <2>2, CallEffect, PlainStep
<1>4. CASE id.call.op = "queueAction" /\ QueueAction(Controller, id.call.to, {id})
  <2>1. id.call.to \in PlainCalls
    BY <1>2, <1>4, PlainFields, NestedFields
  <2> QED BY <1>1, <1>4, <2>1, QueueStep
<1>5. CASE id.call.op = "cancelAction" /\ CancelAction(Controller, id.call.to, {id})
  BY <1>1, <1>5, CancelStep
<1>6. CASE id.call.op = "executeAction" /\ ExecutePlain(Controller, id.call.to, {id})
  <2> DEFINE inner == id.call.to
  <2>1. inner \in PlainIds
    BY <1>2, <1>6, PlainFields, NestedFields
  <2>2. inner.call \in PlainCalls
    BY <2>1 DEF PlainIds
  <2>3. /\ IsReady(inner)
        /\ PlainCall(Controller, inner.call, {id} \union {inner})
    BY <1>6 DEF ExecutePlain
  <2>4. AllReady({id} \union {inner})
    BY <1>1, <2>3 DEF AllReady
  <2> HIDE DEF inner
  <2> QED BY <2>2, <2>3, <2>4, CallEffect, PlainStep
<1> QED BY <1>3, <1>4, <1>5, <1>6 DEF ExecuteAction

LEMMA BlockStep ==
  ASSUME ControllerInv, NextBlock
  PROVE  ControllerInv' /\ Promise
<1>1. now \in Nat /\ now' \in Nat /\ now < now'
  BY DEF ControllerInv, TypeOK, NextBlock
<1>2. /\ queued' = queued /\ executed' = executed /\ cancelled' = cancelled
      /\ roles' = roles /\ timelockDelay' = timelockDelay
  BY DEF NextBlock, actionVars
<1>3. ASSUME NEW id \in queued PROVE id.queuedAt \in Nat /\ id.executeAfter \in Nat
  BY DEF ControllerInv, TypeOK, Ids
<1>4. TypeOK' /\ NeverBoth' /\ Promise
  BY <1>1, <1>2 DEF ControllerInv, TypeOK, NeverBoth, Promise
<1>5. executed \subseteq queued
  BY DEF ControllerInv, TypeOK
<1>6. Waiting'
  BY <1>1, <1>2, <1>3, <1>5 DEF ControllerInv, Waiting
<1> QED BY <1>4, <1>6 DEF ControllerInv

LEMMA StepInv == ControllerInv /\ [Next]_vars => ControllerInv' /\ Promise
<1> SUFFICES ASSUME ControllerInv, [Next]_vars PROVE ControllerInv' /\ Promise
  OBVIOUS
<1>0. AllReady({})
  BY DEF AllReady
<1>1. CASE UNCHANGED vars
  BY <1>1 DEF vars, actionVars, ControllerInv, TypeOK, Waiting, NeverBoth, Promise
<1>2. ASSUME NEW caller \in Accounts, NEW grant \in RoleGrants,
             GrantRole(caller, grant[1], grant[2], {})
      PROVE  ControllerInv' /\ Promise
  BY <1>0, <1>2, GrantEffect, PlainStep
<1>3. ASSUME NEW caller \in Accounts, NEW account \in Holders,
             RevokeRole(caller, account, {})
      PROVE  ControllerInv' /\ Promise
  BY <1>0, <1>3, RevokeEffect, PlainStep
<1>4. ASSUME NEW caller \in Accounts, NEW newDelay \in Delays,
             SetTimelockDelay(caller, newDelay, {})
      PROVE  ControllerInv' /\ Promise
  BY <1>0, <1>4, DelayEffect, PlainStep
<1>5. ASSUME NEW caller \in Accounts, NEW call \in Queueable,
             QueueAction(caller, call, {})
      PROVE  ControllerInv' /\ Promise
  <2>1. call \in PlainCalls \union NestedCalls
    BY DEF Queueable, NestedCalls
  <2> QED BY <1>0, <1>5, <2>1, QueueStep
<1>6. ASSUME NEW caller \in Accounts, NEW id \in queued, ExecuteAction(caller, id)
      PROVE  ControllerInv' /\ Promise
  BY <1>6, ExecuteStep
<1>7. ASSUME NEW caller \in Accounts, NEW id \in queued, CancelAction(caller, id, {})
      PROVE  ControllerInv' /\ Promise
  BY <1>0, <1>7, CancelStep
<1>8. CASE NextBlock
  BY <1>8, BlockStep
<1> QED BY <1>1, <1>2, <1>3, <1>4, <1>5, <1>6, <1>7, <1>8 DEF Next

(* The invariant holds throughout. *)
LEMMA Invariance == Spec => []ControllerInv
  BY InitInv, StepInv, PTL DEF Spec

-----------------------------------------------------------------------------
(* The state stays well formed: no flag without an entry in queuedActions. *)
THEOREM TypeCorrect == Spec => []TypeOK
<1>1. ControllerInv => TypeOK
  BY DEF ControllerInv
<1> QED BY <1>1, Invariance, PTL

(* executeAction and cancelAction exclude each other, at any depth of      *)
(* calls: no action is both executed and cancelled.                        *)
THEOREM ExecutedOrCancelled == Spec => []NeverBoth
<1>1. ControllerInv => NeverBoth
  BY DEF ControllerInv
<1> QED BY <1>1, Invariance, PTL

(* queueAction never clears the flag of an executed action: no queued call *)
(* runs twice.                                                             *)
THEOREM ExecutedOnce == Spec => ExecutedIsFinal
<1>1. ControllerInv /\ [Next]_vars => [executed \subseteq executed']_vars
  BY StepInv DEF Promise
<1> QED BY <1>1, Invariance, PTL DEF Spec, ExecutedIsFinal

(* cancelAction is for good once the block of queueAction is over.         *)
THEOREM CancelledForGood == Spec => CancelledIsFinal
<1>1. ControllerInv /\ [Next]_vars
        => [\A id \in cancelled : id.queuedAt < now
              => id \in cancelled' /\ id \notin executed']_vars
  BY StepInv DEF Promise, ControllerInv, NeverBoth
<1> QED BY <1>1, Invariance, PTL DEF Spec, CancelledIsFinal

(* executeAction runs nothing before MIN_TIMELOCK has passed since         *)
(* queueAction, nor after the action expired.                              *)
THEOREM TimelockHolds == Spec => TimelockRespected
<1>1. ControllerInv /\ [Next]_vars
        => [\A id \in executed' \ executed :
              /\ now >= id.queuedAt + MIN_TIMELOCK
              /\ now <= id.executeAfter + ACTION_EXPIRY]_vars
  <2> SUFFICES ASSUME ControllerInv, [Next]_vars, NEW id \in executed' \ executed
               PROVE  /\ now >= id.queuedAt + MIN_TIMELOCK
                      /\ now <= id.executeAfter + ACTION_EXPIRY
    OBVIOUS
  <2>1. IsReady(id)
    BY StepInv DEF Promise
  <2>2. id \in queued /\ now >= id.executeAfter /\ now <= id.executeAfter + ACTION_EXPIRY
    BY <2>1 DEF IsReady
  <2>3. /\ now \in Nat /\ id.queuedAt \in Nat /\ id.executeAfter \in Nat
        /\ id.executeAfter >= id.queuedAt + MIN_TIMELOCK
    BY <2>2 DEF ControllerInv, TypeOK, Ids, Waiting
  <2> QED BY <2>2, <2>3
<1> QED BY <1>1, Invariance, PTL DEF Spec, TimelockRespected
=============================================================================
