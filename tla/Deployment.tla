----------------------------- MODULE Deployment -----------------------------
(***************************************************************************)
(* scripts/deploy.js, deploy-v2.js and createMarket.js against a chain     *)
(* that mines the deployer's transactions in nonce order.  A script awaits *)
(* a deployment until it is mined, a setter only until it is sent; it may  *)
(* die at any step, and the next run starts from fresh contracts.  Market  *)
(* creators are processes of their own that share markets.json.            *)
(***************************************************************************)
EXTENDS Integers, SequencesExt

CONSTANTS Creators,     \* processes that run createMarket.js
          MaxRuns,      \* runs of the deployment scripts
          MaxMarkets    \* markets in all

ASSUME DeploymentAssumption == MaxRuns \in Nat

Versions == {"v1", "v2"}
Runs == 1..MaxRuns

VARIABLES version,      \* which script each run executes
          run, pc,      \* the current run and its next step, 0 when it ended
          pending,      \* transactions sent and not mined, in nonce order
          deployed, links,  \* contracts of each run, addresses stored in them
          file,         \* the run saved in deployments[-v2].json, 0 if none
          markets,      \* markets in order of creation: run and creator
          creator,      \* each creator's progress
          records       \* markets.json

deployVars == <<version, run, pc, pending, deployed, links, file>>
marketVars == <<markets, creator, records>>

New(c) == [op |-> "new", of |-> c, links |-> {}]
Set(c, addresses) == [op |-> "set", of |-> c, links |-> {c} \X addresses]

\* The V1 setters: each may be called once.  On the emitter, setFactory also
\* authorizes the three callers.
SetUSIDFactory == Set("usid", {"factory"})
SetUSIDOracle == Set("usid", {"oracle"})
SetEmitterFactory ==
  [Set("emitter", {"factory"}) EXCEPT
     !.links = @ \cup ({"authorized"} \X {"factory", "nft", "collector"})]
SetNFTFactory == Set("nft", {"factory", "collector", "emitter"})
SetCollectorFactory == Set("collector", {"factory", "nft", "emitter"})

DeployV1_WireLast ==
  << New("usid"), New("oracle"), New("emitter"), New("nft"), New("collector"),
     New("factory"), New("quoter"), New("router"),
     SetUSIDFactory, SetUSIDOracle, SetEmitterFactory, SetNFTFactory,
     SetCollectorFactory >>

DeployV1 ==
  << New("usid"), New("oracle"), New("emitter"), New("nft"), New("collector"),
     New("factory"),
     SetUSIDFactory, SetUSIDOracle, SetEmitterFactory, SetNFTFactory,
     SetCollectorFactory,
     New("quoter"), New("router") >>

DeployV2 ==
  << New("admin"), New("registry"), New("emitter"), New("nft"),
     New("collector"), New("factory"), New("quoter"), New("router"),
     Set("emitter", {"factory"}),
     Set("authorized", {"factory"}), Set("authorized", {"nft"}),
     Set("authorized", {"collector"}),
     Set("nft", {"factory", "collector", "emitter"}),
     Set("collector", {"factory", "nft", "emitter", "registry"}) >>

Script(v) == IF v = "v1" THEN DeployV1 ELSE DeployV2
LinksOf(v) == UNION {step.links : step \in ToSet(Script(v))}

DeployInit ==
  /\ version = [r \in Runs |-> "v1"] /\ run = 0 /\ pc = 0 /\ pending = <<>>
  /\ deployed = [r \in Runs |-> {}] /\ links = [r \in Runs |-> {}]
  /\ file = [v \in Versions |-> 0]
  /\ markets = <<>> /\ records = <<>>
  /\ creator = [c \in Creators |->
                  [at |-> "new", run |-> 0, id |-> 0, seen |-> <<>>]]

Steps == Script(version[run])

\* waitForDeployment: the contract created by the last step is mined.
Awaited ==
  pc > 1 => (Steps[pc - 1].op = "new" => Steps[pc - 1].of \in deployed[run])

StartScript(v) ==
  /\ pc = 0 /\ run < MaxRuns
  /\ run' = run + 1 /\ pc' = 1 /\ version' = [version EXCEPT ![run + 1] = v]
  /\ UNCHANGED <<pending, deployed, links, file, marketVars>>

SendStep ==
  /\ pc # 0 /\ pc <= Len(Steps) /\ Awaited
  /\ pending' = Append(pending, [run |-> run, step |-> Steps[pc]])
  /\ pc' = pc + 1
  /\ UNCHANGED <<version, run, deployed, links, file, marketVars>>

SaveFile ==
  /\ pc # 0 /\ pc > Len(Steps) /\ Awaited
  /\ file' = [file EXCEPT ![version[run]] = run] /\ pc' = 0
  /\ UNCHANGED <<version, run, pending, deployed, links, marketVars>>

\* A call to the node throws, the process is killed, or deploy-v2.js finds
\* no stablecoin configured: the script exits and undoes nothing.
ScriptDies ==
  /\ pc # 0 /\ pc' = 0
  /\ UNCHANGED <<version, run, pending, deployed, links, file, marketVars>>

MineStep ==
  /\ pending # <<>>
  /\ LET tx == Head(pending) IN
       IF tx.step.op = "new"
       THEN deployed' = [deployed EXCEPT ![tx.run] = @ \cup {tx.step.of}] /\ UNCHANGED links
       ELSE links' = [links EXCEPT ![tx.run] = @ \cup tx.step.links] /\ UNCHANGED deployed
  /\ pending' = Tail(pending)
  /\ UNCHANGED <<version, run, pc, file, marketVars>>

-----------------------------------------------------------------------------
(* Creating markets                                                        *)

\* The calls a factory makes in createMarket succeed: USID mints for it (v1),
\* the emitter authorizes and reports for it, the NFT contract mints for it.
Creatable(r) ==
  /\ "factory" \in deployed[r]
  /\ {<<"emitter", "factory">>, <<"nft", "factory">>} \subseteq links[r]
  /\ version[r] = "v1" => <<"usid", "factory">> \in links[r]

NFTsOf(r) == {i \in DOMAIN markets : markets[i].run = r}
LastMarket(r) == CHOOSE i \in NFTsOf(r) : \A j \in NFTsOf(r) : j <= i

\* Anyone may call a factory directly.
CreateDirectly(r) ==
  /\ Creatable(r) /\ Len(markets) < MaxMarkets
  /\ markets' = Append(markets, [run |-> r, by |-> "user"])
  /\ UNCHANGED <<deployVars, creator, records>>

\* createMarket.js reads deployments.json; gas estimation rejects a call that
\* would revert, so nothing is sent to a factory that is not wired.
SendMarket(c) ==
  /\ creator[c].at = "new" /\ file["v1"] # 0 /\ Creatable(file["v1"])
  /\ creator' = [creator EXCEPT ![c].at = "sent", ![c].run = file["v1"]]
  /\ UNCHANGED <<deployVars, markets, records>>

MineMarket(c) ==
  /\ creator[c].at = "sent" /\ Len(markets) < MaxMarkets
  /\ markets' = Append(markets, [run |-> creator[c].run, by |-> c])
  /\ creator' = [creator EXCEPT ![c].at = "mined", ![c].id = Len(markets) + 1]
  /\ UNCHANGED <<deployVars, records>>

\* The position to record: the one in the receipt's MarketCreated log.
Minted_Count(c) == LastMarket(creator[c].run)
Minted(c) == creator[c].id

\* Reading and rewriting markets.json are two steps for another process.
ReadRecords(c) ==
  /\ creator[c].at = "mined"
  /\ creator' = [creator EXCEPT ![c].at = "read", ![c].seen =
       Append(records, [run |-> creator[c].run, id |-> Minted(c), by |-> c])]
  /\ UNCHANGED <<deployVars, markets, records>>

WriteRecords(c) ==
  /\ creator[c].at = "read"
  /\ records' = creator[c].seen
  /\ creator' = [creator EXCEPT ![c].at = "done", ![c].seen = <<>>]
  /\ UNCHANGED <<deployVars, markets>>

\* A creator that dies has created its market or not, and records nothing.
CreatorDies(c) ==
  /\ creator[c].at \in {"mined", "read"}
  /\ creator' = [creator EXCEPT ![c].at = "done", ![c].seen = <<>>]
  /\ UNCHANGED <<deployVars, markets, records>>

ScriptNext ==
  (\E v \in Versions : StartScript(v)) \/ SendStep \/ SaveFile \/ ScriptDies \/ MineStep

CreatorNext(c) ==
  SendMarket(c) \/ MineMarket(c) \/ ReadRecords(c) \/ WriteRecords(c) \/ CreatorDies(c)

MarketNext == (\E r \in Runs : CreateDirectly(r)) \/ (\E c \in Creators : CreatorNext(c))

-----------------------------------------------------------------------------
\* What a saved file names is fit for use: for v1 every address is wired when
\* deployments.json appears, since the awaited quoter and router follow the
\* setters in nonce order; for v2, which wires last and awaits nothing, the
\* rest is at least on its way.
SavedIsWired ==
  /\ file["v1"] # 0 => LinksOf("v1") \subseteq links[file["v1"]]
  /\ file["v2"] # 0 =>
       LinksOf("v2") \subseteq links[file["v2"]] \cup
         UNION {tx.step.links : tx \in {t \in ToSet(pending) : t.run = file["v2"]}}

\* Each line of markets.json names a market that its writer created on that
\* deployment, and no market twice, whoever else creates markets meanwhile.
\* (A line may be missing: after a crash, or when two writers overlap.)
RecordsGenuine ==
  /\ \A i \in DOMAIN records :
       /\ records[i].id \in NFTsOf(records[i].run)
       /\ markets[records[i].id].by = records[i].by
  /\ IsInjective(records)
=============================================================================
