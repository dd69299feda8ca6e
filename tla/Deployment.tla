----------------------------- MODULE Deployment -----------------------------
(***************************************************************************)
(* The command `deploy marginly': cli/src/command/deploy, which keeps the  *)
(* state file and deployment.json, and deploy/src, which sends one         *)
(* transaction after the other.  A run may be killed, or fail, between any *)
(* two steps, while what it sent is still mined; the operator starts it    *)
(* again over the state file, and may have changed the configuration.      *)
(*                                                                         *)
(* The chain is the sequence of the transactions the signer sent, of which *)
(* a prefix is mined; a contract's address is the number of the            *)
(* transaction that created it, and what it stores is read off the         *)
(* transactions that were sent to it.                                      *)
(***************************************************************************)
EXTENDS Naturals, Sequences, FiniteSets, SequencesExt

CONSTANTS Configs,    \* config.json, and what the operator later makes of it
          Torn,       \* a file whose writing was interrupted, so no JSON
          MaxPending, \* bound: transactions sent and not yet mined
          MaxCrashes, \* bound: runs killed, or failed for an outside reason
          MaxReruns   \* bound: runs that have nothing left to do, or no report to merge into

(***************************************************************************)
(* A configuration lists tokens (the mintable ones: others exist already), *)
(* oracles with their settings, adapters, pools and keepers.               *)
(***************************************************************************)
TokenId(symbol) == <<"token", symbol>>
OracleId(id) == <<"priceOracle", id>>
AdapterId(a) == <<a.name, a.dexId>>
PoolId(id) == <<"marginlyPool", id>>
KeeperId(k) == <<"marginlyKeeper", k>>
Implementation == <<"marginlyPoolImplementation">>
Factory == <<"marginlyFactory">>
Router == <<"MarginlyRouter">>

\* Chainlink and Pyth oracles are told their pairs by every run, and a pool
\* cannot be created with one.
Pairs == {"chainlink", "pyth"}
\* The other oracles, but Pendle's, are asked for a price once they are set.
Priced == {"uniswapV3", "uniswapV3Double", "algebra", "curve"}
\* Their transactions are waited for.
Awaited == {"uniswapV3", "algebra", "curve", "pendle"}

Deploy(id) == [do |-> "deploy", id |-> id]
DeployAll(ids) == [i \in DOMAIN ids |-> Deploy(ids[i])]

ProcessOracle(o) ==
  <<Deploy(OracleId(o.id))>>
    \o [i \in DOMAIN o.settings |-> [do |-> "configure", id |-> OracleId(o.id),
                                     kind |-> o.kind, setting |-> o.settings[i]]]

(***************************************************************************)
(* deployMarginly: what a run does, in order.                              *)
(***************************************************************************)
Plan(c) ==
  DeployAll([i \in DOMAIN c.tokens |-> TokenId(c.tokens[i].symbol)])
    \o FlattenSeq([i \in DOMAIN c.oracles |-> ProcessOracle(c.oracles[i])])
    \o DeployAll([i \in DOMAIN c.adapters |-> AdapterId(c.adapters[i])])
    \o <<Deploy(Router), [do |-> "wire"], Deploy(Implementation), Deploy(Factory)>>
    \o [i \in DOMAIN c.pools |-> [do |-> "pool", id |-> PoolId(c.pools[i].id),
                                  pool |-> c.pools[i]]]
    \o DeployAll([i \in DOMAIN c.keepers |-> KeeperId(c.keepers[i])])
    \o <<[do |-> "report"]>>
Plans == [i \in DOMAIN Configs |-> Plan(Configs[i])]

(***************************************************************************)
(* What a configuration has to satisfy.  The code rejects pools of one id, *)
(* pools whose oracle is unknown or of a kind that index.ts:196 does not   *)
(* return, oracles of a kind it does not know, and Pendle oracles without  *)
(* their secondary one; it does not notice two oracles of one id or two    *)
(* adapters of one dex.  Adapters have the names of their contracts, and 0 *)
(* stands for no options.                                                  *)
(***************************************************************************)
WellFormed(c) ==
  /\ \A i, j \in DOMAIN c.pools : c.pools[i].id = c.pools[j].id => i = j
  /\ \A i \in DOMAIN c.pools : \E j \in DOMAIN c.oracles :
       c.pools[i].oracle = c.oracles[j].id /\ c.oracles[j].kind \notin Pairs
  /\ \A i, j \in DOMAIN c.oracles : c.oracles[i].id = c.oracles[j].id => i = j
  /\ \A i \in DOMAIN c.oracles : c.oracles[i].kind = "pendle" =>
       \A s \in DOMAIN c.oracles[i].settings : \E j \in 1..(i - 1) :
         c.oracles[j].id = c.oracles[i].settings[s].options
  /\ \A i, j \in DOMAIN c.adapters : c.adapters[i].dexId = c.adapters[j].dexId => i = j
  /\ \A i \in DOMAIN c.adapters : c.adapters[i].name # "marginlyPool"
  /\ \A i \in DOMAIN c.oracles :
       /\ c.oracles[i].kind \in Pairs \cup Priced \cup {"pendle"}
       /\ c.oracles[i].kind # "pendle" =>
            \A s \in DOMAIN c.oracles[i].settings : c.oracles[i].settings[s].options # 0

\* A JSON array.
IsList(q) == q \in Seq(Range(q))

ASSUME DeploymentAssumption ==
  /\ IsList(Configs) /\ Configs # <<>>
  /\ \A c \in Range(Configs) :
       /\ IsList(c.tokens) /\ IsList(c.oracles) /\ IsList(c.adapters)
       /\ IsList(c.pools) /\ IsList(c.keepers)
       /\ \A o \in Range(c.oracles) : IsList(o.settings)
       /\ WellFormed(c)
  /\ MaxPending \in Nat \ {0} /\ MaxCrashes \in Nat /\ MaxReruns \in Nat

VARIABLES
  txs,        \* every transaction of the signer, in the order of the nonces
  mined,      \* how many of them are mined
  blockStart, \* the first one in the last block that holds any
  file,       \* the state file: the address recorded for an id, or Torn
  report,     \* deployment.json: the addresses of the pools and keepers, or Torn
  config,     \* config.json is Configs[config]
  task, step, \* where the run is in the plan; no run when task = 0
  store,      \* the run's copy of the state file
  finished,   \* the last run ended well, and config.json is the one it read
  crashes, reruns

chain == <<txs, mined, blockStart>>
files == <<file, report>>
run == <<task, step, store>>
vars == <<chain, files, config, run, finished, crashes, reruns>>

TypeOK ==
  /\ \A n \in DOMAIN txs : txs[n].kind \in {"create", "options", "adapters"}
  /\ mined \in 0..Len(txs) /\ blockStart \in 0..Len(txs)
  /\ Len(txs) - mined <= MaxPending
  /\ config \in DOMAIN Configs
  /\ task \in 0..Len(Plans[config])
  /\ step \in {"begin", "wait", "check"}
  /\ \A id \in DOMAIN store : store[id] \in DOMAIN txs
  /\ finished \in BOOLEAN
  /\ crashes \in 0..MaxCrashes /\ reruns \in 0..MaxReruns

NoRecords == <<>>

Init ==
  /\ txs = <<>> /\ mined = 0 /\ blockStart = 0
  /\ file = NoRecords /\ report = NoRecords
  /\ config = 1
  /\ task = 0 /\ step = "begin" /\ store = NoRecords
  /\ finished = FALSE /\ crashes = 0 /\ reruns = 0

----------------------------------------------------------------------------
\* What the contracts hold

Max0(S) == CHOOSE n \in S \cup {0} : \A m \in S : m <= n

\* adapters[dexId] of a router, which its constructor or addDexAdapters set.
AdapterOf(router, dexId) ==
  LET Sets(m) == m = router \/ (txs[m].kind = "adapters" /\ txs[m].to = router)
      n == Max0({m \in 1..mined : Sets(m) /\ dexId \in DOMAIN txs[m].data})
  IN  IF n = 0 THEN 0 ELSE txs[n].data[dexId]

\* The options of an oracle for a pair of tokens, 0 when there are none.
OptionsOf(oracle, pair) ==
  LET n == Max0({m \in 1..mined : txs[m].kind = "options" /\ txs[m].to = oracle
                                    /\ txs[m].id = pair})
  IN  IF n = 0 THEN 0 ELSE txs[n].data

IsContract(a, id) == a \in 1..mined /\ txs[a].kind = "create" /\ txs[a].id = id

----------------------------------------------------------------------------
\* The run

Task == Plans[config][task]
At(do, s) == task # 0 /\ Task.do = do /\ step = s
NextTask == task' = task + 1 /\ step' = "begin"

Send(kind, id, to, data) ==
  /\ Len(txs) - mined < MaxPending
  /\ txs' = Append(txs, [kind |-> kind, id |-> id, to |-> to, data |-> data])
  /\ UNCHANGED <<mined, blockStart>>
AllMined == mined = Len(txs)

\* Mutant of SetById: the file is left for the end of the run.
SetInMemory(id, address) ==
  /\ store' = [i \in DOMAIN store \cup {id} |-> IF i = id THEN address ELSE store[i]]
  /\ UNCHANGED file
  /\ NextTask

\* setById writes the whole state file, and the run goes on.
SetById(id, address) ==
  /\ store' = [i \in DOMAIN store \cup {id} |-> IF i = id THEN address ELSE store[i]]
  /\ file' = store'
  /\ NextTask

\* The run ends; the next one finds what the files hold.
Exit == task' = 0 /\ step' = "begin" /\ store' = NoRecords

TokenAddress(t) ==
  LET mintable == Range(Configs[config].tokens)
  IN  IF \E m \in mintable : m.id = t
        THEN store[TokenId((CHOOSE m \in mintable : m.id = t).symbol)]
        ELSE t
AdapterFor(c, dexId) == CHOOSE a \in Range(c.adapters) : a.dexId = dexId
DexIds(c) == {a.dexId : a \in Range(c.adapters)}

\* What the constructor is given, as far as it is deployed here.
ConstructorArgs(id) ==
  CASE id = Router -> [d \in DexIds(Configs[config]) |-> store[AdapterId(AdapterFor(Configs[config], d))]]
    [] id = Factory -> <<store[Implementation], store[Router]>>
    [] OTHER -> <<>>

(***************************************************************************)
(* createStateStore: the state file is parsed once, when the run starts.   *)
(* A torn one makes JSON.parse throw.                                      *)
(***************************************************************************)
Start(again) ==
  /\ task = 0 /\ file # Torn
  /\ (finished \/ report = Torn) = again
  /\ task' = 1 /\ step' = "begin" /\ store' = file
  /\ finished' = FALSE
  /\ UNCHANGED <<chain, files, config, crashes>>

Resume == Start(FALSE) /\ UNCHANGED reruns
Rerun == Start(TRUE) /\ reruns < MaxReruns /\ reruns' = reruns + 1

\* deployTemplate and getOrCreateMarginlyPool: the id is in the state file.
Import ==
  /\ At("deploy", "begin") \/ At("pool", "begin")
  /\ Task.id \in DOMAIN store
  /\ NextTask
  /\ UNCHANGED <<chain, files, config, store, finished, crashes, reruns>>

DeployContract ==
  /\ At("deploy", "begin")
  /\ Task.id \notin DOMAIN store
  /\ Send("create", Task.id, 0, ConstructorArgs(Task.id))
  /\ step' = "wait"
  /\ UNCHANGED <<files, config, task, store, finished, crashes, reruns>>

\* Mutant of Deployed: the address is computed from the nonce after the one used.
DeployedAtNextNonce ==
  /\ At("deploy", "wait") /\ AllMined
  /\ SetById(Task.id, Len(txs) + 1)
  /\ UNCHANGED <<chain, report, config, finished, crashes, reruns>>

\* Mutant of Deployed: deployed() is not awaited.
DeployedSoon ==
  /\ At("deploy", "wait")
  /\ SetById(Task.id, Len(txs))
  /\ UNCHANGED <<chain, report, config, finished, crashes, reruns>>

\* deployed() returns, and the contract is recorded.
Deployed ==
  /\ At("deploy", "wait") /\ AllMined
  /\ SetById(Task.id, Len(txs))
  /\ UNCHANGED <<chain, report, config, finished, crashes, reruns>>

\* Whether the setting of an oracle has to be sent; "options" of a Pendle
\* oracle is the id of its secondary oracle, which is looked up in the state.
OptionsFor(t) ==
  IF t.kind = "pendle" THEN store[OracleId(t.setting.options)] ELSE t.setting.options
\* Mutant of MustSet: only options that an oracle already has are compared.
MustUpdate(t) ==
  LET current == OptionsOf(store[t.id], t.setting.pair)
  IN  IF t.kind \in Priced THEN current # 0 /\ current # OptionsFor(t)
      ELSE t.kind \in Pairs \/ current = 0
\* Mutant of MustSet: what the oracle holds is compared for Pendle only.
MustSetAlways(t) ==
  t.kind = "pendle" => OptionsOf(store[t.id], t.setting.pair) = 0
MustSet(t) ==
  LET current == OptionsOf(store[t.id], t.setting.pair)
  IN  \/ t.kind \in Pairs
      \/ t.kind = "pendle" /\ current = 0
      \/ t.kind \in Priced /\ current # OptionsFor(t)

\* setOptions, setPair or addPool.
SetOptions ==
  /\ At("configure", "begin") /\ MustSet(Task)
  /\ Send("options", Task.setting.pair, store[Task.id], OptionsFor(Task))
  /\ step' = IF Task.kind \in Awaited THEN "wait" ELSE "check"
  /\ UNCHANGED <<files, config, task, store, finished, crashes, reruns>>

KeepOptions ==
  /\ \/ At("configure", "begin") /\ ~MustSet(Task)
     \/ At("configure", "wait") /\ AllMined
  /\ step' = "check"
  /\ UNCHANGED <<chain, files, config, task, store, finished, crashes, reruns>>

\* getBalancePrice and getMargincallPrice revert when the pair has no options.
PriceMissing ==
  Task.kind \in Priced /\ OptionsOf(store[Task.id], Task.setting.pair) = 0

CheckOracle ==
  /\ At("configure", "check")
  /\ \/ ~PriceMissing /\ NextTask /\ UNCHANGED store
     \/ PriceMissing /\ Exit
  /\ UNCHANGED <<chain, files, config, finished, crashes, reruns>>

\* deployMarginlyRouter compares what the router holds; addDexAdapters is not
\* waited for.
\* Mutant of AdaptersToAdd: only a dex that has no adapter gets one.
AdaptersMissing == {d \in DexIds(Configs[config]) : AdapterOf(store[Router], d) = 0}
AdaptersToAdd ==
  {d \in DexIds(Configs[config]) :
     AdapterOf(store[Router], d) # store[AdapterId(AdapterFor(Configs[config], d))]}

WireRouter ==
  /\ At("wire", "begin")
  /\ IF AdaptersToAdd = {} THEN UNCHANGED chain
     ELSE Send("adapters", Router, store[Router],
               [d \in AdaptersToAdd |-> store[AdapterId(AdapterFor(Configs[config], d))]])
  /\ NextTask
  /\ UNCHANGED <<files, config, store, finished, crashes, reruns>>

CreatePool ==
  /\ At("pool", "begin")
  /\ Task.id \notin DOMAIN store
  /\ Send("create", Task.id, store[Factory],
          [quote |-> TokenAddress(Task.pool.quote), base |-> TokenAddress(Task.pool.base),
           oracle |-> store[OracleId(Task.pool.oracle)]])
  /\ step' = "wait"
  /\ UNCHANGED <<files, config, task, store, finished, crashes, reruns>>

\* PoolCreated events of this factory, for these tokens, in the block of the
\* transaction.
SamePool(n) ==
  /\ txs[n].kind = "create" /\ txs[n].to = store[Factory]
  /\ txs[n].data.quote = txs[Len(txs)].data.quote
  /\ txs[n].data.base = txs[Len(txs)].data.base
PoolsCreated == {n \in blockStart..mined : SamePool(n)}

PoolCreated ==
  /\ At("pool", "wait") /\ AllMined
  /\ \/ Cardinality(PoolsCreated) = 1 /\ SetById(Task.id, Len(txs))
     \/ Cardinality(PoolsCreated) > 1 /\ Exit /\ UNCHANGED file
  /\ UNCHANGED <<chain, report, config, finished, crashes, reruns>>

\* updateDeploymentFile: mergeMarginlyDeployments keeps the old pools, takes the
\* keepers of this run, and drops those of Algebra and Balancer.
ReportedIds(c) ==
  {PoolId(p.id) : p \in Range(c.pools)}
    \cup {KeeperId(k) : k \in Range(c.keepers) \cap {"aave", "uniswapV3"}}
Merged ==
  LET new == ReportedIds(Configs[config])
      old == {id \in DOMAIN report : id[1] = "marginlyPool"}
  IN  [id \in new \cup old |-> IF id \in new THEN store[id] ELSE report[id]]

UpdateDeploymentFile ==
  /\ At("report", "begin")
  /\ \/ report # Torn /\ report' = Merged /\ finished' = TRUE
     \/ report = Torn /\ UNCHANGED <<report, finished>>
  /\ Exit
  /\ UNCHANGED <<chain, file, config, crashes, reruns>>

----------------------------------------------------------------------------
\* The rest of the world

(***************************************************************************)
(* The run is killed, or a call of the node fails.  writeFileSync is no    *)
(* atomic replacement: a run killed as it writes leaves half a file.       *)
(***************************************************************************)
WritesState ==
  /\ At("deploy", "wait") \/ (At("pool", "wait") /\ Cardinality(PoolsCreated) = 1)
  /\ AllMined
WritesReport == At("report", "begin")

Crash ==
  /\ task # 0 /\ crashes < MaxCrashes
  /\ Exit
  /\ crashes' = crashes + 1
  /\ file' \in {file} \cup IF WritesState THEN {Torn} ELSE {}
  /\ report' \in {report} \cup IF WritesReport THEN {Torn} ELSE {}
  /\ UNCHANGED <<chain, config, finished, reruns>>

\* A block holds the next transactions of the signer, however many.
Mine ==
  /\ mined < Len(txs)
  /\ mined' \in (mined + 1)..Len(txs)
  /\ blockStart' = mined + 1
  /\ UNCHANGED <<txs, files, config, run, finished, crashes, reruns>>

Reconfigure ==
  /\ task = 0 /\ config < Len(Configs)
  /\ config' = config + 1
  /\ finished' = FALSE
  /\ UNCHANGED <<chain, files, run, crashes, reruns>>

RunStep ==
  \/ Import \/ DeployContract \/ Deployed
  \/ SetOptions \/ KeepOptions \/ CheckOracle
  \/ WireRouter \/ CreatePool \/ PoolCreated
  \/ UpdateDeploymentFile

Next == RunStep \/ Resume \/ Rerun \/ Crash \/ Mine \/ Reconfigure

(***************************************************************************)
(* A run goes on by itself, blocks are made, and the operator starts again *)
(* what did not end well, as cli/README.md:70 tells him to.                *)
(***************************************************************************)
Fairness == WF_vars(RunStep) /\ WF_vars(Mine) /\ WF_vars(Resume)

Spec == Init /\ [][Next]_vars /\ Fairness

----------------------------------------------------------------------------
\* Properties

Corrupt == Torn \in {file, report}

(***************************************************************************)
(* What is in the state file is deployed, and under the right id, at any   *)
(* moment at which the process may die and the file be read again: an      *)
(* address is known when the transaction is sent (BaseDeployer.ts:59), and *)
(* must not be recorded before it is mined.                                *)
(***************************************************************************)
RecordedIsDeployed ==
  file # Torn => \A id \in DOMAIN file : IsContract(file[id], id)

(***************************************************************************)
(* A deployment is complete when the contracts are recorded, each one was  *)
(* given the addresses that are recorded for the others, and the router    *)
(* and the oracles hold what the configuration says.                       *)
(***************************************************************************)
Deploys(c) ==
  {Router, Implementation, Factory}
    \cup {TokenId(t.symbol) : t \in Range(c.tokens)}
    \cup {OracleId(o.id) : o \in Range(c.oracles)}
    \cup {AdapterId(a) : a \in Range(c.adapters)}
    \cup {PoolId(p.id) : p \in Range(c.pools)}
    \cup {KeeperId(k) : k \in Range(c.keepers)}

OracleIsSet(o, s) ==
  LET current == OptionsOf(file[OracleId(o.id)], s.pair)
  IN  IF o.kind = "pendle" THEN IsContract(current, OracleId(s.options))
      ELSE current = s.options

Complete(c) ==
  /\ Deploys(c) \subseteq DOMAIN file
  /\ txs[file[Factory]].data = <<file[Implementation], file[Router]>>
  /\ \A a \in Range(c.adapters) : AdapterOf(file[Router], a.dexId) = file[AdapterId(a)]
  /\ \A o \in Range(c.oracles) : \A s \in Range(o.settings) : OracleIsSet(o, s)
  /\ \A p \in Range(c.pools) :
       /\ txs[file[PoolId(p.id)]].to = file[Factory]
       /\ txs[file[PoolId(p.id)]].data.oracle = file[OracleId(p.oracle)]

\* What a configuration says of its oracles, as the tasks that a run makes of it.
Configures(c) ==
  UNION {{[do |-> "configure", id |-> OracleId(o.id), kind |-> o.kind, setting |-> s] :
            s \in Range(o.settings)} : o \in Range(c.oracles)}

(***************************************************************************)
(* The operator changes nothing back: options and adapters that he gives   *)
(* up do not return in a later configuration.  What a run never changes    *)
(* again he does not change either: the secondary oracle of a Pendle       *)
(* oracle, and the oracle of a pool.                                       *)
(***************************************************************************)
ChangesAreFinal ==
  \A i, j, k \in DOMAIN Configs : i <= j /\ j <= k =>
    /\ \A x \in Configures(Configs[i]), y \in Configures(Configs[j]), z \in Configures(Configs[k]) :
         /\ x.id = y.id /\ x.setting.pair = y.setting.pair
         /\ z.id = y.id /\ z.setting.pair = y.setting.pair
         => /\ x.kind = y.kind
            /\ x.kind = "pendle" \/ x.setting.options = z.setting.options
                 => y.setting.options = x.setting.options
    /\ \A a \in Range(Configs[i].adapters), b \in Range(Configs[j].adapters),
          d \in Range(Configs[k].adapters) :
         a.dexId = b.dexId /\ d.dexId = b.dexId /\ a.name = d.name => b.name = a.name
    /\ \A p \in Range(Configs[i].pools), q \in Range(Configs[j].pools) :
         p.id = q.id => p.oracle = q.oracle

(***************************************************************************)
(* However often runs were interrupted, a run that ends well leaves a      *)
(* complete deployment once what it did not wait for is mined (setOptions  *)
(* of a double oracle, addDexAdapters, setPair), and deployment.json names *)
(* the recorded pools.  The operator may have changed the configuration    *)
(* in between, but not back again (ChangesAreFinal): a run compares with   *)
(* what is mined, and would leave a setting alone that a transaction under *)
(* way still changes.                                                      *)
(***************************************************************************)
FinishedIsComplete ==
  ChangesAreFinal /\ finished /\ AllMined /\ ~Corrupt =>
    /\ Complete(Configs[config])
    /\ \A p \in Range(Configs[config].pools) : report[PoolId(p.id)] = file[PoolId(p.id)]

(***************************************************************************)
(* An interruption costs at most one contract that nobody recorded, and    *)
(* two when it is a pool: the next run may then find its own event and the *)
(* lost one's in one block (MarginlyDeployer.ts:69), and give up.          *)
(***************************************************************************)
Orphans == {n \in DOMAIN txs : txs[n].kind = "create" /\ n \notin Range(file)}
LostPools == {n \in Orphans : txs[n].id[1] = "marginlyPool"}

LossesAreBounded ==
  file # Torn =>
    LET underWay == IF task # 0 /\ step = "wait" THEN 1 ELSE 0
    IN  /\ Cardinality(Orphans \ LostPools) <= crashes + underWay
        /\ Cardinality(Orphans) <= 2 * crashes + underWay

(***************************************************************************)
(* A run over a complete deployment sends nothing, but for the pairs that  *)
(* Chainlink and Pyth oracles are told again.                              *)
(***************************************************************************)
PairOracles(c) == {file[OracleId(o.id)] : o \in {x \in Range(c.oracles) : x.kind \in Pairs}}

CompleteIsLeftAlone ==
  [][ ~Corrupt /\ AllMined /\ Complete(Configs[config]) /\ txs' # txs =>
        /\ txs'[Len(txs')].kind = "options"
        /\ txs'[Len(txs')].to \in PairOracles(Configs[config]) ]_vars

(***************************************************************************)
(* A deployment that is started again after each failure ends, unless a    *)
(* file was torn: neither an event that is found twice nor an oracle that  *)
(* is asked for its price too early stops it for ever, for what the failed *)
(* run sent is found by the next one.                                      *)
(***************************************************************************)
DeploymentEnds == <>[](finished \/ Corrupt)

=============================================================================
