-------------------------- MODULE Deployment_proofs ---------------------------
(***************************************************************************)
(* What a run of `deploy marginly' leaves behind, for every configuration, *)
(* whatever is interrupted and whenever blocks are made.                   *)
(*                                                                         *)
(* The state file never names a contract that is not there.                *)
(* RecordedIsDeployed is about the file alone, which the next run copies   *)
(* and a run overwrites with its copy: the copy is as good as the file     *)
(* (StoreOK), and the transaction that a run waits for is the last one and *)
(* creates the contract of its task (SentOK).                              *)
(*                                                                         *)
(* An interruption costs two contracts at most. The bounds of              *)
(* LossesAreBounded are not inductive: that a run which gives up over a    *)
(* second event loses no more than the interruption before it has paid for *)
(* needs the contracts that were lost but can still be found (Late), and   *)
(* that whatever is recorded is in an earlier block than what is waited    *)
(* for (AwaitingOK).                                                       *)
(*                                                                         *)
(* A complete deployment is left alone: this needs what a plan consists    *)
(* of, so that a task of a run is one of its configuration                 *)
(* (PlanEndsWithReport).                                                   *)
(*                                                                         *)
(* A run that ends well leaves a complete deployment.  What is mined when  *)
(* a run looks is not what will be: the invariant is about the last        *)
(* transaction, mined or not, that sets the options of an oracle or an     *)
(* adapter of the router.  Progress says of it that what a run has passed  *)
(* is achieved once all is mined, and History that every transaction came  *)
(* from a configuration, the earlier ones from the earlier: hence what is  *)
(* mined and right cannot be undone by what is under way, while nothing is *)
(* changed back.                                                           *)
(***************************************************************************)
EXTENDS Deployment, FiniteSetTheorems, SequenceTheorems, WellFoundedInduction, TLAPS
ChainOK == /\ txs \in Seq(Range(txs))
           /\ mined \in Nat /\ mined <= Len(txs)

StoreOK == \A id \in DOMAIN store : IsContract(store[id], id)

SentOK ==
  At("deploy", "wait") \/ At("pool", "wait") =>
    /\ Len(txs) > 0
    /\ txs[Len(txs)].kind = "create" /\ txs[Len(txs)].id = Task.id

IInv == ChainOK /\ RecordedIsDeployed /\ StoreOK /\ SentOK

----------------------------------------------------------------------------
\* A sequence is one over its own elements.
LEMMA OverItsRange ==
  ASSUME NEW S, NEW q, q \in Seq(S)
  PROVE  q \in Seq(Range(q))
<1>1. q \in [1..Len(q) -> S] /\ Len(q) \in Nat
  OBVIOUS
<1>2. \A n \in 1..Len(q) : q[n] \in Range(q)
  BY <1>1 DEF Range
<1>3. q \in [1..Len(q) -> Range(q)]
  BY <1>1, <1>2
<1>4. QED
  BY <1>1, <1>3

\* A transaction that is sent leaves those before it as they are.
LEMMA Appended ==
  ASSUME NEW s, s \in Seq(Range(s)), NEW x
  PROVE  /\ Append(s, x) \in Seq(Range(Append(s, x)))
         /\ Len(Append(s, x)) = Len(s) + 1
         /\ Append(s, x)[Len(s) + 1] = x
         /\ \A n \in 1..Len(s) : Append(s, x)[n] = s[n]
<1> DEFINE S == Range(s) \cup {x}
           t == Append(s, x)
<1>1. s \in Seq(S)
  <2>1. s \in [1..Len(s) -> Range(s)] /\ Len(s) \in Nat
    OBVIOUS
  <2>2. \A n \in 1..Len(s) : s[n] \in S
    BY <2>1
  <2>3. QED
    BY <2>1, <2>2
<1>2. /\ t \in Seq(S)
      /\ Len(t) = Len(s) + 1
      /\ t[Len(s) + 1] = x
      /\ \A n \in 1..Len(s) : t[n] = s[n]
  BY <1>1
<1>3. t \in Seq(Range(t))
  BY <1>2, OverItsRange
<1>4. QED
  BY <1>2, <1>3

\* The chain grows: what was sent and mined remains so.
Grows ==
  /\ ChainOK'
  /\ mined <= mined' /\ Len(txs) <= Len(txs')
  /\ \A n \in 1..Len(txs) : txs'[n] = txs[n]

\* A chain that is left alone only grows.
LEMMA ChainStays ==
  ASSUME ChainOK, UNCHANGED chain
  PROVE  Grows
BY DEF ChainOK, Grows, chain, Range

\* What is sent is the last transaction, and nothing else changes.
LEMMA SendGrows ==
  ASSUME ChainOK, NEW kind, NEW id, NEW to, NEW data, Send(kind, id, to, data)
  PROVE  /\ Grows
         /\ Len(txs') > 0
         /\ txs'[Len(txs')].kind = kind /\ txs'[Len(txs')].id = id
<1> DEFINE tx == [kind |-> kind, id |-> id, to |-> to, data |-> data]
<1>1. txs' = Append(txs, tx) /\ mined' = mined
  BY DEF Send
<1>2. /\ txs' \in Seq(Range(txs'))
      /\ Len(txs') = Len(txs) + 1
      /\ txs'[Len(txs) + 1] = tx
      /\ \A n \in 1..Len(txs) : txs'[n] = txs[n]
  BY <1>1, Appended DEF ChainOK
<1>3. Len(txs) \in Nat
  BY DEF ChainOK
<1>4. QED
  BY <1>1, <1>2, <1>3 DEF ChainOK, Grows

\* A record that held before the chain grew holds after it.
LEMMA FileStays ==
  ASSUME ChainOK, RecordedIsDeployed, Grows, UNCHANGED file
  PROVE  RecordedIsDeployed'
BY DEF ChainOK, Grows, RecordedIsDeployed, IsContract

\* What the run copied from the file stays good.
LEMMA StoreStays ==
  ASSUME ChainOK, StoreOK, Grows, UNCHANGED store
  PROVE  StoreOK'
BY DEF ChainOK, Grows, StoreOK, IsContract

\* A run that waits for nothing has nothing to find.
LEMMA NotWaiting ==
  ASSUME step' # "wait"
  PROVE  SentOK'
BY DEF SentOK, At

\* Whoever sends nothing and waits for nothing new leaves the wait as it is.
LEMMA SentStays ==
  ASSUME SentOK, UNCHANGED <<txs, task, step, config>>
  PROVE  SentOK'
BY DEF SentOK, At, Task

\* A new record is good when the contract is mined.
LEMMA RecordGood ==
  ASSUME ChainOK, StoreOK, UNCHANGED chain, NEW id,
         IsContract(Len(txs), id), SetById(id, Len(txs))
  PROVE  RecordedIsDeployed' /\ StoreOK' /\ SentOK'
<1>1. /\ DOMAIN store' = DOMAIN store \cup {id}
      /\ \A i \in DOMAIN store' : store'[i] = IF i = id THEN Len(txs) ELSE store[i]
  BY DEF SetById
<1>2. StoreOK'
  BY <1>1 DEF StoreOK, IsContract, chain
<1>3. file' = store'
  BY DEF SetById
<1>4. RecordedIsDeployed'
  BY <1>2, <1>3 DEF StoreOK, RecordedIsDeployed, IsContract
<1>5. SentOK'
  BY NotWaiting DEF SetById, NextTask
<1>6. QED
  BY <1>2, <1>4, <1>5

----------------------------------------------------------------------------

\* Nothing is recorded before anything is sent.
LEMMA InitIInv == Init => IInv
<1> SUFFICES ASSUME Init PROVE IInv
  OBVIOUS
<1>1. ChainOK
  BY DEF Init, ChainOK
<1>2. DOMAIN file = {} /\ DOMAIN store = {}
  BY DEF Init, NoRecords
<1>3. SentOK
  BY DEF Init, SentOK, At
<1>4. QED
  BY <1>1, <1>2, <1>3 DEF IInv, RecordedIsDeployed, StoreOK

\* When a run ends, nothing is left of its copy of the file.
LEMMA ExitGood ==
  ASSUME Exit
  PROVE  StoreOK' /\ SentOK'
<1>1. DOMAIN store' = {} /\ step' = "begin"
  BY DEF Exit, NoRecords
<1>2. StoreOK'
  BY <1>1 DEF StoreOK
<1>3. QED
  BY <1>1, <1>2, NotWaiting

\* The inductive step of RecordsAreDeployed, action by action.
LEMMA StepIInv == IInv /\ [Next]_vars => IInv'
<1> SUFFICES ASSUME IInv, [Next]_vars PROVE IInv'
  OBVIOUS
<1> USE DEF IInv
<1>1. CASE Import
  <2>1. UNCHANGED <<chain, file, store>> /\ step' = "begin"
    BY <1>1 DEF Import, NextTask, files
  <2>2. QED
    BY <2>1, ChainStays, FileStays, StoreStays, NotWaiting DEF Grows
<1>2. CASE DeployContract
  <2>1. /\ Send("create", Task.id, 0, ConstructorArgs(Task.id))
        /\ UNCHANGED <<file, config, task, store>>
    BY <1>2 DEF DeployContract, files
  <2>2. /\ Grows /\ Len(txs') > 0
        /\ txs'[Len(txs')].kind = "create" /\ txs'[Len(txs')].id = Task.id
    BY <2>1, SendGrows
  <2>3. SentOK'
    BY <2>1, <2>2 DEF SentOK, Task
  <2>4. QED
    BY <2>1, <2>2, <2>3, FileStays, StoreStays DEF Grows
<1>3. CASE Deployed
  <2>1. /\ At("deploy", "wait") /\ AllMined
        /\ SetById(Task.id, Len(txs)) /\ UNCHANGED chain
    BY <1>3 DEF Deployed
  <2>2. IsContract(Len(txs), Task.id)
    BY <2>1 DEF SentOK, AllMined, ChainOK, IsContract
  <2>3. QED
    BY <2>1, <2>2, ChainStays, RecordGood DEF Grows
<1>4. CASE SetOptions
  <2>1. /\ Send("options", Task.setting.pair, store[Task.id], OptionsFor(Task))
        /\ UNCHANGED <<file, config, task, store>>
        /\ task # 0 /\ Task.do = "configure"
    BY <1>4 DEF SetOptions, files, At
  <2>2. Grows
    BY <2>1, SendGrows
  <2>3. SentOK'
    BY <2>1 DEF SentOK, At, Task
  <2>4. QED
    BY <2>1, <2>2, <2>3, FileStays, StoreStays DEF Grows
<1>5. CASE KeepOptions
  <2>1. UNCHANGED <<chain, file, store>> /\ step' = "check"
    BY <1>5 DEF KeepOptions, files
  <2>2. QED
    BY <2>1, ChainStays, FileStays, StoreStays, NotWaiting DEF Grows
<1>6. CASE CheckOracle
  <2>1. UNCHANGED <<chain, file>>
    BY <1>6 DEF CheckOracle, files
  <2>2. CASE NextTask /\ UNCHANGED store
    BY <2>1, <2>2, ChainStays, FileStays, StoreStays, NotWaiting DEF Grows, NextTask
  <2>3. CASE Exit
    BY <2>1, <2>3, ChainStays, FileStays, ExitGood DEF Grows
  <2>4. QED
    BY <1>6, <2>2, <2>3 DEF CheckOracle
<1>7. CASE WireRouter
  <2>1. UNCHANGED <<file, store>> /\ step' = "begin"
    BY <1>7 DEF WireRouter, NextTask, files
  <2>2. Grows
    <3>1. CASE AdaptersToAdd = {}
      BY <1>7, <3>1, ChainStays DEF WireRouter
    <3>2. CASE AdaptersToAdd # {}
      <4>1. Send("adapters", Router, store[Router],
                 [d \in AdaptersToAdd |-> store[AdapterId(AdapterFor(Configs[config], d))]])
        BY <1>7, <3>2 DEF WireRouter
      <4>2. QED
        BY <4>1, SendGrows
    <3>3. QED
      BY <3>1, <3>2
  <2>3. QED
    BY <2>1, <2>2, FileStays, StoreStays, NotWaiting DEF Grows
<1>8. CASE CreatePool
  <2>1. /\ Send("create", Task.id, store[Factory],
                [quote |-> TokenAddress(Task.pool.quote), base |-> TokenAddress(Task.pool.base),
                 oracle |-> store[OracleId(Task.pool.oracle)]])
        /\ UNCHANGED <<file, config, task, store>>
    BY <1>8 DEF CreatePool, files
  <2>2. /\ Grows /\ Len(txs') > 0
        /\ txs'[Len(txs')].kind = "create" /\ txs'[Len(txs')].id = Task.id
    BY <2>1, SendGrows
  <2>3. SentOK'
    BY <2>1, <2>2 DEF SentOK, Task
  <2>4. QED
    BY <2>1, <2>2, <2>3, FileStays, StoreStays DEF Grows
<1>9. CASE PoolCreated
  <2>1. At("pool", "wait") /\ AllMined /\ UNCHANGED chain
    BY <1>9 DEF PoolCreated
  <2>2. CASE SetById(Task.id, Len(txs))
    <3>1. IsContract(Len(txs), Task.id)
      BY <2>1 DEF SentOK, AllMined, ChainOK, IsContract
    <3>2. QED
      BY <2>1, <2>2, <3>1, ChainStays, RecordGood DEF Grows
  <2>3. CASE Exit /\ UNCHANGED file
    BY <2>1, <2>3, ChainStays, FileStays, ExitGood DEF Grows
  <2>4. QED
    BY <1>9, <2>2, <2>3 DEF PoolCreated
<1>10. CASE UpdateDeploymentFile
  BY <1>10, ChainStays, FileStays, ExitGood DEF UpdateDeploymentFile, Grows
<1>11. CASE Resume \/ Rerun
  <2>1. /\ file # Torn /\ store' = file /\ step' = "begin"
        /\ UNCHANGED <<chain, file>>
    BY <1>11 DEF Resume, Rerun, Start, files
  <2>2. StoreOK'
    BY <2>1 DEF RecordedIsDeployed, StoreOK, IsContract, chain
  <2>3. QED
    BY <2>1, <2>2, ChainStays, FileStays, NotWaiting DEF Grows
<1>12. CASE Crash
  <2>1. Exit /\ UNCHANGED chain /\ (file' = file \/ file' = Torn)
    BY <1>12 DEF Crash
  <2>2. RecordedIsDeployed'
    <3>1. CASE file' = file
      BY <2>1, <3>1, ChainStays, FileStays
    <3>2. CASE file' = Torn
      BY <3>2 DEF RecordedIsDeployed
    <3>3. QED
      BY <2>1, <3>1, <3>2
  <2>3. QED
    BY <2>1, <2>2, ChainStays, ExitGood DEF Grows
<1>13. CASE Mine
  <2>1. /\ txs' = txs /\ mined' \in (mined + 1)..Len(txs)
        /\ UNCHANGED <<file, config, task, step, store>>
    BY <1>13 DEF Mine, files, run
  <2>2. Grows
    BY <2>1 DEF ChainOK, Grows
  <2>3. QED
    BY <2>1, <2>2, FileStays, StoreStays, SentStays DEF Grows
<1>14. CASE Reconfigure
  <2>1. task = 0 /\ UNCHANGED <<chain, file, task, step, store>>
    BY <1>14 DEF Reconfigure, files, run
  <2>2. SentOK'
    BY <2>1 DEF SentOK, At
  <2>3. QED
    BY <2>1, <2>2, ChainStays, FileStays, StoreStays DEF Grows
<1>15. CASE UNCHANGED vars
  <2>1. UNCHANGED <<chain, txs, file, config, task, step, store>>
    BY <1>15 DEF vars, chain, files, run
  <2>2. QED
    BY <2>1, ChainStays, FileStays, StoreStays, SentStays DEF Grows
<1>16. QED
  BY <1>1, <1>2, <1>3, <1>4, <1>5, <1>6, <1>7, <1>8, <1>9, <1>10, <1>11, <1>12,
     <1>13, <1>14, <1>15 DEF Next, RunStep

(***************************************************************************)
(* For every configuration: an address in the state file is that of a      *)
(* mined contract of that id (BaseDeployer.ts:60, MarginlyDeployer.ts:132: *)
(* the record follows the receipt), so that a run that finds it there may  *)
(* build on it.                                                            *)
(***************************************************************************)
THEOREM RecordsAreDeployed == Spec => []RecordedIsDeployed
<1>1. IInv => RecordedIsDeployed
  BY DEF IInv
<1>2. QED
  BY InitIInv, StepIInv, <1>1, PTL DEF Spec

----------------------------------------------------------------------------
\* What a plan consists of

\* A set of natural numbers has a least one.
LEMMA LeastNatural ==
  ASSUME NEW S \in SUBSET Nat, S # {}
  PROVE  \E n \in S : \A k \in S : n <= k
<1>1. PICK x \in S : TRUE
  OBVIOUS
<1> DEFINE U == 1..x
           T == {1..n : n \in {m \in S : m <= x}}
<1>2. IsFiniteSet(U)
  BY <1>1, FS_Interval
<1>3. T \subseteq FiniteSubsetsOf(U) /\ T # {}
  <2>1. \A t \in T : t \subseteq U
    OBVIOUS
  <2>2. \A t \in T : t \in FiniteSubsetsOf(U)
    BY <1>2, <2>1, FS_Subset DEF FiniteSubsetsOf
  <2>3. 1..x \in T
    OBVIOUS
  <2>4. QED
    BY <2>2, <2>3
<1>4. PICK t \in T : \A y \in T : ~(<<y, t>> \in StrictSubsetOrdering(U))
  <2> HIDE DEF T, U
  <2>1. QED
    BY <1>2, <1>3, WFMin, FS_StrictSubsetOrderingWellFounded
<1>5. PICK n \in S : n <= x /\ t = 1..n
  OBVIOUS
<1>6. ASSUME NEW k \in S, ~(n <= k)
      PROVE  FALSE
  <2>1. k \in Nat /\ n \in Nat /\ k < n /\ k <= x
    BY <1>5, <1>6
  <2>2. 1..k \in T /\ 1..k \subseteq U /\ t \subseteq U
    BY <1>5, <2>1
  <2>3. 1..k \subseteq t /\ 1..k # t
    <3>1. n \in 1..n /\ n \notin 1..k
      BY <2>1
    <3>2. QED
      BY <1>5, <2>1, <3>1
  <2> HIDE DEF T, U
  <2>4. <<1..k, t>> \in StrictSubsetOrdering(U)
    BY <2>2, <2>3 DEF StrictSubsetOrdering
  <2>5. QED
    BY <1>4, <2>2, <2>4
<1>7. QED
  BY <1>6

\* The sequences joined so far, by FlattenSeq.
Joins(s, g, n) == g = [i \in 1..n |-> IF i = 1 THEN s[i] ELSE g[i - 1] \o s[i]]

\* FlattenSeq has something to choose.
LEMMA JoinsExist ==
  ASSUME NEW s, NEW m \in Nat
  PROVE  \E g : Joins(s, g, m)
<1> DEFINE Bad == {n \in Nat : ~\E g : Joins(s, g, n)}
<1>1. SUFFICES ASSUME Bad # {} PROVE FALSE
  OBVIOUS
<1>2. PICK n \in Bad : \A k \in Bad : n <= k
  BY <1>1, LeastNatural
<1>3. n # 0
  <2>1. Joins(s, [i \in 1..0 |-> 0], 0)
    BY DEF Joins
  <2>2. QED
    BY <2>1
<1>4. PICK g : Joins(s, g, n - 1)
  BY <1>2, <1>3
<1> DEFINE h == [i \in 1..n |-> IF i < n THEN g[i] ELSE IF n = 1 THEN s[n] ELSE g[n - 1] \o s[n]]
<1>5. \A i \in 1..n : h[i] = IF i = 1 THEN s[i] ELSE h[i - 1] \o s[i]
  <2> SUFFICES ASSUME NEW i \in 1..n PROVE h[i] = IF i = 1 THEN s[i] ELSE h[i - 1] \o s[i]
    OBVIOUS
  <2>1. CASE i < n
    <3>1. i \in 1..(n - 1) /\ h[i] = g[i] /\ (i # 1 => h[i - 1] = g[i - 1])
      BY <2>1
    <3>2. g[i] = IF i = 1 THEN s[i] ELSE g[i - 1] \o s[i]
      BY <1>4, <3>1 DEF Joins
    <3>3. QED
      BY <3>1, <3>2
  <2>2. CASE i = n
    <3>1. n # 1 => h[n - 1] = g[n - 1]
      BY <1>3
    <3>2. QED
      BY <2>2, <3>1
  <2>3. QED
    BY <2>1, <2>2
<1>6. Joins(s, h, n)
  <2>1. h = [i \in 1..n |-> h[i]]
    OBVIOUS
  <2> HIDE DEF h
  <2>2. QED
    BY <1>5, <2>1 DEF Joins
<1>7. QED
  BY <1>6

\* FlattenSeq joins sequences into one.
LEMMA Flattened ==
  ASSUME NEW T, NEW s \in Seq(Seq(T))
  PROVE  FlattenSeq(s) \in Seq(T)
<1>1. CASE Len(s) = 0
  BY <1>1 DEF FlattenSeq
<1>2. CASE Len(s) # 0
  <2> DEFINE m == Len(s)
             g == CHOOSE g : Joins(s, g, m)
             Bad == {i \in Nat : i \in 1..m /\ g[i] \notin Seq(T)}
  <2>1. m \in Nat \ {0} /\ \A i \in 1..m : s[i] \in Seq(T)
    BY <1>2
  <2>2. FlattenSeq(s) = g[m]
    BY <1>2 DEF FlattenSeq, Joins
  <2>3. Joins(s, g, m)
    <3>1. \E f : Joins(s, f, m)
      BY <2>1, JoinsExist
    <3>2. QED
      BY <3>1
  <2> HIDE DEF g, m
  <2>4. Bad = {}
    <3>1. SUFFICES ASSUME Bad # {} PROVE FALSE
      OBVIOUS
    <3>2. PICK i \in Bad : \A k \in Bad : i <= k
      BY <3>1, LeastNatural
    <3>3. i \in 1..m /\ g[i] = IF i = 1 THEN s[i] ELSE g[i - 1] \o s[i]
      BY <2>3, <3>2 DEF Joins
    <3>4. i # 1
      BY <2>1, <3>2, <3>3
    <3>5. i - 1 \in 1..m /\ i - 1 \in Nat /\ i - 1 \notin Bad
      BY <2>1, <3>2, <3>3, <3>4
    <3>6. g[i - 1] \in Seq(T) /\ s[i] \in Seq(T)
      BY <2>1, <3>3, <3>5
    <3>7. g[i] \in Seq(T)
      BY <3>3, <3>4, <3>6
    <3>8. QED
      BY <3>2, <3>7
  <2>5. m \in Nat /\ m \in 1..m
    BY <2>1
  <2>6. m \notin Bad
    BY <2>4
  <2>7. g[m] \in Seq(T)
    <3> HIDE DEF m
    <3> QED
      BY <2>5, <2>6
  <2>8. QED
    BY <2>2, <2>7
<1>3. QED
  BY <1>1, <1>2

\* What a run does before its report.
Work(c) ==
  DeployAll([i \in DOMAIN c.tokens |-> TokenId(c.tokens[i].symbol)])
    \o FlattenSeq([i \in DOMAIN c.oracles |-> ProcessOracle(c.oracles[i])])
    \o DeployAll([i \in DOMAIN c.adapters |-> AdapterId(c.adapters[i])])
    \o <<Deploy(Router), [do |-> "wire"], Deploy(Implementation), Deploy(Factory)>>
    \o [i \in DOMAIN c.pools |-> [do |-> "pool", id |-> PoolId(c.pools[i].id),
                                  pool |-> c.pools[i]]]
    \o DeployAll([i \in DOMAIN c.keepers |-> KeeperId(c.keepers[i])])

\* A task of the configuration c, but for the report.
Works(c, x) ==
  /\ x.do # "report"
  /\ x.do \in {"deploy", "pool"} => x.id \in Deploys(c)
  /\ x.do = "pool" => x.id[1] = "marginlyPool"
  /\ x.do = "configure" =>
       \E o \in Range(c.oracles) : \E s \in Range(o.settings) :
         x.id = OracleId(o.id) /\ x.kind = o.kind /\ x.setting = s

\* A sequence of such tasks.
Working(c, q) == \E T : q \in Seq(T) /\ \A x \in T : Works(c, x)

\* A table over the indices of a list is a sequence.
LEMMA TableOverList ==
  ASSUME NEW q, IsList(q), NEW f, DOMAIN f = DOMAIN q
  PROVE  f = [i \in DOMAIN f |-> f[i]] => f \in Seq({f[i] : i \in DOMAIN f})
<1>1. DOMAIN q = 1..Len(q) /\ Len(q) \in Nat
  BY DEF IsList
<1>2. QED
  BY <1>1

\* Deployments of what the configuration names.
LEMMA DeploysWork ==
  ASSUME NEW c, NEW q, IsList(q), NEW ids, ids = [i \in DOMAIN q |-> ids[i]],
         \A i \in DOMAIN q : ids[i] \in Deploys(c)
  PROVE  Working(c, DeployAll(ids))
<1> DEFINE f == DeployAll(ids)
           T == {f[i] : i \in DOMAIN f}
<1>1. DOMAIN f = DOMAIN q /\ f = [i \in DOMAIN f |-> f[i]]
  BY DEF DeployAll
<1>2. \A i \in DOMAIN ids : f[i] = Deploy(ids[i])
  BY DEF DeployAll
<1>3. DOMAIN ids = DOMAIN f
  BY <1>1
<1> HIDE DEF f
<1>4. \A i \in DOMAIN f : Works(c, f[i])
  BY <1>2, <1>3 DEF Works, Deploy
<1>5. \A x \in T : Works(c, x)
  BY <1>4
<1>6. f \in Seq(T)
  BY <1>1, TableOverList
<1>7. QED
  BY <1>5, <1>6 DEF f, Working

\* One part of a plan after another.
LEMMA JoinedWork ==
  ASSUME NEW c, NEW q, Working(c, q), NEW r, Working(c, r)
  PROVE  Working(c, q \o r)
<1>1. PICK T : q \in Seq(T) /\ \A x \in T : Works(c, x)
  BY DEF Working
<1>2. PICK V : r \in Seq(V) /\ \A x \in V : Works(c, x)
  BY DEF Working
<1> DEFINE U == T \cup V
<1>3. q \in Seq(U) /\ r \in Seq(U)
  BY <1>1, <1>2, SeqMonotonic
<1>4. \A x \in U : Works(c, x)
  BY <1>1, <1>2
<1> HIDE DEF U
<1>5. q \o r \in Seq(U)
  BY <1>3
<1>6. QED
  BY <1>4, <1>5 DEF Working

\* An oracle is deployed and then configured.
LEMMA OracleWorks ==
  ASSUME NEW c, NEW o \in Range(c.oracles), IsList(o.settings)
  PROVE  Working(c, ProcessOracle(o))
<1> DEFINE f == [i \in DOMAIN o.settings |-> [do |-> "configure", id |-> OracleId(o.id),
                                             kind |-> o.kind, setting |-> o.settings[i]]]
           T == {f[i] : i \in DOMAIN f}
           d == <<Deploy(OracleId(o.id))>>
<1>1. Working(c, f)
  <2>1. DOMAIN f = DOMAIN o.settings /\ f = [i \in DOMAIN f |-> f[i]]
    OBVIOUS
  <2>2. \A i \in DOMAIN f : /\ f[i].do = "configure" /\ f[i].id = OracleId(o.id)
                             /\ f[i].kind = o.kind /\ f[i].setting = o.settings[i]
    OBVIOUS
  <2> HIDE DEF f
  <2>3. \A x \in T : Works(c, x)
    BY <2>1, <2>2 DEF Works, Range
  <2>4. f \in Seq(T)
    BY <2>1, TableOverList
  <2> HIDE DEF T
  <2>5. QED
    BY <2>3, <2>4 DEF Working
<1>2. Working(c, d)
  <2>1. d \in Seq({Deploy(OracleId(o.id))})
    OBVIOUS
  <2>2. Works(c, Deploy(OracleId(o.id)))
    BY DEF Works, Deploy, Deploys
  <2> HIDE DEF d
  <2>3. QED
    BY <2>1, <2>2 DEF Working
<1>3. ProcessOracle(o) = d \o f
  BY DEF ProcessOracle
<1> HIDE DEF d, f
<1>4. QED
  BY <1>1, <1>2, <1>3, JoinedWork

\* Sequences that work, joined.
LEMMA FlattenedWork ==
  ASSUME NEW c, NEW q, IsList(q), NEW s, s = [i \in DOMAIN q |-> s[i]],
         \A i \in DOMAIN q : Working(c, s[i])
  PROVE  Working(c, FlattenSeq(s))
<1> DEFINE T(i) == CHOOSE T : s[i] \in Seq(T) /\ \A x \in T : Works(c, x)
           U == UNION {T(i) : i \in DOMAIN q}
<1>1. \A i \in DOMAIN q : s[i] \in Seq(T(i)) /\ \A x \in T(i) : Works(c, x)
  BY DEF Working
<1> HIDE DEF T
<1>2. \A x \in U : Works(c, x)
  BY <1>1
<1>3. \A i \in DOMAIN q : s[i] \in Seq(U)
  <2> SUFFICES ASSUME NEW i \in DOMAIN q PROVE s[i] \in Seq(U)
    OBVIOUS
  <2>1. T(i) \subseteq U
    OBVIOUS
  <2> HIDE DEF U
  <2>2. QED
    BY <1>1, <2>1, SeqMonotonic
<1> HIDE DEF U
<1>4. s \in Seq(Seq(U))
  <2>1. DOMAIN q = 1..Len(q) /\ Len(q) \in Nat
    BY DEF IsList
  <2>2. QED
    BY <1>3, <2>1
<1>5. FlattenSeq(s) \in Seq(U)
  BY <1>4, Flattened
<1>6. QED
  BY <1>2, <1>5 DEF Working

\* All parts of a plan.
LEMMA WorkWorks ==
  ASSUME NEW c \in Range(Configs)
  PROVE  Working(c, Work(c))
<1> DEFINE A1 == DeployAll([i \in DOMAIN c.tokens |-> TokenId(c.tokens[i].symbol)])
           A2 == FlattenSeq([i \in DOMAIN c.oracles |-> ProcessOracle(c.oracles[i])])
           A3 == DeployAll([i \in DOMAIN c.adapters |-> AdapterId(c.adapters[i])])
           A4 == <<Deploy(Router), [do |-> "wire"], Deploy(Implementation), Deploy(Factory)>>
           A5 == [i \in DOMAIN c.pools |-> [do |-> "pool", id |-> PoolId(c.pools[i].id),
                                            pool |-> c.pools[i]]]
           A6 == DeployAll([i \in DOMAIN c.keepers |-> KeeperId(c.keepers[i])])
<1>1. /\ IsList(c.tokens) /\ IsList(c.oracles) /\ IsList(c.adapters)
      /\ IsList(c.pools) /\ IsList(c.keepers)
      /\ \A o \in Range(c.oracles) : IsList(o.settings)
  BY DeploymentAssumption
<1>2. Working(c, A1) /\ Working(c, A3) /\ Working(c, A6)
  <2>1. ASSUME NEW q, IsList(q), NEW ids, ids = [i \in DOMAIN q |-> ids[i]],
               \A i \in DOMAIN q : ids[i] \in Deploys(c)
        PROVE  Working(c, DeployAll(ids))
    BY <2>1, DeploysWork
  <2>2. /\ \A i \in DOMAIN c.tokens : TokenId(c.tokens[i].symbol) \in Deploys(c)
        /\ \A i \in DOMAIN c.adapters : AdapterId(c.adapters[i]) \in Deploys(c)
        /\ \A i \in DOMAIN c.keepers : KeeperId(c.keepers[i]) \in Deploys(c)
    BY DEF Deploys, Range
  <2>3. QED
    BY <1>1, <2>1, <2>2
<1>3. Working(c, A2)
  <2>1. \A i \in DOMAIN c.oracles : Working(c, ProcessOracle(c.oracles[i]))
    BY <1>1, OracleWorks DEF Range
  <2> DEFINE s == [i \in DOMAIN c.oracles |-> ProcessOracle(c.oracles[i])]
  <2>2. s = [i \in DOMAIN c.oracles |-> s[i]] /\ \A i \in DOMAIN c.oracles : Working(c, s[i])
    BY <2>1
  <2> HIDE DEF s
  <2>3. Working(c, FlattenSeq(s))
    BY <1>1, <2>2, FlattenedWork
  <2>4. QED
    BY <2>3 DEF s
<1>4. Working(c, A4)
  <2> DEFINE T == {Deploy(Router), [do |-> "wire"], Deploy(Implementation), Deploy(Factory)}
  <2>1. A4 \in Seq(T)
    OBVIOUS
  <2>2. \A x \in T : Works(c, x)
    BY DEF Works, Deploy, Deploys
  <2> HIDE DEF T
  <2>3. QED
    BY <2>1, <2>2 DEF Working
<1>5. Working(c, A5)
  <2> DEFINE T == {A5[i] : i \in DOMAIN A5}
  <2>1. DOMAIN A5 = DOMAIN c.pools /\ A5 = [i \in DOMAIN A5 |-> A5[i]]
    OBVIOUS
  <2>2. \A i \in DOMAIN A5 : A5[i].do = "pool" /\ A5[i].id = PoolId(c.pools[i].id)
    OBVIOUS
  <2> HIDE DEF A5
  <2>3. \A i \in DOMAIN A5 : A5[i].id \in Deploys(c) /\ A5[i].id[1] = "marginlyPool"
    <3>1. \A i \in DOMAIN c.pools : PoolId(c.pools[i].id) \in Deploys(c)
      BY DEF Deploys, Range
    <3>2. \A i \in DOMAIN c.pools : PoolId(c.pools[i].id)[1] = "marginlyPool"
      BY DEF PoolId
    <3>3. QED
      BY <2>1, <2>2, <3>1, <3>2
  <2>4. \A x \in T : Works(c, x)
    BY <2>2, <2>3 DEF Works
  <2>5. A5 \in Seq(T)
    BY <1>1, <2>1, TableOverList
  <2> HIDE DEF T
  <2>6. QED
    BY <2>4, <2>5 DEF Working
<1>6. Work(c) = A1 \o A2 \o A3 \o A4 \o A5 \o A6
  BY DEF Work
<1> HIDE DEF A1, A2, A3, A4, A5, A6
<1>7. QED
  BY <1>2, <1>3, <1>4, <1>5, <1>6, JoinedWork

\* Every run ends with its report, and does what its configuration says before.
LEMMA PlanEndsWithReport ==
  ASSUME NEW k \in DOMAIN Configs
  PROVE  /\ Len(Plans[k]) \in Nat \ {0} /\ DOMAIN Plans[k] = 1..Len(Plans[k])
         /\ Plans[k][Len(Plans[k])].do = "report"
         /\ \A i \in 1..Len(Plans[k]) :
              i # Len(Plans[k]) => Works(Configs[k], Plans[k][i])
<1> DEFINE c == Configs[k]
           w == Work(c)
           n == Len(w)
<1>1. c \in Range(Configs)
  BY DEF Range
<1>2. PICK T : w \in Seq(T) /\ \A x \in T : Works(c, x)
  <2> HIDE DEF c, w
  <2>1. Working(c, Work(c))
    BY <1>1, WorkWorks
  <2>2. w = Work(c)
    BY DEF w
  <2>3. QED
    BY <2>1, <2>2 DEF Working
<1>3. Plans[k] = w \o <<[do |-> "report"]>>
  BY DEF Plans, Plan, Work
<1> HIDE DEF w
<1> DEFINE U == T \cup {[do |-> "report"]}
           r == <<[do |-> "report"]>>
<1>4. w \in Seq(U) /\ r \in Seq(U)
  BY <1>2, SeqMonotonic
<1> HIDE DEF U
<1>5. /\ Len(w \o r) = n + 1 /\ n \in Nat /\ w \o r \in Seq(U)
      /\ \A i \in 1..n : (w \o r)[i] = w[i]
      /\ (w \o r)[n + 1] = [do |-> "report"]
  BY <1>4
<1>6. \A i \in 1..n : Works(c, w[i])
  BY <1>2
<1> HIDE DEF c
<1>7. QED
  <2>1. Len(Plans[k]) = n + 1 /\ DOMAIN Plans[k] = 1..(n + 1)
    BY <1>3, <1>5
  <2>2. Plans[k][n + 1].do = "report"
    BY <1>3, <1>5
  <2>3. \A i \in 1..n : Works(c, Plans[k][i])
    BY <1>3, <1>5, <1>6
  <2>4. \A i \in 1..(n + 1) : i # n + 1 => i \in 1..n
    BY <1>5
  <2>5. QED
    BY <1>5, <2>1, <2>2, <2>3, <2>4 DEF c

\* A run is at a task of its configuration, or at its report.
LEMMA TaskWorks ==
  ASSUME config \in DOMAIN Configs, task \in 0..Len(Plans[config]), task # 0, Task.do # "report"
  PROVE  Works(Configs[config], Task) /\ task < Len(Plans[config])
BY PlanEndsWithReport DEF Task

----------------------------------------------------------------------------
\* Types

\* What TypeOK says of the chain, of where the run is, and of the bounds.
ChainTypes ==
  /\ \A n \in DOMAIN txs : txs[n].kind \in {"create", "options", "adapters"}
  /\ mined \in 0..Len(txs) /\ blockStart \in 0..Len(txs)
  /\ Len(txs) - mined <= MaxPending
RunTypes ==
  /\ config \in DOMAIN Configs
  /\ task \in 0..Len(Plans[config])
  /\ step \in {"begin", "wait", "check"}
  /\ finished \in BOOLEAN
CountTypes == crashes \in 0..MaxCrashes /\ reruns \in 0..MaxReruns

\* With what is recorded being deployed, this is TypeOK, and inductive.
Types == IInv /\ ChainTypes /\ RunTypes /\ CountTypes

\* The copy of the state file names transactions, because it names contracts.
LEMMA TypesAreOK ==
  Types => TypeOK
<1> SUFFICES ASSUME Types PROVE TypeOK
  OBVIOUS
<1>1. ChainOK /\ StoreOK /\ ChainTypes /\ RunTypes /\ CountTypes
  BY DEF Types, IInv
<1>2. 1..mined \subseteq DOMAIN txs
  BY <1>1 DEF ChainOK
<1>3. \A id \in DOMAIN store : store[id] \in DOMAIN txs
  BY <1>1, <1>2 DEF StoreOK, IsContract
<1>4. QED
  BY <1>1, <1>3 DEF TypeOK, ChainTypes, RunTypes, CountTypes

\* A chain without transactions, and no run.
LEMMA InitTypes ==
  Init => Types
<1> SUFFICES ASSUME Init PROVE Types
  OBVIOUS
<1>1. IInv
  BY InitIInv
<1>2. ChainTypes
  BY DeploymentAssumption DEF Init, ChainTypes
<1>3. 1 \in DOMAIN Configs
  <2>1. Configs \in Seq(Range(Configs)) /\ Configs # <<>>
    BY DeploymentAssumption DEF IsList
  <2>2. QED
    BY <2>1
<1>4. RunTypes
  <2>1. Len(Plans[1]) \in Nat
    BY <1>3, PlanEndsWithReport
  <2>2. task = 0 /\ config = 1
    BY DEF Init
  <2>3. task \in 0..Len(Plans[config])
    BY <2>1, <2>2
  <2>4. config \in DOMAIN Configs /\ step \in {"begin", "wait", "check"} /\ finished \in BOOLEAN
    BY <1>3 DEF Init
  <2>5. QED
    BY <2>3, <2>4 DEF RunTypes
<1>5. CountTypes
  BY DeploymentAssumption DEF Init, CountTypes
<1>6. QED
  BY <1>1, <1>2, <1>4, <1>5 DEF Types

\* What is sent is of its kind, and one more is pending.
LEMMA SendTypes ==
  ASSUME ChainOK, ChainTypes, NEW kind \in {"create", "options", "adapters"},
         NEW id, NEW to, NEW data, Send(kind, id, to, data)
  PROVE  ChainTypes'
<1> DEFINE tx == [kind |-> kind, id |-> id, to |-> to, data |-> data]
           n == Len(txs)
<1>1. txs' = Append(txs, tx) /\ mined' = mined /\ blockStart' = blockStart /\ n - mined < MaxPending
  BY DEF Send
<1>2. /\ txs' \in Seq(Range(txs'))
      /\ Len(txs') = n + 1 /\ txs'[n + 1] = tx /\ \A k \in 1..n : txs'[k] = txs[k]
  BY <1>1, Appended DEF ChainOK
<1>3. n \in Nat /\ DOMAIN txs = 1..n /\ mined \in 0..n /\ blockStart \in 0..n
  BY DEF ChainOK, ChainTypes
<1>4. DOMAIN txs' = 1..(n + 1)
  BY <1>2, <1>3
<1>5. \A k \in DOMAIN txs' : txs'[k].kind \in {"create", "options", "adapters"}
  BY <1>2, <1>3, <1>4 DEF ChainTypes
<1>6. Len(txs') - mined' <= MaxPending
  BY <1>1, <1>2, <1>3, DeploymentAssumption
<1>7. QED
  BY <1>1, <1>2, <1>3, <1>5, <1>6 DEF ChainTypes

\* The report is the last task, so any other one has a successor.
LEMMA NextTaskTypes ==
  ASSUME RunTypes, task # 0, Task.do # "report", NextTask, UNCHANGED <<config, finished>>
  PROVE  RunTypes'
<1>1. /\ Len(Plans[config]) \in Nat \ {0}
      /\ task \in 1..Len(Plans[config])
      /\ Plans[config][Len(Plans[config])].do = "report"
  BY PlanEndsWithReport DEF RunTypes
<1>2. task # Len(Plans[config])
  BY <1>1 DEF Task
<1>3. QED
  BY <1>1, <1>2 DEF RunTypes, NextTask

\* Where no run is.
LEMMA ExitTypes ==
  ASSUME RunTypes, Exit, config' = config, finished' \in BOOLEAN
  PROVE  RunTypes'
<1>1. Len(Plans[config]) \in Nat
  BY PlanEndsWithReport DEF RunTypes
<1>2. QED
  BY <1>1 DEF RunTypes, Exit

\* The inductive step of DeploymentHasItsTypes.
LEMMA TypesAreKept ==
  ASSUME Types, [Next]_vars
  PROVE  Types'
<1>1. IInv' /\ ChainOK /\ ChainTypes /\ RunTypes /\ CountTypes
  BY StepIInv DEF Types, IInv
<1>2. ASSUME UNCHANGED chain PROVE ChainTypes'
  BY <1>1, <1>2 DEF ChainTypes, chain
<1>3. ASSUME UNCHANGED <<config, task, finished>>, step' \in {"begin", "wait", "check"} PROVE RunTypes'
  BY <1>1, <1>3 DEF RunTypes
<1>4. ASSUME UNCHANGED <<crashes, reruns>> PROVE CountTypes'
  BY <1>1, <1>4 DEF CountTypes
<1>5. ASSUME NEW id, NEW address, SetById(id, address), task # 0, Task.do # "report",
             UNCHANGED <<config, finished>>
      PROVE  RunTypes'
  BY <1>1, <1>5, NextTaskTypes DEF SetById
<1>6. CASE Import
  <2>1. task # 0 /\ Task.do # "report" /\ NextTask /\ UNCHANGED <<chain, config, finished, crashes, reruns>>
    BY <1>6 DEF Import, At
  <2>2. QED
    BY <1>1, <1>2, <1>4, <2>1, NextTaskTypes DEF Types
<1>7. CASE DeployContract
  <2>1. /\ Send("create", Task.id, 0, ConstructorArgs(Task.id)) /\ step' = "wait"
        /\ UNCHANGED <<config, task, finished, crashes, reruns>>
    BY <1>7 DEF DeployContract
  <2>2. ChainTypes'
    BY <1>1, <2>1, SendTypes
  <2>3. QED
    BY <1>1, <1>3, <1>4, <2>1, <2>2 DEF Types
<1>8. CASE Deployed
  <2>1. /\ task # 0 /\ Task.do # "report" /\ SetById(Task.id, Len(txs))
        /\ UNCHANGED <<chain, config, finished, crashes, reruns>>
    BY <1>8 DEF Deployed, At
  <2>2. QED
    BY <1>1, <1>2, <1>4, <1>5, <2>1 DEF Types
<1>9. CASE SetOptions
  <2>1. /\ Send("options", Task.setting.pair, store[Task.id], OptionsFor(Task))
        /\ step' \in {"wait", "check"}
        /\ UNCHANGED <<config, task, finished, crashes, reruns>>
    BY <1>9 DEF SetOptions
  <2>2. ChainTypes'
    BY <1>1, <2>1, SendTypes
  <2>3. QED
    BY <1>1, <1>3, <1>4, <2>1, <2>2 DEF Types
<1>10. CASE KeepOptions
  BY <1>1, <1>2, <1>3, <1>4, <1>10 DEF KeepOptions, Types
<1>11. CASE CheckOracle
  <2>1. /\ task # 0 /\ Task.do # "report" /\ (NextTask \/ Exit)
        /\ UNCHANGED <<chain, config, finished, crashes, reruns>>
    BY <1>11 DEF CheckOracle, At
  <2>2. RunTypes'
    BY <1>1, <2>1, NextTaskTypes, ExitTypes DEF RunTypes
  <2>3. QED
    BY <1>1, <1>2, <1>4, <2>1, <2>2 DEF Types
<1>12. CASE WireRouter
  <2>1. task # 0 /\ Task.do # "report" /\ NextTask /\ UNCHANGED <<config, finished, crashes, reruns>>
    BY <1>12 DEF WireRouter, At
  <2>2. CASE AdaptersToAdd = {}
    BY <1>1, <1>2, <1>4, <1>12, <2>1, <2>2, NextTaskTypes DEF WireRouter, Types
  <2>3. CASE AdaptersToAdd # {}
    <3>1. Send("adapters", Router, store[Router],
               [d \in AdaptersToAdd |-> store[AdapterId(AdapterFor(Configs[config], d))]])
      BY <1>12, <2>3 DEF WireRouter
    <3>2. ChainTypes'
      BY <1>1, <3>1, SendTypes
    <3>3. QED
      BY <1>1, <1>4, <2>1, <3>2, NextTaskTypes DEF Types
  <2>4. QED
    BY <2>2, <2>3
<1>13. CASE CreatePool
  <2>1. /\ Send("create", Task.id, store[Factory],
                [quote |-> TokenAddress(Task.pool.quote), base |-> TokenAddress(Task.pool.base),
                 oracle |-> store[OracleId(Task.pool.oracle)]])
        /\ step' = "wait"
        /\ UNCHANGED <<config, task, finished, crashes, reruns>>
    BY <1>13 DEF CreatePool
  <2>2. ChainTypes'
    BY <1>1, <2>1, SendTypes
  <2>3. QED
    BY <1>1, <1>3, <1>4, <2>1, <2>2 DEF Types
<1>14. CASE PoolCreated
  <2>1. /\ task # 0 /\ Task.do # "report" /\ (SetById(Task.id, Len(txs)) \/ Exit)
        /\ UNCHANGED <<chain, config, finished, crashes, reruns>>
    BY <1>14 DEF PoolCreated, At
  <2>2. RunTypes'
    BY <1>1, <1>5, <2>1, ExitTypes DEF RunTypes
  <2>3. QED
    BY <1>1, <1>2, <1>4, <2>1, <2>2 DEF Types
<1>15. CASE UpdateDeploymentFile
  <2>1. Exit /\ finished' \in BOOLEAN /\ UNCHANGED <<chain, config, crashes, reruns>>
    <3>1. finished \in BOOLEAN
      BY <1>1 DEF RunTypes
    <3>2. finished' = TRUE \/ finished' = finished
      BY <1>15 DEF UpdateDeploymentFile
    <3>3. finished' \in BOOLEAN
      BY <3>1, <3>2
    <3>4. QED
      BY <1>15, <3>3 DEF UpdateDeploymentFile
  <2>2. QED
    BY <1>1, <1>2, <1>4, <2>1, ExitTypes DEF Types
<1>16. CASE Resume \/ Rerun
  <2>1. /\ task' = 1 /\ step' = "begin" /\ finished' = FALSE /\ UNCHANGED <<chain, config, crashes>>
    BY <1>16 DEF Resume, Rerun, Start
  <2>2. RunTypes'
    <3>1. Len(Plans[config]) \in Nat \ {0}
      BY <1>1, PlanEndsWithReport DEF RunTypes
    <3>2. config' \in DOMAIN Configs /\ task' \in 0..Len(Plans[config'])
      BY <1>1, <2>1, <3>1 DEF RunTypes, chain
    <3>3. step' \in {"begin", "wait", "check"} /\ finished' \in BOOLEAN
      BY <2>1
    <3>4. QED
      BY <3>2, <3>3 DEF RunTypes
  <2>3. CountTypes'
    <3>1. reruns' = reruns \/ (reruns < MaxReruns /\ reruns' = reruns + 1)
      BY <1>16 DEF Resume, Rerun
    <3>2. QED
      BY <1>1, <2>1, <3>1, DeploymentAssumption DEF CountTypes
  <2>4. QED
    BY <1>1, <1>2, <2>1, <2>2, <2>3 DEF Types
<1>17. CASE Crash
  <2>1. /\ Exit /\ crashes < MaxCrashes /\ crashes' = crashes + 1
        /\ UNCHANGED <<chain, config, finished, reruns>>
    BY <1>17 DEF Crash
  <2>2. CountTypes'
    BY <1>1, <2>1, DeploymentAssumption DEF CountTypes
  <2>3. RunTypes'
    BY <1>1, <2>1, ExitTypes DEF RunTypes
  <2>4. QED
    BY <1>1, <1>2, <2>1, <2>2, <2>3 DEF Types
<1>18. CASE Mine
  <2>1. /\ txs' = txs /\ mined' \in (mined + 1)..Len(txs) /\ blockStart' = mined + 1
        /\ mined < Len(txs)
        /\ UNCHANGED <<config, task, step, finished, crashes, reruns>>
    BY <1>18 DEF Mine, run
  <2>2. ChainTypes'
    <3>1. Len(txs) \in Nat /\ mined \in Nat
      BY <1>1 DEF ChainOK
    <3>2. mined' \in 0..Len(txs) /\ blockStart' \in 0..Len(txs) /\ Len(txs) - mined' <= MaxPending
      BY <1>1, <2>1, <3>1, DeploymentAssumption DEF ChainTypes
    <3>3. QED
      BY <1>1, <2>1, <3>2 DEF ChainTypes
  <2>3. RunTypes'
    BY <1>1, <2>1 DEF RunTypes
  <2>4. QED
    BY <1>1, <1>4, <2>1, <2>2, <2>3 DEF Types
<1>19. CASE Reconfigure
  <2>1. /\ task = 0 /\ config < Len(Configs) /\ config' = config + 1 /\ finished' = FALSE
        /\ UNCHANGED <<chain, task, step, crashes, reruns>>
    BY <1>19 DEF Reconfigure, run
  <2>2. config' \in DOMAIN Configs
    <3>1. Configs \in Seq(Range(Configs))
      BY DeploymentAssumption DEF IsList
    <3>2. config \in 1..Len(Configs) /\ Len(Configs) \in Nat
      BY <1>1, <3>1 DEF RunTypes
    <3>3. QED
      BY <2>1, <3>1, <3>2
  <2>3. Len(Plans[config']) \in Nat
    BY <2>2, PlanEndsWithReport
  <2>4. task' \in 0..Len(Plans[config'])
    BY <2>1, <2>3
  <2>5. step' \in {"begin", "wait", "check"} /\ finished' \in BOOLEAN
    BY <1>1, <2>1 DEF RunTypes
  <2>6. RunTypes'
    BY <2>2, <2>4, <2>5 DEF RunTypes
  <2>7. QED
    BY <1>1, <1>2, <1>4, <2>1, <2>6 DEF Types
<1>20. CASE UNCHANGED vars
  <2>1. UNCHANGED <<chain, config, task, step, finished, crashes, reruns>>
    BY <1>20 DEF vars, run
  <2>2. RunTypes'
    BY <1>1, <2>1 DEF RunTypes
  <2>3. QED
    BY <1>1, <1>2, <1>4, <2>1, <2>2 DEF Types
<1>21. QED
  BY <1>6, <1>7, <1>8, <1>9, <1>10, <1>11, <1>12, <1>13, <1>14, <1>15, <1>16, <1>17,
     <1>18, <1>19, <1>20 DEF Next, RunStep

(***************************************************************************)
(* TypeOK for every configuration: a run that goes on after its report, or *)
(* a record of an address nothing was sent to, would break it.             *)
(***************************************************************************)
THEOREM DeploymentHasItsTypes == Spec => []TypeOK
<1>1. Init => Types
  BY InitTypes
<1>2. Types /\ [Next]_vars => Types'
  BY TypesAreKept
<1>3. Types => TypeOK
  BY TypesAreOK
<1>4. QED
  BY <1>1, <1>2, <1>3, PTL DEF Spec

----------------------------------------------------------------------------
\* Losses

\* The run waits for a contract.
Awaiting == At("deploy", "wait") \/ At("pool", "wait")

\* Its copy of the state file is the state file; what it waits for is not recorded, was
\* sent for the run's own task, and once mined is in a later block than what is recorded.
AwaitingOK ==
  /\ task # 0 => store = file
  /\ Awaiting => Task.id \notin DOMAIN store
  /\ Awaiting /\ AllMined => \A id \in DOMAIN store : store[id] < blockStart
  /\ mined > 0 => blockStart > 0

\* Contracts that nobody recorded, but for the one that the run waits for.
Lost ==
  {n \in DOMAIN txs : /\ txs[n].kind = "create" /\ n \notin Range(file)
                      /\ ~(Awaiting /\ n = Len(txs))}
\* Those that are not pools.
LostOthers == {n \in Lost : txs[n].id[1] # "marginlyPool"}

\* Those that can still be found in one block with the contract of the run: they are not
\* mined, or were mined with it.
Late == {n \in Lost : n > mined \/ (Awaiting /\ AllMined /\ n >= blockStart)}

\* A late one has cost one contract, and may cost another.
Bounded ==
  /\ Cardinality(LostOthers) <= crashes
  /\ Cardinality(Lost) + Cardinality(Late) <= 2 * crashes

\* The bounds hold whenever the records can be read: by the run, or in the file.
LossInv == AwaitingOK /\ (task # 0 \/ file # Torn => Bounded)

\* A subset of a finite set has no more elements.
LEMMA Fewer ==
  ASSUME NEW T, IsFiniteSet(T), NEW S \in SUBSET T
  PROVE  /\ IsFiniteSet(S) /\ Cardinality(S) \in Nat /\ Cardinality(T) \in Nat
         /\ Cardinality(S) <= Cardinality(T)
BY FS_Subset, FS_CardinalityType

\* A set with one more element has no more than one more.
LEMMA OneMore ==
  ASSUME NEW T, IsFiniteSet(T), NEW x, NEW S \in SUBSET (T \cup {x})
  PROVE  /\ IsFiniteSet(S) /\ Cardinality(S) \in Nat /\ Cardinality(T) \in Nat
         /\ Cardinality(S) <= Cardinality(T) + 1
<1> DEFINE U == T \cup {x}
<1>1. /\ IsFiniteSet(U) /\ Cardinality(T) \in Nat
      /\ Cardinality(U) = Cardinality(T) \/ Cardinality(U) = Cardinality(T) + 1
  BY FS_AddElement, FS_CardinalityType
<1> HIDE DEF U
<1>2. S \in SUBSET U
  BY DEF U
<1>3. IsFiniteSet(S) /\ Cardinality(S) \in Nat /\ Cardinality(S) <= Cardinality(U)
  BY <1>1, <1>2, Fewer
<1>4. QED
  BY <1>1, <1>3

\* What is counted is finite.
LEMMA LostIsFinite ==
  ASSUME ChainOK
  PROVE  /\ DOMAIN txs = 1..Len(txs) /\ Len(txs) \in Nat
         /\ LostOthers \subseteq Lost /\ Late \subseteq Lost
         /\ IsFiniteSet(Lost) /\ IsFiniteSet(LostOthers) /\ IsFiniteSet(Late)
<1>1. DOMAIN txs = 1..Len(txs) /\ Len(txs) \in Nat
  BY DEF ChainOK
<1>2. IsFiniteSet(DOMAIN txs)
  BY <1>1, FS_Interval
<1>3. Lost \in SUBSET DOMAIN txs /\ LostOthers \in SUBSET Lost /\ Late \in SUBSET Lost
  BY DEF Lost, LostOthers, Late
<1>4. IsFiniteSet(Lost)
  BY <1>2, <1>3, Fewer
<1>5. QED
  BY <1>1, <1>3, <1>4, Fewer

\* Nothing more is lost: the bounds stay.
LEMMA NoMoreLost ==
  ASSUME ChainOK, ChainOK', Bounded, crashes \in Nat, crashes' = crashes,
         Lost' \subseteq Lost, Late' \subseteq Late,
         \A n \in Lost : txs'[n] = txs[n]
  PROVE  Bounded'
<1>1. LostOthers' \subseteq LostOthers
  BY DEF LostOthers
<1>2. IsFiniteSet(Lost) /\ IsFiniteSet(LostOthers) /\ IsFiniteSet(Late)
  BY LostIsFinite
<1>3. /\ Cardinality(LostOthers') <= Cardinality(LostOthers)
      /\ Cardinality(Lost') <= Cardinality(Lost) /\ Cardinality(Late') <= Cardinality(Late)
      /\ Cardinality(LostOthers') \in Nat /\ Cardinality(LostOthers) \in Nat
      /\ Cardinality(Lost') \in Nat /\ Cardinality(Lost) \in Nat
      /\ Cardinality(Late') \in Nat /\ Cardinality(Late) \in Nat
  BY <1>1, <1>2, Fewer
<1>4. QED
  BY <1>3 DEF Bounded

\* Steps that record nothing, end no wait, and create nothing but what is waited for.
LEMMA QuietKeepsBounds ==
  ASSUME ChainOK, Grows, Bounded, crashes \in Nat, UNCHANGED <<file, mined, crashes>>,
         ~Awaiting, Awaiting' => ~AllMined',
         \A n \in DOMAIN txs' :
           n > Len(txs) => txs'[n].kind # "create" \/ (Awaiting' /\ n = Len(txs'))
  PROVE  Bounded'
<1>1. /\ DOMAIN txs = 1..Len(txs) /\ Len(txs) \in Nat
      /\ DOMAIN txs' = 1..Len(txs') /\ Len(txs') \in Nat
      /\ \A n \in 1..Len(txs) : txs'[n] = txs[n]
  BY DEF ChainOK, Grows
<1>2. \A n \in DOMAIN txs' : n \in DOMAIN txs \/ n > Len(txs)
  BY <1>1
<1>3. Lost' \subseteq Lost
  BY <1>1, <1>2 DEF Lost
<1>4. Late' \subseteq Late
  BY <1>3 DEF Late
<1>5. \A n \in Lost : txs'[n] = txs[n]
  BY <1>1 DEF Lost
<1>6. QED
  BY <1>3, <1>4, <1>5, NoMoreLost DEF Grows

\* The contract that was waited for is recorded, and the records go on.
LEMMA RecordingKeepsBounds ==
  ASSUME ChainOK, Bounded, crashes \in Nat, UNCHANGED <<txs, mined, blockStart, crashes>>,
         AwaitingOK, Awaiting, AllMined, SetById(Task.id, Len(txs))
  PROVE  Bounded'
<1>1. /\ step' = "begin"
      /\ file' = [i \in DOMAIN file \cup {Task.id} |-> IF i = Task.id THEN Len(txs) ELSE file[i]]
      /\ Task.id \notin DOMAIN file
  BY DEF SetById, NextTask, AwaitingOK, Awaiting, At
<1>2. ~Awaiting'
  BY <1>1 DEF Awaiting, At
<1>3. Range(file) \subseteq Range(file') /\ Len(txs) \in Range(file')
  <2>1. \A i \in DOMAIN file : i \in DOMAIN file' /\ file'[i] = file[i]
    BY <1>1
  <2>2. Task.id \in DOMAIN file' /\ file'[Task.id] = Len(txs)
    BY <1>1
  <2>3. QED
    BY <2>1, <2>2 DEF Range
<1>4. Lost' \subseteq Lost
  BY <1>3 DEF Lost
<1>5. Late' \subseteq Late
  <2>1. mined = Len(txs) /\ DOMAIN txs = 1..Len(txs) /\ Len(txs) \in Nat
    BY DEF AllMined, ChainOK
  <2>2. Late' = {}
    BY <1>2, <2>1 DEF Late, Lost
  <2>3. QED
    BY <2>2
<1>6. QED
  BY <1>4, <1>5, NoMoreLost DEF ChainOK

\* A block makes nothing late that was not: it holds what was not mined.
LEMMA MiningKeepsBounds ==
  ASSUME ChainOK, ChainOK', Bounded, crashes \in Nat,
         UNCHANGED <<txs, file, task, step, config, crashes>>,
         mined < mined', blockStart' = mined + 1
  PROVE  Bounded'
<1>1. Awaiting' = Awaiting
  BY DEF Awaiting, At, Task
<1>2. Lost' = Lost
  BY <1>1 DEF Lost
<1>3. mined \in Nat /\ mined' \in Nat /\ \A n \in Lost : n \in Nat
  BY DEF ChainOK, Lost
<1>4. Late' \subseteq Late
  BY <1>2, <1>3 DEF Late
<1>5. QED
  BY <1>2, <1>4, NoMoreLost

\* A run that is stopped loses what it waits for, and no more.
LEMMA StoppedLoses ==
  ASSUME ChainOK, UNCHANGED <<txs, mined, file>>, ~Awaiting'
  PROVE  /\ Lost' \subseteq Lost \cup {Len(txs)}
         /\ LostOthers' \subseteq LostOthers \cup {Len(txs)}
         /\ Late' \subseteq Late \cup {Len(txs)}
<1>1. Lost' \subseteq Lost \cup {Len(txs)}
  BY DEF Lost
<1>2. LostOthers' \subseteq LostOthers \cup {Len(txs)}
  BY <1>1 DEF LostOthers
<1>3. Late' \subseteq Late \cup {Len(txs)}
  BY <1>1 DEF Late
<1>4. QED
  BY <1>1, <1>2, <1>3

\* An interruption pays for what it loses twice: it may be found again.
LEMMA CrashKeepsBounds ==
  ASSUME ChainOK, Bounded, crashes \in Nat, UNCHANGED <<txs, mined, file>>, ~Awaiting',
         crashes' = crashes + 1
  PROVE  Bounded'
<1>1. /\ Lost' \subseteq Lost \cup {Len(txs)}
      /\ LostOthers' \subseteq LostOthers \cup {Len(txs)}
      /\ Late' \subseteq Late \cup {Len(txs)}
  BY StoppedLoses
<1>2. IsFiniteSet(Lost) /\ IsFiniteSet(LostOthers) /\ IsFiniteSet(Late)
  BY LostIsFinite
<1>3. /\ Cardinality(LostOthers') <= Cardinality(LostOthers) + 1
      /\ Cardinality(Lost') <= Cardinality(Lost) + 1 /\ Cardinality(Late') <= Cardinality(Late) + 1
      /\ Cardinality(LostOthers') \in Nat /\ Cardinality(LostOthers) \in Nat
      /\ Cardinality(Lost') \in Nat /\ Cardinality(Lost) \in Nat
      /\ Cardinality(Late') \in Nat /\ Cardinality(Late) \in Nat
  BY <1>1, <1>2, OneMore
<1>4. QED
  BY <1>3 DEF Bounded

\* A run that finds more events than its own in the block loses a pool; but then one of
\* them is late, and no longer is.
LEMMA ConfusionKeepsBounds ==
  ASSUME ChainOK, ChainTypes, Bounded, crashes \in Nat, AwaitingOK, SentOK,
         UNCHANGED <<txs, mined, blockStart, file, crashes>>,
         At("pool", "wait"), Task.id[1] = "marginlyPool", AllMined,
         Cardinality(PoolsCreated) > 1, ~Awaiting'
  PROVE  Bounded'
<1> DEFINE last == Len(txs)
<1>1. /\ Lost' \subseteq Lost \cup {last} /\ LostOthers' \subseteq LostOthers \cup {last}
      /\ IsFiniteSet(Lost) /\ IsFiniteSet(LostOthers) /\ IsFiniteSet(Late)
      /\ last \in Nat /\ DOMAIN txs = 1..last
  BY StoppedLoses, LostIsFinite
<1>2. /\ last > 0 /\ mined = last /\ Awaiting
      /\ txs[last].id[1] = "marginlyPool"
  BY DEF SentOK, AllMined, Awaiting
<1>3. LostOthers' \subseteq LostOthers
  BY <1>1, <1>2 DEF LostOthers
<1>4. Late' = {}
  BY <1>1, <1>2 DEF Late, Lost
<1>5. \E n \in PoolsCreated : n # last
  <2>1. SUFFICES ASSUME PoolsCreated \subseteq {last} PROVE FALSE
    BY <2>1
  <2>2. IsFiniteSet({last}) /\ Cardinality({last}) = 1
    BY FS_Singleton
  <2>3. Cardinality(PoolsCreated) \in Nat /\ Cardinality(PoolsCreated) <= 1
    BY <2>1, <2>2, Fewer
  <2>4. QED
    BY <2>3
<1>6. PICK n \in PoolsCreated : n # last
  BY <1>5
<1>7. n \in Late
  <2>1. blockStart \in Nat /\ blockStart > 0
    BY <1>1, <1>2 DEF AwaitingOK, ChainTypes
  <2>2. n \in blockStart..mined /\ txs[n].kind = "create"
    BY <1>6 DEF PoolsCreated, SamePool
  <2>3. n \in DOMAIN txs
    BY <1>1, <1>2, <2>1, <2>2
  <2>4. store = file /\ \A id \in DOMAIN store : store[id] < blockStart
    BY <1>2 DEF AwaitingOK, At
  <2>5. n \notin Range(file)
    <3>1. SUFFICES ASSUME NEW id \in DOMAIN file, file[id] = n PROVE FALSE
      BY DEF Range
    <3>2. n < blockStart
      BY <2>4, <3>1
    <3>3. QED
      BY <2>1, <2>2, <3>2
  <2>6. n \in Lost
    BY <1>6, <2>2, <2>3, <2>5 DEF Lost
  <2>7. QED
    BY <1>2, <2>1, <2>2, <2>6 DEF Late
<1>8. Cardinality(Late) \in Nat /\ Cardinality(Late) > 0
  BY <1>1, <1>7, FS_CardinalityType, FS_EmptySet
<1>9. /\ Cardinality(LostOthers') <= Cardinality(LostOthers)
      /\ Cardinality(LostOthers') \in Nat /\ Cardinality(LostOthers) \in Nat
  BY <1>1, <1>3, Fewer
<1>10. /\ Cardinality(Lost') <= Cardinality(Lost) + 1
       /\ Cardinality(Lost') \in Nat /\ Cardinality(Lost) \in Nat
  BY <1>1, OneMore
<1>11. Cardinality(Late') = 0
  BY <1>4, FS_EmptySet
<1>12. QED
  BY <1>8, <1>9, <1>10, <1>11 DEF Bounded

\* The inductive invariant of InterruptionsCostLittle.
Losses == Types /\ LossInv

\* Nothing is lost before anything is sent.
LEMMA InitLosses ==
  Init => Losses
<1> SUFFICES ASSUME Init PROVE Losses
  OBVIOUS
<1>1. task = 0 /\ mined = 0 /\ crashes = 0 /\ DOMAIN txs = {} /\ step = "begin"
  BY DEF Init
<1>2. AwaitingOK
  BY <1>1 DEF AwaitingOK, Awaiting, At
<1>3. Lost = {} /\ LostOthers = {} /\ Late = {}
  BY <1>1 DEF Lost, LostOthers, Late
<1>4. Bounded
  BY <1>1, <1>3, FS_EmptySet DEF Bounded
<1>5. QED
  BY <1>2, <1>4, InitTypes DEF Losses, LossInv

\* A step after which the run waits for nothing.
LEMMA NothingAwaited ==
  ASSUME AwaitingOK, UNCHANGED chain, ~Awaiting', task' # 0 => store' = file'
  PROVE  AwaitingOK'
BY DEF AwaitingOK, chain

\* What is sent is not mined yet.
LEMMA SendAwaits ==
  ASSUME ChainOK, AwaitingOK, NEW kind, NEW id, NEW to, NEW data, Send(kind, id, to, data),
         task' # 0 => store' = file', Awaiting' => Task'.id \notin DOMAIN store'
  PROVE  AwaitingOK' /\ ~AllMined' /\ UNCHANGED mined
<1>1. Grows /\ UNCHANGED <<mined, blockStart>>
  BY SendGrows DEF Send
<1>2. Len(txs') = Len(txs) + 1 /\ mined <= Len(txs) /\ mined \in Nat /\ Len(txs) \in Nat
  BY Appended DEF Send, ChainOK
<1>3. ~AllMined'
  BY <1>1, <1>2 DEF AllMined
<1>4. QED
  BY <1>1, <1>3 DEF AwaitingOK

\* What is sent is the only new transaction.
LEMMA SendIsLast ==
  ASSUME ChainOK, NEW kind, NEW id, NEW to, NEW data, Send(kind, id, to, data)
  PROVE  \A n \in DOMAIN txs' : n > Len(txs) => n = Len(txs') /\ txs'[n].kind = kind
<1> DEFINE tx == [kind |-> kind, id |-> id, to |-> to, data |-> data]
<1>1. txs' = Append(txs, tx)
  BY DEF Send
<1>2. /\ txs' \in Seq(Range(txs')) /\ Len(txs') = Len(txs) + 1
      /\ txs'[Len(txs) + 1] = tx /\ Len(txs) \in Nat
  BY <1>1, Appended DEF ChainOK
<1>3. DOMAIN txs' = 1..(Len(txs) + 1)
  BY <1>2
<1>4. QED
  BY <1>2, <1>3

\* The inductive step of InterruptionsCostLittle, action by action.
LEMMA LossesAreKept ==
  ASSUME Losses, [Next]_vars
  PROVE  LossInv'
<1>1. /\ Types /\ Types' /\ ChainOK /\ ChainOK' /\ SentOK /\ ChainTypes /\ RunTypes
      /\ AwaitingOK /\ crashes \in Nat
  BY TypesAreKept DEF Losses, LossInv, Types, IInv, CountTypes
<1>2. /\ task # 0 \/ file # Torn => Bounded
      /\ task # 0 => store = file
  BY DEF Losses, LossInv, AwaitingOK
<1>3. step' # "wait" => ~Awaiting'
  BY DEF Awaiting, At
<1>4. step # "wait" => ~Awaiting
  BY DEF Awaiting, At
<1>5. ASSUME UNCHANGED <<chain, file, crashes>>, ~Awaiting, ~Awaiting', Bounded
      PROVE  Bounded'
  <2>1. Grows /\ UNCHANGED <<txs, mined>>
    BY <1>1, <1>5, ChainStays DEF chain
  <2>2. \A n \in DOMAIN txs' : ~(n > Len(txs))
    BY <1>1, <2>1 DEF ChainOK
  <2>3. QED
    BY <1>1, <1>5, <2>1, <2>2, QuietKeepsBounds
<1>6. CASE Import
  <2>1. task # 0 /\ step' = "begin" /\ step = "begin" /\ UNCHANGED <<chain, file, store, crashes>>
    BY <1>6 DEF Import, At, NextTask, files
  <2>2. QED
    BY <1>1, <1>2, <1>3, <1>4, <1>5, <2>1, NothingAwaited DEF LossInv
<1>7. CASE KeepOptions \/ (CheckOracle /\ step = "check")
  <2>1. task # 0 /\ step' # "wait" /\ UNCHANGED <<chain, file, crashes>>
    BY <1>7 DEF KeepOptions, CheckOracle, At, NextTask, Exit, files
  <2>2. ~Awaiting
    BY <1>4, <1>7 DEF KeepOptions, At, Awaiting
  <2>3. task' # 0 => store' = file'
    BY <1>2, <1>7, <2>1 DEF KeepOptions, CheckOracle, NextTask, Exit
  <2>4. QED
    BY <1>1, <1>2, <1>3, <1>5, <2>1, <2>2, <2>3, NothingAwaited DEF LossInv
<1>8. CASE DeployContract \/ CreatePool
  <2>1. /\ task # 0 /\ step = "begin" /\ Task.id \notin DOMAIN store
        /\ Task.do \in {"deploy", "pool"} /\ step' = "wait"
        /\ UNCHANGED <<file, config, task, store, crashes>>
    BY <1>8 DEF DeployContract, CreatePool, At, files
  <2>2. PICK id, to, data : Send("create", id, to, data)
    BY <1>8 DEF DeployContract, CreatePool
  <2>3. AwaitingOK' /\ ~AllMined' /\ UNCHANGED mined
    BY <1>1, <1>2, <2>1, <2>2, SendAwaits DEF Task
  <2>4. Awaiting'
    BY <2>1 DEF Awaiting, At, Task
  <2>5. Grows /\ \A n \in DOMAIN txs' : n > Len(txs) => n = Len(txs')
    BY <1>1, <2>2, SendGrows, SendIsLast
  <2>6. Bounded'
    BY <1>1, <1>2, <1>4, <2>1, <2>3, <2>4, <2>5, QuietKeepsBounds
  <2>7. QED
    BY <2>3, <2>6 DEF LossInv
<1>9. CASE SetOptions
  <2>1. /\ task # 0 /\ step = "begin" /\ Task.do = "configure"
        /\ Send("options", Task.setting.pair, store[Task.id], OptionsFor(Task))
        /\ UNCHANGED <<file, config, task, store, crashes>>
    BY <1>9 DEF SetOptions, At, files
  <2>2. ~Awaiting'
    BY <2>1 DEF Awaiting, At, Task
  <2>3. AwaitingOK' /\ ~AllMined' /\ UNCHANGED mined
    BY <1>1, <1>2, <2>1, <2>2, SendAwaits
  <2>4. Grows /\ \A n \in DOMAIN txs' : n > Len(txs) => txs'[n].kind # "create"
    BY <1>1, <2>1, SendGrows, SendIsLast
  <2>5. Bounded'
    BY <1>1, <1>2, <1>4, <2>1, <2>2, <2>3, <2>4, QuietKeepsBounds
  <2>6. QED
    BY <2>3, <2>5 DEF LossInv
<1>10. CASE WireRouter
  <2>1. /\ task # 0 /\ step = "begin" /\ step' = "begin" /\ UNCHANGED <<file, store, crashes>>
    BY <1>10 DEF WireRouter, At, NextTask, files
  <2>2. CASE AdaptersToAdd = {}
    <3>1. UNCHANGED chain
      BY <1>10, <2>2 DEF WireRouter
    <3>2. QED
      BY <1>1, <1>2, <1>3, <1>4, <1>5, <2>1, <3>1, NothingAwaited DEF LossInv
  <2>3. CASE AdaptersToAdd # {}
    <3>1. Send("adapters", Router, store[Router],
               [d \in AdaptersToAdd |-> store[AdapterId(AdapterFor(Configs[config], d))]])
      BY <1>10, <2>3 DEF WireRouter
    <3>2. ~Awaiting' /\ ~Awaiting
      BY <1>3, <1>4, <2>1
    <3>3. AwaitingOK' /\ ~AllMined' /\ UNCHANGED mined
      BY <1>1, <1>2, <2>1, <3>1, <3>2, SendAwaits
    <3>4. Grows /\ \A n \in DOMAIN txs' : n > Len(txs) => txs'[n].kind # "create"
      BY <1>1, <3>1, SendGrows, SendIsLast
    <3>5. Bounded'
      BY <1>1, <1>2, <2>1, <3>2, <3>3, <3>4, QuietKeepsBounds
    <3>6. QED
      BY <3>3, <3>5 DEF LossInv
  <2>4. QED
    BY <2>2, <2>3
<1>11. CASE Deployed \/ (PoolCreated /\ SetById(Task.id, Len(txs)))
  <2>1. /\ task # 0 /\ Awaiting /\ AllMined /\ SetById(Task.id, Len(txs))
        /\ UNCHANGED <<chain, crashes>>
    BY <1>11 DEF Deployed, PoolCreated, Awaiting, At
  <2>2. step' = "begin" /\ store' = file'
    BY <2>1 DEF SetById, NextTask
  <2>3. AwaitingOK'
    BY <1>1, <1>3, <2>1, <2>2, NothingAwaited
  <2>4. Bounded'
    BY <1>1, <1>2, <2>1, RecordingKeepsBounds DEF chain
  <2>5. QED
    BY <2>3, <2>4 DEF LossInv
<1>12. CASE PoolCreated /\ Cardinality(PoolsCreated) > 1 /\ Exit /\ UNCHANGED file
  <2>1. /\ task # 0 /\ At("pool", "wait") /\ AllMined /\ task' = 0 /\ step' = "begin"
        /\ UNCHANGED <<chain, crashes>>
    BY <1>12 DEF PoolCreated, At, Exit
  <2>2. Task.id[1] = "marginlyPool"
    BY <1>1, <2>1, TaskWorks DEF RunTypes, Works, At
  <2>3. AwaitingOK'
    BY <1>1, <1>3, <2>1, NothingAwaited
  <2>4. Bounded'
    BY <1>1, <1>2, <1>3, <1>12, <2>1, <2>2, ConfusionKeepsBounds DEF chain
  <2>5. QED
    BY <2>3, <2>4 DEF LossInv
<1>13. CASE UpdateDeploymentFile
  <2>1. /\ task # 0 /\ step = "begin" /\ task' = 0 /\ step' = "begin"
        /\ UNCHANGED <<chain, file, crashes>>
    BY <1>13 DEF UpdateDeploymentFile, At, Exit
  <2>2. QED
    BY <1>1, <1>2, <1>3, <1>4, <1>5, <2>1, NothingAwaited DEF LossInv
<1>14. CASE Resume \/ Rerun
  <2>1. /\ task = 0 /\ file # Torn /\ step' = "begin" /\ store' = file
        /\ UNCHANGED <<chain, file, crashes>>
    BY <1>14 DEF Resume, Rerun, Start, files
  <2>2. ~Awaiting
    BY <2>1 DEF Awaiting, At
  <2>3. QED
    BY <1>1, <1>2, <1>3, <1>5, <2>1, <2>2, NothingAwaited DEF LossInv
<1>15. CASE Crash
  <2>1. /\ task # 0 /\ task' = 0 /\ step' = "begin" /\ crashes' = crashes + 1
        /\ UNCHANGED chain /\ (file' = file \/ file' = Torn)
    BY <1>15 DEF Crash, Exit
  <2>2. AwaitingOK'
    BY <1>1, <1>3, <2>1, NothingAwaited
  <2>3. CASE file' = file
    <3>1. Bounded'
      BY <1>1, <1>2, <1>3, <2>1, <2>3, CrashKeepsBounds DEF chain
    <3>2. QED
      BY <2>2, <3>1 DEF LossInv
  <2>4. CASE file' = Torn
    BY <2>1, <2>2, <2>4 DEF LossInv
  <2>5. QED
    BY <2>1, <2>3, <2>4
<1>16. CASE Mine
  <2>1. /\ mined' \in (mined + 1)..Len(txs) /\ blockStart' = mined + 1
        /\ UNCHANGED <<txs, file, config, task, step, store, crashes>>
    BY <1>16 DEF Mine, files, run
  <2>2. mined \in Nat /\ mined < mined'
    BY <1>1, <2>1 DEF ChainOK
  <2>3. Awaiting' = Awaiting /\ Task' = Task
    BY <2>1 DEF Awaiting, At, Task
  <2>4. \A id \in DOMAIN store' : store'[id] < blockStart'
    <3>1. \A id \in DOMAIN store : store[id] \in 1..mined
      BY <1>1 DEF Types, IInv, StoreOK, IsContract
    <3>2. QED
      BY <2>1, <2>2, <3>1
  <2>5. AwaitingOK'
    BY <1>1, <2>1, <2>2, <2>3, <2>4 DEF AwaitingOK
  <2>6. Bounded => Bounded'
    BY <1>1, <2>1, <2>2, MiningKeepsBounds
  <2>7. QED
    BY <1>2, <2>1, <2>5, <2>6 DEF LossInv
<1>17. CASE Reconfigure
  <2>1. task = 0 /\ task' = 0 /\ UNCHANGED <<chain, file, crashes>>
    BY <1>17 DEF Reconfigure, files, run
  <2>2. ~Awaiting /\ ~Awaiting'
    BY <2>1 DEF Awaiting, At
  <2>3. QED
    BY <1>1, <1>2, <1>5, <2>1, <2>2, NothingAwaited DEF LossInv
<1>18. CASE UNCHANGED vars
  <2>1. UNCHANGED <<txs, mined, blockStart, file, config, task, step, store, crashes>>
    BY <1>18 DEF vars, chain, files, run
  <2>2. Awaiting' = Awaiting /\ Task' = Task /\ AllMined' = AllMined
    BY <2>1 DEF Awaiting, At, Task, AllMined
  <2>3. AwaitingOK'
    BY <1>1, <2>1, <2>2 DEF AwaitingOK
  <2>4. Lost' = Lost
    BY <2>1, <2>2 DEF Lost
  <2>5. LostOthers' = LostOthers /\ Late' = Late
    BY <2>1, <2>2, <2>4 DEF LostOthers, Late
  <2>6. QED
    BY <1>2, <2>1, <2>3, <2>4, <2>5 DEF LossInv, Bounded
<1>19. QED
  <2>1. PoolCreated => \/ SetById(Task.id, Len(txs))
                       \/ Cardinality(PoolsCreated) > 1 /\ Exit /\ UNCHANGED file
    BY DEF PoolCreated
  <2>2. CheckOracle => step = "check"
    BY DEF CheckOracle, At
  <2>3. QED
    BY <1>6, <1>7, <1>8, <1>9, <1>10, <1>11, <1>12, <1>13, <1>14, <1>15, <1>16, <1>17, <1>18,
       <2>1, <2>2 DEF Next, RunStep

\* What is not recorded is lost, or waited for.
LEMMA LossesAreCounted ==
  Losses => LossesAreBounded
<1> SUFFICES ASSUME Losses, file # Torn PROVE LossesAreBounded
  BY DEF LossesAreBounded
<1> DEFINE underWay == IF task # 0 /\ step = "wait" THEN 1 ELSE 0
           others == Orphans \ LostPools
<1>1. ChainOK /\ Bounded /\ crashes \in Nat
  BY DEF Losses, LossInv, Types, IInv, CountTypes
<1>2. IsFiniteSet(Lost) /\ IsFiniteSet(LostOthers) /\ IsFiniteSet(Late)
  BY <1>1, LostIsFinite
<1>3. /\ Cardinality(Lost) \in Nat /\ Cardinality(LostOthers) \in Nat /\ Cardinality(Late) \in Nat
      /\ Cardinality(LostOthers) <= crashes
      /\ Cardinality(Lost) + Cardinality(Late) <= 2 * crashes
  BY <1>1, <1>2, Fewer DEF Bounded
<1>4. CASE Awaiting
  <2>1. underWay = 1
    BY <1>4 DEF Awaiting, At
  <2>2. Orphans \subseteq Lost \cup {Len(txs)}
    BY DEF Orphans, Lost
  <2>3. others \subseteq LostOthers \cup {Len(txs)}
    BY <2>2 DEF Orphans, LostPools, LostOthers
  <2>4. /\ Cardinality(Orphans) <= Cardinality(Lost) + 1 /\ Cardinality(Orphans) \in Nat
        /\ Cardinality(others) <= Cardinality(LostOthers) + 1 /\ Cardinality(others) \in Nat
    BY <1>2, <2>2, <2>3, OneMore
  <2>5. QED
    BY <1>1, <1>3, <2>1, <2>4 DEF LossesAreBounded
<1>5. CASE ~Awaiting
  <2>1. Orphans \subseteq Lost
    BY <1>5 DEF Orphans, Lost
  <2>2. others \subseteq LostOthers
    BY <2>1 DEF Orphans, LostPools, LostOthers
  <2>3. /\ Cardinality(Orphans) <= Cardinality(Lost) /\ Cardinality(Orphans) \in Nat
        /\ Cardinality(others) <= Cardinality(LostOthers) /\ Cardinality(others) \in Nat
    BY <1>2, <2>1, <2>2, Fewer
  <2>4. underWay \in {0, 1}
    OBVIOUS
  <2>5. QED
    BY <1>1, <1>3, <2>3, <2>4 DEF LossesAreBounded
<1>6. QED
  BY <1>4, <1>5

(***************************************************************************)
(* LossesAreBounded for every configuration and any number of              *)
(* interruptions: an interruption costs one contract that nobody recorded  *)
(* (the process dies between BaseDeployer.ts:59 and :60), and a second one *)
(* only if the first was a pool that is mined with the next run's own      *)
(* (MarginlyDeployer.ts:69); a third one it never costs.                   *)
(***************************************************************************)
THEOREM InterruptionsCostLittle == Spec => []LossesAreBounded
<1>1. Init => Losses
  BY InitLosses
<1>2. Losses /\ [Next]_vars => Losses'
  BY TypesAreKept, LossesAreKept DEF Losses
<1>3. Losses => LossesAreBounded
  BY LossesAreCounted
<1>4. QED
  BY <1>1, <1>2, <1>3, PTL DEF Spec

----------------------------------------------------------------------------
\* Repetition

\* What CompleteIsLeftAlone says of a step.
OnlyPairsAreSent ==
  ~Corrupt /\ AllMined /\ Complete(Configs[config]) /\ txs' # txs =>
    /\ txs'[Len(txs')].kind = "options"
    /\ txs'[Len(txs')].to \in PairOracles(Configs[config])

\* What a complete deployment holds of an oracle that is asked for its prices does not
\* have to be sent again.
LEMMA SetOraclesAreKept ==
  ASSUME NEW c, Complete(c), NEW o \in Range(c.oracles), NEW s \in Range(o.settings),
         NEW t, t.id = OracleId(o.id), t.kind = o.kind, t.setting = s, store = file, MustSet(t)
  PROVE  o.kind \in Pairs
<1> DEFINE current == OptionsOf(file[OracleId(o.id)], s.pair)
<1>1. OracleIsSet(o, s)
  BY DEF Complete
<1>2. o.kind = "pendle" => IsContract(current, OracleId(s.options))
  BY <1>1 DEF OracleIsSet
<1>3. o.kind = "pendle" => current # 0
  BY <1>2 DEF IsContract
<1>4. o.kind # "pendle" => current = s.options
  BY <1>1 DEF OracleIsSet
<1>5. /\ OptionsOf(store[t.id], t.setting.pair) = current
      /\ t.kind # "pendle" => OptionsFor(t) = s.options
  BY DEF OptionsFor
<1> HIDE DEF current
<1>6. \/ t.kind \in Pairs
      \/ t.kind = "pendle" /\ current = 0
      \/ t.kind \in Priced /\ current # OptionsFor(t)
  BY <1>5 DEF MustSet
<1>7. QED
  BY <1>3, <1>4, <1>5, <1>6 DEF Priced

\* The router of a complete deployment has its adapters.
LEMMA WiredRouterIsKept ==
  ASSUME Complete(Configs[config]), store = file
  PROVE  AdaptersToAdd = {}
<1> DEFINE c == Configs[config]
<1>1. SUFFICES ASSUME NEW d \in DexIds(c),
                      AdapterOf(store[Router], d) # store[AdapterId(AdapterFor(c, d))]
               PROVE  FALSE
  BY DEF AdaptersToAdd
<1> DEFINE a == AdapterFor(c, d)
<1>2. \E x \in Range(c.adapters) : x.dexId = d
  BY DEF DexIds
<1>3. a \in Range(c.adapters) /\ a.dexId = d
  BY <1>2 DEF AdapterFor
<1> HIDE DEF a
<1>4. AdapterOf(file[Router], a.dexId) = file[AdapterId(a)]
  BY <1>3 DEF Complete
<1>5. QED
  BY <1>1, <1>3, <1>4 DEF a

\* Every step of RepeatedRunsAreIdle.
LEMMA CompleteIsKept ==
  ASSUME Losses, [Next]_vars
  PROVE  [OnlyPairsAreSent]_vars
<1> SUFFICES ASSUME Complete(Configs[config]), txs' # txs
             PROVE  /\ txs'[Len(txs')].kind = "options"
                    /\ txs'[Len(txs')].to \in PairOracles(Configs[config])
  BY DEF OnlyPairsAreSent
<1>1. ChainOK /\ RunTypes /\ AwaitingOK
  BY DEF Losses, LossInv, Types, IInv
<1>2. Deploys(Configs[config]) \subseteq DOMAIN file
  BY DEF Complete
<1>3. DeployContract \/ SetOptions \/ WireRouter \/ CreatePool
  BY DEF Next, RunStep, Import, Deployed, KeepOptions, CheckOracle, PoolCreated,
     UpdateDeploymentFile, Resume, Rerun, Start, Crash, Mine, Reconfigure, vars, chain
<1>4. task # 0 /\ store = file
  BY <1>1, <1>3 DEF DeployContract, SetOptions, WireRouter, CreatePool, At, AwaitingOK
<1>5. Task.do # "report" => Works(Configs[config], Task)
  BY <1>1, <1>4, TaskWorks DEF RunTypes
<1>6. CASE DeployContract \/ CreatePool
  <2>1. Task.do \in {"deploy", "pool"} /\ Task.id \notin DOMAIN store
    BY <1>6 DEF DeployContract, CreatePool, At
  <2>2. Task.id \in Deploys(Configs[config])
    BY <1>5, <2>1 DEF Works
  <2>3. QED
    BY <1>2, <1>4, <2>1, <2>2
<1>7. CASE WireRouter
  BY <1>4, <1>7, WiredRouterIsKept DEF WireRouter, chain
<1>8. CASE SetOptions
  <2>1. /\ Task.do = "configure" /\ MustSet(Task)
        /\ Send("options", Task.setting.pair, store[Task.id], OptionsFor(Task))
    BY <1>8 DEF SetOptions, At
  <2>2. PICK o \in Range(Configs[config].oracles) : \E s \in Range(o.settings) :
          Task.id = OracleId(o.id) /\ Task.kind = o.kind /\ Task.setting = s
    BY <1>5, <2>1 DEF Works
  <2>3. o.kind \in Pairs
    BY <1>4, <2>1, <2>2, SetOraclesAreKept
  <2>4. file[OracleId(o.id)] \in PairOracles(Configs[config])
    BY <2>2, <2>3 DEF PairOracles
  <2>5. /\ txs'[Len(txs')].kind = "options" /\ txs'[Len(txs')].to = store[Task.id]
    <3> DEFINE tx == [kind |-> "options", id |-> Task.setting.pair, to |-> store[Task.id],
                      data |-> OptionsFor(Task)]
    <3>1. txs' = Append(txs, tx)
      BY <2>1 DEF Send
    <3>2. txs'[Len(txs')] = tx
      BY <1>1, <3>1, Appended DEF ChainOK
    <3>3. QED
      BY <3>2
  <2>6. QED
    BY <1>4, <2>2, <2>4, <2>5
<1>9. QED
  BY <1>3, <1>6, <1>7, <1>8

(***************************************************************************)
(* CompleteIsLeftAlone for every configuration: deployTemplate             *)
(* (BaseDeployer.ts:48), getOrCreateMarginlyPool, deployMarginlyRouter and *)
(* the oracles look at what is there, so that a run that is repeated sends *)
(* nothing but the pairs of Chainlink and Pyth oracles.                    *)
(***************************************************************************)
THEOREM RepeatedRunsAreIdle == Spec => CompleteIsLeftAlone
<1>1. Init => Losses
  BY InitLosses
<1>2. Losses /\ [Next]_vars => Losses'
  BY TypesAreKept, LossesAreKept DEF Losses
<1>3. Losses /\ [Next]_vars => [OnlyPairsAreSent]_vars
  BY CompleteIsKept
<1>4. QED
  BY <1>1, <1>2, <1>3, PTL DEF Spec, CompleteIsLeftAlone, OnlyPairsAreSent

----------------------------------------------------------------------------
\* Completion

\* What has to be recorded before a task.
Needs(c, x) ==
  IF x.do = "configure"
  THEN {x.id} \cup (IF x.kind = "pendle" THEN {OracleId(x.setting.options)} ELSE {})
  ELSE IF x.do = "wire" THEN {Router} \cup {AdapterId(a) : a \in Range(c.adapters)}
  ELSE IF x.do = "pool" THEN {Factory, OracleId(x.pool.oracle)}
  ELSE IF x.do = "deploy" /\ x.id = Router THEN {AdapterId(a) : a \in Range(c.adapters)}
  ELSE IF x.do = "deploy" /\ x.id = Factory THEN {Implementation, Router}
  ELSE {}

\* A task is about what the configuration says.
Meant(c, x) ==
  /\ x.do = "deploy" => x.id[1] # "marginlyPool"
  /\ x.do = "configure" => x \in Configures(c)
  /\ x.do = "pool" => \E p \in Range(c.pools) : x.id = PoolId(p.id) /\ x.pool = p

\* What tasks leave in the state file.
Ids(X) == {x.id : x \in {y \in X : y.do \in {"deploy", "pool"}}}

\* Tasks in an order in which each finds what it needs, if it is in S or comes before.
Ordered(c, S, q) ==
  /\ IsList(q)
  /\ \A i \in 1..Len(q) :
       Meant(c, q[i]) /\ Needs(c, q[i]) \subseteq S \cup Ids({q[j] : j \in 1..(i - 1)})

\* More may be there.
LEMMA OrderedWithMore ==
  ASSUME NEW c, NEW S, NEW q, Ordered(c, S, q), NEW T, S \subseteq T
  PROVE  Ordered(c, T, q)
BY DEF Ordered

\* One list of tasks after another.
LEMMA OrderedJoin ==
  ASSUME NEW c, NEW S, NEW q, Ordered(c, S, q),
         NEW T, T \subseteq S \cup Ids(Range(q)), NEW r, Ordered(c, T, r)
  PROVE  Ordered(c, S, q \o r) /\ Range(q \o r) = Range(q) \cup Range(r)
<1> DEFINE U == Range(q) \cup Range(r)
           w == q \o r
           m == Len(q)
           n == Len(r)
<1>1. q \in Seq(U) /\ r \in Seq(U)
  <2>1. q \in Seq(Range(q)) /\ r \in Seq(Range(r))
    BY DEF Ordered, IsList
  <2>2. Range(q) \subseteq U /\ Range(r) \subseteq U
    OBVIOUS
  <2> HIDE DEF U
  <2>3. QED
    BY <2>1, <2>2, SeqMonotonic
<1> HIDE DEF U
<1>2. /\ w \in Seq(U) /\ Len(w) = m + n /\ m \in Nat /\ n \in Nat
      /\ DOMAIN w = 1..(m + n) /\ DOMAIN q = 1..m /\ DOMAIN r = 1..n
      /\ \A i \in 1..m : w[i] = q[i]
      /\ \A i \in 1..n : w[m + i] = r[i]
  BY <1>1
<1> HIDE DEF w, m, n
<1>3. \A i \in 1..(m + n) : i \in 1..m \/ (i - m \in 1..n /\ i = m + (i - m))
  BY <1>2
<1>4. Range(w) = Range(q) \cup Range(r)
  <2>1. Range(w) = {w[i] : i \in 1..(m + n)}
    BY <1>2 DEF Range
  <2>2. Range(q) = {q[i] : i \in 1..m} /\ Range(r) = {r[i] : i \in 1..n}
    BY <1>2 DEF Range
  <2>3. \A i \in 1..m : i \in 1..(m + n)
    BY <1>2
  <2>4. \A i \in 1..n : m + i \in 1..(m + n)
    BY <1>2
  <2>5. Range(w) \subseteq Range(q) \cup Range(r)
    <3>1. ASSUME NEW i \in 1..(m + n) PROVE w[i] \in Range(q) \cup Range(r)
      <4>1. CASE i \in 1..m
        BY <1>2, <2>2, <4>1
      <4>2. CASE i - m \in 1..n /\ i = m + (i - m)
        <5>1. w[i] = r[i - m]
          BY <1>2, <4>2
        <5>2. QED
          BY <2>2, <4>2, <5>1
      <4>3. QED
        BY <1>3, <4>1, <4>2
    <3>2. QED
      BY <2>1, <3>1
  <2>6. Range(q) \subseteq Range(w)
    BY <1>2, <2>1, <2>2, <2>3
  <2>7. Range(r) \subseteq Range(w)
    BY <1>2, <2>1, <2>2, <2>4
  <2>8. QED
    BY <2>5, <2>6, <2>7
<1>5. IsList(w)
  BY <1>2, OverItsRange DEF IsList
<1>6. ASSUME NEW i \in 1..(m + n)
      PROVE  Meant(c, w[i]) /\ Needs(c, w[i]) \subseteq S \cup Ids({w[j] : j \in 1..(i - 1)})
  <2>1. CASE i \in 1..m
    <3>1. \A j \in 1..(i - 1) : w[j] = q[j]
      BY <1>2, <2>1
    <3>2. {w[j] : j \in 1..(i - 1)} = {q[j] : j \in 1..(i - 1)} /\ w[i] = q[i]
      BY <1>2, <2>1, <3>1
    <3>3. QED
      BY <2>1, <3>2 DEF Ordered, m
  <2>2. CASE i - m \in 1..n
    <3> DEFINE k == i - m
               before == {w[j] : j \in 1..(i - 1)}
    <3>1. w[i] = r[k] /\ k \in 1..n
      BY <1>2, <2>2
    <3>2. \A j \in 1..m : j \in 1..(i - 1) /\ w[j] = q[j]
      BY <1>2, <2>2
    <3>3. \A j \in 1..(k - 1) : m + j \in 1..(i - 1) /\ w[m + j] = r[j]
      BY <1>2, <2>2
    <3>4. Range(q) \subseteq before
      BY <1>2, <3>2 DEF Range
    <3>5. {r[j] : j \in 1..(k - 1)} \subseteq before
      BY <3>3
    <3>6. /\ Meant(c, r[k])
          /\ Needs(c, r[k]) \subseteq T \cup Ids({r[j] : j \in 1..(k - 1)})
      BY <3>1 DEF Ordered, n
    <3> HIDE DEF before, k
    <3>7. Ids(Range(q)) \subseteq Ids(before) /\ Ids({r[j] : j \in 1..(k - 1)}) \subseteq Ids(before)
      BY <3>4, <3>5 DEF Ids
    <3>8. QED
      BY <3>1, <3>6, <3>7 DEF before
  <2>3. QED
    BY <1>3, <2>1, <2>2
<1>7. QED
  BY <1>2, <1>4, <1>5, <1>6 DEF Ordered, w

\* Tasks that find what they need in S.
LEMMA OrderedTable ==
  ASSUME NEW c, NEW S, NEW q, IsList(q), NEW f, f = [i \in DOMAIN q |-> f[i]],
         \A i \in DOMAIN q : Meant(c, f[i]) /\ Needs(c, f[i]) \subseteq S
  PROVE  Ordered(c, S, f) /\ Range(f) = {f[i] : i \in DOMAIN q}
<1>1. DOMAIN q = 1..Len(q) /\ Len(q) \in Nat /\ DOMAIN f = DOMAIN q
  BY DEF IsList
<1>2. f = [i \in DOMAIN f |-> f[i]]
  BY <1>1
<1>3. f \in Seq({f[i] : i \in DOMAIN f})
  BY <1>1, <1>2, TableOverList
<1>4. Range(f) = {f[i] : i \in DOMAIN q}
  BY <1>1 DEF Range
<1>5. IsList(f) /\ Len(f) = Len(q)
  BY <1>1, <1>3, <1>4 DEF IsList
<1>6. \A i \in 1..Len(f) : Meant(c, f[i]) /\ Needs(c, f[i]) \subseteq S
  BY <1>1, <1>5
<1>7. QED
  BY <1>4, <1>5, <1>6 DEF Ordered

\* Contracts that need no other.
LEMMA DeploysOrdered ==
  ASSUME NEW c, NEW S, NEW q, IsList(q), NEW ids, DOMAIN ids = DOMAIN q,
         \A i \in DOMAIN q : ids[i][1] # "marginlyPool" /\ ids[i] \notin {Router, Factory}
  PROVE  /\ Ordered(c, S, DeployAll(ids))
         /\ Range(DeployAll(ids)) = {Deploy(ids[i]) : i \in DOMAIN q}
<1> DEFINE f == DeployAll(ids)
<1>0. f = [i \in DOMAIN q |-> f[i]]
  BY DEF DeployAll
<1>1. \A i \in DOMAIN q : f[i] = Deploy(ids[i])
  BY DEF DeployAll
<1> HIDE DEF f
<1>2. \A i \in DOMAIN q : Meant(c, f[i]) /\ Needs(c, f[i]) \subseteq S
  <2> SUFFICES ASSUME NEW i \in DOMAIN q PROVE Meant(c, f[i]) /\ Needs(c, f[i]) \subseteq S
    OBVIOUS
  <2>1. f[i].do = "deploy" /\ f[i].id = ids[i]
    <3>1. f[i] = Deploy(ids[i])
      BY <1>1
    <3>2. QED
      BY <3>1 DEF Deploy
  <2>2. ids[i][1] # "marginlyPool" /\ ids[i] # Router /\ ids[i] # Factory
    OBVIOUS
  <2>3. Meant(c, f[i])
    BY <2>1, <2>2 DEF Meant
  <2>4. Needs(c, f[i]) = {}
    BY <2>1, <2>2 DEF Needs
  <2>5. QED
    BY <2>3, <2>4
<1>3. Ordered(c, S, f) /\ Range(f) = {f[i] : i \in DOMAIN q}
  BY <1>0, <1>2, OrderedTable
<1>4. {f[i] : i \in DOMAIN q} = {Deploy(ids[i]) : i \in DOMAIN q}
  BY <1>1
<1>5. QED
  BY <1>3, <1>4 DEF f

\* The tasks of the first i lists.
First(s, i) == UNION {Range(s[j]) : j \in 1..i}

\* Lists of tasks, each of which finds what the ones before it leave.
LEMMA OrderedFlattened ==
  ASSUME NEW c, NEW S, NEW q, IsList(q), NEW s, IsList(s), DOMAIN s = DOMAIN q,
         \A i \in DOMAIN q : Ordered(c, S \cup Ids(First(s, i - 1)), s[i])
  PROVE  /\ Ordered(c, S, FlattenSeq(s))
         /\ Range(FlattenSeq(s)) = UNION {Range(s[i]) : i \in DOMAIN q}
<1> DEFINE m == Len(q)
<1>1. DOMAIN q = 1..m /\ m \in Nat /\ DOMAIN s = 1..m /\ Len(s) = m
  <2>1. DOMAIN q = 1..m /\ m \in Nat
    BY DEF IsList
  <2>2. s \in Seq(Range(s))
    BY DEF IsList
  <2> HIDE DEF m
  <2>3. QED
    BY <2>1, <2>2
<1> HIDE DEF m
<1>2. CASE m = 0
  <2>1. s = <<>> /\ DOMAIN q = {} /\ FlattenSeq(s) = s
    BY <1>1, <1>2 DEF FlattenSeq
  <2>2. Range(s) = {} /\ IsList(s) /\ Len(s) = 0
    BY <2>1 DEF Range, IsList
  <2>3. QED
    BY <2>1, <2>2 DEF Ordered
<1>3. CASE m # 0
  <2> DEFINE g == CHOOSE g : Joins(s, g, m)
             Good(i) == Ordered(c, S, g[i]) /\ Range(g[i]) = First(s, i)
             Bad == {i \in Nat : i \in 1..m /\ ~Good(i)}
  <2>1. FlattenSeq(s) = g[m]
    BY <1>1, <1>3 DEF FlattenSeq, Joins
  <2>2. Joins(s, g, m)
    <3>1. \E f : Joins(s, f, m)
      BY <1>1, JoinsExist
    <3>2. QED
      BY <3>1
  <2> HIDE DEF g
  <2>3. Bad = {}
    <3>1. SUFFICES ASSUME Bad # {} PROVE FALSE
      OBVIOUS
    <3>2. PICK i \in Bad : \A k \in Bad : i <= k
      BY <3>1, LeastNatural
    <3>3. i \in 1..m /\ g[i] = IF i = 1 THEN s[i] ELSE g[i - 1] \o s[i]
      BY <2>2, <3>2 DEF Joins
    <3>4. Ordered(c, S \cup Ids(First(s, i - 1)), s[i])
      BY <1>1, <3>3
    <3>5. CASE i = 1
      <4>1. First(s, i - 1) = {} /\ First(s, i) = Range(s[i])
        BY <3>5 DEF First
      <4>2. Ids({}) = {}
        BY DEF Ids
      <4>3. Good(i)
        BY <3>3, <3>4, <3>5, <4>1, <4>2
      <4>4. QED
        BY <3>2, <4>3
    <3>6. CASE i # 1
      <4>1. i - 1 \in 1..m /\ i - 1 \in Nat /\ i - 1 \notin Bad
        <5> HIDE DEF Bad
        <5>1. i - 1 \in 1..m /\ i - 1 \in Nat /\ ~(i <= i - 1)
          BY <1>1, <3>3, <3>6
        <5>2. QED
          BY <3>2, <5>1
      <4>2. Good(i - 1)
        BY <4>1
      <4>3. First(s, i) = First(s, i - 1) \cup Range(s[i])
        <5>1. 1..i = (1..(i - 1)) \cup {i}
          BY <3>3, <1>1
        <5>2. QED
          BY <5>1 DEF First
      <4>4. Ordered(c, S, g[i - 1] \o s[i]) /\ Range(g[i - 1] \o s[i]) = Range(g[i - 1]) \cup Range(s[i])
        <5>1. Ids(First(s, i - 1)) = Ids(Range(g[i - 1]))
          BY <4>2
        <5>2. QED
          BY <3>4, <4>2, <5>1, OrderedJoin
      <4>5. Good(i)
        BY <3>3, <3>6, <4>2, <4>3, <4>4
      <4>6. QED
        BY <3>2, <4>5
    <3>7. QED
      BY <3>5, <3>6
  <2>4. m \in Nat /\ m \in 1..m
    BY <1>1, <1>3
  <2>5. Good(m)
    BY <2>3, <2>4
  <2>6. First(s, m) = UNION {Range(s[i]) : i \in DOMAIN q}
    BY <1>1 DEF First
  <2>7. QED
    BY <2>1, <2>5, <2>6
<1>4. QED
  BY <1>2, <1>3

\* An oracle is configured once it is there, and its secondary one.
LEMMA OracleOrdered ==
  ASSUME NEW c, NEW S, NEW o \in Range(c.oracles), IsList(o.settings),
         o.kind = "pendle" => \A s \in Range(o.settings) : OracleId(s.options) \in S
  PROVE  /\ Ordered(c, S, ProcessOracle(o))
         /\ Range(ProcessOracle(o)) =
              {Deploy(OracleId(o.id))}
                \cup {[do |-> "configure", id |-> OracleId(o.id), kind |-> o.kind, setting |-> s] :
                        s \in Range(o.settings)}
<1> DEFINE f == [i \in DOMAIN o.settings |-> [do |-> "configure", id |-> OracleId(o.id),
                                             kind |-> o.kind, setting |-> o.settings[i]]]
           d == <<Deploy(OracleId(o.id))>>
           C == {[do |-> "configure", id |-> OracleId(o.id), kind |-> o.kind, setting |-> s] :
                   s \in Range(o.settings)}
<1>1. ProcessOracle(o) = d \o f
  BY DEF ProcessOracle
<1>2. IsList(d) /\ Len(d) = 1 /\ d[1] = Deploy(OracleId(o.id)) /\ Range(d) = {Deploy(OracleId(o.id))}
  <2>1. d \in Seq({Deploy(OracleId(o.id))})
    OBVIOUS
  <2>2. Range(d) = {Deploy(OracleId(o.id))}
    BY DEF Range
  <2>3. QED
    BY <2>1, <2>2 DEF IsList
<1>3. Ordered(c, S, d)
  <2>1. Meant(c, d[1]) /\ Needs(c, d[1]) = {}
    BY <1>2 DEF Meant, Needs, Deploy, OracleId, Router, Factory
  <2>2. QED
    BY <1>2, <2>1 DEF Ordered
<1>4. Ids(Range(d)) = {OracleId(o.id)}
  BY <1>2 DEF Ids, Deploy
<1>5. f = [i \in DOMAIN o.settings |-> f[i]] /\ C = {f[i] : i \in DOMAIN o.settings}
  BY DEF Range
<1>6. \A i \in DOMAIN o.settings : f[i] \in C /\ C \subseteq Configures(c)
  BY DEF Configures, Range
<1>7. \A i \in DOMAIN o.settings :
        /\ f[i].do = "configure" /\ f[i].id = OracleId(o.id) /\ f[i].kind = o.kind
        /\ f[i].setting = o.settings[i] /\ o.settings[i] \in Range(o.settings)
  BY DEF Range
<1> HIDE DEF d, f, C
<1>8. \A i \in DOMAIN o.settings :
        Meant(c, f[i]) /\ Needs(c, f[i]) \subseteq S \cup {OracleId(o.id)}
  <2> SUFFICES ASSUME NEW i \in DOMAIN o.settings
               PROVE  Meant(c, f[i]) /\ Needs(c, f[i]) \subseteq S \cup {OracleId(o.id)}
    OBVIOUS
  <2>1. Meant(c, f[i])
    BY <1>6, <1>7 DEF Meant
  <2>2. Needs(c, f[i]) \subseteq S \cup {OracleId(o.id)}
    BY <1>7 DEF Needs
  <2>3. QED
    BY <2>1, <2>2
<1>9. Ordered(c, S \cup {OracleId(o.id)}, f) /\ Range(f) = C
  <2> DEFINE T == S \cup {OracleId(o.id)}
  <2>1. \A i \in DOMAIN o.settings : Meant(c, f[i]) /\ Needs(c, f[i]) \subseteq T
    BY <1>8
  <2> HIDE DEF T
  <2>2. Ordered(c, T, f) /\ Range(f) = {f[i] : i \in DOMAIN o.settings}
    BY <1>5, <2>1, OrderedTable
  <2>3. QED
    BY <1>5, <2>2 DEF T
<1>10. Ordered(c, S, d \o f) /\ Range(d \o f) = Range(d) \cup Range(f)
  BY <1>3, <1>4, <1>9, OrderedJoin
<1>11. QED
  BY <1>1, <1>2, <1>9, <1>10 DEF C

\* The oracles of a configuration, each before those that it is the secondary one of.
LEMMA OraclesOrdered ==
  ASSUME NEW c \in Range(Configs)
  PROVE  LET A == FlattenSeq([i \in DOMAIN c.oracles |-> ProcessOracle(c.oracles[i])])
         IN  /\ Ordered(c, {}, A)
             /\ Range(A) = Configures(c) \cup {Deploy(OracleId(o.id)) : o \in Range(c.oracles)}
<1> DEFINE q == c.oracles
           s == [i \in DOMAIN q |-> ProcessOracle(q[i])]
           Said(o) == {[do |-> "configure", id |-> OracleId(o.id), kind |-> o.kind, setting |-> x] :
                         x \in Range(o.settings)}
           Whole(o) == {Deploy(OracleId(o.id))} \cup Said(o)
<1>1. IsList(q) /\ WellFormed(c) /\ \A o \in Range(q) : IsList(o.settings)
  BY DeploymentAssumption
<1>2. DOMAIN q = 1..Len(q) /\ Len(q) \in Nat /\ \A i \in DOMAIN q : q[i] \in Range(q)
  BY <1>1 DEF IsList, Range
<1>3. ASSUME NEW i \in DOMAIN q, NEW S, q[i].kind = "pendle" =>
               \A x \in Range(q[i].settings) : OracleId(x.options) \in S
      PROVE  Ordered(c, S, ProcessOracle(q[i])) /\ Range(ProcessOracle(q[i])) = Whole(q[i])
  <2>1. q[i] \in Range(c.oracles) /\ IsList(q[i].settings)
    BY <1>1, <1>2
  <2>2. QED
    BY <1>3, <2>1, OracleOrdered
<1>4. \A i \in DOMAIN q : Range(s[i]) = Whole(q[i])
  <2> SUFFICES ASSUME NEW i \in DOMAIN q PROVE Range(s[i]) = Whole(q[i])
    OBVIOUS
  <2> DEFINE S == {OracleId(x.options) : x \in Range(q[i].settings)}
  <2>1. Range(ProcessOracle(q[i])) = Whole(q[i])
    <3>1. \A x \in Range(q[i].settings) : OracleId(x.options) \in S
      OBVIOUS
    <3> HIDE DEF S, Whole
    <3>2. QED
      BY <1>3, <3>1
  <2>2. QED
    BY <2>1
<1>5. ASSUME NEW i \in DOMAIN q
      PROVE  Ordered(c, {} \cup Ids(First(s, i - 1)), s[i])
  <2> DEFINE S == Ids(First(s, i - 1))
  <2>1. ASSUME q[i].kind = "pendle", NEW x \in Range(q[i].settings)
        PROVE  OracleId(x.options) \in S
    <3>1. PICK n \in DOMAIN q[i].settings : x = q[i].settings[n]
      BY <2>1 DEF Range
    <3>2. PICK j \in 1..(i - 1) : q[j].id = x.options
      BY <1>1, <2>1, <3>1 DEF WellFormed
    <3>3. j \in DOMAIN q
      BY <1>2, <3>2
    <3>4. Deploy(OracleId(x.options)) \in Range(s[j])
      BY <1>4, <3>2, <3>3
    <3> DEFINE D == Deploy(OracleId(x.options))
    <3>5. D \in First(s, i - 1)
      BY <3>2, <3>4 DEF First
    <3>6. D.do = "deploy" /\ D.id = OracleId(x.options)
      BY DEF Deploy
    <3> HIDE DEF D
    <3>7. QED
      BY <3>5, <3>6 DEF Ids
  <2> HIDE DEF S, Whole
  <2>2. Ordered(c, S, ProcessOracle(q[i]))
    BY <1>3, <2>1
  <2>3. s[i] = ProcessOracle(q[i]) /\ {} \cup S = S
    OBVIOUS
  <2> HIDE DEF s
  <2>4. QED
    BY <2>2, <2>3 DEF S
<1>6. IsList(s) /\ DOMAIN s = DOMAIN q
  <2>1. s = [i \in DOMAIN s |-> s[i]] /\ DOMAIN s = DOMAIN q
    OBVIOUS
  <2> HIDE DEF s
  <2>2. s \in Seq({s[i] : i \in DOMAIN s})
    BY <1>1, <2>1, TableOverList
  <2>3. s \in Seq(Range(s))
    BY <2>2, OverItsRange
  <2>4. QED
    BY <2>1, <2>3 DEF IsList
<1> HIDE DEF s
<1>7. Ordered(c, {}, FlattenSeq(s)) /\ Range(FlattenSeq(s)) = UNION {Range(s[i]) : i \in DOMAIN q}
  <2> DEFINE S == {}
  <2> HIDE DEF q, S
  <2>1. \A i \in DOMAIN q : Ordered(c, S \cup Ids(First(s, i - 1)), s[i])
    BY <1>5 DEF S
  <2>2. IsList(q)
    BY <1>1
  <2>3. Ordered(c, S, FlattenSeq(s)) /\ Range(FlattenSeq(s)) = UNION {Range(s[i]) : i \in DOMAIN q}
    BY <1>6, <2>1, <2>2, OrderedFlattened
  <2>4. QED
    BY <2>3 DEF S
<1>8. UNION {Range(s[i]) : i \in DOMAIN q} = UNION {Whole(o) : o \in Range(q)}
  <2>1. UNION {Range(s[i]) : i \in DOMAIN q} = UNION {Whole(q[i]) : i \in DOMAIN q}
    BY <1>4
  <2> HIDE DEF Whole
  <2>2. UNION {Whole(q[i]) : i \in DOMAIN q} = UNION {Whole(o) : o \in Range(q)}
    BY DEF Range
  <2>3. QED
    BY <2>1, <2>2
<1>9. UNION {Whole(o) : o \in Range(q)}
        = Configures(c) \cup {Deploy(OracleId(o.id)) : o \in Range(q)}
  <2>1. Configures(c) = UNION {Said(o) : o \in Range(q)}
    BY DEF Configures
  <2> HIDE DEF Said
  <2>2. QED
    BY <2>1
<1>10. QED
  BY <1>7, <1>8, <1>9 DEF s

\* The router, its adapters, and what creates pools.
LEMMA CoreOrdered ==
  ASSUME NEW c, NEW S, {AdapterId(a) : a \in Range(c.adapters)} \subseteq S
  PROVE  LET A == <<Deploy(Router), [do |-> "wire"], Deploy(Implementation), Deploy(Factory)>>
         IN  /\ Ordered(c, S, A)
             /\ Range(A) = {Deploy(Router), [do |-> "wire"], Deploy(Implementation), Deploy(Factory)}
<1> DEFINE A == <<Deploy(Router), [do |-> "wire"], Deploy(Implementation), Deploy(Factory)>>
           Before(i) == {A[j] : j \in 1..(i - 1)}
<1>1. /\ Len(A) = 4 /\ DOMAIN A = 1..4
      /\ A[1] = Deploy(Router) /\ A[2] = [do |-> "wire"]
      /\ A[3] = Deploy(Implementation) /\ A[4] = Deploy(Factory)
  OBVIOUS
<1>2. A \in Seq({Deploy(Router), [do |-> "wire"], Deploy(Implementation), Deploy(Factory)})
  OBVIOUS
<1> HIDE DEF A
<1>3. 1..4 = {1, 2, 3, 4}
  OBVIOUS
<1>4. Range(A) = {A[1], A[2], A[3], A[4]}
  BY <1>1, <1>3 DEF Range
<1>5. IsList(A)
  BY <1>2, OverItsRange DEF IsList
<1>6. \A i \in 2..4 : Router \in Ids(Before(i))
  <2> SUFFICES ASSUME NEW i \in 2..4 PROVE Router \in Ids(Before(i))
    OBVIOUS
  <2>1. Deploy(Router) \in Before(i)
    BY <1>1
  <2> HIDE DEF Before
  <2>2. QED
    BY <2>1 DEF Ids, Deploy
<1>7. Implementation \in Ids(Before(4))
  <2>1. Deploy(Implementation) \in Before(4)
    BY <1>1
  <2> HIDE DEF Before
  <2>2. QED
    BY <2>1 DEF Ids, Deploy
<1> HIDE DEF Before
<1>8. /\ Router # Factory /\ Implementation # Router /\ Implementation # Factory
      /\ Router[1] # "marginlyPool" /\ Factory[1] # "marginlyPool"
      /\ Implementation[1] # "marginlyPool"
  BY DEF Router, Factory, Implementation
<1>9. Meant(c, A[1]) /\ Needs(c, A[1]) \subseteq S
  <2>1. A[1].do = "deploy" /\ A[1].id = Router
    BY <1>1 DEF Deploy
  <2>2. QED
    BY <1>8, <2>1 DEF Meant, Needs
<1>10. Meant(c, A[2]) /\ Needs(c, A[2]) \subseteq S \cup Ids(Before(2))
  <2>1. A[2].do = "wire"
    BY <1>1
  <2>2. Meant(c, A[2])
    BY <2>1 DEF Meant
  <2>3. Needs(c, A[2]) = {Router} \cup {AdapterId(a) : a \in Range(c.adapters)}
    BY <2>1 DEF Needs
  <2>4. QED
    BY <1>6, <2>2, <2>3
<1>11. Meant(c, A[3]) /\ Needs(c, A[3]) = {}
  <2>1. A[3].do = "deploy" /\ A[3].id = Implementation
    BY <1>1 DEF Deploy
  <2>2. QED
    BY <1>8, <2>1 DEF Meant, Needs
<1>12. Meant(c, A[4]) /\ Needs(c, A[4]) \subseteq Ids(Before(4))
  <2>1. A[4].do = "deploy" /\ A[4].id = Factory
    BY <1>1 DEF Deploy
  <2>2. Meant(c, A[4]) /\ Needs(c, A[4]) = {Implementation, Router}
    BY <1>8, <2>1 DEF Meant, Needs
  <2>3. QED
    BY <1>6, <1>7, <2>2
<1>13. Ordered(c, S, A)
  <2>1. \A i \in 1..4 : Meant(c, A[i]) /\ Needs(c, A[i]) \subseteq S \cup Ids(Before(i))
    BY <1>3, <1>9, <1>10, <1>11, <1>12
  <2>2. QED
    BY <1>1, <1>5, <2>1 DEF Ordered, Before
<1>14. QED
  BY <1>1, <1>4, <1>13 DEF A

\* What deployments leave in the state file.
LEMMA DeployedIds ==
  ASSUME NEW q, NEW ids, NEW X, {Deploy(ids[i]) : i \in DOMAIN q} \subseteq X
  PROVE  \A i \in DOMAIN q : ids[i] \in Ids(X)
<1> SUFFICES ASSUME NEW i \in DOMAIN q PROVE ids[i] \in Ids(X)
  OBVIOUS
<1>1. Deploy(ids[i]) \in X
  OBVIOUS
<1>2. Deploy(ids[i]).do = "deploy" /\ Deploy(ids[i]).id = ids[i]
  BY DEF Deploy
<1>3. QED
  BY <1>1, <1>2 DEF Ids

\* A run finds what it needs, and does all that its configuration says.
LEMMA PlanIsOrdered ==
  ASSUME NEW k \in DOMAIN Configs
  PROVE  /\ Ordered(Configs[k], {}, Plans[k])
         /\ Configures(Configs[k]) \subseteq Range(Plans[k])
         /\ Deploys(Configs[k]) \subseteq Ids(Range(Plans[k]))
         /\ [do |-> "wire"] \in Range(Plans[k])
<1> DEFINE c == Configs[k]
           I1 == [i \in DOMAIN c.tokens |-> TokenId(c.tokens[i].symbol)]
           I3 == [i \in DOMAIN c.adapters |-> AdapterId(c.adapters[i])]
           I6 == [i \in DOMAIN c.keepers |-> KeeperId(c.keepers[i])]
           A1 == DeployAll(I1)
           A2 == FlattenSeq([i \in DOMAIN c.oracles |-> ProcessOracle(c.oracles[i])])
           A3 == DeployAll(I3)
           A4 == <<Deploy(Router), [do |-> "wire"], Deploy(Implementation), Deploy(Factory)>>
           A5 == [i \in DOMAIN c.pools |-> [do |-> "pool", id |-> PoolId(c.pools[i].id),
                                            pool |-> c.pools[i]]]
           A6 == DeployAll(I6)
           A7 == <<[do |-> "report"]>>
<1>1. c \in Range(Configs)
  BY DEF Range
<1>2. /\ IsList(c.tokens) /\ IsList(c.oracles) /\ IsList(c.adapters)
      /\ IsList(c.pools) /\ IsList(c.keepers) /\ WellFormed(c)
  <2> HIDE DEF c
  <2>1. \A d \in Range(Configs) :
          /\ IsList(d.tokens) /\ IsList(d.oracles) /\ IsList(d.adapters)
          /\ IsList(d.pools) /\ IsList(d.keepers) /\ WellFormed(d)
    BY DeploymentAssumption, Zenon
  <2>2. QED
    BY <1>1, <2>1, Zenon
<1>3. Plans[k] = A1 \o A2 \o A3 \o A4 \o A5 \o A6 \o A7
  BY DEF Plans, Plan
<1>4. /\ DOMAIN I1 = DOMAIN c.tokens /\ DOMAIN I3 = DOMAIN c.adapters /\ DOMAIN I6 = DOMAIN c.keepers
      /\ \A i \in DOMAIN c.tokens : I1[i] = TokenId(c.tokens[i].symbol)
      /\ \A i \in DOMAIN c.adapters : I3[i] = AdapterId(c.adapters[i])
      /\ \A i \in DOMAIN c.keepers : I6[i] = KeeperId(c.keepers[i])
  OBVIOUS
<1>5. /\ A5 = [i \in DOMAIN c.pools |-> A5[i]]
      /\ \A i \in DOMAIN c.pools : /\ A5[i].do = "pool" /\ A5[i].id = PoolId(c.pools[i].id)
                                   /\ A5[i].pool = c.pools[i]
  OBVIOUS
<1> HIDE DEF I1, I3, I6, A4, A5
<1>6. ASSUME NEW q, IsList(q), NEW ids, DOMAIN ids = DOMAIN q,
             \A i \in DOMAIN q : ids[i][1] # "marginlyPool" /\ ids[i] \notin {Router, Factory}
      PROVE  /\ Ordered(c, {}, DeployAll(ids))
             /\ Range(DeployAll(ids)) = {Deploy(ids[i]) : i \in DOMAIN q}
  <2> HIDE DEF c
  <2>1. QED
    BY <1>6, DeploysOrdered
<1>7. Ordered(c, {}, A1) /\ Range(A1) = {Deploy(I1[i]) : i \in DOMAIN c.tokens}
  <2>1. \A i \in DOMAIN c.tokens : I1[i][1] # "marginlyPool" /\ I1[i] \notin {Router, Factory}
    BY <1>4 DEF TokenId, Router, Factory
  <2> HIDE DEF c
  <2>2. QED
    BY <1>2, <1>4, <1>6, <2>1
<1>8. Ordered(c, {}, A2)
      /\ Range(A2) = Configures(c) \cup {Deploy(OracleId(o.id)) : o \in Range(c.oracles)}
  BY <1>1, OraclesOrdered
<1>9. Ordered(c, {}, A3) /\ Range(A3) = {Deploy(I3[i]) : i \in DOMAIN c.adapters}
  <2>1. \A i \in DOMAIN c.adapters : I3[i][1] # "marginlyPool" /\ I3[i] \notin {Router, Factory}
    <3> SUFFICES ASSUME NEW i \in DOMAIN c.adapters
                 PROVE  I3[i][1] # "marginlyPool" /\ I3[i] \notin {Router, Factory}
      OBVIOUS
    <3>1. I3[i] = <<c.adapters[i].name, c.adapters[i].dexId>>
      BY <1>4 DEF AdapterId
    <3>2. c.adapters[i].name # "marginlyPool"
      BY <1>2 DEF WellFormed
    <3>3. QED
      BY <3>1, <3>2 DEF Router, Factory
  <2> HIDE DEF c
  <2>2. QED
    BY <1>2, <1>4, <1>6, <2>1
<1>10. Ordered(c, {}, A6) /\ Range(A6) = {Deploy(I6[i]) : i \in DOMAIN c.keepers}
  <2>1. \A i \in DOMAIN c.keepers : I6[i][1] # "marginlyPool" /\ I6[i] \notin {Router, Factory}
    BY <1>4 DEF KeeperId, Router, Factory
  <2> HIDE DEF c
  <2>2. QED
    BY <1>2, <1>4, <1>6, <2>1
<1>11. Ordered(c, {}, A7) /\ Range(A7) = {[do |-> "report"]}
  <2> DEFINE x == [do |-> "report"]
  <2>1. A7 \in Seq({x}) /\ Len(A7) = 1 /\ A7[1] = x /\ Range(A7) = {x}
    BY DEF Range
  <2>2. Meant(c, x) /\ Needs(c, x) = {}
    BY DEF Meant, Needs
  <2>3. QED
    BY <2>1, <2>2 DEF Ordered, IsList
<1> HIDE DEF A1, A2, A3, A6, A7
<1> DEFINE P2 == A1 \o A2
           P3 == P2 \o A3
           P4 == P3 \o A4
           P5 == P4 \o A5
           P6 == P5 \o A6
           P7 == P6 \o A7
<1> HIDE DEF c
<1>12. ASSUME NEW q, Ordered(c, {}, q), NEW r, Ordered(c, Ids(Range(q)), r)
       PROVE  Ordered(c, {}, q \o r) /\ Range(q \o r) = Range(q) \cup Range(r)
  BY <1>12, OrderedJoin
<1>13. ASSUME NEW q, Ordered(c, {}, q), NEW r, Ordered(c, {}, r)
       PROVE  Ordered(c, {}, q \o r) /\ Range(q \o r) = Range(q) \cup Range(r)
  <2>1. Ordered(c, Ids(Range(q)), r)
    BY <1>13, OrderedWithMore
  <2>2. QED
    BY <1>12, <1>13, <2>1
<1>14. Ordered(c, {}, P2) /\ Range(P2) = Range(A1) \cup Range(A2)
  BY <1>7, <1>8, <1>13
<1> HIDE DEF P2
<1>15. Ordered(c, {}, P3) /\ Range(P3) = Range(P2) \cup Range(A3)
  BY <1>9, <1>13, <1>14
<1> HIDE DEF P3
<1>16. \A i \in DOMAIN c.adapters : I3[i] \in Ids(Range(P3))
  BY <1>9, <1>15, DeployedIds
<1>17. /\ Ordered(c, Ids(Range(P3)), A4)
       /\ Range(A4) = {Deploy(Router), [do |-> "wire"], Deploy(Implementation), Deploy(Factory)}
  <2>1. {AdapterId(a) : a \in Range(c.adapters)} \subseteq Ids(Range(P3))
    BY <1>4, <1>16 DEF Range
  <2>2. QED
    BY <2>1, CoreOrdered DEF A4
<1>18. Ordered(c, {}, P4) /\ Range(P4) = Range(P3) \cup Range(A4)
  BY <1>12, <1>15, <1>17
<1> HIDE DEF P4
<1>19. /\ {Router, Implementation, Factory} \subseteq Ids(Range(P4))
       /\ {OracleId(o.id) : o \in Range(c.oracles)} \subseteq Ids(Range(P4))
  <2>1. ASSUME NEW id, Deploy(id) \in Range(P4) PROVE id \in Ids(Range(P4))
    <3>1. Deploy(id).do = "deploy" /\ Deploy(id).id = id
      BY DEF Deploy
    <3>2. QED
      BY <2>1, <3>1 DEF Ids
  <2>2. /\ Deploy(Router) \in Range(P4) /\ Deploy(Implementation) \in Range(P4)
        /\ Deploy(Factory) \in Range(P4)
        /\ \A o \in Range(c.oracles) : Deploy(OracleId(o.id)) \in Range(P4)
    BY <1>8, <1>14, <1>15, <1>17, <1>18
  <2>3. QED
    BY <2>1, <2>2
<1>20. Ordered(c, Ids(Range(P4)), A5) /\ Range(A5) = {A5[i] : i \in DOMAIN c.pools}
  <2>1. ASSUME NEW i \in DOMAIN c.pools
        PROVE  Meant(c, A5[i]) /\ Needs(c, A5[i]) \subseteq Ids(Range(P4))
    <3>1. c.pools[i] \in Range(c.pools)
      BY DEF Range
    <3>2. Meant(c, A5[i])
      BY <1>5, <3>1 DEF Meant
    <3>3. PICK j \in DOMAIN c.oracles : c.pools[i].oracle = c.oracles[j].id
      BY <1>2 DEF WellFormed
    <3>4. OracleId(c.pools[i].oracle) \in Ids(Range(P4))
      BY <1>19, <3>3 DEF Range
    <3>5. Needs(c, A5[i]) = {Factory, OracleId(c.pools[i].oracle)}
      BY <1>5 DEF Needs
    <3>6. QED
      BY <1>19, <3>2, <3>4, <3>5
  <2>2. IsList(c.pools) /\ A5 = [i \in DOMAIN c.pools |-> A5[i]]
    BY <1>2, <1>5
  <2>3. QED
    BY <2>1, <2>2, OrderedTable
<1>21. Ordered(c, {}, P5) /\ Range(P5) = Range(P4) \cup Range(A5)
  BY <1>12, <1>18, <1>20
<1> HIDE DEF P5
<1>22. Ordered(c, {}, P6) /\ Range(P6) = Range(P5) \cup Range(A6)
  BY <1>10, <1>13, <1>21
<1> HIDE DEF P6
<1>23. Ordered(c, {}, P7) /\ Range(P7) = Range(P6) \cup Range(A7)
  BY <1>11, <1>13, <1>22
<1>24. Plans[k] = P7
  BY <1>3 DEF P2, P3, P4, P5, P6
<1> HIDE DEF P7
<1>25. /\ Range(A1) \subseteq Range(P7) /\ Range(A2) \subseteq Range(P7)
       /\ Range(A3) \subseteq Range(P7) /\ Range(A4) \subseteq Range(P7)
       /\ Range(A5) \subseteq Range(P7) /\ Range(A6) \subseteq Range(P7)
       /\ Range(P4) \subseteq Range(P7)
  BY <1>14, <1>15, <1>18, <1>21, <1>22, <1>23
<1>26. Configures(c) \subseteq Range(P7) /\ [do |-> "wire"] \in Range(P7)
  BY <1>8, <1>17, <1>25
<1>27. Deploys(c) \subseteq Ids(Range(P7))
  <2>1. \A i \in DOMAIN c.tokens : I1[i] \in Ids(Range(P7))
    BY <1>7, <1>25, DeployedIds
  <2>2. \A i \in DOMAIN c.adapters : I3[i] \in Ids(Range(P7))
    BY <1>9, <1>25, DeployedIds
  <2>3. \A i \in DOMAIN c.keepers : I6[i] \in Ids(Range(P7))
    BY <1>10, <1>25, DeployedIds
  <2>4. \A i \in DOMAIN c.pools : PoolId(c.pools[i].id) \in Ids(Range(P7))
    BY <1>5, <1>20, <1>25 DEF Ids
  <2>5. Ids(Range(P4)) \subseteq Ids(Range(P7))
    BY <1>25 DEF Ids
  <2>6. /\ \A t \in Range(c.tokens) : TokenId(t.symbol) \in Ids(Range(P7))
        /\ \A a \in Range(c.adapters) : AdapterId(a) \in Ids(Range(P7))
        /\ \A x \in Range(c.keepers) : KeeperId(x) \in Ids(Range(P7))
        /\ \A p \in Range(c.pools) : PoolId(p.id) \in Ids(Range(P7))
    BY <1>4, <2>1, <2>2, <2>3, <2>4 DEF Range
  <2>7. QED
    BY <1>19, <2>5, <2>6 DEF Deploys
<1>28. QED
  BY <1>23, <1>24, <1>26, <1>27 DEF c

----------------------------------------------------------------------------
\* What the contracts were told

\* The records can be read: by the run, or in the file.
Readable == task # 0 \/ file # Torn
Good == \A id \in DOMAIN file : IsContract(file[id], id)

\* Transaction n sets the options of the oracle at an address for a pair.
IsSetting(n, to, pair) == txs[n].kind = "options" /\ txs[n].to = to /\ txs[n].id = pair

\* Options are what a task says.
Says(data, t) ==
  IF t.kind = "pendle" THEN IsContract(data, OracleId(t.setting.options))
  ELSE data = t.setting.options
Carries(n, t) == Says(txs[n].data, t)

\* It was sent for a task like t.
Fits(n, t) ==
  /\ txs[n].kind = "options" /\ txs[n].id = t.setting.pair
  /\ IsContract(txs[n].to, t.id) /\ Carries(n, t)

\* Two settings of an oracle for a pair come from two configurations, the earlier one first.
SettingsOK ==
  \A m \in DOMAIN txs : \A n \in 1..m :
    txs[m].kind = "options" /\ IsSetting(n, txs[m].to, txs[m].id) =>
      \E k \in 1..config : \E j \in 1..k :
        /\ \E x \in Configures(Configs[j]) : Fits(n, x)
        /\ \E y \in Configures(Configs[k]) : Fits(m, y)

\* Transaction n gave adapters to the router at r: it created it, or added them.
Wired(n, r) == n = r \/ (txs[n].kind = "adapters" /\ txs[n].to = r)

\* It gave it the recorded adapter a for the dex d.
Plugs(n, d, a) ==
  a.dexId = d /\ AdapterId(a) \in DOMAIN file /\ txs[n].data[d] = file[AdapterId(a)]

\* Two adapters that a router was given for a dex come from two configurations, too.
AdaptersOK ==
  /\ \A n \in DOMAIN txs : txs[n].kind = "adapters" => IsContract(txs[n].to, Router)
  /\ Readable =>
       \A r, m \in DOMAIN txs : \A n \in 1..m :
         txs[r].kind = "create" /\ txs[r].id = Router /\ Wired(n, r) /\ Wired(m, r) =>
           \A d \in DOMAIN txs[n].data \cap DOMAIN txs[m].data :
             \E k \in 1..config : \E j \in 1..k :
               /\ \E a \in Range(Configs[j].adapters) : Plugs(n, d, a)
               /\ \E a \in Range(Configs[k].adapters) : Plugs(m, d, a)

\* A factory was given the recorded implementation and router, whatever became of the run
\* that created it; a pool was created by the recorded factory with the recorded oracle.
ContentsOK ==
  Readable =>
    \A n \in DOMAIN txs : txs[n].kind = "create" =>
      /\ txs[n].id = Factory =>
           /\ {Implementation, Router} \subseteq DOMAIN file
           /\ txs[n].data = <<file[Implementation], file[Router]>>
      /\ txs[n].id[1] = "marginlyPool" =>
           /\ Factory \in DOMAIN file /\ txs[n].to = file[Factory]
           /\ \E j \in 1..config : \E p \in Range(Configs[j].pools) :
                /\ txs[n].id = PoolId(p.id) /\ OracleId(p.oracle) \in DOMAIN file
                /\ txs[n].data.oracle = file[OracleId(p.oracle)]

History == SettingsOK /\ AdaptersOK /\ ContentsOK

\* The last transaction, mined or not, that sets the options of an oracle for a pair, and
\* the last one that gives a router an adapter for a dex.
LastSetting(n, to, pair) ==
  IsSetting(n, to, pair) /\ \A m \in DOMAIN txs : IsSetting(m, to, pair) => m <= n
LastWire(n, r, d) ==
  /\ Wired(n, r) /\ d \in DOMAIN txs[n].data
  /\ \A m \in DOMAIN txs : Wired(m, r) /\ d \in DOMAIN txs[m].data => m <= n

\* The options of a task, and the adapter a, will be in force when all is mined.
IsConfigured(t) ==
  \E n \in DOMAIN txs : LastSetting(n, file[t.id], t.setting.pair) /\ Carries(n, t)
IsPlugged(a) ==
  \E n \in DOMAIN txs : LastWire(n, file[Router], a.dexId)
                          /\ txs[n].data[a.dexId] = file[AdapterId(a)]

\* What a run has done when it is past a task.
Achieved(c, t) ==
  /\ t.do \in {"deploy", "pool"} => t.id \in DOMAIN file
  /\ t.do = "configure" => IsConfigured(t)
  /\ t.do = "wire" => \A a \in Range(c.adapters) : IsPlugged(a)

\* The first n tasks of the plan are done.
Did(n) == \A i \in 1..n : Achieved(Configs[config], Plans[config][i])

(***************************************************************************)
(* A run has done what is before its task, and what it waits for or asks   *)
(* an oracle about is what that task is to achieve; one that ended well    *)
(* has done everything.                                                    *)
(***************************************************************************)
Progress ==
  /\ task # 0 => Did(task - 1)
  /\ At("configure", "wait") \/ At("configure", "check") => Achieved(Configs[config], Task)
  /\ finished => task = 0
  /\ finished /\ ~Corrupt =>
       /\ Did(Len(Plans[config]))
       /\ \A p \in Range(Configs[config].pools) : report[PoolId(p.id)] = file[PoolId(p.id)]

\* Max0 is the largest number of a set, and 0 when there is none.
LEMMA LargestIs ==
  ASSUME NEW n \in Nat, NEW S \in SUBSET (1..n)
  PROVE  /\ Max0(S) \in S \cup {0}
         /\ \A m \in S : m <= Max0(S)
         /\ \A k \in S : (\A m \in S : m <= k) => Max0(S) = k
<1> DEFINE T == {k \in Nat : \A m \in S : m <= k}
<1>1. T \in SUBSET Nat /\ n \in T
  OBVIOUS
<1>2. PICK x \in T : \A k \in T : x <= k
  BY <1>1, LeastNatural
<1>3. x \in S \cup {0}
  <2> SUFFICES ASSUME x # 0, x \notin S PROVE FALSE
    OBVIOUS
  <2>1. x - 1 \in Nat /\ \A m \in S : m <= x - 1
    BY <1>2
  <2>2. x - 1 \in T
    BY <2>1
  <2>3. QED
    BY <1>2, <2>2
<1>4. \E y \in S \cup {0} : \A m \in S : m <= y
  BY <1>2, <1>3
<1>5. Max0(S) \in S \cup {0} /\ \A m \in S : m <= Max0(S)
  <2>1. Max0(S) = CHOOSE y \in S \cup {0} : \A m \in S : m <= y
    BY DEF Max0
  <2>2. QED
    BY <1>4, <2>1
<1>6. ASSUME NEW k \in S, \A m \in S : m <= k PROVE Max0(S) = k
  <2>1. S \subseteq 1..n
    OBVIOUS
  <2>2. k \in Nat /\ k >= 1 /\ k <= Max0(S)
    BY <1>5, <2>1
  <2>3. Max0(S) \in Nat
    <3>1. \A y \in S \cup {0} : y \in Nat
      BY <2>1
    <3>2. QED
      BY <1>5, <3>1
  <2>4. Max0(S) \in S
    BY <1>5, <2>2
  <2>5. Max0(S) <= k
    BY <1>6, <2>4
  <2>6. QED
    BY <2>2, <2>3, <2>5
<1>7. QED
  BY <1>5, <1>6

\* When all is mined, an oracle holds its last options.
LEMMA LastOptions ==
  ASSUME ChainOK, AllMined, NEW to, NEW pair, NEW n \in DOMAIN txs, LastSetting(n, to, pair)
  PROVE  OptionsOf(to, pair) = txs[n].data
<1> DEFINE S == {m \in 1..mined : txs[m].kind = "options" /\ txs[m].to = to /\ txs[m].id = pair}
<1>1. DOMAIN txs = 1..mined /\ mined \in Nat
  BY DEF ChainOK, AllMined
<1>2. S \in SUBSET (1..mined) /\ n \in S /\ \A m \in S : m <= n
  BY <1>1 DEF LastSetting, IsSetting
<1>3. OptionsOf(to, pair) = IF Max0(S) = 0 THEN 0 ELSE txs[Max0(S)].data
  BY DEF OptionsOf
<1> HIDE DEF S
<1>4. Max0(S) = n /\ n # 0
  <2>1. \A k \in S : (\A m \in S : m <= k) => Max0(S) = k
    BY <1>1, <1>2, LargestIs
  <2>2. n \in 1..mined
    BY <1>1, <1>2
  <2>3. QED
    BY <1>1, <1>2, <2>1, <2>2
<1>5. QED
  BY <1>3, <1>4

\* What an adapter of a router is read off.
LEMMA AdapterOfIs ==
  ASSUME NEW r, NEW d
  PROVE  LET S == {m \in 1..mined : (m = r \/ (txs[m].kind = "adapters" /\ txs[m].to = r))
                                      /\ d \in DOMAIN txs[m].data}
         IN  AdapterOf(r, d) = IF Max0(S) = 0 THEN 0 ELSE txs[Max0(S)].data[d]
BY DEF AdapterOf

\* And a router its last adapters.
LEMMA LastAdapter ==
  ASSUME ChainOK, AllMined, NEW r, NEW d, NEW n \in DOMAIN txs, LastWire(n, r, d)
  PROVE  AdapterOf(r, d) = txs[n].data[d]
<1> DEFINE S == {m \in 1..mined : (m = r \/ (txs[m].kind = "adapters" /\ txs[m].to = r))
                                    /\ d \in DOMAIN txs[m].data}
<1>1. DOMAIN txs = 1..mined /\ mined \in Nat
  BY DEF ChainOK, AllMined
<1>2. S \in SUBSET (1..mined) /\ n \in S /\ \A m \in S : m <= n
  BY <1>1 DEF LastWire, Wired
<1>3. AdapterOf(r, d) = IF Max0(S) = 0 THEN 0 ELSE txs[Max0(S)].data[d]
  BY AdapterOfIs
<1> HIDE DEF S
<1>4. Max0(S) = n /\ n # 0
  <2>1. \A k \in S : (\A m \in S : m <= k) => Max0(S) = k
    BY <1>1, <1>2, LargestIs
  <2>2. n \in 1..mined
    BY <1>1, <1>2
  <2>3. QED
    BY <1>1, <1>2, <2>1, <2>2
<1>5. QED
  BY <1>3, <1>4

\* What is done is in the state file.
LEMMA DidRecords ==
  ASSUME RunTypes, NEW n \in Nat, n <= Len(Plans[config]), Did(n)
  PROVE  Ids({Plans[config][j] : j \in 1..n}) \subseteq DOMAIN file
<1>1. ASSUME NEW j \in 1..n, Plans[config][j].do \in {"deploy", "pool"}
      PROVE  Plans[config][j].id \in DOMAIN file
  BY <1>1 DEF Did, Achieved
<1>2. QED
  BY <1>1 DEF Ids

\* A task finds in the state file what it needs.
LEMMA NeedsAreRecorded ==
  ASSUME RunTypes, NEW i \in 1..Len(Plans[config]), Did(i - 1)
  PROVE  /\ Meant(Configs[config], Plans[config][i])
         /\ Needs(Configs[config], Plans[config][i]) \subseteq DOMAIN file
<1> DEFINE c == Configs[config]
           p == Plans[config]
<1>1. config \in DOMAIN Configs /\ Ordered(c, {}, p)
  BY PlanIsOrdered DEF RunTypes
<1>2. Len(p) \in Nat
  BY <1>1, PlanEndsWithReport
<1>3. Meant(c, p[i]) /\ Needs(c, p[i]) \subseteq {} \cup Ids({p[j] : j \in 1..(i - 1)})
  BY <1>1, <1>2 DEF Ordered
<1>4. i - 1 \in Nat /\ i - 1 <= Len(p)
  BY <1>2
<1>5. Ids({p[j] : j \in 1..(i - 1)}) \subseteq DOMAIN file
  BY <1>4, DidRecords
<1>6. QED
  BY <1>3, <1>5

\* A run that did everything has recorded, told and wired all that is configured.
LEMMA AllIsAchieved ==
  ASSUME RunTypes, Did(Len(Plans[config]))
  PROVE  /\ Deploys(Configs[config]) \subseteq DOMAIN file
         /\ \A t \in Configures(Configs[config]) : IsConfigured(t)
         /\ \A a \in Range(Configs[config].adapters) : IsPlugged(a)
<1> DEFINE c == Configs[config]
           p == Plans[config]
<1>1. config \in DOMAIN Configs
  BY DEF RunTypes
<1>2. /\ Configures(c) \subseteq Range(p) /\ Deploys(c) \subseteq Ids(Range(p))
      /\ [do |-> "wire"] \in Range(p)
  BY <1>1, PlanIsOrdered
<1>3. Len(p) \in Nat /\ DOMAIN p = 1..Len(p)
  BY <1>1, PlanEndsWithReport
<1>4. Range(p) = {p[j] : j \in 1..Len(p)}
  BY <1>3 DEF Range
<1>5. Ids(Range(p)) \subseteq DOMAIN file
  BY <1>3, <1>4, DidRecords
<1>6. \A t \in Range(p) : Achieved(c, t)
  BY <1>4 DEF Did
<1>7. ASSUME NEW t \in Configures(c) PROVE IsConfigured(t)
  <2>1. t.do = "configure"
    BY DEF Configures
  <2>2. Achieved(c, t)
    BY <1>2, <1>6
  <2>3. QED
    BY <2>1, <2>2 DEF Achieved
<1>8. \A a \in Range(c.adapters) : IsPlugged(a)
  <2> DEFINE t == [do |-> "wire"]
  <2>1. Achieved(c, t) /\ t.do = "wire"
    BY <1>2, <1>6
  <2> HIDE DEF t
  <2>2. QED
    BY <2>1 DEF Achieved
<1>9. QED
  BY <1>2, <1>5, <1>7, <1>8

\* A task that a configuration makes of a setting of an oracle.
LEMMA SettingIsConfigured ==
  ASSUME NEW c, NEW o \in Range(c.oracles), NEW s \in Range(o.settings)
  PROVE  \E t \in Configures(c) : t.id = OracleId(o.id) /\ t.kind = o.kind /\ t.setting = s
<1> DEFINE t == [do |-> "configure", id |-> OracleId(o.id), kind |-> o.kind, setting |-> s]
<1>1. t \in Configures(c)
  BY DEF Configures
<1>2. t.id = OracleId(o.id) /\ t.kind = o.kind /\ t.setting = s
  OBVIOUS
<1>3. QED
  BY <1>1, <1>2

\* ChangesAreFinal, of an earlier configuration, a later one, and one after both.
LEMMA NothingReturns ==
  ASSUME ChangesAreFinal, NEW k \in 1..Len(Configs), NEW j \in 1..k, NEW i \in 1..j
  PROVE  /\ \A x \in Configures(Configs[i]), y \in Configures(Configs[j]),
               z \in Configures(Configs[k]) :
              /\ x.id = y.id /\ x.setting.pair = y.setting.pair
              /\ z.id = y.id /\ z.setting.pair = y.setting.pair
              => /\ x.kind = y.kind
                 /\ x.kind = "pendle" \/ x.setting.options = z.setting.options
                      => y.setting.options = x.setting.options
         /\ \A a \in Range(Configs[i].adapters), b \in Range(Configs[j].adapters),
               d \in Range(Configs[k].adapters) :
              a.dexId = b.dexId /\ d.dexId = b.dexId /\ a.name = d.name => b.name = a.name
         /\ \A p \in Range(Configs[i].pools), q \in Range(Configs[j].pools) :
              p.id = q.id => p.oracle = q.oracle
<1>1. Configs \in Seq(Range(Configs))
  BY DeploymentAssumption DEF IsList
<1>2. /\ i \in DOMAIN Configs /\ j \in DOMAIN Configs /\ k \in DOMAIN Configs
      /\ i <= j /\ j <= k
  BY <1>1
<1>3. QED
  BY <1>2, Zenon DEF ChangesAreFinal

\* What FinishedIsComplete says follows from what was done and what the contracts were told.
LEMMA AchievedIsComplete ==
  ASSUME ChangesAreFinal, Losses, History, Progress
  PROVE  FinishedIsComplete
<1> DEFINE c == Configs[config]
<1> SUFFICES ASSUME finished, AllMined, ~Corrupt
             PROVE  /\ Complete(c)
                    /\ \A p \in Range(c.pools) : report[PoolId(p.id)] = file[PoolId(p.id)]
  BY DEF FinishedIsComplete
<1>1. ChainOK /\ RunTypes /\ RecordedIsDeployed
  BY DEF Losses, Types, IInv
<1>2. file # Torn /\ Readable
  BY DEF Corrupt, Readable
<1>3. /\ Did(Len(Plans[config]))
      /\ \A p \in Range(c.pools) : report[PoolId(p.id)] = file[PoolId(p.id)]
  BY DEF Progress
<1>4. /\ Deploys(c) \subseteq DOMAIN file
      /\ \A t \in Configures(c) : IsConfigured(t)
      /\ \A a \in Range(c.adapters) : IsPlugged(a)
  BY <1>1, <1>3, AllIsAchieved
<1>5. \A id \in DOMAIN file : IsContract(file[id], id)
  BY <1>1, <1>2 DEF RecordedIsDeployed
<1>6. ASSUME NEW id, IsContract(file[id], id)
      PROVE  file[id] \in DOMAIN txs /\ txs[file[id]].kind = "create" /\ txs[file[id]].id = id
  BY <1>1, <1>6 DEF IsContract, ChainOK
<1>7. txs[file[Factory]].data = <<file[Implementation], file[Router]>>
  <2>1. Factory \in DOMAIN file
    BY <1>4 DEF Deploys
  <2>2. QED
    BY <1>2, <1>5, <1>6, <2>1 DEF History, ContentsOK
<1>8. ASSUME NEW a \in Range(c.adapters)
      PROVE  AdapterOf(file[Router], a.dexId) = file[AdapterId(a)]
  <2>1. PICK n \in DOMAIN txs :
          LastWire(n, file[Router], a.dexId) /\ txs[n].data[a.dexId] = file[AdapterId(a)]
    BY <1>4 DEF IsPlugged
  <2>2. QED
    BY <1>1, <2>1, LastAdapter
<1>9. ASSUME NEW o \in Range(c.oracles), NEW s \in Range(o.settings)
      PROVE  OracleIsSet(o, s)
  <2>1. PICK t \in Configures(c) : t.id = OracleId(o.id) /\ t.kind = o.kind /\ t.setting = s
    BY SettingIsConfigured
  <2>2. PICK n \in DOMAIN txs : LastSetting(n, file[t.id], t.setting.pair) /\ Carries(n, t)
    BY <1>4 DEF IsConfigured
  <2>3. OptionsOf(file[OracleId(o.id)], s.pair) = txs[n].data
    BY <1>1, <2>1, <2>2, LastOptions
  <2>4. IF o.kind = "pendle" THEN IsContract(txs[n].data, OracleId(s.options))
        ELSE txs[n].data = s.options
    BY <2>1, <2>2 DEF Carries, Says
  <2>5. QED
    BY <2>3, <2>4 DEF OracleIsSet
<1>10. ASSUME NEW p \in Range(c.pools)
       PROVE  /\ txs[file[PoolId(p.id)]].to = file[Factory]
              /\ txs[file[PoolId(p.id)]].data.oracle = file[OracleId(p.oracle)]
  <2> DEFINE n == file[PoolId(p.id)]
  <2>1. PoolId(p.id) \in DOMAIN file
    BY <1>4 DEF Deploys
  <2>2. n \in DOMAIN txs /\ txs[n].kind = "create" /\ txs[n].id = PoolId(p.id)
    BY <1>5, <1>6, <2>1
  <2>3. txs[n].id[1] = "marginlyPool"
    BY <2>2 DEF PoolId
  <2> HIDE DEF n
  <2>4. /\ txs[n].to = file[Factory]
        /\ \E j \in 1..config : \E q \in Range(Configs[j].pools) :
             txs[n].id = PoolId(q.id) /\ txs[n].data.oracle = file[OracleId(q.oracle)]
    BY <1>2, <2>2, <2>3 DEF History, ContentsOK
  <2>5. PICK j \in 1..config : \E q \in Range(Configs[j].pools) :
          txs[n].id = PoolId(q.id) /\ txs[n].data.oracle = file[OracleId(q.oracle)]
    BY <2>4
  <2>6. PICK q \in Range(Configs[j].pools) :
          txs[n].id = PoolId(q.id) /\ txs[n].data.oracle = file[OracleId(q.oracle)]
    BY <2>5
  <2>7. q.id = p.id
    BY <2>2, <2>6 DEF PoolId
  <2>8. config \in 1..Len(Configs) /\ config \in 1..config
    <3>1. Configs \in Seq(Range(Configs))
      BY DeploymentAssumption DEF IsList
    <3>2. QED
      BY <1>1, <3>1 DEF RunTypes
  <2>9. p.oracle = q.oracle
    <3>1. \A x \in Range(Configs[j].pools), y \in Range(Configs[config].pools) :
            x.id = y.id => x.oracle = y.oracle
      BY <2>8, NothingReturns
    <3>2. QED
      BY <2>7, <3>1
  <2>10. QED
    BY <2>4, <2>6, <2>9 DEF n
<1>11. Complete(c)
  BY <1>4, <1>7, <1>8, <1>9, <1>10 DEF Complete
<1>12. QED
  BY <1>3, <1>11

----------------------------------------------------------------------------
\* What is left as it is

\* The state file keeps its records, or is torn.
FileGrows ==
  Readable' =>
    /\ Readable
    /\ \A id \in DOMAIN file : id \in DOMAIN file' /\ file'[id] = file[id]

\* An address is that of one contract.
LEMMA ContractStays ==
  ASSUME ChainOK, Grows, NEW a, NEW id, IsContract(a, id)
  PROVE  IsContract(a, id)' /\ a \in DOMAIN txs /\ txs'[a] = txs[a]
BY DEF ChainOK, Grows, IsContract

\* What contracts were told remains true when nothing is sent.
LEMMA HistoryStays ==
  ASSUME ChainOK, History, Grows, txs' = txs, FileGrows,
         config \in Nat, config' \in Nat, config <= config'
  PROVE  History'
<1>1. ASSUME NEW a, NEW id, IsContract(a, id) PROVE IsContract(a, id)'
  BY <1>1, ContractStays
<1>2. 1..config \subseteq 1..config'
  OBVIOUS
<1>3. SettingsOK'
  <2>1. ASSUME NEW n, NEW t, Fits(n, t) PROVE Fits(n, t)'
    BY <1>1, <2>1 DEF Fits, Carries, Says
  <2> SUFFICES ASSUME NEW m \in DOMAIN txs, NEW n \in 1..m, txs[m].kind = "options",
                      IsSetting(n, txs[m].to, txs[m].id)
               PROVE  \E k \in 1..config' : \E j \in 1..k :
                        /\ \E x \in Configures(Configs[j]) : Fits(n, x)'
                        /\ \E y \in Configures(Configs[k]) : Fits(m, y)'
    BY DEF SettingsOK, IsSetting
  <2>2. PICK k \in 1..config : \E j \in 1..k :
          /\ \E x \in Configures(Configs[j]) : Fits(n, x)
          /\ \E y \in Configures(Configs[k]) : Fits(m, y)
    BY DEF History, SettingsOK
  <2>3. QED
    BY <1>2, <2>1, <2>2
<1>4. AdaptersOK'
  <2>1. ASSUME NEW n, NEW d, NEW a, Plugs(n, d, a), Readable' PROVE Plugs(n, d, a)'
    BY <2>1 DEF Plugs, FileGrows
  <2>2. \A n \in DOMAIN txs' : txs'[n].kind = "adapters" => IsContract(txs[n].to, Router)'
    BY <1>1 DEF History, AdaptersOK
  <2>3. ASSUME Readable', NEW r \in DOMAIN txs, NEW m \in DOMAIN txs, NEW n \in 1..m,
               txs[r].kind = "create", txs[r].id = Router, Wired(n, r), Wired(m, r),
               NEW d \in DOMAIN txs[n].data \cap DOMAIN txs[m].data
        PROVE  \E k \in 1..config' : \E j \in 1..k :
                 /\ \E a \in Range(Configs[j].adapters) : Plugs(n, d, a)'
                 /\ \E a \in Range(Configs[k].adapters) : Plugs(m, d, a)'
    <3>1. Readable
      BY <2>3 DEF FileGrows
    <3>2. PICK k \in 1..config : \E j \in 1..k :
            /\ \E a \in Range(Configs[j].adapters) : Plugs(n, d, a)
            /\ \E a \in Range(Configs[k].adapters) : Plugs(m, d, a)
      BY <2>3, <3>1 DEF History, AdaptersOK
    <3>3. QED
      BY <1>2, <2>1, <2>3, <3>2
  <2>4. QED
    BY <2>2, <2>3 DEF AdaptersOK, Wired
<1>5. ContentsOK'
  <2> SUFFICES ASSUME Readable', NEW n \in DOMAIN txs, txs[n].kind = "create"
               PROVE  /\ txs[n].id = Factory =>
                           /\ {Implementation, Router} \subseteq DOMAIN file'
                           /\ txs[n].data = <<file'[Implementation], file'[Router]>>
                      /\ txs[n].id[1] = "marginlyPool" =>
                           /\ Factory \in DOMAIN file' /\ txs[n].to = file'[Factory]
                           /\ \E j \in 1..config' : \E p \in Range(Configs[j].pools) :
                                /\ txs[n].id = PoolId(p.id) /\ OracleId(p.oracle) \in DOMAIN file'
                                /\ txs[n].data.oracle = file'[OracleId(p.oracle)]
    BY DEF ContentsOK
  <2>1. /\ Readable
        /\ \A id \in DOMAIN file : id \in DOMAIN file' /\ file'[id] = file[id]
    BY DEF FileGrows
  <2>2. ASSUME txs[n].id = Factory
        PROVE  /\ {Implementation, Router} \subseteq DOMAIN file'
               /\ txs[n].data = <<file'[Implementation], file'[Router]>>
    BY <2>1, <2>2 DEF History, ContentsOK
  <2>3. ASSUME txs[n].id[1] = "marginlyPool"
        PROVE  /\ Factory \in DOMAIN file' /\ txs[n].to = file'[Factory]
               /\ \E j \in 1..config' : \E p \in Range(Configs[j].pools) :
                    /\ txs[n].id = PoolId(p.id) /\ OracleId(p.oracle) \in DOMAIN file'
                    /\ txs[n].data.oracle = file'[OracleId(p.oracle)]
    <3>1. /\ Factory \in DOMAIN file /\ txs[n].to = file[Factory]
          /\ \E j \in 1..config : \E p \in Range(Configs[j].pools) :
               /\ txs[n].id = PoolId(p.id) /\ OracleId(p.oracle) \in DOMAIN file
               /\ txs[n].data.oracle = file[OracleId(p.oracle)]
      BY <2>1, <2>3 DEF History, ContentsOK
    <3>2. PICK j \in 1..config : \E p \in Range(Configs[j].pools) :
               /\ txs[n].id = PoolId(p.id) /\ OracleId(p.oracle) \in DOMAIN file
               /\ txs[n].data.oracle = file[OracleId(p.oracle)]
      BY <3>1
    <3>3. j \in 1..config'
      BY <1>2
    <3>4. QED
      BY <2>1, <3>1, <3>2, <3>3
  <2>4. QED
    BY <2>2, <2>3
<1>6. QED
  BY <1>3, <1>4, <1>5 DEF History

\* The records that a task was done with remain.
LEMMA AchievedStays ==
  ASSUME ChainOK, Grows, txs' = txs, Readable', FileGrows,
         NEW c, NEW t, Achieved(c, t), Needs(c, t) \subseteq DOMAIN file
  PROVE  Achieved(c, t)'
<1>1. \A id \in DOMAIN file : id \in DOMAIN file' /\ file'[id] = file[id]
  BY DEF FileGrows
<1>2. ASSUME t.do \in {"deploy", "pool"} PROVE t.id \in DOMAIN file'
  BY <1>1, <1>2 DEF Achieved
<1>3. ASSUME t.do = "configure" PROVE IsConfigured(t)'
  <2>1. PICK n \in DOMAIN txs : LastSetting(n, file[t.id], t.setting.pair) /\ Carries(n, t)
    BY <1>3 DEF Achieved, IsConfigured
  <2>2. file'[t.id] = file[t.id]
    BY <1>1, <1>3 DEF Needs
  <2>3. LastSetting(n, file[t.id], t.setting.pair)'
    BY <2>1, <2>2 DEF LastSetting, IsSetting
  <2>4. Carries(n, t)'
    BY <2>1, ContractStays DEF Carries, Says
  <2>5. QED
    BY <2>1, <2>3, <2>4 DEF IsConfigured
<1>4. ASSUME t.do = "wire", NEW a \in Range(c.adapters) PROVE IsPlugged(a)'
  <2>1. PICK n \in DOMAIN txs :
          LastWire(n, file[Router], a.dexId) /\ txs[n].data[a.dexId] = file[AdapterId(a)]
    BY <1>4 DEF Achieved, IsPlugged
  <2>2. file'[Router] = file[Router] /\ file'[AdapterId(a)] = file[AdapterId(a)]
    BY <1>1, <1>4 DEF Needs
  <2>3. LastWire(n, file[Router], a.dexId)'
    BY <2>1, <2>2 DEF LastWire, Wired
  <2>4. QED
    BY <2>1, <2>2, <2>3 DEF IsPlugged
<1>5. QED
  BY <1>2, <1>3, <1>4 DEF Achieved

----------------------------------------------------------------------------
\* What is sent

\* The chain after a transaction was sent.
LEMMA SendIs ==
  ASSUME ChainOK, NEW kind, NEW id, NEW to, NEW data, Send(kind, id, to, data)
  PROVE  /\ Grows /\ mined' = mined
         /\ Len(txs) \in Nat /\ DOMAIN txs = 1..Len(txs) /\ DOMAIN txs' = 1..(Len(txs) + 1)
         /\ \A n \in 1..Len(txs) : txs'[n] = txs[n]
         /\ txs'[Len(txs) + 1].kind = kind /\ txs'[Len(txs) + 1].id = id
         /\ txs'[Len(txs) + 1].to = to /\ txs'[Len(txs) + 1].data = data
<1> DEFINE tx == [kind |-> kind, id |-> id, to |-> to, data |-> data]
<1>1. txs' = Append(txs, tx) /\ mined' = mined
  BY DEF Send
<1>2. /\ txs' \in Seq(Range(txs'))
      /\ Len(txs') = Len(txs) + 1
      /\ txs'[Len(txs) + 1] = tx
      /\ \A n \in 1..Len(txs) : txs'[n] = txs[n]
  BY <1>1, Appended DEF ChainOK
<1>3. Len(txs) \in Nat /\ DOMAIN txs = 1..Len(txs)
  BY DEF ChainOK
<1>4. Grows
  BY SendGrows
<1>5. QED
  BY <1>1, <1>2, <1>3, <1>4

\* Options for a task of the configuration.
Tells(id, to, data) ==
  \E t \in Configures(Configs[config]) :
    id = t.setting.pair /\ IsContract(to, t.id) /\ Says(data, t)

\* Recorded adapters of the configuration.
Gives(data) ==
  \A d \in DOMAIN data : \E a \in Range(Configs[config].adapters) :
    a.dexId = d /\ AdapterId(a) \in DOMAIN file /\ data[d] = file[AdapterId(a)]

\* What a factory or a pool is created with.
Creates(id, to, data) ==
  /\ id = Factory =>
       /\ {Implementation, Router} \subseteq DOMAIN file
       /\ data = <<file[Implementation], file[Router]>>
  /\ id[1] = "marginlyPool" =>
       /\ Factory \in DOMAIN file /\ to = file[Factory]
       /\ \E p \in Range(Configs[config].pools) :
            /\ id = PoolId(p.id) /\ OracleId(p.oracle) \in DOMAIN file
            /\ data.oracle = file[OracleId(p.oracle)]
  /\ id = Router => Gives(data)

\* The settings of an oracle when a transaction is sent.
LEMMA SendKeepsSettings ==
  ASSUME ChainOK, SettingsOK, config \in Nat \ {0}, config' = config,
         NEW kind, NEW id, NEW to, NEW data, Send(kind, id, to, data),
         kind = "options" => Tells(id, to, data)
  PROVE  SettingsOK'
<1>0. PICK N : N = Len(txs) + 1
  OBVIOUS
<1>1. /\ Grows /\ Len(txs) \in Nat /\ DOMAIN txs = 1..Len(txs) /\ DOMAIN txs' = 1..N
      /\ \A n \in 1..Len(txs) : txs'[n] = txs[n]
      /\ txs'[N].kind = kind /\ txs'[N].id = id /\ txs'[N].to = to /\ txs'[N].data = data
  BY <1>0, SendIs
<1>2. ASSUME NEW n \in 1..Len(txs), NEW t, Fits(n, t) PROVE Fits(n, t)'
  <2>1. txs'[n] = txs[n] /\ IsContract(txs[n].to, t.id)'
    BY <1>1, <1>2, ContractStays DEF Fits
  <2>2. Carries(n, t)'
    BY <1>1, <1>2, <2>1, ContractStays DEF Fits, Carries, Says
  <2>3. QED
    BY <1>2, <2>1, <2>2 DEF Fits
<1> SUFFICES ASSUME NEW m \in 1..N, NEW n \in 1..m, txs'[m].kind = "options",
                    IsSetting(n, txs[m].to, txs[m].id)'
             PROVE  \E k \in 1..config : \E j \in 1..k :
                      /\ \E x \in Configures(Configs[j]) : Fits(n, x)'
                      /\ \E y \in Configures(Configs[k]) : Fits(m, y)'
  BY <1>1 DEF SettingsOK
<1>3. CASE m # N
  <2>1. m \in 1..Len(txs) /\ n \in 1..Len(txs)
    BY <1>1, <1>3, <1>0
  <2>2. txs[m].kind = "options" /\ IsSetting(n, txs[m].to, txs[m].id)
    BY <1>1, <2>1 DEF IsSetting
  <2>3. PICK k \in 1..config : \E j \in 1..k :
          /\ \E x \in Configures(Configs[j]) : Fits(n, x)
          /\ \E y \in Configures(Configs[k]) : Fits(m, y)
    BY <1>1, <2>1, <2>2 DEF SettingsOK
  <2>4. QED
    BY <1>2, <2>1, <2>3
<1>4. CASE m = N
  <2>1. PICK t \in Configures(Configs[config]) :
          id = t.setting.pair /\ IsContract(to, t.id) /\ Says(data, t)
    BY <1>1, <1>4 DEF Tells
  <2>2. Fits(N, t)'
    <3>1. IsContract(to, t.id)'
      BY <1>1, <2>1, ContractStays
    <3>2. Carries(N, t)'
      BY <1>1, <2>1, ContractStays DEF Carries, Says
    <3>3. QED
      BY <1>1, <1>4, <2>1, <3>1, <3>2 DEF Fits
  <2>3. config \in 1..config
    OBVIOUS
  <2>4. CASE n = N
    BY <1>4, <2>2, <2>3, <2>4
  <2>5. CASE n # N
    <3>1. n \in 1..Len(txs) /\ n \in 1..n
      BY <1>1, <1>4, <2>5, <1>0
    <3>2. txs[n].kind = "options" /\ IsSetting(n, txs[n].to, txs[n].id)
      BY <1>1, <3>1 DEF IsSetting
    <3>3. PICK k \in 1..config : \E y \in Configures(Configs[k]) : Fits(n, y)
      BY <1>1, <3>1, <3>2 DEF SettingsOK
    <3>4. QED
      BY <1>2, <1>4, <2>2, <2>3, <3>1, <3>3
  <2>6. QED
    BY <2>4, <2>5
<1>5. QED
  BY <1>3, <1>4

\* The adapters of a router when a transaction is sent.
LEMMA SendKeepsAdapters ==
  ASSUME ChainOK, AdaptersOK, config \in Nat \ {0}, UNCHANGED <<config, file>>, Readable,
         NEW kind, NEW id, NEW to, NEW data, Send(kind, id, to, data),
         kind = "adapters" => IsContract(to, Router) /\ Gives(data),
         kind = "create" /\ id = Router => Gives(data)
  PROVE  AdaptersOK'
<1>0. PICK N : N = Len(txs) + 1
  OBVIOUS
<1>1. /\ Grows /\ Len(txs) \in Nat /\ DOMAIN txs = 1..Len(txs) /\ DOMAIN txs' = 1..N
      /\ \A n \in 1..Len(txs) : txs'[n] = txs[n]
      /\ txs'[N].kind = kind /\ txs'[N].id = id /\ txs'[N].to = to /\ txs'[N].data = data
  BY <1>0, SendIs
<1>2. ASSUME NEW n \in 1..N PROVE n = N \/ n \in 1..Len(txs)
  BY <1>0, <1>1
<1>3. N \notin 1..Len(txs)
  BY <1>0, <1>1
<1>4. ASSUME NEW n \in DOMAIN txs', txs'[n].kind = "adapters"
      PROVE  IsContract(txs[n].to, Router)' /\ txs'[n].to \in 1..Len(txs)
  <2>1. CASE n = N
    <3>1. IsContract(to, Router)
      BY <1>1, <1>4, <2>1
    <3>2. IsContract(to, Router)' /\ to \in DOMAIN txs
      BY <1>1, <3>1, ContractStays
    <3>3. QED
      BY <1>1, <2>1, <3>2
  <2>2. CASE n \in 1..Len(txs)
    <3>1. txs'[n] = txs[n] /\ IsContract(txs[n].to, Router)
      BY <1>1, <1>4, <2>2 DEF AdaptersOK
    <3>2. IsContract(txs[n].to, Router)' /\ txs[n].to \in DOMAIN txs
      BY <1>1, <3>1, ContractStays
    <3>3. QED
      BY <1>1, <3>1, <3>2
  <2>3. QED
    BY <1>1, <1>2, <1>4, <2>1, <2>2
<1>5. ASSUME NEW n \in 1..Len(txs), NEW d, NEW a, Plugs(n, d, a) PROVE Plugs(n, d, a)'
  BY <1>1, <1>5 DEF Plugs
<1>6. ASSUME Gives(data), NEW d \in DOMAIN data
      PROVE  \E a \in Range(Configs[config].adapters) : Plugs(N, d, a)'
  BY <1>1, <1>6 DEF Gives, Plugs
<1>7. config \in 1..config
  OBVIOUS
<1> SUFFICES ASSUME NEW r \in 1..N, NEW m \in 1..N, NEW n \in 1..m,
                    txs'[r].kind = "create", txs'[r].id = Router, Wired(n, r)', Wired(m, r)',
                    NEW d \in DOMAIN txs'[n].data \cap DOMAIN txs'[m].data
             PROVE  \E k \in 1..config : \E j \in 1..k :
                      /\ \E a \in Range(Configs[j].adapters) : Plugs(n, d, a)'
                      /\ \E a \in Range(Configs[k].adapters) : Plugs(m, d, a)'
  BY <1>1, <1>4 DEF AdaptersOK
<1>8. n \in 1..N /\ n \in Nat /\ m \in Nat /\ n <= m
  BY <1>0, <1>1
<1>9. CASE r = N
  <2>1. n = N /\ m = N
    BY <1>1, <1>3, <1>4, <1>8, <1>9 DEF Wired
  <2>2. kind = "create" /\ id = Router
    BY <1>1, <1>9
  <2>3. \E a \in Range(Configs[config].adapters) : Plugs(N, d, a)'
    BY <1>1, <1>6, <2>1, <2>2
  <2>4. QED
    BY <1>7, <2>1, <2>3
<1>10. CASE r # N /\ m # N
  <2>1. r \in 1..Len(txs) /\ m \in 1..Len(txs) /\ n \in 1..Len(txs)
    BY <1>1, <1>2, <1>8, <1>10
  <2>2. /\ txs[r].kind = "create" /\ txs[r].id = Router /\ Wired(n, r) /\ Wired(m, r)
        /\ d \in DOMAIN txs[n].data \cap DOMAIN txs[m].data
    BY <1>1, <2>1 DEF Wired
  <2>3. PICK k \in 1..config : \E j \in 1..k :
          /\ \E a \in Range(Configs[j].adapters) : Plugs(n, d, a)
          /\ \E a \in Range(Configs[k].adapters) : Plugs(m, d, a)
    BY <1>1, <2>1, <2>2 DEF AdaptersOK
  <2>4. QED
    BY <1>5, <2>1, <2>3
<1>11. CASE r # N /\ m = N
  <2>1. r \in 1..Len(txs) /\ kind = "adapters" /\ to = r
    BY <1>1, <1>2, <1>11 DEF Wired
  <2>2. \E a \in Range(Configs[config].adapters) : Plugs(N, d, a)'
    BY <1>1, <1>6, <1>11, <2>1
  <2>3. CASE n = N
    BY <1>7, <1>11, <2>2, <2>3
  <2>4. CASE n # N
    <3>1. n \in 1..Len(txs) /\ n \in 1..n
      BY <1>2, <1>8, <2>4
    <3>2. /\ txs[r].kind = "create" /\ txs[r].id = Router /\ Wired(n, r)
          /\ d \in DOMAIN txs[n].data \cap DOMAIN txs[n].data
      BY <1>1, <2>1, <3>1 DEF Wired
    <3>3. PICK k \in 1..config : \E a \in Range(Configs[k].adapters) : Plugs(n, d, a)
      BY <1>1, <2>1, <3>1, <3>2 DEF AdaptersOK
    <3>4. QED
      BY <1>5, <1>7, <1>11, <2>2, <3>1, <3>3
  <2>5. QED
    BY <2>3, <2>4
<1>12. QED
  BY <1>9, <1>10, <1>11

\* What contracts were told remains true when one more is created, or told.
LEMMA SendKeepsHistory ==
  ASSUME ChainOK, History, config \in Nat \ {0}, UNCHANGED <<config, file>>, Readable,
         NEW kind, NEW id, NEW to, NEW data, Send(kind, id, to, data),
         kind = "options" => Tells(id, to, data),
         kind = "adapters" => IsContract(to, Router) /\ Gives(data),
         kind = "create" => Creates(id, to, data)
  PROVE  History'
<1>0. PICK N : N = Len(txs) + 1
  OBVIOUS
<1>1. SettingsOK'
  BY SendKeepsSettings DEF History
<1>2. AdaptersOK'
  BY SendKeepsAdapters DEF History, Creates
<1>3. /\ Len(txs) \in Nat /\ DOMAIN txs = 1..Len(txs) /\ DOMAIN txs' = 1..N
      /\ \A n \in 1..Len(txs) : txs'[n] = txs[n]
      /\ txs'[N].kind = kind /\ txs'[N].id = id /\ txs'[N].to = to /\ txs'[N].data = data
  BY <1>0, SendIs
<1>4. ASSUME NEW n \in 1..N PROVE n = N \/ n \in 1..Len(txs)
  BY <1>0, <1>3
<1>5. config \in 1..config
  OBVIOUS
<1>6. ContentsOK'
  <2> SUFFICES ASSUME NEW n \in 1..N, txs'[n].kind = "create"
               PROVE  /\ txs'[n].id = Factory =>
                           /\ {Implementation, Router} \subseteq DOMAIN file
                           /\ txs'[n].data = <<file[Implementation], file[Router]>>
                      /\ txs'[n].id[1] = "marginlyPool" =>
                           /\ Factory \in DOMAIN file /\ txs'[n].to = file[Factory]
                           /\ \E j \in 1..config : \E p \in Range(Configs[j].pools) :
                                /\ txs'[n].id = PoolId(p.id) /\ OracleId(p.oracle) \in DOMAIN file
                                /\ txs'[n].data.oracle = file[OracleId(p.oracle)]
    BY <1>3 DEF ContentsOK
  <2>1. CASE n = N
    BY <1>3, <1>5, <2>1 DEF Creates
  <2>2. CASE n \in 1..Len(txs)
    BY <1>3, <2>2 DEF History, ContentsOK
  <2>3. QED
    BY <1>4, <2>1, <2>2
<1>7. QED
  BY <1>1, <1>2, <1>6 DEF History

\* What is sent to an oracle last will be in force.
LEMMA SentOptionsAreLast ==
  ASSUME ChainOK, UNCHANGED file, NEW t, NEW to, to = file[t.id], NEW data, Says(data, t),
         Send("options", t.setting.pair, to, data)
  PROVE  IsConfigured(t)'
<1>0. PICK N : N = Len(txs) + 1
  OBVIOUS
<1>1. /\ Grows /\ Len(txs) \in Nat /\ DOMAIN txs' = 1..N
      /\ txs'[N].kind = "options" /\ txs'[N].id = t.setting.pair
      /\ txs'[N].to = to /\ txs'[N].data = data
  BY <1>0, SendIs
<1>2. N \in DOMAIN txs' /\ \A m \in DOMAIN txs' : m <= N
  BY <1>0, <1>1
<1>3. LastSetting(N, file[t.id], t.setting.pair)'
  BY <1>1, <1>2 DEF LastSetting, IsSetting
<1>4. Says(data, t)'
  BY <1>1, ContractStays DEF Says
<1>5. Carries(N, t)'
  BY <1>1, <1>4 DEF Carries
<1>6. QED
  BY <1>2, <1>3, <1>5 DEF IsConfigured

\* What was done before remains so when something is sent, unless it says otherwise.
LEMMA AchievedStaysSent ==
  ASSUME ChainOK, Good, UNCHANGED file,
         NEW kind, NEW id, NEW to, NEW data, Send(kind, id, to, data),
         NEW c, NEW t, Achieved(c, t), Needs(c, t) \subseteq DOMAIN file,
         kind = "adapters" => t.do # "wire",
         kind = "options" /\ t.do = "configure" /\ to = file[t.id] /\ id = t.setting.pair
           => Says(data, t)
  PROVE  Achieved(c, t)'
<1>0. PICK N : N = Len(txs) + 1
  OBVIOUS
<1>1. /\ Grows /\ Len(txs) \in Nat /\ DOMAIN txs = 1..Len(txs) /\ DOMAIN txs' = 1..N
      /\ \A n \in 1..Len(txs) : txs'[n] = txs[n]
      /\ txs'[N].kind = kind /\ txs'[N].id = id /\ txs'[N].to = to /\ txs'[N].data = data
  BY <1>0, SendIs
<1>2. N \notin 1..Len(txs) /\ \A m \in 1..N : m = N \/ m \in 1..Len(txs)
  BY <1>0, <1>1
<1>3. ASSUME t.do = "configure" PROVE IsConfigured(t)'
  <2>1. PICK n \in DOMAIN txs : LastSetting(n, file[t.id], t.setting.pair) /\ Carries(n, t)
    BY <1>3 DEF Achieved, IsConfigured
  <2>2. CASE kind = "options" /\ to = file[t.id] /\ id = t.setting.pair
    BY <1>3, <2>2, SentOptionsAreLast
  <2>3. CASE ~(kind = "options" /\ to = file[t.id] /\ id = t.setting.pair)
    <3>1. ~IsSetting(N, file[t.id], t.setting.pair)'
      BY <1>1, <2>3 DEF IsSetting
    <3>2. ASSUME NEW m \in 1..Len(txs)
          PROVE  IsSetting(m, file[t.id], t.setting.pair)' <=> IsSetting(m, file[t.id], t.setting.pair)
      BY <1>1, <3>2 DEF IsSetting
    <3>3. n \in 1..Len(txs) /\ n \in 1..N
      BY <1>0, <1>1, <2>1
    <3>4. LastSetting(n, file[t.id], t.setting.pair)'
      <4>1. IsSetting(n, file[t.id], t.setting.pair)'
        BY <2>1, <3>2, <3>3 DEF LastSetting
      <4>2. ASSUME NEW m \in 1..N, IsSetting(m, file[t.id], t.setting.pair)' PROVE m <= n
        BY <1>1, <1>2, <2>1, <3>1, <3>2, <4>2 DEF LastSetting
      <4>3. QED
        BY <1>1, <4>1, <4>2 DEF LastSetting
    <3>5. Carries(n, t)'
      <4>1. txs'[n] = txs[n]
        BY <1>1, <3>3
      <4>2. Says(txs[n].data, t)
        BY <2>1 DEF Carries
      <4>3. QED
        BY <1>1, <4>1, <4>2, ContractStays DEF Carries, Says
    <3>6. QED
      BY <1>1, <3>3, <3>4, <3>5 DEF IsConfigured
  <2>4. QED
    BY <2>2, <2>3
<1>4. ASSUME t.do = "wire", NEW a \in Range(c.adapters) PROVE IsPlugged(a)'
  <2>1. PICK n \in DOMAIN txs :
          LastWire(n, file[Router], a.dexId) /\ txs[n].data[a.dexId] = file[AdapterId(a)]
    BY <1>4 DEF Achieved, IsPlugged
  <2>2. Router \in DOMAIN file
    BY <1>4 DEF Needs
  <2>3. file[Router] \in 1..Len(txs)
    BY <1>1, <2>2 DEF Good, IsContract, ChainOK
  <2>4. ~Wired(N, file[Router])'
    BY <1>1, <1>2, <1>4, <2>3 DEF Wired
  <2>5. ASSUME NEW m \in 1..Len(txs)
        PROVE  Wired(m, file[Router])' <=> Wired(m, file[Router])
    BY <1>1, <2>5 DEF Wired
  <2>6. n \in 1..Len(txs) /\ n \in 1..N /\ txs'[n] = txs[n]
    BY <1>0, <1>1, <2>1
  <2>7. LastWire(n, file[Router], a.dexId)'
    <3>1. Wired(n, file[Router])' /\ a.dexId \in DOMAIN txs'[n].data
      BY <2>1, <2>5, <2>6 DEF LastWire
    <3>2. ASSUME NEW m \in 1..N, Wired(m, file[Router])', a.dexId \in DOMAIN txs'[m].data
          PROVE  m <= n
      BY <1>1, <1>2, <2>1, <2>4, <2>5, <3>2 DEF LastWire
    <3>3. QED
      BY <1>1, <3>1, <3>2 DEF LastWire
  <2>8. QED
    BY <1>1, <2>1, <2>6, <2>7 DEF IsPlugged
<1>5. QED
  BY <1>3, <1>4 DEF Achieved

----------------------------------------------------------------------------
\* What need not be sent

\* Options that need not be set will be in force: what the oracle holds is what the
\* configuration says, and what is under way to it says the same, or it would have been
\* changed and changed back.
LEMMA KeptOptionsAreLast ==
  ASSUME ChangesAreFinal, ChainOK, RunTypes, Good, SettingsOK,
         Readable, store = file, NEW t \in Configures(Configs[config]),
         Needs(Configs[config], t) \subseteq DOMAIN file, ~MustSet(t)
  PROVE  IsConfigured(t)
<1> DEFINE c == Configs[config]
<1>0. PICK to, pair : to = file[t.id] /\ pair = t.setting.pair
  OBVIOUS
<1>1. Len(txs) \in Nat /\ DOMAIN txs = 1..Len(txs) /\ mined \in Nat /\ mined <= Len(txs)
  BY DEF ChainOK
<1>2. PICK o \in Range(c.oracles) : \E s \in Range(o.settings) :
        t = [do |-> "configure", id |-> OracleId(o.id), kind |-> o.kind, setting |-> s]
  BY DEF Configures
<1>3. /\ t.do = "configure" /\ t.kind \in Pairs \cup Priced \cup {"pendle"}
      /\ t.kind # "pendle" => t.setting.options # 0
  <2>1. PICK s \in Range(o.settings) :
          t = [do |-> "configure", id |-> OracleId(o.id), kind |-> o.kind, setting |-> s]
    BY <1>2
  <2>2. PICK i \in DOMAIN c.oracles : o = c.oracles[i]
    BY <1>2 DEF Range
  <2>3. WellFormed(c)
    <3>1. c \in Range(Configs)
      BY DEF RunTypes, Range
    <3>2. QED
      BY <3>1, DeploymentAssumption
  <2>4. PICK n \in DOMAIN o.settings : s = o.settings[n]
    BY <2>1 DEF Range
  <2>5. t.do = "configure" /\ t.kind = o.kind /\ t.setting = o.settings[n]
    BY <2>1, <2>4
  <2>6. /\ c.oracles[i].kind \in Pairs \cup Priced \cup {"pendle"}
        /\ c.oracles[i].kind # "pendle" =>
             \A k \in DOMAIN c.oracles[i].settings : c.oracles[i].settings[k].options # 0
    BY <2>2, <2>3 DEF WellFormed
  <2>7. QED
    BY <2>2, <2>4, <2>5, <2>6
<1>4. t.id \in DOMAIN file /\ (t.kind = "pendle" => OracleId(t.setting.options) \in DOMAIN file)
  BY <1>3 DEF Needs
<1>5. IsContract(to, t.id)
  BY <1>0, <1>4 DEF Good
<1> DEFINE S == {m \in 1..mined : txs[m].kind = "options" /\ txs[m].to = to /\ txs[m].id = pair}
           A == {m \in 1..Len(txs) : IsSetting(m, to, pair)}
           n == Max0(S)
           last == Max0(A)
<1>6. OptionsOf(to, pair) = IF n = 0 THEN 0 ELSE txs[n].data
  BY DEF OptionsOf
<1>7. /\ t.kind \notin Pairs
      /\ t.kind = "pendle" => OptionsOf(to, pair) # 0
      /\ t.kind \in Priced => OptionsOf(to, pair) = t.setting.options
  BY <1>0 DEF MustSet, OptionsFor, Priced
<1>8. n # 0 /\ (t.kind # "pendle" => txs[n].data = t.setting.options)
  BY <1>3, <1>6, <1>7
<1>9. S \in SUBSET (1..mined) /\ A \in SUBSET (1..Len(txs)) /\ S \subseteq A
  BY <1>1 DEF IsSetting
<1>10. n \in S /\ n \in A
  BY <1>1, <1>8, <1>9, LargestIs
<1> HIDE DEF S, n
<1>11. last \in A \cup {0} /\ \A m \in A : m <= last
  BY <1>1, <1>9, LargestIs
<1>12. n \in Nat /\ n >= 1 /\ n <= last
  BY <1>1, <1>10, <1>11
<1>13. last \in A
  BY <1>11, <1>12
<1> HIDE DEF last
<1>14. /\ last \in 1..Len(txs) /\ IsSetting(last, to, pair)
       /\ n \in 1..last /\ IsSetting(n, to, pair)
  BY <1>1, <1>10, <1>12, <1>13
<1>15. LastSetting(last, to, pair)
  BY <1>1, <1>11, <1>14 DEF LastSetting
<1> HIDE DEF A
<1>16. txs[last].kind = "options" /\ IsSetting(n, txs[last].to, txs[last].id)
  BY <1>14 DEF IsSetting
<1>17. PICK k \in 1..config : \E j \in 1..k :
         /\ \E x \in Configures(Configs[j]) : Fits(n, x)
         /\ \E y \in Configures(Configs[k]) : Fits(last, y)
  BY <1>1, <1>14, <1>16 DEF SettingsOK
<1>18. PICK j \in 1..k :
         /\ \E x \in Configures(Configs[j]) : Fits(n, x)
         /\ \E y \in Configures(Configs[k]) : Fits(last, y)
  BY <1>17
<1>19. PICK x \in Configures(Configs[j]) : Fits(n, x)
  BY <1>18
<1>20. PICK y \in Configures(Configs[k]) : Fits(last, y)
  BY <1>18
<1>21. /\ x.id = t.id /\ x.setting.pair = t.setting.pair
       /\ y.id = t.id /\ y.setting.pair = t.setting.pair
  BY <1>0, <1>5, <1>14, <1>19, <1>20 DEF Fits, IsSetting, IsContract
<1>22. config \in 1..Len(Configs) /\ config \in 1..config /\ config \in Nat
  <2>1. Configs \in Seq(Range(Configs))
    BY DeploymentAssumption DEF IsList
  <2>2. QED
    BY <2>1 DEF RunTypes
<1>23. /\ y.kind = t.kind
       /\ y.kind = "pendle" => t.setting.options = y.setting.options
  <2>1. \A u \in Configures(Configs[k]), v \in Configures(Configs[config]),
           w \in Configures(Configs[config]) :
          /\ u.id = v.id /\ u.setting.pair = v.setting.pair
          /\ w.id = v.id /\ w.setting.pair = v.setting.pair
          => /\ u.kind = v.kind
             /\ u.kind = "pendle" \/ u.setting.options = w.setting.options
                  => v.setting.options = u.setting.options
    BY <1>22, NothingReturns
  <2>2. QED
    BY <1>21, <2>1
<1>24. /\ x.kind = y.kind
       /\ x.setting.options = t.setting.options => y.setting.options = x.setting.options
  <2>1. \A u \in Configures(Configs[j]), v \in Configures(Configs[k]),
           w \in Configures(Configs[config]) :
          /\ u.id = v.id /\ u.setting.pair = v.setting.pair
          /\ w.id = v.id /\ w.setting.pair = v.setting.pair
          => /\ u.kind = v.kind
             /\ u.kind = "pendle" \/ u.setting.options = w.setting.options
                  => v.setting.options = u.setting.options
    BY <1>22, NothingReturns
  <2>2. QED
    BY <1>21, <2>1
<1>25. Carries(last, t)
  <2>1. CASE t.kind = "pendle"
    BY <1>20, <1>23, <2>1 DEF Fits, Carries, Says
  <2>2. CASE t.kind # "pendle"
    <3>1. x.setting.options = t.setting.options
      BY <1>8, <1>19, <1>23, <1>24, <2>2 DEF Fits, Carries, Says
    <3>2. txs[last].data = y.setting.options
      BY <1>20, <1>23, <2>2 DEF Fits, Carries, Says
    <3>3. QED
      BY <1>24, <2>2, <3>1, <3>2 DEF Carries, Says
  <2>3. QED
    BY <2>1, <2>2
<1>26. QED
  BY <1>0, <1>1, <1>14, <1>15, <1>25 DEF IsConfigured

\* So will an adapter that need not be added.
LEMMA KeptAdapterIsLast ==
  ASSUME ChangesAreFinal, ChainOK, RunTypes, Good, AdaptersOK, Readable,
         NEW a \in Range(Configs[config].adapters), Router \in DOMAIN file,
         AdapterId(a) \in DOMAIN file,
         AdapterOf(file[Router], a.dexId) = file[AdapterId(a)]
  PROVE  IsPlugged(a)
<1>0. PICK r, d : r = file[Router] /\ d = a.dexId
  OBVIOUS
<1>1. Len(txs) \in Nat /\ DOMAIN txs = 1..Len(txs) /\ mined \in Nat /\ mined <= Len(txs)
  BY DEF ChainOK
<1>2. \A id \in DOMAIN file : IsContract(file[id], id)
  BY DEF Good
<1>3. r \in 1..Len(txs) /\ txs[r].kind = "create" /\ txs[r].id = Router
  BY <1>0, <1>1, <1>2 DEF IsContract
<1> DEFINE S == {m \in 1..mined : (m = r \/ (txs[m].kind = "adapters" /\ txs[m].to = r))
                                    /\ d \in DOMAIN txs[m].data}
           A == {m \in 1..Len(txs) : Wired(m, r) /\ d \in DOMAIN txs[m].data}
           n == Max0(S)
           last == Max0(A)
<1>4. AdapterOf(r, d) = IF n = 0 THEN 0 ELSE txs[n].data[d]
  BY AdapterOfIs
<1>5. n # 0 /\ txs[n].data[d] = file[AdapterId(a)]
  <2>1. file[AdapterId(a)] # 0
    BY <1>1, <1>2 DEF IsContract
  <2>2. QED
    BY <1>0, <1>4, <2>1
<1>6. S \in SUBSET (1..mined) /\ A \in SUBSET (1..Len(txs)) /\ S \subseteq A
  BY <1>1 DEF Wired
<1>7. n \in S /\ n \in A
  BY <1>1, <1>5, <1>6, LargestIs
<1> HIDE DEF S, n
<1>8. last \in A \cup {0} /\ \A m \in A : m <= last
  BY <1>1, <1>6, LargestIs
<1>9. n \in Nat /\ n >= 1 /\ n <= last
  BY <1>1, <1>7, <1>8
<1>10. last \in A
  BY <1>8, <1>9
<1> HIDE DEF last
<1>11. /\ last \in 1..Len(txs) /\ Wired(last, r) /\ d \in DOMAIN txs[last].data
       /\ n \in 1..last /\ Wired(n, r) /\ d \in DOMAIN txs[n].data
  BY <1>1, <1>7, <1>9, <1>10
<1>12. LastWire(last, r, d)
  BY <1>1, <1>8, <1>11 DEF LastWire
<1> HIDE DEF A
<1>13. PICK k \in 1..config : \E j \in 1..k :
         /\ \E b \in Range(Configs[j].adapters) : Plugs(n, d, b)
         /\ \E e \in Range(Configs[k].adapters) : Plugs(last, d, e)
  BY <1>1, <1>3, <1>11 DEF AdaptersOK
<1>14. PICK j \in 1..k :
         /\ \E b \in Range(Configs[j].adapters) : Plugs(n, d, b)
         /\ \E e \in Range(Configs[k].adapters) : Plugs(last, d, e)
  BY <1>13
<1>15. PICK b \in Range(Configs[j].adapters) : Plugs(n, d, b)
  BY <1>14
<1>16. PICK e \in Range(Configs[k].adapters) : Plugs(last, d, e)
  BY <1>14
<1>17. AdapterId(b) = AdapterId(a)
  BY <1>2, <1>5, <1>15 DEF Plugs, IsContract
<1>18. b.name = a.name /\ b.dexId = d /\ e.dexId = d
  BY <1>15, <1>16, <1>17 DEF AdapterId, Plugs
<1>19. config \in 1..Len(Configs) /\ config \in Nat
  <2>1. Configs \in Seq(Range(Configs))
    BY DeploymentAssumption DEF IsList
  <2>2. QED
    BY <2>1 DEF RunTypes
<1>20. e.name = b.name
  <2>1. \A u \in Range(Configs[j].adapters), v \in Range(Configs[k].adapters),
           w \in Range(Configs[config].adapters) :
          u.dexId = v.dexId /\ w.dexId = v.dexId /\ u.name = w.name => v.name = u.name
    BY <1>19, NothingReturns
  <2>2. QED
    BY <1>0, <1>18, <2>1
<1>21. AdapterId(e) = AdapterId(a)
  BY <1>0, <1>18, <1>20 DEF AdapterId
<1>22. txs[last].data[d] = file[AdapterId(a)]
  BY <1>16, <1>21 DEF Plugs
<1>23. QED
  BY <1>0, <1>1, <1>11, <1>12, <1>22 DEF IsPlugged

----------------------------------------------------------------------------
\* Progress

\* What was done before is still done when nothing is sent.
LEMMA DidStays ==
  ASSUME ChainOK, RunTypes, Grows, txs' = txs, Readable', FileGrows, config' = config,
         NEW n \in Nat, n <= Len(Plans[config]), Did(n)
  PROVE  Did(n)'
<1>1. Len(Plans[config]) \in Nat
  BY PlanEndsWithReport DEF RunTypes
<1>2. ASSUME NEW i \in 1..n
      PROVE  Achieved(Configs[config], Plans[config][i])'
  <2>1. PICK c, t : c = Configs[config] /\ t = Plans[config][i]
    OBVIOUS
  <2>2. i \in 1..Len(Plans[config]) /\ \A k \in 1..(i - 1) : k \in 1..n
    BY <1>1
  <2>3. Did(i - 1)
    BY <2>2 DEF Did
  <2>4. Achieved(c, t) /\ Needs(c, t) \subseteq DOMAIN file
    BY <2>1, <2>2, <2>3, NeedsAreRecorded DEF Did
  <2>5. Achieved(c, t)'
    BY <2>4, AchievedStays
  <2>6. c = Configs[config'] /\ t = Plans[config'][i]
    BY <2>1
  <2>7. QED
    BY <2>5, <2>6
<1>3. QED
  BY <1>2 DEF Did

\* And when something is sent: a contract, options of the configuration, or adapters with
\* which the router has what it is to have.
LEMMA DidStaysSent ==
  ASSUME ChangesAreFinal, ChainOK, RunTypes, Good, UNCHANGED <<config, file>>,
         NEW kind, NEW id, NEW to, NEW data, Send(kind, id, to, data),
         kind = "adapters" => \A a \in Range(Configs[config].adapters) : IsPlugged(a)',
         kind = "options" => \E t \in Configures(Configs[config]) :
           /\ id = t.setting.pair /\ t.id \in DOMAIN file /\ to = file[t.id]
           /\ Says(data, t),
         NEW n \in Nat, n <= Len(Plans[config]), Did(n)
  PROVE  Did(n)'
<1>1. Len(Plans[config]) \in Nat
  BY PlanEndsWithReport DEF RunTypes
<1>2. ASSUME NEW i \in 1..n
      PROVE  Achieved(Configs[config], Plans[config][i])'
  <2>1. PICK c, t : c = Configs[config] /\ t = Plans[config][i]
    OBVIOUS
  <2>2. i \in 1..Len(Plans[config]) /\ \A k \in 1..(i - 1) : k \in 1..n
    BY <1>1
  <2>3. Did(i - 1)
    BY <2>2 DEF Did
  <2>4. Achieved(c, t) /\ Needs(c, t) \subseteq DOMAIN file /\ Meant(c, t)
    BY <2>1, <2>2, <2>3, NeedsAreRecorded DEF Did
  <2>5. ASSUME kind = "adapters", t.do = "wire"
        PROVE  Achieved(c, t)'
    <3>1. \A a \in Range(c.adapters) : IsPlugged(a)'
      BY <2>1, <2>5
    <3>2. QED
      BY <2>5, <3>1 DEF Achieved
  <2>6. ASSUME ~(kind = "adapters" /\ t.do = "wire")
        PROVE  Achieved(c, t)'
    <3>1. ASSUME kind = "options", t.do = "configure", to = file[t.id], id = t.setting.pair
          PROVE  Says(data, t)
      <4>1. PICK u \in Configures(c) :
              /\ id = u.setting.pair /\ u.id \in DOMAIN file /\ to = file[u.id]
              /\ Says(data, u)
        BY <2>1, <3>1
      <4>2. t \in Configures(c) /\ t.id \in DOMAIN file
        BY <2>4, <3>1 DEF Meant, Needs
      <4>3. t.id = u.id /\ t.setting.pair = u.setting.pair
        <5>1. file[t.id] = file[u.id] /\ t.id \in DOMAIN file /\ u.id \in DOMAIN file
          BY <3>1, <4>1, <4>2
        <5>2. txs[file[t.id]].id = t.id /\ txs[file[u.id]].id = u.id
          BY <5>1 DEF Good, IsContract
        <5>3. t.id = u.id
          BY <5>1, <5>2
        <5>4. QED
          BY <3>1, <4>1, <5>3
      <4>4. config \in 1..Len(Configs) /\ config \in 1..config
        <5>1. Configs \in Seq(Range(Configs))
          BY DeploymentAssumption DEF IsList
        <5>2. QED
          BY <5>1 DEF RunTypes
      <4>5. \A x \in Configures(c), y \in Configures(c), z \in Configures(c) :
              /\ x.id = y.id /\ x.setting.pair = y.setting.pair
              /\ z.id = y.id /\ z.setting.pair = y.setting.pair
              => /\ x.kind = y.kind
                 /\ x.kind = "pendle" \/ x.setting.options = z.setting.options
                      => y.setting.options = x.setting.options
        BY <2>1, <4>4, NothingReturns
      <4>6. u.kind = t.kind /\ t.setting.options = u.setting.options
        BY <4>1, <4>2, <4>3, <4>5
      <4>7. QED
        BY <4>1, <4>6 DEF Says
    <3>2. Achieved(c, t)'
      BY <2>4, <2>6, <3>1, AchievedStaysSent
    <3>3. QED
      BY <3>2
  <2>7. Achieved(c, t)'
    BY <2>5, <2>6
  <2>8. c = Configs[config'] /\ t = Plans[config'][i]
    BY <2>1
  <2>9. QED
    BY <2>7, <2>8
<1>3. QED
  BY <1>2 DEF Did

\* No run, and the last one did not end well.
LEMMA NoProgress ==
  ASSUME task' = 0, finished' = FALSE
  PROVE  Progress'
BY DEF Progress, At

\* A run that is where it was.
LEMMA SameTaskProgress ==
  ASSUME RunTypes, task # 0, UNCHANGED <<config, task>>, finished' = FALSE,
         NEW n, n = task - 1, Did(n)', NEW c, c = Configs[config], NEW t, t = Task,
         step' # "begin" /\ t.do = "configure" => Achieved(c, t)'
  PROVE  Progress'
<1>1. task' - 1 = n /\ Task' = t /\ Configs[config'] = c
  BY DEF Task
<1>2. Did(task - 1)'
  BY <1>1
<1>3. At("configure", "wait")' \/ At("configure", "check")' => step' # "begin" /\ t.do = "configure"
  BY <1>1 DEF At
<1>4. At("configure", "wait")' \/ At("configure", "check")' => Achieved(Configs[config], Task)'
  BY <1>1, <1>3
<1>5. QED
  BY <1>2, <1>4 DEF Progress

\* A run that is past its task.
LEMMA NextTaskProgress ==
  ASSUME RunTypes, task # 0, UNCHANGED config, NextTask, finished' = FALSE,
         NEW n, n = task - 1, Did(n)', NEW c, c = Configs[config], NEW t, t = Task,
         Achieved(c, t)'
  PROVE  Progress'
<1>1. task \in Nat \ {0} /\ n \in Nat /\ n + 1 = task
  BY PlanEndsWithReport DEF RunTypes
<1>2. ASSUME NEW i \in 1..(n + 1) PROVE Achieved(Configs[config], Plans[config][i])'
  <2>1. CASE i = n + 1
    <3>1. c = Configs[config'] /\ t = Plans[config'][i]
      BY <1>1, <2>1 DEF Task
    <3>2. QED
      BY <3>1
  <2>2. CASE i # n + 1
    <3>1. i \in 1..n
      BY <1>1, <2>2
    <3>2. QED
      BY <3>1 DEF Did
  <2>3. QED
    BY <2>1, <2>2
<1>3. Did(n + 1)'
  BY <1>2 DEF Did
<1>4. task' - 1 = n + 1
  BY <1>1 DEF NextTask
<1>5. Did(task - 1)'
  BY <1>3, <1>4
<1>6. step' = "begin"
  BY DEF NextTask
<1>7. QED
  BY <1>5, <1>6 DEF Progress, At

\* The adapters that a router is given are the recorded ones.
LEMMA AdaptersAreGiven ==
  ASSUME store = file, NEW D, D \subseteq DexIds(Configs[config]),
         {AdapterId(a) : a \in Range(Configs[config].adapters)} \subseteq DOMAIN file
  PROVE  Gives([d \in D |-> store[AdapterId(AdapterFor(Configs[config], d))]])
<1> DEFINE c == Configs[config]
           f == [d \in D |-> store[AdapterId(AdapterFor(c, d))]]
<1>1. ASSUME NEW d \in D
      PROVE  \E a \in Range(c.adapters) :
               a.dexId = d /\ AdapterId(a) \in DOMAIN file /\ f[d] = file[AdapterId(a)]
  <2> DEFINE a == AdapterFor(c, d)
  <2>1. \E x \in Range(c.adapters) : x.dexId = d
    BY DEF DexIds
  <2>2. a \in Range(c.adapters) /\ a.dexId = d
    BY <2>1 DEF AdapterFor
  <2>3. f[d] = file[AdapterId(a)]
    OBVIOUS
  <2> HIDE DEF a, f
  <2>4. QED
    BY <2>2, <2>3
<1>2. DOMAIN f = D
  OBVIOUS
<1> HIDE DEF f
<1>3. Gives(f)
  BY <1>1, <1>2 DEF Gives
<1>4. QED
  BY <1>3 DEF f

\* A contract is created with what is recorded.
LEMMA ArgumentsAreRecorded ==
  ASSUME RunTypes, task # 0, Did(task - 1), store = file
  PROVE  /\ Task.do = "deploy" => Creates(Task.id, 0, ConstructorArgs(Task.id))
         /\ Task.do = "pool" => \A data : data.oracle = store[OracleId(Task.pool.oracle)] =>
              Creates(Task.id, store[Factory], data)
<1> DEFINE c == Configs[config]
<1>1. Meant(c, Task) /\ Needs(c, Task) \subseteq DOMAIN file
  <2>1. task \in 1..Len(Plans[config])
    BY PlanEndsWithReport DEF RunTypes
  <2>2. QED
    BY <2>1, NeedsAreRecorded DEF Task
<1>2. Router # Factory /\ Router # Implementation /\ Factory # Implementation
  BY DEF Router, Factory, Implementation
<1>3. ASSUME Task.do = "deploy" PROVE Creates(Task.id, 0, ConstructorArgs(Task.id))
  <2>1. Task.id[1] # "marginlyPool"
    BY <1>1, <1>3 DEF Meant
  <2>2. ASSUME Task.id = Factory
        PROVE  /\ {Implementation, Router} \subseteq DOMAIN file
               /\ ConstructorArgs(Task.id) = <<file[Implementation], file[Router]>>
    <3>1. {Implementation, Router} \subseteq DOMAIN file
      BY <1>1, <1>2, <1>3, <2>2 DEF Needs
    <3>2. ConstructorArgs(Factory) = <<store[Implementation], store[Router]>>
      BY <1>2 DEF ConstructorArgs
    <3>3. QED
      BY <2>2, <3>1, <3>2
  <2>3. ASSUME Task.id = Router PROVE Gives(ConstructorArgs(Task.id))
    <3>1. {AdapterId(a) : a \in Range(c.adapters)} \subseteq DOMAIN file
      BY <1>1, <1>3, <2>3 DEF Needs
    <3>2. ConstructorArgs(Router)
            = [d \in DexIds(c) |-> store[AdapterId(AdapterFor(c, d))]]
      BY <1>2 DEF ConstructorArgs
    <3> HIDE DEF c
    <3>3. DexIds(c) \subseteq DexIds(c)
      OBVIOUS
    <3>4. Gives([d \in DexIds(c) |-> store[AdapterId(AdapterFor(c, d))]])
      BY <3>1, <3>3, AdaptersAreGiven DEF c
    <3>5. QED
      BY <2>3, <3>2, <3>4
  <2>4. QED
    BY <2>1, <2>2, <2>3 DEF Creates
<1>4. ASSUME Task.do = "pool", NEW data, data.oracle = store[OracleId(Task.pool.oracle)]
      PROVE  Creates(Task.id, store[Factory], data)
  <2>1. PICK p \in Range(c.pools) : Task.id = PoolId(p.id) /\ Task.pool = p
    BY <1>1, <1>4 DEF Meant
  <2>2. Factory \in DOMAIN file /\ OracleId(p.oracle) \in DOMAIN file
    BY <1>1, <1>4, <2>1 DEF Needs
  <2>3. Task.id # Factory /\ Task.id # Router
    BY <2>1 DEF PoolId, Factory, Router
  <2>4. data.oracle = file[OracleId(p.oracle)]
    BY <1>4, <2>1
  <2>5. QED
    BY <2>1, <2>2, <2>3, <2>4 DEF Creates
<1>5. QED
  BY <1>3, <1>4

\* So is the oracle told what its task says.
LEMMA OptionsAreSaid ==
  ASSUME RunTypes, task # 0, Did(task - 1), store = file, Good, Task.do = "configure"
  PROVE  /\ Task \in Configures(Configs[config])
         /\ Needs(Configs[config], Task) \subseteq DOMAIN file
         /\ Task.id \in DOMAIN file
         /\ IsContract(store[Task.id], Task.id)
         /\ Says(OptionsFor(Task), Task)
<1> DEFINE c == Configs[config]
<1>1. Meant(c, Task) /\ Needs(c, Task) \subseteq DOMAIN file
  <2>1. task \in 1..Len(Plans[config])
    BY PlanEndsWithReport DEF RunTypes
  <2>2. QED
    BY <2>1, NeedsAreRecorded DEF Task
<1>2. Task \in Configures(c)
  BY <1>1 DEF Meant
<1>3. /\ Task.id \in DOMAIN file
      /\ Task.kind = "pendle" => OracleId(Task.setting.options) \in DOMAIN file
  BY <1>1 DEF Needs
<1>4. Says(OptionsFor(Task), Task)
  <2>1. CASE Task.kind = "pendle"
    BY <1>3, <2>1 DEF Good, Says, OptionsFor
  <2>2. CASE Task.kind # "pendle"
    BY <2>2 DEF Says, OptionsFor
  <2>3. QED
    BY <2>1, <2>2
<1>5. QED
  BY <1>1, <1>2, <1>3, <1>4 DEF Good

\* After the router is wired, it will have every adapter.
LEMMA WiringPlugs ==
  ASSUME ChangesAreFinal, ChainOK, RunTypes, Good, AdaptersOK, task # 0, UNCHANGED file,
         store = file, {Router} \cup {AdapterId(a) : a \in Range(Configs[config].adapters)}
                         \subseteq DOMAIN file,
         NEW data, data = [d \in AdaptersToAdd |-> store[AdapterId(AdapterFor(Configs[config], d))]],
         NEW to, to = store[Router], Send("adapters", Router, to, data),
         NEW a \in Range(Configs[config].adapters)
  PROVE  IsPlugged(a)'
<1> DEFINE c == Configs[config]
<1>0. PICK N, r, d : N = Len(txs) + 1 /\ r = file[Router] /\ d = a.dexId
  OBVIOUS
<1>1. /\ Grows /\ Len(txs) \in Nat /\ DOMAIN txs = 1..Len(txs) /\ DOMAIN txs' = 1..N
      /\ \A n \in 1..Len(txs) : txs'[n] = txs[n]
      /\ txs'[N].kind = "adapters" /\ txs'[N].to = to /\ txs'[N].data = data
  BY <1>0, SendIs
<1>2. N \in 1..N /\ \A m \in 1..N : m <= N /\ (m = N \/ m \in 1..Len(txs))
  BY <1>0, <1>1
<1>3. AdapterFor(c, d) = a
  <2>1. c \in Range(Configs)
    BY DEF RunTypes, Range
  <2>2. WellFormed(c)
    <3> HIDE DEF c
    <3>1. QED
      BY <2>1, DeploymentAssumption
  <2>3. \A i, j \in DOMAIN c.adapters : c.adapters[i].dexId = c.adapters[j].dexId => i = j
    BY <2>2 DEF WellFormed
  <2>4. \A x \in Range(c.adapters) : x.dexId = d => x = a
    BY <1>0, <2>3 DEF Range
  <2>5. QED
    BY <1>0, <2>4 DEF AdapterFor
<1>4. d \in DexIds(c)
  BY <1>0 DEF DexIds
<1>5. CASE d \in AdaptersToAdd
  <2>1. d \in DOMAIN data /\ data[d] = file[AdapterId(a)]
    BY <1>3, <1>5
  <2>2. LastWire(N, file[Router], a.dexId)'
    BY <1>0, <1>1, <1>2, <2>1 DEF LastWire, Wired
  <2>3. txs'[N].data[a.dexId] = file'[AdapterId(a)]
    BY <1>0, <1>1, <2>1
  <2>4. QED
    BY <1>1, <1>2, <2>2, <2>3 DEF IsPlugged
<1>6. CASE d \notin AdaptersToAdd
  <2>1. AdapterOf(file[Router], a.dexId) = file[AdapterId(a)]
    BY <1>0, <1>3, <1>4, <1>6 DEF AdaptersToAdd
  <2>2. AdapterId(a) \in DOMAIN file /\ Router \in DOMAIN file
    OBVIOUS
  <2>3. IsPlugged(a)
    BY <2>1, <2>2, KeptAdapterIsLast DEF Readable
  <2>4. PICK n \in DOMAIN txs :
          LastWire(n, file[Router], a.dexId) /\ txs[n].data[a.dexId] = file[AdapterId(a)]
    BY <2>3 DEF IsPlugged
  <2>5. n \in 1..Len(txs) /\ n \in 1..N /\ txs'[n] = txs[n]
    BY <1>0, <1>1, <2>4
  <2>6. d \notin DOMAIN txs'[N].data
    BY <1>1, <1>6
  <2>7. \A m \in 1..Len(txs) : Wired(m, r)' <=> Wired(m, r)
    BY <1>1 DEF Wired
  <2>8. LastWire(n, r, d)
    BY <1>0, <2>4
  <2>9. LastWire(n, r, d)'
    <3>1. Wired(n, r)' /\ d \in DOMAIN txs'[n].data
      BY <2>5, <2>7, <2>8 DEF LastWire
    <3>2. ASSUME NEW m \in 1..N, Wired(m, r)', d \in DOMAIN txs'[m].data
          PROVE  m <= n
      <4>1. m \in 1..Len(txs) /\ txs'[m] = txs[m]
        BY <1>1, <1>2, <2>6, <3>2
      <4>2. QED
        BY <1>1, <2>7, <2>8, <3>2, <4>1 DEF LastWire
    <3>3. QED
      BY <1>1, <3>1, <3>2 DEF LastWire
  <2>10. LastWire(n, file[Router], a.dexId)'
    BY <1>0, <2>9
  <2>11. QED
    BY <1>1, <2>4, <2>5, <2>10 DEF IsPlugged
<1>7. QED
  BY <1>5, <1>6

\* The inductive invariant of FinishedRunsAreComplete.
Completion == Losses /\ History /\ Progress

\* Nothing is done before anything is sent.
LEMMA InitCompletion ==
  Init => Completion
<1> SUFFICES ASSUME Init PROVE Completion
  OBVIOUS
<1>1. DOMAIN txs = {} /\ task = 0 /\ finished = FALSE
  BY DEF Init
<1>2. History
  BY <1>1 DEF History, SettingsOK, AdaptersOK, ContentsOK
<1>3. Progress
  BY <1>1 DEF Progress, At
<1>4. QED
  BY <1>2, <1>3, InitLosses DEF Completion

\* The inductive step of FinishedRunsAreComplete, action by action.
LEMMA CompletionIsKept ==
  ASSUME ChangesAreFinal, Completion, [Next]_vars
  PROVE  History' /\ Progress'
<1>1. /\ ChainOK /\ RunTypes /\ History /\ Progress /\ RecordedIsDeployed /\ StoreOK
      /\ AwaitingOK /\ config \in Nat \ {0}
  <2>1. Configs \in Seq(Range(Configs))
    BY DeploymentAssumption DEF IsList
  <2>2. Losses /\ History /\ Progress
    BY DEF Completion
  <2>3. Types /\ AwaitingOK
    BY <2>2 DEF Losses, LossInv
  <2>4. config \in Nat \ {0}
    BY <2>1, <2>3 DEF Types, RunTypes
  <2>5. QED
    BY <2>2, <2>3, <2>4 DEF Types, IInv
<1>2. Readable => Good
  <2>1. CASE task # 0
    BY <1>1, <2>1 DEF AwaitingOK, StoreOK, Good
  <2>2. CASE file # Torn
    BY <1>1, <2>2 DEF RecordedIsDeployed, Good
  <2>3. QED
    BY <2>1, <2>2 DEF Readable
<1>3. ASSUME task # 0
      PROVE  /\ store = file /\ Readable /\ Good /\ finished = FALSE
             /\ task - 1 \in Nat /\ task - 1 <= Len(Plans[config]) /\ Did(task - 1)
             /\ Task = Plans[config][task] /\ task \in 1..Len(Plans[config])
  <2>1. Len(Plans[config]) \in Nat
    BY <1>1, PlanEndsWithReport DEF RunTypes
  <2>2. finished = FALSE
    BY <1>1, <1>3 DEF Progress, RunTypes
  <2>3. store = file /\ Readable /\ Good
    BY <1>1, <1>2, <1>3 DEF AwaitingOK, Readable
  <2>4. QED
    BY <1>1, <1>3, <2>1, <2>2, <2>3 DEF RunTypes, Progress, Task
<1>4. PICK c, t, n : c = Configs[config] /\ t = Task /\ n = task - 1
  OBVIOUS
\* Steps that send nothing.
<1>5. ASSUME txs' = txs, Grows, FileGrows, config' = config
      PROVE  /\ History'
             /\ Readable' /\ task # 0 => Did(n)'
             /\ Readable' /\ Achieved(c, t) /\ Needs(c, t) \subseteq DOMAIN file => Achieved(c, t)'
  <2>1. History'
    <3>1. config \in Nat /\ config' \in Nat /\ config <= config'
      BY <1>1, <1>5
    <3>2. QED
      BY <1>1, <1>5, <3>1, HistoryStays
  <2>2. ASSUME Readable', task # 0 PROVE Did(n)'
    <3>1. n \in Nat /\ n <= Len(Plans[config]) /\ Did(n)
      BY <1>3, <1>4, <2>2
    <3>2. QED
      BY <1>1, <1>5, <2>2, <3>1, DidStays
  <2>3. ASSUME Readable', Achieved(c, t), Needs(c, t) \subseteq DOMAIN file PROVE Achieved(c, t)'
    BY <1>1, <1>5, <2>3, AchievedStays
  <2>4. QED
    BY <2>1, <2>2, <2>3
<1>6. ASSUME UNCHANGED chain PROVE txs' = txs /\ Grows
  BY <1>1, <1>6, ChainStays DEF chain
<1>7. ASSUME UNCHANGED file, Readable' => Readable PROVE FileGrows
  BY <1>7 DEF FileGrows
<1>8. CASE Import
  <2>1. /\ task # 0 /\ t.do \in {"deploy", "pool"} /\ t.id \in DOMAIN store /\ NextTask
        /\ UNCHANGED <<chain, file, config, finished>>
    BY <1>4, <1>8 DEF Import, At, files
  <2>2. Readable' /\ Readable
    BY <1>1, <1>3, <2>1, PlanEndsWithReport DEF NextTask, Readable, RunTypes
  <2>3. History' /\ Did(n)'
    BY <1>5, <1>6, <1>7, <2>1, <2>2
  <2>4. Achieved(c, t)'
    BY <1>3, <2>1 DEF Achieved
  <2>5. QED
    BY <1>1, <1>3, <1>4, <2>1, <2>3, <2>4, NextTaskProgress
<1>9. CASE DeployContract \/ CreatePool
  <2>1. PICK to, data : /\ Send("create", Task.id, to, data)
                        /\ Creates(Task.id, to, data)
    <3>1. CASE DeployContract
      <4>1. Task.do = "deploy" /\ task # 0 /\ Send("create", Task.id, 0, ConstructorArgs(Task.id))
        BY <3>1 DEF DeployContract, At
      <4>2. Creates(Task.id, 0, ConstructorArgs(Task.id))
        BY <1>1, <1>3, <4>1, ArgumentsAreRecorded
      <4>3. QED
        BY <4>1, <4>2
    <3>2. CASE CreatePool
      <4> DEFINE data == [quote |-> TokenAddress(Task.pool.quote),
                          base |-> TokenAddress(Task.pool.base),
                          oracle |-> store[OracleId(Task.pool.oracle)]]
      <4>1. Task.do = "pool" /\ task # 0 /\ Send("create", Task.id, store[Factory], data)
        BY <3>2 DEF CreatePool, At
      <4>2. data.oracle = store[OracleId(Task.pool.oracle)]
        OBVIOUS
      <4> HIDE DEF data
      <4>3. Creates(Task.id, store[Factory], data)
        BY <1>1, <1>3, <4>1, <4>2, ArgumentsAreRecorded
      <4>4. QED
        BY <4>1, <4>3
    <3>3. QED
      BY <1>9, <3>1, <3>2
  <2>2. /\ task # 0 /\ t.do \in {"deploy", "pool"}
        /\ UNCHANGED <<file, config, task, finished>>
    BY <1>4, <1>9 DEF DeployContract, CreatePool, At, files
  <2>3. History'
    BY <1>1, <1>3, <2>1, <2>2, SendKeepsHistory
  <2>4. Did(n)'
    <3>1. n \in Nat /\ n <= Len(Plans[config]) /\ Did(n) /\ Good
      BY <1>3, <1>4, <2>2
    <3>2. QED
      BY <1>1, <2>1, <2>2, <3>1, DidStaysSent
  <2>5. QED
    BY <1>1, <1>3, <1>4, <2>2, <2>3, <2>4, SameTaskProgress
\* What is recorded was not recorded before.
<1>10. ASSUME At("deploy", "wait") \/ At("pool", "wait"), SetById(Task.id, Len(txs)),
              UNCHANGED <<chain, config, finished>>
       PROVE  History' /\ Progress'
  <2>1. /\ task # 0 /\ t.do \in {"deploy", "pool"} /\ Task.id \notin DOMAIN store
    BY <1>1, <1>4, <1>10 DEF At, AwaitingOK, Awaiting
  <2>2. /\ DOMAIN store' = DOMAIN store \cup {Task.id} /\ file' = store' /\ NextTask
        /\ \A id \in DOMAIN store' : store'[id] = IF id = Task.id THEN Len(txs) ELSE store[id]
    BY <1>10 DEF SetById
  <2>3. Readable' /\ Readable
    BY <1>1, <1>3, <2>1, <2>2, PlanEndsWithReport DEF NextTask, Readable, RunTypes
  <2>4. \A id \in DOMAIN file : id \in DOMAIN file' /\ file'[id] = file[id]
    BY <1>3, <2>1, <2>2
  <2>5. FileGrows
    BY <2>3, <2>4 DEF FileGrows
  <2>6. History' /\ Did(n)'
    BY <1>5, <1>6, <1>10, <2>1, <2>3, <2>5
  <2>7. Achieved(c, t)'
    BY <1>4, <2>1, <2>2 DEF Achieved
  <2>8. finished' = FALSE
    BY <1>3, <1>10, <2>1
  <2>9. QED
    BY <1>1, <1>4, <1>10, <2>1, <2>2, <2>6, <2>7, <2>8, NextTaskProgress
\* A run that stops.
<1>11. ASSUME task # 0, Exit, UNCHANGED <<chain, config, finished>>, file' = file \/ file' = Torn
       PROVE  History' /\ Progress'
  <2>1. task' = 0 /\ finished' = FALSE
    BY <1>3, <1>11 DEF Exit
  <2>2. FileGrows
    BY <1>3, <1>11, <2>1 DEF FileGrows, Readable
  <2>3. QED
    BY <1>5, <1>6, <1>11, <2>1, <2>2, NoProgress
<1>12. CASE Deployed
  BY <1>10, <1>12 DEF Deployed
<1>13. CASE PoolCreated
  <2>1. /\ At("pool", "wait") /\ UNCHANGED <<chain, config, finished>>
        /\ SetById(Task.id, Len(txs)) \/ (Exit /\ UNCHANGED file)
    BY <1>13 DEF PoolCreated
  <2>2. QED
    BY <1>10, <1>11, <2>1 DEF At
<1>14. CASE SetOptions
  <2>1. /\ task # 0 /\ Task.do = "configure"
        /\ Send("options", Task.setting.pair, store[Task.id], OptionsFor(Task))
        /\ UNCHANGED <<file, config, task, finished>>
    BY <1>14 DEF SetOptions, At, files
  <2>2. PICK to, data : to = store[Task.id] /\ data = OptionsFor(Task)
    OBVIOUS
  <2>3. /\ t \in Configures(c) /\ t.id \in DOMAIN file /\ IsContract(to, t.id) /\ Says(data, t)
        /\ to = file[t.id]
    BY <1>1, <1>3, <1>4, <2>1, <2>2, OptionsAreSaid
  <2>4. Send("options", t.setting.pair, to, data)
    BY <1>4, <2>1, <2>2
  <2>5. History'
    <3>1. Tells(t.setting.pair, to, data)
      BY <1>4, <2>3 DEF Tells
    <3>2. QED
      BY <1>1, <1>3, <2>1, <2>4, <3>1, SendKeepsHistory
  <2>6. Did(n)'
    <3>1. n \in Nat /\ n <= Len(Plans[config]) /\ Did(n) /\ Good
      BY <1>3, <1>4, <2>1
    <3>2. \E u \in Configures(Configs[config]) :
            /\ t.setting.pair = u.setting.pair /\ u.id \in DOMAIN file /\ to = file[u.id]
            /\ Says(data, u)
      BY <1>4, <2>3
    <3>3. QED
      BY <1>1, <2>1, <2>4, <3>1, <3>2, DidStaysSent
  <2>7. Achieved(c, t)'
    <3>1. IsConfigured(t)'
      BY <1>1, <2>1, <2>3, <2>4, SentOptionsAreLast
    <3>2. t.do = "configure"
      BY <1>4, <2>1
    <3>3. QED
      BY <3>1, <3>2 DEF Achieved
  <2>8. QED
    BY <1>1, <1>3, <1>4, <2>1, <2>5, <2>6, <2>7, SameTaskProgress
<1>15. CASE KeepOptions
  <2>1. /\ task # 0 /\ Task.do = "configure" /\ UNCHANGED <<chain, file, config, task, finished>>
    BY <1>15 DEF KeepOptions, At, files
  <2>2. Needs(c, t) \subseteq DOMAIN file /\ t \in Configures(c) /\ t.do = "configure"
    BY <1>1, <1>3, <1>4, <2>1, OptionsAreSaid
  <2>3. Achieved(c, t)
    <3>1. CASE ~MustSet(Task)
      <4>1. IsConfigured(t)
        BY <1>1, <1>3, <1>4, <2>1, <2>2, <3>1, KeptOptionsAreLast DEF History
      <4>2. QED
        BY <2>2, <4>1 DEF Achieved
    <3>2. CASE At("configure", "wait")
      BY <1>1, <1>4, <3>2 DEF Progress
    <3>3. QED
      BY <1>15, <3>1, <3>2 DEF KeepOptions
  <2>4. Readable' /\ Readable
    BY <2>1 DEF Readable
  <2>5. History' /\ Did(n)' /\ Achieved(c, t)'
    BY <1>5, <1>6, <1>7, <2>1, <2>2, <2>3, <2>4
  <2>6. QED
    BY <1>1, <1>3, <1>4, <2>1, <2>5, SameTaskProgress
<1>16. CASE CheckOracle
  <2>1. /\ At("configure", "check") /\ task # 0 /\ Task.do = "configure"
        /\ UNCHANGED <<chain, file, config, finished>>
        /\ NextTask \/ Exit
    BY <1>16 DEF CheckOracle, At, files
  <2>2. CASE NextTask
    <3>1. Needs(c, t) \subseteq DOMAIN file
      BY <1>1, <1>3, <1>4, <2>1, OptionsAreSaid
    <3>2. Achieved(c, t)
      BY <1>1, <1>4, <2>1 DEF Progress
    <3>3. Readable' /\ Readable
      BY <1>1, <1>3, <2>1, <2>2, PlanEndsWithReport DEF NextTask, Readable, RunTypes
    <3>4. History' /\ Did(n)' /\ Achieved(c, t)'
      BY <1>5, <1>6, <1>7, <2>1, <3>1, <3>2, <3>3
    <3>5. QED
      BY <1>1, <1>3, <1>4, <2>1, <2>2, <3>4, NextTaskProgress
  <2>3. CASE Exit
    BY <1>11, <2>1, <2>3
  <2>4. QED
    BY <2>1, <2>2, <2>3
<1>17. CASE WireRouter
  <2>1. /\ task # 0 /\ Task.do = "wire" /\ NextTask /\ UNCHANGED <<file, config, finished>>
    BY <1>17 DEF WireRouter, At, files
  <2>2. {Router} \cup {AdapterId(a) : a \in Range(c.adapters)} \subseteq DOMAIN file
    <3>1. Needs(c, t) \subseteq DOMAIN file
      BY <1>1, <1>3, <1>4, <2>1, NeedsAreRecorded
    <3>2. QED
      BY <1>4, <2>1, <3>1 DEF Needs
  <2>3. Readable' /\ Readable
    BY <1>1, <1>3, <2>1, PlanEndsWithReport DEF NextTask, Readable, RunTypes
  <2>4. CASE AdaptersToAdd = {}
    <3>1. UNCHANGED chain
      BY <1>17, <2>4 DEF WireRouter
    <3>2. ASSUME NEW a \in Range(c.adapters) PROVE IsPlugged(a)
      <4>1. AdapterFor(c, a.dexId) = a
        <5>1. c \in Range(Configs)
          BY <1>1, <1>4 DEF RunTypes, Range
        <5>2. WellFormed(c)
          BY <5>1, DeploymentAssumption
        <5>3. \A i, j \in DOMAIN c.adapters :
                c.adapters[i].dexId = c.adapters[j].dexId => i = j
          BY <5>2 DEF WellFormed
        <5>4. \A x \in Range(c.adapters) : x.dexId = a.dexId => x = a
          BY <5>3 DEF Range
        <5>5. QED
          BY <5>4 DEF AdapterFor
      <4>2. a.dexId \in DexIds(c)
        BY DEF DexIds
      <4>3. AdapterOf(store[Router], a.dexId) = store[AdapterId(a)]
        BY <1>4, <2>4, <4>1, <4>2 DEF AdaptersToAdd
      <4>4. AdapterOf(file[Router], a.dexId) = file[AdapterId(a)]
        BY <1>3, <2>1, <4>3
      <4>5. a \in Range(Configs[config].adapters) /\ Router \in DOMAIN file
            /\ AdapterId(a) \in DOMAIN file
        BY <1>4, <2>2
      <4>6. QED
        BY <1>1, <1>3, <2>1, <4>4, <4>5, KeptAdapterIsLast DEF History
    <3>3. Achieved(c, t) /\ Needs(c, t) \subseteq DOMAIN file
      BY <1>4, <2>1, <2>2, <3>2 DEF Achieved, Needs
    <3>4. History' /\ Did(n)' /\ Achieved(c, t)'
      BY <1>5, <1>6, <1>7, <2>1, <2>3, <3>1, <3>3
    <3>5. QED
      BY <1>1, <1>3, <1>4, <2>1, <3>4, NextTaskProgress
  <2>5. CASE AdaptersToAdd # {}
    <3>1. PICK to, data :
            /\ to = store[Router]
            /\ data = [d \in AdaptersToAdd |-> store[AdapterId(AdapterFor(Configs[config], d))]]
            /\ Send("adapters", Router, to, data)
      BY <1>17, <2>5 DEF WireRouter
    <3>2. IsContract(to, Router)
      BY <1>3, <2>1, <2>2, <3>1 DEF Good
    <3>3. Gives(data)
      <4> DEFINE D == AdaptersToAdd
      <4>1. D \subseteq DexIds(Configs[config])
        BY DEF AdaptersToAdd
      <4>2. data = [d \in D |-> store[AdapterId(AdapterFor(Configs[config], d))]]
        BY <3>1
      <4> HIDE DEF D
      <4>3. QED
        BY <1>3, <1>4, <2>1, <2>2, <4>1, <4>2, AdaptersAreGiven
    <3>4. History'
      BY <1>1, <1>3, <2>1, <3>1, <3>2, <3>3, SendKeepsHistory
    <3>5. \A a \in Range(Configs[config].adapters) : IsPlugged(a)'
      BY <1>1, <1>3, <1>4, <2>1, <2>2, <3>1, WiringPlugs DEF History
    <3>6. Did(n)'
      <4>1. n \in Nat /\ n <= Len(Plans[config]) /\ Did(n) /\ Good
        BY <1>3, <1>4, <2>1
      <4>2. QED
        BY <1>1, <2>1, <3>1, <3>5, <4>1, DidStaysSent
    <3>7. Achieved(c, t)'
      BY <1>4, <2>1, <3>5 DEF Achieved
    <3>8. QED
      BY <1>1, <1>3, <1>4, <2>1, <3>4, <3>6, <3>7, NextTaskProgress
  <2>6. QED
    BY <2>4, <2>5
<1>18. CASE UpdateDeploymentFile
  <2>1. /\ task # 0 /\ Task.do = "report" /\ Exit /\ UNCHANGED <<chain, file, config>>
    BY <1>18 DEF UpdateDeploymentFile, At
  <2>2. CASE report = Torn
    <3>1. finished' = finished
      BY <1>18, <2>2 DEF UpdateDeploymentFile
    <3>2. QED
      BY <1>11, <2>1, <3>1
  <2>3. CASE report # Torn
    <3>1. report' = Merged /\ finished' = TRUE /\ task' = 0 /\ config' = config /\ file' = file
      BY <1>18, <2>1, <2>3 DEF UpdateDeploymentFile, Exit
    <3>2. /\ Len(Plans[config]) \in Nat \ {0} /\ task = Len(Plans[config])
      <4>1. config \in DOMAIN Configs
        BY <1>1 DEF RunTypes
      <4>2. task # Len(Plans[config]) => Works(Configs[config], Task)
        BY <1>3, <2>1, <4>1, PlanEndsWithReport
      <4>3. QED
        BY <2>1, <4>1, <4>2, PlanEndsWithReport DEF Works
    <3>3. Achieved(c, t)
      BY <1>4, <2>1 DEF Achieved
    <3>4. Did(n + 1)
      <4>1. \A i \in 1..(n + 1) : i = task \/ i \in 1..n
        BY <1>3, <1>4, <2>1
      <4>2. \A i \in 1..n : Achieved(Configs[config], Plans[config][i])
        BY <1>3, <1>4, <2>1 DEF Did
      <4>3. Achieved(Configs[config], Plans[config][task])
        BY <1>3, <1>4, <2>1, <3>3
      <4>4. QED
        BY <4>1, <4>2, <4>3 DEF Did
    <3>5. FileGrows
      BY <1>3, <2>1 DEF FileGrows
    <3>6. History'
      BY <1>5, <1>6, <2>1, <3>5
    <3>7. PICK l : l = Len(Plans[config])
      OBVIOUS
    <3>8. ASSUME Readable' PROVE Did(l)'
      <4>1. l \in Nat /\ l <= Len(Plans[config]) /\ Did(l)
        BY <1>4, <3>2, <3>4, <3>7
      <4>2. Grows /\ txs' = txs
        BY <1>6, <2>1
      <4>3. QED
        BY <1>1, <2>1, <3>5, <3>8, <4>1, <4>2, DidStays
    <3>9. \A p \in Range(Configs[config].pools) : report'[PoolId(p.id)] = file'[PoolId(p.id)]
      <4> SUFFICES ASSUME NEW p \in Range(Configs[config].pools)
                   PROVE  report'[PoolId(p.id)] = file'[PoolId(p.id)]
        OBVIOUS
      <4>1. PoolId(p.id) \in ReportedIds(Configs[config])
        BY DEF ReportedIds
      <4>2. report'[PoolId(p.id)] = store[PoolId(p.id)]
        BY <3>1, <4>1 DEF Merged
      <4>3. QED
        BY <1>3, <2>1, <3>1, <4>2
    <3>10. Progress'
      <4>1. ~Corrupt' => Readable'
        BY DEF Corrupt, Readable
      <4>2. Plans[config'] = Plans[config] /\ Configs[config'] = Configs[config]
        BY <3>1
      <4>3. ~Corrupt' => Did(Len(Plans[config]))'
        BY <3>7, <3>8, <4>1, <4>2
      <4>4. QED
        BY <3>1, <3>9, <4>2, <4>3 DEF Progress, At
    <3>11. QED
      BY <3>6, <3>10
  <2>4. QED
    BY <2>2, <2>3
<1>19. CASE Resume \/ Rerun
  <2>1. /\ task = 0 /\ file # Torn /\ task' = 1 /\ step' = "begin" /\ finished' = FALSE
        /\ UNCHANGED <<chain, file, config>>
    BY <1>19 DEF Resume, Rerun, Start, files
  <2>2. Readable
    BY <2>1 DEF Readable
  <2>3. History'
    BY <1>5, <1>6, <1>7, <2>1, <2>2
  <2>4. Did(0)'
    BY DEF Did
  <2>5. task' - 1 = 0
    BY <2>1
  <2>6. Did(task - 1)'
    BY <2>4, <2>5
  <2>7. Progress'
    BY <2>1, <2>6 DEF Progress, At
  <2>8. QED
    BY <2>3, <2>7
<1>20. CASE Crash
  <2>1. task # 0 /\ Exit /\ UNCHANGED <<chain, config, finished>> /\ (file' = file \/ file' = Torn)
    BY <1>20 DEF Crash
  <2>2. QED
    BY <1>11, <2>1
\* Steps in which only the chain goes on.
<1>21. ASSUME txs' = txs, Grows, UNCHANGED <<file, report, config, task, step, finished>>
       PROVE  History' /\ Progress'
  <2>1. Readable' <=> Readable
    BY <1>21 DEF Readable
  <2>2. FileGrows
    BY <1>7, <1>21, <2>1
  <2>3. History'
    BY <1>5, <1>21, <2>2
  <2>4. CASE task # 0
    <3>1. Readable' /\ Did(n)'
      BY <1>3, <1>5, <1>21, <2>1, <2>2, <2>4
    <3>2. ASSUME step' # "begin", t.do = "configure" PROVE Achieved(c, t)'
      <4>1. At("configure", "wait") \/ At("configure", "check")
        BY <1>1, <1>4, <1>21, <2>4, <3>2 DEF At, RunTypes
      <4>2. Achieved(c, t)
        BY <1>1, <1>4, <4>1 DEF Progress
      <4>3. Needs(c, t) \subseteq DOMAIN file
        BY <1>1, <1>3, <1>4, <2>4, <3>2, OptionsAreSaid
      <4>4. QED
        BY <1>5, <1>21, <2>2, <3>1, <4>2, <4>3
    <3>3. Progress'
      BY <1>1, <1>3, <1>4, <1>21, <2>4, <3>1, <3>2, SameTaskProgress
    <3>4. QED
      BY <2>3, <3>3
  <2>5. CASE task = 0
    <3>1. ASSUME finished', ~Corrupt'
          PROVE  /\ Did(Len(Plans[config]))'
                 /\ \A p \in Range(Configs[config'].pools) :
                      report'[PoolId(p.id)] = file'[PoolId(p.id)]
      <4>1. finished /\ ~Corrupt /\ Readable'
        BY <1>21, <3>1 DEF Corrupt, Readable
      <4>2. PICK l : l = Len(Plans[config])
        OBVIOUS
      <4>3. /\ Did(l)
            /\ \A p \in Range(Configs[config].pools) : report[PoolId(p.id)] = file[PoolId(p.id)]
        BY <1>1, <4>1, <4>2 DEF Progress
      <4>4. l \in Nat /\ l <= Len(Plans[config])
        BY <1>1, <4>2, PlanEndsWithReport DEF RunTypes
      <4>5. Did(l)'
        BY <1>1, <1>21, <2>2, <4>1, <4>3, <4>4, DidStays
      <4>6. QED
        BY <1>21, <4>2, <4>3, <4>5
    <3>2. Progress'
      BY <1>21, <2>5, <3>1 DEF Progress, At
    <3>3. QED
      BY <2>3, <3>2
  <2>6. QED
    BY <2>4, <2>5
<1>22. CASE Mine
  <2>1. /\ txs' = txs /\ mined' \in (mined + 1)..Len(txs)
        /\ UNCHANGED <<file, report, config, task, step, finished>>
    BY <1>22 DEF Mine, files, run
  <2>2. Grows
    BY <1>1, <2>1 DEF Grows, ChainOK
  <2>3. QED
    BY <1>21, <2>1, <2>2
<1>23. CASE Reconfigure
  <2>1. /\ task = 0 /\ task' = 0 /\ config' = config + 1 /\ finished' = FALSE
        /\ UNCHANGED <<chain, file>>
    BY <1>23 DEF Reconfigure, files, run
  <2>2. FileGrows
    BY <1>7, <2>1 DEF Readable
  <2>3. History'
    <3>1. config \in Nat /\ config' \in Nat /\ config <= config'
      BY <1>1, <2>1
    <3>2. QED
      BY <1>1, <1>6, <2>1, <2>2, <3>1, HistoryStays
  <2>4. QED
    BY <2>1, <2>3, NoProgress
<1>24. CASE UNCHANGED vars
  <2>1. UNCHANGED <<chain, file, report, config, task, step, finished>>
    BY <1>24 DEF vars, files, run
  <2>2. QED
    BY <1>6, <1>21, <2>1
<1>25. QED
  BY <1>8, <1>9, <1>12, <1>13, <1>14, <1>15, <1>16, <1>17, <1>18, <1>19, <1>20, <1>22, <1>23,
     <1>24 DEF Next, RunStep

(***************************************************************************)
(* FinishedIsComplete for every list of configurations: whatever runs were *)
(* killed between, or while writing, whatever was still under way when the *)
(* next one compared it with its configuration, and however long           *)
(* setOptions and addDexAdapters that are not waited for take, the         *)
(* deployment is complete once all is mined.                               *)
(***************************************************************************)
THEOREM FinishedRunsAreComplete == Spec => []FinishedIsComplete
<1> DEFINE Inv == ChangesAreFinal => Completion
<1>1. Init => Inv
  BY InitCompletion
<1>2. Inv /\ [Next]_vars => Inv'
  <2> SUFFICES ASSUME ChangesAreFinal, Completion, [Next]_vars PROVE Completion'
    OBVIOUS
  <2>1. Losses'
    BY TypesAreKept, LossesAreKept DEF Completion, Losses
  <2>2. History' /\ Progress'
    BY CompletionIsKept
  <2>3. QED
    BY <2>1, <2>2 DEF Completion
<1>3. Inv => FinishedIsComplete
  <2>1. CASE ChangesAreFinal
    BY <2>1, AchievedIsComplete DEF Completion
  <2>2. CASE ~ChangesAreFinal
    BY <2>2 DEF FinishedIsComplete
  <2>3. QED
    BY <2>1, <2>2
<1>4. QED
  <2> HIDE DEF Inv
  <2>1. QED
    BY <1>1, <1>2, <1>3, PTL DEF Spec

=============================================================================
