# Marginly: specifications, model checking and proofs

TLA+ modules for Marginly: the pool (`packages/contracts`), the services that
watch it and feed it prices (`keeper`, `oracle`, `common`) and its deployment
(`deploy`, `cli`); the TLC runs that check them and the TLAPS proofs about them. Paths are relative to `src/packages`;
`MarginlyPool.sol:N` is a line of `contracts/contracts/MarginlyPool.sol`.

## 1. The system

A Marginly pool lends two tokens, base and quote. Lenders deposit; a *Short*
borrows base against quote, a *Long* borrows quote against base. The pool itself
liquidates: every call first accrues interest and "margin calls" the worst short
and the worst long, which it finds at the roots of two heaps. Around the pool
there are swaps, prices, liquidation bots and administration.

| component | state | operations | talks to |
|---|---|---|---|
| `MarginlyPool.sol` | positions (type, heapPosition, two discounted amounts), four aggregates, six coefficients, mode, system leverage, two heaps, parameters, time of the last accrual | `execute` (deposit, withdraw, short, long, close, reinit and balance sync, receivePosition, emergencyWithdraw), `setParameters`, `shutDown` | heap and FP96 libraries (calls), price oracle (view), router (swap), factory (owner, fee holder, technical position owner), ERC-20 tokens |
| `MaxBinaryHeapLib.sol` | nodes, length, and `heapPosition` in the pool's positions | insert, update, updateAccount, remove, getNodeByIndex | storage of the pool |
| `FP96.sol`, `FP48.sol` | none | fixed-point arithmetic, each operator with a rounding | everything |
| `MarginlyFactory.sol`, `periphery/.../admin` | owners, pools, router, per-pool roles | create pools, change router and parameters, two-step ownership | pools, router |
| `keepers/*.sol` | none between transactions | flash loan, receivePosition, two withdrawals, swap, repay | pool, router, lenders |
| `keeper/src` | watched pools, stop flag, transactions under way | poll roots, repeat the accrual, send a liquidation | pool (RPC), keeper contracts |
| `oracle/src`, `common/src` | worker states, validated mocks, price cache behind a mutex, cancellation flags | tick, restart, stop; retry, timeout | price APIs, mock pools |
| `deploy/src`, `cli/src` | state file, deployment.json, the run's place | deploy or find each contract, wire them, record them | chain, files, operator |
| `router` | adapters, their pools | split an amount over exchanges, pull from the payer in a callback | pool, exchanges |
| `periphery/.../oracles` | options per pair, ring of observations (Uniswap V2), feeds (Chainlink, Pyth) | update, configure, price | pool (view), price sources |
| `timelock`, `nft`, `registry` | whitelist; token URIs; custom pools | execute at once or after a delay; mint; look up | targets |

Hard behaviours, and what makes each component correct:

* **Pool.** Calls of many users in any order, interleaved with price moves and
  time. Every accounting rule exists twice, mirrored for base and quote; every
  amount is rounded; the meaning of an amount (collateral or debt) depends on
  the position type. Correct means: aggregates are the sums of positions; the
  pool owns, or is owed, what it owes; heaps hold the margin positions in an
  order that finds the bad ones; nobody's position changes but the caller's and
  those that are margin called; losses reach lenders only by a margin call; an
  emergency pays what it promises; no sequence of calls locks the pool up.
* **Heap.** Two array heaps share one mapping of back pointers, while elements
  move in loops. Correct means pointers and nodes stay inverse and the root is
  maximal.
* **Keepers and keeper service.** What is read over RPC comes from several blocks and
  is stale when the transaction runs; only roots are looked at; amounts that exactly
  repay a debt hit boundary cases; some transactions are not waited for. Correct: a
  bad position is liquidated in the end, and a liquidation succeeds whole or
  changes nothing.
* **Oracle service.** Restarts, a stop during a restart, a watchdog that does not
  cancel what it watches, one mutex for all prices. Correct: every job gets its
  turn, and after a stop request everything ends.
* **Deployment.** A run dies, or its node fails, between sending a transaction and
  recording its contract; the operator starts it again, perhaps with another
  configuration. Correct: what is recorded exists, a run that reports success leaves a
  complete deployment, and interruptions cost little.
* **Router, price contracts, admin, timelock.** Ratios in packed bits; epochs and window
  boundaries; who may do what. See section 5.

`PROJECT.json` lists each hazard at its line.

## 2. Modules

| module | models | kind |
|---|---|---|
| `PriorityMap` | what the pool relies on: keys per account and a root that nobody exceeds | abstract specification |
| `MaxBinaryHeap` | `MaxBinaryHeapLib.sol`, both heaps and the shared pointers, loops step by step | detailed specification, implements `PriorityMap` |
| `FixedPoint` | `FP96.sol` | operators |
| `PoolLib` | functions of the pool over its storage: real amounts, heaps, leverage, swaps, interest | operators |
| `PoolCalls` | margin call, deleverage, each call of `execute`, emergency | operators |
| `MarginlyPool` | the pool over time: transactions, blocks, prices | state machine |
| `PoolWatcher` | `keeper/src/PoolWatcher.ts` and the arithmetic of `common/src` it uses | operators |
| `MarginlyKeeper` | `keepers/MarginlyKeeper.sol` and its lenders: several calls of the pool in one transaction | operators |
| `KeeperService` | the service's rounds beside the pool: composes `MarginlyPool`, `PoolWatcher`, `MarginlyKeeper` | state machine |
| `OraclePrices` | `oracle/src/repository/prices.ts`, `common/src/price.ts`, `execution.ts` | actions on a mutex, a cache and retries |
| `OracleWorkers` | `oracle/src/worker`: workers and manager, on top of `OraclePrices` | state machine |
| `Deployment` | the command `deploy marginly`: state file, chain, one task after the other | state machine |
| `MaxBinaryHeap_proofs` | section 4 | theorems about the heap and their lemmas |
| `PoolCalls_proofs` | whom each function of the pool touches | lemmas |
| `PoolBooks_proofs` | how much: sums over accounts, types and bookings of accruals, margin calls, liquidations | lemmas |
| `PoolTrades_proofs` | what each call of an owner books, and what leverage it leaves | lemmas |
| `MarginlyPool_proofs` | section 4; each extends the one before | theorems about the pool |
| `KeeperService_proofs` | section 4; extends `MarginlyPool_proofs` | theorems about the keeper beside the pool |
| `OracleWorkers_proofs`, `Deployment_proofs` | section 4 | theorems and their lemmas |
| `MCMaxBinaryHeap`, `MCMarginlyPool`, `MCKeeper`, `MCOracleWorkers`, `MCDeployment` | small instances | model checking |

**How the pool is written.** The contract's storage is one record, `pool`. A
function of the contract is an operator from a pool to the SET of pools it may
return: empty when the code reverts, several when equal keys leave the root of a
heap open. So a revert anywhere undoes the whole call, as the EVM does, and the
whole of `execute` is one action (the contract holds a lock). Base and quote
variants of a function are one operator with the token `t` as parameter; where
the two variants differ in the code (rounding of a close, the value of a
short's debt, the minimum left by a withdrawal, the fee of a sale) the operator
differs too. Checked subtraction is kept: `Unsigned`, explicit `Require`s and
`>= 0` conjuncts stand for the reverts of `sub`; zero divisors are guarded where
the code would revert.

The heaps of the pool are priority maps (`heap[side][account]`), which
`MaxBinaryHeap` is shown to implement; `inHeap` is `heapPosition # 0`.

The environment `env` has the time, the oracle's two prices and the price of the
exchange behind the router. `NextBlock` begins a block with new ones from `Markets`, and
`PriceUpdate` changes them between two transactions of a block, when the margin calls of the block
have been made already; within a call they are constant. Exact-in swaps round down and exact-out swaps round up, at
one price without depth. Tokens may arrive without a call (`Donate`).

Left out of the pool: wrapping of native tokens, `sweepETH`, events, swap call data, the
reentrancy lock. Numbers are unbounded, but for the keys of the heap, which saturate, and the
system leverage, which is cut: that a product or a sum of the contract overflows its 256 bits and
reverts is not modelled. `receivePosition` hands a heap node over in one action of
`MaxBinaryHeap` (`UpdateAccount`), which clears the pointer of the position it takes at once; in the
code that pointer stands until line 1277 of the same call. Amounts are small integers, `Q96` is 10^4 in the runs and any
square number in the definitions, so that rounding is frequent and visible:
errors of one unit that take many calls on chain take one or two here. A year
has 10 units of time so that one block accrues visible interest.

**How the keeper is written.** A round of the service is cut at its awaits: mode,
then prices, parameters and coefficients (`Promise.all`, answered from one block), then
the times and aggregates, then the roots, then each position. Between any two of
them blocks pass, prices move and others call the pool, so what `Check` decides on is put
together from up to five blocks. `ReadRates` stands for the awaits of
`calcCoefficients` (time, block, aggregates, leverage), which are answered from one block here. `PoolWatcher` repeats the accrual in big integers
with a sign, as the service does: division truncates, the two deleverage coefficients are
swapped (`PoolWatcher.ts:65-66`), and the comparison at `math.ts:250` is one of strings. An
exception ends the round. What is sent joins `pending` and is mined later, on the pool as it
is then; `callReinit` in place of a loan is not awaited and may take the nonce of
the next liquidation (`racing`), an Aave liquidation is not waited for. A liquidation is
`Transaction`: three calls of the pool (`Execute`) that succeed together or not at all, and
`TakesProfit` decides whether it reverts in the end.

**How the oracle service is written.** Node runs one callback at a time, so an action is
what runs between two awaits. `mutex` is the queue of `runExclusive`; `fetch` counts
the failed attempts of every source the head of the queue waits for; the watchdog may
fire whenever something is being fetched. `RaceWon`, `Restart` and `Drained` are the three
awaits of `WorkerManager.run`. A restarted worker keeps its id and is a new object:
token, readiness and jobs are reset, validated mocks are inherited if the failed one had got as far
as defining its state. Time is abstract: `PeriodPasses`, `CacheExpires` and
`ThresholdPasses` may happen at any moment, unfairly.

**How the deployment is written.** `Plan(c)` is the sequence of tasks that `deployMarginly`
goes through for a configuration; `task` and `step` are where the run is. The chain
is the sequence of the signer's transactions, of which a prefix is mined; an address is the
number of the transaction that creates the contract, and what an oracle or the router holds is
read off the transactions sent to it. The three transactions that give a Chainlink or
Pyth oracle a double pair (two `setPair`, one `setCompositePair`) are one here. `Crash` ends a run between any two steps, tearing a
file if it was being written (`writeFileSync` in place); what was sent stays sent and is
mined later. `Reconfigure` is the operator between two runs.

## 3. What is checked

Runs of the heap (`MCMaxBinaryHeap.cfg`) have 5 accounts up to symmetry, 2 heaps
and 3 keys: three levels of a heap, a node with one child, ties, and both
directions of `remove` occur.

* `TypeOK`; `PointersConsistent`: pointers and nodes are inverse in every state,
  inside the loops too; `OrderedExceptAtIndex`: what a running loop may leave out
  of order; `RootIsMax`; `ImplementsPriorityMap`: refinement, the root being
  "unsettled" while a loop runs.

Runs of the pool start from a pool that people have used: `Used` computes the
outcome of a list of real calls (`Execute`) to a new pool, so that the starting
state is one the contract can be in, and the bounded transactions are spent on
the interesting part. `tight` starts from a new pool as well. Deadlock is
checked; `TheEnd` is the only step after the last block.

| run | start | bounds | shows |
|---|---|---|---|
| `trading` | lender, long, short | 3 transactions, 3 blocks, 3 prices, 11 calls of 2 traders | `TypeOK`, `AggregatesAreSums`, `HeapsMatchPositions`, `RootIsCalledFirst`, `CallerKeepsGoodLeverage`, `BooksBalance`, `OthersAreUntouched`, `LossesComeFromMarginCalls` |
| `emergency` | shorts against all base, or longs against all quote | 4 transactions, 2 blocks, 8 calls of 3 traders | both modes of `shutDown`, margin call instead of shutdown, all orders of withdrawal, and the deposit of a single unit with a short after it: `EmergencyIsFunded`, `AmountsAreBooked`, `OthersAreUntouched` |
| `tight` | nearly all quote lent; or new | 3 transactions, 3 blocks, 4 markets, one with the exchange off the oracle | deleverage of both sides, takeovers in full and in part, parameter changes (one is rejected), tokens from outside: `AggregatesAreSums`, `HeapsMatchPositions`, `Solvent`, `NeverStuck`, `OthersAreUntouched` |
| `keeper` | a long, a short, a lender | `MaxTime` 2, 1 transaction of others, 4 prices, every kind of flash loan, loans for quote only | `KeeperTypeOK`, `KeeperEndsWithoutPosition`, `WatcherAccruesLikeThePool`, `OverleveragedIsReported`, `OthersAreUntouched`, `QuietPoolGetsClean`, `KeeperStops` |
| `oracle` | nothing read yet | 2 workers, 3 mocks, 2 prices, one a product of two sources, 1 retry | `TypeOK`, `MutexIsExact`, `ValidatedMocksAreProven`, `NobodyRunsOnStop`, `StopEnds`, `NoJobStarves` |
| `deploy` | empty files, empty chain | `MaxCrashes` 2, `MaxPending` 2, `MaxReruns` 1, 2 configurations | `TypeOK`, `RecordedIsDeployed`, `FinishedIsComplete`, `LossesAreBounded`, `CompleteIsLeftAlone`, `DeploymentEnds` |

Reached in the runs of the pool (checked by looking for counterexamples to the contrary):
deleverage of longs and of shorts, both emergency modes, losses in both
collateral coefficients, two margin calls in one transaction, two positions in
one heap, positions taken over with debt left, and states in which `reinit`
reverts and only a takeover helps. Not reached: the cap of the system leverage, and the saturation of keys at 96 bits.

`AggregatesAreSums` takes the comments of `MarginlyPool.sol:60-63` at their word, and is false of
the code after a deposit of dust (TLC refutes it on the instance of `emergency`) or when the
owner of the technical position trades (`ownerTrades`). `AmountsAreBooked` is what is left of it:
the two aggregates of a token together are what the positions hold of it, and no debt is
counted that nobody owes.

`OthersAreUntouched` says for what reasons a position may change that is not the technical one. Its
owner sent the call, and the call was carried out: when `execute` margin calls its sender it drops
what he asked for (`MarginlyPool.sol:1584-1586`, `:1591-1594`), and then his position may only go.
Or it goes in a margin call, the first of which met a leverage that was bad before the transaction,
with the interest until then; its loss may be what makes the second one due. Or a sender without a
position asked for it by name and its leverage was bad before. `last` records the sender, the margin
calls, whether the call was carried out, and the name. `CallerKeepsGoodLeverage` is about every
sender, also of a dropped call, and prices may have moved since the margin calls of the block.

`Solvent` and `BooksBalance` allow a rounding of one unit per transaction
downwards, and three upwards. `RootIsCalledFirst` states that a position that is
underwater does not hide behind a good root, although keys ignore interest,
deleverage and prices. `NeverStuck` is about what can happen next, not
about what must: margin calls succeed, or the owner can shut the pool down, or
an outsider with enough tokens can take a position over.

**Keeper.** The accounts outside the service act at most once and time ends, which is what makes
"when nobody else acts any more" happen. `QuietPoolGetsClean` is stated with its exceptions,
and each of them is a fact about the code: the service may be stopped; it may be *blind*,
because an exception ends every round (a rate whose digits begin with 8 or 9, `math.ts:250`; an
equity of exactly zero, `PoolWatcher.ts:153`); or *contested*, when the unawaited reinit
for the short takes the nonce of the loan for the long in every round
(`MarginlyKeeperWorker.ts:165,244,315`). It takes the watcher's word for what is bad.
`OverleveragedIsReported` compares this word with the pool's own leverages, after the pool's own accrual; it
excepts positions that are underwater, which the watcher passes over, and a unit of equity for rounding. It fails
once the deleverage coefficients differ (`keeperDeleveraged`). `KeeperEndsWithoutPosition` needs the
one percent that the service borrows beyond the debt: with exactly the debt the first withdrawal
of `MarginlyKeeper.sol:52` deletes the position and the second one reverts, and
for debts below a hundred units one percent is nothing. That is harmless for safety, since
the transaction reverts, and is why `Feasible` asks for the outcome of the transaction.
`WatcherAccruesLikeThePool` holds while the two deleverage coefficients are equal; what
happens when they differ, because a margin call has reduced the debts of the other side, is run
`keeperDeleveraged`, from a pool of which nearly all quote is lent. `Q96` is 7921 in these runs, so that One
begins with the digits that 2^96 begins with.

**Oracle.** Two workers are enough for one to queue behind the other, to fail while the other
holds the mutex, and to be restarted while the other ends. `StopEnds` and `NoJobStarves` except a
worker that waits for a receipt for ever: `tx.wait` has no timeout. They are liveness properties of
services with more than one worker; `stopLost` shows what one worker alone does.
Facts the model fixes that a reader may not expect: a price that fails under its mutex fails the
worker, not the job; retries go on after the watchdog rejected them, unheard; a
second failure within the threshold stops all workers; a restart happens even when a
stop was requested during its delay; the transient state is lost when a restarted worker fails
before its own state is defined.

**Deployment.** Two crashes suffice for an interrupted run to be resumed and interrupted again
over what the first one lost; two pending transactions for the lost `createPool` and the new
one to share a block (two events, `MarginlyDeployer.ts:69`). `MaxReruns` bounds runs with nothing to
do. What the properties say of the code: an interruption costs one orphan, or two pools;
a run over a complete deployment sends nothing but the pairs of Chainlink and Pyth oracles again;
`DeploymentEnds` excepts a torn file, after which every run throws, contrary to
`cli/README.md:70`. An oracle's price is read right after an unawaited `setOptions`, and the
run fails if no block came in between; the next one then finds the options set. Read, and not
in a property: pools cannot use Chainlink or Pyth oracles (`index.ts:196`); the merge
of deployment.json drops the keepers of Algebra and Balancer and takes keepers from the last
run only; `KeeperAaveDeployer.ts:26-29` looks up `marginlyKeeper` and saves
`marginlyKeeperAave`; two adapters of one dex id go unnoticed (`WellFormed` excludes
them); Pendle's secondary oracle is set once and never updated.

**Fairness.** Nothing is assumed of users: nobody has to call the pool, no price has to
come, and `trading`, `emergency`, `tight` and `heap` have no fairness at all.
In `oracle`, weak fairness of what the event loop runs by itself: settled promises are
continued, timers fire (delay, tick, watchdog), and a call of a node ends by an answer or by
its connection's timeout. Receipts, answers of price sources and signals are not fair. In
`keeper`, weak fairness of the service's own steps and of mining what it sent: its node
answers, which is the assumption that no failure of the node is modelled. In `deploy`, weak
fairness of the steps of a run, of blocks, and of the operator who starts again what did not end
well, as `cli/README.md:70` tells him to; crashes are bounded, so that in the end a run is left
alone.

Every property has a mutant, an operator such as `UpdateLongHeap` that stands
beside the one it alters: with the mutated definition in place TLC refutes the
property. They show that the property depends on that piece of code.

### Disagreements between code and comments

Each is a run that ends in a counterexample.

* `bothTokens`: `emergencyWithdraw` (`MarginlyPool.sol:1406-1422`) subtracts the
  other token's amount as a debt, for lenders too. The comments there speak of
  debt; `Position.sol:17,19` says the amount is positive for them. A lender of
  both tokens gets less than his collateral, or nothing.
* `ownerTrades`: accrual adds fees to the technical position (`:1083`) even when its
  owner has opened a margin position with it; the fee then adds to its debt, and
  the aggregates are no longer sums (`:60-63`).
* `stopLost`: with one worker, as in `config.zksync-era.json`, a stop requested during the
  restart delay reaches the worker that has failed (`manager.ts:34-36`), and its
  replacement runs on (`:95-99`), although `:81` speaks of a graceful shutdown.
* `keeperRates`: `powTaylor` (`math.ts:250`) compares two BigNumber objects with `>=`, that is,
  as decimal strings; a rate far below one is refused as "greater than FP.one" when its
  digits begin with 8 or 9, and the keeper does not look at the pool as long as it has such a
  rate.
* `keeperDeleveraged`: `PoolWatcher.ts:65-66` stores each deleverage coefficient under the name of the
  other. After a margin call of Bob has reduced Alice's debt and collateral the watcher subtracts
  the wrong one, finds a leverage below five where the pool has more than eight, and does not report her. With
  the coefficients in their places TLC finds no such state on this instance.

Three more that are not runs, because other runs show their other side:

* `sellBaseForQuote` returns early on a zero real amount (`MarginlyPool.sol:927`), and `short` says
  (`:816`) that no base is left. After a loss has lowered the coefficient, a deposit of one unit has
  a positive discounted amount of no real value, and turns into debt that the aggregates do not
  know. The run `emergency` has such a deposit, and shows what remains true (`AmountsAreBooked`).
* The service takes collateral divided by equity for the leverage (`PoolWatcher.ts:118,153`). Of a position
  with more debt than collateral that is negative, never too high, and the service passes over the
  worst position there is, although it is to "monitor and liquidate bad positions"
  (`keeper/README.md:3`). The pool itself still calls it when anybody calls the pool.
  `OverleveragedIsReported` in the run `keeper` shows that no others are passed over.
* `saveStateFileChanges` rewrites the state file in place (`cli/src/command/deploy/index.ts:313`).
  A run killed meanwhile leaves half of it, and `JSON.parse` (`:303`) throws in every later run, where
  `cli/README.md:70` promises that one can continue. `DeploymentEnds` shows that this is the only way not
  to finish.

Smaller ones, not run: the comments on the two fields of `Leverage`
(`:89-94`) are swapped; `MaxBinaryHeapLib.sol:8` asks for keys above zero, and
`short` and `long` insert key 0; the comment on `BigPrecisionLoss` (`:319`) names
`balanceSync` as a way out, but the sync comes after the margin calls that revert;
`oracle/src/config/index.ts:148-154` looks for repeated mocks in a set that is never filled.

## 4. What is proved

`MaxBinaryHeap_proofs`, for any sets of accounts and heaps, any capacity and any
largest key, from `HeapAssumption` only (the special values are not members of
the sets they mark, capacity positive):

* `TypeCorrect`, `PointersAlwaysConsistent`. The inductive invariant is
  `Structure`: types, pointers and nodes inverse to each other, and a running loop at
  a node in use. Without the last part an iteration could read a node beyond the
  length, and `TypeOK` alone does not survive a swap: the swap writes the pointer of
  whatever account the node holds. One lemma per operation.
* `OrderAlwaysRepairable`. Order alone is not inductive: a loop works on a heap that
  is out of order. `Ordered` says where it may be: for `heapifyUp` between the
  node at `index` and its parent, for `heapifyDown` between it and its children, with the
  children of `index` in order with its parent in both cases. The lemma `ChangeKey`
  covers update and remove (a key is replaced and the direction of the loop
  chosen by comparison), `SwapUp` and `SwapDown` the iterations.
* `RootIsAlwaysMax`. From order when idle, by descent along parents to the least
  index that would exceed the root.
* `ImplementsPriorities`. The heaps implement `PriorityMap`. With types,
  pointers and order (`IInv`), the rank of an account is the key at its pointer
  (`RankOfMember`) and the root of a heap without a loop is one of its possible roots
  (`TopOfHeap`). One lemma per operation says what it does to the table of ranks; a
  swap moves nodes and pointers together and so changes no rank (`SwapRank`), hence
  an iteration is a stutter and the end of a loop is `Settle`.

`MarginlyPool_proofs`, for any accounts, prices, parameters, calls and bounds, on the lemmas of
`PoolCalls_proofs`, `PoolBooks_proofs` and `PoolTrades_proofs`. The constants are what the ABI and
the chain make of them: finitely many accounts, positive prices, unsigned amounts and
parameters (`PoolAssumption`, `MarginlyPoolAssumption`), 2^96 below 2^128. But for
`StorageHasItsTypes` and `OnlyMarginCallsCostLenders` the theorems assume that the owner of the
technical position does not trade (`ownerTrades` shows what happens otherwise). They speak of a
pool from its `initialize` on, the runs of one that has been used.

* `AccountsAreIsolated`. A transaction changes the position of nobody but its sender, and deletes none
  but for bad leverage. `PoolCalls_proofs` follows the contract function by function:
  swaps, fees, accrual, deleverage and the two collateral coefficients change the books only
  (`Booked`); a margin call deletes one position (`Deleted`); a call changes its sender (`Acts`), or,
  for `receivePosition`, its sender and the position it takes (`ReceivePositionTakes`). That whoever loses a position
  deserved it is `Blamed`: `reinit` looks at leverages after the accrual (`Overdue`), and only its
  second margin call may owe the badness of its leverage to the first (`ReinitCalls`); `execute` looks at
  the sender's leverage once more, and if nobody was called before him the accrual was all that
  happened to it (`CallTransacts`). `shutDown` syncs the balance before it looks, which pays into the technical
  position only (`SyncMoves`): that one must not be the root, so the invariant needs the order of the
  heaps. An account without a position has to have nothing (`Blank`), or taking over a debt would
  overwrite something. The inductive invariant is `Matched`: shape and blankness (`Formed`), types
  (`Stored`) and heaps (`InOrder`).
* `StorageHasItsTypes`. No sequence of transactions leaves an amount, an aggregate, a coefficient or a
  balance negative, or a key or leverage too wide for its field. A function of the code
  subtracts first and Solidity checks the difference later, so the storage inside of a call has
  integers (`Loose`) where one between calls has naturals (`Typed`); the lemmas say where a `Require`
  or `Unsigned` turns the former into the latter. The inductive invariant, `Stored`, adds what the
  divisions need: debt coefficients stay at 2^48 or more (`BigPrecisionLoss`), prices are positive.
* `HeapsStayMatched`. `HeapsMatchPositions` follows from `InOrder`, which adds to it that the technical
  position is a lender (so that the fees written to it need no new key) and that accounts
  without a position are in no heap. One function rests on arithmetic:
  `MarginlyPool.sol:670` deletes a position by its amounts, without a look at its heap, when everything is
  withdrawn. A margin position is never withdrawn from so far, whatever the least amount is worth:
  the amount in the other token has to be zero for that, and `calcLeverage` (`:439-444`) gives the
  highest leverage there is to a position that has nothing, so that the withdrawal
  reverts (`NothingIsBad`, `WithdrawActs`). The theorem needs no more than the one before.
* `OnlyMarginCallsCostLenders`. Interest multiplies the collateral coefficients by a factor that is
  rounded down, yet never below one; only `enactMarginCall` lowers them. From `Stored`.
* `CallersStayInBounds`. Withdrawals, trades and takeovers end in `positionHasBadLeverage`. Deposits
  and repayments do not: `PoolTrades_proofs` shows that a position within bounds stays there
  (`Good`), since what is freed of the deleverage and what is repaid are rounded against each other. Sales
  and closings end in a lender, who has no leverage. A call
  that is dropped leaves its sender without a position. The leverage is checked at the prices of the call, so that
  they may have moved since the margin calls of the block. The inductive invariant is `Matched` and `ActsWell`.
* `EveryUnitIsBooked`. `AmountsAreBooked` speaks of sums over all accounts, a call of one. A step of
  the code is `Paired` when the aggregates move by what its position moves, and the debt it adds is
  owed by that position; `PairedAccounts` carries this to the sums, by lemmas on the sum over a
  finite set that rest on the library's well-foundedness of subsets (the induction theorems
  cannot be used). The inductive invariant, `Books`, adds that the technical position is a lender: fees
  and syncs go through it.

`KeeperService_proofs`, for the same constants, any loans, and a service with any configuration,
over `ServiceSpec`: a new pool, its service, and everybody else. All assume that the owner
of the technical position does not trade, and is neither the signer nor the keeper contract
(`TechIsIdle`).

* `ServiceLeavesOthersAlone`, `ServiceCostsLendersNothing`, `ServiceKeepsBooks`, `ServiceKeepsHeaps`.
  Four properties of the pool hold beside the keeper, too, whose transactions are three calls. What one
  call keeps is `Kept`, collected from the lemmas of the pool (`CallIsKept`); `KeptTwice` composes two calls
  and `TransactionsUnfold` opens the recursion of `Transaction`. For whom a transaction touches,
  one has to know that only its first call names somebody else (`NamedCallsTouch`), that this call
  ends within bounds and brings the accrual of the block (`ReceiptIsGood`), so that the two
  withdrawals after it margin call nobody (`WithdrawalIs`): the position that is asked for is the only
  one that goes, and its leverage was bad before the transaction. The inductive invariants are those of the
  pool, `Matched` and `Books`, with `KeeperInv`.
* `ServiceHasItsTypes`. `KeeperTypeOK` is not inductive: that at most two liquidations wait needs
  the roots still to be checked in the count, and that a loan is not negative needs that the
  watcher's own accrual of debt is not, though its `powTaylor` goes on where the pool's reverts
  (`RatesAreUnsigned`, `LoansAreUnsigned`). `KeeperInv` says so for each place in a round.
* `KeeperIsLeftWithNothing`. After `receivePosition` the keeper contract may be long, short or a lender,
  and neither withdrawal is allowed in the token that a position owes. So if both succeed it was a lender,
  within bounds (`ReceiptIsGood`), in a block that has had its reinit; then a call of it is the withdrawal
  and nothing else (`WithdrawalIs`), the first one leaves the other token as it is (`AllIsWithdrawn`), and the
  second one deletes the position. Others cannot give the contract a position (`NobodyGives`). Two
  hypotheses: the contract is nobody's account (`KeeperIsAlone`), and what it takes over is not
  more than `Everything`, which stands for `type(uint256).max` (`EverythingIsEnough`; amounts have
  no upper bound here, those of the code do, and TLC finds it true in every state of `keeper`).

`OracleWorkers_proofs`, for any workers, jobs, prices, sources and number of retries, from
`OraclePricesAssumption` and `OracleWorkersAssumption`:

* `TypeCorrect`, `PricesAreExclusive`, `StopIsClean`. The inductive invariant is `IInv`: types,
  `MutexIsExact`, that the worker to be restarted is active and has failed, and that the workers the
  manager forgot have ended. `MutexIsExact` alone is lost by a restart: it resets the place of a
  worker, who must not be in the queue then. A step of a worker does one of five things to
  the mutex (`Quiet`, `Enters`, `Leaves`, `Loads`, `Asks`), with one lemma for each; the actions are
  sorted into them.
* `ForgivenMocksAreProven`. From types, `validated` and `proven` grow together, and a
  restart inherits or forgets.

`Deployment_proofs`, for any nonempty list of configurations whose parts are JSON arrays and that are
`WellFormed`, any number of crashes, reruns and pending transactions:

* `RecordsAreDeployed`. `RecordedIsDeployed` is about the file only; inductively the run's copy has
  to name contracts too (`StoreOK`: it is written to the file as a whole), and a run that
  waits must have sent the creation of exactly what it is about to record (`SentOK`). With
  `ChainOK`, that mined transactions stay what they are, that is `IInv`.
  Chain, files and run are each changed by few actions, and the others keep what is said of them.
* `DeploymentHasItsTypes`. `TypeOK` needs that a run never gets beyond its last task, for which the
  last task of every plan has to be the report (`PlanEndsWithReport`), and that what is recorded is
  deployed. The inductive invariant is `Types`.
* `InterruptionsCostLittle`. `LossesAreBounded` is not inductive: an orphan that is not mined yet, or
  was mined together with what the run waits for, may still cost another pool, because two events
  are found where one is asked for (`MarginlyDeployer.ts:69`). `LossInv` counts those twice (`Late`),
  and also bounds what is lost while a torn file hides it from `LossesAreBounded`.
* `RepeatedRunsAreIdle`. Over a complete deployment `deployTemplate`, `getOrCreateMarginlyPool`, the
  router and the oracles find everything as they want it; one lemma for each.
* `FinishedRunsAreComplete`. `FinishedIsComplete` speaks of the moment when all is mined, a run of
  what is mined when it looks; the invariant `Completion` is about the last transaction, mined or
  not, that sets the options of an oracle or an adapter of a router. `Progress`: what a run
  has passed is achieved by that transaction (`Achieved`), with lemmas that every task finds
  what it needs before it in the plan (`PlanIsOrdered`), and that nothing a run does later
  undoes what it did (`DidStays`, `DidStaysSent`). `History`: every transaction came from a task of some
  configuration up to the current one, and of two that set the same thing, the later one from the same
  or a later configuration. The code needs this when it compares and finds all well: what it saw
  is mined and right, and what is still under way lies between that and the current configuration in the
  history, so that it is right as well, if nothing is changed back. That is `ChangesAreFinal`,
  a condition on the list of configurations that the property names: options and adapters that
  were given up do not return, and the two things a run never changes again (the oracle of a pool, the
  secondary oracle of a Pendle oracle) are not changed by the operator either. Without it the
  property is false: with three configurations of which the last is the first TLC finds a run
  that leaves an oracle alone whose options a pending transaction still changes. The two
  configurations of the run `deploy` satisfy it, or its mutant could not be refuted.

Only model-checked:

* `AggregatesAreSums`: false in general (dust); `EveryUnitIsBooked` is what holds of it.
* `BooksBalance`, `Solvent`, `EmergencyIsFunded`: their bounds count roundings over transactions. How much one
  rounding is worth depends on the sizes of amounts and coefficients, so that the bounds are
  claimed for the instances of the runs only.
* `RootIsCalledFirst`: keys ignore prices and interest, and so the property depends on them
  being of ordinary size.
* `NeverStuck`: asks which calls succeed, and for a takeover how many tokens an outsider has.
* `WatcherAccruesLikeThePool`, `OverleveragedIsReported`: how far two accruals that round differently may be
  apart depends on the sizes of rates and coefficients; the bounds are claimed for the run.
* Out of reach of the prover: liveness (`StopEnds`, `NoJobStarves`, `QuietPoolGetsClean`,
  `KeeperStops`, `DeploymentEnds`), `ENABLED`, and what recursive functions compute.

## 5. Not modelled, and what is left

What is left of the plan, in order:

1. The ring of `UniswapV2Oracle` (the slot that `secondsAgo` selects may have been written in
   the current epoch, `:197`), and the reconfiguration of `CompositeOracle`.
2. `SwapsDecoder` against a reference split, with its 16-bit sums.
3. A bound on what `AmountsAreBooked` leaves open: by how much dust the aggregates of debt may fall
   short of what is owed.

Not modelled: the front end and the integration tests, which are the larger part of the TypeScript
sources (requests and rendering; scripts); the logger, and the command-line parsing of `cli-common`; the
NFT; the router's adapters, the tick, Curve and Pendle oracles (arithmetic of other protocols);
roles of admin and factory (one check each in front of calls that are modelled); the timelock
(its queue is OpenZeppelin's, and not in the repository); the websocket of LBKEX, which no
configuration uses; mocks. The map's share of the TypeScript lines is small for that reason: the
contracts, where the pool's logic is, are Solidity.
