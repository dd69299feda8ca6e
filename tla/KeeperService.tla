--------------------------- MODULE KeeperService ---------------------------
(***************************************************************************)
(* The keeper service (keeper/src): in rounds it reads the pool, one call  *)
(* of its node after the other while blocks pass and others trade, decides *)
(* which roots of the heaps are bad, and sends transactions.  The pool is  *)
(* that of module MarginlyPool, with all the calls of others.              *)
(*                                                                         *)
(* Calls that are sent together are answered from the same block.          *)
(* Transactions are mined in the order of their nonces; of equal ones that *)
(* wait to be mined one counts, for the others find the position gone, or  *)
(* nothing to accrue.                                                      *)
(***************************************************************************)
EXTENDS MarginlyPool, PoolWatcher, MarginlyKeeper, SequencesExt

CONSTANTS Signer,       \* the account of the service
          KeeperTypes,  \* what the pool may be configured with
          Lendable      \* the tokens that flash loans are available for

ASSUME KeeperServiceAssumption ==
  /\ Signer \in Accounts
  /\ KeeperTypes \subseteq {"reinit", "aave", "uniswapV3", "balancer"}
  /\ Lendable \subseteq Tokens

VARIABLES
  at,            \* what the service waits for
  keeperType,    \* the configuration of the pool
  seen,          \* what it has read in this round
  roots,         \* the positions still to be checked
  bad,           \* the liquidations still to be sent: [position, asset, amount]
  racing,        \* a reinit that nobody waits for may be taking the next nonce
  pending,       \* its transactions that are not mined yet, in the order of nonces
  awaited,       \* the one whose receipt it waits for, if any
  stopRequested

keeperVars == <<at, keeperType, seen, roots, bad, racing, pending, awaited, stopRequested>>
allVars == <<vars, keeperVars>>

Nothing == [price |-> 0]
ReinitTx == [position |-> NoAccount, asset |-> "quote", amount |-> 0]
LiquidationTxs == [position : Accounts, asset : Tokens, amount : Nat]

KeeperTypeOK ==
  /\ at \in {"round", "pool", "rates", "roots", "check", "liquidate", "receipt", "sleep",
             "stopped"}
  /\ keeperType \in KeeperTypes
  /\ roots \in Seq(Accounts) /\ Len(roots) <= 2
  /\ bad \in Seq(LiquidationTxs) /\ Len(bad) <= 2
  /\ pending \in Seq(LiquidationTxs \cup {ReinitTx})
  /\ awaited \subseteq ToSet(pending) /\ (awaited # {} <=> at = "receipt")
  /\ racing \in BOOLEAN
  /\ stopRequested \in BOOLEAN

KeeperInit ==
  /\ at = "round"
  /\ keeperType \in KeeperTypes
  /\ seen = Nothing /\ roots = <<>> /\ bad = <<>> /\ racing = FALSE
  /\ pending = <<>> /\ awaited = {}
  /\ stopRequested = FALSE

-----------------------------------------------------------------------------
(* A round.                                                                *)

\* The round is over, by its end, by an exception or because of a stop; the loop of
\* index.ts sleeps for three seconds.
EndRound ==
  /\ at' = "sleep"
  /\ seen' = Nothing /\ roots' = <<>> /\ bad' = <<>>

\* Mutant of StartRound: only the worker looks at the stop.
StartRoundAnyway ==
  /\ at = "round"
  /\ IF stopRequested \/ pool.mode # "Regular" THEN EndRound
     ELSE at' = "pool" /\ UNCHANGED <<seen, roots, bad>>

\* The stop is looked at, then the mode of the pool.
StartRound ==
  /\ at = "round"
  /\ IF stopRequested THEN at' = "stopped" /\ UNCHANGED <<seen, roots, bad>>
     ELSE IF pool.mode # "Regular" THEN EndRound
     ELSE at' = "pool" /\ UNCHANGED <<seen, roots, bad>>

ReadPool ==
  /\ at = "pool"
  /\ seen' = [price |-> env.price, params |-> pool.params, coeffs |-> ReadCoeffs(pool)]
  /\ at' = "rates"
  /\ UNCHANGED <<roots, bad>>

\* The time of the last accrual, of the last block, the aggregates and the leverage.
ReadRates ==
  /\ at = "rates"
  /\ IF CoefficientsThrow(pool, env.now, seen.params, seen.coeffs) THEN EndRound
     ELSE /\ seen' = [seen EXCEPT !.coeffs =
                        calcCoefficients(pool, env.now, seen.params, seen.coeffs)]
          /\ at' = "roots"
          /\ UNCHANGED <<roots, bad>>

Known(account) == IF account = NoAccount THEN <<>> ELSE <<account>>
ReadRoots ==
  /\ at = "roots"
  /\ \E short \in HeapRoots(pool.heap["Short"]), long \in HeapRoots(pool.heap["Long"]) :
       roots' = Known(short) \o Known(long)
  /\ at' = IF roots' = <<>> THEN "liquidate" ELSE "check"
  /\ UNCHANGED <<seen, bad>>

Check ==
  /\ at = "check"
  /\ LET s == pool.positions[Head(roots)] IN
     IF CheckThrows(seen.coeffs, seen.price, s) THEN EndRound
     ELSE /\ roots' = Tail(roots)
          /\ at' = IF Len(roots) = 1 THEN "liquidate" ELSE "check"
          /\ bad' = IF IsBad(seen.coeffs, seen.price, seen.params.maxLeverage, s)
                    THEN Append(bad, [position |-> Head(roots),
                                      asset |-> DebtToken(s.type),
                                      amount |-> LoanAmount(seen.coeffs, s)])
                    ELSE bad
          /\ UNCHANGED seen

Read ==
  /\ StartRound \/ ReadPool \/ ReadRates \/ ReadRoots \/ Check
  /\ UNCHANGED <<keeperType, racing, pending, awaited, stopRequested>>

-----------------------------------------------------------------------------
(* Transactions.                                                           *)

\* What a transaction does when it is mined: nothing, if it reverts.
Outcome(tx) ==
  {r \in Transaction(pool, env,
                     IF tx = ReinitTx THEN <<CallBy(Signer, "Reinit")>>
                     ELSE LiquidationCalls(tx.position, tx.asset, tx.amount)) :
     tx # ReinitTx => TakesProfit(pool, r.pool, env, tx.asset, tx.amount)}

\* Mutant of Send: what is not waited for is awaited, too.
SendAndAwait(tx, wait) ==
  /\ pending' = IF tx \in ToSet(pending) THEN pending ELSE Append(pending, tx)
  /\ awaited' = {tx}
  /\ IF wait THEN at' = "receipt" ELSE UNCHANGED at

\* A transaction is sent; an Aave liquidation and the reinit that stands in for a loan
\* are not waited for.
Send(tx, wait) ==
  /\ pending' = IF tx \in ToSet(pending) THEN pending ELSE Append(pending, tx)
  /\ IF wait THEN at' = "receipt" /\ awaited' = {tx} ELSE UNCHANGED <<at, awaited>>

\* The error is logged, and the next position follows.
NotSent == UNCHANGED <<at, pending, awaited>>

CanBorrow(asset) == keeperType = "balancer" \/ asset \in Lendable

\* The next bad position.  Nothing is sent when the gas cannot be estimated, because the
\* transaction would revert.  callReinit in place of a loan runs beside what follows
\* it: both may ask for the same nonce, and one of them is refused.
LiquidateNext ==
  /\ at = "liquidate" /\ bad # <<>> /\ ~stopRequested
  /\ LET reinit == keeperType = "reinit" \/ ~CanBorrow(Head(bad).asset)
         tx == IF reinit THEN ReinitTx ELSE Head(bad)
         runsBeside == reinit /\ keeperType # "reinit" /\ Len(bad) = 2
     IN  \/ /\ Send(tx, keeperType = "reinit" \/ (~reinit /\ keeperType # "aave"))
            /\ racing' = runsBeside
         \/ /\ Outcome(tx) = {} \/ racing \/ runsBeside
            /\ NotSent
            /\ racing' = FALSE
  /\ bad' = Tail(bad)
  /\ UNCHANGED <<keeperType, seen, roots, stopRequested>>

\* No bad position is left, or a stop was requested.
Liquidated ==
  /\ at = "liquidate" /\ (bad = <<>> \/ stopRequested)
  /\ EndRound
  /\ racing' = FALSE
  /\ UNCHANGED <<keeperType, pending, awaited, stopRequested>>

WakeUp ==
  /\ at = "sleep" /\ at' = "round"
  /\ UNCHANGED <<keeperType, seen, roots, bad, racing, pending, awaited, stopRequested>>

requestStop ==
  /\ ~stopRequested /\ at # "stopped" /\ stopRequested' = TRUE
  /\ UNCHANGED <<at, keeperType, seen, roots, bad, racing, pending, awaited>>

\* The first transaction is mined, whether it reverts or not, and its receipt arrives.
Mined ==
  /\ pending # <<>> /\ pending' = Tail(pending)
  /\ \E results \in {Outcome(Head(pending))} :
     \E r \in IF results = {} THEN {[pool |-> pool, called |-> {}]} ELSE results :
       /\ pool' = r.pool
       /\ last' = [user |-> IF Head(pending) = ReinitTx THEN Signer ELSE KeeperContract,
                   called |-> r.called, done |-> TRUE,
                   takes |-> IF Head(pending) = ReinitTx THEN NoAccount
                             ELSE Head(pending).position]
  /\ IF Head(pending) \in awaited
     THEN at' = "liquidate" /\ awaited' = {}
     ELSE UNCHANGED <<at, awaited>>
  /\ UNCHANGED <<env, txs, keeperType, seen, roots, bad, racing, stopRequested>>

-----------------------------------------------------------------------------
KeeperStep == Read \/ LiquidateNext \/ Liquidated \/ WakeUp

Others ==
  \/ \E u \in Traders, c \in Calls : execute(u, c)
  \/ \E params \in ParamSets : setParameters(params)
  \/ \E m \in Markets : NextBlock(m) \/ PriceUpdate(m)

KeeperNext ==
  \/ KeeperStep /\ UNCHANGED vars
  \/ requestStop /\ UNCHANGED vars
  \/ Mined
  \/ Others /\ UNCHANGED keeperVars

\* A new pool and its service.
ServiceSpec == Init /\ KeeperInit /\ [][KeeperNext]_allVars

\* The service does not stop by itself, its node answers, and what it sends is mined: only
\* Mined shortens pending, and it can do so whenever something is pending.  Nobody else has
\* to act.
KeeperFairness ==
  /\ WF_allVars(KeeperStep /\ UNCHANGED vars)
  /\ WF_pending(pending # <<>> /\ pending' = Tail(pending))

-----------------------------------------------------------------------------
(* Properties.                                                             *)

\* A liquidation is all or nothing: whatever others did since the position was checked,
\* the keeper contract is never left with a position, which would make the pool refuse
\* it the next one.
KeeperEndsWithoutPosition == pool.positions[KeeperContract] = NoPosition

SameDeleverage == pool.delevCoeff["base"] = pool.delevCoeff["quote"]
Near(x, y) == Abs(x - y) <= 2

\* The accrual that the watcher repeats is the pool's own, up to rounding: what it takes
\* for the coefficients of this block are those a call would work with (when the two
\* coefficients it mixes up are equal, and unless it throws).
WatcherAccruesLikeThePool ==
  Regular /\ SameDeleverage /\ ~CoefficientsThrow(pool, env.now, pool.params, ReadCoeffs(pool))
  => \A q \in AccrueInterest(pool, env), t \in Tokens :
       LET coeffs == calcCoefficients(pool, env.now, pool.params, ReadCoeffs(pool)) IN
       /\ Near(coeffs.collateral[t], q.collateralCoeff[t])
       /\ Near(coeffs.debt[t], q.debtCoeff[t])
       /\ Near(coeffs.delev[t], q.delevCoeff[t])

\* powTaylor refuses a rate only if it is "greater than FP.one".
RatesBelowOneConverge ==
  Regular /\ env.now # pool.lastReinit =>
    \A t \in Tokens :
      pool.discountedCollateral[t] # 0 /\ OnePlusIR(pool, pool.params, t) - One < One
        => ~SeriesDiverges(OnePlusIR(pool, pool.params, t))

CoeffsNow == calcCoefficients(pool, env.now, pool.params, ReadCoeffs(pool))

\* The watcher throws in every round on the pool as it is now.
Blind ==
  \/ CoefficientsThrow(pool, env.now, pool.params, ReadCoeffs(pool))
  \/ \E side \in Sides : \E a \in HeapRoots(pool.heap[side]) :
       a # NoAccount /\ CheckThrows(CoeffsNow, env.price, pool.positions[a])

BadNow(a) ==
  a # NoAccount /\ IsBad(CoeffsNow, env.price, pool.params.maxLeverage, pool.positions[a])

\* The watcher throws on the pool as it is now, or reports the position of a.
Reported(a) ==
  \/ CoefficientsThrow(pool, env.now, pool.params, ReadCoeffs(pool))
  \/ CheckThrows(CoeffsNow, env.price, pool.positions[a])
  \/ BadNow(a)

\* What the service is for: the root of a heap that is beyond the maximal leverage for the
\* pool, by more than a unit of equity, is one that the watcher reports with the numbers
\* of this block.  Of positions with more debt than collateral it does not say so.
OverleveragedIsReported ==
  Regular =>
    \A p \in AccrueInterest(pool, env), side \in Sides : \A a \in HeapRoots(pool.heap[side]) :
      LET collateral == CollateralValue(p, env, p.positions[a])
          debt == DebtValue(p, env, p.positions[a])
      IN  /\ a # NoAccount
          /\ collateral > debt
          /\ collateral > pool.params.maxLeverage * (collateral - debt + 1)
          => Reported(a)

\* In every round the reinit for a short takes the nonce of the loan for a long.
Contested ==
  /\ keeperType # "reinit" /\ ~CanBorrow("base")
  /\ \A side \in Sides : \E a \in HeapRoots(pool.heap[side]) : BadNow(a)

\* What can be done about the pool as it is now; a loan of the debt and one percent is
\* enough to take a position over.
Feasible(a) ==
  LET s == pool.positions[a]
      tx == [position |-> a, asset |-> DebtToken(s.type),
             amount |-> (WatchedDebt(CoeffsNow, s) * 101) \div 100]
  IN  /\ BadNow(a)
      /\ IF keeperType = "reinit" \/ ~CanBorrow(tx.asset)
         THEN env.now # pool.lastReinit /\ Outcome(ReinitTx) # {}
         ELSE Outcome(tx) # {}

\* When nobody else acts any more, the service ends up, from whatever round it was in,
\* with no bad root that a transaction of its would remove, unless it is stopped, blind,
\* or in its own way.
QuietPoolGetsClean ==
  <>[](\/ at = "stopped" \/ Blind \/ Contested
       \/ \A side \in Sides : \A a \in HeapRoots(pool.heap[side]) : ~Feasible(a))

\* A stop ends the service, whatever it is doing.
KeeperStops == stopRequested ~> (at = "stopped")
=============================================================================
