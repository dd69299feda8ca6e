---------------------------- MODULE MarginlyPool ----------------------------
(***************************************************************************)
(* A Marginly pool over time.  Every entry point of MarginlyPool.sol is    *)
(* one atomic action (the contract holds a reentrancy lock), between which *)
(* blocks pass and the market moves.                                       *)
(***************************************************************************)
EXTENDS PoolCalls, FiniteSetsExt

CONSTANTS Traders,      \* the accounts that call the pool
          Calls,        \* what they call it with: [call, amount1, amount2, limit, flag, from]
          Markets,      \* [price, mcPrice, spot] of a block
          ParamSets,    \* what the factory owner may pass to setParameters
          Donations,    \* [t, x] that arrive without a call
          RescueAmount, \* what somebody has of each token to take a position over
          MaxTime,      \* bound on the time
          MaxTxs        \* bound on the number of transactions

ASSUME MarginlyPoolAssumption ==
  /\ Traders \subseteq Accounts
  /\ \A c \in Calls :
       /\ c.call \in CallTypes
       /\ c.amount1 \in Nat /\ c.amount2 \in Int /\ c.limit \in Nat
       /\ c.call = "ReceivePosition" => c.from \in Accounts
  /\ \A m \in Markets : {m.price, m.mcPrice, m.spot} \subseteq Nat \ {0}
  /\ \A params \in ParamSets :
       {params.maxLeverage, params.interestRate, params.fee, params.swapFee,
        params.mcSlippage, params.positionMinAmount, params.quoteLimit} \subseteq Nat
  /\ \A d \in Donations : d.t \in Tokens /\ d.x \in Nat

VARIABLES pool,   \* the storage of the contract and the tokens it owns
          env,    \* time, prices of the oracle and of the exchange
          last,   \* the last transaction: who sent it, who was margin called, whether
                  \* the call itself was carried out, and whose position it asks for
          txs     \* the number of transactions, a bound only

vars == <<pool, env, last, txs>>

Nobody == [user |-> NoAccount, called |-> {}, done |-> FALSE, takes |-> NoAccount]

\* Whose position the call c asks for.
Taken(c) == IF c.call = "ReceivePosition" THEN c.from ELSE NoAccount

ValidParams(params) ==
  /\ \A rate \in {params.interestRate, params.fee, params.swapFee, params.mcSlippage} :
       rate <= WHOLE_ONE
  /\ params.maxLeverage >= MIN_LEVERAGE
  /\ params.quoteLimit # 0
  /\ params.positionMinAmount # 0

Block(now, market) ==
  [now |-> now, price |-> market.price, mcPrice |-> market.mcPrice, spot |-> market.spot]

Init ==
  /\ \E m \in Markets, params \in ParamSets :
       /\ ValidParams(params)
       /\ env = Block(1, m)
       /\ pool = InitialPool(params, env)
  /\ last = Nobody
  /\ txs = 0

Tx == txs < MaxTxs /\ txs' = txs + 1 /\ UNCHANGED env

execute(u, c) ==
  /\ Tx
  /\ \E r \in Execute(pool, env, u, c) :
       /\ pool' = r.pool
       /\ last' = [user |-> u, called |-> r.called, done |-> r.done, takes |-> Taken(c)]

\* Nothing accrues before the new rates and limits apply.
setParameters(params) ==
  /\ Tx
  /\ ValidParams(params) /\ params # pool.params
  /\ pool' = [pool EXCEPT !.params = params]
  /\ last' = Nobody

shutDown ==
  /\ Tx
  /\ \E r \in ShutDown(pool, env) :
       /\ pool' = r.pool
       /\ last' = [Nobody EXCEPT !.called = r.called]

\* A transfer of tokens to the address of the pool.
Donate(d) ==
  /\ Tx
  /\ pool' = TransferIn(pool, d.t, d.x)
  /\ last' = Nobody

\* The block ends; prices and time are what the next one has.
NextBlock(m) ==
  /\ env.now < MaxTime
  /\ env' = Block(env.now + 1, m)
  /\ last' = Nobody
  /\ UNCHANGED <<pool, txs>>

\* Prices move within the block: somebody trades, or a data feed is updated, between two
\* transactions.  Every call asks for the prices of its own.
PriceUpdate(m) ==
  /\ txs < MaxTxs /\ txs' = txs + 1
  /\ Block(env.now, m) # env /\ env' = Block(env.now, m)
  /\ last' = Nobody
  /\ UNCHANGED pool

\* Nothing needs to happen after the last block.
TheEnd == env.now = MaxTime /\ UNCHANGED vars

Next ==
  \/ \E u \in Traders, c \in Calls : execute(u, c)
  \/ \E params \in ParamSets : setParameters(params)
  \/ shutDown
  \/ \E d \in Donations : Donate(d)
  \/ \E m \in Markets : NextBlock(m)
  \/ \E m \in Markets : PriceUpdate(m)
  \/ TheEnd

Spec == Init /\ [][Next]_vars

-----------------------------------------------------------------------------
(* Safety.                                                                 *)

Positions == [type : PositionTypes, inHeap : BOOLEAN, amount : [Tokens -> Nat]]

\* The storage has its types: unsigned integers, whatever was called.
TypeOK ==
  /\ pool.mode \in Modes
  /\ pool.positions \in [Accounts -> Positions]
  /\ \A amounts \in {pool.discountedCollateral, pool.discountedDebt, pool.collateralCoeff,
                     pool.delevCoeff, pool.debtCoeff, pool.balance} :
       amounts \in [Tokens -> Nat]
  /\ pool.initialPrice \in Nat /\ pool.emergencyWithdrawCoeff \in Nat
  /\ pool.systemLeverage \in [Sides -> 0 .. Uint128 - 1]
  /\ pool.lastReinit \in Nat /\ pool.lastReinit <= env.now
  /\ pool.heap \in [Sides -> [Accounts -> {NoKey} \cup 0 .. Uint96Max]]

Regular == pool.mode = "Regular"
Owes(a, t) == pool.positions[a].type = SideOwing(t)
Amounts(S, t) == MapThenSumSet(LAMBDA a : pool.positions[a].amount[t], S)

\* "Sum of all base token in debt" and its three companions: while the pool is
\* regular, the aggregates are the sums over the positions, amounts of t being
\* debt in the positions that owe t and collateral in the others.
AggregatesAreSums ==
  Regular =>
    \A t \in Tokens :
      /\ pool.discountedDebt[t] = Amounts({a \in Accounts : Owes(a, t)}, t)
      /\ pool.discountedCollateral[t] = Amounts({a \in Accounts : ~Owes(a, t)}, t)

\* What is left of this when the type of a position lags behind its amounts: the two
\* aggregates of a token together are all that the positions hold of it, and no debt is
\* counted that nobody owes.
AmountsAreBooked ==
  Regular =>
    \A t \in Tokens :
      /\ pool.discountedDebt[t] + pool.discountedCollateral[t] = Amounts(Accounts, t)
      /\ pool.discountedDebt[t] <= Amounts({a \in Accounts : Owes(a, t)}, t)

\* While the pool is regular the heap of a side holds the positions of that side,
\* each under the key that its amounts give now: no call changes one without the
\* other.
HeapsMatchPositions ==
  Regular =>
    \A a \in Accounts :
      LET s == pool.positions[a] IN
      /\ s.inHeap <=> s.type \in Sides
      /\ \A side \in Sides :
           pool.heap[side][a] = IF s.type = side THEN SortKey(pool, s) ELSE NoKey

\* Margin calls look at roots only.  Whenever a position is underwater, every
\* possible root of its heap is due for a margin call, though the keys that order
\* the heap know nothing of interest, deleverage and prices.
RootIsCalledFirst ==
  Regular =>
    \A a \in Accounts :
      LET s == pool.positions[a] IN
      /\ s.type \in Sides
      /\ LeverageDefined(pool, s)
      /\ CollateralValue(pool, env, s) < DebtValue(pool, env, s)
      => \A r \in HeapRoots(pool.heap[s.type]) : HasBadLeverage(pool, env, pool.positions[r])

\* Nobody who just sent a transaction holds a position beyond the maximal leverage, though
\* margin calls come once a block, and prices move within one: either what he asked for was
\* carried out and left his leverage good, or his position is gone.
CallerKeepsGoodLeverage ==
  Regular /\ last.user # NoAccount =>
    ~HasBadLeverage(pool, env, pool.positions[last.user])

\* What the pool owns and is owed beyond what it owes.
Surplus(t) == pool.balance[t] + PoolDebt(pool, t) - PoolCollateral(pool, t)

\* The pool covers what it owes, but for a unit that each transaction may round away.
Solvent == Regular => \A t \in Tokens : Surplus(t) >= -(txs + 1)

\* Nor does anything get lost: without gifts from outside, the interest and the losses
\* of margin calls reach the lenders in full, up to what each transaction rounds.
BooksBalance ==
  Regular => \A t \in Tokens : Surplus(t) \in -(txs + 1) .. 3 * (txs + 1)

\* In an emergency what is left pays every withdrawal still to come.
GoodToken == IF pool.mode = "ShortEmergency" THEN "base" ELSE "quote"
Payout(a) ==
  LET net == EmergencyNet(pool, pool.positions[a]) IN
  IF net < 0 \/ Owes(a, GoodToken) THEN 0 ELSE Mul(pool.emergencyWithdrawCoeff, net)
EmergencyIsFunded ==
  ~Regular =>
    MapThenSumSet(Payout, {a \in Accounts : pool.positions[a].type # "Uninitialized"})
      <= pool.balance[GoodToken]

\* A lender owes nothing: what the emergency counts for him is the collateral he has
\* in the token that is left, whatever else he lent.
LendersOweNothing ==
  ~Regular =>
    \A a \in Accounts :
      LET s == pool.positions[a] IN
      s.type = "Lend" => EmergencyNet(pool, s) = PositionCollateral(pool, s, GoodToken)

\* No sequence of legal calls locks the pool up.  While it is regular the margin calls
\* that come before every call succeed, or the owner can shut it down, or, as the comment
\* on BigPrecisionLoss promises, somebody who has no position can take a bad one over.
NeverStuck ==
  Regular =>
    \/ \E r \in Reinit(pool, env) : UpdateSystemLeverages(r.pool, env) # {}
    \/ ShutDown(pool, env) # {}
    \/ \E u, bad \in Accounts :
         ReceivePosition(pool, env, u, bad, [t \in Tokens |-> RescueAmount]) # {}

-----------------------------------------------------------------------------
(* What a step may not do.                                                 *)

\* Before the transaction the leverage of a was bad, with the interest until then.
WasBad(a) == \E p \in AccrueInterest(pool, env) : HasBadLeverage(p, env, p.positions[a])

\* The technical position apart, a transaction changes nobody's position but that of its
\* sender, if it carries out what the sender asks for; otherwise it may only delete. It
\* deletes a position that it margin calls, the first of which had bad leverage before
\* (the loss of that one may be what makes the leverage of the next one bad), or that of bad
\* leverage which a sender who had none asks for.  So nobody loses a position for another
\* reason than its leverage, and a call that is dropped changes nothing for its sender.
OthersAreUntouched ==
  [][\A a \in Accounts \ {TechPositionOwner} :
       \/ pool'.positions[a] = pool.positions[a]
       \/ a = last'.user /\ last'.done
       \/ /\ pool'.positions[a] = NoPosition
          /\ \/ a \in last'.called /\ \E first \in last'.called : WasBad(first)
             \/ /\ a = last'.takes /\ WasBad(a)
                /\ pool.positions[last'.user] = NoPosition]_vars

\* The collateral of lenders shrinks in a margin call only.
LossesComeFromMarginCalls ==
  [][\A t \in Tokens :
       pool'.collateralCoeff[t] < pool.collateralCoeff[t]
         => last'.called # {}]_vars
=============================================================================
