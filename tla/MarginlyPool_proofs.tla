------------------------ MODULE MarginlyPool_proofs ------------------------
(***************************************************************************)
(* For any accounts, calls, prices and parameters: the storage keeps its   *)
(* types; a transaction changes the position of its sender and deletes     *)
(* those that are overdue; the heaps hold the margin positions; only       *)
(* margin calls cost lenders anything; nobody acts himself beyond the      *)
(* maximal leverage; and the books are what the positions add up to.       *)
(* PoolCalls_proofs, PoolBooks_proofs and PoolTrades_proofs say what the   *)
(* parts of a call do; here their ends meet, one lemma for each disjunct   *)
(* of Next.                                                                *)
(*                                                                         *)
(* The technical position is an exception: fees accrue to it without a     *)
(* call, to a field that holds a debt once it is short. But for the types  *)
(* and the losses its owner must not trade there; the run ownerTrades has  *)
(* one who does.                                                           *)
(***************************************************************************)
EXTENDS MarginlyPool, PoolTrades_proofs

-----------------------------------------------------------------------------
(* The storage has its types.                                              *)

\* The inductive invariant of TypeOK.  It also says that no price is zero and that the
\* debt coefficients, which interest divides by, are large enough for every division.
Stored == Typed(pool) /\ Priced(env) /\ pool.lastReinit <= env.now

\* What setParameters lets through are rates of at most one and unsigned limits.
LEMMA AcceptedIsSane ==
  ASSUME NEW params \in ParamSets, ValidParams(params)
  PROVE  Sane(params)
<1>1. {params.maxLeverage, params.interestRate, params.fee, params.swapFee,
       params.mcSlippage, params.positionMinAmount, params.quoteLimit} \subseteq Nat
  BY MarginlyPoolAssumption
<1>2. \A rate \in {params.interestRate, params.fee, params.swapFee, params.mcSlippage} :
        rate \in Nat /\ rate <= WHOLE_ONE
  BY <1>1 DEF ValidParams
<1>3. QED
  BY <1>1, <1>2, PoolAssumption DEF Sane

\* Every block has prices, none of them zero.
LEMMA BlocksArePriced ==
  ASSUME NEW m \in Markets, NEW now \in Nat
  PROVE  Priced(Block(now, m)) /\ Block(now, m).now = now
<1>1. {m.price, m.mcPrice, m.spot} \subseteq Nat \ {0}
  BY MarginlyPoolAssumption
<1>2. QED
  BY <1>1 DEF Block, Priced

\* initializeMarginly leaves a storage of the right types.
LEMMA InitialStorage ==
  Init => Stored
<1> SUFFICES ASSUME Init PROVE Stored
  OBVIOUS
<1>1. PICK m \in Markets, params \in ParamSets :
        ValidParams(params) /\ env = Block(1, m) /\ pool = InitialPool(params, env)
  BY DEF Init
<1>2. Priced(env) /\ env.now = 1
  BY <1>1, BlocksArePriced
<1>3. Sane(params)
  BY <1>1, AcceptedIsSane
<1>4. One \in Nat /\ One >= Q48 /\ 0 \in 0 .. Uint128 - 1
  BY FixedPointAssumption, PoolAssumption DEF One
<1>5. \A a \in Accounts : pool.positions[a] \in Holding(Nat)
  BY <1>1 DEF InitialPool, NoPosition, Holding, PositionTypes
<1>6. DOMAIN pool = Fields /\ DOMAIN pool.positions = Accounts
  BY <1>1 DEF InitialPool, Fields
<1>7. pool.positions \in [Accounts -> Holding(Nat)]
  <2>1. pool.positions = [a \in Accounts |-> pool.positions[a]]
    BY <1>1 DEF InitialPool
  <2>2. QED
    BY <1>5, <2>1
<1>8. /\ pool.mode = "Regular" /\ pool.params = params
      /\ pool.initialPrice = env.price /\ pool.emergencyWithdrawCoeff = 0
      /\ pool.lastReinit = env.now
      /\ pool.discountedCollateral = [t \in Tokens |-> 0]
      /\ pool.discountedDebt = [t \in Tokens |-> 0]
      /\ pool.collateralCoeff = [t \in Tokens |-> One]
      /\ pool.delevCoeff = [t \in Tokens |-> 0]
      /\ pool.debtCoeff = [t \in Tokens |-> One]
      /\ pool.systemLeverage = [s \in Sides |-> 0]
      /\ pool.heap = [s \in Sides |-> [a \in Accounts |-> NoKey]]
      /\ pool.balance = [t \in Tokens |-> 0]
  BY <1>1 DEF InitialPool
<1>9. /\ pool.discountedCollateral \in [Tokens -> Nat] /\ pool.discountedDebt \in [Tokens -> Nat]
      /\ pool.collateralCoeff \in [Tokens -> Nat] /\ pool.delevCoeff \in [Tokens -> Nat]
      /\ pool.debtCoeff \in [Tokens -> DebtCoeffs] /\ pool.balance \in [Tokens -> Nat]
  BY <1>4, <1>8 DEF DebtCoeffs
<1>10. /\ pool.systemLeverage \in [Sides -> 0 .. Uint128 - 1]
       /\ pool.heap \in [Sides -> [Accounts -> Keys]]
  BY <1>4, <1>8 DEF Keys
<1>11. Typed(pool)
  BY <1>2, <1>3, <1>6, <1>7, <1>8, <1>9, <1>10 DEF Typed, Storage, Modes, Priced
<1>12. QED
  BY <1>2, <1>8, <1>11 DEF Stored, Priced

\* Whoever calls, the storage keeps its types.
LEMMA ExecuteStores ==
  ASSUME Stored, NEW u \in Traders, NEW c \in Calls, execute(u, c)
  PROVE  /\ \E x \in Execute(pool, env, u, c) :
              /\ pool' = x.pool /\ Executed(pool, env, x, u)
              /\ last' = [user |-> u, called |-> x.called, done |-> x.done, takes |-> Taken(c)]
         /\ env' = env /\ Stored'
<1>1. PICK x \in Execute(pool, env, u, c) :
        /\ pool' = x.pool
        /\ last' = [user |-> u, called |-> x.called, done |-> x.done, takes |-> Taken(c)]
  BY DEF execute
<1>2. u \in Accounts /\ Asked(c)
  BY MarginlyPoolAssumption DEF Asked
<1>3. Executed(pool, env, x, u)
  BY <1>2, ExecuteKeeps DEF Stored
<1>4. env' = env
  BY DEF execute, Tx
<1>5. Stored'
  <2>1. pool'.lastReinit \in {pool.lastReinit, env.now} /\ Typed(pool')
    BY <1>1, <1>3 DEF Executed
  <2>2. pool'.lastReinit <= env.now
    BY <2>1 DEF Stored, Priced
  <2>3. QED
    BY <1>4, <2>1, <2>2 DEF Stored
<1>6. QED
  BY <1>1, <1>3, <1>4, <1>5

\* The new parameters are all that setParameters changes.
LEMMA ParametersStore ==
  ASSUME Stored, NEW params \in ParamSets, setParameters(params)
  PROVE  Stored' /\ Agree(pool, pool', {"params"})
<1>1. DOMAIN pool = Fields
  BY DEF Stored, Typed, Storage
<1>2. /\ pool' = [pool EXCEPT !.params = params] /\ ValidParams(params) /\ env' = env
  BY DEF setParameters, Tx
<1>3. Agree(pool, pool', {"params"}) /\ pool'.params = params
  BY <1>1, <1>2 DEF Agree, Fields
<1>4. Sane(params)
  BY <1>2, AcceptedIsSane
<1>5. Typed(pool')
  BY <1>3, <1>4 DEF Stored, Agree, Typed, Storage, Fields
<1>6. pool'.lastReinit = pool.lastReinit
  BY <1>3 DEF Agree, Fields
<1>7. QED
  BY <1>2, <1>3, <1>5, <1>6 DEF Stored

\* A donation arrives in the balance and nowhere else.
LEMMA DonationsStore ==
  ASSUME Stored, NEW d \in Donations, Donate(d)
  PROVE  Stored' /\ Paid(pool, pool')
<1>1. d.t \in Tokens /\ d.x \in Nat
  BY MarginlyPoolAssumption
<1>2. pool' = TransferIn(pool, d.t, d.x) /\ env' = env
  BY DEF Donate, Tx
<1>3. Paid(pool, pool')
  BY <1>1, <1>2, TransfersPay DEF Stored, Typed, Storage
<1>4. Typed(pool') /\ pool'.lastReinit = pool.lastReinit
  BY <1>3, PaidStorage DEF Stored, Paid, Agree, Fields
<1>5. QED
  BY <1>2, <1>3, <1>4 DEF Stored

\* The next block is later and priced; the pool waits.
LEMMA BlocksStore ==
  ASSUME Stored, NEW m \in Markets, NextBlock(m)
  PROVE  Stored' /\ pool' = pool
<1>1. env' = Block(env.now + 1, m) /\ pool' = pool
  BY DEF NextBlock
<1>2. env.now \in Nat /\ pool.lastReinit \in Nat /\ pool.lastReinit <= env.now
  BY DEF Stored, Priced, Typed, Storage
<1>3. Priced(env') /\ env'.now = env.now + 1
  BY <1>1, <1>2, BlocksArePriced
<1>4. QED
  BY <1>1, <1>2, <1>3 DEF Stored

\* Prices move; time and the pool do not.
LEMMA PricesStore ==
  ASSUME Stored, NEW m \in Markets, PriceUpdate(m)
  PROVE  Stored' /\ pool' = pool
<1>1. env' = Block(env.now, m) /\ pool' = pool
  BY DEF PriceUpdate
<1>2. env.now \in Nat
  BY DEF Stored, Priced
<1>3. Priced(env') /\ env'.now = env.now
  BY <1>1, <1>2, BlocksArePriced
<1>4. QED
  BY <1>1, <1>3 DEF Stored

\* What shutDown does to the storage.
LEMMA ShutDownStores ==
  ASSUME Stored, shutDown
  PROVE  /\ Stored'
         /\ \E r \in ShutDown(pool, env) : pool' = r.pool /\ last'.called = r.called
         /\ last'.called = {} =>
              \A t \in Tokens : pool'.collateralCoeff[t] >= pool.collateralCoeff[t]
         /\ pool'.mode = "Regular" /\ Booking(pool) => Booking(pool')
<1>1. PICK r \in ShutDown(pool, env) :
        pool' = r.pool /\ last' = [Nobody EXCEPT !.called = r.called]
  BY DEF shutDown
<1>2. env' = env /\ last'.called = r.called
  BY <1>1 DEF shutDown, Tx, Nobody
<1>3. /\ Typed(r.pool) /\ r.pool.lastReinit \in {pool.lastReinit, env.now}
      /\ r.called = {} => \A t \in Tokens : r.pool.collateralCoeff[t] >= pool.collateralCoeff[t]
      /\ r.pool.mode = "Regular" /\ Booking(pool) => Booking(r.pool)
  BY ShutDownKeeps DEF Stored
<1>4. Stored'
  BY <1>1, <1>2, <1>3 DEF Stored, Priced
<1>5. QED
  BY <1>1, <1>2, <1>3, <1>4

\* The inductive step of StorageHasItsTypes.
LEMMA StoredIsKept ==
  ASSUME Stored, [Next]_vars
  PROVE  Stored'
<1>1. CASE UNCHANGED <<pool, env>>
  BY <1>1 DEF Stored
<1>2. CASE \E u \in Traders, c \in Calls : execute(u, c)
  BY <1>2, ExecuteStores
<1>3. CASE \E params \in ParamSets : setParameters(params)
  BY <1>3, ParametersStore
<1>4. CASE shutDown
  BY <1>4, ShutDownStores
<1>5. CASE \E d \in Donations : Donate(d)
  BY <1>5, DonationsStore
<1>6. CASE \E m \in Markets : NextBlock(m)
  BY <1>6, BlocksStore
<1>7. CASE \E m \in Markets : PriceUpdate(m)
  BY <1>7, PricesStore
<1>8. QED
  BY <1>1, <1>2, <1>3, <1>4, <1>5, <1>6, <1>7 DEF Next, TheEnd, vars

\* TypeOK is what Stored says of the types.
LEMMA StoredIsTyped ==
  Stored => TypeOK
<1> SUFFICES ASSUME Stored PROVE TypeOK
  OBVIOUS
<1>1. Holding(Nat) = Positions /\ [Tokens -> DebtCoeffs] \subseteq [Tokens -> Nat]
  BY DEF Holding, Positions, DebtCoeffs
<1>2. QED
  BY <1>1 DEF Stored, Typed, Storage, TypeOK, Keys

\* TypeOK for every number of accounts, calls, prices and parameters.  No sequence of
\* transactions leaves a storage variable negative, a key of a heap beyond 96 bits or a
\* leverage beyond 128, not even those of the technical position.
THEOREM StorageHasItsTypes ==
  Spec => []TypeOK
<1>1. Init => Stored
  BY InitialStorage
<1>2. Stored /\ [Next]_vars => Stored'
  BY StoredIsKept
<1>3. Stored => TypeOK
  BY StoredIsTyped
<1>4. QED
  BY <1>1, <1>2, <1>3, PTL DEF Spec

-----------------------------------------------------------------------------
(* Whom a transaction touches, and the order of the heaps.                 *)

\* The storage has its fields, and whoever has no position has nothing of one: that is
\* why an account can take a position over without losing anything.
Formed == Shape(pool) /\ \A a \in Accounts \ {TechPositionOwner} : Blank(pool, a)

\* The inductive invariant of what follows.  In shutDown the technical position is synced
\* before the leverage of a root is looked at: it must not be that root.
Matched == Formed /\ Stored /\ (Regular => InOrder(pool))

\* What OthersAreUntouched says of a step.
OnlyTheirs ==
  \A a \in Accounts \ {TechPositionOwner} :
       \/ pool'.positions[a] = pool.positions[a]
       \/ a = last'.user /\ last'.done
       \/ /\ pool'.positions[a] = NoPosition
          /\ \/ a \in last'.called /\ \E first \in last'.called : WasBad(first)
             \/ /\ a = last'.takes /\ WasBad(a)
                /\ pool.positions[last'.user] = NoPosition

\* A new pool has its shape, and empty heaps.
LEMMA Forms ==
  Init => Formed /\ InOrder(pool)
<1> SUFFICES ASSUME Init PROVE Formed /\ InOrder(pool)
  OBVIOUS
<1>1. PICK params : pool = InitialPool(params, env)
  BY DEF Init
<1>2. Shape(pool)
  BY <1>1 DEF InitialPool, Shape, Fields, NoPosition
<1>3. /\ \A a \in Accounts \ {TechPositionOwner} : pool.positions[a] = NoPosition
      /\ pool.positions[TechPositionOwner].type = "Lend"
      /\ ~pool.positions[TechPositionOwner].inHeap
      /\ \A side \in Sides : \A a \in Accounts : pool.heap[side][a] = NoKey
  BY <1>1, PoolAssumption DEF InitialPool, NoPosition
<1>4. \A a \in Accounts \ {TechPositionOwner} : Blank(pool, a)
  BY <1>3 DEF Blank
<1>5. ASSUME NEW a \in Accounts
      PROVE  Placed(pool, a) /\ Keyed(pool, a)
  <2>1. /\ pool.positions[a].type \notin Sides
        /\ ~pool.positions[a].inHeap
        /\ \A side \in Sides : pool.heap[side][a] = NoKey
    BY <1>3 DEF NoPosition, Sides
  <2>2. Blank(pool, a)
    BY <1>3 DEF Blank
  <2>3. QED
    BY <2>1, <2>2 DEF Placed, Keyed
<1>6. QED
  BY <1>2, <1>3, <1>4, <1>5 DEF Formed, InOrder, TechLends

\* The technical position apart, a call of u that margin calls S, with done if it was carried
\* out, takes the pool from p to q: it changes the position of u, and deletes those it calls,
\* if one was overdue, and that of bad, if u had none and bad was overdue.
Touches(p, e, q, u, S, done, bad) ==
  \A a \in Accounts \ {TechPositionOwner} :
    \/ q.positions[a] = p.positions[a]
    \/ a = u /\ done
    \/ /\ q.positions[a] = NoPosition
       /\ \/ a \in S /\ \E b \in S : Overdue(p, e, b)
          \/ a = bad /\ Overdue(p, e, a) /\ p.positions[u] = NoPosition

\* Nobody but u, who sends the call, is given anything by it: what others held they hold, or
\* nothing.
Spares(p, q, u) ==
  \A a \in Accounts \ {u, TechPositionOwner} : q.positions[a] \in {p.positions[a], NoPosition}

\* Every call of somebody who does not own the technical position.
LEMMA CallTouches ==
  ASSUME NEW p, Shape(p), \A a \in Accounts \ {TechPositionOwner} : Blank(p, a),
         NEW e, e.now \in Nat, NEW u \in Accounts, u # TechPositionOwner,
         NEW c, c.call \in CallTypes, c.call = "ReceivePosition" => c.from \in Accounts,
         NEW x \in Execute(p, e, u, c)
  PROVE  /\ Shape(x.pool) /\ \A a \in Accounts \ {TechPositionOwner} : Blank(x.pool, a)
         /\ Touches(p, e, x.pool, u, x.called, x.done, Taken(c)) /\ Spares(p, x.pool, u)
         /\ x.done \/ x.pool.positions[u] = NoPosition
         /\ x.pool.params = p.params /\ x.pool.mode = p.mode
         /\ p.mode = "Regular" /\ InOrder(p) /\ Measured(p, e, u, x.pool) => InOrder(x.pool)
<1>1. CASE c.call \in CallNames
  <2>1. /\ Transacts(p, e, x.pool, u, x.called)
        /\ Blamed(p, e, x.called)
        /\ x.done <=> u \notin x.called
    BY <1>1, CallTransacts
  <2>2. /\ Frame(p, x.pool, x.called \cup {u, TechPositionOwner})
        /\ \A a \in x.called \ {TechPositionOwner} : x.pool.positions[a] = NoPosition
        /\ \A a \in Accounts \ {TechPositionOwner} : Blank(p, a) => Blank(x.pool, a)
        /\ InOrder(p) /\ Measured(p, e, u, x.pool) => InOrder(x.pool)
    BY <2>1 DEF Transacts
  <2>3. Touches(p, e, x.pool, u, x.called, x.done, Taken(c))
    BY <2>1, <2>2 DEF Frame, Touches, Blamed
  <2>4. Spares(p, x.pool, u)
    BY <2>2 DEF Frame, Spares
  <2>5. QED
    BY <2>1, <2>2, <2>3, <2>4 DEF Frame
<1>2. CASE c.call = "ReceivePosition"
  <2> DEFINE pay == [t \in Tokens |-> IF t = "quote" THEN c.amount1 ELSE c.amount2]
             bad == c.from
  <2>1. x.pool \in ReceivePosition(p, e, u, bad, pay) /\ x.done = TRUE
    BY <1>2 DEF Execute, Require
  <2> HIDE DEF pay
  <2>2. /\ p.positions[u].type = "Uninitialized"
        /\ Frame(p, x.pool, {u, bad, TechPositionOwner})
        /\ p.positions[bad].type \in Sides /\ x.pool.positions[bad] = NoPosition
        /\ Overdue(p, e, bad) /\ Blank(x.pool, u)
        /\ InOrder(p) => InOrder(x.pool)
    BY <1>2, <2>1, ReceivePositionTakes
  <2>3. p.positions[u] = NoPosition
    BY <2>2 DEF Blank
  <2>4. Touches(p, e, x.pool, u, x.called, x.done, Taken(c))
    BY <1>2, <2>1, <2>2, <2>3 DEF Frame, Touches, Taken
  <2>5. \A a \in Accounts \ {TechPositionOwner} : Blank(x.pool, a)
    BY <2>2 DEF Frame, Blank
  <2>6. Spares(p, x.pool, u)
    BY <2>2 DEF Frame, Spares
  <2>7. QED
    BY <2>1, <2>2, <2>4, <2>5, <2>6 DEF Frame
<1>3. CASE c.call = "EmergencyWithdraw"
  <2>1. x.pool \in EmergencyWithdraw(p, u) /\ x.done = TRUE
    BY <1>3 DEF Execute
  <2>2. p.mode # "Regular" /\ Frame(p, x.pool, {u}) /\ Blank(x.pool, u)
    BY <2>1, EmergencyWithdrawActs
  <2>3. Touches(p, e, x.pool, u, x.called, x.done, Taken(c))
    BY <2>1, <2>2 DEF Frame, Touches
  <2>4. \A a \in Accounts \ {TechPositionOwner} : Blank(x.pool, a)
    BY <2>2 DEF Frame, Blank
  <2>5. Spares(p, x.pool, u)
    BY <2>2 DEF Frame, Spares
  <2>6. QED
    BY <2>1, <2>2, <2>3, <2>4, <2>5 DEF Frame
<1>4. QED
  BY <1>1, <1>2, <1>3 DEF CallNames

\* Every transaction of a trader.
LEMMA ExecuteSteps ==
  ASSUME Matched, NEW u \in Traders, u # TechPositionOwner,
         NEW c \in Calls, execute(u, c)
  PROVE  /\ Matched' /\ OnlyTheirs
         /\ last'.done \/ pool'.positions[u] = NoPosition
<1>1. PICK r \in Execute(pool, env, u, c) :
        /\ pool' = r.pool
        /\ last' = [user |-> u, called |-> r.called, done |-> r.done, takes |-> Taken(c)]
  BY DEF execute
<1>2. /\ u \in Accounts /\ c.call \in CallTypes
      /\ c.call = "ReceivePosition" => c.from \in Accounts
      /\ env.now \in Nat
  BY MarginlyPoolAssumption DEF Matched, Stored, Priced
<1>3. /\ last'.user = u /\ last'.called = r.called /\ last'.done = r.done
      /\ last'.takes = Taken(c)
  BY <1>1
<1>4. /\ Shape(pool') /\ \A a \in Accounts \ {TechPositionOwner} : Blank(pool', a)
      /\ Touches(pool, env, pool', u, r.called, r.done, Taken(c))
      /\ r.done \/ pool'.positions[u] = NoPosition
      /\ pool'.mode = pool.mode
      /\ Regular /\ InOrder(pool) /\ Measured(pool, env, u, pool') => InOrder(pool')
  BY <1>1, <1>2, CallTouches DEF Matched, Formed, Regular
<1>5. OnlyTheirs
  BY <1>2, <1>3, <1>4 DEF Touches, OnlyTheirs, Overdue, WasBad
<1>6. Stored'
  BY ExecuteStores DEF Matched
<1>7. Measured(pool, env, u, pool')
  <2>1. TypeOK /\ TypeOK'
    BY <1>6, StoredIsTyped, PTL DEF Matched
  <2>2. pool.positions[u].amount \in [Tokens -> Nat]
    BY <1>2, <2>1 DEF TypeOK, Positions
  <2>3. \A coeff \in {pool'.collateralCoeff, pool'.delevCoeff, pool'.debtCoeff} :
          coeff \in [Tokens -> Nat]
    BY <2>1 DEF TypeOK
  <2>4. QED
    BY <2>2, <2>3 DEF Measured, Matched, Stored, Priced
<1>8. QED
  BY <1>3, <1>4, <1>5, <1>6, <1>7 DEF Matched, Formed, Regular

\* Everything else that happens to a pool.
LEMMA OtherSteps ==
  ASSUME Matched, Next, ~\E u \in Traders, c \in Calls : execute(u, c)
  PROVE  Matched' /\ OnlyTheirs
<1>0. Formed /\ Stored' /\ env.now \in Nat
  BY StoredIsKept DEF Matched, Stored, Priced
<1>1. ASSUME NEW params \in ParamSets, setParameters(params)
      PROVE  /\ Formed' /\ OnlyTheirs
             /\ pool'.mode = pool.mode
             /\ InOrder(pool) => InOrder(pool')
  <2>1. /\ DOMAIN pool' = Fields /\ pool'.params = params /\ pool'.mode = pool.mode
        /\ pool'.positions = pool.positions /\ pool'.heap = pool.heap
        /\ pool'.initialPrice = pool.initialPrice
    BY <1>0, <1>1 DEF setParameters, Formed, Shape, Fields
  <2>2. OnlyTheirs
    BY <2>1 DEF OnlyTheirs
  <2>3. Formed'
    BY <1>0, <2>1 DEF Formed, Shape, Blank
  <2>4. InOrder(pool) => InOrder(pool')
    <3>1. \A a \in Accounts :
            SortKey(pool', pool'.positions[a]) = SortKey(pool, pool.positions[a])
      BY <2>1 DEF SortKey
    <3>2. QED
      BY <2>1, <3>1 DEF InOrder, TechLends, Placed, Blank, Keyed
  <2>5. QED
    BY <2>1, <2>2, <2>3, <2>4
<1>2. ASSUME Booked(pool, pool')
      PROVE  /\ Formed' /\ OnlyTheirs
             /\ pool'.mode = pool.mode
             /\ InOrder(pool) => InOrder(pool')
  <2>1. OnlyTheirs
    BY <1>2 DEF Booked, OnlyTheirs
  <2>2. Formed'
    BY <1>0, <1>2 DEF Booked, Formed, Blank
  <2>3. QED
    BY <1>2, <2>1, <2>2, BookedInOrder DEF Booked
<1>3. ASSUME NEW d \in Donations, Donate(d)
      PROVE  Booked(pool, pool')
  BY <1>0, <1>3, TransfersBooked DEF Donate, Formed
<1>4. ASSUME UNCHANGED pool
      PROVE  Booked(pool, pool')
  BY <1>0, <1>4 DEF Formed, Booked
<1>5. ASSUME shutDown
      PROVE  /\ Formed' /\ OnlyTheirs
             /\ pool.mode = "Regular"
             /\ InOrder(pool) /\ pool'.mode = "Regular" => InOrder(pool')
  <2>1. PICK r \in ShutDown(pool, env) :
               pool' = r.pool /\ last' = [Nobody EXCEPT !.called = r.called]
    BY <1>5 DEF shutDown
  <2>2. Shuts(pool, env, r) /\ last'.called = r.called
    BY <1>0, <2>1, ShutDownShuts DEF Formed, Nobody
  <2>3. OnlyTheirs
    <3>1. Blamed(pool, env, r.called)
      BY <2>2 DEF Shuts, Matched, Regular, InOrder
    <3>2. QED
      BY <2>1, <2>2, <3>1 DEF Shuts, OnlyTheirs, Blamed, Overdue, WasBad
  <2>4. Formed'
    BY <1>0, <2>1, <2>2 DEF Shuts, Formed
  <2>5. QED
    BY <2>1, <2>2, <2>3, <2>4 DEF Shuts
<1>6. \/ \E params \in ParamSets : setParameters(params)
      \/ shutDown
      \/ \E d \in Donations : Donate(d)
      \/ UNCHANGED pool
  BY DEF Next, NextBlock, PriceUpdate, TheEnd, vars
<1>7. QED
  BY <1>0, <1>1, <1>2, <1>3, <1>4, <1>5, <1>6 DEF Matched, Regular

\* The inductive step: the pool keeps its shape and its order, and nobody is touched who
\* may not be.
LEMMA MatchedIsKept ==
  ASSUME TechPositionOwner \notin Traders, Matched, [Next]_vars
  PROVE  Matched' /\ [OnlyTheirs]_vars
<1>1. CASE UNCHANGED vars
  BY <1>1 DEF vars, Matched, Formed, Shape, Blank, Stored, Regular
<1>2. CASE \E u \in Traders, c \in Calls : execute(u, c)
  BY <1>2, ExecuteSteps
<1>3. CASE Next /\ ~\E u \in Traders, c \in Calls : execute(u, c)
  BY <1>3, OtherSteps
<1>4. QED
  BY <1>1, <1>2, <1>3

\* OthersAreUntouched for every number of accounts: whatever a transaction does, through
\* the deleverage, the margin calls of reinit and of shutDown, the transfer of a position
\* and a call that is dropped included, it changes the position of nobody but its sender,
\* and takes none from anybody but those that are margin called, the first of them for
\* bad leverage, and from the one that its sender asks for, who had bad leverage as well.
THEOREM AccountsAreIsolated ==
  TechPositionOwner \notin Traders => (Spec => OthersAreUntouched)
<1> SUFFICES ASSUME TechPositionOwner \notin Traders
             PROVE  Spec => OthersAreUntouched
  OBVIOUS
<1>1. Init => Matched
  BY Forms, InitialStorage DEF Matched
<1>2. Matched /\ [Next]_vars => Matched' /\ [OnlyTheirs]_vars
  BY MatchedIsKept
<1>3. [][OnlyTheirs]_vars <=> OthersAreUntouched
  BY PTL DEF OthersAreUntouched, OnlyTheirs
<1>4. QED
  BY <1>1, <1>2, <1>3, PTL DEF Spec

\* HeapsMatchPositions for every number of accounts: the heaps, which margin calls read,
\* and the positions, which everything else reads, cannot drift apart.  The critical place
\* is a withdrawal of everything, where the code deletes a position by its amounts without
\* looking for its node: calcLeverage, which finds that nothing against nothing is a bad
\* leverage, keeps a margin position from it.
THEOREM HeapsStayMatched ==
  TechPositionOwner \notin Traders => (Spec => []HeapsMatchPositions)
<1> SUFFICES ASSUME TechPositionOwner \notin Traders
             PROVE  Spec => []HeapsMatchPositions
  OBVIOUS
<1>1. Init => Matched
  BY Forms, InitialStorage DEF Matched
<1>2. Matched /\ [Next]_vars => Matched'
  BY MatchedIsKept
<1>3. Matched => HeapsMatchPositions
  BY DEF Matched, InOrder, Placed, Keyed, HeapsMatchPositions
<1>4. QED
  BY <1>1, <1>2, <1>3, PTL DEF Spec

-----------------------------------------------------------------------------
(* What a transaction may do to lenders, to its sender and to the books.   *)

\* What LossesComeFromMarginCalls says of a step.
LossesAreCalled ==
  \A t \in Tokens :
    pool'.collateralCoeff[t] < pool.collateralCoeff[t] => last'.called # {}

\* One step: interest only adds to the collateral coefficients, and every other change
\* of them is the loss of a liquidation, which names whom it called.
LEMMA LossesAreNamed ==
  ASSUME Stored, [Next]_vars
  PROVE  [LossesAreCalled]_vars
<1>1. \A t \in Tokens : pool.collateralCoeff[t] \in Nat
  BY DEF Stored, Typed, Storage
<1>2. ASSUME pool'.collateralCoeff = pool.collateralCoeff
      PROVE  LossesAreCalled
  BY <1>1, <1>2 DEF LossesAreCalled
<1>3. ASSUME Stored',
             last'.called = {} =>
               \A t \in Tokens : pool'.collateralCoeff[t] >= pool.collateralCoeff[t]
      PROVE  LossesAreCalled
  <2>1. \A t \in Tokens : pool'.collateralCoeff[t] \in Nat
    BY <1>3 DEF Stored, Typed, Storage
  <2>2. QED
    BY <1>1, <1>3, <2>1 DEF LossesAreCalled
<1>4. ASSUME NEW u \in Traders, NEW c \in Calls, execute(u, c)
      PROVE  LossesAreCalled
  <2>1. PICK x \in Execute(pool, env, u, c) :
               /\ pool' = x.pool /\ Executed(pool, env, x, u)
               /\ last' = [user |-> u, called |-> x.called, done |-> x.done, takes |-> Taken(c)]
    BY <1>4, ExecuteStores
  <2>2. last'.called = x.called /\ Stored'
    BY <1>4, <2>1, ExecuteStores
  <2>3. QED
    BY <1>3, <2>1, <2>2 DEF Executed
<1>5. ASSUME NEW params \in ParamSets, setParameters(params)
      PROVE  LossesAreCalled
  BY <1>2, <1>5, ParametersStore DEF Agree, Fields
<1>6. ASSUME shutDown
      PROVE  LossesAreCalled
  BY <1>3, <1>6, ShutDownStores
<1>7. ASSUME NEW d \in Donations, Donate(d)
      PROVE  LossesAreCalled
  BY <1>2, <1>7, DonationsStore DEF Paid, Agree, Fields
<1>8. ASSUME NEW m \in Markets, NextBlock(m)
      PROVE  LossesAreCalled
  BY <1>2, <1>8, BlocksStore
<1>9. ASSUME NEW m \in Markets, PriceUpdate(m)
      PROVE  LossesAreCalled
  BY <1>2, <1>9, PricesStore
<1>10. CASE UNCHANGED vars
  BY <1>10
<1>11. QED
  BY <1>4, <1>5, <1>6, <1>7, <1>8, <1>9, <1>10 DEF Next, TheEnd

\* LossesComeFromMarginCalls for every number of accounts, calls, prices and parameters:
\* rounding in the accrual of interest and fees never takes a unit from a lender.
THEOREM OnlyMarginCallsCostLenders ==
  Spec => LossesComeFromMarginCalls
<1>1. Init => Stored
  BY InitialStorage
<1>2. Stored /\ [Next]_vars => Stored' /\ [LossesAreCalled]_vars
  BY StoredIsKept, LossesAreNamed
<1>3. [][LossesAreCalled]_vars <=> LossesComeFromMarginCalls
  BY PTL DEF LossesComeFromMarginCalls, LossesAreCalled
<1>4. QED
  BY <1>1, <1>2, <1>3, PTL DEF Spec

\* Whoever just sent a transaction is a trader, and his leverage is not bad.
ActsWell ==
  last.user # NoAccount =>
    /\ last.user \in Traders
    /\ Regular => ~HasBadLeverage(pool, env, pool.positions[last.user])

\* One step: only execute has a sender, and the call it carries out ends with a check of
\* the leverage or cannot worsen one that was good after the margin calls; a call that is
\* dropped leaves its sender without a position.
LEMMA ActorsActWell ==
  ASSUME TechPositionOwner \notin Traders, Matched, ActsWell, [Next]_vars
  PROVE  ActsWell'
<1>1. CASE UNCHANGED vars
  BY <1>1 DEF vars, ActsWell, Regular
<1>2. ASSUME NEW u \in Traders, NEW c \in Calls, execute(u, c)
      PROVE  ActsWell'
  <2>1. PICK x \in Execute(pool, env, u, c) :
               /\ pool' = x.pool /\ Executed(pool, env, x, u)
               /\ last' = [user |-> u, called |-> x.called, done |-> x.done, takes |-> Taken(c)]
    BY <1>2, ExecuteStores DEF Matched
  <2>2. last'.user = u /\ last'.done = x.done /\ env' = env /\ u # TechPositionOwner
    BY <1>2, <2>1, ExecuteStores DEF Matched
  <2>3. CASE last'.done
    BY <2>1, <2>2, <2>3 DEF Executed, Regular, Good, ActsWell
  <2>4. CASE ~last'.done
    <3>1. pool'.positions[u] = NoPosition
      BY <1>2, <2>2, <2>4, ExecuteSteps
    <3>2. ~HasBadLeverage(pool', env', pool'.positions[u])
      BY <3>1 DEF HasBadLeverage, NoPosition, Sides
    <3>3. QED
      BY <2>2, <3>2 DEF ActsWell
  <2>5. QED
    BY <2>3, <2>4
<1>3. ASSUME last'.user = NoAccount
      PROVE  ActsWell'
  BY <1>3 DEF ActsWell
<1>4. CASE \/ \E params \in ParamSets : setParameters(params)
           \/ shutDown
           \/ \E d \in Donations : Donate(d)
           \/ \E m \in Markets : NextBlock(m) \/ PriceUpdate(m)
  BY <1>3, <1>4 DEF setParameters, shutDown, Donate, NextBlock, PriceUpdate, Nobody
<1>5. QED
  BY <1>1, <1>2, <1>4 DEF Next, TheEnd

\* CallerKeepsGoodLeverage for every number of accounts, calls, prices and parameters, also
\* when prices move within a block in which the margin calls have been made already.
\* Withdrawals, trades and takeovers end in the check of the code; deposits and repayments
\* are let through without it, and nevertheless never raise the leverage of their
\* position, however the amounts are rounded.
THEOREM CallersStayInBounds ==
  TechPositionOwner \notin Traders => (Spec => []CallerKeepsGoodLeverage)
<1> SUFFICES ASSUME TechPositionOwner \notin Traders
             PROVE  Spec => []CallerKeepsGoodLeverage
  OBVIOUS
<1>1. Init => Matched /\ ActsWell
  BY Forms, InitialStorage DEF Matched, Init, Nobody, ActsWell
<1>2. Matched /\ ActsWell /\ [Next]_vars => Matched' /\ ActsWell'
  BY MatchedIsKept, ActorsActWell
<1>3. ActsWell => CallerKeepsGoodLeverage
  BY DEF ActsWell, CallerKeepsGoodLeverage
<1>4. QED
  BY <1>1, <1>2, <1>3, PTL DEF Spec

\* The sums of AmountsAreBooked are those the books are proved about.
LEMMA AmountsAreSums ==
  ASSUME NEW S \in SUBSET Accounts, NEW t
  PROVE  Amounts(S, t) = SumOver(AmountsOf(pool, t), S)
<1> DEFINE f == AmountsOf(pool, t)
           Sums(g) == g = [s \in SUBSET S |->
                             IF s = {} THEN 0
                             ELSE pool.positions[First(s)].amount[t] + g[s \ {First(s)}]]
<1>1. Amounts(S, t) = (CHOOSE g : Sums(g))[S]
  BY DEF Amounts, MapThenSumSet, MapThenFoldSet, First
<1>2. ASSUME NEW g
      PROVE  Sums(g) <=> IsSum(f, g, S)
  <2>1. \A s \in SUBSET S : s # {} => f[First(s)] = pool.positions[First(s)].amount[t]
    BY FirstIs DEF AmountsOf
  <2> HIDE DEF f
  <2>2. \A s \in SUBSET S :
          Adds(f, g, s) = IF s = {} THEN 0
                          ELSE pool.positions[First(s)].amount[t] + g[s \ {First(s)}]
    BY <2>1 DEF Adds
  <2>3. QED
    BY <2>2 DEF IsSum
<1>3. IsFiniteSet(Accounts) /\ IsFiniteSet(S)
  BY PoolAssumption, FS_Subset
<1>4. PICK h : IsSum(f, h, S)
  BY <1>3, SumsExist
<1>5. Sums(CHOOSE g : Sums(g))
  <2>1. \E g : Sums(g)
    BY <1>2, <1>4
  <2> HIDE DEF Sums
  <2>2. QED
    BY <2>1
<1>6. IsSum(f, CHOOSE g : Sums(g), S)
  BY <1>2, <1>5
<1>7. SumOver(f, S) = (CHOOSE g : Sums(g))[S]
  <2> HIDE DEF Sums, f
  <2>1. QED
    BY <1>3, <1>6, SumIs
<1>8. QED
  BY <1>1, <1>7

\* The books of the storage are those of AmountsAreBooked.
LEMMA BookingBooks ==
  Stored /\ Booking(pool) => AmountsAreBooked
<1> SUFFICES ASSUME Stored, Booking(pool), NEW t \in Tokens
             PROVE  /\ pool.discountedDebt[t] + pool.discountedCollateral[t] = Amounts(Accounts, t)
                    /\ pool.discountedDebt[t] <= Amounts({a \in Accounts : Owes(a, t)}, t)
  BY DEF AmountsAreBooked
<1> DEFINE D == {a \in Accounts : Owes(a, t)}
<1>1. /\ pool.discountedDebt[t] + pool.discountedCollateral[t] = SumOver(AmountsOf(pool, t), Accounts)
      /\ pool.discountedDebt[t] <= SumOver(OwedBy(pool, t), Accounts)
  BY DEF Booking, Accounted
<1>2. IsFiniteSet(Accounts) /\ OwedBy(pool, t) \in [Accounts -> Int]
  BY PoolAssumption, TypedIsLoose, AmountsAre DEF Stored
<1>3. /\ \A a \in Accounts \ D : OwedBy(pool, t)[a] = 0
      /\ \A a \in D : OwedBy(pool, t)[a] = AmountsOf(pool, t)[a]
  BY DEF OwedBy, AmountsOf, Owed, Owes
<1>4. D \in SUBSET Accounts
  OBVIOUS
<1> HIDE DEF D
<1>5. SumOver(OwedBy(pool, t), Accounts) = SumOver(OwedBy(pool, t), D)
  BY <1>2, <1>3, <1>4, SumOfSome
<1>6. SumOver(OwedBy(pool, t), D) = SumOver(AmountsOf(pool, t), D)
  BY <1>2, <1>3, <1>4, SumsAgree
<1>7. /\ Amounts(Accounts, t) = SumOver(AmountsOf(pool, t), Accounts)
      /\ Amounts(D, t) = SumOver(AmountsOf(pool, t), D)
  BY <1>4, AmountsAreSums
<1>8. QED
  BY <1>1, <1>5, <1>6, <1>7 DEF D

\* The inductive invariant of AmountsAreBooked.  The technical position has to be a lender,
\* whose amounts are collateral, because fees, interest and losses go through it.
Books == Matched /\ (Regular => Booking(pool))

\* A new pool holds nothing for anybody.
LEMMA NewBooks ==
  Init => Booking(pool)
<1> SUFFICES ASSUME Init PROVE Booking(pool)
  OBVIOUS
<1>1. PICK params : pool = InitialPool(params, env)
  BY DEF Init
<1>2. TechLends(pool) /\ \A a \in Accounts, t \in Tokens : pool.positions[a].amount[t] = 0
  BY <1>1, PoolAssumption DEF InitialPool, NoPosition, TechLends
<1>3. \A t \in Tokens : pool.discountedDebt[t] = 0 /\ pool.discountedCollateral[t] = 0
  BY <1>1 DEF InitialPool
<1>4. ASSUME NEW f \in [Accounts -> Int], \A a \in Accounts : f[a] = 0
      PROVE  SumOver(f, Accounts) = 0
  <2>1. IsFiniteSet(Accounts) /\ {} \in SUBSET Accounts /\ Accounts \ {} = Accounts
    BY PoolAssumption
  <2>2. SumOver(f, Accounts) = SumOver(f, {})
    BY <1>4, <2>1, SumOfSome
  <2>3. SumOver(f, {}) = 0
    BY <2>1, SumIs
  <2>4. QED
    BY <2>2, <2>3
<1>5. ASSUME NEW t \in Tokens
      PROVE  /\ SumOver(AmountsOf(pool, t), Accounts) = 0
             /\ SumOver(OwedBy(pool, t), Accounts) = 0
  <2>1. AmountsOf(pool, t) \in [Accounts -> Int] /\ OwedBy(pool, t) \in [Accounts -> Int]
    BY <1>2 DEF AmountsOf, OwedBy, Owed
  <2>2. \A a \in Accounts : AmountsOf(pool, t)[a] = 0 /\ OwedBy(pool, t)[a] = 0
    BY <1>2 DEF AmountsOf, OwedBy, Owed
  <2>3. QED
    BY <1>4, <2>1, <2>2
<1>6. Accounted(pool)
  BY <1>3, <1>5 DEF Accounted
<1>7. QED
  BY <1>2, <1>6 DEF Booking

\* The inductive step of EveryUnitIsBooked.
LEMMA BooksAreKept ==
  ASSUME TechPositionOwner \notin Traders, Books, [Next]_vars
  PROVE  Books'
<1>1. Matched' /\ Stored /\ Stored' /\ Formed
  BY MatchedIsKept DEF Books, Matched
<1>2. ASSUME Agree(pool, pool', {"params", "balance"})
      PROVE  Books'
  <2>1. Agree(pool, pool', {"heap", "systemLeverage", "balance", "params"}) /\ pool'.mode = pool.mode
    BY <1>2 DEF Agree, Fields
  <2>2. Typed(pool) /\ Typed(pool')
    BY <1>1 DEF Stored
  <2>3. Passes(pool, env, pool', NoAccount, {})
    BY <2>1, <2>2, AgreePasses
  <2>4. NoAccount # TechPositionOwner
    BY PoolAssumption
  <2>5. QED
    BY <1>1, <2>1, <2>3, <2>4 DEF Books, Passes, Regular
<1>3. ASSUME NEW u \in Traders, NEW c \in Calls, execute(u, c)
      PROVE  Books'
  <2>1. PICK x \in Execute(pool, env, u, c) : pool' = x.pool /\ Executed(pool, env, x, u)
    BY <1>1, <1>3, ExecuteStores
  <2>2. u \in Accounts \ {TechPositionOwner} /\ Blank(pool, u)
    BY <1>1, MarginlyPoolAssumption DEF Formed
  <2>3. QED
    BY <1>1, <2>1, <2>2 DEF Books, Executed, Regular
<1>4. CASE shutDown
  <2>1. pool'.mode = "Regular" /\ Booking(pool) => Booking(pool')
    BY <1>1, <1>4, ShutDownStores
  <2>2. pool.mode = "Regular"
    <3>1. PICK r \in ShutDown(pool, env) : TRUE
      BY <1>1, <1>4, ShutDownStores
    <3>2. QED
      BY <1>1, <3>1, ShutDownShuts DEF Formed, Shuts
  <2>3. QED
    BY <1>1, <2>1, <2>2 DEF Books, Regular
<1>5. CASE \E params \in ParamSets : setParameters(params)
  BY <1>1, <1>2, <1>5, ParametersStore DEF Agree
<1>6. CASE \E d \in Donations : Donate(d)
  BY <1>1, <1>2, <1>6, DonationsStore DEF Paid, Agree
<1>7. CASE pool' = pool
  BY <1>1, <1>2, <1>7 DEF Stored, Typed, Storage, Agree
<1>8. QED
  BY <1>3, <1>4, <1>5, <1>6, <1>7 DEF Next, NextBlock, PriceUpdate, TheEnd, vars

\* AmountsAreBooked for every number of accounts, calls, prices and parameters: neither
\* interest, fees and their sync, nor the deleverage and the liquidations of a margin call,
\* nor a position that changes hands makes or loses a unit between the books and the
\* positions.
THEOREM EveryUnitIsBooked ==
  TechPositionOwner \notin Traders => (Spec => []AmountsAreBooked)
<1> SUFFICES ASSUME TechPositionOwner \notin Traders
             PROVE  Spec => []AmountsAreBooked
  OBVIOUS
<1>1. Init => Books
  BY InitialStorage, Forms, NewBooks DEF Books, Matched
<1>2. Books /\ [Next]_vars => Books'
  BY BooksAreKept
<1>3. Books => AmountsAreBooked
  BY BookingBooks DEF Books, Matched, AmountsAreBooked
<1>4. QED
  BY <1>1, <1>2, <1>3, PTL DEF Spec
=============================================================================
