------------------------ MODULE KeeperService_proofs ------------------------
(***************************************************************************)
(* The keeper beside the pool.  A liquidation is three calls in one        *)
(* transaction, and the service decides on numbers of earlier blocks; the  *)
(* lemmas about the calls are those of the pool, and here it is shown that *)
(* what one call keeps, the three together keep, and what the service      *)
(* makes of its numbers.                                                   *)
(***************************************************************************)
EXTENDS KeeperService, MarginlyPool_proofs

-----------------------------------------------------------------------------
(* Transactions of several calls.                                          *)

\* A pool that calls can be sent to.
Sound(p, e) ==
  /\ Typed(p) /\ p.lastReinit <= e.now
  /\ Shape(p) /\ \A a \in Accounts \ {TechPositionOwner} : Blank(p, a)

\* What a call from p to q that margin calls S keeps.
Kept(p, e, q, S) ==
  /\ Sound(q, e)
  /\ q.mode = p.mode /\ q.params = p.params
  /\ S = {} => \A t \in Tokens : q.collateralCoeff[t] >= p.collateralCoeff[t]
  /\ p.mode = "Regular" /\ Booking(p) => Booking(q)
  /\ p.mode = "Regular" /\ InOrder(p) => InOrder(q)

\* A call of anybody but the owner of the technical position.
LEMMA CallIsKept ==
  ASSUME NEW e, Priced(e), NEW p, Sound(p, e),
         NEW u \in Accounts, u # TechPositionOwner, NEW c, Asked(c),
         NEW x \in Execute(p, e, u, c)
  PROVE  /\ Kept(p, e, x.pool, x.called)
         /\ Touches(p, e, x.pool, u, x.called, x.done, Taken(c))
<1>1. Executed(p, e, x, u)
  BY ExecuteKeeps DEF Sound
<1>2. /\ Shape(x.pool) /\ \A a \in Accounts \ {TechPositionOwner} : Blank(x.pool, a)
      /\ Touches(p, e, x.pool, u, x.called, x.done, Taken(c))
      /\ x.pool.params = p.params /\ x.pool.mode = p.mode
      /\ p.mode = "Regular" /\ InOrder(p) /\ Measured(p, e, u, x.pool) => InOrder(x.pool)
  BY CallTouches DEF Sound, Asked, Priced
<1>3. Sound(x.pool, e)
  <2>1. Typed(x.pool) /\ x.pool.lastReinit \in {p.lastReinit, e.now}
    BY <1>1 DEF Executed
  <2>2. x.pool.lastReinit <= e.now
    BY <2>1 DEF Sound, Priced
  <2>3. QED
    BY <1>2, <2>1, <2>2 DEF Sound
<1>4. x.called = {} => \A t \in Tokens : x.pool.collateralCoeff[t] >= p.collateralCoeff[t]
  BY <1>1 DEF Executed
<1>5. p.mode = "Regular" /\ Booking(p) => Booking(x.pool)
  BY <1>1 DEF Executed, Sound
<1>6. Measured(p, e, u, x.pool)
  <2>1. p.positions[u].amount \in [Tokens -> Nat]
    BY DEF Sound, Typed, Storage, Holding
  <2>2. \A coeff \in {x.pool.collateralCoeff, x.pool.delevCoeff, x.pool.debtCoeff} :
          coeff \in [Tokens -> Nat]
    BY <1>3 DEF Sound, Typed, Storage, DebtCoeffs
  <2>3. QED
    BY <2>1, <2>2 DEF Measured, Priced
<1>7. QED
  BY <1>2, <1>3, <1>4, <1>5, <1>6 DEF Kept

\* Two calls keep what both keep.
LEMMA KeptTwice ==
  ASSUME NEW e, NEW p, Sound(p, e), NEW q, NEW r, NEW S, NEW T,
         Kept(p, e, q, S), Kept(q, e, r, T)
  PROVE  Kept(p, e, r, S \cup T)
<1>1. S \cup T = {} => \A t \in Tokens : r.collateralCoeff[t] >= p.collateralCoeff[t]
  <2>1. \A t \in Tokens : /\ p.collateralCoeff[t] \in Nat /\ q.collateralCoeff[t] \in Nat
                          /\ r.collateralCoeff[t] \in Nat
    BY DEF Kept, Sound, Typed, Storage
  <2>2. S \cup T = {} => \A t \in Tokens : /\ q.collateralCoeff[t] >= p.collateralCoeff[t]
                                           /\ r.collateralCoeff[t] >= q.collateralCoeff[t]
    BY DEF Kept
  <2>3. QED
    BY <2>1, <2>2
<1>2. QED
  BY <1>1 DEF Kept

\* A transaction begins with the pool it finds.
Begun(p) == {[pool |-> p, called |-> {}]}

\* A step of it leaves the pool of the call, and adds whom that called.
Then(R, e, step) ==
  UNION {{[pool |-> x.pool, called |-> r.called \cup x.called] :
            x \in Execute(r.pool, e, step.user, step.call)} : r \in R}

\* One step of a transaction is one call.
LEMMA ThenIsACall ==
  ASSUME NEW R, NEW e, NEW step, NEW w \in Then(R, e, step)
  PROVE  \E r \in R : \E x \in Execute(r.pool, e, step.user, step.call) :
           w.pool = x.pool /\ w.called = r.called \cup x.called
<1>1. PICK r \in R : w \in {[pool |-> x.pool, called |-> r.called \cup x.called] :
                              x \in Execute(r.pool, e, step.user, step.call)}
  BY DEF Then
<1>2. QED
  BY <1>1

\* The first one starts from the pool.
LEMMA FirstIsACall ==
  ASSUME NEW p, NEW e, NEW step, NEW w \in Then(Begun(p), e, step)
  PROVE  \E x \in Execute(p, e, step.user, step.call) :
           w.pool = x.pool /\ w.called = x.called
<1>1. \A r \in Begun(p) : r.pool = p /\ r.called = {}
  BY DEF Begun
<1>2. PICK r \in Begun(p) : \E x \in Execute(r.pool, e, step.user, step.call) :
        w.pool = x.pool /\ w.called = r.called \cup x.called
  BY ThenIsACall
<1>3. QED
  BY <1>1, <1>2

\* The recursion of Transaction, for transactions of at most three calls.
LEMMA TransactionsUnfold ==
  ASSUME NEW p, NEW e, NEW steps, Len(steps) \in 1 .. 3
  PROVE  /\ Len(steps) = 1 => Transaction(p, e, steps) = Then(Begun(p), e, steps[1])
         /\ Len(steps) = 3 =>
              Transaction(p, e, steps) =
                Then(Then(Then(Begun(p), e, steps[1]), e, steps[2]), e, steps[3])
<1> DEFINE S0 == Begun(p)
           S1 == Then(S0, e, steps[1])
           S2 == Then(S1, e, steps[2])
           S3 == Then(S2, e, steps[3])
           Run(f) == f = [m \in 0 .. Len(steps) |-> IF m = 0 THEN S0 ELSE Then(f[m - 1], e, steps[m])]
           g == [m \in 0 .. Len(steps) |-> IF m = 0 THEN S0 ELSE IF m = 1 THEN S1
                                           ELSE IF m = 2 THEN S2 ELSE S3]
<1> DEFINE n == Len(steps)
<1>0. n \in {1, 2, 3} /\ Len(steps) = n
  OBVIOUS
<1>1. Transaction(p, e, steps) = (CHOOSE f : Run(f))[Len(steps)]
  BY DEF Transaction, Then, Begun
<1>2. ASSUME NEW f, Run(f)
      PROVE  f[Len(steps)] = IF Len(steps) = 1 THEN S1 ELSE IF Len(steps) = 2 THEN S2 ELSE S3
  <2> HIDE DEF S0
  <2>1. /\ f[0] = S0
        /\ \A m \in 1 .. Len(steps) : f[m] = Then(f[m - 1], e, steps[m])
    BY <1>2
  <2>2. f[1] = S1
    BY <2>1
  <2>3. Len(steps) >= 2 => f[2] = S2
    BY <2>1, <2>2
  <2>4. Len(steps) = 3 => f[3] = S3
    BY <2>1, <2>3
  <2> HIDE DEF S1, S2, S3, n
  <2>5. QED
    BY <1>0, <2>2, <2>3, <2>4
<1>3. Run(g)
  <2> HIDE DEF S0
  <2>1. ASSUME NEW m \in 0 .. Len(steps)
        PROVE  g[m] = IF m = 0 THEN S0 ELSE Then(g[m - 1], e, steps[m])
    <3> HIDE DEF n
    <3>1. m \in {0, 1, 2, 3}
      BY <1>0
    <3>2. m # 0 => m - 1 \in 0 .. Len(steps)
      BY <1>0
    <3> HIDE DEF S1, S2, S3
    <3>3. CASE m = 0
      BY <3>3
    <3>4. CASE m = 1
      BY <3>2, <3>4 DEF S1
    <3>5. CASE m = 2
      BY <3>2, <3>5 DEF S2
    <3>6. CASE m = 3
      BY <3>2, <3>6 DEF S3
    <3>7. QED
      BY <3>1, <3>3, <3>4, <3>5, <3>6
  <2> HIDE DEF S1, S2, S3
  <2>2. QED
    BY <2>1
<1>4. Run(CHOOSE f : Run(f))
  <2> HIDE DEF Run, g
  <2>1. QED
    BY <1>3
<1>5. Transaction(p, e, steps) = IF Len(steps) = 1 THEN S1 ELSE IF Len(steps) = 2 THEN S2 ELSE S3
  <2> HIDE DEF Run, S1, S2, S3
  <2>1. QED
    BY <1>1, <1>2, <1>4
<1>6. QED
  BY <1>5

\* A call that names nobody to take over touches its sender and those it calls.
LEMMA NamedCallsTouch ==
  ASSUME NEW e, Priced(e), NEW p, Sound(p, e), NEW u \in Accounts, u # TechPositionOwner,
         NEW c, c.call \in CallNames, NEW x \in Execute(p, e, u, c)
  PROVE  \A a \in Accounts \ (x.called \cup {u, TechPositionOwner}) :
           x.pool.positions[a] = p.positions[a]
<1>1. Transacts(p, e, x.pool, u, x.called)
  BY CallTransacts DEF Sound, Priced
<1>2. QED
  BY <1>1 DEF Transacts, Frame

\* What Signer and the keeper contract ask for.
LEMMA KeeperAsks ==
  /\ \A u, call : CallBy(u, call).user = u /\ CallBy(u, call).call.call = call
  /\ \A u : \A call \in CallNames : Asked(CallBy(u, call).call)
  /\ \A t : \A a \in Accounts, amount \in Nat :
       /\ Receipt(a, t, amount).user = KeeperContract
       /\ Asked(Receipt(a, t, amount).call)
  /\ {"Reinit", "WithdrawBase", "WithdrawQuote"} \subseteq CallNames
<1>1. Everything \in Nat
  BY DEF Everything
<1>2. \A u, call : CallBy(u, call).user = u /\ CallBy(u, call).call.call = call
  BY DEF CallBy
<1>3. {"Reinit", "WithdrawBase", "WithdrawQuote"} \subseteq CallNames
  BY DEF CallTypes, CallNames
<1>4. ASSUME NEW u, NEW call \in CallNames
      PROVE  Asked(CallBy(u, call).call)
  BY <1>1 DEF CallBy, Asked, CallNames
<1>5. ASSUME NEW a \in Accounts, NEW t, NEW amount \in Nat
      PROVE  Receipt(a, t, amount).user = KeeperContract /\ Asked(Receipt(a, t, amount).call)
  BY DEF Receipt, Asked, CallTypes
<1>6. QED
  BY <1>2, <1>3, <1>4, <1>5

\* The reinit of the service.
LEMMA ReinitIsKept ==
  ASSUME NEW e, Priced(e), NEW p, Sound(p, e), Signer # TechPositionOwner,
         NEW r \in Transaction(p, e, <<CallBy(Signer, "Reinit")>>)
  PROVE  /\ Kept(p, e, r.pool, r.called)
         /\ Touches(p, e, r.pool, Signer, r.called, TRUE, NoAccount)
<1> DEFINE step == CallBy(Signer, "Reinit")
<1>1. Len(<<step>>) = 1 /\ <<step>>[1] = step
  OBVIOUS
<1>2. r \in Transaction(p, e, <<step>>)
  OBVIOUS
<1>3. step.user = Signer /\ Asked(step.call) /\ Taken(step.call) = NoAccount
  BY KeeperAsks DEF Taken
<1> HIDE DEF step
<1>4. PICK x \in Execute(p, e, step.user, step.call) : r.pool = x.pool /\ r.called = x.called
  <2>1. Transaction(p, e, <<step>>) = Then(Begun(p), e, step)
    BY <1>1, TransactionsUnfold
  <2>2. QED
    BY <1>2, <2>1, FirstIsACall
<1>5. /\ Kept(p, e, x.pool, x.called)
      /\ Touches(p, e, x.pool, Signer, x.called, x.done, NoAccount)
  BY <1>3, CallIsKept, KeeperServiceAssumption
<1>6. QED
  BY <1>4, <1>5 DEF Touches

\* A takeover accrues the interest of the block, and ends with a check of the leverage.
LEMMA ReceiptIsGood ==
  ASSUME NEW e, Priced(e), NEW p, Sound(p, e), NEW u \in Accounts, u # TechPositionOwner,
         NEW c, Asked(c), c.call = "ReceivePosition", NEW x \in Execute(p, e, u, c)
  PROVE  /\ x.pool.lastReinit = e.now /\ Good(x.pool, e, x.pool.positions[u])
         /\ x.called = {}
<1> DEFINE pay == [t \in Tokens |-> IF t = "quote" THEN c.amount1 ELSE c.amount2]
<1>1. c.amount2 >= 0 /\ x.pool \in ReceivePosition(p, e, u, c.from, pay) /\ x.done = TRUE
      /\ x.called = {}
  BY DEF Execute, Require
<1>2. \A k \in Tokens : pay[k] \in Nat
  BY <1>1 DEF Asked
<1>3. c.from \in Accounts
  BY DEF Asked
<1> HIDE DEF pay
<1>4. PICK q \in AccrueInterest(p, e) : \E r \in Received(q, e, u, c.from, pay) :
        x.pool = TransferIn(TransferIn(r, "base", pay["base"]), "quote", pay["quote"])
  BY <1>1, ReceptionIs
<1>5. PICK r \in Received(q, e, u, c.from, pay) :
        x.pool = TransferIn(TransferIn(r, "base", pay["base"]), "quote", pay["quote"])
  BY <1>4
<1>6. Accrued(p, q) /\ q.lastReinit = e.now
  BY InterestGrows DEF Sound
<1>7. Typed(q) /\ q.positions[u].type = "Uninitialized"
  BY <1>1, <1>6, ReceptionIs DEF Accrued
<1>8. r.lastReinit = e.now /\ Typed(r)
  BY <1>2, <1>3, <1>6, <1>7, ReceivedKeeps
<1>9. x.pool.lastReinit = e.now
  <2> DEFINE v == TransferIn(r, "base", pay["base"])
  <2>1. pay["base"] \in Nat /\ pay["quote"] \in Nat /\ "base" \in Tokens /\ "quote" \in Tokens
    BY <1>2 DEF Tokens
  <2>2. Paid(r, v)
    BY <1>8, <2>1, TransfersPay DEF Typed, Storage
  <2>3. x.pool = TransferIn(v, "quote", pay["quote"])
    BY <1>5
  <2> HIDE DEF v
  <2>4. Typed(v)
    BY <1>8, <2>2, PaidStorage
  <2>5. Paid(v, x.pool)
    BY <2>1, <2>3, <2>4, TransfersPay DEF Typed, Storage
  <2>6. QED
    BY <1>8, <2>2, <2>5 DEF Paid, Agree, Fields
<1>10. p.mode = "Regular"
  BY <1>1 DEF ReceivePosition, Require
<1>11. Executed(p, e, x, u)
  BY ExecuteKeeps DEF Sound
<1>12. QED
  BY <1>1, <1>9, <1>10, <1>11 DEF Executed

\* A withdrawal in a block that has had its reinit is the withdrawal, and nothing else.
LEMMA WithdrawalIs ==
  ASSUME NEW e, Priced(e), NEW p, Typed(p), p.lastReinit = e.now, NEW u \in Accounts,
         Good(p, e, p.positions[u]), NEW t \in Tokens, NEW c,
         c.call = IF t = "base" THEN "WithdrawBase" ELSE "WithdrawQuote", c.amount1 \in Nat,
         NEW x \in Execute(p, e, u, c)
  PROVE  \E w \in Withdraw(p, e, u, t, c.amount1) :
           /\ x.pool.positions = w.positions
           /\ x.pool.collateralCoeff = p.collateralCoeff /\ x.pool.delevCoeff = p.delevCoeff
           /\ x.pool.lastReinit = e.now /\ Typed(x.pool)
           /\ Good(x.pool, e, x.pool.positions[u])
           /\ x.called = {}
<1> DEFINE r == [pool |-> p, called |-> {}]
           Result(q, called, done) == [pool |-> q, called |-> called, done |-> done]
           After(y) ==
             IF u \in y.called
             THEN {Result(q, y.called, FALSE) : q \in UpdateSystemLeverages(y.pool, e)}
             ELSE IF ~LeverageDefined(y.pool, y.pool.positions[u]) THEN {}
             ELSE IF HasBadLeverage(y.pool, e, y.pool.positions[u])
             THEN {Result(v, y.called \cup {u}, FALSE) :
                     v \in UNION {UpdateSystemLeverages(q, e) : q \in Liquidate(y.pool, e, u)}}
             ELSE {Result(w, y.called, TRUE) :
                     w \in UNION {UpdateSystemLeverages(v, e) :
                             v \in UNION {UpdateHeap(q, u) : q \in Call(y.pool, e, u, c)}}}
<1>1. x \in UNION {After(y) : y \in Reinit(p, e)}
  BY DEF Execute, Require
<1>2. Reinit(p, e) = {r}
  BY DEF Reinit
<1>3. r.pool = p /\ r.called = {}
  OBVIOUS
<1> HIDE DEF r, Result
<1>4. x \in {Result(w, {}, TRUE) :
              w \in UNION {UpdateSystemLeverages(v, e) :
                      v \in UNION {UpdateHeap(q, u) : q \in Call(p, e, u, c)}}}
  <2>1. x \in After(r)
    BY <1>1, <1>2
  <2>2. u \notin r.called /\ LeverageDefined(p, p.positions[u])
        /\ ~HasBadLeverage(p, e, p.positions[u])
    BY <1>3 DEF Good
  <2>3. QED
    BY <1>3, <2>1, <2>2
<1>5. PICK q \in Call(p, e, u, c) : \E v \in UpdateHeap(q, u) :
        \E w \in UpdateSystemLeverages(v, e) : x = Result(w, {}, TRUE)
  BY <1>4
<1>6. Call(p, e, u, c) = Withdraw(p, e, u, t, c.amount1)
  BY DEF Call, Tokens
<1>7. q \in Withdraw(p, e, u, t, c.amount1)
  BY <1>5, <1>6
<1>8. PICK v \in UpdateHeap(q, u) : \E w \in UpdateSystemLeverages(v, e) : x = Result(w, {}, TRUE)
  BY <1>5
<1>9. x.pool \in UpdateSystemLeverages(v, e) /\ x.called = {}
  BY <1>8 DEF Result
<1>10. Trades(p, q, u) /\ Good(q, e, q.positions[u])
  BY <1>7, WithdrawTrades
<1>11. Typed(q) /\ q.lastReinit = p.lastReinit
       /\ q.collateralCoeff = p.collateralCoeff /\ q.delevCoeff = p.delevCoeff
  BY <1>10 DEF Trades, Agree, Fields
<1>12. Typed(v) /\ Agree(q, v, {"heap"})
  BY <1>11, UpdateHeaps
<1>13. Typed(x.pool) /\ Agree(v, x.pool, {"systemLeverage"})
  BY <1>9, <1>12, LeveragesKeep
<1>14. /\ x.pool.positions = q.positions /\ x.pool.lastReinit = q.lastReinit
       /\ x.pool.collateralCoeff = q.collateralCoeff /\ x.pool.delevCoeff = q.delevCoeff
       /\ x.pool.debtCoeff = q.debtCoeff /\ x.pool.params = q.params
  BY <1>12, <1>13 DEF Agree, Fields
<1>15. Good(x.pool, e, x.pool.positions[u])
  BY <1>10, <1>14, GoodIs
<1>16. QED
  BY <1>7, <1>9, <1>11, <1>13, <1>14, <1>15

\* A liquidation takes the position over, and withdraws base and quote; only the takeover
\* touches anybody else, for it has brought the interest of the block.
LEMMA LiquidationIsKept ==
  ASSUME NEW e, Priced(e), NEW p, Sound(p, e), KeeperContract # TechPositionOwner,
         NEW a \in Accounts, NEW t \in Tokens, NEW amount \in Nat,
         NEW r \in Transaction(p, e, LiquidationCalls(a, t, amount))
  PROVE  /\ Kept(p, e, r.pool, r.called)
         /\ Touches(p, e, r.pool, KeeperContract, r.called, TRUE, a)
<1> DEFINE steps == LiquidationCalls(a, t, amount)
           first == Receipt(a, t, amount)
           second == CallBy(KeeperContract, "WithdrawBase")
           third == CallBy(KeeperContract, "WithdrawQuote")
<1>1. Len(steps) = 3 /\ steps[1] = first /\ steps[2] = second /\ steps[3] = third
  <2> HIDE DEF first, second, third
  <2>1. steps = <<first>> \o <<second, third>>
    BY DEF LiquidationCalls, Withdrawals, first, second, third
  <2>2. QED
    BY <2>1
<1>2. r \in Transaction(p, e, steps)
  OBVIOUS
<1>3. /\ first.user = KeeperContract /\ Asked(first.call)
      /\ first.call.call = "ReceivePosition" /\ Taken(first.call) = a
      /\ second.user = KeeperContract /\ Asked(second.call) /\ second.call.call \in CallNames
      /\ second.call.call = "WithdrawBase" /\ second.call.amount1 \in Nat
      /\ third.user = KeeperContract /\ Asked(third.call) /\ third.call.call \in CallNames
      /\ third.call.call = "WithdrawQuote" /\ third.call.amount1 \in Nat
  <2>1. \A call \in {"WithdrawBase", "WithdrawQuote"} :
          /\ CallBy(KeeperContract, call).user = KeeperContract
          /\ Asked(CallBy(KeeperContract, call).call)
          /\ CallBy(KeeperContract, call).call.call = call /\ call \in CallNames
          /\ CallBy(KeeperContract, call).call.amount1 \in Nat
    BY KeeperAsks DEF Asked
  <2>2. first.call.call = "ReceivePosition" /\ Taken(first.call) = a
    BY DEF Receipt, Taken
  <2>3. QED
    BY <2>1, <2>2, KeeperAsks
<1> HIDE DEF steps, first, second, third
<1>4. r \in Then(Then(Then(Begun(p), e, first), e, second), e, third)
  BY <1>1, <1>2, TransactionsUnfold
<1>5. PICK s \in Then(Then(Begun(p), e, first), e, second) :
      \E z \in Execute(s.pool, e, third.user, third.call) :
        r.pool = z.pool /\ r.called = s.called \cup z.called
  BY <1>4, ThenIsACall
<1>6. PICK x \in Then(Begun(p), e, first) :
      \E y \in Execute(x.pool, e, second.user, second.call) :
        s.pool = y.pool /\ s.called = x.called \cup y.called
  BY ThenIsACall
<1>7. KeeperContract \in Accounts
  BY MarginlyKeeperAssumption
<1>8. /\ Kept(p, e, x.pool, x.called) /\ x.called = {}
      /\ Touches(p, e, x.pool, KeeperContract, {}, TRUE, a)
      /\ x.pool.lastReinit = e.now /\ Good(x.pool, e, x.pool.positions[KeeperContract])
  <2>1. PICK v \in Execute(p, e, first.user, first.call) :
          x.pool = v.pool /\ x.called = v.called
    BY FirstIsACall
  <2>2. /\ Kept(p, e, v.pool, v.called)
        /\ Touches(p, e, v.pool, KeeperContract, v.called, v.done, a)
    BY <1>3, <1>7, <2>1, CallIsKept
  <2>3. /\ v.pool.lastReinit = e.now /\ v.called = {}
        /\ Good(v.pool, e, v.pool.positions[KeeperContract])
    BY <1>3, <1>7, <2>1, ReceiptIsGood
  <2>4. QED
    BY <2>1, <2>2, <2>3 DEF Touches
<1>9. Sound(x.pool, e)
  BY <1>8 DEF Kept
<1>10. PICK y \in Execute(x.pool, e, second.user, second.call) :
         s.pool = y.pool /\ s.called = x.called \cup y.called
  BY <1>6
<1>11. /\ Kept(x.pool, e, s.pool, y.called)
       /\ \A b \in Accounts \ (y.called \cup {KeeperContract, TechPositionOwner}) :
            s.pool.positions[b] = x.pool.positions[b]
  BY <1>3, <1>7, <1>9, <1>10, CallIsKept, NamedCallsTouch
<1>12. /\ y.called = {} /\ s.pool.lastReinit = e.now
       /\ Good(s.pool, e, s.pool.positions[KeeperContract])
  <2> DEFINE d == second.call
  <2>1. /\ y \in Execute(x.pool, e, KeeperContract, d) /\ d.amount1 \in Nat
        /\ d.call = IF "base" = "base" THEN "WithdrawBase" ELSE "WithdrawQuote"
        /\ "base" \in Tokens /\ Typed(x.pool)
    BY <1>3, <1>9, <1>10 DEF Sound, Tokens
  <2> HIDE DEF d
  <2>2. QED
    BY <1>7, <1>8, <1>10, <2>1, WithdrawalIs
<1>13. Sound(s.pool, e)
  BY <1>11 DEF Kept
<1>14. PICK z \in Execute(s.pool, e, third.user, third.call) :
         r.pool = z.pool /\ r.called = s.called \cup z.called
  BY <1>5
<1>15. /\ Kept(s.pool, e, r.pool, z.called)
       /\ \A b \in Accounts \ (z.called \cup {KeeperContract, TechPositionOwner}) :
            r.pool.positions[b] = s.pool.positions[b]
  BY <1>3, <1>7, <1>13, <1>14, CallIsKept, NamedCallsTouch
<1>16. z.called = {}
  <2> DEFINE d == third.call
  <2>1. /\ z \in Execute(s.pool, e, KeeperContract, d) /\ d.amount1 \in Nat
        /\ d.call = IF "quote" = "base" THEN "WithdrawBase" ELSE "WithdrawQuote"
        /\ "quote" \in Tokens /\ Typed(s.pool)
    BY <1>3, <1>13, <1>14 DEF Sound, Tokens
  <2> HIDE DEF d
  <2>2. QED
    BY <1>7, <1>12, <2>1, WithdrawalIs
<1>17. Kept(p, e, s.pool, s.called)
  BY <1>8, <1>10, <1>11, KeptTwice
<1>18. Kept(p, e, r.pool, r.called)
  BY <1>14, <1>15, <1>17, KeptTwice
<1>19. Touches(p, e, r.pool, KeeperContract, r.called, TRUE, a)
  <2>1. \A b \in Accounts \ {KeeperContract, TechPositionOwner} :
          r.pool.positions[b] = x.pool.positions[b]
    BY <1>11, <1>12, <1>15, <1>16
  <2>2. QED
    BY <1>8, <2>1 DEF Touches
<1>20. QED
  BY <1>18, <1>19

-----------------------------------------------------------------------------
(* The pool beside the service.                                            *)

\* The owner of the technical position neither trades nor keeps.
TechIsIdle == TechPositionOwner \notin Traders \cup {Signer, KeeperContract}

\* A transaction of the service is mined.
LEMMA MinedIsKept ==
  ASSUME TechIsIdle, KeeperTypeOK, Matched, Mined
  PROVE  /\ env' = env /\ Matched' /\ OnlyTheirs
         /\ pool' = pool \/ Kept(pool, env, pool', last'.called)
<1> DEFINE tx == Head(pending)
           u == IF tx = ReinitTx THEN Signer ELSE KeeperContract
           taken == IF tx = ReinitTx THEN NoAccount ELSE tx.position
<1>1. PICK r \in (IF Outcome(tx) = {} THEN {[pool |-> pool, called |-> {}]} ELSE Outcome(tx)) :
        /\ pool' = r.pool
        /\ last' = [user |-> u, called |-> r.called, done |-> TRUE, takes |-> taken]
  BY DEF Mined
<1>2. env' = env /\ pending # <<>>
  BY DEF Mined
<1>3. tx \in LiquidationTxs \cup {ReinitTx}
  BY <1>2 DEF KeeperTypeOK
<1> HIDE DEF tx
<1>4. Sound(pool, env) /\ Priced(env)
  BY DEF Matched, Stored, Formed, Sound
<1>5. ASSUME r \in Outcome(tx)
      PROVE  /\ Kept(pool, env, r.pool, r.called)
             /\ Touches(pool, env, r.pool, u, r.called, TRUE, taken)
  <2>1. CASE tx = ReinitTx
    <3>1. r \in Transaction(pool, env, <<CallBy(Signer, "Reinit")>>)
      BY <1>5, <2>1 DEF Outcome
    <3>2. QED
      BY <1>4, <2>1, <3>1, ReinitIsKept DEF TechIsIdle
  <2>2. CASE tx # ReinitTx
    <3>1. /\ tx.position \in Accounts /\ tx.asset \in Tokens /\ tx.amount \in Nat
          /\ r \in Transaction(pool, env, LiquidationCalls(tx.position, tx.asset, tx.amount))
      BY <1>3, <1>5, <2>2 DEF Outcome, LiquidationTxs
    <3>2. QED
      BY <1>4, <2>2, <3>1, LiquidationIsKept DEF TechIsIdle
  <2>3. QED
    BY <2>1, <2>2
<1>6. /\ u \in Accounts /\ last'.user = u /\ last'.called = r.called
      /\ last'.done = TRUE /\ last'.takes = taken
  BY <1>1, KeeperServiceAssumption, MarginlyKeeperAssumption
<1> HIDE DEF u, taken
<1>7. CASE r \in Outcome(tx)
  <2>1. /\ Kept(pool, env, pool', last'.called)
        /\ Touches(pool, env, pool', u, last'.called, TRUE, taken)
    BY <1>1, <1>5, <1>6, <1>7
  <2>2. OnlyTheirs
    BY <1>6, <2>1 DEF Touches, OnlyTheirs, Overdue, WasBad
  <2>3. Matched'
    BY <1>2, <1>4, <2>1 DEF Kept, Sound, Matched, Stored, Formed, Regular
  <2>4. QED
    BY <1>2, <2>1, <2>2, <2>3
<1>8. CASE pool' = pool
  BY <1>2, <1>8 DEF Matched, Stored, Formed, Regular, OnlyTheirs
<1>9. QED
  BY <1>1, <1>7, <1>8

\* Every other step is one of the pool, or does not concern it.
LEMMA ServiceSteps ==
  [KeeperNext]_allVars => [Next]_vars \/ Mined
BY DEF KeeperNext, Others, Next, allVars, keeperVars

\* No step of the service, or of others, makes the pool anything else.
LEMMA PoolStaysKept ==
  ASSUME TechIsIdle, KeeperTypeOK, Matched, [KeeperNext]_allVars
  PROVE  Matched' /\ [OnlyTheirs]_vars /\ [LossesAreCalled]_vars
<1>1. TechPositionOwner \notin Traders
  BY DEF TechIsIdle
<1>2. CASE [Next]_vars
  BY <1>1, <1>2, MatchedIsKept, LossesAreNamed DEF Matched
<1>3. CASE Mined
  <2>1. /\ Matched' /\ OnlyTheirs
        /\ pool' = pool \/ Kept(pool, env, pool', last'.called)
    BY <1>3, MinedIsKept
  <2>2. \A t \in Tokens : pool.collateralCoeff[t] \in Nat /\ pool'.collateralCoeff[t] \in Nat
    BY <2>1 DEF Matched, Stored, Typed, Storage
  <2>3. LossesAreCalled
    BY <2>1, <2>2 DEF Kept, LossesAreCalled
  <2>4. QED
    BY <2>1, <2>3
<1>4. QED
  BY <1>2, <1>3, ServiceSteps

-----------------------------------------------------------------------------
(* What the service knows.                                                 *)

\* The numbers of a round, as far as loans are computed from them.
SeenOK ==
  /\ DOMAIN seen = {"price", "params", "coeffs"}
  /\ Sane(seen.params)
  /\ seen.coeffs.debt \in [Tokens -> Nat]

\* The inductive invariant of KeeperTypeOK: two roots are checked at most, each leads to one
\* liquidation at most, and what a loan is computed from is unsigned.
KeeperInv ==
  /\ KeeperTypeOK
  /\ at \in {"round", "pool", "rates", "roots", "sleep", "stopped"} => bad = <<>>
  /\ at = "check" => roots # <<>> /\ Len(bad) + Len(roots) <= 2
  /\ at \in {"rates", "roots", "check"} => SeenOK

\* The watcher's accrual of debt has no sign, though its powTaylor goes on where the pool's
\* reverts.
LEMMA RatesAreUnsigned ==
  ASSUME NEW p, Typed(p), NEW now \in Nat, p.lastReinit <= now, NEW params, Sane(params),
         NEW coeffs, coeffs.debt \in [Tokens -> Nat]
  PROVE  calcCoefficients(p, now, params, coeffs).debt \in [Tokens -> Nat]
<1> DEFINE n == now - p.lastReinit
           new(t) == CalcCoeffs(p, params, coeffs, t, n)
<1>1. CASE now = p.lastReinit
  BY <1>1 DEF calcCoefficients
<1>2. ASSUME now # p.lastReinit, NEW t \in Tokens
      PROVE  new(t).debt \in Nat
  <2> DEFINE rate == accruedRateDt(p, params, t, n)
             feeDt == PowTaylor(OnePlusFee(params), n)
  <2>1. n \in Nat \ {0} /\ Q96 \in Nat \ {0}
    <3>1. p.lastReinit \in Nat
      BY DEF Typed, Storage
    <3>2. QED
      BY <1>2, <3>1, FixedPointAssumption
  <2>2. /\ WHOLE_ONE \in Nat \ {0} /\ SECONDS_IN_YEAR \in Nat \ {0}
        /\ params.interestRate \in Nat /\ params.fee \in Nat
        /\ p.systemLeverage[SideOwing(t)] \in Nat
    BY PoolAssumption DEF Sane, Typed, Storage, SideOwing, Sides
  <2>3. \A x \in Nat : x \div SECONDS_IN_YEAR \in Nat
    BY <2>2, Quotients
  <2>4. \A x \in Nat : x \div SECONDS_IN_YEAR + One \in Nat /\ x \div SECONDS_IN_YEAR + One >= Q96
    BY <2>1, <2>3 DEF One
  <2> HIDE DEF n
  <2>5. feeDt \in Nat
    <3>1. FromRatio(params.fee, WHOLE_ONE) \in Nat
      BY <2>2, Naturals
    <3>2. OnePlusFee(params) \in Nat /\ OnePlusFee(params) >= Q96
      BY <2>4, <3>1 DEF OnePlusFee
    <3>3. QED
      BY <2>1, <3>2, SeriesIsNat
  <2>6. rate \in Nat
    <3>1. Mul(FromRatio(params.interestRate, WHOLE_ONE), p.systemLeverage[SideOwing(t)]) \in Nat
      BY <2>2, Naturals
    <3>2. OnePlusIR(p, params, t) \in Nat /\ OnePlusIR(p, params, t) >= Q96
      BY <2>4, <3>1 DEF OnePlusIR
    <3>3. QED
      BY <2>1, <3>2, SeriesIsNat DEF accruedRateDt
  <2>7. new(t).debt = Mul(coeffs.debt[t], Mul(rate, feeDt))
    BY DEF CalcCoeffs
  <2> HIDE DEF rate, feeDt, new
  <2>8. coeffs.debt[t] \in Nat /\ Mul(rate, feeDt) \in Nat
    BY <2>5, <2>6, Naturals
  <2>9. QED
    BY <2>7, <2>8, Naturals
<1>3. CASE now # p.lastReinit
  <2>1. calcCoefficients(p, now, params, coeffs).debt =
          [t \in Tokens |-> IF p.discountedCollateral[t] = 0 THEN coeffs.debt[t] ELSE new(t).debt]
    BY <1>3 DEF calcCoefficients
  <2> HIDE DEF new
  <2>2. QED
    BY <1>2, <1>3, <2>1
<1>4. QED
  BY <1>1, <1>3

\* A loan is unsigned.
LEMMA LoansAreUnsigned ==
  ASSUME NEW coeffs, coeffs.debt \in [Tokens -> Nat], NEW s, s.type \in Sides,
         s.amount \in [Tokens -> Nat]
  PROVE  LoanAmount(coeffs, s) \in Nat /\ DebtToken(s.type) \in Tokens
<1>1. DebtToken(s.type) \in Tokens
  BY DEF DebtToken, Tokens
<1>2. WatchedDebt(coeffs, s) \in Nat
  BY <1>1, Naturals DEF WatchedDebt
<1>3. WatchedDebt(coeffs, s) * 1010 \in Nat
  BY <1>2
<1>4. QED
  BY <1>1, <1>3, Quotients DEF LoanAmount

\* What a new service knows.
LEMMA NewService ==
  KeeperInit => KeeperInv
<1> SUFFICES ASSUME KeeperInit PROVE KeeperInv
  OBVIOUS
<1>1. KeeperTypeOK
  <2>1. /\ at = "round" /\ keeperType \in KeeperTypes
        /\ pending = <<>> /\ roots = <<>> /\ bad = <<>> /\ awaited = {}
        /\ racing \in BOOLEAN /\ stopRequested \in BOOLEAN
    BY DEF KeeperInit
  <2>2. \A S : <<>> \in Seq(S) /\ Len(<<>>) = 0
    OBVIOUS
  <2>3. roots \in Seq(Accounts) /\ bad \in Seq(LiquidationTxs)
        /\ pending \in Seq(LiquidationTxs \cup {ReinitTx})
    BY <2>1, <2>2
  <2>4. Len(roots) <= 2 /\ Len(bad) <= 2
    BY <2>1, <2>2
  <2>5. awaited \subseteq ToSet(pending) /\ (awaited # {} <=> at = "receipt")
    BY <2>1
  <2>6. QED
    BY <2>1, <2>3, <2>4, <2>5 DEF KeeperTypeOK
<1>2. QED
  BY <1>1 DEF KeeperInit, KeeperInv

\* The end of a round forgets what was read in it.
LEMMA RoundsEnd ==
  ASSUME KeeperInv, EndRound, UNCHANGED <<keeperType, pending, awaited, stopRequested>>,
         racing' \in BOOLEAN, at # "receipt"
  PROVE  KeeperInv'
<1>1. at' = "sleep" /\ roots' = <<>> /\ bad' = <<>>
  BY DEF EndRound
<1>2. KeeperTypeOK'
  BY <1>1 DEF KeeperInv, KeeperTypeOK
<1>3. QED
  BY <1>1, <1>2 DEF KeeperInv

\* Reading keeps the types of what is read.
LEMMA ReadingIsTyped ==
  ASSUME Matched, KeeperInv, Read
  PROVE  KeeperInv'
<1>1. UNCHANGED <<keeperType, racing, pending, awaited, stopRequested>>
  BY DEF Read
<1>2. /\ keeperType \in KeeperTypes /\ roots \in Seq(Accounts) /\ Len(roots) <= 2
      /\ bad \in Seq(LiquidationTxs) /\ Len(bad) <= 2
      /\ pending \in Seq(LiquidationTxs \cup {ReinitTx})
      /\ awaited \subseteq ToSet(pending) /\ (awaited # {} <=> at = "receipt")
      /\ racing \in BOOLEAN /\ stopRequested \in BOOLEAN
  BY DEF KeeperInv, KeeperTypeOK
<1>3. ASSUME EndRound, at # "receipt"
      PROVE  KeeperInv'
  BY <1>1, <1>2, <1>3, RoundsEnd
<1>4. ASSUME UNCHANGED <<roots, bad>>, at # "receipt",
             at' \in {"pool", "rates", "roots", "stopped"}, bad = <<>>,
             at' \in {"rates", "roots"} => SeenOK'
      PROVE  KeeperInv'
  <2>1. KeeperTypeOK'
    BY <1>1, <1>2, <1>4 DEF KeeperTypeOK
  <2>2. QED
    BY <1>4, <2>1 DEF KeeperInv
<1>5. CASE StartRound
  <2>1. at = "round" /\ bad = <<>>
    BY <1>5 DEF StartRound, KeeperInv
  <2>2. \/ EndRound
        \/ at' \in {"pool", "stopped"} /\ UNCHANGED <<seen, roots, bad>>
    BY <1>5 DEF StartRound
  <2>3. QED
    BY <1>3, <1>4, <2>1, <2>2
<1>6. CASE ReadPool
  <2>1. /\ at = "pool" /\ at' = "rates" /\ bad = <<>> /\ UNCHANGED <<roots, bad>>
        /\ seen' = [price |-> env.price, params |-> pool.params, coeffs |-> ReadCoeffs(pool)]
    BY <1>6 DEF ReadPool, KeeperInv
  <2>2. SeenOK'
    <3>1. ReadCoeffs(pool).debt \in [Tokens -> Nat] /\ Sane(pool.params)
      BY DEF ReadCoeffs, Matched, Stored, Typed, Storage, DebtCoeffs
    <3>2. QED
      BY <2>1, <3>1 DEF SeenOK
  <2>3. QED
    BY <1>4, <2>1, <2>2
<1>7. CASE ReadRates
  <2>1. at = "rates" /\ bad = <<>> /\ SeenOK
    BY <1>7 DEF ReadRates, KeeperInv
  <2>2. CASE EndRound
    BY <1>3, <2>1, <2>2
  <2>3. CASE ~EndRound
    <3> DEFINE new == calcCoefficients(pool, env.now, seen.params, seen.coeffs)
    <3>1. seen' = [seen EXCEPT !.coeffs = new] /\ at' = "roots" /\ UNCHANGED <<roots, bad>>
      BY <1>7, <2>3 DEF ReadRates
    <3>2. new.debt \in [Tokens -> Nat]
      <4>1. Typed(pool) /\ env.now \in Nat /\ pool.lastReinit <= env.now
        BY DEF Matched, Stored, Priced
      <4>2. QED
        BY <2>1, <4>1, RatesAreUnsigned DEF SeenOK
    <3> HIDE DEF new
    <3>3. SeenOK'
      BY <2>1, <3>1, <3>2 DEF SeenOK
    <3>4. QED
      BY <1>4, <2>1, <3>1, <3>3
  <2>4. QED
    BY <2>2, <2>3
<1>8. CASE ReadRoots
  <2>1. at = "roots" /\ bad = <<>> /\ SeenOK /\ UNCHANGED <<seen, bad>>
    BY <1>8 DEF ReadRoots, KeeperInv
  <2>2. PICK short \in HeapRoots(pool.heap["Short"]), long \in HeapRoots(pool.heap["Long"]) :
          roots' = Known(short) \o Known(long)
    BY <1>8 DEF ReadRoots
  <2>3. \A a \in {short, long} : Known(a) \in Seq(Accounts) /\ Len(Known(a)) <= 1
    <3>1. {short, long} \subseteq Accounts \cup {NoAccount}
      BY DEF HeapRoots
    <3>2. QED
      BY <3>1 DEF Known
  <2>4. roots' \in Seq(Accounts) /\ Len(roots') <= 2
    BY <2>2, <2>3
  <2>5. at' = IF roots' = <<>> THEN "liquidate" ELSE "check"
    BY <1>8 DEF ReadRoots
  <2>6. KeeperTypeOK'
    BY <1>1, <1>2, <2>1, <2>4, <2>5 DEF KeeperTypeOK
  <2>7. Len(bad') = 0 /\ Len(roots') \in Nat /\ SeenOK'
    BY <2>1, <2>4 DEF SeenOK
  <2>8. QED
    BY <2>4, <2>5, <2>6, <2>7 DEF KeeperInv
<1>9. CASE Check
  <2> DEFINE s == pool.positions[Head(roots)]
             tx == [position |-> Head(roots), asset |-> DebtToken(s.type),
                    amount |-> LoanAmount(seen.coeffs, s)]
  <2>1. at = "check" /\ roots # <<>> /\ Len(bad) + Len(roots) <= 2 /\ SeenOK
    BY <1>9 DEF Check, KeeperInv
  <2>2. CASE EndRound
    BY <1>3, <2>1, <2>2
  <2>3. CASE ~EndRound
    <3>1. /\ roots' = Tail(roots) /\ UNCHANGED seen
          /\ at' = IF Len(roots) = 1 THEN "liquidate" ELSE "check"
          /\ \/ bad' = Append(bad, tx) /\ s.type \in Sides
             \/ bad' = bad
      BY <1>9, <2>3 DEF Check, IsBad
    <3>2. Head(roots) \in Accounts /\ Tail(roots) \in Seq(Accounts)
          /\ Len(Tail(roots)) = Len(roots) - 1
      BY <1>2, <2>1
    <3>3. s.type \in Sides => tx \in LiquidationTxs
      <4>1. s.amount \in [Tokens -> Nat]
        BY <3>2 DEF Matched, Stored, Typed, Storage, Holding
      <4>2. s.type \in Sides => LoanAmount(seen.coeffs, s) \in Nat /\ DebtToken(s.type) \in Tokens
        BY <2>1, <4>1, LoansAreUnsigned DEF SeenOK
      <4> HIDE DEF s
      <4>3. QED
        BY <3>2, <4>2 DEF LiquidationTxs
    <3> HIDE DEF tx, s
    <3>4. bad' \in Seq(LiquidationTxs) /\ Len(bad') <= Len(bad) + 1
      <4>1. bad \in Seq(LiquidationTxs)
        BY <1>2
      <4>2. \A S : \A q \in Seq(S), y \in S :
              Append(q, y) \in Seq(S) /\ Len(Append(q, y)) = Len(q) + 1
        OBVIOUS
      <4>3. CASE bad' = bad
        BY <4>1, <4>3
      <4>4. CASE bad' = Append(bad, tx) /\ s.type \in Sides
        <5>1. Append(bad, tx) \in Seq(LiquidationTxs) /\ Len(Append(bad, tx)) = Len(bad) + 1
          BY <3>3, <4>1, <4>2, <4>4
        <5>2. QED
          BY <4>1, <4>4, <5>1
      <4>5. QED
        BY <3>1, <4>3, <4>4
    <3>5. Len(roots) \in Nat \ {0} /\ Len(bad) \in Nat /\ Len(bad') \in Nat
      BY <1>2, <2>1, <3>4
    <3>6. /\ Len(bad') + Len(roots') <= 2 /\ Len(roots') \in Nat
          /\ Len(roots) # 1 => roots' # <<>>
      <4>1. Len(roots') = Len(roots) - 1
        BY <3>1, <3>2
      <4>2. roots' = <<>> => Len(roots') = 0
        OBVIOUS
      <4> DEFINE m == Len(bad)
                 n == Len(bad')
                 k == Len(roots)
                 j == Len(roots')
      <4>3. /\ m \in Nat /\ n \in Nat /\ k \in Nat \ {0} /\ n <= m + 1 /\ m + k <= 2
            /\ j = k - 1
        BY <2>1, <3>4, <3>5, <4>1
      <4>4. n + j <= 2 /\ j \in Nat /\ (k # 1 => j # 0)
        <5> HIDE DEF m, n, k, j
        <5>1. QED
          BY <4>3
      <4>5. QED
        BY <4>2, <4>4, Zenon
    <3>7. KeeperTypeOK'
      BY <1>1, <1>2, <2>1, <3>1, <3>2, <3>4, <3>5, <3>6 DEF KeeperTypeOK
    <3>8. SeenOK'
      BY <2>1, <3>1 DEF SeenOK
    <3>9. QED
      BY <3>1, <3>6, <3>7, <3>8 DEF KeeperInv
  <2>4. QED
    BY <2>2, <2>3
<1>10. QED
  BY <1>5, <1>6, <1>7, <1>8, <1>9 DEF Read

\* The next liquidation is sent, or is not.
LEMMA SendingIsTyped ==
  ASSUME KeeperInv, LiquidateNext
  PROVE  KeeperInv'
<1> DEFINE Sent == LiquidationTxs \cup {ReinitTx}
<1>1. /\ keeperType \in KeeperTypes /\ roots \in Seq(Accounts) /\ Len(roots) <= 2
      /\ bad \in Seq(LiquidationTxs) /\ Len(bad) <= 2
      /\ pending \in Seq(Sent) /\ stopRequested \in BOOLEAN
      /\ awaited \subseteq ToSet(pending) /\ (awaited # {} <=> at = "receipt")
  BY DEF KeeperInv, KeeperTypeOK
<1>2. /\ at = "liquidate" /\ bad # <<>> /\ bad' = Tail(bad)
      /\ UNCHANGED <<keeperType, seen, roots, stopRequested>>
  BY DEF LiquidateNext
<1>3. racing' \in BOOLEAN
  BY DEF LiquidateNext
<1>4. awaited = {}
  BY <1>1, <1>2
<1>5. bad' \in Seq(LiquidationTxs) /\ Len(bad') <= 2 /\ Head(bad) \in LiquidationTxs
  <2>1. bad \in Seq(LiquidationTxs) /\ Len(bad) <= 2 /\ bad # <<>>
    BY <1>1, <1>2
  <2>2. \A S : \A q \in Seq(S) :
          q # <<>> => Tail(q) \in Seq(S) /\ Len(Tail(q)) = Len(q) - 1 /\ Head(q) \in S
    OBVIOUS
  <2>3. Tail(bad) \in Seq(LiquidationTxs) /\ Len(Tail(bad)) = Len(bad) - 1
        /\ Head(bad) \in LiquidationTxs
    BY <2>1, <2>2
  <2>4. Len(bad) \in Nat
    BY <2>1
  <2>5. QED
    BY <1>2, <2>1, <2>3, <2>4
<1>6. /\ pending' \in Seq(Sent) /\ at' \in {"liquidate", "receipt"}
      /\ awaited' \subseteq ToSet(pending') /\ (awaited' # {} <=> at' = "receipt")
  <2>1. CASE NotSent
    BY <1>1, <1>2, <1>4, <2>1 DEF NotSent
  <2>2. CASE \E tx \in Sent, wait \in BOOLEAN : Send(tx, wait)
    <3>1. PICK tx \in Sent, wait \in BOOLEAN : Send(tx, wait)
      BY <2>2
    <3>2. \A q \in Seq(Sent) : /\ Append(q, tx) \in Seq(Sent)
                               /\ tx \in ToSet(Append(q, tx))
      BY DEF ToSet
    <3> HIDE DEF Sent
    <3>3. pending' \in Seq(Sent) /\ tx \in ToSet(pending')
      BY <1>1, <3>1, <3>2 DEF Send
    <3>4. IF wait THEN at' = "receipt" /\ awaited' = {tx} ELSE UNCHANGED <<at, awaited>>
      BY <3>1 DEF Send
    <3>5. QED
      BY <1>2, <1>4, <3>3, <3>4
  <2>3. Head(bad) \in Sent /\ ReinitTx \in Sent
    BY <1>5
  <2> HIDE DEF Sent
  <2>4. NotSent \/ \E tx \in {ReinitTx, Head(bad)}, wait \in BOOLEAN : Send(tx, wait)
    BY DEF LiquidateNext
  <2>5. QED
    BY <2>1, <2>2, <2>3, <2>4
<1>7. KeeperTypeOK'
  BY <1>1, <1>2, <1>3, <1>5, <1>6 DEF KeeperTypeOK
<1>8. QED
  BY <1>6, <1>7 DEF KeeperInv

\* The first transaction leaves the queue.
LEMMA MiningIsTyped ==
  ASSUME KeeperInv, Mined
  PROVE  KeeperInv'
<1> DEFINE Sent == LiquidationTxs \cup {ReinitTx}
<1>1. /\ pending \in Seq(Sent)
      /\ awaited \subseteq ToSet(pending) /\ (awaited # {} <=> at = "receipt")
  BY DEF KeeperInv, KeeperTypeOK
<1>2. /\ pending # <<>> /\ pending' = Tail(pending)
      /\ UNCHANGED <<keeperType, seen, roots, bad, racing, stopRequested>>
      /\ IF Head(pending) \in awaited
         THEN at' = "liquidate" /\ awaited' = {}
         ELSE UNCHANGED <<at, awaited>>
  BY DEF Mined
<1> HIDE DEF Sent
<1>3. /\ Tail(pending) \in Seq(Sent)
      /\ ToSet(pending) \subseteq ToSet(Tail(pending)) \cup {Head(pending)}
  <2>1. Tail(pending) \in Seq(Sent) /\ Len(Tail(pending)) = Len(pending) - 1
        /\ Len(pending) \in Nat
    BY <1>1, <1>2
  <2>2. ASSUME NEW i \in 1 .. Len(pending), i # 1
        PROVE  i - 1 \in 1 .. Len(Tail(pending)) /\ Tail(pending)[i - 1] = pending[i]
    BY <1>1, <1>2, <2>1, <2>2
  <2>3. pending[1] = Head(pending)
    BY <1>1, <1>2
  <2>4. \A q \in Seq(Sent) : ToSet(q) = {q[i] : i \in 1 .. Len(q)}
    BY DEF ToSet
  <2>5. ASSUME NEW y \in ToSet(pending), y # Head(pending)
        PROVE  y \in ToSet(Tail(pending))
    <3>1. PICK i \in 1 .. Len(pending) : y = pending[i]
      BY <1>1, <2>4
    <3>2. i # 1
      BY <2>3, <2>5, <3>1
    <3>3. i - 1 \in 1 .. Len(Tail(pending)) /\ Tail(pending)[i - 1] = y
      BY <2>2, <3>1, <3>2
    <3>4. QED
      BY <2>1, <2>4, <3>3
  <2>6. QED
    BY <2>1, <2>5
<1>4. KeeperTypeOK'
  <2>1. /\ at' \in {"round", "pool", "rates", "roots", "check", "liquidate",
                     "receipt", "sleep", "stopped"}
        /\ awaited' \subseteq ToSet(pending') /\ (awaited' # {} <=> at' = "receipt")
    BY <1>1, <1>2, <1>3 DEF KeeperInv, KeeperTypeOK
  <2>2. pending' \in Seq(LiquidationTxs \cup {ReinitTx})
    BY <1>2, <1>3 DEF Sent
  <2>3. /\ keeperType' \in KeeperTypes /\ roots' \in Seq(Accounts) /\ Len(roots') <= 2
        /\ bad' \in Seq(LiquidationTxs) /\ Len(bad') <= 2
        /\ racing' \in BOOLEAN /\ stopRequested' \in BOOLEAN
    BY <1>2 DEF KeeperInv, KeeperTypeOK
  <2>4. QED
    BY <2>1, <2>2, <2>3 DEF KeeperTypeOK
<1>5. CASE at' = "liquidate"
  BY <1>4, <1>5 DEF KeeperInv
<1>6. CASE at' = at
  BY <1>2, <1>4, <1>6 DEF KeeperInv, SeenOK
<1>7. QED
  BY <1>2, <1>5, <1>6

\* Every step keeps the types.
LEMMA KeeperInvIsKept ==
  ASSUME Matched, KeeperInv, [KeeperNext]_allVars
  PROVE  KeeperInv'
<1>1. CASE UNCHANGED keeperVars
  BY <1>1 DEF keeperVars, KeeperInv, KeeperTypeOK, SeenOK
<1>2. CASE Read
  BY <1>2, ReadingIsTyped
<1>3. CASE LiquidateNext
  BY <1>3, SendingIsTyped
<1>4. CASE Liquidated
  BY <1>4, RoundsEnd DEF Liquidated
<1>5. CASE WakeUp
  BY <1>5 DEF WakeUp, KeeperInv, KeeperTypeOK
<1>6. CASE requestStop
  BY <1>6 DEF requestStop, KeeperInv, KeeperTypeOK, SeenOK
<1>7. CASE Mined
  BY <1>7, MiningIsTyped
<1>8. QED
  BY <1>1, <1>2, <1>3, <1>4, <1>5, <1>6, <1>7 DEF KeeperNext, KeeperStep, allVars

-----------------------------------------------------------------------------
(* What holds in every behavior of the service.                            *)

\* The service has its types, whatever the pool, its node and the others do: two positions
\* are checked in a round at most, the transaction it waits for is among those not mined
\* yet, and no loan is negative (MarginlyKeeper.liquidatePosition takes a uint256).
THEOREM ServiceHasItsTypes ==
  TechIsIdle => (ServiceSpec => []KeeperTypeOK)
<1> SUFFICES ASSUME TechIsIdle
             PROVE  ServiceSpec => []KeeperTypeOK
  OBVIOUS
<1>1. Init /\ KeeperInit => Matched /\ KeeperInv
  BY InitialStorage, Forms, NewService DEF Matched
<1>2. Matched /\ KeeperInv /\ [KeeperNext]_allVars => Matched' /\ KeeperInv'
  BY PoolStaysKept, KeeperInvIsKept DEF KeeperInv
<1>3. KeeperInv => KeeperTypeOK
  BY DEF KeeperInv
<1>4. QED
  BY <1>1, <1>2, <1>3, PTL DEF ServiceSpec

\* OthersAreUntouched, beside the service, too: three calls in one transaction change nobody
\* but the keeper contract, and whom they take the position from, who had bad leverage before;
\* they margin call nobody, for the takeover brings the accrual of the block.
THEOREM ServiceLeavesOthersAlone ==
  TechIsIdle => (ServiceSpec => OthersAreUntouched)
<1> SUFFICES ASSUME TechIsIdle
             PROVE  ServiceSpec => OthersAreUntouched
  OBVIOUS
<1>1. Init /\ KeeperInit => Matched /\ KeeperInv
  BY InitialStorage, Forms, NewService DEF Matched
<1>2. Matched /\ KeeperInv /\ [KeeperNext]_allVars
      => Matched' /\ KeeperInv' /\ [OnlyTheirs]_vars
  BY PoolStaysKept, KeeperInvIsKept DEF KeeperInv
<1>3. [][OnlyTheirs]_vars <=> OthersAreUntouched
  BY PTL DEF OthersAreUntouched, OnlyTheirs
<1>4. QED
  BY <1>1, <1>2, <1>3, PTL DEF ServiceSpec

\* LossesComeFromMarginCalls, beside the service, too: what a transaction of several calls
\* takes from the lenders is the loss of a margin call in one of them.
THEOREM ServiceCostsLendersNothing ==
  TechIsIdle => (ServiceSpec => LossesComeFromMarginCalls)
<1> SUFFICES ASSUME TechIsIdle
             PROVE  ServiceSpec => LossesComeFromMarginCalls
  OBVIOUS
<1>1. Init /\ KeeperInit => Matched /\ KeeperInv
  BY InitialStorage, Forms, NewService DEF Matched
<1>2. Matched /\ KeeperInv /\ [KeeperNext]_allVars
      => Matched' /\ KeeperInv' /\ [LossesAreCalled]_vars
  BY PoolStaysKept, KeeperInvIsKept DEF KeeperInv
<1>3. [][LossesAreCalled]_vars <=> LossesComeFromMarginCalls
  BY PTL DEF LossesComeFromMarginCalls, LossesAreCalled
<1>4. QED
  BY <1>1, <1>2, <1>3, PTL DEF ServiceSpec

\* HeapsMatchPositions, beside the service, too: a position that is taken over, and
\* withdrawn from twice in the same transaction, leaves its heap with its debt.
THEOREM ServiceKeepsHeaps ==
  TechIsIdle => (ServiceSpec => []HeapsMatchPositions)
<1> SUFFICES ASSUME TechIsIdle
             PROVE  ServiceSpec => []HeapsMatchPositions
  OBVIOUS
<1>1. Init /\ KeeperInit => Matched /\ KeeperInv
  BY InitialStorage, Forms, NewService DEF Matched
<1>2. Matched /\ KeeperInv /\ [KeeperNext]_allVars => Matched' /\ KeeperInv'
  BY PoolStaysKept, KeeperInvIsKept DEF KeeperInv
<1>3. Matched => HeapsMatchPositions
  BY DEF Matched, InOrder, Placed, Keyed, HeapsMatchPositions
<1>4. QED
  BY <1>1, <1>2, <1>3, PTL DEF ServiceSpec

\* The inductive invariant of the books beside the service.
ServiceBooks == KeeperInv /\ Books

\* A mined transaction keeps the books, as every call of it does.
LEMMA ServiceBooksAreKept ==
  ASSUME TechIsIdle, ServiceBooks, [KeeperNext]_allVars
  PROVE  ServiceBooks'
<1>1. Matched' /\ KeeperInv'
  BY PoolStaysKept, KeeperInvIsKept DEF ServiceBooks, Books, KeeperInv
<1>2. CASE [Next]_vars
  BY <1>1, <1>2, BooksAreKept DEF ServiceBooks, TechIsIdle
<1>3. CASE Mined
  <2>1. pool' = pool \/ Kept(pool, env, pool', last'.called)
    BY <1>3, MinedIsKept DEF ServiceBooks, Books, KeeperInv
  <2>2. QED
    BY <1>1, <2>1 DEF ServiceBooks, Books, Kept, Regular
<1>4. QED
  BY <1>2, <1>3, ServiceSteps

\* AmountsAreBooked, beside the service, too: what a takeover and the withdrawals after it
\* add and subtract are the same amounts in the position and in the books of the pool.
THEOREM ServiceKeepsBooks ==
  TechIsIdle => (ServiceSpec => []AmountsAreBooked)
<1> SUFFICES ASSUME TechIsIdle
             PROVE  ServiceSpec => []AmountsAreBooked
  OBVIOUS
<1>1. Init /\ KeeperInit => ServiceBooks
  BY InitialStorage, Forms, NewBooks, NewService DEF ServiceBooks, Books, Matched
<1>2. ServiceBooks /\ [KeeperNext]_allVars => ServiceBooks'
  BY ServiceBooksAreKept
<1>3. ServiceBooks => AmountsAreBooked
  BY BookingBooks DEF ServiceBooks, Books, Matched, AmountsAreBooked
<1>4. QED
  BY <1>1, <1>2, <1>3, PTL DEF ServiceSpec

-----------------------------------------------------------------------------
(* The keeper contract ends every transaction without a position.          *)

\* What u has after a withdrawal of all there is of t.
LEMMA AllIsWithdrawn ==
  ASSUME NEW p, Typed(p), NEW e, NEW u \in Accounts, NEW t \in Tokens,
         NEW amount \in Nat, amount >= PositionCollateral(p, p.positions[u], t),
         NEW w \in Withdraw(p, e, u, t, amount)
  PROVE  /\ p.positions[u].type \notin {"Uninitialized", SideOwing(t)}
         /\ p.positions[u].amount[Other(t)] = 0 => w.positions[u] = NoPosition
         /\ p.positions[u].amount[Other(t)] # 0 =>
              /\ w.positions[u].type = p.positions[u].type
              /\ w.positions[u].amount[t] = 0
              /\ w.positions[u].amount[Other(t)] = p.positions[u].amount[Other(t)]
<1> DEFINE s == p.positions[u]
           c == Other(t)
           real == PositionCollateral(p, s, t)
           q == [p EXCEPT !.positions[u].amount[t] = @ - s.amount[t],
                          !.discountedCollateral[t] = @ - s.amount[t]]
           Left(v) == IF s.amount[c] = 0 THEN [v EXCEPT !.positions[u] = NoPosition] ELSE v
           full == amount >= real
<1>1. /\ s.type \notin {"Uninitialized", SideOwing(t)}
      /\ \E r \in Unsigned(q) : \E v \in RequireGoodLeverage(r, e, u) :
           w \in TransferOut(Left(v), t, real)
  <2> DEFINE out == IF full THEN real ELSE amount
             disOut == IF full THEN s.amount[t] ELSE RecipMul(p.collateralCoeff[t], out)
             min == IF t = "base"
                    THEN RecipMul(e.price, RealDebt(p, c, s.amount[c])) + p.params.positionMinAmount
                    ELSE Mul(e.price, RealDebt(p, c, s.amount[c]) + p.params.positionMinAmount)
             fits == /\ amount # 0
                     /\ s.type \notin {"Uninitialized", SideOwing(t)}
                     /\ real >= 0
                     /\ ~full => p.collateralCoeff[t] # 0
                     /\ s.type \in Sides => min <= real - out
             y == [p EXCEPT !.positions[u].amount[t] = @ - disOut,
                            !.discountedCollateral[t] = @ - disOut]
             Rest(v) == IF full /\ s.amount[c] = 0 THEN [v EXCEPT !.positions[u] = NoPosition] ELSE v
  <2>1. Withdraw(p, e, u, t, amount) =
          Require(fits, UNION {UNION {TransferOut(Rest(v), t, out) :
                                        v \in RequireGoodLeverage(r, e, u)} : r \in Unsigned(y)})
    BY DEF Withdraw
  <2>2. full /\ w \in Withdraw(p, e, u, t, amount)
    OBVIOUS
  <2>3. out = real /\ disOut = s.amount[t]
    BY <2>2
  <2>4. \A v : Rest(v) = Left(v)
    <3> HIDE DEF full
    <3>1. QED
      BY <2>2
  <2> HIDE DEF full, out, disOut
  <2>5. y = q
    BY <2>3
  <2> HIDE DEF real, q, y, Left, Rest
  <2>6. s.type \notin {"Uninitialized", SideOwing(t)}
        /\ \E r \in Unsigned(y) : \E v \in RequireGoodLeverage(r, e, u) :
             w \in TransferOut(Rest(v), t, out)
    <3>1. fits => s.type \notin {"Uninitialized", SideOwing(t)}
      OBVIOUS
    <3> HIDE DEF fits
    <3>2. QED
      BY <2>1, <2>2, <3>1 DEF Require
  <2>7. QED
    BY <2>3, <2>4, <2>5, <2>6
<1>2. w \in TransferOut(Left(q), t, real)
  <2> HIDE DEF q, Left, real
  <2>1. \A r \in Unsigned(q) : r = q
    BY UnsignedIs
  <2>2. \A r : \A v \in RequireGoodLeverage(r, e, u) : v = r
    BY DEF RequireGoodLeverage, Require
  <2>3. QED
    BY <1>1, <2>1, <2>2
<1>3. w.positions = Left(q).positions
  <2>1. DOMAIN q = Fields /\ DOMAIN Left(q) = Fields
    BY DEF Typed, Storage
  <2> HIDE DEF q, Left, real
  <2>2. QED
    BY <1>2, <2>1 DEF TransferOut, Require, Fields
<1>4. /\ p.positions \in [Accounts -> Holding(Nat)] /\ "positions" \in DOMAIN p
      /\ s.amount \in [Tokens -> Nat] /\ c \in Tokens /\ c # t
  BY OthersAre DEF Typed, Storage, Holding, Fields
<1>5. /\ q.positions[u].type = s.type /\ q.positions[u].amount[t] = 0
      /\ q.positions[u].amount[c] = s.amount[c]
  BY <1>4 DEF Holding, Typed, Storage, Fields
<1>6. Left(q).positions[u] = IF s.amount[c] = 0 THEN NoPosition ELSE q.positions[u]
  BY <1>4 DEF Typed, Storage, Fields
<1> HIDE DEF q, Left, real
<1>7. QED
  BY <1>1, <1>3, <1>5, <1>6

\* What the keeper contract takes over with tx is not more than it can ask for.
Withdrawable(p, e, tx) ==
  \A x \in Execute(p, e, KeeperContract, Receipt(tx.position, tx.asset, tx.amount).call),
     t \in Tokens :
    PositionCollateral(x.pool, x.pool.positions[KeeperContract], t) <= Everything

\* A liquidation ends without a position: it takes over what becomes, by its payment, the
\* position of a lender in both tokens, and of those nothing is left.
LEMMA LiquidationEndsWithNothing ==
  ASSUME NEW e, Priced(e), NEW p, Sound(p, e), KeeperContract # TechPositionOwner,
         NEW tx \in LiquidationTxs, Withdrawable(p, e, tx),
         NEW r \in Transaction(p, e, LiquidationCalls(tx.position, tx.asset, tx.amount))
  PROVE  r.pool.positions[KeeperContract] = NoPosition
<1> DEFINE steps == LiquidationCalls(tx.position, tx.asset, tx.amount)
           first == Receipt(tx.position, tx.asset, tx.amount)
           second == CallBy(KeeperContract, "WithdrawBase")
           third == CallBy(KeeperContract, "WithdrawQuote")
           k == KeeperContract
<1>0. tx.position \in Accounts /\ tx.asset \in Tokens /\ tx.amount \in Nat
  BY DEF LiquidationTxs
<1>1. Len(steps) = 3 /\ steps[1] = first /\ steps[2] = second /\ steps[3] = third
  <2> HIDE DEF first, second, third
  <2>1. steps = <<first>> \o <<second, third>>
    BY DEF LiquidationCalls, Withdrawals, first, second, third
  <2>2. QED
    BY <2>1
<1>2. r \in Transaction(p, e, steps)
  OBVIOUS
<1>3. /\ first.user = k /\ Asked(first.call) /\ first.call.call = "ReceivePosition"
      /\ second.user = k /\ Asked(second.call) /\ second.call.call = "WithdrawBase"
      /\ third.user = k /\ Asked(third.call) /\ third.call.call = "WithdrawQuote"
  <2>1. \A call \in {"WithdrawBase", "WithdrawQuote"} :
          /\ CallBy(k, call).user = k
          /\ Asked(CallBy(k, call).call)
          /\ CallBy(k, call).call.call = call
    BY KeeperAsks
  <2>2. first.call.call = "ReceivePosition"
    BY DEF Receipt
  <2>3. QED
    BY <1>0, <2>1, <2>2, KeeperAsks
<1>4. second.call.amount1 = Everything /\ third.call.amount1 = Everything /\ Everything \in Nat
  BY DEF CallBy, Everything
<1>5. \A x \in Execute(p, e, k, first.call), t \in Tokens :
        PositionCollateral(x.pool, x.pool.positions[k], t) <= Everything
  BY DEF Withdrawable
<1> HIDE DEF steps, first, second, third
<1>6. r \in Then(Then(Then(Begun(p), e, first), e, second), e, third)
  BY <1>1, <1>2, TransactionsUnfold
<1>7. PICK s \in Then(Then(Begun(p), e, first), e, second) :
      \E z \in Execute(s.pool, e, third.user, third.call) :
        r.pool = z.pool /\ r.called = s.called \cup z.called
  BY <1>6, ThenIsACall
<1>8. PICK y \in Then(Begun(p), e, first) :
      \E z \in Execute(y.pool, e, second.user, second.call) :
        s.pool = z.pool /\ s.called = y.called \cup z.called
  BY ThenIsACall
<1>9. k \in Accounts
  BY MarginlyKeeperAssumption
<1>10. PICK x \in Execute(p, e, k, first.call) : y.pool = x.pool
  BY <1>3, FirstIsACall
<1> DEFINE s1 == y.pool.positions[k]
           s2 == s.pool.positions[k]
<1>11. y.pool.lastReinit = e.now /\ Good(y.pool, e, s1) /\ Typed(y.pool)
  <2>1. Kept(p, e, x.pool, x.called)
    BY <1>3, <1>9, CallIsKept
  <2>2. QED
    BY <1>3, <1>9, <1>10, <2>1, ReceiptIsGood DEF Kept, Sound
<1>12. \A t \in Tokens : PositionCollateral(y.pool, s1, t) <= Everything
  BY <1>5, <1>10
<1>13. "base" \in Tokens /\ "quote" \in Tokens /\ Other("base") = "quote" /\ Other("quote") = "base"
  BY DEF Tokens, Other
<1>14. PICK w \in Withdraw(y.pool, e, k, "base", Everything) :
         /\ s.pool.positions = w.positions
         /\ s.pool.collateralCoeff = y.pool.collateralCoeff
         /\ s.pool.delevCoeff = y.pool.delevCoeff
         /\ s.pool.lastReinit = e.now /\ Typed(s.pool)
         /\ Good(s.pool, e, s2)
  <2>1. PICK z \in Execute(y.pool, e, k, second.call) : s.pool = z.pool
    BY <1>3, <1>8
  <2>2. second.call.call = IF "base" = "base" THEN "WithdrawBase" ELSE "WithdrawQuote"
    BY <1>3
  <2>3. QED
    BY <1>4, <1>9, <1>11, <1>13, <2>1, <2>2, WithdrawalIs
<1>15. PICK z \in Withdraw(s.pool, e, k, "quote", Everything) : r.pool.positions = z.positions
  <2>1. PICK z \in Execute(s.pool, e, k, third.call) : r.pool = z.pool
    BY <1>3, <1>7
  <2>2. third.call.call = IF "quote" = "base" THEN "WithdrawBase" ELSE "WithdrawQuote"
    BY <1>3
  <2> DEFINE d == third.call
  <2>3. /\ z \in Execute(s.pool, e, k, d) /\ d.amount1 = Everything /\ Everything \in Nat
        /\ d.call = IF "quote" = "base" THEN "WithdrawBase" ELSE "WithdrawQuote"
        /\ Typed(s.pool) /\ s.pool.lastReinit = e.now /\ k \in Accounts /\ "quote" \in Tokens
        /\ Good(s.pool, e, s.pool.positions[k])
    BY <1>4, <1>9, <1>13, <1>14, <2>1, <2>2
  <2> HIDE DEF d
  <2>4. \E v \in Withdraw(s.pool, e, k, "quote", d.amount1) : z.pool.positions = v.positions
    BY <2>3, WithdrawalIs
  <2>5. QED
    BY <2>1, <2>3, <2>4
<1>16. /\ s1.type \notin {"Uninitialized", "Short"}
       /\ s1.amount["quote"] = 0 => s2 = NoPosition
       /\ s1.amount["quote"] # 0 =>
            s2.type = s1.type /\ s2.amount["base"] = 0 /\ s2.amount["quote"] = s1.amount["quote"]
  <2>1. SideOwing("base") = "Short" /\ Other("base") = "quote"
    BY DEF SideOwing, Other
  <2>2. w \in Withdraw(y.pool, e, k, "base", Everything) /\ s2 = w.positions[k]
    BY <1>14
  <2>3. /\ Everything \in Nat /\ Everything >= PositionCollateral(y.pool, s1, "base")
        /\ "base" \in Tokens /\ k \in Accounts /\ Typed(y.pool)
    BY <1>4, <1>9, <1>11, <1>12, <1>13
  <2>4. /\ s1.type \notin {"Uninitialized", SideOwing("base")}
        /\ s1.amount[Other("base")] = 0 => w.positions[k] = NoPosition
        /\ s1.amount[Other("base")] # 0 =>
             /\ w.positions[k].type = s1.type
             /\ w.positions[k].amount["base"] = 0
             /\ w.positions[k].amount[Other("base")] = s1.amount[Other("base")]
    BY <2>2, <2>3, AllIsWithdrawn
  <2> HIDE DEF s1, s2
  <2>5. QED
    BY <2>1, <2>2, <2>4
<1>17. s2.type \notin {"Uninitialized", "Long"}
  BY <1>15 DEF Withdraw, Require, SideOwing
<1> HIDE DEF s1, s2
<1>18. s2.type = "Lend" /\ s1.type = "Lend" /\ s2.amount["base"] = 0
       /\ s2.amount["quote"] = s1.amount["quote"]
  <2>1. s1.type \in {"Uninitialized", "Lend", "Short", "Long"}
    <3>1. s1 \in Holding(Nat)
      BY <1>9, <1>11 DEF Typed, Storage, s1
    <3>2. QED
      BY <3>1 DEF Holding, PositionTypes, Sides
  <2>2. NoPosition.type = "Uninitialized"
    BY DEF NoPosition
  <2>3. QED
    BY <1>16, <1>17, <2>1, <2>2
<1>19. PositionCollateral(s.pool, s2, "quote") = PositionCollateral(y.pool, s1, "quote")
  BY <1>14, <1>18 DEF PositionCollateral, RealCollateral, SideOwing, Other
<1>20. z.positions[k] = NoPosition
  BY <1>4, <1>9, <1>12, <1>13, <1>14, <1>18, <1>19, AllIsWithdrawn DEF s2
<1>21. QED
  BY <1>15, <1>20

\* Neither do others give it one, nor the reinit of the service.
LEMMA NobodyGives ==
  ASSUME NEW e, Priced(e), NEW p, Sound(p, e), KeeperContract # TechPositionOwner,
         NEW u \in Accounts, u \notin {TechPositionOwner, KeeperContract}, NEW c, Asked(c),
         NEW x \in Execute(p, e, u, c), p.positions[KeeperContract] = NoPosition
  PROVE  x.pool.positions[KeeperContract] = NoPosition
<1>1. Spares(p, x.pool, u)
  BY CallTouches DEF Sound, Asked, Priced
<1>2. KeeperContract \in Accounts
  BY MarginlyKeeperAssumption
<1>3. QED
  BY <1>1, <1>2 DEF Spares

\* What the keeper contract cannot take over more of than a withdrawal of Everything
\* withdraws, for Everything stands for type(uint256).max.
EverythingIsEnough ==
  pending # <<>> /\ Head(pending) # ReinitTx => Withdrawable(pool, env, Head(pending))

\* The keeper is a contract that calls the pool for its loans only: it is nobody's account.
KeeperIsAlone == KeeperContract \notin Traders \cup {Signer}

\* The reinit of the service is one call, and not of the keeper contract.
LEMMA ReinitGivesNothing ==
  ASSUME NEW e, Priced(e), NEW p, Sound(p, e),
         TechPositionOwner \notin {Signer, KeeperContract}, Signer # KeeperContract,
         p.positions[KeeperContract] = NoPosition,
         NEW r \in Transaction(p, e, <<CallBy(Signer, "Reinit")>>)
  PROVE  r.pool.positions[KeeperContract] = NoPosition
<1> DEFINE step == CallBy(Signer, "Reinit")
<1>1. Len(<<step>>) = 1 /\ <<step>>[1] = step
  OBVIOUS
<1>2. r \in Transaction(p, e, <<step>>)
  OBVIOUS
<1>3. step.user = Signer /\ Asked(step.call)
  BY KeeperAsks
<1> HIDE DEF step
<1>4. PICK x \in Execute(p, e, step.user, step.call) : r.pool = x.pool
  <2>1. Transaction(p, e, <<step>>) = Then(Begun(p), e, step)
    BY <1>1, TransactionsUnfold
  <2>2. QED
    BY <1>2, <2>1, FirstIsACall
<1>5. Signer \in Accounts \ {TechPositionOwner, KeeperContract}
  BY KeeperServiceAssumption
<1>6. QED
  BY <1>3, <1>4, <1>5, NobodyGives

\* A mined transaction leaves the keeper contract without a position.
LEMMA MinedEndsWithNothing ==
  ASSUME TechIsIdle, KeeperIsAlone, KeeperTypeOK, Matched, EverythingIsEnough,
         KeeperEndsWithoutPosition, Mined
  PROVE  KeeperEndsWithoutPosition'
<1> DEFINE tx == Head(pending)
<1>1. pending # <<>>
      /\ \E r \in (IF Outcome(tx) = {} THEN {[pool |-> pool, called |-> {}]} ELSE Outcome(tx)) :
           pool' = r.pool
  BY DEF Mined
<1>2. tx \in LiquidationTxs \cup {ReinitTx} /\ (tx # ReinitTx => Withdrawable(pool, env, tx))
  BY <1>1 DEF KeeperTypeOK, EverythingIsEnough
<1>3. Sound(pool, env) /\ Priced(env)
  BY DEF Matched, Stored, Formed, Sound
<1> HIDE DEF tx
<1>4. ASSUME NEW r \in Outcome(tx)
      PROVE  r.pool.positions[KeeperContract] = NoPosition
  <2>1. CASE tx = ReinitTx
    <3>1. r \in Transaction(pool, env, <<CallBy(Signer, "Reinit")>>)
      BY <1>4, <2>1 DEF Outcome
    <3>2. QED
      BY <1>3, <3>1, ReinitGivesNothing
         DEF TechIsIdle, KeeperIsAlone, KeeperEndsWithoutPosition
  <2>2. CASE tx # ReinitTx
    <3>1. r \in Transaction(pool, env, LiquidationCalls(tx.position, tx.asset, tx.amount))
      BY <1>4, <2>2 DEF Outcome
    <3>2. QED
      BY <1>2, <1>3, <2>2, <3>1, LiquidationEndsWithNothing DEF TechIsIdle
  <2>3. QED
    BY <2>1, <2>2
<1>5. \/ pool' = pool
      \/ \E r \in Outcome(tx) : pool' = r.pool
  BY <1>1
<1>6. QED
  BY <1>4, <1>5 DEF KeeperEndsWithoutPosition

\* Others do not give it one either.
LEMMA OthersGiveNothing ==
  ASSUME TechIsIdle, KeeperIsAlone, Matched, KeeperEndsWithoutPosition, Others
  PROVE  KeeperEndsWithoutPosition'
<1>1. Sound(pool, env) /\ Priced(env)
  BY DEF Matched, Stored, Formed, Sound
<1>2. ASSUME NEW u \in Traders, NEW c \in Calls, execute(u, c)
      PROVE  KeeperEndsWithoutPosition'
  <2>1. Asked(c) /\ u \in Accounts \ {TechPositionOwner, KeeperContract}
    BY MarginlyPoolAssumption DEF Asked, TechIsIdle, KeeperIsAlone
  <2>2. PICK x \in Execute(pool, env, u, c) : pool' = x.pool
    BY <1>2 DEF execute
  <2>3. x.pool.positions[KeeperContract] = NoPosition
    BY <1>1, <2>1, <2>2, NobodyGives DEF TechIsIdle, KeeperEndsWithoutPosition
  <2>4. QED
    BY <2>2, <2>3 DEF KeeperEndsWithoutPosition
<1>3. ASSUME NEW params, setParameters(params)
      PROVE  pool'.positions = pool.positions
  BY <1>3 DEF setParameters, Matched, Stored, Typed, Storage, Fields
<1>4. ASSUME NEW m, NextBlock(m)
      PROVE  pool' = pool
  BY <1>4 DEF NextBlock
<1>5. ASSUME NEW m, PriceUpdate(m)
      PROVE  pool' = pool
  BY <1>5 DEF PriceUpdate
<1>6. QED
  BY <1>2, <1>3, <1>4, <1>5 DEF Others, KeeperEndsWithoutPosition

\* KeeperEndsWithoutPosition: three calls in a row, between which nobody else gets a word,
\* leave the keeper contract as it was, whatever others did since the position was checked.
\* Without it the pool would refuse it every other takeover (receivePosition is for who has
\* no position).
THEOREM KeeperIsLeftWithNothing ==
  TechIsIdle /\ KeeperIsAlone
    => (ServiceSpec /\ []EverythingIsEnough => []KeeperEndsWithoutPosition)
<1> SUFFICES ASSUME TechIsIdle, KeeperIsAlone
             PROVE  ServiceSpec /\ []EverythingIsEnough => []KeeperEndsWithoutPosition
  OBVIOUS
<1> DEFINE IInv == Matched /\ KeeperInv /\ KeeperEndsWithoutPosition
<1>1. Init /\ KeeperInit => IInv
  <2> SUFFICES ASSUME Init, KeeperInit PROVE IInv
    OBVIOUS
  <2>1. Matched /\ KeeperInv
    BY InitialStorage, Forms, NewService DEF Matched
  <2>2. KeeperContract \in Accounts \ {TechPositionOwner}
    BY MarginlyKeeperAssumption DEF TechIsIdle
  <2>3. pool.positions[KeeperContract] = NoPosition
    BY <2>2 DEF Init, InitialPool
  <2>4. QED
    BY <2>1, <2>3 DEF KeeperEndsWithoutPosition
<1>2. IInv /\ EverythingIsEnough /\ [KeeperNext]_allVars => IInv'
  <2> SUFFICES ASSUME IInv, EverythingIsEnough, [KeeperNext]_allVars PROVE IInv'
    OBVIOUS
  <2>1. Matched' /\ KeeperInv'
    BY PoolStaysKept, KeeperInvIsKept DEF KeeperInv
  <2>2. CASE Mined
    BY <2>1, <2>2, MinedEndsWithNothing DEF KeeperInv
  <2>3. CASE Others
    BY <2>1, <2>3, OthersGiveNothing
  <2>4. CASE pool' = pool
    BY <2>1, <2>4 DEF KeeperEndsWithoutPosition
  <2>5. Mined \/ Others \/ pool' = pool
    BY DEF KeeperNext, allVars, vars
  <2>6. QED
    BY <2>2, <2>3, <2>4, <2>5
<1>3. IInv => KeeperEndsWithoutPosition
  OBVIOUS
<1> HIDE DEF IInv
<1>4. QED
  BY <1>1, <1>2, <1>3, PTL DEF ServiceSpec
=============================================================================
