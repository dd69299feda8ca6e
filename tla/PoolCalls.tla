----------------------------- MODULE PoolCalls -----------------------------
(***************************************************************************)
(* MarginlyPool.sol: margin calls and everything a transaction can ask of  *)
(* the pool.  See PoolLib for the conventions.  u is msg.sender.           *)
(***************************************************************************)
EXTENDS PoolLib

\* Every position that owes d gives up a share of realCollateral in the other
\* token and of realDebt.
Deleverage(p, d, realCollateral, realDebt) ==
  LET total == p.discountedDebt[d]
      coeff == p.debtCoeff[d] - FromRatio(realDebt, total)
  IN  Require(total # 0 /\ coeff >= Q48,
              {[p EXCEPT !.delevCoeff[Other(d)] = @ + FromRatio(realCollateral, total),
                         !.debtCoeff[d] = coeff]})

\* Sells all the collateral of u for the token it owes; what is left, or
\* missing, is shared by the collateral in that token.
EnactMarginCall(p, e, u) ==
  LET s == p.positions[u]
      t == DebtToken(s.type)
      c == Other(t)
      realCollateral == PositionCollateral(p, s, c)
      realDebt == RealDebt(p, t, s.amount[t])
      minOut == Mul(FromRatio(WHOLE_ONE - p.params.mcSlippage, WHOLE_ONE),
                    Exchange(e.mcPrice, t, realCollateral))
      swapped == IF realCollateral = 0 THEN 0 ELSE OutputOf(e, c, realCollateral)
      total == PoolCollateral(p, t)
      factor == IF swapped >= realDebt
                THEN One + FromRatio(swapped - realDebt, total)
                ELSE One - FromRatio(realDebt - swapped, total)
      \* the price in the event divides by the base that came out of the swap
      priceDefined == realCollateral = 0 \/ s.type = "Long" \/ swapped # 0
      sold == IF realCollateral = 0 THEN {p}
              ELSE SwapExactInput(p, e, c, realCollateral, minOut)
  IN  Require(realCollateral >= 0 /\ priceDefined /\ total > 0 /\ factor >= 0,
        UNION {UNION {{[v EXCEPT !.positions[u] = NoPosition] :
                          v \in HeapRemove(r, s.type, u)} :
                        r \in Unsigned([UpdateCollateralCoeffs(q, t, factor) EXCEPT
                                          !.discountedCollateral[c] = @ - s.amount[c],
                                          !.discountedDebt[t] = @ - s.amount[t]])} :
                 q \in sold})

\* Collateral of u that the pool has lent out is first exchanged, at the oracle's
\* price, against debts of the other side.
Liquidate(p, e, u) ==
  LET s == p.positions[u]
      t == DebtToken(s.type)
      c == Other(t)
      excess == PoolDebt(p, c) + PositionCollateral(p, s, c) - PoolCollateral(p, c)
      value == Exchange(e.price, t, excess)
      positionDebt == RealDebt(p, t, s.amount[t])
      collToReduce == IF value > positionDebt THEN positionDebt ELSE value
      disDebt == RecipMul(p.debtCoeff[t], collToReduce)
      Reduce(q) ==
        LET disColl == RecipMul(q.collateralCoeff[c],
                                excess + Mul(q.delevCoeff[c], disDebt))
        IN  Require(q.collateralCoeff[c] # 0,
                    Unsigned([q EXCEPT !.positions[u].amount[t] = @ - disDebt,
                                       !.positions[u].amount[c] = @ - disColl,
                                       !.discountedDebt[t] = @ - disDebt,
                                       !.discountedCollateral[c] = @ - disColl]))
  IN  IF s.type \notin Sides \/ PositionCollateral(p, s, c) < 0
         \/ PoolCollateral(p, c) < 0
      THEN {}
      ELSE UNION {EnactMarginCall(r, e, u) :
                    r \in IF excess <= 0 THEN {p}
                          ELSE UNION {Reduce(q) :
                                        q \in Deleverage(p, c, collToReduce, excess)}}

\* Mutant of ReinitAccount: every root is liquidated.
ReinitAnyAccount(p, e, a) ==
  IF p.positions[a].type \in Sides THEN Liquidate(p, e, a) ELSE {p}

ReinitAccount(p, e, a) ==
  IF HasBadLeverage(p, e, p.positions[a]) THEN Liquidate(p, e, a)
  ELSE Require(LeverageDefined(p, p.positions[a]), {p})

\* A margin call of the root of one heap: the pool after it and who was called.
ReinitRoot(p, e, side) ==
  UNION {IF a = NoAccount THEN {[pool |-> p, called |-> {}]}
         ELSE {[pool   |-> q,
                called |-> IF HasBadLeverage(p, e, p.positions[a]) THEN {a} ELSE {}] :
                 q \in ReinitAccount(p, e, a)} :
           a \in HeapRoots(p.heap[side])}

\* The roots are looked at once per block, the short one first.
Reinit(p, e) ==
  IF e.now = p.lastReinit THEN {[pool |-> p, called |-> {}]}
  ELSE UNION {UNION {{[pool |-> y.pool, called |-> x.called \cup y.called] :
                        y \in ReinitRoot(x.pool, e, "Long")} :
                       x \in ReinitRoot(q, e, "Short")} :
                q \in AccrueInterest(p, e)}

-----------------------------------------------------------------------------
(* depositBase, depositQuote                                               *)

Deposit(p, e, u, t, amount) ==
  LET s == p.positions[u]
      c == Other(t)
      rest == amount - RealDebt(p, t, s.amount[t])
      repaid == IF rest >= 0 THEN s.amount[t] ELSE RecipMul(p.debtCoeff[t], amount)
      disRest == RecipMul(p.collateralCoeff[t], rest)
      freed == RecipMul(p.collateralCoeff[c], Mul(p.delevCoeff[c], repaid))
      Settled(q) == [q EXCEPT !.positions[u].type = "Lend",
                              !.positions[u].amount[t] = disRest,
                              !.discountedCollateral[t] = @ + disRest]
      reduced == [p EXCEPT !.positions[u].amount[t] = @ - repaid]
      disAmount == RecipMul(p.collateralCoeff[t], amount)
  IN  IF amount = 0 THEN {}
      ELSE IF s.type = SideOwing(t)
      THEN Require(/\ p.collateralCoeff[c] # 0
                   /\ rest >= 0 => p.collateralCoeff[t] # 0
                   /\ rest > 0 => WithinLimit(p, e, t, rest),
             UNION {Unsigned(TransferIn(
                      [q EXCEPT !.positions[u].amount[c] = @ - freed,
                                !.discountedDebt[t] = @ - repaid,
                                !.discountedCollateral[c] = @ - freed], t, amount)) :
                      q \in IF rest >= 0
                            THEN {Settled(r) : r \in HeapRemove(p, s.type, u)}
                            ELSE {reduced}})
      ELSE Require(WithinLimit(p, e, t, amount) /\ p.collateralCoeff[t] # 0,
             {TransferIn([p EXCEPT
                !.positions[u].type = IF @ = "Uninitialized" THEN "Lend" ELSE @,
                !.positions[u].amount[t] = @ + disAmount,
                !.discountedCollateral[t] = @ + disAmount], t, amount)})

(* withdrawBase, withdrawQuote.  A margin position may take its collateral *)
(* down to the minimal margin only; a lender who takes all of it, and has  *)
(* nothing in the other token, is deleted.                                 *)
Withdraw(p, e, u, t, amount) ==
  LET s == p.positions[u]
      c == Other(t)
      real == PositionCollateral(p, s, t)
      full == amount >= real
      out == IF full THEN real ELSE amount
      disOut == IF full THEN s.amount[t] ELSE RecipMul(p.collateralCoeff[t], out)
      realDebt == RealDebt(p, c, s.amount[c])
      minimum == IF t = "base"
                 THEN RecipMul(e.price, realDebt) + p.params.positionMinAmount
                 ELSE Mul(e.price, realDebt + p.params.positionMinAmount)
      q == [p EXCEPT !.positions[u].amount[t] = @ - disOut,
                     !.discountedCollateral[t] = @ - disOut]
  IN  Require(/\ amount # 0
              /\ s.type \notin {"Uninitialized", SideOwing(t)}
              /\ real >= 0
              /\ ~full => p.collateralCoeff[t] # 0
              /\ s.type \in Sides => minimum <= real - out,
        UNION {UNION {TransferOut(IF full /\ s.amount[c] = 0
                                  THEN [v EXCEPT !.positions[u] = NoPosition] ELSE v,
                                  t, out) :
                        v \in RequireGoodLeverage(r, e, u)} :
                 r \in Unsigned(q)})

-----------------------------------------------------------------------------
(* closePosition: buys the debt back, at a price within the caller's limit *)

ClosePosition(p, e, u, limit) ==
  LET s == p.positions[u]
      t == DebtToken(s.type)
      c == Other(t)
      real == PositionCollateral(p, s, c)
      debtUp == RealDebtUp(p, t, s.amount[t])
      \* the fee of a Long is bought with its debt, that of a Short is added to
      \* what the debt cost
      wanted == IF t = "quote" THEN debtUp + SwapFee(p, debtUp) ELSE debtUp
      spent == InputFor(e, c, wanted)
      maximum == IF t = "quote" THEN MulDiv(Q96, wanted, limit)
                                ELSE MulDiv(limit, wanted, Q96)
      fee == IF t = "quote" THEN SwapFee(p, debtUp) ELSE SwapFee(p, spent)
      delta == IF t = "quote" THEN spent ELSE spent + fee
      disDelta == RecipMul(p.collateralCoeff[c],
                           delta + Mul(p.delevCoeff[c], s.amount[t]))
  IN  IF s.type \notin Sides THEN {}
      ELSE Require(/\ real >= 0
                   /\ t = "quote" => limit # 0 /\ spent # 0
                   /\ t = "base" => debtUp # 0
                   /\ spent <= maximum
                   /\ p.collateralCoeff[c] # 0,
             UNION {UNION {UNION {HeapRemove(v, s.type, u) :
                 v \in Unsigned([r EXCEPT !.discountedCollateral[c] = @ - disDelta,
                                          !.discountedDebt[t] = @ - s.amount[t],
                                          !.positions[u].amount[c] = @ - disDelta,
                                          !.positions[u].amount[t] = 0,
                                          !.positions[u].type = "Lend"])} :
                 r \in ChargeFee(q, fee)} :
               q \in SwapExactOutput(p, e, c, real, wanted)})

-----------------------------------------------------------------------------
(* sellBaseForQuote, sellQuoteForBase: all the collateral in t becomes     *)
(* collateral in the other token, in which a margin position repays its    *)
(* debt.  Positions that owe t keep what they have.                        *)

Sell(p, e, u, t, limit) ==
  LET s == p.positions[u]
      c == Other(t)
      owes == s.type = SideOwing(c)
      amountIn == PositionCollateral(p, s, t)
      feeIn == IF t = "quote" THEN SwapFee(p, amountIn) ELSE 0
      in == amountIn - feeIn
      minOut == IF t = "base" THEN MulDiv(limit, in, Q96) ELSE MulDiv(Q96, in, limit)
      swapped == OutputOf(e, t, in)
      fee == IF t = "base" THEN SwapFee(p, swapped) ELSE feeIn
      out == IF t = "base" THEN swapped - fee ELSE swapped
      realDebt == IF owes THEN RealDebt(p, c, s.amount[c]) ELSE 0
      disOut == RecipMul(p.collateralCoeff[c], out - realDebt)
      Moved(q) == [q EXCEPT
        !.discountedCollateral[t] = @ - s.amount[t],
        !.discountedCollateral[c] = @ + disOut,
        !.discountedDebt[c] = IF owes THEN @ - s.amount[c] ELSE @,
        !.positions[u].amount[t] = 0,
        !.positions[u].amount[c] = IF owes THEN disOut ELSE @ + disOut,
        !.positions[u].type = "Lend"]
  IN  IF s.type = "Uninitialized" \/ amountIn < 0 THEN {}
      ELSE IF s.type = SideOwing(t) \/ amountIn = 0 THEN {p}
      ELSE Require(/\ t = "quote" => limit # 0
                   /\ p.collateralCoeff[c] # 0
                   /\ out >= realDebt,
             UNION {UNION {UNION {IF owes THEN HeapRemove(v, s.type, u) ELSE {v} :
                                    v \in Unsigned(Moved(r))} :
                             r \in ChargeFee(q, fee)} :
                      q \in SwapExactInput(p, e, t, in, minOut)})

\* The end of short and long: a lender enters the heap of its new side, with a
\* key that UpdateHeap sets at the end of the transaction.
Enter(p, e, u, side) ==
  LET s == p.positions[u]
      q == [HeapInsert(p, side, u) EXCEPT !.positions[u].type = side]
  IN  Require(s.type = "Lend" => ~s.inHeap,
              RequireGoodLeverage(IF s.type = "Lend" THEN q ELSE p, e, u))

\* amount of base is borrowed and sold for quote collateral.
Short(p, e, u, amount, limit) ==
  LET Borrow(q) ==
        LET s == q.positions[u]
            collateral == RealCollateral(q, "quote", s.amount["quote"], s.amount["base"])
            got == OutputOf(e, "base", amount)
            fee == SwapFee(q, got)
            disDebt == RecipMul(q.debtCoeff["base"], amount)
            disColl == RecipMul(q.collateralCoeff["quote"],
                                got - fee + Mul(q.delevCoeff["quote"], disDebt))
        IN  Require(/\ amount # 0
                    /\ collateral >= Mul(e.price, q.params.positionMinAmount)
                    /\ collateral >= 0
                    /\ WithinLimit(q, e, "quote", got - fee)
                    /\ q.collateralCoeff["quote"] # 0,
              UNION {UNION {Enter([v EXCEPT
                         !.positions[u].amount["base"] = @ + disDebt,
                         !.discountedDebt["base"] = @ + disDebt,
                         !.positions[u].amount["quote"] = @ + disColl,
                         !.discountedCollateral["quote"] = @ + disColl], e, u, "Short") :
                       v \in ChargeFee(r, fee)} :
                     r \in SwapExactInput(q, e, "base", amount,
                                          MulDiv(limit, amount, Q96))})
  IN  UNION {Borrow(q) : q \in Sell(p, e, u, "base", limit)}

\* amount of base is bought as collateral with borrowed quote.
Long(p, e, u, amount, limit) ==
  LET Borrow(q) ==
        LET s == q.positions[u]
            collateral == RealCollateral(q, "base", s.amount["base"], s.amount["quote"])
            cost == InputFor(e, "quote", amount)
            fee == SwapFee(q, cost)
            disDebt == RecipMul(q.debtCoeff["quote"], cost + fee)
            disColl == RecipMul(q.collateralCoeff["base"],
                                amount + Mul(q.delevCoeff["base"], disDebt))
        IN  Require(/\ amount # 0
                    /\ collateral >= q.params.positionMinAmount
                    /\ q.collateralCoeff["base"] # 0,
              UNION {UNION {Enter([v EXCEPT
                         !.positions[u].amount["quote"] = @ + disDebt,
                         !.discountedDebt["quote"] = @ + disDebt,
                         !.positions[u].amount["base"] = @ + disColl,
                         !.discountedCollateral["base"] = @ + disColl], e, u, "Long") :
                       v \in ChargeFee(r, fee)} :
                     r \in SwapExactOutput(q, e, "quote",
                                           MulDiv(limit, amount, Q96), amount)})
  IN  Require(WithinLimit(p, e, "base", amount),
              UNION {Borrow(q) : q \in Sell(p, e, u, "quote", limit)})

-----------------------------------------------------------------------------
(* syncBaseBalance, syncQuoteBalance: the technical position takes the     *)
(* difference between what the pool owns and what its books say.           *)

\* Mutant of SyncBalance: the position alone gets the difference.
SyncTechPosition(p, t) ==
  LET surplus == PoolDebt(p, t) + p.balance[t] - PoolCollateral(p, t)
  IN  {[p EXCEPT !.positions[TechPositionOwner].amount[t] =
                   @ + RecipMul(p.collateralCoeff[t], surplus)]}

SyncBalance(p, t) ==
  LET actual == PoolDebt(p, t) + p.balance[t]
      surplus == actual - PoolCollateral(p, t)
      delta == IF surplus > 0 THEN RecipMul(p.collateralCoeff[t], surplus)
                              ELSE -RecipMul(p.collateralCoeff[t], -surplus)
  IN  Require(PoolCollateral(p, t) >= 0 /\ p.collateralCoeff[t] # 0,
              Unsigned([p EXCEPT !.positions[TechPositionOwner].amount[t] = @ + delta,
                                 !.discountedCollateral[t] = @ + delta]))

SyncBalances(p) == UNION {SyncBalance(q, "quote") : q \in SyncBalance(p, "base")}

-----------------------------------------------------------------------------
(* receivePosition: the caller, who must have no position, takes over that *)
(* of bad with pay[t] of each token added.                                 *)

\* Mutant of Liquidatable: every margin position is.
AnyMarginPosition(p, e, s) == LeverageDefined(p, s) /\ s.type \in Sides

Liquidatable(p, e, s) == LeverageDefined(p, s) /\ HasBadLeverage(p, e, s)

ReceivePosition(p0, e, u, bad, pay) ==
  LET Receive(p) ==
        LET s == p.positions[bad]
            t == DebtToken(s.type)
            c == Other(t)
            realDebt == RealDebt(p, t, s.amount[t])
            full == pay[t] >= realDebt
            disPaid == RecipMul(p.collateralCoeff[c], pay[c])
            disDebt == IF full THEN s.amount[t] ELSE RecipMul(p.debtCoeff[t], pay[t])
            disRest == IF full THEN RecipMul(p.collateralCoeff[t], pay[t] - realDebt) ELSE 0
            freed == RecipMul(p.collateralCoeff[c], Mul(p.delevCoeff[c], disDebt))
            taken == [type   |-> IF full THEN "Lend" ELSE s.type,
                      inHeap |-> ~full,
                      amount |-> [x \in Tokens |->
                                    IF x = c THEN s.amount[c] + disPaid - freed
                                    ELSE IF full THEN disRest ELSE s.amount[t] - disDebt]]
            \* remove, or updateAccount: the node now belongs to u
            heap == [p.heap[s.type] EXCEPT
                       ![u] = IF full THEN NoKey ELSE p.heap[s.type][bad],
                       ![bad] = NoKey]
            q == [p EXCEPT !.positions[u] = taken,
                           !.heap[s.type] = heap,
                           !.discountedDebt[t] = @ - disDebt,
                           !.discountedCollateral[c] = @ + disPaid - freed,
                           !.discountedCollateral[t] = @ + disRest]
        IN  Require(/\ Liquidatable(p, e, s)
                    /\ p.collateralCoeff[c] # 0
                    /\ full => p.collateralCoeff[t] # 0
                    /\ s.inHeap,
              UNION {UNION {RequireGoodLeverage([w EXCEPT !.positions[bad] = NoPosition],
                                                e, u) :
                              w \in UpdateSystemLeverages(v, e)} :
                       v \in UNION {UpdateHeap(r, u) : r \in Unsigned(q)}})
  IN  Require(p0.mode = "Regular" /\ p0.positions[u].type = "Uninitialized",
              {TransferIn(TransferIn(q, "base", pay["base"]), "quote", pay["quote"]) :
                 q \in UNION {Receive(p) : p \in AccrueInterest(p0, e)}})

-----------------------------------------------------------------------------
(* Emergency: the owner shuts a pool down whose shorts (longs) together    *)
(* owe more than all the quote (base) there is; the others share the rest. *)
(* If the worst position of the other side is due for a margin call, the   *)
(* call is all that happens.                                               *)

\* The tokens t that are left over in the other token, exchanged, and the share
\* of its net position that every account of the good side gets.
SetEmergencyMode(p, e, t, collateral, debt, emergencyCollateral, emergencyDebt) ==
  LET mode == IF t = "base" THEN "ShortEmergency" ELSE "LongEmergency"
      surplus == emergencyCollateral - emergencyDebt
      spare == IF collateral >= debt THEN collateral - debt ELSE 0
      balance == spare + IF surplus > 0 THEN OutputOf(e, Other(t), surplus) ELSE 0
      net == IF t = "base" THEN Mul(e.price, collateral) - emergencyDebt
                           ELSE collateral - Mul(e.price, emergencyDebt)
  IN  Require(net > 0,
        {[q EXCEPT !.mode = mode,
                   !.initialPrice = e.price,
                   !.emergencyWithdrawCoeff = FromRatio(InQuote(e.price, t, balance), net)] :
           q \in IF surplus > 0 THEN SwapExactInput(p, e, Other(t), surplus, 0) ELSE {p}})

ShutDown(p, e) ==
  LET Decide(q) ==
        LET debt == [t \in Tokens |-> RealDebtUp(q, t, q.discountedDebt[t])]
            coll == [t \in Tokens |-> PoolCollateral(q, t)]
            shortEmergency == Mul(e.price, debt["base"]) > coll["quote"]
            longEmergency == debt["quote"] > Mul(e.price, coll["base"])
            t == IF shortEmergency THEN "base" ELSE "quote"
        IN  Require(/\ coll["base"] >= 0 /\ coll["quote"] >= 0
                    /\ shortEmergency \/ longEmergency,
              UNION {IF r.called # {} THEN {r}
                     ELSE {[pool |-> v, called |-> {}] :
                             v \in SetEmergencyMode(r.pool, e, t, coll[t], debt[t],
                                                    coll[Other(t)], debt[Other(t)])} :
                       \* the side that holds t, not the one that owes it
                       r \in ReinitRoot(q, e, SideOwing(Other(t)))})
  IN  Require(p.mode = "Regular",
              UNION {UNION {Decide(r) : r \in SyncBalances(q)} :
                       q \in AccrueInterest(p, e)})

\* Mutant of EmergencyNet: debts are not subtracted.
EmergencyGross(p, s) ==
  IF p.mode = "ShortEmergency"
  THEN RealCollateral(p, "base", s.amount["base"], s.amount["quote"])
  ELSE RealCollateral(p, "quote", s.amount["quote"], s.amount["base"])

\* What a position is worth in the token the emergency left, and its payout.
\* The amount in the other token counts as debt, whatever the position's type.
EmergencyNet(p, s) ==
  IF p.mode = "ShortEmergency"
  THEN RealCollateral(p, "base", s.amount["base"], s.amount["quote"])
       - RecipMul(p.initialPrice, RealDebt(p, "quote", s.amount["quote"]))
  ELSE RealCollateral(p, "quote", s.amount["quote"], s.amount["base"])
       - Mul(Mul(p.debtCoeff["base"], p.initialPrice), s.amount["base"])

EmergencyWithdraw(p, u) ==
  LET s == p.positions[u]
      t == IF p.mode = "ShortEmergency" THEN "base" ELSE "quote"
      net == EmergencyNet(p, s)
  IN  Require(/\ p.mode # "Regular"
              /\ s.type \notin {"Uninitialized", SideOwing(t)}
              /\ net >= 0,
              TransferOut([p EXCEPT !.positions[u] = NoPosition], t,
                          Mul(p.emergencyWithdrawCoeff, net)))

-----------------------------------------------------------------------------
(* execute: the call c of u, after interest and margin calls.  It returns  *)
(* the pool, who was margin called, and whether c itself was carried out.  *)

CallTypes == {"DepositBase", "DepositQuote", "WithdrawBase", "WithdrawQuote", "Short",
              "Long", "ClosePosition", "Reinit", "ReceivePosition", "EmergencyWithdraw"}

Call(p, e, u, c) ==
  LET Leveraged(q) ==
        IF c.amount2 = 0 THEN {q}
        ELSE IF (c.amount2 > 0) = (c.call = "DepositBase")
             THEN Long(q, e, u, IF c.amount2 > 0 THEN c.amount2 ELSE -c.amount2, c.limit)
             ELSE Short(q, e, u, IF c.amount2 > 0 THEN c.amount2 ELSE -c.amount2, c.limit)
      t == IF c.call \in {"DepositBase", "WithdrawBase"} THEN "base" ELSE "quote"
  IN  CASE c.call \in {"DepositBase", "DepositQuote"} ->
             UNION {Leveraged(q) : q \in Deposit(p, e, u, t, c.amount1)}
        [] c.call \in {"WithdrawBase", "WithdrawQuote"} -> Withdraw(p, e, u, t, c.amount1)
        [] c.call = "Short" -> Short(p, e, u, c.amount1, c.limit)
        [] c.call = "Long" -> Long(p, e, u, c.amount1, c.limit)
        [] c.call = "ClosePosition" -> ClosePosition(p, e, u, c.limit)
        [] c.call = "Reinit" -> IF c.flag THEN SyncBalances(p) ELSE {p}

Execute(p, e, u, c) ==
  LET Result(q, called, done) == [pool |-> q, called |-> called, done |-> done]
      After(r) ==
        IF u \in r.called
        THEN {Result(q, r.called, FALSE) : q \in UpdateSystemLeverages(r.pool, e)}
        ELSE IF ~LeverageDefined(r.pool, r.pool.positions[u]) THEN {}
        ELSE IF HasBadLeverage(r.pool, e, r.pool.positions[u])
        THEN {Result(v, r.called \cup {u}, FALSE) :
                v \in UNION {UpdateSystemLeverages(q, e) : q \in Liquidate(r.pool, e, u)}}
        ELSE {Result(w, r.called, TRUE) :
                w \in UNION {UpdateSystemLeverages(v, e) :
                        v \in UNION {UpdateHeap(q, u) : q \in Call(r.pool, e, u, c)}}}
  IN  IF c.call = "ReceivePosition"
      THEN Require(c.amount2 >= 0,
             {Result(q, {}, TRUE) :
                q \in ReceivePosition(p, e, u, c.from, [t \in Tokens |->
                        IF t = "quote" THEN c.amount1 ELSE c.amount2])})
      ELSE IF c.call = "EmergencyWithdraw"
      THEN {Result(q, {}, TRUE) : q \in EmergencyWithdraw(p, u)}
      ELSE Require(p.mode = "Regular", UNION {After(r) : r \in Reinit(p, e)})
=============================================================================
