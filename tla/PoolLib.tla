------------------------------ MODULE PoolLib ------------------------------
(***************************************************************************)
(* The functions of MarginlyPool.sol over a pool, the record that holds    *)
(* the storage of the contract.  The contract has every accounting rule    *)
(* twice, for base and for quote; here a rule has the token t as parameter *)
(* and reads the storage variable of that token: collateralCoeff["base"]   *)
(* is baseCollateralCoeff.                                                 *)
(*                                                                         *)
(* A function that changes storage is the SET of pools it can return: one  *)
(* pool, none when it reverts, several when the two heaps leave open which *)
(* of equal keys is at the root.  e is the environment of the transaction: *)
(* time, oracle prices and the price of the exchange behind the router.    *)
(***************************************************************************)
EXTENDS FixedPoint, FiniteSets

CONSTANTS Accounts,            \* addresses that can own a position
          NoAccount,           \* no address
          TechPositionOwner,   \* factory.techPositionOwner()
          WHOLE_ONE,           \* denominator of rates and fees, 1e6 in the code
          SECONDS_IN_YEAR,     \* a year in the units of time
          Uint96Max,           \* largest sort key
          Uint128              \* systemLeverage wraps here

ASSUME PoolAssumption ==
  /\ IsFiniteSet(Accounts)
  /\ TechPositionOwner \in Accounts
  /\ NoAccount \notin Accounts
  /\ WHOLE_ONE \in Nat \ {0}
  /\ SECONDS_IN_YEAR \in Nat \ {0}
  /\ Uint96Max \in Nat
  /\ Uint128 \in Nat /\ Q96 < Uint128

Tokens == {"base", "quote"}
Sides == {"Short", "Long"}
PositionTypes == {"Uninitialized", "Lend"} \cup Sides
Modes == {"Regular", "ShortEmergency", "LongEmergency"}
NoKey == -1                     \* not in the heap
MIN_LEVERAGE == 2

Other(t) == IF t = "base" THEN "quote" ELSE "base"
\* A Short owes base against quote, a Long owes quote against base.
SideOwing(t) == IF t = "base" THEN "Short" ELSE "Long"
DebtToken(side) == IF side = "Short" THEN "base" ELSE "quote"

\* An amount of Other(t) in units of t; an amount of t in units of quote.
Exchange(price, t, x) == IF t = "base" THEN RecipMul(price, x) ELSE Mul(price, x)
InQuote(price, t, x) == IF t = "base" THEN Mul(price, x) ELSE x

Require(condition, pools) == IF condition THEN pools ELSE {}

\* Mutants of Unsigned: differences wrap, or those of the aggregates end at zero.
SignedStorage(p) == {p}
SaturatedStorage(p) ==
  {[p EXCEPT !.discountedDebt = [t \in Tokens |-> IF @[t] < 0 THEN 0 ELSE @[t]],
             !.discountedCollateral = [t \in Tokens |-> IF @[t] < 0 THEN 0 ELSE @[t]]]}

\* Storage is unsigned: a difference below zero reverts.
Unsigned(p) ==
  Require(\A t \in Tokens :
            /\ p.discountedCollateral[t] >= 0 /\ p.discountedDebt[t] >= 0
            /\ \A a \in Accounts : p.positions[a].amount[t] >= 0,
          {p})

NoPosition ==
  [type |-> "Uninitialized", inHeap |-> FALSE, amount |-> [t \in Tokens |-> 0]]

InitialPool(params, e) ==
  [mode                   |-> "Regular",
   params                 |-> params,
   positions              |->
     [a \in Accounts |->
        IF a = TechPositionOwner THEN [NoPosition EXCEPT !.type = "Lend"]
                                 ELSE NoPosition],
   discountedCollateral   |-> [t \in Tokens |-> 0],
   discountedDebt         |-> [t \in Tokens |-> 0],
   collateralCoeff        |-> [t \in Tokens |-> One],
   delevCoeff             |-> [t \in Tokens |-> 0],
   debtCoeff              |-> [t \in Tokens |-> One],
   initialPrice           |-> e.price,
   emergencyWithdrawCoeff |-> 0,
   systemLeverage         |-> [s \in Sides |-> 0],
   lastReinit             |-> e.now,
   heap                   |-> [s \in Sides |-> [a \in Accounts |-> NoKey]],
   balance                |-> [t \in Tokens |-> 0]]

-----------------------------------------------------------------------------
(* Real amounts.  A negative collateral means the code's sub reverts.      *)

RealDebt(p, t, disDebt) == Mul(p.debtCoeff[t], disDebt)
RealDebtUp(p, t, disDebt) == MulUp(p.debtCoeff[t], disDebt)

\* Mutant of RealCollateral: what a deleverage took is forgotten.
RealCollateralBeforeDeleverage(p, t, disCollateral, disDebt) ==
  Mul(p.collateralCoeff[t], disCollateral)

RealCollateral(p, t, disCollateral, disDebt) ==
  Mul(p.collateralCoeff[t], disCollateral) - Mul(p.delevCoeff[t], disDebt)

PoolCollateral(p, t) ==
  RealCollateral(p, t, p.discountedCollateral[t], p.discountedDebt[Other(t)])

PoolDebt(p, t) == RealDebt(p, t, p.discountedDebt[t])

\* Collateral of a position in t, of which only the other token can be owed.
PositionCollateral(p, s, t) ==
  RealCollateral(p, t, s.amount[t],
                 IF s.type = SideOwing(Other(t)) THEN s.amount[Other(t)] ELSE 0)

\* newPoolBaseBalance, newPoolQuoteBalance: with extra more collateral in t.
NewPoolBalance(p, t, extra) ==
  PoolCollateral(p, t) + extra - RealDebtUp(p, t, p.discountedDebt[t])

WithinLimit(p, e, t, extra) ==
  LET balance == NewPoolBalance(p, t, extra)
  IN  balance >= 0 /\ InQuote(e.price, t, balance) <= p.params.quoteLimit

-----------------------------------------------------------------------------
(* The heaps, as PriorityMap promises them; inHeap is heapPosition # 0.    *)

HeapRoots(h) ==
  IF \A a \in Accounts : h[a] = NoKey
  THEN {NoAccount}
  ELSE {a \in Accounts : h[a] # NoKey /\ \A b \in Accounts : h[b] <= h[a]}

HeapInsert(p, side, u) ==
  [p EXCEPT !.heap[side][u] = 0, !.positions[u].inHeap = TRUE]

\* Mutant of HeapRemove: the node stays in the heap.
HeapForget(p, side, u) ==
  Require(p.positions[u].inHeap, {[p EXCEPT !.positions[u].inHeap = FALSE]})

\* remove(positions, heapPosition - 1) reverts on a zero heapPosition.
HeapRemove(p, side, u) ==
  Require(p.positions[u].inHeap /\ p.heap[side][u] # NoKey,
          {[p EXCEPT !.heap[side][u] = NoKey, !.positions[u].inHeap = FALSE]})

\* Mutant of SortKey: collateral by debt.
SortKeyInverted(p, s) ==
  LET collateral == IF s.type = "Long" THEN Mul(p.initialPrice, s.amount["base"])
                                       ELSE s.amount["quote"]
      debt == IF s.type = "Long" THEN s.amount["quote"]
                                 ELSE Mul(p.initialPrice, s.amount["base"])
      key == MulDiv(Q48, collateral, debt)
  IN  IF debt = 0 \/ key > Uint96Max THEN Uint96Max ELSE key

SortKey(p, s) ==
  LET collateral == IF s.type = "Long" THEN Mul(p.initialPrice, s.amount["base"])
                                       ELSE s.amount["quote"]
      debt == IF s.type = "Long" THEN s.amount["quote"]
                                 ELSE Mul(p.initialPrice, s.amount["base"])
      key == MulDiv(Q48, debt, collateral)
  IN  IF collateral = 0 \/ key > Uint96Max THEN Uint96Max ELSE key

\* Mutant of UpdateHeap: it leaves out the shorts.
UpdateLongHeap(p, u) ==
  LET s == p.positions[u] IN
  IF s.type = "Long" THEN {[p EXCEPT !.heap["Long"][u] = SortKey(p, s)]} ELSE {p}

UpdateHeap(p, u) ==
  LET s == p.positions[u] IN
  IF s.type \in Sides
  THEN Require(s.inHeap, {[p EXCEPT !.heap[s.type][u] = SortKey(p, s)]})
  ELSE {p}

-----------------------------------------------------------------------------
(* Leverage.                                                               *)

\* Both sides of a margin position in quote.  The debt of a Short is valued
\* with the coefficient and the price multiplied first.
CollateralValue(p, e, s) ==
  InQuote(e.price, Other(DebtToken(s.type)),
          PositionCollateral(p, s, Other(DebtToken(s.type))))
DebtValue(p, e, s) ==
  IF s.type = "Short"
  THEN Mul(Mul(p.debtCoeff["base"], e.price), s.amount["base"])
  ELSE RealDebt(p, "quote", s.amount["quote"])

\* positionHasBadLeverage; it reverts unless LeverageDefined.
LeverageDefined(p, s) ==
  s.type \in Sides => PositionCollateral(p, s, Other(DebtToken(s.type))) >= 0
HasBadLeverage(p, e, s) ==
  /\ s.type \in Sides
  /\ LET collateral == CollateralValue(p, e, s)
         debt == DebtValue(p, e, s)
     IN  \/ collateral <= debt
         \/ MulDiv(Q96, collateral, collateral - debt) > p.params.maxLeverage * Q96

\* Mutant of RequireGoodLeverage: no check.
AnyLeverage(p, e, u) == {p}

RequireGoodLeverage(p, e, u) ==
  Require(/\ LeverageDefined(p, p.positions[u])
          /\ ~HasBadLeverage(p, e, p.positions[u]), {p})

\* Mutant of SystemLeverage: no collateral is not a case of its own.
SystemLeverageOfSome(p, e, side) ==
  LET t == Other(DebtToken(side))
      collateral == InQuote(e.price, t, PoolCollateral(p, t))
      debt == InQuote(e.price, Other(t), PoolDebt(p, Other(t)))
  IN  IF collateral <= debt THEN {} ELSE {MulDiv(Q96, collateral, collateral - debt)}

\* updateSystemLeverageLong, updateSystemLeverageShort: the collateral they look
\* at is that of the token a side holds, its debt the token the side owes.
SystemLeverage(p, e, side) ==
  LET t == Other(DebtToken(side))
      collateral == InQuote(e.price, t, PoolCollateral(p, t))
      debt == IF side = "Short"
              THEN Mul(Mul(p.debtCoeff["base"], e.price), p.discountedDebt["base"])
              ELSE PoolDebt(p, "quote")
      leverage == MulDiv(Q96, collateral, collateral - debt) % Uint128
      max == p.params.maxLeverage * Q96
  IN  IF p.discountedCollateral[t] = 0 THEN {Q96}
      ELSE IF PoolCollateral(p, t) < 0 \/ collateral <= debt THEN {}
      ELSE {IF leverage < max THEN leverage ELSE max}

\* Reverts when all the debts of a side are worth all the collateral behind them.
UpdateSystemLeverages(p, e) ==
  {[p EXCEPT !.systemLeverage = [s \in Sides |-> IF s = "Short" THEN sh ELSE lo]] :
     sh \in SystemLeverage(p, e, "Short"), lo \in SystemLeverage(p, e, "Long")}

-----------------------------------------------------------------------------
(* Swaps on the exchange behind the router, at the price of the            *)
(* environment: the pool spends tokens it must own.                        *)

Trade(p, from, in, out) ==
  Require(p.balance[from] >= in,
          {[p EXCEPT !.balance[from] = @ - in, !.balance[Other(from)] = @ + out]})

OutputOf(e, from, in) == Exchange(e.spot, Other(from), in)
InputFor(e, from, out) ==
  IF from = "quote" THEN MulUp(e.spot, out) ELSE MulDivUp(Q96, out, e.spot)

SwapExactInput(p, e, from, in, minOut) ==
  Require(OutputOf(e, from, in) >= minOut, Trade(p, from, in, OutputOf(e, from, in)))
SwapExactOutput(p, e, from, maxIn, out) ==
  Require(InputFor(e, from, out) <= maxIn, Trade(p, from, InputFor(e, from, out), out))

\* ERC-20 transfers out of and into the pool, which owns what it sends.
TransferOut(p, t, x) == Require(p.balance[t] >= x, {[p EXCEPT !.balance[t] = @ - x]})
TransferIn(p, t, x) == [p EXCEPT !.balance[t] = @ + x]

SwapFee(p, x) == MulDiv(p.params.swapFee, x, WHOLE_ONE)
ChargeFee(p, x) == TransferOut(p, "quote", x)

-----------------------------------------------------------------------------
(* Interest.                                                               *)

\* Mutants of UpdateCollateralCoeffs: lenders get no share, or div instead of mul.
UpdateDelevCoeffs(p, t, factor) == [p EXCEPT !.delevCoeff[t] = Mul(@, factor)]
DivideCollateralCoeffs(p, t, factor) == [p EXCEPT !.collateralCoeff[t] = Div(@, factor)]

UpdateCollateralCoeffs(p, t, factor) ==
  [p EXCEPT !.collateralCoeff[t] = Mul(@, factor), !.delevCoeff[t] = Mul(@, factor)]

\* The debt in t grows by the interest rate and the fee; the interest goes to the
\* collateral in t, the fee to the technical position whatever its type is.
AccrueToken(p, t, feeDt, secondsPassed) ==
  LET debtPrev == PoolDebt(p, t)
      rate == Mul(FromRatio(p.params.interestRate, WHOLE_ONE),
                  p.systemLeverage[SideOwing(t)])
      onePlusIR == rate \div SECONDS_IN_YEAR + One
      accruedRateDt == PowTaylor(onePlusIR, secondsPassed)
      interest == Mul(accruedRateDt - One, debtPrev)
      factor == One + FromRatio(interest, PoolCollateral(p, t))
      q == UpdateCollateralCoeffs(
             [p EXCEPT !.debtCoeff[t] = Mul(Mul(@, accruedRateDt), feeDt)], t, factor)
      fee == RecipMul(q.collateralCoeff[t],
                      Mul(Mul(accruedRateDt, feeDt - One), debtPrev))
  IN  IF p.discountedCollateral[t] = 0 THEN {p}
      ELSE Require(/\ PowTaylorDefined(onePlusIR)
                   /\ PoolCollateral(p, t) > 0
                   /\ q.collateralCoeff[t] # 0,
                   {[q EXCEPT !.positions[TechPositionOwner].amount[t] = @ + fee,
                              !.discountedCollateral[t] = @ + fee]})

\* Nothing accrues twice in one block.
AccrueInterest(p, e) ==
  LET secondsPassed == e.now - p.lastReinit
      onePlusFee == FromRatio(p.params.fee, WHOLE_ONE) \div SECONDS_IN_YEAR + One
      feeDt == PowTaylor(onePlusFee, secondsPassed)
  IN  IF secondsPassed = 0 THEN {p}
      ELSE Require(PowTaylorDefined(onePlusFee),
             UNION {AccrueToken(q, "quote", feeDt, secondsPassed) :
                      q \in AccrueToken([p EXCEPT !.lastReinit = e.now],
                                        "base", feeDt, secondsPassed)})
=============================================================================
