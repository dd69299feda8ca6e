---------------------------- MODULE PoolWatcher ----------------------------
(***************************************************************************)
(* keeper/src/PoolWatcher.ts with common/src/marginly-accrued-rate.ts and  *)
(* common/src/math.ts: how the keeper service finds out, off the chain,    *)
(* which positions the pool would call.  It repeats the pool's accrual of  *)
(* interest on numbers it has read, in big integers that have a sign.      *)
(***************************************************************************)
EXTENDS PoolCalls

Abs(x) == IF x < 0 THEN -x ELSE x

\* BigNumber.div truncates.
BigDiv(a, b) == IF (a < 0) = (b < 0) THEN Abs(a) \div Abs(b) ELSE -(Abs(a) \div Abs(b))

\* x >= y on two BigNumbers, which JavaScript compares as decimal strings.
Digits(x) == CHOOSE n \in 1 .. 9 : x < 10 ^ n /\ (n = 1 \/ x >= 10 ^ (n - 1))
StringAtLeast(x, y) ==
  LET n == Digits(x)
      m == Digits(y)
  IN  IF n >= m THEN x \div 10 ^ (n - m) >= y ELSE x * 10 ^ (m - n) > y

\* powTaylor throws "x can't be greater than FP.one, series diverges".
SeriesDiverges(base) == StringAtLeast(base - One, One)

-----------------------------------------------------------------------------
(* What the watcher reads.                                                 *)

\* The coefficients, with the two deleverage coefficients in each other's place.
ReadCoeffs(p) ==
  [collateral |-> p.collateralCoeff, debt |-> p.debtCoeff,
   delev |-> [t \in Tokens |-> p.delevCoeff[Other(t)]]]

\* Mutant of OnePlusFee: only the interest is paid.
NoFee(params) == One

OnePlusFee(params) == FromRatio(params.fee, WHOLE_ONE) \div SECONDS_IN_YEAR + One
OnePlusIR(p, params, t) ==
  Mul(FromRatio(params.interestRate, WHOLE_ONE), p.systemLeverage[SideOwing(t)])
    \div SECONDS_IN_YEAR + One
accruedRateDt(p, params, t, secondsPassed) ==
  PowTaylor(OnePlusIR(p, params, t), secondsPassed)

\* Mutant of WatchedCollateral: without the coefficients.
DiscountedAmount(coeffs, t, disCollateral, disDebt) == disCollateral

WatchedCollateral(coeffs, t, disCollateral, disDebt) ==
  BigDiv(coeffs.collateral[t] * disCollateral, One) - Mul(coeffs.delev[t], disDebt)

\* calcBaseCoeffs, calcQuoteCoeffs: p is the pool whose aggregates are read, coeffs
\* and params may be from an earlier block.
CalcCoeffs(p, params, coeffs, t, secondsPassed) ==
  LET rate == accruedRateDt(p, params, t, secondsPassed)
      feeDt == PowTaylor(OnePlusFee(params), secondsPassed)
      realCollateral == WatchedCollateral(coeffs, t, p.discountedCollateral[t],
                                          p.discountedDebt[Other(t)])
      interest == Mul(rate - One, Mul(coeffs.debt[t], p.discountedDebt[t]))
      factor == One + BigDiv(interest * One, realCollateral)
  IN  [collateral |-> BigDiv(coeffs.collateral[t] * factor, One),
       delev      |-> BigDiv(coeffs.delev[t] * factor, One),
       debt       |-> Mul(coeffs.debt[t], Mul(rate, feeDt))]

\* calcCoefficients, and whether it throws: powTaylor refuses a rate, or there is a
\* division by zero.
CoefficientsThrow(p, now, params, coeffs) ==
  /\ now # p.lastReinit
  /\ \/ SeriesDiverges(OnePlusFee(params))
     \/ \E t \in Tokens :
          /\ p.discountedCollateral[t] # 0
          /\ \/ SeriesDiverges(OnePlusIR(p, params, t))
             \/ WatchedCollateral(coeffs, t, p.discountedCollateral[t],
                                  p.discountedDebt[Other(t)]) = 0
calcCoefficients(p, now, params, coeffs) ==
  LET new == [t \in Tokens |-> CalcCoeffs(p, params, coeffs, t, now - p.lastReinit)]
      Updated(f, field) ==
        [t \in Tokens |-> IF p.discountedCollateral[t] = 0 THEN f[t] ELSE new[t][field]]
  IN  IF now = p.lastReinit THEN coeffs
      ELSE [collateral |-> Updated(coeffs.collateral, "collateral"),
            debt |-> Updated(coeffs.debt, "debt"),
            delev |-> Updated(coeffs.delev, "delev")]

-----------------------------------------------------------------------------
(* checkPosition: the position s at the coefficients and the price seen.   *)

WatchedDebt(coeffs, s) == Mul(coeffs.debt[DebtToken(s.type)], s.amount[DebtToken(s.type)])
WatchedCollateralValue(coeffs, price, s) ==
  LET t == DebtToken(s.type)
      c == Other(t)
      collateral == WatchedCollateral(coeffs, c, s.amount[c], s.amount[t])
  IN  IF c = "base" THEN BigDiv(collateral * price, One) ELSE collateral
Equity(coeffs, price, s) ==
  WatchedCollateralValue(coeffs, price, s)
    - InQuote(price, DebtToken(s.type), WatchedDebt(coeffs, s))

\* The leverage is collateral by equity: no equity is a division by zero, and a
\* leverage below zero exceeds no maximum.
CheckThrows(coeffs, price, s) == s.type \in Sides /\ Equity(coeffs, price, s) = 0
IsBad(coeffs, price, maxLeverage, s) ==
  /\ s.type \in Sides
  /\ BigDiv(WatchedCollateralValue(coeffs, price, s) * One, Equity(coeffs, price, s))
       > maxLeverage * One

\* Mutant of LoanAmount: exactly the debt.
ExactDebt(coeffs, s) == WatchedDebt(coeffs, s)

\* The debt and one percent more.
LoanAmount(coeffs, s) == (WatchedDebt(coeffs, s) * 1010) \div 1000
=============================================================================
