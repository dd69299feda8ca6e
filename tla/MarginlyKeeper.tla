--------------------------- MODULE MarginlyKeeper ---------------------------
(***************************************************************************)
(* keepers/MarginlyKeeper.sol and the contracts that feed it a flash loan: *)
(* with borrowed tokens the keeper takes a bad position over, withdraws    *)
(* what is left of it, sells the collateral, and pays the loan back, all   *)
(* in one transaction, which reverts when any step does.                   *)
(***************************************************************************)
EXTENDS PoolCalls, Sequences

CONSTANTS KeeperContract,   \* its address
          LoanFee,          \* what a loan costs, of WHOLE_ONE
          MinProfit         \* minProfitBase and minProfitQuote

ASSUME MarginlyKeeperAssumption == KeeperContract \in Accounts

\* type(uint256).max stands for all there is.
Everything == 2 ^ 20
CallBy(account, call) ==
  [user |-> account,
   call |-> [call |-> call, amount1 |-> Everything, amount2 |-> 0, limit |-> 0, flag |-> FALSE,
             from |-> NoAccount]]
Receipt(bad, t, amount) ==
  [user |-> KeeperContract,
   call |-> [call |-> "ReceivePosition", amount1 |-> IF t = "quote" THEN amount ELSE 0,
             amount2 |-> IF t = "base" THEN amount ELSE 0, limit |-> 0, flag |-> FALSE,
             from |-> bad]]

\* Calls in one transaction: the pool after them and who was margin called.
Transaction(p, e, steps) ==
  LET after[n \in 0 .. Len(steps)] ==
        IF n = 0 THEN {[pool |-> p, called |-> {}]}
        ELSE UNION {{[pool |-> x.pool, called |-> r.called \cup x.called] :
                       x \in Execute(r.pool, e, steps[n].user, steps[n].call)} :
                      r \in after[n - 1]}
  IN  after[Len(steps)]

\* Mutant of Withdrawals: what is left of the borrowed token stays in the pool.
WithdrawCollateral(t) ==
  <<CallBy(KeeperContract, IF t = "quote" THEN "WithdrawBase" ELSE "WithdrawQuote")>>

\* First base, then quote, each of which must be there.
Withdrawals(t) ==
  <<CallBy(KeeperContract, "WithdrawBase"), CallBy(KeeperContract, "WithdrawQuote")>>

\* The calls of _liquidateAndTakeProfit; amount of t is borrowed.
LiquidationCalls(bad, t, amount) == <<Receipt(bad, t, amount)>> \o Withdrawals(t)

\* What came out of pool p until it was q pays the loan back and leaves a profit.
TakesProfit(p, q, e, t, amount) ==
  LET payback == amount + MulDiv(amount, LoanFee, WHOLE_ONE)
      sold == OutputOf(e, Other(t), p.balance[Other(t)] - q.balance[Other(t)])
      out == p.balance[t] + amount - q.balance[t] + sold
  IN  out > payback /\ out - payback >= MinProfit
=============================================================================
