------------------------------ MODULE MCKeeper ------------------------------
(***************************************************************************)
(* A keeper beside a pool in which Alice is long and Bob is short.  Q96 is *)
(* 7921, whose digits begin like those of 2^96; the first price is 2.      *)
(***************************************************************************)
EXTENDS KeeperService

CONSTANTS tech, alice, bob, carol, keeper, signer

Level(price) == [price |-> price, mcPrice |-> price, spot |-> price]
CallOf(call, amount1, amount2, limit) ==
  [call |-> call, amount1 |-> amount1, amount2 |-> amount2, limit |-> limit,
   flag |-> FALSE, from |-> NoAccount]
AnyLow == 1
AnyHigh == 100000

KeeperParams ==
  [maxLeverage |-> 5, interestRate |-> 72, fee |-> 20, swapFee |-> 10,
   mcSlippage |-> 100, positionMinAmount |-> 5, quoteLimit |-> 4000]

Opening == Block(1, Level(2 * Q96))

\* The pool after the calls of steps, <<account, call>>.
Used(steps) ==
  LET Step(p, step) ==
        LET results == Execute(p, Opening, step[1], step[2])
        IN  IF results = {} THEN p ELSE (CHOOSE r \in results : TRUE).pool
  IN  FoldLeft(Step, InitialPool(KeeperParams, Opening), steps)

KeeperHistory ==
  << <<carol, CallOf("DepositBase", 400, 0, 0)>>,
     <<carol, CallOf("DepositQuote", 800, 0, 0)>>,
     <<alice, CallOf("DepositBase", 80, 160, AnyHigh)>>,
     <<bob, CallOf("DepositQuote", 180, 150, AnyLow)>> >>

StartFrom(history) ==
  /\ env = Opening
  /\ pool = Used(history)
  /\ last = Nobody
  /\ txs = 0
  /\ KeeperInit
KeeperSpec == StartFrom(KeeperHistory) /\ [][KeeperNext]_allVars
FairKeeperSpec == KeeperSpec /\ KeeperFairness

\* Nearly all the quote is lent to Alice: a margin call of Bob reduces her debt.
TightHistory ==
  << <<carol, CallOf("DepositBase", 200, 0, 0)>>,
     <<carol, CallOf("DepositQuote", 200, 0, 0)>>,
     <<alice, CallOf("DepositBase", 60, 90, AnyHigh)>>,
     <<bob, CallOf("DepositQuote", 60, 40, AnyLow)>>,
     <<alice, CallOf("Long", 40, 0, AnyHigh)>> >>
TightSpec == StartFrom(TightHistory) /\ [][KeeperNext]_allVars

KeeperAccounts == {tech, alice, bob, carol, keeper, signer}
KeeperTraders == {alice, carol}
KeeperCalls ==
  {CallOf("Long", 100, 0, AnyHigh), CallOf("WithdrawQuote", 2000, 0, 0),
   CallOf("ClosePosition", 0, 0, AnyLow)}
TightCalls == {CallOf("Reinit", 0, 0, 0)}
TightMarkets == {Level(2 * Q96), Level(22970), Level(10500)}
KeeperMarkets == {Level(2 * Q96), Level(11200), Level(10661), Level(20800)}
NoDonations == {}
LowerLeverage == {[KeeperParams EXCEPT !.maxLeverage = 2]}
=============================================================================
