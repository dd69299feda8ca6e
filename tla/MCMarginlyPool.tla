--------------------------- MODULE MCMarginlyPool ---------------------------
(***************************************************************************)
(* Small instances of MarginlyPool.  One token is one unit, Q96 is 10^4,   *)
(* the first price is 2 quote per base.  A run starts from a pool that     *)
(* people have used: Funded is the outcome of a list of calls to a new one.*)
(***************************************************************************)
EXTENDS MarginlyPool, SequencesExt

CONSTANTS tech, alice, bob, carol, dave, erin

Market(price, mcPrice, spot) == [price |-> price, mcPrice |-> mcPrice, spot |-> spot]
Level(price) == Market(price, price, price)

\* Prices a caller accepts: any, above or below.
AnyLow == 1
AnyHigh == 100000

CallOf(call, amount1, amount2, limit) ==
  [call |-> call, amount1 |-> amount1, amount2 |-> amount2, limit |-> limit,
   flag |-> FALSE, from |-> NoAccount]
Sync == [CallOf("Reinit", 0, 0, 0) EXCEPT !.flag = TRUE]
Receive(bad, quote, base) ==
  [CallOf("ReceivePosition", quote, base, 0) EXCEPT !.from = bad]

DefaultParams ==
  [maxLeverage |-> 5, interestRate |-> 100, fee |-> 20, swapFee |-> 10,
   mcSlippage |-> 100, positionMinAmount |-> 5, quoteLimit |-> 2000]

\* The pool after the calls of steps, <<account, call>>, at the environment e.
Used(e, steps) ==
  LET Step(p, step) ==
        LET results == Execute(p, e, step[1], step[2])
        IN  IF results = {} THEN p ELSE (CHOOSE r \in results : TRUE).pool
  IN  FoldLeft(Step, InitialPool(DefaultParams, e), steps)

Opening == Block(1, Level(20000))
StartFrom(histories) ==
  /\ env = Opening
  /\ pool \in {Used(Opening, steps) : steps \in histories}
  /\ last = Nobody
  /\ txs = 0

\* Carol lends; Alice is long and Bob is short.
TradingHistory ==
  << <<carol, CallOf("DepositBase", 200, 0, 0)>>,
     <<carol, CallOf("DepositQuote", 400, 0, 0)>>,
     <<alice, CallOf("DepositBase", 40, 60, AnyHigh)>>,
     <<bob, CallOf("DepositQuote", 80, 30, AnyLow)>> >>
TradingSpec == StartFrom({TradingHistory}) /\ [][Next]_vars

MCAccounts == {tech, alice, bob, carol, dave}
MCTraders == {alice, bob}
TradingCalls ==
  {CallOf("DepositBase", 35, 0, 0), CallOf("DepositQuote", 75, 30, AnyLow),
   CallOf("DepositBase", 40, 60, AnyHigh),
   CallOf("WithdrawBase", 20, 0, 0), CallOf("WithdrawBase", 1000, 0, 0),
   CallOf("WithdrawQuote", 1000, 0, 0),
   CallOf("Short", 25, 0, AnyLow), CallOf("Long", 25, 0, AnyHigh),
   CallOf("ClosePosition", 0, 0, AnyLow), CallOf("ClosePosition", 0, 0, AnyHigh),
   Sync}
TradingMarkets == {Level(20000), Level(14000), Level(42000)}
TradingParams == {DefaultParams}
NoDonations == {}

\* Bob is short against all the base there is, Alice long against his collateral; or
\* Alice is long against all the quote and Bob short against hers.  Among the calls are a
\* deposit of one unit and a short, which meet after a loss: the sale that comes before
\* the short leaves a deposit of no real value in place.
ShortHistory ==
  << <<carol, CallOf("DepositBase", 200, 0, 0)>>,
     <<bob, CallOf("DepositQuote", 40, 60, AnyLow)>>,
     <<alice, CallOf("DepositBase", 30, 20, AnyHigh)>> >>
LongHistory ==
  << <<carol, CallOf("DepositQuote", 400, 0, 0)>>,
     <<alice, CallOf("DepositBase", 30, 90, AnyHigh)>>,
     <<bob, CallOf("DepositQuote", 60, 20, AnyLow)>> >>
EmergencySpec == StartFrom({ShortHistory, LongHistory}) /\ [][Next]_vars
EmergencyTraders == {alice, bob, carol}
EmergencyCalls ==
  {CallOf("EmergencyWithdraw", 0, 0, 0), CallOf("Reinit", 0, 0, 0),
   CallOf("WithdrawBase", 1000, 0, 0), CallOf("WithdrawQuote", 30, 0, 0),
   CallOf("DepositBase", 25, 0, 0), CallOf("DepositQuote", 25, 0, 0),
   CallOf("DepositBase", 1, 0, 0), CallOf("Short", 25, 0, AnyLow)}
EmergencyMarkets == {Level(20000), Level(34000), Level(11000)}

\* Shorts that the pool can only be rid of by deleverage: nearly all the quote is
\* lent to Alice.  Dave and Erin have no position and may take one over; the owner changes
\* parameters and tokens arrive from outside.  The other pool is a new one.
TightHistory ==
  << <<carol, CallOf("DepositBase", 200, 0, 0)>>,
     <<carol, CallOf("DepositQuote", 200, 0, 0)>>,
     <<alice, CallOf("DepositBase", 60, 90, AnyHigh)>>,
     <<bob, CallOf("DepositQuote", 60, 40, AnyLow)>>,
     <<alice, CallOf("Long", 40, 0, AnyHigh)>> >>
TightSpec == StartFrom({TightHistory, <<>>}) /\ [][Next]_vars
TightAccounts == MCAccounts \cup {erin}
TightTraders == {bob, dave}
TightCalls ==
  {Sync, CallOf("Reinit", 0, 0, 0), CallOf("DepositBase", 25, 0, 0),
   CallOf("DepositBase", 50, 0, 0), CallOf("Long", 20, 0, AnyHigh),
   CallOf("WithdrawBase", 1000, 0, 0), CallOf("ClosePosition", 0, 0, AnyHigh),
   Receive(alice, 60, 0), Receive(alice, 400, 0), Receive(bob, 60, 10),
   Receive(bob, 0, 60)}
TightMarkets == {Level(20000), Level(13500), Level(29000), Market(29000, 29000, 34000)}
TightParams ==
  {DefaultParams, [DefaultParams EXCEPT !.maxLeverage = 3],
   [DefaultParams EXCEPT !.positionMinAmount = 0]}
TightDonations == {[t |-> "quote", x |-> 30]}

\* A lender of both tokens when the shorts owe more than there is.
BothTokensHistory ==
  << <<carol, CallOf("DepositBase", 200, 0, 0)>>,
     <<carol, CallOf("DepositQuote", 20, 0, 0)>>,
     <<bob, CallOf("DepositQuote", 40, 60, AnyLow)>> >>
BothTokensSpec == StartFrom({BothTokensHistory}) /\ [][Next]_vars

\* The owner of the technical position trades, too.
OwnerTraders == {tech}
=============================================================================
