-------------------------- MODULE PoolCalls_proofs --------------------------
(***************************************************************************)
(* Whom a call to the pool touches.  The lemmas follow the code function   *)
(* by function: each says which accounts may differ afterwards (Frame) and *)
(* that heaps and positions still fit (Placed, Keyed).  None depends on    *)
(* what the amounts are, but for withdrawBase and withdrawQuote.           *)
(*                                                                         *)
(* Functions that change the storage step by step are followed with one    *)
(* DEFINE per intermediate pool; most of them change the books only        *)
(* (Booked): coefficients, aggregates, balances.                           *)
(***************************************************************************)
EXTENDS PoolCalls, TLAPS

\* The fields of the storage, and the domains of those that a step is asked about.
Fields ==
  {"mode", "params", "positions", "discountedCollateral", "discountedDebt",
   "collateralCoeff", "delevCoeff", "debtCoeff", "initialPrice", "emergencyWithdrawCoeff",
   "systemLeverage", "lastReinit", "heap", "balance"}

Shape(p) ==
  /\ DOMAIN p = Fields
  /\ DOMAIN p.positions = Accounts
  /\ \A a \in Accounts : DOMAIN p.positions[a] = {"type", "inHeap", "amount"}
  /\ DOMAIN p.heap = Sides
  /\ \A side \in Sides : DOMAIN p.heap[side] = Accounts

\* Only the books change.
Booked(p, q) ==
  /\ Shape(q)
  /\ q.mode = p.mode /\ q.params = p.params /\ q.initialPrice = p.initialPrice
  /\ q.heap = p.heap
  /\ \A a \in Accounts : q.positions[a] = p.positions[a]

\* Only the accounts in S differ.
Frame(p, q, S) ==
  /\ Shape(q)
  /\ q.mode = p.mode /\ q.params = p.params /\ q.initialPrice = p.initialPrice
  /\ \A a \in Accounts \ S :
       /\ q.positions[a] = p.positions[a]
       /\ \A side \in Sides : q.heap[side][a] = p.heap[side][a]

\* The amounts of u change, not where it stands.
Moved(p, q, u) ==
  /\ Frame(p, q, {u})
  /\ q.heap = p.heap
  /\ q.positions[u].type = p.positions[u].type
  /\ q.positions[u].inHeap = p.positions[u].inHeap

\* An account without a position has nothing of one.
Blank(p, a) == p.positions[a].type = "Uninitialized" => p.positions[a] = NoPosition

\* An account is in the heap of its side, if it has one, and in no other.
Placed(p, a) ==
  /\ Blank(p, a)
  /\ p.positions[a].inHeap <=> p.positions[a].type \in Sides
  /\ \A side \in Sides : p.positions[a].type # side => p.heap[side][a] = NoKey

\* Two steps change no more than what either changes.
LEMMA FrameTransitive ==
  ASSUME NEW p, NEW q, NEW r, NEW S, NEW T, Frame(p, q, S), Frame(q, r, T)
  PROVE  Frame(p, r, S \cup T)
BY DEF Frame

\* Two changes of the books are one.
LEMMA BookedTransitive ==
  ASSUME NEW p, NEW q, NEW r, Booked(p, q), Booked(q, r)
  PROVE  Booked(p, r)
BY DEF Booked

\* A change of the books leaves every account alone.
LEMMA BookedFrame ==
  ASSUME NEW p, NEW q, NEW S, Booked(p, q)
  PROVE  Frame(p, q, S)
BY DEF Booked, Frame

\* A change of the books after a step adds no account to it.
LEMMA BookedFrames ==
  ASSUME NEW p, NEW q, NEW r, NEW S, Frame(p, q, S), Booked(q, r)
  PROVE  Frame(p, r, S)
BY DEF Booked, Frame

\* Amounts of u may change twice.
LEMMA MovedTransitive ==
  ASSUME NEW p, NEW q, NEW r, NEW u, Moved(p, q, u), Moved(q, r, u)
  PROVE  Moved(p, r, u)
<1>1. Frame(p, r, {u})
  BY FrameTransitive, {u} \cup {u} = {u} DEF Moved
<1>2. QED
  BY <1>1 DEF Moved

\* A change of the books moves no amount of u.
LEMMA BookedMoves ==
  ASSUME NEW p, NEW q, NEW u \in Accounts, Booked(p, q)
  PROVE  Moved(p, q, u)
BY BookedFrame DEF Booked, Moved

\* A trade changes what the pool owns and nothing else.
LEMMA TradeBooked ==
  ASSUME NEW p, Shape(p), NEW from, NEW in, NEW out, NEW q \in Trade(p, from, in, out)
  PROVE  Booked(p, q)
BY DEF Trade, Require, Booked, Shape, Fields

\* So do the swaps through the router.
LEMMA SwapsBooked ==
  ASSUME NEW p, Shape(p), NEW e, NEW from, NEW x, NEW y,
         NEW q \in SwapExactInput(p, e, from, x, y) \cup SwapExactOutput(p, e, from, x, y)
  PROVE  Booked(p, q)
BY TradeBooked DEF SwapExactInput, SwapExactOutput, Require

\* Tokens that leave or enter the pool change what it owns only.
LEMMA TransfersBooked ==
  ASSUME NEW p, Shape(p), NEW t, NEW x
  PROVE  /\ \A q \in TransferOut(p, t, x) : Booked(p, q)
         /\ \A q \in ChargeFee(p, x) : Booked(p, q)
         /\ Booked(p, TransferIn(p, t, x))
BY DEF TransferOut, TransferIn, ChargeFee, Require, Booked, Shape, Fields

\* A swap and the fee that is charged for it change the books only.
LEMMA FeesBooked ==
  ASSUME NEW p, Shape(p), NEW e, NEW from, NEW x, NEW y, NEW fee,
         NEW q \in SwapExactInput(p, e, from, x, y) \cup SwapExactOutput(p, e, from, x, y),
         NEW r \in ChargeFee(q, fee)
  PROVE  Booked(p, r)
<1>1. Booked(p, q)
  BY SwapsBooked
<1>2. Booked(q, r)
  BY <1>1, TransfersBooked DEF Booked
<1>3. QED
  BY <1>1, <1>2 DEF Booked

\* updateSystemLeverages changes the books only.
LEMMA LeveragesBooked ==
  ASSUME NEW p, Shape(p), NEW e, NEW q \in UpdateSystemLeverages(p, e)
  PROVE  Booked(p, q)
BY DEF UpdateSystemLeverages, Booked, Shape, Fields

\* updateBaseCollateralCoeffs, updateQuoteCollateralCoeffs change the books only.
LEMMA CoeffsBooked ==
  ASSUME NEW p, Shape(p), NEW t, NEW factor
  PROVE  Booked(p, UpdateCollateralCoeffs(p, t, factor))
BY DEF UpdateCollateralCoeffs, Booked, Shape, Fields

\* A deleverage is shared through the coefficients: no position is touched.
LEMMA DeleverageBooked ==
  ASSUME NEW p, Shape(p), NEW d, NEW x, NEW y, NEW q \in Deleverage(p, d, x, y)
  PROVE  Booked(p, q)
BY DEF Deleverage, Require, Booked, Shape, Fields

\* The check for unsigned storage returns the pool it was given.
LEMMA UnsignedIs ==
  ASSUME NEW p, NEW q \in Unsigned(p)
  PROVE  q = p
BY DEF Unsigned, Require

\* Removal takes u, and nobody else, out of one heap.
LEMMA HeapRemoves ==
  ASSUME NEW p, Shape(p), NEW u \in Accounts, NEW side \in Sides,
         NEW q \in HeapRemove(p, side, u)
  PROVE  /\ Frame(p, q, {u})
         /\ q.positions[u].type = p.positions[u].type
         /\ ~q.positions[u].inHeap
         /\ q.heap[side][u] = NoKey
         /\ \A other \in Sides \ {side} : q.heap[other] = p.heap[other]
<1>1. q = [p EXCEPT !.heap[side][u] = NoKey, !.positions[u].inHeap = FALSE]
  BY DEF HeapRemove, Require
<1>2. QED
  BY <1>1 DEF Frame, Shape, Fields

\* A margin position gets the key of its amounts; no other key changes.
LEMMA HeapUpdates ==
  ASSUME NEW p, Shape(p), NEW u \in Accounts, NEW q \in UpdateHeap(p, u)
  PROVE  /\ Frame(p, q, {u})
         /\ q.positions = p.positions
         /\ p.positions[u].type \in Sides =>
              q.heap[p.positions[u].type][u] = SortKey(q, q.positions[u])
         /\ \A other \in Sides : 
              other # p.positions[u].type => q.heap[other] = p.heap[other]
<1>1. CASE p.positions[u].type \in Sides
  <2>1. q = [p EXCEPT !.heap[p.positions[u].type][u] = SortKey(p, p.positions[u])]
    BY <1>1 DEF UpdateHeap, Require
  <2>2. q.initialPrice = p.initialPrice /\ q.positions = p.positions
    BY <2>1 DEF Shape, Fields
  <2>3. SortKey(q, q.positions[u]) = SortKey(p, p.positions[u])
    BY <2>2 DEF SortKey
  <2>4. QED
    BY <1>1, <2>1, <2>2, <2>3 DEF Frame, Shape, Fields
<1>2. CASE p.positions[u].type \notin Sides
  BY <1>2 DEF UpdateHeap, Frame
<1>3. QED
  BY <1>1, <1>2

-----------------------------------------------------------------------------
(* Margin calls.                                                           *)

\* The position of u is gone, from the storage and from the heap.
Deleted(p, q, u) ==
  /\ Frame(p, q, {u})
  /\ q.positions[u] = NoPosition
  /\ Placed(p, u) => Placed(q, u)

\* enactMarginCall deletes the position, and its node with it.
LEMMA MarginCallDeletes ==
  ASSUME NEW p, Shape(p), NEW e, NEW u \in Accounts, p.positions[u].type \in Sides,
         NEW w \in EnactMarginCall(p, e, u)
  PROVE  Deleted(p, w, u)
<1> DEFINE s == p.positions[u]
           t == DebtToken(s.type)
           c == Other(t)
           realCollateral == PositionCollateral(p, s, c)
           realDebt == RealDebt(p, t, s.amount[t])
           minOut == Mul(FromRatio(WHOLE_ONE - p.params.mcSlippage, WHOLE_ONE),
                         Exchange(e.mcPrice, t, realCollateral))
           swapped == IF realCollateral = 0 THEN 0 ELSE OutputOf(e, c, realCollateral)
           total == PoolCollateral(p, t)
           factor == IF swapped >= realDebt
                     THEN One + FromRatio(swapped - realDebt, total)
                     ELSE One - FromRatio(realDebt - swapped, total)
           sold == IF realCollateral = 0 THEN {p}
                   ELSE SwapExactInput(p, e, c, realCollateral, minOut)
           Draft(q) == [UpdateCollateralCoeffs(q, t, factor) EXCEPT
                          !.discountedCollateral[c] = @ - s.amount[c],
                          !.discountedDebt[t] = @ - s.amount[t]]
           Without(v) == [v EXCEPT !.positions[u] = NoPosition]
<1>1. w \in UNION {UNION {{Without(v) : v \in HeapRemove(r, s.type, u)} :
                          r \in Unsigned(Draft(q))} : q \in sold}
  BY DEF EnactMarginCall, Require
<1>2. \A q \in sold : Booked(p, q)
  BY SwapsBooked DEF Booked
<1> HIDE DEF sold, factor, s, c, t, realCollateral, realDebt, minOut, swapped, total
<1>3. ASSUME NEW q, Booked(p, q)
      PROVE  Booked(p, Draft(q))
  <2> DEFINE r == UpdateCollateralCoeffs(q, t, factor)
             x == r.discountedCollateral[c] - s.amount[c]
             y == r.discountedDebt[t] - s.amount[t]
  <2>1. Booked(q, r)
    BY <1>3, CoeffsBooked DEF Booked
  <2>2. Draft(q) = [r EXCEPT !.discountedCollateral[c] = x, !.discountedDebt[t] = y]
    OBVIOUS
  <2> HIDE DEF r, x, y, Draft
  <2>3. Booked(r, Draft(q))
    BY <2>1, <2>2 DEF Booked, Shape, Fields
  <2>4. QED
    BY <1>3, <2>1, <2>3 DEF Booked
<1> HIDE DEF Draft
<1>4. PICK q \in sold : \E r \in Unsigned(Draft(q)) : \E v \in HeapRemove(r, s.type, u) :
                           w = Without(v)
  BY <1>1
<1>5. PICK r \in Unsigned(Draft(q)) : \E v \in HeapRemove(r, s.type, u) : w = Without(v)
  BY <1>4
<1>6. PICK v \in HeapRemove(r, s.type, u) : w = Without(v)
  BY <1>5
<1>7. Booked(p, r)
  BY <1>2, <1>3, UnsignedIs
<1>8. /\ Frame(r, v, {u})
      /\ v.heap[s.type][u] = NoKey
      /\ \A other \in Sides \ {s.type} : v.heap[other] = r.heap[other]
  <2> DEFINE side == s.type
  <2>1. Shape(r)
    BY <1>7 DEF Booked
  <2>2. side \in Sides /\ v \in HeapRemove(r, side, u)
    BY DEF s
  <2> HIDE DEF side
  <2>3. /\ Frame(r, v, {u})
        /\ v.heap[side][u] = NoKey
        /\ \A other \in Sides \ {side} : v.heap[other] = r.heap[other]
    BY <2>1, <2>2, HeapRemoves
  <2>4. QED
    BY <2>3 DEF side
<1>9. /\ Frame(p, w, {u})
      /\ w.positions[u] = NoPosition
      /\ \A other \in Sides : other # s.type => w.heap[other][u] = p.heap[other][u]
      /\ w.heap[s.type][u] = NoKey
  BY <1>6, <1>7, <1>8 DEF s, Booked, Frame, Shape, Fields, NoPosition
<1>10. Placed(p, u) => Placed(w, u)
  BY <1>9 DEF s, Placed, Blank, NoPosition, Sides
<1>11. QED
  BY <1>9, <1>10 DEF Deleted

\* Amounts of u and the aggregates can change without anything else.
LEMMA AmountsMove ==
  ASSUME NEW p, Shape(p), NEW u \in Accounts, NEW t, NEW c, NEW x, NEW y, NEW z, NEW w
  PROVE  Moved(p, [p EXCEPT !.positions[u].amount[t] = x, !.positions[u].amount[c] = y,
                            !.discountedDebt[t] = z, !.discountedCollateral[c] = w], u)
BY DEF Moved, Frame, Shape, Fields

\* A position whose amounts change stands where it stood.
LEMMA MovedStands ==
  ASSUME NEW p, NEW q, NEW u, Moved(p, q, u), p.positions[u].type # "Uninitialized"
  PROVE  Blank(q, u) /\ (Placed(p, u) => Placed(q, u))
BY DEF Moved, Blank, Placed

\* liquidate, with the deleverage before it, deletes a margin position.
LEMMA LiquidationDeletes ==
  ASSUME NEW p, Shape(p), NEW e, NEW u \in Accounts, NEW w \in Liquidate(p, e, u)
  PROVE  Deleted(p, w, u) /\ p.positions[u].type \in Sides
<1> DEFINE s == p.positions[u]
           t == DebtToken(s.type)
           c == Other(t)
           excess == PoolDebt(p, c) + PositionCollateral(p, s, c) - PoolCollateral(p, c)
           value == Exchange(e.price, t, excess)
           positionDebt == RealDebt(p, t, s.amount[t])
           collToReduce == IF value > positionDebt THEN positionDebt ELSE value
           disDebt == RecipMul(p.debtCoeff[t], collToReduce)
           Draft(q, disColl) == [q EXCEPT !.positions[u].amount[t] = @ - disDebt,
                                          !.positions[u].amount[c] = @ - disColl,
                                          !.discountedDebt[t] = @ - disDebt,
                                          !.discountedCollateral[c] = @ - disColl]
           DisColl(q) == RecipMul(q.collateralCoeff[c],
                                  excess + Mul(q.delevCoeff[c], disDebt))
           Reduce(q) == Require(q.collateralCoeff[c] # 0, Unsigned(Draft(q, DisColl(q))))
           reduced == IF excess <= 0 THEN {p}
                      ELSE UNION {Reduce(q) : q \in Deleverage(p, c, collToReduce, excess)}
<1>1. s.type \in Sides /\ w \in UNION {EnactMarginCall(r, e, u) : r \in reduced}
  BY DEF Liquidate
<1> HIDE DEF s, t, c, excess, collToReduce, disDebt
<1>2. ASSUME NEW q \in Deleverage(p, c, collToReduce, excess), NEW r \in Reduce(q)
      PROVE  Moved(p, r, u)
  <2>1. Booked(p, q)
    BY DeleverageBooked
  <2>2. r = Draft(q, DisColl(q))
    BY UnsignedIs DEF Require
  <2> HIDE DEF DisColl
  <2>3. Moved(q, r, u)
    BY <2>1, <2>2, AmountsMove DEF Booked
  <2>4. QED
    BY <2>1, <2>3 DEF Booked, Moved, Frame
<1>3. \A r \in reduced : Moved(p, r, u)
  <2> HIDE DEF Reduce
  <2>1. Moved(p, p, u)
    BY DEF Moved, Frame
  <2>2. QED
    BY <1>2, <2>1
<1> HIDE DEF reduced
<1>4. PICK r \in reduced : w \in EnactMarginCall(r, e, u)
  BY <1>1
<1>5. Moved(p, r, u)
  BY <1>3
<1>6. Deleted(r, w, u)
  BY <1>1, <1>4, <1>5, MarginCallDeletes DEF s, Moved, Frame
<1>7. Placed(p, u) => Placed(r, u)
  BY <1>1, <1>5, MovedStands DEF s, Sides
<1>8. QED
  BY <1>1, <1>5, <1>6, <1>7 DEF s, Deleted, Moved, Frame

-----------------------------------------------------------------------------
(* Interest, and the margin calls that come before a call.                 *)

\* The technical position is a lender, as the constructor makes it.
TechLends(p) == p.positions[TechPositionOwner].type = "Lend"

\* No position loses its place; the technical one counts while it is a lender.
Keeps(p, q) ==
  /\ TechLends(p) => TechLends(q)
  /\ \A a \in Accounts : a # TechPositionOwner \/ TechLends(p) =>
       /\ Blank(p, a) => Blank(q, a)
       /\ Placed(p, a) => Placed(q, a)

\* Keeps is transitive.
LEMMA KeepsTransitive ==
  ASSUME NEW p, NEW q, NEW r, Keeps(p, q), Keeps(q, r)
  PROVE  Keeps(p, r)
BY DEF Keeps

\* A change of the books keeps every position as it was.
LEMMA BookedKeeps ==
  ASSUME NEW p, NEW q, Booked(p, q), NEW S
  PROVE  Frame(p, q, S) /\ Keeps(p, q)
BY PoolAssumption DEF Booked, Frame, Keeps, TechLends, Blank, Placed

\* accrueInterest moves amounts of the technical position only, for one token
LEMMA TokenAccrues ==
  ASSUME NEW p, Shape(p), NEW t, NEW x, NEW n, NEW q \in AccrueToken(p, t, x, n)
  PROVE  Moved(p, q, TechPositionOwner)
<1> DEFINE u == TechPositionOwner
           debtPrev == PoolDebt(p, t)
           rate == Mul(FromRatio(p.params.interestRate, WHOLE_ONE),
                       p.systemLeverage[SideOwing(t)])
           onePlusIR == rate \div SECONDS_IN_YEAR + One
           accruedRateDt == PowTaylor(onePlusIR, n)
           interest == Mul(accruedRateDt - One, debtPrev)
           factor == One + FromRatio(interest, PoolCollateral(p, t))
           debtCoeff == Mul(Mul(p.debtCoeff[t], accruedRateDt), x)
           r == [p EXCEPT !.debtCoeff[t] = debtCoeff]
           v == UpdateCollateralCoeffs(r, t, factor)
           fee == RecipMul(v.collateralCoeff[t],
                           Mul(Mul(accruedRateDt, x - One), debtPrev))
           w == [v EXCEPT !.positions[u].amount[t] = @ + fee,
                          !.discountedCollateral[t] = @ + fee]
<1>1. q = p \/ q = w
  BY DEF AccrueToken, Require
<1>2. u \in Accounts
  BY PoolAssumption
<1>3. Booked(p, r)
  <2> HIDE DEF debtCoeff
  <2>1. QED
    BY DEF Booked, Shape, Fields
<1>4. Booked(r, v)
  <2> HIDE DEF r, factor
  <2>1. QED
    BY <1>3, CoeffsBooked DEF Booked
<1> HIDE DEF v, u, fee
<1>5. Moved(v, w, u)
  BY <1>2, <1>4 DEF Booked, Moved, Frame, Shape, Fields
<1> HIDE DEF r, w
<1>6. Moved(p, w, u)
  BY <1>2, <1>3, <1>4, <1>5, BookedTransitive, BookedMoves, MovedTransitive
<1>7. Moved(p, p, u)
  BY DEF Moved, Frame
<1>8. QED
  BY <1>1, <1>6, <1>7 DEF u

\* and for both.
LEMMA InterestAccrues ==
  ASSUME NEW p, Shape(p), NEW e, NEW q \in AccrueInterest(p, e)
  PROVE  Moved(p, q, TechPositionOwner)
<1> DEFINE n == e.now - p.lastReinit
           onePlusFee == FromRatio(p.params.fee, WHOLE_ONE) \div SECONDS_IN_YEAR + One
           x == PowTaylor(onePlusFee, n)
           r == [p EXCEPT !.lastReinit = e.now]
<1>1. q = p \/ q \in UNION {AccrueToken(v, "quote", x, n) : v \in AccrueToken(r, "base", x, n)}
  BY DEF AccrueInterest, Require
<1>2. Booked(p, r)
  BY DEF Booked, Shape, Fields
<1> HIDE DEF n, x, r
<1>3. CASE q = p
  BY <1>3 DEF Moved, Frame
<1>4. ASSUME NEW v \in AccrueToken(r, "base", x, n), q \in AccrueToken(v, "quote", x, n)
      PROVE  Moved(p, q, TechPositionOwner)
  <2>1. Moved(r, v, TechPositionOwner)
    BY <1>2, TokenAccrues DEF Booked
  <2>2. Moved(v, q, TechPositionOwner)
    BY <1>4, <2>1, TokenAccrues DEF Moved, Frame
  <2>3. QED
    BY <1>2, <2>1, <2>2, PoolAssumption, BookedMoves, MovedTransitive
<1>5. QED
  BY <1>1, <1>3, <1>4

\* The fee that the technical position receives does not unmake a lender of it.
LEMMA MovedTechKeeps ==
  ASSUME NEW p, NEW q, Moved(p, q, TechPositionOwner)
  PROVE  Keeps(p, q)
BY PoolAssumption DEF Moved, Frame, Keeps, TechLends, Blank, Placed

\* A margin call of anybody else leaves the technical position a lender.
LEMMA DeletedKeeps ==
  ASSUME NEW p, NEW q, NEW u \in Accounts, Deleted(p, q, u), p.positions[u].type \in Sides
  PROVE  Keeps(p, q) /\ (TechLends(p) => u # TechPositionOwner)
BY PoolAssumption DEF Deleted, Frame, Keeps, TechLends, Blank, Placed, Sides

\* Interest and margin calls change the technical position and delete those they call.
Called(p, r, S) ==
  /\ r.called \subseteq Accounts
  /\ Frame(p, r.pool, r.called \cup S)
  /\ Keeps(p, r.pool)
  /\ \A a \in r.called : r.pool.positions[a] = NoPosition
  /\ TechLends(p) => TechPositionOwner \notin r.called

\* Those who are called have bad leverage; if nobody is, nothing happens.
Deserved(p, e, r) ==
  /\ \A a \in r.called : HasBadLeverage(p, e, p.positions[a])
  /\ r.called = {} => r.pool = p

\* reinitAccount of a root calls that root, if its leverage is bad, or nobody.
LEMMA RootIsCalled ==
  ASSUME NEW p, Shape(p), NEW e, NEW side, NEW r \in ReinitRoot(p, e, side)
  PROVE  Called(p, r, {}) /\ Deserved(p, e, r)
<1> DEFINE Result(q, a) ==
             [pool |-> q, called |-> IF HasBadLeverage(p, e, p.positions[a]) THEN {a} ELSE {}]
           Results(a) == IF a = NoAccount THEN {[pool |-> p, called |-> {}]}
                         ELSE {Result(q, a) : q \in ReinitAccount(p, e, a)}
<1>1. Booked(p, p)
  BY DEF Booked
<1>2. LET x == [pool |-> p, called |-> {}] IN Called(p, x, {}) /\ Deserved(p, e, x)
  BY <1>1, BookedKeeps DEF Called, Deserved
<1>3. ASSUME NEW a \in Accounts, NEW q \in ReinitAccount(p, e, a)
      PROVE  Called(p, Result(q, a), {}) /\ Deserved(p, e, Result(q, a))
  <2>1. CASE HasBadLeverage(p, e, p.positions[a])
    <3>1. Deleted(p, q, a) /\ p.positions[a].type \in Sides
      BY <2>1, LiquidationDeletes DEF ReinitAccount
    <3>2. Keeps(p, q) /\ (TechLends(p) => a # TechPositionOwner)
      BY <3>1, DeletedKeeps
    <3>3. QED
      BY <2>1, <3>1, <3>2 DEF Called, Deleted, Frame, Deserved
  <2>2. CASE ~HasBadLeverage(p, e, p.positions[a])
    <3>1. q = p
      BY <2>2 DEF ReinitAccount, Require
    <3>2. QED
      BY <1>2, <2>2, <3>1
  <2>3. QED
    BY <2>1, <2>2
<1>4. HeapRoots(p.heap[side]) \subseteq Accounts \cup {NoAccount}
  BY DEF HeapRoots
<1>5. r \in UNION {Results(a) : a \in HeapRoots(p.heap[side])}
  BY DEF ReinitRoot
<1> HIDE DEF Result
<1>6. PICK a \in HeapRoots(p.heap[side]) : r \in Results(a)
  BY <1>5
<1>7. QED
  BY <1>2, <1>3, <1>4, <1>6

\* With the interest until now the leverage of a is bad.
Overdue(p, e, a) == \E q \in AccrueInterest(p, e) : HasBadLeverage(q, e, q.positions[a])

\* If anybody of S is called, then somebody who is overdue.
Blamed(p, e, S) == S # {} => \E b \in S : Overdue(p, e, b)

\* reinit: interest, then at most one margin call on each side.  The first one called has
\* bad leverage; without a call, interest is all that happens.
LEMMA ReinitCalls ==
  ASSUME NEW p, Shape(p), NEW e, e.now \in Nat, NEW r \in Reinit(p, e)
  PROVE  /\ Called(p, r, {TechPositionOwner})
         /\ Blamed(p, e, r.called)
         /\ r.called = {} => r.pool \in AccrueInterest(p, e)
<1> DEFINE Result(x, y) == [pool |-> y.pool, called |-> x.called \cup y.called]
<1>1. CASE e.now = p.lastReinit
  <2>1. Booked(p, p)
    BY DEF Booked
  <2>2. r = [pool |-> p, called |-> {}]
    BY <1>1 DEF Reinit
  <2>3. p \in AccrueInterest(p, e)
    <3>1. e.now - p.lastReinit = 0
      BY <1>1
    <3>2. QED
      BY <3>1 DEF AccrueInterest
  <2>4. QED
    BY <2>1, <2>2, <2>3, BookedKeeps DEF Called, Blamed
<1>2. CASE e.now # p.lastReinit
  <2>1. r \in UNION {UNION {{Result(x, y) : y \in ReinitRoot(x.pool, e, "Long")} :
                              x \in ReinitRoot(q, e, "Short")} : q \in AccrueInterest(p, e)}
    BY <1>2 DEF Reinit
  <2> HIDE DEF Result
  <2>2. PICK q \in AccrueInterest(p, e) :
               \E x \in ReinitRoot(q, e, "Short") :
                 \E y \in ReinitRoot(x.pool, e, "Long") : r = Result(x, y)
    BY <2>1
  <2>3. PICK x \in ReinitRoot(q, e, "Short") :
               \E y \in ReinitRoot(x.pool, e, "Long") : r = Result(x, y)
    BY <2>2
  <2>4. PICK y \in ReinitRoot(x.pool, e, "Long") : r = Result(x, y)
    BY <2>3
  <2>5. Moved(p, q, TechPositionOwner) /\ Keeps(p, q) /\ Shape(q)
    BY InterestAccrues, MovedTechKeeps DEF Moved, Frame
  <2>6. Called(q, x, {}) /\ Deserved(q, e, x) /\ Shape(x.pool)
    BY <2>5, RootIsCalled DEF Called, Frame
  <2>7. Called(x.pool, y, {}) /\ Deserved(x.pool, e, y)
    BY <2>6, RootIsCalled
  <2>8. Keeps(p, y.pool)
    BY <2>5, <2>6, <2>7, KeepsTransitive DEF Called
  <2>9. Frame(p, y.pool, x.called \cup y.called \cup {TechPositionOwner})
    BY <2>5, <2>6, <2>7 DEF Called, Moved, Frame
  <2>10. \A a \in x.called \cup y.called : y.pool.positions[a] = NoPosition
    BY <2>6, <2>7 DEF Called, Frame
  <2>11. TechLends(p) => TechPositionOwner \notin x.called \cup y.called
    BY <2>5, <2>6, <2>7 DEF Called, Keeps
  <2>12. r.pool = y.pool /\ r.called = x.called \cup y.called
    BY <2>4 DEF Result
  <2>13. Called(p, r, {TechPositionOwner})
    BY <2>6, <2>7, <2>8, <2>9, <2>10, <2>11, <2>12 DEF Called
  <2>14. x.called = {} => x.pool = q /\ \A b \in y.called : HasBadLeverage(q, e, q.positions[b])
    BY <2>6, <2>7 DEF Deserved
  <2>15. \A b \in x.called : HasBadLeverage(q, e, q.positions[b])
    BY <2>6 DEF Deserved
  <2>16. Blamed(p, e, r.called)
    BY <2>12, <2>14, <2>15 DEF Blamed, Overdue
  <2>17. r.called = {} => r.pool = q
    BY <2>7, <2>12, <2>14 DEF Deserved
  <2>18. QED
    BY <2>13, <2>16, <2>17
<1>3. QED
  BY <1>1, <1>2

-----------------------------------------------------------------------------
(* What a call does to the account that sends it.                          *)

\* u, and nobody else, has changed, and is where its type says.
Acts(p, q, u) ==
  /\ Frame(p, q, {u})
  /\ Blank(p, u) => Blank(q, u)
  /\ Placed(p, u) => Placed(q, u)

\* u becomes a lender, where it stood.
Lends(p, q, u) ==
  /\ Frame(p, q, {u})
  /\ q.heap = p.heap
  /\ q.positions[u].type = "Lend"
  /\ q.positions[u].inHeap = p.positions[u].inHeap

\* The books may change before u becomes a lender.
LEMMA BookedLends ==
  ASSUME NEW p, NEW q, NEW r, NEW u \in Accounts, Booked(p, q), Lends(q, r, u)
  PROVE  Lends(p, r, u)
BY DEF Booked, Lends, Frame

\* Acts is transitive.
LEMMA ActsTransitive ==
  ASSUME NEW p, NEW q, NEW r, NEW u, Acts(p, q, u), Acts(q, r, u)
  PROVE  Acts(p, r, u)
<1>1. Frame(p, r, {u})
  BY FrameTransitive, {u} \cup {u} = {u} DEF Acts
<1>2. QED
  BY <1>1 DEF Acts

\* A change of the books is one u can make.
LEMMA BookedActs ==
  ASSUME NEW p, NEW q, NEW u \in Accounts, Booked(p, q)
  PROVE  Acts(p, q, u)
BY BookedFrame DEF Acts, Booked, Blank, Placed

\* So is a change of its amounts, once it has a position.
LEMMA MovedActs ==
  ASSUME NEW p, NEW q, NEW u, Moved(p, q, u), p.positions[u].type # "Uninitialized"
  PROVE  Acts(p, q, u) /\ q.positions[u].type = p.positions[u].type
BY MovedStands DEF Acts, Moved

\* Whoever is in no heap may become a lender in place.
LEMMA LenderLends ==
  ASSUME NEW p, NEW q, NEW u \in Accounts, Lends(p, q, u), p.positions[u].type \notin Sides
  PROVE  Acts(p, q, u)
BY DEF Acts, Lends, Blank, Placed, Sides

\* Out of the heap, then a lender: depositBase, depositQuote.
LEMMA RemovedLends ==
  ASSUME NEW p, Shape(p), NEW u \in Accounts, p.positions[u].type \in Sides,
         NEW r \in HeapRemove(p, p.positions[u].type, u), NEW q, Lends(r, q, u)
  PROVE  Acts(p, q, u)
<1> DEFINE side == p.positions[u].type
<1>1. side \in Sides /\ r \in HeapRemove(p, side, u)
  OBVIOUS
<1> HIDE DEF side
<1>2. /\ Frame(p, r, {u})
      /\ ~r.positions[u].inHeap
      /\ r.heap[side][u] = NoKey
      /\ \A other \in Sides \ {side} : r.heap[other] = p.heap[other]
  BY <1>1, HeapRemoves
<1>3. Frame(p, q, {u})
  BY <1>2, FrameTransitive, {u} \cup {u} = {u} DEF Lends
<1>4. Placed(p, u) => Placed(q, u)
  BY <1>2 DEF side, Lends, Placed, Blank, Sides
<1>5. QED
  BY <1>3, <1>4 DEF Acts, Lends, Blank

\* A lender, then out of the heap: closePosition, sellBaseForQuote, sellQuoteForBase.
LEMMA LendsRemoved ==
  ASSUME NEW p, Shape(p), NEW u \in Accounts, NEW side \in Sides, p.positions[u].type = side,
         NEW v, Lends(p, v, u), NEW q \in HeapRemove(v, side, u)
  PROVE  Acts(p, q, u) /\ q.positions[u].type = "Lend"
<1>1. /\ Frame(v, q, {u}) /\ ~q.positions[u].inHeap /\ q.heap[side][u] = NoKey
      /\ q.positions[u].type = v.positions[u].type
      /\ \A other \in Sides \ {side} : q.heap[other] = v.heap[other]
  BY HeapRemoves DEF Lends, Frame
<1>2. Frame(p, q, {u})
  BY <1>1, FrameTransitive, {u} \cup {u} = {u} DEF Lends
<1>3. Placed(p, u) => Placed(q, u)
  BY <1>1 DEF Lends, Placed, Blank, Sides
<1>4. QED
  BY <1>1, <1>2, <1>3 DEF Acts, Lends, Blank

\* The sides are those that owe t and those that owe the other token.
LEMMA SideOwingIs ==
  ASSUME NEW t
  PROVE  SideOwing(t) \in Sides /\ Sides = {SideOwing(t), SideOwing(Other(t))}
BY DEF SideOwing, Other, Sides

\* depositBase, depositQuote touch the sender only, who has a position then.
LEMMA DepositActs ==
  ASSUME NEW p, Shape(p), NEW e, NEW u \in Accounts, NEW t, NEW amount,
         NEW w \in Deposit(p, e, u, t, amount)
  PROVE  Acts(p, w, u) /\ w.positions[u].type # "Uninitialized"
<1> DEFINE s == p.positions[u]
           c == Other(t)
           rest == amount - RealDebt(p, t, s.amount[t])
           repaid == IF rest >= 0 THEN s.amount[t] ELSE RecipMul(p.debtCoeff[t], amount)
           disRest == RecipMul(p.collateralCoeff[t], rest)
           freed == RecipMul(p.collateralCoeff[c], Mul(p.delevCoeff[c], repaid))
           Settled(q) == [q EXCEPT !.positions[u].type = "Lend",
                                   !.positions[u].amount[t] = disRest,
                                   !.discountedCollateral[t] = @ + disRest]
           reduced == [p EXCEPT !.positions[u].amount[t] = @ - repaid]
           disAmount == RecipMul(p.collateralCoeff[t], amount)
           owing == IF rest >= 0 THEN {Settled(r) : r \in HeapRemove(p, s.type, u)}
                                 ELSE {reduced}
           Freed(q) == [q EXCEPT !.positions[u].amount[c] = @ - freed,
                                 !.discountedDebt[t] = @ - repaid,
                                 !.discountedCollateral[c] = @ - freed]
           lent == [p EXCEPT
                !.positions[u].type = IF @ = "Uninitialized" THEN "Lend" ELSE @,
                !.positions[u].amount[t] = @ + disAmount,
                !.discountedCollateral[t] = @ + disAmount]
<1>1. IF s.type = SideOwing(t)
      THEN w \in UNION {Unsigned(TransferIn(Freed(q), t, amount)) : q \in owing}
      ELSE w = TransferIn(lent, t, amount)
  BY DEF Deposit, Require
<1> HIDE DEF c, rest, repaid, disRest, freed, disAmount
<1>2. ASSUME NEW q, Shape(q)
      PROVE  Moved(q, Freed(q), u)
  BY <1>2 DEF Moved, Frame, Shape, Fields
<1>3. ASSUME NEW q, Shape(q)
      PROVE  Lends(q, Settled(q), u)
  BY <1>3 DEF Lends, Frame, Shape, Fields
<1>4. Moved(p, reduced, u)
  BY DEF Moved, Frame, Shape, Fields
<1>5. IF s.type = "Uninitialized" THEN Lends(p, lent, u) ELSE Moved(p, lent, u)
  BY DEF Lends, Moved, Frame, Shape, Fields
<1> HIDE DEF Freed, Settled, reduced, lent
<1>6. CASE s.type = SideOwing(t)
  <2>1. PICK q \in owing : w \in Unsigned(TransferIn(Freed(q), t, amount))
    BY <1>1, <1>6
  <2>2. Acts(p, q, u) /\ q.positions[u].type # "Uninitialized"
    <3>1. CASE rest >= 0
      <4>1. PICK r \in HeapRemove(p, s.type, u) : q = Settled(r)
        BY <3>1
      <4>2. Shape(r)
        BY <1>6, SideOwingIs, HeapRemoves DEF Frame
      <4>3. QED
        BY <1>3, <1>6, <4>1, <4>2, SideOwingIs, RemovedLends DEF Lends
    <3>2. CASE ~(rest >= 0)
      BY <1>4, <1>6, <3>2, MovedActs DEF SideOwing
    <3>3. QED
      BY <3>1, <3>2
  <2>3. /\ Acts(q, Freed(q), u) /\ Freed(q).positions[u].type # "Uninitialized"
        /\ Shape(Freed(q))
    BY <1>2, <2>2, MovedActs DEF Acts, Frame
  <2>4. Booked(Freed(q), w)
    BY <2>1, <2>3, UnsignedIs, TransfersBooked
  <2>5. QED
    BY <2>2, <2>3, <2>4, BookedActs, ActsTransitive DEF Booked
<1>7. CASE s.type # SideOwing(t)
  <2>1. /\ Acts(p, lent, u) /\ lent.positions[u].type # "Uninitialized"
        /\ Shape(lent)
    BY <1>5, MovedActs, LenderLends DEF Lends, Acts, Frame, Sides
  <2>2. Booked(lent, w)
    BY <1>1, <1>7, <2>1, TransfersBooked
  <2>3. QED
    BY <2>1, <2>2, BookedActs, ActsTransitive DEF Booked
<1>8. QED
  BY <1>6, <1>7

\* closePosition touches the sender only.
LEMMA ClosePositionActs ==
  ASSUME NEW p, Shape(p), NEW e, NEW u \in Accounts, NEW limit,
         NEW w \in ClosePosition(p, e, u, limit)
  PROVE  Acts(p, w, u)
<1> DEFINE s == p.positions[u]
           t == DebtToken(s.type)
           c == Other(t)
           debtUp == RealDebtUp(p, t, s.amount[t])
           wanted == IF t = "quote" THEN debtUp + SwapFee(p, debtUp) ELSE debtUp
           spent == InputFor(e, c, wanted)
           fee == IF t = "quote" THEN SwapFee(p, debtUp) ELSE SwapFee(p, spent)
           delta == IF t = "quote" THEN spent ELSE spent + fee
           real == PositionCollateral(p, s, c)
           disDelta == RecipMul(p.collateralCoeff[c],
                                delta + Mul(p.delevCoeff[c], s.amount[t]))
           Closed(r) == [r EXCEPT !.discountedCollateral[c] = @ - disDelta,
                                  !.discountedDebt[t] = @ - s.amount[t],
                                  !.positions[u].amount[c] = @ - disDelta,
                                  !.positions[u].amount[t] = 0,
                                  !.positions[u].type = "Lend"]
<1>1. /\ s.type \in Sides
      /\ w \in UNION {UNION {UNION {HeapRemove(v, s.type, u) : v \in Unsigned(Closed(r))} :
                               r \in ChargeFee(q, fee)} :
                        q \in SwapExactOutput(p, e, c, real, wanted)}
  BY DEF ClosePosition, Require
<1> HIDE DEF t, c, wanted, fee, real, disDelta
<1>2. ASSUME NEW r, Shape(r)
      PROVE  Lends(r, Closed(r), u)
  <2> DEFINE v == [r EXCEPT !.discountedCollateral[c] = @ - disDelta,
                            !.discountedDebt[t] = @ - s.amount[t]]
             y == r.positions[u].amount[c] - disDelta
  <2>1. Booked(r, v)
    <3> HIDE DEF s
    <3>1. QED
      BY <1>2 DEF Booked, Shape, Fields
  <2>2. Closed(r) = [v EXCEPT !.positions[u].amount[c] = y,
                              !.positions[u].amount[t] = 0,
                              !.positions[u].type = "Lend"]
    BY <1>2 DEF Shape, Fields
  <2> HIDE DEF v, y, s, Closed
  <2>3. /\ DOMAIN Closed(r) = Fields
        /\ Closed(r).mode = v.mode /\ Closed(r).params = v.params
        /\ Closed(r).initialPrice = v.initialPrice
        /\ Closed(r).heap = v.heap
    BY <2>1, <2>2 DEF Booked, Shape, Fields
  <2>4. /\ DOMAIN Closed(r).positions = Accounts
        /\ \A a \in Accounts \ {u} : Closed(r).positions[a] = v.positions[a]
    BY <2>1, <2>2 DEF Booked, Shape, Fields
  <2>5. /\ DOMAIN Closed(r).positions[u] = {"type", "inHeap", "amount"}
        /\ Closed(r).positions[u].type = "Lend"
        /\ Closed(r).positions[u].inHeap = v.positions[u].inHeap
    BY <2>1, <2>2 DEF Booked, Shape, Fields
  <2>6. Lends(v, Closed(r), u)
    BY <2>1, <2>3, <2>4, <2>5 DEF Booked, Lends, Frame, Shape
  <2>7. QED
    BY <2>1, <2>6, BookedLends
<1> HIDE DEF Closed
<1>3. PICK q \in SwapExactOutput(p, e, c, real, wanted) :
             w \in UNION {UNION {HeapRemove(v, s.type, u) : v \in Unsigned(Closed(r))} :
                            r \in ChargeFee(q, fee)}
  BY <1>1
<1>4. PICK r \in ChargeFee(q, fee) :
             w \in UNION {HeapRemove(v, s.type, u) : v \in Unsigned(Closed(r))}
  BY <1>3
<1>5. w \in HeapRemove(Closed(r), s.type, u)
  BY <1>4, UnsignedIs
<1>6. Booked(p, r)
  BY FeesBooked
<1>7. Acts(r, w, u)
  BY <1>1, <1>2, <1>5, <1>6, LendsRemoved DEF Booked
<1>8. QED
  BY <1>6, <1>7, BookedActs, ActsTransitive

\* So do sellBaseForQuote and sellQuoteForBase, for a sender who has a position.
LEMMA SellActs ==
  ASSUME NEW p, Shape(p), NEW e, NEW u \in Accounts, NEW t, NEW limit,
         NEW w \in Sell(p, e, u, t, limit)
  PROVE  Acts(p, w, u) /\ w.positions[u].type # "Uninitialized"
<1> DEFINE s == p.positions[u]
           c == Other(t)
           owes == s.type = SideOwing(c)
           amountIn == PositionCollateral(p, s, t)
           feeIn == IF t = "quote" THEN SwapFee(p, amountIn) ELSE 0
           in == amountIn - feeIn
           minOut == IF t = "base" THEN MulDiv(limit, in, Q96) ELSE MulDiv(Q96, in, limit)
           swapped == OutputOf(e, t, in)
           fee == IF t = "base" THEN SwapFee(p, swapped) ELSE feeIn
           out == IF t = "base" THEN swapped - fee ELSE swapped
           realDebt == IF owes THEN RealDebt(p, c, s.amount[c]) ELSE 0
           disOut == RecipMul(p.collateralCoeff[c], out - realDebt)
           Sold(q) == [q EXCEPT
             !.discountedCollateral[t] = @ - s.amount[t],
             !.discountedCollateral[c] = @ + disOut,
             !.discountedDebt[c] = IF owes THEN @ - s.amount[c] ELSE @,
             !.positions[u].amount[t] = 0,
             !.positions[u].amount[c] = IF owes THEN disOut ELSE @ + disOut,
             !.positions[u].type = "Lend"]
<1>1. /\ s.type # "Uninitialized"
      /\ \/ w = p
         \/ /\ s.type # SideOwing(t)
            /\ w \in UNION {UNION {UNION {IF owes THEN HeapRemove(v, s.type, u) ELSE {v} :
                                    v \in Unsigned(Sold(r))} :
                             r \in ChargeFee(q, fee)} :
                      q \in SwapExactInput(p, e, t, in, minOut)}
  BY DEF Sell, Require
<1> HIDE DEF in, minOut, fee, disOut
<1>2. ASSUME NEW r, Shape(r)
      PROVE  Lends(r, Sold(r), u)
  <2> HIDE DEF owes, c
  <2> DEFINE v == [r EXCEPT !.discountedCollateral[t] = @ - s.amount[t],
                            !.discountedCollateral[c] = @ + disOut,
                            !.discountedDebt[c] = IF owes THEN @ - s.amount[c] ELSE @]
             y == IF owes THEN disOut ELSE r.positions[u].amount[c] + disOut
  <2>1. Booked(r, v)
    <3> HIDE DEF s
    <3>1. QED
      BY <1>2 DEF Booked, Shape, Fields
  <2>2. Sold(r) = [v EXCEPT !.positions[u].amount[t] = 0,
                            !.positions[u].amount[c] = y,
                            !.positions[u].type = "Lend"]
    BY <1>2 DEF Shape, Fields
  <2> HIDE DEF v, y, s, Sold
  <2>3. /\ DOMAIN Sold(r) = Fields
        /\ Sold(r).mode = v.mode /\ Sold(r).params = v.params
        /\ Sold(r).initialPrice = v.initialPrice
        /\ Sold(r).heap = v.heap
    BY <2>1, <2>2 DEF Booked, Shape, Fields
  <2>4. /\ DOMAIN Sold(r).positions = Accounts
        /\ \A a \in Accounts \ {u} : Sold(r).positions[a] = v.positions[a]
    BY <2>1, <2>2 DEF Booked, Shape, Fields
  <2>5. /\ DOMAIN Sold(r).positions[u] = {"type", "inHeap", "amount"}
        /\ Sold(r).positions[u].type = "Lend"
        /\ Sold(r).positions[u].inHeap = v.positions[u].inHeap
    BY <2>1, <2>2 DEF Booked, Shape, Fields
  <2>6. Lends(v, Sold(r), u)
    BY <2>1, <2>3, <2>4, <2>5 DEF Booked, Lends, Frame, Shape
  <2>7. QED
    BY <2>1, <2>6, BookedLends
<1> HIDE DEF Sold
<1>3. CASE w = p
  BY <1>1, <1>3 DEF Acts, Frame
<1>4. CASE w # p
  <2>1. PICK q \in SwapExactInput(p, e, t, in, minOut) :
          w \in UNION {UNION {IF owes THEN HeapRemove(v, s.type, u) ELSE {v} :
                                v \in Unsigned(Sold(r))} : r \in ChargeFee(q, fee)}
    BY <1>1, <1>4
  <2>2. PICK r \in ChargeFee(q, fee) :
          w \in UNION {IF owes THEN HeapRemove(v, s.type, u) ELSE {v} :
                         v \in Unsigned(Sold(r))}
    BY <2>1
  <2>3. w \in IF owes THEN HeapRemove(Sold(r), s.type, u) ELSE {Sold(r)}
    BY <2>2, UnsignedIs
  <2>4. Booked(p, r)
    BY FeesBooked
  <2>5. Lends(r, Sold(r), u) /\ r.positions[u] = s
    BY <1>2, <2>4 DEF Booked
  <2>6. CASE owes
    BY <2>3, <2>4, <2>5, <2>6, SideOwingIs, LendsRemoved, BookedActs, ActsTransitive DEF Booked
  <2>7. CASE ~owes
    <3>1. s.type \notin Sides /\ w = Sold(r)
      BY <1>1, <1>4, <2>3, <2>7, SideOwingIs
    <3>2. QED
      BY <2>4, <2>5, <3>1, LenderLends, BookedActs, ActsTransitive DEF Lends
  <2>8. QED
    BY <2>6, <2>7
<1>5. QED
  BY <1>3, <1>4

\* Whoever enters a heap is of its side.
LEMMA EnterActs ==
  ASSUME NEW p, Shape(p), NEW e, NEW u \in Accounts, NEW side \in Sides,
         NEW w \in Enter(p, e, u, side)
  PROVE  Acts(p, w, u)
<1> DEFINE q == [HeapInsert(p, side, u) EXCEPT !.positions[u].type = side]
<1>1. CASE p.positions[u].type = "Lend"
  <2>1. w = q /\ ~p.positions[u].inHeap
    BY <1>1 DEF Enter, Require, RequireGoodLeverage
  <2>2. /\ Frame(p, q, {u})
        /\ q.positions[u].type = side /\ q.positions[u].inHeap = TRUE
        /\ \A other \in Sides \ {side} : q.heap[other] = p.heap[other]
    BY DEF HeapInsert, Frame, Shape, Fields
  <2> HIDE DEF q
  <2>3. QED
    BY <1>1, <2>1, <2>2 DEF Acts, Blank, Placed, Sides
<1>2. CASE p.positions[u].type # "Lend"
  <2>1. w = p
    BY <1>2 DEF Enter, Require, RequireGoodLeverage
  <2>2. QED
    BY <2>1 DEF Acts, Frame
<1>3. QED
  BY <1>1, <1>2

\* short: the sale, the swap and the heap.
LEMMA ShortActs ==
  ASSUME NEW p, Shape(p), NEW e, NEW u \in Accounts, NEW amount, NEW limit,
         NEW w \in Short(p, e, u, amount, limit)
  PROVE  Acts(p, w, u)
<1> DEFINE got == OutputOf(e, "base", amount)
           fee(q) == SwapFee(q, got)
           disDebt(q) == RecipMul(q.debtCoeff["base"], amount)
           disColl(q) == RecipMul(q.collateralCoeff["quote"],
                                  got - fee(q) + Mul(q.delevCoeff["quote"], disDebt(q)))
           minOut == MulDiv(limit, amount, Q96)
           Borrowed(q, v) == [v EXCEPT
             !.positions[u].amount["base"] = @ + disDebt(q),
             !.discountedDebt["base"] = @ + disDebt(q),
             !.positions[u].amount["quote"] = @ + disColl(q),
             !.discountedCollateral["quote"] = @ + disColl(q)]
           Borrow(q) == UNION {UNION {Enter(Borrowed(q, v), e, u, "Short") :
                                        v \in ChargeFee(r, fee(q))} :
                                 r \in SwapExactInput(q, e, "base", amount, minOut)}
<1>1. \E q \in Sell(p, e, u, "base", limit) : w \in Borrow(q)
  BY DEF Short, Require
<1> HIDE DEF fee, disDebt, disColl, minOut
<1>2. ASSUME NEW q, NEW v, Shape(v)
      PROVE  Moved(v, Borrowed(q, v), u)
  BY <1>2 DEF Moved, Frame, Shape, Fields
<1> HIDE DEF Borrowed
<1>3. PICK q \in Sell(p, e, u, "base", limit) : w \in Borrow(q)
  BY <1>1
<1>4. Acts(p, q, u) /\ q.positions[u].type # "Uninitialized" /\ Shape(q)
  BY SellActs DEF Acts, Frame
<1>5. PICK r \in SwapExactInput(q, e, "base", amount, minOut) :
             w \in UNION {Enter(Borrowed(q, v), e, u, "Short") : v \in ChargeFee(r, fee(q))}
  BY <1>3
<1>6. PICK v \in ChargeFee(r, fee(q)) : w \in Enter(Borrowed(q, v), e, u, "Short")
  BY <1>5
<1>7. Booked(q, v)
  BY <1>4, FeesBooked
<1>8. Moved(v, Borrowed(q, v), u)
  BY <1>2, <1>7 DEF Booked
<1>9. Acts(q, Borrowed(q, v), u) /\ Shape(Borrowed(q, v))
  BY <1>4, <1>7, <1>8, MovedActs, BookedActs, ActsTransitive DEF Booked, Moved, Frame
<1>10. Acts(Borrowed(q, v), w, u)
  BY <1>6, <1>9, EnterActs, "Short" \in Sides DEF Sides
<1>11. QED
  BY <1>4, <1>9, <1>10, ActsTransitive

\* long: the sale, the swap and the heap.
LEMMA LongActs ==
  ASSUME NEW p, Shape(p), NEW e, NEW u \in Accounts, NEW amount, NEW limit,
         NEW w \in Long(p, e, u, amount, limit)
  PROVE  Acts(p, w, u)
<1> DEFINE cost == InputFor(e, "quote", amount)
           fee(q) == SwapFee(q, cost)
           disDebt(q) == RecipMul(q.debtCoeff["quote"], cost + fee(q))
           disColl(q) == RecipMul(q.collateralCoeff["base"],
                                  amount + Mul(q.delevCoeff["base"], disDebt(q)))
           maxIn == MulDiv(limit, amount, Q96)
           Borrowed(q, v) == [v EXCEPT
             !.positions[u].amount["quote"] = @ + disDebt(q),
             !.discountedDebt["quote"] = @ + disDebt(q),
             !.positions[u].amount["base"] = @ + disColl(q),
             !.discountedCollateral["base"] = @ + disColl(q)]
           Borrow(q) == UNION {UNION {Enter(Borrowed(q, v), e, u, "Long") :
                                        v \in ChargeFee(r, fee(q))} :
                                 r \in SwapExactOutput(q, e, "quote", maxIn, amount)}
<1>1. \E q \in Sell(p, e, u, "quote", limit) : w \in Borrow(q)
  BY DEF Long, Require
<1> HIDE DEF fee, disDebt, disColl, maxIn
<1>2. ASSUME NEW q, NEW v, Shape(v)
      PROVE  Moved(v, Borrowed(q, v), u)
  BY <1>2 DEF Moved, Frame, Shape, Fields
<1> HIDE DEF Borrowed
<1>3. PICK q \in Sell(p, e, u, "quote", limit) : w \in Borrow(q)
  BY <1>1
<1>4. Acts(p, q, u) /\ q.positions[u].type # "Uninitialized" /\ Shape(q)
  BY SellActs DEF Acts, Frame
<1>5. PICK r \in SwapExactOutput(q, e, "quote", maxIn, amount) :
             w \in UNION {Enter(Borrowed(q, v), e, u, "Long") : v \in ChargeFee(r, fee(q))}
  BY <1>3
<1>6. PICK v \in ChargeFee(r, fee(q)) : w \in Enter(Borrowed(q, v), e, u, "Long")
  BY <1>5
<1>7. Booked(q, v)
  BY <1>4, FeesBooked
<1>8. Moved(v, Borrowed(q, v), u)
  BY <1>2, <1>7 DEF Booked
<1>9. Acts(q, Borrowed(q, v), u) /\ Shape(Borrowed(q, v))
  BY <1>4, <1>7, <1>8, MovedActs, BookedActs, ActsTransitive DEF Booked, Moved, Frame
<1>10. Acts(Borrowed(q, v), w, u)
  BY <1>6, <1>9, EnterActs, "Long" \in Sides DEF Sides
<1>11. QED
  BY <1>4, <1>9, <1>10, ActsTransitive

\* The coefficients that turn discounted amounts into real ones.
SameCoeffs(p, q) ==
  /\ q.collateralCoeff = p.collateralCoeff
  /\ q.delevCoeff = p.delevCoeff
  /\ q.debtCoeff = p.debtCoeff

\* The numbers that measure a position are unsigned.
Measured(p, e, u, q) ==
  /\ p.positions[u].amount \in [Tokens -> Nat]
  /\ \A coeff \in {q.collateralCoeff, q.delevCoeff, q.debtCoeff} : coeff \in [Tokens -> Nat]
  /\ e.price \in Nat

\* No amount is worth nothing, whatever the coefficient or the price.
LEMMA NothingOfNothing ==
  ASSUME NEW x \in Nat, NEW y \in Nat \ {0}
  PROVE  Mul(x, 0) = 0 /\ RecipMul(y, 0) = 0
<1>1. \A n \in Nat \ {0} : 0 \div n = 0
  OBVIOUS
<1>2. x * 0 = 0 /\ Q96 * 0 = 0
  BY FixedPointAssumption
<1>3. QED
  BY <1>1, <1>2, FixedPointAssumption DEF Mul, RecipMul, MulDiv

\* A product of two naturals is one.
LEMMA MulIsNat ==
  ASSUME NEW x \in Nat, NEW y \in Nat
  PROVE  Mul(x, y) \in Nat
<1>1. x * y \in Nat
  OBVIOUS
<1>2. \A n \in Nat : n \div Q96 \in Nat
  BY FixedPointAssumption
<1>3. QED
  BY <1>1, <1>2 DEF Mul, MulDiv

\* A margin position that has nothing, and owes nothing, has bad leverage: calcLeverage is
\* the greatest number unless the collateral is more than the debt.
LEMMA NothingIsBad ==
  ASSUME NEW p, NEW e, NEW s, NEW t \in Tokens, e.price \in Nat,
         \A coeff \in {p.collateralCoeff, p.delevCoeff, p.debtCoeff} : coeff \in [Tokens -> Nat],
         s.type = SideOwing(Other(t)), s.amount = [x \in Tokens |-> 0]
  PROVE  HasBadLeverage(p, e, s)
<1>1. /\ Other(t) \in Tokens /\ Other(Other(t)) = t /\ s.type \in Sides
      /\ DebtToken(s.type) = Other(t) /\ (s.type = "Short" <=> t = "quote")
  BY DEF Other, Tokens, SideOwing, DebtToken, Sides
<1>2. PositionCollateral(p, s, t) = 0
  <2>1. s.amount[t] = 0 /\ s.amount[Other(t)] = 0
    BY <1>1
  <2>2. Mul(p.collateralCoeff[t], 0) = 0 /\ Mul(p.delevCoeff[t], 0) = 0
    BY NothingOfNothing, 1 \in Nat \ {0}
  <2>3. QED
    BY <2>1, <2>2 DEF PositionCollateral, RealCollateral
<1>3. CollateralValue(p, e, s) = 0
  <2>1. Mul(e.price, 0) = 0
    BY NothingOfNothing, 1 \in Nat \ {0}
  <2>2. QED
    BY <1>1, <1>2, <2>1 DEF CollateralValue, InQuote
<1>4. DebtValue(p, e, s) = 0
  <2>1. "base" \in Tokens /\ "quote" \in Tokens
    BY DEF Tokens
  <2>2. p.debtCoeff["base"] \in Nat /\ p.debtCoeff["quote"] \in Nat
    BY <2>1
  <2>3. Mul(p.debtCoeff["base"], e.price) \in Nat
    BY <2>2, MulIsNat
  <2>4. Mul(Mul(p.debtCoeff["base"], e.price), 0) = 0 /\ Mul(p.debtCoeff["quote"], 0) = 0
    BY <2>2, <2>3, NothingOfNothing, 1 \in Nat \ {0}
  <2>5. s.amount["base"] = 0 /\ s.amount["quote"] = 0
    BY <2>1
  <2>6. QED
    BY <2>4, <2>5 DEF DebtValue, RealDebt
<1>5. QED
  BY <1>1, <1>3, <1>4 DEF HasBadLeverage

\* withdrawBase, withdrawQuote.  The code deletes the position by its amounts and leaves
\* the node: a margin position is safe from that because without any amount its leverage
\* is bad, and the call reverts.
LEMMA WithdrawActs ==
  ASSUME NEW p, Shape(p), NEW e, NEW u \in Accounts, NEW t \in Tokens, NEW amount,
         NEW w \in Withdraw(p, e, u, t, amount)
  PROVE  /\ Frame(p, w, {u})
         /\ Blank(w, u)
         /\ SameCoeffs(p, w)
         /\ Placed(p, u) /\ Measured(p, e, u, w) => Placed(w, u)
<1> DEFINE s == p.positions[u]
           c == Other(t)
           real == PositionCollateral(p, s, t)
           full == amount >= real
           out == IF full THEN real ELSE amount
           disOut == IF full THEN s.amount[t] ELSE RecipMul(p.collateralCoeff[t], out)
           q == [p EXCEPT !.positions[u].amount[t] = @ - disOut,
                          !.discountedCollateral[t] = @ - disOut]
           Left(v) == IF full /\ s.amount[c] = 0
                      THEN [v EXCEPT !.positions[u] = NoPosition] ELSE v
<1>0. /\ s.type \notin {"Uninitialized", SideOwing(t)}
      /\ w \in UNION {UNION {TransferOut(Left(v), t, out) :
                               v \in RequireGoodLeverage(r, e, u)} : r \in Unsigned(q)}
  BY DEF Withdraw, Require
<1>1. /\ s.type \notin {"Uninitialized", SideOwing(t)}
      /\ ~HasBadLeverage(q, e, q.positions[u])
      /\ w \in TransferOut(Left(q), t, out)
  <2> HIDE DEF q, Left, out
  <2>1. QED
    BY <1>0, UnsignedIs DEF RequireGoodLeverage, Require
<1>2. w \in TransferOut(Left(q), t, out) /\ s.type # "Uninitialized"
  BY <1>1
<1>3. Moved(p, q, u) /\ SameCoeffs(p, q)
  <2> HIDE DEF disOut
  <2>1. QED
    BY DEF Moved, Frame, Shape, Fields, SameCoeffs
<1>4. Booked(Left(q), w) /\ SameCoeffs(Left(q), w) /\ Shape(Left(q))
  <2> HIDE DEF q, out, full, c
  <2>1. Shape(Left(q))
    BY <1>3 DEF Moved, Frame, Shape, Fields, NoPosition
  <2> HIDE DEF Left
  <2>2. Booked(Left(q), w)
    BY <1>2, <2>1, TransfersBooked
  <2>3. SameCoeffs(Left(q), w)
    BY <1>2, <2>1 DEF TransferOut, Require, SameCoeffs, Shape, Fields
  <2>4. QED
    BY <2>1, <2>2, <2>3
<1> HIDE DEF q, disOut
<1>5. CASE ~(full /\ s.amount[c] = 0)
  <2>1. Left(q) = q
    BY <1>5
  <2> HIDE DEF Left, full, c, out
  <2>2. Acts(p, q, u) /\ q.positions[u].type = s.type
    BY <1>2, <1>3, MovedActs
  <2>3. Acts(q, w, u) /\ w.positions[u] = q.positions[u]
    BY <1>4, <2>1, BookedActs DEF Booked
  <2>4. Acts(p, w, u)
    BY <2>2, <2>3, ActsTransitive
  <2>5. QED
    BY <1>2, <1>3, <1>4, <2>1, <2>2, <2>3, <2>4 DEF Acts, Blank, SameCoeffs
<1>6. CASE full /\ s.amount[c] = 0
  <2>1. Left(q) = [q EXCEPT !.positions[u] = NoPosition]
    BY <1>6
  <2> HIDE DEF Left
  <2>2. /\ Frame(p, Left(q), {u}) /\ SameCoeffs(p, Left(q))
        /\ Left(q).positions[u] = NoPosition
        /\ Left(q).heap = p.heap
    BY <1>3, <2>1 DEF Moved, Frame, Shape, Fields, NoPosition, SameCoeffs
  <2>3. /\ Frame(p, w, {u}) /\ SameCoeffs(p, w)
        /\ w.positions[u] = NoPosition
        /\ w.heap = p.heap
    BY <1>4, <2>2, BookedFrame, FrameTransitive, {u} \cup {u} = {u} DEF SameCoeffs, Booked
  <2>4. Blank(w, u)
    BY <2>3 DEF Blank
  <2>5. ASSUME Measured(p, e, u, w)
        PROVE  s.type \notin Sides
    <3>1. c \in Tokens /\ Other(c) = t
      BY DEF Other, Tokens
    <3>2. s.amount[t] \in Nat /\ s.amount[c] = 0
      BY <1>6, <2>5 DEF Measured
    <3>3. disOut = s.amount[t]
      BY <1>6 DEF disOut
    <3>4. /\ q.positions[u].type = s.type
          /\ q.positions[u].amount = [s.amount EXCEPT ![t] = s.amount[t] - disOut]
      <4> HIDE DEF disOut
      <4>1. QED
        BY DEF q, Shape, Fields
    <3>5. q.positions[u].amount = [x \in Tokens |-> 0]
      <4>1. s.amount[t] - disOut = 0
        BY <3>2, <3>3
      <4>2. \A x \in Tokens : x = t \/ x = c
        BY DEF Other, Tokens
      <4> HIDE DEF c, disOut
      <4>3. QED
        BY <2>5, <3>2, <3>4, <4>1, <4>2 DEF Measured
    <3>6. SameCoeffs(q, w)
      BY <1>3, <2>3 DEF SameCoeffs
    <3>7. \A coeff \in {q.collateralCoeff, q.delevCoeff, q.debtCoeff} : coeff \in [Tokens -> Nat]
      BY <2>5, <3>6 DEF Measured, SameCoeffs
    <3>8. s.type = SideOwing(c) => HasBadLeverage(q, e, q.positions[u])
      BY <2>5, <3>4, <3>5, <3>7, NothingIsBad DEF Measured
    <3>9. s.type \in Sides => s.type = SideOwing(c)
      BY <1>1, SideOwingIs
    <3>10. QED
      BY <1>1, <3>8, <3>9
  <2>6. Placed(p, u) /\ Measured(p, e, u, w) => Placed(w, u)
    BY <2>3, <2>4, <2>5 DEF Placed, NoPosition, Sides
  <2>7. QED
    BY <2>3, <2>4, <2>6
<1>7. QED
  BY <1>5, <1>6

-----------------------------------------------------------------------------
(* A whole transaction.                                                    *)

\* syncBaseBalance, syncQuoteBalance move amounts of the technical position only.
LEMMA SyncMoves ==
  ASSUME NEW p, Shape(p), NEW q \in SyncBalances(p)
  PROVE  Moved(p, q, TechPositionOwner) /\ SameCoeffs(p, q)
<1>1. ASSUME NEW r, Shape(r), NEW t, NEW v \in SyncBalance(r, t)
      PROVE  Moved(r, v, TechPositionOwner) /\ SameCoeffs(r, v)
  <2> DEFINE u == TechPositionOwner
             Synced(d) == [r EXCEPT !.positions[u].amount[t] = @ + d,
                                    !.discountedCollateral[t] = @ + d]
  <2>1. \E d : v \in Unsigned(Synced(d))
    BY <1>1 DEF SyncBalance, Require
  <2>2. PICK d : v \in Unsigned(Synced(d))
    BY <2>1
  <2>3. u \in Accounts
    BY PoolAssumption
  <2> HIDE DEF u
  <2>4. Moved(r, Synced(d), u) /\ SameCoeffs(r, Synced(d))
    BY <1>1, <2>3 DEF Moved, Frame, Shape, Fields, SameCoeffs
  <2> HIDE DEF Synced
  <2>5. QED
    BY <2>2, <2>4, UnsignedIs DEF u
<1>2. PICK r \in SyncBalance(p, "base") : q \in SyncBalance(r, "quote")
  BY DEF SyncBalances
<1>3. Moved(p, r, TechPositionOwner) /\ SameCoeffs(p, r)
  BY <1>1
<1>4. Moved(r, q, TechPositionOwner) /\ SameCoeffs(r, q)
  BY <1>1, <1>2, <1>3 DEF Moved, Frame
<1>5. QED
  BY <1>3, <1>4, MovedTransitive DEF SameCoeffs

\* The technical position keeps its place.
TechStays(p, q) ==
  /\ q.positions[TechPositionOwner].type = p.positions[TechPositionOwner].type
  /\ q.positions[TechPositionOwner].inHeap = p.positions[TechPositionOwner].inHeap
  /\ \A side \in Sides : q.heap[side][TechPositionOwner] = p.heap[side][TechPositionOwner]

\* As Acts, for a call that may also change amounts of the technical position.
Performs(p, e, q, u) ==
  /\ Frame(p, q, {u, TechPositionOwner})
  /\ TechStays(p, q)
  /\ Blank(p, u) => Blank(q, u)
  /\ Placed(p, u) /\ Measured(p, e, u, q) => Placed(q, u)

\* More accounts may be left out of a frame.
LEMMA FrameWidens ==
  ASSUME NEW p, NEW q, NEW S, NEW T, Frame(p, q, S), S \subseteq T
  PROVE  Frame(p, q, T)
BY DEF Frame

\* A call that touches its sender only performs.
LEMMA ActsPerforms ==
  ASSUME NEW p, NEW e, NEW q, NEW u, Acts(p, q, u), u # TechPositionOwner
  PROVE  Performs(p, e, q, u)
<1>1. Frame(p, q, {u, TechPositionOwner})
  BY FrameWidens, {u} \subseteq {u, TechPositionOwner} DEF Acts
<1>2. TechStays(p, q)
  BY PoolAssumption DEF Acts, Frame, TechStays
<1>3. QED
  BY <1>1, <1>2 DEF Acts, Performs

\* So does one that touches the technical position only.
LEMMA MovedTechPerforms ==
  ASSUME NEW p, NEW e, NEW q, NEW u \in Accounts, Moved(p, q, TechPositionOwner),
         u # TechPositionOwner
  PROVE  Performs(p, e, q, u)
<1>1. Frame(p, q, {u, TechPositionOwner})
  BY FrameWidens, {TechPositionOwner} \subseteq {u, TechPositionOwner} DEF Moved
<1>2. TechStays(p, q)
  BY DEF Moved, TechStays
<1>3. (Blank(p, u) => Blank(q, u)) /\ (Placed(p, u) => Placed(q, u))
  BY DEF Moved, Frame, Blank, Placed
<1>4. QED
  BY <1>1, <1>2, <1>3 DEF Performs

\* The calls that accrue interest and call roots before they run.
CallNames == CallTypes \ {"ReceivePosition", "EmergencyWithdraw"}

\* All the calls of execute that run between reinit and updateHeap.
LEMMA CallPerforms ==
  ASSUME NEW p, Shape(p), NEW e, NEW u \in Accounts, u # TechPositionOwner,
         NEW c, c.call \in CallNames, NEW w \in Call(p, e, u, c)
  PROVE  Performs(p, e, w, u)
<1> DEFINE size == IF c.amount2 > 0 THEN c.amount2 ELSE -c.amount2
           Leveraged(q) ==
             IF c.amount2 = 0 THEN {q}
             ELSE IF (c.amount2 > 0) = (c.call = "DepositBase")
                  THEN Long(q, e, u, size, c.limit)
                  ELSE Short(q, e, u, size, c.limit)
           t == IF c.call \in {"DepositBase", "WithdrawBase"} THEN "base" ELSE "quote"
<1>1. CASE c.call \in {"DepositBase", "DepositQuote"}
  <2>1. w \in UNION {Leveraged(q) : q \in Deposit(p, e, u, t, c.amount1)}
    BY <1>1 DEF Call
  <2> HIDE DEF t, size
  <2>2. PICK q \in Deposit(p, e, u, t, c.amount1) : w \in Leveraged(q)
    BY <2>1
  <2>3. Acts(p, q, u) /\ Shape(q)
    BY DepositActs DEF Acts, Frame
  <2>4. \/ w = q
        \/ w \in Long(q, e, u, size, c.limit)
        \/ w \in Short(q, e, u, size, c.limit)
    BY <2>2
  <2>5. Acts(p, w, u)
    BY <2>3, <2>4, LongActs, ShortActs, ActsTransitive
  <2>6. QED
    BY <2>5, ActsPerforms
<1>2. CASE c.call \in {"WithdrawBase", "WithdrawQuote"}
  <2>1. w \in Withdraw(p, e, u, t, c.amount1) /\ t \in Tokens
    BY <1>2 DEF Call, Tokens
  <2> HIDE DEF t
  <2>2. /\ Frame(p, w, {u})
        /\ Blank(w, u)
        /\ Placed(p, u) /\ Measured(p, e, u, w) => Placed(w, u)
    BY <2>1, WithdrawActs
  <2>3. Frame(p, w, {u, TechPositionOwner})
    BY <2>2, FrameWidens, {u} \subseteq {u, TechPositionOwner}
  <2>4. TechStays(p, w)
    BY <2>2, PoolAssumption DEF Frame, TechStays
  <2>5. QED
    BY <2>2, <2>3, <2>4 DEF Performs
<1>3. CASE c.call = "Short"
  BY <1>3, ShortActs, ActsPerforms DEF Call
<1>4. CASE c.call = "Long"
  BY <1>4, LongActs, ActsPerforms DEF Call
<1>5. CASE c.call = "ClosePosition"
  BY <1>5, ClosePositionActs, ActsPerforms DEF Call
<1>6. CASE c.call = "Reinit"
  <2>1. w \in SyncBalances(p) \/ w = p
    BY <1>6 DEF Call
  <2>2. Moved(p, p, TechPositionOwner)
    BY DEF Moved, Frame
  <2>3. QED
    BY <2>1, <2>2, SyncMoves, MovedTechPerforms
<1>7. QED
  BY <1>1, <1>2, <1>3, <1>4, <1>5, <1>6 DEF CallNames, CallTypes

\* A margin position stands in its heap under the key of its amounts.
Keyed(p, a) ==
  p.positions[a].type \in Sides =>
    p.heap[p.positions[a].type][a] = SortKey(p, p.positions[a])

\* An account outside of the frame keeps its place and its key.
LEMMA KeyStays ==
  ASSUME NEW p, NEW q, NEW S, Frame(p, q, S), NEW a \in Accounts \ S
  PROVE  /\ Keyed(p, a) => Keyed(q, a)
         /\ Blank(p, a) => Blank(q, a)
         /\ Placed(p, a) => Placed(q, a)
BY DEF Frame, Keyed, SortKey, Blank, Placed

\* A change of the books changes no key.
LEMMA BookedKeyed ==
  ASSUME NEW p, NEW q, Booked(p, q), NEW a \in Accounts
  PROVE  Keyed(p, a) => Keyed(q, a)
BY DEF Booked, Keyed, SortKey

\* Every heap holds the positions of its side, under their keys.
InOrder(p) ==
  /\ TechLends(p)
  /\ \A a \in Accounts : Placed(p, a) /\ Keyed(p, a)

\* The order of the heaps survives a change of the books,
LEMMA BookedInOrder ==
  ASSUME NEW p, NEW q, Booked(p, q), InOrder(p)
  PROVE  InOrder(q)
<1>1. TechLends(q)
  BY PoolAssumption DEF InOrder, TechLends, Booked
<1>2. ASSUME NEW a \in Accounts
      PROVE  Placed(q, a) /\ Keyed(q, a)
  BY BookedKeyed, BookedActs DEF InOrder, Acts
<1>3. QED
  BY <1>1, <1>2 DEF InOrder

\* fees for the technical position,
LEMMA MovedTechInOrder ==
  ASSUME NEW p, NEW q, Moved(p, q, TechPositionOwner), InOrder(p)
  PROVE  InOrder(q)
<1>1. TechLends(p) /\ TechLends(q)
  BY DEF InOrder, TechLends, Moved
<1>2. ASSUME NEW a \in Accounts
      PROVE  Placed(q, a) /\ Keyed(q, a)
  <2>1. Placed(q, a)
    BY <1>1, MovedTechKeeps DEF InOrder, Keeps
  <2>2. CASE a = TechPositionOwner
    BY <1>1, <2>1, <2>2 DEF TechLends, Keyed, Sides
  <2>3. CASE a # TechPositionOwner
    BY <2>1, <2>3, KeyStays DEF Moved, InOrder
  <2>4. QED
    BY <2>2, <2>3
<1>3. QED
  BY <1>1, <1>2 DEF InOrder

\* margin calls,
LEMMA CalledInOrder ==
  ASSUME NEW p, NEW r, Called(p, r, {TechPositionOwner}), InOrder(p)
  PROVE  InOrder(r.pool)
<1>1. TechLends(p) /\ TechLends(r.pool)
  BY DEF InOrder, Called, Keeps
<1>2. ASSUME NEW a \in Accounts
      PROVE  Placed(r.pool, a) /\ Keyed(r.pool, a)
  <2>1. Placed(r.pool, a)
    BY <1>1 DEF InOrder, Called, Keeps
  <2>2. CASE a \in r.called
    BY <2>1, <2>2 DEF Called, Keyed, NoPosition, Sides
  <2>3. CASE a = TechPositionOwner
    BY <1>1, <2>1, <2>3 DEF TechLends, Keyed, Sides
  <2>4. CASE a \notin r.called \cup {TechPositionOwner}
    BY <2>1, <2>4, KeyStays DEF Called, InOrder
  <2>5. QED
    BY <2>2, <2>3, <2>4
<1>3. QED
  BY <1>1, <1>2 DEF InOrder

\* and a call followed by updateHeap.
LEMMA PerformsInOrder ==
  ASSUME NEW p, Shape(p), NEW e, NEW q, NEW u \in Accounts, u # TechPositionOwner,
         Performs(p, e, q, u), NEW v \in UpdateHeap(q, u)
  PROVE  /\ Frame(p, v, {u, TechPositionOwner})
         /\ Blank(p, u) => Blank(v, u)
         /\ SameCoeffs(q, v)
         /\ InOrder(p) /\ Measured(p, e, u, v) => InOrder(v)
<1>1. Shape(q)
  BY DEF Performs, Frame
<1>2. /\ Frame(q, v, {u})
      /\ v.positions = q.positions
      /\ q.positions[u].type \in Sides =>
           v.heap[q.positions[u].type][u] = SortKey(v, v.positions[u])
      /\ \A other \in Sides : other # q.positions[u].type => v.heap[other] = q.heap[other]
  BY <1>1, HeapUpdates
<1>3. SameCoeffs(q, v)
  BY <1>1 DEF UpdateHeap, Require, SameCoeffs, Shape, Fields
<1>4. Frame(p, v, {u, TechPositionOwner})
  BY <1>2, FrameTransitive, {u, TechPositionOwner} \cup {u} = {u, TechPositionOwner}
     DEF Performs
<1>5. Blank(p, u) => Blank(v, u)
  BY <1>2 DEF Performs, Blank
<1>6. ASSUME InOrder(p), Measured(p, e, u, v)
      PROVE  InOrder(v)
  <2>1. Measured(p, e, u, q)
    BY <1>3, <1>6 DEF Measured, SameCoeffs
  <2>2. Placed(q, u)
    BY <1>6, <2>1 DEF InOrder, Performs
  <2>3. Placed(v, u) /\ Keyed(v, u)
    BY <1>2, <2>2 DEF Placed, Blank, Keyed
  <2>4. TechStays(p, v)
    <3>1. /\ v.positions[TechPositionOwner] = q.positions[TechPositionOwner]
          /\ \A side \in Sides : v.heap[side][TechPositionOwner] = q.heap[side][TechPositionOwner]
      BY <1>2, PoolAssumption DEF Frame
    <3>2. QED
      BY <3>1 DEF Performs, TechStays
  <2>5. /\ TechLends(v)
        /\ Placed(v, TechPositionOwner) /\ Keyed(v, TechPositionOwner)
    BY <1>6, <2>4, PoolAssumption DEF InOrder, TechLends, TechStays, Placed, Blank, Keyed, Sides
  <2>6. ASSUME NEW a \in Accounts \ {u, TechPositionOwner}
        PROVE  Placed(v, a) /\ Keyed(v, a)
    BY <1>4, <1>6, KeyStays DEF InOrder
  <2>7. QED
    BY <2>3, <2>5, <2>6 DEF InOrder
<1>7. QED
  BY <1>3, <1>4, <1>5, <1>6

\* What a transaction of u that margin called S does to the pool.
Transacts(p, e, q, u, S) ==
  /\ S \subseteq Accounts
  /\ Frame(p, q, S \cup {u, TechPositionOwner})
  /\ \A a \in S \ {TechPositionOwner} : q.positions[a] = NoPosition
  /\ \A a \in Accounts \ {TechPositionOwner} : Blank(p, a) => Blank(q, a)
  /\ InOrder(p) /\ Measured(p, e, u, q) => InOrder(q)

\* A transaction may end with its margin calls,
LEMMA CalledTransacts ==
  ASSUME NEW p, NEW e, NEW r, NEW u \in Accounts, u # TechPositionOwner,
         Called(p, r, {TechPositionOwner}), NEW q, Booked(r.pool, q)
  PROVE  Transacts(p, e, q, u, r.called)
<1>1. Frame(p, q, r.called \cup {u, TechPositionOwner})
  BY BookedFrame DEF Called, Frame, Booked
<1>2. ASSUME NEW a \in Accounts \ {TechPositionOwner}, Blank(p, a)
      PROVE  Blank(q, a)
  <2>1. Blank(r.pool, a)
    BY <1>2 DEF Called, Keeps
  <2>2. QED
    BY <2>1 DEF Booked, Blank
<1>3. InOrder(p) => InOrder(q)
  BY CalledInOrder, BookedInOrder
<1>4. \A a \in r.called : q.positions[a] = NoPosition
  BY DEF Called, Booked
<1>5. QED
  BY <1>1, <1>2, <1>3, <1>4 DEF Called, Transacts

\* the sender being one of those called.
LEMMA LiquidationTransacts ==
  ASSUME NEW p, NEW e, NEW r, NEW u \in Accounts, u # TechPositionOwner,
         Called(p, r, {TechPositionOwner}), u \notin r.called,
         NEW q, Deleted(r.pool, q, u), r.pool.positions[u].type \in Sides
  PROVE  Called(p, [pool |-> q, called |-> r.called \cup {u}], {TechPositionOwner})
<1> DEFINE v == [pool |-> q, called |-> r.called \cup {u}]
<1>1. Frame(p, q, r.called \cup {u} \cup {TechPositionOwner})
  BY FrameTransitive, (r.called \cup {TechPositionOwner}) \cup {u} =
                      r.called \cup {u} \cup {TechPositionOwner}
     DEF Called, Deleted
<1>2. Keeps(p, q)
  BY DeletedKeeps, KeepsTransitive DEF Called
<1>3. \A a \in r.called \cup {u} : q.positions[a] = NoPosition
  BY DEF Called, Deleted, Frame
<1>4. v.pool = q /\ v.called = r.called \cup {u}
  OBVIOUS
<1> HIDE DEF v
<1>5. Called(p, v, {TechPositionOwner})
  BY <1>1, <1>2, <1>3, <1>4 DEF Called
<1>6. QED
  BY <1>5 DEF v

\* execute, for every call that accrues interest first.  The call is dropped if the margin
\* calls before it took the position of its sender.
LEMMA CallTransacts ==
  ASSUME NEW p, Shape(p), NEW e, e.now \in Nat, NEW u \in Accounts, u # TechPositionOwner,
         NEW c, c.call \in CallNames, NEW x \in Execute(p, e, u, c)
  PROVE  /\ p.mode = "Regular"
         /\ Transacts(p, e, x.pool, u, x.called)
         /\ Blamed(p, e, x.called)
         /\ x.done <=> u \notin x.called
<1> DEFINE Result(q, called, done) == [pool |-> q, called |-> called, done |-> done]
           After(r) ==
             IF u \in r.called
             THEN {Result(q, r.called, FALSE) : q \in UpdateSystemLeverages(r.pool, e)}
             ELSE IF ~LeverageDefined(r.pool, r.pool.positions[u]) THEN {}
             ELSE IF HasBadLeverage(r.pool, e, r.pool.positions[u])
             THEN {Result(v, r.called \cup {u}, FALSE) :
                     v \in UNION {UpdateSystemLeverages(q, e) : q \in Liquidate(r.pool, e, u)}}
             ELSE {Result(w, r.called, TRUE) :
                     w \in UNION {UpdateSystemLeverages(v, e) :
                             v \in UNION {UpdateHeap(q, u) : q \in Call(r.pool, e, u, c)}}}
<1>1. p.mode = "Regular" /\ x \in UNION {After(r) : r \in Reinit(p, e)}
  BY DEF Execute, CallNames, CallTypes, Require
<1> HIDE DEF Result
<1>2. PICK r \in Reinit(p, e) : x \in After(r)
  BY <1>1
<1>3. /\ Called(p, r, {TechPositionOwner}) /\ Shape(r.pool)
      /\ Blamed(p, e, r.called)
      /\ r.called = {} => r.pool \in AccrueInterest(p, e)
  BY ReinitCalls DEF Called, Frame
<1>4. CASE u \in r.called
  <2>1. PICK q \in UpdateSystemLeverages(r.pool, e) : x = Result(q, r.called, FALSE)
    BY <1>2, <1>4
  <2>2. Booked(r.pool, q)
    BY <1>3, LeveragesBooked
  <2>3. QED
    <3>1. x.pool = q /\ x.called = r.called /\ x.done = FALSE
      BY <2>1 DEF Result
    <3>2. QED
      BY <1>1, <1>3, <1>4, <2>2, <3>1, CalledTransacts
<1>5. CASE u \notin r.called /\ HasBadLeverage(r.pool, e, r.pool.positions[u])
  <2>1. PICK v \in UNION {UpdateSystemLeverages(q, e) : q \in Liquidate(r.pool, e, u)} :
               x = Result(v, r.called \cup {u}, FALSE)
    BY <1>2, <1>5
  <2>2. PICK q \in Liquidate(r.pool, e, u) : v \in UpdateSystemLeverages(q, e)
    OBVIOUS
  <2>3. Deleted(r.pool, q, u) /\ r.pool.positions[u].type \in Sides
    BY <1>3, LiquidationDeletes
  <2> DEFINE y == [pool |-> q, called |-> r.called \cup {u}]
  <2>4. Called(p, y, {TechPositionOwner})
    BY <1>3, <1>5, <2>3, LiquidationTransacts
  <2>5. Booked(q, v)
    BY <2>2, <2>3, LeveragesBooked DEF Deleted, Frame
  <2>6. y.pool = q /\ y.called = r.called \cup {u}
    OBVIOUS
  <2> HIDE DEF y
  <2>7. Transacts(p, e, v, u, y.called)
    BY <2>4, <2>5, <2>6, CalledTransacts
  <2>8. Blamed(p, e, r.called \cup {u})
    BY <1>3, <1>5 DEF Blamed, Overdue
  <2>9. QED
    <3>1. x.pool = v /\ x.called = r.called \cup {u} /\ x.done = FALSE
      BY <2>1 DEF Result
    <3>2. QED
      BY <1>1, <2>6, <2>7, <2>8, <3>1
<1>6. CASE u \notin r.called /\ ~HasBadLeverage(r.pool, e, r.pool.positions[u])
  <2>1. PICK w \in UNION {UpdateSystemLeverages(v, e) :
                     v \in UNION {UpdateHeap(q, u) : q \in Call(r.pool, e, u, c)}} :
               x = Result(w, r.called, TRUE)
    BY <1>2, <1>6
  <2>2. PICK v \in UNION {UpdateHeap(q, u) : q \in Call(r.pool, e, u, c)} :
               w \in UpdateSystemLeverages(v, e)
    OBVIOUS
  <2>3. PICK q \in Call(r.pool, e, u, c) : v \in UpdateHeap(q, u)
    OBVIOUS
  <2>4. Performs(r.pool, e, q, u)
    BY <1>3, CallPerforms
  <2>5. /\ Frame(r.pool, v, {u, TechPositionOwner})
        /\ Blank(r.pool, u) => Blank(v, u)
        /\ InOrder(r.pool) /\ Measured(r.pool, e, u, v) => InOrder(v)
    BY <1>3, <2>3, <2>4, PerformsInOrder
  <2>6. Booked(v, w) /\ SameCoeffs(v, w)
    <3>1. Shape(v)
      BY <2>5 DEF Frame
    <3>2. SameCoeffs(v, w)
      BY <2>2, <3>1 DEF UpdateSystemLeverages, SameCoeffs, Shape, Fields
    <3>3. QED
      BY <2>2, <3>1, <3>2, LeveragesBooked
  <2>7. Frame(p, w, r.called \cup {u, TechPositionOwner})
    <3>1. Frame(p, v, r.called \cup {u, TechPositionOwner})
      BY <1>3, <2>5, FrameTransitive,
         (r.called \cup {TechPositionOwner}) \cup {u, TechPositionOwner}
           = r.called \cup {u, TechPositionOwner}
         DEF Called
    <3>2. Frame(v, w, {})
      BY <2>6, BookedFrame
    <3>3. QED
      BY <3>1, <3>2, FrameTransitive,
         (r.called \cup {u, TechPositionOwner}) \cup {} = r.called \cup {u, TechPositionOwner}
  <2>8. ASSUME NEW a \in Accounts \ {TechPositionOwner}, Blank(p, a)
        PROVE  Blank(w, a)
    <3>1. Blank(r.pool, a)
      BY <1>3, <2>8 DEF Called, Keeps
    <3>2. Blank(v, a)
      BY <2>5, <3>1 DEF Frame, Blank
    <3>3. QED
      BY <2>6, <3>2 DEF Booked, Blank
  <2>9. ASSUME InOrder(p), Measured(p, e, u, w)
        PROVE  InOrder(w)
    <3>1. r.pool.positions[u] = p.positions[u] /\ r.pool.params = p.params
      BY <1>3, <1>6 DEF Called, Frame
    <3>2. Measured(r.pool, e, u, v)
      BY <2>6, <2>9, <3>1 DEF Measured, SameCoeffs
    <3>3. QED
      BY <1>3, <2>5, <2>6, <2>9, <3>2, CalledInOrder, BookedInOrder
  <2>10. Transacts(p, e, w, u, r.called)
    <3>1. \A a \in r.called \ {TechPositionOwner} : w.positions[a] = NoPosition
      BY <1>3, <1>6, <2>5, <2>6 DEF Called, Frame, Booked
    <3>2. QED
      BY <1>3, <2>7, <2>8, <2>9, <3>1 DEF Transacts, Called
  <2>11. QED
    <3>1. x.pool = w /\ x.called = r.called /\ x.done = TRUE
      BY <2>1 DEF Result
    <3>2. QED
      BY <1>1, <1>3, <1>6, <2>10, <3>1
<1>7. QED
  BY <1>4, <1>5, <1>6

-----------------------------------------------------------------------------
(* Positions that change hands, emergencies.                               *)

\* The storage of receivePosition, before updateHeap.
WithOwner(p, u, bad, side, full, amounts, key, t, c, x, y, z, n) ==
  [p EXCEPT !.positions[u] = [type   |-> IF full THEN "Lend" ELSE side,
                              inHeap |-> ~full, amount |-> amounts],
            !.heap[side] = [p.heap[side] EXCEPT ![u] = IF full THEN NoKey ELSE key,
                                                ![bad] = NoKey],
            !.discountedDebt[t] = @ - x,
            !.discountedCollateral[c] = @ + y - z,
            !.discountedCollateral[t] = @ + n]

\* What bad held, u holds.
Owned(p, q, u, bad, side, full) ==
  /\ Frame(p, q, {u, bad})
  /\ q.positions[u].type = IF full THEN "Lend" ELSE side
  /\ q.positions[u].inHeap <=> ~full
  /\ full => q.heap[side][u] = NoKey
  /\ bad \in Accounts => q.heap[side][bad] = NoKey
  /\ \A other \in Sides \ {side} : q.heap[other] = p.heap[other]

\* The position of bad changes hands, and its node with it.
LEMMA OwnerChanges ==
  ASSUME NEW p, Shape(p), NEW u \in Accounts, NEW bad, bad # u, NEW side \in Sides,
         NEW full \in BOOLEAN, NEW amounts, NEW key, NEW t, NEW c, NEW x, NEW y, NEW z, NEW n
  PROVE  Owned(p, WithOwner(p, u, bad, side, full, amounts, key, t, c, x, y, z, n),
               u, bad, side, full)
<1> DEFINE q == WithOwner(p, u, bad, side, full, amounts, key, t, c, x, y, z, n)
           s == [type |-> IF full THEN "Lend" ELSE side, inHeap |-> ~full, amount |-> amounts]
           h == [p.heap[side] EXCEPT ![u] = IF full THEN NoKey ELSE key, ![bad] = NoKey]
<1>1. /\ DOMAIN s = {"type", "inHeap", "amount"}
      /\ s.type = IF full THEN "Lend" ELSE side
      /\ s.inHeap <=> ~full
  OBVIOUS
<1>2. /\ DOMAIN h = Accounts
      /\ full => h[u] = NoKey
      /\ bad \in Accounts => h[bad] = NoKey
      /\ \A a \in Accounts \ {u, bad} : h[a] = p.heap[side][a]
  BY DEF Shape
<1> DEFINE v == [p EXCEPT !.positions[u] = s, !.heap[side] = h]
<1>3. q = [v EXCEPT !.discountedDebt[t] = @ - x,
                    !.discountedCollateral[c] = @ + y - z,
                    !.discountedCollateral[t] = @ + n]
  BY DEF WithOwner
<1> HIDE DEF s, h, q
<1>4. /\ DOMAIN q = Fields
      /\ DOMAIN q.positions = Accounts /\ DOMAIN q.heap = Sides
      /\ q.mode = p.mode /\ q.params = p.params /\ q.initialPrice = p.initialPrice
      /\ q.positions[u] = s /\ \A a \in Accounts \ {u} : q.positions[a] = p.positions[a]
      /\ q.heap[side] = h /\ \A other \in Sides \ {side} : q.heap[other] = p.heap[other]
  <2>1. /\ DOMAIN v = Fields
        /\ DOMAIN v.positions = Accounts /\ DOMAIN v.heap = Sides
        /\ v.mode = p.mode /\ v.params = p.params /\ v.initialPrice = p.initialPrice
        /\ v.positions[u] = s /\ \A a \in Accounts \ {u} : v.positions[a] = p.positions[a]
        /\ v.heap[side] = h /\ \A other \in Sides \ {side} : v.heap[other] = p.heap[other]
    BY DEF Shape, Fields
  <2> HIDE DEF v
  <2>2. /\ DOMAIN q = DOMAIN v
        /\ q.mode = v.mode /\ q.params = v.params /\ q.initialPrice = v.initialPrice
        /\ q.positions = v.positions /\ q.heap = v.heap
    BY <1>3, <2>1 DEF Fields
  <2>3. QED
    BY <2>1, <2>2
<1> HIDE DEF v
<1>5. Shape(q)
  BY <1>1, <1>2, <1>4 DEF Shape
<1>6. Frame(p, q, {u, bad})
  BY <1>2, <1>4, <1>5 DEF Frame
<1>7. QED
  BY <1>1, <1>2, <1>4, <1>6 DEF Owned, q

\* u holds the position of bad, whose node it has if the position still owes.
Takes(p, q, u, bad) ==
  /\ Frame(p, q, {u, bad})
  /\ p.positions[bad].type \in Sides
  /\ Blank(q, u) /\ Keyed(q, u)
  /\ Placed(p, u) => Placed(q, u)
  /\ bad \in Accounts /\ Placed(p, bad) => \A side \in Sides : q.heap[side][bad] = NoKey

\* After updateHeap the new owner has the key of the amounts it holds.
LEMMA OwnerIsKeyed ==
  ASSUME NEW p, NEW u \in Accounts, p.positions[u].type = "Uninitialized",
         NEW bad, bad # u, p.positions[bad].type \in Sides, NEW full \in BOOLEAN,
         NEW q, Owned(p, q, u, bad, p.positions[bad].type, full), NEW v \in UpdateHeap(q, u)
  PROVE  Takes(p, v, u, bad)
<1> DEFINE side == p.positions[bad].type
<1>1. /\ side \in Sides
      /\ Frame(p, q, {u, bad})
      /\ q.positions[u].type = IF full THEN "Lend" ELSE side
      /\ q.positions[u].inHeap <=> ~full
      /\ full => q.heap[side][u] = NoKey
      /\ bad \in Accounts => q.heap[side][bad] = NoKey
      /\ \A other \in Sides \ {side} : q.heap[other] = p.heap[other]
  BY DEF Owned
<1>2. bad \in Accounts => p.positions[bad].type = side
  OBVIOUS
<1> HIDE DEF side
<1>3. /\ Frame(q, v, {u})
      /\ v.positions = q.positions
      /\ q.positions[u].type \in Sides =>
           v.heap[q.positions[u].type][u] = SortKey(v, v.positions[u])
      /\ \A other \in Sides : other # q.positions[u].type => v.heap[other] = q.heap[other]
  BY <1>1, HeapUpdates DEF Frame
<1>4. Frame(p, v, {u, bad})
  BY <1>1, <1>3, FrameTransitive, {u, bad} \cup {u} = {u, bad}
<1>5. Blank(v, u) /\ Keyed(v, u)
  BY <1>1, <1>3 DEF Blank, Keyed, Sides
<1>6. ASSUME Placed(p, u)
      PROVE  Placed(v, u)
  <2>1. \A other \in Sides : p.heap[other][u] = NoKey
    BY <1>6 DEF Placed, Sides
  <2>2. v.positions[u].inHeap <=> v.positions[u].type \in Sides
    BY <1>1, <1>3 DEF Sides
  <2>3. ASSUME NEW other \in Sides, v.positions[u].type # other
        PROVE  v.heap[other][u] = NoKey
    <3>1. v.heap[other] = q.heap[other]
      BY <1>3, <2>3
    <3>2. CASE other = side
      BY <1>1, <1>3, <2>3, <3>1, <3>2
    <3>3. CASE other # side
      BY <1>1, <2>1, <3>1, <3>3
    <3>4. QED
      BY <3>2, <3>3
  <2>4. QED
    BY <1>5, <2>2, <2>3 DEF Placed
<1>7. ASSUME bad \in Accounts, Placed(p, bad), NEW other \in Sides
      PROVE  v.heap[other][bad] = NoKey
  <2>1. v.heap[other][bad] = q.heap[other][bad]
    BY <1>3, <1>7 DEF Frame
  <2>2. CASE other = side
    BY <1>1, <1>7, <2>1, <2>2
  <2>3. CASE other # side
    BY <1>1, <1>2, <1>7, <2>1, <2>3 DEF Placed
  <2>4. QED
    BY <2>2, <2>3
<1>8. QED
  BY <1>1, <1>4, <1>5, <1>6, <1>7 DEF Takes, side

\* A deletion stays within a frame that has the deleted account.
LEMMA DeletionFrames ==
  ASSUME NEW p, NEW r, NEW S, Frame(p, r, S), NEW bad \in S
  PROVE  Frame(p, [r EXCEPT !.positions[bad] = NoPosition], S)
<1> DEFINE x == [r EXCEPT !.positions[bad] = NoPosition]
<1>1. Shape(r)
  BY DEF Frame
<1>2. /\ DOMAIN x = Fields /\ x.heap = r.heap
      /\ x.mode = r.mode /\ x.params = r.params /\ x.initialPrice = r.initialPrice
      /\ x.positions = [r.positions EXCEPT ![bad] = NoPosition]
  BY <1>1 DEF Shape, Fields
<1> HIDE DEF x
<1>3. /\ DOMAIN x.positions = Accounts
      /\ \A a \in Accounts \ {bad} : x.positions[a] = r.positions[a]
      /\ bad \in Accounts => x.positions[bad] = NoPosition
  BY <1>1, <1>2 DEF Shape
<1>4. DOMAIN NoPosition = {"type", "inHeap", "amount"}
  BY DEF NoPosition
<1>5. Shape(x)
  BY <1>1, <1>2, <1>3, <1>4 DEF Shape
<1>6. Frame(p, x, S)
  BY <1>2, <1>3, <1>5 DEF Frame
<1>7. QED
  BY <1>6 DEF x

\* receivePosition: a margin position of bad leverage goes to an account that had none.
LEMMA ReceivePositionTakes ==
  ASSUME NEW p0, Shape(p0), NEW e, NEW u \in Accounts, u # TechPositionOwner,
         NEW bad, NEW pay, NEW w \in ReceivePosition(p0, e, u, bad, pay)
  PROVE  /\ p0.mode = "Regular" /\ p0.positions[u].type = "Uninitialized"
         /\ Frame(p0, w, {u, bad, TechPositionOwner})
         /\ bad \in Accounts =>
              p0.positions[bad].type \in Sides /\ w.positions[bad] = NoPosition
         /\ Overdue(p0, e, bad)
         /\ Blank(w, u)
         /\ InOrder(p0) => InOrder(w)
<1> DEFINE s(p) == p.positions[bad]
           t(p) == DebtToken(s(p).type)
           c(p) == Other(t(p))
           realDebt(p) == RealDebt(p, t(p), s(p).amount[t(p)])
           full(p) == pay[t(p)] >= realDebt(p)
           disPaid(p) == RecipMul(p.collateralCoeff[c(p)], pay[c(p)])
           disDebt(p) == IF full(p) THEN s(p).amount[t(p)]
                         ELSE RecipMul(p.debtCoeff[t(p)], pay[t(p)])
           disRest(p) == IF full(p)
                         THEN RecipMul(p.collateralCoeff[t(p)], pay[t(p)] - realDebt(p))
                         ELSE 0
           freed(p) == RecipMul(p.collateralCoeff[c(p)], Mul(p.delevCoeff[c(p)], disDebt(p)))
           amounts(p) == [x \in Tokens |->
                            IF x = c(p) THEN s(p).amount[c(p)] + disPaid(p) - freed(p)
                            ELSE IF full(p) THEN disRest(p) ELSE s(p).amount[t(p)] - disDebt(p)]
           Draft(p) ==
             [p EXCEPT
                !.positions[u] = [type |-> IF full(p) THEN "Lend" ELSE s(p).type,
                                  inHeap |-> ~full(p), amount |-> amounts(p)],
                !.heap[s(p).type] = [p.heap[s(p).type] EXCEPT
                                       ![u] = IF full(p) THEN NoKey ELSE p.heap[s(p).type][bad],
                                       ![bad] = NoKey],
                !.discountedDebt[t(p)] = @ - disDebt(p),
                !.discountedCollateral[c(p)] = @ + disPaid(p) - freed(p),
                !.discountedCollateral[t(p)] = @ + disRest(p)]
           Deletes(x) == [x EXCEPT !.positions[bad] = NoPosition]
           Paid(x) == TransferIn(TransferIn(x, "base", pay["base"]), "quote", pay["quote"])
           Taken(p) == UNION {UNION {RequireGoodLeverage(Deletes(x), e, u) :
                                       x \in UpdateSystemLeverages(v, e)} :
                                v \in UNION {UpdateHeap(r, u) : r \in Unsigned(Draft(p))}}
           Receive(p) == Require(/\ Liquidatable(p, e, s(p))
                                 /\ p.collateralCoeff[c(p)] # 0
                                 /\ full(p) => p.collateralCoeff[t(p)] # 0
                                 /\ s(p).inHeap,
                                 Taken(p))
<1>1. /\ p0.mode = "Regular" /\ p0.positions[u].type = "Uninitialized"
      /\ w \in {Paid(x) : x \in UNION {Receive(p) : p \in AccrueInterest(p0, e)}}
  BY Zenon DEF ReceivePosition, Require
<1> HIDE DEF Receive, Paid
<1>2. PICK x \in UNION {Receive(p) : p \in AccrueInterest(p0, e)} : w = Paid(x)
  BY <1>1
<1>3. PICK p \in AccrueInterest(p0, e) : x \in Receive(p)
  BY <1>2
<1>4. Moved(p0, p, TechPositionOwner)
  BY InterestAccrues
<1>5. /\ Shape(p)
      /\ p.positions[u] = p0.positions[u]
      /\ p.positions[u].type = "Uninitialized"
      /\ \A a \in Accounts : p.positions[a].type = p0.positions[a].type
  BY <1>1, <1>4 DEF Moved, Frame
<1>6. HasBadLeverage(p, e, s(p)) /\ x \in Taken(p)
  <2> HIDE DEF full, Taken, s, t, c
  <2>1. QED
    BY <1>3 DEF Receive, Require, Liquidatable
<1>7. s(p).type \in Sides
  BY <1>6 DEF HasBadLeverage
<1>8. bad # u
  BY <1>5, <1>7 DEF Sides
<1> DEFINE q == Draft(p)
<1>9. PICK v \in UpdateHeap(q, u) :
             x \in UNION {RequireGoodLeverage(Deletes(r), e, u) : r \in UpdateSystemLeverages(v, e)}
  <2> HIDE DEF Draft, Deletes
  <2>1. PICK v \in UNION {UpdateHeap(r, u) : r \in Unsigned(q)} :
               x \in UNION {RequireGoodLeverage(Deletes(r), e, u) :
                               r \in UpdateSystemLeverages(v, e)}
    BY <1>6
  <2>2. PICK r \in Unsigned(q) : v \in UpdateHeap(r, u)
    OBVIOUS
  <2>3. r = q
    BY UnsignedIs
  <2>4. QED
    BY <2>1, <2>2, <2>3
<1>10. PICK r \in UpdateSystemLeverages(v, e) : x = Deletes(r)
  <2> HIDE DEF Deletes, q
  <2>1. PICK r \in UpdateSystemLeverages(v, e) : x \in RequireGoodLeverage(Deletes(r), e, u)
    BY <1>9
  <2>2. QED
    BY <2>1 DEF RequireGoodLeverage, Require
<1>11. Owned(p, q, u, bad, s(p).type, full(p))
  <2> DEFINE w1 == WithOwner(p, u, bad, s(p).type, full(p), amounts(p), p.heap[s(p).type][bad],
                             t(p), c(p), disDebt(p), disPaid(p), freed(p), disRest(p))
  <2>1. q = w1
    BY DEF WithOwner
  <2> HIDE DEF q, s, t, c, full, amounts, disDebt, disPaid, freed, disRest
  <2>2. full(p) \in BOOLEAN
    BY DEF full
  <2>3. QED
    BY <1>5, <1>7, <1>8, <2>1, <2>2, OwnerChanges
<1>12. Takes(p, v, u, bad)
  <2> HIDE DEF q
  <2>1. full(p) \in BOOLEAN
    OBVIOUS
  <2> HIDE DEF full
  <2>2. QED
    BY <1>5, <1>7, <1>8, <1>9, <1>11, <2>1, OwnerIsKeyed
<1>13. Booked(v, r)
  BY <1>12, LeveragesBooked DEF Takes, Frame
<1>14. /\ Frame(p, x, {u, bad})
       /\ x.positions[u] = v.positions[u] /\ x.heap = v.heap
       /\ bad \in Accounts => x.positions[bad] = NoPosition
  <2>1. Frame(p, r, {u, bad})
    BY <1>12, <1>13, BookedFrames DEF Takes
  <2>2. Shape(r) /\ r.heap = v.heap /\ r.positions[u] = v.positions[u]
    BY <1>13 DEF Booked
  <2>3. x = [r EXCEPT !.positions[bad] = NoPosition]
    BY <1>10
  <2> HIDE DEF Deletes, q, Taken, s
  <2>4. Frame(p, x, {u, bad})
    BY <2>1, <2>3, DeletionFrames, bad \in {u, bad}
  <2>5. /\ x.heap = r.heap
        /\ x.positions[u] = r.positions[u]
        /\ bad \in Accounts => x.positions[bad] = NoPosition
    BY <1>8, <2>2, <2>3 DEF Shape, Fields
  <2>6. QED
    BY <2>2, <2>4, <2>5
<1> HIDE DEF Deletes, q, s
<1>15. Booked(x, w)
  BY <1>2, <1>14, TransfersBooked, BookedTransitive DEF Paid, Frame, Booked
<1>16. /\ Frame(p, w, {u, bad})
       /\ w.positions[u] = v.positions[u] /\ w.heap = v.heap
       /\ bad \in Accounts => w.positions[bad] = NoPosition
  BY <1>14, <1>15, BookedFrame, FrameTransitive, {u, bad} \cup {} = {u, bad} DEF Booked
<1>17. Frame(p0, w, {u, bad, TechPositionOwner})
  BY <1>4, <1>16, FrameTransitive,
     {TechPositionOwner} \cup {u, bad} = {u, bad, TechPositionOwner} DEF Moved
<1>18. bad \in Accounts => p0.positions[bad].type \in Sides /\ w.positions[bad] = NoPosition
  BY <1>5, <1>7, <1>16 DEF s
<1>19. Blank(w, u)
  BY <1>12, <1>16 DEF Takes, Blank
<1>20. ASSUME InOrder(p0)
       PROVE  InOrder(w)
  <2>1. InOrder(p)
    BY <1>4, <1>20, MovedTechInOrder
  <2>2. bad # TechPositionOwner
    BY <1>7, <2>1, PoolAssumption DEF s, InOrder, TechLends, Sides
  <2>3. TechLends(w)
    BY <1>16, <2>1, <2>2, PoolAssumption DEF InOrder, TechLends, Frame
  <2>4. Placed(w, u) /\ Keyed(w, u)
    <3>1. Placed(v, u) /\ Keyed(v, u)
      BY <1>12, <2>1 DEF Takes, InOrder
    <3>2. w.initialPrice = v.initialPrice
      BY <1>12, <1>16 DEF Takes, Frame
    <3>3. QED
      BY <1>16, <3>1, <3>2 DEF Placed, Blank, Keyed, SortKey
  <2>5. ASSUME bad \in Accounts
        PROVE  Placed(w, bad) /\ Keyed(w, bad)
    <3>1. \A side \in Sides : w.heap[side][bad] = NoKey
      BY <1>12, <1>16, <2>1, <2>5 DEF Takes, InOrder
    <3>2. QED
      BY <1>16, <2>5, <3>1 DEF Placed, Blank, Keyed, NoPosition, Sides
  <2>6. ASSUME NEW a \in Accounts \ {u, bad}
        PROVE  Placed(w, a) /\ Keyed(w, a)
    BY <1>16, <2>1, KeyStays DEF InOrder
  <2>7. QED
    BY <2>3, <2>4, <2>5, <2>6 DEF InOrder
<1>21. Overdue(p0, e, bad)
  BY <1>6 DEF Overdue, s
<1>22. QED
  BY <1>1, <1>17, <1>18, <1>19, <1>20, <1>21

\* emergencyWithdraw deletes the position of the sender.
LEMMA EmergencyWithdrawActs ==
  ASSUME NEW p, Shape(p), NEW u \in Accounts, u # TechPositionOwner,
         NEW w \in EmergencyWithdraw(p, u)
  PROVE  p.mode # "Regular" /\ Frame(p, w, {u}) /\ Blank(w, u)
<1> DEFINE v == [p EXCEPT !.positions[u] = NoPosition]
<1>1. p.mode # "Regular" /\ \E t, x : w \in TransferOut(v, t, x)
  BY DEF EmergencyWithdraw, Require
<1>2. Frame(p, v, {u}) /\ v.positions[u] = NoPosition
  BY DEF Frame, Shape, Fields, NoPosition
<1> HIDE DEF v
<1>3. Booked(v, w)
  BY <1>1, <1>2, TransfersBooked DEF Frame
<1>4. QED
  BY <1>1, <1>2, <1>3, BookedFrame, FrameTransitive, {u} \cup {} = {u} DEF Booked, Blank

\* Either a margin call is all that happens, or the emergency begins.
Shuts(p, e, r) ==
  /\ p.mode = "Regular"
  /\ r.called \subseteq Accounts
  /\ Shape(r.pool) /\ r.pool.params = p.params
  /\ \A a \in Accounts \ (r.called \cup {TechPositionOwner}) :
       r.pool.positions[a] = p.positions[a]
  /\ \A a \in r.called : r.pool.positions[a] = NoPosition
  /\ TechLends(p) => Blamed(p, e, r.called)
  /\ \A a \in Accounts \ {TechPositionOwner} : Blank(p, a) => Blank(r.pool, a)
  /\ InOrder(p) /\ r.pool.mode = "Regular" => InOrder(r.pool)

\* What the leverage is compared with depends on the coefficients and the parameters only.
LEMMA SameLeverage ==
  ASSUME NEW p, NEW q, SameCoeffs(p, q), q.params = p.params, NEW e, NEW s,
         HasBadLeverage(q, e, s)
  PROVE  HasBadLeverage(p, e, s)
<1>1. \A t : PositionCollateral(q, s, t) = PositionCollateral(p, s, t)
  BY DEF PositionCollateral, RealCollateral, SameCoeffs
<1>2. CollateralValue(q, e, s) = CollateralValue(p, e, s)
  BY <1>1 DEF CollateralValue
<1>3. DebtValue(q, e, s) = DebtValue(p, e, s)
  BY DEF DebtValue, RealDebt, SameCoeffs
<1>4. QED
  BY <1>2, <1>3 DEF HasBadLeverage

\* setEmergencyMode touches no position.
LEMMA EmergencyBegins ==
  ASSUME NEW p, Shape(p), NEW e, NEW t, NEW x1, NEW x2, NEW x3, NEW x4,
         NEW w \in SetEmergencyMode(p, e, t, x1, x2, x3, x4)
  PROVE  /\ Shape(w) /\ w.params = p.params /\ w.mode # "Regular"
         /\ \A a \in Accounts : w.positions[a] = p.positions[a]
<1> DEFINE surplus == x3 - x4
           sold == IF surplus > 0 THEN SwapExactInput(p, e, Other(t), surplus, 0) ELSE {p}
           mode == IF t = "base" THEN "ShortEmergency" ELSE "LongEmergency"
           spare == IF x1 >= x2 THEN x1 - x2 ELSE 0
           balance == spare + IF surplus > 0 THEN OutputOf(e, Other(t), surplus) ELSE 0
           net == IF t = "base" THEN Mul(e.price, x1) - x4 ELSE x1 - Mul(e.price, x4)
           coeff == FromRatio(InQuote(e.price, t, balance), net)
           Ended(q) == [q EXCEPT !.mode = mode, !.initialPrice = e.price,
                                 !.emergencyWithdrawCoeff = coeff]
<1>1. w \in {Ended(q) : q \in sold}
  BY DEF SetEmergencyMode, Require
<1>2. \A q \in sold : Booked(p, q)
  BY SwapsBooked DEF Booked
<1>3. mode # "Regular"
  OBVIOUS
<1> HIDE DEF sold, mode, coeff
<1>4. PICK q \in sold : w = Ended(q)
  BY <1>1
<1>5. QED
  BY <1>2, <1>3, <1>4 DEF Booked, Shape, Fields

\* shutDown: fees, at most one margin call, and the emergency if there was none.
LEMMA ShutDownShuts ==
  ASSUME NEW p, Shape(p), NEW e, NEW r \in ShutDown(p, e)
  PROVE  Shuts(p, e, r)
<1> DEFINE debt(q) == [t \in Tokens |-> RealDebtUp(q, t, q.discountedDebt[t])]
           coll(q) == [t \in Tokens |-> PoolCollateral(q, t)]
           t(q) == IF Mul(e.price, debt(q)["base"]) > coll(q)["quote"] THEN "base" ELSE "quote"
           End(q, x) == IF x.called # {} THEN {x}
                        ELSE {[pool |-> v, called |-> {}] :
                                v \in SetEmergencyMode(x.pool, e, t(q),
                                                       coll(q)[t(q)], debt(q)[t(q)],
                                                       coll(q)[Other(t(q))],
                                                       debt(q)[Other(t(q))])}
           Ends(q) == UNION {End(q, x) : x \in ReinitRoot(q, e, SideOwing(Other(t(q))))}
           Decide(q) == Require(/\ coll(q)["base"] >= 0 /\ coll(q)["quote"] >= 0
                                /\ \/ Mul(e.price, debt(q)["base"]) > coll(q)["quote"]
                                   \/ debt(q)["quote"] > Mul(e.price, coll(q)["base"]),
                                Ends(q))
<1>1. /\ p.mode = "Regular"
      /\ r \in UNION {UNION {Decide(q) : q \in SyncBalances(q0)} : q0 \in AccrueInterest(p, e)}
  BY Zenon DEF ShutDown, Require
<1> HIDE DEF debt, coll, t, Ends
<1>2. PICK q0 \in AccrueInterest(p, e) : r \in UNION {Decide(q) : q \in SyncBalances(q0)}
  BY <1>1
<1>3. PICK q \in SyncBalances(q0) : r \in Ends(q)
  BY <1>2 DEF Require
<1>4. PICK x \in ReinitRoot(q, e, SideOwing(Other(t(q)))) : r \in End(q, x)
  BY <1>3 DEF Ends
<1>5. Moved(p, q0, TechPositionOwner)
  BY InterestAccrues
<1>6. Moved(q0, q, TechPositionOwner) /\ SameCoeffs(q0, q)
  BY <1>5, SyncMoves DEF Moved, Frame
<1>7. Moved(p, q, TechPositionOwner) /\ Shape(q)
  BY <1>5, <1>6, MovedTransitive DEF Moved, Frame
<1>8. Called(q, x, {}) /\ Deserved(q, e, x)
  BY <1>7, RootIsCalled
<1>9. /\ x.called \subseteq Accounts /\ Shape(x.pool) /\ x.pool.params = p.params
      /\ \A a \in Accounts \ (x.called \cup {TechPositionOwner}) :
           x.pool.positions[a] = p.positions[a]
      /\ \A a \in x.called : x.pool.positions[a] = NoPosition
  BY <1>7, <1>8 DEF Moved, Called, Frame
<1>10. ASSUME NEW a \in Accounts \ {TechPositionOwner}, Blank(p, a)
       PROVE  Blank(x.pool, a)
  <2>1. Blank(q, a)
    BY <1>7, <1>10 DEF Moved, Frame, Blank
  <2>2. QED
    BY <1>8, <2>1 DEF Called, Keeps
<1>11. InOrder(p) => InOrder(x.pool)
  <2>1. Called(q, x, {TechPositionOwner})
    BY <1>8, FrameWidens, x.called \cup {} \subseteq x.called \cup {TechPositionOwner} DEF Called
  <2>2. QED
    BY <1>7, <2>1, MovedTechInOrder, CalledInOrder
<1>12. ASSUME TechLends(p)
       PROVE  Blamed(p, e, x.called)
  <2>1. TechPositionOwner \notin x.called
    BY <1>7, <1>8, <1>12 DEF TechLends, Moved, Called
  <2>2. ASSUME NEW b \in x.called
        PROVE  HasBadLeverage(q0, e, q0.positions[b])
    <3>1. HasBadLeverage(q, e, q.positions[b])
      BY <1>8 DEF Deserved
    <3>2. q.positions[b] = q0.positions[b] /\ q.params = q0.params
      BY <1>6, <1>9, <2>1 DEF Moved, Frame
    <3>3. QED
      BY <1>6, <3>1, <3>2, SameLeverage
  <2>3. QED
    BY <1>2, <2>2 DEF Blamed, Overdue
<1>13. CASE x.called # {}
  <2>1. r = x
    BY <1>4, <1>13
  <2>2. QED
    BY <1>1, <1>9, <1>10, <1>11, <1>12, <2>1 DEF Shuts
<1>14. CASE x.called = {}
  <2>1. PICK v \in SetEmergencyMode(x.pool, e, t(q), coll(q)[t(q)], debt(q)[t(q)],
                                    coll(q)[Other(t(q))], debt(q)[Other(t(q))]) :
               r = [pool |-> v, called |-> {}]
    BY <1>4, <1>14
  <2>2. /\ Shape(v) /\ v.params = x.pool.params /\ v.mode # "Regular"
        /\ \A a \in Accounts : v.positions[a] = x.pool.positions[a]
    BY <1>9, EmergencyBegins
  <2>3. r.pool = v /\ r.called = {}
    BY <2>1
  <2>4. QED
    BY <1>1, <1>9, <1>10, <1>14, <2>2, <2>3 DEF Shuts, Blank, Blamed
<1>15. QED
  BY <1>13, <1>14
=============================================================================
