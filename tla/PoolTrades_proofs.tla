-------------------------- MODULE PoolTrades_proofs ---------------------------
(***************************************************************************)
(* What the owner of a position can do to the books, and to his leverage:  *)
(* each function of PoolCalls that a call ends in books what it does       *)
(* (Trades), and leaves a position that is within the maximal leverage if  *)
(* it was before, or whatever it was when the code checks it (Good).       *)
(*                                                                         *)
(* The calls differ in how they see to the latter. Deposits and repayments *)
(* do not check: that they never raise a leverage follows from how the     *)
(* code rounds (CreditTrades, RepayKeepsGood). The others end in a check,  *)
(* or in a lender.                                                         *)
(***************************************************************************)
EXTENDS PoolBooks_proofs

----------------------------------------------------------------------------
\* Deposits and repayments

\* A payment of a debtor: x less debt in t, y less collateral in c for the deleverage.
Repays(q, u, t, c, x, y) ==
  [q EXCEPT !.positions[u].amount[c] = @ - y,
            !.discountedDebt[t] = @ - x,
            !.discountedCollateral[c] = @ - y]

\* The debt of u in t became type and x, its collateral in t collateral[t], repaid being
\* what the aggregate of the debt has still to lose.
Settles(r, q, u, t, c, type, x, repaid, collateral) ==
  /\ r.positions[u].type = SideOwing(t) /\ type \in {"Lend", SideOwing(t)}
  /\ x \in Int /\ repaid \in Int /\ collateral \in [Tokens -> Int]
  /\ collateral[c] = r.discountedCollateral[c]
  /\ x + repaid - r.positions[u].amount[t] = collateral[t] - r.discountedCollateral[t]
  /\ type = "Lend" => repaid = r.positions[u].amount[t]
  /\ type # "Lend" => collateral[t] = r.discountedCollateral[t]
  /\ Wrote(r, q, u, type, Put(r.positions[u].amount, t, x), r.discountedDebt, collateral)

\* A repayment, after what it leaves of the debt is written, is a deal.
LEMMA RepayDeals ==
  ASSUME NEW r, Typed(r), NEW u \in Accounts, NEW t \in Tokens, NEW c, c = Other(t),
         NEW q, NEW type, NEW x, NEW repaid, NEW collateral,
         Settles(r, q, u, t, c, type, x, repaid, collateral), NEW freed \in Int
  PROVE  /\ Deals(r, Repays(q, u, t, c, repaid, freed), u)
         /\ Repays(q, u, t, c, repaid, freed).positions[u].type = type
         /\ Repays(q, u, t, c, repaid, freed).positions[u].amount[t] = x
         /\ Repays(q, u, t, c, repaid, freed).positions[u].amount[c]
              = r.positions[u].amount[c] - freed
<1>0. /\ r.positions[u].type = SideOwing(t) /\ type \in {"Lend", SideOwing(t)}
      /\ x \in Int /\ repaid \in Int /\ collateral \in [Tokens -> Int]
      /\ collateral[c] = r.discountedCollateral[c]
      /\ x + repaid - r.positions[u].amount[t] = collateral[t] - r.discountedCollateral[t]
      /\ type = "Lend" => repaid = r.positions[u].amount[t]
      /\ type # "Lend" => collateral[t] = r.discountedCollateral[t]
      /\ Wrote(r, q, u, type, Put(r.positions[u].amount, t, x), r.discountedDebt, collateral)
  BY DEF Settles
<1> USE <1>0
<1> DEFINE s == r.positions[u]
           y == collateral[t] - r.discountedCollateral[t]
           A == Put(s.amount, t, x)
           a == A[c] - freed
           d == r.discountedDebt[t] - repaid
           f == collateral[c] - freed
           draft == Repays(q, u, t, c, repaid, freed)
           amount == Put(A, c, a)
           debt == Put(r.discountedDebt, t, d)
           coll == Put(collateral, c, f)
<1>1. /\ c \in Tokens /\ c # t /\ \A k \in Tokens : k = t \/ k = c
      /\ s.amount \in [Tokens -> Nat] /\ s.amount \in [Tokens -> Int]
      /\ r.discountedDebt \in [Tokens -> Int] /\ r.discountedCollateral \in [Tokens -> Int]
  BY OthersAre DEF Typed, Storage, Holding
<1>2. A \in [Tokens -> Int] /\ A[t] = x /\ A[c] = s.amount[c]
  BY <1>1 DEF Put
<1>3. a \in Int /\ d \in Int /\ f \in Int
  BY <1>1, <1>2
<1> HIDE DEF A
<1>4. draft = SetCollateral(SetDebt(SetAmount(q, u, c, a), t, d), c, f)
  <2>1. /\ q.positions[u].amount = A /\ q.discountedDebt = r.discountedDebt
        /\ q.discountedCollateral = collateral
    BY DEF Wrote, A
  <2>2. /\ a = q.positions[u].amount[c] - freed /\ d = q.discountedDebt[t] - repaid
        /\ f = q.discountedCollateral[c] - freed
    BY <2>1
  <2> HIDE DEF a, d, f
  <2>3. draft = SetCollateral(SetDebt(SetAmount(q, u, c, q.positions[u].amount[c] - freed),
                                      t, q.discountedDebt[t] - repaid),
                              c, q.discountedCollateral[c] - freed)
    BY DEF Repays, SetCollateral, SetDebt, SetAmount
  <2> HIDE DEF draft
  <2>4. QED
    BY <2>2, <2>3
<1> HIDE DEF a, d, f
<1>5. Wrote(r, draft, u, type, amount, debt, coll)
  <2>1. Wrote(r, q, u, type, A, r.discountedDebt, collateral)
    BY DEF A
  <2>2. QED
    BY <1>1, <1>3, <1>4, <2>1, AmountWritten, DebtWritten, CollateralWritten
<1>6. /\ amount[t] = x /\ amount[c] = a
      /\ debt[t] = d /\ debt[c] = r.discountedDebt[c]
      /\ coll[t] = collateral[t] /\ coll[c] = f
  BY <1>1, <1>2 DEF Put
<1>7. /\ s.amount[t] \in Int /\ s.amount[c] \in Int
      /\ r.discountedDebt[t] \in Int /\ r.discountedDebt[c] \in Int
      /\ r.discountedCollateral[t] \in Int /\ r.discountedCollateral[c] \in Int
  BY <1>1
<1>8. Owed(r, u, t) = s.amount[t] /\ Owed(r, u, c) = 0 /\ type # SideOwing(c)
  BY <1>1 DEF Owed, SideOwing, Other, Tokens
<1>9. x \in Int /\ repaid \in Int
  OBVIOUS
<1>10. /\ y \in Int /\ collateral[t] = r.discountedCollateral[t] + y
      /\ x + repaid = s.amount[t] + y /\ (type # "Lend" => y = 0)
  <2> DEFINE ct == collateral[t]
             dt == r.discountedCollateral[t]
             am == s.amount[t]
  <2>1. ct \in Int /\ dt \in Int /\ am \in Int /\ y = ct - dt
    BY <1>1, <1>7
  <2>2. x + repaid - am = ct - dt /\ (type # "Lend" => ct = dt)
    OBVIOUS
  <2> HIDE <1>0
  <2> HIDE DEF ct, dt, am, y
  <2>3. y \in Int /\ ct = dt + y /\ x + repaid = am + y /\ (type # "Lend" => y = 0)
    BY <1>9, <2>1, <2>2
  <2>4. QED
    BY <2>3 DEF ct, dt, am
<1> HIDE DEF amount, debt, coll, draft, y
<1>11. Evens(r, u, type, amount, debt, coll, t)
  <2>1. /\ d = r.discountedDebt[t] - repaid /\ r.positions[u].amount[t] = s.amount[t]
        /\ x + repaid = s.amount[t] + y
    BY <1>10 DEF d
  <2>2. "Lend" # SideOwing(t)
    BY DEF SideOwing
  <2>3. amount[t] = x /\ debt[t] = d /\ coll[t] = r.discountedCollateral[t] + y
    BY <1>6, <1>10
  <2>4. CASE type = "Lend"
    <3>1. repaid = s.amount[t]
      BY <2>4
    <3>2. d = r.discountedDebt[t] - s.amount[t] /\ x = y
      BY <1>7, <1>10, <2>1, <3>1
    <3> HIDE DEF s
    <3>3. debt[t] + coll[t] - amount[t] = r.discountedDebt[t] + r.discountedCollateral[t] - s.amount[t]
      BY <1>7, <1>10, <2>3, <3>2
    <3>4. debt[t] - 0 <= r.discountedDebt[t] - s.amount[t]
      BY <1>7, <2>3, <3>2
    <3>5. QED
      BY <1>8, <2>1, <2>2, <2>4, <3>3, <3>4 DEF Evens
  <2>5. CASE type = SideOwing(t)
    <3>1. y = 0
      BY <1>10, <2>2, <2>5
    <3>2. /\ d = r.discountedDebt[t] - repaid /\ x + repaid = s.amount[t]
          /\ coll[t] = r.discountedCollateral[t]
      <4>1. coll[t] = r.discountedCollateral[t] + 0 /\ x + repaid = s.amount[t] + 0
        BY <2>1, <2>3, <3>1
      <4> HIDE DEF s
      <4> HIDE <1>0
      <4>2. QED
        BY <1>7, <2>1, <4>1
    <3> HIDE DEF s
    <3>3. debt[t] + coll[t] - amount[t] = r.discountedDebt[t] + r.discountedCollateral[t] - s.amount[t]
      BY <1>7, <1>9, <2>3, <3>2
    <3>4. debt[t] - amount[t] <= r.discountedDebt[t] - s.amount[t]
      <4>1. debt[t] = r.discountedDebt[t] - repaid /\ amount[t] = x
        BY <2>3, <3>2
      <4> HIDE DEF s
      <4>2. QED
        BY <1>7, <1>9, <3>2, <4>1
    <3>5. QED
      BY <1>8, <2>1, <2>5, <3>3, <3>4 DEF Evens
  <2>6. QED
    BY <2>4, <2>5
<1>12. Evens(r, u, type, amount, debt, coll, c)
  <2>1. /\ a = s.amount[c] - freed /\ f = r.discountedCollateral[c] - freed
        /\ r.positions[u].amount[c] = s.amount[c]
    BY <1>2 DEF a, f
  <2> HIDE DEF s
  <2>2. QED
    BY <1>6, <1>7, <1>8, <2>1 DEF Evens
<1>13. Deals(r, draft, u)
  <2>1. \A k \in Tokens : Evens(r, u, type, amount, debt, coll, k)
    BY <1>1, <1>11, <1>12
  <2>2. QED
    BY <1>5, <2>1, TypedIsLoose, WroteDeals
<1>14. draft.positions[u].type = type /\ draft.positions[u].amount = amount
  BY <1>5 DEF Wrote
<1>15. QED
  BY <1>2, <1>6, <1>13, <1>14 DEF a, draft

\* The transfer that ends a deposit changes no position.
LEMMA TransfersTrade ==
  ASSUME NEW r, Typed(r), NEW q, NEW u \in Accounts, Deals(r, q, u), NEW t \in Tokens, NEW z \in Nat,
         NEW w \in Unsigned(TransferIn(q, t, z))
  PROVE  Trades(r, w, u) /\ w.positions = q.positions
<1> DEFINE paid == TransferIn(q, t, z)
<1>1. Deals(q, paid, u) /\ paid.positions = q.positions
  <2>1. Loose(q)
    BY DEF Deals
  <2>2. Paid(q, paid)
    BY <2>1, TransfersPay DEF Loose, Storage
  <2> HIDE DEF paid
  <2>3. QED
    BY <2>1, <2>2, PaidDeals
<1> HIDE DEF paid
<1>2. Deals(r, paid, u)
  BY <1>1, TypedIsLoose, DealsTwice
<1>3. w \in Unsigned(paid) /\ Loose(paid)
  BY <1>2 DEF paid, Deals
<1>4. Trades(r, w, u) /\ w = paid
  BY <1>2, <1>3, UnsignedDeals, UnsignedTypes
<1>5. QED
  BY <1>1, <1>4

\* Two calls of an owner are one.
LEMMA TradesTwice ==
  ASSUME NEW p, Typed(p), NEW q, NEW r, NEW u \in Accounts, Trades(p, q, u), Trades(q, r, u)
  PROVE  Trades(p, r, u)
<1>1. Deals(p, r, u) /\ Typed(r)
  BY DealsTrade, DealsTwice, TypedIsLoose
<1>2. QED
  BY <1>1, DealsTrade

\* Collateral that is given back with the debt leaves no more leverage.
LEMMA RepayKeepsGood ==
  ASSUME NEW p, Typed(p), NEW e, Priced(e), NEW u \in Accounts, NEW t \in Tokens, NEW c, c = Other(t),
         p.positions[u].type = SideOwing(t), p.collateralCoeff[c] # 0,
         NEW x \in Nat, x <= p.positions[u].amount[t],
         NEW q, Trades(p, q, u), q.positions[u].type = SideOwing(t),
         q.positions[u].amount[t] = p.positions[u].amount[t] - x,
         q.positions[u].amount[c] = p.positions[u].amount[c]
            - RecipMul(p.collateralCoeff[c], Mul(p.delevCoeff[c], x)),
         Good(p, e, p.positions[u])
  PROVE  Good(q, e, q.positions[u])
<1> DEFINE s == p.positions[u]
           k == p.collateralCoeff[c]
           m == p.delevCoeff[c]
           r == Mul(m, x)
           a == s.amount[c]
           d == s.amount[t]
<1>1. Typed(q) /\ Agree(p, q, TradeFields) /\ c \in Tokens
  BY DealsTrade, OthersAre DEF Deals
<1>2. s.type \in Sides /\ t = DebtToken(s.type)
  <2>1. s.type \in Sides
    BY DEF SideOwing, Sides
  <2>2. QED
    BY <2>1, SidesOwe
<1>3. k \in Nat \ {0} /\ m \in Nat /\ a \in Nat /\ d \in Nat
  BY <1>1 DEF Typed, Storage, Holding
<1>4. r \in Nat
  BY <1>3, Naturals
<1>5. /\ PositionCollateral(p, s, c) = Mul(k, a) - Mul(m, d)
      /\ PositionCollateral(q, q.positions[u], c) = Mul(k, a - RecipMul(k, r)) - Mul(m, d - x)
  <2>1. /\ PositionCollateral(p, s, c) = RealCollateral(p, c, s.amount[c], s.amount[t])
        /\ PositionCollateral(q, q.positions[u], c)
             = RealCollateral(q, c, q.positions[u].amount[c], q.positions[u].amount[t])
    BY <1>2, CollateralIs
  <2>2. q.collateralCoeff = p.collateralCoeff /\ q.delevCoeff = p.delevCoeff
    BY <1>1 DEF Agree, Fields, TradeFields
  <2>3. QED
    BY <2>1, <2>2 DEF RealCollateral
<1> HIDE DEF k, m, a, d, r
<1>6. Mul(k, a - RecipMul(k, r)) >= Mul(k, a) - r
  BY <1>3, <1>4, FreedIsCovered
<1>7. r + Mul(m, d - x) <= Mul(m, d)
  <2>1. d - x \in Nat /\ x + (d - x) = d
    BY <1>3 DEF d
  <2>2. Mul(m, x) + Mul(m, d - x) <= Mul(m, x + (d - x))
    BY <1>3, <2>1, MulSplits
  <2>3. QED
    BY <2>1, <2>2 DEF r
<1>8. /\ Mul(k, a) \in Int /\ Mul(m, d) \in Int /\ Mul(m, d - x) \in Int
      /\ Mul(k, a - RecipMul(k, r)) \in Int
  <2>1. RecipMul(k, r) \in Nat
    BY <1>3, <1>4, Naturals
  <2>2. k \in Int /\ m \in Int /\ a \in Int /\ d \in Int /\ d - x \in Int /\ a - RecipMul(k, r) \in Int
    BY <1>3, <2>1
  <2>3. QED
    BY <2>2, Whole
<1>9. PositionCollateral(q, q.positions[u], c) >= PositionCollateral(p, s, c)
  <2> DEFINE w == Mul(k, a - RecipMul(k, r))
             y == Mul(k, a)
             z == Mul(m, d)
             v == Mul(m, d - x)
  <2>1. w \in Int /\ y \in Int /\ z \in Int /\ v \in Int /\ w >= y - r /\ r + v <= z
    BY <1>6, <1>7, <1>8
  <2>2. /\ PositionCollateral(p, s, c) = y - z
        /\ PositionCollateral(q, q.positions[u], c) = w - v
    BY <1>5
  <2> HIDE DEF w, y, z, v, s
  <2>3. w - v >= y - z
    BY <1>4, <2>1
  <2>4. QED
    BY <2>2, <2>3
<1>10. q.positions[u].amount[t] <= s.amount[t]
  <2>1. q.positions[u].amount[t] = d - x
    BY DEF d
  <2>2. d - x <= d
    BY <1>3
  <2>3. QED
    BY <2>1, <2>2 DEF d
<1>11. QED
  BY <1>1, <1>2, <1>9, <1>10, GoodStays

\* The removal of a node writes nothing.
LEMMA RemovalDeals ==
  ASSUME NEW p, Typed(p), NEW u \in Accounts, NEW side \in Sides, NEW r \in HeapRemove(p, side, u)
  PROVE  /\ Typed(r) /\ Trades(p, r, u)
         /\ r.positions[u].type = p.positions[u].type
         /\ r.positions[u].amount = p.positions[u].amount
         /\ r.discountedDebt = p.discountedDebt /\ r.discountedCollateral = p.discountedCollateral
<1>1. Typed(r) /\ Heaped(p, r, u)
  BY RemoveHeaps
<1>2. Trades(p, r, u)
  BY <1>1, HeapedDeals, DealsTrade
<1>3. QED
  BY <1>1, <1>2 DEF Heaped, Agree, Fields

\* depositBase and depositQuote book what they do, and do not raise a leverage.
LEMMA DepositTrades ==
  ASSUME NEW p, Typed(p), NEW e, Priced(e), NEW u \in Accounts, NEW t \in Tokens, NEW amount \in Nat,
         NEW w \in Deposit(p, e, u, t, amount)
  PROVE  Trades(p, w, u) /\ (Good(p, e, p.positions[u]) => Good(w, e, w.positions[u]))
<1> DEFINE s == p.positions[u]
           c == Other(t)
           rest == amount - RealDebt(p, t, s.amount[t])
           repaid == IF rest >= 0 THEN s.amount[t] ELSE RecipMul(p.debtCoeff[t], amount)
           disRest == RecipMul(p.collateralCoeff[t], rest)
           freed == RecipMul(p.collateralCoeff[c], Mul(p.delevCoeff[c], repaid))
           Settled(q) == [q EXCEPT !.positions[u].type = "Lend",
                                   !.positions[u].amount[t] = disRest,
                                   !.discountedCollateral[t] = @ + disRest]
           reduced == [p EXCEPT !.positions[u].amount[t] = @ - repaid]
           disAmount == RecipMul(p.collateralCoeff[t], amount)
<1>1. \/ /\ s.type = SideOwing(t) /\ p.collateralCoeff[c] # 0
         /\ rest >= 0 /\ p.collateralCoeff[t] # 0
         /\ \E r \in HeapRemove(p, s.type, u) :
              w \in Unsigned(TransferIn(Repays(Settled(r), u, t, c, repaid, freed), t, amount))
      \/ /\ s.type = SideOwing(t) /\ p.collateralCoeff[c] # 0
         /\ ~(rest >= 0)
         /\ w \in Unsigned(TransferIn(Repays(reduced, u, t, c, repaid, freed), t, amount))
      \/ /\ s.type # SideOwing(t) /\ p.collateralCoeff[t] # 0
         /\ w = TransferIn(CreditedTo(p, u, t, disAmount), t, amount)
  <2> DEFINE from == IF rest >= 0 THEN {Settled(r) : r \in HeapRemove(p, s.type, u)} ELSE {reduced}
             fits == /\ p.collateralCoeff[c] # 0
                     /\ rest >= 0 => p.collateralCoeff[t] # 0
                     /\ rest > 0 => WithinLimit(p, e, t, rest)
             After(q) == Unsigned(TransferIn(Repays(q, u, t, c, repaid, freed), t, amount))
             credited == TransferIn(CreditedTo(p, u, t, disAmount), t, amount)
             may == WithinLimit(p, e, t, amount) /\ p.collateralCoeff[t] # 0
  <2>1. Deposit(p, e, u, t, amount) =
          IF amount = 0 THEN {}
          ELSE IF s.type = SideOwing(t)
          THEN Require(fits, UNION {After(q) : q \in from})
          ELSE Require(may, {credited})
    BY DEF Deposit, Repays, CreditedTo
  <2>2. w \in Deposit(p, e, u, t, amount)
    OBVIOUS
  <2> HIDE DEF s, c, from, fits, After, credited, may, rest
  <2>3. \/ s.type = SideOwing(t) /\ fits /\ \E q \in from : w \in After(q)
        \/ s.type # SideOwing(t) /\ may /\ w = credited
    BY <2>1, <2>2 DEF Require
  <2> HIDE DEF repaid, disRest, freed, disAmount, reduced, Settled
  <2>4. ASSUME rest >= 0, NEW q \in from
        PROVE  \E r \in HeapRemove(p, s.type, u) : q = Settled(r)
    BY <2>4 DEF from
  <2>5. ASSUME ~(rest >= 0), NEW q \in from
        PROVE  q = reduced
    BY <2>5 DEF from
  <2>6. QED
    BY <2>3, <2>4, <2>5 DEF fits, After, credited, may
<1>2. /\ c \in Tokens /\ c # t
      /\ s.amount \in [Tokens -> Nat] /\ s.type \in PositionTypes
      /\ p.discountedDebt \in [Tokens -> Nat] /\ p.discountedCollateral \in [Tokens -> Nat]
  <2>1. s \in Holding(Nat)
    BY DEF Typed, Storage
  <2>2. QED
    BY <2>1, OthersAre DEF Typed, Storage, Holding
<1>3. s.amount[t] \in Nat /\ s.amount[c] \in Nat /\ p.discountedCollateral[t] \in Nat
  BY <1>2
<1>4. /\ p.collateralCoeff[t] \in Nat /\ p.collateralCoeff[c] \in Nat
      /\ p.delevCoeff[c] \in Nat /\ p.debtCoeff[t] \in Nat \ {0}
  <2>1. p.debtCoeff[t] \in DebtCoeffs /\ Q48 \in Nat \ {0}
    BY FixedPointAssumption DEF Typed, Storage
  <2>2. QED
    BY <1>2, <2>1 DEF Typed, Storage, DebtCoeffs
<1>5. rest \in Int
  <2> DEFINE debt == RealDebt(p, t, s.amount[t])
  <2>1. debt \in Nat
    BY <1>3, Reals
  <2>2. rest = amount - debt
    OBVIOUS
  <2> HIDE DEF rest, debt
  <2>3. QED
    BY <2>1, <2>2
<1>6. repaid \in Nat
  BY <1>3, <1>4, Naturals
<1> HIDE DEF rest
<1>7. rest >= 0 => repaid = s.amount[t]
  OBVIOUS
<1>8. ~(rest >= 0) => repaid = RecipMul(p.debtCoeff[t], amount)
  OBVIOUS
<1> HIDE DEF repaid
<1>9. p.collateralCoeff[c] # 0 => freed \in Nat
  <2>1. Mul(p.delevCoeff[c], repaid) \in Nat
    BY <1>4, <1>6, Naturals
  <2>2. QED
    BY <1>4, <2>1, Naturals
<1>10. freed = RecipMul(p.collateralCoeff[c], Mul(p.delevCoeff[c], repaid))
  OBVIOUS
<1>11. rest >= 0 /\ p.collateralCoeff[t] # 0 => disRest \in Nat
  <2>1. rest >= 0 => rest \in Nat
    BY <1>5
  <2>2. disRest = RecipMul(p.collateralCoeff[t], rest)
    OBVIOUS
  <2> HIDE DEF disRest
  <2>3. QED
    BY <1>4, <2>1, <2>2, Naturals
<1>12. p.collateralCoeff[t] # 0 => disAmount \in Nat
  BY <1>4, Naturals
<1>13. s.type = SideOwing(t) => s.type \in Sides
  BY DEF SideOwing, Sides
<1>14. Typed(p) /\ Trades(p, p, u)
  <2>1. Paid(p, p)
    BY DEF Paid, Agree, Typed, Storage
  <2>2. QED
    BY <2>1, PaidDeals, DealsTrade, TypedIsLoose
<1> HIDE DEF c, freed, disRest, disAmount, Settled, reduced
<1>15. ASSUME s.type = SideOwing(t), p.collateralCoeff[c] # 0, rest >= 0, p.collateralCoeff[t] # 0,
              NEW r \in HeapRemove(p, s.type, u),
              w \in Unsigned(TransferIn(Repays(Settled(r), u, t, c, repaid, freed), t, amount))
       PROVE  Trades(p, w, u) /\ Good(w, e, w.positions[u])
  <2> DEFINE b == r.discountedCollateral[t] + disRest
             q == Settled(r)
             coll == Put(r.discountedCollateral, t, b)
  <2>1. /\ Typed(r) /\ Trades(p, r, u)
        /\ r.positions[u].type = s.type /\ r.positions[u].amount = s.amount
        /\ r.discountedDebt = p.discountedDebt /\ r.discountedCollateral = p.discountedCollateral
    BY <1>13, <1>15, RemovalDeals
  <2>2. q = SetCollateral(SetAmount(SetType(r, u, "Lend"), u, t, disRest), t, b)
    BY DEF SetCollateral, SetAmount, SetType, Settled
  <2>3. disRest \in Nat /\ disRest \in Int /\ b \in Int /\ freed \in Int /\ repaid \in Int
    BY <1>3, <1>6, <1>9, <1>11, <1>15, <2>1
  <2>4. coll \in [Tokens -> Int] /\ coll[t] = r.discountedCollateral[t] + disRest
        /\ coll[c] = r.discountedCollateral[c]
    BY <1>2, <2>1, <2>3 DEF Put
  <2> HIDE DEF b
  <2>5. Wrote(r, q, u, "Lend", Put(r.positions[u].amount, t, disRest), r.discountedDebt, coll)
    <3>1. "Lend" \in PositionTypes /\ Loose(r)
      BY <2>1, TypedIsLoose DEF PositionTypes
    <3> HIDE DEF q
    <3>2. QED
      BY <2>2, <2>3, <3>1, NothingWritten, AmountWritten, TypeWritten, CollateralWritten
  <2> HIDE DEF q, coll
  <2>6. /\ disRest + repaid - r.positions[u].amount[t] = coll[t] - r.discountedCollateral[t]
        /\ repaid = r.positions[u].amount[t] /\ r.positions[u].type = SideOwing(t)
    BY <1>3, <1>7, <1>15, <2>1, <2>3, <2>4
  <2>7. w \in Unsigned(TransferIn(Repays(q, u, t, c, repaid, freed), t, amount))
    BY <1>15 DEF q
  <2>8. Trades(r, w, u) /\ w.positions[u].type = "Lend"
    <3>1. c = Other(t)
      BY DEF c
    <3> DEFINE draft == Repays(q, u, t, c, repaid, freed)
    <3>2. Settles(r, q, u, t, c, "Lend", disRest, repaid, coll)
      BY <2>3, <2>4, <2>5, <2>6 DEF Settles
    <3>3. Deals(r, draft, u) /\ draft.positions[u].type = "Lend"
      BY <2>1, <2>3, <3>1, <3>2, RepayDeals
    <3> HIDE DEF draft
    <3>4. w \in Unsigned(TransferIn(draft, t, amount))
      BY <2>7 DEF draft
    <3>5. QED
      BY <2>1, <3>3, <3>4, TransfersTrade
  <2>9. Trades(p, w, u)
    BY <2>1, <2>8, TradesTwice
  <2>10. "Lend" \notin Sides
    BY DEF Sides
  <2>11. QED
    BY <2>8, <2>9, <2>10, LendersAreGood
<1>16. ASSUME s.type = SideOwing(t), p.collateralCoeff[c] # 0, ~(rest >= 0),
              w \in Unsigned(TransferIn(Repays(reduced, u, t, c, repaid, freed), t, amount))
       PROVE  Trades(p, w, u) /\ (Good(p, e, s) => Good(w, e, w.positions[u]))
  <2> DEFINE x == s.amount[t] - repaid
             type == SideOwing(t)
  <2>1. reduced = SetAmount(p, u, t, x)
    BY DEF SetAmount, reduced
  <2>2. x \in Int /\ freed \in Int /\ repaid \in Int /\ 0 \in Int
    BY <1>3, <1>6, <1>9, <1>16
  <2>3. x + repaid = s.amount[t] + 0
    BY <1>3, <1>6
  <2> HIDE DEF x, reduced
  <2>4. Wrote(p, reduced, u, s.type, Put(s.amount, t, x), p.discountedDebt, p.discountedCollateral)
    BY <2>1, <2>2, TypedIsLoose, NothingWritten, AmountWritten
  <2>5. p.discountedCollateral \in [Tokens -> Int]
    BY <1>2
  <2>6. type \in {"Lend", SideOwing(t)} /\ type # "Lend" /\ s.type = type
    BY <1>16 DEF SideOwing
  <2>7. Wrote(p, reduced, u, type, Put(s.amount, t, x), p.discountedDebt, p.discountedCollateral)
    BY <2>4, <2>6
  <2>8. x + repaid - s.amount[t] = p.discountedCollateral[t] - p.discountedCollateral[t]
    BY <1>3, <2>2, <2>3
  <2> HIDE DEF type
  <2>9. /\ Trades(p, w, u)
        /\ w.positions[u].type = type
        /\ w.positions[u].amount[t] = x
        /\ w.positions[u].amount[c] = s.amount[c] - freed
    <3>1. c = Other(t)
      BY DEF c
    <3> DEFINE draft == Repays(reduced, u, t, c, repaid, freed)
    <3>2. Settles(p, reduced, u, t, c, type, x, repaid, p.discountedCollateral)
      BY <1>16, <2>2, <2>5, <2>6, <2>7, <2>8 DEF Settles, type
    <3>3. /\ Deals(p, draft, u) /\ draft.positions[u].type = type
          /\ draft.positions[u].amount[t] = x
          /\ draft.positions[u].amount[c] = s.amount[c] - freed
      BY <2>2, <3>1, <3>2, RepayDeals
    <3>4. w \in Unsigned(TransferIn(draft, t, amount))
      BY <1>16
    <3> HIDE DEF draft
    <3>5. QED
      BY <3>3, <3>4, TransfersTrade
  <2>10. x >= 0
    <3>1. w.positions[u].amount[t] \in Nat
      <4>1. Typed(w)
        BY <2>9, DealsTrade
      <4>2. QED
        BY <4>1 DEF Typed, Storage, Holding
    <3>2. QED
      BY <2>9, <3>1
  <2>11. repaid <= s.amount[t]
    BY <1>3, <1>6, <2>3, <2>10 DEF x
  <2>12. ASSUME Good(p, e, s)
         PROVE  Good(w, e, w.positions[u])
    <3>1. c = Other(t)
      BY DEF c
    <3>2. w.positions[u].type = SideOwing(t) /\ w.positions[u].amount[t] = s.amount[t] - repaid
      BY <2>9 DEF x, type
    <3>3. w.positions[u].amount[c] = s.amount[c]
            - RecipMul(p.collateralCoeff[c], Mul(p.delevCoeff[c], repaid))
      BY <2>9, <1>10
    <3>4. QED
      BY <1>6, <1>16, <2>9, <2>11, <2>12, <3>1, <3>2, <3>3, RepayKeepsGood
  <2>13. QED
    BY <2>9, <2>12
<1>17. ASSUME s.type # SideOwing(t), p.collateralCoeff[t] # 0,
              w = TransferIn(CreditedTo(p, u, t, disAmount), t, amount)
       PROVE  Trades(p, w, u) /\ (Good(p, e, s) => Good(w, e, w.positions[u]))
  <2> DEFINE q == CreditedTo(p, u, t, disAmount)
  <2>1. Trades(p, q, u) /\ (Good(p, e, s) => Good(q, e, q.positions[u]))
    BY <1>12, <1>17, CreditTrades
  <2> HIDE DEF q
  <2>2. Typed(q)
    BY <2>1, DealsTrade
  <2>3. Paid(q, w)
    <3>1. w = TransferIn(q, t, amount)
      BY <1>17 DEF q
    <3>2. QED
      BY <2>2, <3>1, TransfersPay DEF Typed, Storage
  <2>4. Trades(q, w, u)
    BY <2>2, <2>3, TypedIsLoose, PaidDeals, DealsTrade
  <2>5. Good(q, e, q.positions[u]) => Good(w, e, w.positions[u])
    <3>1. /\ w.positions = q.positions /\ w.collateralCoeff = q.collateralCoeff
          /\ w.delevCoeff = q.delevCoeff /\ w.debtCoeff = q.debtCoeff /\ w.params = q.params
      BY <2>3 DEF Paid, Agree, Fields
    <3>2. QED
      BY <3>1 DEF Good, LeverageDefined, HasBadLeverage, CollateralValue, DebtValue,
                  PositionCollateral, RealCollateral, RealDebt
  <2>6. QED
    BY <2>1, <2>4, <2>5, TradesTwice
<1> HIDE DEF Settled, reduced
<1>18. QED
  BY <1>1, <1>15, <1>16, <1>17

----------------------------------------------------------------------------
\* Withdrawals, closings and sales

\* The leverage of a position is a matter of the coefficients and the parameters.
LEMMA GoodIs ==
  ASSUME NEW p, NEW q, NEW e, NEW s, q.collateralCoeff = p.collateralCoeff,
         q.delevCoeff = p.delevCoeff, q.debtCoeff = p.debtCoeff, q.params = p.params
  PROVE  Good(p, e, s) <=> Good(q, e, s)
BY DEF Good, LeverageDefined, HasBadLeverage, CollateralValue, DebtValue,
       PositionCollateral, RealCollateral, RealDebt

\* Tokens that move leave every leverage alone.
LEMMA PaidGood ==
  ASSUME NEW p, NEW q, Paid(p, q), NEW e, NEW s
  PROVE  Good(p, e, s) <=> Good(q, e, s)
<1>1. /\ q.collateralCoeff = p.collateralCoeff /\ q.delevCoeff = p.delevCoeff
      /\ q.debtCoeff = p.debtCoeff /\ q.params = p.params
  BY DEF Paid, Agree, Fields
<1>2. QED
  BY <1>1, GoodIs

\* Nothing is lost with a position that has nothing.
LEMMA EmptyTrades ==
  ASSUME NEW p, Typed(p), NEW u \in Accounts, \A t \in Tokens : p.positions[u].amount[t] = 0,
         NEW q, q = SetPosition(p, u, NoPosition)
  PROVE  Trades(p, q, u) /\ q.positions[u] = NoPosition
<1>1. NoPosition \in Holding(Nat)
  BY NoPositionHolds
<1>2. /\ Typed(q) /\ Agree(p, q, {"positions"}) /\ q.positions[u] = NoPosition
      /\ \A a \in Accounts \ {u} : q.positions[a] = p.positions[a]
  BY <1>1, PositionSet DEF Typed
<1>3. Paired(p, q, u)
  <2> SUFFICES ASSUME NEW t \in Tokens
      PROVE  /\ q.discountedDebt[t] + q.discountedCollateral[t] - q.positions[u].amount[t]
                  = p.discountedDebt[t] + p.discountedCollateral[t] - p.positions[u].amount[t]
             /\ q.discountedDebt[t] - Owed(q, u, t) <= p.discountedDebt[t] - Owed(p, u, t)
    BY DEF Paired
  <2>1. q.discountedDebt = p.discountedDebt /\ q.discountedCollateral = p.discountedCollateral
    BY <1>2 DEF Agree, Fields
  <2>2. q.positions[u].amount[t] = 0 /\ p.positions[u].amount[t] = 0
    BY <1>2, NoPositionHolds
  <2>3. Owed(q, u, t) = 0 /\ Owed(p, u, t) = 0
    BY <2>2 DEF Owed
  <2>4. p.discountedDebt[t] \in Nat /\ p.discountedCollateral[t] \in Nat
    BY DEF Typed, Storage
  <2>5. QED
    BY <2>1, <2>2, <2>3, <2>4
<1>4. QED
  BY <1>2, <1>3 DEF Trades, Agree

\* withdrawBase and withdrawQuote book what they do, and check the leverage.
LEMMA WithdrawTrades ==
  ASSUME NEW p, Typed(p), NEW e, Priced(e), NEW u \in Accounts, NEW t \in Tokens, NEW amount \in Nat,
         NEW w \in Withdraw(p, e, u, t, amount)
  PROVE  Trades(p, w, u) /\ Good(w, e, w.positions[u])
<1> DEFINE s == p.positions[u]
           c == Other(t)
           real == PositionCollateral(p, s, t)
           full == amount >= real
           out == IF full THEN real ELSE amount
           disOut == IF full THEN s.amount[t] ELSE RecipMul(p.collateralCoeff[t], out)
           q == [p EXCEPT !.positions[u].amount[t] = @ - disOut,
                          !.discountedCollateral[t] = @ - disOut]
           Left(v) == IF full /\ s.amount[c] = 0 THEN [v EXCEPT !.positions[u] = NoPosition] ELSE v
           a == s.amount[t] - disOut
           b == p.discountedCollateral[t] - disOut
<1>1. PICK v : /\ s.type # SideOwing(t) /\ real >= 0 /\ (~full => p.collateralCoeff[t] # 0)
               /\ v \in Unsigned(q) /\ Good(v, e, v.positions[u])
               /\ w \in TransferOut(Left(v), t, out)
  <2>1. /\ s.type # SideOwing(t) /\ real >= 0 /\ (~full => p.collateralCoeff[t] # 0)
        /\ \E r \in Unsigned(q) : \E v \in RequireGoodLeverage(r, e, u) :
             w \in TransferOut(Left(v), t, out)
    <3> DEFINE min == IF t = "base"
                      THEN RecipMul(e.price, RealDebt(p, c, s.amount[c])) + p.params.positionMinAmount
                      ELSE Mul(e.price, RealDebt(p, c, s.amount[c]) + p.params.positionMinAmount)
               fits == /\ amount # 0
                       /\ s.type \notin {"Uninitialized", SideOwing(t)}
                       /\ real >= 0
                       /\ ~full => p.collateralCoeff[t] # 0
                       /\ s.type \in Sides => min <= real - out
    <3>1. Withdraw(p, e, u, t, amount) =
            Require(fits, UNION {UNION {TransferOut(Left(v), t, out) :
                                          v \in RequireGoodLeverage(r, e, u)} : r \in Unsigned(q)})
      BY DEF Withdraw
    <3>2. w \in Withdraw(p, e, u, t, amount)
      OBVIOUS
    <3> HIDE DEF q, out, real, full, s, Left, min
    <3>3. fits /\ \E r \in Unsigned(q) : \E v \in RequireGoodLeverage(r, e, u) :
            w \in TransferOut(Left(v), t, out)
      <4> HIDE DEF fits
      <4>1. QED
        BY <3>1, <3>2 DEF Require
    <3>4. QED
      BY <3>3
  <2>2. \A r : \A v \in RequireGoodLeverage(r, e, u) : v = r /\ Good(r, e, r.positions[u])
    BY DEF RequireGoodLeverage, Require, Good
  <2> HIDE DEF q, Left, out, real, full, s
  <2>3. QED
    BY <2>1, <2>2
<1>2. /\ c \in Tokens /\ c # t /\ \A k \in Tokens : k = t \/ k = c
      /\ s.amount[t] \in Nat /\ s.amount[c] \in Nat /\ p.discountedCollateral[t] \in Nat
      /\ p.collateralCoeff[t] \in Nat
  <2>1. s \in Holding(Nat) /\ p.discountedCollateral[t] \in Nat /\ p.collateralCoeff[t] \in Nat
    BY DEF Typed, Storage
  <2>2. QED
    BY <2>1, OthersAre DEF Holding
<1>3. real \in Int
  BY Reals
<1>4. out \in Nat /\ disOut \in Nat
  <2>1. CASE full
    <3>1. out = real /\ disOut = s.amount[t]
      BY <2>1
    <3> HIDE DEF real, disOut, out
    <3>2. QED
      BY <1>1, <1>2, <1>3, <3>1
  <2>2. CASE ~full
    <3>1. out = amount /\ disOut = RecipMul(p.collateralCoeff[t], amount)
      BY <2>2
    <3> HIDE DEF real, disOut, out
    <3>2. QED
      BY <1>1, <1>2, <2>2, <3>1, Naturals
  <2>3. QED
    BY <2>1, <2>2
<1>5. q = SetCollateral(SetAmount(p, u, t, a), t, b)
  BY DEF SetCollateral, SetAmount
<1>6. full => a = 0
  BY <1>2
<1>7. a \in Int /\ b \in Int /\ b - p.discountedCollateral[t] = a - s.amount[t]
  <2> HIDE DEF disOut
  <2>1. QED
    BY <1>2, <1>4
<1> HIDE DEF a, b, q, disOut, out, real
<1>8. /\ Wrote(p, q, u, s.type, Put(s.amount, t, a), p.discountedDebt,
               Put(p.discountedCollateral, t, b))
      /\ Paired(p, q, u)
  BY <1>1, <1>5, <1>7, TypedIsLoose, CreditPairs
<1>9. Deals(p, q, u)
  BY <1>8 DEF Deals, Wrote, Edits, Agree, TradeFields
<1>10. Trades(p, v, u) /\ v = q /\ Typed(v)
  BY <1>1, <1>9, UnsignedDeals, UnsignedTypes DEF Deals
<1> HIDE DEF full
<1>11. /\ Trades(p, Left(v), u) /\ Typed(Left(v))
       /\ Good(Left(v), e, Left(v).positions[u])
  <2>1. CASE full /\ s.amount[c] = 0
    <3> DEFINE r == SetPosition(v, u, NoPosition)
    <3>1. Left(v) = r
      BY <2>1 DEF SetPosition
    <3>2. v.positions[u].amount = Put(s.amount, t, a)
      BY <1>8, <1>10 DEF Wrote
    <3>3. \A k \in Tokens : v.positions[u].amount[k] = 0
      <4>1. s.amount \in [Tokens -> Nat]
        BY DEF Typed, Storage, Holding
      <4> HIDE DEF s
      <4>2. QED
        BY <1>2, <1>6, <2>1, <3>2, <4>1 DEF Put
    <3> HIDE DEF r, Left
    <3>4. Trades(v, r, u) /\ r.positions[u] = NoPosition
      BY <1>10, <3>3, EmptyTrades DEF r
    <3>5. Trades(p, r, u) /\ Typed(r)
      BY <1>10, <3>4, TradesTwice, DealsTrade
    <3>6. NoPosition.type \notin Sides
      BY NoPositionHolds DEF Sides
    <3>7. QED
      BY <3>1, <3>4, <3>5, <3>6, LendersAreGood
  <2>2. CASE ~(full /\ s.amount[c] = 0)
    <3>1. Left(v) = v
      BY <2>2
    <3>2. QED
      BY <1>1, <1>10, <3>1
  <2>3. QED
    BY <2>1, <2>2
<1> DEFINE l == Left(v)
<1>12. Paid(l, w)
  <2>1. w \in TransferOut(l, t, out) /\ Typed(l)
    BY <1>1, <1>11
  <2> HIDE DEF l
  <2>2. QED
    BY <1>4, <2>1, TransfersPay DEF Typed, Storage
<1>13. Trades(p, l, u) /\ Typed(l) /\ Good(l, e, l.positions[u])
  BY <1>11
<1> HIDE DEF l
<1>14. Trades(l, w, u) /\ w.positions = l.positions
  BY <1>12, <1>13, PaidDeals, TypedIsLoose, DealsTrade
<1>15. Trades(p, w, u)
  BY <1>13, <1>14, TradesTwice
<1>16. QED
  BY <1>12, <1>13, <1>14, <1>15, PaidGood

\* The swap and the fee leave the positions alone.
LEMMA SwapsThenFee ==
  ASSUME NEW p, Typed(p), NEW q, Paid(p, q), NEW fee \in Nat, NEW r \in ChargeFee(q, fee)
  PROVE  Paid(p, r) /\ Typed(r) /\ r.positions = p.positions
         /\ r.discountedDebt = p.discountedDebt /\ r.discountedCollateral = p.discountedCollateral
<1>1. Typed(q)
  BY PaidStorage
<1>2. "quote" \in Tokens
  BY DEF Tokens
<1>3. Paid(q, r)
  BY <1>1, <1>2, TransfersPay DEF ChargeFee, Typed, Storage
<1>4. Paid(p, r)
  BY <1>3, PaidTwice
<1>5. QED
  BY <1>4, PaidStorage DEF Paid, Agree, Fields

\* What closePosition writes: y of the collateral in c for the whole debt in t.
Closed(r, u, t, c, y) ==
  [r EXCEPT !.discountedCollateral[c] = @ - y,
            !.discountedDebt[t] = @ - r.positions[u].amount[t],
            !.positions[u].amount[c] = @ - y,
            !.positions[u].amount[t] = 0,
            !.positions[u].type = "Lend"]

\* The assignments of closePosition are a deal.
LEMMA ClosedDeals ==
  ASSUME NEW r, Typed(r), NEW u \in Accounts, NEW t \in Tokens, NEW c, c = Other(t),
         r.positions[u].type = SideOwing(t), NEW y \in Int, NEW q, q = Closed(r, u, t, c, y)
  PROVE  Deals(r, q, u) /\ q.positions[u].type = "Lend"
<1> DEFINE s == r.positions[u]
           d == r.discountedDebt[t] - s.amount[t]
           a == s.amount[c] - y
           f == r.discountedCollateral[c] - y
           zero == 0
           type == "Lend"
           amount == Put(Put(s.amount, c, a), t, zero)
           debt == Put(r.discountedDebt, t, d)
           coll == Put(r.discountedCollateral, c, f)
<1>1. q = SetType(SetAmount(SetAmount(SetDebt(SetCollateral(r, c, f), t, d), u, c, a), u, t, zero),
                  u, type)
  BY DEF Closed, SetType, SetAmount, SetDebt, SetCollateral
<1>2. /\ c \in Tokens /\ c # t /\ \A k \in Tokens : k = t \/ k = c
      /\ s.amount \in [Tokens -> Int] /\ s.amount[t] \in Nat /\ s.amount[c] \in Nat
      /\ r.discountedDebt \in [Tokens -> Int] /\ r.discountedDebt[t] \in Int
      /\ r.discountedCollateral \in [Tokens -> Int] /\ r.discountedCollateral[c] \in Int
      /\ r.discountedDebt[c] \in Int /\ r.discountedCollateral[t] \in Int
  <2>1. s \in Holding(Nat)
    BY DEF Typed, Storage
  <2>2. s.amount \in [Tokens -> Nat]
    BY <2>1 DEF Holding
  <2>3. r.discountedDebt \in [Tokens -> Nat] /\ r.discountedCollateral \in [Tokens -> Nat]
    BY DEF Typed, Storage
  <2> HIDE DEF s
  <2>4. QED
    BY <2>2, <2>3, OthersAre
<1>3. d \in Int /\ a \in Int /\ f \in Int /\ zero \in Int /\ type \in PositionTypes
  BY <1>2 DEF PositionTypes
<1>4. /\ d = r.discountedDebt[t] - s.amount[t] /\ a = s.amount[c] - y
      /\ f = r.discountedCollateral[c] - y /\ zero = 0
      /\ type # SideOwing(t) /\ type # SideOwing(c) /\ type = "Lend"
  BY DEF SideOwing
<1> HIDE DEF d, a, f, zero, type
<1>5. Wrote(r, q, u, type, amount, debt, coll)
  <2> DEFINE r1 == SetCollateral(r, c, f)
             r2 == SetDebt(r1, t, d)
             r3 == SetAmount(r2, u, c, a)
             r4 == SetAmount(r3, u, t, zero)
  <2>1. q = SetType(r4, u, type)
    BY <1>1
  <2>2. Wrote(r, r, u, s.type, s.amount, r.discountedDebt, r.discountedCollateral)
    BY TypedIsLoose, NothingWritten
  <2> HIDE DEF s, amount, debt, coll
  <2>3. Wrote(r, r1, u, s.type, s.amount, r.discountedDebt, coll)
    BY <1>2, <1>3, <2>2, CollateralWritten DEF coll
  <2> HIDE DEF r1
  <2>4. Wrote(r, r2, u, s.type, s.amount, debt, coll)
    BY <1>3, <2>3, DebtWritten DEF debt
  <2> HIDE DEF r2
  <2>5. Wrote(r, r3, u, s.type, Put(s.amount, c, a), debt, coll)
    BY <1>2, <1>3, <2>4, AmountWritten
  <2> HIDE DEF r3
  <2>6. Wrote(r, r4, u, s.type, amount, debt, coll)
    BY <1>3, <2>5, AmountWritten DEF amount
  <2> HIDE DEF r4
  <2>7. QED
    BY <1>3, <2>1, <2>6, TypeWritten
<1>6. /\ amount[t] = 0 /\ amount[c] = a /\ debt[t] = d /\ debt[c] = r.discountedDebt[c]
      /\ coll[t] = r.discountedCollateral[t] /\ coll[c] = f
  <2> DEFINE A == s.amount
             D == r.discountedDebt
             C == r.discountedCollateral
             A2 == Put(A, c, a)
  <2>1. A \in [Tokens -> Int] /\ D \in [Tokens -> Int] /\ C \in [Tokens -> Int]
    BY <1>2
  <2>2. A2 \in [Tokens -> Int] /\ A2[c] = a
    BY <1>2, <1>3, <2>1 DEF Put
  <2> HIDE DEF s, A, D, C, A2
  <2>3. Put(A2, t, zero)[t] = zero /\ Put(A2, t, zero)[c] = a
    BY <1>2, <2>2 DEF Put
  <2>4. Put(D, t, d)[t] = d /\ Put(D, t, d)[c] = D[c]
    BY <1>2, <2>1 DEF Put
  <2>5. Put(C, c, f)[c] = f /\ Put(C, c, f)[t] = C[t]
    BY <1>2, <2>1 DEF Put
  <2>6. QED
    BY <1>4, <2>3, <2>4, <2>5 DEF A2, A, D, C
<1> HIDE DEF amount, debt, coll
<1>7. Owed(r, u, t) = s.amount[t] /\ Owed(r, u, c) = 0
  <2>1. SideOwing(t) # SideOwing(c)
    BY <1>2 DEF SideOwing, Tokens
  <2>2. r.positions[u].type = SideOwing(t)
    OBVIOUS
  <2>3. QED
    BY <2>1, <2>2 DEF Owed
<1>8. Evens(r, u, type, amount, debt, coll, t) /\ Evens(r, u, type, amount, debt, coll, c)
  <2>1. r.positions[u] = s
    OBVIOUS
  <2> HIDE DEF s
  <2>2. /\ debt[t] + coll[t] - amount[t]
             = r.discountedDebt[t] + r.discountedCollateral[t] - s.amount[t]
        /\ debt[t] - 0 <= r.discountedDebt[t] - s.amount[t]
    BY <1>2, <1>3, <1>4, <1>6
  <2>3. /\ debt[c] + coll[c] - amount[c]
             = r.discountedDebt[c] + r.discountedCollateral[c] - s.amount[c]
        /\ debt[c] - 0 <= r.discountedDebt[c] - 0
    BY <1>2, <1>3, <1>4, <1>6
  <2>4. QED
    BY <1>4, <1>7, <2>1, <2>2, <2>3 DEF Evens
<1>9. Deals(r, q, u)
  BY <1>2, <1>5, <1>8, TypedIsLoose, WroteDeals
<1>10. QED
  BY <1>4, <1>5, <1>9 DEF Wrote

\* closePosition books what it does, and leaves a lender.
LEMMA CloseTrades ==
  ASSUME NEW p, Typed(p), NEW e, Priced(e), NEW u \in Accounts, NEW limit \in Nat,
         NEW w \in ClosePosition(p, e, u, limit)
  PROVE  Trades(p, w, u) /\ Good(w, e, w.positions[u])
<1> DEFINE s == p.positions[u]
           t == DebtToken(s.type)
           c == Other(t)
           real == PositionCollateral(p, s, c)
           debtUp == RealDebtUp(p, t, s.amount[t])
           wanted == IF t = "quote" THEN debtUp + SwapFee(p, debtUp) ELSE debtUp
           spent == InputFor(e, c, wanted)
           maximum == IF t = "quote" THEN MulDiv(Q96, wanted, limit) ELSE MulDiv(limit, wanted, Q96)
           fee == IF t = "quote" THEN SwapFee(p, debtUp) ELSE SwapFee(p, spent)
           delta == IF t = "quote" THEN spent ELSE spent + fee
           disDelta == RecipMul(p.collateralCoeff[c], delta + Mul(p.delevCoeff[c], s.amount[t]))
           Draft(r) == [r EXCEPT !.discountedCollateral[c] = @ - disDelta,
                                 !.discountedDebt[t] = @ - s.amount[t],
                                 !.positions[u].amount[c] = @ - disDelta,
                                 !.positions[u].amount[t] = 0,
                                 !.positions[u].type = "Lend"]
           fits == /\ real >= 0
                   /\ t = "quote" => limit # 0 /\ spent # 0
                   /\ t = "base" => debtUp # 0
                   /\ spent <= maximum
                   /\ p.collateralCoeff[c] # 0
<1>1. /\ s.type \in Sides /\ fits
      /\ \E q \in SwapExactOutput(p, e, c, real, wanted) : \E r \in ChargeFee(q, fee) :
           \E v \in Unsigned(Draft(r)) : w \in HeapRemove(v, s.type, u)
  <2>1. ClosePosition(p, e, u, limit) =
          IF s.type \notin Sides THEN {}
          ELSE Require(fits, UNION {UNION {UNION {HeapRemove(v, s.type, u) : v \in Unsigned(Draft(r))} :
                                             r \in ChargeFee(q, fee)} :
                                      q \in SwapExactOutput(p, e, c, real, wanted)})
    BY DEF ClosePosition
  <2>2. w \in ClosePosition(p, e, u, limit)
    OBVIOUS
  <2> HIDE DEF s, c, t, real, wanted, fee, Draft, fits
  <2>3. QED
    BY <2>1, <2>2 DEF Require
<1>2. /\ t \in Tokens /\ c \in Tokens /\ s.type = SideOwing(t)
      /\ s.amount[t] \in Nat /\ p.collateralCoeff[c] \in Nat \ {0} /\ p.delevCoeff[c] \in Nat
      /\ Sane(p.params)
  <2>1. s \in Holding(Nat) /\ p.collateralCoeff \in [Tokens -> Nat] /\ p.delevCoeff \in [Tokens -> Nat]
        /\ Sane(p.params)
    BY DEF Typed, Storage
  <2>2. t \in Tokens /\ c \in Tokens /\ s.type = SideOwing(t)
    <3>1. s.type \in Sides
      BY <1>1
    <3> HIDE DEF s
    <3>2. QED
      BY <3>1, SidesOwe, OthersAre
  <2>3. \A h \in Holding(Nat) : h.amount \in [Tokens -> Nat]
    BY DEF Holding
  <2>4. p.collateralCoeff[c] # 0
    BY <1>1
  <2> HIDE DEF s, t, c
  <2>5. QED
    BY <2>1, <2>2, <2>3, <2>4
<1>3. debtUp \in Nat
  BY <1>2, Reals
<1> HIDE DEF real
<1>4. wanted \in Nat /\ SwapFee(p, debtUp) \in Nat
  <2>1. SwapFee(p, debtUp) \in Nat
    BY <1>2, <1>3, SwapFeeIs
  <2> HIDE DEF debtUp
  <2>2. QED
    BY <1>3, <2>1
<1> HIDE DEF wanted, debtUp
<1>5. spent \in Nat
  BY <1>2, <1>4, SwapsDefined
<1> HIDE DEF spent
<1>6. fee \in Nat
  <2>1. SwapFee(p, spent) \in Nat
    BY <1>2, <1>5, SwapFeeIs
  <2>2. QED
    BY <1>4, <2>1
<1> HIDE DEF fee
<1>7. delta \in Nat
  BY <1>5, <1>6
<1> HIDE DEF delta
<1>8. disDelta \in Int
  <2>1. Mul(p.delevCoeff[c], s.amount[t]) \in Nat
    BY <1>2, Naturals
  <2>2. delta + Mul(p.delevCoeff[c], s.amount[t]) \in Nat
    BY <1>7, <2>1
  <2>3. disDelta \in Nat
    BY <1>2, <2>2, Naturals
  <2> HIDE DEF disDelta
  <2>4. QED
    BY <2>3
<1> HIDE DEF disDelta, fits, Draft
<1>9. PICK q \in SwapExactOutput(p, e, c, real, wanted) : \E r \in ChargeFee(q, fee) :
         \E v \in Unsigned(Draft(r)) : w \in HeapRemove(v, s.type, u)
  BY <1>1
<1>10. PICK r \in ChargeFee(q, fee) : \E v \in Unsigned(Draft(r)) : w \in HeapRemove(v, s.type, u)
  BY <1>9
<1>11. PICK v \in Unsigned(Draft(r)) : w \in HeapRemove(v, s.type, u)
  BY <1>10
<1>12. Paid(p, q)
  BY <1>2, <1>4, SwapsPay
<1>13. Paid(p, r) /\ Typed(r) /\ r.positions = p.positions
  BY <1>6, <1>12, SwapsThenFee
<1>14. Trades(p, r, u)
  BY <1>13, TypedIsLoose, PaidDeals, DealsTrade
<1>15. Draft(r) = Closed(r, u, t, c, disDelta)
  <2>1. r.positions[u].amount[t] = s.amount[t]
    BY <1>13
  <2>2. Draft(r) = [r EXCEPT !.discountedCollateral[c] = @ - disDelta,
                             !.discountedDebt[t] = @ - r.positions[u].amount[t],
                             !.positions[u].amount[c] = @ - disDelta,
                             !.positions[u].amount[t] = 0,
                             !.positions[u].type = "Lend"]
    BY <2>1 DEF Draft
  <2>3. QED
    BY <2>2 DEF Closed
<1> DEFINE draft == Draft(r)
<1>16. Deals(r, draft, u) /\ draft.positions[u].type = "Lend"
  <2>1. r.positions[u].type = SideOwing(t) /\ c = Other(t)
    BY <1>2, <1>13
  <2> HIDE DEF draft, c, t
  <2>2. QED
    BY <1>2, <1>8, <1>13, <1>15, <2>1, ClosedDeals DEF draft
<1>17. Trades(r, v, u) /\ Typed(v) /\ v.positions[u].type = "Lend"
  <2>1. v \in Unsigned(draft) /\ Loose(draft)
    BY <1>11, <1>16 DEF Deals
  <2> HIDE DEF draft
  <2>2. QED
    BY <1>16, <2>1, UnsignedDeals, UnsignedTypes
<1>18. Trades(v, w, u) /\ w.positions[u].type = v.positions[u].type
  BY <1>1, <1>11, <1>17, RemovalDeals
<1>19. Trades(p, w, u)
  BY <1>13, <1>14, <1>17, <1>18, TradesTwice
<1>20. "Lend" \notin Sides
  BY DEF Sides
<1>21. QED
  BY <1>17, <1>18, <1>19, <1>20, LendersAreGood

\* What a sale writes: all the collateral in t is gone, x is there in c, where the debt
\* goes if there is one.
Sold(r, u, t, c, owes, x) ==
  [r EXCEPT !.discountedCollateral[t] = @ - r.positions[u].amount[t],
            !.discountedCollateral[c] = @ + x,
            !.discountedDebt[c] = IF owes THEN @ - r.positions[u].amount[c] ELSE @,
            !.positions[u].amount[t] = 0,
            !.positions[u].amount[c] = IF owes THEN x ELSE @ + x,
            !.positions[u].type = "Lend"]

\* The assignments of a sale are a deal.
LEMMA SoldDeals ==
  ASSUME NEW r, Typed(r), NEW u \in Accounts, NEW t \in Tokens, NEW c, c = Other(t),
         r.positions[u].type # SideOwing(t), NEW owes, owes = (r.positions[u].type = SideOwing(c)),
         NEW x \in Int, NEW q, q = Sold(r, u, t, c, owes, x)
  PROVE  Deals(r, q, u) /\ q.positions[u].type = "Lend"
<1> DEFINE s == r.positions[u]
           f == r.discountedCollateral[t] - s.amount[t]
           g == r.discountedCollateral[c] + x
           d == IF owes THEN r.discountedDebt[c] - s.amount[c] ELSE r.discountedDebt[c]
           zero == 0
           a == IF owes THEN x ELSE s.amount[c] + x
           type == "Lend"
           amount == Put(Put(s.amount, t, zero), c, a)
           debt == Put(r.discountedDebt, c, d)
           coll == Put(Put(r.discountedCollateral, t, f), c, g)
           r1 == SetCollateral(r, t, f)
           r2 == SetCollateral(r1, c, g)
           r3 == SetDebt(r2, c, d)
           r4 == SetAmount(r3, u, t, zero)
           r5 == SetAmount(r4, u, c, a)
<1>0. c \in Tokens /\ c # t /\ \A k \in Tokens : k = t \/ k = c
  BY OthersAre
<1>1. q = SetType(r5, u, type)
  <2> HIDE DEF type
  <2>1. q = [r EXCEPT !.discountedCollateral[t] = f, !.discountedCollateral[c] = g,
                      !.discountedDebt[c] = d,
                      !.positions[u].amount[t] = zero,
                      !.positions[u].amount[c] = a,
                      !.positions[u].type = type]
    BY DEF Sold, type
  <2> HIDE DEF f, g, d, zero, a
  <2>2. QED
    BY <2>1 DEF SetType, SetAmount, SetDebt, SetCollateral
<1>2. /\ s.amount \in [Tokens -> Int] /\ s.amount[t] \in Nat /\ s.amount[c] \in Nat
      /\ r.discountedDebt \in [Tokens -> Int] /\ r.discountedDebt[t] \in Int
      /\ r.discountedCollateral \in [Tokens -> Int] /\ r.discountedCollateral[c] \in Int
      /\ r.discountedDebt[c] \in Int /\ r.discountedCollateral[t] \in Int
  <2>1. s \in Holding(Nat)
    BY DEF Typed, Storage
  <2>2. s.amount \in [Tokens -> Nat]
    BY <2>1 DEF Holding
  <2>3. r.discountedDebt \in [Tokens -> Nat] /\ r.discountedCollateral \in [Tokens -> Nat]
    BY DEF Typed, Storage
  <2> HIDE DEF s
  <2>4. QED
    BY <1>0, <2>2, <2>3
<1>3. d \in Int /\ a \in Int /\ f \in Int /\ g \in Int /\ zero \in Int /\ type \in PositionTypes
  BY <1>2 DEF PositionTypes
<1>4. /\ d = IF owes THEN r.discountedDebt[c] - s.amount[c] ELSE r.discountedDebt[c]
      /\ a = IF owes THEN x ELSE s.amount[c] + x
      /\ f = r.discountedCollateral[t] - s.amount[t] /\ g = r.discountedCollateral[c] + x
      /\ zero = 0
      /\ type # SideOwing(t) /\ type # SideOwing(c) /\ type = "Lend"
  BY DEF SideOwing
<1> HIDE DEF d, a, f, g, zero, type, r1, r2, r3, r4, r5
<1>5. Wrote(r, q, u, type, amount, debt, coll)
  <2>1. Wrote(r, r, u, s.type, s.amount, r.discountedDebt, r.discountedCollateral)
    BY TypedIsLoose, NothingWritten
  <2> HIDE DEF s, amount, debt, coll
  <2>2. Wrote(r, r1, u, s.type, s.amount, r.discountedDebt, Put(r.discountedCollateral, t, f))
    BY <1>3, <2>1, CollateralWritten DEF r1
  <2>3. Wrote(r, r2, u, s.type, s.amount, r.discountedDebt, coll)
    BY <1>0, <1>3, <2>2, CollateralWritten DEF r2, coll
  <2>4. Wrote(r, r3, u, s.type, s.amount, debt, coll)
    BY <1>0, <1>3, <2>3, DebtWritten DEF r3, debt
  <2>5. Wrote(r, r4, u, s.type, Put(s.amount, t, zero), debt, coll)
    BY <1>3, <2>4, AmountWritten DEF r4
  <2>6. Wrote(r, r5, u, s.type, amount, debt, coll)
    BY <1>0, <1>3, <2>5, AmountWritten DEF r5, amount
  <2>7. QED
    BY <1>1, <1>3, <2>6, TypeWritten
<1>6. /\ amount[t] = 0 /\ amount[c] = a /\ debt[c] = d /\ debt[t] = r.discountedDebt[t]
      /\ coll[t] = f /\ coll[c] = g
  <2> DEFINE A == s.amount
             D == r.discountedDebt
             C == r.discountedCollateral
             A2 == Put(A, t, zero)
             C2 == Put(C, t, f)
  <2>1. A \in [Tokens -> Int] /\ D \in [Tokens -> Int] /\ C \in [Tokens -> Int]
    BY <1>2
  <2>2. A2 \in [Tokens -> Int] /\ A2[t] = zero /\ C2 \in [Tokens -> Int] /\ C2[t] = f
    BY <1>3, <2>1 DEF Put
  <2> HIDE DEF s, A, D, C, A2, C2
  <2>3. Put(A2, c, a)[t] = zero /\ Put(A2, c, a)[c] = a
    BY <1>0, <2>2 DEF Put
  <2>4. Put(D, c, d)[c] = d /\ Put(D, c, d)[t] = D[t]
    BY <1>0, <2>1 DEF Put
  <2>5. Put(C2, c, g)[c] = g /\ Put(C2, c, g)[t] = f
    BY <1>0, <2>2 DEF Put
  <2>6. QED
    BY <1>4, <2>3, <2>4, <2>5 DEF A2, A, D, C2, C
<1> HIDE DEF amount, debt, coll
<1>7. Owed(r, u, t) = 0 /\ Owed(r, u, c) = IF owes THEN s.amount[c] ELSE 0
  BY DEF Owed
<1>8. Evens(r, u, type, amount, debt, coll, t) /\ Evens(r, u, type, amount, debt, coll, c)
  <2>1. r.positions[u] = s
    OBVIOUS
  <2> HIDE DEF s
  <2>2. /\ debt[t] + coll[t] - amount[t]
             = r.discountedDebt[t] + r.discountedCollateral[t] - s.amount[t]
        /\ debt[t] - 0 <= r.discountedDebt[t] - 0
    BY <1>2, <1>3, <1>4, <1>6
  <2>3. debt[c] + coll[c] - amount[c]
             = r.discountedDebt[c] + r.discountedCollateral[c] - s.amount[c]
    <3>1. CASE owes
      <4>1. d = r.discountedDebt[c] - s.amount[c] /\ a = x
        BY <1>4, <3>1
      <4>2. QED
        BY <1>2, <1>3, <1>4, <1>6, <4>1
    <3>2. CASE ~owes
      <4>1. d = r.discountedDebt[c] /\ a = s.amount[c] + x
        BY <1>4, <3>2
      <4>2. QED
        BY <1>2, <1>3, <1>4, <1>6, <4>1
    <3>3. QED
      BY <3>1, <3>2
  <2>4. debt[c] - 0 <= r.discountedDebt[c] - Owed(r, u, c)
    <3>1. CASE owes
      <4>1. d = r.discountedDebt[c] - s.amount[c] /\ Owed(r, u, c) = s.amount[c]
        BY <1>4, <1>7, <3>1
      <4>2. QED
        BY <1>2, <1>3, <1>6, <4>1
    <3>2. CASE ~owes
      <4>1. d = r.discountedDebt[c] /\ Owed(r, u, c) = 0
        BY <1>4, <1>7, <3>2
      <4>2. QED
        BY <1>2, <1>3, <1>6, <4>1
    <3>3. QED
      BY <3>1, <3>2
  <2>5. QED
    BY <1>4, <1>7, <2>1, <2>2, <2>3, <2>4 DEF Evens
<1>9. Deals(r, q, u)
  BY <1>0, <1>5, <1>8, TypedIsLoose, WroteDeals
<1>10. QED
  BY <1>4, <1>5, <1>9 DEF Wrote

\* sellBaseForQuote, sellQuoteForBase: what is left is a lender, unless there was nothing
\* to sell; a position within the maximal leverage that owes the other token has something.
LEMMA SellTrades ==
  ASSUME NEW p, Typed(p), NEW e, Priced(e), NEW u \in Accounts, NEW t \in Tokens, NEW limit \in Nat,
         Good(p, e, p.positions[u]), NEW w \in Sell(p, e, u, t, limit)
  PROVE  /\ Trades(p, w, u) /\ Good(w, e, w.positions[u])
         /\ w.positions[u].type \in {"Lend", SideOwing(t)}
<1> DEFINE s == p.positions[u]
           c == Other(t)
           owes == s.type = SideOwing(c)
           amountIn == PositionCollateral(p, s, t)
           feeIn == IF t = "quote" THEN SwapFee(p, amountIn) ELSE 0
           in == amountIn - feeIn
           minOut == IF t = "base" THEN MulDiv(limit, in, Q96) ELSE MulDiv(Q96, in, limit)
           swapped == OutputOf(e, t, in)
           fee == IF t = "base" THEN SwapFee(p, swapped) ELSE feeIn
           out == IF t = "base" THEN swapped - fee ELSE swapped
           realDebt == IF owes THEN RealDebt(p, c, s.amount[c]) ELSE 0
           disOut == RecipMul(p.collateralCoeff[c], out - realDebt)
           Draft(q) == [q EXCEPT
             !.discountedCollateral[t] = @ - s.amount[t],
             !.discountedCollateral[c] = @ + disOut,
             !.discountedDebt[c] = IF owes THEN @ - s.amount[c] ELSE @,
             !.positions[u].amount[t] = 0,
             !.positions[u].amount[c] = IF owes THEN disOut ELSE @ + disOut,
             !.positions[u].type = "Lend"]
           fits == /\ t = "quote" => limit # 0
                   /\ p.collateralCoeff[c] # 0
                   /\ out >= realDebt
           Freed(v) == IF owes THEN HeapRemove(v, s.type, u) ELSE {v}
<1>1. \/ s.type # "Uninitialized" /\ (s.type = SideOwing(t) \/ amountIn = 0) /\ w = p
      \/ /\ s.type # SideOwing(t) /\ amountIn >= 0 /\ fits
         /\ \E q \in SwapExactInput(p, e, t, in, minOut) : \E r \in ChargeFee(q, fee) :
              \E v \in Unsigned(Draft(r)) : w \in Freed(v)
  <2>1. Sell(p, e, u, t, limit) =
          IF s.type = "Uninitialized" \/ amountIn < 0 THEN {}
          ELSE IF s.type = SideOwing(t) \/ amountIn = 0 THEN {p}
          ELSE Require(fits, UNION {UNION {UNION {Freed(v) : v \in Unsigned(Draft(r))} :
                                             r \in ChargeFee(q, fee)} :
                                      q \in SwapExactInput(p, e, t, in, minOut)})
    BY DEF Sell
  <2>2. w \in Sell(p, e, u, t, limit)
    OBVIOUS
  <2>3. amountIn \in Int
    BY Reals
  <2> HIDE DEF s, c, amountIn, owes, feeIn, in, minOut, fee, Draft, fits, Freed
  <2>4. QED
    BY <2>1, <2>2, <2>3 DEF Require
<1>2. /\ c \in Tokens /\ c # t /\ Other(c) = t
      /\ s.amount[t] \in Nat /\ s.amount[c] \in Nat /\ p.collateralCoeff[c] \in Nat
      /\ s.type \in PositionTypes /\ Sane(p.params)
  <2>1. s \in Holding(Nat) /\ p.collateralCoeff \in [Tokens -> Nat] /\ Sane(p.params)
    BY DEF Typed, Storage
  <2>2. \A h \in Holding(Nat) : h.amount \in [Tokens -> Nat] /\ h.type \in PositionTypes
    BY DEF Holding
  <2> HIDE DEF s
  <2>3. QED
    BY <2>1, <2>2, OthersAre
<1>3. ASSUME s.type # "Uninitialized", s.type = SideOwing(t) \/ amountIn = 0, w = p
      PROVE  /\ Trades(p, w, u) /\ Good(w, e, w.positions[u])
             /\ w.positions[u].type \in {"Lend", SideOwing(t)}
  <2>1. Trades(p, p, u)
    <3>1. Paid(p, p)
      BY DEF Paid, Agree, Typed, Storage
    <3>2. QED
      BY <3>1, PaidDeals, DealsTrade, TypedIsLoose
  <2>2. ASSUME s.type = SideOwing(c), amountIn = 0
        PROVE  FALSE
    <3>1. s.type \in Sides
      BY <2>2 DEF SideOwing, Sides
    <3>2. c = DebtToken(s.type)
      <4> HIDE DEF s, c
      <4>1. QED
        BY <1>2, <2>2, <3>1, SidesOwe
    <3>3. CollateralValue(p, e, s) = 0
      <4>1. CollateralValue(p, e, s) = InQuote(e.price, t, amountIn)
        BY <1>2, <3>2 DEF CollateralValue
      <4>2. InQuote(e.price, t, 0) = 0
        BY FixedPointAssumption DEF InQuote, Mul, MulDiv, Priced
      <4> HIDE DEF amountIn
      <4>3. QED
        BY <2>2, <4>1, <4>2
    <3>4. DebtValue(p, e, s) \in Nat
      BY <3>1, ValuesAre
    <3>5. CollateralValue(p, e, s) <= DebtValue(p, e, s)
      BY <3>3, <3>4
    <3>6. HasBadLeverage(p, e, s)
      BY <3>1, <3>5 DEF HasBadLeverage
    <3>7. QED
      BY <3>6 DEF Good
  <2>3. s.type \in {"Lend", SideOwing(t)}
    <3>1. s.type \in {"Lend", SideOwing(t), SideOwing(c)}
      <4>1. t \in {"base", "quote"} /\ c \in {"base", "quote"} /\ c # t
        BY <1>2 DEF Tokens
      <4> HIDE DEF c, s
      <4>2. QED
        BY <1>2, <1>3, <4>1 DEF SideOwing, PositionTypes, Sides
    <3>2. QED
      BY <1>3, <2>2, <3>1
  <2>4. QED
    BY <1>3, <2>1, <2>3
<1>4. ASSUME s.type # SideOwing(t), amountIn >= 0, fits,
             NEW q \in SwapExactInput(p, e, t, in, minOut), NEW r \in ChargeFee(q, fee),
             NEW v \in Unsigned(Draft(r)), w \in Freed(v)
      PROVE  /\ Trades(p, w, u) /\ w.positions[u].type = "Lend"
  <2>1. amountIn \in Nat
    <3>1. amountIn >= 0
      BY <1>4
    <3> HIDE DEF c, owes, feeIn, in, minOut, swapped, fee, out, realDebt, disOut, Draft, fits,
                 Freed
    <3>2. amountIn \in Int
      BY Reals
    <3> HIDE DEF amountIn
    <3>3. QED
      BY <3>1, <3>2
  <2> HIDE DEF amountIn
  <2>2. feeIn \in Nat /\ feeIn <= amountIn
    <3>1. Sane(p.params)
      BY <1>2
    <3> HIDE DEF s, c, owes, in, minOut, swapped, fee, out, realDebt, disOut, Draft, fits, Freed
    <3>2. SwapFee(p, amountIn) \in Nat /\ SwapFee(p, amountIn) <= amountIn
      BY <2>1, <3>1, SwapFeeIs
    <3>3. QED
      BY <2>1, <3>2
  <2> HIDE DEF feeIn
  <2>3. in \in Nat
    BY <2>1, <2>2
  <2> HIDE DEF in
  <2>4. swapped \in Nat
    BY <2>3, SwapsDefined
  <2> HIDE DEF swapped
  <2>5. fee \in Nat /\ out \in Nat
    <3>1. SwapFee(p, swapped) \in Nat /\ SwapFee(p, swapped) <= swapped
      BY <1>2, <2>4, SwapFeeIs
    <3>2. CASE t = "base"
      <4>1. fee = SwapFee(p, swapped) /\ out = swapped - fee
        BY <3>2
      <4> HIDE DEF fee, out
      <4>2. QED
        BY <2>4, <3>1, <4>1
    <3>3. CASE t # "base"
      <4>1. fee = feeIn /\ out = swapped
        BY <3>3
      <4> HIDE DEF fee, out
      <4>2. QED
        BY <2>2, <2>4, <4>1
    <3>4. QED
      BY <3>2, <3>3
  <2> HIDE DEF fee, out
  <2>6. realDebt \in Nat
    <3>1. RealDebt(p, c, s.amount[c]) \in Nat
      BY <1>2, Reals
    <3>2. QED
      BY <3>1
  <2> HIDE DEF realDebt
  <2>7. disOut \in Int
    <3>1. p.collateralCoeff[c] \in Nat \ {0} /\ out - realDebt \in Nat
      BY <1>2, <1>4, <2>5, <2>6
    <3>2. disOut \in Nat
      BY <3>1, Naturals
    <3> HIDE DEF disOut
    <3>3. QED
      BY <3>2
  <2> HIDE DEF disOut, minOut, fits
  <2>8. Paid(p, q)
    BY <2>3, SwapsPay
  <2>9. Paid(p, r) /\ Typed(r) /\ r.positions = p.positions
    BY <2>5, <2>8, SwapsThenFee
  <2>10. Trades(p, r, u)
    BY <2>9, TypedIsLoose, PaidDeals, DealsTrade
  <2> DEFINE draft == Draft(r)
  <2>11. draft = Sold(r, u, t, c, owes, disOut)
    <3>1. r.positions[u].amount[t] = s.amount[t] /\ r.positions[u].amount[c] = s.amount[c]
      BY <2>9
    <3>2. draft = [r EXCEPT
                !.discountedCollateral[t] = @ - r.positions[u].amount[t],
                !.discountedCollateral[c] = @ + disOut,
                !.discountedDebt[c] = IF owes THEN @ - r.positions[u].amount[c] ELSE @,
                !.positions[u].amount[t] = 0,
                !.positions[u].amount[c] = IF owes THEN disOut ELSE @ + disOut,
                !.positions[u].type = "Lend"]
      BY <3>1
    <3> HIDE DEF draft, owes
    <3>3. QED
      BY <3>2 DEF Sold
  <2>12. Deals(r, draft, u) /\ draft.positions[u].type = "Lend"
    <3>1. r.positions[u].type # SideOwing(t) /\ c = Other(t)
          /\ owes = (r.positions[u].type = SideOwing(c))
      BY <1>4, <2>9
    <3> HIDE DEF draft, c, owes, Draft, Freed, s
    <3>2. QED
      BY <2>7, <2>9, <2>11, <3>1, SoldDeals
  <2>13. Trades(r, v, u) /\ Typed(v) /\ v.positions[u].type = "Lend"
    <3>1. v \in Unsigned(draft) /\ Loose(draft)
      BY <1>4, <2>12 DEF Deals
    <3> HIDE DEF draft
    <3>2. QED
      BY <2>12, <3>1, UnsignedDeals, UnsignedTypes
  <2>14. Trades(p, v, u)
    BY <2>9, <2>10, <2>13, TradesTwice
  <2> HIDE DEF draft, Draft
  <2>15. CASE owes
    <3>1. w \in HeapRemove(v, s.type, u)
      BY <1>4, <2>15
    <3>2. s.type \in Sides
      BY <2>15 DEF SideOwing, Sides
    <3>3. Trades(v, w, u) /\ w.positions[u].type = v.positions[u].type
      BY <2>13, <3>1, <3>2, RemovalDeals
    <3>4. QED
      BY <2>13, <2>14, <3>3, TradesTwice
  <2>16. CASE ~owes
    <3>1. w = v
      BY <1>4, <2>16
    <3>2. QED
      BY <2>13, <2>14, <3>1
  <2>17. QED
    BY <2>15, <2>16
<1> HIDE DEF Draft, Freed, fits, in, minOut, fee, amountIn
<1>5. "Lend" \notin Sides
  BY DEF Sides
<1>6. QED
  BY <1>1, <1>3, <1>4, <1>5, LendersAreGood

----------------------------------------------------------------------------
\* Loans

\* What a loan writes: x of debt in t, y of collateral in c.
Borrowed(r, u, t, c, x, y) ==
  [r EXCEPT !.positions[u].amount[t] = @ + x,
            !.discountedDebt[t] = @ + x,
            !.positions[u].amount[c] = @ + y,
            !.discountedCollateral[c] = @ + y]

\* The record of u after Enter, whatever its heap says.
Entered(p, q, u, side) ==
  /\ Typed(q) /\ Agree(p, q, {"heap", "positions"})
  /\ \A a \in Accounts \ {u} : q.positions[a] = p.positions[a]
  /\ q.positions[u].type = side
  /\ q.positions[u].amount = p.positions[u].amount

\* Entering a heap writes the type and the heap, and checks the leverage.
LEMMA EnterEnters ==
  ASSUME NEW p, Typed(p), NEW e, NEW u \in Accounts, NEW side \in Sides,
         p.positions[u].type \in {"Lend", side}, NEW w \in Enter(p, e, u, side)
  PROVE  Entered(p, w, u, side) /\ Good(w, e, w.positions[u])
<1> DEFINE zero == 0
           r1 == SetHeap(p, side, u, zero)
           true == TRUE
           r2 == SetInHeap(r1, u, true)
           r3 == SetType(r2, u, side)
           q == [HeapInsert(p, side, u) EXCEPT !.positions[u].type = side]
<1>1. q = r3
  BY DEF HeapInsert, SetHeap, SetInHeap, SetType
<1>2. w = (IF p.positions[u].type = "Lend" THEN q ELSE p) /\ Good(w, e, w.positions[u])
  <2> HIDE DEF q
  <2>1. w \in RequireGoodLeverage(IF p.positions[u].type = "Lend" THEN q ELSE p, e, u)
    BY DEF Enter, Require, q
  <2>2. QED
    BY <2>1 DEF RequireGoodLeverage, Require, Good
<1>3. CASE p.positions[u].type = "Lend"
  <2>1. zero \in Keys /\ true \in BOOLEAN /\ side \in PositionTypes
    BY PoolAssumption DEF Keys, PositionTypes
  <2> HIDE DEF zero, true, r1, r2, r3, q
  <2>2. Agree(p, r1, {"heap"}) /\ Typed(r1)
    BY <2>1, TypedIsLoose, HeapSet DEF r1
  <2>3. Heaped(r1, r2, u) /\ Agree(r1, r2, {"positions"}) /\ Typed(r2)
    <3>1. Nat \subseteq Int
      OBVIOUS
    <3>2. QED
      BY <2>1, <2>2, <3>1, InHeapSet DEF r2, Typed
  <2>4. /\ Edits(r2, r3, u) /\ r3.positions[u].type = side
        /\ r3.positions[u].amount = r2.positions[u].amount
        /\ r3.discountedCollateral = r2.discountedCollateral
        /\ r3.discountedDebt = r2.discountedDebt
    BY <2>1, <2>3, TypedIsLoose, TypeSet DEF r3
  <2>5. Agree(p, r3, {"heap", "positions"})
    <3>1. Agree(r2, r3, {"positions"})
      BY <2>4 DEF Edits, Agree
    <3>2. QED
      BY <2>2, <2>3, <3>1 DEF Agree
  <2>6. /\ \A a \in Accounts \ {u} : r3.positions[a] = p.positions[a]
        /\ r3.positions[u].amount = p.positions[u].amount
    BY <2>2, <2>3, <2>4 DEF Heaped, Edits, Agree, Fields
  <2>7. Typed(r3)
    <3>1. Loose(r3)
      BY <2>4 DEF Edits
    <3>2. \A t \in Tokens : r3.discountedCollateral[t] >= 0 /\ r3.discountedDebt[t] >= 0
      BY <2>3, <2>4 DEF Typed, Storage
    <3>3. ASSUME NEW a \in Accounts, NEW t \in Tokens
          PROVE  r3.positions[a].amount[t] >= 0
      <4>1. r3.positions[a].amount = p.positions[a].amount
        BY <2>6
      <4>2. p.positions[a].amount[t] \in Nat
        BY DEF Typed, Storage, Holding
      <4>3. QED
        BY <4>1, <4>2
    <3>4. r3 \in Unsigned(r3)
      BY <3>2, <3>3 DEF Unsigned, Require
    <3>5. QED
      BY <3>1, <3>4, UnsignedTypes
  <2>8. w = r3
    BY <1>1, <1>2, <1>3
  <2>9. QED
    BY <1>2, <2>4, <2>5, <2>6, <2>7, <2>8 DEF Entered
<1>4. CASE p.positions[u].type # "Lend"
  <2>1. w = p /\ p.positions[u].type = side
    BY <1>2, <1>4
  <2>2. Agree(p, p, {"heap", "positions"})
    BY DEF Agree, Typed, Storage
  <2> HIDE DEF q
  <2>3. QED
    BY <1>2, <2>1, <2>2 DEF Entered
<1>5. QED
  BY <1>3, <1>4

\* A loan to a lender, or to a debtor in the same token, who then enters the heap.
LEMMA LoanTrades ==
  ASSUME NEW r, Typed(r), NEW e, NEW u \in Accounts, NEW t \in Tokens, NEW c, c = Other(t),
         r.positions[u].type \in {"Lend", SideOwing(t)}, NEW x \in Nat, NEW y \in Nat,
         NEW w \in Enter(Borrowed(r, u, t, c, x, y), e, u, SideOwing(t))
  PROVE  Trades(r, w, u) /\ Good(w, e, w.positions[u])
<1> DEFINE s == r.positions[u]
           a == s.amount[t] + x
           b == s.amount[c] + y
           d == r.discountedDebt[t] + x
           f == r.discountedCollateral[c] + y
           q == Borrowed(r, u, t, c, x, y)
           side == SideOwing(t)
           amount == Put(Put(s.amount, t, a), c, b)
           debt == Put(r.discountedDebt, t, d)
           coll == Put(r.discountedCollateral, c, f)
           r1 == SetAmount(r, u, t, a)
           r2 == SetDebt(r1, t, d)
           r3 == SetAmount(r2, u, c, b)
<1>0. c \in Tokens /\ c # t /\ \A k \in Tokens : k = t \/ k = c
  BY OthersAre
<1>1. q = SetCollateral(r3, c, f)
  <2>1. q = [r EXCEPT !.positions[u].amount[t] = a, !.discountedDebt[t] = d,
                      !.positions[u].amount[c] = b, !.discountedCollateral[c] = f]
    BY DEF Borrowed
  <2> HIDE DEF q, a, b, d, f
  <2>2. QED
    BY <2>1 DEF SetAmount, SetDebt, SetCollateral
<1>2. /\ s.amount \in [Tokens -> Nat] /\ s.amount[t] \in Nat /\ s.amount[c] \in Nat
      /\ r.discountedDebt \in [Tokens -> Nat] /\ r.discountedDebt[t] \in Nat
      /\ r.discountedCollateral \in [Tokens -> Nat] /\ r.discountedCollateral[c] \in Nat
      /\ r.discountedDebt[c] \in Nat /\ r.discountedCollateral[t] \in Nat
  <2>1. s \in Holding(Nat)
    BY DEF Typed, Storage
  <2>2. s.amount \in [Tokens -> Nat]
    BY <2>1 DEF Holding
  <2>3. r.discountedDebt \in [Tokens -> Nat] /\ r.discountedCollateral \in [Tokens -> Nat]
    BY DEF Typed, Storage
  <2> HIDE DEF s
  <2>4. QED
    BY <1>0, <2>2, <2>3
<1>3. /\ a \in Nat /\ b \in Nat /\ d \in Nat /\ f \in Nat
      /\ a \in Int /\ b \in Int /\ d \in Int /\ f \in Int
  BY <1>2
<1>4. /\ a = s.amount[t] + x /\ b = s.amount[c] + y
      /\ d = r.discountedDebt[t] + x /\ f = r.discountedCollateral[c] + y
  OBVIOUS
<1>5. side \in Sides /\ side # SideOwing(c) /\ side = SideOwing(t)
  BY <1>0 DEF SideOwing, Sides, Tokens
<1> HIDE DEF a, b, d, f, side, q, r1, r2, r3
<1>6. Wrote(r, q, u, s.type, amount, debt, coll)
  <2>1. Wrote(r, r, u, s.type, s.amount, r.discountedDebt, r.discountedCollateral)
    BY TypedIsLoose, NothingWritten
  <2> HIDE DEF s, amount, debt, coll
  <2>2. Wrote(r, r1, u, s.type, Put(s.amount, t, a), r.discountedDebt, r.discountedCollateral)
    BY <1>3, <2>1, AmountWritten DEF r1
  <2>3. Wrote(r, r2, u, s.type, Put(s.amount, t, a), debt, r.discountedCollateral)
    BY <1>3, <2>2, DebtWritten DEF r2, debt
  <2>4. Wrote(r, r3, u, s.type, amount, debt, r.discountedCollateral)
    BY <1>0, <1>3, <2>3, AmountWritten DEF r3, amount
  <2>5. QED
    BY <1>0, <1>1, <1>3, <2>4, CollateralWritten DEF coll
<1>7. /\ amount[t] = a /\ amount[c] = b /\ debt[t] = d /\ debt[c] = r.discountedDebt[c]
      /\ coll[t] = r.discountedCollateral[t] /\ coll[c] = f
      /\ amount \in [Tokens -> Nat] /\ debt \in [Tokens -> Nat] /\ coll \in [Tokens -> Nat]
  <2> DEFINE A == s.amount
             D == r.discountedDebt
             C == r.discountedCollateral
             A2 == Put(A, t, a)
  <2>1. A \in [Tokens -> Nat] /\ D \in [Tokens -> Nat] /\ C \in [Tokens -> Nat]
    BY <1>2
  <2>2. A2 \in [Tokens -> Nat] /\ A2[t] = a
    BY <1>3, <2>1 DEF Put
  <2> HIDE DEF s, A, D, C, A2
  <2>3. Put(A2, c, b)[t] = a /\ Put(A2, c, b)[c] = b /\ Put(A2, c, b) \in [Tokens -> Nat]
    BY <1>0, <1>3, <2>2 DEF Put
  <2>4. Put(D, t, d)[t] = d /\ Put(D, t, d)[c] = D[c] /\ Put(D, t, d) \in [Tokens -> Nat]
    BY <1>0, <1>3, <2>1 DEF Put
  <2>5. Put(C, c, f)[c] = f /\ Put(C, c, f)[t] = C[t] /\ Put(C, c, f) \in [Tokens -> Nat]
    BY <1>0, <1>3, <2>1 DEF Put
  <2>6. QED
    BY <2>3, <2>4, <2>5 DEF A2, A, D, C
<1> HIDE DEF amount, debt, coll
<1>8. Typed(q)
  BY <1>6, <1>7, WroteTypes
<1>9. Entered(q, w, u, side) /\ Good(w, e, w.positions[u])
  <2>1. q.positions[u].type \in {"Lend", side}
    BY <1>5, <1>6 DEF Wrote
  <2>2. w \in Enter(q, e, u, side)
    BY <1>5 DEF q
  <2>3. QED
    BY <1>5, <1>8, <2>1, <2>2, EnterEnters
<1>10. /\ Typed(w) /\ Agree(r, w, TradeFields)
       /\ \A k \in Accounts \ {u} : w.positions[k] = r.positions[k]
       /\ w.positions[u].type = side /\ w.positions[u].amount = amount
       /\ w.discountedDebt = debt /\ w.discountedCollateral = coll
  BY <1>6, <1>9 DEF Entered, Wrote, Edits, Agree, TradeFields, Fields
<1>11. Paired(r, w, u)
  <2>1. /\ Owed(w, u, t) = a /\ Owed(w, u, c) = 0
    BY <1>5, <1>7, <1>10 DEF Owed
  <2>2. /\ r.positions[u] = s /\ Owed(r, u, c) = 0
        /\ Owed(r, u, t) \in Nat /\ Owed(r, u, t) <= s.amount[t]
    <3>1. s.type # SideOwing(c)
      BY <1>5 DEF SideOwing
    <3>2. QED
      BY <1>2, <3>1 DEF Owed
  <2> HIDE DEF s
  <2>3. /\ debt[t] + coll[t] - amount[t]
             = r.discountedDebt[t] + r.discountedCollateral[t] - s.amount[t]
        /\ debt[t] - a <= r.discountedDebt[t] - Owed(r, u, t)
    BY <1>2, <1>3, <1>4, <1>7, <2>2
  <2>4. /\ debt[c] + coll[c] - amount[c]
             = r.discountedDebt[c] + r.discountedCollateral[c] - s.amount[c]
        /\ debt[c] - 0 <= r.discountedDebt[c] - 0
    BY <1>2, <1>3, <1>4, <1>7
  <2>5. QED
    BY <1>0, <1>10, <2>1, <2>2, <2>3, <2>4 DEF Paired
<1>12. QED
  BY <1>9, <1>10, <1>11 DEF Trades, TradeFields

\* short and long, once the amounts are known: a sale, a swap, a fee, a loan.
LEMMA SaleThenLoan ==
  ASSUME NEW p, Typed(p), NEW e, Priced(e), NEW u \in Accounts, Good(p, e, p.positions[u]),
         NEW t \in Tokens, NEW c, c = Other(t), NEW limit \in Nat, NEW q \in Sell(p, e, u, t, limit),
         NEW r, Paid(q, r), NEW fee \in Nat, NEW v \in ChargeFee(r, fee),
         NEW x \in Nat, NEW y \in Nat,
         NEW w \in Enter(Borrowed(v, u, t, c, x, y), e, u, SideOwing(t))
  PROVE  Trades(p, w, u) /\ Good(w, e, w.positions[u])
<1>1. Trades(p, q, u) /\ Typed(q) /\ q.positions[u].type \in {"Lend", SideOwing(t)}
  BY SellTrades, DealsTrade
<1>2. Paid(q, v) /\ Typed(v) /\ v.positions = q.positions
  BY <1>1, SwapsThenFee
<1>3. Trades(q, v, u)
  BY <1>1, <1>2, TypedIsLoose, PaidDeals, DealsTrade
<1>4. Trades(v, w, u) /\ Good(w, e, w.positions[u])
  BY <1>1, <1>2, LoanTrades
<1>5. QED
  BY <1>1, <1>2, <1>3, <1>4, TradesTwice

\* Amounts of a loan.
LEMMA LoanAmounts ==
  ASSUME NEW q, Typed(q), NEW t \in Tokens, NEW c, c = Other(t), NEW debt \in Nat,
         NEW gain \in Nat, q.collateralCoeff[c] # 0
  PROVE  /\ RecipMul(q.debtCoeff[t], debt) \in Nat
         /\ RecipMul(q.collateralCoeff[c],
                     gain + Mul(q.delevCoeff[c], RecipMul(q.debtCoeff[t], debt))) \in Nat
<1>1. c \in Tokens
  BY OthersAre
<1>2. /\ q.debtCoeff[t] \in Nat \ {0} /\ q.collateralCoeff[c] \in Nat \ {0}
      /\ q.delevCoeff[c] \in Nat
  <2>1. q.debtCoeff[t] \in DebtCoeffs /\ Q48 \in Nat \ {0}
    BY FixedPointAssumption DEF Typed, Storage
  <2>2. QED
    BY <1>1, <2>1 DEF Typed, Storage, DebtCoeffs
<1> DEFINE x == RecipMul(q.debtCoeff[t], debt)
           m == Mul(q.delevCoeff[c], x)
<1>3. x \in Nat
  BY <1>2, Naturals
<1> HIDE DEF x
<1>4. m \in Nat
  BY <1>2, <1>3, Naturals
<1> HIDE DEF m
<1>5. gain + m \in Nat
  BY <1>4
<1>6. RecipMul(q.collateralCoeff[c], gain + m) \in Nat
  BY <1>2, <1>5, Naturals
<1>7. QED
  BY <1>3, <1>6 DEF m, x

\* short books what it does, and checks the leverage.
LEMMA ShortTrades ==
  ASSUME NEW p, Typed(p), NEW e, Priced(e), NEW u \in Accounts, Good(p, e, p.positions[u]),
         NEW amount \in Nat, NEW limit \in Nat, NEW w \in Short(p, e, u, amount, limit)
  PROVE  Trades(p, w, u) /\ Good(w, e, w.positions[u])
<1> DEFINE t == "base"
           c == "quote"
           got == OutputOf(e, t, amount)
           Fee(q) == SwapFee(q, got)
           Debt(q) == RecipMul(q.debtCoeff[t], amount)
           Coll(q) == RecipMul(q.collateralCoeff[c], got - Fee(q) + Mul(q.delevCoeff[c], Debt(q)))
           fits(q) == /\ amount # 0
                      /\ RealCollateral(q, c, q.positions[u].amount[c], q.positions[u].amount[t])
                           >= Mul(e.price, q.params.positionMinAmount)
                      /\ RealCollateral(q, c, q.positions[u].amount[c], q.positions[u].amount[t]) >= 0
                      /\ WithinLimit(q, e, c, got - Fee(q))
                      /\ q.collateralCoeff[c] # 0
           min == MulDiv(limit, amount, Q96)
           Draft(q, v) == Borrowed(v, u, t, c, Debt(q), Coll(q))
<1>1. \E q \in Sell(p, e, u, t, limit) :
        /\ fits(q)
        /\ \E r \in SwapExactInput(q, e, t, amount, min) : \E v \in ChargeFee(r, Fee(q)) :
             w \in Enter(Draft(q, v), e, u, SideOwing(t))
  <2>1. Short(p, e, u, amount, limit) =
          UNION {Require(fits(q), UNION {UNION {Enter(Draft(q, v), e, u, "Short") :
                                                 v \in ChargeFee(r, Fee(q))} :
                                          r \in SwapExactInput(q, e, t, amount, min)}) :
                   q \in Sell(p, e, u, t, limit)}
    BY DEF Short, Borrowed
  <2>2. w \in Short(p, e, u, amount, limit) /\ "Short" = SideOwing(t)
    BY DEF SideOwing
  <2> HIDE DEF t, c, Fee, fits, Draft, min
  <2>3. QED
    BY <2>1, <2>2 DEF Require
<1>2. PICK q \in Sell(p, e, u, t, limit) :
        /\ fits(q)
        /\ \E r \in SwapExactInput(q, e, t, amount, min) : \E v \in ChargeFee(r, Fee(q)) :
             w \in Enter(Draft(q, v), e, u, SideOwing(t))
  BY <1>1
<1>3. q.collateralCoeff[c] # 0
  BY <1>2
<1>4. t \in Tokens /\ c = Other(t)
  BY DEF Tokens, Other
<1> HIDE DEF fits, min, Draft, Fee, t, c
<1>5. PICK r \in SwapExactInput(q, e, t, amount, min) : \E v \in ChargeFee(r, Fee(q)) :
         w \in Enter(Draft(q, v), e, u, SideOwing(t))
  BY <1>2
<1>6. PICK v \in ChargeFee(r, Fee(q)) : w \in Enter(Draft(q, v), e, u, SideOwing(t))
  BY <1>5
<1>7. Typed(q)
  BY <1>4, SellTrades, DealsTrade
<1>8. Paid(q, r)
  BY <1>4, <1>7, SwapsPay
<1>9. got \in Nat
  BY <1>4, SwapsDefined
<1> HIDE DEF got
<1>10. Fee(q) \in Nat /\ Fee(q) <= got
  BY <1>7, <1>9, SwapFeeIs DEF Typed, Storage, Fee
<1> DEFINE gain == got - Fee(q)
<1>11. gain \in Nat
  BY <1>9, <1>10
<1> HIDE DEF gain
<1>12. Debt(q) \in Nat /\ RecipMul(q.collateralCoeff[c], gain + Mul(q.delevCoeff[c], Debt(q))) \in Nat
  BY <1>3, <1>4, <1>7, <1>11, LoanAmounts
<1>13. Coll(q) \in Nat
  BY <1>12 DEF gain
<1> HIDE DEF Debt, Coll
<1>14. w \in Enter(Borrowed(v, u, t, c, Debt(q), Coll(q)), e, u, SideOwing(t))
  BY <1>6 DEF Draft
<1>15. QED
  BY <1>4, <1>8, <1>10, <1>12, <1>13, <1>14, SaleThenLoan

\* long books what it does, and checks the leverage.
LEMMA LongTrades ==
  ASSUME NEW p, Typed(p), NEW e, Priced(e), NEW u \in Accounts, Good(p, e, p.positions[u]),
         NEW amount \in Nat, NEW limit \in Nat, NEW w \in Long(p, e, u, amount, limit)
  PROVE  Trades(p, w, u) /\ Good(w, e, w.positions[u])
<1> DEFINE t == "quote"
           c == "base"
           cost == InputFor(e, t, amount)
           Fee(q) == SwapFee(q, cost)
           Debt(q) == RecipMul(q.debtCoeff[t], cost + Fee(q))
           Coll(q) == RecipMul(q.collateralCoeff[c], amount + Mul(q.delevCoeff[c], Debt(q)))
           fits(q) == /\ amount # 0
                      /\ RealCollateral(q, c, q.positions[u].amount[c], q.positions[u].amount[t])
                           >= q.params.positionMinAmount
                      /\ q.collateralCoeff[c] # 0
           max == MulDiv(limit, amount, Q96)
           Draft(q, v) == Borrowed(v, u, t, c, Debt(q), Coll(q))
<1>1. \E q \in Sell(p, e, u, t, limit) :
        /\ fits(q)
        /\ \E r \in SwapExactOutput(q, e, t, max, amount) : \E v \in ChargeFee(r, Fee(q)) :
             w \in Enter(Draft(q, v), e, u, SideOwing(t))
  <2>1. Long(p, e, u, amount, limit) =
          Require(WithinLimit(p, e, c, amount),
          UNION {Require(fits(q), UNION {UNION {Enter(Draft(q, v), e, u, "Long") :
                                                 v \in ChargeFee(r, Fee(q))} :
                                          r \in SwapExactOutput(q, e, t, max, amount)}) :
                   q \in Sell(p, e, u, t, limit)})
    BY DEF Long, Borrowed
  <2>2. w \in Long(p, e, u, amount, limit) /\ "Long" = SideOwing(t)
    BY DEF SideOwing
  <2> HIDE DEF t, c, Fee, fits, Draft, max
  <2>3. QED
    BY <2>1, <2>2 DEF Require
<1>2. PICK q \in Sell(p, e, u, t, limit) :
        /\ fits(q)
        /\ \E r \in SwapExactOutput(q, e, t, max, amount) : \E v \in ChargeFee(r, Fee(q)) :
             w \in Enter(Draft(q, v), e, u, SideOwing(t))
  BY <1>1
<1>3. q.collateralCoeff[c] # 0
  BY <1>2
<1>4. t \in Tokens /\ c = Other(t)
  BY DEF Tokens, Other
<1> HIDE DEF fits, max, Draft, Fee, t, c
<1>5. PICK r \in SwapExactOutput(q, e, t, max, amount) : \E v \in ChargeFee(r, Fee(q)) :
         w \in Enter(Draft(q, v), e, u, SideOwing(t))
  BY <1>2
<1>6. PICK v \in ChargeFee(r, Fee(q)) : w \in Enter(Draft(q, v), e, u, SideOwing(t))
  BY <1>5
<1>7. Typed(q)
  BY <1>4, SellTrades, DealsTrade
<1>8. Paid(q, r)
  BY <1>4, <1>7, SwapsPay
<1>9. cost \in Nat
  BY <1>4, SwapsDefined
<1> HIDE DEF cost
<1>10. Fee(q) \in Nat
  BY <1>7, <1>9, SwapFeeIs DEF Typed, Storage, Fee
<1> DEFINE paid == cost + Fee(q)
<1>11. paid \in Nat
  BY <1>9, <1>10
<1> HIDE DEF paid
<1>12. LET x == RecipMul(q.debtCoeff[t], paid)
       IN  x \in Nat /\ RecipMul(q.collateralCoeff[c], amount + Mul(q.delevCoeff[c], x)) \in Nat
  BY <1>3, <1>4, <1>7, <1>11, LoanAmounts
<1>13. Debt(q) \in Nat /\ Coll(q) \in Nat
  BY <1>12 DEF paid
<1> HIDE DEF Debt, Coll
<1>14. w \in Enter(Borrowed(v, u, t, c, Debt(q), Coll(q)), e, u, SideOwing(t))
  BY <1>6 DEF Draft
<1>15. QED
  BY <1>4, <1>8, <1>10, <1>13, <1>14, SaleThenLoan

----------------------------------------------------------------------------
\* Calls that are made of several steps, and the emergency

\* What a call does to everybody but its caller, who, unless it is the owner of the technical
\* position, is left with a leverage that is allowed.
Performed(p, e, q, u) ==
  /\ Passes(p, e, q, u, {})
  /\ u # TechPositionOwner /\ Good(p, e, p.positions[u]) => Good(q, e, q.positions[u])

\* Two parts of a call are one.
LEMMA PerformedTwice ==
  ASSUME NEW p, Typed(p), NEW e, NEW q, NEW r, NEW u, Performed(p, e, q, u), Performed(q, e, r, u)
  PROVE  Performed(p, e, r, u)
<1>1. Passes(p, e, r, u, {} \cup {})
  BY PassesTwice DEF Performed
<1>2. {} \cup {} = {}
  OBVIOUS
<1>3. QED
  BY <1>1, <1>2 DEF Performed

\* syncBaseBalance and syncQuoteBalance: the technical position takes what the books miss.
LEMMA SyncPerforms ==
  ASSUME NEW p, Typed(p), NEW e, NEW t \in Tokens, NEW w \in SyncBalance(p, t), NEW u
  PROVE  Passes(p, e, w, u, {}) /\ (u \in Accounts => Performed(p, e, w, u))
<1> DEFINE o == TechPositionOwner
           surplus == (PoolDebt(p, t) + p.balance[t]) - PoolCollateral(p, t)
           delta == IF surplus > 0 THEN RecipMul(p.collateralCoeff[t], surplus)
                                   ELSE -RecipMul(p.collateralCoeff[t], -surplus)
           q == [p EXCEPT !.positions[o].amount[t] = @ + delta, !.discountedCollateral[t] = @ + delta]
           a == p.positions[o].amount[t] + delta
           b == p.discountedCollateral[t] + delta
<1>1. p.collateralCoeff[t] # 0 /\ w \in Unsigned(q)
  <2>1. SyncBalance(p, t) = Require(PoolCollateral(p, t) >= 0 /\ p.collateralCoeff[t] # 0, Unsigned(q))
    BY DEF SyncBalance
  <2>2. w \in SyncBalance(p, t)
    OBVIOUS
  <2> HIDE DEF q
  <2>3. QED
    BY <2>1, <2>2 DEF Require
<1>2. /\ o \in Accounts /\ p.collateralCoeff[t] \in Nat \ {0} /\ p.balance[t] \in Nat
      /\ p.positions[o].amount[t] \in Nat /\ p.discountedCollateral[t] \in Nat
  <2>1. o \in Accounts
    BY PoolAssumption
  <2>2. p.positions[o] \in Holding(Nat)
    BY <2>1 DEF Typed, Storage
  <2>3. p.collateralCoeff[t] \in Nat /\ p.balance[t] \in Nat /\ p.discountedCollateral[t] \in Nat
    BY DEF Typed, Storage
  <2>4. QED
    BY <1>1, <2>1, <2>2, <2>3 DEF Holding
<1>3. surplus \in Int
  <2>1. PoolDebt(p, t) \in Nat /\ PoolCollateral(p, t) \in Int
    BY Reals
  <2>2. QED
    BY <1>2, <2>1
<1> HIDE DEF surplus
<1>4. delta \in Int
  <2>1. -surplus \in Int
    BY <1>3
  <2>2. RecipMul(p.collateralCoeff[t], surplus) \in Int /\ RecipMul(p.collateralCoeff[t], -surplus) \in Int
    BY <1>2, <1>3, <2>1, Whole
  <2>3. QED
    BY <2>2
<1> HIDE DEF delta
<1>5. q = SetCollateral(SetAmount(p, o, t, a), t, b)
  BY DEF SetCollateral, SetAmount
<1>6. a \in Int /\ b \in Int /\ b - p.discountedCollateral[t] = a - p.positions[o].amount[t]
  BY <1>2, <1>4
<1> HIDE DEF a, b, q
<1>7. Wrote(p, q, o, p.positions[o].type, Put(p.positions[o].amount, t, a),
            p.discountedDebt, Put(p.discountedCollateral, t, b))
  <2> DEFINE r == SetAmount(p, o, t, a)
  <2>1. Wrote(p, r, o, p.positions[o].type, Put(p.positions[o].amount, t, a),
              p.discountedDebt, p.discountedCollateral)
    BY <1>2, <1>6, TypedIsLoose, NothingWritten, AmountWritten
  <2>2. q = SetCollateral(r, t, b)
    BY <1>5
  <2> HIDE DEF r
  <2>3. QED
    BY <1>2, <1>6, <2>1, <2>2, CollateralWritten
<1>8. TechLends(p) => Paired(p, q, o)
  <2>1. TechLends(p) => p.positions[o].type # SideOwing(t)
    BY DEF TechLends, SideOwing
  <2>2. QED
    BY <1>2, <1>5, <1>6, <2>1, TypedIsLoose, CreditPairs
<1>9. w = q /\ Typed(w) /\ Loose(w)
  BY <1>1, <1>7, UnsignedTypes, TypedIsLoose DEF Wrote, Edits
<1>10. /\ w.mode = p.mode /\ w.lastReinit = p.lastReinit /\ w.params = p.params
       /\ w.collateralCoeff = p.collateralCoeff /\ w.delevCoeff = p.delevCoeff
       /\ w.debtCoeff = p.debtCoeff
       /\ w.positions[o].type = p.positions[o].type
       /\ \A x \in Accounts \ {o} : w.positions[x] = p.positions[x]
  BY <1>7, <1>9 DEF Wrote, Edits, Agree, Fields
<1>11. Booking(p) => Booking(w)
  BY <1>2, <1>8, <1>9, <1>10, TypedIsLoose, PairedAccounts DEF Booking, TechLends
<1>12. \A k \in Tokens : w.collateralCoeff[k] >= p.collateralCoeff[k]
  <2>1. p.collateralCoeff \in [Tokens -> Nat]
    BY DEF Typed, Storage
  <2>2. QED
    BY <1>10, <2>1
<1>13. Passes(p, e, w, u, {})
  BY <1>9, <1>10, <1>11, <1>12 DEF Passes
<1>14. ASSUME u \in Accounts, u # o
       PROVE  Good(p, e, p.positions[u]) => Good(w, e, w.positions[u])
  BY <1>10, <1>14, GoodIs
<1>15. QED
  BY <1>13, <1>14 DEF Performed

\* Both balances.
LEMMA SyncsPerform ==
  ASSUME NEW p, Typed(p), NEW e, NEW w \in SyncBalances(p), NEW u
  PROVE  Passes(p, e, w, u, {}) /\ (u \in Accounts => Performed(p, e, w, u))
<1>1. PICK q \in SyncBalance(p, "base") : w \in SyncBalance(q, "quote")
  BY DEF SyncBalances
<1>2. Passes(p, e, q, u, {}) /\ (u \in Accounts => Performed(p, e, q, u))
  BY SyncPerforms DEF Tokens
<1>3. Typed(q)
  BY <1>2 DEF Passes
<1>4. Passes(q, e, w, u, {}) /\ (u \in Accounts => Performed(q, e, w, u))
  BY <1>1, <1>3, SyncPerforms DEF Tokens
<1>5. Passes(p, e, w, u, {} \cup {}) /\ {} \cup {} = {}
  BY <1>2, <1>4, PassesTwice
<1>6. u \in Accounts => Performed(p, e, w, u)
  BY <1>2, <1>4, PerformedTwice
<1>7. QED
  BY <1>5, <1>6

\* Trading of u with the pool is one such thing.
LEMMA TradesPerform ==
  ASSUME NEW p, Typed(p), NEW e, NEW u \in Accounts, NEW q, Trades(p, q, u),
         Good(p, e, p.positions[u]) => Good(q, e, q.positions[u])
  PROVE  Performed(p, e, q, u)
BY TradesPasses DEF Performed

\* What the arguments of a call are.
Asks(c) == c.call \in CallNames /\ c.amount1 \in Nat /\ c.amount2 \in Int /\ c.limit \in Nat

\* Every call, from a position whose leverage is allowed.
LEMMA CallKeeps ==
  ASSUME NEW p, Typed(p), NEW e, Priced(e), NEW u \in Accounts, Good(p, e, p.positions[u]),
         NEW c, Asks(c), NEW w \in Call(p, e, u, c)
  PROVE  Performed(p, e, w, u)
<1> DEFINE size == IF c.amount2 > 0 THEN c.amount2 ELSE -c.amount2
           Leveraged(q) ==
             IF c.amount2 = 0 THEN {q}
             ELSE IF (c.amount2 > 0) = (c.call = "DepositBase")
                  THEN Long(q, e, u, size, c.limit)
                  ELSE Short(q, e, u, size, c.limit)
           t == IF c.call \in {"DepositBase", "WithdrawBase"} THEN "base" ELSE "quote"
<1>1. t \in Tokens /\ size \in Nat /\ c.amount1 \in Nat /\ c.limit \in Nat /\ c.call \in CallNames
  BY DEF Asks, Tokens
<1>2. CASE c.call \in {"DepositBase", "DepositQuote"}
  <2>1. w \in UNION {Leveraged(q) : q \in Deposit(p, e, u, t, c.amount1)}
    BY <1>2 DEF Call
  <2> HIDE DEF t, size
  <2>2. PICK q \in Deposit(p, e, u, t, c.amount1) : w \in Leveraged(q)
    BY <2>1
  <2>3. Trades(p, q, u) /\ Typed(q) /\ Good(q, e, q.positions[u])
    BY <1>1, DepositTrades, DealsTrade
  <2>4. \/ w = q
        \/ w \in Long(q, e, u, size, c.limit)
        \/ w \in Short(q, e, u, size, c.limit)
    BY <2>2
  <2>5. w = q \/ (Trades(q, w, u) /\ Good(w, e, w.positions[u]))
    BY <1>1, <2>3, <2>4, LongTrades, ShortTrades
  <2>6. Trades(p, w, u) /\ Good(w, e, w.positions[u])
    BY <2>3, <2>5, TradesTwice
  <2>7. QED
    BY <2>6, TradesPerform
<1>3. CASE c.call \in {"WithdrawBase", "WithdrawQuote"}
  <2>1. w \in Withdraw(p, e, u, t, c.amount1)
    BY <1>3 DEF Call
  <2> HIDE DEF t
  <2>2. QED
    BY <1>1, <2>1, WithdrawTrades, TradesPerform
<1> HIDE DEF t, size
<1>4. CASE c.call = "Short"
  <2>1. w \in Short(p, e, u, c.amount1, c.limit)
    BY <1>4 DEF Call
  <2>2. QED
    BY <1>1, <2>1, ShortTrades, TradesPerform
<1>5. CASE c.call = "Long"
  <2>1. w \in Long(p, e, u, c.amount1, c.limit)
    BY <1>5 DEF Call
  <2>2. QED
    BY <1>1, <2>1, LongTrades, TradesPerform
<1>6. CASE c.call = "ClosePosition"
  <2>1. w \in ClosePosition(p, e, u, c.limit)
    BY <1>6 DEF Call
  <2>2. QED
    BY <1>1, <2>1, CloseTrades, TradesPerform
<1>7. CASE c.call = "Reinit"
  <2>1. w \in SyncBalances(p) \/ w = p
    BY <1>7 DEF Call
  <2>2. Performed(p, e, p, u)
    BY SamePasses DEF Performed
  <2>3. QED
    BY <2>1, <2>2, SyncsPerform
<1>8. QED
  BY <1>1, <1>2, <1>3, <1>4, <1>5, <1>6, <1>7 DEF CallNames, CallTypes

\* updateHeap and the system leverages, at the end of every transaction.
LEMMA HeapThenLeverages ==
  ASSUME NEW p, Typed(p), NEW e, Priced(e), NEW u \in Accounts, NEW q, q \in UpdateHeap(p, u),
         NEW w \in UpdateSystemLeverages(q, e)
  PROVE  Performed(p, e, w, u) /\ w.positions = p.positions
<1>1. Typed(q) /\ Agree(p, q, {"heap"})
  BY UpdateHeaps
<1>2. Typed(w) /\ Agree(q, w, {"systemLeverage"})
  BY <1>1, LeveragesKeep
<1>3. Agree(p, w, {"heap", "systemLeverage", "balance", "params"})
  BY <1>1, <1>2 DEF Agree
<1>4. /\ w.positions = p.positions /\ w.params = p.params
      /\ w.collateralCoeff = p.collateralCoeff /\ w.delevCoeff = p.delevCoeff
      /\ w.debtCoeff = p.debtCoeff
  BY <1>1, <1>2 DEF Agree, Fields
<1>5. QED
  BY <1>2, <1>3, <1>4, AgreePasses, GoodIs DEF Performed

\* What the emergency counts for a position is an integer.
LEMMA NetIsInt ==
  ASSUME NEW p, Typed(p), NEW u \in Accounts
  PROVE  EmergencyNet(p, p.positions[u]) \in Int
<1> DEFINE s == p.positions[u]
<1>1. /\ s.amount["base"] \in Nat /\ s.amount["quote"] \in Nat
      /\ p.initialPrice \in Nat \ {0} /\ p.debtCoeff["base"] \in Nat
      /\ "base" \in Tokens /\ "quote" \in Tokens
  <2>1. s \in Holding(Nat) /\ p.initialPrice \in Nat \ {0} /\ p.debtCoeff["base"] \in DebtCoeffs
    BY DEF Typed, Storage, Tokens
  <2>2. QED
    BY <2>1 DEF Holding, Tokens, DebtCoeffs
<1>2. /\ RealCollateral(p, "base", s.amount["base"], s.amount["quote"]) \in Int
      /\ RealCollateral(p, "quote", s.amount["quote"], s.amount["base"]) \in Int
      /\ RealDebt(p, "quote", s.amount["quote"]) \in Nat
  BY <1>1, Reals
<1> HIDE DEF s
<1>3. RecipMul(p.initialPrice, RealDebt(p, "quote", s.amount["quote"])) \in Nat
  BY <1>1, <1>2, Naturals
<1>4. Mul(Mul(p.debtCoeff["base"], p.initialPrice), s.amount["base"]) \in Nat
  <2>1. Mul(p.debtCoeff["base"], p.initialPrice) \in Nat
    BY <1>1, Naturals
  <2>2. QED
    BY <1>1, <2>1, Naturals
<1>5. EmergencyNet(p, s) \in Int
  BY <1>2, <1>3, <1>4 DEF EmergencyNet
<1>6. QED
  BY <1>5 DEF s

\* emergencyWithdraw pays a position out.
LEMMA PayoutKeeps ==
  ASSUME NEW p, Typed(p), NEW u \in Accounts, NEW w \in EmergencyWithdraw(p, u)
  PROVE  /\ p.mode # "Regular" /\ Typed(w)
         /\ w.mode = p.mode /\ w.lastReinit = p.lastReinit
         /\ w.collateralCoeff = p.collateralCoeff
<1> DEFINE s == p.positions[u]
           t == IF p.mode = "ShortEmergency" THEN "base" ELSE "quote"
           net == EmergencyNet(p, s)
           v == [p EXCEPT !.positions[u] = NoPosition]
           out == Mul(p.emergencyWithdrawCoeff, net)
           may == /\ p.mode # "Regular"
                  /\ s.type \notin {"Uninitialized", SideOwing(t)}
                  /\ net >= 0
<1>1. p.mode # "Regular" /\ net >= 0 /\ w \in TransferOut(v, t, out)
  <2>1. EmergencyWithdraw(p, u) = Require(may, TransferOut(v, t, out))
    BY DEF EmergencyWithdraw
  <2>2. w \in EmergencyWithdraw(p, u)
    OBVIOUS
  <2> HIDE DEF v, out, net, s, t
  <2>3. QED
    BY <2>1, <2>2 DEF Require
<1>2. net \in Nat
  <2>1. net \in Int
    BY NetIsInt
  <2> HIDE DEF net
  <2>2. QED
    BY <1>1, <2>1
<1>3. out \in Nat
  <2> HIDE DEF net
  <2>1. QED
    BY <1>2, Naturals DEF Typed, Storage
<1>4. t \in Tokens
  BY DEF Tokens
<1>5. v = SetPosition(p, u, NoPosition)
  BY DEF SetPosition
<1> HIDE DEF v, out, net, s, t
<1>6. Typed(v) /\ Agree(p, v, {"positions"})
  BY <1>5, NoPositionHolds, PositionSet DEF Typed
<1>7. Paid(v, w)
  BY <1>1, <1>3, <1>4, <1>6, TransfersPay DEF Typed, Storage
<1>8. Typed(w)
  BY <1>6, <1>7, PaidStorage
<1>9. Agree(p, w, {"positions", "balance"})
  BY <1>6, <1>7 DEF Agree, Paid
<1>10. QED
  BY <1>1, <1>8, <1>9 DEF Agree, Fields

\* An emergency that begins.
Ended(q, mode, price, coeff) ==
  [q EXCEPT !.mode = mode, !.initialPrice = price, !.emergencyWithdrawCoeff = coeff]

\* The assignments of setEmergencyMode.
LEMMA EndingTypes ==
  ASSUME NEW q, Typed(q), NEW mode \in Modes, NEW price \in Nat \ {0}, NEW coeff \in Nat,
         NEW w, w = Ended(q, mode, price, coeff)
  PROVE  Typed(w) /\ Agree(q, w, {"mode", "initialPrice", "emergencyWithdrawCoeff"}) /\ w.mode = mode
BY DEF Typed, Storage, Agree, Fields, Ended

\* setEmergencyMode ends the regular mode, and touches no position.
LEMMA EmergencyTypes ==
  ASSUME NEW p, Typed(p), NEW e, Priced(e), NEW t \in Tokens,
         NEW x1 \in Nat, NEW x2 \in Nat, NEW x3 \in Nat, NEW x4 \in Nat,
         NEW w \in SetEmergencyMode(p, e, t, x1, x2, x3, x4)
  PROVE  /\ Typed(w) /\ w.mode # "Regular" /\ w.lastReinit = p.lastReinit
         /\ w.collateralCoeff = p.collateralCoeff
<1> DEFINE surplus == x3 - x4
           sold == IF surplus > 0 THEN SwapExactInput(p, e, Other(t), surplus, 0) ELSE {p}
           mode == IF t = "base" THEN "ShortEmergency" ELSE "LongEmergency"
           spare == IF x1 >= x2 THEN x1 - x2 ELSE 0
           got == IF surplus > 0 THEN OutputOf(e, Other(t), surplus) ELSE 0
           balance == spare + got
           net == IF t = "base" THEN Mul(e.price, x1) - x4 ELSE x1 - Mul(e.price, x4)
           coeff == FromRatio(InQuote(e.price, t, balance), net)
<1>1. net > 0 /\ \E q \in sold : w = Ended(q, mode, e.price, coeff)
  <2>1. SetEmergencyMode(p, e, t, x1, x2, x3, x4) =
          Require(net > 0, {Ended(q, mode, e.price, coeff) : q \in sold})
    BY DEF SetEmergencyMode, Ended
  <2>2. w \in SetEmergencyMode(p, e, t, x1, x2, x3, x4)
    OBVIOUS
  <2> HIDE DEF net, mode, coeff, sold
  <2>3. QED
    BY <2>1, <2>2 DEF Require
<1>2. e.price \in Nat \ {0} /\ mode \in Modes /\ mode # "Regular" /\ Other(t) \in Tokens
  BY OthersAre DEF Priced, Modes
<1>3. surplus \in Int /\ spare \in Nat
  OBVIOUS
<1>4. \A q \in sold : Paid(p, q)
  <2>1. CASE surplus > 0
    <3>1. surplus \in Nat
      BY <1>3, <2>1
    <3>2. sold = SwapExactInput(p, e, Other(t), surplus, 0)
      BY <2>1
    <3> HIDE DEF surplus, sold
    <3>3. QED
      BY <1>2, <3>1, <3>2, SwapsPay
  <2>2. CASE ~(surplus > 0)
    <3>1. sold = {p}
      BY <2>2
    <3>2. Paid(p, p)
      BY DEF Paid, Agree, Typed, Storage
    <3> HIDE DEF surplus, sold
    <3>3. QED
      BY <3>1, <3>2
  <2>3. QED
    BY <2>1, <2>2
<1>5. got \in Nat
  <2>1. surplus > 0 => surplus \in Nat
    BY <1>3
  <2> HIDE DEF surplus
  <2>2. surplus > 0 => OutputOf(e, Other(t), surplus) \in Nat
    BY <1>2, <2>1, SwapsDefined
  <2>3. QED
    BY <2>2
<1>6. net \in Int
  <2>1. Mul(e.price, x1) \in Nat /\ Mul(e.price, x4) \in Nat
    BY <1>2, Naturals
  <2>2. QED
    BY <2>1
<1> HIDE DEF got, spare, net, sold, mode
<1>7. balance \in Nat
  BY <1>3, <1>5
<1> HIDE DEF balance
<1>8. coeff \in Nat
  <2>1. InQuote(e.price, t, balance) \in Nat
    BY <1>2, <1>7, Worth
  <2>2. net \in Nat \ {0}
    BY <1>1, <1>6
  <2>3. QED
    BY <2>1, <2>2, Naturals
<1> HIDE DEF coeff
<1>9. PICK q \in sold : w = Ended(q, mode, e.price, coeff)
  BY <1>1
<1>10. Typed(q) /\ Agree(p, q, {"balance"})
  BY <1>4, PaidStorage DEF Paid
<1>11. Typed(w) /\ Agree(q, w, {"mode", "initialPrice", "emergencyWithdrawCoeff"}) /\ w.mode = mode
  BY <1>2, <1>8, <1>9, <1>10, EndingTypes
<1>12. w.lastReinit = p.lastReinit /\ w.collateralCoeff = p.collateralCoeff
  BY <1>10, <1>11 DEF Agree, Fields
<1>13. QED
  BY <1>2, <1>11, <1>12

\* shutDown keeps the types, and the books unless the emergency begins.
LEMMA ShutDownKeeps ==
  ASSUME NEW p, Typed(p), NEW e, Priced(e), p.lastReinit <= e.now, NEW r \in ShutDown(p, e)
  PROVE  /\ Typed(r.pool) /\ r.pool.lastReinit \in {p.lastReinit, e.now}
         /\ r.called = {} => \A k \in Tokens : r.pool.collateralCoeff[k] >= p.collateralCoeff[k]
         /\ r.pool.mode = "Regular" /\ Booking(p) => Booking(r.pool)
<1> DEFINE debt(q) == [t \in Tokens |-> RealDebtUp(q, t, q.discountedDebt[t])]
           coll(q) == [t \in Tokens |-> PoolCollateral(q, t)]
           t(q) == IF Mul(e.price, debt(q)["base"]) > coll(q)["quote"] THEN "base" ELSE "quote"
           End(q, x) == IF x.called # {} THEN {x}
                        ELSE {[pool |-> v, called |-> {}] :
                                v \in SetEmergencyMode(x.pool, e, t(q),
                                                       coll(q)[t(q)], debt(q)[t(q)],
                                                       coll(q)[Other(t(q))],
                                                       debt(q)[Other(t(q))])}
           Ends(q) == UNION {End(q, x) : x \in ReinitRoot(q, e, SideOwing(Other(t(q))))}
           Decide(q) == Require(/\ coll(q)["base"] >= 0 /\ coll(q)["quote"] >= 0
                                /\ \/ Mul(e.price, debt(q)["base"]) > coll(q)["quote"]
                                   \/ debt(q)["quote"] > Mul(e.price, coll(q)["base"]),
                                Ends(q))
           o == NoAccount
<1>1. /\ p.mode = "Regular"
      /\ r \in UNION {UNION {Decide(q) : q \in SyncBalances(q0)} : q0 \in AccrueInterest(p, e)}
  BY Zenon DEF ShutDown, Require
<1>2. \A q : t(q) \in Tokens
  BY DEF Tokens
<1> HIDE DEF debt, coll, t, Ends, o
<1>3. PICK q0 \in AccrueInterest(p, e) : r \in UNION {Decide(q) : q \in SyncBalances(q0)}
  BY <1>1
<1>4. PICK q \in SyncBalances(q0) :
        r \in Ends(q) /\ coll(q)["base"] >= 0 /\ coll(q)["quote"] >= 0
  BY <1>3 DEF Require
<1>5. PICK x \in ReinitRoot(q, e, SideOwing(Other(t(q)))) : r \in End(q, x)
  BY <1>4 DEF Ends
<1>6. Passes(p, e, q0, o, {}) /\ Typed(q0)
  <2>1. Passes(p, e, q0, o, {})
    BY InterestPasses
  <2>2. QED
    BY <2>1 DEF Passes
<1>7. Passes(q0, e, q, o, {}) /\ Typed(q)
  BY <1>6, SyncsPerform DEF Passes
<1>8. Passes(q, e, x.pool, o, x.called)
  BY <1>7, RootPasses, SideOwingIs
<1>9. Passes(p, e, x.pool, o, x.called)
  <2>1. Passes(p, e, q, o, {} \cup {}) /\ {} \cup {} = {}
    BY <1>6, <1>7, PassesTwice
  <2>2. Passes(p, e, x.pool, o, {} \cup x.called) /\ {} \cup x.called = x.called
    BY <1>8, <2>1, PassesTwice
  <2>3. QED
    BY <2>2
<1>10. o # TechPositionOwner
  BY PoolAssumption DEF o
<1>11. CASE x.called # {}
  <2>1. r = x
    BY <1>5, <1>11
  <2>2. QED
    BY <1>9, <1>10, <1>11, <2>1 DEF Passes
<1>12. CASE x.called = {}
  <2>1. PICK v \in SetEmergencyMode(x.pool, e, t(q), coll(q)[t(q)], debt(q)[t(q)],
                                    coll(q)[Other(t(q))], debt(q)[Other(t(q))]) :
               r = [pool |-> v, called |-> {}]
    BY <1>5, <1>12
  <2>2. /\ t(q) \in Tokens /\ Other(t(q)) \in Tokens
        /\ \A k \in Tokens : coll(q)[k] \in Nat /\ debt(q)[k] \in Nat
    <3>1. \A k \in Tokens : coll(q)[k] \in Int /\ debt(q)[k] \in Nat
      <4>1. ASSUME NEW k \in Tokens
            PROVE  PoolCollateral(q, k) \in Int /\ RealDebtUp(q, k, q.discountedDebt[k]) \in Nat
        <5>1. q.discountedDebt[k] \in Nat
          BY <1>7 DEF Typed, Storage
        <5>2. QED
          BY <1>7, <5>1, Reals
      <4>2. QED
        BY <4>1 DEF coll, debt
    <3>2. QED
      BY <1>2, <1>4, <3>1, OthersAre DEF Tokens
  <2>3. /\ Typed(v) /\ v.mode # "Regular" /\ v.lastReinit = x.pool.lastReinit
        /\ v.collateralCoeff = x.pool.collateralCoeff
    <3>1. Typed(x.pool)
      BY <1>9 DEF Passes
    <3> DEFINE t1 == t(q)
               pool == x.pool
               x1 == coll(q)[t1]
               x2 == debt(q)[t1]
               x3 == coll(q)[Other(t1)]
               x4 == debt(q)[Other(t1)]
    <3>2. t1 \in Tokens /\ {x1, x2, x3, x4} \subseteq Nat
      BY <2>2
    <3>3. v \in SetEmergencyMode(pool, e, t1, x1, x2, x3, x4) /\ Typed(pool)
      BY <3>1
    <3> HIDE DEF t1, x1, x2, x3, x4, pool
    <3>4. /\ Typed(v) /\ v.mode # "Regular" /\ v.lastReinit = pool.lastReinit
          /\ v.collateralCoeff = pool.collateralCoeff
      BY <3>2, <3>3, EmergencyTypes
    <3>5. QED
      BY <3>4 DEF pool
  <2>4. r.pool = v /\ r.called = {}
    BY <2>1
  <2>5. QED
    BY <1>9, <1>12, <2>3, <2>4 DEF Passes
<1>13. QED
  BY <1>11, <1>12

----------------------------------------------------------------------------
\* The reception of a position

\* The storage of receivePosition: u holds taken, and the heap of side is h.
SetHeaps(p, side, h) == [p EXCEPT !.heap[side] = h]

\* A whole heap is written.
LEMMA HeapsSet ==
  ASSUME NEW p, Loose(p), NEW side \in Sides, NEW h \in [Accounts -> Keys],
         NEW q, q = SetHeaps(p, side, h)
  PROVE  Loose(q) /\ Agree(p, q, {"heap"})
<1>1. Agree(p, q, {"heap"})
  BY DEF Agree, Loose, Storage, Fields, SetHeaps
<1>2. q.heap = [p.heap EXCEPT ![side] = h]
  BY DEF Loose, Storage, Fields, SetHeaps
<1>3. q.heap \in [Sides -> [Accounts -> Keys]]
  BY <1>2 DEF Loose, Storage
<1>4. QED
  BY <1>1, <1>3 DEF Agree, Loose, Storage, Fields

\* A position given to u: everything else but a heap, a debt and two collaterals stays.
Given(p, q, u, taken, debt, collateral) ==
  /\ Loose(q)
  /\ Agree(p, q, {"positions", "heap", "discountedDebt", "discountedCollateral"})
  /\ q.positions[u] = taken
  /\ \A a \in Accounts \ {u} : q.positions[a] = p.positions[a]
  /\ q.discountedDebt = debt
  /\ q.discountedCollateral = collateral

\* What is edited after a position was handed over.
LEMMA EditsGive ==
  ASSUME NEW p, NEW r, NEW q, NEW u, NEW taken, NEW debt, NEW collateral, NEW debt2, NEW collateral2,
         Given(p, r, u, taken, debt, collateral), Edits(r, q, u), q.positions = r.positions,
         q.discountedDebt = debt2, q.discountedCollateral = collateral2
  PROVE  Given(p, q, u, taken, debt2, collateral2)
BY DEF Given, Edits, Agree

\* The assignments of receivePosition, all but the deletion of the other position.
Taking(p, u, side, taken, h, t, c, x, y, n) ==
  [p EXCEPT !.positions[u] = taken,
            !.heap[side] = h,
            !.discountedDebt[t] = @ - x,
            !.discountedCollateral[c] = @ + y,
            !.discountedCollateral[t] = @ + n]

\* What they leave alone.
LEMMA TakingGives ==
  ASSUME NEW p, Loose(p), NEW u \in Accounts, NEW side \in Sides, NEW taken \in Holding(Int),
         NEW h \in [Accounts -> Keys], NEW t \in Tokens, NEW c, c = Other(t),
         NEW x \in Int, NEW y \in Int, NEW n \in Int,
         NEW q, q = Taking(p, u, side, taken, h, t, c, x, y, n)
  PROVE  Given(p, q, u, taken, Put(p.discountedDebt, t, p.discountedDebt[t] - x),
               Put(Put(p.discountedCollateral, c, p.discountedCollateral[c] + y),
                   t, p.discountedCollateral[t] + n))
<1> DEFINE d == p.discountedDebt[t] - x
           f == p.discountedCollateral[c] + y
           g == p.discountedCollateral[t] + n
           r1 == SetPosition(p, u, taken)
           r2 == SetHeaps(r1, side, h)
           r3 == SetDebt(r2, t, d)
           r4 == SetCollateral(r3, c, f)
<1>1. q = SetCollateral(r4, t, g)
  <2>1. q = [p EXCEPT !.positions[u] = taken, !.heap[side] = h, !.discountedDebt[t] = d,
                      !.discountedCollateral[c] = f, !.discountedCollateral[t] = g]
    BY DEF Taking
  <2> HIDE DEF d, f, g
  <2>2. QED
    BY <2>1 DEF SetPosition, SetHeaps, SetDebt, SetCollateral
<1>2. d \in Int /\ f \in Int /\ g \in Int /\ c \in Tokens
  BY OthersAre DEF Loose, Storage
<1> HIDE DEF d, f, g, r1, r2, r3, r4
<1>3. Given(p, r1, u, taken, p.discountedDebt, p.discountedCollateral)
  <2>1. /\ Storage(r1, Int) /\ Agree(p, r1, {"positions"})
        /\ \A a \in Accounts \ {u} : r1.positions[a] = p.positions[a]
        /\ r1.positions[u] = taken
    BY PositionSet DEF r1, Loose
  <2>2. QED
    BY <2>1 DEF Given, Agree, Fields, Loose
<1>4. Given(p, r2, u, taken, p.discountedDebt, p.discountedCollateral)
  <2>1. Loose(r2) /\ Agree(r1, r2, {"heap"})
    BY <1>3, HeapsSet DEF r2, Given
  <2>2. /\ r2.positions = r1.positions /\ r2.discountedDebt = r1.discountedDebt
        /\ r2.discountedCollateral = r1.discountedCollateral
    BY <2>1 DEF Agree, Fields
  <2>3. Agree(p, r2, {"positions", "heap", "discountedDebt", "discountedCollateral"})
    BY <1>3, <2>1 DEF Given, Agree
  <2>4. QED
    BY <1>3, <2>1, <2>2, <2>3 DEF Given
<1>5. Given(p, r3, u, taken, Put(p.discountedDebt, t, d), p.discountedCollateral)
  <2>1. Loose(r2) /\ r2.discountedDebt = p.discountedDebt /\ r2.discountedCollateral = p.discountedCollateral
    BY <1>4 DEF Given
  <2>2. /\ Edits(r2, r3, u) /\ r3.positions = r2.positions
        /\ r3.discountedDebt = Put(p.discountedDebt, t, d)
        /\ r3.discountedCollateral = p.discountedCollateral
    BY <1>2, <2>1, DebtSet DEF r3, Put
  <2>3. QED
    BY <1>4, <2>2, EditsGive
<1> DEFINE debt == Put(p.discountedDebt, t, d)
           c1 == Put(p.discountedCollateral, c, f)
           c2 == Put(c1, t, g)
<1>6. Given(p, r4, u, taken, debt, c1)
  <2>1. Loose(r3) /\ r3.discountedDebt = debt /\ r3.discountedCollateral = p.discountedCollateral
    BY <1>5 DEF Given
  <2> HIDE DEF debt
  <2>2. /\ Edits(r3, r4, u) /\ r4.positions = r3.positions
        /\ r4.discountedDebt = debt /\ r4.discountedCollateral = c1
    BY <1>2, <2>1, CollateralSet DEF r4, Put
  <2>3. Given(p, r3, u, taken, debt, p.discountedCollateral)
    BY <1>5 DEF debt
  <2> HIDE DEF c1
  <2>4. QED
    BY <2>2, <2>3, EditsGive
<1>7. Given(p, q, u, taken, debt, c2)
  <2>1. Loose(r4) /\ r4.discountedDebt = debt /\ r4.discountedCollateral = c1
    BY <1>6 DEF Given
  <2> HIDE DEF debt, c1
  <2>2. /\ Edits(r4, q, u) /\ q.positions = r4.positions
        /\ q.discountedDebt = debt /\ q.discountedCollateral = c2
    BY <1>1, <1>2, <2>1, CollateralSet DEF Put
  <2>3. Given(p, r4, u, taken, debt, c1)
    BY <1>6
  <2> HIDE DEF c2
  <2>4. QED
    BY <2>2, <2>3, EditsGive
<1>8. QED
  BY <1>7 DEF d, f, g

\* What changes hands: the collateral of bad plus y, and its debt less x or, if that was
\* all of it, n of collateral in its place.
Bargain(p, u, bad, t, full, x, y, n, taken) ==
  /\ u \in Accounts /\ bad \in Accounts \ {u} /\ t \in Tokens
  /\ p.positions[u] = NoPosition /\ p.positions[bad].type = SideOwing(t)
  /\ x \in Int /\ y \in Int /\ n \in Int /\ taken \in Holding(Int)
  /\ taken.type = IF full THEN "Lend" ELSE SideOwing(t)
  /\ taken.amount[Other(t)] = p.positions[bad].amount[Other(t)] + y
  /\ taken.amount[t] = IF full THEN n ELSE p.positions[bad].amount[t] - x
  /\ full => x = p.positions[bad].amount[t]
  /\ ~full => n = 0

\* The books of a pool whose position of bad u has taken over: first that of bad goes, with
\* its amounts, then u enters with its own.
LEMMA BargainAccounts ==
  ASSUME NEW p, Typed(p), Accounted(p), NEW u, NEW bad, NEW t, NEW full, NEW x, NEW y, NEW n, NEW taken,
         Bargain(p, u, bad, t, full, x, y, n, taken), NEW c, c = Other(t),
         NEW f, Loose(f), f.positions[u] = taken, f.positions[bad] = NoPosition,
         \A a \in Accounts \ {u, bad} : f.positions[a] = p.positions[a],
         f.discountedDebt = Put(p.discountedDebt, t, p.discountedDebt[t] - x),
         f.discountedCollateral = Put(Put(p.discountedCollateral, c, p.discountedCollateral[c] + y),
                                      t, p.discountedCollateral[t] + n)
  PROVE  Accounted(f)
<1> DEFINE A == p.positions[bad].amount
           D == p.discountedDebt
           C == p.discountedCollateral
           f1 == C[c] - A[c]
           d1 == D[t] - A[t]
           m0 == [p EXCEPT !.discountedCollateral[c] = f1, !.discountedDebt[t] = d1]
           m == SetPosition(m0, bad, NoPosition)
<1>1. /\ c \in Tokens /\ c # t /\ \A k \in Tokens : k = t \/ k = c
      /\ t \in Tokens /\ u \in Accounts /\ bad \in Accounts /\ bad # u
  BY OthersAre DEF Bargain
<1>2. A \in [Tokens -> Int] /\ D \in [Tokens -> Int] /\ C \in [Tokens -> Int]
  <2>1. p.positions[bad] \in Holding(Nat)
    BY <1>1 DEF Typed, Storage
  <2>2. D \in [Tokens -> Nat] /\ C \in [Tokens -> Nat]
    BY DEF Typed, Storage
  <2>3. A \in [Tokens -> Nat]
    BY <2>1 DEF Holding
  <2> HIDE DEF A, C, D
  <2>4. QED
    BY <2>2, <2>3
<1>3. f1 \in Int /\ d1 \in Int
  <2> HIDE DEF A, C, D
  <2>1. QED
    BY <1>1, <1>2
<1> HIDE DEF f1, d1
<1>4. Wrote(p, m0, bad, p.positions[bad].type, A, Put(D, t, d1), Put(C, c, f1))
  BY <1>1, <1>3, MarginCallWrites
<1> HIDE DEF m0
<1>5. /\ Loose(m) /\ m.positions[bad] = NoPosition
      /\ \A a \in Accounts \ {bad} : m.positions[a] = p.positions[a]
      /\ m.discountedDebt = Put(D, t, d1) /\ m.discountedCollateral = Put(C, c, f1)
  <2>1. Loose(m0) /\ \A a \in Accounts \ {bad} : m0.positions[a] = p.positions[a]
    BY <1>4 DEF Wrote, Edits
  <2>2. NoPosition \in Holding(Int)
    BY NoPositionHolds
  <2>3. /\ Storage(m, Int) /\ Agree(m0, m, {"positions"})
        /\ \A a \in Accounts \ {bad} : m.positions[a] = m0.positions[a]
        /\ m.positions[bad] = NoPosition
    BY <1>1, <2>1, <2>2, PositionSet DEF Loose
  <2>4. m.discountedDebt = m0.discountedDebt /\ m.discountedCollateral = m0.discountedCollateral
    BY <2>3 DEF Agree, Fields
  <2> HIDE DEF m
  <2>5. QED
    BY <1>4, <2>1, <2>3, <2>4 DEF Wrote, Loose
<1> HIDE DEF m
<1>6. /\ m.discountedDebt[t] = D[t] - A[t] /\ m.discountedDebt[c] = D[c]
      /\ m.discountedCollateral[c] = C[c] - A[c] /\ m.discountedCollateral[t] = C[t]
  <2> HIDE DEF A, C, D
  <2>1. QED
    BY <1>1, <1>2, <1>5 DEF Put, f1, d1
<1>7. /\ f.discountedDebt[t] = D[t] - x /\ f.discountedDebt[c] = D[c]
      /\ f.discountedCollateral[c] = C[c] + y /\ f.discountedCollateral[t] = C[t] + n
  <2> DEFINE C1 == Put(C, c, C[c] + y)
  <2>1. C[c] + y \in Int
    BY <1>1, <1>2 DEF Bargain
  <2>2. f.discountedDebt = Put(D, t, D[t] - x) /\ f.discountedCollateral = Put(C1, t, C[t] + n)
    OBVIOUS
  <2> HIDE DEF A, C, D
  <2>3. C1 \in [Tokens -> Int] /\ C1[c] = C[c] + y /\ C1[t] = C[t]
    BY <1>1, <1>2, <2>1 DEF Put
  <2> HIDE DEF C1
  <2>4. QED
    BY <1>1, <1>2, <2>2, <2>3 DEF Put
<1>8. /\ NoPosition.type = "Uninitialized" /\ \A k \in Tokens : NoPosition.amount[k] = 0
      /\ SideOwing(t) # "Uninitialized" /\ SideOwing(c) # "Uninitialized" /\ SideOwing(t) # SideOwing(c)
      /\ SideOwing(t) # "Lend" /\ SideOwing(c) # "Lend"
  BY <1>1, NoPositionHolds DEF SideOwing, Tokens
<1>9. Paired(p, m, bad)
  <2>1. /\ Owed(m, bad, t) = 0 /\ Owed(m, bad, c) = 0
        /\ Owed(p, bad, t) = A[t] /\ Owed(p, bad, c) = 0
    BY <1>5, <1>8 DEF Owed, Bargain
  <2>2. m.positions[bad].amount[t] = 0 /\ m.positions[bad].amount[c] = 0
    BY <1>1, <1>5, <1>8
  <2> DEFINE at == A[t]
             ac == A[c]
             dt == D[t]
             dc == D[c]
             ct == C[t]
             cc == C[c]
  <2>3. at \in Int /\ ac \in Int /\ dt \in Int /\ dc \in Int /\ ct \in Int /\ cc \in Int
    BY <1>1, <1>2
  <2>4. /\ m.discountedDebt[t] = dt - at /\ m.discountedDebt[c] = dc
        /\ m.discountedCollateral[c] = cc - ac /\ m.discountedCollateral[t] = ct
        /\ Owed(p, bad, t) = at
        /\ p.discountedDebt[t] = dt /\ p.discountedDebt[c] = dc
        /\ p.discountedCollateral[c] = cc /\ p.discountedCollateral[t] = ct
        /\ p.positions[bad].amount[t] = at /\ p.positions[bad].amount[c] = ac
    BY <1>6, <2>1
  <2> HIDE DEF at, ac, dt, dc, ct, cc
  <2>5. /\ m.discountedDebt[t] + m.discountedCollateral[t] - m.positions[bad].amount[t]
             = p.discountedDebt[t] + p.discountedCollateral[t] - p.positions[bad].amount[t]
        /\ m.discountedDebt[t] - Owed(m, bad, t) <= p.discountedDebt[t] - Owed(p, bad, t)
    BY <2>1, <2>2, <2>3, <2>4
  <2>6. /\ m.discountedDebt[c] + m.discountedCollateral[c] - m.positions[bad].amount[c]
             = p.discountedDebt[c] + p.discountedCollateral[c] - p.positions[bad].amount[c]
        /\ m.discountedDebt[c] - Owed(m, bad, c) <= p.discountedDebt[c] - Owed(p, bad, c)
    BY <2>1, <2>2, <2>3, <2>4
  <2>7. QED
    BY <1>1, <2>5, <2>6 DEF Paired
<1>10. Paired(m, f, u)
  <2>1. /\ Owed(m, u, t) = 0 /\ Owed(m, u, c) = 0 /\ Owed(f, u, c) = 0
        /\ Owed(f, u, t) = IF full THEN 0 ELSE A[t] - x
    BY <1>1, <1>5, <1>8 DEF Owed, Bargain
  <2>2. /\ m.positions[u].amount[t] = 0 /\ m.positions[u].amount[c] = 0
        /\ f.positions[u].amount[c] = A[c] + y
        /\ f.positions[u].amount[t] = IF full THEN n ELSE A[t] - x
        /\ full => x = A[t]
        /\ ~full => n = 0
        /\ x \in Int /\ y \in Int /\ n \in Int
    BY <1>1, <1>5, <1>8 DEF Bargain
  <2> DEFINE at == A[t]
             ac == A[c]
             dt == D[t]
             dc == D[c]
             ct == C[t]
             cc == C[c]
  <2>3. at \in Int /\ ac \in Int /\ dt \in Int /\ dc \in Int /\ ct \in Int /\ cc \in Int
    BY <1>1, <1>2
  <2>4. /\ m.discountedDebt[t] = dt - at /\ m.discountedDebt[c] = dc
        /\ m.discountedCollateral[c] = cc - ac /\ m.discountedCollateral[t] = ct
        /\ f.discountedDebt[t] = dt - x /\ f.discountedDebt[c] = dc
        /\ f.discountedCollateral[c] = cc + y /\ f.discountedCollateral[t] = ct + n
        /\ Owed(f, u, t) = IF full THEN 0 ELSE at - x
        /\ f.positions[u].amount[c] = ac + y
        /\ f.positions[u].amount[t] = IF full THEN n ELSE at - x
        /\ full => x = at
    BY <1>6, <1>7, <2>1, <2>2
  <2> HIDE DEF at, ac, dt, dc, ct, cc
  <2>5. /\ f.discountedDebt[t] + f.discountedCollateral[t] - f.positions[u].amount[t]
             = m.discountedDebt[t] + m.discountedCollateral[t] - m.positions[u].amount[t]
        /\ f.discountedDebt[t] - Owed(f, u, t) <= m.discountedDebt[t] - Owed(m, u, t)
    <3>1. CASE full
      BY <2>1, <2>2, <2>3, <2>4, <3>1
    <3>2. CASE ~full
      BY <2>1, <2>2, <2>3, <2>4, <3>2
    <3>3. QED
      BY <3>1, <3>2
  <2>6. /\ f.discountedDebt[c] + f.discountedCollateral[c] - f.positions[u].amount[c]
             = m.discountedDebt[c] + m.discountedCollateral[c] - m.positions[u].amount[c]
        /\ f.discountedDebt[c] - Owed(f, u, c) <= m.discountedDebt[c] - Owed(m, u, c)
    BY <2>1, <2>2, <2>3, <2>4
  <2>7. QED
    BY <1>1, <2>5, <2>6 DEF Paired
<1>11. Accounted(m)
  BY <1>1, <1>5, <1>9, TypedIsLoose, PairedAccounts
<1>12. \A a \in Accounts \ {u} : f.positions[a] = m.positions[a]
  BY <1>5
<1>13. QED
  BY <1>1, <1>5, <1>10, <1>11, <1>12, PairedAccounts

\* receivePosition after interest, before the tokens of the caller arrive.
Received(p, e, u, bad, pay) ==
  LET s == p.positions[bad]
      t == DebtToken(s.type)
      c == Other(t)
      realDebt == RealDebt(p, t, s.amount[t])
      full == pay[t] >= realDebt
      disPaid == RecipMul(p.collateralCoeff[c], pay[c])
      disDebt == IF full THEN s.amount[t] ELSE RecipMul(p.debtCoeff[t], pay[t])
      disRest == IF full THEN RecipMul(p.collateralCoeff[t], pay[t] - realDebt) ELSE 0
      freed == RecipMul(p.collateralCoeff[c], Mul(p.delevCoeff[c], disDebt))
      taken == [type   |-> IF full THEN "Lend" ELSE s.type,
                inHeap |-> ~full,
                amount |-> [x \in Tokens |->
                              IF x = c THEN s.amount[c] + disPaid - freed
                              ELSE IF full THEN disRest ELSE s.amount[t] - disDebt]]
      heap == [p.heap[s.type] EXCEPT ![u] = IF full THEN NoKey ELSE p.heap[s.type][bad],
                                     ![bad] = NoKey]
      q == Taking(p, u, s.type, taken, heap, t, c, disDebt, disPaid - freed, disRest)
  IN  Require(/\ Liquidatable(p, e, s)
              /\ p.collateralCoeff[c] # 0
              /\ full => p.collateralCoeff[t] # 0
              /\ s.inHeap,
        UNION {UNION {RequireGoodLeverage([w EXCEPT !.positions[bad] = NoPosition], e, u) :
                        w \in UpdateSystemLeverages(v, e)} :
                 v \in UNION {UpdateHeap(r, u) : r \in Unsigned(q)}})

\* receivePosition takes the interest first and the tokens last; Received is what is in between.
LEMMA ReceptionIs ==
  ASSUME NEW p0, NEW e, NEW u, NEW bad, NEW pay, NEW w \in ReceivePosition(p0, e, u, bad, pay)
  PROVE  /\ p0.positions[u].type = "Uninitialized"
         /\ \E p \in AccrueInterest(p0, e) : \E q \in Received(p, e, u, bad, pay) :
              w = TransferIn(TransferIn(q, "base", pay["base"]), "quote", pay["quote"])
<1>1. /\ p0.mode = "Regular" /\ p0.positions[u].type = "Uninitialized"
      /\ w \in {TransferIn(TransferIn(q, "base", pay["base"]), "quote", pay["quote"]) :
                  q \in UNION {Received(p, e, u, bad, pay) : p \in AccrueInterest(p0, e)}}
  BY Zenon DEF ReceivePosition, Received, Taking, Require
<1>2. QED
  BY <1>1

\* A reception is booked, and the leverage of who received is checked.
LEMMA ReceivedKeeps ==
  ASSUME NEW p, Typed(p), NEW e, Priced(e), NEW u \in Accounts, NEW bad \in Accounts,
         p.positions[u].type = "Uninitialized",
         NEW pay, \A k \in Tokens : pay[k] \in Nat, NEW w \in Received(p, e, u, bad, pay)
  PROVE  /\ Typed(w)
         /\ w.mode = p.mode /\ w.lastReinit = p.lastReinit /\ w.collateralCoeff = p.collateralCoeff
         /\ u # TechPositionOwner /\ p.positions[u] = NoPosition /\ Booking(p) => Booking(w)
         /\ Good(w, e, w.positions[u])
<1> DEFINE s == p.positions[bad]
           side == s.type
           t == DebtToken(s.type)
           c == Other(t)
           realDebt == RealDebt(p, t, s.amount[t])
           full == pay[t] >= realDebt
           disPaid == RecipMul(p.collateralCoeff[c], pay[c])
           disDebt == IF full THEN s.amount[t] ELSE RecipMul(p.debtCoeff[t], pay[t])
           disRest == IF full THEN RecipMul(p.collateralCoeff[t], pay[t] - realDebt) ELSE 0
           freed == RecipMul(p.collateralCoeff[c], Mul(p.delevCoeff[c], disDebt))
           amounts == [x \in Tokens |->
                         IF x = c THEN s.amount[c] + disPaid - freed
                         ELSE IF full THEN disRest ELSE s.amount[t] - disDebt]
           taken == [type |-> IF full THEN "Lend" ELSE s.type, inHeap |-> ~full, amount |-> amounts]
           heap == [p.heap[s.type] EXCEPT ![u] = IF full THEN NoKey ELSE p.heap[s.type][bad],
                                          ![bad] = NoKey]
           y == disPaid - freed
           q == Taking(p, u, s.type, taken, heap, t, c, disDebt, y, disRest)
           Deletes(x) == [x EXCEPT !.positions[bad] = NoPosition]
           Taken == UNION {UNION {RequireGoodLeverage(Deletes(x), e, u) :
                                    x \in UpdateSystemLeverages(v, e)} :
                             v \in UNION {UpdateHeap(r, u) : r \in Unsigned(q)}}
           fits == /\ Liquidatable(p, e, s)
                   /\ p.collateralCoeff[c] # 0
                   /\ full => p.collateralCoeff[t] # 0
                   /\ s.inHeap
<1>1. fits /\ w \in Taken
  <2>1. Received(p, e, u, bad, pay) = Require(fits, Taken)
    BY DEF Received
  <2>2. w \in Received(p, e, u, bad, pay)
    OBVIOUS
  <2> HIDE DEF fits, Taken
  <2>3. QED
    BY <2>1, <2>2 DEF Require
<1>2. side \in Sides /\ p.collateralCoeff[c] # 0 /\ (full => p.collateralCoeff[t] # 0)
  <2> HIDE DEF t, c, realDebt, full, Taken
  <2>1. QED
    BY <1>1 DEF Liquidatable, HasBadLeverage
<1> HIDE DEF fits
<1>3. PICK v, r : /\ q \in Unsigned(q) /\ v \in UpdateHeap(q, u) /\ r \in UpdateSystemLeverages(v, e)
                  /\ w = Deletes(r) /\ Good(w, e, w.positions[u])
  <2> HIDE DEF q, Deletes
  <2>1. PICK v \in UNION {UpdateHeap(r, u) : r \in Unsigned(q)} :
          w \in UNION {RequireGoodLeverage(Deletes(x), e, u) : x \in UpdateSystemLeverages(v, e)}
    BY <1>1
  <2> HIDE DEF Taken
  <2>2. PICK x \in Unsigned(q) : v \in UpdateHeap(x, u)
    OBVIOUS
  <2>3. x = q
    BY UnsignedIs
  <2>4. PICK r \in UpdateSystemLeverages(v, e) : w \in RequireGoodLeverage(Deletes(r), e, u)
    BY <2>1
  <2>5. w = Deletes(r) /\ Good(w, e, w.positions[u])
    BY <2>4 DEF RequireGoodLeverage, Require, Good
  <2>6. QED
    BY <2>2, <2>3, <2>5
<1> HIDE DEF Taken
<1>4. /\ t \in Tokens /\ c \in Tokens /\ c # t /\ c = Other(t)
      /\ \A k \in Tokens : k = t \/ k = c
      /\ side = SideOwing(t) /\ bad # u
  <2>1. t \in Tokens /\ side = SideOwing(t)
    BY <1>2, SidesOwe
  <2>2. bad # u
    BY <1>2 DEF Sides
  <2> HIDE DEF t
  <2>3. QED
    BY <2>1, <2>2, OthersAre
<1>5. /\ s.amount[t] \in Nat /\ s.amount[c] \in Nat
      /\ p.collateralCoeff[c] \in Nat \ {0} /\ p.collateralCoeff[t] \in Nat /\ p.delevCoeff[c] \in Nat
      /\ p.debtCoeff[t] \in Nat \ {0} /\ p.heap[side] \in [Accounts -> Keys]
      /\ pay[t] \in Nat /\ pay[c] \in Nat
  <2> HIDE DEF t, c
  <2>1. s \in Holding(Nat) /\ p.debtCoeff[t] \in DebtCoeffs /\ Q48 \in Nat \ {0}
    BY <1>4, FixedPointAssumption DEF Typed, Storage
  <2>2. /\ p.collateralCoeff[c] \in Nat /\ p.collateralCoeff[t] \in Nat /\ p.delevCoeff[c] \in Nat
        /\ p.heap[side] \in [Accounts -> Keys]
    BY <1>2, <1>4 DEF Typed, Storage
  <2> HIDE DEF s, side
  <2>3. QED
    BY <1>2, <1>4, <2>1, <2>2 DEF Holding, DebtCoeffs
<1>6. realDebt \in Nat
  <2> HIDE DEF t, s
  <2>1. QED
    BY <1>4, <1>5, Reals
<1> HIDE DEF t, c, side, realDebt
<1>7. disPaid \in Nat /\ disDebt \in Nat /\ disRest \in Nat
  <2>1. disPaid \in Nat
    BY <1>5, Naturals
  <2>2. CASE full
    <3>1. disDebt = s.amount[t] /\ disRest = RecipMul(p.collateralCoeff[t], pay[t] - realDebt)
      BY <2>2
    <3>2. pay[t] - realDebt \in Nat
      BY <1>5, <1>6, <2>2
    <3>3. p.collateralCoeff[t] \in Nat \ {0}
      BY <1>2, <1>5, <2>2
    <3> HIDE DEF disDebt, disRest, s, full
    <3>4. QED
      BY <1>5, <2>1, <3>1, <3>2, <3>3, Naturals
  <2>3. CASE ~full
    <3>1. disDebt = RecipMul(p.debtCoeff[t], pay[t]) /\ disRest = 0
      BY <2>3
    <3> HIDE DEF disDebt, disRest, s, full
    <3>2. QED
      BY <1>5, <2>1, <3>1, Naturals
  <2>4. QED
    BY <2>2, <2>3
<1>8. (full => disDebt = s.amount[t]) /\ (~full => disRest = 0)
  OBVIOUS
<1> HIDE DEF disPaid, disDebt, disRest
<1>9. freed \in Nat
  <2>1. Mul(p.delevCoeff[c], disDebt) \in Nat
    BY <1>5, <1>7, Naturals
  <2>2. QED
    BY <1>5, <2>1, Naturals
<1> HIDE DEF freed
<1>10. y \in Int
  BY <1>7, <1>9
<1>11. /\ amounts \in [Tokens -> Int] /\ amounts[c] = s.amount[c] + y
       /\ amounts[t] = IF full THEN disRest ELSE s.amount[t] - disDebt
  <2>1. amounts = [x \in Tokens |-> IF x = c THEN s.amount[c] + y
                                    ELSE IF full THEN disRest ELSE s.amount[t] - disDebt]
    OBVIOUS
  <2> HIDE DEF amounts, y, s, full
  <2>2. QED
    BY <1>4, <1>5, <1>7, <1>10, <2>1
<1> HIDE DEF amounts, y
<1>12. /\ taken \in Holding(Int) /\ taken.amount = amounts
       /\ taken.type = IF full THEN "Lend" ELSE SideOwing(t)
  <2>1. s.type = SideOwing(t) /\ s.type \in Sides
    BY <1>2, <1>4 DEF side
  <2>2. full \in BOOLEAN
    OBVIOUS
  <2> HIDE DEF full, s
  <2>3. QED
    BY <1>11, <2>1, <2>2 DEF Holding, PositionTypes
<1> HIDE DEF taken
<1>13. heap \in [Accounts -> Keys]
  <2> DEFINE H == p.heap[side]
             k == IF full THEN NoKey ELSE H[bad]
  <2>1. H \in [Accounts -> Keys] /\ NoKey \in Keys
    BY <1>5 DEF Keys
  <2>2. heap = [[H EXCEPT ![u] = k] EXCEPT ![bad] = NoKey]
    BY DEF side
  <2> HIDE DEF full, heap, H
  <2>3. k \in Keys
    BY <2>1
  <2> HIDE DEF k
  <2>4. QED
    BY <2>1, <2>2, <2>3
<1> HIDE DEF heap
<1> DEFINE debt == Put(p.discountedDebt, t, p.discountedDebt[t] - disDebt)
           collateral == Put(Put(p.discountedCollateral, c, p.discountedCollateral[c] + y),
                             t, p.discountedCollateral[t] + disRest)
<1>14. Given(p, q, u, taken, debt, collateral)
  <2>1. q = Taking(p, u, side, taken, heap, t, c, disDebt, y, disRest)
    BY DEF side
  <2>2. Loose(p) /\ disDebt \in Int /\ disRest \in Int
    BY <1>7, TypedIsLoose
  <2> HIDE DEF q
  <2>3. QED
    BY <1>2, <1>4, <1>10, <1>12, <1>13, <2>1, <2>2, TakingGives
<1> HIDE DEF q, debt, collateral, full, s
<1>15. Typed(q)
  BY <1>3, <1>14, UnsignedTypes DEF Given
<1>16. Typed(v) /\ Agree(q, v, {"heap"})
  BY <1>3, <1>15, UpdateHeaps
<1>17. Typed(r) /\ Agree(v, r, {"systemLeverage"})
  BY <1>3, <1>16, LeveragesKeep
<1>18. /\ Typed(w) /\ Agree(r, w, {"positions"}) /\ w.positions[bad] = NoPosition
       /\ \A a \in Accounts \ {bad} : w.positions[a] = r.positions[a]
  <2>1. w = SetPosition(r, bad, NoPosition)
    BY <1>3 DEF SetPosition
  <2> HIDE DEF Deletes
  <2>2. QED
    BY <1>17, <2>1, NoPositionHolds, PositionSet DEF Typed
<1> HIDE DEF Deletes
<1>19. /\ w.mode = p.mode /\ w.lastReinit = p.lastReinit /\ w.collateralCoeff = p.collateralCoeff
       /\ w.discountedDebt = debt /\ w.discountedCollateral = collateral
       /\ r.positions = q.positions
  BY <1>14, <1>16, <1>17, <1>18 DEF Given, Agree, Fields
<1>20. w.positions[u] = taken /\ \A a \in Accounts \ {u, bad} : w.positions[a] = p.positions[a]
  BY <1>4, <1>14, <1>18, <1>19 DEF Given
<1>21. ASSUME u # TechPositionOwner, p.positions[u] = NoPosition, Booking(p)
       PROVE  Booking(w)
  <2>1. bad # TechPositionOwner
    BY <1>2, <1>21 DEF Booking, TechLends, Sides, side, s
  <2>2. TechLends(w)
    BY <1>20, <1>21, <2>1, PoolAssumption DEF Booking, TechLends
  <2>3. Bargain(p, u, bad, t, full, disDebt, y, disRest, taken)
    <3>1. p.positions[u] = NoPosition /\ p.positions[bad].type = SideOwing(t)
      BY <1>4, <1>21 DEF side, s
    <3>2. /\ taken.amount[c] = p.positions[bad].amount[c] + y
          /\ taken.amount[t] = IF full THEN disRest ELSE p.positions[bad].amount[t] - disDebt
          /\ full => disDebt = p.positions[bad].amount[t]
      BY <1>8, <1>11, <1>12 DEF s
    <3>3. QED
      BY <1>4, <1>7, <1>8, <1>10, <1>12, <3>1, <3>2 DEF Bargain
  <2>4. Accounted(w)
    BY <1>4, <1>18, <1>19, <1>20, <1>21, <2>3, TypedIsLoose, BargainAccounts DEF Booking, debt, collateral
  <2>5. QED
    BY <2>2, <2>4 DEF Booking
<1>22. QED
  BY <1>3, <1>18, <1>19, <1>21

\* receivePosition.
LEMMA ReceptionPerforms ==
  ASSUME NEW p0, Typed(p0), NEW e, Priced(e), p0.lastReinit <= e.now,
         NEW u \in Accounts, NEW bad \in Accounts,
         NEW by, by # TechPositionOwner => by = u /\ Blank(p0, u),
         NEW pay, \A k \in Tokens : pay[k] \in Nat, NEW w \in ReceivePosition(p0, e, u, bad, pay)
  PROVE  Passes(p0, e, w, by, {}) /\ Good(w, e, w.positions[u])
<1>1. p0.positions[u].type = "Uninitialized"
  BY ReceptionIs
<1>2. PICK p \in AccrueInterest(p0, e) : \E q \in Received(p, e, u, bad, pay) :
        w = TransferIn(TransferIn(q, "base", pay["base"]), "quote", pay["quote"])
  BY ReceptionIs
<1>3. PICK q \in Received(p, e, u, bad, pay) :
        w = TransferIn(TransferIn(q, "base", pay["base"]), "quote", pay["quote"])
  BY <1>2
<1>4. Accrued(p0, p) /\ Typed(p)
  BY InterestGrows DEF Accrued
<1>5. Passes(p0, e, p, by, {})
  BY InterestPasses
<1>6. /\ p.positions[u].type = "Uninitialized"
      /\ by # TechPositionOwner => by = u /\ p.positions[u] = NoPosition
  BY <1>1, <1>4 DEF Accrued, Blank
<1>7. /\ Typed(q)
      /\ q.mode = p.mode /\ q.lastReinit = p.lastReinit /\ q.collateralCoeff = p.collateralCoeff
      /\ by # TechPositionOwner /\ Booking(p) => Booking(q)
      /\ Good(q, e, q.positions[u])
  BY <1>4, <1>6, ReceivedKeeps
<1>8. Passes(p, e, q, by, {})
  <2>1. \A k \in Tokens : q.collateralCoeff[k] >= p.collateralCoeff[k]
    <3>1. p.collateralCoeff \in [Tokens -> Nat]
      BY <1>4 DEF Typed, Storage
    <3>2. QED
      BY <1>7, <3>1
  <2>2. QED
    BY <1>7, <2>1 DEF Passes
<1>9. Paid(q, w) /\ Typed(w)
  <2> DEFINE v == TransferIn(q, "base", pay["base"])
  <2>1. pay["base"] \in Nat /\ pay["quote"] \in Nat /\ "base" \in Tokens /\ "quote" \in Tokens
    BY DEF Tokens
  <2>2. Paid(q, v)
    BY <1>7, <2>1, TransfersPay DEF Typed, Storage
  <2>3. w = TransferIn(v, "quote", pay["quote"])
    BY <1>3
  <2> HIDE DEF v
  <2>4. Typed(v)
    BY <1>7, <2>2, PaidStorage
  <2>5. Paid(v, w)
    BY <2>1, <2>3, <2>4, TransfersPay DEF Typed, Storage
  <2>6. QED
    BY <1>7, <2>2, <2>5, PaidTwice, PaidStorage
<1>10. Passes(q, e, w, by, {})
  <2>1. Agree(q, w, {"heap", "systemLeverage", "balance", "params"})
    BY <1>9 DEF Paid, Agree
  <2>2. QED
    BY <1>7, <1>9, <2>1, AgreePasses
<1>11. Passes(p0, e, w, by, {})
  <2>1. {} \cup {} = {}
    OBVIOUS
  <2>2. Passes(p0, e, q, by, {})
    BY <1>4, <1>5, <1>8, <2>1, PassesTwice
  <2>3. QED
    BY <1>7, <1>10, <2>1, <2>2, PassesTwice
<1>12. Good(w, e, w.positions[u])
  BY <1>7, <1>9, PaidGood DEF Paid, Agree, Fields
<1>13. QED
  BY <1>11, <1>12

----------------------------------------------------------------------------
\* A transaction

\* What a transaction may be asked for.
Asked(c) ==
  /\ c.call \in CallTypes /\ c.amount1 \in Nat /\ c.amount2 \in Int /\ c.limit \in Nat
  /\ c.call = "ReceivePosition" => c.from \in Accounts

\* What a transaction of u does to the pool.
Executed(p, e, x, u) ==
  /\ Typed(x.pool)
  /\ x.pool.mode = p.mode /\ x.pool.lastReinit \in {p.lastReinit, e.now}
  /\ x.called = {} => \A t \in Tokens : x.pool.collateralCoeff[t] >= p.collateralCoeff[t]
  /\ p.mode = "Regular" /\ u # TechPositionOwner =>
       /\ Blank(p, u) /\ Booking(p) => Booking(x.pool)
       /\ x.done => Good(x.pool, e, x.pool.positions[u])

\* What a call's steps keep, the call keeps.
LEMMA PassesExecute ==
  ASSUME NEW p, NEW e, NEW u, NEW x, NEW by, Passes(p, e, x.pool, by, x.called),
         u # TechPositionOwner /\ Blank(p, u) => by = u,
         p.mode = "Regular" /\ u # TechPositionOwner /\ x.done => Good(x.pool, e, x.pool.positions[u])
  PROVE  Executed(p, e, x, u)
BY DEF Passes, Executed

\* The leverages of the pool are the last thing every transaction computes.
LEMMA LeveragesPass ==
  ASSUME NEW p, Typed(p), NEW e, Priced(e), NEW q \in UpdateSystemLeverages(p, e), NEW u
  PROVE  Passes(p, e, q, u, {})
<1>1. Typed(q) /\ Agree(p, q, {"systemLeverage"})
  BY LeveragesKeep
<1>2. Agree(p, q, {"heap", "systemLeverage", "balance", "params"})
  BY <1>1 DEF Agree
<1>3. QED
  BY <1>1, <1>2, AgreePasses

\* execute, after interest and margin calls: those called, and perhaps the call itself.
LEMMA CallExecutes ==
  ASSUME NEW p, Typed(p), NEW e, Priced(e), p.lastReinit <= e.now, NEW u \in Accounts,
         NEW c, Asks(c), NEW x \in Execute(p, e, u, c)
  PROVE  Executed(p, e, x, u)
<1> DEFINE Result(q, called, done) == [pool |-> q, called |-> called, done |-> done]
           After(r) ==
             IF u \in r.called
             THEN {Result(q, r.called, FALSE) : q \in UpdateSystemLeverages(r.pool, e)}
             ELSE IF ~LeverageDefined(r.pool, r.pool.positions[u]) THEN {}
             ELSE IF HasBadLeverage(r.pool, e, r.pool.positions[u])
             THEN {Result(v, r.called \cup {u}, FALSE) :
                     v \in UNION {UpdateSystemLeverages(q, e) : q \in Liquidate(r.pool, e, u)}}
             ELSE {Result(w, r.called, TRUE) :
                     w \in UNION {UpdateSystemLeverages(v, e) :
                             v \in UNION {UpdateHeap(q, u) : q \in Call(r.pool, e, u, c)}}}
<1>1. p.mode = "Regular" /\ x \in UNION {After(r) : r \in Reinit(p, e)}
  BY DEF Execute, Asks, CallNames, CallTypes, Require
<1> HIDE DEF Result
<1>2. PICK r \in Reinit(p, e) : x \in After(r)
  BY <1>1
<1>3. Passes(p, e, r.pool, u, r.called) /\ Typed(r.pool)
  <2>1. Passes(p, e, r.pool, u, r.called)
    BY ReinitPasses
  <2>2. QED
    BY <2>1 DEF Passes
<1>4. \A S : S \cup {} = S /\ {} \cup S = S
  OBVIOUS
<1>5. CASE u \in r.called
  <2>1. PICK q \in UpdateSystemLeverages(r.pool, e) : x = Result(q, r.called, FALSE)
    BY <1>2, <1>5
  <2>2. Passes(r.pool, e, q, u, {})
    BY <1>3, LeveragesPass
  <2>3. Passes(p, e, q, u, r.called)
    BY <1>3, <1>4, <2>2, PassesTwice
  <2>4. x.pool = q /\ x.called = r.called /\ x.done = FALSE
    BY <2>1 DEF Result
  <2>5. QED
    BY <2>3, <2>4, PassesExecute
<1>6. CASE u \notin r.called /\ HasBadLeverage(r.pool, e, r.pool.positions[u])
  <2>1. PICK v \in UNION {UpdateSystemLeverages(q, e) : q \in Liquidate(r.pool, e, u)} :
               x = Result(v, r.called \cup {u}, FALSE)
    BY <1>2, <1>6
  <2>2. PICK q \in Liquidate(r.pool, e, u) : v \in UpdateSystemLeverages(q, e)
    OBVIOUS
  <2>3. Passes(r.pool, e, q, u, {u}) /\ Typed(q)
    <3>1. Passes(r.pool, e, q, u, {u})
      BY <1>3, LiquidationPasses
    <3>2. QED
      BY <3>1 DEF Passes
  <2>4. Passes(q, e, v, u, {})
    BY <2>2, <2>3, LeveragesPass
  <2>5. Passes(p, e, v, u, r.called \cup {u})
    <3>1. Passes(r.pool, e, v, u, {u})
      BY <1>3, <1>4, <2>3, <2>4, PassesTwice
    <3>2. QED
      BY <1>3, <3>1, PassesTwice
  <2>6. x.pool = v /\ x.called = r.called \cup {u} /\ x.done = FALSE
    BY <2>1 DEF Result
  <2>7. QED
    BY <2>5, <2>6, PassesExecute
<1>7. CASE /\ u \notin r.called /\ LeverageDefined(r.pool, r.pool.positions[u])
           /\ ~HasBadLeverage(r.pool, e, r.pool.positions[u])
  <2>1. PICK w \in UNION {UpdateSystemLeverages(v, e) :
                     v \in UNION {UpdateHeap(q, u) : q \in Call(r.pool, e, u, c)}} :
               x = Result(w, r.called, TRUE)
    BY <1>2, <1>7
  <2>2. PICK v \in UNION {UpdateHeap(q, u) : q \in Call(r.pool, e, u, c)} :
               w \in UpdateSystemLeverages(v, e)
    OBVIOUS
  <2>3. PICK q \in Call(r.pool, e, u, c) : v \in UpdateHeap(q, u)
    OBVIOUS
  <2>4. Good(r.pool, e, r.pool.positions[u])
    BY <1>7 DEF Good
  <2>5. Performed(r.pool, e, q, u) /\ Typed(q)
    <3>1. Performed(r.pool, e, q, u)
      BY <1>3, <2>4, CallKeeps
    <3>2. QED
      BY <3>1 DEF Performed, Passes
  <2>6. Performed(q, e, w, u)
    BY <2>2, <2>3, <2>5, HeapThenLeverages
  <2>7. Performed(r.pool, e, w, u)
    BY <1>3, <2>5, <2>6, PerformedTwice
  <2>8. Passes(p, e, w, u, r.called)
    BY <1>3, <1>4, <2>7, PassesTwice DEF Performed
  <2>9. u # TechPositionOwner => Good(w, e, w.positions[u])
    BY <2>4, <2>7 DEF Performed
  <2>10. x.pool = w /\ x.called = r.called /\ x.done = TRUE
    BY <2>1 DEF Result
  <2>11. QED
    BY <2>8, <2>9, <2>10, PassesExecute
<1>8. QED
  BY <1>2, <1>5, <1>6, <1>7

\* execute.
LEMMA ExecuteKeeps ==
  ASSUME NEW p, Typed(p), NEW e, Priced(e), p.lastReinit <= e.now,
         NEW u \in Accounts, NEW c, Asked(c), NEW x \in Execute(p, e, u, c)
  PROVE  Executed(p, e, x, u)
<1>1. CASE c.call = "ReceivePosition"
  <2> DEFINE pay == [t \in Tokens |-> IF t = "quote" THEN c.amount1 ELSE c.amount2]
             Result(q) == [pool |-> q, called |-> {}, done |-> TRUE]
  <2>1. c.amount2 >= 0 /\ \E q \in ReceivePosition(p, e, u, c.from, pay) : x = Result(q)
    <3>1. Execute(p, e, u, c) =
            Require(c.amount2 >= 0, {Result(q) : q \in ReceivePosition(p, e, u, c.from, pay)})
      BY <1>1 DEF Execute
    <3>2. x \in Execute(p, e, u, c)
      OBVIOUS
    <3> HIDE DEF Result, pay
    <3>3. QED
      BY <3>1, <3>2 DEF Require
  <2>2. \A k \in Tokens : pay[k] \in Nat
    BY <2>1 DEF Asked
  <2> HIDE DEF pay
  <2>3. PICK q \in ReceivePosition(p, e, u, c.from, pay) : x = Result(q)
    BY <2>1
  <2> DEFINE by == IF Blank(p, u) THEN u ELSE TechPositionOwner
  <2>4. Passes(p, e, q, by, {}) /\ Good(q, e, q.positions[u])
    <3>1. by # TechPositionOwner => by = u /\ Blank(p, u)
      OBVIOUS
    <3> HIDE DEF by
    <3>2. QED
      BY <1>1, <2>2, <3>1, ReceptionPerforms DEF Asked
  <2>5. x.pool = q /\ x.called = {}
    BY <2>3
  <2>6. QED
    BY <2>4, <2>5, PassesExecute
<1>2. CASE c.call = "EmergencyWithdraw"
  <2> DEFINE Result(q) == [pool |-> q, called |-> {}, done |-> TRUE]
  <2>1. PICK q \in EmergencyWithdraw(p, u) : x = Result(q)
    BY <1>2 DEF Execute
  <2>2. /\ p.mode # "Regular" /\ Typed(q)
        /\ q.mode = p.mode /\ q.lastReinit = p.lastReinit
        /\ q.collateralCoeff = p.collateralCoeff
    BY PayoutKeeps
  <2>3. \A t \in Tokens : q.collateralCoeff[t] >= p.collateralCoeff[t]
    <3>1. p.collateralCoeff \in [Tokens -> Nat]
      BY DEF Typed, Storage
    <3>2. QED
      BY <2>2, <3>1
  <2>4. x.pool = q
    BY <2>1
  <2>5. QED
    BY <2>2, <2>3, <2>4 DEF Executed
<1>3. CASE c.call \in CallNames
  <2>1. Asks(c)
    BY <1>3 DEF Asks, Asked
  <2>2. QED
    BY <2>1, CallExecutes
<1>4. QED
  BY <1>1, <1>2, <1>3 DEF Asked, CallNames
=============================================================================
