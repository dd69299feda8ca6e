--------------------------- MODULE PoolBooks_proofs ---------------------------
(***************************************************************************)
(* The books of the pool: for any amounts, prices and parameters, what the *)
(* storage holds keeps its types through accruals, margin calls and        *)
(* liquidations, and the aggregates stay what the positions add up to.     *)
(*                                                                         *)
(* PoolCalls_proofs says whom a step touches; here it matters how much. A  *)
(* step of the code subtracts before Solidity checks the difference, so a  *)
(* storage inside of a step has integers where one between steps has       *)
(* naturals (Loose, Typed). A step is booked (Paired) when what it adds to *)
(* a position it adds to the aggregates as well, and the debt it adds to   *)
(* the aggregate it adds to a position that owes. The sum over all         *)
(* positions then moves with the aggregates, whichever account the step is *)
(* about: this is PairedAccounts, and it takes the sums themselves, over   *)
(* any finite set of accounts.                                             *)
(*                                                                         *)
(* The last two parts are for PoolTrades_proofs: how rounding goes into a  *)
(* leverage, and how the parts of an owner's call add up (Deals, Trades).  *)
(***************************************************************************)
EXTENDS PoolCalls_proofs, FiniteSetsExt, FiniteSetTheorems, WellFoundedInduction

----------------------------------------------------------------------------
\* Sums over a finite set

\* A family of subsets of a finite set has a smallest one.
LEMMA LeastSet ==
  ASSUME NEW U, IsFiniteSet(U), NEW T \in SUBSET (SUBSET U), T # {}
  PROVE  \E x \in T : \A y \in T : ~(y \subseteq x /\ y # x)
<1>1. T \subseteq FiniteSubsetsOf(U)
  BY FS_Subset DEF FiniteSubsetsOf
<1>2. PICK x \in T : \A y \in T : ~(<<y, x>> \in StrictSubsetOrdering(U))
  BY <1>1, WFMin, FS_StrictSubsetOrderingWellFounded
<1>3. ASSUME NEW y \in T, y \subseteq x, y # x
      PROVE  <<y, x>> \in StrictSubsetOrdering(U)
  <2>1. y \in SUBSET U /\ x \in SUBSET U
    OBVIOUS
  <2>2. QED
    BY <1>3, <2>1 DEF StrictSubsetOrdering
<1>4. \A y \in T : ~(y \subseteq x /\ y # x)
  <2> SUFFICES ASSUME NEW y \in T, y \subseteq x, y # x
               PROVE  FALSE
    OBVIOUS
  <2>1. QED
    BY <1>2, <1>3
<1>5. QED
  BY <1>4

\* A sum over S, as a function of the subsets of S: MapThenSumSet goes this way.
First(s) == CHOOSE a \in s : TRUE
Adds(f, g, s) == IF s = {} THEN 0 ELSE f[First(s)] + g[s \ {First(s)}]
IsSum(f, g, S) == g = [s \in SUBSET S |-> Adds(f, g, s)]
SumOver(f, S) == (CHOOSE g : IsSum(f, g, S))[S]

\* The element that is added first is one of the set.
LEMMA FirstIs ==
  ASSUME NEW s, s # {}
  PROVE  First(s) \in s
BY DEF First

\* Two such functions agree on the subsets that both are defined on.
LEMMA SumsAreUnique ==
  ASSUME NEW U, IsFiniteSet(U), NEW S \in SUBSET U, NEW T \in SUBSET U, NEW f, NEW g, NEW h,
         IsSum(f, g, S), IsSum(f, h, T), NEW q, q \subseteq S, q \subseteq T
  PROVE  g[q] = h[q]
<1> DEFINE Bad == {s \in SUBSET U : s \subseteq S /\ s \subseteq T /\ g[s] # h[s]}
<1>1. SUFFICES ASSUME Bad # {} PROVE FALSE
  OBVIOUS
<1>2. PICK s \in Bad : \A y \in Bad : ~(y \subseteq s /\ y # s)
  <2>1. Bad \in SUBSET (SUBSET U)
    OBVIOUS
  <2> HIDE DEF Bad
  <2>2. QED
    BY <1>1, <2>1, LeastSet
<1>3. g[s] = Adds(f, g, s) /\ h[s] = Adds(f, h, s)
  <2>1. s \in SUBSET S /\ s \in SUBSET T
    OBVIOUS
  <2>2. g = [r \in SUBSET S |-> Adds(f, g, r)] /\ h = [r \in SUBSET T |-> Adds(f, h, r)]
    BY DEF IsSum
  <2> HIDE DEF Bad
  <2>3. g[s] = [r \in SUBSET S |-> Adds(f, g, r)][s]
    BY <2>2
  <2>4. h[s] = [r \in SUBSET T |-> Adds(f, h, r)][s]
    BY <2>2
  <2>5. QED
    BY <2>1, <2>3, <2>4
<1>4. s # {}
  BY <1>3 DEF Adds
<1>5. g[s \ {First(s)}] = h[s \ {First(s)}]
  <2>1. First(s) \in s
    BY <1>4, FirstIs
  <2>2. s \ {First(s)} \notin Bad
    BY <1>2, <2>1
  <2>3. QED
    BY <2>2
<1>6. QED
  BY <1>3, <1>5 DEF Adds

\* Every finite set has such a function.
LEMMA SumsExist ==
  ASSUME NEW U, IsFiniteSet(U), NEW S \in SUBSET U, NEW f
  PROVE  \E g : IsSum(f, g, S)
<1> DEFINE Bad == {s \in SUBSET U : ~\E g : IsSum(f, g, s)}
<1>1. SUFFICES ASSUME Bad # {} PROVE FALSE
  OBVIOUS
<1>2. PICK s \in Bad : \A y \in Bad : ~(y \subseteq s /\ y # s)
  <2>1. Bad \in SUBSET (SUBSET U)
    OBVIOUS
  <2> HIDE DEF Bad
  <2>2. QED
    BY <1>1, <2>1, LeastSet
<1> DEFINE G(q) == CHOOSE g : IsSum(f, g, q)
           V(q) == G(q)[q]
           Value(q) == IF q = {} THEN 0 ELSE f[First(q)] + V(q \ {First(q)})
           h == [q \in SUBSET s |-> Value(q)]
<1>3. ASSUME NEW q \in SUBSET s, q # s
      PROVE  IsSum(f, G(q), q)
  <2>1. q \notin Bad
    BY <1>2, <1>3
  <2>2. \E g : IsSum(f, g, q)
    BY <2>1
  <2>3. QED
    BY <2>2
<1>4. ASSUME NEW q \in SUBSET s, q # s
      PROVE  V(q) = Value(q)
  <2>1. G(q) = [r \in SUBSET q |-> Adds(f, G(q), r)]
    BY <1>3, <1>4 DEF IsSum
  <2>2. G(q)[q] = Adds(f, G(q), q)
    <3> DEFINE k == G(q)
    <3>1. k = [r \in SUBSET q |-> Adds(f, k, r)]
      BY <2>1
    <3> HIDE DEF k
    <3>2. k[q] = [r \in SUBSET q |-> Adds(f, k, r)][q]
      BY <3>1
    <3>3. k[q] = Adds(f, k, q)
      BY <3>2
    <3>4. QED
      BY <3>3 DEF k
  <2>3. CASE q = {}
    BY <2>2, <2>3 DEF Adds
  <2>4. CASE q # {}
    <3> DEFINE r == q \ {First(q)}
    <3>1. r \in SUBSET s /\ r # s /\ r \subseteq q
      BY <1>4, <2>4, FirstIs
    <3>2. IsSum(f, G(q), q) /\ IsSum(f, G(r), r)
      BY <1>3, <1>4, <3>1
    <3>3. q \in SUBSET U /\ r \in SUBSET U
      OBVIOUS
    <3> HIDE DEF r, G
    <3>4. G(q)[r] = G(r)[r]
      BY <3>1, <3>2, <3>3, SumsAreUnique
    <3>5. QED
      BY <2>2, <2>4, <3>4 DEF Adds, r
  <2>5. QED
    BY <2>3, <2>4
<1> HIDE DEF V, G
<1>5. \A q \in SUBSET s : Value(q) = Adds(f, h, q)
  <2> SUFFICES ASSUME NEW q \in SUBSET s
               PROVE  Value(q) = Adds(f, h, q)
    OBVIOUS
  <2>1. CASE q = {}
    BY <2>1 DEF Adds
  <2>2. CASE q # {}
    <3> DEFINE r == q \ {First(q)}
    <3>1. r \in SUBSET s /\ r # s
      BY <2>2, FirstIs
    <3> HIDE DEF r
    <3>2. h[r] = Value(r) /\ V(r) = Value(r)
      BY <1>4, <3>1
    <3> HIDE DEF h
    <3>3. QED
      BY <2>2, <3>2 DEF Adds, r
  <2>3. QED
    BY <2>1, <2>2
<1>6. IsSum(f, h, s)
  BY <1>5 DEF IsSum
<1>7. QED
  BY <1>6

\* A sum over a finite set follows its definition.
LEMMA SumIs ==
  ASSUME NEW S, IsFiniteSet(S), NEW f
  PROVE  /\ SumOver(f, {}) = 0
         /\ S # {} => SumOver(f, S) = f[First(S)] + SumOver(f, S \ {First(S)})
         /\ \A g : IsSum(f, g, S) => SumOver(f, S) = g[S]
<1> DEFINE G(q) == CHOOSE g : IsSum(f, g, q)
<1>1. ASSUME NEW q \in SUBSET S
      PROVE  IsSum(f, G(q), q) /\ SumOver(f, q) = G(q)[q]
  <2>1. \E g : IsSum(f, g, q)
    BY SumsExist
  <2>2. QED
    BY <2>1 DEF SumOver
<1> HIDE DEF G
<1>2. \A g : IsSum(f, g, S) => SumOver(f, S) = g[S]
  BY <1>1, SumsAreUnique
<1>3. ASSUME NEW q \in SUBSET S
      PROVE  G(q)[q] = Adds(f, G(q), q)
  <2> DEFINE k == G(q)
  <2>1. k = [r \in SUBSET q |-> Adds(f, k, r)]
    BY <1>1 DEF IsSum
  <2> HIDE DEF k
  <2>2. k[q] = [r \in SUBSET q |-> Adds(f, k, r)][q]
    BY <2>1
  <2>3. k[q] = Adds(f, k, q)
    BY <2>2
  <2>4. QED
    BY <2>3 DEF k
<1>4. SumOver(f, {}) = 0
  BY <1>1, <1>3 DEF Adds
<1>5. ASSUME S # {}
      PROVE  SumOver(f, S) = f[First(S)] + SumOver(f, S \ {First(S)})
  <2> DEFINE r == S \ {First(S)}
  <2>1. r \in SUBSET S /\ S \in SUBSET S
    OBVIOUS
  <2>2. SumOver(f, S) = f[First(S)] + G(S)[r]
    BY <1>1, <1>3, <1>5, <2>1 DEF Adds
  <2> HIDE DEF r
  <2>3. G(S)[r] = SumOver(f, r)
    <3>1. IsSum(f, G(S), S) /\ IsSum(f, G(r), r) /\ SumOver(f, r) = G(r)[r]
      BY <1>1, <2>1
    <3>2. r \subseteq S /\ r \subseteq r
      BY <2>1
    <3> DEFINE g == G(S)
               h == G(r)
    <3> HIDE DEF g, h
    <3>4. IsSum(f, g, S) /\ IsSum(f, h, r)
      BY <3>1 DEF g, h
    <3>5. g[r] = h[r]
      BY <2>1, <3>2, <3>4, SumsAreUnique
    <3>6. G(S)[r] = G(r)[r]
      BY <3>5 DEF g, h
    <3>7. QED
      BY <3>1, <3>6
  <2>4. QED
    BY <2>2, <2>3 DEF r
<1>6. QED
  BY <1>2, <1>4, <1>5

\* A sum of integers is one.
LEMMA SumIsInt ==
  ASSUME NEW U, IsFiniteSet(U), NEW f \in [U -> Int], NEW S \in SUBSET U
  PROVE  SumOver(f, S) \in Int
<1> DEFINE Bad == {s \in SUBSET U : SumOver(f, s) \notin Int}
<1>1. SUFFICES ASSUME Bad # {} PROVE FALSE
  OBVIOUS
<1>2. PICK s \in Bad : \A y \in Bad : ~(y \subseteq s /\ y # s)
  <2>1. Bad \in SUBSET (SUBSET U)
    OBVIOUS
  <2> HIDE DEF Bad
  <2>2. QED
    BY <1>1, <2>1, LeastSet
<1>3. IsFiniteSet(s) /\ s \in SUBSET U /\ SumOver(f, s) \notin Int
  BY FS_Subset
<1>4. /\ SumOver(f, {}) = 0
      /\ s # {} => SumOver(f, s) = f[First(s)] + SumOver(f, s \ {First(s)})
  BY <1>3, SumIs
<1>5. s # {}
  BY <1>3, <1>4
<1>6. First(s) \in s
  BY <1>5, FirstIs
<1>7. s \ {First(s)} \notin Bad
  BY <1>2, <1>6
<1>8. SumOver(f, s \ {First(s)}) \in Int /\ f[First(s)] \in Int
  BY <1>3, <1>6, <1>7
<1> HIDE DEF Bad
<1>9. QED
  BY <1>3, <1>4, <1>5, <1>8

\* Any element may be the one that is added first.
LEMMA SumWithout ==
  ASSUME NEW U, IsFiniteSet(U), NEW f \in [U -> Int], NEW S \in SUBSET U, NEW a \in S
  PROVE  SumOver(f, S) = f[a] + SumOver(f, S \ {a})
<1> DEFINE Bad == {s \in SUBSET U : \E b \in s : SumOver(f, s) # f[b] + SumOver(f, s \ {b})}
<1>1. SUFFICES ASSUME Bad # {} PROVE FALSE
  OBVIOUS
<1>2. PICK s \in Bad : \A y \in Bad : ~(y \subseteq s /\ y # s)
  <2>1. Bad \in SUBSET (SUBSET U)
    OBVIOUS
  <2> HIDE DEF Bad
  <2>2. QED
    BY <1>1, <2>1, LeastSet
<1>3. PICK b \in s : SumOver(f, s) # f[b] + SumOver(f, s \ {b})
  OBVIOUS
<1> DEFINE x == First(s)
<1>4. s \in SUBSET U /\ x \in s
  BY FirstIs
<1>5. \A r \in SUBSET U : IsFiniteSet(r) /\ SumOver(f, r) \in Int
  BY FS_Subset, SumIsInt
<1>6. SumOver(f, s) = f[x] + SumOver(f, s \ {x})
  BY <1>4, <1>5, SumIs
<1>7. b # x
  BY <1>3, <1>6
<1>8. s \ {x} \in SUBSET U /\ s \ {b} \in SUBSET U /\ s \ {x} \notin Bad /\ s \ {b} \notin Bad
  BY <1>2, <1>4
<1>9. SumOver(f, s \ {x}) = f[b] + SumOver(f, (s \ {x}) \ {b})
  BY <1>7, <1>8
<1>10. SumOver(f, s \ {b}) = f[x] + SumOver(f, (s \ {b}) \ {x})
  BY <1>4, <1>7, <1>8
<1>11. (s \ {x}) \ {b} = (s \ {b}) \ {x} /\ (s \ {x}) \ {b} \in SUBSET U
  BY <1>4
<1>12. f[b] \in Int /\ f[x] \in Int /\ SumOver(f, (s \ {x}) \ {b}) \in Int
  BY <1>4, <1>5, <1>11
<1> DEFINE rest == SumOver(f, (s \ {x}) \ {b})
           y == f[b]
           z == f[x]
<1> HIDE DEF x, Bad, rest, y, z
<1>13. SumOver(f, s) = z + (y + rest) /\ SumOver(f, s \ {b}) = z + rest
  BY <1>6, <1>9, <1>10, <1>11 DEF rest, y, z
<1>14. y \in Int /\ z \in Int /\ rest \in Int
  BY <1>12 DEF rest, y, z
<1>15. z + (y + rest) = y + (z + rest)
  BY <1>14
<1>16. QED
  BY <1>3, <1>13, <1>15 DEF y

\* A sum depends on what is added only.
LEMMA SumsAgree ==
  ASSUME NEW U, IsFiniteSet(U), NEW S \in SUBSET U, NEW f, NEW h, \A a \in S : f[a] = h[a]
  PROVE  SumOver(f, S) = SumOver(h, S)
<1> DEFINE Bad == {s \in SUBSET U : s \subseteq S /\ SumOver(f, s) # SumOver(h, s)}
<1>1. SUFFICES ASSUME Bad # {} PROVE FALSE
  OBVIOUS
<1>2. PICK s \in Bad : \A y \in Bad : ~(y \subseteq s /\ y # s)
  <2>1. Bad \in SUBSET (SUBSET U)
    OBVIOUS
  <2> HIDE DEF Bad
  <2>2. QED
    BY <1>1, <2>1, LeastSet
<1>3. IsFiniteSet(s) /\ s \in SUBSET U
  BY FS_Subset
<1>4. s # {}
  BY <1>3, SumIs
<1>5. First(s) \in s
  BY <1>4, FirstIs
<1>6. s \ {First(s)} \notin Bad
  BY <1>2, <1>5
<1>7. SumOver(f, s \ {First(s)}) = SumOver(h, s \ {First(s)}) /\ f[First(s)] = h[First(s)]
  BY <1>3, <1>5, <1>6
<1>8. SumOver(f, s) = SumOver(h, s)
  BY <1>3, <1>4, <1>7, SumIs
<1>9. QED
  BY <1>8

\* One value changes.
LEMMA SumChanges ==
  ASSUME NEW U, IsFiniteSet(U), NEW f \in [U -> Int], NEW h \in [U -> Int], NEW u \in U,
         \A a \in U \ {u} : h[a] = f[a]
  PROVE  SumOver(h, U) - h[u] = SumOver(f, U) - f[u]
<1>1. U \in SUBSET U /\ U \ {u} \in SUBSET U
  OBVIOUS
<1>2. SumOver(f, U) = f[u] + SumOver(f, U \ {u}) /\ SumOver(h, U) = h[u] + SumOver(h, U \ {u})
  BY <1>1, SumWithout
<1>3. SumOver(f, U \ {u}) = SumOver(h, U \ {u})
  BY <1>1, SumsAgree
<1>4. SumOver(f, U \ {u}) \in Int /\ f[u] \in Int /\ h[u] \in Int
  BY <1>1, SumIsInt
<1>5. QED
  BY <1>2, <1>3, <1>4

\* What is zero does not count.
LEMMA SumOfSome ==
  ASSUME NEW U, IsFiniteSet(U), NEW f \in [U -> Int], NEW T \in SUBSET U,
         \A a \in U \ T : f[a] = 0
  PROVE  SumOver(f, U) = SumOver(f, T)
<1> DEFINE Bad == {s \in SUBSET U : T \subseteq s /\ SumOver(f, s) # SumOver(f, T)}
<1>1. SUFFICES ASSUME Bad # {} PROVE FALSE
  OBVIOUS
<1>2. PICK s \in Bad : \A y \in Bad : ~(y \subseteq s /\ y # s)
  <2>1. Bad \in SUBSET (SUBSET U)
    OBVIOUS
  <2> HIDE DEF Bad
  <2>2. QED
    BY <1>1, <2>1, LeastSet
<1>3. PICK a \in s : a \notin T
  OBVIOUS
<1>4. s \ {a} \in SUBSET U /\ s \in SUBSET U /\ T \subseteq s \ {a}
  BY <1>3
<1>5. SumOver(f, s \ {a}) = SumOver(f, T)
  BY <1>2, <1>3, <1>4
<1>6. SumOver(f, s) = f[a] + SumOver(f, s \ {a}) /\ f[a] = 0
  BY <1>3, <1>4, SumWithout
<1>7. SumOver(f, s \ {a}) \in Int
  BY <1>4, SumIsInt
<1>8. QED
  BY <1>5, <1>6, <1>7

----------------------------------------------------------------------------
\* Fixed-point arithmetic

\* Division rounds down.
LEMMA Quotients ==
  /\ \A x \in Nat, n \in Nat \ {0} : x \div n \in Nat /\ n * (x \div n) <= x
                                     /\ x < n * (x \div n) + n
  /\ \A x \in Int, n \in Nat \ {0} : x \div n \in Int /\ n * (x \div n) <= x
                                     /\ x < n * (x \div n) + n
OBVIOUS

\* Products stay in their set.
LEMMA Products ==
  /\ \A x, y \in Nat : x * y \in Nat
  /\ \A x, y \in Int : x * y \in Int
OBVIOUS

\* A quotient is the greatest one.
LEMMA Greatest ==
  ASSUME NEW x \in Int, NEW n \in Nat \ {0}, NEW z \in Int, n * z <= x
  PROVE  z <= x \div n
<1> DEFINE d == x \div n
<1>1. d \in Int /\ x < n * d + n
  BY Quotients
<1> HIDE DEF d
<1>2. SUFFICES ASSUME z > d PROVE FALSE
  BY <1>1 DEF d
<1>3. n * (z - (d + 1)) >= 0
  BY <1>1, <1>2
<1>4. n * (z - (d + 1)) = n * z - n * d - n
  BY <1>1
<1>5. QED
  BY <1>1, <1>3, <1>4

\* The fixed-point operations on naturals give naturals.
LEMMA Naturals ==
  /\ \A x, y \in Nat : Mul(x, y) \in Nat /\ MulUp(x, y) \in Nat
  /\ \A x \in Nat \ {0}, y \in Nat : RecipMul(x, y) \in Nat
  /\ \A x \in Nat, n \in Nat \ {0} : FromRatio(x, n) \in Nat
  /\ \A x, y \in Nat, n \in Nat \ {0} : MulDiv(x, y, n) \in Nat /\ MulDivUp(x, y, n) \in Nat
<1>1. \A x, y \in Nat : x * y \in Nat
  BY Products
<1>2. \A x \in Nat, n \in Nat \ {0} : x + n - 1 \in Nat
  OBVIOUS
<1>3. \A x \in Nat, n \in Nat \ {0} : x \div n \in Nat
  BY Quotients
<1> HIDE FixedPointAssumption
<1>4. Q96 \in Nat \ {0}
  BY FixedPointAssumption
<1>5. \A x, y \in Nat, n \in Nat \ {0} : MulDiv(x, y, n) \in Nat /\ MulDivUp(x, y, n) \in Nat
  BY <1>1, <1>2, <1>3 DEF MulDiv, MulDivUp
<1>6. QED
  BY <1>4, <1>5 DEF Mul, MulUp, RecipMul, FromRatio

\* The fixed-point operations on integers give integers.
LEMMA Whole ==
  /\ \A x, y \in Int : Mul(x, y) \in Int /\ MulUp(x, y) \in Int
  /\ \A x \in Nat \ {0}, y \in Int : RecipMul(x, y) \in Int
  /\ \A x \in Int, n \in Nat \ {0} : FromRatio(x, n) \in Int
  /\ \A x, y \in Int, n \in Nat \ {0} : MulDiv(x, y, n) \in Int /\ MulDivUp(x, y, n) \in Int
<1>1. \A x, y \in Int : x * y \in Int
  BY Products
<1>2. \A x \in Int, n \in Nat \ {0} : x + n - 1 \in Int
  OBVIOUS
<1>3. \A x \in Int, n \in Nat \ {0} : x \div n \in Int
  BY Quotients
<1>4. Q96 \in Nat \ {0} /\ Q96 \in Int
  BY FixedPointAssumption
<1>5. \A x, y \in Int, n \in Nat \ {0} : MulDiv(x, y, n) \in Int /\ MulDivUp(x, y, n) \in Int
  BY <1>1, <1>2, <1>3 DEF MulDiv, MulDivUp
<1>6. QED
  BY <1>4, <1>5 DEF Mul, MulUp, RecipMul, FromRatio

\* A factor of one or more does not make a number smaller.
LEMMA MulGrows ==
  ASSUME NEW x \in Nat, NEW y \in Nat, y >= Q96
  PROVE  Mul(x, y) >= x
<1>1. x * y \in Int /\ Q96 \in Nat \ {0}
  BY FixedPointAssumption, Products
<1>2. Q96 * x <= x * y
  <2>1. x * (y - Q96) >= 0
    BY <1>1
  <2>2. x * (y - Q96) = x * y - Q96 * x
    BY <1>1
  <2>3. QED
    BY <1>1, <2>1, <2>2
<1>3. QED
  BY <1>1, <1>2, Greatest DEF Mul, MulDiv

\* Of a base of one or more, the series of FP96.powTaylor is one or more.
LEMMA SeriesIsNat ==
  ASSUME NEW base \in Nat, base >= Q96, NEW n \in Nat \ {0}
  PROVE  PowTaylor(base, n) \in Nat /\ PowTaylor(base, n) >= Q96
<1> DEFINE x == base - Q96
           term1 == n * x
           half == ((n - 1) * x) \div 2
           term2 == Mul(term1, half)
           third == ((n - 2) * x) \div 3
           term3 == Mul(term2, third)
<1>1. Q96 \in Nat \ {0} /\ x \in Nat
  BY FixedPointAssumption
<1>2. term1 \in Nat /\ (n - 1) * x \in Nat
  BY <1>1, Products
<1>3. half \in Nat
  BY <1>2, Quotients
<1>4. term2 \in Nat
  BY <1>2, <1>3, Naturals
<1>5. term3 \in Nat
  <2>1. CASE n = 1
    <3>1. half = 0
      <4>1. (n - 1) * x = 0
        BY <1>1, <2>1
      <4>2. QED
        BY <4>1
    <3>2. term2 = 0
      <4>1. term1 * 0 = 0 /\ 0 \div Q96 = 0
        BY <1>1, <1>2
      <4>2. QED
        BY <3>1, <4>1 DEF Mul, MulDiv
    <3>3. (n - 2) * x \in Int
      BY <1>1
    <3>4. third \in Int
      BY <3>3, Quotients
    <3>5. 0 * third = 0 /\ 0 \div Q96 = 0
      BY <1>1, <3>4
    <3>6. QED
      BY <3>2, <3>5 DEF Mul, MulDiv
  <2>2. CASE n # 1
    <3>1. (n - 2) * x \in Nat
      BY <1>1, <2>2, Products
    <3>2. third \in Nat
      BY <3>1, Quotients
    <3>3. QED
      BY <1>4, <3>2, Naturals
  <2>3. QED
    BY <2>1, <2>2
<1>6. PowTaylor(base, n) = Q96 + term1 + term2 + term3
  BY DEF PowTaylor
<1> HIDE DEF x, term1, half, term2, third, term3
<1>7. QED
  BY <1>1, <1>2, <1>4, <1>5, <1>6

\* Where the code does not revert, so a coefficient that the series multiplies grows.
LEMMA SeriesGrows ==
  ASSUME NEW base \in Nat, PowTaylorDefined(base), NEW n \in Nat \ {0}
  PROVE  PowTaylor(base, n) \in Nat /\ PowTaylor(base, n) >= Q96
BY SeriesIsNat DEF PowTaylorDefined

----------------------------------------------------------------------------
\* The storage, and the single writes to it

\* A position whose amounts are in N.
Holding(N) == [type : PositionTypes, inHeap : BOOLEAN, amount : [Tokens -> N]]
\* What the heap holds for an account.
Keys == {NoKey} \cup 0 .. Uint96Max

\* The parameters that setParameters lets through.
Sane(params) ==
  /\ {params.interestRate, params.fee, params.swapFee, params.mcSlippage} \subseteq 0 .. WHOLE_ONE
  /\ params.maxLeverage \in Nat /\ params.positionMinAmount \in Nat /\ params.quoteLimit \in Nat

\* A debt coefficient: deleverage reverts rather than make one smaller than this.
DebtCoeffs == {x \in Nat : x >= Q48}

\* The storage has its types, with amounts in N.
Storage(p, N) ==
  /\ DOMAIN p = Fields
  /\ p.mode \in Modes /\ Sane(p.params)
  /\ p.positions \in [Accounts -> Holding(N)]
  /\ p.discountedCollateral \in [Tokens -> N] /\ p.discountedDebt \in [Tokens -> N]
  /\ p.collateralCoeff \in [Tokens -> Nat] /\ p.delevCoeff \in [Tokens -> Nat]
  /\ p.debtCoeff \in [Tokens -> DebtCoeffs]
  /\ p.initialPrice \in Nat \ {0} /\ p.emergencyWithdrawCoeff \in Nat
  /\ p.systemLeverage \in [Sides -> 0 .. Uint128 - 1]
  /\ p.lastReinit \in Nat
  /\ p.heap \in [Sides -> [Accounts -> Keys]]
  /\ p.balance \in [Tokens -> Nat]

\* The storage between calls, and inside of one.
Typed(p) == Storage(p, Nat)
Loose(p) == Storage(p, Int)

\* q is p but for the fields in F.
Agree(p, q, F) == DOMAIN q = Fields /\ \A f \in Fields \ F : q[f] = p[f]

\* What may be between calls may be inside of one.
LEMMA TypedIsLoose ==
  ASSUME NEW p, Typed(p)
  PROVE  Loose(p)
<1>1. Holding(Nat) \subseteq Holding(Int) /\ [Tokens -> Nat] \subseteq [Tokens -> Int]
  BY DEF Holding
<1>2. QED
  BY <1>1 DEF Typed, Loose, Storage

\* One assignment to the storage each.
SetAmount(p, u, t, x) == [p EXCEPT !.positions[u].amount[t] = x]
SetType(p, u, x) == [p EXCEPT !.positions[u].type = x]
SetCollateral(p, t, x) == [p EXCEPT !.discountedCollateral[t] = x]
SetDebt(p, t, x) == [p EXCEPT !.discountedDebt[t] = x]
SetPosition(p, u, s) == [p EXCEPT !.positions[u] = s]

\* q is p but for the position of u and the aggregates.
Edits(p, q, u) ==
  /\ Loose(q)
  /\ Agree(p, q, {"positions", "discountedCollateral", "discountedDebt"})
  /\ \A a \in Accounts \ {u} : q.positions[a] = p.positions[a]

\* Two edits of a position are one.
LEMMA EditsTransitive ==
  ASSUME NEW p, NEW q, NEW r, NEW u, Edits(p, q, u), Edits(q, r, u)
  PROVE  Edits(p, r, u)
BY DEF Edits, Agree

\* What the assignment to an amount leaves alone.
LEMMA AmountSet ==
  ASSUME NEW p, Loose(p), NEW u \in Accounts, NEW t \in Tokens, NEW x \in Int,
         NEW q, q = SetAmount(p, u, t, x)
  PROVE  /\ Edits(p, q, u)
         /\ q.positions[u].type = p.positions[u].type
         /\ q.positions[u].inHeap = p.positions[u].inHeap
         /\ q.positions[u].amount = [p.positions[u].amount EXCEPT ![t] = x]
         /\ q.discountedCollateral = p.discountedCollateral
         /\ q.discountedDebt = p.discountedDebt
<1>0. DOMAIN p = Fields /\ p.positions \in [Accounts -> Holding(Int)]
  BY DEF Loose, Storage
<1>1. Agree(p, q, {"positions"})
  BY <1>0 DEF Agree, Fields, SetAmount
<1>2. /\ \A a \in Accounts \ {u} : q.positions[a] = p.positions[a]
      /\ q.positions[u] = [p.positions[u] EXCEPT !.amount = [p.positions[u].amount EXCEPT ![t] = x]]
      /\ q.positions = [p.positions EXCEPT ![u] = q.positions[u]]
  BY <1>0 DEF Fields, SetAmount, Holding
<1>3. [p.positions[u].amount EXCEPT ![t] = x] \in [Tokens -> Int]
  BY <1>0 DEF Holding
<1>4. q.positions[u] \in Holding(Int)
  BY <1>0, <1>2, <1>3 DEF Holding
<1>5. q.positions \in [Accounts -> Holding(Int)]
  BY <1>0, <1>2, <1>4
<1>6. Loose(q)
  BY <1>1, <1>5 DEF Agree, Loose, Storage, Fields
<1>7. /\ q.positions[u].type = p.positions[u].type
      /\ q.positions[u].inHeap = p.positions[u].inHeap
      /\ q.positions[u].amount = [p.positions[u].amount EXCEPT ![t] = x]
  BY <1>0, <1>2 DEF Holding
<1>8. /\ q.discountedCollateral = p.discountedCollateral
      /\ q.discountedDebt = p.discountedDebt
  BY <1>1 DEF Agree, Fields
<1>9. QED
  BY <1>1, <1>2, <1>6, <1>7, <1>8 DEF Edits, Agree

\* What the assignment to a type leaves alone.
LEMMA TypeSet ==
  ASSUME NEW p, Loose(p), NEW u \in Accounts, NEW x \in PositionTypes,
         NEW q, q = SetType(p, u, x)
  PROVE  /\ Edits(p, q, u)
         /\ q.positions[u].type = x
         /\ q.positions[u].inHeap = p.positions[u].inHeap
         /\ q.positions[u].amount = p.positions[u].amount
         /\ q.discountedCollateral = p.discountedCollateral
         /\ q.discountedDebt = p.discountedDebt
<1>0. DOMAIN p = Fields /\ p.positions \in [Accounts -> Holding(Int)]
  BY DEF Loose, Storage
<1>1. Agree(p, q, {"positions"})
  BY <1>0 DEF Agree, Fields, SetType
<1>2. /\ \A a \in Accounts \ {u} : q.positions[a] = p.positions[a]
      /\ q.positions[u] = [p.positions[u] EXCEPT !.type = x]
      /\ q.positions = [p.positions EXCEPT ![u] = q.positions[u]]
  BY <1>0 DEF Fields, SetType, Holding
<1>3. /\ q.positions[u] \in Holding(Int)
      /\ q.positions[u].type = x
      /\ q.positions[u].inHeap = p.positions[u].inHeap
      /\ q.positions[u].amount = p.positions[u].amount
  BY <1>0, <1>2 DEF Holding
<1>4. q.positions \in [Accounts -> Holding(Int)]
  BY <1>0, <1>2, <1>3
<1>5. Loose(q)
  BY <1>1, <1>4 DEF Agree, Loose, Storage, Fields
<1>6. /\ q.discountedCollateral = p.discountedCollateral
      /\ q.discountedDebt = p.discountedDebt
  BY <1>1 DEF Agree, Fields
<1>7. QED
  BY <1>1, <1>2, <1>3, <1>5, <1>6 DEF Edits, Agree

\* What the assignment to a whole position leaves alone.
LEMMA PositionSet ==
  ASSUME NEW N, NEW p, Storage(p, N), NEW u \in Accounts, NEW s \in Holding(N),
         NEW q, q = SetPosition(p, u, s)
  PROVE  /\ Storage(q, N) /\ Agree(p, q, {"positions"})
         /\ \A a \in Accounts \ {u} : q.positions[a] = p.positions[a]
         /\ q.positions[u] = s
<1>0. DOMAIN p = Fields /\ p.positions \in [Accounts -> Holding(N)]
  BY DEF Storage
<1>1. Agree(p, q, {"positions"})
  BY <1>0 DEF Agree, Fields, SetPosition
<1>2. q.positions = [p.positions EXCEPT ![u] = s]
  BY <1>0 DEF Fields, SetPosition
<1>3. /\ \A a \in Accounts \ {u} : q.positions[a] = p.positions[a]
      /\ q.positions[u] = s
      /\ q.positions \in [Accounts -> Holding(N)]
  BY <1>0, <1>2
<1>4. Storage(q, N)
  BY <1>1, <1>3 DEF Agree, Storage, Fields
<1>5. QED
  BY <1>1, <1>3, <1>4

\* What the assignment to the aggregate of the collateral leaves alone.
LEMMA CollateralSet ==
  ASSUME NEW p, Loose(p), NEW t \in Tokens, NEW x \in Int,
         NEW q, q = SetCollateral(p, t, x)
  PROVE  /\ \A u : Edits(p, q, u)
         /\ q.positions = p.positions
         /\ q.discountedCollateral = [p.discountedCollateral EXCEPT ![t] = x]
         /\ q.discountedDebt = p.discountedDebt
<1>0. DOMAIN p = Fields /\ p.discountedCollateral \in [Tokens -> Int]
  BY DEF Loose, Storage
<1>1. Agree(p, q, {"discountedCollateral"})
  BY <1>0 DEF Agree, Fields, SetCollateral
<1>2. q.discountedCollateral = [p.discountedCollateral EXCEPT ![t] = x]
  BY <1>0 DEF Fields, SetCollateral
<1>3. q.positions = p.positions /\ q.discountedDebt = p.discountedDebt
  BY <1>1 DEF Agree, Fields
<1>4. q.discountedCollateral \in [Tokens -> Int]
  BY <1>0, <1>2
<1>5. Loose(q)
  BY <1>1, <1>4 DEF Agree, Loose, Storage, Fields
<1>6. QED
  BY <1>1, <1>2, <1>3, <1>5 DEF Edits, Agree

\* What the assignment to the aggregate of the debt leaves alone.
LEMMA DebtSet ==
  ASSUME NEW p, Loose(p), NEW t \in Tokens, NEW x \in Int,
         NEW q, q = SetDebt(p, t, x)
  PROVE  /\ \A u : Edits(p, q, u)
         /\ q.positions = p.positions
         /\ q.discountedCollateral = p.discountedCollateral
         /\ q.discountedDebt = [p.discountedDebt EXCEPT ![t] = x]
<1>0. DOMAIN p = Fields /\ p.discountedDebt \in [Tokens -> Int]
  BY DEF Loose, Storage
<1>1. Agree(p, q, {"discountedDebt"})
  BY <1>0 DEF Agree, Fields, SetDebt
<1>2. q.discountedDebt = [p.discountedDebt EXCEPT ![t] = x]
  BY <1>0 DEF Fields, SetDebt
<1>3. q.positions = p.positions /\ q.discountedCollateral = p.discountedCollateral
  BY <1>1 DEF Agree, Fields
<1>4. q.discountedDebt \in [Tokens -> Int]
  BY <1>0, <1>2
<1>5. Loose(q)
  BY <1>1, <1>4 DEF Agree, Loose, Storage, Fields
<1>6. QED
  BY <1>1, <1>2, <1>3, <1>5 DEF Edits, Agree

\* f but for its value at k.
Put(f, k, x) == [f EXCEPT ![k] = x]

\* After some assignments to the position of u and the aggregates, these are what they hold.
Wrote(p, q, u, type, amount, debt, collateral) ==
  /\ Edits(p, q, u)
  /\ q.positions[u].inHeap = p.positions[u].inHeap
  /\ q.positions[u].type = type
  /\ q.positions[u].amount = amount
  /\ q.discountedDebt = debt
  /\ q.discountedCollateral = collateral

\* A call starts with nothing written.
LEMMA NothingWritten ==
  ASSUME NEW p, Loose(p), NEW u \in Accounts
  PROVE  Wrote(p, p, u, p.positions[u].type, p.positions[u].amount,
               p.discountedDebt, p.discountedCollateral)
BY DEF Wrote, Edits, Agree, Loose, Storage

\* An amount is written on top.
LEMMA AmountWritten ==
  ASSUME NEW p, NEW r, NEW u \in Accounts, NEW type, NEW amount, NEW debt, NEW collateral,
         Wrote(p, r, u, type, amount, debt, collateral), NEW t \in Tokens, NEW x \in Int
  PROVE  Wrote(p, SetAmount(r, u, t, x), u, type, Put(amount, t, x), debt, collateral)
<1> DEFINE q == SetAmount(r, u, t, x)
<1>1. Loose(r)
  BY DEF Wrote, Edits
<1>2. /\ Edits(r, q, u)
      /\ q.positions[u].type = r.positions[u].type
      /\ q.positions[u].inHeap = r.positions[u].inHeap
      /\ q.positions[u].amount = Put(r.positions[u].amount, t, x)
      /\ q.discountedCollateral = r.discountedCollateral
      /\ q.discountedDebt = r.discountedDebt
  BY <1>1, AmountSet DEF Put
<1> HIDE DEF q
<1>3. Edits(p, q, u)
  BY <1>2, EditsTransitive DEF Wrote
<1>4. QED
  BY <1>2, <1>3 DEF Wrote, q

\* A type is written on top.
LEMMA TypeWritten ==
  ASSUME NEW p, NEW r, NEW u \in Accounts, NEW type, NEW amount, NEW debt, NEW collateral,
         Wrote(p, r, u, type, amount, debt, collateral), NEW x \in PositionTypes
  PROVE  Wrote(p, SetType(r, u, x), u, x, amount, debt, collateral)
<1> DEFINE q == SetType(r, u, x)
<1>1. Loose(r)
  BY DEF Wrote, Edits
<1>2. /\ Edits(r, q, u)
      /\ q.positions[u].type = x
      /\ q.positions[u].inHeap = r.positions[u].inHeap
      /\ q.positions[u].amount = r.positions[u].amount
      /\ q.discountedCollateral = r.discountedCollateral
      /\ q.discountedDebt = r.discountedDebt
  BY <1>1, TypeSet
<1> HIDE DEF q
<1>3. Edits(p, q, u)
  BY <1>2, EditsTransitive DEF Wrote
<1>4. QED
  BY <1>2, <1>3 DEF Wrote, q

\* A debt is written on top.
LEMMA DebtWritten ==
  ASSUME NEW p, NEW r, NEW u \in Accounts, NEW type, NEW amount, NEW debt, NEW collateral,
         Wrote(p, r, u, type, amount, debt, collateral), NEW t \in Tokens, NEW x \in Int
  PROVE  Wrote(p, SetDebt(r, t, x), u, type, amount, Put(debt, t, x), collateral)
<1> DEFINE q == SetDebt(r, t, x)
<1>1. Loose(r)
  BY DEF Wrote, Edits
<1>2. /\ Edits(r, q, u)
      /\ q.positions = r.positions
      /\ q.discountedCollateral = r.discountedCollateral
      /\ q.discountedDebt = Put(r.discountedDebt, t, x)
  BY <1>1, DebtSet DEF Put
<1> HIDE DEF q
<1>3. Edits(p, q, u)
  BY <1>2, EditsTransitive DEF Wrote
<1>4. QED
  BY <1>2, <1>3 DEF Wrote, q

\* A collateral is written on top.
LEMMA CollateralWritten ==
  ASSUME NEW p, NEW r, NEW u \in Accounts, NEW type, NEW amount, NEW debt, NEW collateral,
         Wrote(p, r, u, type, amount, debt, collateral), NEW t \in Tokens, NEW x \in Int
  PROVE  Wrote(p, SetCollateral(r, t, x), u, type, amount, debt, Put(collateral, t, x))
<1> DEFINE q == SetCollateral(r, t, x)
<1>1. Loose(r)
  BY DEF Wrote, Edits
<1>2. /\ Edits(r, q, u)
      /\ q.positions = r.positions
      /\ q.discountedCollateral = Put(r.discountedCollateral, t, x)
      /\ q.discountedDebt = r.discountedDebt
  BY <1>1, CollateralSet DEF Put
<1> HIDE DEF q
<1>3. Edits(p, q, u)
  BY <1>2, EditsTransitive DEF Wrote
<1>4. QED
  BY <1>2, <1>3 DEF Wrote, q

\* What a margin call takes of a position before the sale: x of t, y of c.
Reduced(p, u, t, c, x, y) ==
  [p EXCEPT !.positions[u].amount[t] = @ - x,
            !.positions[u].amount[c] = @ - y,
            !.discountedDebt[t] = @ - x,
            !.discountedCollateral[c] = @ - y]

\* What the four assignments of a partial repayment write.
LEMMA ReduceWrites ==
  ASSUME NEW p, Loose(p), NEW u \in Accounts, NEW t \in Tokens, NEW c \in Tokens, c # t,
         NEW x \in Int, NEW y \in Int
  PROVE  Wrote(p, Reduced(p, u, t, c, x, y), u, p.positions[u].type,
               Put(Put(p.positions[u].amount, t, p.positions[u].amount[t] - x),
                   c, p.positions[u].amount[c] - y),
               Put(p.discountedDebt, t, p.discountedDebt[t] - x),
               Put(p.discountedCollateral, c, p.discountedCollateral[c] - y))
<1> DEFINE a == p.positions[u].amount[t] - x
           b == p.positions[u].amount[c] - y
           d == p.discountedDebt[t] - x
           f == p.discountedCollateral[c] - y
<1>1. Reduced(p, u, t, c, x, y)
        = SetCollateral(SetDebt(SetAmount(SetAmount(p, u, t, a), u, c, b), t, d), c, f)
  BY DEF SetAmount, SetDebt, SetCollateral, Reduced
<1>2. a \in Int /\ b \in Int /\ d \in Int /\ f \in Int
  BY DEF Loose, Storage, Holding
<1> HIDE DEF a, b, d, f
<1>3. Wrote(p, SetCollateral(SetDebt(SetAmount(SetAmount(p, u, t, a), u, c, b), t, d), c, f), u,
            p.positions[u].type, Put(Put(p.positions[u].amount, t, a), c, b),
            Put(p.discountedDebt, t, d), Put(p.discountedCollateral, c, f))
  BY <1>2, NothingWritten, AmountWritten, DebtWritten, CollateralWritten
<1>4. QED
  BY <1>1, <1>3 DEF a, b, d, f

----------------------------------------------------------------------------
\* Payments

\* What a call is told about the markets: prices are not zero.
Priced(e) ==
  e.now \in Nat /\ e.price \in Nat \ {0} /\ e.mcPrice \in Nat \ {0} /\ e.spot \in Nat \ {0}

\* A price is a number.
LEMMA PriceIsNat ==
  ASSUME NEW e, Priced(e)
  PROVE  e.price \in Nat /\ e.price \in Int
BY DEF Priced

\* q is p but for what the pool owns.
Paid(p, q) == Agree(p, q, {"balance"}) /\ q.balance \in [Tokens -> Nat]

\* A payment keeps the types.
LEMMA PaidStorage ==
  ASSUME NEW p, NEW q, Paid(p, q)
  PROVE  (Typed(p) => Typed(q)) /\ (Loose(p) => Loose(q))
BY DEF Paid, Agree, Typed, Loose, Storage, Fields

\* Two payments are one.
LEMMA PaidTwice ==
  ASSUME NEW p, NEW q, NEW r, Paid(p, q), Paid(q, r)
  PROVE  Paid(p, r)
BY DEF Paid, Agree

\* A trade on the market is a payment.
LEMMA TradePays ==
  ASSUME NEW p, Typed(p), NEW from \in Tokens, NEW in \in Nat, NEW out \in Nat,
         NEW q \in Trade(p, from, in, out)
  PROVE  Paid(p, q)
<1>1. /\ p.balance[from] >= in
      /\ q = [p EXCEPT !.balance[from] = @ - in, !.balance[Other(from)] = @ + out]
  BY DEF Trade, Require
<1>2. Agree(p, q, {"balance"})
  BY <1>1 DEF Agree, Typed, Storage, Fields
<1>3. q.balance = [p.balance EXCEPT ![from] = @ - in, ![Other(from)] = @ + out]
  BY <1>1 DEF Typed, Storage, Fields
<1>4. Other(from) \in Tokens /\ Other(from) # from /\ p.balance \in [Tokens -> Nat]
  BY DEF Other, Tokens, Typed, Storage
<1>5. q.balance \in [Tokens -> Nat]
  BY <1>1, <1>3, <1>4
<1>6. QED
  BY <1>2, <1>5 DEF Paid

\* The worth of an amount is of the amount's kind.
LEMMA Worth ==
  ASSUME NEW price \in Nat \ {0}, NEW t \in Tokens
  PROVE  /\ \A x \in Nat : Exchange(price, t, x) \in Nat /\ InQuote(price, t, x) \in Nat
         /\ \A x \in Int : Exchange(price, t, x) \in Int /\ InQuote(price, t, x) \in Int
<1>1. price \in Nat /\ price \in Int
  OBVIOUS
<1>2. QED
  BY <1>1, Naturals, Whole DEF Exchange, InQuote

\* What a swap gives and takes are naturals.
LEMMA SwapsDefined ==
  ASSUME NEW e, Priced(e), NEW from \in Tokens, NEW x \in Nat
  PROVE  OutputOf(e, from, x) \in Nat /\ InputFor(e, from, x) \in Nat
<1>1. Other(from) \in Tokens /\ e.spot \in Nat \ {0} /\ e.spot \in Nat /\ Q96 \in Nat
  BY FixedPointAssumption DEF Other, Tokens, Priced
<1>2. OutputOf(e, from, x) \in Nat
  BY <1>1, Worth DEF OutputOf
<1>3. InputFor(e, from, x) \in Nat
  BY <1>1, Naturals DEF InputFor
<1>4. QED
  BY <1>2, <1>3

\* A swap through the router is a payment.
LEMMA SwapsPay ==
  ASSUME NEW p, Typed(p), NEW e, Priced(e), NEW from \in Tokens, NEW x, NEW y
  PROVE  /\ \A q \in SwapExactInput(p, e, from, x, y) : x \in Nat => Paid(p, q)
         /\ \A q \in SwapExactOutput(p, e, from, x, y) : y \in Nat => Paid(p, q)
<1>1. ASSUME NEW q \in SwapExactInput(p, e, from, x, y), x \in Nat
      PROVE  Paid(p, q)
  BY <1>1, SwapsDefined, TradePays DEF SwapExactInput, Require
<1>2. ASSUME NEW q \in SwapExactOutput(p, e, from, x, y), y \in Nat
      PROVE  Paid(p, q)
  BY <1>2, SwapsDefined, TradePays DEF SwapExactOutput, Require
<1>3. QED
  BY <1>1, <1>2

\* A transfer to or from the pool is a payment.
LEMMA TransfersPay ==
  ASSUME NEW p, DOMAIN p = Fields, p.balance \in [Tokens -> Nat], NEW t \in Tokens, NEW x \in Nat
  PROVE  /\ \A q \in TransferOut(p, t, x) : Paid(p, q)
         /\ Paid(p, TransferIn(p, t, x))
<1>1. ASSUME NEW q, NEW y \in Nat, q = [p EXCEPT !.balance[t] = y]
      PROVE  Paid(p, q)
  <2>1. Agree(p, q, {"balance"})
    BY <1>1 DEF Agree, Fields
  <2>2. q.balance = [p.balance EXCEPT ![t] = y]
    BY <1>1 DEF Fields
  <2>3. QED
    BY <2>1, <2>2 DEF Paid
<1>2. ASSUME NEW q \in TransferOut(p, t, x)
      PROVE  Paid(p, q)
  <2>1. q = [p EXCEPT !.balance[t] = p.balance[t] - x] /\ p.balance[t] >= x
    BY DEF TransferOut, Require
  <2>2. p.balance[t] - x \in Nat
    BY <2>1
  <2>3. QED
    BY <1>1, <2>1, <2>2
<1>3. Paid(p, TransferIn(p, t, x))
  <2>1. TransferIn(p, t, x) = [p EXCEPT !.balance[t] = p.balance[t] + x]
    BY DEF TransferIn
  <2>2. p.balance[t] + x \in Nat
    OBVIOUS
  <2>3. QED
    BY <1>1, <2>1, <2>2
<1>4. QED
  BY <1>2, <1>3

\* The swap fee is part of what is swapped.
LEMMA SwapFeeIs ==
  ASSUME NEW p, Sane(p.params), NEW x \in Nat
  PROVE  SwapFee(p, x) \in Nat /\ SwapFee(p, x) <= x
<1> DEFINE f == p.params.swapFee
<1>1. f \in 0 .. WHOLE_ONE /\ WHOLE_ONE \in Nat \ {0}
  BY PoolAssumption DEF Sane
<1>2. f * x \in Nat /\ f * x <= WHOLE_ONE * x
  <2> HIDE DEF f
  <2>1. (WHOLE_ONE - f) * x >= 0 /\ f * x \in Nat
    <3>1. WHOLE_ONE - f \in Nat /\ f \in Nat
      BY <1>1
    <3>2. QED
      BY <3>1, Products
  <2>2. (WHOLE_ONE - f) * x = WHOLE_ONE * x - f * x
    BY <1>1
  <2>3. QED
    BY <1>1, <2>1, <2>2
<1> HIDE DEF f
<1> DEFINE n == f * x
           d == n \div WHOLE_ONE
<1>3. d \in Nat /\ WHOLE_ONE * d <= n
  <2> HIDE DEF n
  <2>1. QED
    BY <1>1, <1>2, Quotients DEF n
<1>4. SwapFee(p, x) = d
  BY DEF SwapFee, MulDiv, f
<1> HIDE DEF n, d
<1>5. d <= x
  <2>1. SUFFICES ASSUME d >= x + 1 PROVE FALSE
    BY <1>3
  <2>2. WHOLE_ONE * (d - x) >= WHOLE_ONE
    BY <1>1, <1>3, <2>1
  <2>3. WHOLE_ONE * (d - x) = WHOLE_ONE * d - WHOLE_ONE * x
    BY <1>1, <1>3
  <2>4. QED
    BY <1>1, <1>2, <1>3, <2>2, <2>3 DEF n
<1>6. QED
  BY <1>3, <1>4, <1>5

----------------------------------------------------------------------------
\* Leverages, sort keys and heaps

\* The real amounts of positions and aggregates; a collateral may come out negative.
LEMMA Reals ==
  ASSUME NEW p, Typed(p), NEW t \in Tokens
  PROVE  /\ \A x \in Nat : RealDebt(p, t, x) \in Nat /\ RealDebtUp(p, t, x) \in Nat
         /\ \A x, y \in Nat : RealCollateral(p, t, x, y) \in Int
         /\ PoolDebt(p, t) \in Nat /\ PoolCollateral(p, t) \in Int
         /\ \A u \in Accounts : PositionCollateral(p, p.positions[u], t) \in Int
<1>1. /\ p.debtCoeff[t] \in Nat /\ p.collateralCoeff[t] \in Nat /\ p.delevCoeff[t] \in Nat
      /\ p.discountedCollateral[t] \in Nat /\ p.discountedDebt[t] \in Nat
      /\ Other(t) \in Tokens /\ p.discountedDebt[Other(t)] \in Nat
  BY DEF Typed, Storage, Other, Tokens, DebtCoeffs
<1>2. \A u \in Accounts : p.positions[u].amount[t] \in Nat /\ p.positions[u].amount[Other(t)] \in Nat
  BY <1>1 DEF Typed, Storage, Holding
<1>3. \A x \in Nat : RealDebt(p, t, x) \in Nat /\ RealDebtUp(p, t, x) \in Nat
  BY <1>1, Naturals DEF RealDebt, RealDebtUp
<1>4. \A x, y \in Nat : RealCollateral(p, t, x, y) \in Int
  <2>1. \A x, y \in Nat : Mul(p.collateralCoeff[t], x) \in Nat /\ Mul(p.delevCoeff[t], y) \in Nat
    BY <1>1, Naturals
  <2>2. QED
    BY <2>1 DEF RealCollateral
<1>5. QED
  BY <1>1, <1>2, <1>3, <1>4 DEF PoolDebt, PoolCollateral, PositionCollateral

\* The leverage of a side fits into the 128 bits it is stored in.
LEMMA LeverageFits ==
  ASSUME NEW p, Typed(p), NEW e, Priced(e), NEW side \in Sides, NEW x \in SystemLeverage(p, e, side)
  PROVE  x \in 0 .. Uint128 - 1
<1> DEFINE t == Other(DebtToken(side))
           collateral == InQuote(e.price, t, PoolCollateral(p, t))
           debt == IF side = "Short"
                   THEN Mul(Mul(p.debtCoeff["base"], e.price), p.discountedDebt["base"])
                   ELSE PoolDebt(p, "quote")
           ratio == MulDiv(Q96, collateral, collateral - debt)
           max == p.params.maxLeverage * Q96
<1>1. \/ x = Q96
      \/ /\ PoolCollateral(p, t) >= 0 /\ collateral > debt
         /\ x = IF ratio % Uint128 < max THEN ratio % Uint128 ELSE max
  <2>1. x \in IF p.discountedCollateral[t] = 0 THEN {Q96}
              ELSE IF PoolCollateral(p, t) < 0 \/ collateral <= debt THEN {}
              ELSE {IF ratio % Uint128 < max THEN ratio % Uint128 ELSE max}
    BY DEF SystemLeverage
  <2>2. collateral \in Int /\ debt \in Int /\ PoolCollateral(p, t) \in Int
    <3>1. t \in Tokens /\ "quote" \in Tokens /\ e.price \in Nat \ {0} /\ e.price \in Nat
      BY DEF Other, Tokens, Priced
    <3>2. p.debtCoeff["base"] \in Nat /\ p.discountedDebt["base"] \in Nat
      BY DEF Typed, Storage, Tokens, DebtCoeffs
    <3>3. PoolCollateral(p, t) \in Int /\ PoolDebt(p, "quote") \in Nat
      BY <3>1, Reals
    <3>4. collateral \in Int
      BY <3>1, <3>3, Worth
    <3>5. Mul(Mul(p.debtCoeff["base"], e.price), p.discountedDebt["base"]) \in Nat
      BY <3>1, <3>2, Naturals
    <3>6. QED
      BY <3>3, <3>4, <3>5
  <2>3. QED
    BY <2>1, <2>2
<1>2. t \in Tokens /\ e.price \in Nat \ {0} /\ e.price \in Nat /\ "quote" \in Tokens
  BY DEF Other, Tokens, Priced
<1>3. p.debtCoeff["base"] \in Nat /\ p.discountedDebt["base"] \in Nat
  BY DEF Typed, Storage, Tokens, DebtCoeffs
<1>4. debt \in Nat
  BY <1>2, <1>3, Reals, Naturals
<1>5. Q96 \in 0 .. Uint128 - 1 /\ Uint128 \in Nat \ {0} /\ Q96 \in Nat /\ max \in Nat
  <2>1. Q96 \in Nat /\ p.params.maxLeverage \in Nat
    BY FixedPointAssumption DEF Typed, Storage, Sane
  <2>2. QED
    BY <2>1, PoolAssumption, Products
<1>6. CASE /\ PoolCollateral(p, t) >= 0 /\ collateral > debt
           /\ x = IF ratio % Uint128 < max THEN ratio % Uint128 ELSE max
  <2>1. PoolCollateral(p, t) \in Nat
    BY <1>2, <1>6, Reals
  <2>2. collateral \in Nat
    BY <1>2, <2>1, Worth
  <2>3. collateral - debt \in Nat \ {0}
    BY <1>4, <1>6, <2>2
  <2> HIDE DEF collateral, debt
  <2>4. ratio \in Nat
    BY <1>5, <2>2, <2>3, Naturals
  <2> HIDE DEF ratio, max
  <2>5. ratio % Uint128 \in 0 .. Uint128 - 1
    BY <1>5, <2>4
  <2>6. QED
    BY <1>5, <1>6, <2>5
<1>7. QED
  BY <1>1, <1>5, <1>6

\* updateSystemLeverages writes the leverages and nothing else.
LEMMA LeveragesKeep ==
  ASSUME NEW p, Typed(p), NEW e, Priced(e), NEW q \in UpdateSystemLeverages(p, e)
  PROVE  Typed(q) /\ Agree(p, q, {"systemLeverage"})
<1>1. PICK sh \in SystemLeverage(p, e, "Short"), lo \in SystemLeverage(p, e, "Long") :
        q = [p EXCEPT !.systemLeverage = [s \in Sides |-> IF s = "Short" THEN sh ELSE lo]]
  BY DEF UpdateSystemLeverages
<1>2. sh \in 0 .. Uint128 - 1 /\ lo \in 0 .. Uint128 - 1
  BY LeverageFits DEF Sides
<1> DEFINE new == [s \in Sides |-> IF s = "Short" THEN sh ELSE lo]
<1>3. new \in [Sides -> 0 .. Uint128 - 1]
  BY <1>2
<1> HIDE DEF new
<1>4. Agree(p, q, {"systemLeverage"})
  BY <1>1 DEF Agree, Typed, Storage, Fields, new
<1>5. q.systemLeverage = new
  BY <1>1 DEF Typed, Storage, Fields, new
<1>6. QED
  BY <1>3, <1>4, <1>5 DEF Agree, Typed, Storage, Fields

\* The sort key of a position fits into the 96 bits it is stored in.
LEMMA SortKeyFits ==
  ASSUME NEW p, Typed(p), NEW u \in Accounts
  PROVE  SortKey(p, p.positions[u]) \in Keys
<1> DEFINE s == p.positions[u]
           collateral == IF s.type = "Long" THEN Mul(p.initialPrice, s.amount["base"])
                                            ELSE s.amount["quote"]
           debt == IF s.type = "Long" THEN s.amount["quote"]
                                      ELSE Mul(p.initialPrice, s.amount["base"])
           key == MulDiv(Q48, debt, collateral)
<1>1. SortKey(p, s) = IF collateral = 0 \/ key > Uint96Max THEN Uint96Max ELSE key
  BY DEF SortKey
<1>2. s.amount["base"] \in Nat /\ s.amount["quote"] \in Nat /\ p.initialPrice \in Nat
  BY DEF Typed, Storage, Holding, Tokens
<1>3. collateral \in Nat /\ debt \in Nat
  BY <1>2, Naturals
<1> HIDE DEF collateral, debt
<1>4. collateral # 0 => key \in Nat
  BY <1>3, FixedPointAssumption, Naturals
<1> HIDE DEF key
<1>5. QED
  BY <1>1, <1>3, <1>4, PoolAssumption DEF Keys

\* q is p but for the heaps and inHeap of u.
Heaped(p, q, u) ==
  /\ Agree(p, q, {"heap", "positions"})
  /\ q.heap \in [Sides -> [Accounts -> Keys]]
  /\ \A a \in Accounts \ {u} : q.positions[a] = p.positions[a]
  /\ q.positions[u].type = p.positions[u].type
  /\ q.positions[u].amount = p.positions[u].amount

\* The two assignments of MaxBinaryHeapLib's callers.
SetHeap(p, side, u, k) == [p EXCEPT !.heap[side][u] = k]
SetInHeap(p, u, b) == [p EXCEPT !.positions[u].inHeap = b]

\* A key of the heap is written.
LEMMA HeapSet ==
  ASSUME NEW p, Loose(p), NEW side \in Sides, NEW u \in Accounts, NEW k \in Keys,
         NEW q, q = SetHeap(p, side, u, k)
  PROVE  /\ Agree(p, q, {"heap"}) /\ Heaped(p, q, u) /\ Loose(q)
         /\ (Typed(p) => Typed(q))
<1>1. Agree(p, q, {"heap"})
  BY DEF Agree, Loose, Storage, Fields, SetHeap
<1>2. q.heap = [p.heap EXCEPT ![side] = [p.heap[side] EXCEPT ![u] = k]]
  BY DEF Loose, Storage, Fields, SetHeap
<1>3. q.heap \in [Sides -> [Accounts -> Keys]]
  <2>1. [p.heap[side] EXCEPT ![u] = k] \in [Accounts -> Keys]
    BY DEF Loose, Storage
  <2>2. p.heap \in [Sides -> [Accounts -> Keys]]
    BY DEF Loose, Storage
  <2>3. QED
    BY <1>2, <2>1, <2>2
<1>4. QED
  BY <1>1, <1>3 DEF Agree, Heaped, Loose, Typed, Storage, Fields

\* The heap's place in a position is written.
LEMMA InHeapSet ==
  ASSUME NEW N, N \subseteq Int, NEW p, Storage(p, N), NEW u \in Accounts, NEW b \in BOOLEAN,
         NEW q, q = SetInHeap(p, u, b)
  PROVE  /\ Agree(p, q, {"positions"}) /\ Heaped(p, q, u) /\ Storage(q, N)
         /\ q.positions[u].inHeap = b
<1>0. DOMAIN p = Fields /\ p.positions \in [Accounts -> Holding(N)]
  BY DEF Storage
<1>1. Agree(p, q, {"positions"})
  BY <1>0 DEF Agree, Fields, SetInHeap
<1>2. /\ \A a \in Accounts \ {u} : q.positions[a] = p.positions[a]
      /\ q.positions[u] = [p.positions[u] EXCEPT !.inHeap = b]
      /\ q.positions = [p.positions EXCEPT ![u] = q.positions[u]]
  BY <1>0 DEF Fields, SetInHeap, Holding
<1>3. /\ q.positions[u] \in Holding(N)
      /\ q.positions[u].inHeap = b
      /\ q.positions[u].type = p.positions[u].type
      /\ q.positions[u].amount = p.positions[u].amount
  BY <1>0, <1>2 DEF Holding
<1>4. q.positions \in [Accounts -> Holding(N)]
  BY <1>0, <1>2, <1>3
<1>5. Storage(q, N)
  BY <1>1, <1>4 DEF Agree, Storage, Fields
<1>6. Agree(p, q, {"heap", "positions"})
  BY <1>1 DEF Agree
<1>7. Heaped(p, q, u)
  BY <1>2, <1>3, <1>5, <1>6 DEF Heaped, Storage
<1>8. QED
  BY <1>1, <1>3, <1>5, <1>7

\* removePosition takes the account out of its heap.
LEMMA RemoveHeaps ==
  ASSUME NEW p, Typed(p), NEW side \in Sides, NEW u \in Accounts, NEW q \in HeapRemove(p, side, u)
  PROVE  Typed(q) /\ Heaped(p, q, u) /\ q.positions[u].inHeap = FALSE
<1> DEFINE r == SetHeap(p, side, u, NoKey)
<1>1. q = SetInHeap(r, u, FALSE)
  BY DEF HeapRemove, Require, SetHeap, SetInHeap
<1>2. NoKey \in Keys /\ Loose(p)
  BY TypedIsLoose DEF Keys
<1>3. Heaped(p, r, u) /\ Typed(r) /\ Agree(p, r, {"heap"})
  BY <1>2, HeapSet
<1> HIDE DEF r
<1>4. Heaped(r, q, u) /\ Typed(q) /\ q.positions[u].inHeap = FALSE
  <2>1. Nat \subseteq Int /\ Storage(r, Nat) /\ FALSE \in BOOLEAN
    BY <1>3 DEF Typed
  <2>2. Heaped(r, q, u) /\ Storage(q, Nat) /\ q.positions[u].inHeap = FALSE
    BY <1>1, <2>1, InHeapSet
  <2>3. QED
    BY <2>2 DEF Typed
<1>5. QED
  BY <1>3, <1>4 DEF Heaped, Agree

\* updateHeap writes the key of the account.
LEMMA UpdateHeaps ==
  ASSUME NEW p, Typed(p), NEW u \in Accounts, NEW q \in UpdateHeap(p, u)
  PROVE  Typed(q) /\ Agree(p, q, {"heap"})
<1>1. q = p \/ \E side \in Sides : q = SetHeap(p, side, u, SortKey(p, p.positions[u]))
  BY DEF UpdateHeap, Require, SetHeap
<1>2. CASE q = p
  BY <1>2 DEF Agree, Typed, Storage
<1>3. ASSUME NEW side \in Sides, q = SetHeap(p, side, u, SortKey(p, p.positions[u]))
      PROVE  Typed(q) /\ Agree(p, q, {"heap"})
  BY <1>3, TypedIsLoose, SortKeyFits, HeapSet
<1>4. QED
  BY <1>1, <1>2, <1>3

----------------------------------------------------------------------------
\* Deleverage and liquidation

\* There are two tokens.
LEMMA OthersAre ==
  ASSUME NEW t \in Tokens
  PROVE  /\ Other(t) \in Tokens /\ Other(t) # t /\ Other(Other(t)) = t
         /\ \A k \in Tokens : k = t \/ k = Other(t)
BY DEF Tokens, Other

\* Each side owes a token of its own.
LEMMA SidesOwe ==
  ASSUME NEW side \in Sides
  PROVE  /\ DebtToken(side) \in Tokens
         /\ \A k \in Tokens : side = SideOwing(k) <=> k = DebtToken(side)
BY DEF Sides, Tokens, DebtToken, SideOwing

\* What u owes of t, in discounted units.
Owed(p, u, t) ==
  IF p.positions[u].type = SideOwing(t) THEN p.positions[u].amount[t] ELSE 0

\* Whatever the position of u gains or loses, the aggregates do.
Paired(p, q, u) ==
  \A t \in Tokens :
    /\ q.discountedDebt[t] + q.discountedCollateral[t] - q.positions[u].amount[t]
         = p.discountedDebt[t] + p.discountedCollateral[t] - p.positions[u].amount[t]
    /\ q.discountedDebt[t] - Owed(q, u, t) <= p.discountedDebt[t] - Owed(p, u, t)

\* The amounts that Paired compares are numbers.
Amounts3(p, u, t) ==
  /\ p.discountedDebt[t] \in Int /\ p.discountedCollateral[t] \in Int
  /\ p.positions[u].amount[t] \in Int /\ Owed(p, u, t) \in Int

\* The amounts that Paired compares are numbers, in any storage.
LEMMA LooseAmounts ==
  ASSUME NEW p, Loose(p), NEW u \in Accounts, NEW t \in Tokens
  PROVE  Amounts3(p, u, t)
BY DEF Loose, Storage, Holding, Amounts3, Owed

\* Two steps that are booked on both sides are one.
LEMMA PairedTwice ==
  ASSUME NEW p, NEW q, NEW r, NEW u \in Accounts, Loose(p), Loose(q), Loose(r),
         Paired(p, q, u), Paired(q, r, u)
  PROVE  Paired(p, r, u)
<1> SUFFICES ASSUME NEW t \in Tokens
             PROVE  /\ r.discountedDebt[t] + r.discountedCollateral[t] - r.positions[u].amount[t]
                         = p.discountedDebt[t] + p.discountedCollateral[t] - p.positions[u].amount[t]
                    /\ r.discountedDebt[t] - Owed(r, u, t) <= p.discountedDebt[t] - Owed(p, u, t)
  BY DEF Paired
<1>1. Amounts3(p, u, t) /\ Amounts3(q, u, t) /\ Amounts3(r, u, t)
  BY LooseAmounts
<1>2. QED
  BY <1>1 DEF Paired, Amounts3

\* Fields that do not matter.
LEMMA PairedSame ==
  ASSUME NEW p, NEW q, NEW u, q.positions[u].type = p.positions[u].type,
         q.positions[u].amount = p.positions[u].amount,
         q.discountedDebt = p.discountedDebt, q.discountedCollateral = p.discountedCollateral,
         Loose(p), u \in Accounts
  PROVE  Paired(p, q, u)
<1> SUFFICES ASSUME NEW t \in Tokens
             PROVE  /\ q.discountedDebt[t] + q.discountedCollateral[t] - q.positions[u].amount[t]
                         = p.discountedDebt[t] + p.discountedCollateral[t] - p.positions[u].amount[t]
                    /\ q.discountedDebt[t] - Owed(q, u, t) <= p.discountedDebt[t] - Owed(p, u, t)
  BY DEF Paired
<1>1. Amounts3(p, u, t) /\ Owed(q, u, t) = Owed(p, u, t)
  BY LooseAmounts DEF Owed
<1>2. QED
  BY <1>1 DEF Amounts3

\* Solidity's checked arithmetic lets no negative amount through.
LEMMA UnsignedTypes ==
  ASSUME NEW p, Loose(p), NEW q \in Unsigned(p)
  PROVE  q = p /\ Typed(q)
<1>1. /\ q = p
      /\ \A t \in Tokens :
            /\ p.discountedCollateral[t] >= 0 /\ p.discountedDebt[t] >= 0
            /\ \A a \in Accounts : p.positions[a].amount[t] >= 0
  BY DEF Unsigned, Require
<1>2. p.discountedCollateral \in [Tokens -> Nat] /\ p.discountedDebt \in [Tokens -> Nat]
  BY <1>1 DEF Loose, Storage
<1>3. ASSUME NEW a \in Accounts
      PROVE  p.positions[a] \in Holding(Nat)
  <2>1. p.positions[a] \in Holding(Int)
    BY DEF Loose, Storage
  <2>2. p.positions[a].amount \in [Tokens -> Nat]
    BY <1>1, <2>1 DEF Holding
  <2>3. QED
    BY <2>1, <2>2 DEF Holding
<1>4. p.positions \in [Accounts -> Holding(Nat)]
  BY <1>3 DEF Loose, Storage
<1>5. QED
  BY <1>1, <1>2, <1>4 DEF Loose, Typed, Storage

\* q is p but for coefficients.
Coeffs == {"collateralCoeff", "delevCoeff", "debtCoeff"}

\* A factor on the collateral coefficient changes the coefficients of the token only.
LEMMA CoeffsUpdate ==
  ASSUME NEW p, Typed(p), NEW t \in Tokens, NEW factor \in Nat, NEW q,
         q = UpdateCollateralCoeffs(p, t, factor)
  PROVE  /\ Typed(q) /\ Agree(p, q, {"collateralCoeff", "delevCoeff"})
         /\ q.collateralCoeff = [p.collateralCoeff EXCEPT ![t] = Mul(p.collateralCoeff[t], factor)]
<1> DEFINE x == Mul(p.collateralCoeff[t], factor)
           y == Mul(p.delevCoeff[t], factor)
<1>1. x \in Nat /\ y \in Nat
  BY Naturals DEF Typed, Storage
<1>2. q = [p EXCEPT !.collateralCoeff[t] = x, !.delevCoeff[t] = y]
  BY DEF UpdateCollateralCoeffs
<1> HIDE DEF x, y
<1>3. Agree(p, q, {"collateralCoeff", "delevCoeff"})
  BY <1>2 DEF Agree, Typed, Storage, Fields
<1>4. /\ q.collateralCoeff = [p.collateralCoeff EXCEPT ![t] = x]
      /\ q.delevCoeff = [p.delevCoeff EXCEPT ![t] = y]
  BY <1>2 DEF Typed, Storage, Fields
<1>5. q.collateralCoeff \in [Tokens -> Nat] /\ q.delevCoeff \in [Tokens -> Nat]
  BY <1>1, <1>4 DEF Typed, Storage
<1>6. QED
  BY <1>3, <1>4, <1>5 DEF Agree, Typed, Storage, Fields, x

\* deleverage changes deleverage coefficients only.
LEMMA DeleverageUpdates ==
  ASSUME NEW p, Typed(p), NEW d \in Tokens, NEW x \in Nat, NEW y \in Nat,
         NEW q \in Deleverage(p, d, x, y)
  PROVE  Typed(q) /\ Agree(p, q, Coeffs) /\ q.collateralCoeff = p.collateralCoeff
<1> DEFINE total == p.discountedDebt[d]
           coeff == p.debtCoeff[d] - FromRatio(y, total)
           share == p.delevCoeff[Other(d)] + FromRatio(x, total)
<1>1. /\ total # 0 /\ coeff >= Q48
      /\ q = [p EXCEPT !.delevCoeff[Other(d)] = share, !.debtCoeff[d] = coeff]
  BY DEF Deleverage, Require
<1>2. /\ total \in Nat \ {0} /\ Other(d) \in Tokens /\ Q48 \in Nat
      /\ p.debtCoeff[d] \in Nat /\ p.delevCoeff[Other(d)] \in Nat
  <2>1. Other(d) \in Tokens /\ Q48 \in Nat
    BY OthersAre, FixedPointAssumption
  <2>2. QED
    BY <1>1, <2>1 DEF Typed, Storage, DebtCoeffs
<1> HIDE DEF total
<1>3. FromRatio(x, total) \in Nat /\ FromRatio(y, total) \in Nat
  BY <1>2, Naturals
<1>4. coeff \in DebtCoeffs /\ share \in Nat
  BY <1>1, <1>2, <1>3 DEF DebtCoeffs
<1> HIDE DEF coeff, share
<1>5. Agree(p, q, {"delevCoeff", "debtCoeff"})
  BY <1>1 DEF Agree, Typed, Storage, Fields
<1>6. /\ q.delevCoeff = [p.delevCoeff EXCEPT ![Other(d)] = share]
      /\ q.debtCoeff = [p.debtCoeff EXCEPT ![d] = coeff]
  BY <1>1 DEF Typed, Storage, Fields
<1>7. q.delevCoeff \in [Tokens -> Nat] /\ q.debtCoeff \in [Tokens -> DebtCoeffs]
  <2>1. p.delevCoeff \in [Tokens -> Nat] /\ p.debtCoeff \in [Tokens -> DebtCoeffs]
    BY DEF Typed, Storage
  <2>2. QED
    BY <1>4, <1>6, <2>1
<1>8. Typed(q)
  <2>1. \A f \in Fields : f \notin {"delevCoeff", "debtCoeff"} => q[f] = p[f]
    BY <1>5 DEF Agree
  <2>2. /\ q.mode = p.mode /\ q.params = p.params /\ q.positions = p.positions
        /\ q.discountedCollateral = p.discountedCollateral /\ q.discountedDebt = p.discountedDebt
        /\ q.collateralCoeff = p.collateralCoeff /\ q.initialPrice = p.initialPrice
        /\ q.emergencyWithdrawCoeff = p.emergencyWithdrawCoeff
        /\ q.systemLeverage = p.systemLeverage /\ q.lastReinit = p.lastReinit
        /\ q.heap = p.heap /\ q.balance = p.balance
    BY <2>1 DEF Fields
  <2>3. DOMAIN q = Fields
    BY <1>5 DEF Agree
  <2>4. QED
    BY <1>7, <2>2, <2>3 DEF Typed, Storage
<1>9. Agree(p, q, Coeffs) /\ q.collateralCoeff = p.collateralCoeff
  BY <1>5 DEF Agree, Fields, Coeffs
<1>10. QED
  BY <1>8, <1>9

\* A deleted position is one, and holds nothing.
LEMMA NoPositionHolds ==
  /\ \A N \in {Nat, Int} : NoPosition \in Holding(N)
  /\ NoPosition.type = "Uninitialized"
  /\ \A t \in Tokens : NoPosition.amount[t] = 0
BY DEF NoPosition, Holding, PositionTypes

\* q is p but for the positions, the aggregates, the heaps and what the pool owns, u being
\* the only account that may have changed.
Trades(p, q, u) ==
  /\ Typed(q)
  /\ Agree(p, q, {"positions", "discountedCollateral", "discountedDebt", "heap", "balance"})
  /\ \A a \in Accounts \ {u} : q.positions[a] = p.positions[a]
  /\ Paired(p, q, u)

\* Everything of u is gone.
Closes(p, q, u) ==
  /\ Typed(q)
  /\ Agree(p, q, {"positions", "discountedCollateral", "discountedDebt", "heap", "balance"} \cup Coeffs)
  /\ \A a \in Accounts \ {u} : q.positions[a] = p.positions[a]
  /\ Paired(p, q, u)

\* UpdateHeap etc: heaps only.
LEMMA HeapedPairs ==
  ASSUME NEW p, Typed(p), NEW q, Typed(q), NEW u \in Accounts, Heaped(p, q, u)
  PROVE  Paired(p, q, u)
<1>1. q.discountedDebt = p.discountedDebt /\ q.discountedCollateral = p.discountedCollateral
  BY DEF Heaped, Agree, Fields
<1>2. Loose(p)
  BY TypedIsLoose
<1>3. QED
  BY <1>1, <1>2, PairedSame DEF Heaped

\* enactMarginCall: the aggregates lose what the position had.
LEMMA MarginCallWrites ==
  ASSUME NEW p, Typed(p), NEW u \in Accounts, NEW t \in Tokens, NEW c, c = Other(t), NEW q,
         NEW x \in Int, NEW y \in Int,
         q = [p EXCEPT !.discountedCollateral[c] = x, !.discountedDebt[t] = y]
  PROVE  Wrote(p, q, u, p.positions[u].type, p.positions[u].amount,
               Put(p.discountedDebt, t, y), Put(p.discountedCollateral, c, x))
<1>1. q = SetDebt(SetCollateral(p, c, x), t, y)
  BY DEF SetCollateral, SetDebt
<1>2. Loose(p) /\ c \in Tokens
  BY TypedIsLoose, OthersAre
<1>3. QED
  BY <1>1, <1>2, NothingWritten, DebtWritten, CollateralWritten

\* enactMarginCall books what it does to the position, which is gone afterwards.
LEMMA MarginCallCloses ==
  ASSUME NEW p, Typed(p), NEW e, Priced(e), NEW u \in Accounts, p.positions[u].type \in Sides,
         NEW w \in EnactMarginCall(p, e, u)
  PROVE  Closes(p, w, u) /\ w.positions[u] = NoPosition
<1> DEFINE s == p.positions[u]
           side == s.type
           t == DebtToken(s.type)
           c == Other(t)
           realCollateral == PositionCollateral(p, s, c)
           realDebt == RealDebt(p, t, s.amount[t])
           minOut == Mul(FromRatio(WHOLE_ONE - p.params.mcSlippage, WHOLE_ONE),
                         Exchange(e.mcPrice, t, realCollateral))
           swapped == IF realCollateral = 0 THEN 0 ELSE OutputOf(e, c, realCollateral)
           total == PoolCollateral(p, t)
           factor == IF swapped >= realDebt
                     THEN One + FromRatio(swapped - realDebt, total)
                     ELSE One - FromRatio(realDebt - swapped, total)
           sold == IF realCollateral = 0 THEN {p}
                   ELSE SwapExactInput(p, e, c, realCollateral, minOut)
           Draft(q) == [UpdateCollateralCoeffs(q, t, factor) EXCEPT
                          !.discountedCollateral[c] = @ - s.amount[c],
                          !.discountedDebt[t] = @ - s.amount[t]]
           Without(v) == [v EXCEPT !.positions[u] = NoPosition]
<1>1. /\ w \in UNION {UNION {{Without(v) : v \in HeapRemove(r, s.type, u)} :
                          r \in Unsigned(Draft(q))} : q \in sold}
  BY DEF EnactMarginCall, Require
<1>0. realCollateral >= 0 /\ total > 0 /\ factor >= 0
  BY DEF EnactMarginCall, Require
<1>2. /\ t \in Tokens /\ c \in Tokens /\ side \in Sides
      /\ \A k \in Tokens : side = SideOwing(k) <=> k = t
  BY SidesOwe, OthersAre
<1> HIDE DEF t, c
<1>3. /\ s.amount[t] \in Nat /\ s.amount[c] \in Nat /\ s.amount \in [Tokens -> Nat]
  BY <1>2 DEF Typed, Storage, Holding
<1>4. realCollateral \in Nat /\ realDebt \in Nat /\ total \in Nat \ {0}
  <2>1. realCollateral \in Int
    BY <1>2, Reals
  <2>2. realDebt \in Nat
    BY <1>2, <1>3, Reals
  <2>3. total \in Int
    BY <1>2, Reals
  <2> HIDE DEF realCollateral, realDebt, total
  <2>4. QED
    BY <1>0, <2>1, <2>2, <2>3
<1> HIDE DEF realCollateral, realDebt, total, minOut
<1>5. swapped \in Nat
  BY <1>2, <1>4, SwapsDefined
<1> HIDE DEF swapped
<1>6. factor \in Nat
  <2>1. Q96 \in Nat
    BY FixedPointAssumption
  <2>2. swapped >= realDebt => swapped - realDebt \in Nat
    BY <1>4, <1>5
  <2>3. ~(swapped >= realDebt) => realDebt - swapped \in Nat
    BY <1>4, <1>5
  <2>4. \A x \in Nat : FromRatio(x, total) \in Nat
    BY <1>4, Naturals
  <2>5. CASE swapped >= realDebt
    <3>1. factor = One + FromRatio(swapped - realDebt, total)
      BY <2>5
    <3>2. QED
      BY <2>1, <2>2, <2>4, <2>5, <3>1 DEF One
  <2>6. CASE ~(swapped >= realDebt)
    <3>1. factor = One - FromRatio(realDebt - swapped, total)
      BY <2>6
    <3>2. FromRatio(realDebt - swapped, total) \in Nat
      BY <2>3, <2>4, <2>6
    <3> HIDE DEF factor
    <3>3. QED
      BY <1>0, <2>1, <3>1, <3>2 DEF One
  <2>7. QED
    BY <2>5, <2>6
<1> HIDE DEF factor
<1>7. \A q \in sold : Paid(p, q)
  <2>1. Paid(p, p)
    BY DEF Paid, Agree, Typed, Storage
  <2>2. QED
    BY <1>2, <1>4, <2>1, SwapsPay
<1> HIDE DEF sold, Draft
<1>8. PICK q \in sold : \E r \in Unsigned(Draft(q)) : \E v \in HeapRemove(r, s.type, u) :
                           w = Without(v)
  BY <1>1
<1>9. PICK r \in Unsigned(Draft(q)) : \E v \in HeapRemove(r, s.type, u) : w = Without(v)
  BY <1>8
<1>10. PICK v \in HeapRemove(r, s.type, u) : w = Without(v)
  BY <1>9
<1> HIDE DEF Without
<1> DEFINE m == UpdateCollateralCoeffs(q, t, factor)
<1>11. Paid(p, q) /\ Typed(q)
  BY <1>7, PaidStorage
<1>12. Typed(m) /\ Agree(q, m, {"collateralCoeff", "delevCoeff"})
  BY <1>2, <1>6, <1>11, CoeffsUpdate
<1>13. Agree(p, m, {"balance", "collateralCoeff", "delevCoeff"})
  BY <1>11, <1>12 DEF Paid, Agree
<1>14. /\ m.discountedCollateral = p.discountedCollateral /\ m.discountedDebt = p.discountedDebt
       /\ m.positions = p.positions
  BY <1>13 DEF Agree, Fields
<1> HIDE DEF m
<1> DEFINE x == p.discountedCollateral[c] - s.amount[c]
           y == p.discountedDebt[t] - s.amount[t]
<1>15. /\ p.discountedCollateral \in [Tokens -> Int] /\ p.discountedDebt \in [Tokens -> Int]
       /\ x \in Int /\ y \in Int
  BY <1>2, <1>3 DEF Typed, Storage
<1>16. Draft(q) = [m EXCEPT !.discountedCollateral[c] = x, !.discountedDebt[t] = y]
  BY <1>14 DEF m, Draft
<1> HIDE DEF x, y
<1>17. Wrote(m, Draft(q), u, s.type, s.amount,
             Put(p.discountedDebt, t, y), Put(p.discountedCollateral, c, x))
  <2>1. m.positions[u].type = s.type /\ m.positions[u].amount = s.amount
    BY <1>14
  <2>2. c = Other(t)
    BY DEF c
  <2>3. QED
    BY <1>2, <1>12, <1>14, <1>15, <1>16, <2>1, <2>2, MarginCallWrites
<1>18. r = Draft(q) /\ Typed(r)
  BY <1>17, UnsignedTypes DEF Wrote, Edits
<1>19. Typed(v) /\ Heaped(r, v, u)
  BY <1>2, <1>18, RemoveHeaps DEF side
<1>20. /\ Typed(w) /\ Agree(v, w, {"positions"})
       /\ \A a \in Accounts \ {u} : w.positions[a] = v.positions[a]
       /\ w.positions[u] = NoPosition
       /\ w.discountedCollateral = v.discountedCollateral /\ w.discountedDebt = v.discountedDebt
  <2>1. w = SetPosition(v, u, NoPosition)
    BY <1>10 DEF Without, SetPosition
  <2>2. NoPosition \in Holding(Nat)
    BY NoPositionHolds
  <2>3. QED
    <3>1. /\ Storage(w, Nat) /\ Agree(v, w, {"positions"})
          /\ \A a \in Accounts \ {u} : w.positions[a] = v.positions[a]
          /\ w.positions[u] = NoPosition
      BY <1>19, <2>1, <2>2, PositionSet DEF Typed
    <3>2. QED
      BY <3>1 DEF Typed, Agree, Fields
<1>21. Agree(p, w, {"positions", "discountedCollateral", "discountedDebt", "heap", "balance"}
                   \cup Coeffs)
  BY <1>13, <1>17, <1>18, <1>19, <1>20 DEF Wrote, Edits, Heaped, Agree, Coeffs
<1>22. \A a \in Accounts \ {u} : w.positions[a] = p.positions[a]
  BY <1>14, <1>17, <1>18, <1>19, <1>20 DEF Wrote, Edits, Heaped
<1>23. /\ w.discountedDebt = Put(p.discountedDebt, t, y)
       /\ w.discountedCollateral = Put(p.discountedCollateral, c, x)
  <2>1. v.discountedDebt = r.discountedDebt /\ v.discountedCollateral = r.discountedCollateral
    BY <1>19 DEF Heaped, Agree, Fields
  <2>2. QED
    BY <1>17, <1>18, <1>20, <2>1 DEF Wrote
<1>24. Paired(p, w, u)
  <2> SUFFICES ASSUME NEW k \in Tokens
      PROVE  /\ w.discountedDebt[k] + w.discountedCollateral[k] - w.positions[u].amount[k]
                  = p.discountedDebt[k] + p.discountedCollateral[k] - p.positions[u].amount[k]
             /\ w.discountedDebt[k] - Owed(w, u, k) <= p.discountedDebt[k] - Owed(p, u, k)
    BY DEF Paired
  <2>1. w.positions[u].amount[k] = 0 /\ Owed(w, u, k) = 0
    BY <1>20, NoPositionHolds DEF Owed
  <2>2. Owed(p, u, k) = IF k = t THEN s.amount[t] ELSE 0
    BY <1>2 DEF Owed
  <2>3. /\ w.discountedDebt[k] = IF k = t THEN y ELSE p.discountedDebt[k]
        /\ w.discountedCollateral[k] = IF k = c THEN x ELSE p.discountedCollateral[k]
    <3>1. \A j \in Tokens : Put(p.discountedDebt, t, y)[j] = IF j = t THEN y ELSE p.discountedDebt[j]
      BY <1>2, <1>15 DEF Put
    <3>2. \A j \in Tokens : Put(p.discountedCollateral, c, x)[j]
                               = IF j = c THEN x ELSE p.discountedCollateral[j]
      BY <1>2, <1>15 DEF Put
    <3>3. QED
      BY <1>23, <3>1, <3>2
  <2>4. /\ p.discountedDebt[k] \in Int /\ p.discountedCollateral[k] \in Int
        /\ s.amount[k] \in Int /\ (k = t \/ k = c) /\ t # c
    BY <1>2, <1>3, <1>15, OthersAre DEF c
  <2> HIDE DEF s
  <2>5. p.positions[u].amount[k] = s.amount[k]
    BY DEF s
  <2>6. CASE k = t
    BY <2>1, <2>2, <2>3, <2>4, <2>5, <2>6 DEF y
  <2>7. CASE k = c
    BY <2>1, <2>2, <2>3, <2>4, <2>5, <2>7 DEF x
  <2>8. QED
    BY <2>4, <2>6, <2>7
<1>25. QED
  BY <1>20, <1>21, <1>22, <1>24 DEF Closes

\* Two steps of a liquidation are one.
LEMMA ClosesTwice ==
  ASSUME NEW p, Typed(p), NEW q, NEW r, NEW u \in Accounts, Closes(p, q, u), Closes(q, r, u)
  PROVE  Closes(p, r, u)
<1>1. Loose(p) /\ Loose(q) /\ Loose(r)
  BY TypedIsLoose DEF Closes
<1>2. Paired(p, r, u)
  BY <1>1, PairedTwice DEF Closes
<1>3. QED
  BY <1>2 DEF Closes, Agree

\* What a deleverage takes of a position, it takes of the aggregates.
LEMMA ReducePairs ==
  ASSUME NEW p, Typed(p), NEW u \in Accounts, p.positions[u].type \in Sides,
         NEW t, t = DebtToken(p.positions[u].type), NEW c, c = Other(t),
         NEW x \in Int, NEW y \in Int, NEW q,
         q \in Unsigned(Reduced(p, u, t, c, x, y))
  PROVE  Closes(p, q, u) /\ q.positions[u].type = p.positions[u].type
<1> DEFINE draft == Reduced(p, u, t, c, x, y)
           s == p.positions[u]
           a == s.amount[t] - x
           b == s.amount[c] - y
           d == p.discountedDebt[t] - x
           f == p.discountedCollateral[c] - y
<1>1. /\ t \in Tokens /\ c \in Tokens /\ c # t
      /\ \A k \in Tokens : k = t \/ k = c
      /\ \A k \in Tokens : s.type = SideOwing(k) <=> k = t
  BY SidesOwe, OthersAre
<1>2. /\ s.amount \in [Tokens -> Int] /\ s.type \in PositionTypes
      /\ p.discountedDebt \in [Tokens -> Int] /\ p.discountedCollateral \in [Tokens -> Int]
  BY DEF Typed, Storage, Holding
<1>3. a \in Int /\ b \in Int /\ d \in Int /\ f \in Int
  BY <1>1, <1>2
<1>4. Loose(p)
  BY TypedIsLoose
<1>5. Wrote(p, draft, u, s.type, Put(Put(s.amount, t, a), c, b),
            Put(p.discountedDebt, t, d), Put(p.discountedCollateral, c, f))
  BY <1>1, <1>4, ReduceWrites
<1> HIDE DEF draft, a, b, d, f
<1>6. q = draft /\ Typed(q)
  BY <1>5, UnsignedTypes DEF Wrote, Edits, draft
<1>7. Paired(p, q, u)
  <2> SUFFICES ASSUME NEW k \in Tokens
      PROVE  /\ q.discountedDebt[k] + q.discountedCollateral[k] - q.positions[u].amount[k]
                  = p.discountedDebt[k] + p.discountedCollateral[k] - p.positions[u].amount[k]
             /\ q.discountedDebt[k] - Owed(q, u, k) <= p.discountedDebt[k] - Owed(p, u, k)
    BY DEF Paired
  <2>1. /\ q.discountedDebt = Put(p.discountedDebt, t, d)
        /\ q.discountedCollateral = Put(p.discountedCollateral, c, f)
        /\ q.positions[u].amount = Put(Put(s.amount, t, a), c, b)
        /\ q.positions[u].type = s.type
    BY <1>5, <1>6 DEF Wrote
  <2>2. /\ q.discountedDebt[k] = IF k = t THEN d ELSE p.discountedDebt[k]
        /\ q.discountedCollateral[k] = IF k = c THEN f ELSE p.discountedCollateral[k]
        /\ q.positions[u].amount[k] = IF k = t THEN a ELSE b
    BY <1>1, <1>2, <1>3, <2>1 DEF Put
  <2>3. /\ Owed(p, u, k) = IF k = t THEN s.amount[k] ELSE 0
        /\ Owed(q, u, k) = IF k = t THEN a ELSE 0
    BY <1>1, <2>1, <2>2 DEF Owed
  <2>4. /\ p.discountedDebt[k] \in Int /\ p.discountedCollateral[k] \in Int
        /\ s.amount[k] \in Int
    BY <1>2
  <2> HIDE DEF s
  <2>5. p.positions[u].amount[k] = s.amount[k]
    BY DEF s
  <2>6. CASE k = t
    <3>1. /\ q.discountedDebt[k] = p.discountedDebt[k] - x
          /\ q.discountedCollateral[k] = p.discountedCollateral[k]
          /\ q.positions[u].amount[k] = s.amount[k] - x
          /\ Owed(p, u, k) = s.amount[k] /\ Owed(q, u, k) = s.amount[k] - x
      BY <1>1, <2>2, <2>3, <2>6 DEF a, d
    <3>2. QED
      BY <2>4, <2>5, <3>1
  <2>7. CASE k = c
    <3>1. /\ q.discountedDebt[k] = p.discountedDebt[k]
          /\ q.discountedCollateral[k] = p.discountedCollateral[k] - y
          /\ q.positions[u].amount[k] = s.amount[k] - y
          /\ Owed(p, u, k) = 0 /\ Owed(q, u, k) = 0
      BY <1>1, <2>2, <2>3, <2>7 DEF b, f
    <3>2. QED
      BY <2>4, <2>5, <3>1
  <2>8. QED
    BY <1>1, <2>6, <2>7
<1>8. Agree(p, q, {"positions", "discountedCollateral", "discountedDebt", "heap", "balance"}
                   \cup Coeffs)
  BY <1>5, <1>6 DEF Wrote, Edits, Agree
<1>9. QED
  BY <1>5, <1>6, <1>7, <1>8 DEF Closes, Wrote, Edits

\* A change of coefficients is booked: it changes no discounted amount.
LEMMA DeleverageCloses ==
  ASSUME NEW p, Typed(p), NEW u \in Accounts, NEW q, Typed(q), Agree(p, q, Coeffs)
  PROVE  Closes(p, q, u) /\ q.positions = p.positions
<1>1. /\ q.positions = p.positions /\ q.discountedDebt = p.discountedDebt
      /\ q.discountedCollateral = p.discountedCollateral
  BY DEF Agree, Fields, Coeffs
<1>2. Paired(p, q, u)
  BY <1>1, TypedIsLoose, PairedSame
<1>3. QED
  BY <1>1, <1>2 DEF Closes, Agree

\* liquidate books what it does to the position, which is gone afterwards.
LEMMA LiquidationCloses ==
  ASSUME NEW p, Typed(p), NEW e, Priced(e), NEW u \in Accounts, NEW w \in Liquidate(p, e, u)
  PROVE  Closes(p, w, u) /\ w.positions[u] = NoPosition
<1> DEFINE s == p.positions[u]
           t == DebtToken(s.type)
           c == Other(t)
           excess == PoolDebt(p, c) + PositionCollateral(p, s, c) - PoolCollateral(p, c)
           value == Exchange(e.price, t, excess)
           positionDebt == RealDebt(p, t, s.amount[t])
           collToReduce == IF value > positionDebt THEN positionDebt ELSE value
           disDebt == RecipMul(p.debtCoeff[t], collToReduce)
           DisColl(q) == RecipMul(q.collateralCoeff[c],
                                  excess + Mul(q.delevCoeff[c], disDebt))
           Reduce(q) == Require(q.collateralCoeff[c] # 0, Unsigned(Reduced(q, u, t, c, disDebt, DisColl(q))))
           reduced == IF excess <= 0 THEN {p}
                      ELSE UNION {Reduce(q) : q \in Deleverage(p, c, collToReduce, excess)}
<1>1. s.type \in Sides /\ w \in UNION {EnactMarginCall(r, e, u) : r \in reduced}
  BY DEF Liquidate, Reduced
<1>0. \E r \in reduced : w \in EnactMarginCall(r, e, u)
  BY <1>1
<1>2. t \in Tokens /\ c \in Tokens
  BY <1>1, SidesOwe, OthersAre
<1> HIDE DEF t, c
<1>3. s.amount[t] \in Nat /\ s.amount[c] \in Nat /\ p.debtCoeff[t] \in Nat \ {0}
  <2>1. Q48 \in Nat \ {0}
    BY FixedPointAssumption
  <2>2. QED
    BY <1>2, <2>1 DEF Typed, Storage, Holding, DebtCoeffs
<1>4. excess \in Int
  <2>1. PoolDebt(p, c) \in Nat
    BY <1>2, Reals
  <2>2. PoolCollateral(p, c) \in Int
    BY <1>2, Reals
  <2>3. PositionCollateral(p, s, c) \in Int
    BY <1>2, Reals
  <2>4. QED
    BY <2>1, <2>2, <2>3
<1>5. positionDebt \in Nat
  BY <1>2, <1>3, Reals
<1> HIDE DEF excess, positionDebt, s
<1>6. ASSUME NEW q \in Deleverage(p, c, collToReduce, excess), NEW r \in Reduce(q), excess > 0
      PROVE  Closes(p, r, u) /\ r.positions[u].type = s.type
  <2>1. excess \in Nat
    BY <1>4, <1>6
  <2>2. collToReduce \in Nat
    <3>1. value \in Nat
      BY <1>2, <2>1, Worth DEF Priced
    <3>2. QED
      BY <1>5, <3>1
  <2> HIDE DEF collToReduce
  <2>3. disDebt \in Nat
    BY <1>3, <2>2, Naturals
  <2> HIDE DEF disDebt
  <2>4. Typed(q) /\ Agree(p, q, Coeffs)
    BY <1>2, <2>1, <2>2, DeleverageUpdates
  <2>5. Closes(p, q, u) /\ q.positions = p.positions
    BY <2>4, DeleverageCloses
  <2>6. q.collateralCoeff[c] # 0 /\ r \in Unsigned(Reduced(q, u, t, c, disDebt, DisColl(q)))
    BY <1>6 DEF Require
  <2>7. DisColl(q) \in Nat
    <3>1. q.collateralCoeff[c] \in Nat \ {0} /\ q.delevCoeff[c] \in Nat
      BY <1>2, <2>4, <2>6 DEF Typed, Storage
    <3>2. Mul(q.delevCoeff[c], disDebt) \in Nat
      BY <2>3, <3>1, Naturals
    <3>3. excess + Mul(q.delevCoeff[c], disDebt) \in Nat
      BY <2>1, <3>2
    <3>4. QED
      BY <3>1, <3>3, Naturals
  <2> HIDE DEF DisColl
  <2>8. q.positions[u].type = s.type
    BY <2>5 DEF s
  <2>9. Closes(q, r, u) /\ r.positions[u].type = q.positions[u].type
    <3>1. t = DebtToken(q.positions[u].type) /\ c = Other(t)
      BY <2>8 DEF t, c
    <3>2. DisColl(q) \in Int /\ disDebt \in Int
      BY <2>3, <2>7
    <3>3. QED
      BY <1>1, <2>4, <2>6, <2>8, <3>1, <3>2, ReducePairs
  <2>10. QED
    BY <2>5, <2>8, <2>9, ClosesTwice
<1>7. \A r \in reduced : Closes(p, r, u) /\ r.positions[u].type = s.type
  <2>1. Closes(p, p, u)
    <3>1. Agree(p, p, Coeffs)
      BY DEF Agree, Typed, Storage
    <3>2. QED
      BY <3>1, DeleverageCloses
  <2>2. p.positions[u].type = s.type
    BY DEF s
  <2> HIDE DEF Reduce, collToReduce
  <2>3. CASE excess <= 0
    BY <2>1, <2>2, <2>3
  <2>4. CASE ~(excess <= 0)
    BY <1>4, <1>6, <2>4
  <2>5. QED
    BY <2>3, <2>4
<1> HIDE DEF reduced
<1>8. PICK r \in reduced : w \in EnactMarginCall(r, e, u)
  BY <1>0
<1>9. Closes(p, r, u) /\ r.positions[u].type \in Sides
  <2>1. r.positions[u].type = s.type /\ Closes(p, r, u)
    BY <1>7, <1>8
  <2>2. s.type \in Sides
    BY <1>1
  <2>3. QED
    BY <2>1, <2>2
<1>10. Closes(r, w, u) /\ w.positions[u] = NoPosition
  <2>1. Typed(r)
    BY <1>9 DEF Closes
  <2>2. QED
    BY <1>8, <1>9, <2>1, MarginCallCloses
<1>11. QED
  BY <1>9, <1>10, ClosesTwice

----------------------------------------------------------------------------
\* Interest

\* Nothing negative was written.
LEMMA WroteTypes ==
  ASSUME NEW p, Typed(p), NEW q, NEW u \in Accounts, NEW type,
         NEW amount \in [Tokens -> Nat], NEW debt \in [Tokens -> Nat],
         NEW collateral \in [Tokens -> Nat], Wrote(p, q, u, type, amount, debt, collateral)
  PROVE  Typed(q)
<1>1. Loose(q)
  BY DEF Wrote, Edits
<1>2. \A t \in Tokens : q.discountedCollateral[t] >= 0 /\ q.discountedDebt[t] >= 0
  BY DEF Wrote
<1>3. ASSUME NEW t \in Tokens, NEW a \in Accounts
      PROVE  q.positions[a].amount[t] >= 0
  <2>1. CASE a = u
    <3>1. q.positions[u].amount[t] \in Nat
      BY DEF Wrote
    <3>2. QED
      BY <2>1, <3>1
  <2>2. CASE a # u
    <3>1. q.positions[a] = p.positions[a]
      BY <2>2 DEF Wrote, Edits
    <3>2. p.positions[a].amount[t] \in Nat
      BY DEF Typed, Storage, Holding
    <3>3. QED
      BY <3>1, <3>2
  <2>3. QED
    BY <2>1, <2>2
<1>4. q \in Unsigned(q)
  BY <1>2, <1>3 DEF Unsigned, Require
<1>5. QED
  BY <1>1, <1>4, UnsignedTypes

\* An amount that is credited to u and to the collateral.
LEMMA CreditPairs ==
  ASSUME NEW p, Loose(p), NEW u \in Accounts, NEW t \in Tokens, NEW a \in Int, NEW b \in Int,
         b - p.discountedCollateral[t] = a - p.positions[u].amount[t],
         p.positions[u].type # SideOwing(t) \/ a >= p.positions[u].amount[t],
         NEW q, q = SetCollateral(SetAmount(p, u, t, a), t, b)
  PROVE  /\ Wrote(p, q, u, p.positions[u].type, Put(p.positions[u].amount, t, a),
                  p.discountedDebt, Put(p.discountedCollateral, t, b))
         /\ Paired(p, q, u)
<1> DEFINE s == p.positions[u]
<1>1. Wrote(p, q, u, s.type, Put(s.amount, t, a), p.discountedDebt,
            Put(p.discountedCollateral, t, b))
  BY NothingWritten, AmountWritten, CollateralWritten
<1>2. Paired(p, q, u)
  <2> SUFFICES ASSUME NEW k \in Tokens
      PROVE  /\ q.discountedDebt[k] + q.discountedCollateral[k] - q.positions[u].amount[k]
                  = p.discountedDebt[k] + p.discountedCollateral[k] - p.positions[u].amount[k]
             /\ q.discountedDebt[k] - Owed(q, u, k) <= p.discountedDebt[k] - Owed(p, u, k)
    BY DEF Paired
  <2>1. /\ s.amount \in [Tokens -> Int]
        /\ p.discountedDebt \in [Tokens -> Int] /\ p.discountedCollateral \in [Tokens -> Int]
    BY DEF Loose, Storage, Holding
  <2>2. /\ q.discountedDebt = p.discountedDebt
        /\ q.discountedCollateral = Put(p.discountedCollateral, t, b)
        /\ q.positions[u].amount = Put(s.amount, t, a)
        /\ q.positions[u].type = s.type
    BY <1>1 DEF Wrote
  <2> HIDE DEF s
  <2>3. /\ q.discountedCollateral[k] = IF k = t THEN b ELSE p.discountedCollateral[k]
        /\ q.positions[u].amount[k] = IF k = t THEN a ELSE s.amount[k]
    BY <2>1, <2>2 DEF Put
  <2>4. p.positions[u] = s
    BY DEF s
  <2>5. CASE k # t
    <3>1. /\ q.discountedCollateral[k] = p.discountedCollateral[k]
          /\ q.positions[u].amount[k] = s.amount[k]
          /\ Owed(q, u, k) = Owed(p, u, k)
          /\ Owed(p, u, k) \in Int
      BY <2>1, <2>2, <2>3, <2>4, <2>5 DEF Owed
    <3>2. p.discountedDebt[k] \in Int /\ p.discountedCollateral[k] \in Int /\ s.amount[k] \in Int
      BY <2>1
    <3>3. QED
      BY <2>2, <2>4, <3>1, <3>2
  <2>6. CASE k = t
    <3>1. /\ q.discountedCollateral[k] = b
          /\ q.positions[u].amount[k] = a
          /\ Owed(q, u, k) = IF s.type = SideOwing(t) THEN a ELSE 0
          /\ Owed(p, u, k) = IF s.type = SideOwing(t) THEN s.amount[k] ELSE 0
      BY <2>1, <2>2, <2>3, <2>4, <2>6 DEF Owed
    <3>2. p.discountedDebt[k] \in Int /\ p.discountedCollateral[k] \in Int /\ s.amount[k] \in Int
      BY <2>1
    <3>3. /\ b - p.discountedCollateral[k] = a - s.amount[k]
          /\ s.type # SideOwing(t) \/ a >= s.amount[k]
      BY <2>4, <2>6
    <3>4. QED
      BY <2>2, <2>4, <3>1, <3>2, <3>3
  <2>7. QED
    BY <2>5, <2>6
<1>3. QED
  BY <1>1, <1>2

\* Interest: coefficients grow, the technical position gets the fee.
Accrued(p, q) ==
  /\ Typed(q)
  /\ Agree(p, q, {"positions", "discountedCollateral", "lastReinit"} \cup Coeffs)
  /\ \A a \in Accounts \ {TechPositionOwner} : q.positions[a] = p.positions[a]
  /\ q.positions[TechPositionOwner].type = p.positions[TechPositionOwner].type
  /\ Paired(p, q, TechPositionOwner)
  /\ \A t \in Tokens : q.collateralCoeff[t] >= p.collateralCoeff[t]

\* Two accruals are one.
LEMMA AccruedTwice ==
  ASSUME NEW p, Typed(p), NEW q, NEW r, Accrued(p, q), Accrued(q, r)
  PROVE  Accrued(p, r)
<1>1. Loose(p) /\ Loose(q) /\ Loose(r)
  BY TypedIsLoose DEF Accrued
<1>2. Paired(p, r, TechPositionOwner)
  BY <1>1, PairedTwice, PoolAssumption DEF Accrued
<1>3. \A t \in Tokens : r.collateralCoeff[t] >= p.collateralCoeff[t]
  <2>1. \A t \in Tokens : /\ p.collateralCoeff[t] \in Nat /\ q.collateralCoeff[t] \in Nat
                          /\ r.collateralCoeff[t] \in Nat
    BY DEF Accrued, Typed, Storage
  <2>2. QED
    BY <2>1 DEF Accrued
<1>4. QED
  BY <1>2, <1>3 DEF Accrued, Agree

\* Nothing, or the time only.
LEMMA TimeAccrues ==
  ASSUME NEW p, Typed(p), NEW q, Typed(q), Agree(p, q, {"lastReinit"})
  PROVE  Accrued(p, q)
<1>1. /\ q.positions = p.positions /\ q.discountedDebt = p.discountedDebt
      /\ q.discountedCollateral = p.discountedCollateral
      /\ q.collateralCoeff = p.collateralCoeff
  BY DEF Agree, Fields
<1>2. Paired(p, q, TechPositionOwner)
  BY <1>1, TypedIsLoose, PairedSame, PoolAssumption
<1>3. \A t \in Tokens : q.collateralCoeff[t] >= p.collateralCoeff[t]
  <2>1. \A t \in Tokens : p.collateralCoeff[t] \in Nat
    BY DEF Typed, Storage
  <2>2. QED
    BY <1>1, <2>1
<1>4. QED
  BY <1>1, <1>2, <1>3 DEF Accrued, Agree

\* A debt coefficient is written.
LEMMA DebtCoeffSet ==
  ASSUME NEW p, Typed(p), NEW t \in Tokens, NEW x \in DebtCoeffs, NEW q,
         q = [p EXCEPT !.debtCoeff[t] = x]
  PROVE  Typed(q) /\ Agree(p, q, {"debtCoeff"})
<1>0. DOMAIN p = Fields /\ p.debtCoeff \in [Tokens -> DebtCoeffs]
  BY DEF Typed, Storage
<1>1. Agree(p, q, {"debtCoeff"})
  BY <1>0 DEF Agree, Fields
<1>2. q.debtCoeff = [p.debtCoeff EXCEPT ![t] = x]
  BY <1>0 DEF Fields
<1>3. q.debtCoeff \in [Tokens -> DebtCoeffs]
  BY <1>0, <1>2
<1>4. QED
  BY <1>1, <1>3 DEF Agree, Typed, Storage, Fields

\* The accrual of one token: its coefficients grow, and the fee goes to the technical position.
LEMMA TokenGrows ==
  ASSUME NEW p, Typed(p), NEW t \in Tokens, NEW feeDt \in Nat, feeDt >= Q96,
         NEW n \in Nat \ {0}, NEW w \in AccrueToken(p, t, feeDt, n)
  PROVE  Accrued(p, w)
<1> DEFINE u == TechPositionOwner
           debtPrev == PoolDebt(p, t)
           rate == Mul(FromRatio(p.params.interestRate, WHOLE_ONE),
                       p.systemLeverage[SideOwing(t)])
           onePlusIR == rate \div SECONDS_IN_YEAR + One
           accruedRateDt == PowTaylor(onePlusIR, n)
           interest == Mul(accruedRateDt - One, debtPrev)
           factor == One + FromRatio(interest, PoolCollateral(p, t))
           debtCoeff == Mul(Mul(p.debtCoeff[t], accruedRateDt), feeDt)
           r == [p EXCEPT !.debtCoeff[t] = debtCoeff]
           v == UpdateCollateralCoeffs(r, t, factor)
           fee == RecipMul(v.collateralCoeff[t],
                           Mul(Mul(accruedRateDt, feeDt - One), debtPrev))
           q == [v EXCEPT !.positions[u].amount[t] = @ + fee,
                          !.discountedCollateral[t] = @ + fee]
<1>1. \/ w = p
      \/ /\ w = q /\ PowTaylorDefined(onePlusIR)
         /\ PoolCollateral(p, t) > 0 /\ v.collateralCoeff[t] # 0
  BY DEF AccrueToken, Require
<1>2. CASE w = p
  <2>1. Agree(p, p, {"lastReinit"})
    BY DEF Agree, Typed, Storage
  <2>2. QED
    BY <1>2, <2>1, TimeAccrues
<1>3. ASSUME w = q, PowTaylorDefined(onePlusIR), PoolCollateral(p, t) > 0, v.collateralCoeff[t] # 0
      PROVE  Accrued(p, w)
  <2>1. /\ p.debtCoeff[t] \in Nat /\ p.debtCoeff[t] >= Q48
        /\ p.systemLeverage[SideOwing(t)] \in Nat
        /\ p.params.interestRate \in Nat
        /\ p.collateralCoeff \in [Tokens -> Nat]
        /\ Q96 \in Nat /\ Q48 \in Nat /\ u \in Accounts
    <3>1. SideOwing(t) \in Sides
      BY DEF SideOwing, Sides
    <3>2. Q96 \in Nat /\ Q48 \in Nat /\ u \in Accounts /\ WHOLE_ONE \in Nat /\ Uint128 \in Nat
      BY FixedPointAssumption, PoolAssumption
    <3>3. p.debtCoeff[t] \in DebtCoeffs /\ p.collateralCoeff \in [Tokens -> Nat]
      BY DEF Typed, Storage
    <3>4. p.systemLeverage[SideOwing(t)] \in 0 .. Uint128 - 1
      BY <3>1 DEF Typed, Storage
    <3>5. p.params.interestRate \in 0 .. WHOLE_ONE
      BY DEF Typed, Storage, Sane
    <3>6. QED
      BY <3>2, <3>3, <3>4, <3>5 DEF DebtCoeffs
  <2>2. debtPrev \in Nat /\ PoolCollateral(p, t) \in Nat \ {0}
    <3>1. PoolDebt(p, t) \in Nat /\ PoolCollateral(p, t) \in Int
      BY Reals
    <3> HIDE DEF q, v, onePlusIR
    <3>2. QED
      BY <1>3, <3>1
  <2> HIDE DEF debtPrev
  <2>3. onePlusIR \in Nat
    <3>1. WHOLE_ONE \in Nat \ {0} /\ SECONDS_IN_YEAR \in Nat \ {0}
      BY PoolAssumption
    <3>2. FromRatio(p.params.interestRate, WHOLE_ONE) \in Nat
      BY <2>1, <3>1, Naturals
    <3>3. rate \in Nat
      BY <2>1, <3>2, Naturals
    <3> HIDE DEF rate
    <3>4. rate \div SECONDS_IN_YEAR \in Nat
      BY <3>1, <3>3, Quotients
    <3>5. QED
      BY <2>1, <3>4 DEF One
  <2>4. accruedRateDt \in Nat /\ accruedRateDt >= Q96
    <3> HIDE DEF onePlusIR
    <3>1. QED
      BY <1>3, <2>3, SeriesGrows
  <2> HIDE DEF accruedRateDt
  <2>5. interest \in Nat
    <3>1. accruedRateDt - One \in Nat
      BY <2>1, <2>4 DEF One
    <3>2. QED
      BY <2>2, <3>1, Naturals
  <2> HIDE DEF interest
  <2>6. factor \in Nat /\ factor >= Q96
    <3>1. FromRatio(interest, PoolCollateral(p, t)) \in Nat
      BY <2>2, <2>5, Naturals
    <3>2. QED
      BY <2>1, <3>1 DEF One
  <2> HIDE DEF factor
  <2>7. debtCoeff \in DebtCoeffs
    <3> DEFINE x == Mul(p.debtCoeff[t], accruedRateDt)
    <3>1. x \in Nat /\ x >= p.debtCoeff[t]
      BY <2>1, <2>4, Naturals, MulGrows
    <3> HIDE DEF x
    <3>2. Mul(x, feeDt) \in Nat /\ Mul(x, feeDt) >= x
      BY <3>1, Naturals, MulGrows
    <3>3. debtCoeff = Mul(x, feeDt)
      BY DEF x
    <3> HIDE DEF debtCoeff
    <3>4. QED
      BY <2>1, <3>1, <3>2, <3>3 DEF DebtCoeffs
  <2> HIDE DEF debtCoeff
  <2>8. Typed(r) /\ Agree(p, r, {"debtCoeff"})
    BY <2>7, DebtCoeffSet
  <2> HIDE DEF r
  <2>9. /\ Typed(v) /\ Agree(r, v, {"collateralCoeff", "delevCoeff"})
        /\ v.collateralCoeff = [r.collateralCoeff EXCEPT ![t] = Mul(r.collateralCoeff[t], factor)]
    BY <2>6, <2>8, CoeffsUpdate
  <2> HIDE DEF v
  <2>10. fee \in Nat
    <3>1. v.collateralCoeff[t] \in Nat \ {0}
      BY <1>3, <2>9 DEF Typed, Storage
    <3>2. feeDt - One \in Nat
      BY <2>1 DEF One
    <3>3. Mul(Mul(accruedRateDt, feeDt - One), debtPrev) \in Nat
      BY <2>2, <2>4, <3>2, Naturals
    <3>4. QED
      BY <3>1, <3>3, Naturals
  <2> HIDE DEF fee
  <2> DEFINE a == v.positions[u].amount[t] + fee
             b == v.discountedCollateral[t] + fee
  <2>11. q = SetCollateral(SetAmount(v, u, t, a), t, b)
    BY DEF SetCollateral, SetAmount
  <2>12. /\ a \in Int /\ b \in Int /\ a >= v.positions[u].amount[t]
         /\ b - v.discountedCollateral[t] = a - v.positions[u].amount[t]
    <3>1. v.positions[u].amount[t] \in Nat /\ v.discountedCollateral[t] \in Nat
      BY <2>1, <2>9 DEF Typed, Storage, Holding
    <3>2. QED
      BY <2>10, <3>1
  <2> HIDE DEF q, a, b, u
  <2>13. /\ Wrote(v, q, u, v.positions[u].type, Put(v.positions[u].amount, t, a),
                  v.discountedDebt, Put(v.discountedCollateral, t, b))
         /\ Paired(v, q, u)
    <3>1. Loose(v)
      BY <2>9, TypedIsLoose
    <3>2. QED
      BY <2>1, <2>11, <2>12, <3>1, CreditPairs
  <2>14. Typed(q)
    <3>1. /\ v.positions[u].amount \in [Tokens -> Nat] /\ v.discountedCollateral \in [Tokens -> Nat]
          /\ v.discountedDebt \in [Tokens -> Nat]
      BY <2>1, <2>9 DEF Typed, Storage, Holding, u
    <3>2. a \in Nat /\ b \in Nat
      BY <2>10, <3>1 DEF a, b
    <3>3. Put(v.positions[u].amount, t, a) \in [Tokens -> Nat]
      BY <3>1, <3>2 DEF Put
    <3>4. Put(v.discountedCollateral, t, b) \in [Tokens -> Nat]
      BY <3>1, <3>2 DEF Put
    <3>5. QED
      BY <2>1, <2>9, <2>13, <3>1, <3>3, <3>4, WroteTypes
  <2>15. Agree(p, v, Coeffs)
    BY <2>8, <2>9 DEF Agree, Coeffs
  <2>16. /\ v.positions = p.positions /\ v.discountedDebt = p.discountedDebt
         /\ v.discountedCollateral = p.discountedCollateral
    BY <2>15 DEF Agree, Fields, Coeffs
  <2>17. Paired(p, q, u)
    <3>1. Paired(p, v, u)
      BY <2>1, <2>16, TypedIsLoose, PairedSame
    <3>2. QED
      BY <2>1, <2>9, <2>13, <2>14, <3>1, TypedIsLoose, PairedTwice
  <2>18. \A k \in Tokens : q.collateralCoeff[k] >= p.collateralCoeff[k]
    <3>1. q.collateralCoeff = v.collateralCoeff
      BY <2>13 DEF Wrote, Edits, Agree, Fields
    <3>2. r.collateralCoeff = p.collateralCoeff
      BY <2>8 DEF Agree, Fields
    <3>3. p.collateralCoeff[t] \in Nat
      BY <2>1
    <3>4. Mul(p.collateralCoeff[t], factor) >= p.collateralCoeff[t]
      BY <2>6, <3>3, MulGrows
    <3>5. q.collateralCoeff = [p.collateralCoeff EXCEPT ![t] = Mul(p.collateralCoeff[t], factor)]
      BY <2>9, <3>1, <3>2
    <3> DEFINE y == Mul(p.collateralCoeff[t], factor)
    <3> HIDE DEF y
    <3>6. QED
      BY <2>1, <3>4, <3>5 DEF y
  <2>19. Agree(p, q, {"positions", "discountedCollateral", "lastReinit"} \cup Coeffs)
    <3>1. Agree(v, q, {"positions", "discountedCollateral"})
      <4>1. q.discountedDebt = v.discountedDebt
        BY <2>13 DEF Wrote
      <4>2. q["discountedDebt"] = v["discountedDebt"]
        BY <4>1
      <4>3. QED
        BY <2>13, <4>2 DEF Wrote, Edits, Agree
    <3>2. QED
      BY <2>15, <3>1 DEF Agree
  <2>20. /\ \A x \in Accounts \ {u} : q.positions[x] = p.positions[x]
         /\ q.positions[u].type = p.positions[u].type
    BY <2>13, <2>16 DEF Wrote, Edits
  <2>21. QED
    BY <1>3, <2>14, <2>17, <2>18, <2>19, <2>20 DEF Accrued, u
<1>4. QED
  BY <1>1, <1>2, <1>3

----------------------------------------------------------------------------
\* The aggregates and the sums of the positions

\* What the accounts have of token t, and what they owe of it.
AmountsOf(p, t) == [a \in Accounts |-> p.positions[a].amount[t]]
OwedBy(p, t) == [a \in Accounts |-> Owed(p, a, t)]

\* The aggregates are what the positions hold.
Accounted(p) ==
  \A t \in Tokens :
    /\ p.discountedDebt[t] + p.discountedCollateral[t] = SumOver(AmountsOf(p, t), Accounts)
    /\ p.discountedDebt[t] <= SumOver(OwedBy(p, t), Accounts)

\* They are numbers.
LEMMA AmountsAre ==
  ASSUME NEW p, Loose(p), NEW t \in Tokens
  PROVE  AmountsOf(p, t) \in [Accounts -> Int] /\ OwedBy(p, t) \in [Accounts -> Int]
<1>1. \A a \in Accounts : p.positions[a].amount[t] \in Int /\ Owed(p, a, t) \in Int
  BY LooseAmounts DEF Amounts3
<1>2. QED
  BY <1>1 DEF AmountsOf, OwedBy

\* What one account gains the aggregates gain.
LEMMA PairedAccounts ==
  ASSUME NEW p, NEW q, NEW u \in Accounts, Loose(p), Loose(q), Paired(p, q, u),
         \A a \in Accounts \ {u} : q.positions[a] = p.positions[a],
         Accounted(p)
  PROVE  Accounted(q)
<1> SUFFICES ASSUME NEW t \in Tokens
    PROVE  /\ q.discountedDebt[t] + q.discountedCollateral[t] = SumOver(AmountsOf(q, t), Accounts)
           /\ q.discountedDebt[t] <= SumOver(OwedBy(q, t), Accounts)
  BY DEF Accounted
<1>0. IsFiniteSet(Accounts)
  BY PoolAssumption
<1>1. /\ AmountsOf(p, t) \in [Accounts -> Int] /\ OwedBy(p, t) \in [Accounts -> Int]
      /\ AmountsOf(q, t) \in [Accounts -> Int] /\ OwedBy(q, t) \in [Accounts -> Int]
  BY AmountsAre
<1>2. \A a \in Accounts \ {u} : /\ AmountsOf(q, t)[a] = AmountsOf(p, t)[a]
                                /\ OwedBy(q, t)[a] = OwedBy(p, t)[a]
  BY DEF AmountsOf, OwedBy, Owed
<1> DEFINE x == SumOver(AmountsOf(p, t), Accounts)
           y == SumOver(AmountsOf(q, t), Accounts)
           v == SumOver(OwedBy(p, t), Accounts)
           w == SumOver(OwedBy(q, t), Accounts)
<1>3. /\ y - AmountsOf(q, t)[u] = x - AmountsOf(p, t)[u]
      /\ w - OwedBy(q, t)[u] = v - OwedBy(p, t)[u]
  BY <1>0, <1>1, <1>2, SumChanges
<1>4. x \in Int /\ y \in Int /\ v \in Int /\ w \in Int
  <2>1. Accounts \in SUBSET Accounts
    OBVIOUS
  <2>2. QED
    BY <1>0, <1>1, <2>1, SumIsInt
<1>5. /\ AmountsOf(q, t)[u] = q.positions[u].amount[t] /\ OwedBy(q, t)[u] = Owed(q, u, t)
      /\ AmountsOf(p, t)[u] = p.positions[u].amount[t] /\ OwedBy(p, t)[u] = Owed(p, u, t)
  BY DEF AmountsOf, OwedBy
<1>6. /\ p.discountedDebt[t] + p.discountedCollateral[t] = x
      /\ p.discountedDebt[t] <= v
  BY DEF Accounted
<1>7. Amounts3(p, u, t) /\ Amounts3(q, u, t)
  BY LooseAmounts
<1> HIDE DEF x, y, v, w
<1>8. q.discountedDebt[t] + q.discountedCollateral[t] = y /\ q.discountedDebt[t] <= w
  <2>1. /\ y - q.positions[u].amount[t] = x - p.positions[u].amount[t]
        /\ w - Owed(q, u, t) = v - Owed(p, u, t)
    BY <1>3, <1>5
  <2>2. /\ q.discountedDebt[t] + q.discountedCollateral[t] - q.positions[u].amount[t]
             = p.discountedDebt[t] + p.discountedCollateral[t] - p.positions[u].amount[t]
        /\ q.discountedDebt[t] - Owed(q, u, t) <= p.discountedDebt[t] - Owed(p, u, t)
    BY DEF Paired
  <2> DEFINE dq == q.discountedDebt[t]
             cq == q.discountedCollateral[t]
             aq == q.positions[u].amount[t]
             oq == Owed(q, u, t)
             dp == p.discountedDebt[t]
             cp == p.discountedCollateral[t]
             ap == p.positions[u].amount[t]
             op == Owed(p, u, t)
  <2>3. /\ dq \in Int /\ cq \in Int /\ aq \in Int /\ oq \in Int
        /\ dp \in Int /\ cp \in Int /\ ap \in Int /\ op \in Int
    BY <1>7 DEF Amounts3
  <2>4. dp + cp = x /\ dp <= v
    BY <1>6
  <2>5. /\ y - aq = x - ap /\ w - oq = v - op
        /\ dq + cq - aq = dp + cp - ap /\ dq - oq <= dp - op
    BY <2>1, <2>2
  <2> HIDE DEF dq, cq, aq, oq, dp, cp, ap, op
  <2>6. dq + cq = y
    BY <1>4, <2>3, <2>4, <2>5
  <2>7. dq <= w
    BY <1>4, <2>3, <2>4, <2>5
  <2>8. QED
    BY <2>6, <2>7 DEF dq, cq
<1>9. QED
  BY <1>8 DEF y, w

\* What the books say, while nobody trades as the technical position.
Booking(p) == TechLends(p) /\ Accounted(p)

\* One phase of a transaction of u: S are those it margin called.
Passes(p, e, q, u, S) ==
  /\ Typed(q)
  /\ q.mode = p.mode /\ q.lastReinit \in {p.lastReinit, e.now}
  /\ S = {} => \A t \in Tokens : q.collateralCoeff[t] >= p.collateralCoeff[t]
  /\ u # TechPositionOwner /\ Booking(p) => Booking(q)

\* Two steps of a call are one.
LEMMA PassesTwice ==
  ASSUME NEW p, Typed(p), NEW e, NEW q, NEW r, NEW u, NEW S, NEW T,
         Passes(p, e, q, u, S), Passes(q, e, r, u, T)
  PROVE  Passes(p, e, r, u, S \cup T)
<1>1. S \cup T = {} => \A t \in Tokens : r.collateralCoeff[t] >= p.collateralCoeff[t]
  <2>1. \A t \in Tokens : /\ p.collateralCoeff[t] \in Nat /\ q.collateralCoeff[t] \in Nat
                          /\ r.collateralCoeff[t] \in Nat
    BY DEF Passes, Typed, Storage
  <2>2. S \cup T = {} => S = {} /\ T = {}
    OBVIOUS
  <2>3. QED
    BY <2>1, <2>2 DEF Passes
<1>2. QED
  BY <1>1 DEF Passes

\* Nothing that matters changed.
LEMMA AgreePasses ==
  ASSUME NEW p, Typed(p), NEW e, NEW u, NEW q, Typed(q),
         Agree(p, q, {"heap", "systemLeverage", "balance", "params"})
  PROVE  Passes(p, e, q, u, {})
<1>1. /\ q.positions = p.positions /\ q.discountedDebt = p.discountedDebt
      /\ q.discountedCollateral = p.discountedCollateral
      /\ q.collateralCoeff = p.collateralCoeff /\ q.mode = p.mode /\ q.lastReinit = p.lastReinit
  BY DEF Agree, Fields
<1>2. Booking(p) => Booking(q)
  <2>1. TechPositionOwner \in Accounts
    BY PoolAssumption
  <2>2. Paired(p, q, TechPositionOwner)
    BY <1>1, <2>1, TypedIsLoose, PairedSame
  <2>3. Accounted(p) => Accounted(q)
    BY <1>1, <2>1, <2>2, TypedIsLoose, PairedAccounts
  <2>4. QED
    BY <1>1, <2>3 DEF Booking, TechLends
<1>3. \A t \in Tokens : q.collateralCoeff[t] >= p.collateralCoeff[t]
  BY <1>1 DEF Typed, Storage
<1>4. QED
  BY <1>1, <1>2, <1>3 DEF Passes

\* Doing nothing is a step of a call.
LEMMA SamePasses ==
  ASSUME NEW p, Typed(p), NEW e, NEW u
  PROVE  Passes(p, e, p, u, {})
<1>1. Agree(p, p, {"heap", "systemLeverage", "balance", "params"})
  BY DEF Agree, Typed, Storage
<1>2. QED
  BY <1>1, AgreePasses

\* An accrual is a step of a call.
LEMMA AccruedPasses ==
  ASSUME NEW p, Typed(p), NEW e, NEW u, NEW q, Accrued(p, q), q.lastReinit \in {p.lastReinit, e.now}
  PROVE  Passes(p, e, q, u, {})
<1>1. q.mode = p.mode
  BY DEF Accrued, Agree, Fields, Coeffs
<1>2. Accounted(p) => Accounted(q)
  BY TypedIsLoose, PairedAccounts, PoolAssumption DEF Accrued
<1>3. QED
  BY <1>1, <1>2 DEF Passes, Accrued, Booking, TechLends

\* A liquidation is a step of a call, which has called the account.
LEMMA ClosesPasses ==
  ASSUME NEW p, Typed(p), NEW e, NEW u, NEW a \in Accounts, p.positions[a].type \in Sides,
         NEW q, Closes(p, q, a)
  PROVE  Passes(p, e, q, u, {a})
<1>1. q.mode = p.mode /\ q.lastReinit = p.lastReinit
  BY DEF Closes, Agree, Fields, Coeffs
<1>2. Accounted(p) => Accounted(q)
  BY TypedIsLoose, PairedAccounts DEF Closes
<1>3. TechLends(p) => a # TechPositionOwner
  BY DEF TechLends, Sides
<1>4. TechLends(p) => TechLends(q)
  BY <1>3, PoolAssumption DEF TechLends, Closes
<1>5. QED
  BY <1>1, <1>2, <1>4 DEF Passes, Closes, Booking

\* What an owner does with his position is a step of a call.
LEMMA TradesPasses ==
  ASSUME NEW p, Typed(p), NEW e, NEW u \in Accounts, NEW q, Trades(p, q, u)
  PROVE  Passes(p, e, q, u, {})
<1>1. q.mode = p.mode /\ q.lastReinit = p.lastReinit /\ q.collateralCoeff = p.collateralCoeff
  BY DEF Trades, Agree, Fields
<1>2. Accounted(p) => Accounted(q)
  BY TypedIsLoose, PairedAccounts DEF Trades
<1>3. \A t \in Tokens : q.collateralCoeff[t] >= p.collateralCoeff[t]
  BY <1>1 DEF Typed, Storage
<1>4. u # TechPositionOwner /\ TechLends(p) => TechLends(q)
  BY PoolAssumption DEF TechLends, Trades
<1>5. QED
  BY <1>1, <1>2, <1>3, <1>4 DEF Passes, Trades, Booking

----------------------------------------------------------------------------
\* What a call does before it comes to its owner

\* The accrual of a token leaves the time of the last accrual to its caller.
LEMMA TimeStays ==
  ASSUME NEW p, DOMAIN p = Fields, NEW t, NEW feeDt, NEW n, NEW w \in AccrueToken(p, t, feeDt, n)
  PROVE  w.lastReinit = p.lastReinit
<1>1. ASSUME NEW x, DOMAIN x = Fields, NEW y
      PROVE  LET z == [x EXCEPT !.debtCoeff[t] = y] IN
             DOMAIN z = Fields /\ z.lastReinit = x.lastReinit
  BY <1>1 DEF Fields
<1>2. ASSUME NEW x, DOMAIN x = Fields, NEW y
      PROVE  LET z == UpdateCollateralCoeffs(x, t, y) IN
             DOMAIN z = Fields /\ z.lastReinit = x.lastReinit
  BY <1>2 DEF Fields, UpdateCollateralCoeffs
<1>3. ASSUME NEW x, DOMAIN x = Fields, NEW y
      PROVE  LET z == [x EXCEPT !.positions[TechPositionOwner].amount[t] = @ + y,
                                !.discountedCollateral[t] = @ + y] IN
             z.lastReinit = x.lastReinit
  BY <1>3 DEF Fields
<1> DEFINE rate == Mul(FromRatio(p.params.interestRate, WHOLE_ONE),
                       p.systemLeverage[SideOwing(t)])
           growth == PowTaylor(rate \div SECONDS_IN_YEAR + One, n)
           factor == One + FromRatio(Mul(growth - One, PoolDebt(p, t)), PoolCollateral(p, t))
           debtCoeff == Mul(Mul(p.debtCoeff[t], growth), feeDt)
           r == [p EXCEPT !.debtCoeff[t] = debtCoeff]
           v == UpdateCollateralCoeffs(r, t, factor)
           fee == RecipMul(v.collateralCoeff[t],
                           Mul(Mul(growth, feeDt - One), PoolDebt(p, t)))
           z == [v EXCEPT !.positions[TechPositionOwner].amount[t] = @ + fee,
                          !.discountedCollateral[t] = @ + fee]
<1>4. w = p \/ w = z
  BY DEF AccrueToken, Require
<1> HIDE DEF rate, growth, factor, debtCoeff, fee
<1>5. DOMAIN r = Fields /\ r.lastReinit = p.lastReinit
  BY <1>1
<1> HIDE DEF r
<1>6. DOMAIN v = Fields /\ v.lastReinit = p.lastReinit
  BY <1>2, <1>5
<1> HIDE DEF v
<1>7. z.lastReinit = p.lastReinit
  BY <1>3, <1>6
<1> HIDE DEF z
<1>8. QED
  BY <1>4, <1>7

\* accrueInterest accrues until now, or has been called in this block.
LEMMA InterestGrows ==
  ASSUME NEW p, Typed(p), NEW e, Priced(e), p.lastReinit <= e.now, NEW w \in AccrueInterest(p, e)
  PROVE  Accrued(p, w) /\ w.lastReinit = e.now
<1> DEFINE n == e.now - p.lastReinit
           onePlusFee == FromRatio(p.params.fee, WHOLE_ONE) \div SECONDS_IN_YEAR + One
           feeDt == PowTaylor(onePlusFee, n)
           r == [p EXCEPT !.lastReinit = e.now]
<1>1. \/ n = 0 /\ w = p
      \/ /\ n # 0 /\ PowTaylorDefined(onePlusFee)
         /\ \E q \in AccrueToken(r, "base", feeDt, n) : w \in AccrueToken(q, "quote", feeDt, n)
  BY DEF AccrueInterest, Require
<1>2. n \in Nat /\ e.now \in Nat /\ p.lastReinit \in Nat
  BY DEF Priced, Typed, Storage
<1>3. CASE n = 0 /\ w = p
  <2>1. Agree(p, p, {"lastReinit"})
    BY DEF Agree, Typed, Storage
  <2>2. w.lastReinit = e.now
    BY <1>2, <1>3
  <2>3. QED
    BY <1>3, <2>1, <2>2, TimeAccrues
<1>4. ASSUME n # 0, PowTaylorDefined(onePlusFee),
             NEW q \in AccrueToken(r, "base", feeDt, n), w \in AccrueToken(q, "quote", feeDt, n)
      PROVE  Accrued(p, w) /\ w.lastReinit = e.now
  <2>1. onePlusFee \in Nat
    <3>1. WHOLE_ONE \in Nat \ {0} /\ SECONDS_IN_YEAR \in Nat \ {0} /\ Q96 \in Nat
      BY PoolAssumption, FixedPointAssumption
    <3>2. p.params.fee \in Nat
      BY <3>1 DEF Typed, Storage, Sane
    <3>3. FromRatio(p.params.fee, WHOLE_ONE) \in Nat
      BY <3>1, <3>2, Naturals
    <3>4. FromRatio(p.params.fee, WHOLE_ONE) \div SECONDS_IN_YEAR \in Nat
      BY <3>1, <3>3, Quotients
    <3>5. QED
      BY <3>1, <3>4 DEF One
  <2> HIDE DEF onePlusFee
  <2>2. n \in Nat \ {0}
    BY <1>2, <1>4
  <2> HIDE DEF n
  <2>3. feeDt \in Nat /\ feeDt >= Q96
    BY <1>4, <2>1, <2>2, SeriesGrows
  <2> HIDE DEF feeDt
  <2>4. Typed(r) /\ Agree(p, r, {"lastReinit"}) /\ r.lastReinit = e.now
    BY DEF Agree, Typed, Storage, Fields, Priced
  <2> HIDE DEF r
  <2>5. "base" \in Tokens /\ "quote" \in Tokens
    BY DEF Tokens
  <2>6. Accrued(p, r)
    BY <2>4, TimeAccrues
  <2>7. ASSUME NEW x, Typed(x), NEW t \in Tokens, NEW y \in AccrueToken(x, t, feeDt, n)
        PROVE  Accrued(x, y) /\ y.lastReinit = x.lastReinit
    <3>1. Accrued(x, y)
      BY <2>2, <2>3, <2>7, TokenGrows
    <3>2. y.lastReinit = x.lastReinit
      BY <2>7, TimeStays DEF Typed, Storage
    <3>3. QED
      BY <3>1, <3>2
  <2>8. Accrued(r, q) /\ q.lastReinit = r.lastReinit
    BY <1>4, <2>4, <2>5, <2>7
  <2>9. Typed(q)
    BY <2>8 DEF Accrued
  <2>10. Accrued(q, w) /\ w.lastReinit = q.lastReinit
    BY <1>4, <2>5, <2>7, <2>9
  <2>11. Accrued(p, q)
    BY <2>6, <2>8, AccruedTwice
  <2>12. QED
    BY <2>4, <2>8, <2>10, <2>11, AccruedTwice
<1>5. QED
  BY <1>1, <1>3, <1>4

\* accrueInterest is a step of a call.
LEMMA InterestPasses ==
  ASSUME NEW p, Typed(p), NEW e, Priced(e), p.lastReinit <= e.now, NEW u,
         NEW w \in AccrueInterest(p, e)
  PROVE  Passes(p, e, w, u, {})
BY InterestGrows, AccruedPasses

\* liquidate is a step of a call.
LEMMA LiquidationPasses ==
  ASSUME NEW p, Typed(p), NEW e, Priced(e), NEW u, NEW a \in Accounts, NEW w \in Liquidate(p, e, a)
  PROVE  Passes(p, e, w, u, {a}) /\ w.positions[a] = NoPosition
<1>1. p.positions[a].type \in Sides
  BY DEF Liquidate
<1>2. QED
  BY <1>1, LiquidationCloses, ClosesPasses

\* The margin call of a heap's root is a step of a call.
LEMMA RootPasses ==
  ASSUME NEW p, Typed(p), NEW e, Priced(e), NEW side \in Sides, NEW u, NEW r \in ReinitRoot(p, e, side)
  PROVE  Passes(p, e, r.pool, u, r.called)
<1>1. PICK a \in HeapRoots(p.heap[side]) :
        r \in IF a = NoAccount THEN {[pool |-> p, called |-> {}]}
              ELSE {[pool   |-> q,
                     called |-> IF HasBadLeverage(p, e, p.positions[a]) THEN {a} ELSE {}] :
                       q \in ReinitAccount(p, e, a)}
  BY DEF ReinitRoot
<1>2. CASE a = NoAccount
  <2>1. r.pool = p /\ r.called = {}
    BY <1>1, <1>2
  <2>2. QED
    BY <2>1, SamePasses
<1>3. CASE a # NoAccount
  <2>1. PICK q \in ReinitAccount(p, e, a) :
          r = [pool |-> q, called |-> IF HasBadLeverage(p, e, p.positions[a]) THEN {a} ELSE {}]
    BY <1>1, <1>3
  <2>2. a \in Accounts
    BY <1>3 DEF HeapRoots
  <2>3. CASE HasBadLeverage(p, e, p.positions[a])
    <3>1. q \in Liquidate(p, e, a) /\ r.pool = q /\ r.called = {a}
      BY <2>1, <2>3 DEF ReinitAccount
    <3>2. QED
      BY <2>2, <3>1, LiquidationPasses
  <2>4. CASE ~HasBadLeverage(p, e, p.positions[a])
    <3>1. q = p /\ r.pool = q /\ r.called = {}
      BY <2>1, <2>4 DEF ReinitAccount, Require
    <3>2. QED
      BY <3>1, SamePasses
  <2>5. QED
    BY <2>3, <2>4
<1>4. QED
  BY <1>2, <1>3

\* reinit, the accrual and both roots, is a step of a call.
LEMMA ReinitPasses ==
  ASSUME NEW p, Typed(p), NEW e, Priced(e), p.lastReinit <= e.now, NEW u, NEW r \in Reinit(p, e)
  PROVE  Passes(p, e, r.pool, u, r.called)
<1>1. \/ r = [pool |-> p, called |-> {}]
      \/ \E q \in AccrueInterest(p, e) : \E x \in ReinitRoot(q, e, "Short") :
           \E y \in ReinitRoot(x.pool, e, "Long") :
             r = [pool |-> y.pool, called |-> x.called \cup y.called]
  BY DEF Reinit
<1>2. CASE r = [pool |-> p, called |-> {}]
  <2>1. r.pool = p /\ r.called = {}
    BY <1>2
  <2>2. QED
    BY <2>1, SamePasses
<1>3. ASSUME NEW q \in AccrueInterest(p, e), NEW x \in ReinitRoot(q, e, "Short"),
             NEW y \in ReinitRoot(x.pool, e, "Long"),
             r = [pool |-> y.pool, called |-> x.called \cup y.called]
      PROVE  Passes(p, e, r.pool, u, r.called)
  <2>1. r.pool = y.pool /\ r.called = x.called \cup y.called /\ "Short" \in Sides /\ "Long" \in Sides
    BY <1>3 DEF Sides
  <2>2. Passes(p, e, q, u, {})
    BY InterestPasses
  <2>3. Typed(q)
    BY <2>2 DEF Passes
  <2>4. Passes(q, e, x.pool, u, x.called)
    BY <2>1, <2>3, RootPasses
  <2>5. Passes(p, e, x.pool, u, {} \cup x.called)
    BY <2>2, <2>4, PassesTwice
  <2>6. Typed(x.pool)
    BY <2>4 DEF Passes
  <2>7. Passes(x.pool, e, y.pool, u, y.called)
    BY <2>1, <2>6, RootPasses
  <2>8. Passes(p, e, y.pool, u, ({} \cup x.called) \cup y.called)
    BY <2>5, <2>7, PassesTwice
  <2>9. ({} \cup x.called) \cup y.called = x.called \cup y.called
    OBVIOUS
  <2>10. QED
    BY <2>1, <2>8, <2>9
<1>4. QED
  BY <1>1, <1>2, <1>3

----------------------------------------------------------------------------
\* Rounding, and the leverage

\* Products and quotients keep the order.
LEMMA MulDivMonotone ==
  ASSUME NEW a \in Nat, NEW x \in Int, NEW y \in Int, x <= y, NEW n \in Nat \ {0}
  PROVE  MulDiv(a, x, n) <= MulDiv(a, y, n)
<1>1. a * x \in Int /\ a * y \in Int
  BY Products
<1>2. a * (y - x) \in Nat
  BY Products
<1>3. a * (y - x) = a * y - a * x
  OBVIOUS
<1> DEFINE v == a * x
           w == a * y
           d == v \div n
<1>4. v <= w
  BY <1>1, <1>2, <1>3
<1> HIDE DEF v, w
<1>5. d \in Int /\ n * d <= v
  BY <1>1, Quotients DEF v
<1> HIDE DEF d
<1>6. n * d <= w
  BY <1>1, <1>4, <1>5 DEF v, w
<1>7. d <= w \div n
  BY <1>1, <1>5, <1>6, Greatest DEF w
<1>8. QED
  BY <1>7 DEF MulDiv, d, v, w

\* A product of fixed-point numbers is monotone.
LEMMA MulMonotone ==
  ASSUME NEW a \in Nat, NEW x \in Int, NEW y \in Int, x <= y
  PROVE  Mul(a, x) <= Mul(a, y)
BY MulDivMonotone, FixedPointAssumption DEF Mul

\* floor(x) + floor(y) <= floor(x + y)
LEMMA MulSplits ==
  ASSUME NEW a \in Nat, NEW x \in Nat, NEW y \in Nat
  PROVE  Mul(a, x) + Mul(a, y) <= Mul(a, x + y)
<1> DEFINE v == a * x
           w == a * y
           c == v \div Q96
           d == w \div Q96
<1>1. Q96 \in Nat \ {0} /\ v \in Int /\ w \in Int
  BY FixedPointAssumption, Products
<1>2. a * (x + y) = v + w
  OBVIOUS
<1> HIDE DEF v, w
<1>3. c \in Int /\ d \in Int /\ Q96 * c <= v /\ Q96 * d <= w
  BY <1>1, Quotients
<1> HIDE DEF c, d
<1>4. Q96 * (c + d) = Q96 * c + Q96 * d
  BY <1>1, <1>3
<1>5. Q96 * c \in Int /\ Q96 * d \in Int
  BY <1>1, <1>3, Products
<1>6. Q96 * (c + d) <= v + w
  BY <1>1, <1>3, <1>4, <1>5
<1>7. c + d <= (v + w) \div Q96
  BY <1>1, <1>3, <1>6, Greatest
<1>8. QED
  BY <1>2, <1>7 DEF Mul, MulDiv, c, d, v, w

\* Collateral given back for r of the debt takes no more than the deleverage of r.
LEMMA FreedIsCovered ==
  ASSUME NEW k \in Nat \ {0}, NEW a \in Nat, NEW r \in Nat
  PROVE  Mul(k, a - RecipMul(k, r)) >= Mul(k, a) - r
<1> DEFINE f == (Q96 * r) \div k
           v == k * a
           m == v \div Q96
<1>1. Q96 \in Nat \ {0} /\ Q96 * r \in Int /\ v \in Int
  BY FixedPointAssumption, Products
<1>2. f \in Int /\ k * f <= Q96 * r
  BY <1>1, Quotients
<1> HIDE DEF f
<1>3. k * (a - f) = v - k * f
  BY <1>2
<1> HIDE DEF v
<1>4. m \in Int /\ Q96 * m <= v
  BY <1>1, Quotients
<1> HIDE DEF m
<1>5. Q96 * (m - r) = Q96 * m - Q96 * r
  BY <1>1, <1>4
<1>6. k * f \in Int /\ Q96 * m \in Int /\ m - r \in Int
  BY <1>1, <1>2, <1>4, Products
<1>7. Q96 * (m - r) <= v - k * f /\ v - k * f \in Int
  BY <1>1, <1>2, <1>4, <1>5, <1>6
<1>8. m - r <= (v - k * f) \div Q96
  BY <1>1, <1>6, <1>7, Greatest
<1>9. QED
  BY <1>3, <1>8 DEF Mul, MulDiv, RecipMul, f, m, v

\* More collateral and less debt: the leverage falls.
LEMMA LeverageFalls ==
  ASSUME NEW c \in Nat, NEW d \in Nat, c > d, NEW x \in Nat, NEW y \in Nat, x >= c, y <= d
  PROVE  x > y /\ MulDiv(Q96, x, x - y) <= MulDiv(Q96, c, c - d)
<1> DEFINE n == c - d
           k == x - c
           j == (x - c) + (d - y)
           m == (Q96 * x) \div (x - y)
<1>1. Q96 \in Nat \ {0} /\ n \in Nat \ {0} /\ k \in Nat /\ j \in Nat /\ k <= j
      /\ x = c + k /\ x - y = n + j /\ n <= c /\ x - y \in Nat \ {0} /\ x > y
  BY FixedPointAssumption
<1>2. Q96 * x \in Nat /\ Q96 * c \in Nat
  BY <1>1, Products
<1>3. m \in Nat /\ (x - y) * m <= Q96 * x
  BY <1>1, <1>2, Quotients
<1> HIDE DEF n, k, j, m
<1>4. n * m <= Q96 * c
  <2> SUFFICES ASSUME n * m > Q96 * c
               PROVE  FALSE
    <3>1. n * m \in Nat
      BY <1>1, <1>3, Products
    <3>2. QED
      BY <1>2, <3>1
  <2>1. (n + j) * m = n * m + j * m /\ Q96 * (c + k) = Q96 * c + Q96 * k
    BY <1>1, <1>3
  <2>2. n * m \in Nat /\ j * m \in Nat /\ Q96 * k \in Nat /\ Q96 * j \in Nat /\ n * Q96 \in Nat
    BY <1>1, <1>3, Products
  <2>3. j * m < Q96 * k
    <3>1. (n + j) * m <= Q96 * (c + k)
      BY <1>1, <1>3
    <3>2. QED
      BY <1>2, <2>1, <2>2, <3>1
  <2>4. Q96 * k <= Q96 * j
    <3>1. Q96 * (j - k) \in Nat
      BY <1>1, Products
    <3>2. Q96 * (j - k) = Q96 * j - Q96 * k
      BY <1>1
    <3>3. QED
      BY <2>2, <3>1, <3>2
  <2>5. m < Q96
    <3> SUFFICES ASSUME m >= Q96
                 PROVE  FALSE
      BY <1>1, <1>3
    <3>1. j * (m - Q96) \in Nat
      BY <1>1, <1>3, Products
    <3>2. j * (m - Q96) = j * m - Q96 * j
      BY <1>1, <1>3
    <3>3. QED
      BY <2>2, <2>3, <2>4, <3>1, <3>2
  <2>6. n * m <= n * Q96
    <3>1. n * (Q96 - m) \in Nat
      BY <1>1, <1>3, <2>5, Products
    <3>2. n * (Q96 - m) = n * Q96 - n * m
      BY <1>1, <1>3
    <3>3. QED
      BY <2>2, <3>1, <3>2
  <2>7. n * Q96 <= Q96 * c
    <3>1. Q96 * (c - n) \in Nat
      BY <1>1, Products
    <3>2. Q96 * (c - n) = Q96 * c - n * Q96
      BY <1>1
    <3>3. QED
      BY <1>2, <2>2, <3>1, <3>2
  <2>8. QED
    BY <1>2, <2>2, <2>6, <2>7
<1>5. m <= (Q96 * c) \div n
  BY <1>1, <1>2, <1>3, <1>4, Greatest
<1>6. QED
  BY <1>1, <1>5 DEF MulDiv, m, n

\* The fields that an owner's call changes.
TradeFields == {"positions", "discountedCollateral", "discountedDebt", "heap", "balance"}

\* The position s is within the maximal leverage.
Good(p, e, s) == LeverageDefined(p, s) /\ ~HasBadLeverage(p, e, s)

\* The values that a leverage is computed from are numbers.
LEMMA ValuesAre ==
  ASSUME NEW p, Typed(p), NEW e, Priced(e), NEW u \in Accounts, p.positions[u].type \in Sides
  PROVE  /\ DebtValue(p, e, p.positions[u]) \in Nat
         /\ CollateralValue(p, e, p.positions[u]) \in Int
         /\ LeverageDefined(p, p.positions[u]) => CollateralValue(p, e, p.positions[u]) \in Nat
<1> DEFINE s == p.positions[u]
           c == Other(DebtToken(s.type))
<1>1. c \in Tokens /\ "base" \in Tokens /\ "quote" \in Tokens
  BY SidesOwe, OthersAre DEF Tokens
<1>2. /\ p.debtCoeff["base"] \in Nat /\ p.debtCoeff["quote"] \in Nat
      /\ s.amount["base"] \in Nat /\ s.amount["quote"] \in Nat
      /\ e.price \in Nat \ {0} /\ e.price \in Nat
  BY <1>1 DEF Typed, Storage, DebtCoeffs, Holding, Priced
<1>3. PositionCollateral(p, s, c) \in Int
  BY <1>1, Reals
<1>4. LeverageDefined(p, s) => PositionCollateral(p, s, c) \in Nat
  BY <1>3 DEF LeverageDefined
<1>5. DebtValue(p, e, s) \in Nat
  BY <1>1, <1>2, Naturals, Reals DEF DebtValue
<1> HIDE DEF c
<1>6. /\ InQuote(e.price, c, PositionCollateral(p, s, c)) \in Int
      /\ LeverageDefined(p, s) => InQuote(e.price, c, PositionCollateral(p, s, c)) \in Nat
  BY <1>1, <1>2, <1>3, <1>4, Worth
<1>7. CollateralValue(p, e, s) = InQuote(e.price, c, PositionCollateral(p, s, c))
  BY DEF CollateralValue, c
<1>8. QED
  BY <1>5, <1>6, <1>7

\* More collateral, less debt.
LEMMA GoodStays ==
  ASSUME NEW p, Typed(p), NEW e, Priced(e), NEW u \in Accounts, NEW q, Typed(q),
         Agree(p, q, TradeFields),
         p.positions[u].type \in Sides, q.positions[u].type = p.positions[u].type,
         NEW t, t = DebtToken(p.positions[u].type), NEW c, c = Other(t),
         PositionCollateral(q, q.positions[u], c) >= PositionCollateral(p, p.positions[u], c),
         q.positions[u].amount[t] <= p.positions[u].amount[t],
         Good(p, e, p.positions[u])
  PROVE  Good(q, e, q.positions[u])
<1> DEFINE s == p.positions[u]
           r == q.positions[u]
           cs == CollateralValue(p, e, s)
           cr == CollateralValue(q, e, r)
           ds == DebtValue(p, e, s)
           dr == DebtValue(q, e, r)
           ps == PositionCollateral(p, s, c)
           pr == PositionCollateral(q, r, c)
           max == p.params.maxLeverage * Q96
<1>1. /\ q.params = p.params /\ q.debtCoeff = p.debtCoeff
  BY DEF Agree, Fields, TradeFields
<1>2. t \in Tokens /\ c \in Tokens /\ "base" \in Tokens /\ "quote" \in Tokens
  BY SidesOwe, OthersAre DEF Tokens
<1>3. ps \in Int /\ pr \in Int /\ pr >= ps
  BY <1>2, Reals
<1>4. ps >= 0
  BY DEF Good, LeverageDefined
<1>5. LeverageDefined(q, r)
  <2>1. pr >= 0
    BY <1>3, <1>4
  <2> HIDE DEF pr
  <2>2. QED
    BY <2>1 DEF LeverageDefined, pr
<1>6. cs \in Nat /\ cr \in Nat /\ ds \in Nat /\ dr \in Nat
  BY <1>5, ValuesAre DEF Good
<1>7. cr >= cs
  <2>1. cs = InQuote(e.price, c, ps) /\ cr = InQuote(e.price, c, pr)
    BY DEF CollateralValue
  <2> HIDE DEF ps, pr
  <2>2. e.price \in Nat /\ e.price \in Int
    BY PriceIsNat
  <2>3. InQuote(e.price, c, pr) >= InQuote(e.price, c, ps)
    <3>1. CASE c = "base"
      <4>1. Mul(e.price, ps) <= Mul(e.price, pr)
        BY <1>3, <2>2, MulMonotone
      <4>2. Mul(e.price, ps) \in Int /\ Mul(e.price, pr) \in Int
        BY <1>3, <2>2, Whole
      <4>3. QED
        BY <3>1, <4>1, <4>2 DEF InQuote
    <3>2. CASE c # "base"
      BY <1>3, <3>2 DEF InQuote
    <3>3. QED
      BY <3>1, <3>2
  <2>4. QED
    BY <2>1, <2>3
<1>8. dr <= ds
  <2> DEFINE x == r.amount[t]
             y == s.amount[t]
             k == p.debtCoeff["base"]
             l == p.debtCoeff["quote"]
             m == e.price
  <2>1. x \in Nat /\ y \in Nat
    <3>1. s \in Holding(Nat) /\ r \in Holding(Nat)
      BY DEF Typed, Storage
    <3>2. \A h \in Holding(Nat) : h.amount[t] \in Nat
      BY <1>2 DEF Holding
    <3> HIDE DEF s, r
    <3>3. QED
      BY <3>1, <3>2
  <2>2. k \in Nat /\ l \in Nat /\ m \in Nat
    BY <1>2 DEF Typed, Storage, DebtCoeffs, Priced
  <2>3. x <= y
    OBVIOUS
  <2>4. dr = IF s.type = "Short" THEN Mul(Mul(k, m), x) ELSE Mul(l, x)
    <3>1. r.type = s.type /\ q.debtCoeff = p.debtCoeff
      BY <1>1
    <3>2. s.type = "Short" => t = "base"
      BY DEF DebtToken
    <3>3. s.type # "Short" => t = "quote"
      BY DEF DebtToken
    <3>4. QED
      BY <3>1, <3>2, <3>3 DEF DebtValue, RealDebt
  <2>5. ds = IF s.type = "Short" THEN Mul(Mul(k, m), y) ELSE Mul(l, y)
    <3>1. s.type = "Short" => t = "base"
      BY DEF DebtToken
    <3>2. s.type # "Short" => t = "quote"
      BY DEF DebtToken
    <3>3. QED
      BY <3>1, <3>2 DEF DebtValue, RealDebt
  <2> HIDE DEF x, y, k, l, m, dr, ds, s, r
  <2>6. Mul(k, m) \in Nat
    BY <2>2, Naturals
  <2>7. x \in Int /\ y \in Int
    BY <2>1
  <2>8. Mul(Mul(k, m), x) <= Mul(Mul(k, m), y) /\ Mul(l, x) <= Mul(l, y)
    BY <2>2, <2>3, <2>6, <2>7, MulMonotone
  <2>9. QED
    BY <2>4, <2>5, <2>8
<1>9. cs > ds /\ ~(MulDiv(Q96, cs, cs - ds) > max)
  <2>1. ~(cs <= ds) /\ ~(MulDiv(Q96, cs, cs - ds) > max)
    BY DEF Good, HasBadLeverage
  <2> HIDE DEF cs, ds
  <2>2. QED
    BY <1>6, <2>1
<1> HIDE DEF cs, ds, cr, dr
<1>10. cr > dr /\ MulDiv(Q96, cr, cr - dr) <= MulDiv(Q96, cs, cs - ds)
  BY <1>6, <1>7, <1>8, <1>9, LeverageFalls
<1>11. ~(cr <= dr) /\ ~(MulDiv(Q96, cr, cr - dr) > max)
  <2>1. max \in Int
    BY FixedPointAssumption, Products DEF Typed, Storage, Sane
  <2>2. MulDiv(Q96, cr, cr - dr) \in Int /\ MulDiv(Q96, cs, cs - ds) \in Int
    <3>1. Q96 \in Nat /\ cr - dr \in Nat \ {0} /\ cs - ds \in Nat \ {0}
      BY <1>6, <1>9, <1>10, FixedPointAssumption
    <3>2. MulDiv(Q96, cr, cr - dr) \in Nat /\ MulDiv(Q96, cs, cs - ds) \in Nat
      BY <1>6, <3>1, Naturals
    <3>3. QED
      BY <3>2
  <2> HIDE DEF max
  <2>3. QED
    BY <1>6, <1>9, <1>10, <2>1, <2>2
<1>12. ~HasBadLeverage(q, e, r)
  BY <1>1, <1>11 DEF HasBadLeverage, cr, dr
<1>13. QED
  BY <1>5, <1>12 DEF Good

\* An account without debt.
LEMMA LendersAreGood ==
  ASSUME NEW p, NEW e, NEW s, s.type \notin Sides
  PROVE  Good(p, e, s)
BY DEF Good, LeverageDefined, HasBadLeverage

----------------------------------------------------------------------------
\* What the parts of an owner's call do

\* Like Trades, of storage that may be negative for a moment.
Deals(p, q, u) ==
  /\ Loose(q) /\ Agree(p, q, TradeFields)
  /\ \A a \in Accounts \ {u} : q.positions[a] = p.positions[a]
  /\ Paired(p, q, u)

\* A trade is a deal whose amounts are not negative.
LEMMA DealsTrade ==
  ASSUME NEW p, NEW q, NEW u
  PROVE  /\ Typed(q) /\ Deals(p, q, u) => Trades(p, q, u)
         /\ Trades(p, q, u) => Typed(q) /\ Deals(p, q, u)
BY TypedIsLoose DEF Deals, Trades, TradeFields

\* Two deals are one.
LEMMA DealsTwice ==
  ASSUME NEW p, Loose(p), NEW q, NEW r, NEW u \in Accounts, Deals(p, q, u), Deals(q, r, u)
  PROVE  Deals(p, r, u)
<1>1. Paired(p, r, u)
  BY PairedTwice DEF Deals
<1>2. QED
  BY <1>1 DEF Deals, Agree

\* Checked arithmetic makes a deal a trade.
LEMMA UnsignedDeals ==
  ASSUME NEW p, NEW q, NEW u, Deals(p, q, u), NEW r \in Unsigned(q)
  PROVE  Trades(p, r, u)
<1>1. r = q /\ Typed(r)
  BY UnsignedTypes DEF Deals
<1>2. QED
  BY <1>1, DealsTrade

\* A change of the heap is a deal.
LEMMA HeapedDeals ==
  ASSUME NEW p, Typed(p), NEW q, Typed(q), NEW u \in Accounts, Heaped(p, q, u)
  PROVE  Deals(p, q, u)
<1>1. Paired(p, q, u)
  BY HeapedPairs
<1>2. Agree(p, q, TradeFields)
  BY DEF Heaped, Agree, TradeFields
<1>3. QED
  BY <1>1, <1>2, TypedIsLoose DEF Deals, Heaped

\* A payment is a deal.
LEMMA PaidDeals ==
  ASSUME NEW p, Loose(p), NEW q, NEW u \in Accounts, Paid(p, q)
  PROVE  Deals(p, q, u) /\ q.positions = p.positions /\ (Typed(p) => Typed(q))
<1>1. /\ q.positions = p.positions /\ q.discountedDebt = p.discountedDebt
      /\ q.discountedCollateral = p.discountedCollateral
  BY DEF Paid, Agree, Fields
<1>2. Loose(q) /\ (Typed(p) => Typed(q))
  BY PaidStorage
<1>3. Paired(p, q, u)
  BY <1>1, PairedSame
<1>4. Agree(p, q, TradeFields)
  BY DEF Paid, Agree, TradeFields
<1>5. QED
  BY <1>1, <1>2, <1>3, <1>4 DEF Deals

\* What is written adds up, in one token.
Evens(p, u, type, amount, debt, collateral, k) ==
  /\ debt[k] + collateral[k] - amount[k]
       = p.discountedDebt[k] + p.discountedCollateral[k] - p.positions[u].amount[k]
  /\ debt[k] - (IF type = SideOwing(k) THEN amount[k] ELSE 0)
       <= p.discountedDebt[k] - Owed(p, u, k)

\* Assignments that are even, token by token, are a deal.
LEMMA WroteDeals ==
  ASSUME NEW p, Loose(p), NEW q, NEW u \in Accounts, NEW type, NEW amount, NEW debt, NEW collateral,
         Wrote(p, q, u, type, amount, debt, collateral),
         \A k \in Tokens : Evens(p, u, type, amount, debt, collateral, k)
  PROVE  Deals(p, q, u)
<1>1. Paired(p, q, u)
  BY DEF Paired, Wrote, Evens, Owed
<1>2. Loose(q) /\ \A a \in Accounts \ {u} : q.positions[a] = p.positions[a]
  BY DEF Wrote, Edits
<1>3. Agree(p, q, TradeFields)
  BY DEF Wrote, Edits, Agree, TradeFields
<1>4. QED
  BY <1>1, <1>2, <1>3 DEF Deals

\* Credit without debt: a deposit of a lender, or of collateral.
CreditedTo(p, u, t, x) ==
  [p EXCEPT !.positions[u].type = IF @ = "Uninitialized" THEN "Lend" ELSE @,
            !.positions[u].amount[t] = @ + x,
            !.discountedCollateral[t] = @ + x]

\* The real collateral of what a position has.
LEMMA CollateralIs ==
  ASSUME NEW p, NEW s, s.type \in Sides, NEW t, t = DebtToken(s.type), NEW c, c = Other(t)
  PROVE  PositionCollateral(p, s, c) = RealCollateral(p, c, s.amount[c], s.amount[t])
<1>1. s.type = SideOwing(t) /\ t \in Tokens
  BY SidesOwe
<1>2. Other(c) = t
  BY <1>1, OthersAre
<1>3. QED
  BY <1>1, <1>2 DEF PositionCollateral

\* A credit is booked, and does not raise a leverage.
LEMMA CreditTrades ==
  ASSUME NEW p, Typed(p), NEW e, Priced(e), NEW u \in Accounts, NEW t \in Tokens, NEW x \in Nat,
         p.positions[u].type # SideOwing(t), NEW q, q = CreditedTo(p, u, t, x)
  PROVE  Trades(p, q, u) /\ (Good(p, e, p.positions[u]) => Good(q, e, q.positions[u]))
<1> DEFINE s == p.positions[u]
           type == IF s.type = "Uninitialized" THEN "Lend" ELSE s.type
           a == s.amount[t] + x
           b == p.discountedCollateral[t] + x
           c == Other(t)
           amount == Put(s.amount, t, a)
           collateral == Put(p.discountedCollateral, t, b)
<1>1. q = SetCollateral(SetAmount(SetType(p, u, type), u, t, a), t, b)
  BY DEF CreditedTo, SetCollateral, SetAmount, SetType
<1>2. /\ s.type \in PositionTypes /\ type \in PositionTypes /\ type # SideOwing(t)
      /\ s.amount \in [Tokens -> Nat]
      /\ p.discountedCollateral \in [Tokens -> Nat] /\ p.discountedDebt \in [Tokens -> Nat]
  <2>1. s \in Holding(Nat)
    BY DEF Typed, Storage
  <2>2. "Lend" # SideOwing(t) /\ "Lend" \in PositionTypes
    BY DEF SideOwing, PositionTypes
  <2>3. s.type \in PositionTypes /\ s.amount \in [Tokens -> Nat]
    BY <2>1 DEF Holding
  <2>4. QED
    BY <2>2, <2>3 DEF Typed, Storage
<1>3. c \in Tokens /\ c # t /\ \A k \in Tokens : k = t \/ k = c
  BY OthersAre
<1>4. /\ s.amount[t] \in Nat /\ s.amount[c] \in Nat
      /\ p.discountedCollateral[t] \in Nat /\ p.discountedCollateral[c] \in Nat
      /\ p.discountedDebt[t] \in Nat /\ p.discountedDebt[c] \in Nat
  BY <1>2, <1>3
<1>5. a \in Nat /\ b \in Nat /\ a \in Int /\ b \in Int
  BY <1>4
<1> HIDE DEF type
<1>6. Wrote(p, q, u, type, amount, p.discountedDebt, collateral)
  <2> HIDE DEF a, b
  <2>1. QED
    BY <1>1, <1>2, <1>5, TypedIsLoose, NothingWritten, AmountWritten, TypeWritten, CollateralWritten
<1>7. Typed(q)
  <2> HIDE DEF a, b
  <2>1. amount \in [Tokens -> Nat] /\ collateral \in [Tokens -> Nat]
    BY <1>2, <1>5 DEF Put
  <2>2. QED
    BY <1>2, <1>6, <2>1, WroteTypes
<1>8. amount[t] = a /\ amount[c] = s.amount[c]
      /\ collateral[t] = b /\ collateral[c] = p.discountedCollateral[c]
  <2> HIDE DEF a, b
  <2>1. QED
    BY <1>2, <1>3 DEF Put
<1>9. Evens(p, u, type, amount, p.discountedDebt, collateral, t)
  <2>1. Owed(p, u, t) = 0
    BY DEF Owed
  <2> HIDE DEF amount, collateral
  <2>2. QED
    BY <1>2, <1>4, <1>8, <2>1 DEF Evens
<1>10. Evens(p, u, type, amount, p.discountedDebt, collateral, c)
  <2>1. (IF type = SideOwing(c) THEN amount[c] ELSE 0) = Owed(p, u, c) /\ Owed(p, u, c) \in Nat
    <3>1. "Uninitialized" # SideOwing(c) /\ "Lend" # SideOwing(c)
      BY DEF SideOwing
    <3> HIDE DEF amount
    <3>2. QED
      BY <1>4, <1>8, <3>1 DEF Owed, type
  <2> HIDE DEF amount, collateral
  <2>2. QED
    BY <1>4, <1>8, <2>1 DEF Evens
<1> HIDE DEF amount, collateral
<1>11. Deals(p, q, u)
  <2>1. \A k \in Tokens : Evens(p, u, type, amount, p.discountedDebt, collateral, k)
    BY <1>3, <1>9, <1>10
  <2>2. QED
    BY <1>6, <2>1, TypedIsLoose, WroteDeals
<1>12. Trades(p, q, u)
  BY <1>7, <1>11, DealsTrade
<1>13. ASSUME Good(p, e, s)
       PROVE  Good(q, e, q.positions[u])
  <2>1. q.positions[u].type = type /\ q.positions[u].amount = amount
    BY <1>6 DEF Wrote
  <2>2. CASE s.type \notin Sides
    <3>1. type \notin Sides
      BY <2>2 DEF type, Sides
    <3>2. QED
      BY <2>1, <3>1, LendersAreGood
  <2>3. CASE s.type \in Sides
    <3>1. type = s.type
      BY <2>3 DEF type, Sides
    <3>2. DebtToken(s.type) = c /\ Other(c) = t
      BY <1>2, <1>3, <2>3, SidesOwe, OthersAre
    <3>3. /\ PositionCollateral(p, s, t) = RealCollateral(p, t, s.amount[t], s.amount[c])
          /\ PositionCollateral(q, q.positions[u], t)
               = RealCollateral(q, t, q.positions[u].amount[t], q.positions[u].amount[c])
      BY <2>1, <2>3, <3>1, <3>2, CollateralIs
    <3>4. q.collateralCoeff = p.collateralCoeff /\ q.delevCoeff = p.delevCoeff
      BY <1>12 DEF Trades, Agree, Fields
    <3>5. p.collateralCoeff[t] \in Nat /\ p.delevCoeff[t] \in Nat
      BY DEF Typed, Storage
    <3>6. Mul(p.collateralCoeff[t], a) >= Mul(p.collateralCoeff[t], s.amount[t])
      <4> DEFINE y == s.amount[t]
                 k == p.collateralCoeff[t]
      <4>1. y \in Int /\ y <= a /\ k \in Nat /\ k \in Int /\ a \in Int
        BY <1>4, <3>5
      <4> HIDE DEF a, y, k
      <4>2. Mul(k, y) <= Mul(k, a)
        BY <4>1, MulMonotone
      <4>3. Mul(k, y) \in Int /\ Mul(k, a) \in Int
        BY <4>1, Whole
      <4>4. QED
        BY <4>2, <4>3 DEF y, k
    <3>7. PositionCollateral(q, q.positions[u], t) >= PositionCollateral(p, s, t)
      <4> DEFINE m == Mul(p.collateralCoeff[t], a)
                 n == Mul(p.collateralCoeff[t], s.amount[t])
                 l == Mul(p.delevCoeff[t], s.amount[c])
      <4>1. m \in Nat /\ n \in Nat /\ l \in Nat
        BY <1>4, <1>5, <3>5, Naturals
      <4>2. m >= n
        BY <3>6
      <4> HIDE DEF m, n, l, s, a
      <4>3. PositionCollateral(p, s, t) = n - l
        BY <3>3 DEF RealCollateral, m, n, l
      <4>4. PositionCollateral(q, q.positions[u], t) = m - l
        BY <1>8, <2>1, <3>3, <3>4 DEF RealCollateral, m, n, l
      <4>5. QED
        BY <4>1, <4>2, <4>3, <4>4
    <3>8. q.positions[u].amount[c] <= s.amount[c]
      BY <1>4, <1>8, <2>1
    <3>9. Agree(p, q, TradeFields)
      BY <1>11 DEF Deals
    <3>10. QED
      BY <1>7, <1>13, <2>1, <2>3, <3>1, <3>2, <3>7, <3>8, <3>9, GoodStays
  <2>4. QED
    BY <2>2, <2>3
<1>14. QED
  BY <1>12, <1>13
=============================================================================
