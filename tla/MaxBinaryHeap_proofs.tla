----------------------- MODULE MaxBinaryHeap_proofs -----------------------
(***************************************************************************)
(* MaxBinaryHeapLib for any number of accounts, any capacity and any keys. *)
(***************************************************************************)
EXTENDS MaxBinaryHeap, FiniteSetTheorems, WellFoundedInduction, TLAPS

\* The index arithmetic of the heap: a parent lies strictly above its children,
\* which are exactly Left and Right.
LEMMA ParentChild ==
  ASSUME NEW i \in Nat, i # 0
  PROVE  /\ Parent(i) \in Nat
         /\ Parent(i) < i
         /\ i = Left(Parent(i)) \/ i = Right(Parent(i))
  BY SMT DEF Parent, Left, Right

LEMMA ChildParent ==
  ASSUME NEW i \in Nat
  PROVE  /\ Left(i) \in Nat /\ Left(i) > i /\ Parent(Left(i)) = i
         /\ Right(i) \in Nat /\ Right(i) > i /\ Parent(Right(i)) = i
  BY SMT DEF Parent, Left, Right

\* heapifyDown moves to index itself or to one of its children in use, the one
\* with the greatest key of the three.
LEMMA BiggestChild ==
  ASSUME NEW n \in [Indices -> Node], NEW len \in 0 .. Capacity,
         NEW i \in Indices, i < len
  PROVE  LET b == Biggest(n, len, i) IN
         /\ b \in Indices
         /\ b < len
         /\ b = i \/ (b # 0 /\ Parent(b) = i)
         /\ b # i => n[b].key > n[i].key
         /\ \A j \in Indices :
              (j # 0 /\ j < len /\ Parent(j) = i) => n[b].key >= n[j].key
<1>0. i \in Nat /\ len \in Nat
  BY HeapAssumption DEF Indices
<1>1. Left(i) \in Nat /\ Right(i) \in Nat
      /\ Left(i) > i /\ Right(i) > i
      /\ Parent(Left(i)) = i /\ Parent(Right(i)) = i
  BY <1>0, ChildParent
<1>2. \A j \in Indices : n[j].key \in Int
  BY HeapAssumption DEF Node, Keys
<1>3. \A j \in Nat : j < len => j \in Indices
  BY HeapAssumption DEF Indices
<1>4. ASSUME NEW j \in Indices, j # 0, Parent(j) = i
      PROVE  j = Left(i) \/ j = Right(i)
  <2>1. j \in Nat
    BY HeapAssumption DEF Indices
  <2> QED
    BY <1>4, <2>1, ParentChild
<1> DEFINE b == IF Left(i) < len /\ n[Left(i)].key > n[i].key THEN Left(i) ELSE i
           c == IF Right(i) < len /\ n[Right(i)].key > n[b].key THEN Right(i) ELSE b
<1>5. /\ b \in Indices /\ b < len
      /\ b = i \/ b = Left(i)
      /\ b # i => n[b].key > n[i].key
      /\ Left(i) < len => n[b].key >= n[Left(i)].key
  BY <1>0, <1>1, <1>2, <1>3
<1>6. /\ c \in Indices /\ c < len
      /\ c = b \/ c = Right(i)
      /\ c # b => n[c].key > n[b].key
      /\ n[c].key >= n[b].key
      /\ Right(i) < len => n[c].key >= n[Right(i)].key
  <2> HIDE DEF b
  <2> QED
    BY <1>0, <1>1, <1>2, <1>3, <1>5
<1>7. c = Biggest(n, len, i)
  BY DEF Biggest
<1> HIDE DEF b, c
<1>8. c = i \/ (c # 0 /\ Parent(c) = i)
  BY <1>0, <1>1, <1>5, <1>6
<1>9. c # i => n[c].key > n[i].key
  BY <1>2, <1>5, <1>6
<1>10. ASSUME NEW j \in Indices, j # 0, j < len, Parent(j) = i
       PROVE  n[c].key >= n[j].key
  BY <1>0, <1>1, <1>2, <1>3, <1>4, <1>5, <1>6, <1>10
<1> QED
  BY <1>6, <1>7, <1>8, <1>9, <1>10

-----------------------------------------------------------------------------
(***************************************************************************)
(* The structure: types, the loop's index and the pointers.  TypeOK alone  *)
(* is not inductive: remove and update start their loop at heapPosition-1, *)
(* an index only because the pointers are consistent.                      *)
(***************************************************************************)
Structure == TypeOK /\ LoopIndexInUse /\ PointersLead /\ NodesOwned

LEMMA StructureInit == Init => Structure
  BY HeapAssumption, SMTT(30)
  DEF Init, Structure, TypeOK, LoopIndexInUse, PointersLead, NodesOwned,
      Indices, Node, EmptyNode, Keys

\* The types of the structure and the indices in use, as facts that need no
\* expansion of the sets.
LEMMA StructureFacts ==
  ASSUME Structure
  PROVE  /\ nodes \in [Heaps -> [Indices -> Node]]
         /\ length \in [Heaps -> 0 .. Capacity]
         /\ heapPosition \in [Accounts -> 0 .. Capacity]
         /\ side \in [Accounts -> Heaps \cup {NoHeap}]
         /\ curHeap \in Heaps /\ index \in Indices
         /\ \A h \in Heaps : length[h] \in Nat /\ length[h] <= Capacity
         /\ \A i \in Indices : i \in Nat /\ i < Capacity /\ i + 1 \in 0 .. Capacity
         /\ \A a \in Accounts : side[a] \in Heaps =>
              /\ heapPosition[a] - 1 \in Indices
              /\ heapPosition[a] \in Nat
              /\ heapPosition[a] \in 1 .. length[side[a]]
              /\ heapPosition[a] - 1 < length[side[a]]
              /\ nodes[side[a]][heapPosition[a] - 1].account = a
         /\ \A h \in Heaps, i \in Indices : i < length[h] =>
              /\ nodes[h][i].account \in Accounts
              /\ side[nodes[h][i].account] = h
              /\ heapPosition[nodes[h][i].account] = i + 1
<1>1. TypeOK /\ PointersLead /\ NodesOwned
  BY DEF Structure
<1>2. /\ nodes \in [Heaps -> [Indices -> Node]]
      /\ length \in [Heaps -> 0 .. Capacity]
      /\ heapPosition \in [Accounts -> 0 .. Capacity]
      /\ side \in [Accounts -> Heaps \cup {NoHeap}]
      /\ curHeap \in Heaps /\ index \in Indices
  BY <1>1 DEF TypeOK
<1>3. \A h \in Heaps : length[h] \in Nat /\ length[h] <= Capacity
  BY <1>2, HeapAssumption
<1>4. \A i \in Indices : i \in Nat /\ i < Capacity /\ i + 1 \in 0 .. Capacity
  BY HeapAssumption DEF Indices
<1>5. ASSUME NEW a \in Accounts, side[a] \in Heaps
      PROVE  /\ heapPosition[a] - 1 \in Indices
             /\ heapPosition[a] \in Nat
             /\ heapPosition[a] \in 1 .. length[side[a]]
             /\ heapPosition[a] - 1 < length[side[a]]
             /\ nodes[side[a]][heapPosition[a] - 1].account = a
  <2>1. /\ heapPosition[a] \in 1 .. length[side[a]]
        /\ nodes[side[a]][heapPosition[a] - 1].account = a
    BY <1>1, <1>5, HeapAssumption DEF PointersLead
  <2> QED
    BY <1>3, <1>5, <2>1, HeapAssumption DEF Indices
<1> QED
  BY <1>1, <1>2, <1>3, <1>4, <1>5 DEF NodesOwned

LEMMA InsertStructure ==
  ASSUME Structure, NEW h \in Heaps, NEW a \in Accounts, NEW k \in Keys,
         Insert(h, a, k)
  PROVE  Structure'
<1> DEFINE len == length[h]
<1>1. /\ nodes' = [nodes EXCEPT ![h][len] = [key |-> k, account |-> a]]
      /\ heapPosition' = [heapPosition EXCEPT ![a] = len + 1]
      /\ length' = [length EXCEPT ![h] = @ + 1]
      /\ side' = [side EXCEPT ![a] = h]
      /\ pc' = "up" /\ curHeap' = h /\ index' = len
      /\ side[a] = NoHeap /\ len < Capacity
  BY DEF Insert, StartLoop
<1>2. len \in Nat /\ len \in Indices /\ len = length[h] /\ len + 1 \in 0 .. Capacity
      /\ len + 1 \in 1 .. len + 1
  BY <1>1, StructureFacts, HeapAssumption DEF Indices
<1> HIDE DEF len
<1>3. /\ heapPosition'[a] = len + 1
      /\ \A b \in Accounts : b # a => heapPosition'[b] = heapPosition[b]
      /\ side'[a] = h
      /\ \A b \in Accounts : b # a => side'[b] = side[b]
  BY <1>1, StructureFacts
<1>4. length'[h] = len + 1 /\ \A g \in Heaps : g # h => length'[g] = length[g]
  BY <1>1, <1>2, StructureFacts
<1>5. /\ nodes'[h][len].account = a
      /\ \A g \in Heaps, m \in Indices :
           ~(g = h /\ m = len) => nodes'[g][m] = nodes[g][m]
  BY <1>1, <1>2, StructureFacts
<1>6. TypeOK'
  <2>1. [key |-> k, account |-> a] \in Node
    BY DEF Node
  <2>2. nodes' \in [Heaps -> [Indices -> Node]]
    BY <1>1, <1>2, <2>1, StructureFacts
  <2>3. /\ heapPosition' \in [Accounts -> 0 .. Capacity]
        /\ length' \in [Heaps -> 0 .. Capacity]
        /\ side' \in [Accounts -> Heaps \cup {NoHeap}]
    BY <1>1, <1>2, StructureFacts
  <2> QED
    BY <1>1, <1>2, <2>2, <2>3 DEF TypeOK
<1>7. LoopIndexInUse'
  BY <1>1, <1>2, <1>4 DEF LoopIndexInUse
<1>8. PointersLead'
  <2> SUFFICES ASSUME NEW b \in Accounts
               PROVE  IF side'[b] = NoHeap
                      THEN heapPosition'[b] = 0
                      ELSE /\ heapPosition'[b] \in 1 .. length'[side'[b]]
                           /\ nodes'[side'[b]][heapPosition'[b] - 1].account = b
    BY DEF PointersLead
  <2>1. CASE b = a
    <3>1. heapPosition'[b] - 1 = len /\ heapPosition'[b] \in 1 .. length'[h]
      BY <1>2, <1>3, <1>4, <2>1
    <3> QED
      BY <1>3, <1>5, <2>1, <3>1, HeapAssumption
  <2>2. CASE b # a /\ side[b] = NoHeap
    BY <1>3, <2>2 DEF Structure, PointersLead
  <2>3. CASE b # a /\ side[b] # NoHeap
    <3>1. side[b] \in Heaps /\ side'[b] = side[b] /\ heapPosition'[b] = heapPosition[b]
      BY <1>3, <2>3, StructureFacts
    <3>2. /\ heapPosition[b] \in 1 .. length[side[b]] /\ heapPosition[b] - 1 \in Indices
          /\ heapPosition[b] \in Nat /\ length[side[b]] \in Nat
          /\ nodes[side[b]][heapPosition[b] - 1].account = b
      BY <3>1, StructureFacts
    <3>3. ~(side[b] = h /\ heapPosition[b] - 1 = len)
      BY <1>2, <3>2
    <3>4. heapPosition[b] \in 1 .. length'[side[b]]
      BY <1>2, <1>4, <3>1, <3>2
    <3> QED
      BY <1>5, <2>3, <3>1, <3>2, <3>3, <3>4
  <2> QED
    BY <2>1, <2>2, <2>3
<1>9. NodesOwned'
  <2> SUFFICES ASSUME NEW g \in Heaps, NEW m \in Indices, m < length'[g]
               PROVE  /\ nodes'[g][m].account \in Accounts
                      /\ side'[nodes'[g][m].account] = g
                      /\ heapPosition'[nodes'[g][m].account] = m + 1
    BY DEF NodesOwned
  <2>1. CASE g = h /\ m = len
    BY <1>3, <1>5, <2>1
  <2>2. CASE ~(g = h /\ m = len)
    <3>n. nodes'[g][m] = nodes[g][m]
      BY <1>5, <2>2
    <3>i. m \in Nat
      BY StructureFacts
    <3>l. m < length[g]
      <4>1. CASE g = h
        <5>1. length'[g] = len + 1 /\ length[g] = len /\ m # len
          BY <1>2, <1>4, <2>2, <4>1
        <5> QED
          BY <1>2, <3>i, <5>1
      <4>2. CASE g # h
        BY <1>4, <4>2
      <4> QED
        BY <4>1, <4>2
    <3>1. m < length[g] /\ nodes'[g][m] = nodes[g][m]
      BY <3>n, <3>l
    <3>2. /\ nodes[g][m].account \in Accounts
          /\ side[nodes[g][m].account] = g
          /\ heapPosition[nodes[g][m].account] = m + 1
      BY <3>1, StructureFacts
    <3> QED
      BY <1>1, <1>3, <3>1, <3>2, HeapAssumption
  <2> QED
    BY <2>1, <2>2
<1> QED
  BY <1>6, <1>7, <1>8, <1>9 DEF Structure

LEMMA UpdateStructure ==
  ASSUME Structure, NEW h \in Heaps, NEW a \in Accounts, NEW k \in Keys,
         Update(h, a, k)
  PROVE  Structure'
<1> DEFINE i == heapPosition[a] - 1
           new == [nodes[h][i] EXCEPT !.key = k]
<1>1. /\ nodes' = [nodes EXCEPT ![h][i] = new]
      /\ pc' \in {"up", "down"} /\ curHeap' = h /\ index' = i
      /\ UNCHANGED <<length, heapPosition, side>>
      /\ side[a] = h
  BY DEF Update, StartLoop
<1>2. i \in Indices /\ i \in Nat /\ i < length[h]
  BY <1>1, StructureFacts
<1> HIDE DEF i
<1>3. nodes[h][i] \in Node
  BY <1>2, StructureFacts
<1>4. new \in Node /\ new.account = nodes[h][i].account
  BY <1>3 DEF Node
<1> HIDE DEF new
<1>5. nodes' \in [Heaps -> [Indices -> Node]]
  BY <1>1, <1>2, <1>4, StructureFacts
<1>6. \A g \in Heaps, m \in Indices : nodes'[g][m].account = nodes[g][m].account
  <2> SUFFICES ASSUME NEW g \in Heaps, NEW m \in Indices
               PROVE  nodes'[g][m].account = nodes[g][m].account
    OBVIOUS
  <2>1. CASE g = h /\ m = i
    BY <1>1, <1>2, <1>4, <2>1, StructureFacts
  <2>2. CASE ~(g = h /\ m = i)
    BY <1>1, <1>2, <2>2, StructureFacts
  <2> QED
    BY <2>1, <2>2
<1>7. TypeOK'
  BY <1>1, <1>2, <1>5, StructureFacts DEF TypeOK
<1>8. LoopIndexInUse'
  BY <1>1, <1>2 DEF LoopIndexInUse
<1>9. PointersLead'
  <2> SUFFICES ASSUME NEW b \in Accounts
               PROVE  IF side'[b] = NoHeap
                      THEN heapPosition'[b] = 0
                      ELSE /\ heapPosition'[b] \in 1 .. length'[side'[b]]
                           /\ nodes'[side'[b]][heapPosition'[b] - 1].account = b
    BY DEF PointersLead
  <2>1. CASE side[b] = NoHeap
    BY <1>1, <2>1 DEF Structure, PointersLead
  <2>2. CASE side[b] # NoHeap
    <3>1. side[b] \in Heaps
      BY <2>2, StructureFacts
    <3> QED
      BY <1>1, <1>6, <2>2, <3>1, StructureFacts
  <2> QED
    BY <2>1, <2>2
<1>10. NodesOwned'
  <2> SUFFICES ASSUME NEW g \in Heaps, NEW m \in Indices, m < length'[g]
               PROVE  /\ nodes'[g][m].account \in Accounts
                      /\ side'[nodes'[g][m].account] = g
                      /\ heapPosition'[nodes'[g][m].account] = m + 1
    BY DEF NodesOwned
  <2> QED
    BY <1>1, <1>6, StructureFacts
<1> QED
  BY <1>7, <1>8, <1>9, <1>10 DEF Structure

\* The last node takes the place of a removed one that was not the last.
LEMMA RemoveInnerStructure ==
  ASSUME Structure, NEW h \in Heaps, NEW a \in Accounts, Remove(h, a),
         length[h] - 1 # heapPosition[a] - 1
  PROVE  Structure'
<1> DEFINE i == heapPosition[a] - 1
           last == length[h] - 1
           mover == nodes[h][last].account
<1>1. /\ heapPosition' = [heapPosition EXCEPT ![nodes[h][i].account] = 0, ![mover] = i + 1]
      /\ nodes' = [nodes EXCEPT ![h][i] = nodes[h][last], ![h][last] = EmptyNode]
      /\ length' = [length EXCEPT ![h] = last]
      /\ side' = [side EXCEPT ![a] = NoHeap]
      /\ pc' \in {"up", "down"} /\ curHeap' = h /\ index' = i
      /\ side[a] = h
  BY DEF Remove, StartLoop
<1>2. /\ i \in Indices /\ i \in Nat /\ nodes[h][i].account = a
      /\ last \in Indices /\ last \in Nat /\ i < last
      /\ length[h] = last + 1 /\ last <= Capacity /\ heapPosition[a] = i + 1
      /\ last \in 0 .. Capacity
  <2>1. i \in Indices /\ i \in Nat /\ i < length[h] /\ nodes[h][i].account = a
        /\ heapPosition[a] \in Nat
    BY <1>1, StructureFacts
  <2>2. length[h] \in Nat /\ length[h] <= Capacity
    BY StructureFacts
  <2> QED
    BY <2>1, <2>2, HeapAssumption DEF Indices
<1> HIDE DEF i, last
<1>3. mover \in Accounts /\ mover # a /\ side[mover] = h /\ heapPosition[mover] = last + 1
  BY <1>2, StructureFacts
<1>4. nodes[h][last] \in Node /\ EmptyNode \in Node
  BY <1>2, StructureFacts, HeapAssumption DEF EmptyNode, Node, Keys
<1>m. mover = nodes[h][last].account
  OBVIOUS
<1> HIDE DEF mover
<1>5. heapPosition' = [heapPosition EXCEPT ![a] = 0, ![mover] = i + 1]
  BY <1>1, <1>2
<1>6. /\ heapPosition'[a] = 0 /\ heapPosition'[mover] = i + 1
      /\ \A b \in Accounts : b # a /\ b # mover => heapPosition'[b] = heapPosition[b]
  BY <1>3, <1>5, StructureFacts
<1>7. /\ side'[a] = NoHeap
      /\ \A b \in Accounts : b # a => side'[b] = side[b]
  BY <1>1, StructureFacts
<1>8. length'[h] = last /\ \A g \in Heaps : g # h => length'[g] = length[g]
  BY <1>1, StructureFacts
<1>9. /\ nodes'[h][i] = nodes[h][last]
      /\ \A g \in Heaps, m \in Indices :
           ~(g = h /\ m \in {i, last}) => nodes'[g][m] = nodes[g][m]
  BY <1>1, <1>2, StructureFacts
<1>10. TypeOK'
  <2>1. nodes' \in [Heaps -> [Indices -> Node]]
    BY <1>1, <1>2, <1>4, StructureFacts
  <2>2. heapPosition' \in [Accounts -> 0 .. Capacity]
    <3>1. i + 1 \in 0 .. Capacity /\ 0 \in 0 .. Capacity
      BY <1>2, StructureFacts, HeapAssumption
    <3> QED
      BY <1>5, <3>1, StructureFacts
  <2>3. length' \in [Heaps -> 0 .. Capacity]
    BY <1>1, <1>2, StructureFacts
  <2>4. side' \in [Accounts -> Heaps \cup {NoHeap}]
    BY <1>1, StructureFacts
  <2> QED
    BY <1>1, <1>2, <2>1, <2>2, <2>3, <2>4 DEF TypeOK
<1>11. LoopIndexInUse'
  BY <1>1, <1>2, <1>8 DEF LoopIndexInUse
<1>12. PointersLead'
  <2> SUFFICES ASSUME NEW b \in Accounts
               PROVE  IF side'[b] = NoHeap
                      THEN heapPosition'[b] = 0
                      ELSE /\ heapPosition'[b] \in 1 .. length'[side'[b]]
                           /\ nodes'[side'[b]][heapPosition'[b] - 1].account = b
    BY DEF PointersLead
  <2>1. CASE b = a
    BY <1>6, <1>7, <2>1
  <2>2. CASE b = mover
    <3>1. side'[b] = h /\ heapPosition'[b] = i + 1 /\ length'[h] = last
      BY <1>3, <1>6, <1>7, <1>8, <2>2
    <3>2. heapPosition'[b] - 1 = i /\ heapPosition'[b] \in 1 .. last
      BY <1>2, <3>1
    <3> QED
      BY <1>9, <1>m, <2>2, <3>1, <3>2, HeapAssumption
  <2>3. CASE b # a /\ b # mover /\ side[b] = NoHeap
    BY <1>6, <1>7, <2>3 DEF Structure, PointersLead
  <2>4. CASE b # a /\ b # mover /\ side[b] # NoHeap
    <3>1. side[b] \in Heaps /\ side'[b] = side[b] /\ heapPosition'[b] = heapPosition[b]
      BY <1>6, <1>7, <2>4, StructureFacts
    <3>2. /\ heapPosition[b] \in 1 .. length[side[b]] /\ heapPosition[b] - 1 \in Indices
          /\ heapPosition[b] \in Nat
          /\ nodes[side[b]][heapPosition[b] - 1].account = b
      BY <3>1, StructureFacts
    <3>3. ~(side[b] = h /\ heapPosition[b] - 1 \in {i, last})
      BY <1>2, <1>m, <2>4, <3>2
    <3>4. nodes'[side[b]][heapPosition[b] - 1].account = b
      BY <1>9, <3>1, <3>2, <3>3
    <3>5. heapPosition[b] \in 1 .. length'[side[b]]
      <4>1. CASE side[b] = h
        BY <1>2, <1>8, <3>2, <3>3, <4>1
      <4>2. CASE side[b] # h
        BY <1>8, <3>1, <3>2, <4>2
      <4> QED
        BY <4>1, <4>2
    <3> QED
      BY <2>4, <3>1, <3>4, <3>5
  <2> QED
    BY <2>1, <2>2, <2>3, <2>4
<1>13. NodesOwned'
  <2> SUFFICES ASSUME NEW g \in Heaps, NEW m \in Indices, m < length'[g]
               PROVE  /\ nodes'[g][m].account \in Accounts
                      /\ side'[nodes'[g][m].account] = g
                      /\ heapPosition'[nodes'[g][m].account] = m + 1
    BY DEF NodesOwned
  <2>1. CASE g = h /\ m = i
    BY <1>3, <1>6, <1>7, <1>9, <1>m, <2>1
  <2>2. CASE ~(g = h /\ m = i)
    <3>1. m \in Nat /\ m < length[g] /\ ~(g = h /\ m \in {i, last})
      BY <1>2, <1>8, <2>2, StructureFacts
    <3>2. nodes'[g][m] = nodes[g][m]
      BY <1>9, <3>1
    <3>3. /\ nodes[g][m].account \in Accounts
          /\ side[nodes[g][m].account] = g
          /\ heapPosition[nodes[g][m].account] = m + 1
      BY <3>1, StructureFacts
    <3>4. nodes[g][m].account # a /\ nodes[g][m].account # mover
      BY <1>1, <1>2, <1>3, <3>1, <3>3
    <3> QED
      BY <1>6, <1>7, <3>2, <3>3, <3>4
  <2> QED
    BY <2>1, <2>2
<1> QED
  BY <1>10, <1>11, <1>12, <1>13 DEF Structure

LEMMA RemoveStructure ==
  ASSUME Structure, NEW h \in Heaps, NEW a \in Accounts, Remove(h, a)
  PROVE  Structure'
<1> DEFINE i == heapPosition[a] - 1
           last == length[h] - 1
<1>1. CASE last = i
  <2>1. /\ heapPosition' = [heapPosition EXCEPT ![nodes[h][i].account] = 0]
        /\ nodes' = [nodes EXCEPT ![h][last] = EmptyNode]
        /\ length' = [length EXCEPT ![h] = last]
        /\ side' = [side EXCEPT ![a] = NoHeap]
        /\ pc = "idle" /\ UNCHANGED <<pc, curHeap, index>>
        /\ side[a] = h
    BY <1>1 DEF Remove
  <2>2. /\ last \in Indices /\ last \in Nat /\ nodes[h][last].account = a
        /\ length[h] = last + 1 /\ last \in 0 .. Capacity /\ heapPosition[a] = last + 1
    <3>1. i \in Indices /\ i \in Nat /\ nodes[h][i].account = a /\ heapPosition[a] \in Nat
          /\ i < Capacity
      BY <2>1, StructureFacts
    <3> QED
      BY <1>1, <3>1, StructureFacts, HeapAssumption
  <2>a. nodes[h][i].account = a
    BY <1>1, <2>2
  <2> HIDE DEF i, last
  <2>3. /\ heapPosition'[a] = 0
        /\ \A b \in Accounts : b # a => heapPosition'[b] = heapPosition[b]
        /\ side'[a] = NoHeap
        /\ \A b \in Accounts : b # a => side'[b] = side[b]
    BY <2>1, <2>a, StructureFacts
  <2>4. length'[h] = last /\ \A g \in Heaps : g # h => length'[g] = length[g]
    BY <2>1, StructureFacts
  <2>5. \A g \in Heaps, m \in Indices :
          ~(g = h /\ m = last) => nodes'[g][m] = nodes[g][m]
    BY <2>1, <2>2, StructureFacts
  <2>6. TypeOK'
    <3>1. EmptyNode \in Node
      BY HeapAssumption DEF EmptyNode, Node, Keys
    <3>2. nodes' \in [Heaps -> [Indices -> Node]]
      BY <2>1, <2>2, <3>1, StructureFacts
    <3>3. heapPosition' \in [Accounts -> 0 .. Capacity]
      BY <2>1, <2>a, StructureFacts, HeapAssumption
    <3>4. /\ length' \in [Heaps -> 0 .. Capacity]
          /\ side' \in [Accounts -> Heaps \cup {NoHeap}]
      BY <2>1, <2>2, StructureFacts
    <3> QED
      BY <2>1, <3>2, <3>3, <3>4, StructureFacts DEF TypeOK
  <2>7. LoopIndexInUse'
    BY <2>1 DEF LoopIndexInUse
  <2>8. PointersLead'
    <3> SUFFICES ASSUME NEW b \in Accounts
                 PROVE  IF side'[b] = NoHeap
                        THEN heapPosition'[b] = 0
                        ELSE /\ heapPosition'[b] \in 1 .. length'[side'[b]]
                             /\ nodes'[side'[b]][heapPosition'[b] - 1].account = b
      BY DEF PointersLead
    <3>1. CASE b = a \/ side[b] = NoHeap
      BY <2>3, <3>1 DEF Structure, PointersLead
    <3>2. CASE b # a /\ side[b] # NoHeap
      <4>1. side[b] \in Heaps /\ side'[b] = side[b] /\ heapPosition'[b] = heapPosition[b]
        BY <2>3, <3>2, StructureFacts
      <4>2. /\ heapPosition[b] \in 1 .. length[side[b]] /\ heapPosition[b] - 1 \in Indices
            /\ heapPosition[b] \in Nat
            /\ nodes[side[b]][heapPosition[b] - 1].account = b
        BY <4>1, StructureFacts
      <4>3. ~(side[b] = h /\ heapPosition[b] - 1 = last)
        BY <2>2, <3>2, <4>2
      <4>4. heapPosition[b] \in 1 .. length'[side[b]]
        <5>1. CASE side[b] = h
          BY <2>2, <2>4, <4>2, <4>3, <5>1
        <5>2. CASE side[b] # h
          BY <2>4, <4>1, <4>2, <5>2
        <5> QED
          BY <5>1, <5>2
      <4> QED
        BY <2>5, <3>2, <4>1, <4>2, <4>3, <4>4
    <3> QED
      BY <3>1, <3>2
  <2>9. NodesOwned'
    <3> SUFFICES ASSUME NEW g \in Heaps, NEW m \in Indices, m < length'[g]
                 PROVE  /\ nodes'[g][m].account \in Accounts
                        /\ side'[nodes'[g][m].account] = g
                        /\ heapPosition'[nodes'[g][m].account] = m + 1
      BY DEF NodesOwned
    <3>1. m \in Nat /\ m < length[g] /\ ~(g = h /\ m = last)
      BY <2>2, <2>4, StructureFacts
    <3>2. nodes'[g][m] = nodes[g][m]
      BY <2>5, <3>1
    <3>3. /\ nodes[g][m].account \in Accounts
          /\ side[nodes[g][m].account] = g
          /\ heapPosition[nodes[g][m].account] = m + 1
      BY <3>1, StructureFacts
    <3>4. nodes[g][m].account # a
      BY <2>1, <2>2, <3>1, <3>3
    <3> QED
      BY <2>3, <3>2, <3>3, <3>4
  <2> QED
    BY <2>6, <2>7, <2>8, <2>9 DEF Structure
<1>2. CASE last # i
  BY <1>2, RemoveInnerStructure
<1> QED
  BY <1>1, <1>2

LEMMA UpdateAccountStructure ==
  ASSUME Structure, NEW h \in Heaps, NEW a \in Accounts, NEW b \in Accounts,
         UpdateAccount(h, a, b)
  PROVE  Structure'
<1> DEFINE i == heapPosition[a] - 1
           new == [nodes[h][i] EXCEPT !.account = b]
<1>1. /\ nodes' = [nodes EXCEPT ![h][i].account = b]
      /\ heapPosition' = [heapPosition EXCEPT ![a] = 0, ![b] = heapPosition[a]]
      /\ side' = [side EXCEPT ![a] = NoHeap, ![b] = h]
      /\ UNCHANGED <<length, pc, curHeap, index>>
      /\ side[a] = h /\ side[b] = NoHeap
  BY DEF UpdateAccount
<1>2. /\ i \in Indices /\ i \in Nat /\ heapPosition[a] = i + 1 /\ i + 1 \in 1 .. length[h]
      /\ nodes[h][i].account = a /\ a # b /\ nodes[h][i] \in Node
      /\ i + 1 \in 0 .. Capacity
  BY <1>1, StructureFacts, HeapAssumption
<1>3. new \in Node /\ new.account = b
  BY <1>2 DEF Node
<1>4. nodes' = [nodes EXCEPT ![h] = [nodes[h] EXCEPT ![i] = new]]
  BY <1>1, <1>2, StructureFacts
<1> HIDE DEF i, new
<1>5. /\ nodes'[h][i].account = b
      /\ \A g \in Heaps, m \in Indices : ~(g = h /\ m = i) => nodes'[g][m] = nodes[g][m]
  BY <1>2, <1>3, <1>4, StructureFacts
<1>6. /\ heapPosition'[a] = 0 /\ heapPosition'[b] = i + 1
      /\ \A c \in Accounts : c # a /\ c # b => heapPosition'[c] = heapPosition[c]
      /\ side'[a] = NoHeap /\ side'[b] = h
      /\ \A c \in Accounts : c # a /\ c # b => side'[c] = side[c]
  BY <1>1, <1>2, StructureFacts
<1>7. TypeOK'
  <2>1. nodes' \in [Heaps -> [Indices -> Node]]
    BY <1>2, <1>3, <1>4, StructureFacts
  <2>2. heapPosition' \in [Accounts -> 0 .. Capacity]
    BY <1>1, <1>2, StructureFacts, HeapAssumption
  <2>3. side' \in [Accounts -> Heaps \cup {NoHeap}]
    BY <1>1, StructureFacts
  <2> QED
    BY <1>1, <2>1, <2>2, <2>3 DEF Structure, TypeOK
<1>8. LoopIndexInUse'
  BY <1>1 DEF Structure, LoopIndexInUse
<1>9. PointersLead'
  <2> SUFFICES ASSUME NEW c \in Accounts
               PROVE  IF side'[c] = NoHeap
                      THEN heapPosition'[c] = 0
                      ELSE /\ heapPosition'[c] \in 1 .. length'[side'[c]]
                           /\ nodes'[side'[c]][heapPosition'[c] - 1].account = c
    BY DEF PointersLead
  <2>1. CASE c = a
    BY <1>6, <2>1
  <2>2. CASE c = b
    <3>1. heapPosition'[c] - 1 = i /\ heapPosition'[c] \in 1 .. length'[h]
      BY <1>1, <1>2, <1>6, <2>2
    <3> QED
      BY <1>5, <1>6, <2>2, <3>1, HeapAssumption
  <2>3. CASE c # a /\ c # b /\ side[c] = NoHeap
    BY <1>6, <2>3 DEF Structure, PointersLead
  <2>4. CASE c # a /\ c # b /\ side[c] # NoHeap
    <3>1. side[c] \in Heaps /\ side'[c] = side[c] /\ heapPosition'[c] = heapPosition[c]
      BY <1>6, <2>4, StructureFacts
    <3>2. /\ heapPosition[c] \in 1 .. length[side[c]] /\ heapPosition[c] - 1 \in Indices
          /\ nodes[side[c]][heapPosition[c] - 1].account = c
      BY <3>1, StructureFacts
    <3>3. ~(side[c] = h /\ heapPosition[c] - 1 = i)
      BY <1>2, <2>4, <3>2
    <3> QED
      BY <1>1, <1>5, <2>4, <3>1, <3>2, <3>3
  <2> QED
    BY <2>1, <2>2, <2>3, <2>4
<1>10. NodesOwned'
  <2> SUFFICES ASSUME NEW g \in Heaps, NEW m \in Indices, m < length[g]
               PROVE  /\ nodes'[g][m].account \in Accounts
                      /\ side'[nodes'[g][m].account] = g
                      /\ heapPosition'[nodes'[g][m].account] = m + 1
    BY <1>1 DEF NodesOwned
  <2>1. CASE g = h /\ m = i
    BY <1>5, <1>6, <2>1
  <2>2. CASE ~(g = h /\ m = i)
    <3>1. /\ nodes[g][m].account \in Accounts
          /\ side[nodes[g][m].account] = g
          /\ heapPosition[nodes[g][m].account] = m + 1
          /\ m \in Nat
      BY StructureFacts
    <3>2. nodes[g][m].account # a /\ nodes[g][m].account # b
      BY <1>1, <1>2, <2>2, <3>1, HeapAssumption
    <3> QED
      BY <1>5, <1>6, <2>2, <3>1, <3>2
  <2> QED
    BY <2>1, <2>2
<1> QED
  BY <1>7, <1>8, <1>9, <1>10 DEF Structure

\* Both loops move nodes by Swap only.
LEMMA SwapStructure ==
  ASSUME Structure, NEW h \in Heaps, NEW i \in Indices, NEW j \in Indices,
         i < length[h], j < length[h], i # j, Swap(h, i, j),
         UNCHANGED <<length, side, pc, curHeap>>, curHeap = h, index' = j
  PROVE  Structure'
<1> DEFINE x == nodes[h][i].account
           y == nodes[h][j].account
<1>0. /\ x \in Accounts /\ side[x] = h /\ heapPosition[x] = i + 1
      /\ y \in Accounts /\ side[y] = h /\ heapPosition[y] = j + 1
      /\ x # y
      /\ i \in Nat /\ j \in Nat /\ i + 1 \in 1 .. length[h] /\ j + 1 \in 1 .. length[h]
      /\ i + 1 \in 0 .. Capacity /\ j + 1 \in 0 .. Capacity
      /\ nodes[h][i] \in Node /\ nodes[h][j] \in Node
  <2>1. i \in Nat /\ j \in Nat /\ length[h] \in Nat /\ length[h] <= Capacity
    BY StructureFacts
  <2>2. /\ x \in Accounts /\ side[x] = h /\ heapPosition[x] = i + 1
        /\ y \in Accounts /\ side[y] = h /\ heapPosition[y] = j + 1
    BY StructureFacts
  <2>3. nodes[h][i] \in Node /\ nodes[h][j] \in Node
    BY StructureFacts
  <2>4. /\ i + 1 \in 1 .. length[h] /\ j + 1 \in 1 .. length[h]
        /\ i + 1 \in 0 .. Capacity /\ j + 1 \in 0 .. Capacity
    BY <2>1, HeapAssumption
  <2> HIDE DEF x, y
  <2>5. x # y
    BY <2>1, <2>2
  <2> QED
    BY <2>1, <2>2, <2>3, <2>4, <2>5
<1>1. /\ heapPosition' = [heapPosition EXCEPT ![x] = j + 1, ![y] = i + 1]
      /\ nodes' = [nodes EXCEPT ![h][i] = nodes[h][j], ![h][j] = nodes[h][i]]
  BY DEF Swap
<1>x. x = nodes[h][i].account /\ y = nodes[h][j].account
  OBVIOUS
<1> HIDE DEF x, y
<1>2. LoopIndexInUse'
  BY DEF LoopIndexInUse
<1>3. /\ heapPosition'[x] = j + 1 /\ heapPosition'[y] = i + 1
      /\ \A a \in Accounts : a # x /\ a # y => heapPosition'[a] = heapPosition[a]
  BY <1>0, <1>1, StructureFacts
<1>4. /\ nodes'[h][i] = nodes[h][j] /\ nodes'[h][j] = nodes[h][i]
      /\ \A g \in Heaps, m \in Indices :
           ~(g = h /\ m \in {i, j}) => nodes'[g][m] = nodes[g][m]
  BY <1>1, StructureFacts
<1>5. TypeOK'
  <2>1. nodes' \in [Heaps -> [Indices -> Node]]
    BY <1>0, <1>1, StructureFacts
  <2>2. heapPosition' \in [Accounts -> 0 .. Capacity]
    BY <1>0, <1>1, StructureFacts
  <2> QED
    BY <2>1, <2>2 DEF Structure, TypeOK
<1>6. PointersLead'
  <2> SUFFICES ASSUME NEW a \in Accounts
               PROVE  IF side[a] = NoHeap
                      THEN heapPosition'[a] = 0
                      ELSE /\ heapPosition'[a] \in 1 .. length[side[a]]
                           /\ nodes'[side[a]][heapPosition'[a] - 1].account = a
    BY DEF PointersLead
  <2>1. CASE a = x
    <3>1. heapPosition'[a] - 1 = j /\ heapPosition'[a] \in 1 .. length[h]
      BY <1>0, <1>3, <2>1
    <3> QED
      BY <1>0, <1>4, <1>x, <2>1, <3>1, HeapAssumption
  <2>2. CASE a = y
    <3>1. heapPosition'[a] - 1 = i /\ heapPosition'[a] \in 1 .. length[h]
      BY <1>0, <1>3, <2>2
    <3> QED
      BY <1>0, <1>4, <1>x, <2>2, <3>1, HeapAssumption
  <2>3. CASE a # x /\ a # y /\ side[a] = NoHeap
    BY <1>3, <2>3 DEF Structure, PointersLead
  <2>4. CASE a # x /\ a # y /\ side[a] # NoHeap
    <3>1. side[a] \in Heaps /\ heapPosition'[a] = heapPosition[a]
      BY <1>3, <2>4, StructureFacts
    <3>2. /\ heapPosition[a] \in 1 .. length[side[a]] /\ heapPosition[a] - 1 \in Indices
          /\ nodes[side[a]][heapPosition[a] - 1].account = a
      BY <3>1, StructureFacts
    <3>3. ~(side[a] = h /\ heapPosition[a] - 1 \in {i, j})
      BY <1>x, <2>4, <3>2
    <3> QED
      BY <1>4, <2>4, <3>1, <3>2, <3>3
  <2> QED
    BY <2>1, <2>2, <2>3, <2>4
<1>7. NodesOwned'
  <2> SUFFICES ASSUME NEW g \in Heaps, NEW m \in Indices, m < length[g]
               PROVE  /\ nodes'[g][m].account \in Accounts
                      /\ side[nodes'[g][m].account] = g
                      /\ heapPosition'[nodes'[g][m].account] = m + 1
    BY DEF NodesOwned
  <2>1. CASE g = h /\ m = i
    BY <1>0, <1>3, <1>4, <1>x, <2>1
  <2>2. CASE g = h /\ m = j
    BY <1>0, <1>3, <1>4, <1>x, <2>2
  <2>3. CASE ~(g = h /\ m \in {i, j})
    <3>1. /\ nodes[g][m].account \in Accounts
          /\ side[nodes[g][m].account] = g
          /\ heapPosition[nodes[g][m].account] = m + 1
          /\ m \in Nat
      BY StructureFacts
    <3>2. nodes[g][m].account # x /\ nodes[g][m].account # y
      BY <1>0, <2>3, <3>1
    <3> QED
      BY <1>3, <1>4, <2>3, <3>1, <3>2
  <2> QED
    BY <2>1, <2>2, <2>3
<1> QED
  BY <1>2, <1>5, <1>6, <1>7 DEF Structure

LEMMA EndLoopStructure ==
  ASSUME Structure, EndLoop, UNCHANGED <<length, side, curHeap>>
  PROVE  Structure'
  BY DEF Structure, TypeOK, LoopIndexInUse, PointersLead, NodesOwned, EndLoop

LEMMA HeapifyUpStructure ==
  ASSUME Structure, HeapifyUpStep
  PROVE  Structure'
<1>1. CASE index # 0 /\ nodes[curHeap][Parent(index)].key < nodes[curHeap][index].key
  <2>1. index \in Nat /\ index \in Indices /\ index < length[curHeap]
        /\ curHeap \in Heaps
    BY HeapAssumption
    DEF Structure, TypeOK, LoopIndexInUse, Indices, HeapifyUpStep
  <2>2. Parent(index) \in Nat /\ Parent(index) < index
    BY <1>1, <2>1, ParentChild
  <2>3. Parent(index) \in Indices /\ Parent(index) < length[curHeap]
    BY <2>1, <2>2, HeapAssumption DEF Indices, Structure, TypeOK
  <2>4. Swap(curHeap, index, Parent(index)) /\ index' = Parent(index)
        /\ UNCHANGED <<length, side, pc, curHeap>>
    <3>1. /\ nodes[curHeap][index].key \in Int
          /\ nodes[curHeap][Parent(index)].key \in Int
      <4>1. /\ nodes[curHeap][index] \in Node
            /\ nodes[curHeap][Parent(index)] \in Node
        BY <2>1, <2>3 DEF Structure, TypeOK
      <4> QED
        BY <4>1, HeapAssumption DEF Node, Keys
    <3>2. ~(nodes[curHeap][Parent(index)].key >= nodes[curHeap][index].key)
      BY <1>1, <3>1
    <3> QED
      BY <1>1, <3>2 DEF HeapifyUpStep
  <2> QED
    BY <2>1, <2>2, <2>3, <2>4, SwapStructure
<1>2. CASE ~(index # 0 /\ nodes[curHeap][Parent(index)].key < nodes[curHeap][index].key)
  BY <1>2, EndLoopStructure DEF HeapifyUpStep
<1> QED
  BY <1>1, <1>2

LEMMA HeapifyDownStructure ==
  ASSUME Structure, HeapifyDownStep
  PROVE  Structure'
<1> DEFINE b == Biggest(nodes[curHeap], length[curHeap], index)
<1>1. index \in Indices /\ index < length[curHeap] /\ curHeap \in Heaps
      /\ nodes[curHeap] \in [Indices -> Node] /\ length[curHeap] \in 0 .. Capacity
  BY DEF Structure, TypeOK, LoopIndexInUse, HeapifyDownStep
<1>2. b \in Indices /\ b < length[curHeap]
  BY <1>1, BiggestChild
<1>3. CASE b = index
  BY <1>3, EndLoopStructure DEF HeapifyDownStep
<1>4. CASE b # index
  <2>1. Swap(curHeap, index, b) /\ index' = b
        /\ UNCHANGED <<length, side, pc, curHeap>>
    BY <1>4 DEF HeapifyDownStep
  <2> HIDE DEF b
  <2> QED
    BY <1>1, <1>2, <1>4, <2>1, SwapStructure
<1> QED
  BY <1>3, <1>4

LEMMA StructureStep == Structure /\ [Next]_vars => Structure'
<1> SUFFICES ASSUME Structure, [Next]_vars
             PROVE  Structure'
  OBVIOUS
<1>1. CASE HeapifyUpStep
  BY <1>1, HeapifyUpStructure
<1>2. CASE HeapifyDownStep
  BY <1>2, HeapifyDownStructure
<1>3. ASSUME NEW h \in Heaps, NEW a \in Accounts, NEW k \in Keys, Insert(h, a, k)
      PROVE  Structure'
  BY <1>3, InsertStructure
<1>4. ASSUME NEW h \in Heaps, NEW a \in Accounts, NEW k \in Keys, Update(h, a, k)
      PROVE  Structure'
  BY <1>4, UpdateStructure
<1>5. ASSUME NEW h \in Heaps, NEW a \in Accounts, Remove(h, a)
      PROVE  Structure'
  BY <1>5, RemoveStructure
<1>6. ASSUME NEW h \in Heaps, NEW a \in Accounts, NEW b \in Accounts,
             UpdateAccount(h, a, b)
      PROVE  Structure'
  BY <1>6, UpdateAccountStructure
<1>7. CASE UNCHANGED vars
  BY <1>7 DEF vars, Structure, TypeOK, LoopIndexInUse, PointersLead, NodesOwned
<1> QED
  BY <1>1, <1>2, <1>3, <1>4, <1>5, <1>6, <1>7 DEF Next

LEMMA StructureInvariant == Spec => []Structure
  BY StructureInit, StructureStep, PTL DEF Spec

\* Type correctness of the array heaps and their pointers.
THEOREM TypeCorrect == Spec => []TypeOK
<1>1. Structure => TypeOK
  BY DEF Structure
<1> QED
  BY <1>1, StructureInvariant, PTL

\* Whatever sequence of inserts, updates, removals and account replacements the
\* pool performs on its two heaps, heapPosition leads every margin position to
\* its own node and every node in use to its own position.
THEOREM PointersAlwaysConsistent == Spec => []PointersConsistent
<1>1. Structure => PointersConsistent
  BY DEF Structure, PointersConsistent
<1> QED
  BY <1>1, StructureInvariant, PTL

-----------------------------------------------------------------------------
(***************************************************************************)
(* The heap order, first for the nodes of one heap.                        *)
(***************************************************************************)
LEMMA KeysAreIntegers ==
  ASSUME NEW n \in [Indices -> Node]
  PROVE  \A i \in Indices : n[i].key \in Int
  BY HeapAssumption DEF Node, Keys

LEMMA ParentIndex ==
  ASSUME NEW i \in Indices, i # 0
  PROVE  Parent(i) \in Indices /\ Parent(i) < i
  BY ParentChild, HeapAssumption DEF Indices

\* A key changes at one index while no loop runs: upwards if it grows, downwards
\* otherwise.  The heap may lose its last nodes at the same time.
LEMMA ChangeKey ==
  ASSUME NEW n \in [Indices -> Node], NEW m \in [Indices -> Node],
         NEW len \in Nat, NEW len2 \in Nat, len2 <= len,
         NEW at \in Indices, at < len, NEW x,
         Ordered(n, len, "idle", x),
         \A i \in Indices : (i < len2 /\ i # at) => m[i].key = n[i].key
  PROVE  /\ n[at].key < m[at].key => Ordered(m, len2, "up", at)
         /\ ~(n[at].key < m[at].key) => Ordered(m, len2, "down", at)
<1> SUFFICES ASSUME NEW l \in {"up", "down"},
                    l = "up" => n[at].key < m[at].key,
                    l = "down" => ~(n[at].key < m[at].key)
             PROVE  Ordered(m, len2, l, at)
  OBVIOUS
<1> SUFFICES ASSUME NEW i \in Indices, i # 0, i < len2
             PROVE  /\ \/ m[Parent(i)].key >= m[i].key
                       \/ l = "up" /\ i = at
                       \/ l = "down" /\ Parent(i) = at
                    /\ (Parent(i) = at /\ at # 0)
                         => m[Parent(at)].key >= m[i].key
  BY DEF Ordered
<1>1. i \in Int /\ at \in Int /\ Parent(i) \in Indices /\ Parent(i) < i
      /\ Parent(i) \in Int
  BY ParentIndex, HeapAssumption DEF Indices
<1>2. at # 0 => Parent(at) \in Indices /\ Parent(at) < at /\ Parent(at) \in Int
  BY ParentIndex, HeapAssumption DEF Indices
<1>3. \A j \in Indices : n[j].key \in Int /\ m[j].key \in Int
  BY KeysAreIntegers
<1>4. \A j \in Indices : (j # 0 /\ j < len) => n[Parent(j)].key >= n[j].key
  BY DEF Ordered
<1>5. n[Parent(i)].key >= n[i].key
  BY <1>1, <1>4
<1>6. \/ m[Parent(i)].key >= m[i].key
      \/ l = "up" /\ i = at
      \/ l = "down" /\ Parent(i) = at
  <2>1. CASE i = at
    <3>1. m[Parent(i)].key = n[Parent(i)].key
      BY <1>1, <2>1
    <3> QED
      BY <1>1, <1>3, <1>5, <2>1, <3>1
  <2>2. CASE i # at /\ Parent(i) = at
    <3>1. m[i].key = n[i].key
      BY <2>2
    <3> QED
      BY <1>1, <1>3, <1>5, <2>2, <3>1
  <2>3. CASE i # at /\ Parent(i) # at
    <3>1. m[i].key = n[i].key /\ m[Parent(i)].key = n[Parent(i)].key
      BY <1>1, <2>3
    <3> QED
      BY <1>5, <3>1
  <2> QED
    BY <2>1, <2>2, <2>3
<1>7. ASSUME Parent(i) = at, at # 0
      PROVE  m[Parent(at)].key >= m[i].key
  <2>1. n[Parent(at)].key >= n[at].key
    BY <1>4, <1>7
  <2>2. m[i].key = n[i].key /\ m[Parent(at)].key = n[Parent(at)].key
    BY <1>1, <1>2, <1>7
  <2> QED
    BY <1>1, <1>2, <1>3, <1>5, <1>7, <2>1, <2>2
<1> QED
  BY <1>6, <1>7

\* A node appended at the end starts a loop upwards.
LEMMA AppendNode ==
  ASSUME NEW n \in [Indices -> Node], NEW m \in [Indices -> Node],
         NEW len \in Indices, NEW x,
         Ordered(n, len, "idle", x),
         \A i \in Indices : i < len => m[i].key = n[i].key
  PROVE  Ordered(m, len + 1, "up", len)
<1> SUFFICES ASSUME NEW i \in Indices, i # 0, i < len + 1
             PROVE  /\ m[Parent(i)].key >= m[i].key \/ i = len
                    /\ Parent(i) # len
  BY DEF Ordered
<1>1. i \in Int /\ len \in Int /\ Parent(i) \in Indices /\ Parent(i) < i
      /\ Parent(i) \in Int
  BY ParentIndex, HeapAssumption DEF Indices
<1>2. i # len => n[Parent(i)].key >= n[i].key
  BY <1>1 DEF Ordered
<1> QED
  BY <1>1, <1>2

\* One iteration of heapifyUp: m is n with index and its parent swapped.
LEMMA SwapUp ==
  ASSUME NEW n \in [Indices -> Node], NEW m \in [Indices -> Node],
         NEW len \in Nat, NEW at \in Indices, at < len, at # 0,
         Ordered(n, len, "up", at),
         n[Parent(at)].key < n[at].key,
         m[at] = n[Parent(at)], m[Parent(at)] = n[at],
         \A i \in Indices : i \notin {at, Parent(at)} => m[i] = n[i]
  PROVE  Ordered(m, len, "up", Parent(at))
<1> DEFINE p == Parent(at)
<1>0. p \in Indices /\ p < at /\ p \in Int /\ at \in Int
  BY ParentIndex, HeapAssumption DEF Indices
<1> HIDE DEF p
<1> SUFFICES ASSUME NEW i \in Indices, i # 0, i < len
             PROVE  /\ m[Parent(i)].key >= m[i].key \/ i = p
                    /\ (Parent(i) = p /\ p # 0) => m[Parent(p)].key >= m[i].key
  BY DEF Ordered, p
<1>1. i \in Int /\ Parent(i) \in Indices /\ Parent(i) < i /\ Parent(i) \in Int
  BY ParentIndex, HeapAssumption DEF Indices
<1>2. p # 0 => Parent(p) \in Indices /\ Parent(p) < p /\ Parent(p) \in Int
  BY <1>0, ParentIndex, HeapAssumption DEF Indices
<1>3. \A j \in Indices : n[j].key \in Int /\ m[j].key \in Int
  BY KeysAreIntegers
<1>4. \A j \in Indices : (j # 0 /\ j < len /\ j # at) => n[Parent(j)].key >= n[j].key
  BY DEF Ordered
<1>5. \A j \in Indices : (j # 0 /\ j < len /\ Parent(j) = at) => n[p].key >= n[j].key
  BY DEF Ordered, p
<1>6. /\ n[p].key < n[at].key /\ m[at] = n[p] /\ m[p] = n[at]
      /\ \A j \in Indices : j # at /\ j # p => m[j] = n[j]
  BY DEF p
<1>7. m[Parent(i)].key >= m[i].key \/ i = p
  <2>1. CASE i = at
    BY <1>0, <1>3, <1>6, <2>1 DEF p
  <2>2. CASE i # at /\ i # p /\ Parent(i) = at
    BY <1>0, <1>3, <1>5, <1>6, <2>2
  <2>3. CASE i # at /\ i # p /\ Parent(i) = p
    <3>1. n[p].key >= n[i].key
      BY <1>4, <2>3
    <3> QED
      BY <1>0, <1>3, <1>6, <2>3, <3>1
  <2>4. CASE i # at /\ i # p /\ Parent(i) # at /\ Parent(i) # p
    BY <1>1, <1>4, <1>6, <2>4
  <2> QED
    BY <2>1, <2>2, <2>3, <2>4
<1>8. ASSUME Parent(i) = p, p # 0
      PROVE  m[Parent(p)].key >= m[i].key
  <2>0. n[Parent(p)].key >= n[p].key /\ m[Parent(p)] = n[Parent(p)]
    BY <1>0, <1>2, <1>4, <1>6, <1>8
  <2>1. CASE i = at
    BY <1>0, <1>3, <1>6, <2>0, <2>1
  <2>2. CASE i # at
    <3>1. n[p].key >= n[i].key /\ m[i] = n[i]
      BY <1>1, <1>4, <1>6, <1>8, <2>2
    <3> QED
      BY <1>0, <1>2, <1>3, <1>8, <2>0, <3>1
  <2> QED
    BY <2>1, <2>2
<1> QED
  BY <1>7, <1>8

\* One iteration of heapifyDown: m is n with index and its biggest child swapped.
LEMMA SwapDown ==
  ASSUME NEW n \in [Indices -> Node], NEW m \in [Indices -> Node],
         NEW len \in 0 .. Capacity, NEW at \in Indices, at < len, NEW b,
         b = Biggest(n, len, at), b # at,
         Ordered(n, len, "down", at),
         m[at] = n[b], m[b] = n[at],
         \A i \in Indices : i \notin {at, b} => m[i] = n[i]
  PROVE  Ordered(m, len, "down", b)
<1>0. /\ b \in Indices /\ b < len /\ b # 0 /\ Parent(b) = at
      /\ n[b].key > n[at].key
      /\ \A j \in Indices :
           (j # 0 /\ j < len /\ Parent(j) = at) => n[b].key >= n[j].key
  BY BiggestChild
<1>1. at \in Int /\ b \in Int /\ at < b
  BY <1>0, ParentIndex, HeapAssumption DEF Indices
<1> SUFFICES ASSUME NEW i \in Indices, i # 0, i < len
             PROVE  /\ m[Parent(i)].key >= m[i].key \/ Parent(i) = b
                    /\ Parent(i) = b => m[at].key >= m[i].key
  BY <1>0 DEF Ordered
<1>2. i \in Int /\ Parent(i) \in Indices /\ Parent(i) < i /\ Parent(i) \in Int
  BY ParentIndex, HeapAssumption DEF Indices
<1>3. \A j \in Indices : n[j].key \in Int /\ m[j].key \in Int
  BY KeysAreIntegers
<1>4. \A j \in Indices :
        (j # 0 /\ j < len /\ Parent(j) # at) => n[Parent(j)].key >= n[j].key
  BY DEF Ordered
<1>5. at # 0 => Parent(at) \in Indices /\ Parent(at) < at /\ Parent(at) \in Int
  BY <1>1, ParentIndex, HeapAssumption DEF Indices
<1>6. \A j \in Indices :
        (j # 0 /\ j < len /\ Parent(j) = at /\ at # 0)
           => n[Parent(at)].key >= n[j].key
  BY DEF Ordered
<1>7. m[Parent(i)].key >= m[i].key \/ Parent(i) = b
  <2>1. CASE i = at
    <3>1. n[Parent(at)].key >= n[b].key /\ Parent(at) # b /\ Parent(at) # at
      BY <1>0, <1>1, <1>5, <1>6, <2>1
    <3> QED
      BY <1>5, <2>1, <3>1
  <2>2. CASE i = b
    BY <1>0, <1>3, <2>2
  <2>3. CASE i # at /\ i # b /\ Parent(i) = at
    BY <1>0, <1>3, <2>3
  <2>4. CASE i # at /\ i # b /\ Parent(i) # at /\ Parent(i) # b
    BY <1>2, <1>4, <2>4
  <2> QED
    BY <2>1, <2>2, <2>3, <2>4
<1>8. ASSUME Parent(i) = b
      PROVE  m[at].key >= m[i].key
  <2>1. i # at /\ i # b /\ b # at
    BY <1>1, <1>2, <1>8
  <2>2. n[b].key >= n[i].key
    BY <1>4, <1>8, <2>1
  <2> QED
    BY <2>1, <2>2
<1> QED
  BY <1>7, <1>8

\* A loop that stops leaves no node out of order.
LEMMA StopUp ==
  ASSUME NEW n \in [Indices -> Node], NEW len \in Nat, NEW at \in Indices,
         Ordered(n, len, "up", at), NEW x,
         at # 0 => n[Parent(at)].key >= n[at].key
  PROVE  Ordered(n, len, "idle", x)
  BY DEF Ordered

LEMMA StopDown ==
  ASSUME NEW n \in [Indices -> Node], NEW len \in 0 .. Capacity,
         NEW at \in Indices, at < len, NEW x,
         Ordered(n, len, "down", at), Biggest(n, len, at) = at
  PROVE  Ordered(n, len, "idle", x)
  BY BiggestChild DEF Ordered

-----------------------------------------------------------------------------
(***************************************************************************)
(* The heap order of both heaps, action by action.                         *)
(***************************************************************************)
LEMMA IdleOrder ==
  ASSUME OrderedExceptAtIndex, pc = "idle", NEW h \in Heaps, NEW x
  PROVE  Ordered(nodes[h], length[h], "idle", x)
<1>1. Ordered(nodes[h], length[h], "idle", index)
  BY DEF OrderedExceptAtIndex
<1> QED
  BY <1>1 DEF Ordered

\* An action that leaves every heap but h alone, on which it leaves the loop.
LEMMA OrderOfOneHeap ==
  ASSUME OrderedExceptAtIndex, NEW h \in Heaps,
         pc = "idle" \/ curHeap = h, curHeap' = h,
         \A g \in Heaps : g # h => /\ nodes'[g] = nodes[g]
                                   /\ length'[g] = length[g],
         Ordered(nodes'[h], length'[h], pc', index')
  PROVE  OrderedExceptAtIndex'
<1> SUFFICES ASSUME NEW g \in Heaps, g # h
             PROVE  Ordered(nodes'[g], length'[g], "idle", index')
  BY DEF OrderedExceptAtIndex
<1>1. Ordered(nodes[g], length[g], "idle", index)
  BY DEF OrderedExceptAtIndex
<1>2. Ordered(nodes[g], length[g], "idle", index')
  BY <1>1 DEF Ordered
<1> QED
  BY <1>2

LEMMA InsertOrder ==
  ASSUME Structure, Structure', OrderedExceptAtIndex,
         NEW h \in Heaps, NEW a \in Accounts, NEW k \in Keys, Insert(h, a, k)
  PROVE  OrderedExceptAtIndex'
<1>1. /\ nodes[h] \in [Indices -> Node] /\ nodes'[h] \in [Indices -> Node]
      /\ length[h] \in Indices
  BY HeapAssumption DEF Structure, TypeOK, Insert, Indices
<1>2. Ordered(nodes[h], length[h], "idle", index)
  BY IdleOrder DEF Insert
<1>3. \A i \in Indices : i < length[h] => nodes'[h][i].key = nodes[h][i].key
  BY <1>1 DEF Insert, Structure, TypeOK, Indices
<1>4. Ordered(nodes'[h], length[h] + 1, "up", length[h])
  BY <1>1, <1>2, <1>3, AppendNode
<1>5. /\ pc = "idle" /\ pc' = "up" /\ curHeap' = h /\ index' = length[h]
      /\ length'[h] = length[h] + 1
      /\ \A g \in Heaps : g # h => nodes'[g] = nodes[g] /\ length'[g] = length[g]
  BY DEF Insert, StartLoop, Structure, TypeOK
<1> QED
  BY <1>4, <1>5, OrderOfOneHeap

LEMMA UpdateOrder ==
  ASSUME Structure, Structure', OrderedExceptAtIndex,
         NEW h \in Heaps, NEW a \in Accounts, NEW k \in Keys, Update(h, a, k)
  PROVE  OrderedExceptAtIndex'
<1> DEFINE i == heapPosition[a] - 1
<1>1. /\ nodes[h] \in [Indices -> Node] /\ nodes'[h] \in [Indices -> Node]
      /\ length[h] \in Nat /\ i \in Indices /\ i < length[h]
  BY HeapAssumption DEF Structure, TypeOK, Update, PointersLead, Indices
<1>2. Ordered(nodes[h], length[h], "idle", index)
  BY IdleOrder DEF Update
<1>3. /\ nodes'[h][i].key = k
      /\ \A j \in Indices : j # i => nodes'[h][j].key = nodes[h][j].key
  BY <1>1 DEF Update, Structure, TypeOK, Node
<1>4. /\ pc = "idle" /\ curHeap' = h /\ index' = i
      /\ pc' = IF nodes[h][i].key < k THEN "up" ELSE "down"
      /\ length'[h] = length[h]
      /\ \A g \in Heaps : g # h => nodes'[g] = nodes[g] /\ length'[g] = length[g]
  BY DEF Update, StartLoop, Structure, TypeOK
<1> HIDE DEF i
<1>5. Ordered(nodes'[h], length'[h], pc', index')
  BY <1>1, <1>2, <1>3, <1>4, ChangeKey
<1> QED
  BY <1>4, <1>5, OrderOfOneHeap

LEMMA RemoveOrder ==
  ASSUME Structure, Structure', OrderedExceptAtIndex,
         NEW h \in Heaps, NEW a \in Accounts, Remove(h, a)
  PROVE  OrderedExceptAtIndex'
<1> DEFINE i == heapPosition[a] - 1
           last == length[h] - 1
<1>1. /\ nodes[h] \in [Indices -> Node] /\ nodes'[h] \in [Indices -> Node]
      /\ length[h] \in Nat /\ i \in Indices /\ i < length[h]
      /\ last \in Indices /\ last \in Nat /\ last < length[h]
  <2>1. length[h] \in Nat /\ side[a] \in Heaps /\ side[a] # NoHeap
        /\ side[a] = h /\ length[h] <= Capacity
    BY HeapAssumption DEF Structure, TypeOK, Remove
  <2>2. heapPosition[a] \in 1 .. length[h]
    BY <2>1 DEF Structure, PointersLead
  <2>3. nodes[h] \in [Indices -> Node] /\ nodes'[h] \in [Indices -> Node]
    BY DEF Structure, TypeOK
  <2> QED
    BY <2>1, <2>2, <2>3, HeapAssumption DEF Indices
<1>2. Ordered(nodes[h], length[h], "idle", index)
  BY IdleOrder DEF Remove
<1>3. /\ pc = "idle" /\ length'[h] = last
      /\ \A g \in Heaps : g # h => nodes'[g] = nodes[g] /\ length'[g] = length[g]
  BY DEF Remove, StartLoop, Structure, TypeOK
<1>4. CASE last = i
  <2>1. /\ UNCHANGED <<pc, curHeap, index>>
        /\ \A j \in Indices : j < last => nodes'[h][j] = nodes[h][j]
    BY <1>1, <1>4 DEF Remove, Structure, TypeOK
  <2>2. Ordered(nodes'[h], last, "idle", index)
    <3> SUFFICES ASSUME NEW j \in Indices, j # 0, j < last
                 PROVE  nodes'[h][Parent(j)].key >= nodes'[h][j].key
      BY DEF Ordered
    <3>1. Parent(j) \in Indices /\ Parent(j) < last /\ j < length[h]
      BY <1>1, ParentIndex, HeapAssumption DEF Indices
    <3> QED
      BY <1>2, <2>1, <3>1 DEF Ordered
  <2> QED
    <3> SUFFICES ASSUME NEW g \in Heaps
                 PROVE  Ordered(nodes'[g], length'[g], "idle", index)
      BY <1>3, <2>1 DEF OrderedExceptAtIndex
    <3>1. CASE g = h
      BY <1>3, <2>2, <3>1
    <3>2. CASE g # h
      BY <1>3, <3>2, IdleOrder
    <3> QED
      BY <3>1, <3>2
<1>5. CASE last # i
  <2>1. /\ curHeap' = h /\ index' = i
        /\ nodes'[h][i] = nodes[h][last]
        /\ pc' = IF nodes[h][i].key < nodes[h][last].key THEN "up" ELSE "down"
        /\ \A j \in Indices : (j < last /\ j # i) => nodes'[h][j].key = nodes[h][j].key
    <3>1. /\ nodes' = [nodes EXCEPT ![h][i] = nodes[h][last], ![h][last] = EmptyNode]
          /\ StartLoop(IF nodes[h][i].key < nodes[h][last].key THEN "up" ELSE "down", h, i)
      BY <1>5 DEF Remove
    <3>2. \A j \in Indices : j \in Nat /\ (j < last => j # last)
      BY <1>1, StructureFacts
    <3>3. nodes \in [Heaps -> [Indices -> Node]]
      BY DEF Structure, TypeOK
    <3> HIDE DEF i, last
    <3>4. nodes'[h] = [nodes[h] EXCEPT ![i] = nodes[h][last], ![last] = EmptyNode]
      BY <3>1, <3>3
    <3>5. /\ nodes'[h][i] = nodes[h][last]
          /\ \A j \in Indices : (j < last /\ j # i) => nodes'[h][j] = nodes[h][j]
      BY <1>1, <1>5, <3>2, <3>3, <3>4
    <3> QED
      BY <3>1, <3>5 DEF StartLoop
  <2> HIDE DEF i, last
  <2>2. Ordered(nodes'[h], length'[h], pc', index')
    <3>1. /\ last <= length[h]
          /\ \A j \in Indices : (j < last /\ j # i) => nodes'[h][j].key = nodes[h][j].key
          /\ nodes'[h][i].key = nodes[h][last].key
      BY <1>1, <2>1
    <3>2. /\ nodes[h][i].key < nodes'[h][i].key => Ordered(nodes'[h], last, "up", i)
          /\ ~(nodes[h][i].key < nodes'[h][i].key) => Ordered(nodes'[h], last, "down", i)
      BY <1>1, <1>2, <3>1, ChangeKey
    <3> QED
      BY <1>3, <2>1, <3>1, <3>2
  <2> QED
    BY <1>3, <2>1, <2>2, OrderOfOneHeap
<1> QED
  BY <1>4, <1>5

LEMMA UpdateAccountOrder ==
  ASSUME Structure, OrderedExceptAtIndex, NEW h \in Heaps,
         NEW a \in Accounts, NEW b \in Accounts, UpdateAccount(h, a, b)
  PROVE  OrderedExceptAtIndex'
<1>1. \A g \in Heaps, j \in Indices : nodes'[g][j].key = nodes[g][j].key
  BY DEF UpdateAccount, Structure, TypeOK, Node
<1>2. pc = "idle" /\ UNCHANGED <<length, pc, curHeap, index>>
  BY DEF UpdateAccount
<1> SUFFICES ASSUME NEW g \in Heaps
             PROVE  Ordered(nodes'[g], length[g], "idle", index)
  BY <1>2 DEF OrderedExceptAtIndex
<1>3. Ordered(nodes[g], length[g], "idle", index)
  BY <1>2, IdleOrder
<1> QED
  BY <1>1, <1>3, ParentIndex DEF Ordered

LEMMA HeapifyUpOrder ==
  ASSUME Structure, Structure', OrderedExceptAtIndex, HeapifyUpStep
  PROVE  OrderedExceptAtIndex'
<1> DEFINE n == nodes[curHeap]
           p == Parent(index)
<1>1. /\ n \in [Indices -> Node] /\ nodes'[curHeap] \in [Indices -> Node]
      /\ length[curHeap] \in Nat /\ index \in Indices /\ index < length[curHeap]
      /\ curHeap \in Heaps /\ curHeap' = curHeap /\ length' = length
  BY HeapAssumption
  DEF Structure, TypeOK, LoopIndexInUse, Indices, HeapifyUpStep
<1>2. Ordered(n, length[curHeap], "up", index)
  BY <1>1 DEF OrderedExceptAtIndex, HeapifyUpStep
<1>3. index # 0 => p \in Indices /\ p < index /\ p # index
  BY <1>1, ParentIndex, HeapAssumption DEF Indices
<1>4. \A j \in Indices : n[j].key \in Int
  BY <1>1, KeysAreIntegers
<1>5. CASE index # 0 => n[p].key >= n[index].key
  <2>1. EndLoop
    BY <1>1, <1>3, <1>4, <1>5 DEF HeapifyUpStep
  <2>2. Ordered(n, length[curHeap], "idle", index)
    BY <1>1, <1>2, <1>5, StopUp
  <2> QED
    BY <1>1, <2>1, <2>2, OrderOfOneHeap DEF EndLoop
<1>6. CASE ~(index # 0 => n[p].key >= n[index].key)
  <2>1. /\ Swap(curHeap, index, p) /\ index' = p /\ pc' = "up"
        /\ n[p].key < n[index].key
    BY <1>6 DEF HeapifyUpStep
  <2>2. /\ nodes'[curHeap][index] = n[p] /\ nodes'[curHeap][p] = n[index]
        /\ \A j \in Indices : j \notin {index, p} => nodes'[curHeap][j] = n[j]
        /\ \A g \in Heaps : g # curHeap => nodes'[g] = nodes[g]
    BY <1>1, <1>3, <1>6, <2>1, SMTT(30) DEF Swap, Structure, TypeOK
  <2>3. Ordered(nodes'[curHeap], length[curHeap], "up", p)
    BY <1>1, <1>2, <1>6, <2>1, <2>2, SwapUp
  <2> QED
    BY <1>1, <2>1, <2>2, <2>3, OrderOfOneHeap
<1> QED
  BY <1>5, <1>6

LEMMA HeapifyDownOrder ==
  ASSUME Structure, Structure', OrderedExceptAtIndex, HeapifyDownStep
  PROVE  OrderedExceptAtIndex'
<1> DEFINE n == nodes[curHeap]
           b == Biggest(n, length[curHeap], index)
<1>1. /\ n \in [Indices -> Node] /\ nodes'[curHeap] \in [Indices -> Node]
      /\ length[curHeap] \in 0 .. Capacity /\ index \in Indices
      /\ index < length[curHeap]
      /\ curHeap \in Heaps /\ curHeap' = curHeap /\ length' = length
  BY HeapAssumption
  DEF Structure, TypeOK, LoopIndexInUse, Indices, HeapifyDownStep
<1>2. Ordered(n, length[curHeap], "down", index)
  BY <1>1 DEF OrderedExceptAtIndex, HeapifyDownStep
<1>3. b \in Indices
  BY <1>1, BiggestChild
<1>4. CASE b = index
  <2>1. EndLoop
    BY <1>4 DEF HeapifyDownStep
  <2>2. Ordered(n, length[curHeap], "idle", index)
    BY <1>1, <1>2, <1>4, StopDown
  <2> QED
    BY <1>1, <2>1, <2>2, OrderOfOneHeap DEF EndLoop
<1>5. CASE b # index
  <2>1. Swap(curHeap, index, b) /\ index' = b /\ pc' = "down"
    BY <1>5 DEF HeapifyDownStep
  <2> HIDE DEF b
  <2>2. /\ nodes'[curHeap][index] = n[b] /\ nodes'[curHeap][b] = n[index]
        /\ \A j \in Indices : j \notin {index, b} => nodes'[curHeap][j] = n[j]
        /\ \A g \in Heaps : g # curHeap => nodes'[g] = nodes[g]
    BY <1>1, <1>3, <1>5, <2>1, SMTT(30) DEF Swap, Structure, TypeOK
  <2> HIDE DEF n
  <2>3. Ordered(nodes'[curHeap], length[curHeap], "down", b)
    BY <1>1, <1>2, <1>5, <2>2, SwapDown DEF b
  <2> QED
    BY <1>1, <2>1, <2>2, <2>3, OrderOfOneHeap
<1> QED
  BY <1>4, <1>5

(***************************************************************************)
(* The inductive invariant: the structure and the order around index.      *)
(***************************************************************************)
IInv == Structure /\ OrderedExceptAtIndex

LEMMA IInvInit == Init => IInv
<1> SUFFICES ASSUME Init PROVE IInv
  OBVIOUS
<1>1. Structure
  BY StructureInit
<1>2. \A h \in Heaps : length[h] = 0 /\ pc = "idle"
  BY DEF Init
<1>3. OrderedExceptAtIndex
  BY <1>2, HeapAssumption DEF OrderedExceptAtIndex, Ordered, Indices
<1> QED
  BY <1>1, <1>3 DEF IInv

LEMMA IInvStep == IInv /\ [Next]_vars => IInv'
<1> SUFFICES ASSUME IInv, [Next]_vars
             PROVE  OrderedExceptAtIndex'
  BY StructureStep DEF IInv
<1>0. Structure /\ Structure' /\ OrderedExceptAtIndex
  BY StructureStep DEF IInv
<1>1. CASE HeapifyUpStep
  BY <1>0, <1>1, HeapifyUpOrder
<1>2. CASE HeapifyDownStep
  BY <1>0, <1>2, HeapifyDownOrder
<1>3. ASSUME NEW h \in Heaps, NEW a \in Accounts, NEW k \in Keys, Insert(h, a, k)
      PROVE  OrderedExceptAtIndex'
  BY <1>0, <1>3, InsertOrder
<1>4. ASSUME NEW h \in Heaps, NEW a \in Accounts, NEW k \in Keys, Update(h, a, k)
      PROVE  OrderedExceptAtIndex'
  BY <1>0, <1>4, UpdateOrder
<1>5. ASSUME NEW h \in Heaps, NEW a \in Accounts, Remove(h, a)
      PROVE  OrderedExceptAtIndex'
  BY <1>0, <1>5, RemoveOrder
<1>6. ASSUME NEW h \in Heaps, NEW a \in Accounts, NEW b \in Accounts,
             UpdateAccount(h, a, b)
      PROVE  OrderedExceptAtIndex'
  BY <1>0, <1>6, UpdateAccountOrder
<1>7. CASE UNCHANGED vars
  BY <1>0, <1>7 DEF vars, OrderedExceptAtIndex, Ordered
<1> QED
  BY <1>1, <1>2, <1>3, <1>4, <1>5, <1>6, <1>7 DEF Next

\* Every loop keeps the heap in order everywhere but at its index.
THEOREM OrderAlwaysRepairable == Spec => []OrderedExceptAtIndex
<1>1. IInv => OrderedExceptAtIndex
  BY DEF IInv
<1> QED
  BY <1>1, IInvInit, IInvStep, PTL DEF Spec

\* The least element of a nonempty set of naturals, from the well-foundedness of
\* strict inclusion on the finite sets 0 .. i.
LEMMA LeastNat ==
  ASSUME NEW T \in SUBSET Nat, T # {}
  PROVE  \E x \in T : \A y \in T : x <= y
<1> DEFINE U == {0 .. i : i \in T}
<1>1. U \subseteq FiniteSubsetsOf(Nat) /\ U # {}
  <2>1. \A i \in T : 0 .. i \in FiniteSubsetsOf(Nat)
    <3> SUFFICES ASSUME NEW i \in T
                 PROVE  0 .. i \in SUBSET Nat /\ IsFiniteSet(0 .. i)
      BY DEF FiniteSubsetsOf
    <3>1. i \in Int /\ 0 \in Int /\ 0 .. i \in SUBSET Nat
      OBVIOUS
    <3> QED
      BY <3>1, FS_Interval
  <2> QED
    BY <2>1
<1>2. \E X \in U : \A Y \in U : ~(<<Y, X>> \in StrictSubsetOrdering(Nat))
  BY <1>1, WFMin, FS_StrictSubsetOrderingWellFounded
<1>3. PICK x \in T : \A y \in T : ~(<<0 .. y, 0 .. x>> \in StrictSubsetOrdering(Nat))
  BY <1>2
<1>4. ASSUME NEW y \in T
      PROVE  x <= y
  <2> SUFFICES ASSUME y < x
               PROVE  FALSE
    OBVIOUS
  <2>1. 0 .. y \subseteq 0 .. x /\ 0 .. y # 0 .. x
    OBVIOUS
  <2>2. <<0 .. y, 0 .. x>> \in StrictSubsetOrdering(Nat)
    BY <2>1 DEF StrictSubsetOrdering
  <2> QED
    BY <1>3, <2>2
<1> QED
  BY <1>4

\* In an ordered heap no key exceeds the root's: of the nodes that did, the one
\* with the least index would have a parent that does too.
LEMMA RootDominates ==
  ASSUME NEW n \in [Indices -> Node], NEW len \in Nat, NEW x,
         Ordered(n, len, "idle", x)
  PROVE  \A i \in Indices : i < len => n[0].key >= n[i].key
<1> DEFINE T == {i \in Indices : i < len /\ n[i].key > n[0].key}
<1>1. \A i \in Indices : n[i].key \in Int
  BY KeysAreIntegers
<1>2. 0 \in Indices /\ T \in SUBSET Nat
  BY HeapAssumption DEF Indices
<1>3. T = {}
  <2> SUFFICES ASSUME T # {} PROVE FALSE
    OBVIOUS
  <2>1. PICK i \in T : \A j \in T : i <= j
    BY <1>2, LeastNat
  <2>2. i \in Indices /\ i < len /\ n[i].key > n[0].key /\ i # 0
    BY <1>1, <1>2
  <2>3. Parent(i) \in Indices /\ Parent(i) < i
    BY <2>2, ParentIndex
  <2>4. n[Parent(i)].key >= n[i].key
    BY <2>2 DEF Ordered
  <2>5. Parent(i) < len
    BY <2>2, <2>3, HeapAssumption DEF Indices
  <2>6. Parent(i) \in T
    BY <1>1, <1>2, <2>2, <2>3, <2>4, <2>5
  <2> QED
    BY <2>1, <2>2, <2>3, <2>6, HeapAssumption DEF Indices
<1> QED
  BY <1>1, <1>2, <1>3

\* reinit and shutDown read only the root of a heap: it is a position whose sort
\* key no other position of the heap exceeds, however many there are.
THEOREM RootIsAlwaysMax == Spec => []RootIsMax
<1>1. IInv => RootIsMax
  <2> SUFFICES ASSUME IInv, pc = "idle", NEW h \in Heaps, NEW i \in Indices,
                      i < length[h]
               PROVE  nodes[h][0].key >= nodes[h][i].key
    BY DEF RootIsMax
  <2>1. nodes[h] \in [Indices -> Node] /\ length[h] \in Nat
    BY HeapAssumption DEF IInv, Structure, TypeOK
  <2>2. Ordered(nodes[h], length[h], "idle", index)
    BY IdleOrder DEF IInv
  <2> QED
    BY <2>1, <2>2, RootDominates
<1> QED
  BY <1>1, IInvInit, IInvStep, PTL DEF Spec

-----------------------------------------------------------------------------
(* The array heaps implement the priority maps of PriorityMap.  Sifting    *)
(* does not change the key of any account; it only decides who is at the   *)
(* root.                                                                   *)

\* What the pool sees of a heap is a possible root of its keys, unless a loop is at
\* work on it.
TopSettles ==
  \A h \in Heaps :
    IF pc # "idle" /\ curHeap = h
    THEN topView[h] = PM!Unsettled
    ELSE topView[h] \in PM!Roots(rankView[h]) /\ topView[h] # PM!Unsettled

\* The rank of an account is a key in its own heap and none in the other.
LEMMA RankOfMember ==
  ASSUME Structure, NEW h \in Heaps, NEW a \in Accounts
  PROVE  /\ side[a] = h => /\ heapPosition[a] - 1 \in Indices
                           /\ heapPosition[a] - 1 < length[h]
                           /\ heapPosition[a] \in Nat
                           /\ nodes[h][heapPosition[a] - 1] \in Node
                           /\ nodes[h][heapPosition[a] - 1].account = a
                           /\ rankView[h][a] = nodes[h][heapPosition[a] - 1].key
                           /\ rankView[h][a] \in Keys /\ rankView[h][a] # PM!NoKey
         /\ side[a] # h => rankView[h][a] = PM!NoKey
<1>1. rankView[h][a] = IF side[a] = h THEN nodes[h][heapPosition[a] - 1].key ELSE -1
  BY DEF rankView
<1>2. CASE side[a] = h
  <2>1. /\ heapPosition[a] \in 1 .. length[h] /\ length[h] \in 0 .. Capacity
        /\ nodes[h][heapPosition[a] - 1].account = a
    BY <1>2, HeapAssumption DEF Structure, TypeOK, PointersLead
  <2>2. heapPosition[a] - 1 \in Indices /\ heapPosition[a] - 1 < length[h]
    BY <2>1, HeapAssumption DEF Indices
  <2>3. nodes[h][heapPosition[a] - 1] \in Node
    BY <2>2 DEF Structure, TypeOK
  <2>4. nodes[h][heapPosition[a] - 1].key \in Keys
    BY <2>3 DEF Node
  <2> QED
    BY <1>1, <1>2, <2>1, <2>2, <2>3, <2>4, HeapAssumption DEF PM!NoKey, Keys
<1>3. CASE side[a] # h
  BY <1>1, <1>3 DEF PM!NoKey
<1> QED
  BY <1>2, <1>3

\* Two tables of keys that differ in the row of one heap only.
LEMMA OneRowChanges ==
  ASSUME NEW f, f = [g \in Heaps |-> [b \in Accounts |-> f[g][b]]],
         NEW t, t = [g \in Heaps |-> [b \in Accounts |-> t[g][b]]],
         NEW r, r = [b \in Accounts |-> r[b]],
         NEW h \in Heaps,
         \A g \in Heaps, b \in Accounts : t[g][b] = IF g = h THEN r[b] ELSE f[g][b]
  PROVE  t = [f EXCEPT ![h] = r]
<1>1. ASSUME NEW g \in Heaps PROVE t[g] = IF g = h THEN r ELSE f[g]
  <2>1. t[g] = [b \in Accounts |-> IF g = h THEN r[b] ELSE f[g][b]]
    <3>1. t[g] = [b \in Accounts |-> t[g][b]]
      OBVIOUS
    <3> QED
      BY <3>1
  <2>2. f[g] = [b \in Accounts |-> f[g][b]]
    OBVIOUS
  <2> QED
    BY <2>1, <2>2
<1>2. t = [g \in Heaps |-> t[g]] /\ f = [g \in Heaps |-> f[g]]
  OBVIOUS
<1> QED
  BY <1>1, <1>2

LEMMA RankIsTable ==
  /\ rankView = [g \in Heaps |-> [b \in Accounts |-> rankView[g][b]]]
  /\ \A g \in Heaps : rankView[g] = [b \in Accounts |-> rankView[g][b]]
<1>1. rankView = [g \in Heaps |-> [b \in Accounts |-> rankView[g][b]]]
  BY DEF rankView
<1> QED
  BY <1>1

LEMMA RankIsTablePrimed ==
  rankView' = [g \in Heaps |-> [b \in Accounts |-> rankView'[g][b]]]
  BY DEF rankView

LEMMA TopOfHeap == IInv => TopSettles
<1> SUFFICES ASSUME IInv, NEW h \in Heaps
             PROVE  IF pc # "idle" /\ curHeap = h
                    THEN topView[h] = PM!Unsettled
                    ELSE /\ topView[h] \in PM!Roots(rankView[h])
                         /\ topView[h] # PM!Unsettled
  BY DEF TopSettles
<1>0. Structure /\ OrderedExceptAtIndex
  BY DEF IInv
<1>1. topView[h] = IF pc # "idle" /\ curHeap = h THEN "unsettled"
                   ELSE IF length[h] = 0 THEN NoAccount ELSE nodes[h][0].account
  BY DEF topView
<1>2. CASE pc # "idle" /\ curHeap = h
  BY <1>1, <1>2 DEF PM!Unsettled
<1>3. CASE ~(pc # "idle" /\ curHeap = h) /\ length[h] = 0
  <2>1. \A a \in Accounts : side[a] # h
    BY <1>0, <1>3, RankOfMember, HeapAssumption DEF Indices
  <2>2. \A a \in Accounts : rankView[h][a] = PM!NoKey
    BY <1>0, <2>1, RankOfMember
  <2> QED
    BY <1>1, <1>3, <2>2, HeapAssumption DEF PM!Roots, PM!Unsettled
<1>4. CASE ~(pc # "idle" /\ curHeap = h) /\ length[h] # 0
  <2> DEFINE r == nodes[h][0].account
  <2>1. 0 \in Indices /\ 0 < length[h] /\ length[h] \in Nat /\ nodes[h] \in [Indices -> Node]
    BY <1>0, <1>4, HeapAssumption DEF Structure, TypeOK, Indices
  <2>2. r \in Accounts /\ side[r] = h /\ heapPosition[r] = 1
    BY <1>0, <2>1 DEF Structure, NodesOwned
  <2>3. rankView[h][r] = nodes[h][0].key /\ rankView[h][r] \in Keys /\ rankView[h][r] # PM!NoKey
    BY <1>0, <2>2, RankOfMember
  <2>4. Ordered(nodes[h], length[h], "idle", index)
    BY <1>0, <1>4 DEF OrderedExceptAtIndex, Ordered
  <2>5. \A i \in Indices : i < length[h] => nodes[h][0].key >= nodes[h][i].key
    BY <2>1, <2>4, RootDominates
  <2>6. ASSUME NEW b \in Accounts PROVE rankView[h][b] <= rankView[h][r]
    <3>1. CASE side[b] = h
      BY <1>0, <2>3, <2>5, <3>1, RankOfMember
    <3>2. CASE side[b] # h
      <4>1. rankView[h][b] = -1
        BY <1>0, <3>2, RankOfMember DEF PM!NoKey
      <4> QED
        BY <2>3, <4>1, HeapAssumption DEF Keys
    <3> QED
      BY <3>1, <3>2
  <2>7. r \in PM!Roots(rankView[h])
    BY <2>2, <2>3, <2>6 DEF PM!Roots
  <2>8. topView[h] = r /\ r # "unsettled"
    BY <1>1, <1>4, <2>2, HeapAssumption
  <2> QED
    BY <1>4, <2>7, <2>8 DEF PM!Unsettled
<1> QED
  BY <1>2, <1>3, <1>4

-----------------------------------------------------------------------------
(***************************************************************************)
(* What the operations do to the keys.                                     *)
(***************************************************************************)
LEMMA InsertRank ==
  ASSUME IInv, IInv', NEW h \in Heaps, NEW a \in Accounts, NEW k \in Keys,
         Insert(h, a, k)
  PROVE  /\ \A g \in Heaps : rankView[g][a] = PM!NoKey
         /\ rankView' = [rankView EXCEPT ![h] = [rankView[h] EXCEPT ![a] = k]]
<1>0. Structure
  BY DEF IInv
<1>1. side[a] = NoHeap /\ pc = "idle" /\ length[h] \in Nat /\ length[h] \in Indices
  BY <1>0, HeapAssumption DEF Insert, Structure, TypeOK, Indices
<1>2. \A g \in Heaps : side[a] # g
  BY <1>1, HeapAssumption
<1>3. \A g \in Heaps : rankView[g][a] = PM!NoKey
  BY <1>0, <1>2, RankOfMember
<1>4. ASSUME NEW g \in Heaps, NEW b \in Accounts
      PROVE  rankView'[g][b] = IF g = h /\ b = a THEN k ELSE rankView[g][b]
  <2>1. rankView'[g][b] = IF side'[b] = g THEN nodes'[g][heapPosition'[b] - 1].key ELSE -1
    BY DEF rankView
  <2>2. CASE b = a
    <3>1. side'[a] = h /\ heapPosition'[a] = length[h] + 1
      BY <1>0 DEF Insert, Structure, TypeOK
    <3>2. heapPosition'[a] - 1 = length[h]
      BY <1>1, <3>1
    <3>3. nodes'[h][length[h]].key = k
      BY <1>0, <1>1 DEF Insert, Structure, TypeOK
    <3> QED
      BY <1>3, <2>1, <2>2, <3>1, <3>2, <3>3 DEF PM!NoKey
  <2>3. CASE b # a
    <3>1. side'[b] = side[b] /\ heapPosition'[b] = heapPosition[b]
      BY <1>0, <2>3 DEF Insert, Structure, TypeOK
    <3>2. CASE side[b] = g
      <4>1. heapPosition[b] - 1 \in Indices /\ heapPosition[b] - 1 < length[g]
            /\ rankView[g][b] = nodes[g][heapPosition[b] - 1].key
        BY <1>0, <3>2, RankOfMember
      <4>2. nodes'[g][heapPosition[b] - 1] = nodes[g][heapPosition[b] - 1]
        BY <1>0, <1>1, <4>1 DEF Insert, Structure, TypeOK, Indices
      <4> QED
        BY <2>1, <2>3, <3>1, <3>2, <4>1, <4>2
    <3>3. CASE side[b] # g
      BY <1>0, <2>1, <2>3, <3>1, <3>3, RankOfMember DEF PM!NoKey
    <3> QED
      BY <3>2, <3>3
  <2> QED
    BY <2>2, <2>3
<1>5. rankView' = [rankView EXCEPT ![h] =
                    [rankView[h] EXCEPT ![a] = k]]
  <2> DEFINE r == [rankView[h] EXCEPT ![a] = k]
  <2>1. r = [c \in Accounts |-> r[c]]
    BY RankIsTable
  <2>2. \A g \in Heaps, c \in Accounts :
          rankView'[g][c] = IF g = h THEN r[c] ELSE rankView[g][c]
    BY <1>4, RankIsTable
  <2> HIDE DEF r
  <2>3. rankView' = [rankView EXCEPT ![h] = r]
    BY <2>1, <2>2, RankIsTable, RankIsTablePrimed, OneRowChanges
  <2> QED
    BY <2>3 DEF r
<1> QED
  BY <1>3, <1>5

LEMMA UpdateRank ==
  ASSUME IInv, NEW h \in Heaps, NEW a \in Accounts, NEW k \in Keys,
         Update(h, a, k)
  PROVE  /\ rankView[h][a] # PM!NoKey
         /\ rankView' = [rankView EXCEPT ![h] = [rankView[h] EXCEPT ![a] = k]]
<1>0. Structure
  BY DEF IInv
<1> DEFINE i == heapPosition[a] - 1
<1>1. side[a] = h /\ i \in Indices /\ i < length[h] /\ nodes[h][i] \in Node
      /\ rankView[h][a] # PM!NoKey
  BY <1>0, RankOfMember DEF Update
<1>2. /\ nodes'[h][i].key = k
      /\ \A g \in Heaps, j \in Indices :
           ~(g = h /\ j = i) => nodes'[g][j] = nodes[g][j]
  BY <1>0, <1>1 DEF Update, Structure, TypeOK, Node
<1>3. side' = side /\ heapPosition' = heapPosition
  BY DEF Update
<1> HIDE DEF i
<1>4. ASSUME NEW g \in Heaps, NEW b \in Accounts
      PROVE  rankView'[g][b] = IF g = h /\ b = a THEN k ELSE rankView[g][b]
  <2>1. rankView'[g][b] = IF side[b] = g THEN nodes'[g][heapPosition[b] - 1].key ELSE -1
    BY <1>3 DEF rankView
  <2>2. CASE b = a
    BY <1>0, <1>1, <1>2, <2>1, <2>2, RankOfMember, HeapAssumption DEF i, PM!NoKey
  <2>3. CASE b # a /\ side[b] = g
    <3>1. heapPosition[b] - 1 \in Indices /\ heapPosition[b] - 1 < length[g]
          /\ rankView[g][b] = nodes[g][heapPosition[b] - 1].key
      BY <1>0, <2>3, RankOfMember
    <3>2. nodes[g][heapPosition[b] - 1].account = b /\ nodes[h][i].account = a
      BY <1>0, <1>1, <2>3, RankOfMember DEF i
    <3>3. nodes'[g][heapPosition[b] - 1] = nodes[g][heapPosition[b] - 1]
      BY <1>2, <2>3, <3>1, <3>2
    <3> QED
      BY <2>1, <2>3, <3>1, <3>3
  <2>4. CASE b # a /\ side[b] # g
    BY <1>0, <2>1, <2>4, RankOfMember DEF PM!NoKey
  <2> QED
    BY <2>2, <2>3, <2>4
<1>5. rankView' = [rankView EXCEPT ![h] =
                    [rankView[h] EXCEPT ![a] = k]]
  <2> DEFINE r == [rankView[h] EXCEPT ![a] = k]
  <2>1. r = [c \in Accounts |-> r[c]]
    BY RankIsTable
  <2>2. \A g \in Heaps, c \in Accounts :
          rankView'[g][c] = IF g = h THEN r[c] ELSE rankView[g][c]
    BY <1>4, RankIsTable
  <2> HIDE DEF r
  <2>3. rankView' = [rankView EXCEPT ![h] = r]
    BY <2>1, <2>2, RankIsTable, RankIsTablePrimed, OneRowChanges
  <2> QED
    BY <2>3 DEF r
<1> QED
  BY <1>1, <1>5

LEMMA RemoveRank ==
  ASSUME IInv, NEW h \in Heaps, NEW a \in Accounts, Remove(h, a)
  PROVE  /\ rankView[h][a] # PM!NoKey
         /\ rankView' = [rankView EXCEPT ![h] = [rankView[h] EXCEPT ![a] = PM!NoKey]]
<1>0. Structure
  BY DEF IInv
<1> DEFINE i == heapPosition[a] - 1
           last == length[h] - 1
           moved == nodes[h][last]
<1>1. side[a] = h /\ i \in Indices /\ i < length[h] /\ nodes[h][i].account = a
      /\ rankView[h][a] # PM!NoKey
  BY <1>0, RankOfMember DEF Remove
<1>2. last \in Indices /\ last < length[h] /\ length[h] \in Nat /\ i \in Nat
  BY <1>0, <1>1, HeapAssumption DEF Structure, TypeOK, Indices
<1>3. moved.account \in Accounts /\ side[moved.account] = h
      /\ heapPosition[moved.account] = last + 1
  BY <1>0, <1>2 DEF Structure, NodesOwned
<1>4. side' = [side EXCEPT ![a] = NoHeap]
  BY DEF Remove
<1>5. ASSUME NEW g \in Heaps, NEW b \in Accounts
      PROVE  rankView'[g][b] = IF g = h /\ b = a THEN PM!NoKey ELSE rankView[g][b]
  <2>1. rankView'[g][b] = IF side'[b] = g THEN nodes'[g][heapPosition'[b] - 1].key ELSE -1
    BY DEF rankView
  <2>2. CASE b = a
    <3>1. side'[b] = NoHeap
      BY <1>0, <1>4, <2>2 DEF Structure, TypeOK
    <3>2. rankView'[g][b] = PM!NoKey
      BY <2>1, <3>1, HeapAssumption DEF PM!NoKey
    <3> QED
      BY <1>0, <1>1, <2>2, <3>2, RankOfMember
  <2>3. CASE b # a /\ side[b] # g
    <3>1. side'[b] = side[b]
      BY <1>0, <1>4, <2>3 DEF Structure, TypeOK
    <3> QED
      BY <1>0, <2>1, <2>3, <3>1, RankOfMember DEF PM!NoKey
  <2>4. CASE b # a /\ side[b] = g
    <3>1. side'[b] = g
      BY <1>0, <1>4, <2>4 DEF Structure, TypeOK
    <3> DEFINE j == heapPosition[b] - 1
    <3>2. j \in Indices /\ j < length[g] /\ rankView[g][b] = nodes[g][j].key
          /\ nodes[g][j].account = b /\ heapPosition[b] \in Nat
      BY <1>0, <2>4, RankOfMember
    <3>3. nodes'[g][heapPosition'[b] - 1].key = nodes[g][j].key
      <4>1. CASE last = i
        <5>1. heapPosition' = [heapPosition EXCEPT ![a] = 0]
              /\ nodes' = [nodes EXCEPT ![h][last] = EmptyNode]
          BY <1>1, <4>1 DEF Remove
        <5>2. heapPosition'[b] = heapPosition[b]
          BY <1>0, <2>4, <5>1 DEF Structure, TypeOK
        <5>3. ~(g = h /\ j = last)
          BY <1>1, <2>4, <3>2, <4>1
        <5>4. nodes'[g][j] = nodes[g][j]
          BY <1>0, <1>2, <3>2, <5>1, <5>3 DEF Structure, TypeOK
        <5> QED
          BY <5>2, <5>4
      <4>2. CASE last # i
        <5>1. heapPosition' = [heapPosition EXCEPT ![a] = 0, ![moved.account] = i + 1]
              /\ nodes' = [nodes EXCEPT ![h][i] = moved, ![h][last] = EmptyNode]
          BY <1>1, <4>2 DEF Remove
        <5>2. CASE b = moved.account
          <6>1. g = h /\ j = last
            BY <1>2, <1>3, <2>4, <5>2
          <6>2. heapPosition'[b] - 1 = i
            BY <1>0, <1>2, <1>3, <5>1, <5>2 DEF Structure, TypeOK
          <6>3. nodes'[h][i] = moved
            BY <1>0, <1>1, <1>2, <4>2, <5>1 DEF Structure, TypeOK
          <6> QED
            BY <6>1, <6>2, <6>3
        <5>3. CASE b # moved.account
          <6>1. heapPosition'[b] = heapPosition[b]
            BY <1>0, <2>4, <5>1, <5>3 DEF Structure, TypeOK
          <6>2. ~(g = h /\ j = i) /\ ~(g = h /\ j = last)
            BY <1>1, <2>4, <3>2, <5>3
          <6>3. nodes'[g][j] = nodes[g][j]
            BY <1>0, <1>1, <1>2, <3>2, <5>1, <6>2 DEF Structure, TypeOK
          <6> QED
            BY <6>1, <6>3
        <5> QED
          BY <5>2, <5>3
      <4> QED
        BY <4>1, <4>2
    <3> QED
      BY <2>1, <2>4, <3>1, <3>2, <3>3
  <2> QED
    BY <2>2, <2>3, <2>4
<1>6. rankView' = [rankView EXCEPT ![h] =
                    [rankView[h] EXCEPT ![a] = PM!NoKey]]
  <2> DEFINE r == [rankView[h] EXCEPT ![a] = PM!NoKey]
  <2>1. r = [c \in Accounts |-> r[c]]
    BY RankIsTable
  <2>2. \A g \in Heaps, c \in Accounts :
          rankView'[g][c] = IF g = h THEN r[c] ELSE rankView[g][c]
    BY <1>5, RankIsTable
  <2> HIDE DEF r
  <2>3. rankView' = [rankView EXCEPT ![h] = r]
    BY <2>1, <2>2, RankIsTable, RankIsTablePrimed, OneRowChanges
  <2> QED
    BY <2>3 DEF r
<1> QED
  BY <1>1, <1>6

LEMMA UpdateAccountRank ==
  ASSUME IInv, NEW h \in Heaps, NEW a \in Accounts, NEW b \in Accounts,
         UpdateAccount(h, a, b)
  PROVE  /\ rankView[h][a] # PM!NoKey
         /\ \A g \in Heaps : rankView[g][b] = PM!NoKey
         /\ rankView' = [rankView EXCEPT ![h] =
                           [rankView[h] EXCEPT ![a] = PM!NoKey, ![b] = rankView[h][a]]]
<1>0. Structure
  BY DEF IInv
<1> DEFINE i == heapPosition[a] - 1
<1>1. side[a] = h /\ i \in Indices /\ i < length[h] /\ nodes[h][i] \in Node
      /\ rankView[h][a] = nodes[h][i].key /\ rankView[h][a] # PM!NoKey
  BY <1>0, RankOfMember DEF UpdateAccount
<1>2. side[b] = NoHeap /\ a # b /\ \A g \in Heaps : side[b] # g
  BY <1>1, HeapAssumption DEF UpdateAccount
<1>3. \A g \in Heaps : rankView[g][b] = PM!NoKey
  BY <1>0, <1>2, RankOfMember
<1>4. \A g \in Heaps, j \in Indices : nodes'[g][j].key = nodes[g][j].key
  <2>1. nodes' = [nodes EXCEPT ![h] = [nodes[h] EXCEPT ![i] = [nodes[h][i] EXCEPT !.account = b]]]
    BY <1>0, <1>1 DEF UpdateAccount, Structure, TypeOK
  <2>2. [nodes[h][i] EXCEPT !.account = b].key = nodes[h][i].key
    BY <1>1 DEF Node
  <2> QED
    BY <1>0, <1>1, <2>1, <2>2 DEF Structure, TypeOK
<1>5. /\ side' = [side EXCEPT ![a] = NoHeap, ![b] = h]
      /\ heapPosition' = [heapPosition EXCEPT ![a] = 0, ![b] = heapPosition[a]]
  BY DEF UpdateAccount
<1>6. ASSUME NEW g \in Heaps, NEW c \in Accounts
      PROVE  rankView'[g][c] = IF g = h /\ c = b THEN rankView[h][a]
                               ELSE IF g = h /\ c = a THEN PM!NoKey ELSE rankView[g][c]
  <2>1. rankView'[g][c] = IF side'[c] = g THEN nodes'[g][heapPosition'[c] - 1].key ELSE -1
    BY DEF rankView
  <2>2. CASE c = b
    <3>1. side'[c] = h /\ heapPosition'[c] - 1 = i
      BY <1>0, <1>2, <1>5, <2>2 DEF Structure, TypeOK
    <3> QED
      BY <1>1, <1>3, <1>4, <2>1, <2>2, <3>1 DEF PM!NoKey
  <2>3. CASE c = a
    <3>1. side'[c] = NoHeap
      BY <1>0, <1>2, <1>5, <2>3 DEF Structure, TypeOK
    <3>2. rankView'[g][c] = PM!NoKey
      BY <2>1, <3>1, HeapAssumption DEF PM!NoKey
    <3> QED
      BY <1>0, <1>1, <1>2, <2>3, <3>2, RankOfMember
  <2>4. CASE c # a /\ c # b
    <3>1. side'[c] = side[c] /\ heapPosition'[c] = heapPosition[c]
      BY <1>0, <1>5, <2>4 DEF Structure, TypeOK
    <3> QED
      BY <1>0, <1>4, <2>1, <2>4, <3>1, RankOfMember DEF PM!NoKey
  <2> QED
    BY <2>2, <2>3, <2>4
<1>7. rankView' = [rankView EXCEPT ![h] =
                    [rankView[h] EXCEPT ![a] = PM!NoKey, ![b] = rankView[h][a]]]
  <2> DEFINE r == [rankView[h] EXCEPT ![a] = PM!NoKey, ![b] = rankView[h][a]]
  <2>1. r = [c \in Accounts |-> r[c]]
    BY RankIsTable
  <2>2. \A g \in Heaps, c \in Accounts :
          rankView'[g][c] = IF g = h THEN r[c] ELSE rankView[g][c]
    BY <1>2, <1>6, RankIsTable
  <2> HIDE DEF r
  <2>3. rankView' = [rankView EXCEPT ![h] = r]
    BY <2>1, <2>2, RankIsTable, RankIsTablePrimed, OneRowChanges
  <2> QED
    BY <2>3 DEF r
<1> QED
  BY <1>1, <1>3, <1>7

\* A swap moves two nodes and their pointers together.
LEMMA SwapRank ==
  ASSUME IInv, NEW i \in Indices, NEW j \in Indices, i # j,
         i < length[curHeap], j < length[curHeap],
         Swap(curHeap, i, j), side' = side
  PROVE  rankView' = rankView
<1>0. Structure /\ curHeap \in Heaps
  BY DEF IInv, Structure, TypeOK
<1> DEFINE a == nodes[curHeap][i].account
           b == nodes[curHeap][j].account
<1>1. /\ a \in Accounts /\ side[a] = curHeap /\ heapPosition[a] = i + 1
      /\ b \in Accounts /\ side[b] = curHeap /\ heapPosition[b] = j + 1
      /\ i \in Nat /\ j \in Nat
  BY <1>0, HeapAssumption DEF Structure, NodesOwned, Indices
<1>2. a # b
  BY <1>1
<1>a. a = nodes[curHeap][i].account /\ b = nodes[curHeap][j].account
  OBVIOUS
<1> HIDE DEF a, b
<1>b. heapPosition' = [heapPosition EXCEPT ![a] = j + 1, ![b] = i + 1]
  BY <1>a DEF Swap
<1>c. heapPosition'[a] = j + 1 /\ heapPosition'[b] = i + 1
  <2>1. DOMAIN heapPosition = Accounts
    BY <1>0 DEF Structure, TypeOK
  <2> QED
    BY <1>1, <1>2, <1>b, <2>1
<1>3. /\ nodes'[curHeap][i] = nodes[curHeap][j]
      /\ nodes'[curHeap][j] = nodes[curHeap][i]
      /\ \A g \in Heaps, m \in Indices :
           ~(g = curHeap /\ m \in {i, j}) => nodes'[g][m] = nodes[g][m]
  BY <1>0 DEF Swap, Structure, TypeOK
<1>4. ASSUME NEW g \in Heaps, NEW c \in Accounts
      PROVE  rankView'[g][c] = rankView[g][c]
  <2>1. rankView'[g][c] = IF side[c] = g THEN nodes'[g][heapPosition'[c] - 1].key ELSE -1
    BY DEF rankView
  <2>2. CASE side[c] # g
    BY <1>0, <2>1, <2>2, RankOfMember DEF PM!NoKey
  <2>3. CASE side[c] = g /\ c = a
    <3>1. heapPosition'[c] - 1 = j /\ heapPosition[c] - 1 = i
      BY <1>1, <1>c, <2>3
    <3> QED
      BY <1>0, <1>1, <1>3, <2>1, <2>3, <3>1, RankOfMember
  <2>4. CASE side[c] = g /\ c = b
    <3>1. heapPosition'[c] - 1 = i /\ heapPosition[c] - 1 = j
      BY <1>1, <1>c, <2>4
    <3> QED
      BY <1>0, <1>1, <1>3, <2>1, <2>4, <3>1, RankOfMember
  <2>5. CASE side[c] = g /\ c # a /\ c # b
    <3> DEFINE m == heapPosition[c] - 1
    <3>1. heapPosition'[c] = heapPosition[c]
      BY <1>0, <1>b, <2>5 DEF Structure, TypeOK
    <3>2. m \in Indices /\ nodes[g][m].account = c /\ rankView[g][c] = nodes[g][m].key
      BY <1>0, <2>5, RankOfMember
    <3>3. ~(g = curHeap /\ m \in {i, j})
      BY <1>a, <2>5, <3>2
    <3> HIDE DEF m
    <3>4. nodes'[g][m] = nodes[g][m]
      BY <1>3, <3>2, <3>3
    <3> QED
      BY <2>1, <2>5, <3>1, <3>2, <3>4 DEF m
  <2> QED
    BY <2>2, <2>3, <2>4, <2>5
<1> QED
  BY <1>4, RankIsTable, RankIsTablePrimed

-----------------------------------------------------------------------------
(***************************************************************************)
(* The steps.                                                              *)
(***************************************************************************)
LEMMA TopAfterStep == IInv' => TopSettles'
  BY TopOfHeap, PTL

LEMMA TopIsTable ==
  /\ topView = [g \in Heaps |-> topView[g]]
  /\ topView' = [g \in Heaps |-> topView'[g]]
  BY DEF topView

\* An operation that starts when no loop runs, gives heap h the keys r and leaves
\* the nodes of the other heaps alone is a Change of the priority map.
LEMMA OperationChanges ==
  ASSUME IInv, IInv', NEW h \in Heaps, NEW r, pc = "idle",
         rankView' = [rankView EXCEPT ![h] = r],
         \A g \in Heaps \ {h} : nodes'[g] = nodes[g] /\ length'[g] = length[g],
         pc' = "idle" \/ curHeap' = h
  PROVE  PM!Change(h, r)
<1>1. PM!Settled
  BY TopOfHeap DEF TopSettles, PM!Settled
<1>2. rankView'[h] = r
  BY RankIsTable
<1>3. ASSUME NEW g \in Heaps, g # h PROVE topView'[g] = topView[g]
  <2>1. nodes'[g] = nodes[g] /\ length'[g] = length[g]
    BY <1>3
  <2>2. ~(pc' # "idle" /\ curHeap' = g)
    BY <1>3
  <2>3. topView[g] = IF length[g] = 0 THEN NoAccount ELSE nodes[g][0].account
    BY DEF topView
  <2>4. topView'[g] = IF length'[g] = 0 THEN NoAccount ELSE nodes'[g][0].account
    BY <2>2 DEF topView
  <2> QED
    BY <2>1, <2>3, <2>4
<1>4. topView'[h] \in PM!Roots(r) \cup {PM!Unsettled}
  <2>1. topView'[h] \in PM!Roots(rankView'[h]) \cup {PM!Unsettled}
    BY TopAfterStep DEF TopSettles
  <2> QED
    BY <1>2, <2>1
<1>5. topView' = [topView EXCEPT ![h] = topView'[h]]
  BY <1>3, TopIsTable
<1> QED
  BY <1>1, <1>4, <1>5 DEF PM!Change

\* A swap does not show; the end of a loop settles the heap.
LEMMA LoopStep ==
  ASSUME IInv, IInv', HeapifyUpStep \/ HeapifyDownStep
  PROVE  PM!Settle(curHeap) \/ UNCHANGED PM!vars
<1>0. /\ Structure /\ curHeap \in Heaps /\ index \in Indices
      /\ index < length[curHeap] /\ pc # "idle"
      /\ UNCHANGED <<length, side, curHeap>>
  BY DEF IInv, Structure, TypeOK, LoopIndexInUse, HeapifyUpStep, HeapifyDownStep
<1>1. CASE EndLoop
  <2>1. nodes' = nodes /\ heapPosition' = heapPosition /\ pc' = "idle"
    BY <1>1 DEF EndLoop
  <2>2. rankView' = rankView
    BY <1>0, <2>1 DEF rankView
  <2>3. topView[curHeap] = PM!Unsettled
    BY <1>0 DEF topView, PM!Unsettled
  <2>4. topView'[curHeap] \in PM!Roots(rankView[curHeap])
    BY <1>0, <2>1, <2>2, TopAfterStep DEF TopSettles
  <2>5. ASSUME NEW g \in Heaps, g # curHeap PROVE topView'[g] = topView[g]
    BY <1>0, <2>1, <2>5 DEF topView
  <2>6. topView' = [topView EXCEPT ![curHeap] = topView'[curHeap]]
    BY <2>5, TopIsTable
  <2> QED
    BY <2>2, <2>3, <2>4, <2>6 DEF PM!Settle
<1>2. CASE \E j \in Indices : /\ j # index /\ j < length[curHeap]
                             /\ Swap(curHeap, index, j) /\ pc' = pc
  <2>1. PICK j \in Indices : /\ j # index /\ j < length[curHeap]
                             /\ Swap(curHeap, index, j) /\ pc' = pc
    BY <1>2
  <2>2. rankView' = rankView
    BY <1>0, <2>1, SwapRank
  <2>3. \A g \in Heaps \ {curHeap} : nodes'[g] = nodes[g]
    BY <1>0, <2>1 DEF Swap, Structure, TypeOK
  <2>4. ASSUME NEW g \in Heaps PROVE topView'[g] = topView[g]
    <3>1. CASE g = curHeap
      BY <1>0, <2>1, <3>1 DEF topView
    <3>2. CASE g # curHeap
      BY <1>0, <2>1, <2>3, <3>2 DEF topView
    <3> QED
      BY <3>1, <3>2
  <2>5. topView' = topView
    BY <2>4, TopIsTable
  <2> QED
    BY <2>2, <2>5 DEF PM!vars
<1>3. CASE HeapifyUpStep /\ ~EndLoop
  <2>1. /\ index # 0 /\ Swap(curHeap, index, Parent(index)) /\ pc' = pc
    BY <1>3 DEF HeapifyUpStep
  <2>2. Parent(index) \in Indices /\ Parent(index) < index
    BY <1>0, <2>1, ParentIndex
  <2>3. Parent(index) < length[curHeap] /\ Parent(index) # index
    BY <1>0, <2>2, HeapAssumption DEF Structure, TypeOK, Indices
  <2> QED
    BY <1>2, <2>1, <2>2, <2>3
<1>4. CASE HeapifyDownStep /\ ~EndLoop
  <2> DEFINE b == Biggest(nodes[curHeap], length[curHeap], index)
  <2>1. b # index /\ Swap(curHeap, index, b) /\ pc' = pc
    BY <1>4 DEF HeapifyDownStep
  <2>2. nodes[curHeap] \in [Indices -> Node] /\ length[curHeap] \in 0 .. Capacity
    BY <1>0 DEF Structure, TypeOK
  <2>3. b \in Indices /\ b < length[curHeap]
    BY <1>0, <2>2, BiggestChild
  <2> HIDE DEF b
  <2> QED
    BY <1>2, <2>1, <2>3
<1> QED
  BY <1>1, <1>3, <1>4

LEMMA InitImplements == Init => PM!Init
<1> SUFFICES ASSUME Init PROVE PM!Init
  OBVIOUS
<1>1. rankView = [h \in Heaps |-> [a \in Accounts |-> PM!NoKey]]
  BY HeapAssumption DEF Init, rankView, PM!NoKey
<1>2. topView = [h \in Heaps |-> NoAccount]
  BY DEF Init, topView
<1> QED
  BY <1>1, <1>2 DEF PM!Init

LEMMA StepImplements == IInv /\ IInv' /\ [Next]_vars => [PM!Next]_(PM!vars)
<1> SUFFICES ASSUME IInv, IInv', [Next]_vars PROVE PM!Next \/ UNCHANGED PM!vars
  OBVIOUS
<1>0. Structure
  BY DEF IInv
<1>1. CASE HeapifyUpStep \/ HeapifyDownStep
  <2>1. curHeap \in Heaps
    BY <1>0 DEF Structure, TypeOK
  <2> QED
    BY <1>1, <2>1, LoopStep DEF PM!Next
<1>2. ASSUME NEW h \in Heaps, NEW a \in Accounts, NEW k \in Keys, Insert(h, a, k)
      PROVE  PM!Insert(h, a, k)
  <2>1. \A g \in Heaps \ {h} : nodes'[g] = nodes[g] /\ length'[g] = length[g]
    BY <1>0, <1>2 DEF Insert, Structure, TypeOK
  <2>2. pc = "idle" /\ curHeap' = h
    BY <1>2 DEF Insert, StartLoop
  <2> QED
    BY <1>2, <2>1, <2>2, InsertRank, OperationChanges DEF PM!Insert
<1>3. ASSUME NEW h \in Heaps, NEW a \in Accounts, NEW k \in Keys, Update(h, a, k)
      PROVE  PM!Update(h, a, k)
  <2>1. \A g \in Heaps \ {h} : nodes'[g] = nodes[g] /\ length'[g] = length[g]
    BY <1>0, <1>3 DEF Update, Structure, TypeOK
  <2>2. pc = "idle" /\ curHeap' = h
    BY <1>3 DEF Update, StartLoop
  <2> QED
    BY <1>3, <2>1, <2>2, UpdateRank, OperationChanges DEF PM!Update
<1>4. ASSUME NEW h \in Heaps, NEW a \in Accounts, Remove(h, a)
      PROVE  PM!Remove(h, a)
  <2>1. \A g \in Heaps \ {h} : nodes'[g] = nodes[g] /\ length'[g] = length[g]
    BY <1>0, <1>4 DEF Remove, Structure, TypeOK
  <2>2. pc = "idle" /\ (pc' = "idle" \/ curHeap' = h)
    BY <1>4 DEF Remove, StartLoop
  <2> QED
    BY <1>4, <2>1, <2>2, RemoveRank, OperationChanges DEF PM!Remove
<1>5. ASSUME NEW h \in Heaps, NEW a \in Accounts, NEW b \in Accounts,
             UpdateAccount(h, a, b)
      PROVE  PM!Replace(h, a, b)
  <2>1. \A g \in Heaps \ {h} : nodes'[g] = nodes[g] /\ length'[g] = length[g]
    BY <1>0, <1>5 DEF UpdateAccount, Structure, TypeOK
  <2>2. pc = "idle" /\ pc' = "idle"
    BY <1>5 DEF UpdateAccount
  <2> QED
    BY <1>5, <2>1, <2>2, UpdateAccountRank, OperationChanges DEF PM!Replace
<1>6. CASE UNCHANGED vars
  BY <1>6 DEF vars, rankView, topView, PM!vars
<1>7. Keys = PM!Keys
  BY DEF Keys, PM!Keys
<1> QED
  BY <1>1, <1>2, <1>3, <1>4, <1>5, <1>6, <1>7 DEF Next, PM!Next

\* Seen through the account's key and the account at the root, the array heaps
\* behave as priority maps: an operation of the pool changes the key of its own
\* account in its own heap only, and once it is over a worst position is the root.
THEOREM ImplementsPriorities == Spec => ImplementsPriorityMap
  BY InitImplements, IInvInit, IInvStep, StepImplements, PTL
  DEF Spec, PM!Spec, ImplementsPriorityMap
=============================================================================
