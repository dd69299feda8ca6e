--------------------------- MODULE MaxBinaryHeap ---------------------------
(***************************************************************************)
(* libraries/MaxBinaryHeapLib.sol as MarginlyPool uses it: the array heaps *)
(* shortHeap and longHeap, and the back pointers heapPosition that both    *)
(* keep in the same mapping of positions.                                  *)
(*                                                                         *)
(* One action per library operation; the loops heapifyUp and heapifyDown   *)
(* take one step per iteration, and no operation starts before the loop of *)
(* the previous one has ended (an Ethereum transaction is atomic).  What   *)
(* the callers guarantee is in the guards: an account enters a heap only   *)
(* when it has no heapPosition (MarginlyPool.short, long) and leaves it by *)
(* its own heapPosition - 1.                                               *)
(***************************************************************************)
EXTENDS Integers

CONSTANTS Accounts,   \* addresses that can own a position
          NoAccount,  \* address(0), the account of a deleted node
          Heaps,      \* the heaps of a pool: shortHeap and longHeap
          NoHeap,     \* side of an account that is in no heap
          Capacity,   \* bound on the length of a heap (uint32 in the code)
          MaxKey      \* type(uint96).max, scaled down

ASSUME HeapAssumption ==
  /\ NoAccount \notin Accounts
  /\ NoHeap \notin Heaps
  /\ Accounts \cap {"unsettled"} = {}
  /\ NoAccount # "unsettled"
  /\ Capacity \in Nat \ {0}
  /\ MaxKey \in Nat

Keys == 0 .. MaxKey
Indices == 0 .. Capacity - 1
Node == [key : Keys, account : Accounts \cup {NoAccount}]
EmptyNode == [key |-> 0, account |-> NoAccount]

VARIABLES
  nodes,         \* nodes[h][i]: mapping(uint32 => Node) of heap h
  length,        \* length[h]
  heapPosition,  \* heapPosition[a]: index of a in its heap plus 1, or 0
  side,          \* side[a]: the heap its position type places a in
  pc,            \* "idle", or the loop that runs: "up", "down"
  curHeap,       \* the heap the loop runs on
  index          \* the loop's index

vars == <<nodes, length, heapPosition, side, pc, curHeap, index>>

TypeOK ==
  /\ nodes \in [Heaps -> [Indices -> Node]]
  /\ length \in [Heaps -> 0 .. Capacity]
  /\ heapPosition \in [Accounts -> 0 .. Capacity]
  /\ side \in [Accounts -> Heaps \cup {NoHeap}]
  /\ pc \in {"idle", "up", "down"}
  /\ curHeap \in Heaps
  /\ index \in Indices

Init ==
  /\ nodes = [h \in Heaps |-> [i \in Indices |-> EmptyNode]]
  /\ length = [h \in Heaps |-> 0]
  /\ heapPosition = [a \in Accounts |-> 0]
  /\ side = [a \in Accounts |-> NoHeap]
  /\ pc = "idle"
  /\ curHeap \in Heaps
  /\ index = 0

-----------------------------------------------------------------------------
Parent(i) == (i - 1) \div 2
Left(i) == 2 * i + 1

\* Mutant of Right.
RightIsLeft(i) == 2 * i + 1
Right(i) == 2 * i + 2

\* Mutant of StartLoop: heapPosition instead of the index below it.
StartLoopAtPosition(l, h, i) == pc' = l /\ curHeap' = h /\ index' = i + 1

\* The loop l starts at index i of heap h.
StartLoop(l, h, i) == pc' = l /\ curHeap' = h /\ index' = i

\* Guard of Insert adds the bound: a heap holds at most Capacity nodes.
Insert(h, a, k) ==
  /\ pc = "idle"
  /\ side[a] = NoHeap
  /\ heapPosition[a] = 0
  /\ length[h] < Capacity
  /\ nodes' = [nodes EXCEPT ![h][length[h]] = [key |-> k, account |-> a]]
  /\ heapPosition' = [heapPosition EXCEPT ![a] = length[h] + 1]
  /\ length' = [length EXCEPT ![h] = @ + 1]
  /\ side' = [side EXCEPT ![a] = h]
  /\ StartLoop("up", h, length[h])

\* Mutant of Update: heapifyDown whether the key shrinks or grows.
UpdateDown(h, a, k) ==
  /\ pc = "idle"
  /\ side[a] = h
  /\ nodes' = [nodes EXCEPT ![h][heapPosition[a] - 1].key = k]
  /\ StartLoop("down", h, heapPosition[a] - 1)
  /\ UNCHANGED <<length, heapPosition, side>>

Update(h, a, k) ==
  /\ pc = "idle"
  /\ side[a] = h
  /\ heapPosition[a] - 1 < length[h]
  /\ LET i == heapPosition[a] - 1 IN
       /\ nodes' = [nodes EXCEPT ![h][i].key = k]
       /\ StartLoop(IF nodes[h][i].key < k THEN "up" ELSE "down", h, i)
  /\ UNCHANGED <<length, heapPosition, side>>

\* The last node takes the place of the removed one.  The code deletes the
\* last slot after the loop, which never reads it: its index is the new length.
Remove(h, a) ==
  LET i == heapPosition[a] - 1
      last == length[h] - 1
      moved == nodes[h][last]
  IN
  /\ pc = "idle"
  /\ side[a] = h
  /\ i < length[h]
  /\ length' = [length EXCEPT ![h] = last]
  /\ side' = [side EXCEPT ![a] = NoHeap]
  /\ \/ /\ last = i
        /\ heapPosition' = [heapPosition EXCEPT ![nodes[h][i].account] = 0]
        /\ nodes' = [nodes EXCEPT ![h][last] = EmptyNode]
        /\ UNCHANGED <<pc, curHeap, index>>
     \/ /\ last # i
        /\ heapPosition' = [heapPosition EXCEPT ![nodes[h][i].account] = 0,
                                                ![moved.account] = i + 1]
        /\ nodes' = [nodes EXCEPT ![h][i] = moved, ![h][last] = EmptyNode]
        /\ StartLoop(IF nodes[h][i].key < moved.key THEN "up" ELSE "down", h, i)

\* receivePosition: the receiver b takes over the node, pointer and side of
\* the bad position a, whose position is then deleted.
UpdateAccount(h, a, b) ==
  /\ pc = "idle"
  /\ side[a] = h
  /\ side[b] = NoHeap
  /\ nodes' = [nodes EXCEPT ![h][heapPosition[a] - 1].account = b]
  /\ heapPosition' = [heapPosition EXCEPT ![a] = 0, ![b] = heapPosition[a]]
  /\ side' = [side EXCEPT ![a] = NoHeap, ![b] = h]
  /\ UNCHANGED <<length, pc, curHeap, index>>

-----------------------------------------------------------------------------
\* Mutant of Swap: the pointers stay behind.
SwapNodes(h, i, j) ==
  /\ nodes' = [nodes EXCEPT ![h][i] = nodes[h][j], ![h][j] = nodes[h][i]]
  /\ UNCHANGED heapPosition

Swap(h, i, j) ==
  /\ heapPosition' = [heapPosition EXCEPT ![nodes[h][i].account] = j + 1,
                                          ![nodes[h][j].account] = i + 1]
  /\ nodes' = [nodes EXCEPT ![h][i] = nodes[h][j], ![h][j] = nodes[h][i]]

EndLoop == pc' = "idle" /\ UNCHANGED <<nodes, heapPosition, index>>

HeapifyUpStep ==
  LET n == nodes[curHeap] IN
  /\ pc = "up"
  /\ \/ /\ index # 0 => n[Parent(index)].key >= n[index].key
        /\ EndLoop
     \/ /\ index # 0
        /\ n[Parent(index)].key < n[index].key
        /\ Swap(curHeap, index, Parent(index))
        /\ index' = Parent(index)
        /\ UNCHANGED pc
  /\ UNCHANGED <<length, side, curHeap>>

\* Mutant of Biggest: the right child is compared with i, not with the left one.
BiggestOfRight(n, len, i) ==
  IF Right(i) < len /\ n[Right(i)].key > n[i].key THEN Right(i)
  ELSE IF Left(i) < len /\ n[Left(i)].key > n[i].key THEN Left(i) ELSE i

\* The child of i that the loop moves up, or i itself: the right child only
\* when its key is strictly greater than that of the left one.
Biggest(n, len, i) ==
  LET b == IF Left(i) < len /\ n[Left(i)].key > n[i].key THEN Left(i) ELSE i
  IN  IF Right(i) < len /\ n[Right(i)].key > n[b].key THEN Right(i) ELSE b

HeapifyDownStep ==
  LET biggest == Biggest(nodes[curHeap], length[curHeap], index) IN
  /\ pc = "down"
  /\ \/ /\ biggest = index
        /\ EndLoop
     \/ /\ biggest # index
        /\ Swap(curHeap, index, biggest)
        /\ index' = biggest
        /\ UNCHANGED pc
  /\ UNCHANGED <<length, side, curHeap>>

Next ==
  \/ HeapifyUpStep
  \/ HeapifyDownStep
  \/ \E h \in Heaps, a \in Accounts :
       \/ \E k \in Keys : Insert(h, a, k) \/ Update(h, a, k)
       \/ Remove(h, a)
       \/ \E b \in Accounts : UpdateAccount(h, a, b)

Spec == Init /\ [][Next]_vars

-----------------------------------------------------------------------------
\* A position's pointer leads to the node of that account, ...
PointersLead ==
  \A a \in Accounts :
    IF side[a] = NoHeap
    THEN heapPosition[a] = 0
    ELSE /\ heapPosition[a] \in 1 .. length[side[a]]
         /\ nodes[side[a]][heapPosition[a] - 1].account = a

\* ... and every node in use belongs to an account that points back at it.
NodesOwned ==
  \A h \in Heaps : \A i \in Indices : i < length[h] =>
    /\ nodes[h][i].account \in Accounts
    /\ side[nodes[h][i].account] = h
    /\ heapPosition[nodes[h][i].account] = i + 1

\* heapPosition and nodes are inverse to each other in every state, inside the
\* loops too, although both heaps keep their pointers in one mapping.  remove,
\* update and the keeper's getHeapPosition rely on it.
PointersConsistent == PointersLead /\ NodesOwned

\* The nodes n below len are in heap order, given the loop l that is at work at
\* index at: heapifyUp leaves the node at index out of order with its parent,
\* heapifyDown the node at index with its children; in both cases the children
\* of index are in order with its parent, so that one swap can repair index.
Ordered(n, len, l, at) ==
  \A i \in Indices : (i # 0 /\ i < len) =>
    /\ \/ n[Parent(i)].key >= n[i].key
       \/ l = "up" /\ i = at
       \/ l = "down" /\ Parent(i) = at
    /\ (l # "idle" /\ Parent(i) = at /\ at # 0) => n[Parent(at)].key >= n[i].key

\* No key exceeds its parent's, except where a loop is still at work.
OrderedExceptAtIndex ==
  \A h \in Heaps :
    Ordered(nodes[h], length[h], IF curHeap = h THEN pc ELSE "idle", index)

\* Between operations the root is a worst position: no node of the heap has a
\* greater key.  reinit and shutDown look at nothing but the root.
RootIsMax ==
  pc = "idle" =>
    \A h \in Heaps : \A i \in Indices :
      i < length[h] => nodes[h][0].key >= nodes[h][i].key

\* A running loop is at a node in use.
LoopIndexInUse == pc # "idle" => index < length[curHeap]

-----------------------------------------------------------------------------
\* The pool's view: the key each account is ranked by, and the root.
rankView ==
  [h \in Heaps |-> [a \in Accounts |->
     IF side[a] = h THEN nodes[h][heapPosition[a] - 1].key ELSE -1]]

topView ==
  [h \in Heaps |->
     IF pc # "idle" /\ curHeap = h THEN "unsettled"
     ELSE IF length[h] = 0 THEN NoAccount ELSE nodes[h][0].account]

PM == INSTANCE PriorityMap WITH rank <- rankView, top <- topView

\* The array heaps with their pointers implement the priority maps the pool
\* relies on: what the pool reads by account and at the root is what was stored.
ImplementsPriorityMap == PM!Spec
=============================================================================
