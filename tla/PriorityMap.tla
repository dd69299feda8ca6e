---------------------------- MODULE PriorityMap ----------------------------
(***************************************************************************)
(* What MarginlyPool expects of its two MaxBinaryHeapLib heaps: every      *)
(* margin position is a member of exactly one of them with one sort key,   *)
(* and once an operation has settled, the root (getNodeByIndex(0)) is a    *)
(* member whose key no other member exceeds.  No array, no index, no       *)
(* pointer: which of several maximal members is the root is left open.     *)
(***************************************************************************)
EXTENDS Integers

CONSTANTS Accounts,   \* addresses that can own a position
          NoAccount,  \* address(0)
          Heaps,      \* the heaps of a pool: shortHeap and longHeap
          MaxKey      \* type(uint96).max, scaled down

Unsettled == "unsettled"   \* the root while an operation is under way
NoKey == -1                \* the account is not in the heap
Keys == 0 .. MaxKey

VARIABLES rank,   \* rank[h][a]: sort key of account a in heap h, or NoKey
          top     \* top[h]: account at the root of h, NoAccount when empty

vars == <<rank, top>>

Members(h) == {a \in Accounts : rank[h][a] # NoKey}

\* The accounts that may stand at the root when the keys of a heap are r.
Roots(r) ==
  IF \A a \in Accounts : r[a] = NoKey
  THEN {NoAccount}
  ELSE {a \in Accounts : r[a] # NoKey /\ \A b \in Accounts : r[b] <= r[a]}

Settled == \A h \in Heaps : top[h] # Unsettled

Init == /\ rank = [h \in Heaps |-> [a \in Accounts |-> NoKey]]
        /\ top = [h \in Heaps |-> NoAccount]

\* An operation on h leaves the keys r; it settles at once or later.
Change(h, r) ==
  /\ Settled
  /\ rank' = [rank EXCEPT ![h] = r]
  /\ \E t \in Roots(r) \cup {Unsettled} : top' = [top EXCEPT ![h] = t]

Insert(h, a, k) ==
  /\ \A g \in Heaps : rank[g][a] = NoKey
  /\ Change(h, [rank[h] EXCEPT ![a] = k])

Update(h, a, k) ==
  /\ rank[h][a] # NoKey
  /\ Change(h, [rank[h] EXCEPT ![a] = k])

Remove(h, a) ==
  /\ rank[h][a] # NoKey
  /\ Change(h, [rank[h] EXCEPT ![a] = NoKey])

\* b takes the place of a, key included.
Replace(h, a, b) ==
  /\ rank[h][a] # NoKey
  /\ \A g \in Heaps : rank[g][b] = NoKey
  /\ Change(h, [rank[h] EXCEPT ![a] = NoKey, ![b] = rank[h][a]])

\* The operation under way on h is done.
Settle(h) ==
  /\ top[h] = Unsettled
  /\ \E t \in Roots(rank[h]) : top' = [top EXCEPT ![h] = t]
  /\ UNCHANGED rank

Next ==
  \E h \in Heaps :
    \/ Settle(h)
    \/ \E a \in Accounts :
         \/ \E k \in Keys : Insert(h, a, k) \/ Update(h, a, k)
         \/ Remove(h, a)
         \/ \E b \in Accounts : Replace(h, a, b)

Spec == Init /\ [][Next]_vars
=============================================================================
