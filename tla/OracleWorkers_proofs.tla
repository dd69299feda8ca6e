------------------------ MODULE OracleWorkers_proofs ------------------------
(***************************************************************************)
(* For any workers, jobs, prices and sources: the mutex of the prices is   *)
(* exact, a validated mock is one that was seen to store a price, and the  *)
(* service does not end while a worker is in the middle of anything.       *)
(*                                                                         *)
(* Every step of a worker does one of five things to the mutex: nothing    *)
(* (Quiet), it joins the queue (Enters), leaves it (Leaves), begins to ask *)
(* the sources (Loads), or goes on asking (Asks).  MutexIsExact is kept by *)
(* each of them.  Workers that the manager restarts have failed, and stay  *)
(* so until then (RestartOK); workers that it forgot have ended (ActiveOK).*)
(***************************************************************************)
EXTENDS OracleWorkers, WellFoundedInduction, TLAPS

Functional ==
  DOMAIN job = Workers /\ DOMAIN validated = Workers /\ DOMAIN due = Workers

RestartOK ==
  /\ manager # "restartDelay" => restarting = {}
  /\ \A w \in restarting : w \in active /\ pc[w] = "failure"

ActiveOK ==
  /\ \A w \in Workers \ active : pc[w] \in Settled
  /\ manager = "stopped" => active = {}

IInv == TypeOK /\ Functional /\ MutexIsExact /\ RestartOK /\ ActiveOK

-----------------------------------------------------------------------------
(* The mutex.                                                              *)

Busy == {"lock", "fetch"}

Quiet(w) == pc[w] \notin Busy /\ pc'[w] \notin Busy /\ UNCHANGED <<mutex, fetch>>
Enters(w) ==
  /\ pc[w] \notin Busy /\ pc'[w] = "lock"
  /\ mutex' = Append(mutex, w) /\ UNCHANGED fetch
Leaves(w) ==
  /\ pc[w] \in Busy /\ Inside(w) /\ pc'[w] \notin Busy
  /\ mutex' = Tail(mutex) /\ fetch' = NoFetch
Loads(w) ==
  /\ pc[w] = "lock" /\ Inside(w) /\ fetch = NoFetch
  /\ pc'[w] = "fetch" /\ fetch' # NoFetch /\ UNCHANGED mutex
Asks(w) ==
  /\ pc[w] = "fetch" /\ pc'[w] = "fetch"
  /\ fetch # NoFetch /\ fetch' # NoFetch /\ UNCHANGED mutex

Alone(w) == \A v \in Workers \ {w} : pc'[v] = pc[v]

LEMMA QuietKeeps ==
  ASSUME MutexIsExact, NEW w \in Workers, Alone(w), Quiet(w)
  PROVE  MutexIsExact'
BY DEF MutexIsExact, Alone, Quiet, Busy, Inside

LEMMA AsksKeeps ==
  ASSUME MutexIsExact, NEW w \in Workers, Alone(w), Asks(w)
  PROVE  MutexIsExact'
BY DEF MutexIsExact, Alone, Asks, Inside

LEMMA LoadsKeeps ==
  ASSUME MutexIsExact, NEW w \in Workers, Alone(w), Loads(w)
  PROVE  MutexIsExact'
BY DEF MutexIsExact, Alone, Loads, Inside

LEMMA EntersKeeps ==
  ASSUME MutexIsExact, mutex \in Seq(Workers), NEW w \in Workers, Alone(w), Enters(w)
  PROVE  MutexIsExact'
<1>1. /\ Len(mutex) \in Nat /\ DOMAIN mutex = 1..Len(mutex)
      /\ DOMAIN mutex' = 1..(Len(mutex) + 1)
      /\ mutex'[Len(mutex) + 1] = w
      /\ \A i \in 1..Len(mutex) : mutex'[i] = mutex[i]
  BY DEF Enters
<1>2. \A i \in DOMAIN mutex : mutex[i] # w
  BY DEF MutexIsExact, Enters, Busy
<1>3. \A v \in Workers : Inside(v) => Inside(v)'
  BY <1>1 DEF Inside, Enters
<1>4. \A v \in Workers : (pc[v] \in {"lock", "fetch"} <=> \E i \in DOMAIN mutex : mutex[i] = v)'
  <2>1. SUFFICES ASSUME NEW v \in Workers
                 PROVE  pc'[v] \in {"lock", "fetch"} <=> \E i \in DOMAIN mutex' : mutex'[i] = v
    OBVIOUS
  <2>2. CASE v = w
    BY <1>1, <2>2 DEF Enters
  <2>3. CASE v # w
    <3>1. pc'[v] = pc[v]
      BY <2>3 DEF Alone
    <3>2. (\E i \in DOMAIN mutex : mutex[i] = v) <=> \E i \in DOMAIN mutex' : mutex'[i] = v
      BY <1>1, <2>3
    <3>3. QED
      BY <3>1, <3>2 DEF MutexIsExact
  <2>4. QED
    BY <2>2, <2>3
<1>5. (\A i, j \in DOMAIN mutex : mutex[i] = mutex[j] => i = j)'
  BY <1>1, <1>2 DEF MutexIsExact
<1>6. \A v \in Workers : pc'[v] = "fetch" <=> pc[v] = "fetch"
  BY DEF Alone, Enters, Busy
<1>7. QED
  BY <1>3, <1>4, <1>5, <1>6 DEF MutexIsExact, Enters

LEMMA LeavesKeeps ==
  ASSUME MutexIsExact, mutex \in Seq(Workers), NEW w \in Workers, Alone(w), Leaves(w)
  PROVE  MutexIsExact'
<1>1. /\ Len(mutex) \in Nat \ {0} /\ DOMAIN mutex = 1..Len(mutex)
      /\ DOMAIN mutex' = 1..(Len(mutex) - 1)
      /\ \A i \in 1..(Len(mutex) - 1) : mutex'[i] = mutex[i + 1]
      /\ mutex[1] = w
  BY DEF Leaves, Inside
<1>2. \A i \in 2..Len(mutex) : mutex[i] # w
  BY <1>1 DEF MutexIsExact
<1>3. \A v \in Workers : (pc[v] \in {"lock", "fetch"} <=> \E i \in DOMAIN mutex : mutex[i] = v)'
  <2>1. SUFFICES ASSUME NEW v \in Workers
                 PROVE  pc'[v] \in {"lock", "fetch"} <=> \E i \in DOMAIN mutex' : mutex'[i] = v
    OBVIOUS
  <2>2. CASE v = w
    BY <1>1, <1>2, <2>2 DEF Leaves, Busy
  <2>3. CASE v # w
    <3>1. pc'[v] = pc[v]
      BY <2>3 DEF Alone
    <3>2. ASSUME NEW i \in DOMAIN mutex, mutex[i] = v
          PROVE  \E k \in DOMAIN mutex' : mutex'[k] = v
      <4>1. i - 1 \in DOMAIN mutex' /\ mutex'[i - 1] = v
        BY <1>1, <2>3, <3>2
      <4>2. QED
        BY <4>1
    <3>3. ASSUME NEW i \in DOMAIN mutex', mutex'[i] = v
          PROVE  \E k \in DOMAIN mutex : mutex[k] = v
      <4>1. i + 1 \in DOMAIN mutex /\ mutex[i + 1] = v
        BY <1>1, <3>3
      <4>2. QED
        BY <4>1
    <3>4. QED
      BY <3>1, <3>2, <3>3 DEF MutexIsExact
  <2>4. QED
    BY <2>2, <2>3
<1>4. (\A i, j \in DOMAIN mutex : mutex[i] = mutex[j] => i = j)'
  <2>1. SUFFICES ASSUME NEW i \in DOMAIN mutex', NEW j \in DOMAIN mutex', mutex'[i] = mutex'[j]
                 PROVE  i = j
    OBVIOUS
  <2>2. /\ i \in Nat /\ j \in Nat /\ i + 1 \in DOMAIN mutex /\ j + 1 \in DOMAIN mutex
        /\ mutex[i + 1] = mutex[j + 1]
    BY <1>1, <2>1
  <2>3. i + 1 = j + 1
    BY <2>2 DEF MutexIsExact
  <2>4. QED
    BY <2>2, <2>3
<1>5. \A v \in Workers : pc'[v] # "fetch"
  <2>1. SUFFICES ASSUME NEW v \in Workers, pc'[v] = "fetch" PROVE FALSE
    OBVIOUS
  <2>2. v # w
    BY <2>1 DEF Leaves, Busy
  <2>3. pc[v] = "fetch"
    BY <2>1, <2>2 DEF Alone
  <2>4. Inside(v)
    BY <2>3 DEF MutexIsExact
  <2>5. QED
    BY <2>2, <2>4 DEF Inside, Leaves
<1>6. QED
  BY <1>3, <1>4, <1>5 DEF MutexIsExact, Leaves

-----------------------------------------------------------------------------
(* The next job.                                                           *)

\* A set of numbers that is not empty has a least one.
LEMMA Least ==
  ASSUME NEW T \in SUBSET Nat, T # {}
  PROVE  \E m \in T : \A k \in T : m <= k
<1>1. PICK m \in T : \A k \in T : ~ (<<k, m>> \in OpToRel(<, Nat))
  BY WFMin, NatLessThanWellFounded
<1>2. \A k, n \in Nat : k < n => <<k, n>> \in OpToRel(<, Nat)
  BY DEF OpToRel
<1>3. \A k \in T : ~ (k < m)
  BY <1>1, <1>2, Zenon
<1>4. QED
  BY <1>3

\* What w does next: it stops or sleeps, or it asks for the price of a job of its own.
Proceeds(w) ==
  /\ UNCHANGED <<cache, fetch>>
  /\ \/ /\ pc' = [pc EXCEPT ![w] = "success"] \/ pc' = [pc EXCEPT ![w] = "sleep"]
        /\ UNCHANGED <<mutex, job>>
     \/ /\ pc' = [pc EXCEPT ![w] = "lock"]
        /\ mutex' = Append(mutex, w)
        /\ \E k \in DOMAIN Jobs[w] : job' = [job EXCEPT ![w] = k]

LEMMA NextJobProceeds ==
  ASSUME NEW w \in Workers, NEW j \in Nat \ {0}, NEW D, NextJob(w, j, D)
  PROVE  Proceeds(w)
<1> DEFINE T == DueFrom(w, j, D)
<1>1. Jobs[w] \in Seq(Mocks(w))
  BY OracleWorkersAssumption
<1>2. T \subseteq Nat /\ T \subseteq DOMAIN Jobs[w]
  BY <1>1 DEF DueFrom
<1>3. CASE T = {}
  BY <1>3 DEF NextJob, Proceeds
<1>4. CASE T # {}
  <2>1. \E k \in T : \A i \in T : k <= i
    BY <1>2, <1>4, Least
  <2>2. (CHOOSE k \in T : \A i \in T : k <= i) \in DOMAIN Jobs[w]
    BY <1>2, <2>1
  <2>3. QED
    BY <1>4, <2>2 DEF NextJob, Proceeds, EnterGetPrice
<1>5. QED
  BY <1>3, <1>4

LEMMA LoopHeadProceeds ==
  ASSUME NEW w \in Workers, NEW D, LoopHead(w, D)
  PROVE  Proceeds(w)
BY NextJobProceeds DEF LoopHead, Proceeds

LEMMA JobDoneProceeds ==
  ASSUME TypeOK, NEW w \in Workers, JobDone(w)
  PROVE  Proceeds(w)
<1>1. Jobs[w] \in Seq(Mocks(w)) /\ job[w] \in DOMAIN Jobs[w]
  BY OracleWorkersAssumption DEF TypeOK
<1>2. job[w] + 1 \in Nat \ {0}
  BY <1>1
<1>3. QED
  BY <1>2, NextJobProceeds DEF JobDone

-----------------------------------------------------------------------------
(* A step of a worker.                                                     *)

\* The job and the position of w after it has proceeded from outside the mutex.
LEMMA ProceedsKind ==
  ASSUME TypeOK, Functional, NEW w \in Workers, Proceeds(w), pc[w] \notin Busy
  PROVE  /\ Alone(w) /\ (Quiet(w) \/ Enters(w))
         /\ pc' \in [Workers -> Waits \cup Settled]
         /\ PricesTypeOK'
         /\ DOMAIN job' = Workers /\ \A v \in Workers : job'[v] \in DOMAIN Jobs[v]
<1>1. /\ pc \in [Workers -> Waits \cup Settled] /\ mutex \in Seq(Workers)
      /\ DOMAIN job = Workers /\ \A v \in Workers : job[v] \in DOMAIN Jobs[v]
  BY DEF TypeOK, PricesTypeOK, Functional
<1>2. CASE /\ pc' = [pc EXCEPT ![w] = "success"] \/ pc' = [pc EXCEPT ![w] = "sleep"]
           /\ UNCHANGED <<mutex, job>>
  BY <1>1, <1>2 DEF Proceeds, Alone, Quiet, Busy, Waits, Settled, PricesTypeOK, TypeOK
<1>3. CASE /\ pc' = [pc EXCEPT ![w] = "lock"]
           /\ mutex' = Append(mutex, w)
           /\ \E k \in DOMAIN Jobs[w] : job' = [job EXCEPT ![w] = k]
  <2>1. DOMAIN job' = Workers /\ \A v \in Workers : job'[v] \in DOMAIN Jobs[v]
    BY <1>1, <1>3
  <2>2. mutex' \in Seq(Workers)
    BY <1>1, <1>3
  <2>3. QED
    BY <1>1, <1>3, <2>1, <2>2
    DEF Proceeds, Alone, Enters, Busy, Waits, Settled, PricesTypeOK, TypeOK
<1>4. QED
  BY <1>2, <1>3 DEF Proceeds

Moves(w) ==
  /\ pc[w] \notin Settled
  /\ Alone(w) /\ (Quiet(w) \/ Enters(w) \/ Leaves(w) \/ Loads(w) \/ Asks(w))
  /\ pc' \in [Workers -> Waits \cup Settled]
  /\ PricesTypeOK'
  /\ DOMAIN job' = Workers /\ \A v \in Workers : job'[v] \in DOMAIN Jobs[v]
  /\ UNCHANGED <<cancelled, managerVars>>

Learns ==
  /\ ready' \in [Workers -> BOOLEAN]
  /\ DOMAIN validated' = Workers /\ DOMAIN due' = Workers
  /\ \A v \in Workers : validated'[v] \subseteq Mocks(v) /\ due'[v] \subseteq Mocks(v)
  /\ proven' \subseteq AllMocks

LEMMA NoFetchIsFetch == NoFetch \in Fetches
<1>1. <<>> \in [{} -> 0 .. MaxRetries]
  OBVIOUS
<1>2. {} \in SUBSET AllSources
  OBVIOUS
<1>3. QED
  BY <1>1, <1>2 DEF Fetches, NoFetch

LEMMA LeaveTyped ==
  ASSUME PricesTypeOK, mutex # <<>>, Leave, cache' \in [Prices -> {"stale", "fresh"}]
  PROVE  PricesTypeOK'
BY NoFetchIsFetch DEF PricesTypeOK, Leave

LEMMA GetPriceMoves ==
  ASSUME TypeOK, Functional, MutexIsExact, NEW w \in Workers, GetPrice(w)
  PROVE  Moves(w)
<1>1. /\ pc \in [Workers -> Waits \cup Settled] /\ pc[w] = "lock" /\ PricesTypeOK
      /\ PriceOf[CurrentMock(w)] \in Prices
  <2>1. Jobs[w] \in Seq(Mocks(w)) /\ job[w] \in DOMAIN Jobs[w]
    BY OracleWorkersAssumption DEF TypeOK
  <2>2. CurrentMock(w) \in AllMocks
    BY <2>1 DEF CurrentMock, AllMocks, Mocks
  <2>3. QED
    BY <2>2, OracleWorkersAssumption DEF TypeOK, GetPrice
<1>2. /\ pc[w] \notin Settled /\ UNCHANGED <<cancelled, managerVars>>
      /\ DOMAIN job' = Workers /\ \A v \in Workers : job'[v] \in DOMAIN Jobs[v]
  BY <1>1 DEF GetPrice, Settled, Functional, TypeOK
<1> DEFINE p == PriceOf[CurrentMock(w)]
<1>3. CASE CachedPrice(w, p) /\ pc' = [pc EXCEPT ![w] = "send"]
  <2>1. PricesTypeOK'
    BY <1>1, <1>3, LeaveTyped DEF CachedPrice, Inside, PricesTypeOK
  <2>2. Alone(w) /\ Leaves(w) /\ pc' \in [Workers -> Waits \cup Settled]
    BY <1>1, <1>3 DEF CachedPrice, Alone, Leaves, Leave, Busy, Waits
  <2>3. QED
    BY <1>2, <2>1, <2>2 DEF Moves
<1>4. CASE LoadFreshPrice(w, p) /\ pc' = [pc EXCEPT ![w] = "fetch"]
  <2>1. Sources[p] # {} /\ Sources[p] \in SUBSET AllSources /\ 0 \in 0 .. MaxRetries
    BY <1>1, OraclePricesAssumption DEF AllSources
  <2>2. fetch' \in [Sources[p] -> 0 .. MaxRetries]
    BY <1>4, <2>1 DEF LoadFreshPrice
  <2>3. fetch' \in Fetches
    BY <2>1, <2>2 DEF Fetches
  <2>4. fetch' # NoFetch
    BY <2>1, <2>2 DEF NoFetch
  <2>5. PricesTypeOK'
    BY <1>1, <1>4, <2>3 DEF LoadFreshPrice, PricesTypeOK
  <2>6. Alone(w) /\ Loads(w) /\ pc' \in [Workers -> Waits \cup Settled]
    BY <1>1, <1>4, <2>4 DEF LoadFreshPrice, Alone, Loads, Waits
  <2>7. QED
    BY <1>2, <2>5, <2>6 DEF Moves
<1>5. QED
  BY <1>3, <1>4 DEF GetPrice

\* The wait for the sources: it goes on, or the mutex is left.
LEMMA FetchMoves ==
  ASSUME TypeOK, Functional, MutexIsExact, NEW w \in Workers,
         SourcesReply(w) \/ FetchTimesOut(w)
  PROVE  Moves(w)
<1>1. /\ pc \in [Workers -> Waits \cup Settled] /\ pc[w] = "fetch" /\ PricesTypeOK
      /\ Inside(w) /\ fetch # NoFetch
  BY DEF TypeOK, MutexIsExact, SourcesReply, FetchTimesOut
<1>2. /\ pc[w] \notin Settled /\ UNCHANGED <<cancelled, managerVars>>
      /\ DOMAIN job' = Workers /\ \A v \in Workers : job'[v] \in DOMAIN Jobs[v]
  BY <1>1 DEF SourcesReply, FetchTimesOut, Settled, Functional, TypeOK
<1>3. PICK S \in SUBSET AllSources : fetch \in [S -> 0 .. MaxRetries]
  BY <1>1 DEF PricesTypeOK, Fetches
<1>4. ASSUME NEW s \in DOMAIN fetch, SourceAnswers(w, s), UNCHANGED pc
      PROVE  Moves(w)
  <2>1. S \ {s} \in SUBSET AllSources /\ fetch' \in [S \ {s} -> 0 .. MaxRetries]
    BY <1>3, <1>4 DEF SourceAnswers, Without
  <2>2. S \ {s} # {}
    BY <1>3, <1>4 DEF SourceAnswers
  <2>3. fetch' \in Fetches /\ fetch' # NoFetch
    <3>1. fetch' \in Fetches
      BY <2>1 DEF Fetches
    <3>2. fetch' # NoFetch
      BY <2>1, <2>2 DEF NoFetch
    <3>3. QED
      BY <3>1, <3>2
  <2>4. PricesTypeOK' /\ UNCHANGED mutex
    BY <1>1, <1>4, <2>3 DEF SourceAnswers, PricesTypeOK
  <2>5. QED
    BY <1>1, <1>2, <1>4, <2>3, <2>4 DEF Moves, Alone, Asks
<1>5. ASSUME NEW s \in DOMAIN fetch, AttemptFails(w, s), UNCHANGED pc
      PROVE  Moves(w)
  <2>1. fetch[s] + 1 \in 0 .. MaxRetries
    BY <1>3, <1>5, OraclePricesAssumption DEF AttemptFails
  <2>2. fetch' \in [S -> 0 .. MaxRetries]
    BY <1>3, <1>5, <2>1 DEF AttemptFails
  <2>3. fetch' \in Fetches /\ fetch' # NoFetch
    BY <1>3, <1>5, <2>2 DEF Fetches, NoFetch
  <2>4. PricesTypeOK' /\ UNCHANGED mutex
    BY <1>1, <1>5, <2>3 DEF AttemptFails, PricesTypeOK
  <2>5. QED
    BY <1>1, <1>2, <1>5, <2>3, <2>4 DEF Moves, Alone, Asks
<1>6. ASSUME Leave, cache' \in [Prices -> {"stale", "fresh"}],
             pc' = [pc EXCEPT ![w] = "send"] \/ WorkerFails(w)
      PROVE  Moves(w)
  <2>1. PricesTypeOK'
    BY <1>1, <1>6, LeaveTyped DEF Inside
  <2>2. Alone(w) /\ Leaves(w) /\ pc' \in [Workers -> Waits \cup Settled]
    BY <1>1, <1>6 DEF WorkerFails, Alone, Leaves, Leave, Busy, Waits, Settled
  <2>3. QED
    BY <1>2, <2>1, <2>2 DEF Moves
<1>7. ASSUME NEW p, PriceKnown(w, p) \/ RetriesExhausted(w) \/ Watchdog(w)
      PROVE  Leave /\ cache' \in [Prices -> {"stale", "fresh"}]
  BY <1>1, <1>7 DEF PriceKnown, RetriesExhausted, Watchdog, PricesTypeOK
<1>8. QED
  BY <1>4, <1>5, <1>6, <1>7 DEF SourcesReply, FetchTimesOut

\* The steps outside the mutex.
LEMMA OutsideMoves ==
  ASSUME TypeOK, Functional, MutexIsExact, NEW w \in Workers,
         \/ Started(w) \/ StartFails(w) \/ PriceSent(w) \/ PriceNotSent(w)
         \/ Receipt(w) \/ WakeUp(w)
  PROVE  Moves(w)
<1>1. /\ pc[w] \notin Settled /\ pc[w] \notin Busy
      /\ UNCHANGED <<cancelled, managerVars>>
  BY DEF Started, StartFails, PriceSent, PriceNotSent, Receipt, WakeUp, Settled, Busy
<1>2. CASE Proceeds(w)
  BY <1>1, <1>2, ProceedsKind DEF Moves
<1>3. ASSUME UNCHANGED <<pricesVars, job>>,
             WorkerFails(w) \/ pc' = [pc EXCEPT ![w] = "receipt"]
      PROVE  Moves(w)
  <2>1. Alone(w) /\ Quiet(w) /\ pc' \in [Workers -> Waits \cup Settled]
    BY <1>1, <1>3 DEF TypeOK, WorkerFails, Alone, Quiet, Busy, Waits, Settled, pricesVars
  <2>2. /\ PricesTypeOK'
        /\ DOMAIN job' = Workers /\ \A v \in Workers : job'[v] \in DOMAIN Jobs[v]
    BY <1>3 DEF TypeOK, Functional, PricesTypeOK, pricesVars
  <2>3. QED
    BY <1>1, <2>1, <2>2 DEF Moves
<1>4. Proceeds(w) \/ /\ UNCHANGED <<pricesVars, job>>
                     /\ WorkerFails(w) \/ pc' = [pc EXCEPT ![w] = "receipt"]
  BY LoopHeadProceeds, JobDoneProceeds
  DEF Started, StartFails, PriceSent, PriceNotSent, Receipt, WakeUp
<1>5. QED
  BY <1>2, <1>3, <1>4

LEMMA WorkerMoves ==
  ASSUME TypeOK, Functional, MutexIsExact, NEW w \in Workers, WorkerStep(w)
  PROVE  Moves(w)
BY GetPriceMoves, FetchMoves, OutsideMoves DEF WorkerStep

LEMMA WorkerLearns ==
  ASSUME TypeOK, Functional, NEW w \in Workers, WorkerStep(w)
  PROVE  Learns
<1>1. /\ DOMAIN validated = Workers /\ DOMAIN due = Workers
      /\ ready \in [Workers -> BOOLEAN] /\ proven \subseteq AllMocks
      /\ \A v \in Workers : validated[v] \subseteq Mocks(v) /\ due[v] \subseteq Mocks(v)
  BY DEF TypeOK, Functional
<1>2. CurrentMock(w) \in Mocks(w) /\ Mocks(w) \subseteq AllMocks
  BY DEF TypeOK, CurrentMock, Mocks, AllMocks
<1>3. CASE Started(w)
  BY <1>1, <1>3 DEF Started, Learns
<1>4. CASE PriceSent(w) \/ PriceNotSent(w)
  BY <1>1, <1>4 DEF PriceSent, PriceNotSent, JobDone, Learns
<1>5. CASE Receipt(w)
  BY <1>1, <1>2, <1>5 DEF Receipt, JobDone, Learns
<1>6. CASE StartFails(w) \/ GetPrice(w) \/ SourcesReply(w) \/ FetchTimesOut(w) \/ WakeUp(w)
  BY <1>1, <1>6 DEF StartFails, GetPrice, SourcesReply, FetchTimesOut, WakeUp, Learns
<1>7. QED
  BY <1>3, <1>4, <1>5, <1>6 DEF WorkerStep

-----------------------------------------------------------------------------
(* The invariant.                                                          *)

LEMMA IInvInit == Init => IInv
<1> SUFFICES ASSUME Init PROVE IInv
  OBVIOUS
<1>1. PricesTypeOK
  BY NoFetchIsFetch DEF Init, PricesInit, PricesTypeOK
<1>2. \A w \in Workers : 1 \in DOMAIN Jobs[w]
  BY OracleWorkersAssumption
<1>3. TypeOK /\ Functional
  BY <1>1, <1>2 DEF Init, TypeOK, Functional, Waits, Settled, managerVars
<1>4. MutexIsExact
  BY DEF Init, PricesInit, MutexIsExact, NoFetch
<1>5. RestartOK /\ ActiveOK
  BY DEF Init, RestartOK, ActiveOK
<1>6. QED
  BY <1>3, <1>4, <1>5 DEF IInv

LEMMA IInvWorkerStep ==
  ASSUME IInv, manager # "stopped", NEW w \in Workers, WorkerStep(w)
  PROVE  IInv'
<1>1. Moves(w) /\ Learns
  BY WorkerMoves, WorkerLearns DEF IInv
<1>2. TypeOK' /\ Functional'
  BY <1>1 DEF IInv, TypeOK, Moves, Learns, Functional, managerVars
<1>3. MutexIsExact'
  BY <1>1, QuietKeeps, EntersKeeps, LeavesKeeps, LoadsKeeps, AsksKeeps
  DEF Moves, IInv, TypeOK, PricesTypeOK
<1>4. \A v \in Workers : pc[v] \in Settled => pc'[v] = pc[v]
  BY <1>1 DEF Moves, Alone
<1>5. RestartOK'
  BY <1>1, <1>4 DEF IInv, RestartOK, TypeOK, Moves, managerVars, Settled
<1>6. ActiveOK'
  BY <1>1, <1>4 DEF IInv, ActiveOK, Moves, managerVars
<1>7. QED
  BY <1>2, <1>3, <1>5, <1>6 DEF IInv

\* The mutex does not depend on anything but these.
LEMMA SameMutex ==
  ASSUME MutexIsExact, UNCHANGED <<mutex, fetch, pc>>
  PROVE  MutexIsExact'
BY DEF MutexIsExact, Inside

LEMMA IInvPassing ==
  ASSUME IInv, Passing
  PROVE  IInv'
<1>1. CASE \E w \in Workers : \E m \in Mocks(w) : PeriodPasses(w, m)
  <2>1. TypeOK' /\ Functional'
    BY <1>1 DEF IInv, TypeOK, PricesTypeOK, Functional, PeriodPasses, pricesVars, managerVars
  <2>2. UNCHANGED <<mutex, fetch, pc, managerVars>>
    BY <1>1 DEF PeriodPasses, pricesVars
  <2>3. RestartOK' /\ ActiveOK'
    BY <2>2 DEF IInv, RestartOK, ActiveOK, managerVars
  <2>4. QED
    BY <2>1, <2>2, <2>3, SameMutex DEF IInv
<1>2. CASE \E w \in Workers : ThresholdPasses(w)
  <2>1. TypeOK' /\ Functional'
    BY <1>2 DEF IInv, TypeOK, PricesTypeOK, Functional, ThresholdPasses, pricesVars, workerVars
  <2>2. UNCHANGED <<mutex, fetch, pc, manager, restarting, active>>
    BY <1>2 DEF ThresholdPasses, pricesVars, workerVars
  <2>3. RestartOK' /\ ActiveOK'
    BY <2>2 DEF IInv, RestartOK, ActiveOK
  <2>4. QED
    BY <2>1, <2>2, <2>3, SameMutex DEF IInv
<1>3. CASE \E p \in Prices : CacheExpires(p) /\ UNCHANGED <<workerVars, managerVars>>
  <2>1. TypeOK' /\ Functional'
    BY <1>3 DEF IInv, TypeOK, PricesTypeOK, Functional, CacheExpires, workerVars, managerVars
  <2>2. UNCHANGED <<mutex, fetch, pc, manager, restarting, active>>
    BY <1>3 DEF CacheExpires, workerVars, managerVars
  <2>3. RestartOK' /\ ActiveOK'
    BY <2>2 DEF IInv, RestartOK, ActiveOK
  <2>4. QED
    BY <2>1, <2>2, <2>3, SameMutex DEF IInv
<1>4. QED
  BY <1>1, <1>2, <1>3 DEF Passing

LEMMA IInvRequestStop ==
  ASSUME IInv, requestStop
  PROVE  IInv'
<1>1. TypeOK' /\ Functional'
  BY DEF IInv, TypeOK, PricesTypeOK, Functional, requestStop, Cancel, pricesVars
<1>2. UNCHANGED <<mutex, fetch, pc, manager, restarting, active>>
  BY DEF requestStop, pricesVars
<1>3. RestartOK' /\ ActiveOK'
  BY <1>2 DEF IInv, RestartOK, ActiveOK
<1>4. QED
  BY <1>1, <1>2, <1>3, SameMutex DEF IInv

LEMMA IInvRaceWon ==
  ASSUME IInv, NEW w \in Workers, RaceWon(w)
  PROVE  IInv'
<1>1. UNCHANGED <<mutex, cache, fetch, pc, ready, job, validated, due, proven, failedRecently>>
  BY DEF RaceWon, pricesVars
<1>2. /\ manager = "race" /\ w \in active /\ pc[w] \in Settled /\ restarting = {}
  BY DEF RaceWon, IInv, RestartOK
<1>3. MutexIsExact'
  BY <1>1, SameMutex DEF IInv
<1>4. PricesTypeOK' /\ Functional'
  BY <1>1 DEF IInv, TypeOK, PricesTypeOK, Functional
<1>5. CASE LeaveRace(w) /\ UNCHANGED restarting
  <2>1. TypeOK'
    BY <1>1, <1>4, <1>5 DEF IInv, TypeOK, LeaveRace, Cancel
  <2>2. RestartOK' /\ ActiveOK'
    BY <1>1, <1>2, <1>5 DEF IInv, RestartOK, ActiveOK, LeaveRace
  <2>3. QED
    BY <1>3, <1>4, <2>1, <2>2 DEF IInv
<1>6. CASE /\ pc[w] # "success"
           /\ manager' = "restartDelay" /\ restarting' = {w}
           /\ UNCHANGED <<active, stopRequested, cancelled>>
  <2>1. TypeOK'
    BY <1>1, <1>4, <1>6 DEF IInv, TypeOK
  <2>2. RestartOK' /\ ActiveOK'
    BY <1>1, <1>2, <1>6 DEF IInv, RestartOK, ActiveOK, Settled
  <2>3. QED
    BY <1>3, <1>4, <2>1, <2>2 DEF IInv
<1>7. QED
  BY <1>5, <1>6 DEF RaceWon

\* The worker that is replaced has failed, so it neither waits for the mutex nor asks.
LEMMA IInvRestart ==
  ASSUME IInv, Restart
  PROVE  IInv'
<1>1. PICK w \in restarting :
         /\ pc' = [pc EXCEPT ![w] = "start"]
         /\ cancelled' = [cancelled EXCEPT ![w] = FALSE]
         /\ ready' = [ready EXCEPT ![w] = FALSE]
         /\ validated' = [validated EXCEPT ![w] = getTransientState(w)]
         /\ due' = [due EXCEPT ![w] = {}]
         /\ job' = [job EXCEPT ![w] = 1]
         /\ failedRecently' = failedRecently \cup {w}
  BY DEF Restart
<1>2. /\ w \in Workers /\ w \in active /\ pc[w] = "failure"
      /\ pc \in [Workers -> Waits \cup Settled]
  BY DEF IInv, RestartOK, TypeOK
<1>3. /\ 1 \in DOMAIN Jobs[w] /\ getTransientState(w) \subseteq Mocks(w)
  BY <1>2, OracleWorkersAssumption DEF IInv, TypeOK, getTransientState
<1>4. manager' = "race" /\ restarting' = {} /\ UNCHANGED <<mutex, cache, fetch, proven, active, stopRequested>>
  BY DEF Restart, pricesVars
<1>5. TypeOK' /\ Functional'
  <2>1. PricesTypeOK' /\ Functional'
    BY <1>1, <1>4 DEF IInv, TypeOK, PricesTypeOK, Functional
  <2>2. \A v \in Workers : /\ job'[v] \in DOMAIN Jobs[v]
                           /\ validated'[v] \subseteq Mocks(v) /\ due'[v] \subseteq Mocks(v)
    BY <1>1, <1>3 DEF IInv, TypeOK, Functional
  <2>3. QED
    BY <1>1, <1>2, <1>4, <2>1, <2>2 DEF IInv, TypeOK, Waits
<1>6. Alone(w) /\ Quiet(w)
  BY <1>1, <1>2, <1>4 DEF Alone, Quiet, Busy
<1>7. MutexIsExact'
  BY <1>2, <1>6, QuietKeeps DEF IInv
<1>8. RestartOK' /\ ActiveOK'
  BY <1>1, <1>2, <1>4 DEF IInv, RestartOK, ActiveOK
<1>9. QED
  BY <1>5, <1>7, <1>8 DEF IInv

LEMMA IInvDrained ==
  ASSUME IInv, NEW w \in Workers, Drained(w)
  PROVE  IInv'
<1>1. TypeOK' /\ Functional'
  BY DEF IInv, TypeOK, PricesTypeOK, Functional, Drained, pricesVars, workerVars
<1>2. UNCHANGED <<mutex, fetch, pc, restarting>>
  BY DEF Drained, pricesVars, workerVars
<1>3. RestartOK' /\ ActiveOK'
  BY <1>2 DEF IInv, RestartOK, ActiveOK, Drained
<1>4. QED
  BY <1>1, <1>2, <1>3, SameMutex DEF IInv

LEMMA IInvStutter ==
  ASSUME IInv, UNCHANGED vars
  PROVE  IInv'
<1>1. TypeOK' /\ Functional'
  BY DEF IInv, TypeOK, PricesTypeOK, Functional, vars, pricesVars, workerVars, managerVars
<1>2. UNCHANGED <<mutex, fetch, pc, manager, restarting, active>>
  BY DEF vars, pricesVars, workerVars, managerVars
<1>3. RestartOK' /\ ActiveOK'
  BY <1>2 DEF IInv, RestartOK, ActiveOK
<1>4. QED
  BY <1>1, <1>2, <1>3, SameMutex DEF IInv

LEMMA IInvNext == IInv /\ [Next]_vars => IInv'
BY IInvWorkerStep, IInvPassing, IInvRequestStop, IInvRaceWon, IInvDrained, IInvRestart,
   IInvStutter
DEF Next, Stopped

LEMMA SpecIInv == Spec => []IInv
<1>1. QED
  BY IInvInit, IInvNext, PTL DEF Spec

-----------------------------------------------------------------------------
(* The theorems.                                                           *)

\* The variables of the service keep their types (worker.ts, manager.ts, prices.ts).
THEOREM TypeCorrect == Spec => []TypeOK
<1>1. IInv => TypeOK
  BY DEF IInv
<1>2. QED
  BY <1>1, SpecIInv, PTL

\* repository/prices.ts: however the workers, their failures and restarts interleave,
\* exactly the workers that wait for a price are in the queue of the mutex, once each, and
\* only the head of it asks the sources.
THEOREM PricesAreExclusive == Spec => []MutexIsExact
<1>1. IInv => MutexIsExact
  BY DEF IInv
<1>2. QED
  BY <1>1, SpecIInv, PTL

\* manager.ts: run returns only after the last worker has ended.
THEOREM StopIsClean == Spec => []NobodyRunsOnStop
<1>1. IInv => NobodyRunsOnStop
  BY DEF IInv, ActiveOK, NobodyRunsOnStop
<1>2. QED
  BY <1>1, SpecIInv, PTL

LEMMA ProvenInit == Init => ValidatedMocksAreProven
BY DEF Init, ValidatedMocksAreProven

LEMMA ProvenNext ==
  IInv /\ ValidatedMocksAreProven /\ [Next]_vars => ValidatedMocksAreProven'
<1> SUFFICES ASSUME IInv, ValidatedMocksAreProven, [Next]_vars
             PROVE  ValidatedMocksAreProven'
  OBVIOUS
<1>1. DOMAIN validated = Workers /\ \A v \in Workers \ ValidationDisabled : validated[v] \subseteq proven
  BY DEF IInv, Functional, ValidatedMocksAreProven
<1>2. CASE \E w \in Workers : Started(w)
  BY <1>1, <1>2 DEF Started, ValidatedMocksAreProven
<1>3. CASE \E w \in Workers : Receipt(w)
  BY <1>1, <1>3 DEF Receipt, ValidatedMocksAreProven
<1>4. CASE Restart
  BY <1>1, <1>4 DEF Restart, getTransientState, ValidatedMocksAreProven
<1>5. ASSUME UNCHANGED <<validated, proven>>
      PROVE  ValidatedMocksAreProven'
  BY <1>5 DEF ValidatedMocksAreProven
<1>6. QED
  BY <1>2, <1>3, <1>4, <1>5
  DEF Next, WorkerStep, Passing, Stopped, StartFails, GetPrice, SourcesReply, FetchTimesOut,
      PriceSent, PriceNotSent, WakeUp, PeriodPasses, ThresholdPasses, requestStop, RaceWon,
      Drained, vars, workerVars

\* worker.ts: the errors of a mock are forgiven only after some worker saw it store the
\* price it was sent, over any number of failures and restarts.
THEOREM ForgivenMocksAreProven == Spec => []ValidatedMocksAreProven
<1>1. QED
  BY ProvenInit, ProvenNext, SpecIInv, PTL DEF Spec
=============================================================================
