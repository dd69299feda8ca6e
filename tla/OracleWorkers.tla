--------------------------- MODULE OracleWorkers ---------------------------
(***************************************************************************)
(* The oracle service: worker/manager.ts starts the workers, restarts one  *)
(* that failed and stops them all; worker/worker.ts sends prices to mocks  *)
(* of Uniswap pools, one transaction per job whose period has passed.  A   *)
(* worker that is restarted is a new object, which inherits what the old   *)
(* one learnt of the mocks (the transient state) and nothing else.         *)
(***************************************************************************)
EXTENDS OraclePrices

CONSTANTS Jobs,               \* Jobs[w]: the mocks of updatePriceJobs, in order
          PriceOf,            \* PriceOf[m]: priceId of the mock m
          ValidationDisabled  \* the workers configured with disableMockValidation

Mocks(w) == {Jobs[w][j] : j \in DOMAIN Jobs[w]}
AllMocks == UNION {Mocks(w) : w \in Workers}

ASSUME OracleWorkersAssumption ==
  /\ \A w \in Workers : Jobs[w] \in Seq(Mocks(w)) /\ Jobs[w] # <<>>
  /\ \A m \in AllMocks : PriceOf[m] \in Prices
  /\ ValidationDisabled \subseteq Workers

VARIABLES
  pc,             \* pc[w]: what the worker waits for, or how its run ended
  cancelled,      \* cancelled[w]: its cancellation token
  ready,          \* ready[w]: its state is defined
  job,            \* job[w]: index of the job it is busy with
  validated,      \* validated[w]: its validated mocks; before ready, the inherited ones
  due,            \* due[w]: the mocks whose period has passed since their last job began
  proven,         \* history: the mocks seen to have stored the price they were sent
  manager,        \* where WorkerManager.run is
  restarting,     \* the worker that run replaces after the delay, if any
  active,         \* activeWorkers
  failedRecently, \* the workers restarted less than sequentialFailsThresholdMs ago
  stopRequested

workerVars == <<pc, cancelled, ready, job, validated, due, proven>>
managerVars == <<manager, restarting, active, failedRecently, stopRequested>>
vars == <<pricesVars, workerVars, managerVars>>

Settled == {"success", "failure"}
Waits == {"start", "lock", "fetch", "send", "receipt", "sleep"}

TypeOK ==
  /\ PricesTypeOK
  /\ pc \in [Workers -> Waits \cup Settled]
  /\ cancelled \in [Workers -> BOOLEAN] /\ ready \in [Workers -> BOOLEAN]
  /\ \A w \in Workers : job[w] \in DOMAIN Jobs[w]
  /\ \A w \in Workers : validated[w] \subseteq Mocks(w) /\ due[w] \subseteq Mocks(w)
  /\ proven \subseteq AllMocks
  /\ manager \in {"race", "restartDelay", "draining", "stopped"}
  /\ restarting \subseteq Workers /\ active \subseteq Workers
  /\ failedRecently \subseteq Workers
  /\ stopRequested \in BOOLEAN

Init ==
  /\ PricesInit
  /\ pc = [w \in Workers |-> "start"]
  /\ cancelled = [w \in Workers |-> FALSE] /\ ready = [w \in Workers |-> FALSE]
  /\ job = [w \in Workers |-> 1]
  /\ validated = [w \in Workers |-> {}] /\ due = [w \in Workers |-> {}]
  /\ proven = {}
  /\ manager = "race" /\ active = Workers
  /\ restarting = {}
  /\ failedRecently = {}
  /\ stopRequested = FALSE

-----------------------------------------------------------------------------
(* A worker.                                                               *)

CurrentMock(w) == Jobs[w][job[w]]

DueFrom(w, j, dueMocks) == {k \in j .. Len(Jobs[w]) : Jobs[w][k] \in dueMocks}

\* The jobs from the j-th on: the next one that is due asks for its price, and
\* after the last one the worker sleeps for tickMs.
NextJob(w, j, dueMocks) ==
  LET jobs == DueFrom(w, j, dueMocks)
  IN  IF jobs = {}
      THEN pc' = [pc EXCEPT ![w] = "sleep"] /\ UNCHANGED <<mutex, cache, fetch, job>>
      ELSE /\ pc' = [pc EXCEPT ![w] = "lock"]
           /\ job' = [job EXCEPT ![w] = CHOOSE k \in jobs : \A i \in jobs : k <= i]
           /\ EnterGetPrice(w)

\* The head of the loop of run: the token is looked at once per round of jobs.
LoopHead(w, dueMocks) ==
  IF cancelled[w]
  THEN pc' = [pc EXCEPT ![w] = "success"] /\ UNCHANGED <<mutex, cache, fetch, job>>
  ELSE NextJob(w, 1, dueMocks)

WorkerFails(w) == pc' = [pc EXCEPT ![w] = "failure"]

\* run has read tokens, mocks and network; no job has been done yet.
Started(w) ==
  /\ pc[w] = "start"
  /\ ready' = [ready EXCEPT ![w] = TRUE]
  /\ validated' = [validated EXCEPT ![w] = IF w \in ValidationDisabled THEN Mocks(w) ELSE @]
  /\ due' = [due EXCEPT ![w] = Mocks(w)]
  /\ LoopHead(w, Mocks(w))
  /\ UNCHANGED <<cancelled, proven, managerVars>>

StartFails(w) ==
  /\ pc[w] = "start"
  /\ WorkerFails(w)
  /\ UNCHANGED <<pricesVars, cancelled, ready, job, validated, due, proven, managerVars>>

\* getPrice returns, waits for sources, or throws.
GetPrice(w) ==
  /\ pc[w] = "lock"
  /\ \/ CachedPrice(w, PriceOf[CurrentMock(w)]) /\ pc' = [pc EXCEPT ![w] = "send"]
     \/ LoadFreshPrice(w, PriceOf[CurrentMock(w)]) /\ pc' = [pc EXCEPT ![w] = "fetch"]
  /\ UNCHANGED <<cancelled, ready, job, validated, due, proven, managerVars>>

SourcesReply(w) ==
  /\ pc[w] = "fetch"
  /\ \/ \E s \in DOMAIN fetch : SourceAnswers(w, s) /\ UNCHANGED pc
     \/ \E s \in DOMAIN fetch : AttemptFails(w, s) /\ UNCHANGED pc
     \/ PriceKnown(w, PriceOf[CurrentMock(w)]) /\ pc' = [pc EXCEPT ![w] = "send"]
     \/ RetriesExhausted(w) /\ WorkerFails(w)
  /\ UNCHANGED <<cancelled, ready, job, validated, due, proven, managerVars>>

FetchTimesOut(w) ==
  /\ pc[w] = "fetch"
  /\ Watchdog(w) /\ WorkerFails(w)
  /\ UNCHANGED <<cancelled, ready, job, validated, due, proven, managerVars>>

\* lastJobStartTimes: the job counts as done since it began.
JobDone(w) ==
  /\ due' = [due EXCEPT ![w] = @ \ {CurrentMock(w)}]
  /\ NextJob(w, job[w] + 1, due[w] \ {CurrentMock(w)})

\* setPrice was sent; the receipt of a mock that is not validated is awaited.
PriceSent(w) ==
  /\ pc[w] = "send"
  /\ IF CurrentMock(w) \in validated[w]
     THEN JobDone(w)
     ELSE pc' = [pc EXCEPT ![w] = "receipt"] /\ UNCHANGED <<pricesVars, job, due>>
  /\ UNCHANGED <<cancelled, ready, validated, proven, managerVars>>

\* Want of funds or of a gas estimate is forgiven once the mock is validated.
PriceNotSent(w) ==
  /\ pc[w] = "send"
  /\ \/ WorkerFails(w) /\ UNCHANGED <<pricesVars, job, due>>
     \/ CurrentMock(w) \in validated[w] /\ JobDone(w)
  /\ UNCHANGED <<cancelled, ready, validated, proven, managerVars>>

\* The receipt holds one SetPrice event with the price that was sent, or the
\* worker fails.  The wait for it has no timeout.
Receipt(w) ==
  /\ pc[w] = "receipt"
  /\ \/ /\ validated' = [validated EXCEPT ![w] = @ \cup {CurrentMock(w)}]
        /\ proven' = proven \cup {CurrentMock(w)}
        /\ JobDone(w)
     \/ WorkerFails(w) /\ UNCHANGED <<pricesVars, job, due, validated, proven>>
  /\ UNCHANGED <<cancelled, ready, managerVars>>

WakeUp(w) ==
  /\ pc[w] = "sleep"
  /\ LoopHead(w, due[w])
  /\ UNCHANGED <<cancelled, ready, validated, due, proven, managerVars>>

PeriodPasses(w, m) ==
  /\ ready[w] /\ pc[w] \notin Settled /\ m \notin due[w]
  /\ due' = [due EXCEPT ![w] = @ \cup {m}]
  /\ UNCHANGED <<pricesVars, pc, cancelled, ready, job, validated, proven, managerVars>>

-----------------------------------------------------------------------------
(* The manager.                                                            *)

\* Mutant of getTransientState: a restarted worker trusts every mock.
TrustAll(w) == IF ready[w] THEN Mocks(w) ELSE {}

\* A worker that failed before its state was defined hands nothing on.
getTransientState(w) == IF ready[w] THEN validated[w] ELSE {}

\* Mutant of Cancel: only the workers that run are told.
CancelRunning(ws) ==
  cancelled' = [w \in Workers |-> cancelled[w] \/ (w \in ws /\ pc[w] # "start")]

Cancel(ws) == cancelled' = [w \in Workers |-> cancelled[w] \/ w \in ws]

\* SIGTERM, SIGINT
requestStop ==
  /\ manager # "stopped" /\ ~stopRequested
  /\ stopRequested' = TRUE
  /\ Cancel(active)
  /\ UNCHANGED <<pricesVars, pc, ready, job, validated, due, proven,
                 manager, restarting, active, failedRecently>>

\* Mutant of LeaveRace: the workers that still run are forgotten.
LeaveRaceAtOnce(w) ==
  manager' = "stopped" /\ active' = {} /\ stopRequested' = TRUE /\ Cancel(active \ {w})

\* The race was won by w and the service ends: the others are told to stop.
LeaveRace(w) ==
  /\ active' = active \ {w}
  /\ manager' = IF active = {w} THEN "stopped" ELSE "draining"
  /\ stopRequested' = TRUE
  /\ Cancel(active \ {w})

RaceWon(w) ==
  /\ manager = "race" /\ w \in active /\ pc[w] \in Settled
  /\ IF stopRequested \/ pc[w] = "success" \/ w \in failedRecently
     THEN LeaveRace(w) /\ UNCHANGED restarting
     ELSE /\ manager' = "restartDelay" /\ restarting' = {w}
          /\ UNCHANGED <<active, stopRequested, cancelled>>
  /\ UNCHANGED <<pricesVars, pc, ready, job, validated, due, proven, failedRecently>>

\* After the delay the worker is replaced by a new one, whether or not a stop was
\* requested in the meantime.
Restart ==
  /\ manager = "restartDelay"
  /\ manager' = "race" /\ restarting' = {}
  /\ \E w \in restarting :
       /\ pc' = [pc EXCEPT ![w] = "start"]
       /\ cancelled' = [cancelled EXCEPT ![w] = FALSE]
       /\ ready' = [ready EXCEPT ![w] = FALSE]
       /\ validated' = [validated EXCEPT ![w] = getTransientState(w)]
       /\ due' = [due EXCEPT ![w] = {}]
       /\ job' = [job EXCEPT ![w] = 1]
       /\ failedRecently' = failedRecently \cup {w}
  /\ UNCHANGED <<pricesVars, proven, active, stopRequested>>

Drained(w) ==
  /\ manager = "draining" /\ w \in active /\ pc[w] \in Settled
  /\ active' = active \ {w}
  /\ manager' = IF active = {w} THEN "stopped" ELSE "draining"
  /\ UNCHANGED <<pricesVars, workerVars, restarting, failedRecently, stopRequested>>

\* sequentialFailsThresholdMs have passed since w was restarted.
ThresholdPasses(w) ==
  /\ w \in failedRecently
  /\ failedRecently' = failedRecently \ {w}
  /\ UNCHANGED <<pricesVars, workerVars, manager, restarting, active, stopRequested>>

\* process.exit ends everything.
Stopped == manager = "stopped" /\ UNCHANGED vars

WorkerStep(w) ==
  \/ Started(w) \/ StartFails(w) \/ GetPrice(w) \/ SourcesReply(w) \/ FetchTimesOut(w)
  \/ PriceSent(w) \/ PriceNotSent(w) \/ Receipt(w) \/ WakeUp(w)

Passing ==
  \/ \E w \in Workers : \E m \in Mocks(w) : PeriodPasses(w, m)
  \/ \E w \in Workers : ThresholdPasses(w)
  \/ \E p \in Prices : CacheExpires(p) /\ UNCHANGED <<workerVars, managerVars>>

Next ==
  \/ manager # "stopped" /\ \E w \in Workers : WorkerStep(w)
  \/ manager # "stopped" /\ Passing
  \/ requestStop
  \/ \E w \in Workers : RaceWon(w) \/ Drained(w)
  \/ Restart
  \/ Stopped

\* Timers fire, the callbacks of settled promises run, and a call of a node of the
\* chain ends by an answer or by the timeout of its connection.  Nothing makes a price
\* source answer, a transaction be mined, or anybody stop the service.
Fairness ==
  /\ \A w \in Workers :
       /\ WF_vars(Started(w) \/ StartFails(w))
       /\ WF_vars(GetPrice(w))
       /\ WF_vars(FetchTimesOut(w))
       /\ WF_vars(PriceSent(w) \/ PriceNotSent(w))
       /\ WF_vars(WakeUp(w))
       /\ WF_vars(RaceWon(w)) /\ WF_vars(Drained(w))
  /\ WF_vars(Restart)

Spec == Init /\ [][Next]_vars /\ Fairness

-----------------------------------------------------------------------------
(* Properties.                                                             *)

\* One mutex for all prices: while sources are asked, the head of the queue is the
\* worker that asks, and every other worker that wants a price stands in the queue,
\* once.  A worker that fails in between does not stay in it.
MutexIsExact ==
  /\ \A w \in Workers : pc[w] \in {"lock", "fetch"} <=> \E i \in DOMAIN mutex : mutex[i] = w
  /\ \A i, j \in DOMAIN mutex : mutex[i] = mutex[j] => i = j
  /\ \A w \in Workers : pc[w] = "fetch" => Inside(w)
  /\ fetch # NoFetch <=> \E w \in Workers : pc[w] = "fetch"

\* A worker forgives a mock its errors only if some worker has seen the mock store
\* the price it was sent, however often the worker was restarted since.
ValidatedMocksAreProven ==
  \A w \in Workers \ ValidationDisabled : validated[w] \subseteq proven

\* When run returns, and the process exits, no worker is in the middle of anything.
NobodyRunsOnStop == manager = "stopped" => \A w \in Workers : pc[w] \in Settled

StuckOnReceipt(w) == <>[](pc[w] = "receipt")

\* A stop request ends the service: "Stopping workers due to graceful shutdown".
StopRequestEnds == stopRequested ~> (manager = "stopped")

\* A stop request ends the service, unless a worker waits for a receipt for ever, or
\* there is one worker only: requested during its restart delay, the stop reaches the
\* worker that has failed already, and not the one that replaces it.
StopEnds ==
  Cardinality(Workers) > 1 =>
    \/ StopRequestEnds
    \/ \E w \in Workers : StuckOnReceipt(w)

\* While the service runs undisturbed every job whose period has passed is done, however
\* long the prices of other jobs and workers take.
NoJobStarves ==
  \A w \in Workers : \A m \in Mocks(w) :
    (m \in due[w] /\ pc[w] \notin Settled) ~>
      (m \notin due[w] \/ pc[w] \in Settled \cup {"receipt"})
=============================================================================
