---------------------------- MODULE OraclePrices ----------------------------
(***************************************************************************)
(* The prices of the oracle service: repository/prices.ts, which guards a  *)
(* cache with one mutex for all prices, and below it the sources of a      *)
(* price (common/src/price.ts), each called through timeoutRetry           *)
(* (common/src/execution.ts): a number of attempts under a watchdog.       *)
(*                                                                         *)
(* Node runs one callback at a time: a step is what runs between two       *)
(* awaits.  Durations are abstract: what a timer waits for may happen at   *)
(* any moment, and a fair action says that it happens in the end.          *)
(***************************************************************************)
EXTENDS Naturals, Sequences, FiniteSets

CONSTANTS Workers,     \* ids of the oracle workers
          Prices,      \* ids of the prices of the repository
          Sources,     \* Sources[p]: the sources whose product is the price p
          MaxRetries   \* retry: maxRetries

ASSUME OraclePricesAssumption ==
  /\ Workers # {} /\ IsFiniteSet(Workers)
  /\ \A p \in Prices : Sources[p] # {}
  /\ MaxRetries \in Nat

VARIABLES mutex,   \* the workers in getPrice in the order they came; the head is inside
          cache,   \* cache[p]: "fresh" for priceCachePeriodMs, and else "stale"
          fetch    \* the failed attempts of every source that the head waits for

pricesVars == <<mutex, cache, fetch>>

NoFetch == <<>>
AllSources == UNION {Sources[p] : p \in Prices}
Fetches == UNION {[S -> 0 .. MaxRetries] : S \in SUBSET AllSources}

PricesTypeOK ==
  /\ mutex \in Seq(Workers)
  /\ cache \in [Prices -> {"stale", "fresh"}]
  /\ fetch \in Fetches

PricesInit ==
  /\ mutex = <<>>
  /\ cache = [p \in Prices |-> "stale"]
  /\ fetch = NoFetch

Inside(w) == mutex # <<>> /\ Head(mutex) = w

\* runExclusive: w joins the queue of the mutex.
EnterGetPrice(w) == mutex' = Append(mutex, w) /\ UNCHANGED <<cache, fetch>>

\* Mutant of Leave: an exception skips the release of the mutex.
LeaveLocked == mutex' = mutex /\ fetch' = NoFetch

\* The callback of runExclusive ends, by a result or by an exception.
Leave == mutex' = Tail(mutex) /\ fetch' = NoFetch

\* A price that is fresh enough is returned at once.
CachedPrice(w, p) ==
  /\ Inside(w) /\ fetch = NoFetch
  /\ cache[p] = "fresh"
  /\ Leave
  /\ UNCHANGED cache

\* priceGetter.getPrice calls all the sources of a price together.
LoadFreshPrice(w, p) ==
  /\ Inside(w) /\ fetch = NoFetch
  /\ cache[p] # "fresh"
  /\ fetch' = [s \in Sources[p] |-> 0]
  /\ UNCHANGED <<mutex, cache>>

Without(s) == [x \in DOMAIN fetch \ {s} |-> fetch[x]]

\* A source answers; with the last answer the price is known and cached.
SourceAnswers(w, s) ==
  /\ Inside(w) /\ s \in DOMAIN fetch
  /\ DOMAIN fetch # {s}
  /\ fetch' = Without(s)
  /\ UNCHANGED <<mutex, cache>>
PriceKnown(w, p) ==
  /\ Inside(w) /\ Cardinality(DOMAIN fetch) = 1
  /\ cache' = [cache EXCEPT ![p] = "fresh"]
  /\ Leave

\* Mutant of AttemptFails: one attempt too many.
OneMoreAttempt(w, s) ==
  /\ Inside(w) /\ s \in DOMAIN fetch
  /\ fetch[s] <= MaxRetries
  /\ fetch' = [fetch EXCEPT ![s] = @ + 1]
  /\ UNCHANGED <<mutex, cache>>

\* retry: the attempt failed and another one follows after a delay.
AttemptFails(w, s) ==
  /\ Inside(w) /\ s \in DOMAIN fetch
  /\ fetch[s] < MaxRetries
  /\ fetch' = [fetch EXCEPT ![s] = @ + 1]
  /\ UNCHANGED <<mutex, cache>>

\* The price fails with the first of its sources that does: after maxRetries more
\* attempts, or when the watchdog loses patience.  It does not stop the attempts,
\* whose answers nobody waits for any more.
RetriesExhausted(w) ==
  /\ Inside(w) /\ \E s \in DOMAIN fetch : fetch[s] = MaxRetries
  /\ Leave /\ UNCHANGED cache

\* Mutant of Watchdog: there is none.
NoWatchdog(w) == FALSE /\ UNCHANGED pricesVars

Watchdog(w) ==
  /\ Inside(w) /\ fetch # NoFetch
  /\ Leave /\ UNCHANGED cache

\* priceCachePeriodMs have passed since the price was cached.
CacheExpires(p) ==
  /\ cache[p] = "fresh"
  /\ cache' = [cache EXCEPT ![p] = "stale"]
  /\ UNCHANGED <<mutex, fetch>>
=============================================================================
