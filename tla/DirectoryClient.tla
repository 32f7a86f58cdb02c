------------------------------ MODULE DirectoryClient ------------------------------
(***************************************************************************)
(* Concurrent searches through one PeppolDirectoryClient                   *)
(* (peppol/directory.py): the throttle, the retries.  Time passes in       *)
(* ticks; a sleep may last longer than it was asked for.                   *)
(***************************************************************************)
EXTENDS Integers

CONSTANTS
  Searches,    \* calls of search()
  Interval,    \* _MIN_REQUEST_INTERVAL, in ticks
  MaxRetries,  \* PeppolDirectoryClient._max_retries
  Delays       \* retry delays: Retry-After or backoff, in ticks

VARIABLES
  since,    \* ticks since _last_request_at, Interval standing for more
  holder,   \* the search that holds _throttle_lock, "free" without one
  stage,    \* where each search is suspended
  timer,    \* the ticks its sleep still lasts
  tries,    \* the attempts it has begun after the first
  outcome,  \* what it returned, "none" before
  quiet     \* history: ticks since a request was sent, Interval standing for more

vars == <<since, holder, stage, timer, tries, outcome, quiet>>

MaxTimer == CHOOSE t \in Delays \cup {Interval} : \A u \in Delays \cup {Interval} : u <= t
TypeOK ==
  /\ since \in 0..Interval /\ quiet \in 0..Interval
  /\ holder \in Searches \cup {"free"}
  /\ stage \in [Searches -> {"idle", "lock", "throttled", "answer", "backoff", "done"}]
  /\ timer \in [Searches -> 0..MaxTimer]
  /\ tries \in [Searches -> 0..MaxRetries]
  /\ outcome \in [Searches -> {"none", "found", "ValueError", "PlatformError", "raised"}]

Init ==
  /\ since \in {0, Interval}  \* the clock may have just started
  /\ holder = "free"
  /\ stage = [s \in Searches |-> "idle"]
  /\ timer = [s \in Searches |-> 0]
  /\ tries = [s \in Searches |-> 0]
  /\ outcome = [s \in Searches |-> "none"]
  /\ quiet = Interval

Finish(s, what) ==
  /\ stage' = [stage EXCEPT ![s] = "done"]
  /\ outcome' = [outcome EXCEPT ![s] = what]

\* search(): another format than json, or no query term, is a ValueError.
Search(s) ==
  /\ stage[s] = "idle"
  /\ \/ Finish(s, "ValueError")
     \/ stage' = [stage EXCEPT ![s] = "lock"] /\ UNCHANGED outcome
  /\ UNCHANGED <<since, holder, timer, tries, quiet>>

\* The throttle is left and the request sent, without an await between.
Send(s) ==
  /\ stage' = [stage EXCEPT ![s] = "answer"]
  /\ since' = 0
  /\ quiet' = 0

\* Mutant of Throttle: the lock is not taken for the sleep.
Bug_Throttle(s) ==
  /\ stage[s] = "lock" /\ holder = "free"
  /\ IF since < Interval
     THEN /\ stage' = [stage EXCEPT ![s] = "throttled"]
          /\ timer' = [timer EXCEPT ![s] = Interval - since]
          /\ UNCHANGED <<since, quiet>>
     ELSE Send(s) /\ UNCHANGED timer
  /\ UNCHANGED <<holder, tries, outcome>>

\* _throttle: the lock is taken; too early, it is held during a sleep.
Throttle(s) ==
  /\ stage[s] = "lock" /\ holder = "free"
  /\ IF since < Interval
     THEN /\ stage' = [stage EXCEPT ![s] = "throttled"]
          /\ timer' = [timer EXCEPT ![s] = Interval - since]
          /\ holder' = s
          /\ UNCHANGED <<since, quiet>>
     ELSE Send(s) /\ UNCHANGED <<timer, holder>>
  /\ UNCHANGED <<tries, outcome>>

Throttled(s) ==
  /\ stage[s] = "throttled" /\ timer[s] = 0
  /\ Send(s)
  /\ holder' = "free"
  /\ UNCHANGED <<timer, tries, outcome>>

\* 429 or 503: the retry sleeps, then throttles as well.
Busy(s) ==
  /\ stage[s] = "answer" /\ tries[s] < MaxRetries
  /\ \E d \in Delays :
       /\ timer' = [timer EXCEPT ![s] = d]
       /\ stage' = [stage EXCEPT ![s] = "backoff"]
  /\ UNCHANGED <<since, holder, tries, outcome, quiet>>

\* Mutant of Retry: the attempts are not counted.
Bug_Retry(s) ==
  /\ stage[s] = "backoff" /\ timer[s] = 0
  /\ stage' = [stage EXCEPT ![s] = "lock"]
  /\ UNCHANGED <<since, holder, timer, tries, outcome, quiet>>

Retry(s) ==
  /\ stage[s] = "backoff" /\ timer[s] = 0
  /\ stage' = [stage EXCEPT ![s] = "lock"]
  /\ tries' = [tries EXCEPT ![s] = tries[s] + 1]
  /\ UNCHANGED <<since, holder, timer, outcome, quiet>>

\* The answer: matches, no JSON (a ValueError), another status or the last 429
\* or 503 (a PlatformError); a timeout of httpx escapes.
Answered(s) ==
  /\ stage[s] = "answer"
  /\ \E what \in {"found", "ValueError", "PlatformError", "raised"} : Finish(s, what)
  /\ UNCHANGED <<since, holder, timer, tries, quiet>>

Tick ==
  /\ since' = IF since < Interval THEN since + 1 ELSE since
  /\ quiet' = IF quiet < Interval THEN quiet + 1 ELSE quiet
  /\ timer' = [s \in Searches |-> IF timer[s] > 0 THEN timer[s] - 1 ELSE 0]
  /\ UNCHANGED <<holder, stage, tries, outcome>>

Run(s) ==
  \/ Throttle(s) \/ Throttled(s) \/ Busy(s) \/ Retry(s) \/ Answered(s)
Next == (\E s \in Searches : Search(s) \/ Run(s)) \/ Tick

Spec == Init /\ [][Next]_vars
\* Time passes, a task that can run does, and the lock goes round.
Fairness == WF_vars(Tick) /\ \A s \in Searches : WF_vars(Run(s)) /\ SF_vars(Throttle(s))
FairSpec == Spec /\ Fairness
-----------------------------------------------------------------------------
(* Properties *)

\* Two requests of one client, of whatever searches and retries, are never closer
\* than the minimum interval.
SpacedOut == [][(\E s \in Searches : stage[s] # "answer" /\ stage'[s] = "answer") =>
                quiet >= Interval]_vars

\* Every search ends, however often the Directory is busy and however many share
\* the throttle.
EverySearchEnds == \A s \in Searches : stage[s] # "idle" ~> stage[s] = "done"
=============================================================================
