--------------------------- MODULE CircuitBreaker ---------------------------
(***************************************************************************)
(* The circuit breaker of one monitor: GuardsService.createSession, which  *)
(* counts the attempts of a job and refuses starts; LoopDetectionCache,    *)
(* its in-memory half; the STREAK rows of FailurePattern, its half in the  *)
(* database; the analytics that switch these rows off and on; and the      *)
(* SDK's start(), which sends a session request again when it times out.   *)
(*                                                                         *)
(* Time passes in ticks.  A timestamp in the code is a timer here: what is *)
(* left of it, or, for STREAK rows, how old it is up to the cooldown.      *)
(* Requests take as long as they like.  Inactive STREAK rows, which nobody *)
(* reads, keep their number only while some request still holds it.        *)
(***************************************************************************)
EXTENDS Naturals, FiniteSets

CONSTANTS
    Keys,           \* external ids of the monitor's jobs, and Anonymous
    Anonymous,      \* "__no_external_id__": the key of all starts without one
    Runners,        \* processes that run a job, one start() after the other
    KeyOf,          \* KeyOf[n]: the job runner n runs
    Requests,       \* session requests the API can have in flight
    Budget,         \* retryPolicy.maxAttempts, 5 by default
    LoopAttempt,    \* 5: what tripBreaker assumes and detectRecursiveRetries looks for
    TTL,            \* life of a cache entry: 5 minutes
    Cooldown,       \* 60 minutes
    MaxRetries,     \* network.maxRetries of the SDK
    MaxCalls,       \* bound of the model: MaxCalls[n] start() calls of runner n
    StreakIds,      \* bound of the model: STREAK rows in use
    Faults          \* which of "network", "database", "restart", "analysis" may happen

Jobs == Keys \ {Anonymous}

\* Nothing in flight; a connection broken by the death of the API process.
NoSlot == "noSlot"
Broken == "broken"

ASSUME BreakerAssumption ==
    /\ KeyOf \in [Runners -> Keys]
    /\ Budget \in Nat /\ LoopAttempt \in Nat \ {0}
    /\ TTL \in Nat \ {0} /\ Cooldown \in Nat \ {0}
    /\ MaxRetries \in Nat /\ MaxCalls \in [Runners -> Nat]
    /\ {NoSlot, Broken} \cap Requests = {}
    /\ StreakIds \subseteq Nat
    /\ Faults \subseteq {"network", "database", "restart", "analysis"}

VARIABLES
    entry,      \* entry[k]: LoopDetectionCache
    streak,     \* streak[i]: a STREAK row of FailurePattern
    ran,        \* ran[k]: GuardExecution rows of the key
    top,        \* top[k]: the highest attempt among them
    request,    \* request[r]: the session request in slot r
    runner,     \* runner[n]: the process that waits for a session, or does not
    analytics,  \* runAnalyticsAggregation, as far as STREAK rows go
    lock        \* history: what is left of the last cooldown the code began

vars == <<entry, streak, ran, top, request, runner, analytics, lock>>

-----------------------------------------------------------------------------
(* State.                                                                   *)

\* cooldown 0: the breaker is closed; ttl 0: the entry has expired and is
\* evicted within a minute; attempt 0: there is no entry.
Entry == [attempt: Nat, cooldown: 0..Cooldown, ttl: 0..TTL]

NoEntry == [attempt |-> 0, cooldown |-> 0, ttl |-> 0]

\* age stops at the cooldown.
Streak == [active: BOOLEAN, age: 0..Cooldown]

NoStreak == [active |-> FALSE, age |-> Cooldown]

\* id: the STREAK row in hand.
Busy == [pc: {"received", "streak", "reset", "count", "hydrate", "hydrated",
              "trip", "refresh", "open", "create"},
         key: Keys, attempt: Nat, id: StreakIds \cup {0}]

Idle == [pc |-> "idle"]

Runner == [waits: BOOLEAN, tries: 0..MaxRetries, slot: Requests \cup {NoSlot, Broken},
           calls: Nat]

At(r, pc) == request[r].pc = pc

Goto(r, pc) == request' = [request EXCEPT ![r].pc = pc]
GotoWith(r, pc, i) == request' = [request EXCEPT ![r] = [@ EXCEPT !.pc = pc, !.id = i]]

Active == {i \in StreakIds : streak[i].active}

\* A STREAK row no request and no analysis refers to.
Unused == {i \in StreakIds : /\ i \notin Active
                             /\ \A r \in Requests : At(r, "idle") \/ request[r].id # i}

-----------------------------------------------------------------------------
(* LoopDetectionCache.                                                      *)

Hit(k) == entry[k].attempt > 0 /\ entry[k].ttl > 0

\* old: the entry as the code finds it.
SetAttempt(k, old, attempt) ==
    entry' = [entry EXCEPT ![k] = [old EXCEPT !.attempt = attempt, !.ttl = TTL]]

\* Mutant of TripBreaker: every trip lasts a full cooldown (its default).
TripInFull(k, old, remaining) ==
    entry' = [entry EXCEPT ![k] =
                [attempt  |-> IF old.attempt = 0 THEN LoopAttempt ELSE old.attempt,
                 cooldown |-> Cooldown, ttl |-> TTL]]

TripBreaker(k, old, remaining) ==
    entry' = [entry EXCEPT ![k] =
                [attempt  |-> IF old.attempt = 0 THEN LoopAttempt ELSE old.attempt,
                 cooldown |-> remaining, ttl |-> TTL]]

\* The eviction interval.
Evict(k) ==
    /\ entry[k].attempt > 0 /\ entry[k].ttl = 0
    /\ entry' = [entry EXCEPT ![k] = NoEntry]
    /\ UNCHANGED <<streak, ran, top, request, runner, analytics, lock>>

-----------------------------------------------------------------------------
(* start() of the SDK.                                                      *)

\* Runner n begins another attempt of its job.
Call(n) ==
    /\ ~runner[n].waits /\ runner[n].calls < MaxCalls[n]
    /\ runner' = [runner EXCEPT ![n] = [waits |-> TRUE, tries |-> 0, slot |-> NoSlot,
                                        calls |-> @.calls + 1]]
    /\ UNCHANGED <<entry, streak, ran, top, request, analytics, lock>>

Send(n, r) ==
    /\ runner[n].waits /\ runner[n].slot = NoSlot
    /\ At(r, "idle")
    /\ runner' = [runner EXCEPT ![n].slot = r]
    /\ request' = [request EXCEPT ![r] =
                     [pc |-> "received", key |-> KeyOf[n], attempt |-> 0, id |-> 0]]
    /\ UNCHANGED <<entry, streak, ran, top, analytics, lock>>

\* What a runner becomes: it sends its request again, or waits no longer.
NextTry(w) == [w EXCEPT !.tries = @ + 1, !.slot = NoSlot]
NoSession(w) == [w EXCEPT !.waits = FALSE, !.tries = 0, !.slot = NoSlot]

\* Mutant of Retry: the comparison is off by one.
RetryOnceMore(n) ==
    /\ runner[n].waits
    /\ runner[n].slot = Broken \/ ("network" \in Faults /\ runner[n].slot \in Requests)
    /\ runner' = [runner EXCEPT ![n] =
                    IF @.tries <= MaxRetries THEN NextTry(runner[n]) ELSE NoSession(runner[n])]
    /\ UNCHANGED <<entry, streak, ran, top, request, analytics, lock>>

\* The connection broke, or the request timed out while the API is at it: the
\* next attempt is sent, or the call ends without a session.
Retry(n) ==
    /\ runner[n].waits
    /\ runner[n].slot = Broken \/ ("network" \in Faults /\ runner[n].slot \in Requests)
    /\ runner' = [runner EXCEPT ![n] =
                    IF @.tries < MaxRetries THEN NextTry(runner[n]) ELSE NoSession(runner[n])]
    /\ UNCHANGED <<entry, streak, ran, top, request, analytics, lock>>

\* The request is answered; whoever still waits for it goes on.
Done(r) ==
    /\ request' = [request EXCEPT ![r] = Idle]
    /\ runner' = [n \in Runners |->
                    IF runner[n].slot = r THEN NoSession(runner[n]) ELSE runner[n]]

-----------------------------------------------------------------------------
(* createSession.                                                           *)

\* 1. The in-memory breaker, once the monitor is found.  isBroken does not ask
\* whether the entry has expired.
FastPath(r) ==
    /\ At(r, "received")
    /\ IF entry[request[r].key].cooldown > 0
       THEN Done(r)
       ELSE Goto(r, "streak") /\ UNCHANGED runner
    /\ UNCHANGED <<entry, streak, ran, top, analytics, lock>>

\* 2. Any active STREAK row: refuse while it is in its cooldown.
CheckStreak(r) ==
    /\ At(r, "streak")
    /\ \/ /\ Active = {}
          /\ Goto(r, "count")
          /\ UNCHANGED <<entry, runner>>
       \/ \E i \in Active :
             IF streak[i].age < Cooldown
             THEN /\ TripBreaker(request[r].key, entry[request[r].key],
                                 Cooldown - streak[i].age)
                  /\ Done(r)
             ELSE GotoWith(r, "reset", i) /\ UNCHANGED <<entry, runner>>
    /\ UNCHANGED <<streak, ran, top, analytics, lock>>

\* The cooldown has elapsed: switch the row off.
ResetStreak(r) ==
    /\ At(r, "reset")
    /\ streak' = [streak EXCEPT ![request[r].id].active = FALSE]
    /\ GotoWith(r, "count", 0)
    /\ UNCHANGED <<entry, ran, top, runner, analytics, lock>>

\* 4. and 5. The budget.
Decide(r, old, attempt) ==
    IF attempt >= Budget
    THEN /\ TripBreaker(request[r].key, old, Cooldown)
         /\ lock' = Cooldown
         /\ Goto(r, "trip")
    ELSE /\ SetAttempt(request[r].key, old, attempt)
         /\ request' = [request EXCEPT ![r] = [@ EXCEPT !.pc = "create", !.attempt = attempt]]
         /\ UNCHANGED lock

\* 3. The attempt, from the cache; an expired entry is dropped first.  A start
\* without an external id counts as a retry of the last one.
Count(r) ==
    LET k == request[r].key
    IN  /\ At(r, "count")
        /\ \/ Hit(k) /\ Decide(r, entry[k], entry[k].attempt + 1)
           \/ ~Hit(k) /\ k = Anonymous /\ Decide(r, NoEntry, 1)
           \/ ~Hit(k) /\ k \in Jobs
              /\ entry' = [entry EXCEPT ![k] = NoEntry]
              /\ Goto(r, "hydrate") /\ UNCHANGED lock
        /\ UNCHANGED <<streak, ran, top, runner, analytics>>

Hydrated(r, attempt) ==
    request' = [request EXCEPT ![r] = [@ EXCEPT !.pc = "hydrated", !.attempt = attempt]]

\* Mutant of Hydrate: a cache miss starts over.
StartOver(r) ==
    /\ At(r, "hydrate")
    /\ Hydrated(r, 1)
    /\ UNCHANGED <<entry, streak, ran, top, runner, analytics, lock>>

\* The attempt, read from the database ...
Hydrate(r) ==
    /\ At(r, "hydrate")
    /\ Hydrated(r, top[request[r].key] + 1)
    /\ UNCHANGED <<entry, streak, ran, top, runner, analytics, lock>>

\* ... and used when the answer is there.
UseHydrated(r) ==
    /\ At(r, "hydrated")
    /\ Decide(r, entry[request[r].key], request[r].attempt)
    /\ UNCHANGED <<streak, ran, top, runner, analytics>>

\* The breaker has tripped: is there an active STREAK row?
FindStreak(r) ==
    /\ At(r, "trip")
    /\ \/ Active = {} /\ Goto(r, "open")
       \/ \E i \in Active : GotoWith(r, "refresh", i)
    /\ UNCHANGED <<entry, streak, ran, top, runner, analytics, lock>>

RefreshStreak(r) ==
    /\ At(r, "refresh")
    /\ streak' = [streak EXCEPT ![request[r].id].age = 0]
    /\ lock' = Cooldown
    /\ Done(r)
    /\ UNCHANGED <<entry, ran, top, analytics>>

OpenStreak(i) == streak' = [streak EXCEPT ![i] = [active |-> TRUE, age |-> 0]]

CreateStreak(r) ==
    /\ At(r, "open")
    /\ \E i \in Unused : (\A j \in Unused : i <= j) /\ OpenStreak(i)
    /\ lock' = Cooldown
    /\ Done(r)
    /\ UNCHANGED <<entry, ran, top, analytics>>

\* 6. The execution.
CreateExecution(r) ==
    LET k == request[r].key
    IN  /\ At(r, "create")
        /\ ran' = [ran EXCEPT ![k] = @ + 1]
        /\ top' = [top EXCEPT ![k] = IF request[r].attempt > @ THEN request[r].attempt ELSE @]
        /\ Done(r)
        /\ UNCHANGED <<entry, streak, analytics, lock>>

\* A database call fails: the request ends in an error, and what it did to the
\* cache stays.
DatabaseFails(r) ==
    /\ "database" \in Faults
    /\ request[r].pc \notin {"idle", "count", "hydrated"}
    /\ Done(r)
    /\ UNCHANGED <<entry, streak, ran, top, analytics, lock>>

-----------------------------------------------------------------------------
(* Analytics.                                                               *)

Deactivate == streak' = [i \in StreakIds |-> [streak[i] EXCEPT !.active = FALSE]]

\* analyzeMonitor, after every heartbeat: switch off every pattern of the
\* monitor but SECRET_RISK.
AnalyzeMonitor ==
    /\ "analysis" \in Faults
    /\ Deactivate
    /\ UNCHANGED <<entry, ran, top, request, runner, analytics, lock>>

\* runAnalyticsAggregation: at startup, and every night.
Nightly ==
    /\ "analysis" \in Faults /\ analytics = "idle"
    /\ analytics' = "analyze"
    /\ UNCHANGED <<entry, streak, ran, top, request, runner, lock>>

Aggregate ==
    /\ analytics = "analyze"
    /\ Deactivate
    /\ analytics' = "detect"
    /\ UNCHANGED <<entry, ran, top, request, runner, lock>>

\* detectRecursiveRetries: look for an execution with LoopAttempt attempts
\* that still runs (one of the last hours may have ended) and has no STREAK.
Detect ==
    /\ analytics = "detect"
    /\ \/ analytics' = "idle"
       \/ /\ \E k \in Keys : top[k] >= LoopAttempt
          /\ Active = {}
          /\ analytics' = "open"
    /\ UNCHANGED <<entry, streak, ran, top, request, runner, lock>>

OpenRecursive ==
    /\ analytics = "open"
    /\ \E i \in Unused : (\A j \in Unused : i <= j) /\ OpenStreak(i)
    /\ lock' = Cooldown
    /\ analytics' = "idle"
    /\ UNCHANGED <<entry, ran, top, request, runner>>

\* The API restarts: its memory and the requests in it are gone.
Restart ==
    /\ "restart" \in Faults
    /\ entry' = [k \in Keys |-> NoEntry]
    /\ request' = [r \in Requests |-> Idle]
    /\ runner' = [n \in Runners |-> IF runner[n].slot \in Requests
                                    THEN [runner[n] EXCEPT !.slot = Broken] ELSE runner[n]]
    /\ analytics' = "analyze"
    /\ UNCHANGED <<streak, ran, top, lock>>

-----------------------------------------------------------------------------

Less(n) == IF n > 0 THEN n - 1 ELSE 0

\* Time passes.
Tick ==
    /\ entry' = [k \in Keys |-> [entry[k] EXCEPT !.ttl = Less(@), !.cooldown = Less(@)]]
    /\ streak' = [i \in StreakIds |->
                    [streak[i] EXCEPT !.age = IF @ < Cooldown THEN @ + 1 ELSE @]]
    /\ lock' = Less(lock)
    /\ UNCHANGED <<ran, top, request, runner, analytics>>

Init ==
    /\ entry = [k \in Keys |-> NoEntry]
    /\ streak = [i \in StreakIds |-> NoStreak]
    /\ ran = [k \in Keys |-> 0]
    /\ top = [k \in Keys |-> 0]
    /\ request = [r \in Requests |-> Idle]
    /\ runner = [n \in Runners |-> [waits |-> FALSE, tries |-> 0, slot |-> NoSlot,
                                    calls |-> 0]]
    /\ analytics = "idle"
    /\ lock = 0

Handle(r) ==
    \/ FastPath(r) \/ CheckStreak(r) \/ ResetStreak(r) \/ Count(r)
    \/ Hydrate(r) \/ UseHydrated(r)
    \/ FindStreak(r) \/ RefreshStreak(r) \/ CreateStreak(r) \/ CreateExecution(r)

Next ==
    \/ \E n \in Runners : Call(n) \/ Retry(n) \/ \E r \in Requests : Send(n, r)
    \/ \E r \in Requests : Handle(r) \/ DatabaseFails(r)
    \/ \E k \in Keys : Evict(k)
    \/ AnalyzeMonitor \/ Nightly \/ Aggregate \/ Detect \/ OpenRecursive
    \/ Restart \/ Tick

Spec == Init /\ [][Next]_vars

-----------------------------------------------------------------------------
(* Properties.                                                              *)

\* Shapes of the state.
BreakerTypeOK ==
    /\ entry \in [Keys -> Entry]
    /\ streak \in [StreakIds -> Streak]
    /\ ran \in [Keys -> Nat] /\ top \in [Keys -> Nat]
    /\ request \in [Requests -> {Idle} \cup Busy]
    /\ runner \in [Runners -> Runner]
    /\ analytics \in {"idle", "analyze", "detect", "open"}
    /\ lock \in 0..Cooldown

\* A monitor is refused starts no longer than one cooldown after the breaker
\* last tripped: refusals meanwhile, in memory or from a STREAK row, do not
\* prolong it.
BlocksEnd ==
    /\ \A k \in Keys : entry[k].cooldown <= lock
    /\ \A i \in Active : Cooldown - streak[i].age <= lock

\* Where each job has one runner, no request is sent again while it may be at
\* work, and Budget is at most one more than the attempt a trip makes up (5 and
\* 5 by default), a job is started fewer than Budget times, whatever the cache
\* forgets, the analytics switch off and the API loses.
AbstractBudget == INSTANCE RetryBudget WITH admitted <- [j \in Jobs |-> ran[j]]

BudgetIsKept == AbstractBudget!Spec

=============================================================================
