# A verification project for Replaysafe

Replaysafe guards the side effects of retried jobs. A job's process calls
`guard.effect(...)`; the SDK asks the API (`begin`) whether the operation, known
by its fingerprint, has been done; the API keeps one row per execution and
fingerprint in Postgres; the SDK runs the operation and reports its end
(`commit`, `unknown`, `failed`). Recovery services resolve UNKNOWN rows with the
operation's provider, compute what a workflow may still do, ask a human where
they must, and refuse sessions to workflows that are blocked.

Around that protocol the API counts the attempts of a job and stops retry loops,
rolls back what failed jobs have done, and watches heartbeats.

The modules here model this step by step: every awaited database call is a step,
because no handler runs in a transaction.

| File | What it is |
| --- | --- |
| `EffectLedger.tla` | the ledger's rows and the API's request handlers |
| `EffectLedger_proofs.tla` | theorems about it, for every value of the constants |
| `ReplayGuardSDK.tla` | `guard.effect()` over a network, against the ledger |
| `ReplayGuardSDK_proofs.tla` | the SDK implements the ledger's specification; the protocol between a call and its row; the safety properties of `effect()` |
| `WorkflowRecovery.tla` | verification, continuation plan, approval, session gate, over the SDK |
| `WorkflowRecovery_proofs.tla` | the gate, the decisions and their grounds |
| `Compensation.tla` | the end of a job: `withReplayGuard`, rollbacks, completion, over the SDK |
| `Compensation_proofs.tla` | it makes only the SDK's steps; outcomes and rollbacks |
| `PythonGuard.tla` | what is different in the Python SDK: threads, its pool, nested calls |
| `PythonGuard_proofs.tla` | Python's calls, too, keep to the ledger's specification; late results, the pool, runs |
| `LegacyGuard.tla` | `guard.fetch()`, the older verify / report protocol, against the ledger |
| `LegacyGuard_proofs.tla` | `fetch()` implements the ledger's specification; what it repeats and replays |
| `CircuitBreaker.tla` | `createSession`: attempts, the in-memory breaker, STREAK rows |
| `RetryBudget.tla` | what the circuit breaker promises; `CircuitBreaker` implements it |
| `CircuitBreaker_proofs.tla` | that it does, and that blocks end |
| `IncidentLifecycle.tla` | heartbeats, the missed-heartbeat worker, incidents |
| `IncidentLifecycle_proofs.tla` | recoveries end incidents; how many there can be |
| `MC*.tla`, `*.cfg` | instances for TLC; each `.cfg` is one run of `PROJECT.json` |

## 1. Inventory

The repository has one API process (Express and Prisma, with three workers on
timers in the same process), two SDKs, a dashboard and a landing site.

| Component | State | Operations | Hard behaviours | Correct when |
| --- | --- | --- | --- | --- |
| Execution ledger (`GuardsService`, `routes/guards.ts`, two unique indexes) | `GuardSideEffect` rows: status, receipt, metadata | begin, commit, unknown, failed | check-then-insert by concurrent requests; late, lost and repeated requests; half-done handlers | one claim at a time; claims taken once; every grant leaves a row |
| Legacy `verify` (`guard.verify`, `fetch`) | the same rows | verify, report | COMMITTED is written before the request is made | a request on record is not made again; a replayed body is a real one |
| TypeScript SDK, `effect()` | context, local cache, the calls in progress | start, effect, wrap | request timeouts and retries; the operation timer; fail policy; death of the process | no two guarded runs at once; what is replayed was done; calls come back |
| TypeScript SDK, jobs (`withReplayGuard`, `compensate`, `complete`) | outcome, registered rollbacks | run, compensate, complete, `onRollback` | a completion that is lost, retried, answered late | the recorded outcome is the job's; only failed jobs are rolled back |
| Python SDK | the same, and a thread pool | the same protocol | threads share a context; full pools; calls inside operations | every call comes back; a late operation is never recorded as ended |
| Verification (`VerificationService`, worker, verifiers, rate limiter) | `isRunning`, the list a pass reads, call windows | project, execution, workflow pass | rows read long before they are written; overlapping passes; quotas | VERIFIED only on grounds; UNKNOWN rows get resolved |
| Continuation plan, approval, session gate | the same rows; sessions | resume, reconcile, approve, POST /session | a plan over rows that move; a gate read before its session | nothing runs past an unresolved step; decisions stand |
| Circuit breaker (`createSession`, `LoopDetectionCache`, STREAK patterns) | attempts per job, breaker, TTL | create session | cache and table disagree; non-atomic counting | no job is started beyond its budget; blocks end |
| Completion and rollbacks | `GuardRollback` | register, complete, trigger | two completions at once; a crash between a call and its record | COMPLETED means carried out; at most once per completion sent |
| Incidents, heartbeats, missed-heartbeat worker | monitor status, `nextExpectedAt`, incidents | heartbeat, check, create, auto-resolve | check-then-create; a stale list of missed monitors | a recovery ends all incidents; every missed heartbeat is noticed |
| Self-healing | audit log of attempts | attempt heal | counting and logging; a plan checked long before the replay | at most maxRetries; no replay of a blocked workflow |
| Patterns, health score, analytics | statistics | nightly and per heartbeat | switches off STREAK patterns | |
| Alerts and channels | `Alert` rows | send | delivery records | |
| Authentication and lockout, API keys, rate limits | failed attempts | login | read, add, write back | five failures lock |
| Everything else (CRUD routes, encryption, CLI, dashboards, landing site) | | | | |

How they interact: the SDK calls the API over HTTP and nothing else; the API's
components share the tables and call one another directly (heartbeat ->
incident -> self-healing -> reconcile and plan; verification -> alerts); the
workers run in the API process and die with it. All concurrency is interleaving
at `await`s between requests, workers and the processes of the SDK's users; the
database is the only thing that makes a step atomic.

`PROJECT.json` lists the components with their status and every hazard at its
line.

## 2. Plan

Done in this order, most important first:

1. `EffectLedger`: the claim protocol in the API; its theorems.
2. `ReplayGuardSDK`, which extends it: the SDK's side, the network, crashes;
   the theorem that it implements `LedgerSpec`.
3. `WorkflowRecovery`, which extends that: what happens to rows afterwards.
4. `CircuitBreaker`, with the abstract specification `RetryBudget`.
5. `Compensation`, which extends `ReplayGuardSDK`.
6. `IncidentLifecycle`.
7. `LegacyGuard`, which extends `EffectLedger`.
8. `PythonGuard`, which extends `ReplayGuardSDK`.

9. Proofs, in the same order: of every safety property and action property the
   runs check (section 13).

Still to come:

10. The verification service's batches and rate limiter, self-healing's log.

## 3. EffectLedger

`row[e][f]` is the `GuardSideEffect` of execution `e` with fingerprint `f`
(`status = "NONE"`: there is none; `@@unique([executionId, fingerprint])` makes
the pair a key). `handler[h]` is a request in flight and the point it has
reached, with what its reads returned (`other`, `seen`), so that a write can use
a value that has gone stale. One action per database call:

| Action | Code (`GuardsService.ts`) |
| --- | --- |
| `BeginDedup`, `RecordSkip` | `beginSideEffect` 531-572 |
| `BeginConflict`, `FlagOther`, `RecordConflict` | 574-634 |
| `InsertExecuting` (under `MayExecute`: the two indexes) | 636-652 |
| `ViolationConflict`, `ViolationSkip` | the P2002 branch, 653-684 |
| `VerifyDedup`, `MergeOwn`, `InsertCommitted` | `verifySideEffect` 228-329 |
| `CommitSideEffect`, `MarkUnknown`, `MarkFailed` | 692-746 |
| `Receive`, `Respond`, `Vanish`, `DatabaseFails` | a request arrives, is answered, is lost or dies with the API, runs into a failing database |

`Endpoints` restricts what the environment sends; by itself it may send
anything for any execution at any time, as the HTTP API allows.

Data that no property tells apart is left out. Metadata is the set of key groups
it holds, so that the spreads of the code are unions and a lost result is
visible. `findFirst` orders by `executedAt`, which is not kept: the model takes
any match. The `STATE_SNAPSHOT` branch is not modelled. Executions
are never deleted and tokens always match. Prisma is taken to accept `null` for
a JSON column, as the code expects.

## 4. ReplayGuardSDK

A call `c` is one invocation of `guard.effect()`; `CallFor` says for which
execution and operation. `call[c].pc` follows `effect()`: `begin`, `await` (the
operation runs under guard), `open` (it runs unguarded), `commit`, `mark`,
`settled`. `lambda` is the operation itself, which goes on after its timer has
fired; `acts` counts its effects at the provider. `alive`, `cache` are the
process and its `localCache`. `known` is history, for the properties.

Requests go through `_fetchWithRetry`: `Send` occupies a handler, `Refused` and
`Abort` are attempts that fail (the API may process an aborted request all the
same), `AttemptFailed` counts them and `GiveUp` applies what `effect()` does
then: the fail policy for `begin`, nothing for `commit` and the marks.
`OperationTimeout` is the timer of `_withOperationTimeout`; `ReceiptThrows` is
the user's `receipt()`, which runs outside every `catch`. `Faults` says which
failures a run has: `crash` (the job's process), `apiCrash`, `network`
(refusals, losses, timeouts), `database`.

Simplifications: one SDK instance per execution; a response's body
arrives with its headers (`res.json()` is outside the abort timer);
`execute()` returns a promise, as its type says, and does not throw
synchronously.

## 5. WorkflowRecovery

`pass[p]` is a recovery request in flight: a verification pass and its list
(`check`, `apply`), a plan and its list (`plan`, `block`), a session about to be
created (`create`), an approval between its read and its write (`approve`).
`session[e]` is what `guard.start()` came to. Passes use rows as they read them
and write by id, as the code does; a failing database call (`PassFails`) ends one
anywhere, with the writes it has made. History, kept beside every step by
`Watch`: `past[e][f]`, the statuses a row has had, and `blockers[e]`, the rows
that have blocked the workflow at every moment since `e` last asked for a
session. What a provider can
say (`ProviderMay`): nothing without a receipt, since every built-in verifier
returns UNKNOWN then; and it confirms nothing that did not happen. It may deny
what did happen. Built-in verifiers never answer TRANSIENT, so neither does the
model. Quotas, batches and the 30 s grace period are "some of the UNKNOWN rows"
and "no answer this time".

## 6. Compensation

`job[e]` is `withReplayGuard` around the calls of `ReplayGuardSDK` that belong
to execution `e`, an attempt of one job (`Before` says which attempts precede
which). `request[s]` is a registration or a completion in the API, served one
database call or target call at a time; `status`, `rollback` are
`GuardExecution.status` and the `GuardRollback` rows; `reversed` counts what the
targets carried out. The SDK is taken to await `compensate()`; a job that throws
may do so with registrations missing.

| Action | Code |
| --- | --- |
| `StartJob`, `MakeCall`, `EndJob`, `RunHook` | `withReplayGuard` |
| `Compensate`, `Submit`, `Repeat`, `Resume`, `GivenUp` | `compensate`, `complete`, `_fetchWithRetry` |
| `FindEffect`, `CreateRollback` | `registerRollback` |
| `UpdateExecution`, `FindPending`, `Fire`, `Mark` | `completeExecution`, `triggerRollbacks` |

A target that is no URL (`local`) is left to `onRollback` and recorded COMPLETED
by the API without being called; `CompletedWasReversed` speaks of the others.
Completion as UNKNOWN, which no SDK sends, is left out.

## 7. PythonGuard

The Python client speaks the protocol of `ReplayGuardSDK`, whose actions are
reused; the module adds `pool[e]`, `queue[e]` (its `ThreadPoolExecutor`) and
`context[e]`. A timed operation goes through `Submit`; its timer runs from then
on, queued or not (`TimesOut`), and nothing takes it out of the queue. `Inside`
says which calls are made by the operation of another call: that operation
waits for them and keeps its worker. `Complete` clears the context under
whatever the pool still runs; requests are built from it, so making one then
raises (`NoContext`), and calls that start then run unguarded. An operation may
let through the `EffectTimeoutError` of a call made within it
(`PassesTimeoutOn`): `client.py:161` then marks nothing, the row stays EXECUTING,
and to its own caller the operation has timed out. `start()`,
`resume()` and the rollback half of `complete()` are not repeated here.

`index.ts:672` has the same branch. No run of the TypeScript SDK has nested calls,
and the state it leaves (the operation ended, the row EXECUTING, `effect()`
rejected) is the one `ReceiptThrows` leaves, so `Throw` does not repeat it.

## 8. LegacyGuard

`guard.fetch()`: `verify` claims the request by writing a COMMITTED row before
anything has happened, the request is made, and a second `verify` merges the
response into the row. `call[c].pc` follows `fetch`: `verify`, `run`, `report`.
The API's side (`VerifyDedup`, `MergeOwn`, `InsertCommitted`) is part of
`EffectLedger`. `Return` is a response that is ok with a JSON body;
everything else is `ReturnUnreported`. The fail policy belongs to a process, so
it is a function of the execution, as in the other modules of the SDK.

## 9. CircuitBreaker and RetryBudget

One monitor. `entry[k]` is `LoopDetectionCache`'s entry of a job, `streak` the
STREAK rows, `request[r]` a `createSession` between two of its database calls,
`runner[n]` a process in `start()`, which sends a request again when it times
out. `ran`, `top` are what the `GuardExecution` rows say: how many, and the
highest attempt. The starts without an external id share the key `Anonymous`.
Time is `Tick`: a timestamp in the code is what is left of it (or its age). The
analytics (`Nightly`, `Aggregate`, `Detect`, `OpenRecursive`; `AnalyzeMonitor`
after heartbeats) switch every active pattern off and may open a STREAK of their
own. `lock` is history: what is left of the last cooldown the code began.

`RetryBudget` is what `docs/architecture.md` promises of it: a job is started
fewer than `Budget` times, and never again. `CircuitBreaker` implements it under
`admitted <- ran` (the property `BudgetIsKept`): cache entries that expire,
breakers that forget, STREAK rows switched off by the analytics, API restarts
and failing queries do not give a job another start, because the attempt is read
from the database whenever the cache cannot say. This is so where a job has one
runner and its session requests do not time out (no `"network"`; a request whose
connection broke with the API is resent all right, since its handler died with
the API): `createSession` reads the attempt and writes it after several awaits,
so that concurrent or resent starts pass the budget.

It is so, too, only for `Budget <= LoopAttempt + 1`, which the proof asks for and
the default (5 and 5) meets. A job that is refused because of another job's
STREAK, after a restart has emptied the cache, gets an entry with the invented
attempt `LoopAttempt` (`tripBreaker`). If the job had made more attempts than
that, the entry, once its cooldown is over, counts on from below the real number
and admits the job beyond its budget: TLC finds this with `Budget = 4` and
`LoopAttempt = 2`.

## 10. IncidentLifecycle

`monitor[m]` (status, whether `nextExpectedAt` lies in the past, soft deletion),
`incident[m]` (its open incidents) and `thread[t]`: a heartbeat request
(`Beats`) or a pass of the worker (`Passes`), at a database call. `Receive`,
`Record`, `FindMonitor`, `UpdateNextExpected` are `handleHeartbeat`,
`StartPass`, `MarkDown` the worker, `FindOpenIncident`, `InsertIncident`,
`FindToResolve`, `ResolveOpen` the `IncidentService` both call. Resolved
incidents are forgotten and their names used again. `seen` is history: what was
open when a thread arrived. Heartbeat rows, alerts and the heal that a new
incident triggers change nothing here and are left out. So is the filter
`enabled: true` of the worker's query, since only deletion ever clears that flag
and `Missed` excludes deleted monitors.

## 11. Properties and runs

Every run has at most two executions, one or two operations and two request
slots. Two executions are enough for every race over a claim (one that holds
it, one that wants it); two calls of one execution appear in the recovery runs,
where only a second call gives an UNKNOWN row a receipt, and in `PythonPool`.
`MaxRetries` is 0 or 1: one retry already brings the late request that nobody
waits for, with two slots to hold it.

| Run | Question | Bounds |
| --- | --- | --- |
| `LedgerBegin` | can handlers break the claim, whatever is sent? | 2 executions of two jobs (the scopes of `verify` differ), 1 operation, 2 handlers, all endpoints |
| `SDKFaults` | do lost, late and repeated requests, crashes, restarts, a failing database? | 2 calls of 2 executions with the options' defaults, 1 retry, all faults |
| `SDKSettles` | does `effect()` come back (fail open)? | 2 calls, 1 handler, 1 retry |
| `RecoveryGate` | do the gate, the grounds and the decisions hold while recovery requests overlap? | 2 executions, the first, which fails open, calling its step twice, the second, which fails closed, its own once; 2 recovery requests; 1 handler, no retry; API restarts; untimed operations whose failures are UNKNOWN |
| `RecoveryResolves` | does the worker resolve what it can, although passes overlap and fail? | 2 timed calls of one execution that fails open, a failure being FAILED at once; 2 recovery requests; 1 handler, no retry; failing database |
| `BreakerBudget` | is the budget kept, do blocks end? | a job of 4 starts and an anonymous one, budget 3, cooldown of 3 ticks, entries that live for 2; 3 STREAK rows; 2 requests |
| `SagaOutcome` | is the outcome kept, is only what failed reversed? | 1 execution, 2 operations (options as `wrap()` has them), local and URL targets, 1 retry, 2 request slots; network, database, API restarts |
| `IncidentWatch` | do recoveries end incidents, are missed heartbeats noticed? | 2 monitors, 1 heartbeat at a time beside 1 pass, 3 names of incidents, so that two threads could open one too many |
| `LegacyFetch` | is a request on record made again? | 2 executions of a job, the first failing open; 1 retry, all faults |
| `PythonPool` | does every call come back, what becomes of late operations? | 1 process, a pool of 1 worker, 3 calls: one, the one inside its operation, and a second thread repeating the first; no retry; all faults |

The pool of 10 workers is 1 in `PythonPool`, so that one operation fills it. In
`BreakerBudget` the entry's life, the cooldown and the budget keep their order
(entries expire before cooldowns end) and a STREAK row can be refreshed, switched
off and opened anew while a request holds the number of an older one.

Two recovery requests are what a stale write takes: one that has read, one that
writes before it. `RecoveryGate` has the steps of a workflow that block one
another and no timers, `RecoveryResolves` the timers, the failing passes and
fairness: two runs of minutes instead of one of hours. A lossy network and resent
requests, which neither has, are covered by the theorems (section 13).

Deadlock is checked in `LedgerBegin` only, where the API can always receive;
elsewhere a system whose calls have settled, whose starts are used up or whose
monitors are deleted has nothing left to do.

Where a property is deliberately limited:

- `RunsExclusively` and `LifecycleIsForward` are checked over two executions
  that make a call once. An execution that calls `effect()` again for an
  operation that is COMMITTED is told to run it again, and the second run's
  timeout turns COMMITTED into UNKNOWN (`RecoveryResolves` has such rows).
- `CommittedNeverRepeats` and `MadeOnce` speak of what was on record when the
  call started and of failPolicy CLOSED: an operation committed after the
  dedup read is run again (`SDKDouble`), and a call that fails open does not
  look.
- `DecisionsStand` speaks of rows that are released: no pass, plan or approval
  holds them from an earlier read, no request for them is in the API, and their
  calls are over. Before that a decision can be overwritten (section 12); the
  property says that afterwards nothing takes the row up again.
- `BlockersAreCleared` speaks of steps that have been unresolved ever since the
  session was asked for. One that comes to need a human after the plan was read
  does not hold the session back.
- `VerifiedOnGrounds` counts a human's decision as grounds, and does not ask that
  an outcome is newer than the one it replaces.
- `ReversalsAreBounded` allows one reversal for each completion request the SDK
  may send: handlers of a retried completion each fire what they found PENDING.
- `DuplicatesAreBounded` allows an incident per thread: that is what
  check-then-create gives.
- `LateIsOpen` excepts rows another call of the same execution ran to its end.

Fairness. `FairSpec` assumes of the SDK what its timers do (a request is
answered or aborted, a failed attempt is followed by the next, a timed
operation is given up) and that operations without a timer end; nothing of the
API, which may hang. `FairPySpec` is the same for Python, where an operation
outside the pool ends once the guarded calls it makes are back. The API's part
in `FairRecoverySpec` is that work once begun goes on (weak fairness of a pass),
that the worker's poll finds a free request slot (strong fairness: the slots are
a bound of the model, the worker does not compete for any), and that a provider
that can tell does so in the end (strong fairness: each poll asks again; with no
more UNKNOWN rows than a batch takes and the limiter lets through in a minute,
which the run's one row is, every poll reaches the row), and that the write of an
outcome, which each poll tries again, does not meet a failing database every time
(strong fairness of `ApplyOutcome`). In `IncidentLifecycle`
`setInterval` starts a pass every minute (weak fairness of `StartPass`, the pass
slot being free again once a pass ends or fails), a pass goes on, and it is not
cut short every time before it reaches a given monitor (strong fairness of
`MarkDown`).

## 12. What the code does not keep

Each of these is a run that must find a violation; the findings in
`PROJECT.json` quote the sentence.

| Run | What happens |
| --- | --- |
| `SDKDouble` | dedup and claim are not atomic: A reads, B begins, runs and commits, A inserts and runs |
| `SagaRetry` | what a FAILED attempt did is rolled back but stays COMMITTED in the ledger; the next attempt skips it and succeeds without it |

Further behaviours seen while modelling that the properties above leave room
for. In the ledger and the SDK:

- The loser of an insert race is told SKIP, "Already executed", although the
  winner has failed since or the row is its own (`GuardsService.ts:671`), and
  the operation never runs; `src/README.md:36` says "If it didn't — it runs".
- A conflict flag is written with metadata read earlier (592) and can overwrite
  the result a commit has stored meanwhile, which later calls are then handed.
- `beginSideEffect` looks for COMMITTED, VERIFIED and EXECUTING rows only, so an
  operation that is UNKNOWN in one execution runs at once in another that needs
  no session plan (`src/README.md:148` promises a provider query before a retry).
- A row whose process dies stays EXECUTING (`schema.prisma:23` says "process died
  mid-call" of UNKNOWN), and later executions are answered CONFLICT.
- `markUnknown`, `markFailed` and `commitSideEffect` write whatever the status is
  (`guards.ts:254` documents EXECUTING -> UNKNOWN only).
- `start()` treats the 403 of a blocked workflow like an unreachable API: under
  the default policy OPEN the execution then runs unguarded.
- A `fetch()` whose request fails leaves its row COMMITTED; the next attempt is
  handed a made-up 200 response for a request that was never made.
- In Python an operation that was still queued when its caller was told
  `EffectTimeoutError` runs afterwards; an operation that lets the
  `EffectTimeoutError` of a nested call through leaves its row EXECUTING although
  `errors.py:4` says of that error "The effect has been logged as UNKNOWN in the
  ledger" (so does TypeScript, where the comment above `index.ts:672` has it
  "already handled"); after `complete()` calls made inside
  running operations are unguarded even under CLOSED; a `TimeoutError` the
  operation raises is taken for the timer from Python 3.11 on; and the
  `inputHash` sent with `begin` ignores the configured `ignoreKeys`.

In the recovery services:

- `markUnknown` stores no receipt, so an UNKNOWN row has one only if an earlier
  run of the same execution had committed it; the others are never resolved, and
  use up the batch of 100 (`VerificationService.ts:63`) and the provider's quota
  (`VerifierRegistry.ts:26`).
- A plan blocks rows as it read them: an older plan sends a row that a human has
  just approved for approval again (806).
- Of two overlapping verification passes the later one writes its outcome over
  the earlier one's, or over an approval, and records `resolvedFrom: UNKNOWN`
  all the same. A late mark of an execution does so, too.
- A step that fails after the plan was read, or whose call is still under way,
  does not hold back the session that is then created.
- Approval writes VERIFIED, which `schema.prisma:22` reserves for the provider's
  confirmation.

In jobs, breaker and incidents:

- A second handler of a completion writes FAILED over a rollback that the first
  has COMPLETED (438), or fires the target twice.
- `tripBreaker` invents attempt 5 for a job it has no entry of, so that a job
  refused because of another job's STREAK finds its budget used up, or, under a budget above 6, partly forgotten; the
  anonymous jobs of a monitor share one count; the comment that `createSession`
  clears the in-memory state when a cooldown has elapsed is not carried out.
- `analyzeMonitor`, after every heartbeat and at startup, switches the breaker's
  STREAK off.
- Heartbeat and worker may each open an incident (`IncidentService.ts:10` means
  "to prevent duplicates"), and a monitor that has recovered can keep one when a
  pass marked it DOWN from an older list; a pass that fails after its first
  write leaves a DOWN monitor without an incident, and later passes skip it;
  a recovery resolves, too, an incident that was opened while it was under way,
  when the monitor is DOWN again (`IncidentService.ts:78`).
- `attemptHeal` is called when an incident is created, once per incident, so
  that its `maxRetries` and cooldown, counted per incident, never come to bear.

## 13. What is proved

Every invariant and every action property of the passing runs is a theorem for
all values of the constants: any number of executions, operations, calls, requests in flight,
jobs, monitors and retries, any options and policies, any set of faults that the
theorem does not exclude. The constants obey the named assumptions of the
modules: functions have their domains and ranges, the sentinels (`NoSlot`,
`Broken`) are no slots, the sets whose sizes are counted (`Slots`, `Beats`,
`Passes`) are finite, the names of what a recovery pass is for are no
executions. TLC evaluates them on every run.

Theorems about the SDK suppose that the ledger's environment sends what
`effect()` sends (`EffectEndpoints \subseteq Endpoints`, `"verify" \in Endpoints`
for `fetch()`): `Endpoints` is a bound on the environment of a run.

Some suppose more, each for a reason one can see in the code:

- `OneCallEach`: no two calls of one execution are for the same operation. Two
  such calls share a row. After the first has committed it, `begin` tells the
  second to EXECUTE (`GuardsService.ts:531` looks in other executions), so that
  the row of a call that runs is COMMITTED, and three such calls break
  `RunsExclusively`; `verify` tells a second `fetch()` the same.
- `OneRunnerEach`, `Budget <= LoopAttempt + 1`: section 9.

**`EffectLedger_proofs`**, of `LedgerSpec`:

- `LedgerTypeCorrect`: `LedgerTypeOK` is inductive; one lemma per way a handler
  moves on (`HandlerType`), one for stored rows, one case per database call.
- `ExecutingIsUnique` and `ClaimsAreTakenOnce`: everything rests on
  `ServeStatus`, what one database call may do to the status of any row: not
  remove it, and make it EXECUTING only if the row did not exist and no row of
  the operation was EXECUTING. With the types and "a step writes one row" this
  makes `OneExecuting` inductive.
- `GrantsAreRecorded`: `GrantIsRecorded` is not inductive, since `MergeOwn`
  answers for a row read earlier; `GrantInv` adds that the row was there when
  it was read, and rows never disappear.

**`ReplayGuardSDK_proofs`**, of `Spec` of the SDK:

- `SDKImplementsLedger`: every step of the SDK's system is a step of
  `LedgerSpec` or leaves the ledger alone, since what a call sends is `Callable`
  (`RequestIsCallable`). The identity is the refinement mapping, so the ledger's
  theorems carry over (`OneExecutionHoldsTheClaim`, `SDKClaimsAreTakenOnce`).
- `SDKTypeCorrect`: inductive by itself, one step per action.
- `CallsFollowTheProtocol`: `ProtocolInv`, on which the next three rest. A request
  outlives the attempt that sent it, so it speaks of all requests of a call in
  flight, waited for or not: they are of a started call; a call waits for one of
  its own; updates are sent only after the operation has ended or was given up,
  and all ask for the same status, so that the late one of a retried request
  finds the row where it would put it; an answer EXECUTE that will be read finds
  the row EXECUTING; and the row is where its call is.
- `RunsAreExclusive`: a call that awaits its operation has an EXECUTING row
  (`ProtocolInv`), and there is one of those (`OneExecutionHoldsTheClaim`).
- `LifecyclesAreForward`: from `ProtocolInv` and what a request can write
  (`StatusMovesForward`).
- `CommittedIsNotRepeated`: `BarredInv` follows a call that must not run: its row
  is absent or SKIPPED, another execution's is COMMITTED (and stays so), and none
  of its requests has passed `BeginDedup` towards an EXECUTE.
- `CachedResultsAreReal`: `DoneInv` says of each place metadata passes through
  (row, handler, call, cache) that a result in it is one of an operation that took
  effect. It needs no `OneCallEach`.

**`WorkflowRecovery_proofs`**, of `RecoverySpec`, which constrains the SDK's
`Next` and adds writers of the same rows, so that the theorems about `Spec` do
not carry over (its lemmas about single steps do):

- `RecoveryTypeCorrect`: `RecoveryTypeOK`, with a shape for each place a pass can
  be at (`PassOf`).
- `VerifiedIsGrounded`: `GroundsInv` follows the grounds of a COMMITTED or VERIFIED
  from where they arise to the row: a call about to commit has had its effect
  (`CallGrounds`), so has the one a commit in flight is of (`RequestGrounds`), and
  the one a provider has confirmed to a pass; a plan holds rows that were FAILED,
  an approval one that was AWAITING_APPROVAL and FAILED before (`PassGrounds`,
  `RowGrounds`). Effects are not undone and history
  does not forget, so that a stale write is as well grounded as a timely one.
- `DecisionsAreKept`: no pass or plan takes up a row that is COMMITTED or VERIFIED,
  an approval none that is not AWAITING_APPROVAL, and a call that is over makes
  no request (`PassLeavesDone`, `CallsLeaveDone`); nothing else writes rows.
- `GateHolds`: `GateInv` says that a plan whose verdict is not BLOCKED, and the
  request that goes on from it to create a session, finds no `blockers`
  (`PassFits`), that an execution has one session request at a time
  (`AsksAlone`), that there are no `blockers` of an open session, and that the
  calls of an execution that fails closed are made in one (`SessionFits`). Rows
  join `blockers` only when the session is asked for, so what is there blocked
  when the plan read it.

The three hold for any number of recovery requests that overlap, calls that share
a row, and requests that are lost, late or sent again; they suppose only
`EffectEndpoints \subseteq Endpoints`. TLC has checked `GroundsInv` and `GateInv`
on the instances of both recovery runs.

**`Compensation_proofs`**, of `SagaSpec`:

- `SagaImplementsSDK`: the job only calls `effect()` in some order, so all theorems
  about the SDK hold under it.
- `OutcomesAreKept`, `CompletedWereReversed`: `OutcomeInv` says of each registration
  and completion in flight, whether or not the SDK still waits for it, that its
  job has come that far, that it carries the job's outcome, that it fires only
  for a job that threw, that its rollbacks exist, and that a target it has called
  was called.
- `TargetsAreCalledBoundedly`: a counting argument. `ReversalInv` adds that the
  reversals of a rollback and the completions in flight that may still call its
  target are together no more than the completions sent (`ToFire`, `Sent`).

**`CircuitBreaker_proofs`**, of `Spec` of the breaker:

- `EveryBlockEnds`: `BlocksEnd` is inductive given the types.
- `RetryBudgetIsKept`: the refinement of `RetryBudget` under `admitted <- ran`.
  `BudgetInv`: at most one request of a job is at work (`Waiting`,
  `OneRequestEach`), `ran <= top < Budget`, an entry's attempt is not below what
  the database says once the entry counts, and a request about to create has an
  attempt above `top` and below `Budget`. A first proof, without
  `Budget <= LoopAttempt + 1`, failed for the reason section 9 gives.

**`IncidentLifecycle_proofs`**, of its `Spec`:

- `SuccessesEndIncidents`: `EndInv` adds that what a thread has seen and not ended
  is still open (`SeenIsOpen`), although resolved names are used again.
- `DuplicatesStayBounded`: `DuplicateInv` counts the open incidents of a monitor
  together with the threads about to create one.

**`LegacyGuard_proofs`**, of its `Spec`:

- `LegacyImplementsLedger`: as for the SDK.
- `ResponsesAreReal`: `ResultInv`, as `DoneInv`, over rows, requests, caches, calls.
- `KnownIsNotRepeated`: `KnownInv`, as `BarredInv`; requests of a warned call answer
  anything but EXECUTE.

**`PythonGuard_proofs`**, of `PySpec`, which guards some of the SDK's steps and adds
others (a call without a context, a body that cannot be made, an operation that
raises `TimeoutError`), so that the theorems about `Spec` do not carry over:

- `PythonImplementsLedger`: every step is one of the SDK's or leaves the ledger
  alone (`PythonSteps`, `OwnSteps`).
- `LateResultsAreNotRecorded`: `LateInv` follows the end of an operation from the
  call that saw it (`Shape`: only a call whose timer has not fired reports one)
  through the request in flight (`HandlerFits`) to the row. FAILED needs
  a second strand: a refused begin writes it too, but only where there was no row,
  and who was told to EXECUTE has one (`ClaimFits`). An operation that lets a
  nested timeout through reports nothing, so its row stays as it is, and it counts
  as timed out like the others. It needs no `OneCallEach`:
  threads that repeat each other's calls are covered.
- `PythonTypeCorrect`: `PoolInv` says that nobody is in the pool and the queue, or
  twice in the queue, and that all who are there run an operation; without it
  the freed worker could be given an operation that has a worker, and one would
  idle while others wait.
- `PythonRunsAreExclusive`: `ProtocolInv` is kept by Python's own steps.

TLC has checked `LateInv` and `PoolInv` on the instance of `PythonPool`, and with
operations whose failures are marked FAILED and that give a receipt.

Only model-checked:

- Liveness: `EffectSettles`, `ReceiptResolves`, `MissedIsNoticed`,
  `EveryCallIsBack`. The prover handles neither fairness nor ENABLED.
- What calls of one execution that share a row do where a theorem excludes them:
  the recovery runs and `PythonPool` have such calls and check what holds of them.

The two properties the code does not keep (section 12) are refuted by TLC. No
module declares a RECURSIVE operator.

## 14. Not modelled

- `STATE_SNAPSHOT` rows and drift detection (`snapshot()` and a branch of
  `verifySideEffect`): they write rows no other operation reads.
- The verification service's batches, grace period and rate limiter: "some of
  the UNKNOWN rows", "no answer this time".
- Self-healing beyond its reconcile and plan, which are a recovery request of
  `WorkflowRecovery`: its log, jitter and webhook. The job it replays asks for
  a session like any other.
- Health scores, summaries and incident grouping: statistics nothing reads back.
- Alerts and channels: delivery, fire and forget.
- Authentication, lockout, API keys, rate limits of the routes: access control,
  outside the protocol.
- Projects, agents, provider configurations, billing, metrics, audit log, secret
  scanning, utilities, CLI: storage and retrieval of rows the protocol takes as
  given, and pure functions over data that is abstracted here.
- The dashboard and the landing site, about two thirds of the repository's
  lines: user interface over these routes. What the site's documentation pages
  say of the protocol is quoted where the code differs.
