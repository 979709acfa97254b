----------------------------- MODULE PythonGuard -----------------------------
(***************************************************************************)
(* effect() of the Python SDK.  It speaks the protocol of ReplayGuardSDK;  *)
(* this module adds what is different in Python: several threads share a   *)
(* guard and its context, timed operations run in its ThreadPoolExecutor,  *)
(* where they may have to queue, an operation may call effect() itself,    *)
(* and a call that timed out comes back only when its row is marked.       *)
(* Nothing takes an operation out of the queue: one that was given up      *)
(* there runs later.  complete() takes the context away from whatever is   *)
(* still running.                                                          *)
(***************************************************************************)
EXTENDS ReplayGuardSDK, Sequences

CONSTANTS
    Workers,        \* max_workers of the executor
    Inside,         \* Inside[c]: the call whose operation makes call c, or ItsThread
    ItsThread       \* stands for a thread of its own

ASSUME PythonAssumption ==
    /\ Workers \in Nat \ {0}
    /\ ItsThread \notin Calls
    /\ Inside \in [Calls -> Calls \cup {ItsThread}]
    /\ \A c \in Calls : Inside[c] \in Calls => ExecOf(c) = ExecOf(Inside[c])

VARIABLES
    pool,           \* pool[e]: the calls whose operations occupy e's workers
    queue,          \* queue[e]: the calls whose operations wait for one
    context         \* context[e]: e's guard has a session

pyVars == <<pool, queue, context>>
allVars == <<row, handler, call, alive, cache, acts, pool, queue, context>>

-----------------------------------------------------------------------------
(* The executor.                                                            *)

Queued(c) == \E i \in DOMAIN queue[ExecOf(c)] : queue[ExecOf(c)][i] = c

\* effect() has returned or raised.
Back(c) == Started(c) /\ call[c].pc \in {"settled", "dead"}

\* The operation of c is being executed, and does not wait for an effect() of
\* its own.
Runs(c) ==
    /\ Started(c) /\ call[c].lambda \in {"running", "acted"} /\ ~Queued(c)
    /\ \A d \in Calls : Inside[d] = c /\ Started(d) => Back(d)

\* submit(): the pool starts the operation, or queues it.
Submit(c) ==
    LET e == ExecOf(c)
    IN  /\ IF Cardinality(pool[e]) < Workers
           THEN pool' = [pool EXCEPT ![e] = @ \cup {c}] /\ UNCHANGED queue
           ELSE queue' = [queue EXCEPT ![e] = Append(@, c)] /\ UNCHANGED pool
        /\ UNCHANGED context

\* Mutant of Leave: the worker forgets the queue.
LeaveIdle(c) ==
    /\ pool' = [pool EXCEPT ![ExecOf(c)] = @ \ {c}]
    /\ UNCHANGED <<queue, context>>

\* The operation of c has ended: its worker, if it had one, takes the next.
Leave(c) ==
    LET e == ExecOf(c)
    IN  /\ IF c \in pool[e]
           THEN pool' = [pool EXCEPT ![e] =
                           (@ \ {c}) \cup IF queue[e] = <<>> THEN {} ELSE {Head(queue[e])}]
           ELSE UNCHANGED pool
        /\ IF c \in pool[e] /\ queue[e] # <<>>
           THEN queue' = [queue EXCEPT ![e] = Tail(@)] ELSE UNCHANGED queue
        /\ UNCHANGED context

-----------------------------------------------------------------------------
(* effect().                                                                *)

\* A thread, or an operation that is being executed, calls effect(); without
\* a context it runs the operation unguarded, whatever the fail policy.
Effect(c, opts) ==
    /\ Inside[c] # ItsThread => Runs(Inside[c])
    /\ IF context[ExecOf(c)] THEN Start(c, opts) ELSE StartBare(c, opts)
    /\ UNCHANGED pyVars

\* The body of a request is made once, from the context.
HasBody(c) == Sending(c) /\ (context[ExecOf(c)] \/ call[c].tries > 0)

\* The context has gone: making the body raises, which is handled like an
\* API that cannot be reached.
NoContext(c) ==
    /\ Sending(c) /\ call[c].slot = NoSlot /\ ~HasBody(c)
    /\ GiveUp(c)
    /\ UNCHANGED <<row, handler, alive, acts, pool, queue, context>>

\* begin has said EXECUTE: a timed operation goes to the pool, any other runs
\* in the calling thread.
Execute(c) ==
    /\ BeginExecute(c)
    /\ IF call[c].opts.timed THEN Submit(c) ELSE UNCHANGED pyVars

PyAttempt(c) ==
    \/ NoContext(c) \/ Execute(c)
    \/ /\ \/ HasBody(c) /\ (Refused(c) \/ \E h \in Handlers : Send(c, h))
          \/ Abort(c)
          \/ BeginSkip(c) \/ BeginRefused(c) \/ BeginError(c) \/ CommitDone(c) \/ MarkDone(c)
       /\ UNCHANGED pyVars

TakesEffect(c) == Runs(c) /\ Act(c) /\ UNCHANGED pyVars

\* The calls the operation of c makes, with those their operations make.
Within(c) ==
    {d \in Calls : \A S \in SUBSET Calls :
        (\A x \in Calls : Inside[x] \in S \cup {c} => x \in S) => d \in S}

\* The operation lets the EffectTimeoutError of a call within it through: effect()
\* neither commits nor marks, the row stays EXECUTING, and call c has timed out
\* for whoever made it.
PassesTimeoutOn(c) ==
    /\ Started(c) /\ call[c].pc = "await"
    /\ \E d \in Within(c) : Started(d) /\ call[d].result = "timedOut"
    /\ Become(c, [Finish(call[c], "timedOut", {}) EXCEPT !.lambda = "ended"])
    /\ UNCHANGED <<row, handler, alive, cache, acts>>

Ends(c) ==
    /\ Runs(c)
    /\ Return(c) \/ ReceiptThrows(c) \/ Throw(c) \/ PassesTimeoutOn(c)
    /\ Leave(c)

\* Mutant of TimesOut: the clock starts with the operation.
TimesOutRunning(c) ==
    /\ ~Queued(c) /\ OperationTimeout(c)
    /\ UNCHANGED pyVars

\* future.result() times out, wherever the operation is: the row is marked,
\* then EffectTimeoutError raised.
TimesOut(c) == OperationTimeout(c) /\ UNCHANGED pyVars

\* From Python 3.11 on a TimeoutError the operation raises is taken for that
\* timeout.
RaisesTimeout(c) ==
    /\ Runs(c) /\ call[c].pc = "await" /\ call[c].opts.timed
    /\ Become(c, [InPhase(call[c], "mark") EXCEPT !.result = "timedOut", !.lambda = "ended"])
    /\ Leave(c)
    /\ UNCHANGED <<row, handler, alive, cache, acts>>

-----------------------------------------------------------------------------

\* complete(), when the threads are done with effect().
Complete(e) ==
    /\ context[e] /\ alive[e]
    /\ \A c \in Calls : ExecOf(c) = e /\ Inside[c] = ItsThread /\ Started(c) => Back(c)
    /\ context' = [context EXCEPT ![e] = FALSE]
    /\ UNCHANGED <<row, handler, call, alive, cache, acts, pool, queue>>

ProcessDies(e) ==
    /\ Crash(e)
    /\ pool' = [pool EXCEPT ![e] = {}]
    /\ queue' = [queue EXCEPT ![e] = <<>>]
    /\ UNCHANGED context

PyInit ==
    /\ Init
    /\ pool = [e \in Execs |-> {}]
    /\ queue = [e \in Execs |-> <<>>]
    /\ context = [e \in Execs |-> TRUE]

PyNext ==
    \/ \E c \in Calls :
        \/ \E opts \in Options : Effect(c, opts)
        \/ PyAttempt(c) \/ TakesEffect(c) \/ Ends(c) \/ TimesOut(c) \/ RaisesTimeout(c)
    \/ \E h \in Handlers :
        (ServeOne(h) \/ FailOne(h) \/ RespondToNobody(h)) /\ UNCHANGED pyVars
    \/ \E e \in Execs : Complete(e) \/ ProcessDies(e)
    \/ ApiCrash /\ UNCHANGED pyVars

PySpec == PyInit /\ [][PyNext]_allVars

(***************************************************************************)
(* Fairness.  As in ReplayGuardSDK: requests are given up in time, timers  *)
(* fire, and an operation without a timer ends once the calls of effect()  *)
(* it waits for are back.  An operation in the pool may hang for good.     *)
(***************************************************************************)
UntimedOperationEnds(c) == (call[c].pc = "open" \/ ~call[c].opts.timed) /\ Ends(c)

PyFairness ==
    \A c \in Calls :
        /\ WF_allVars(PyAttempt(c))
        /\ WF_allVars(TimesOut(c))
        /\ WF_allVars(Started(c) /\ UntimedOperationEnds(c))

FairPySpec == PySpec /\ PyFairness

-----------------------------------------------------------------------------
(* Properties.                                                              *)

\* Shapes of the state; no worker is idle while an operation is queued.
PyTypeOK ==
    /\ SDKTypeOK
    /\ \A e \in Execs :
        /\ pool[e] \subseteq Calls /\ Cardinality(pool[e]) <= Workers
        /\ queue[e] \in Seq(Calls)
        /\ queue[e] # <<>> => Cardinality(pool[e]) = Workers
    /\ context \in [Execs -> BOOLEAN]

\* An operation whose caller was told that it timed out, or that a call it made
\* did, is never on record as COMMITTED or FAILED, however it ends later, in the
\* pool, from the queue or after complete(), unless another call ran it to its
\* end.
LateIsOpen ==
    \A c \in Calls :
        LET f == FpOf(c)
        IN  /\ Started(c) /\ call[c].result = "timedOut" /\ call[c].lambda # "none"
            /\ row[ExecOf(c)][f].status \in {"COMMITTED", "FAILED"}
            => \E d \in Calls \ {c} : /\ Started(d) /\ call[d].lambda = "ended"
                                      /\ FpOf(d) = f /\ ExecOf(d) = ExecOf(c)

\* effect() comes back although operations that hang use up the pool, and
\* although an operation in the pool waits for one that is queued behind it.
EveryCallIsBack ==
    \A c \in Calls : Started(c) ~> (Back(c) \/ ~alive[ExecOf(c)])
=============================================================================
