---------------------------- MODULE Compensation ----------------------------
(***************************************************************************)
(* The end of a guarded job, composed with the effects it makes:           *)
(* withReplayGuard, compensate() and complete() of the SDK, and the API's  *)
(* registerRollback, completeExecution and triggerRollbacks.  Executions   *)
(* are the attempts of one job, made one after the other.                  *)
(*                                                                         *)
(* triggerRollbacks works through the rows it found PENDING and calls the  *)
(* targets that are URLs; the others are for the onRollback hook of the    *)
(* guarded process, which is handed every row that was found.  The         *)
(* handlers of a retried request run beside the one that was given up.     *)
(***************************************************************************)
EXTENDS ReplayGuardSDK

CONSTANTS
    Slots,          \* registrations and completions the API can have in flight
    Before,         \* Before[e]: the attempts that end before e starts
    Locals          \* subset of BOOLEAN: whether a rollback's target is no URL

ASSUME CompensationAssumption ==
    /\ Before \in [Execs -> SUBSET Execs]
    /\ Fps # {} /\ Locals \subseteq BOOLEAN
    /\ IsFiniteSet(Slots) /\ {NoSlot, Broken} \cap Slots = {}

VARIABLES
    job,            \* job[e]: withReplayGuard of execution e
    status,         \* status[e]: GuardExecution.status
    rollback,       \* rollback[e][f]: the GuardRollback row of the side effect
    request,        \* request[s]: the registration or completion in slot s
    reversed        \* reversed[e][f]: how often e's rollback of f was carried out

sagaVars == <<job, status, rollback, request, reversed>>
allVars == <<row, handler, call, alive, cache, acts, job, status, rollback, request, reversed>>

-----------------------------------------------------------------------------
(* State.                                                                   *)

\* asked: the operations compensate() was called for; fp: the last of them;
\* hooks: the rollbacks onRollback is still to be called with.
Job == [pc: {"off", "running", "register", "complete", "hooks", "over"},
        outcome: {"none", "value", "threw"}, asked: SUBSET Fps, fp: Fps,
        tries: 0..MaxRetries, slot: Slots \cup {NoSlot, Broken}, hooks: SUBSET Fps]

Rollback == [status: {"NONE", "PENDING", "COMPLETED", "FAILED"}, local: BOOLEAN]

NoRollback == [status |-> "NONE", local |-> FALSE]

\* todo and found: the rollbacks triggerRollbacks has yet to look at, and all
\* it found; carried: the call to the last one's target succeeded.
RollbackRequest ==
    [pc: {"received", "create", "find", "fire", "mark"}, op: {"register", "complete"},
     exec: Execs, fp: Fps, local: BOOLEAN, failed: BOOLEAN, todo: SUBSET Fps,
     found: SUBSET Fps, cur: Fps, carried: BOOLEAN]

Free == [pc |-> "idle"]

\* Stands in fp and cur for "no operation yet".
AnyFp == CHOOSE f \in Fps : TRUE

In(s, op, pc) == request[s].pc = pc /\ request[s].op = op

Pending(e) == {f \in Fps : rollback[e][f].status = "PENDING"}

SetJob(e, r) == job' = [job EXCEPT ![e] = r]

CallsOf(e) == {c \in Calls : ExecOf(c) = e}

\* effect() has returned a value, its own or an earlier one's.
HasValue(c) == Settled(c) /\ call[c].result \in {"value", "cached"}

-----------------------------------------------------------------------------
(* The job.                                                                 *)

\* withReplayGuard gets its session.
StartJob(e) ==
    /\ job[e].pc = "off" /\ alive[e]
    /\ \A b \in Before[e] : job[b].pc = "over" \/ ~alive[b]
    /\ SetJob(e, [job[e] EXCEPT !.pc = "running"])
    /\ status' = [status EXCEPT ![e] = "RUNNING"]
    /\ UNCHANGED <<vars, rollback, request, reversed>>

\* The job awaits one effect() after the other.
MakeCall(c, opts) ==
    /\ job[ExecOf(c)].pc = "running"
    /\ \A d \in CallsOf(ExecOf(c)) : Started(d) => Settled(d)
    /\ Start(c, opts)
    /\ UNCHANGED sagaVars

\* compensate(), for an operation the job has the result of.
Compensate(c) ==
    LET e == ExecOf(c)
    IN  /\ job[e].pc = "running" /\ alive[e]
        /\ HasValue(c) /\ FpOf(c) \notin job[e].asked
        /\ SetJob(e, [job[e] EXCEPT !.pc = "register", !.fp = FpOf(c),
                                    !.asked = @ \cup {FpOf(c)}])
        /\ UNCHANGED <<vars, status, rollback, request, reversed>>

\* The job returns, with every operation it needs, or throws.
EndJob(e, outcome) ==
    /\ job[e].pc = "running" /\ alive[e]
    /\ \A c \in CallsOf(e) : Started(c) => Settled(c)
    /\ outcome = "value" => \A c \in CallsOf(e) : HasValue(c)
    /\ SetJob(e, [job[e] EXCEPT !.pc = "complete", !.outcome = outcome])
    /\ UNCHANGED <<vars, status, rollback, request, reversed>>

\* onRollback: local rollbacks are carried out, unless the hook fails; one that
\* throws instead of rejecting ends the loop.
RunHook(e) ==
    /\ job[e].pc = "hooks" /\ alive[e]
    /\ \E f \in job[e].hooks : \E left \in {{}, job[e].hooks \ {f}} :
          /\ SetJob(e, [job[e] EXCEPT !.hooks = left,
                                      !.pc = IF left = {} THEN "over" ELSE @])
          /\ \/ UNCHANGED reversed
             \/ rollback[e][f].local /\ reversed' = [reversed EXCEPT ![e][f] = @ + 1]
    /\ UNCHANGED <<vars, status, rollback, request>>

-----------------------------------------------------------------------------
(* compensate() and complete(): requests, retries and answers.              *)

Asking(e) == job[e].pc \in {"register", "complete"} /\ alive[e]

Submit(e, s) ==
    /\ Asking(e) /\ job[e].slot = NoSlot /\ request[s] = Free
    /\ \E local \in IF job[e].pc = "register" THEN Locals ELSE {FALSE} :
          request' = [request EXCEPT ![s] =
                        [pc |-> "received", op |-> job[e].pc, exec |-> e, fp |-> job[e].fp,
                         local |-> local, failed |-> job[e].outcome = "threw", todo |-> {},
                         found |-> {}, cur |-> AnyFp, carried |-> FALSE]]
    /\ SetJob(e, [job[e] EXCEPT !.slot = s])
    /\ UNCHANGED <<vars, status, rollback, reversed>>

\* compensate() and complete() swallow every error; complete() then has no
\* rollbacks to hand to the hooks.
Resume(r, hooks) ==
    [r EXCEPT !.tries = 0, !.slot = NoSlot, !.fp = AnyFp, !.hooks = hooks,
              !.pc = CASE r.pc = "register" -> "running"
                       [] r.pc = "complete" -> IF hooks = {} THEN "over" ELSE "hooks"]

\* Mutant of GivenUp: complete("SUCCESS") throws when it is given up, and
\* the catch block of withReplayGuard completes the execution as FAILED.
ThrowOnGiveUp(r) ==
    IF r.pc = "complete" /\ r.outcome = "value"
    THEN [r EXCEPT !.tries = 0, !.slot = NoSlot, !.outcome = "threw"]
    ELSE Resume(r, {})

GivenUp(r) == Resume(r, {})

\* Mutant of TryAgain: attempts are not counted.
TryForever(r) == [r EXCEPT !.slot = NoSlot]

\* Mutant of TryAgain: one attempt too many.
TryOnceMore(r) == IF r.tries <= MaxRetries THEN [r EXCEPT !.tries = @ + 1, !.slot = NoSlot]
                  ELSE GivenUp(r)

TryAgain(r) == IF r.tries < MaxRetries THEN [r EXCEPT !.tries = @ + 1, !.slot = NoSlot]
               ELSE GivenUp(r)

\* The API cannot be reached, the connection broke, or the request times out:
\* it was lost, or the API is still at it.
Repeat(e) ==
    /\ Asking(e)
    /\ \/ job[e].slot = Broken /\ UNCHANGED request
       \/ "network" \in Faults /\ job[e].slot \in Slots
          /\ \/ UNCHANGED request
             \/ /\ request[job[e].slot].pc = "received"
                /\ request' = [request EXCEPT ![job[e].slot] = Free]
    /\ SetJob(e, TryAgain(job[e]))
    /\ UNCHANGED <<vars, status, rollback, reversed>>

\* The API answers; whoever still waits goes on.
Reply(s, hooks) ==
    /\ request' = [request EXCEPT ![s] = Free]
    /\ job' = [e \in Execs |-> IF job[e].slot = s /\ alive[e]
                               THEN Resume(job[e], hooks) ELSE job[e]]

-----------------------------------------------------------------------------
(* POST /rollback/register: registerRollback.                               *)

\* The side effect must be in the ledger.
FindEffect(s) ==
    /\ In(s, "register", "received")
    /\ IF Exists(request[s].exec, request[s].fp)
       THEN request' = [request EXCEPT ![s].pc = "create"] /\ UNCHANGED job
       ELSE Reply(s, {})
    /\ UNCHANGED <<vars, status, rollback, reversed>>

\* A second row for the side effect violates the unique index.
CreateRollback(s) ==
    LET e == request[s].exec
        f == request[s].fp
    IN  /\ In(s, "register", "create")
        /\ IF rollback[e][f].status = "NONE"
           THEN rollback' = [rollback EXCEPT ![e][f] =
                               [status |-> "PENDING", local |-> request[s].local]]
           ELSE UNCHANGED rollback
        /\ Reply(s, {})
        /\ UNCHANGED <<vars, status, reversed>>

-----------------------------------------------------------------------------
(* PATCH /execution/:id: completeExecution and triggerRollbacks.            *)

UpdateExecution(s) ==
    /\ In(s, "complete", "received")
    /\ status' = [status EXCEPT ![request[s].exec] =
                    IF request[s].failed THEN "FAILED" ELSE "SUCCESS"]
    /\ IF request[s].failed
       THEN request' = [request EXCEPT ![s].pc = "find"] /\ UNCHANGED job
       ELSE Reply(s, {})
    /\ UNCHANGED <<vars, rollback, reversed>>

FindPending(s) ==
    LET found == Pending(request[s].exec)
    IN  /\ In(s, "complete", "find")
        /\ IF found = {} THEN Reply(s, {})
           ELSE /\ request' = [request EXCEPT ![s] =
                                 [@ EXCEPT !.pc = "fire", !.todo = found, !.found = found]]
                /\ UNCHANGED job
        /\ UNCHANGED <<vars, status, rollback, reversed>>

Attempted(s, f, carried) ==
    request' = [request EXCEPT ![s] = [@ EXCEPT !.pc = "mark", !.cur = f,
                                                !.todo = request[s].todo \ {f},
                                                !.carried = carried]]

\* Mutant of Fire: a failing call is taken for a success.
FireBlindly(s) ==
    /\ In(s, "complete", "fire")
    /\ \E f \in request[s].todo :
          /\ Attempted(s, f, TRUE)
          /\ \/ UNCHANGED reversed
             \/ /\ ~rollback[request[s].exec][f].local
                /\ reversed' = [reversed EXCEPT ![request[s].exec][f] = @ + 1]
    /\ UNCHANGED <<vars, job, status, rollback>>

\* Call the next target, if it is a URL; it may do its work and the call fail
\* all the same (its timeout is 5 seconds).
Fire(s) ==
    LET e == request[s].exec
    IN  /\ In(s, "complete", "fire")
        /\ \E f \in request[s].todo :
              \/ rollback[e][f].local /\ Attempted(s, f, TRUE) /\ UNCHANGED reversed
              \/ ~rollback[e][f].local /\ Attempted(s, f, FALSE) /\ UNCHANGED reversed
              \/ /\ ~rollback[e][f].local
                 /\ \E carried \in BOOLEAN : Attempted(s, f, carried)
                 /\ reversed' = [reversed EXCEPT ![e][f] = @ + 1]
        /\ UNCHANGED <<vars, job, status, rollback>>

\* COMPLETED or FAILED, by row id.
Mark(s) ==
    LET e == request[s].exec
    IN  /\ In(s, "complete", "mark")
        /\ rollback' = [rollback EXCEPT ![e][request[s].cur].status =
                          IF request[s].carried THEN "COMPLETED" ELSE "FAILED"]
        /\ IF request[s].todo = {} THEN Reply(s, request[s].found)
           ELSE request' = [request EXCEPT ![s].pc = "fire"] /\ UNCHANGED job
        /\ UNCHANGED <<vars, status, reversed>>

\* A database call fails: the request ends in an error, except for the update
\* to COMPLETED, whose failure is caught like one of the call.
SagaDatabaseFails(s) ==
    /\ "database" \in Faults
    /\ request[s] # Free /\ request[s].pc # "fire"
    /\ IF request[s].pc = "mark" /\ request[s].carried
       THEN request' = [request EXCEPT ![s].carried = FALSE] /\ UNCHANGED job
       ELSE Reply(s, {})
    /\ UNCHANGED <<vars, status, rollback, reversed>>

-----------------------------------------------------------------------------

\* The API process dies with everything in it.
SagaApiCrash ==
    /\ ApiCrash
    /\ request' = [s \in Slots |-> Free]
    /\ job' = [e \in Execs |-> IF job[e].slot \in Slots
                               THEN [job[e] EXCEPT !.slot = Broken] ELSE job[e]]
    /\ UNCHANGED <<status, rollback, reversed>>

SagaInit ==
    /\ Init
    /\ job = [e \in Execs |-> [pc |-> "off", outcome |-> "none", asked |-> {}, fp |-> AnyFp,
                               tries |-> 0, slot |-> NoSlot, hooks |-> {}]]
    /\ status = [e \in Execs |-> "NONE"]
    /\ rollback = [e \in Execs |-> [f \in Fps |-> NoRollback]]
    /\ request = [s \in Slots |-> Free]
    /\ reversed = [e \in Execs |-> [f \in Fps |-> 0]]

RunJob(e) ==
    \/ StartJob(e) \/ RunHook(e) \/ Repeat(e)
    \/ \E outcome \in {"value", "threw"} : EndJob(e, outcome)
    \/ \E s \in Slots : Submit(e, s)

ServeSlot(s) ==
    \/ FindEffect(s) \/ CreateRollback(s)
    \/ UpdateExecution(s) \/ FindPending(s) \/ Fire(s) \/ Mark(s)

SagaNext ==
    \/ \E e \in Execs : RunJob(e)
    \/ \E c \in Calls : Compensate(c) \/ \E opts \in Options : MakeCall(c, opts)
    \/ Proceed /\ UNCHANGED sagaVars
    \/ \E s \in Slots : ServeSlot(s) \/ SagaDatabaseFails(s)
    \/ SagaApiCrash

SagaSpec == SagaInit /\ [][SagaNext]_allVars

-----------------------------------------------------------------------------
(* Properties.                                                              *)

\* Shapes of the state.
SagaTypeOK ==
    /\ SDKTypeOK
    /\ job \in [Execs -> Job]
    /\ status \in [Execs -> {"NONE", "RUNNING", "SUCCESS", "FAILED"}]
    /\ rollback \in [Execs -> [Fps -> Rollback]]
    /\ request \in [Slots -> {Free} \cup RollbackRequest]
    /\ reversed \in [Execs -> [Fps -> Nat]]

\* What a job returned is what the API records, and nothing a job that
\* returned has done is reversed, although its completion is lost, retried or
\* answered too late.
OutcomeIsKept ==
    \A e \in Execs :
        /\ status[e] = "SUCCESS" => job[e].outcome = "value"
        /\ status[e] = "FAILED" \/ (\E f \in Fps : reversed[e][f] > 0)
              => job[e].outcome = "threw" /\ job[e].pc \in {"complete", "hooks", "over"}

\* A rollback the API records as COMPLETED has been carried out by its target.
CompletedWasReversed ==
    \A e \in Execs, f \in Fps :
        rollback[e][f].status = "COMPLETED" /\ ~rollback[e][f].local => reversed[e][f] > 0

\* A rollback is carried out at most once for each completion request the SDK
\* may send, however the API's handlers of these requests overlap.
ReversalsAreBounded ==
    \A e \in Execs, f \in Fps : reversed[e][f] <= MaxRetries + 1

-----------------------------------------------------------------------------
(* What the documentation says and the code does not keep.                  *)

\* The rollback of an effect "reverses side effects" of a FAILED attempt, and
\* what has not happened "runs": when an attempt succeeds, an operation it
\* relies on has taken effect more often than it was reversed.
SuccessIsInForce ==
    \A e \in Execs :
        job[e].pc = "over" /\ job[e].outcome = "value" =>
            \A c \in CallsOf(e) :
                \E d \in Execs : acts[d][FpOf(c)] > reversed[d][FpOf(c)]
=============================================================================
