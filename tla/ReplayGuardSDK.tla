--------------------------- MODULE ReplayGuardSDK ---------------------------
(***************************************************************************)
(* guard.effect() of the TypeScript SDK (and its Python twin), over an     *)
(* unreliable network, against EffectLedger: the begin / execute / commit  *)
(* protocol, its request timeouts and retries, the operation timeout that  *)
(* races the operation, the fail policy, the local cache, and crashes of   *)
(* the guarded process and of the API process.                             *)
(*                                                                         *)
(* A call is one invocation of guard.effect().  An execution has one SDK   *)
(* instance, hence one local cache; here it has its session already        *)
(* (WorkflowRecovery adds start(), and with it calls without a session).   *)
(***************************************************************************)
EXTENDS EffectLedger

CONSTANTS
    Calls,          \* invocations of guard.effect()
    CallFor,        \* CallFor[c]: the execution and the fingerprint of call c
    Options,        \* the option records callers pass
    FailPolicy,     \* FailPolicy[e]: "OPEN" or "CLOSED", as e's process is configured
    MaxRetries,     \* network.maxRetries (3 by default)
    Faults          \* which of "crash", "apiCrash", "network", "database" may happen

\* timeoutMs > 0, markFailedAsUnknown, and whether receipt() is given.
OptionSet == [timed: BOOLEAN, failedAsUnknown: BOOLEAN, receipt: BOOLEAN]

\* Nothing in flight; a connection broken by the death of the API process.
NoSlot == "noSlot"
Broken == "broken"

ASSUME SDKAssumption ==
    /\ CallFor \in [Calls -> [exec: Execs, fp: Fps]]
    /\ Options \subseteq OptionSet
    /\ FailPolicy \in [Execs -> {"OPEN", "CLOSED"}]
    /\ MaxRetries \in Nat
    /\ {NoSlot, Broken} \cap Handlers = {}
    /\ Faults \subseteq {"crash", "apiCrash", "network", "database"}

VARIABLES
    call,           \* call[c]: where the invocation is
    alive,          \* alive[e]: the process running execution e has not died
    cache,          \* cache[e]: localCache of e's SDK instance
    acts            \* acts[e][f]: how often operation f took effect for e

clientVars == <<call, alive, cache, acts>>
vars == <<row, handler, call, alive, cache, acts>>

-----------------------------------------------------------------------------
(* State of an invocation.                                                  *)

\* begin, commit, mark: a request to send or in flight; await: the operation
\* runs under guard; open: it runs unguarded.
CallPc == {"begin", "await", "open", "commit", "mark", "settled", "dead"}

Results == {"none", "value", "cached", "conflict", "threw", "timedOut", "unavailable"}

Lambda == {"none", "running", "acted", "ended"}

\* known is history: the fingerprint's statuses in other executions when the
\* call started.
CallState == [pc: CallPc, opts: OptionSet, tries: 0..MaxRetries,
              slot: Handlers \cup {NoSlot, Broken},
              lambda: Lambda, result: Results, value: SUBSET MetadataKeys,
              known: SUBSET Recorded]

NotStarted == [pc |-> "idle"]

Started(c) == call[c].pc # "idle"
Settled(c) == Started(c) /\ call[c].result # "none"

Miss == [hit |-> FALSE, value |-> {}]

ExecOf(c) == CallFor[c].exec
FpOf(c) == CallFor[c].fp

\* The handler slots whose response some call still waits for.
Awaited == {call[c].slot : c \in {d \in Calls : Started(d)}} \ {NoSlot, Broken}

\* What a call becomes.
InPhase(r, pc) == [r EXCEPT !.pc = pc, !.tries = 0, !.slot = NoSlot]
Finish(r, result, value) ==
    [InPhase(r, "settled") EXCEPT !.result = result, !.value = value]
Running(r, pc) == [InPhase(r, pc) EXCEPT !.lambda = "running"]

\* Mutant of Unavailable: the fail policy is not looked at.
RunAnyway(c) == Running(call[c], "open")

\* effect.begin failed: fail closed, or run without ledger tracking.
Unavailable(c) == IF FailPolicy[ExecOf(c)] = "CLOSED"
                  THEN Finish(call[c], "unavailable", {}) ELSE Running(call[c], "open")

\* A mark request is over; a timed-out call has rejected already.
Marked(r) == Finish(r, IF r.result = "none" THEN "threw" ELSE r.result, {})

Become(c, r) == call' = [call EXCEPT ![c] = r]

Remember(c, value) ==
    cache' = [cache EXCEPT ![ExecOf(c)][FpOf(c)] = [hit |-> TRUE, value |-> value]]

-----------------------------------------------------------------------------
(* Starting.                                                                *)

Fresh(opts, known) ==
    [pc |-> "begin", opts |-> opts, tries |-> 0, slot |-> NoSlot,
     lambda |-> "none", result |-> "none", value |-> {}, known |-> known]

KnownBy(c) == {row[w][FpOf(c)].status : w \in Execs \ {ExecOf(c)}} \ {"NONE"}

Invoke(c, r) ==
    /\ ~Started(c) /\ alive[ExecOf(c)]
    /\ Become(c, r)
    /\ UNCHANGED <<row, handler, alive, cache, acts>>

\* effect() is invoked: a local cache hit returns at once.
Start(c, opts) ==
    LET memory == cache[ExecOf(c)][FpOf(c)]
        r      == Fresh(opts, KnownBy(c))
    IN  Invoke(c, IF memory.hit THEN Finish(r, "cached", memory.value) ELSE r)

\* effect() without a session runs the operation, unguarded.
StartBare(c, opts) == Invoke(c, Running(Fresh(opts, KnownBy(c)), "open"))

-----------------------------------------------------------------------------
(* _fetchWithRetry: one attempt at a time, each aborted after a timeout.    *)

MarkOp(r) == IF r.result = "timedOut" \/ r.opts.failedAsUnknown THEN "unknown" ELSE "failed"

OpOf(r) == IF r.pc = "mark" THEN MarkOp(r) ELSE r.pc

RequestOf(c) ==
    [op |-> OpOf(call[c]), exec |-> ExecOf(c), fp |-> FpOf(c),
     payload |-> call[c].pc = "commit" /\ call[c].opts.receipt, scope |-> "PROJECT"]

Sending(c) == Started(c) /\ call[c].pc \in {"begin", "commit", "mark"}

\* The request goes out and will reach the API.
Send(c, h) ==
    /\ Sending(c) /\ call[c].slot = NoSlot
    /\ Receive(h, RequestOf(c))
    /\ Become(c, [call[c] EXCEPT !.slot = h])
    /\ UNCHANGED <<alive, cache, acts>>

\* The attempts are used up.
GiveUp(c) ==
    /\ Become(c, CASE call[c].pc = "begin"  -> Unavailable(c)
                   [] call[c].pc = "commit" -> Finish(call[c], "value", {"result"})
                   [] call[c].pc = "mark"   -> Marked(call[c]))
    /\ IF call[c].pc = "commit" THEN Remember(c, {"result"}) ELSE UNCHANGED cache

\* Mutant of AttemptFailed: one attempt too many.
OneTooMany(c) ==
    \/ /\ call[c].tries <= MaxRetries
       /\ Become(c, [call[c] EXCEPT !.tries = @ + 1, !.slot = NoSlot])
       /\ UNCHANGED cache
    \/ /\ call[c].tries = MaxRetries + 1
       /\ GiveUp(c)

\* Mutant of AttemptFailed: attempts are not counted.
RetryForever(c) ==
    /\ Become(c, [call[c] EXCEPT !.slot = NoSlot])
    /\ UNCHANGED cache

\* fetch threw: try again, or give up.
AttemptFailed(c) ==
    \/ /\ call[c].tries < MaxRetries
       /\ Become(c, [call[c] EXCEPT !.tries = @ + 1, !.slot = NoSlot])
       /\ UNCHANGED cache
    \/ /\ call[c].tries = MaxRetries
       /\ GiveUp(c)

\* The API cannot be reached.
Refused(c) ==
    /\ "network" \in Faults
    /\ Sending(c) /\ call[c].slot = NoSlot
    /\ AttemptFailed(c)
    /\ UNCHANGED <<row, handler, alive, acts>>

\* The request times out (it was lost on its way, or the API is still at it,
\* or has answered, and nobody will read the response), or the connection
\* broke.
Abort(c) ==
    /\ Sending(c)
    /\ \/ /\ call[c].slot = Broken
          /\ UNCHANGED handler
       \/ /\ "network" \in Faults /\ call[c].slot \in Handlers
          /\ \/ UNCHANGED handler
             \/ At(call[c].slot, "received") /\ Vanish({call[c].slot})
    /\ AttemptFailed(c)
    /\ UNCHANGED <<row, alive, acts>>

-----------------------------------------------------------------------------
(* Responses.                                                               *)

Answered(c, pc, answers) ==
    /\ Started(c) /\ call[c].pc = pc /\ call[c].slot \in Handlers
    /\ At(call[c].slot, "done")
    /\ handler[call[c].slot].answer \in answers
    /\ Respond(call[c].slot)
    /\ UNCHANGED <<alive, acts>>

BeginExecute(c) ==
    /\ Answered(c, "begin", {"EXECUTE"})
    /\ Become(c, Running(call[c], "await"))
    /\ UNCHANGED cache

BeginSkip(c) ==
    /\ Answered(c, "begin", {"SKIP"})
    /\ Become(c, Finish(call[c], "cached", handler[call[c].slot].seen))
    /\ Remember(c, handler[call[c].slot].seen)

BeginRefused(c) ==
    /\ Answered(c, "begin", {"CONFLICT"})
    /\ Become(c, Finish(call[c], "conflict", {}))
    /\ UNCHANGED cache

BeginError(c) ==
    /\ Answered(c, "begin", {"ERROR"})
    /\ Become(c, Unavailable(c))
    /\ UNCHANGED cache

\* A non-ok response to commit is only logged.
CommitDone(c) ==
    /\ Answered(c, "commit", {"OK", "ERROR"})
    /\ Become(c, Finish(call[c], "value", {"result"}))
    /\ Remember(c, {"result"})

MarkDone(c) ==
    /\ Answered(c, "mark", {"OK", "ERROR"})
    /\ Become(c, Marked(call[c]))
    /\ UNCHANGED cache

-----------------------------------------------------------------------------
(* The operation.                                                           *)

\* The provider carries out the operation.
Act(c) ==
    /\ Started(c) /\ call[c].lambda = "running"
    /\ Become(c, [call[c] EXCEPT !.lambda = "acted"])
    /\ acts' = [acts EXCEPT ![ExecOf(c)][FpOf(c)] = @ + 1]
    /\ UNCHANGED <<row, handler, alive, cache>>

\* Mutant of Return: an operation that ends after its timer fired still commits.
ReturnLate(c) ==
    /\ Started(c) /\ call[c].lambda = "acted"
    /\ LET r == [call[c] EXCEPT !.lambda = "ended"]
       IN  Become(c, IF r.pc = "open" THEN Finish(r, "value", {"result"})
                     ELSE InPhase(r, "commit"))
    /\ UNCHANGED <<row, handler, alive, cache, acts>>

\* execute() resolves; if the timer has fired before, nobody listens.
Return(c) ==
    /\ Started(c) /\ call[c].lambda = "acted"
    /\ LET r == [call[c] EXCEPT !.lambda = "ended"]
       IN  Become(c, CASE r.pc = "await" -> InPhase(r, "commit")
                       [] r.pc = "open"  -> Finish(r, "value", {"result"})
                       [] OTHER          -> r)
    /\ UNCHANGED <<row, handler, alive, cache, acts>>

\* receipt() throws: effect() rejects, and neither commits nor marks the row.
ReceiptThrows(c) ==
    /\ Started(c) /\ call[c].lambda = "acted"
    /\ call[c].pc = "await" /\ call[c].opts.receipt
    /\ Become(c, [Finish(call[c], "threw", {}) EXCEPT !.lambda = "ended"])
    /\ UNCHANGED <<row, handler, alive, cache, acts>>

\* Mutant of Throw: the error is swallowed and undefined committed.
ThrowCommits(c) ==
    /\ Started(c) /\ call[c].lambda \in {"running", "acted"}
    /\ LET r == [call[c] EXCEPT !.lambda = "ended"]
       IN  Become(c, CASE r.pc = "await" -> InPhase(r, "commit")
                       [] r.pc = "open"  -> Finish(r, "threw", {})
                       [] OTHER          -> r)
    /\ UNCHANGED <<row, handler, alive, cache, acts>>

\* execute() rejects, before or after the provider acted.
Throw(c) ==
    /\ Started(c) /\ call[c].lambda \in {"running", "acted"}
    /\ LET r == [call[c] EXCEPT !.lambda = "ended"]
       IN  Become(c, CASE r.pc = "await" -> InPhase(r, "mark")
                       [] r.pc = "open"  -> Finish(r, "threw", {})
                       [] OTHER          -> r)
    /\ UNCHANGED <<row, handler, alive, cache, acts>>

\* The timer of _withOperationTimeout fires first: effect() rejects with
\* EffectTimeoutError, the mark request goes out in the background, and the
\* operation keeps running.
OperationTimeout(c) ==
    /\ Started(c) /\ call[c].pc = "await" /\ call[c].opts.timed
    /\ Become(c, [InPhase(call[c], "mark") EXCEPT !.result = "timedOut"])
    /\ UNCHANGED <<row, handler, alive, cache, acts>>

-----------------------------------------------------------------------------
(* Crashes.                                                                 *)

\* The guarded process dies; what it has sent may still be processed.
Crash(e) ==
    /\ "crash" \in Faults /\ alive[e]
    /\ alive' = [alive EXCEPT ![e] = FALSE]
    /\ call' = [c \in Calls |->
                  IF ExecOf(c) = e /\ Started(c) /\ call[c].pc # "settled"
                  THEN [InPhase(call[c], "dead") EXCEPT !.lambda = "none"]
                  ELSE IF ExecOf(c) = e /\ Started(c)
                  THEN [call[c] EXCEPT !.lambda = "none"]
                  ELSE call[c]]
    /\ UNCHANGED <<row, handler, cache, acts>>

\* The API process dies between two database calls of its handlers; the
\* connections of the waiting calls break.
ApiCrash ==
    /\ "apiCrash" \in Faults
    /\ Vanish(Handlers)
    /\ call' = [c \in Calls |->
                  IF Started(c) /\ call[c].slot \in Handlers
                  THEN [call[c] EXCEPT !.slot = Broken] ELSE call[c]]
    /\ UNCHANGED <<alive, cache, acts>>

-----------------------------------------------------------------------------

ServeOne(h) == Serve(h) /\ UNCHANGED clientVars

FailOne(h) == "database" \in Faults /\ DatabaseFails(h) /\ UNCHANGED clientVars

\* The response to a request that nobody waits for any more.
RespondToNobody(h) ==
    h \notin Awaited /\ Respond(h) /\ UNCHANGED clientVars

Responses(c) ==
    \/ BeginExecute(c) \/ BeginSkip(c) \/ BeginRefused(c) \/ BeginError(c)
    \/ CommitDone(c) \/ MarkDone(c)

\* The next step of a request the call has to make.
Attempt(c) ==
    \/ Refused(c) \/ Abort(c) \/ Responses(c)
    \/ \E h \in Handlers : Send(c, h)

Init ==
    /\ LedgerInit
    /\ call = [c \in Calls |-> NotStarted]
    /\ alive = [e \in Execs |-> TRUE]
    /\ cache = [e \in Execs |-> [f \in Fps |-> Miss]]
    /\ acts = [e \in Execs |-> [f \in Fps |-> 0]]

\* Everything but the start of a call and the death of the API.
Proceed ==
    \/ \E c \in Calls :
        \/ Attempt(c) \/ Act(c) \/ Return(c) \/ ReceiptThrows(c) \/ Throw(c)
        \/ OperationTimeout(c)
    \/ \E h \in Handlers : ServeOne(h) \/ FailOne(h) \/ RespondToNobody(h)
    \/ \E e \in Execs : Crash(e)

Next ==
    \/ \E c \in Calls, opts \in Options : Start(c, opts)
    \/ Proceed
    \/ ApiCrash

Spec == Init /\ [][Next]_vars

(***************************************************************************)
(* Fairness.  The SDK's own timers fire: a request in flight is aborted    *)
(* (network.timeoutMs) unless its response comes first, a failed attempt   *)
(* is followed by the next, and a timed operation is given up.  Operations *)
(* without a timer (timeoutMs: 0, or run unguarded) are assumed to end;    *)
(* a timed one may hang for good, and so may the API.                      *)
(***************************************************************************)
UntimedEnds(c) ==
    /\ Started(c)
    /\ call[c].pc = "open" \/ ~call[c].opts.timed
    /\ Return(c) \/ ReceiptThrows(c) \/ Throw(c)

Fairness ==
    \A c \in Calls :
        /\ WF_vars(Attempt(c))
        /\ WF_vars(OperationTimeout(c))
        /\ WF_vars(UntimedEnds(c))

FairSpec == Spec /\ Fairness

-----------------------------------------------------------------------------
(* Properties.                                                              *)

\* Shapes of the client's state.
SDKTypeOK ==
    /\ LedgerTypeOK
    /\ call \in [Calls -> {NotStarted} \cup CallState]
    /\ alive \in [Execs -> BOOLEAN]
    /\ cache \in [Execs -> [Fps -> [hit: BOOLEAN, value: SUBSET MetadataKeys]]]
    /\ acts \in [Execs -> [Fps -> Nat]]

\* Two executions never run the same operation under guard at the same time:
\* while a call awaits its operation, retried begins, lost responses and
\* begins of other executions cannot take its EXECUTING claim away.
RunsExclusively ==
    \A c, d \in Calls :
        /\ c # d /\ Started(c) /\ Started(d)
        /\ call[c].pc = "await" /\ call[d].pc = "await"
        => FpOf(c) # FpOf(d)

\* Under failPolicy CLOSED, an operation some other execution had COMMITTED
\* when effect() was called does not take effect again, whatever is lost,
\* retried or crashes meanwhile.
CommittedNeverRepeats ==
    \A c \in Calls :
        FailPolicy[ExecOf(c)] = "CLOSED" /\ Started(c) /\ "COMMITTED" \in call[c].known
            => call[c].lambda = "none"

\* effect() hands back metadata of an earlier run only if the operation did
\* take effect.
CachedWasDone ==
    \A c \in Calls :
        Started(c) /\ call[c].result = "cached" /\ call[c].value # {}
            => \E e \in Execs : acts[e][FpOf(c)] > 0

\* The statuses the routes document: EXECUTING leads to COMMITTED, UNKNOWN or
\* FAILED, and these are final; a late, duplicated or retried request never
\* moves a row again.
LifecycleIsForward ==
    [][\A e \in Execs, f \in Fps :
          row'[e][f].status # row[e][f].status =>
              \/ row[e][f].status = "NONE"
              \/ /\ row[e][f].status = "EXECUTING"
                 /\ row'[e][f].status \in {"COMMITTED", "UNKNOWN", "FAILED"}
      ]_vars

\* effect() returns or throws even if the API never answers, unless its own
\* process dies.
EffectSettles ==
    \A c \in Calls : Started(c) ~> (Settled(c) \/ ~alive[ExecOf(c)])

-----------------------------------------------------------------------------
(* What the documentation says and the code does not keep.                  *)

\* Duplicate operations are blocked before they happen: at most one execution
\* of the project runs an operation to its COMMITTED end.
CommittedOnce ==
    \A f \in Fps : \A d, e \in WithStatus(f, {"COMMITTED"}) : d = e
=============================================================================
