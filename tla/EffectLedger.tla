---------------------------- MODULE EffectLedger ----------------------------
(***************************************************************************)
(* The execution ledger behind guard.effect() and guard.verify(): the rows *)
(* of GuardSideEffect for one project, and the API's request handlers      *)
(* (GuardsService.beginSideEffect, verifySideEffect, commitSideEffect,     *)
(* markUnknown, markFailed).                                               *)
(*                                                                         *)
(* No handler runs in a transaction: every awaited Prisma call is a step   *)
(* of its own, and the steps of handlers in flight interleave freely.  The *)
(* environment may call any endpoint for any execution at any time, as the *)
(* HTTP API allows; ReplayGuardSDK restricts it to what the SDK sends.     *)
(*                                                                         *)
(* Abstractions.  Metadata is the set of key groups it holds, so that a    *)
(* spread is a union.  findFirst orders by executedAt, which is not kept:  *)
(* the model lets it return any matching row.                              *)
(***************************************************************************)
EXTENDS Naturals, FiniteSets

CONSTANTS
    Execs,      \* guard executions (sessions) of the project
    Fps,        \* fingerprints of the guarded operations
    Handlers,   \* requests the API can have in flight
    Jobs,       \* (monitor, externalId) pairs; a null externalId is a job of its own
    JobOf,      \* the job an execution is an attempt of
    Endpoints   \* the endpoints the environment calls

EndpointNames == {"begin", "verify", "commit", "unknown", "failed"}

ASSUME LedgerAssumption ==
    /\ JobOf \in [Execs -> Jobs]
    /\ Endpoints \subseteq EndpointNames

VARIABLES
    row,        \* row[e][f]: the side effect of execution e with fingerprint f
    handler     \* handler[h]: the request in flight in slot h

ledgerVars == <<row, handler>>

-----------------------------------------------------------------------------
(* Rows.                                                                    *)

Recorded == {"INTENDED", "EXECUTING", "COMMITTED", "VERIFIED", "UNKNOWN",
             "FAILED", "AWAITING_APPROVAL", "COMPENSATED", "SKIPPED"}

FailureType == {"NULL", "TRANSIENT", "SEMANTIC"}

\* "result": what commit stored; "reason", "error": what unknown and failed
\* stored; "conflict": conflict flags; "origin": the note on a SKIPPED row;
\* "verification", "approval": what the recovery services append.
MetadataKeys == {"result", "reason", "error", "conflict", "origin",
                 "verification", "approval"}

Row == [status: Recorded \cup {"NONE"}, failureType: FailureType,
        receipt: BOOLEAN, metadata: SUBSET MetadataKeys]

NewRow(status, metadata) ==
    [status |-> status, failureType |-> "NULL", receipt |-> FALSE,
     metadata |-> metadata]

NoRow == NewRow("NONE", {})

Exists(e, f) == row[e][f].status # "NONE"

\* The executions whose row for f has one of the given statuses.
WithStatus(f, statuses) == {w \in Execs : row[w][f].status \in statuses}

Executing(f) == WithStatus(f, {"EXECUTING"})

\* Mutant of Finished: a row counts as done once its operation has ended.
Ended(f) == WithStatus(f, {"COMMITTED", "VERIFIED", "UNKNOWN", "FAILED"})

\* Mutant of Finished: only what a provider has confirmed counts.
Confirmed(f) == WithStatus(f, {"VERIFIED"})

\* searchCriteria of beginSideEffect: COMMITTED or VERIFIED, project-wide.
Finished(f) == WithStatus(f, {"COMMITTED", "VERIFIED"})

\* searchCriteria of verifySideEffect: COMMITTED only, in the whole project
\* or among the attempts of the same job.
VerifyMatches(e, f, scope) ==
    {w \in WithStatus(f, {"COMMITTED"}) : scope = "PROJECT" \/ JobOf[w] = JobOf[e]}

Store(e, f, r) == row' = [row EXCEPT ![e][f] = r]

-----------------------------------------------------------------------------
(* Requests and handlers.                                                   *)

Scope == {"MONITOR", "PROJECT"}

\* payload: commit carries a receipt, verify carries a result (the SDK always
\* sends the field, null when there is none).
Request == [op: EndpointNames, exec: Execs, fp: Fps, payload: BOOLEAN, scope: Scope]

Answers == {"none", "EXECUTE", "SKIP", "CONFLICT", "OK", "ERROR"}

BusyPc == {"received", "recordSkip", "mergeOwn", "conflict", "flagOther",
           "recordConflict", "insert", "p2002", "race", "done"}

Busy == [pc: BusyPc, req: Request, other: Execs, seen: SUBSET MetadataKeys,
         answer: Answers]

Idle == [pc |-> "idle"]

At(h, pc) == handler[h].pc = pc

Serves(h, op) == handler[h].req.op = op

Goto(h, pc) == handler' = [handler EXCEPT ![h].pc = pc]

\* Move on holding what a read returned: whose row it was and its metadata.
GotoWith(h, pc, other, seen) ==
    handler' = [handler EXCEPT ![h] = [@ EXCEPT !.pc = pc, !.other = other,
                                                !.seen = seen]]

\* The response is known; seen is the cachedResult of a SKIP.
Answer(h, answer, seen) ==
    handler' = [handler EXCEPT ![h] = [@ EXCEPT !.pc = "done", !.answer = answer,
                                                !.seen = seen]]
-----------------------------------------------------------------------------
(* POST /effect/begin: GuardsService.beginSideEffect.                       *)

\* Look for a COMMITTED or VERIFIED row of the fingerprint.
BeginDedup(h) ==
    LET e == handler[h].req.exec
        f == handler[h].req.fp
    IN  /\ At(h, "received") /\ Serves(h, "begin")
        /\ \/ /\ Finished(f) = {}
              /\ Goto(h, "conflict")
           \/ /\ e \in Finished(f)
              /\ Answer(h, "EXECUTE", {})
           \/ \E w \in Finished(f) \ {e} :
                 GotoWith(h, "recordSkip", w, row[w][f].metadata)
        /\ UNCHANGED row

\* Record the bypass in the current execution.  A second row for the same
\* (execution, fingerprint) violates the unique index and the request fails.
RecordSkip(h) ==
    LET e == handler[h].req.exec
        f == handler[h].req.fp
    IN  /\ At(h, "recordSkip")
        /\ \/ /\ ~Exists(e, f)
              /\ Store(e, f, NewRow("SKIPPED", {"origin"}))
              /\ Answer(h, "SKIP", handler[h].seen)
           \/ /\ Exists(e, f)
              /\ Answer(h, "ERROR", {})
              /\ UNCHANGED row

\* Look for another execution that is EXECUTING the fingerprint.
BeginConflict(h) ==
    LET e == handler[h].req.exec
        f == handler[h].req.fp
    IN  /\ At(h, "conflict")
        /\ \/ /\ Executing(f) \ {e} = {}
              /\ Goto(h, "insert")
           \/ \E w \in Executing(f) \ {e} :
                 GotoWith(h, "flagOther", w, row[w][f].metadata)
        /\ UNCHANGED row

\* Rewrite the other row's metadata from what was read of it, whatever that
\* row has become since.
FlagOther(h) ==
    LET w == handler[h].other
        f == handler[h].req.fp
    IN  /\ At(h, "flagOther")
        /\ Store(w, f, [row[w][f] EXCEPT !.metadata = handler[h].seen \cup {"conflict"}])
        /\ Goto(h, "recordConflict")

\* Record the halted attempt as FAILED and answer 409.
RecordConflict(h) ==
    LET e == handler[h].req.exec
        f == handler[h].req.fp
    IN  /\ At(h, "recordConflict")
        /\ \/ /\ ~Exists(e, f)
              /\ Store(e, f, NewRow("FAILED", {"conflict"}))
              /\ Answer(h, "CONFLICT", {})
           \/ /\ Exists(e, f)
              /\ Answer(h, "ERROR", {})
              /\ UNCHANGED row

\* Mutant of MayExecute: no partial index on EXECUTING rows.
MayInsert(e, f) == ~Exists(e, f)

\* The unique index on (executionId, fingerprint) and the partial one on
\* (fingerprint, projectId) WHERE status = 'EXECUTING'.
MayExecute(e, f) == ~Exists(e, f) /\ Executing(f) = {}

\* Mutant of InsertExecuting: the row is upserted.
UpsertExecuting(h) ==
    LET e == handler[h].req.exec
        f == handler[h].req.fp
    IN  /\ At(h, "insert") /\ Serves(h, "begin")
        /\ \/ /\ Executing(f) \ {e} = {}
              /\ Store(e, f, NewRow("EXECUTING", {}))
              /\ Answer(h, "EXECUTE", {})
           \/ /\ Executing(f) \ {e} # {}
              /\ Goto(h, "p2002")
              /\ UNCHANGED row

InsertExecuting(h) ==
    LET e == handler[h].req.exec
        f == handler[h].req.fp
    IN  /\ At(h, "insert") /\ Serves(h, "begin")
        /\ \/ /\ MayExecute(e, f)
              /\ Store(e, f, NewRow("EXECUTING", {}))
              /\ Answer(h, "EXECUTE", {})
           \/ /\ ~MayExecute(e, f)
              /\ Goto(h, "p2002")
              /\ UNCHANGED row

\* After a unique violation: is somebody else EXECUTING?
ViolationConflict(h) ==
    LET e == handler[h].req.exec
        f == handler[h].req.fp
    IN  /\ At(h, "p2002")
        /\ \/ /\ Executing(f) \ {e} # {}
              /\ Answer(h, "CONFLICT", {})
           \/ /\ Executing(f) \ {e} = {}
              /\ Goto(h, "race")
        /\ UNCHANGED row

\* Mutant of ViolationSkip: when nobody has finished the operation, run it.
ViolationExecute(h) ==
    LET req == handler[h].req
    IN  /\ At(h, "race")
        /\ \/ /\ Finished(req.fp) = {}
              /\ Answer(h, "EXECUTE", {})
           \/ \E w \in Finished(req.fp) : Answer(h, "SKIP", row[w][req.fp].metadata)
        /\ UNCHANGED row

\* ... and otherwise answer SKIP, with the metadata of a finished row if the
\* search finds one now, with a default message if it does not.
ViolationSkip(h) ==
    LET req     == handler[h].req
        matches == IF req.op = "begin" THEN Finished(req.fp)
                   ELSE VerifyMatches(req.exec, req.fp, req.scope)
    IN  /\ At(h, "race")
        /\ \/ /\ matches = {}
              /\ Answer(h, "SKIP", {})
           \/ \E w \in matches : Answer(h, "SKIP", row[w][req.fp].metadata)
        /\ UNCHANGED row

-----------------------------------------------------------------------------
(* POST /verify: GuardsService.verifySideEffect (guard.verify, guard.fetch, *)
(* and reportResult), for operations other than STATE_SNAPSHOT.             *)

VerifyDedup(h) ==
    LET req     == handler[h].req
        matches == VerifyMatches(req.exec, req.fp, req.scope)
    IN  /\ At(h, "received") /\ Serves(h, "verify")
        /\ \/ /\ matches = {}
              /\ Goto(h, "insert")
           \/ /\ req.exec \in matches
              /\ GotoWith(h, "mergeOwn", req.exec, row[req.exec][req.fp].metadata)
           \/ \E w \in matches \ {req.exec} :
                 GotoWith(h, "recordSkip", w, row[w][req.fp].metadata)
        /\ UNCHANGED row

\* The metadata a verify request brings.
Reported(req) == IF req.payload THEN {"result"} ELSE {}

\* The execution reports its result: merge it into its own row.
MergeOwn(h) ==
    LET e == handler[h].req.exec
        f == handler[h].req.fp
    IN  /\ At(h, "mergeOwn")
        /\ Store(e, f, [row[e][f] EXCEPT !.metadata =
                            handler[h].seen \cup Reported(handler[h].req)])
        /\ Answer(h, "EXECUTE", {})

\* The row is written COMMITTED before the caller runs the operation.
InsertCommitted(h) ==
    LET e == handler[h].req.exec
        f == handler[h].req.fp
    IN  /\ At(h, "insert") /\ Serves(h, "verify")
        /\ \/ /\ ~Exists(e, f)
              /\ Store(e, f, NewRow("COMMITTED", Reported(handler[h].req)))
              /\ Answer(h, "EXECUTE", {})
           \/ /\ Exists(e, f)
              /\ Goto(h, "race")
              /\ UNCHANGED row

-----------------------------------------------------------------------------
(* POST /effect/commit, /effect/unknown, /effect/failed: an update of the   *)
(* caller's row whatever its status; without a row Prisma throws.           *)

Update(h, op, r) ==
    LET e == handler[h].req.exec
        f == handler[h].req.fp
    IN  /\ At(h, "received") /\ Serves(h, op)
        /\ \/ /\ Exists(e, f)
              /\ Store(e, f, r)
              /\ Answer(h, "OK", {})
           \/ /\ ~Exists(e, f)
              /\ Answer(h, "ERROR", {})
              /\ UNCHANGED row

RowOf(h) == row[handler[h].req.exec][handler[h].req.fp]

CommitSideEffect(h) ==
    Update(h, "commit", [RowOf(h) EXCEPT !.status = "COMMITTED", !.metadata = {"result"},
                                         !.receipt = handler[h].req.payload])

\* Mutant of MarkUnknown: a status outside the schema's enum.
MarkTimedOut(h) ==
    Update(h, "unknown", [RowOf(h) EXCEPT !.status = "TIMED_OUT", !.metadata = {"reason"}])

MarkUnknown(h) ==
    Update(h, "unknown", [RowOf(h) EXCEPT !.status = "UNKNOWN", !.metadata = {"reason"}])

MarkFailed(h) ==
    Update(h, "failed", [RowOf(h) EXCEPT !.status = "FAILED", !.metadata = {"error"}])

-----------------------------------------------------------------------------

\* A request reaches the API.
Receive(h, req) ==
    /\ At(h, "idle")
    /\ handler' = [handler EXCEPT ![h] =
                      [pc |-> "received", req |-> req, other |-> req.exec,
                       seen |-> {}, answer |-> "none"]]
    /\ UNCHANGED row

\* The response leaves the API.
Respond(h) ==
    /\ At(h, "done")
    /\ handler' = [handler EXCEPT ![h] = Idle]
    /\ UNCHANGED row

\* Requests are lost on their way, or the API process dies between two of
\* their database calls.
Vanish(slots) ==
    /\ handler' = [h \in Handlers |-> IF h \in slots THEN Idle ELSE handler[h]]
    /\ UNCHANGED row

\* A database call fails, before or after it took effect, and the route's
\* catch answers 500; what the handler wrote before stays.
DatabaseFails(h) ==
    /\ ~At(h, "idle")
    /\ Answer(h, "ERROR", {})
    /\ UNCHANGED row

\* The next database call of the request in slot h.
Serve(h) ==
    \/ BeginDedup(h) \/ RecordSkip(h) \/ BeginConflict(h) \/ FlagOther(h)
    \/ RecordConflict(h) \/ InsertExecuting(h)
    \/ ViolationConflict(h) \/ ViolationSkip(h)
    \/ VerifyDedup(h) \/ MergeOwn(h) \/ InsertCommitted(h)
    \/ CommitSideEffect(h) \/ MarkUnknown(h) \/ MarkFailed(h)

LedgerInit ==
    /\ row = [e \in Execs |-> [f \in Fps |-> NoRow]]
    /\ handler = [h \in Handlers |-> Idle]

\* What a caller may send; the fields an endpoint does not read are fixed.
Callable ==
    {req \in Request :
        /\ req.op \in Endpoints
        /\ req.op \notin {"commit", "verify"} => ~req.payload
        /\ req.op # "verify" => req.scope = "PROJECT"}

LedgerNext ==
    \/ \E h \in Handlers :
        \/ \E req \in Callable : Receive(h, req)
        \/ Serve(h)
        \/ DatabaseFails(h)
        \/ Respond(h)
    \/ \E slots \in SUBSET Handlers : Vanish(slots)

LedgerSpec == LedgerInit /\ [][LedgerNext]_ledgerVars

-----------------------------------------------------------------------------
(* Properties of the ledger, whatever its callers do.                       *)

\* Every row and every handler has the shape the schema and the code give it.
LedgerTypeOK ==
    /\ row \in [Execs -> [Fps -> Row]]
    /\ handler \in [Handlers -> {Idle} \cup Busy]

\* At most one execution of the project holds the EXECUTING claim on a
\* fingerprint, however the check-then-insert steps of concurrent begins
\* interleave (beginSideEffect and the partial unique index).
OneExecuting ==
    \A f \in Fps : \A e1, e2 \in Executing(f) : e1 = e2

\* Nobody is told to EXECUTE before the ledger holds a row of that execution
\* for the operation: a begin or verify that wins leaves a trace that every
\* later recovery can find.
GrantIsRecorded ==
    \A h \in Handlers :
        At(h, "done") /\ handler[h].answer = "EXECUTE"
            => Exists(handler[h].req.exec, handler[h].req.fp)

\* The claim is taken once: a row that left EXECUTING never returns to it, and
\* no row is ever deleted or its claim re-taken by a retried begin.
ClaimIsTakenOnce ==
    [][\A e \in Execs, f \in Fps :
          /\ Exists(e, f) => Exists(e, f)'
          /\ row'[e][f].status = "EXECUTING" => row[e][f].status \in {"NONE", "EXECUTING"}
      ]_ledgerVars
=============================================================================
