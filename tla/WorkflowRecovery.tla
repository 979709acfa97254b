-------------------------- MODULE WorkflowRecovery --------------------------
(***************************************************************************)
(* The recovery side of the ledger, composed with the SDK calls that fill  *)
(* it: verification passes over UNKNOWN rows (the background worker, the   *)
(* dashboard's button, reconcile and resume), the continuation plan, human *)
(* approval, and the session gate the plan guards.                         *)
(*                                                                         *)
(* A pass works through rows it read once.  Every later write goes by row  *)
(* id, whatever the row has become, and passes, approvals, sessions and    *)
(* the calls of running executions interleave between any two of them.     *)
(***************************************************************************)
EXTENDS ReplayGuardSDK

CONSTANTS
    Workflow,       \* the executions started under the workflow being recovered
    Passes          \* recovery requests the API can have in flight

\* An execution is told from the other purposes of a pass by what it is.
ASSUME RecoveryAssumption ==
    /\ Workflow \subseteq Execs
    /\ {"worker", "reconcile", "resume"} \cap Execs = {}

VARIABLES
    pass,           \* pass[p]: the recovery request in slot p
    session,        \* session[e]: what guard.start() of execution e came to
    past,           \* history: past[e][f]: the statuses the row has had
    blockers        \* history: the rows that have blocked the workflow ever since
                    \* e last asked for a session

recoveryVars == <<pass, session>>
allVars == <<row, handler, call, alive, cache, acts, pass, session, past, blockers>>

-----------------------------------------------------------------------------

\* A row as it was read.
Seen == [exec: Execs, fp: Fps, row: Row]

RowsSeen(es) == {[exec |-> e, fp |-> f, row |-> row[e][f]] : e \in es, f \in Fps}

Unknown(es) == {s \in RowsSeen(es) : s.row.status = "UNKNOWN"}

\* Why a request runs: a verification pass, resume, or a session for an
\* execution.
Purposes == {"worker", "reconcile", "resume"} \cup Execs

\* What the built-in verifiers conclude (none of them says TRANSIENT).
Conclusions == {"VERIFIED", "FAILED"}

Verdicts == {"CAN_RESUME", "BLOCKED", "COMPLETED"}

NoPass == [pc |-> "idle"]

PassState ==
    {NoPass}
    \cup [pc: {"check"}, why: Purposes, todo: SUBSET Seen]
    \cup [pc: {"apply"}, why: Purposes, todo: SUBSET Seen, cur: Seen, found: Conclusions]
    \cup [pc: {"plan", "create"}, why: Purposes]
    \cup [pc: {"block"}, why: Purposes, todo: SUBSET Seen, verdict: Verdicts]
    \cup [pc: {"approve"}, cur: Seen]

PassAt(p, pc) == pass[p].pc = pc

BecomePass(p, r) == pass' = [pass EXCEPT ![p] = r]

\* Mutant of NeedsHuman: the failure type outlives the failure, the status does not.
NeedsHumanByType(r) ==
    r.failureType = "SEMANTIC" \/ (r.status = "FAILED" /\ r.failureType # "TRANSIENT")

\* A semantic failure, or one nobody classified, needs a human.
NeedsHuman(r) == r.status = "FAILED" /\ r.failureType # "TRANSIENT"

Blocks(r) == r.status \in {"UNKNOWN", "AWAITING_APPROVAL"} \/ NeedsHuman(r)

RowUpdate(s, r) == Store(s.exec, s.fp, r) /\ UNCHANGED <<handler, clientVars>>

RestOfAll == UNCHANGED <<row, handler, call, alive, cache, acts>>

-----------------------------------------------------------------------------
(* Verification passes (VerificationService).                               *)

\* The worker never overlaps itself; it takes the rows older than its grace
\* period, in batches: some of the UNKNOWN rows of the project.
StartWorkerPass(p) ==
    /\ PassAt(p, "idle")
    /\ \A q \in Passes : PassAt(q, "check") \/ PassAt(q, "apply") => pass[q].why # "worker"
    /\ \E todo \in SUBSET Unknown(Execs) :
          /\ todo # {}
          /\ BecomePass(p, [pc |-> "check", why |-> "worker", todo |-> todo])
    /\ RestOfAll /\ UNCHANGED session

\* The dashboard's pass over an execution, reconcile's over the workflow, and
\* resume's, which goes on to the plan.
StartPass(p, why, es) ==
    /\ PassAt(p, "idle")
    /\ Unknown(es) # {} \/ why = "resume"
    /\ BecomePass(p, [pc |-> "check", why |-> why, todo |-> Unknown(es)])
    /\ RestOfAll /\ UNCHANGED session

\* Mutant of ProviderMay: a verifier concludes without a receipt.
ProviderGuesses(s, found) == s.row.status = "UNKNOWN"

\* A provider can tell what became of an operation only with its receipt; it
\* confirms no operation that did not take effect.
ProviderMay(s, found) ==
    /\ s.row.receipt
    /\ found = "VERIFIED" => acts[s.exec][s.fp] > 0

\* Ask the provider about the next row; without an answer it stays UNKNOWN.
CheckProvider(p) ==
    /\ PassAt(p, "check")
    /\ \E s \in pass[p].todo :
          \/ BecomePass(p, [pass[p] EXCEPT !.todo = @ \ {s}])
          \/ \E found \in Conclusions :
                /\ ProviderMay(s, found)
                /\ BecomePass(p, [pc |-> "apply", why |-> pass[p].why,
                                  todo |-> pass[p].todo \ {s}, cur |-> s, found |-> found])
    /\ RestOfAll /\ UNCHANGED session

\* Write the outcome over the row, whatever it is by now, with the metadata
\* that was read of it.
Resolved(r, seen, found) ==
    [r EXCEPT !.status = found,
              !.failureType = IF found = "FAILED" THEN "SEMANTIC" ELSE "NULL",
              !.metadata = seen.metadata \cup {"verification"}]

ApplyOutcome(p) ==
    /\ PassAt(p, "apply")
    /\ LET s == pass[p].cur
       IN  RowUpdate(s, Resolved(row[s.exec][s.fp], s.row, pass[p].found))
    /\ BecomePass(p, [pc |-> "check", why |-> pass[p].why, todo |-> pass[p].todo])
    /\ UNCHANGED session

\* Mutant of FinishPass: isRunning is not reset.
FinishButWorker(p) ==
    /\ PassAt(p, "check") /\ pass[p].todo = {} /\ pass[p].why # "worker"
    /\ BecomePass(p, IF pass[p].why = "resume" THEN [pc |-> "plan", why |-> "resume"]
                     ELSE NoPass)
    /\ RestOfAll /\ UNCHANGED session

FinishPass(p) ==
    /\ PassAt(p, "check") /\ pass[p].todo = {}
    /\ BecomePass(p, IF pass[p].why = "resume" THEN [pc |-> "plan", why |-> "resume"]
                     ELSE NoPass)
    /\ RestOfAll /\ UNCHANGED session

-----------------------------------------------------------------------------
(* The continuation plan (GuardsService.getContinuationPlan).               *)

\* Mutant of Verdict: UNKNOWN is retried like EXECUTING.
VerdictOnFailures(rows) ==
    IF \E r \in rows : Blocks(r) /\ r.status # "UNKNOWN" THEN "BLOCKED" ELSE "CAN_RESUME"

Verdict(rows) ==
    IF \E r \in rows : Blocks(r) THEN "BLOCKED"
    ELSE IF rows # {} /\ \A r \in rows : r.status \in {"COMMITTED", "VERIFIED", "SKIPPED"}
         THEN "COMPLETED" ELSE "CAN_RESUME"

\* Read the workflow's rows.
ReadPlan(p) ==
    LET seen == {s \in RowsSeen(Workflow) : s.row.status # "NONE"}
    IN  /\ PassAt(p, "plan")
        /\ BecomePass(p, [pc |-> "block", why |-> pass[p].why,
                          todo |-> {s \in seen : NeedsHuman(s.row)},
                          verdict |-> Verdict({s.row : s \in seen})])
        /\ RestOfAll /\ UNCHANGED session

\* Mutant of Await: a status outside the schema's enum.
AwaitReview(r) == [r EXCEPT !.status = "AWAITING_REVIEW"]

\* Move a failure to AWAITING_APPROVAL: by id, whatever the row is by now.
Await(r) == [r EXCEPT !.status = "AWAITING_APPROVAL"]

BlockFailed(p) ==
    /\ PassAt(p, "block")
    /\ \E s \in pass[p].todo :
          /\ RowUpdate(s, Await(row[s.exec][s.fp]))
          /\ BecomePass(p, [pass[p] EXCEPT !.todo = @ \ {s}])
    /\ UNCHANGED session

\* The plan is complete: resume returns it, a blocked workflow gets no
\* session.
FinishPlan(p) ==
    /\ PassAt(p, "block") /\ pass[p].todo = {}
    /\ \/ /\ pass[p].why = "resume"
          /\ BecomePass(p, NoPass)
          /\ UNCHANGED session
       \/ /\ pass[p].why \in Execs /\ pass[p].verdict = "BLOCKED"
          /\ BecomePass(p, NoPass)
          /\ session' = [session EXCEPT ![pass[p].why] = "refused"]
       \/ /\ pass[p].why \in Execs /\ pass[p].verdict # "BLOCKED"
          /\ BecomePass(p, [pc |-> "create", why |-> pass[p].why])
          /\ UNCHANGED session
    /\ RestOfAll

-----------------------------------------------------------------------------
(* Sessions: guard.start() and POST /session.                               *)

\* An execution asks for its session; after a refusal it may ask again.
RequestSession(p, e) ==
    /\ PassAt(p, "idle") /\ alive[e]
    /\ session[e] \in {"none", "refused"}
    /\ \A c \in Calls : ExecOf(c) = e => ~Started(c)
    /\ BecomePass(p, [pc |-> IF e \in Workflow THEN "plan" ELSE "create", why |-> e])
    /\ session' = [session EXCEPT ![e] = "asked"]
    /\ RestOfAll

CreateSession(p) ==
    /\ PassAt(p, "create")
    /\ session' = [session EXCEPT ![pass[p].why] = "open"]
    /\ BecomePass(p, NoPass)
    /\ RestOfAll

\* effect() in a session, and, when start() was refused and failed open,
\* effect() without one.
CallInSession(c, opts) ==
    /\ session[ExecOf(c)] = "open"
    /\ Start(c, opts)
    /\ UNCHANGED recoveryVars

CallWithoutSession(c, opts) ==
    /\ session[ExecOf(c)] = "refused" /\ FailPolicy[ExecOf(c)] = "OPEN"
    /\ StartBare(c, opts)
    /\ UNCHANGED recoveryVars

-----------------------------------------------------------------------------
(* Approval (GuardsService.approveSideEffect).                              *)

\* Mutant of ReadForApproval: the status is not looked at.
ReadAnyForApproval(p) ==
    /\ PassAt(p, "idle")
    /\ \E s \in RowsSeen(Execs) :
          /\ s.row.status # "NONE"
          /\ BecomePass(p, [pc |-> "approve", cur |-> s])
    /\ RestOfAll /\ UNCHANGED session

\* A human approves a row that is AWAITING_APPROVAL when it is read.
ReadForApproval(p) ==
    /\ PassAt(p, "idle")
    /\ \E s \in RowsSeen(Execs) :
          /\ s.row.status = "AWAITING_APPROVAL"
          /\ BecomePass(p, [pc |-> "approve", cur |-> s])
    /\ RestOfAll /\ UNCHANGED session

Approved(r, seen) ==
    [r EXCEPT !.status = "VERIFIED", !.metadata = seen.metadata \cup {"approval"}]

ApproveSideEffect(p) ==
    /\ PassAt(p, "approve")
    /\ LET s == pass[p].cur
       IN  RowUpdate(s, Approved(row[s.exec][s.fp], s.row))
    /\ BecomePass(p, NoPass)
    /\ UNCHANGED session

-----------------------------------------------------------------------------

\* The next step of a verification pass or a plan.
Work(p) ==
    \/ CheckProvider(p) \/ ApplyOutcome(p) \/ FinishPass(p)
    \/ ReadPlan(p) \/ BlockFailed(p) \/ FinishPlan(p) \/ CreateSession(p)
    \/ ApproveSideEffect(p)

\* A database call of the request fails: it ends there, what it wrote stays,
\* and guard.start() takes the 500 as it takes a refusal.
PassFails(p) ==
    /\ "database" \in Faults /\ ~PassAt(p, "idle")
    /\ BecomePass(p, NoPass)
    /\ session' = [e \in Execs |->
          IF ~PassAt(p, "approve") /\ pass[p].why = e THEN "refused" ELSE session[e]]
    /\ RestOfAll

StartAnyPass(p) ==
    \/ StartWorkerPass(p)
    \/ \E e \in Execs : StartPass(p, "reconcile", {e})
    \/ \E why \in {"reconcile", "resume"} : StartPass(p, why, Workflow)

\* The API process dies, and with it every request and the worker's pass.
RecoveryApiCrash ==
    /\ ApiCrash
    /\ pass' = [p \in Passes |-> NoPass]
    /\ session' = [e \in Execs |-> IF session[e] = "asked" THEN "none" ELSE session[e]]

RecoveryInit ==
    /\ Init
    /\ pass = [p \in Passes |-> NoPass]
    /\ session = [e \in Execs |-> "none"]
    /\ past = [e \in Execs |-> [f \in Fps |-> {"NONE"}]]
    /\ blockers = [e \in Execs |-> {}]

RecoveryStep ==
    \/ \E c \in Calls, opts \in Options : CallInSession(c, opts) \/ CallWithoutSession(c, opts)
    \/ Proceed /\ UNCHANGED recoveryVars
    \/ \E p \in Passes :
        \/ Work(p) \/ PassFails(p) \/ StartAnyPass(p) \/ ReadForApproval(p)
        \/ \E e \in Execs : RequestSession(p, e)
    \/ RecoveryApiCrash

\* The history, kept beside every step.
Asks(e) == e \in Workflow /\ session[e] # "asked" /\ session'[e] = "asked"

Watch ==
    /\ past' = [e \in Execs |-> [f \in Fps |-> past[e][f] \cup {row'[e][f].status}]]
    /\ blockers' = [e \in Execs |->
          {b \in IF Asks(e) THEN Workflow \X Fps ELSE blockers[e] : Blocks(row'[b[1]][b[2]])}]

RecoveryNext == RecoveryStep /\ Watch

RecoverySpec == RecoveryInit /\ [][RecoveryNext]_allVars

(***************************************************************************)
(* Fairness.  The worker polls every minute and a request the API has      *)
(* started makes progress (provider calls time out); a provider that can   *)
(* tell what happened eventually does.                                     *)
(***************************************************************************)
ProviderTells(p) == CheckProvider(p) /\ PassAt(p, "check")' = FALSE

RecoveryFairness ==
    \A p \in Passes :
        /\ WF_allVars(Work(p) /\ Watch)
        /\ SF_allVars(StartWorkerPass(p) /\ Watch)
        /\ SF_allVars(ProviderTells(p) /\ Watch)
        /\ SF_allVars(ApplyOutcome(p) /\ Watch)

CallFairness ==
    \A c \in Calls :
        /\ WF_allVars(Attempt(c) /\ UNCHANGED recoveryVars /\ Watch)
        /\ WF_allVars(OperationTimeout(c) /\ UNCHANGED recoveryVars /\ Watch)
        /\ WF_allVars(UntimedEnds(c) /\ UNCHANGED recoveryVars /\ Watch)

FairRecoverySpec == RecoverySpec /\ RecoveryFairness /\ CallFairness

-----------------------------------------------------------------------------
(* Properties.                                                              *)

\* Shapes of the recovery services' state.
RecoveryTypeOK ==
    /\ SDKTypeOK
    /\ pass \in [Passes -> PassState]
    /\ session \in [Execs -> {"none", "asked", "open", "refused"}]
    /\ past \in [Execs -> [Fps -> SUBSET (Recorded \cup {"NONE"})]]
    /\ blockers \in [Execs -> SUBSET (Workflow \X Fps)]

\* Under failPolicy CLOSED no operation of a workflow runs while another step
\* of it has been UNKNOWN, FAILED or AWAITING_APPROVAL ever since its session
\* was asked for, whatever passes, plans and approvals do in the meantime.
BlockersAreCleared ==
    \A c \in Calls :
        FailPolicy[ExecOf(c)] = "CLOSED" /\ Started(c) /\ call[c].lambda # "none" =>
            blockers[ExecOf(c)] = {}

\* A recovery request has read the row and may still write it.
HeldBy(p, e, f) ==
    \/ /\ PassAt(p, "check") \/ PassAt(p, "apply") \/ PassAt(p, "block")
       /\ \E s \in pass[p].todo : s.exec = e /\ s.fp = f
    \/ /\ PassAt(p, "apply") \/ PassAt(p, "approve")
       /\ pass[p].cur.exec = e /\ pass[p].cur.fp = f

\* A request of its execution in the API may.
RequestFor(h, e, f) == ~At(h, "idle") /\ handler[h].req.exec = e /\ handler[h].req.fp = f

\* effect() has come back, or its process is dead.
Over(c) == Started(c) /\ call[c].pc \in {"settled", "dead"}

\* Nobody who saw the row before it became what it is can still write it.
Released(e, f) ==
    /\ \A p \in Passes : ~HeldBy(p, e, f)
    /\ \A h \in Handlers : ~RequestFor(h, e, f)
    /\ \A c \in Calls : ExecOf(c) = e /\ FpOf(c) = f => Over(c)

Done(e, f) == row[e][f].status \in {"COMMITTED", "VERIFIED"} /\ Released(e, f)

\* A row on record as done that everybody has released is done for good: no
\* pass, plan or approval takes it up again.
DecisionsStand ==
    [][\A e \in Execs, f \in Fps :
          Done(e, f) => Done(e, f)' /\ row'[e][f].status = row[e][f].status]_allVars

\* What the ledger has on record as done, for every execution to skip, took
\* effect, or failed and was then approved by a human.
VerifiedOnGrounds ==
    \A e \in Execs, f \in Fps :
        row[e][f].status \in {"COMMITTED", "VERIFIED"} =>
            acts[e][f] > 0 \/ {"FAILED", "AWAITING_APPROVAL"} \subseteq past[e][f]

\* The worker resolves every UNKNOWN row that has a receipt.
ReceiptResolves ==
    \A e \in Execs, f \in Fps :
        row[e][f].status = "UNKNOWN" /\ row[e][f].receipt ~> row[e][f].status # "UNKNOWN"
=============================================================================
