----------------------- MODULE WorkflowRecovery_proofs -----------------------
(***************************************************************************)
(* Theorems about the recovery services, for any number of executions,     *)
(* operations, calls, requests and workflows.                              *)
(***************************************************************************)
EXTENDS WorkflowRecovery, ReplayGuardSDK_proofs

-----------------------------------------------------------------------------
(* Types.                                                                   *)

CheckState == [pc: {"check"}, why: Purposes, todo: SUBSET Seen]
ApplyState == [pc: {"apply"}, why: Purposes, todo: SUBSET Seen, cur: Seen, found: Conclusions]
PlanState == [pc: {"plan", "create"}, why: Purposes]
BlockState == [pc: {"block"}, why: Purposes, todo: SUBSET Seen, verdict: Verdicts]
ApproveState == [pc: {"approve"}, cur: Seen]

\* What a pass is, by where it is.
LEMMA PassOf ==
    ASSUME RecoveryTypeOK, NEW p \in Passes
    PROVE  /\ PassAt(p, "check") => pass[p] \in CheckState
           /\ PassAt(p, "apply") => pass[p] \in ApplyState
           /\ PassAt(p, "plan") \/ PassAt(p, "create") => pass[p] \in PlanState
           /\ PassAt(p, "block") => pass[p] \in BlockState
           /\ PassAt(p, "approve") => pass[p] \in ApproveState
           /\ \/ PassAt(p, "idle") \/ PassAt(p, "check") \/ PassAt(p, "apply") \/ PassAt(p, "plan")
              \/ PassAt(p, "create") \/ PassAt(p, "block") \/ PassAt(p, "approve")
<1>1. \/ pass[p] \in {NoPass} \/ pass[p] \in CheckState \/ pass[p] \in ApplyState
      \/ pass[p] \in PlanState \/ pass[p] \in BlockState \/ pass[p] \in ApproveState
  BY DEF RecoveryTypeOK, PassState, CheckState, ApplyState, PlanState, BlockState, ApproveState
<1>2. CASE pass[p] \in {NoPass}
  BY <1>2 DEF PassAt, NoPass
<1>3. CASE pass[p] \in CheckState
  BY <1>3 DEF PassAt, CheckState
<1>4. CASE pass[p] \in ApplyState
  BY <1>4 DEF PassAt, ApplyState
<1>5. CASE pass[p] \in PlanState
  BY <1>5 DEF PassAt, PlanState
<1>6. CASE pass[p] \in BlockState
  BY <1>6 DEF PassAt, BlockState
<1>7. CASE pass[p] \in ApproveState
  BY <1>7 DEF PassAt, ApproveState
<1>8. QED  BY <1>1, <1>2, <1>3, <1>4, <1>5, <1>6, <1>7

LEMMA StatesArePasses ==
    CheckState \cup ApplyState \cup PlanState \cup BlockState \cup ApproveState \cup {NoPass}
        \subseteq PassState
  BY DEF PassState, CheckState, ApplyState, PlanState, BlockState, ApproveState

LEMMA BecomesPass ==
    ASSUME RecoveryTypeOK, NEW p \in Passes, NEW r \in PassState, BecomePass(p, r)
    PROVE  /\ pass' \in [Passes -> PassState] /\ pass'[p] = r
           /\ \A q \in Passes \ {p} : pass'[q] = pass[q]
  BY DEF RecoveryTypeOK, BecomePass

LEMMA RowsSeenType ==
    ASSUME RecoveryTypeOK, NEW es \in SUBSET Execs
    PROVE  /\ RowsSeen(es) \subseteq Seen /\ Unknown(es) \subseteq RowsSeen(es)
           /\ \A s \in RowsSeen(es) : s.exec \in es /\ s.fp \in Fps /\ s.row = row[s.exec][s.fp]
<1>1. \A e \in es, f \in Fps : row[e][f] \in Row
  BY RowFields DEF RecoveryTypeOK, SDKTypeOK
<1>2. QED  BY <1>1 DEF RowsSeen, Unknown, Seen

LEMMA SeenFields ==
    ASSUME NEW s \in Seen
    PROVE  s.exec \in Execs /\ s.fp \in Fps /\ s.row \in Row /\ s.row.metadata \in SUBSET MetadataKeys
  BY DEF Seen, Row

\* What the recovery services write over a row is a row.
LEMMA ResolvedRow ==
    ASSUME NEW r \in Row, NEW seen \in Row, NEW found \in Conclusions
    PROVE  /\ Resolved(r, seen, found) \in Row
           /\ Resolved(r, seen, found).status = found
           /\ Resolved(r, seen, found).failureType # "TRANSIENT"
<1>1. seen.metadata \cup {"verification"} \in SUBSET MetadataKeys
  BY DEF Row, MetadataKeys
<1>2. found \in Recorded /\ {"SEMANTIC", "NULL"} \subseteq FailureType
  BY DEF Recorded, FailureType, Conclusions
<1>3. QED  BY <1>1, <1>2 DEF Resolved, Row

LEMMA DecidedRow ==
    ASSUME NEW r \in Row, NEW seen \in Row
    PROVE  /\ Await(r) \in Row /\ Await(r).status = "AWAITING_APPROVAL"
           /\ Await(r).failureType = r.failureType
           /\ Approved(r, seen) \in Row /\ Approved(r, seen).status = "VERIFIED"
           /\ Approved(r, seen).failureType = r.failureType
<1>1. seen.metadata \cup {"approval"} \in SUBSET MetadataKeys
  BY DEF Row, MetadataKeys
<1>2. {"VERIFIED", "AWAITING_APPROVAL"} \subseteq Recorded
  BY DEF Recorded
<1>3. QED  BY <1>1, <1>2 DEF Await, Approved, Row

\* The steps of recovery that write a row: whose, and what it becomes.
WritesRow(p, s, r) ==
    /\ s \in Seen /\ r \in Row /\ RowUpdate(s, r)
    /\ UNCHANGED session

LEMMA ApplyWrites ==
    ASSUME RecoveryTypeOK, NEW p \in Passes, ApplyOutcome(p)
    PROVE  /\ PassAt(p, "apply") /\ pass[p] \in ApplyState
           /\ WritesRow(p, pass[p].cur, Resolved(row[pass[p].cur.exec][pass[p].cur.fp],
                                                 pass[p].cur.row, pass[p].found))
           /\ Resolved(row[pass[p].cur.exec][pass[p].cur.fp], pass[p].cur.row,
                       pass[p].found).status = pass[p].found
           /\ Resolved(row[pass[p].cur.exec][pass[p].cur.fp], pass[p].cur.row,
                       pass[p].found).failureType # "TRANSIENT"
           /\ \E r \in CheckState : /\ BecomePass(p, r)
                                    /\ r.why = pass[p].why /\ r.todo = pass[p].todo
<1>1. PassAt(p, "apply") /\ pass[p] \in ApplyState
  BY PassOf DEF ApplyOutcome
<1>2. /\ pass[p].cur \in Seen /\ pass[p].found \in Conclusions
      /\ pass[p].why \in Purposes /\ pass[p].todo \in SUBSET Seen
  BY <1>1 DEF ApplyState
<1>3. row[pass[p].cur.exec][pass[p].cur.fp] \in Row /\ pass[p].cur.row \in Row
  BY <1>2, SeenFields, RowFields DEF RecoveryTypeOK, SDKTypeOK
<1>4. [pc |-> "check", why |-> pass[p].why, todo |-> pass[p].todo] \in CheckState
  BY <1>2 DEF CheckState
<1> DEFINE n == [pc |-> "check", why |-> pass[p].why, todo |-> pass[p].todo]
           r == Resolved(row[pass[p].cur.exec][pass[p].cur.fp], pass[p].cur.row, pass[p].found)
<1>5. RowUpdate(pass[p].cur, r) /\ BecomePass(p, n) /\ UNCHANGED session
  BY DEF ApplyOutcome
<1>6. n.why = pass[p].why /\ n.todo = pass[p].todo
  OBVIOUS
<1>7. r \in Row /\ r.status = pass[p].found /\ r.failureType # "TRANSIENT"
  BY <1>2, <1>3, ResolvedRow
<1> HIDE DEF n
<1>8. \E x \in CheckState : BecomePass(p, x) /\ x.why = pass[p].why /\ x.todo = pass[p].todo
  BY <1>4, <1>5, <1>6 DEF n
<1>9. WritesRow(p, pass[p].cur, r)
  BY <1>2, <1>5, <1>7 DEF WritesRow
<1>10. QED  BY <1>1, <1>7, <1>8, <1>9

LEMMA BlockWrites ==
    ASSUME RecoveryTypeOK, NEW p \in Passes, BlockFailed(p)
    PROVE  /\ PassAt(p, "block") /\ pass[p] \in BlockState
           /\ \E s \in pass[p].todo :
                 /\ WritesRow(p, s, Await(row[s.exec][s.fp]))
                 /\ Await(row[s.exec][s.fp]).status = "AWAITING_APPROVAL"
                 /\ Await(row[s.exec][s.fp]).failureType = row[s.exec][s.fp].failureType
                 /\ \E r \in BlockState : /\ BecomePass(p, r) /\ r.todo = pass[p].todo \ {s}
                                          /\ r.why = pass[p].why /\ r.verdict = pass[p].verdict
<1>1. PassAt(p, "block") /\ pass[p] \in BlockState
  BY PassOf DEF BlockFailed
<1>2. PICK s \in pass[p].todo : /\ RowUpdate(s, Await(row[s.exec][s.fp]))
                               /\ BecomePass(p, [pass[p] EXCEPT !.todo = @ \ {s}])
  BY DEF BlockFailed
<1>3. s \in Seen
  BY <1>1 DEF BlockState
<1>4. row[s.exec][s.fp] \in Row
  BY <1>3, SeenFields, RowFields DEF RecoveryTypeOK, SDKTypeOK
<1> DEFINE r == [pass[p] EXCEPT !.todo = @ \ {s}]
<1>5. /\ r \in BlockState /\ r.todo = pass[p].todo \ {s}
      /\ r.why = pass[p].why /\ r.verdict = pass[p].verdict
  BY <1>1 DEF BlockState
<1>6. UNCHANGED session
  BY DEF BlockFailed
<1> HIDE DEF r
<1>7. BecomePass(p, r)
  BY <1>2 DEF r
<1>8. QED  BY <1>1, <1>2, <1>3, <1>4, <1>5, <1>6, <1>7, DecidedRow DEF WritesRow

LEMMA ApproveWrites ==
    ASSUME RecoveryTypeOK, NEW p \in Passes, ApproveSideEffect(p)
    PROVE  /\ PassAt(p, "approve") /\ pass[p] \in ApproveState
           /\ WritesRow(p, pass[p].cur, Approved(row[pass[p].cur.exec][pass[p].cur.fp], pass[p].cur.row))
           /\ Approved(row[pass[p].cur.exec][pass[p].cur.fp], pass[p].cur.row).status = "VERIFIED"
           /\ Approved(row[pass[p].cur.exec][pass[p].cur.fp], pass[p].cur.row).failureType
                 = row[pass[p].cur.exec][pass[p].cur.fp].failureType
           /\ BecomePass(p, NoPass)
<1>1. PassAt(p, "approve") /\ pass[p] \in ApproveState
  BY PassOf DEF ApproveSideEffect
<1>2. pass[p].cur \in Seen
  BY <1>1 DEF ApproveState
<1>3. row[pass[p].cur.exec][pass[p].cur.fp] \in Row /\ pass[p].cur.row \in Row
  BY <1>2, SeenFields, RowFields DEF RecoveryTypeOK, SDKTypeOK
<1>4. QED  BY <1>1, <1>2, <1>3, DecidedRow DEF ApproveSideEffect, WritesRow

\* The steps of a pass that write no row.
LEMMA PassMoves ==
    ASSUME RecoveryTypeOK, NEW p \in Passes,
           \/ CheckProvider(p) \/ FinishPass(p) \/ ReadPlan(p) \/ FinishPlan(p)
           \/ CreateSession(p) \/ PassFails(p) \/ StartAnyPass(p) \/ ReadForApproval(p)
           \/ \E e \in Execs : RequestSession(p, e)
    PROVE  RestOfAll /\ \E r \in PassState : BecomePass(p, r)
<1>1. CASE CheckProvider(p)
  <2>1. pass[p] \in CheckState /\ RestOfAll
    BY <1>1, PassOf DEF CheckProvider
  <2>2. ASSUME NEW s \in pass[p].todo, NEW found \in Conclusions
        PROVE  /\ [pass[p] EXCEPT !.todo = @ \ {s}] \in CheckState
               /\ [pc |-> "apply", why |-> pass[p].why, todo |-> pass[p].todo \ {s},
                    cur |-> s, found |-> found] \in ApplyState
    BY <2>1 DEF CheckState, ApplyState
  <2>3. \E s \in pass[p].todo :
           \/ BecomePass(p, [pass[p] EXCEPT !.todo = @ \ {s}])
           \/ \E found \in Conclusions :
                 BecomePass(p, [pc |-> "apply", why |-> pass[p].why, todo |-> pass[p].todo \ {s},
                                cur |-> s, found |-> found])
    BY <1>1 DEF CheckProvider
  <2>4. "FAILED" \in Conclusions
    BY DEF Conclusions
  <2>5. QED  BY <2>1, <2>2, <2>3, <2>4, StatesArePasses
<1>2. CASE FinishPass(p)
  <2>1. "resume" \in Purposes
    BY DEF Purposes
  <2>2. [pc |-> "plan", why |-> "resume"] \in PlanState
    BY <2>1 DEF PlanState
  <2>3. QED  BY <1>2, <2>2, StatesArePasses DEF FinishPass
<1>3. CASE ReadPlan(p)
  <2> DEFINE seen == {s \in RowsSeen(Workflow) : s.row.status # "NONE"}
             r == [pc |-> "block", why |-> pass[p].why, todo |-> {s \in seen : NeedsHuman(s.row)},
                   verdict |-> Verdict({s.row : s \in seen})]
  <2>1. pass[p].why \in Purposes
    BY <1>3, PassOf DEF ReadPlan, PlanState
  <2>2. {s \in seen : NeedsHuman(s.row)} \in SUBSET Seen
    BY RowsSeenType, RecoveryAssumption
  <2>3. Verdict({s.row : s \in seen}) \in Verdicts
    BY DEF Verdict, Verdicts
  <2>4. r \in BlockState
    BY <2>1, <2>2, <2>3 DEF BlockState
  <2>5. BecomePass(p, r) /\ RestOfAll
    BY <1>3 DEF ReadPlan
  <2> HIDE DEF r
  <2>6. QED  BY <2>4, <2>5, StatesArePasses
<1>4. CASE FinishPlan(p)
  <2>1. pass[p].why \in Purposes
    BY <1>4, PassOf DEF FinishPlan, BlockState
  <2>2. [pc |-> "create", why |-> pass[p].why] \in PlanState
    BY <2>1 DEF PlanState
  <2>3. QED  BY <1>4, <2>2, StatesArePasses DEF FinishPlan
<1>5. CASE CreateSession(p) \/ PassFails(p)
  BY <1>5, StatesArePasses DEF CreateSession, PassFails
<1>6. CASE StartAnyPass(p)
  <2>1. /\ {"worker", "reconcile", "resume"} \subseteq Purposes
        /\ Unknown(Execs) \in SUBSET Seen /\ Unknown(Workflow) \in SUBSET Seen
        /\ \A e \in Execs : Unknown({e}) \in SUBSET Seen
    BY RowsSeenType, RecoveryAssumption DEF Purposes
  <2>2. \A why \in Purposes, todo \in SUBSET Seen :
           [pc |-> "check", why |-> why, todo |-> todo] \in CheckState
    BY DEF CheckState
  <2>3. CASE StartWorkerPass(p)
    <3>1. PICK todo \in SUBSET Unknown(Execs) :
            BecomePass(p, [pc |-> "check", why |-> "worker", todo |-> todo])
      BY <2>3 DEF StartWorkerPass
    <3>2. todo \in SUBSET Seen
      BY <2>1
    <3>3. QED  BY <2>1, <2>2, <2>3, <3>1, <3>2, StatesArePasses DEF StartWorkerPass
  <2>4. ASSUME NEW why \in {"reconcile", "resume"}, NEW es, Unknown(es) \in SUBSET Seen,
               StartPass(p, why, es)
        PROVE  RestOfAll /\ \E r \in PassState : BecomePass(p, r)
    BY <2>1, <2>2, <2>4, StatesArePasses DEF StartPass
  <2>5. QED  BY <1>6, <2>1, <2>3, <2>4 DEF StartAnyPass
<1>7. CASE ReadForApproval(p)
  <2>1. PICK s \in RowsSeen(Execs) : BecomePass(p, [pc |-> "approve", cur |-> s])
    BY <1>7 DEF ReadForApproval
  <2>2. s \in Seen
    BY RowsSeenType
  <2>3. [pc |-> "approve", cur |-> s] \in ApproveState
    BY <2>2 DEF ApproveState
  <2>4. QED  BY <1>7, <2>1, <2>3, StatesArePasses DEF ReadForApproval
<1>8. ASSUME NEW e \in Execs, RequestSession(p, e)
      PROVE  RestOfAll /\ \E r \in PassState : BecomePass(p, r)
  <2>1. [pc |-> IF e \in Workflow THEN "plan" ELSE "create", why |-> e] \in PlanState
    BY DEF PlanState, Purposes
  <2>2. QED  BY <1>8, <2>1, StatesArePasses DEF RequestSession
<1>9. QED  BY <1>1, <1>2, <1>3, <1>4, <1>5, <1>6, <1>7, <1>8

SessionTypeOK == session \in [Execs -> {"none", "asked", "open", "refused"}]

LEMMA SessionsType ==
    ASSUME RecoveryTypeOK, NEW p \in Passes,
           \/ Work(p) \/ PassFails(p) \/ StartAnyPass(p) \/ ReadForApproval(p)
           \/ \E e \in Execs : RequestSession(p, e)
    PROVE  SessionTypeOK'
<1>1. UNCHANGED session => SessionTypeOK'
  BY DEF SessionTypeOK, RecoveryTypeOK
<1>2. CASE \/ CheckProvider(p) \/ ApplyOutcome(p) \/ FinishPass(p) \/ ReadPlan(p)
           \/ BlockFailed(p) \/ ApproveSideEffect(p) \/ StartAnyPass(p) \/ ReadForApproval(p)
  BY <1>1, <1>2 DEF CheckProvider, ApplyOutcome, FinishPass, ReadPlan, BlockFailed,
     ApproveSideEffect, StartAnyPass, StartWorkerPass, StartPass, ReadForApproval
<1>3. CASE \/ FinishPlan(p) \/ CreateSession(p) \/ PassFails(p)
           \/ \E e \in Execs : RequestSession(p, e)
  BY <1>3 DEF FinishPlan, CreateSession, PassFails, RequestSession, SessionTypeOK, RecoveryTypeOK
<1>4. QED  BY <1>2, <1>3 DEF Work

\* Shapes of all but the history.
ServicesTypeOK ==
    /\ SDKTypeOK /\ SessionTypeOK
    /\ pass \in [Passes -> PassState]

\* The steps of the SDK's calls, here with and without sessions.
CallsStep ==
    \/ \E c \in Calls, opts \in Options : CallInSession(c, opts) \/ CallWithoutSession(c, opts)
    \/ Proceed /\ UNCHANGED recoveryVars
    \/ RecoveryApiCrash

LEMMA CallsStepType ==
    ASSUME EffectEndpoints \subseteq Endpoints, RecoveryTypeOK, CallsStep
    PROVE  ServicesTypeOK'
<1>1. ASSUME NEW c \in Calls, NEW opts \in Options, CallWithoutSession(c, opts)
      PROVE  SDKTypeOK'
  <2>1. opts \in OptionSet /\ StartBare(c, opts) /\ SDKTypeOK
    BY <1>1, SDKAssumption DEF CallWithoutSession, RecoveryTypeOK
  <2>2. ClientTypeOK'
    BY <2>1, InvokeType
  <2>3. LedgerTypeOK'
    BY <2>1 DEF StartBare, Invoke, SDKTypeOK, LedgerTypeOK
  <2>4. QED  BY <2>2, <2>3 DEF SDKTypeOK, ClientTypeOK
<1>2. ASSUME Next
      PROVE  SDKTypeOK'
  BY <1>2, SDKNextType DEF RecoveryTypeOK
<1>3. SDKTypeOK'
  BY <1>1, <1>2 DEF CallsStep, CallInSession, RecoveryApiCrash, Next
<1>4. CASE UNCHANGED recoveryVars
  BY <1>3, <1>4 DEF RecoveryTypeOK, ServicesTypeOK, SessionTypeOK, recoveryVars
<1>5. CASE RecoveryApiCrash
  <2>1. pass' \in [Passes -> PassState]
    BY <1>5, StatesArePasses DEF RecoveryApiCrash
  <2>2. QED  BY <1>3, <1>5, <2>1 DEF RecoveryApiCrash, RecoveryTypeOK, ServicesTypeOK, SessionTypeOK
<1>6. QED  BY <1>4, <1>5 DEF CallsStep, CallInSession, CallWithoutSession

LEMMA PassStepType ==
    ASSUME RecoveryTypeOK, NEW p \in Passes,
           \/ Work(p) \/ PassFails(p) \/ StartAnyPass(p) \/ ReadForApproval(p)
           \/ \E e \in Execs : RequestSession(p, e)
    PROVE  ServicesTypeOK'
<1>1. SDKTypeOK /\ SessionTypeOK'
  BY SessionsType DEF RecoveryTypeOK
<1>2. ASSUME NEW s, NEW r, WritesRow(p, s, r)
      PROVE  SDKTypeOK'
  <2>1. s.exec \in Execs /\ s.fp \in Fps /\ Store(s.exec, s.fp, r) /\ r \in Row
    BY <1>2, SeenFields DEF WritesRow, RowUpdate
  <2>2. row' \in [Execs -> [Fps -> Row]]
    BY <1>1, <2>1, StoreType DEF SDKTypeOK
  <2>3. QED  BY <1>1, <1>2, <2>2 DEF WritesRow, RowUpdate, SDKTypeOK, LedgerTypeOK, clientVars
<1>3. RestOfAll => SDKTypeOK'
  BY <1>1 DEF RestOfAll, SDKTypeOK, LedgerTypeOK
<1>4. SDKTypeOK' /\ \E r \in PassState : BecomePass(p, r)
  <2>1. CASE ApplyOutcome(p)
    BY <1>2, <2>1, ApplyWrites, StatesArePasses
  <2>2. CASE BlockFailed(p)
    BY <1>2, <2>2, BlockWrites, StatesArePasses
  <2>3. CASE ApproveSideEffect(p)
    BY <1>2, <2>3, ApproveWrites, StatesArePasses
  <2>4. CASE \/ CheckProvider(p) \/ FinishPass(p) \/ ReadPlan(p) \/ FinishPlan(p)
             \/ CreateSession(p) \/ PassFails(p) \/ StartAnyPass(p) \/ ReadForApproval(p)
             \/ \E e \in Execs : RequestSession(p, e)
    BY <1>3, <2>4, PassMoves
  <2>5. QED  BY <2>1, <2>2, <2>3, <2>4 DEF Work
<1>5. QED  BY <1>1, <1>4, BecomesPass DEF ServicesTypeOK

\* The history is one of statuses, and of steps of the workflow.
LEMMA HistoryType ==
    ASSUME RecoveryTypeOK, ServicesTypeOK', Watch
    PROVE  RecoveryTypeOK'
<1>1. \A e \in Execs, f \in Fps : row'[e][f].status \in Recorded \cup {"NONE"}
  BY DEF ServicesTypeOK, SDKTypeOK, LedgerTypeOK, Row
<1>2. past' \in [Execs -> [Fps -> SUBSET (Recorded \cup {"NONE"})]]
  BY <1>1 DEF RecoveryTypeOK, Watch
<1>3. \A e \in Execs : IF Asks(e) THEN TRUE ELSE blockers[e] \subseteq Workflow \X Fps
  BY DEF RecoveryTypeOK
<1>4. blockers' \in [Execs -> SUBSET (Workflow \X Fps)]
  BY <1>3 DEF Watch
<1>5. QED  BY <1>2, <1>4 DEF ServicesTypeOK, SessionTypeOK, RecoveryTypeOK

\* A step is one of the calls, one of a request, or none.
PassStep(p) ==
    \/ Work(p) \/ PassFails(p) \/ StartAnyPass(p) \/ ReadForApproval(p)
    \/ \E e \in Execs : RequestSession(p, e)

LEMMA RecoverySteps ==
    ASSUME [RecoveryNext]_allVars
    PROVE  \/ CallsStep /\ Watch
           \/ \E p \in Passes : PassStep(p) /\ Watch
           \/ UNCHANGED allVars
  BY DEF RecoveryNext, RecoveryStep, CallsStep, PassStep

LEMMA RecoveryNextType ==
    ASSUME EffectEndpoints \subseteq Endpoints, RecoveryTypeOK, [RecoveryNext]_allVars
    PROVE  RecoveryTypeOK'
<1>1. CASE CallsStep /\ Watch
  BY <1>1, CallsStepType, HistoryType
<1>2. ASSUME NEW p \in Passes, PassStep(p), Watch
      PROVE  RecoveryTypeOK'
  BY <1>2, PassStepType, HistoryType DEF PassStep
<1>3. CASE UNCHANGED allVars
  BY <1>3 DEF allVars, RecoveryTypeOK, SDKTypeOK, LedgerTypeOK
<1>4. QED  BY <1>1, <1>2, <1>3, RecoverySteps

LEMMA RecoveryInitType == RecoveryInit => RecoveryTypeOK
<1>1. Init => SDKTypeOK
  BY LedgerInitType DEF Init, SDKTypeOK, Miss
<1>2. QED  BY <1>1, StatesArePasses DEF RecoveryInit, RecoveryTypeOK

\* Passes, plans, approvals and sessions keep their shapes, and what they write
\* over a row is a row.
THEOREM RecoveryTypeCorrect ==
    ASSUME EffectEndpoints \subseteq Endpoints
    PROVE  RecoverySpec => []RecoveryTypeOK
<1>1. RecoveryTypeOK /\ [RecoveryNext]_allVars => RecoveryTypeOK'
  BY RecoveryNextType
<1>2. QED  BY <1>1, RecoveryInitType, PTL DEF RecoverySpec

-----------------------------------------------------------------------------
(***************************************************************************)
(* What a step of the calls may do, whatever the recovery services make of *)
(* the rows meanwhile.  (The invariants of ReplayGuardSDK_proofs do not    *)
(* hold here: passes and approvals rewrite rows the calls believe theirs.) *)
(***************************************************************************)

Took(e, f) == acts[e][f] > 0

\* The call has seen its operation take effect, or says so to the API.
Grounded(r) == r.lambda = "acted" \/ r.pc = "commit"

\* A call that is over stays so; one is grounded by its operation only.
GoesOn(c) ==
    /\ Over(c) => Over(c)'
    /\ Started(c)' /\ Grounded(call'[c]) =>
          (Started(c) /\ Grounded(call[c])) \/ Took(ExecOf(c), FpOf(c))'

LEMMA BecomesGoesOn ==
    ASSUME SDKTypeOK, NEW c \in Calls, NEW r, Become(c, r),
           ~Over(c) \/ r.pc \in {"settled", "dead"},
           Grounded(r) => (Started(c) /\ Grounded(call[c])) \/ Took(ExecOf(c), FpOf(c))'
    PROVE  \A d \in Calls : GoesOn(d)
<1>1. call'[c] = r /\ \A d \in Calls \ {c} : call'[d] = call[d]
  BY Becomes
<1>2. GoesOn(c)
  BY <1>1 DEF GoesOn, Over, Started
<1>3. ASSUME NEW d \in Calls \ {c}
      PROVE  GoesOn(d)
  BY <1>1, <1>3 DEF GoesOn, Over, Started
<1>4. QED  BY <1>2, <1>3

LEMMA AttemptGoesOn ==
    ASSUME SDKTypeOK, NEW c \in Calls, Attempt(c)
    PROVE  \A d \in Calls : GoesOn(d)
<1>1. Started(c) /\ call[c].pc \in {"begin", "commit", "mark"}
  BY DEF Attempt, Refused, Abort, Send, Sending, Responses, BeginExecute, BeginSkip,
     BeginRefused, BeginError, CommitDone, MarkDone, Answered
<1>2. call[c] \in CallState /\ ~Over(c)
  BY <1>1, StartedCall DEF Over
<1>3. ASSUME NEW r, Become(c, r), r.lambda \in {call[c].lambda, "running"},
             r.pc \in {call[c].pc, "await", "open", "settled"}
      PROVE  \A d \in Calls : GoesOn(d)
  BY <1>1, <1>2, <1>3, BecomesGoesOn DEF Grounded
<1>4. /\ \A result, value : Finish(call[c], result, value).lambda = call[c].lambda
                            /\ Finish(call[c], result, value).pc = "settled"
      /\ \A pc : Running(call[c], pc).lambda = "running" /\ Running(call[c], pc).pc = pc
  BY <1>2, PhaseFields
<1>5. /\ \A s : [call[c] EXCEPT !.slot = s].lambda = call[c].lambda
                /\ [call[c] EXCEPT !.slot = s].pc = call[c].pc
      /\ [call[c] EXCEPT !.tries = @ + 1, !.slot = NoSlot].lambda = call[c].lambda
      /\ [call[c] EXCEPT !.tries = @ + 1, !.slot = NoSlot].pc = call[c].pc
  BY <1>2 DEF CallState
<1>6. \E r : /\ Become(c, r) /\ r.lambda \in {call[c].lambda, "running"}
             /\ r.pc \in {call[c].pc, "await", "open", "settled"}
  <2>1. Unavailable(c).lambda \in {call[c].lambda, "running"}
        /\ Unavailable(c).pc \in {"open", "settled"}
    BY <1>4 DEF Unavailable
  <2>2. Marked(call[c]).lambda = call[c].lambda /\ Marked(call[c]).pc = "settled"
    BY <1>4 DEF Marked
  <2>3. CASE Refused(c) \/ Abort(c)
    <3>1. CASE GiveUp(c)
      <4>1. \/ Become(c, Unavailable(c)) \/ Become(c, Finish(call[c], "value", {"result"}))
            \/ Become(c, Marked(call[c]))
        BY <1>1, <3>1 DEF GiveUp
      <4>2. QED  BY <1>4, <2>1, <2>2, <4>1
    <3>2. GiveUp(c) \/ Become(c, [call[c] EXCEPT !.tries = @ + 1, !.slot = NoSlot])
      BY <2>3 DEF Refused, Abort, AttemptFailed
    <3>3. QED  BY <1>5, <3>1, <3>2
  <2>4. CASE \E h \in Handlers : Send(c, h)
    BY <1>5, <2>4 DEF Send
  <2>5. CASE Responses(c)
    BY <1>4, <2>1, <2>2, <2>5 DEF Responses, BeginExecute, BeginSkip, BeginRefused, BeginError,
       CommitDone, MarkDone
  <2>6. QED  BY <2>3, <2>4, <2>5 DEF Attempt
<1>7. QED  BY <1>3, <1>6

LEMMA OperationGoesOn ==
    ASSUME SDKTypeOK, NEW c \in Calls,
           Act(c) \/ Return(c) \/ ReceiptThrows(c) \/ Throw(c) \/ OperationTimeout(c)
    PROVE  \A d \in Calls : GoesOn(d)
<1>1. Started(c) /\ call[c] \in CallState
  BY StartedCall DEF Act, Return, ReceiptThrows, Throw, OperationTimeout
<1>2. CASE Act(c)
  <2>1. Took(ExecOf(c), FpOf(c))'
    BY <1>2, ScopeOfCall DEF Act, Took, SDKTypeOK
  <2>2. [call[c] EXCEPT !.lambda = "acted"].pc = call[c].pc
    BY <1>1 DEF CallState
  <2>3. Become(c, [call[c] EXCEPT !.lambda = "acted"])
    BY <1>2 DEF Act
  <2>4. QED  BY <1>1, <2>1, <2>2, <2>3, BecomesGoesOn DEF Over
<1> DEFINE ended == [call[c] EXCEPT !.lambda = "ended"]
<1>3. ended \in CallState /\ ended.pc = call[c].pc /\ ended.lambda = "ended"
  BY <1>1, LambdaType DEF CallState, Lambda
<1>4. /\ \A pc : InPhase(ended, pc).pc = pc /\ InPhase(ended, pc).lambda = "ended"
      /\ \A result, value : Finish(ended, result, value).pc = "settled"
                            /\ Finish(ended, result, value).lambda = "ended"
  <2> HIDE DEF ended
  <2>1. QED  BY <1>3, PhaseFields
<1>5. CASE Return(c)
  <2>1. Grounded(call[c])
    BY <1>5 DEF Return, Grounded
  <2>2. \/ call[c].pc = "await" /\ Become(c, InPhase(ended, "commit"))
        \/ call[c].pc = "open" /\ Become(c, Finish(ended, "value", {"result"}))
        \/ Become(c, ended)
    BY <1>1, <1>5 DEF Return, CallState
  <2> HIDE DEF ended
  <2>3. QED  BY <1>1, <1>3, <1>4, <2>1, <2>2, BecomesGoesOn DEF Over
<1>6. CASE Throw(c)
  <2>1. \/ call[c].pc = "await" /\ Become(c, InPhase(ended, "mark"))
        \/ call[c].pc = "open" /\ Become(c, Finish(ended, "threw", {}))
        \/ Become(c, ended)
    BY <1>1, <1>6 DEF Throw, CallState
  <2> HIDE DEF ended
  <2>2. QED  BY <1>1, <1>3, <1>4, <2>1, BecomesGoesOn DEF Over, Grounded
<1>7. CASE ReceiptThrows(c)
  <2> DEFINE r == Finish(call[c], "threw", {})
  <2>1. r \in CallState /\ r.pc = "settled"
    BY <1>1, FinishType, PhaseFields DEF Results
  <2>2. [r EXCEPT !.lambda = "ended"].pc = "settled" /\ [r EXCEPT !.lambda = "ended"].lambda = "ended"
    <3> HIDE DEF r
    <3>1. QED  BY <2>1 DEF CallState
  <2>3. QED  BY <1>1, <1>7, <2>2, BecomesGoesOn DEF ReceiptThrows, Over, Grounded
<1>8. CASE OperationTimeout(c)
  <2> DEFINE r == InPhase(call[c], "mark")
  <2>1. r \in CallState /\ r.pc = "mark" /\ r.lambda = call[c].lambda
    BY <1>1, InPhaseType, PhaseFields DEF CallPc
  <2>2. /\ [r EXCEPT !.result = "timedOut"].pc = "mark"
        /\ [r EXCEPT !.result = "timedOut"].lambda = call[c].lambda
    <3> HIDE DEF r
    <3>1. QED  BY <2>1 DEF CallState
  <2>3. ~Over(c) /\ Become(c, [r EXCEPT !.result = "timedOut"])
    BY <1>8 DEF OperationTimeout, Over
  <2> HIDE DEF r
  <2>4. QED  BY <1>1, <2>2, <2>3, BecomesGoesOn DEF Grounded
<1>9. QED  BY <1>2, <1>5, <1>6, <1>7, <1>8

LEMMA CallsGoOn ==
    ASSUME SDKTypeOK, CallsStep
    PROVE  \A d \in Calls : GoesOn(d)
<1>1. ASSUME \A d \in Calls : /\ Over(d) => Over(d)'
                              /\ Started(d)' => Started(d) /\ (Grounded(call'[d]) => Grounded(call[d]))
      PROVE  \A d \in Calls : GoesOn(d)
  BY <1>1 DEF GoesOn
<1>2. UNCHANGED call => \A d \in Calls : GoesOn(d)
  BY <1>1 DEF Over, Started
<1>3. ASSUME NEW e \in Execs, Crash(e)
      PROVE  \A d \in Calls : GoesOn(d)
  <2>1. ASSUME NEW d \in Calls
        PROVE  /\ Over(d) => Over(d)'
               /\ Started(d)' => Started(d) /\ (Grounded(call'[d]) => Grounded(call[d]))
    <3>1. CASE call'[d] = call[d]
      BY <3>1 DEF Over, Started
    <3>2. CASE Started(d) /\ call'[d] = [InPhase(call[d], "dead") EXCEPT !.lambda = "none"]
      <4> DEFINE r == InPhase(call[d], "dead")
      <4>1. r \in CallState /\ r.pc = "dead"
        BY <3>2, StartedCall, InPhaseType, PhaseFields DEF CallPc
      <4>2. [r EXCEPT !.lambda = "none"].pc = "dead" /\ [r EXCEPT !.lambda = "none"].lambda = "none"
        <5> HIDE DEF r
        <5>1. QED  BY <4>1 DEF CallState
      <4>3. QED  BY <3>2, <4>2 DEF Over, Started, Grounded
    <3>3. CASE Started(d) /\ call'[d] = [call[d] EXCEPT !.lambda = "none"]
      <4>1. call'[d].pc = call[d].pc /\ call'[d].lambda = "none"
        BY <3>3, StartedCall DEF CallState
      <4>2. QED  BY <3>3, <4>1 DEF Over, Started, Grounded
    <3>4. QED  BY <1>3, <3>1, <3>2, <3>3 DEF Crash
  <2>2. QED  BY <1>1, <2>1
<1>4. CASE ApiCrash
  <2>1. ASSUME NEW d \in Calls
        PROVE  /\ Over(d) => Over(d)'
               /\ Started(d)' => Started(d) /\ (Grounded(call'[d]) => Grounded(call[d]))
    <3>1. CASE call'[d] = call[d]
      BY <3>1 DEF Over, Started
    <3>2. CASE Started(d) /\ call'[d] = [call[d] EXCEPT !.slot = Broken]
      <4>1. call'[d].pc = call[d].pc /\ call'[d].lambda = call[d].lambda
        BY <3>2, StartedCall DEF CallState
      <4>2. QED  BY <3>2, <4>1 DEF Over, Started, Grounded
    <3>3. QED  BY <1>4, <3>1, <3>2 DEF ApiCrash
  <2>2. QED  BY <1>1, <2>1
<1>5. ASSUME NEW c \in Calls, NEW opts \in Options, Start(c, opts) \/ StartBare(c, opts)
      PROVE  \A d \in Calls : GoesOn(d)
  <2> DEFINE r == Fresh(opts, KnownBy(c))
  <2>1. r \in CallState /\ r.pc = "begin" /\ r.lambda = "none"
    BY FreshType, SDKAssumption DEF Fresh
  <2>2. \A value : Finish(r, "cached", value).pc = "settled" /\ Finish(r, "cached", value).lambda = "none"
    <3> HIDE DEF r
    <3>1. QED  BY <2>1, PhaseFields
  <2>3. Running(r, "open").pc = "open" /\ Running(r, "open").lambda = "running"
    <3> HIDE DEF r
    <3>1. QED  BY <2>1, PhaseFields
  <2>4. ~Started(c) /\ \E x : /\ Become(c, x) /\ x.pc # "commit" /\ x.lambda # "acted"
    BY <1>5, <2>1, <2>2, <2>3 DEF Start, StartBare, Invoke
  <2>5. QED  BY <2>4, BecomesGoesOn DEF Over, Grounded
<1>6. CASE Proceed
  <2>1. ASSUME NEW h \in Handlers, ServeOne(h) \/ FailOne(h) \/ RespondToNobody(h)
        PROVE  UNCHANGED call
    BY <2>1 DEF ServeOne, FailOne, RespondToNobody, clientVars
  <2>2. QED  BY <1>2, <1>3, <1>6, <2>1, AttemptGoesOn, OperationGoesOn DEF Proceed
<1>7. QED  BY <1>4, <1>5, <1>6 DEF CallsStep, CallInSession, CallWithoutSession, RecoveryApiCrash

\* What the calls do to the requests in the API and to the rows.
LEMMA CallsAsk ==
    ASSUME SDKTypeOK, CallsStep
    PROVE  \/ UNCHANGED row /\ \A h \in Handlers : handler'[h] \in {handler[h], Idle}
           \/ \E c \in Calls, s \in Handlers : Send(c, s)
           \/ \E s \in Handlers : Serve(s) \/ DatabaseFails(s)
<1>1. ASSUME NEW s \in Handlers, Respond(s)
      PROVE  UNCHANGED row /\ \A h \in Handlers : handler'[h] \in {handler[h], Idle}
  BY <1>1 DEF Respond, SDKTypeOK, LedgerTypeOK
<1>2. ASSUME NEW slots, Vanish(slots)
      PROVE  UNCHANGED row /\ \A h \in Handlers : handler'[h] \in {handler[h], Idle}
  BY <1>2 DEF Vanish
<1>3. UNCHANGED <<row, handler>> =>
         UNCHANGED row /\ \A h \in Handlers : handler'[h] \in {handler[h], Idle}
  OBVIOUS
<1>4. ASSUME NEW c \in Calls, Attempt(c)
      PROVE  \/ UNCHANGED row /\ \A h \in Handlers : handler'[h] \in {handler[h], Idle}
             \/ \E s \in Handlers : Send(c, s)
  <2>1. CASE Refused(c) \/ Abort(c)
    BY <1>2, <1>3, <2>1 DEF Refused, Abort
  <2>2. CASE Responses(c)
    <3>1. call[c].slot \in Handlers /\ Respond(call[c].slot)
      BY <2>2 DEF Responses, BeginExecute, BeginSkip, BeginRefused, BeginError, CommitDone,
         MarkDone, Answered
    <3>2. QED  BY <1>1, <3>1
  <2>3. QED  BY <1>4, <2>1, <2>2 DEF Attempt
<1>5. ASSUME NEW c \in Calls,
             Act(c) \/ Return(c) \/ ReceiptThrows(c) \/ Throw(c) \/ OperationTimeout(c)
      PROVE  UNCHANGED <<row, handler>>
  BY <1>5 DEF Act, Return, ReceiptThrows, Throw, OperationTimeout
<1>6. ASSUME NEW c \in Calls, NEW opts \in Options, Start(c, opts) \/ StartBare(c, opts)
      PROVE  UNCHANGED <<row, handler>>
  BY <1>6 DEF Start, StartBare, Invoke
<1>7. ASSUME NEW e \in Execs, Crash(e)
      PROVE  UNCHANGED <<row, handler>>
  BY <1>7 DEF Crash
<1>8. CASE Proceed
  BY <1>1, <1>3, <1>4, <1>5, <1>7, <1>8 DEF Proceed, ServeOne, FailOne, RespondToNobody
<1>9. ApiCrash => Vanish(Handlers)
  BY DEF ApiCrash
<1>10. QED
  BY <1>2, <1>3, <1>6, <1>8, <1>9 DEF CallsStep, CallInSession, CallWithoutSession, RecoveryApiCrash

LEMMA ActsKept ==
    ASSUME SDKTypeOK, CallsStep, NEW e \in Execs, NEW f \in Fps, Took(e, f)
    PROVE  Took(e, f)'
<1>1. ASSUME NEW c \in Calls, Act(c)
      PROVE  Took(e, f)'
  BY <1>1, ScopeOfCall DEF Act, SDKTypeOK, Took
<1>2. UNCHANGED acts \/ \E c \in Calls : Act(c)
  BY DEF CallsStep, CallInSession, CallWithoutSession, RecoveryApiCrash, Proceed, Start,
     StartBare, Invoke, Attempt, Refused, Abort, Send, Responses, BeginExecute, BeginSkip,
     BeginRefused, BeginError, CommitDone, MarkDone, Answered, Return, ReceiptThrows, Throw,
     OperationTimeout, ServeOne, FailOne, RespondToNobody, clientVars, Crash, ApiCrash
<1>3. QED  BY <1>1, <1>2 DEF Took

-----------------------------------------------------------------------------
(***************************************************************************)
(* Why a row on record as done is grounded.  The grounds are carried with  *)
(* whatever may still write the row: a call that saw its operation take    *)
(* effect, the commit request it sent, a pass that heard a provider        *)
(* confirm it, a plan that read it FAILED, an approval that read it        *)
(* AWAITING_APPROVAL.                                                       *)
(***************************************************************************)

\* It failed, and was then put before a human.
Reviewed(e, f) == {"FAILED", "AWAITING_APPROVAL"} \subseteq past[e][f]

CallGrounds(c) == Started(c) /\ Grounded(call[c]) => Took(ExecOf(c), FpOf(c))

RequestGrounds(h) ==
    ~At(h, "idle") =>
        /\ EffectRequest(h)
        /\ handler[h].req.op = "commit" => Took(handler[h].req.exec, handler[h].req.fp)

PassGrounds(p) ==
    /\ PassAt(p, "apply") /\ pass[p].found = "VERIFIED" => Took(pass[p].cur.exec, pass[p].cur.fp)
    /\ PassAt(p, "block") => \A s \in pass[p].todo : "FAILED" \in past[s.exec][s.fp]
    /\ PassAt(p, "approve") => Reviewed(pass[p].cur.exec, pass[p].cur.fp)

RowGrounds(e, f) ==
    /\ row[e][f].status \in past[e][f]
    /\ row[e][f].status = "AWAITING_APPROVAL" => "FAILED" \in past[e][f]
    /\ row[e][f].status \in {"COMMITTED", "VERIFIED"} => Took(e, f) \/ Reviewed(e, f)

GroundsInv ==
    /\ RecoveryTypeOK
    /\ \A c \in Calls : CallGrounds(c)
    /\ \A h \in Handlers : RequestGrounds(h)
    /\ \A p \in Passes : PassGrounds(p)
    /\ \A e \in Execs, f \in Fps : RowGrounds(e, f)

\* A row keeps its status, or takes one it has grounds for.
Justified(e, f) ==
    \/ row'[e][f].status = row[e][f].status
    \/ row'[e][f].status \notin {"COMMITTED", "VERIFIED", "AWAITING_APPROVAL"}
    \/ row'[e][f].status = "AWAITING_APPROVAL" /\ "FAILED" \in past[e][f]
    \/ row'[e][f].status \in {"COMMITTED", "VERIFIED"} /\ (Took(e, f) \/ Reviewed(e, f))

LEMMA PastKept ==
    ASSUME RecoveryTypeOK, Watch, NEW e \in Execs, NEW f \in Fps
    PROVE  past'[e][f] = past[e][f] \cup {row'[e][f].status}
  BY DEF Watch

LEMMA RowGroundsKept ==
    ASSUME RecoveryTypeOK, Watch, NEW e \in Execs, NEW f \in Fps,
           RowGrounds(e, f), Took(e, f) => Took(e, f)', Justified(e, f)
    PROVE  RowGrounds(e, f)'
<1>1. past'[e][f] = past[e][f] \cup {row'[e][f].status}
  BY PastKept
<1>2. QED  BY <1>1 DEF RowGrounds, Justified, Reviewed

\* A pass that has read no more keeps its grounds.
LEMMA PassGroundsKept ==
    ASSUME RecoveryTypeOK, Watch, NEW p \in Passes, PassGrounds(p),
           \A e \in Execs, f \in Fps : Took(e, f) => Took(e, f)',
           pass'[p] \in {pass[p], NoPass}
    PROVE  PassGrounds(p)'
<1>1. \A e \in Execs, f \in Fps : past[e][f] \subseteq past'[e][f]
  BY PastKept
<1>2. CASE pass'[p] = NoPass
  BY <1>2 DEF PassGrounds, PassAt, NoPass
<1>3. CASE pass'[p] = pass[p] /\ PassAt(p, "apply")
  <2>1. pass[p].cur.exec \in Execs /\ pass[p].cur.fp \in Fps
    BY <1>3, PassOf, SeenFields DEF ApplyState
  <2>2. PassAt(p, "apply")' /\ ~PassAt(p, "block")' /\ ~PassAt(p, "approve")'
    BY <1>3 DEF PassAt
  <2>3. QED  BY <1>3, <2>1, <2>2 DEF PassGrounds
<1>4. CASE pass'[p] = pass[p] /\ PassAt(p, "block")
  <2>1. \A s \in pass[p].todo : s.exec \in Execs /\ s.fp \in Fps
    BY <1>4, PassOf, SeenFields DEF BlockState
  <2>2. PassAt(p, "block")' /\ ~PassAt(p, "apply")' /\ ~PassAt(p, "approve")'
    BY <1>4 DEF PassAt
  <2>3. QED  BY <1>1, <1>4, <2>1, <2>2 DEF PassGrounds
<1>5. CASE pass'[p] = pass[p] /\ PassAt(p, "approve")
  <2>1. pass[p].cur.exec \in Execs /\ pass[p].cur.fp \in Fps
    BY <1>5, PassOf, SeenFields DEF ApproveState
  <2>2. PassAt(p, "approve")' /\ ~PassAt(p, "block")' /\ ~PassAt(p, "apply")'
    BY <1>5 DEF PassAt
  <2>3. QED  BY <1>1, <1>5, <2>1, <2>2 DEF PassGrounds, Reviewed
<1>6. CASE /\ pass'[p] = pass[p]
           /\ ~PassAt(p, "apply") /\ ~PassAt(p, "block") /\ ~PassAt(p, "approve")
  BY <1>6 DEF PassGrounds, PassAt
<1>7. QED  BY <1>2, <1>3, <1>4, <1>5, <1>6

\* The calls, and the requests they send.
LEMMA CallsGround ==
    ASSUME EffectEndpoints \subseteq Endpoints, GroundsInv, CallsStep, Watch
    PROVE  GroundsInv'
<1>1. /\ RecoveryTypeOK /\ SDKTypeOK /\ LedgerTypeOK /\ RecoveryTypeOK'
      /\ \A c \in Calls : CallGrounds(c)
      /\ \A h \in Handlers : RequestGrounds(h)
      /\ \A p \in Passes : PassGrounds(p)
      /\ \A e \in Execs, f \in Fps : RowGrounds(e, f)
  BY CallsStepType, HistoryType DEF GroundsInv, RecoveryTypeOK, SDKTypeOK
<1>2. \A e \in Execs, f \in Fps : Took(e, f) => Took(e, f)'
  BY <1>1, ActsKept
<1>3. \A c \in Calls : CallGrounds(c)'
  BY <1>1, <1>2, CallsGoOn, ScopeOfCall DEF CallGrounds, GoesOn
<1>4. \A p \in Passes : PassGrounds(p)'
  <2>1. \A p \in Passes : pass'[p] \in {pass[p], NoPass}
    BY DEF CallsStep, CallInSession, CallWithoutSession, RecoveryApiCrash, recoveryVars
  <2>2. QED  BY <1>1, <1>2, <2>1, PassGroundsKept
<1>5. \A h \in Handlers : ~At(h, "idle") => handler[h].req.fp \in Fps /\ handler[h].req.exec \in Execs
  BY <1>1, BusyHandler, BusyFields
<1>6. ASSUME NEW h \in Handlers, handler'[h] \in {handler[h], Idle}
      PROVE  RequestGrounds(h)'
  <2>1. CASE handler'[h] = Idle
    BY <2>1 DEF RequestGrounds, At, Idle
  <2>2. CASE handler'[h] = handler[h]
    BY <1>1, <1>2, <1>5, <2>2 DEF RequestGrounds, EffectRequest, At
  <2>3. QED  BY <1>6, <2>1, <2>2
<1>7. /\ \A h \in Handlers : RequestGrounds(h)'
      /\ \A e \in Execs, f \in Fps : Justified(e, f)
  <2>1. CASE UNCHANGED row /\ \A h \in Handlers : handler'[h] \in {handler[h], Idle}
    BY <1>6, <2>1 DEF Justified
  <2>2. ASSUME NEW c \in Calls, NEW s \in Handlers, Send(c, s)
        PROVE  UNCHANGED row /\ \A h \in Handlers : RequestGrounds(h)'
    <3>1. /\ UNCHANGED row /\ \A h \in Handlers \ {s} : handler'[h] = handler[h]
          /\ handler'[s] = [pc |-> "received", req |-> RequestOf(c), other |-> RequestOf(c).exec,
                            seen |-> {}, answer |-> "none"]
      BY <1>1, <2>2 DEF Send, Receive, LedgerTypeOK
    <3>2. /\ RequestOf(c).op \in EffectEndpoints
          /\ RequestOf(c).op = "commit" => call[c].pc = "commit"
          /\ RequestOf(c).exec = ExecOf(c) /\ RequestOf(c).fp = FpOf(c)
      BY <2>2 DEF Send, Sending, RequestOf, OpOf, MarkOp, EffectEndpoints
    <3>3. RequestOf(c).op = "commit" => Took(ExecOf(c), FpOf(c))'
      BY <1>1, <1>2, <2>2, <3>2, ScopeOfCall DEF Send, Sending, CallGrounds, Grounded
    <3>4. RequestGrounds(s)'
      <4>1. handler'[s].req = RequestOf(c) /\ handler'[s].pc = "received"
        BY <3>1
      <4>2. EffectRequest(s)'
        BY <3>2, <4>1 DEF EffectRequest, EffectEndpoints, At
      <4>3. (handler[s].req.op = "commit" => Took(handler[s].req.exec, handler[s].req.fp))'
        BY <3>2, <3>3, <4>1 DEF Took
      <4>4. QED  BY <4>2, <4>3 DEF RequestGrounds
    <3>5. QED  BY <1>6, <3>1, <3>4
  <2>3. ASSUME NEW s \in Handlers, Serve(s) \/ DatabaseFails(s)
        PROVE  /\ \A h \in Handlers : RequestGrounds(h)'
               /\ \A e \in Execs, f \in Fps : Justified(e, f)
    <3>1. ~At(s, "idle")
      BY <1>1, <2>3, ServesOne DEF DatabaseFails, At, Busy, BusyPc
    <3>2. EffectRequest(s) /\ Moves(s)
      BY <1>1, <2>3, <3>1, RequestMoves DEF RequestGrounds
    <3>3. handler[s].req.op = "commit" => Took(handler[s].req.exec, handler[s].req.fp)
      BY <1>1, <3>1 DEF RequestGrounds
    <3>4. RequestGrounds(s)'
      <4>1. handler'[s].req = handler[s].req /\ handler'[s].pc \notin {"idle", "mergeOwn"}
            /\ (handler[s].req.op # "begin" => handler'[s].pc = "done")
        BY <3>2 DEF Moves
      <4>2. EffectRequest(s)'
        BY <3>2, <4>1 DEF EffectRequest, At
      <4>3. QED  BY <1>2, <1>5, <3>1, <3>3, <4>1, <4>2 DEF RequestGrounds
    <3>5. ASSUME NEW e \in Execs, NEW f \in Fps
          PROVE  Justified(e, f)
      <4>1. StatusWrite(s, e, f)
        BY <3>2 DEF Moves
      <4>2. handler[s].req.op # "begin" => handler[s].req.op \in {"commit", "unknown", "failed"}
        BY <3>2 DEF EffectRequest
      <4>3. Target["commit"] = "COMMITTED" /\ Target["unknown"] = "UNKNOWN" /\ Target["failed"] = "FAILED"
        BY DEF Target
      <4>4. QED  BY <3>3, <4>1, <4>2, <4>3 DEF StatusWrite, Justified
    <3>6. QED  BY <1>6, <3>2, <3>4, <3>5 DEF Moves
  <2>4. QED  BY <1>1, <2>1, <2>2, <2>3, CallsAsk DEF Justified
<1>8. \A e \in Execs, f \in Fps : RowGrounds(e, f)'
  BY <1>1, <1>2, <1>7, RowGroundsKept
<1>9. QED  BY <1>1, <1>3, <1>4, <1>7, <1>8 DEF GroundsInv

\* A request of the recovery services.
LEMMA PassGround ==
    ASSUME GroundsInv, NEW p \in Passes, PassStep(p), Watch
    PROVE  GroundsInv'
<1>1. /\ RecoveryTypeOK /\ SDKTypeOK /\ LedgerTypeOK /\ RecoveryTypeOK'
      /\ \A c \in Calls : CallGrounds(c)
      /\ \A h \in Handlers : RequestGrounds(h)
      /\ \A q \in Passes : PassGrounds(q)
      /\ \A e \in Execs, f \in Fps : RowGrounds(e, f)
  BY PassStepType, HistoryType DEF GroundsInv, RecoveryTypeOK, SDKTypeOK, PassStep
<1>2. \A e \in Execs, f \in Fps : past[e][f] \subseteq past'[e][f]
  BY <1>1, PastKept
<1>3. ASSUME UNCHANGED <<handler, call, acts>>, \A e \in Execs, f \in Fps : Justified(e, f),
             NEW r, BecomePass(p, r), PassGrounds(p)'
      PROVE  GroundsInv'
  <2>1. \A e \in Execs, f \in Fps : Took(e, f) => Took(e, f)'
    BY <1>3 DEF Took
  <2>2. \A c \in Calls : CallGrounds(c)'
    BY <1>1, <1>3 DEF CallGrounds, Took, Started
  <2>3. \A h \in Handlers : RequestGrounds(h)'
    BY <1>1, <1>3 DEF RequestGrounds, Took, EffectRequest, At
  <2>4. ASSUME NEW q \in Passes, q # p
        PROVE  PassGrounds(q)'
    <3>1. pass'[q] = pass[q]
      BY <1>1, <1>3, <2>4 DEF BecomePass, RecoveryTypeOK
    <3>2. QED  BY <1>1, <2>1, <3>1, PassGroundsKept
  <2>5. \A e \in Execs, f \in Fps : RowGrounds(e, f)'
    BY <1>1, <1>3, <2>1, RowGroundsKept
  <2>6. QED  BY <1>1, <1>3, <2>2, <2>3, <2>4, <2>5 DEF GroundsInv
<1>4. ASSUME NEW s, NEW r, WritesRow(p, s, r)
      PROVE  /\ UNCHANGED <<handler, call, acts>>
             /\ s.exec \in Execs /\ s.fp \in Fps /\ row'[s.exec][s.fp] = r
             /\ \A e \in Execs, f \in Fps : (e = s.exec /\ f = s.fp) \/ row'[e][f] = row[e][f]
  BY <1>1, <1>4, SeenFields DEF WritesRow, RowUpdate, Store, LedgerTypeOK, clientVars
<1>5. /\ RestOfAll => UNCHANGED <<handler, call, acts>>
      /\ RestOfAll => \A e \in Execs, f \in Fps : Justified(e, f)
  BY DEF RestOfAll, Justified
<1>6. ASSUME NEW r, BecomePass(p, r), r.pc \in {"idle", "check", "plan", "create"}
      PROVE  PassGrounds(p)'
  <2>1. pass'[p] = r
    BY <1>1, <1>6 DEF BecomePass, RecoveryTypeOK
  <2>2. QED  BY <1>6, <2>1 DEF PassGrounds, PassAt
<1>a. CASE CheckProvider(p)
  <2>1. pass[p] \in CheckState
    BY <1>1, <1>a, PassOf DEF CheckProvider
  <2>2. PICK s \in pass[p].todo :
           \/ BecomePass(p, [pass[p] EXCEPT !.todo = @ \ {s}])
           \/ \E found \in Conclusions :
                 /\ ProviderMay(s, found)
                 /\ BecomePass(p, [pc |-> "apply", why |-> pass[p].why,
                                   todo |-> pass[p].todo \ {s}, cur |-> s, found |-> found])
    BY <1>a DEF CheckProvider
  <2>3. CASE BecomePass(p, [pass[p] EXCEPT !.todo = @ \ {s}])
    <3>1. [pass[p] EXCEPT !.todo = @ \ {s}].pc = "check"
      BY <2>1 DEF CheckState
    <3>2. QED  BY <1>3, <1>5, <1>6, <1>a, <2>3, <3>1 DEF CheckProvider
  <2>4. ASSUME NEW found \in Conclusions, ProviderMay(s, found),
               BecomePass(p, [pc |-> "apply", why |-> pass[p].why,
                              todo |-> pass[p].todo \ {s}, cur |-> s, found |-> found])
        PROVE  GroundsInv'
    <3>1. pass'[p] = [pc |-> "apply", why |-> pass[p].why,
                      todo |-> pass[p].todo \ {s}, cur |-> s, found |-> found]
      BY <1>1, <2>4 DEF BecomePass, RecoveryTypeOK
    <3>2. pass'[p].pc = "apply" /\ pass'[p].cur = s /\ pass'[p].found = found
      BY <3>1
    <3>3. found = "VERIFIED" => Took(s.exec, s.fp)
      BY <2>4 DEF ProviderMay, Took
    <3>4. acts' = acts
      BY <1>a DEF CheckProvider, RestOfAll
    <3>5. PassGrounds(p)'
      BY <3>2, <3>3, <3>4 DEF PassGrounds, PassAt, Took
    <3>6. QED  BY <1>3, <1>5, <1>a, <2>4, <3>5 DEF CheckProvider
  <2>5. QED  BY <2>2, <2>3, <2>4
<1>b. CASE ApplyOutcome(p)
  <2> DEFINE s == pass[p].cur
             r == Resolved(row[s.exec][s.fp], s.row, pass[p].found)
  <2>1. /\ PassAt(p, "apply") /\ pass[p] \in ApplyState /\ WritesRow(p, s, r)
        /\ r.status = pass[p].found
    BY <1>1, <1>b, ApplyWrites
  <2>2. PICK n \in CheckState : BecomePass(p, n)
    BY <1>1, <1>b, ApplyWrites
  <2>3. pass[p].found = "VERIFIED" => Took(s.exec, s.fp)
    BY <1>1, <2>1 DEF PassGrounds
  <2>4. pass[p].found \in {"VERIFIED", "FAILED"}
    BY <2>1 DEF ApplyState, Conclusions
  <2> HIDE DEF s, r
  <2>5. \A e \in Execs, f \in Fps : Justified(e, f)
    BY <1>4, <2>1, <2>3, <2>4 DEF Justified
  <2>6. n.pc = "check"
    BY <2>2 DEF CheckState
  <2>7. QED  BY <1>3, <1>4, <1>6, <2>1, <2>2, <2>5, <2>6
<1>c. CASE FinishPass(p) \/ CreateSession(p) \/ PassFails(p)
  <2>1. RestOfAll /\ \E r : BecomePass(p, r) /\ r.pc \in {"idle", "plan"}
    BY <1>c DEF FinishPass, CreateSession, PassFails, NoPass
  <2>2. QED  BY <1>3, <1>5, <1>6, <2>1
<1>d. CASE ReadPlan(p)
  <2> DEFINE seen == {s \in RowsSeen(Workflow) : s.row.status # "NONE"}
             r == [pc |-> "block", why |-> pass[p].why, todo |-> {s \in seen : NeedsHuman(s.row)},
                   verdict |-> Verdict({s.row : s \in seen})]
  <2>1. BecomePass(p, r) /\ RestOfAll
    BY <1>d DEF ReadPlan
  <2>2. r.pc = "block" /\ r.todo = {s \in seen : NeedsHuman(s.row)}
    OBVIOUS
  <2>3. \A s \in r.todo : "FAILED" \in past[s.exec][s.fp]
    <3>1. \A s \in seen : s.exec \in Execs /\ s.fp \in Fps /\ s.row = row[s.exec][s.fp]
      BY <1>1, RowsSeenType, RecoveryAssumption
    <3>2. \A s \in r.todo : s \in seen /\ s.row.status = "FAILED"
      BY <2>2 DEF NeedsHuman
    <3> HIDE DEF r, seen
    <3>3. QED  BY <1>1, <3>1, <3>2 DEF RowGrounds
  <2>4. \A s \in r.todo : s.exec \in Execs /\ s.fp \in Fps
    BY <1>1, RowsSeenType, RecoveryAssumption
  <2> HIDE DEF r
  <2>5. PassGrounds(p)'
    <3>1. pass'[p] = r
      BY <1>1, <2>1 DEF BecomePass, RecoveryTypeOK
    <3>2. \A s \in r.todo : "FAILED" \in past'[s.exec][s.fp]
      BY <1>2, <2>3, <2>4
    <3>3. PassAt(p, "block")' /\ ~PassAt(p, "apply")' /\ ~PassAt(p, "approve")'
      BY <2>2, <3>1 DEF PassAt
    <3>4. QED  BY <3>1, <3>2, <3>3 DEF PassGrounds
  <2>6. QED  BY <1>3, <1>5, <2>1, <2>5
<1>e. CASE BlockFailed(p)
  <2>1. PassAt(p, "block") /\ pass[p] \in BlockState
    BY <1>1, <1>e, BlockWrites
  <2>2. PICK s \in pass[p].todo :
           /\ WritesRow(p, s, Await(row[s.exec][s.fp]))
           /\ Await(row[s.exec][s.fp]).status = "AWAITING_APPROVAL"
           /\ \E r \in BlockState : BecomePass(p, r) /\ r.todo = pass[p].todo \ {s}
    BY <1>1, <1>e, BlockWrites
  <2>3. PICK r \in BlockState : BecomePass(p, r) /\ r.todo = pass[p].todo \ {s}
    BY <2>2
  <2>4. \A x \in pass[p].todo : /\ "FAILED" \in past[x.exec][x.fp]
                                /\ x.exec \in Execs /\ x.fp \in Fps
    BY <1>1, <2>1, SeenFields DEF PassGrounds, BlockState
  <2>5. \A e \in Execs, f \in Fps : Justified(e, f)
    BY <1>4, <2>2, <2>4 DEF Justified
  <2>6. PassGrounds(p)'
    <3>1. pass'[p] = r /\ r.pc = "block"
      BY <1>1, <2>3 DEF BecomePass, RecoveryTypeOK, BlockState
    <3>2. \A x \in r.todo : "FAILED" \in past'[x.exec][x.fp]
      BY <1>2, <2>3, <2>4
    <3>3. PassAt(p, "block")' /\ ~PassAt(p, "apply")' /\ ~PassAt(p, "approve")'
      BY <3>1 DEF PassAt
    <3>4. QED  BY <3>1, <3>2, <3>3 DEF PassGrounds
  <2>7. QED  BY <1>3, <1>4, <2>2, <2>3, <2>5, <2>6
<1>f. CASE FinishPlan(p)
  <2>1. RestOfAll /\ \E r : BecomePass(p, r) /\ r.pc \in {"idle", "create"}
    BY <1>f DEF FinishPlan, NoPass
  <2>2. QED  BY <1>3, <1>5, <1>6, <2>1
<1>g. CASE ApproveSideEffect(p)
  <2> DEFINE s == pass[p].cur
             r == Approved(row[s.exec][s.fp], s.row)
  <2>1. /\ PassAt(p, "approve") /\ pass[p] \in ApproveState /\ WritesRow(p, s, r)
        /\ r.status = "VERIFIED" /\ BecomePass(p, NoPass)
    BY <1>1, <1>g, ApproveWrites
  <2>2. Reviewed(s.exec, s.fp)
    BY <1>1, <2>1 DEF PassGrounds
  <2> HIDE DEF s, r
  <2>3. \A e \in Execs, f \in Fps : Justified(e, f)
    BY <1>4, <2>1, <2>2 DEF Justified
  <2>4. QED  BY <1>3, <1>4, <1>6, <2>1, <2>3 DEF NoPass
<1>i. CASE ReadForApproval(p)
  <2>1. PICK s \in RowsSeen(Execs) : /\ s.row.status = "AWAITING_APPROVAL"
                                     /\ BecomePass(p, [pc |-> "approve", cur |-> s])
    BY <1>i DEF ReadForApproval
  <2>2. s.exec \in Execs /\ s.fp \in Fps /\ s.row = row[s.exec][s.fp]
    BY <1>1, RowsSeenType
  <2>3. Reviewed(s.exec, s.fp)
    BY <1>1, <2>1, <2>2 DEF RowGrounds, Reviewed
  <2>4. pass'[p] = [pc |-> "approve", cur |-> s]
    BY <1>1, <2>1 DEF BecomePass, RecoveryTypeOK
  <2>5. PassGrounds(p)'
    BY <1>2, <2>2, <2>3, <2>4 DEF PassGrounds, PassAt, Reviewed
  <2>6. QED  BY <1>3, <1>5, <1>i, <2>1, <2>5 DEF ReadForApproval
<1>j. CASE StartAnyPass(p) \/ \E e \in Execs : RequestSession(p, e)
  <2>1. RestOfAll /\ \E r : BecomePass(p, r) /\ r.pc \in {"check", "plan", "create"}
    <3>1. ASSUME NEW e \in Execs, RequestSession(p, e)
          PROVE  RestOfAll /\ \E r : BecomePass(p, r) /\ r.pc \in {"plan", "create"}
      <4>1. [pc |-> IF e \in Workflow THEN "plan" ELSE "create", why |-> e].pc \in {"plan", "create"}
        OBVIOUS
      <4>2. QED  BY <3>1, <4>1 DEF RequestSession
    <3>2. ASSUME NEW why, NEW es, StartPass(p, why, es)
          PROVE  RestOfAll /\ \E r : BecomePass(p, r) /\ r.pc = "check"
      BY <3>2 DEF StartPass
    <3>3. CASE StartWorkerPass(p)
      BY <3>3 DEF StartWorkerPass
    <3>4. QED  BY <1>j, <3>1, <3>2, <3>3 DEF StartAnyPass
  <2>2. QED  BY <1>3, <1>5, <1>6, <2>1
<1>k. QED
  BY <1>a, <1>b, <1>c, <1>d, <1>e, <1>f, <1>g, <1>i, <1>j DEF PassStep, Work

LEMMA GroundsNext ==
    ASSUME EffectEndpoints \subseteq Endpoints, GroundsInv, [RecoveryNext]_allVars
    PROVE  GroundsInv'
<1>1. CASE UNCHANGED allVars
  <2>1. RecoveryTypeOK'
    BY RecoveryNextType DEF GroundsInv
  <2>2. /\ \A c \in Calls : CallGrounds(c)'
        /\ \A h \in Handlers : RequestGrounds(h)'
    BY <1>1 DEF GroundsInv, allVars, CallGrounds, RequestGrounds, Took, Started, EffectRequest, At
  <2>3. /\ \A p \in Passes : PassGrounds(p)'
        /\ \A e \in Execs, f \in Fps : RowGrounds(e, f)'
    BY <1>1 DEF GroundsInv, allVars, PassGrounds, RowGrounds, Took, Reviewed, PassAt
  <2>4. QED  BY <2>1, <2>2, <2>3 DEF GroundsInv
<1>2. QED  BY <1>1, CallsGround, PassGround, RecoverySteps

LEMMA GroundsInit == RecoveryInit => GroundsInv
<1> SUFFICES ASSUME RecoveryInit
             PROVE  GroundsInv
  OBVIOUS
<1>1. RecoveryTypeOK
  BY RecoveryInitType
<1>2. \A c \in Calls : CallGrounds(c)
  BY DEF RecoveryInit, Init, CallGrounds, Started, NotStarted
<1>3. \A h \in Handlers : RequestGrounds(h)
  BY DEF RecoveryInit, Init, LedgerInit, RequestGrounds, At, Idle
<1>4. \A p \in Passes : PassGrounds(p)
  BY DEF RecoveryInit, PassGrounds, PassAt, NoPass
<1>5. \A e \in Execs, f \in Fps : RowGrounds(e, f)
  BY DEF RecoveryInit, Init, LedgerInit, RowGrounds, NoRow, NewRow
<1>6. QED  BY <1>1, <1>2, <1>3, <1>4, <1>5 DEF GroundsInv

LEMMA GroundsAlways ==
    ASSUME EffectEndpoints \subseteq Endpoints
    PROVE  RecoverySpec => []GroundsInv
<1>1. GroundsInv /\ [RecoveryNext]_allVars => GroundsInv'
  BY GroundsNext
<1>2. QED  BY <1>1, GroundsInit, PTL DEF RecoverySpec

\* What the ledger has on record as done took effect, or failed and was then
\* put before a human, however calls, resent requests, passes, plans and
\* approvals overwrite each other.
THEOREM VerifiedIsGrounded ==
    ASSUME EffectEndpoints \subseteq Endpoints
    PROVE  RecoverySpec => []VerifiedOnGrounds
<1>1. GroundsInv => VerifiedOnGrounds
  BY DEF GroundsInv, RowGrounds, Took, Reviewed, VerifiedOnGrounds
<1>2. QED  BY <1>1, GroundsAlways, PTL

-----------------------------------------------------------------------------
(***************************************************************************)
(* Why a decision stands.  Only its own calls and their requests send      *)
(* anything about a row, those are over, and the recovery services take up *)
(* rows that are UNKNOWN, FAILED or AWAITING_APPROVAL when they read them. *)
(***************************************************************************)

\* The recovery request, as it is, may still write the row.
Holding(r, e, f) ==
    \/ r.pc \in {"check", "apply", "block"} /\ \E s \in r.todo : s.exec = e /\ s.fp = f
    \/ r.pc \in {"apply", "approve"} /\ r.cur.exec = e /\ r.cur.fp = f

LEMMA HeldIsHolding ==
    ASSUME NEW p, NEW e, NEW f
    PROVE  /\ HeldBy(p, e, f) <=> Holding(pass[p], e, f)
           /\ HeldBy(p, e, f)' <=> Holding(pass'[p], e, f)
  BY DEF HeldBy, Holding, PassAt

\* What a request of the recovery services takes up, and what it writes.
LEMMA PassLeavesDone ==
    ASSUME RecoveryTypeOK, NEW p \in Passes, PassStep(p), NEW e \in Execs, NEW f \in Fps,
           row[e][f].status \in {"COMMITTED", "VERIFIED"}, ~HeldBy(p, e, f)
    PROVE  /\ UNCHANGED <<handler, call>> /\ row'[e][f].status = row[e][f].status
           /\ \A q \in Passes : ~HeldBy(q, e, f) => ~HeldBy(q, e, f)'
<1>1. ~Holding(pass[p], e, f) /\ LedgerTypeOK
  BY HeldIsHolding DEF RecoveryTypeOK, SDKTypeOK
<1>2. ASSUME UNCHANGED <<handler, call>>, row'[e][f].status = row[e][f].status,
             NEW r, BecomePass(p, r), ~Holding(r, e, f)
      PROVE  /\ UNCHANGED <<handler, call>> /\ row'[e][f].status = row[e][f].status
             /\ \A q \in Passes : ~HeldBy(q, e, f) => ~HeldBy(q, e, f)'
  <2>1. pass'[p] = r /\ \A q \in Passes \ {p} : pass'[q] = pass[q]
    BY <1>2 DEF BecomePass, RecoveryTypeOK
  <2>2. QED  BY <1>2, <2>1, HeldIsHolding
<1>3. ASSUME NEW s, NEW r, WritesRow(p, s, r), ~(s.exec = e /\ s.fp = f)
      PROVE  UNCHANGED <<handler, call>> /\ row'[e][f].status = row[e][f].status
  BY <1>1, <1>3, SeenFields DEF WritesRow, RowUpdate, Store, LedgerTypeOK, clientVars
<1>4. RestOfAll => UNCHANGED <<handler, call>> /\ row'[e][f].status = row[e][f].status
  BY DEF RestOfAll
<1>5. \A es \in SUBSET Execs : \A s \in RowsSeen(es) :
         s.row.status \notin {"COMMITTED", "VERIFIED"} => ~(s.exec = e /\ s.fp = f)
  BY RowsSeenType
<1>6. \A r : r.pc \in {"idle", "plan", "create"} => ~Holding(r, e, f)
  BY DEF Holding
<1>a. CASE CheckProvider(p)
  <2>1. pass[p] \in CheckState /\ pass[p].pc = "check"
    BY <1>a, PassOf DEF CheckProvider, PassAt
  <2>2. \A s \in pass[p].todo : ~(s.exec = e /\ s.fp = f)
    BY <1>1, <2>1 DEF Holding
  <2>3. ASSUME NEW s \in pass[p].todo, NEW found
        PROVE  /\ ~Holding([pass[p] EXCEPT !.todo = @ \ {s}], e, f)
               /\ ~Holding([pc |-> "apply", why |-> pass[p].why, todo |-> pass[p].todo \ {s},
                            cur |-> s, found |-> found], e, f)
    BY <2>1, <2>2 DEF Holding, CheckState
  <2>4. RestOfAll /\ \E r : BecomePass(p, r) /\ ~Holding(r, e, f)
    BY <1>a, <2>3 DEF CheckProvider
  <2>5. QED  BY <1>2, <1>4, <2>4
<1>b. CASE ApplyOutcome(p)
  <2> DEFINE s == pass[p].cur
             r == Resolved(row[s.exec][s.fp], s.row, pass[p].found)
  <2>1. PassAt(p, "apply") /\ WritesRow(p, s, r)
    BY <1>b, ApplyWrites
  <2>2. PICK n \in CheckState : BecomePass(p, n) /\ n.todo = pass[p].todo
    BY <1>b, ApplyWrites
  <2>3. ~(s.exec = e /\ s.fp = f) /\ \A x \in pass[p].todo : ~(x.exec = e /\ x.fp = f)
    BY <1>1, <2>1 DEF Holding, PassAt
  <2> HIDE DEF s, r
  <2>4. n.pc = "check"
    BY <2>2 DEF CheckState
  <2>5. ~Holding(n, e, f)
    BY <2>2, <2>3, <2>4 DEF Holding
  <2>6. QED  BY <1>2, <1>3, <2>1, <2>2, <2>3, <2>5
<1>c. CASE \/ FinishPass(p) \/ CreateSession(p) \/ PassFails(p) \/ FinishPlan(p)
           \/ \E x \in Execs : RequestSession(p, x)
  <2>1. \A x : [pc |-> IF x \in Workflow THEN "plan" ELSE "create", why |-> x].pc
                 \in {"plan", "create"}
    OBVIOUS
  <2>2. RestOfAll /\ \E r : BecomePass(p, r) /\ r.pc \in {"idle", "plan", "create"}
    <3>1. ASSUME NEW x \in Execs, RequestSession(p, x)
          PROVE  RestOfAll /\ \E r : BecomePass(p, r) /\ r.pc \in {"plan", "create"}
      BY <2>1, <3>1 DEF RequestSession
    <3>2. CASE FinishPass(p) \/ CreateSession(p) \/ PassFails(p)
      BY <3>2 DEF FinishPass, CreateSession, PassFails, NoPass
    <3>3. CASE FinishPlan(p)
      BY <3>3 DEF FinishPlan, NoPass
    <3>4. QED  BY <1>c, <3>1, <3>2, <3>3
  <2>3. QED  BY <1>2, <1>4, <1>6, <2>2
<1>d. CASE ReadPlan(p)
  <2> DEFINE seen == {s \in RowsSeen(Workflow) : s.row.status # "NONE"}
             r == [pc |-> "block", why |-> pass[p].why, todo |-> {s \in seen : NeedsHuman(s.row)},
                   verdict |-> Verdict({s.row : s \in seen})]
  <2>1. BecomePass(p, r) /\ RestOfAll
    BY <1>d DEF ReadPlan
  <2>2. \A s \in r.todo : ~(s.exec = e /\ s.fp = f)
    BY <1>5, RecoveryAssumption DEF NeedsHuman
  <2>3. r.pc = "block"
    OBVIOUS
  <2> HIDE DEF r
  <2>4. ~Holding(r, e, f)
    BY <2>2, <2>3 DEF Holding
  <2>5. QED  BY <1>2, <1>4, <2>1, <2>4
<1>e. CASE BlockFailed(p)
  <2>1. PICK s \in pass[p].todo :
           /\ PassAt(p, "block") /\ WritesRow(p, s, Await(row[s.exec][s.fp]))
           /\ \E r \in BlockState : BecomePass(p, r) /\ r.todo = pass[p].todo \ {s}
    BY <1>e, BlockWrites
  <2>2. PICK r \in BlockState : BecomePass(p, r) /\ r.todo = pass[p].todo \ {s}
    BY <2>1
  <2>3. \A x \in pass[p].todo : ~(x.exec = e /\ x.fp = f)
    BY <1>1, <2>1 DEF Holding, PassAt
  <2>4. ~Holding(r, e, f)
    BY <2>2, <2>3 DEF Holding, BlockState
  <2>5. QED  BY <1>2, <1>3, <2>1, <2>2, <2>3, <2>4
<1>f. CASE ApproveSideEffect(p)
  <2> DEFINE s == pass[p].cur
             r == Approved(row[s.exec][s.fp], s.row)
  <2>1. PassAt(p, "approve") /\ WritesRow(p, s, r) /\ BecomePass(p, NoPass)
    BY <1>f, ApproveWrites
  <2>2. ~(s.exec = e /\ s.fp = f)
    BY <1>1, <2>1 DEF Holding, PassAt
  <2> HIDE DEF s, r
  <2>3. QED  BY <1>2, <1>3, <1>6, <2>1, <2>2 DEF NoPass
<1>g. CASE ReadForApproval(p)
  <2>1. PICK s \in RowsSeen(Execs) : /\ s.row.status = "AWAITING_APPROVAL"
                                     /\ BecomePass(p, [pc |-> "approve", cur |-> s])
    BY <1>g DEF ReadForApproval
  <2>2. ~Holding([pc |-> "approve", cur |-> s], e, f)
    BY <1>5, <2>1 DEF Holding
  <2>3. QED  BY <1>2, <1>4, <1>g, <2>1, <2>2 DEF ReadForApproval
<1>i. CASE StartAnyPass(p)
  <2>1. ASSUME NEW es \in SUBSET Execs, NEW why, NEW todo \in SUBSET Unknown(es)
        PROVE  ~Holding([pc |-> "check", why |-> why, todo |-> todo], e, f)
    <3>1. \A s \in todo : ~(s.exec = e /\ s.fp = f)
      BY <1>5 DEF Unknown
    <3>2. QED  BY <3>1 DEF Holding
  <2>2. ASSUME NEW why, NEW es \in SUBSET Execs, StartPass(p, why, es)
        PROVE  RestOfAll /\ \E r : BecomePass(p, r) /\ ~Holding(r, e, f)
    BY <2>1, <2>2 DEF StartPass
  <2>3. CASE StartWorkerPass(p)
    <3>1. RestOfAll /\ \E r : BecomePass(p, r) /\ ~Holding(r, e, f)
      BY <2>1, <2>3 DEF StartWorkerPass
    <3>2. QED  BY <1>2, <1>4, <3>1
  <2>4. QED  BY <1>i, <1>2, <1>4, <2>2, <2>3, RecoveryAssumption DEF StartAnyPass
<1>j. QED
  BY <1>a, <1>b, <1>c, <1>d, <1>e, <1>f, <1>g, <1>i DEF PassStep, Work

\* The calls of the row are over, and with them its requests.
LEMMA CallsLeaveDone ==
    ASSUME GroundsInv, CallsStep, NEW e \in Execs, NEW f \in Fps, Done(e, f)
    PROVE  Done(e, f)' /\ row'[e][f].status = row[e][f].status
<1>1. /\ SDKTypeOK /\ LedgerTypeOK
      /\ \A h \in Handlers : RequestGrounds(h)
  BY DEF GroundsInv, RecoveryTypeOK, SDKTypeOK
<1>2. \A c \in Calls : ExecOf(c) = e /\ FpOf(c) = f => Over(c) /\ Over(c)'
  BY <1>1, CallsGoOn DEF Done, Released, GoesOn
<1>3. \A p \in Passes : ~HeldBy(p, e, f)'
  <2>1. \A p \in Passes : pass'[p] \in {pass[p], NoPass}
    BY DEF CallsStep, CallInSession, CallWithoutSession, RecoveryApiCrash, recoveryVars
  <2>2. ~Holding(NoPass, e, f)
    BY DEF Holding, NoPass
  <2>3. QED  BY <2>1, <2>2, HeldIsHolding DEF Done, Released
<1>4. \A h \in Handlers : handler'[h] \in {handler[h], Idle} => ~RequestFor(h, e, f)'
  BY DEF Done, Released, RequestFor, At, Idle
<1>5. (\A h \in Handlers : ~RequestFor(h, e, f)') /\ row'[e][f].status = row[e][f].status
  <2>1. ASSUME NEW c \in Calls, NEW s \in Handlers, Send(c, s)
        PROVE  (\A h \in Handlers : ~RequestFor(h, e, f)') /\ row' = row
    <3>1. /\ row' = row /\ \A h \in Handlers \ {s} : handler'[h] = handler[h]
          /\ handler'[s].req.exec = ExecOf(c) /\ handler'[s].req.fp = FpOf(c)
      BY <1>1, <2>1 DEF Send, Receive, RequestOf, LedgerTypeOK
    <3>2. ~(ExecOf(c) = e /\ FpOf(c) = f)
      BY <1>2, <2>1 DEF Send, Sending, Over
    <3>3. ~RequestFor(s, e, f)'
      BY <3>1, <3>2 DEF RequestFor
    <3>4. QED  BY <1>4, <3>1, <3>3
  <2>2. ASSUME NEW s \in Handlers, Serve(s) \/ DatabaseFails(s)
        PROVE  (\A h \in Handlers : ~RequestFor(h, e, f)') /\ row'[e][f].status = row[e][f].status
    <3>1. ~At(s, "idle")
      BY <1>1, <2>2, ServesOne DEF DatabaseFails, At, Busy, BusyPc
    <3>2. Moves(s)
      BY <1>1, <2>2, <3>1, RequestMoves DEF RequestGrounds
    <3>3. ~(handler[s].req.exec = e /\ handler[s].req.fp = f)
      BY <3>1 DEF Done, Released, RequestFor
    <3>4. row'[e][f].status = row[e][f].status
      BY <3>2, <3>3 DEF Moves, StatusWrite
    <3>5. ~RequestFor(s, e, f)'
      BY <3>2, <3>3 DEF Moves, RequestFor
    <3>6. QED  BY <1>4, <3>2, <3>4, <3>5 DEF Moves
  <2>3. QED  BY <1>1, <1>4, <2>1, <2>2, CallsAsk
<1>6. QED  BY <1>2, <1>3, <1>5 DEF Done, Released

LEMMA DoneStays ==
    ASSUME GroundsInv, [RecoveryNext]_allVars, NEW e \in Execs, NEW f \in Fps, Done(e, f)
    PROVE  Done(e, f)' /\ row'[e][f].status = row[e][f].status
<1>1. ASSUME NEW p \in Passes, PassStep(p)
      PROVE  Done(e, f)' /\ row'[e][f].status = row[e][f].status
  <2>1. /\ UNCHANGED <<handler, call>> /\ row'[e][f].status = row[e][f].status
        /\ \A q \in Passes : ~HeldBy(q, e, f) => ~HeldBy(q, e, f)'
    BY <1>1, PassLeavesDone DEF GroundsInv, Done, Released
  <2>2. QED  BY <2>1 DEF Done, Released, RequestFor, Over, Started, At
<1>2. CASE UNCHANGED allVars
  BY <1>2 DEF allVars, Done, Released, RequestFor, Over, Started, At, HeldBy, PassAt
<1>3. QED  BY <1>1, <1>2, CallsLeaveDone, RecoverySteps

\* A row on record as done that every call, request and pass has released is
\* done for good, for however many overlapping recovery requests.
THEOREM DecisionsAreKept ==
    ASSUME EffectEndpoints \subseteq Endpoints
    PROVE  RecoverySpec => DecisionsStand
<1>1. GroundsInv /\ [RecoveryNext]_allVars =>
        [\A e \in Execs, f \in Fps :
            Done(e, f) => Done(e, f)' /\ row'[e][f].status = row[e][f].status]_allVars
  BY DoneStays
<1>2. QED  BY <1>1, GroundsAlways, PTL DEF RecoverySpec, DecisionsStand

-----------------------------------------------------------------------------
(***************************************************************************)
(* Why the gate holds.  A row that has blocked the workflow ever since the *)
(* session was asked for blocked it when the plan read the rows, so a plan *)
(* that lets the session through has seen none; and no row joins the       *)
(* blockers of a request once it has been made.                            *)
(***************************************************************************)

\* The recovery request is to give execution e its session.
Wants(r, e) == r.pc \in {"plan", "block", "create"} /\ r.why = e

\* It will: the workflow was not blocked when its rows were read.
Grants(r) ==
    /\ r.pc = "create" \/ (r.pc = "block" /\ r.verdict # "BLOCKED")
    /\ r.why \in Execs

\* Verification passes are no session requests, only those create sessions.
WhyFits(r) ==
    /\ r.pc \in {"check", "apply"} => r.why \notin Execs
    /\ r.pc = "create" => r.why \in Execs

PassFits(p) == WhyFits(pass[p]) /\ (Grants(pass[p]) => blockers[pass[p].why] = {})

SessionFits(e) ==
    /\ \A b \in blockers[e] : Blocks(row[b[1]][b[2]])
    /\ e \notin Workflow \/ session[e] = "open" => blockers[e] = {}
    /\ FailPolicy[e] = "CLOSED" =>
          \A c \in Calls : ExecOf(c) = e /\ Started(c) => session[e] = "open"

\* One request at a time asks for the session of an execution.
AsksAlone(p, e) ==
    Wants(pass[p], e) =>
        session[e] = "asked" /\ \A q \in Passes : Wants(pass[q], e) => q = p

GateInv ==
    /\ RecoveryTypeOK
    /\ \A p \in Passes : PassFits(p)
    /\ \A e \in Execs : SessionFits(e)
    /\ \A p \in Passes, e \in Execs : AsksAlone(p, e)

\* What the history of blockers does.
LEMMA Watching ==
    ASSUME RecoveryTypeOK, Watch, NEW e \in Execs
    PROVE  /\ \A b \in blockers'[e] : Blocks(row'[b[1]][b[2]])
           /\ ~Asks(e) => blockers'[e] \subseteq blockers[e]
<1>1. blockers'[e] = {b \in IF Asks(e) THEN Workflow \X Fps ELSE blockers[e] :
                         Blocks(row'[b[1]][b[2]])}
  BY DEF Watch
<1>2. QED  BY <1>1

\* The calls start in sessions, or under failPolicy OPEN.
LEMMA StartsInSession ==
    ASSUME SDKTypeOK, CallsStep, NEW c \in Calls, Started(c)'
    PROVE  Started(c) \/ session[ExecOf(c)] = "open" \/ FailPolicy[ExecOf(c)] = "OPEN"
<1>1. CASE Proceed \/ ApiCrash
  BY <1>1, ProceedStartsNone
<1>2. ASSUME NEW d \in Calls, NEW opts \in Options,
             CallInSession(d, opts) \/ CallWithoutSession(d, opts)
      PROVE  Started(c) \/ session[ExecOf(c)] = "open" \/ FailPolicy[ExecOf(c)] = "OPEN"
  <2>1. CASE c = d
    BY <1>2, <2>1 DEF CallInSession, CallWithoutSession
  <2>2. CASE c # d
    <3>1. PICK r : Become(d, r)
      BY <1>2 DEF CallInSession, CallWithoutSession, Start, StartBare, Invoke
    <3>2. call'[c] = call[c]
      BY <2>2, <3>1, Becomes
    <3>3. QED  BY <3>2 DEF Started
  <2>3. QED  BY <2>1, <2>2
<1>3. QED  BY <1>1, <1>2 DEF CallsStep, RecoveryApiCrash

LEMMA CallsGate ==
    ASSUME EffectEndpoints \subseteq Endpoints, GateInv, CallsStep, Watch
    PROVE  GateInv'
<1>1. /\ RecoveryTypeOK /\ SDKTypeOK /\ RecoveryTypeOK'
      /\ \A p \in Passes : PassFits(p)
      /\ \A e \in Execs : SessionFits(e)
      /\ \A p \in Passes, e \in Execs : AsksAlone(p, e)
  BY CallsStepType, HistoryType DEF GateInv, RecoveryTypeOK
<1>2. /\ \A p \in Passes : pass'[p] = pass[p] \/ pass'[p] = NoPass
      /\ \/ UNCHANGED <<pass, session>>
         \/ \A p \in Passes : pass'[p] = NoPass
      /\ \A e \in Execs : session'[e] = "asked" => session[e] = "asked"
      /\ \A e \in Execs : session'[e] = "open" <=> session[e] = "open"
  BY DEF CallsStep, CallInSession, CallWithoutSession, RecoveryApiCrash, recoveryVars
<1>3. \A e \in Execs : ~Asks(e)
  BY <1>2 DEF Asks
<1>4. \A e \in Execs : blockers'[e] \subseteq blockers[e]
  BY <1>1, <1>3, Watching
<1>5. /\ \A e : ~Wants(NoPass, e)
      /\ WhyFits(NoPass) /\ ~Grants(NoPass)
  BY DEF Wants, WhyFits, Grants, NoPass
<1>6. ASSUME NEW p \in Passes
      PROVE  PassFits(p)'
  <2>1. CASE pass'[p] = NoPass
    BY <1>5, <2>1 DEF PassFits
  <2>2. CASE pass'[p] = pass[p]
    <3>1. Grants(pass[p]) => pass[p].why \in Execs
      BY DEF Grants
    <3>2. WhyFits(pass'[p]) /\ (Grants(pass'[p]) => blockers'[pass'[p].why] = {})
      BY <1>1, <1>4, <2>2, <3>1 DEF PassFits
    <3>3. QED  BY <3>2 DEF PassFits, WhyFits, Grants
  <2>3. QED  BY <1>2, <2>1, <2>2
<1>7. ASSUME NEW e \in Execs
      PROVE  SessionFits(e)'
  <2>1. \A b \in blockers'[e] : Blocks(row'[b[1]][b[2]])
    BY <1>1, Watching
  <2>2. e \notin Workflow \/ session'[e] = "open" => blockers'[e] = {}
    BY <1>1, <1>2, <1>4 DEF SessionFits
  <2>3. ASSUME FailPolicy[e] = "CLOSED", NEW c \in Calls, ExecOf(c) = e, Started(c)'
        PROVE  session'[e] = "open"
    BY <1>1, <1>2, <2>3, StartsInSession DEF SessionFits
  <2>4. QED  BY <2>1, <2>2, <2>3 DEF SessionFits, Blocks, NeedsHuman
<1>8. ASSUME NEW p \in Passes, NEW e \in Execs
      PROVE  AsksAlone(p, e)'
  <2>1. CASE UNCHANGED <<pass, session>>
    BY <1>1, <2>1 DEF AsksAlone, Wants
  <2>2. CASE \A q \in Passes : pass'[q] = NoPass
    <3>1. ~Wants(pass'[p], e)
      BY <1>5, <2>2
    <3>2. QED  BY <3>1 DEF AsksAlone, Wants
  <2>3. QED  BY <1>2, <2>1, <2>2
<1>9. QED  BY <1>1, <1>6, <1>7, <1>8 DEF GateInv

\* A recovery request that goes on with what it was asked, or another that is
\* no session request, changes nothing about the gate.
LEMMA QuietGate ==
    ASSUME GateInv, RecoveryTypeOK', Watch, NEW p \in Passes, NEW r, BecomePass(p, r),
           UNCHANGED <<call, session>>,
           \A e \in Execs : Wants(r, e) => Wants(pass[p], e),
           WhyFits(r), Grants(r) => blockers[r.why] = {}
    PROVE  GateInv'
<1>1. /\ RecoveryTypeOK
      /\ \A q \in Passes : PassFits(q)
      /\ \A e \in Execs : SessionFits(e)
      /\ \A q \in Passes, e \in Execs : AsksAlone(q, e)
  BY DEF GateInv
<1>2. pass'[p] = r /\ \A q \in Passes \ {p} : pass'[q] = pass[q]
  BY <1>1 DEF BecomePass, RecoveryTypeOK
<1>3. \A e \in Execs : blockers'[e] \subseteq blockers[e]
  BY <1>1, Watching DEF Asks
<1>4. ASSUME NEW q \in Passes
      PROVE  PassFits(q)'
  <2>1. /\ \A x : Grants(x) => x.why \in Execs
        /\ WhyFits(pass'[q])
        /\ Grants(pass'[q]) => blockers[pass'[q].why] = {}
    BY <1>1, <1>2 DEF Grants, PassFits
  <2>2. Grants(pass'[q]) => blockers'[pass'[q].why] = {}
    BY <1>3, <2>1
  <2>3. QED  BY <2>1, <2>2 DEF PassFits, WhyFits, Grants
<1>5. ASSUME NEW e \in Execs
      PROVE  SessionFits(e)'
  <2>1. \A b \in blockers'[e] : Blocks(row'[b[1]][b[2]])
    BY <1>1, Watching
  <2>2. e \notin Workflow \/ session'[e] = "open" => blockers'[e] = {}
    BY <1>1, <1>3 DEF SessionFits
  <2>3. FailPolicy[e] = "CLOSED" =>
           \A c \in Calls : ExecOf(c) = e /\ Started(c)' => session'[e] = "open"
    BY <1>1 DEF SessionFits, Started
  <2>4. QED  BY <2>1, <2>2, <2>3 DEF SessionFits, Blocks, NeedsHuman
<1>6. ASSUME NEW q \in Passes, NEW e \in Execs
      PROVE  AsksAlone(q, e)'
  <2>1. \A x \in Passes : Wants(pass'[x], e) => Wants(pass[x], e)
    BY <1>2
  <2>2. Wants(pass'[q], e) => session'[e] = "asked" /\ \A x \in Passes : Wants(pass'[x], e) => x = q
    BY <1>1, <2>1 DEF AsksAlone
  <2>3. QED  BY <2>2 DEF AsksAlone, Wants
<1>7. QED  BY <1>4, <1>5, <1>6 DEF GateInv

\* A session request ends: its session is created, or it is refused.
LEMMA AnswersGate ==
    ASSUME GateInv, RecoveryTypeOK', Watch, NEW p \in Passes, NEW e \in Execs,
           Wants(pass[p], e), BecomePass(p, NoPass), UNCHANGED call,
           NEW answer \in {"refused", "open"}, answer = "open" => blockers[e] = {},
           session' = [session EXCEPT ![e] = answer]
    PROVE  GateInv'
<1>1. /\ RecoveryTypeOK
      /\ \A q \in Passes : PassFits(q)
      /\ \A x \in Execs : SessionFits(x)
      /\ \A q \in Passes, x \in Execs : AsksAlone(q, x)
  BY DEF GateInv
<1>2. pass'[p] = NoPass /\ \A q \in Passes \ {p} : pass'[q] = pass[q]
  BY <1>1 DEF BecomePass, RecoveryTypeOK
<1>3. session'[e] = answer /\ \A x \in Execs \ {e} : session'[x] = session[x]
  BY <1>1 DEF RecoveryTypeOK
<1>4. \A x \in Execs : blockers'[x] \subseteq blockers[x]
  <2>1. \A x \in Execs : session'[x] = "asked" => session[x] = "asked"
    BY <1>3
  <2>2. QED  BY <1>1, <2>1, Watching DEF Asks
<1>5. (\A x : ~Wants(NoPass, x)) /\ WhyFits(NoPass) /\ ~Grants(NoPass)
  BY DEF Wants, WhyFits, Grants, NoPass
<1>6. ASSUME NEW q \in Passes
      PROVE  PassFits(q)'
  <2>1. /\ \A x : Grants(x) => x.why \in Execs
        /\ WhyFits(pass'[q])
        /\ Grants(pass'[q]) => blockers[pass'[q].why] = {}
    BY <1>1, <1>2, <1>5 DEF Grants, PassFits
  <2>2. Grants(pass'[q]) => blockers'[pass'[q].why] = {}
    BY <1>4, <2>1
  <2>3. QED  BY <2>1, <2>2 DEF PassFits, WhyFits, Grants
<1>7. ASSUME NEW x \in Execs
      PROVE  SessionFits(x)'
  <2>1. \A b \in blockers'[x] : Blocks(row'[b[1]][b[2]])
    BY <1>1, Watching
  <2>2. x \notin Workflow \/ session'[x] = "open" => blockers'[x] = {}
    BY <1>1, <1>3, <1>4 DEF SessionFits
  <2>3. FailPolicy[x] = "CLOSED" =>
           \A c \in Calls : ExecOf(c) = x /\ Started(c)' => session'[x] = "open"
    <3>1. session[e] = "asked"
      BY <1>1 DEF AsksAlone
    <3>2. QED  BY <1>1, <1>3, <3>1 DEF SessionFits, Started
  <2>4. QED  BY <2>1, <2>2, <2>3 DEF SessionFits, Blocks, NeedsHuman
<1>8. ASSUME NEW q \in Passes, NEW x \in Execs
      PROVE  AsksAlone(q, x)'
  <2>1. \A y \in Passes : Wants(pass'[y], x) => Wants(pass[y], x) /\ y # p
    BY <1>2, <1>5
  <2>2. \A y \in Passes : Wants(pass[y], e) => y = p
    BY <1>1 DEF AsksAlone
  <2>3. Wants(pass'[q], x) => session'[x] = "asked" /\ \A y \in Passes : Wants(pass'[y], x) => y = q
    BY <1>1, <1>3, <2>1, <2>2 DEF AsksAlone
  <2>4. QED  BY <2>3 DEF AsksAlone, Wants
<1>9. QED  BY <1>6, <1>7, <1>8 DEF GateInv

\* A session is asked for.
LEMMA RequestGate ==
    ASSUME GateInv, RecoveryTypeOK', Watch, NEW p \in Passes, NEW e \in Execs,
           RequestSession(p, e)
    PROVE  GateInv'
<1> DEFINE r == [pc |-> IF e \in Workflow THEN "plan" ELSE "create", why |-> e]
<1>1. /\ RecoveryTypeOK
      /\ \A q \in Passes : PassFits(q)
      /\ \A x \in Execs : SessionFits(x)
      /\ \A q \in Passes, x \in Execs : AsksAlone(q, x)
  BY DEF GateInv
<1>2. /\ BecomePass(p, r) /\ session[e] \in {"none", "refused"} /\ UNCHANGED call
      /\ session' = [session EXCEPT ![e] = "asked"]
  BY DEF RequestSession, RestOfAll
<1>3. /\ \A x \in Execs : Wants(r, x) => x = e
      /\ WhyFits(r) /\ (Grants(r) => r.why = e /\ e \notin Workflow)
  BY DEF Wants, WhyFits, Grants
<1> HIDE DEF r
<1>4. pass'[p] = r /\ \A q \in Passes \ {p} : pass'[q] = pass[q]
  BY <1>1, <1>2 DEF BecomePass, RecoveryTypeOK
<1>5. session'[e] = "asked" /\ \A x \in Execs \ {e} : session'[x] = session[x]
  BY <1>1, <1>2 DEF RecoveryTypeOK
<1>6. \A x \in Execs : x # e \/ x \notin Workflow => blockers'[x] \subseteq blockers[x]
  BY <1>1, <1>5, Watching DEF Asks
<1>7. \A q \in Passes : ~Wants(pass[q], e)
  BY <1>1, <1>2 DEF AsksAlone
<1>8. ASSUME NEW q \in Passes
      PROVE  PassFits(q)'
  <2>1. CASE q = p
    <3>1. Grants(pass'[q]) => blockers'[pass'[q].why] = {}
      BY <1>1, <1>3, <1>4, <1>6, <2>1 DEF SessionFits
    <3>2. WhyFits(pass'[q])
      BY <1>3, <1>4, <2>1
    <3>3. QED  BY <3>1, <3>2 DEF PassFits, WhyFits, Grants
  <2>2. CASE q # p
    <3>1. Grants(pass[q]) => pass[q].why \in Execs /\ pass[q].why # e
      BY <1>7 DEF Grants, Wants
    <3>2. Grants(pass'[q]) => blockers'[pass'[q].why] = {}
      BY <1>1, <1>4, <1>6, <2>2, <3>1 DEF PassFits
    <3>3. WhyFits(pass'[q])
      BY <1>1, <1>4, <2>2 DEF PassFits
    <3>4. QED  BY <3>2, <3>3 DEF PassFits, WhyFits, Grants
  <2>3. QED  BY <2>1, <2>2
<1>9. ASSUME NEW x \in Execs
      PROVE  SessionFits(x)'
  <2>1. \A b \in blockers'[x] : Blocks(row'[b[1]][b[2]])
    BY <1>1, Watching
  <2>2. x \notin Workflow \/ session'[x] = "open" => blockers'[x] = {}
    BY <1>1, <1>5, <1>6 DEF SessionFits
  <2>3. FailPolicy[x] = "CLOSED" =>
           \A c \in Calls : ExecOf(c) = x /\ Started(c)' => session'[x] = "open"
    BY <1>1, <1>2, <1>5 DEF SessionFits, Started
  <2>4. QED  BY <2>1, <2>2, <2>3 DEF SessionFits, Blocks, NeedsHuman
<1>10. ASSUME NEW q \in Passes, NEW x \in Execs
       PROVE  AsksAlone(q, x)'
  <2>1. Wants(pass'[q], x) => session'[x] = "asked" /\ \A y \in Passes : Wants(pass'[y], x) => y = q
    <3>1. CASE x = e
      BY <1>4, <1>5, <1>7, <3>1
    <3>2. CASE x # e
      <4>1. \A y \in Passes : Wants(pass'[y], x) => Wants(pass[y], x)
        BY <1>3, <1>4, <3>2
      <4>2. QED  BY <1>1, <1>5, <3>2, <4>1 DEF AsksAlone
    <3>3. QED  BY <3>1, <3>2
  <2>2. QED  BY <2>1 DEF AsksAlone, Wants
<1>11. QED  BY <1>8, <1>9, <1>10 DEF GateInv

\* A request of the recovery services.
LEMMA PassGate ==
    ASSUME GateInv, NEW p \in Passes, PassStep(p), Watch
    PROVE  GateInv'
<1>1. /\ RecoveryTypeOK /\ RecoveryTypeOK' /\ PassFits(p)
      /\ \A e \in Execs : SessionFits(e) /\ AsksAlone(p, e)
  BY PassStepType, HistoryType DEF GateInv, PassStep
<1>2. ASSUME NEW r, BecomePass(p, r), UNCHANGED <<call, session>>,
             \A e \in Execs : Wants(r, e) => Wants(pass[p], e),
             WhyFits(r), Grants(r) => blockers[r.why] = {}
      PROVE  GateInv'
  BY <1>1, <1>2, QuietGate
<1>3. WhyFits(pass[p]) /\ (Grants(pass[p]) => blockers[pass[p].why] = {})
  BY <1>1 DEF PassFits
<1>4. RestOfAll => UNCHANGED call
  BY DEF RestOfAll
<1>5. ASSUME NEW r, r.pc \in {"check", "apply"}, r.why \notin Execs
      PROVE  WhyFits(r) /\ ~Grants(r) /\ \A e \in Execs : ~Wants(r, e)
  BY <1>5 DEF WhyFits, Grants, Wants
<1>6. ASSUME NEW r, r.pc \in {"idle", "approve"}
      PROVE  WhyFits(r) /\ ~Grants(r) /\ \A e \in Execs : ~Wants(r, e)
  BY <1>6 DEF WhyFits, Grants, Wants
<1>a. CASE CheckProvider(p)
  <2>1. pass[p] \in CheckState /\ pass[p].why \notin Execs
    BY <1>1, <1>3, <1>a, PassOf DEF CheckProvider, WhyFits, PassAt
  <2>2. RestOfAll /\ UNCHANGED session
    BY <1>a DEF CheckProvider
  <2>3. PICK s \in pass[p].todo :
           \/ BecomePass(p, [pass[p] EXCEPT !.todo = @ \ {s}])
           \/ \E found \in Conclusions :
                 BecomePass(p, [pc |-> "apply", why |-> pass[p].why, todo |-> pass[p].todo \ {s},
                                cur |-> s, found |-> found])
    BY <1>a DEF CheckProvider
  <2>4. \E r : BecomePass(p, r) /\ r.pc \in {"check", "apply"} /\ r.why = pass[p].why
    <3>1. CASE BecomePass(p, [pass[p] EXCEPT !.todo = @ \ {s}])
      <4>1. /\ [pass[p] EXCEPT !.todo = @ \ {s}].pc = "check"
            /\ [pass[p] EXCEPT !.todo = @ \ {s}].why = pass[p].why
        BY <2>1 DEF CheckState
      <4>2. QED  BY <3>1, <4>1
    <3>2. CASE \E found \in Conclusions :
                  BecomePass(p, [pc |-> "apply", why |-> pass[p].why, todo |-> pass[p].todo \ {s},
                                 cur |-> s, found |-> found])
      BY <3>2
    <3>3. QED  BY <2>3, <3>1, <3>2
  <2>5. QED  BY <1>2, <1>4, <1>5, <2>1, <2>2, <2>4
<1>b. CASE ApplyOutcome(p)
  <2>1. /\ pass[p].why \notin Execs
        /\ \E r \in CheckState : BecomePass(p, r) /\ r.why = pass[p].why
    BY <1>1, <1>3, <1>b, ApplyWrites DEF WhyFits, PassAt
  <2>2. UNCHANGED <<call, session>>
    BY <1>b DEF ApplyOutcome, RowUpdate, clientVars
  <2>3. QED  BY <1>2, <1>5, <2>1, <2>2 DEF CheckState
<1>c. CASE FinishPass(p)
  <2>1. CASE BecomePass(p, NoPass)
    BY <1>2, <1>4, <1>6, <1>c, <2>1 DEF FinishPass, NoPass
  <2>2. CASE BecomePass(p, [pc |-> "plan", why |-> "resume"])
    <3> DEFINE r == [pc |-> "plan", why |-> "resume"]
    <3>1. WhyFits(r) /\ ~Grants(r) /\ \A e \in Execs : ~Wants(r, e)
      BY RecoveryAssumption DEF WhyFits, Grants, Wants
    <3>2. QED  BY <1>2, <1>4, <1>c, <2>2, <3>1 DEF FinishPass
  <2>3. QED  BY <1>c, <2>1, <2>2 DEF FinishPass
<1>d. CASE ReadPlan(p)
  <2> DEFINE seen == {s \in RowsSeen(Workflow) : s.row.status # "NONE"}
             r == [pc |-> "block", why |-> pass[p].why, todo |-> {s \in seen : NeedsHuman(s.row)},
                   verdict |-> Verdict({s.row : s \in seen})]
  <2>1. PassAt(p, "plan") /\ BecomePass(p, r) /\ RestOfAll /\ UNCHANGED session
    BY <1>d DEF ReadPlan
  <2>2. \A e \in Execs : Wants(r, e) => Wants(pass[p], e)
    BY <2>1 DEF Wants, PassAt
  <2>3. WhyFits(r)
    BY DEF WhyFits
  <2>4. Grants(r) => blockers[r.why] = {}
    <3> SUFFICES ASSUME Grants(r)
                 PROVE  blockers[pass[p].why] = {}
      OBVIOUS
    <3>1. pass[p].why \in Execs /\ Verdict({s.row : s \in seen}) # "BLOCKED"
      BY DEF Grants
    <3>2. \A s \in seen : ~Blocks(s.row)
      BY <3>1 DEF Verdict
    <3>3. ASSUME NEW b \in blockers[pass[p].why]
          PROVE  FALSE
      <4>1. b \in Workflow \X Fps
        BY <1>1, <3>1 DEF RecoveryTypeOK
      <4>2. Blocks(row[b[1]][b[2]]) /\ b[1] \in Workflow /\ b[2] \in Fps
        BY <1>1, <3>1, <4>1 DEF SessionFits
      <4>3. row[b[1]][b[2]].status # "NONE"
        BY <4>2 DEF Blocks, NeedsHuman
      <4> DEFINE x == [exec |-> b[1], fp |-> b[2], row |-> row[b[1]][b[2]]]
      <4>4. x \in seen
        BY <4>2, <4>3 DEF RowsSeen
      <4>5. x.row = row[b[1]][b[2]]
        OBVIOUS
      <4>6. QED  BY <3>2, <4>2, <4>4, <4>5
    <3>4. QED  BY <3>3
  <2> HIDE DEF r
  <2>5. QED  BY <1>2, <1>4, <2>1, <2>2, <2>3, <2>4
<1>e. CASE BlockFailed(p)
  <2>1. PassAt(p, "block") /\ \E r \in BlockState :
            BecomePass(p, r) /\ r.why = pass[p].why /\ r.verdict = pass[p].verdict
    BY <1>1, <1>e, BlockWrites
  <2>2. PICK r \in BlockState :
            BecomePass(p, r) /\ r.why = pass[p].why /\ r.verdict = pass[p].verdict
    BY <2>1
  <2>3. r.pc = "block"
    BY DEF BlockState
  <2>4. /\ \A e \in Execs : Wants(r, e) => Wants(pass[p], e)
        /\ WhyFits(r) /\ (Grants(r) => blockers[r.why] = {})
    BY <1>3, <2>1, <2>2, <2>3 DEF Wants, WhyFits, Grants, PassAt
  <2>5. UNCHANGED <<call, session>>
    BY <1>e DEF BlockFailed, RowUpdate, clientVars
  <2>6. QED  BY <1>2, <2>2, <2>4, <2>5
<1>f. CASE FinishPlan(p)
  <2>1. PassAt(p, "block") /\ RestOfAll
    BY <1>f DEF FinishPlan
  <2>2. CASE BecomePass(p, NoPass) /\ UNCHANGED session
    BY <1>2, <1>4, <1>6, <2>1, <2>2 DEF NoPass
  <2>3. CASE /\ pass[p].why \in Execs /\ BecomePass(p, NoPass)
             /\ session' = [session EXCEPT ![pass[p].why] = "refused"]
    <3>1. Wants(pass[p], pass[p].why)
      BY <2>1 DEF Wants, PassAt
    <3>2. QED  BY <1>1, <1>4, <2>1, <2>3, <3>1, AnswersGate
  <2>4. CASE /\ pass[p].why \in Execs /\ pass[p].verdict # "BLOCKED" /\ UNCHANGED session
             /\ BecomePass(p, [pc |-> "create", why |-> pass[p].why])
    <3> DEFINE r == [pc |-> "create", why |-> pass[p].why]
    <3>1. /\ \A e \in Execs : Wants(r, e) => Wants(pass[p], e)
          /\ WhyFits(r) /\ (Grants(r) => blockers[r.why] = {})
      BY <1>3, <2>1, <2>4 DEF Wants, WhyFits, Grants, PassAt
    <3>2. QED  BY <1>2, <1>4, <2>1, <2>4, <3>1
  <2>5. QED  BY <1>f, <2>2, <2>3, <2>4 DEF FinishPlan
<1>g. CASE CreateSession(p)
  <2>1. /\ PassAt(p, "create") /\ BecomePass(p, NoPass) /\ RestOfAll
        /\ session' = [session EXCEPT ![pass[p].why] = "open"]
    BY <1>g DEF CreateSession
  <2>2. PICK e \in Execs : /\ Wants(pass[p], e) /\ blockers[e] = {}
                           /\ session' = [session EXCEPT ![e] = "open"]
    <3>1. pass[p].pc = "create" /\ pass[p].why \in Execs
      BY <1>3, <2>1 DEF WhyFits, PassAt
    <3>2. Wants(pass[p], pass[p].why) /\ Grants(pass[p])
      BY <3>1 DEF Wants, Grants
    <3>3. QED  BY <1>3, <2>1, <3>1, <3>2
  <2>3. "open" \in {"refused", "open"}
    OBVIOUS
  <2>4. QED  BY <1>1, <1>4, <2>1, <2>2, <2>3, AnswersGate
<1>i. CASE PassFails(p)
  <2>1. /\ BecomePass(p, NoPass) /\ RestOfAll /\ pass[p].pc # "idle"
        /\ session' = [e \in Execs |->
              IF ~PassAt(p, "approve") /\ pass[p].why = e THEN "refused" ELSE session[e]]
    BY <1>i DEF PassFails, PassAt
  <2>2. pass[p].pc \in {"check", "apply", "plan", "create", "block", "approve"}
    BY <1>1, <2>1, PassOf DEF PassAt
  <2>3. CASE pass[p].pc \in {"plan", "create", "block"} /\ pass[p].why \in Execs
    <3>1. session' = [session EXCEPT ![pass[p].why] = "refused"]
      BY <1>1, <2>1, <2>3 DEF RecoveryTypeOK, PassAt
    <3>2. Wants(pass[p], pass[p].why)
      BY <2>3 DEF Wants
    <3>3. QED  BY <1>1, <1>4, <2>1, <2>3, <3>1, <3>2, AnswersGate
  <2>4. CASE PassAt(p, "approve") \/ pass[p].why \notin Execs
    <3>1. session' = session
      BY <1>1, <2>1, <2>4 DEF RecoveryTypeOK
    <3>2. QED  BY <1>2, <1>4, <1>6, <2>1, <3>1 DEF NoPass
  <2>5. QED  BY <1>3, <2>2, <2>3, <2>4 DEF WhyFits, PassAt
<1>j. CASE StartAnyPass(p)
  <2>1. {"worker", "reconcile", "resume"} \cap Execs = {}
    BY RecoveryAssumption
  <2>2. ASSUME NEW why \in {"reconcile", "resume"}, NEW es, StartPass(p, why, es)
        PROVE  RestOfAll /\ UNCHANGED session
               /\ \E r : BecomePass(p, r) /\ r.pc = "check" /\ r.why \notin Execs
    BY <2>1, <2>2 DEF StartPass
  <2>3. CASE StartWorkerPass(p)
    <3>1. RestOfAll /\ UNCHANGED session
          /\ \E r : BecomePass(p, r) /\ r.pc = "check" /\ r.why \notin Execs
      BY <2>1, <2>3 DEF StartWorkerPass
    <3>2. QED  BY <1>2, <1>4, <1>5, <3>1
  <2>4. CASE \E why \in {"reconcile", "resume"}, es \in SUBSET Execs : StartPass(p, why, es)
    <3>1. RestOfAll /\ UNCHANGED session
          /\ \E r : BecomePass(p, r) /\ r.pc = "check" /\ r.why \notin Execs
      BY <2>2, <2>4
    <3>2. QED  BY <1>2, <1>4, <1>5, <3>1
  <2>5. QED  BY <1>j, <2>3, <2>4, RecoveryAssumption DEF StartAnyPass
<1>k. CASE ReadForApproval(p)
  <2>1. RestOfAll /\ UNCHANGED session /\ \E r : BecomePass(p, r) /\ r.pc = "approve"
    BY <1>k DEF ReadForApproval
  <2>2. QED  BY <1>2, <1>4, <1>6, <2>1
<1>l. CASE ApproveSideEffect(p)
  <2>1. BecomePass(p, NoPass) /\ UNCHANGED <<call, session>>
    BY <1>l DEF ApproveSideEffect, RowUpdate, clientVars
  <2>2. QED  BY <1>2, <1>6, <2>1 DEF NoPass
<1>m. CASE \E e \in Execs : RequestSession(p, e)
  BY <1>1, <1>m, RequestGate
<1>n. QED
  BY <1>a, <1>b, <1>c, <1>d, <1>e, <1>f, <1>g, <1>i, <1>j, <1>k, <1>l, <1>m DEF PassStep, Work

LEMMA GateNext ==
    ASSUME EffectEndpoints \subseteq Endpoints, GateInv, [RecoveryNext]_allVars
    PROVE  GateInv'
<1>1. CASE UNCHANGED allVars
  <2>1. RecoveryTypeOK'
    BY RecoveryNextType DEF GateInv
  <2>2. /\ \A p \in Passes : PassFits(p)'
        /\ \A e \in Execs : SessionFits(e)'
        /\ \A p \in Passes, e \in Execs : AsksAlone(p, e)'
    BY <1>1 DEF GateInv, allVars, PassFits, SessionFits, AsksAlone, WhyFits, Grants, Wants,
       Blocks, NeedsHuman, Started
  <2>3. QED  BY <2>1, <2>2 DEF GateInv
<1>2. QED  BY <1>1, CallsGate, PassGate, RecoverySteps

LEMMA GateInit == RecoveryInit => GateInv
<1> SUFFICES ASSUME RecoveryInit
             PROVE  GateInv
  OBVIOUS
<1>1. RecoveryTypeOK
  BY RecoveryInitType
<1>2. \A p \in Passes : PassFits(p)
  BY DEF RecoveryInit, PassFits, WhyFits, Grants, NoPass
<1>3. \A e \in Execs : SessionFits(e)
  BY DEF RecoveryInit, Init, SessionFits, Started, NotStarted
<1>4. \A p \in Passes, e \in Execs : AsksAlone(p, e)
  BY DEF RecoveryInit, AsksAlone, Wants, NoPass
<1>5. QED  BY <1>1, <1>2, <1>3, <1>4 DEF GateInv

\* Under failPolicy CLOSED no operation of a workflow runs while another step of
\* it has been UNKNOWN, FAILED or AWAITING_APPROVAL ever since its session was
\* asked for: for however many requests and passes, and wherever they stand
\* between the plan, the session and the call.
THEOREM GateHolds ==
    ASSUME EffectEndpoints \subseteq Endpoints
    PROVE  RecoverySpec => []BlockersAreCleared
<1>1. GateInv /\ [RecoveryNext]_allVars => GateInv'
  BY GateNext
<1>2. ASSUME GateInv
      PROVE  BlockersAreCleared
  BY <1>2, ScopeOfCall DEF GateInv, SessionFits, BlockersAreCleared
<1>3. QED  BY <1>1, <1>2, GateInit, PTL DEF RecoverySpec
=============================================================================
