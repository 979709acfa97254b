------------------------ MODULE Compensation_proofs ------------------------
(***************************************************************************)
(* The end of a guarded job: its SDK calls are a behaviour of              *)
(* ReplayGuardSDK, and what complete(), its retries and the handlers of    *)
(* given-up requests do to rollbacks, for any number of attempts, effects, *)
(* requests in flight and retries.                                         *)
(***************************************************************************)
EXTENDS Compensation, ReplayGuardSDK_proofs, FiniteSetTheorems

-----------------------------------------------------------------------------
(* The job awaits its calls one by one, so it is one of their environments. *)

LEMMA SagaSteps == [SagaNext]_allVars => [Next]_vars
<1> SUFFICES ASSUME [SagaNext]_allVars
             PROVE  [Next]_vars
  OBVIOUS
<1>1. ASSUME NEW e \in Execs, RunJob(e)
      PROVE  UNCHANGED vars
  BY <1>1 DEF RunJob, StartJob, RunHook, Repeat, EndJob, Submit
<1>2. ASSUME NEW c \in Calls, NEW opts \in Options, MakeCall(c, opts)
      PROVE  Next
  BY <1>2 DEF MakeCall, Next
<1>3. ASSUME NEW s \in Slots, ServeSlot(s) \/ SagaDatabaseFails(s)
      PROVE  UNCHANGED vars
  BY <1>3 DEF ServeSlot, FindEffect, CreateRollback, UpdateExecution, FindPending, Fire, Mark,
              SagaDatabaseFails
<1>4. SagaApiCrash => Next
  BY DEF SagaApiCrash, Next
<1>5. Proceed => Next
  BY DEF Next
<1>6. ASSUME NEW c \in Calls, Compensate(c)
      PROVE  UNCHANGED vars
  BY <1>6 DEF Compensate
<1>7. UNCHANGED allVars => UNCHANGED vars
  BY DEF allVars, vars
<1>8. QED  BY <1>1, <1>2, <1>3, <1>4, <1>5, <1>6, <1>7 DEF SagaNext

\* With a job around them, the calls, their requests and crashes behave as
\* ReplayGuardSDK says: every theorem about Spec holds of SagaSpec.
THEOREM SagaImplementsSDK == SagaSpec => Spec
<1>1. SagaInit => Init
  BY DEF SagaInit
<1>2. QED  BY <1>1, SagaSteps, PTL DEF SagaSpec, Spec

-----------------------------------------------------------------------------
(* Types.                                                                   *)

\* A job waits for an answer only while it asks for something.
Shaped ==
    /\ SagaTypeOK
    /\ \A e \in Execs : job[e].slot = NoSlot \/ job[e].pc \in {"register", "complete"}

LEMMA AnyFpType == AnyFp \in Fps
  BY CompensationAssumption DEF AnyFp

LEMMA InFlight ==
    ASSUME SagaTypeOK, NEW s \in Slots, request[s] # Free
    PROVE  /\ request[s] \in RollbackRequest
           /\ request[s].exec \in Execs /\ request[s].fp \in Fps /\ request[s].cur \in Fps
           /\ request[s].todo \subseteq Fps /\ request[s].found \subseteq Fps
           /\ request[s].carried \in BOOLEAN /\ request[s].failed \in BOOLEAN
           /\ request[s].local \in BOOLEAN
  BY DEF SagaTypeOK, RollbackRequest

\* What an answered or given-up request leaves of the job.
LEMMA Resumed ==
    ASSUME NEW r \in Job, r.pc \in {"register", "complete"}, NEW hooks \in SUBSET Fps
    PROVE  /\ Resume(r, hooks) \in Job
           /\ Resume(r, hooks).slot = NoSlot /\ Resume(r, hooks).hooks = hooks
           /\ Resume(r, hooks).outcome = r.outcome
           /\ r.pc = "register" => Resume(r, hooks).pc = "running"
           /\ r.pc = "complete" =>
                 Resume(r, hooks).pc = IF hooks = {} THEN "over" ELSE "hooks"
<1>1. 0 \in 0..MaxRetries /\ AnyFp \in Fps
  BY SDKAssumption, AnyFpType
<1>2. CASE r.pc = "register"
  BY <1>1, <1>2 DEF Resume, Job
<1>3. CASE r.pc = "complete"
  BY <1>1, <1>3 DEF Resume, Job
<1>4. QED  BY <1>2, <1>3

LEMMA TriedAgain ==
    ASSUME NEW r \in Job, r.pc \in {"register", "complete"}
    PROVE  /\ TryAgain(r) \in Job
           /\ TryAgain(r).slot = NoSlot /\ TryAgain(r).outcome = r.outcome
           /\ \/ /\ TryAgain(r).pc = r.pc /\ TryAgain(r).hooks = r.hooks
                 /\ TryAgain(r).tries = r.tries + 1
              \/ /\ TryAgain(r).hooks = {}
                 /\ r.pc = "register" => TryAgain(r).pc = "running"
                 /\ r.pc = "complete" => TryAgain(r).pc = "over"
<1>1. CASE r.tries < MaxRetries
  <2>1. r.tries + 1 \in 0..MaxRetries
    BY <1>1, SDKAssumption DEF Job
  <2>2. QED  BY <1>1, <2>1 DEF TryAgain, Job
<1>2. CASE ~(r.tries < MaxRetries)
  <2>1. TryAgain(r) = Resume(r, {})
    BY <1>2 DEF TryAgain, GivenUp
  <2>2. QED  BY <2>1, Resumed
<1>3. QED  BY <1>1, <1>2

\* The state of one job changes.
LEMMA JobStep ==
    ASSUME Shaped, NEW e \in Execs, NEW r \in Job, SetJob(e, r)
    PROVE  /\ job' \in [Execs -> Job] /\ job'[e] = r
           /\ \A d \in Execs \ {e} : job'[d] = job[d]
  BY DEF Shaped, SagaTypeOK, SetJob

LEMMA Replied ==
    ASSUME Shaped, NEW s \in Slots, NEW hooks \in SUBSET Fps, Reply(s, hooks)
    PROVE  /\ request' \in [Slots -> {Free} \cup RollbackRequest]
           /\ request'[s] = Free
           /\ \A t \in Slots \ {s} : request'[t] = request[t]
           /\ job' \in [Execs -> Job]
           /\ \A e \in Execs : \/ job'[e] = job[e] /\ ~(job[e].slot = s /\ alive[e])
                               \/ /\ job[e].slot = s /\ alive[e]
                                  /\ job[e].pc \in {"register", "complete"}
                                  /\ job'[e] = Resume(job[e], hooks)
<1>1. request \in [Slots -> {Free} \cup RollbackRequest] /\ job \in [Execs -> Job]
  BY DEF Shaped, SagaTypeOK
<1>2. \A e \in Execs : job[e].slot = s => job[e].pc \in {"register", "complete"}
  BY CompensationAssumption DEF Shaped
<1>3. \A e \in Execs : job'[e] = IF job[e].slot = s /\ alive[e]
                                 THEN Resume(job[e], hooks) ELSE job[e]
  BY DEF Reply
<1>4. \A e \in Execs : job[e].slot = s => Resume(job[e], hooks) \in Job
  BY <1>1, <1>2, Resumed
<1>5. job' \in [Execs -> Job]
  BY <1>1, <1>3, <1>4 DEF Reply
<1>6. QED  BY <1>1, <1>2, <1>3, <1>5 DEF Reply

\* Everything but job and request, and what the answered request leaves.
Others ==
    /\ SDKTypeOK
    /\ status \in [Execs -> {"NONE", "RUNNING", "SUCCESS", "FAILED"}]
    /\ rollback \in [Execs -> [Fps -> Rollback]]
    /\ reversed \in [Execs -> [Fps -> Nat]]

LEMMA ReplyShaped ==
    ASSUME Shaped, Others', NEW s \in Slots, NEW hooks \in SUBSET Fps, Reply(s, hooks)
    PROVE  Shaped'
<1>1. \A e \in Execs : job'[e].slot = NoSlot \/ job'[e].pc \in {"register", "complete"}
  <2> SUFFICES ASSUME NEW e \in Execs
               PROVE  job'[e].slot = NoSlot \/ job'[e].pc \in {"register", "complete"}
    OBVIOUS
  <2>1. CASE job'[e] = job[e]
    BY <2>1 DEF Shaped
  <2>2. CASE job[e].pc \in {"register", "complete"} /\ job'[e] = Resume(job[e], hooks)
    BY <2>2, Resumed DEF Shaped, SagaTypeOK
  <2>3. QED  BY <2>1, <2>2, Replied
<1>2. QED  BY <1>1, Replied DEF Shaped, SagaTypeOK, Others

LEMMA RequestShaped ==
    ASSUME Shaped, Others', UNCHANGED job,
           request' \in [Slots -> {Free} \cup RollbackRequest]
    PROVE  Shaped'
  BY DEF Shaped, SagaTypeOK, Others

\* The fields a request changes on its way.
LEMMA RequestMoved ==
    ASSUME SagaTypeOK, NEW s \in Slots, request[s] # Free
    PROVE  /\ \A pc \in {"create", "find", "fire", "mark"} :
                 [request[s] EXCEPT !.pc = pc] \in RollbackRequest
           /\ \A found \in SUBSET Fps :
                 [request[s] EXCEPT !.pc = "fire", !.todo = found, !.found = found]
                    \in RollbackRequest
           /\ \A f \in Fps, carried \in BOOLEAN :
                 [request[s] EXCEPT !.pc = "mark", !.cur = f, !.todo = request[s].todo \ {f},
                                    !.carried = carried] \in RollbackRequest
           /\ [request[s] EXCEPT !.carried = FALSE] \in RollbackRequest
  BY InFlight DEF RollbackRequest

LEMMA SlotStep ==
    ASSUME SagaTypeOK, NEW s \in Slots, NEW b \in {Free} \cup RollbackRequest,
           request' = [request EXCEPT ![s] = b]
    PROVE  /\ request' \in [Slots -> {Free} \cup RollbackRequest]
           /\ request'[s] = b
           /\ \A t \in Slots \ {s} : request'[t] = request[t]
  BY DEF SagaTypeOK

LEMMA ReversedType ==
    ASSUME reversed \in [Execs -> [Fps -> Nat]], NEW e \in Execs, NEW f \in Fps,
           reversed' = reversed \/ reversed' = [reversed EXCEPT ![e][f] = @ + 1]
    PROVE  /\ reversed' \in [Execs -> [Fps -> Nat]]
           /\ \A d \in Execs, g \in Fps : d # e \/ g # f => reversed'[d][g] = reversed[d][g]
           /\ reversed' # reversed => reversed'[e][f] = reversed[e][f] + 1
<1>1. reversed[e] \in [Fps -> Nat] /\ [reversed[e] EXCEPT ![f] = @ + 1] \in [Fps -> Nat]
  OBVIOUS
<1>2. QED  BY <1>1

LEMMA RollbackType ==
    ASSUME rollback \in [Execs -> [Fps -> Rollback]], NEW e \in Execs, NEW f \in Fps,
           NEW b \in Rollback, rollback' = [rollback EXCEPT ![e][f] = b] \/ rollback' = rollback
    PROVE  /\ rollback' \in [Execs -> [Fps -> Rollback]]
           /\ \A d \in Execs, g \in Fps : d # e \/ g # f => rollback'[d][g] = rollback[d][g]
           /\ rollback' # rollback => rollback'[e][f] = b
<1>1. rollback[e] \in [Fps -> Rollback] /\ [rollback[e] EXCEPT ![f] = b] \in [Fps -> Rollback]
  OBVIOUS
<1>2. QED  BY <1>1

LEMMA ServedIsBusy ==
    ASSUME NEW s \in Slots, ServeSlot(s)
    PROVE  request[s] # Free
<1>1. CASE FindEffect(s) \/ CreateRollback(s)
  BY <1>1 DEF FindEffect, CreateRollback, In, Free
<1>2. CASE UpdateExecution(s) \/ FindPending(s)
  BY <1>2 DEF UpdateExecution, FindPending, In, Free
<1>3. CASE Fire(s) \/ Mark(s)
  <2>1. In(s, "complete", "fire") \/ In(s, "complete", "mark")
    BY <1>3 DEF Fire, Mark
  <2>2. QED  BY <2>1 DEF In, Free
<1>4. QED  BY <1>1, <1>2, <1>3 DEF ServeSlot

LEMMA RunJobShaped ==
    ASSUME Shaped, SDKTypeOK', NEW e \in Execs, RunJob(e)
    PROVE  Shaped'
<1>1. /\ job \in [Execs -> Job] /\ job[e] \in Job
      /\ status \in [Execs -> {"NONE", "RUNNING", "SUCCESS", "FAILED"}]
      /\ rollback \in [Execs -> [Fps -> Rollback]] /\ reversed \in [Execs -> [Fps -> Nat]]
      /\ request \in [Slots -> {Free} \cup RollbackRequest]
  BY DEF Shaped, SagaTypeOK
<1>2. ASSUME NEW r \in Job, SetJob(e, r), Others',
             request' \in [Slots -> {Free} \cup RollbackRequest],
             r.slot = NoSlot \/ r.pc \in {"register", "complete"}
      PROVE  Shaped'
  BY <1>2, JobStep DEF Shaped, SagaTypeOK, Others
<1>3. Shaped /\ UNCHANGED <<status, rollback, reversed>> => Others'
  BY DEF Shaped, SagaTypeOK, Others
<1>a. CASE StartJob(e)
  <2> DEFINE r == [job[e] EXCEPT !.pc = "running"]
  <2>1. r \in Job /\ r.slot = job[e].slot
    BY <1>1 DEF Job
  <2>2. Others'
    BY <1>1, <1>a DEF StartJob, Others
  <2>3. job[e].slot = NoSlot
    BY <1>a DEF StartJob, Shaped
  <2>4. QED  BY <1>1, <1>2, <1>a, <2>1, <2>2, <2>3 DEF StartJob
<1>b. ASSUME NEW outcome \in {"value", "threw"}, EndJob(e, outcome)
      PROVE  Shaped'
  <2> DEFINE r == [job[e] EXCEPT !.pc = "complete", !.outcome = outcome]
  <2>1. r \in Job /\ r.pc = "complete"
    BY <1>1 DEF Job
  <2>2. QED  BY <1>1, <1>2, <1>3, <1>b, <2>1 DEF EndJob
<1>c. CASE RunHook(e)
  <2>1. PICK f \in job[e].hooks, left \in SUBSET job[e].hooks :
          /\ left \subseteq job[e].hooks \ {f}
          /\ SetJob(e, [job[e] EXCEPT !.hooks = left,
                                      !.pc = IF left = {} THEN "over" ELSE job[e].pc])
          /\ \/ UNCHANGED reversed
             \/ rollback[e][f].local /\ reversed' = [reversed EXCEPT ![e][f] = @ + 1]
    BY <1>c DEF RunHook
  <2> DEFINE r == [job[e] EXCEPT !.hooks = left,
                                 !.pc = IF left = {} THEN "over" ELSE job[e].pc]
  <2>2. r \in Job /\ r.slot = job[e].slot
    BY <1>1 DEF Job
  <2>3. job[e].slot = NoSlot
    BY <1>c DEF RunHook, Shaped
  <2>4. reversed' \in [Execs -> [Fps -> Nat]]
    <3>1. f \in Fps
      BY <1>1 DEF Job
    <3>2. QED  BY <1>1, <2>1, <3>1, ReversedType
  <2>5. Others'
    BY <1>1, <1>c, <2>4 DEF RunHook, Others
  <2>6. QED  BY <1>1, <1>2, <1>c, <2>1, <2>2, <2>3, <2>5 DEF RunHook
<1>d. CASE Repeat(e)
  <2>1. job[e].pc \in {"register", "complete"}
    BY <1>d DEF Repeat, Asking
  <2>2. TryAgain(job[e]) \in Job /\ TryAgain(job[e]).slot = NoSlot
    BY <1>1, <2>1, TriedAgain
  <2>3. request' \in [Slots -> {Free} \cup RollbackRequest]
    BY <1>1, <1>d DEF Repeat
  <2>4. QED  BY <1>2, <1>3, <1>d, <2>2, <2>3 DEF Repeat
<1>e. ASSUME NEW s \in Slots, Submit(e, s)
      PROVE  Shaped'
  <2>1. PICK local \in BOOLEAN :
          request' = [request EXCEPT ![s] =
                        [pc |-> "received", op |-> job[e].pc, exec |-> e, fp |-> job[e].fp,
                         local |-> local, failed |-> job[e].outcome = "threw", todo |-> {},
                         found |-> {}, cur |-> AnyFp, carried |-> FALSE]]
    BY <1>e, CompensationAssumption DEF Submit
  <2>2. [pc |-> "received", op |-> job[e].pc, exec |-> e, fp |-> job[e].fp,
         local |-> local, failed |-> job[e].outcome = "threw", todo |-> {},
         found |-> {}, cur |-> AnyFp, carried |-> FALSE] \in RollbackRequest
    BY <1>1, <1>e, AnyFpType DEF Submit, Asking, RollbackRequest, Job
  <2>3. request' \in [Slots -> {Free} \cup RollbackRequest]
    BY <1>1, <2>1, <2>2
  <2>4. [job[e] EXCEPT !.slot = s] \in Job /\ [job[e] EXCEPT !.slot = s].pc = job[e].pc
    BY <1>1 DEF Job
  <2>5. QED  BY <1>2, <1>3, <1>e, <2>3, <2>4 DEF Submit, Asking
<1>f. QED  BY <1>a, <1>b, <1>c, <1>d, <1>e DEF RunJob

LEMMA ServeSlotShaped ==
    ASSUME Shaped, SDKTypeOK', NEW s \in Slots, ServeSlot(s) \/ SagaDatabaseFails(s)
    PROVE  Shaped'
<1>1. /\ job \in [Execs -> Job]
      /\ status \in [Execs -> {"NONE", "RUNNING", "SUCCESS", "FAILED"}]
      /\ rollback \in [Execs -> [Fps -> Rollback]] /\ reversed \in [Execs -> [Fps -> Nat]]
      /\ request \in [Slots -> {Free} \cup RollbackRequest] /\ SagaTypeOK
  BY DEF Shaped, SagaTypeOK
<1>2. request[s] # Free
  BY ServedIsBusy DEF SagaDatabaseFails
<1>3. /\ request[s].exec \in Execs /\ request[s].fp \in Fps /\ request[s].cur \in Fps
      /\ request[s].todo \subseteq Fps /\ request[s].found \subseteq Fps
      /\ request[s].local \in BOOLEAN
  BY <1>1, <1>2, InFlight
<1>4. UNCHANGED <<status, rollback, reversed>> => Others'
  BY <1>1 DEF Others
<1>5. ASSUME NEW b \in RollbackRequest, request' = [request EXCEPT ![s] = b],
             UNCHANGED job, Others'
      PROVE  Shaped'
  BY <1>1, <1>5, SlotStep, RequestShaped
<1>6. \A pc \in {"create", "find", "fire", "mark"} :
         [request[s] EXCEPT !.pc = pc] \in RollbackRequest
  BY <1>1, <1>2, RequestMoved
<1>7. {} \in SUBSET Fps
  OBVIOUS
<1>a. CASE FindEffect(s)
  BY <1>4, <1>5, <1>6, <1>7, <1>a, ReplyShaped DEF FindEffect
<1>b. CASE CreateRollback(s)
  <2>1. rollback' \in [Execs -> [Fps -> Rollback]]
    <3>1. [status |-> "PENDING", local |-> request[s].local] \in Rollback
      BY <1>3 DEF Rollback
    <3>2. QED  BY <1>1, <1>3, <1>b, <3>1, RollbackType DEF CreateRollback
  <2>2. Others'
    BY <1>1, <1>b, <2>1 DEF CreateRollback, Others
  <2>3. QED  BY <1>7, <1>b, <2>2, ReplyShaped DEF CreateRollback
<1>c. CASE UpdateExecution(s)
  <2>1. Others'
    BY <1>1, <1>c DEF UpdateExecution, Others
  <2>2. QED  BY <1>5, <1>6, <1>7, <1>c, <2>1, ReplyShaped DEF UpdateExecution
<1>d. CASE FindPending(s)
  <2>1. Pending(request[s].exec) \in SUBSET Fps
    BY DEF Pending
  <2>2. [request[s] EXCEPT !.pc = "fire", !.todo = Pending(request[s].exec),
                           !.found = Pending(request[s].exec)] \in RollbackRequest
    BY <1>1, <1>2, <2>1, RequestMoved
  <2>3. QED  BY <1>4, <1>5, <1>7, <1>d, <2>2, ReplyShaped DEF FindPending
<1>e. CASE Fire(s)
  <2>1. PICK f \in request[s].todo, carried \in BOOLEAN :
          /\ Attempted(s, f, carried)
          /\ UNCHANGED reversed
             \/ reversed' = [reversed EXCEPT ![request[s].exec][f] = @ + 1]
    BY <1>e DEF Fire
  <2>2. reversed' \in [Execs -> [Fps -> Nat]]
    <3>1. f \in Fps
      BY <1>3
    <3>2. QED  BY <1>1, <1>3, <2>1, <3>1, ReversedType
  <2>3. Others'
    BY <1>1, <1>e, <2>2 DEF Fire, Others
  <2>4. [request[s] EXCEPT !.pc = "mark", !.cur = f, !.todo = request[s].todo \ {f},
                           !.carried = carried] \in RollbackRequest
    BY <1>1, <1>2, <1>3, <2>1, RequestMoved
  <2>5. QED  BY <1>5, <1>e, <2>1, <2>3, <2>4 DEF Fire, Attempted
<1>f. CASE Mark(s)
  <2>1. rollback' \in [Execs -> [Fps -> Rollback]]
    <3> DEFINE v == IF request[s].carried THEN "COMPLETED" ELSE "FAILED"
               b == [rollback[request[s].exec][request[s].cur] EXCEPT !.status = v]
    <3>1. b \in Rollback
      <4>1. rollback[request[s].exec][request[s].cur] \in Rollback
        BY <1>1, <1>3
      <4>2. v \in {"COMPLETED", "FAILED"}
        OBVIOUS
      <4> HIDE DEF v
      <4>3. QED  BY <4>1, <4>2 DEF Rollback
    <3>2. rollback' = [rollback EXCEPT ![request[s].exec][request[s].cur] = b]
      BY <1>f DEF Mark
    <3> HIDE DEF b, v
    <3>3. QED  BY <1>1, <1>3, <3>1, <3>2, RollbackType
  <2>2. Others'
    BY <1>1, <1>f, <2>1 DEF Mark, Others
  <2>3. QED  BY <1>3, <1>5, <1>6, <1>f, <2>2, ReplyShaped DEF Mark
<1>g. CASE SagaDatabaseFails(s)
  <2>1. [request[s] EXCEPT !.carried = FALSE] \in RollbackRequest
    BY <1>1, <1>2, RequestMoved
  <2>2. QED  BY <1>4, <1>5, <1>7, <1>g, <2>1, ReplyShaped DEF SagaDatabaseFails
<1>h. QED  BY <1>a, <1>b, <1>c, <1>d, <1>e, <1>f, <1>g DEF ServeSlot

LEMMA SagaNextShaped ==
    ASSUME EffectEndpoints \subseteq Endpoints, Shaped, [SagaNext]_allVars
    PROVE  Shaped'
<1>1. SDKTypeOK'
  BY SagaSteps, SDKNextType DEF Shaped, SagaTypeOK
<1>2. SDKTypeOK' /\ UNCHANGED sagaVars => Shaped'
  BY DEF Shaped, SagaTypeOK, sagaVars
<1>3. ASSUME NEW c \in Calls, Compensate(c)
      PROVE  Shaped'
  <2> DEFINE e == ExecOf(c)
             r == [job[e] EXCEPT !.pc = "register", !.fp = FpOf(c),
                                 !.asked = job[e].asked \cup {FpOf(c)}]
  <2>1. e \in Execs /\ FpOf(c) \in Fps
    BY SDKAssumption DEF ExecOf, FpOf
  <2>2. r \in Job /\ r.pc = "register"
    BY <2>1 DEF Shaped, SagaTypeOK, Job
  <2>3. SetJob(e, r) /\ UNCHANGED <<status, rollback, request, reversed>>
    BY <1>3 DEF Compensate
  <2> HIDE DEF e, r
  <2>4. QED  BY <1>1, <2>1, <2>2, <2>3, JobStep DEF Shaped, SagaTypeOK
<1>4. ASSUME SagaApiCrash
      PROVE  Shaped'
  <2>1. \A e \in Execs : [job[e] EXCEPT !.slot = Broken] \in Job
                         /\ [job[e] EXCEPT !.slot = Broken].pc = job[e].pc
    BY DEF Shaped, SagaTypeOK, Job
  <2>2. job' \in [Execs -> Job]
    BY <1>4, <2>1 DEF SagaApiCrash, Shaped, SagaTypeOK
  <2>3. \A e \in Execs : job'[e].slot = NoSlot \/ job'[e].pc \in {"register", "complete"}
    BY <1>4, <2>1, CompensationAssumption DEF SagaApiCrash, Shaped
  <2>4. QED  BY <1>1, <1>4, <2>2, <2>3 DEF SagaApiCrash, Shaped, SagaTypeOK
<1>5. ASSUME NEW c \in Calls, NEW opts \in Options, MakeCall(c, opts)
      PROVE  UNCHANGED sagaVars
  BY <1>5 DEF MakeCall
<1>6. UNCHANGED allVars => UNCHANGED sagaVars
  BY DEF allVars, sagaVars
<1>7. QED
  BY <1>1, <1>2, <1>3, <1>4, <1>5, <1>6, RunJobShaped, ServeSlotShaped DEF SagaNext

LEMMA SagaInitShaped == SagaInit => Shaped
<1> SUFFICES ASSUME SagaInit
             PROVE  Shaped
  OBVIOUS
<1>1. SDKTypeOK
  BY LedgerInitType DEF SagaInit, Init, SDKTypeOK, Miss
<1>2. 0 \in 0..MaxRetries /\ AnyFp \in Fps
  BY SDKAssumption, AnyFpType
<1>3. QED
  BY <1>1, <1>2 DEF SagaInit, Shaped, SagaTypeOK, Job, Rollback, NoRollback

\* The state keeps its shape.
THEOREM SagaTypeCorrect ==
    ASSUME EffectEndpoints \subseteq Endpoints
    PROVE  SagaSpec => []SagaTypeOK
<1>1. Shaped => SagaTypeOK
  BY DEF Shaped
<1>2. QED  BY <1>1, SagaInitShaped, SagaNextShaped, PTL DEF SagaSpec

-----------------------------------------------------------------------------
(* The inductive invariant.                                                 *)

Finding(s) == request[s].pc \in {"find", "fire", "mark"}

\* Where the job is.
JobOK(e) ==
    /\ job[e].pc \in {"off", "running", "register"} <=> job[e].outcome = "none"
    /\ job[e].slot = NoSlot \/ job[e].pc \in {"register", "complete"}
    /\ job[e].pc = "hooks" => job[e].outcome = "threw"
    /\ \A f \in job[e].hooks : rollback[e][f].status # "NONE"
    /\ alive[e] /\ job[e].slot \in Slots =>
          /\ request[job[e].slot] # Free
          /\ request[job[e].slot].exec = e /\ request[job[e].slot].op = job[e].pc

\* A request in flight, whoever waits for it: it completes a job that has
\* ended, and reverses only what a job that threw has registered.
RequestOK(s) ==
    LET e == request[s].exec
    IN  /\ request[s].op = "complete" =>
              /\ job[e].outcome # "none"
              /\ request[s].failed <=> job[e].outcome = "threw"
        /\ Finding(s) => request[s].op = "complete" /\ request[s].failed
        /\ request[s].pc \in {"fire", "mark"} =>
              \A f \in request[s].todo \cup request[s].found : rollback[e][f].status # "NONE"
        /\ request[s].pc = "mark" =>
              /\ rollback[e][request[s].cur].status # "NONE"
              /\ request[s].carried /\ ~rollback[e][request[s].cur].local
                    => reversed[e][request[s].cur] > 0

OutcomeInv ==
    /\ SagaTypeOK
    /\ \A e \in Execs : JobOK(e)
    /\ \A s \in Slots : request[s] # Free => RequestOK(s)
    /\ OutcomeIsKept
    /\ CompletedWasReversed

\* Rollbacks are only added and carried out.
RowsGrow ==
    \A e \in Execs, f \in Fps :
        /\ rollback[e][f].status # "NONE" =>
              rollback'[e][f].status # "NONE" /\ rollback'[e][f].local = rollback[e][f].local
        /\ reversed[e][f] > 0 => reversed'[e][f] > 0

HasEnded(e) == job[e].pc \in {"complete", "hooks", "over"}

\* A job that has ended stays so, with its outcome.
JobsEnd ==
    \A e \in Execs : HasEnded(e) => HasEnded(e)' /\ job'[e].outcome = job[e].outcome

JobsAndRequestsOK ==
    /\ \A e \in Execs : JobOK(e)
    /\ \A s \in Slots : request[s] # Free => RequestOK(s)

LEMMA EndedHasOutcome ==
    ASSUME OutcomeInv, NEW e \in Execs
    PROVE  HasEnded(e) <=> job[e].outcome # "none"
<1>1. job[e].pc \in {"off", "running", "register", "complete", "hooks", "over"}
  BY DEF OutcomeInv, SagaTypeOK, Job
<1>2. QED  BY <1>1 DEF OutcomeInv, JobOK, HasEnded

LEMMA NothingGrows ==
    ASSUME UNCHANGED <<rollback, reversed>>
    PROVE  RowsGrow
  BY DEF RowsGrow

\* A request nobody touches, and a job that goes on waiting.
LEMMA RequestStays ==
    ASSUME OutcomeInv, RowsGrow, JobsEnd, NEW s \in Slots, request[s] # Free,
           request'[s] = request[s]
    PROVE  RequestOK(s)'
<1>1. RequestOK(s) /\ request[s] \in RollbackRequest /\ SagaTypeOK
  BY InFlight DEF OutcomeInv
<1> DEFINE e == request[s].exec
<1>2. e \in Execs /\ request[s].cur \in Fps /\ request[s].todo \subseteq Fps
      /\ request[s].found \subseteq Fps
  BY <1>1 DEF RollbackRequest
<1>3. job[e].outcome # "none" => job'[e].outcome = job[e].outcome
  BY <1>2, EndedHasOutcome DEF JobsEnd
<1>4. request'[s].op = "complete" =>
         /\ job'[request'[s].exec].outcome # "none"
         /\ request'[s].failed <=> job'[request'[s].exec].outcome = "threw"
  BY <1>1, <1>3 DEF RequestOK
<1>5. /\ Finding(s)' => request'[s].op = "complete" /\ request'[s].failed
      /\ request'[s].pc \in {"fire", "mark"} =>
            \A f \in request'[s].todo \cup request'[s].found :
               rollback'[request'[s].exec][f].status # "NONE"
  BY <1>1, <1>2 DEF RequestOK, Finding, RowsGrow
<1>6. request'[s].pc = "mark" =>
         /\ rollback'[request'[s].exec][request'[s].cur].status # "NONE"
         /\ request'[s].carried /\ ~rollback'[request'[s].exec][request'[s].cur].local
               => reversed'[request'[s].exec][request'[s].cur] > 0
  <2>1. request[s].pc = "mark" =>
           /\ rollback[e][request[s].cur].status # "NONE"
           /\ request[s].carried /\ ~rollback[e][request[s].cur].local
                 => reversed[e][request[s].cur] > 0
    BY <1>1 DEF RequestOK
  <2>2. /\ rollback[e][request[s].cur].status # "NONE" =>
             /\ rollback'[e][request[s].cur].status # "NONE"
             /\ rollback'[e][request[s].cur].local = rollback[e][request[s].cur].local
        /\ reversed[e][request[s].cur] > 0 => reversed'[e][request[s].cur] > 0
    BY <1>2 DEF RowsGrow
  <2>3. QED  BY <2>1, <2>2
<1>7. QED  BY <1>4, <1>5, <1>6 DEF RequestOK

LEMMA JobStays ==
    ASSUME OutcomeInv, RowsGrow, NEW e \in Execs, job'[e] = job[e], alive'[e] => alive[e],
           alive[e] /\ job[e].slot \in Slots =>
              /\ request'[job[e].slot] # Free
              /\ request'[job[e].slot].exec = request[job[e].slot].exec
              /\ request'[job[e].slot].op = request[job[e].slot].op
    PROVE  JobOK(e)'
<1>1. JobOK(e) /\ job[e].hooks \subseteq Fps
  BY DEF OutcomeInv, SagaTypeOK, Job
<1>2. \A f \in job[e].hooks : rollback'[e][f].status # "NONE"
  BY <1>1 DEF JobOK, RowsGrow
<1>3. QED  BY <1>1, <1>2 DEF JobOK

\* The step of one job, of one request, an answer.
LEMMA OneJobKeeps ==
    ASSUME OutcomeInv, RowsGrow, UNCHANGED <<request, alive>>, NEW e \in Execs,
           \A d \in Execs \ {e} : job'[d] = job[d], JobOK(e)',
           HasEnded(e) => HasEnded(e)' /\ job'[e].outcome = job[e].outcome
    PROVE  JobsAndRequestsOK' /\ JobsEnd
<1>1. JobsEnd
  BY DEF JobsEnd, HasEnded
<1>2. \A d \in Execs \ {e} : JobOK(d)'
  <2> SUFFICES ASSUME NEW d \in Execs \ {e}
               PROVE  JobOK(d)'
    OBVIOUS
  <2>1. JobOK(d)
    BY DEF OutcomeInv
  <2>2. QED  BY <2>1, JobStays DEF JobOK
<1>3. \A s \in Slots : request'[s] # Free => RequestOK(s)'
  BY <1>1, RequestStays
<1>4. QED  BY <1>1, <1>2, <1>3 DEF JobsAndRequestsOK

LEMMA MoveKeeps ==
    ASSUME OutcomeInv, RowsGrow, UNCHANGED <<job, alive>>, NEW s \in Slots,
           request[s] # Free, request'[s] # Free,
           request'[s].exec = request[s].exec, request'[s].op = request[s].op,
           \A t \in Slots \ {s} : request'[t] = request[t], RequestOK(s)'
    PROVE  JobsAndRequestsOK' /\ JobsEnd
<1>1. JobsEnd
  BY DEF JobsEnd, HasEnded
<1>2. ASSUME NEW e \in Execs
      PROVE  JobOK(e)'
  <2>1. JobOK(e)
    BY DEF OutcomeInv
  <2>2. QED  BY <2>1, JobStays DEF JobOK
<1>3. \A t \in Slots \ {s} : request'[t] # Free => RequestOK(t)'
  BY <1>1, RequestStays
<1>4. QED  BY <1>1, <1>2, <1>3 DEF JobsAndRequestsOK

LEMMA ReplyKeeps ==
    ASSUME OutcomeInv, RowsGrow, UNCHANGED alive, NEW s \in Slots, request[s] # Free,
           NEW hooks \in SUBSET Fps, Reply(s, hooks),
           hooks # {} => request[s].pc = "mark" /\ hooks = request[s].found
    PROVE  JobsAndRequestsOK' /\ JobsEnd
<1>1. Shaped
  BY DEF OutcomeInv, Shaped, JobOK
<1>2. /\ request'[s] = Free
      /\ \A t \in Slots \ {s} : request'[t] = request[t]
      /\ \A e \in Execs : \/ job'[e] = job[e] /\ ~(job[e].slot = s /\ alive[e])
                          \/ /\ job[e].slot = s /\ alive[e]
                             /\ job[e].pc \in {"register", "complete"}
                             /\ job'[e] = Resume(job[e], hooks)
  BY <1>1, Replied
<1>3. ASSUME NEW e \in Execs, job[e].slot = s, alive[e],
             job[e].pc \in {"register", "complete"}, job'[e] = Resume(job[e], hooks)
      PROVE  /\ JobOK(e)'
             /\ HasEnded(e) => HasEnded(e)' /\ job'[e].outcome = job[e].outcome
  <2>1. /\ job'[e].slot = NoSlot /\ job'[e].hooks = hooks
        /\ job'[e].outcome = job[e].outcome
        /\ job[e].pc = "register" => job'[e].pc = "running"
        /\ job[e].pc = "complete" => job'[e].pc = IF hooks = {} THEN "over" ELSE "hooks"
    BY <1>1, <1>3, Resumed DEF Shaped, SagaTypeOK
  <2>2. request[s].exec = e /\ request[s].op = job[e].pc /\ JobOK(e) /\ RequestOK(s)
    BY <1>3 DEF OutcomeInv, JobOK
  <2>3. hooks # {} => /\ job[e].outcome = "threw"
                      /\ \A f \in hooks : rollback[e][f].status # "NONE"
    BY <2>2 DEF RequestOK, Finding
  <2>4. \A f \in hooks : rollback'[e][f].status # "NONE"
    BY <1>3, <2>3 DEF RowsGrow
  <2>5. NoSlot \notin Slots
    BY CompensationAssumption
  <2>6. JobOK(e)'
    BY <1>3, <2>1, <2>2, <2>3, <2>4, <2>5 DEF JobOK
  <2>7. QED  BY <1>3, <2>1, <2>6 DEF HasEnded
<1>4. JobsEnd
  BY <1>2, <1>3 DEF JobsEnd, HasEnded
<1>5. ASSUME NEW e \in Execs
      PROVE  JobOK(e)'
  <2>1. CASE job'[e] = job[e] /\ ~(job[e].slot = s /\ alive[e])
    <3>1. JobOK(e)
      BY DEF OutcomeInv
    <3>2. QED  BY <1>2, <2>1, <3>1, JobStays DEF JobOK
  <2>2. QED  BY <1>2, <1>3, <2>1
<1>6. \A t \in Slots : request'[t] # Free => RequestOK(t)'
  BY <1>2, <1>4, RequestStays
<1>7. QED  BY <1>4, <1>5, <1>6 DEF JobsAndRequestsOK

\* What is on record stays true of jobs that stay ended.
StatusGoesOn(e) ==
    \/ status'[e] = status[e]
    \/ status'[e] = "RUNNING"
    \/ /\ HasEnded(e)
       /\ status'[e] = IF job[e].outcome = "threw" THEN "FAILED" ELSE "SUCCESS"

ReversalGoesOn(e) ==
    \/ \A f \in Fps : reversed'[e][f] > 0 => reversed[e][f] > 0
    \/ HasEnded(e) /\ job[e].outcome = "threw"

LEMMA RecordsStay ==
    ASSUME OutcomeInv, JobsEnd, \A e \in Execs : StatusGoesOn(e) /\ ReversalGoesOn(e)
    PROVE  OutcomeIsKept'
<1> SUFFICES ASSUME NEW e \in Execs
             PROVE  /\ status'[e] = "SUCCESS" => job'[e].outcome = "value"
                    /\ status'[e] = "FAILED" \/ (\E f \in Fps : reversed'[e][f] > 0)
                          => job'[e].outcome = "threw"
                             /\ job'[e].pc \in {"complete", "hooks", "over"}
  BY DEF OutcomeIsKept
<1>1. /\ status[e] = "SUCCESS" => job[e].outcome = "value"
      /\ status[e] = "FAILED" \/ (\E f \in Fps : reversed[e][f] > 0)
            => job[e].outcome = "threw" /\ HasEnded(e)
  BY DEF OutcomeInv, OutcomeIsKept, HasEnded
<1>2. job[e].outcome # "none" <=> HasEnded(e)
  BY EndedHasOutcome
<1>3. HasEnded(e) => job'[e].outcome = job[e].outcome
                  /\ job'[e].pc \in {"complete", "hooks", "over"}
  BY DEF JobsEnd, HasEnded
<1>4. job[e].outcome \in {"none", "value", "threw"}
  BY DEF OutcomeInv, SagaTypeOK, Job
<1>5. status'[e] = "SUCCESS" => job'[e].outcome = "value"
  BY <1>1, <1>2, <1>3, <1>4 DEF StatusGoesOn
<1>6. status'[e] = "FAILED" => job'[e].outcome = "threw" /\ HasEnded(e)
  BY <1>1, <1>2, <1>3, <1>4 DEF StatusGoesOn
<1>7. (\E f \in Fps : reversed'[e][f] > 0) => job'[e].outcome = "threw" /\ HasEnded(e)
  BY <1>1, <1>3 DEF ReversalGoesOn
<1>8. QED  BY <1>3, <1>5, <1>6, <1>7

LEMMA CompletedStays ==
    ASSUME OutcomeInv, RowsGrow, UNCHANGED rollback
    PROVE  CompletedWasReversed'
  BY DEF OutcomeInv, CompletedWasReversed, RowsGrow

LEMMA NothingRecorded ==
    ASSUME OutcomeInv, JobsAndRequestsOK', JobsEnd, SagaTypeOK',
           UNCHANGED <<status, rollback, reversed>>
    PROVE  OutcomeInv'
<1>1. OutcomeIsKept'
  <2>1. \A e \in Execs : StatusGoesOn(e) /\ ReversalGoesOn(e)
    BY DEF StatusGoesOn, ReversalGoesOn
  <2>2. QED  BY <2>1, RecordsStay
<1>2. CompletedWasReversed'
  BY CompletedStays, NothingGrows
<1>3. QED  BY <1>1, <1>2 DEF OutcomeInv, JobsAndRequestsOK

LEMMA ShapedInv == OutcomeInv => Shaped
  BY DEF OutcomeInv, Shaped, JobOK

LEMMA RunJobKeeps ==
    ASSUME OutcomeInv, SagaTypeOK', NEW e \in Execs, RunJob(e)
    PROVE  OutcomeInv'
<1>1. /\ Shaped /\ JobOK(e) /\ job[e] \in Job /\ job[e].hooks \subseteq Fps
      /\ NoSlot \notin Slots /\ Broken \notin Slots
  BY ShapedInv, CompensationAssumption DEF OutcomeInv, SagaTypeOK, Job
<1>2. UNCHANGED <<vars, request>> => UNCHANGED <<request, alive>>
  BY DEF vars
<1>a. CASE StartJob(e)
  <2> DEFINE r == [job[e] EXCEPT !.pc = "running"]
  <2>1. /\ r \in Job /\ r.pc = "running" /\ r.outcome = job[e].outcome
        /\ r.slot = job[e].slot /\ r.hooks = job[e].hooks
    BY <1>1 DEF Job
  <2>2. job'[e] = r /\ \A d \in Execs \ {e} : job'[d] = job[d]
    BY <1>1, <1>a, <2>1, JobStep DEF StartJob
  <2>3. RowsGrow
    BY <1>a, NothingGrows DEF StartJob
  <2>4. UNCHANGED <<request, alive>> /\ job[e].pc = "off"
    BY <1>a DEF StartJob, vars
  <2> HIDE DEF r
  <2>5. JobOK(e)'
    BY <1>1, <2>1, <2>2, <2>3, <2>4 DEF JobOK, RowsGrow
  <2>6. JobsAndRequestsOK' /\ JobsEnd
    BY <2>2, <2>3, <2>4, <2>5, OneJobKeeps DEF HasEnded
  <2>7. \A d \in Execs : status'[d] = status[d] \/ status'[d] = "RUNNING"
    BY <1>1, <1>a DEF StartJob, Shaped, SagaTypeOK
  <2>8. UNCHANGED <<rollback, reversed>>
    BY <1>a DEF StartJob
  <2>9. OutcomeIsKept'
    <3>1. \A d \in Execs : StatusGoesOn(d) /\ ReversalGoesOn(d)
      BY <2>7, <2>8 DEF StatusGoesOn, ReversalGoesOn
    <3>2. QED  BY <2>6, <3>1, RecordsStay
  <2>10. QED  BY <2>3, <2>6, <2>8, <2>9, CompletedStays DEF OutcomeInv, JobsAndRequestsOK
<1>b. ASSUME NEW outcome \in {"value", "threw"}, EndJob(e, outcome)
      PROVE  OutcomeInv'
  <2> DEFINE r == [job[e] EXCEPT !.pc = "complete", !.outcome = outcome]
  <2>1. /\ r \in Job /\ r.pc = "complete" /\ r.outcome = outcome
        /\ r.slot = job[e].slot /\ r.hooks = job[e].hooks
    BY <1>1 DEF Job
  <2>2. job'[e] = r /\ \A d \in Execs \ {e} : job'[d] = job[d]
    BY <1>1, <1>b, <2>1, JobStep DEF EndJob
  <2>3. RowsGrow
    BY <1>b, NothingGrows DEF EndJob
  <2>4. UNCHANGED <<request, alive>> /\ job[e].pc = "running"
    BY <1>b DEF EndJob, vars
  <2> HIDE DEF r
  <2>5. JobOK(e)'
    BY <1>1, <2>1, <2>2, <2>3, <2>4 DEF JobOK, RowsGrow
  <2>6. JobsAndRequestsOK' /\ JobsEnd
    BY <2>2, <2>3, <2>4, <2>5, OneJobKeeps DEF HasEnded
  <2>7. QED  BY <1>b, <2>6, NothingRecorded DEF EndJob
<1>c. CASE RunHook(e)
  <2>1. PICK f \in job[e].hooks, left \in SUBSET job[e].hooks :
          /\ left \subseteq job[e].hooks \ {f}
          /\ SetJob(e, [job[e] EXCEPT !.hooks = left,
                                      !.pc = IF left = {} THEN "over" ELSE job[e].pc])
          /\ \/ UNCHANGED reversed
             \/ rollback[e][f].local /\ reversed' = [reversed EXCEPT ![e][f] = @ + 1]
    BY <1>c DEF RunHook
  <2> DEFINE r == [job[e] EXCEPT !.hooks = left,
                                 !.pc = IF left = {} THEN "over" ELSE job[e].pc]
  <2>2. /\ r \in Job /\ r.pc \in {"over", "hooks"} /\ r.outcome = job[e].outcome
        /\ r.slot = job[e].slot /\ r.hooks = left
    BY <1>1, <1>c DEF Job, RunHook
  <2>3. job'[e] = r /\ \A d \in Execs \ {e} : job'[d] = job[d]
    BY <1>1, <2>1, <2>2, JobStep
  <2>4. /\ UNCHANGED <<request, alive, status, rollback>> /\ job[e].pc = "hooks"
    BY <1>c DEF RunHook, vars
  <2>5. /\ \A d \in Execs, g \in Fps : reversed[d][g] > 0 => reversed'[d][g] > 0
        /\ \A d \in Execs \ {e}, g \in Fps : reversed'[d][g] = reversed[d][g]
    <3>1. f \in Fps /\ reversed \in [Execs -> [Fps -> Nat]]
      BY <1>1 DEF Shaped, SagaTypeOK
    <3>2. /\ \A d \in Execs, g \in Fps : d # e \/ g # f => reversed'[d][g] = reversed[d][g]
          /\ reversed' # reversed => reversed'[e][f] = reversed[e][f] + 1
      BY <2>1, <3>1, ReversedType
    <3>3. QED  BY <3>1, <3>2
  <2>6. RowsGrow
    BY <2>4, <2>5 DEF RowsGrow
  <2> HIDE DEF r
  <2>7. JobOK(e)'
    BY <1>1, <2>2, <2>3, <2>4, <2>6 DEF JobOK, RowsGrow
  <2>8. JobsAndRequestsOK' /\ JobsEnd
    BY <2>2, <2>3, <2>4, <2>6, <2>7, OneJobKeeps DEF HasEnded
  <2>9. HasEnded(e) /\ job[e].outcome = "threw"
    BY <1>1, <2>4 DEF JobOK, HasEnded
  <2>10. OutcomeIsKept'
    <3>1. \A d \in Execs : StatusGoesOn(d) /\ ReversalGoesOn(d)
      BY <2>4, <2>5, <2>9 DEF StatusGoesOn, ReversalGoesOn
    <3>2. QED  BY <2>8, <3>1, RecordsStay
  <2>11. QED  BY <2>4, <2>6, <2>8, <2>10, CompletedStays DEF OutcomeInv, JobsAndRequestsOK
<1>d. CASE Repeat(e)
  <2> DEFINE q == job[e].slot
  <2>1. job[e].pc \in {"register", "complete"} /\ alive[e] /\ UNCHANGED alive
        /\ UNCHANGED <<status, rollback, reversed>>
    BY <1>d DEF Repeat, Asking, vars
  <2>2. \/ UNCHANGED request
        \/ q \in Slots /\ request' = [request EXCEPT ![q] = Free]
    BY <1>d DEF Repeat
  <2>3. job'[e] = TryAgain(job[e]) /\ \A d \in Execs \ {e} : job'[d] = job[d]
    BY <1>1, <1>d, <2>1, TriedAgain, JobStep DEF Repeat
  <2>4. /\ job'[e].slot = NoSlot /\ job'[e].outcome = job[e].outcome
        /\ \/ job'[e].pc = job[e].pc /\ job'[e].hooks = job[e].hooks
           \/ /\ job'[e].hooks = {}
              /\ job[e].pc = "register" => job'[e].pc = "running"
              /\ job[e].pc = "complete" => job'[e].pc = "over"
    BY <1>1, <2>1, <2>3, TriedAgain
  <2>5. RowsGrow
    BY <2>1, NothingGrows
  <2>6. JobOK(e)'
    BY <1>1, <2>1, <2>4, <2>5 DEF JobOK, RowsGrow
  <2>7. JobsEnd
    BY <2>1, <2>3, <2>4 DEF JobsEnd, HasEnded
  <2>8. \A s \in Slots : request'[s] = Free \/ request'[s] = request[s]
    BY <1>1, <2>2 DEF Shaped, SagaTypeOK
  <2>9. ASSUME NEW d \in Execs \ {e}
        PROVE  JobOK(d)'
    <3>1. JobOK(d)
      BY DEF OutcomeInv
    <3>2. alive[d] /\ job[d].slot \in Slots => job[d].slot # q
      BY <1>1, <2>1, <3>1 DEF JobOK
    <3>3. alive[d] /\ job[d].slot \in Slots => request'[job[d].slot] = request[job[d].slot]
      BY <1>1, <2>2, <3>2 DEF Shaped, SagaTypeOK
    <3>4. QED  BY <2>1, <2>3, <2>5, <3>1, <3>3, JobStays DEF JobOK
  <2>10. \A s \in Slots : request'[s] # Free => RequestOK(s)'
    BY <2>5, <2>7, <2>8, RequestStays
  <2>11. JobsAndRequestsOK'
    BY <2>6, <2>9, <2>10 DEF JobsAndRequestsOK
  <2>12. QED  BY <2>1, <2>7, <2>11, NothingRecorded
<1>e. ASSUME NEW s \in Slots, Submit(e, s)
      PROVE  OutcomeInv'
  <2>1. PICK local \in BOOLEAN :
          request' = [request EXCEPT ![s] =
                        [pc |-> "received", op |-> job[e].pc, exec |-> e, fp |-> job[e].fp,
                         local |-> local, failed |-> job[e].outcome = "threw", todo |-> {},
                         found |-> {}, cur |-> AnyFp, carried |-> FALSE]]
    BY <1>e, CompensationAssumption DEF Submit
  <2>2. /\ request'[s].pc = "received" /\ request'[s].op = job[e].pc /\ request'[s].exec = e
        /\ request'[s].failed = (job[e].outcome = "threw") /\ request'[s] # Free
        /\ \A t \in Slots \ {s} : request'[t] = request[t]
    BY <1>1, <2>1 DEF Shaped, SagaTypeOK, Free
  <2>3. /\ job[e].pc \in {"register", "complete"} /\ UNCHANGED <<alive, status, rollback, reversed>>
        /\ request[s] = Free
    BY <1>e DEF Submit, Asking, vars
  <2>4. /\ [job[e] EXCEPT !.slot = s] \in Job
        /\ [job[e] EXCEPT !.slot = s].pc = job[e].pc
        /\ [job[e] EXCEPT !.slot = s].outcome = job[e].outcome
        /\ [job[e] EXCEPT !.slot = s].hooks = job[e].hooks
        /\ [job[e] EXCEPT !.slot = s].slot = s
    BY <1>1 DEF Job
  <2>5. job'[e] = [job[e] EXCEPT !.slot = s] /\ \A d \in Execs \ {e} : job'[d] = job[d]
    BY <1>1, <1>e, <2>4, JobStep DEF Submit
  <2>6. RowsGrow
    BY <2>3, NothingGrows
  <2>7. JobOK(e)'
    BY <1>1, <2>2, <2>3, <2>4, <2>5, <2>6 DEF JobOK, RowsGrow
  <2>8. JobsEnd
    BY <2>4, <2>5 DEF JobsEnd, HasEnded
  <2>9. ASSUME NEW d \in Execs \ {e}
        PROVE  JobOK(d)'
    <3>1. JobOK(d)
      BY DEF OutcomeInv
    <3>2. alive[d] /\ job[d].slot \in Slots => job[d].slot # s
      BY <2>3, <3>1 DEF JobOK
    <3>3. QED  BY <2>2, <2>3, <2>5, <2>6, <3>1, <3>2, JobStays DEF JobOK
  <2>10. RequestOK(s)'
    <3>1. job'[e].outcome = job[e].outcome /\ (job[e].pc = "complete" => job[e].outcome # "none")
      BY <1>1, <2>4, <2>5 DEF JobOK
    <3>2. QED  BY <2>2, <3>1 DEF RequestOK, Finding
  <2>11. \A t \in Slots : request'[t] # Free => RequestOK(t)'
    BY <2>2, <2>6, <2>8, <2>10, RequestStays
  <2>12. JobsAndRequestsOK'
    BY <2>7, <2>9, <2>11 DEF JobsAndRequestsOK
  <2>13. QED  BY <2>3, <2>8, <2>12, NothingRecorded
<1>f. QED  BY <1>a, <1>b, <1>c, <1>d, <1>e DEF RunJob

LEMMA ServeSlotKeeps ==
    ASSUME OutcomeInv, SagaTypeOK', NEW s \in Slots, ServeSlot(s) \/ SagaDatabaseFails(s)
    PROVE  OutcomeInv'
<1>1. Shaped /\ request[s] # Free /\ RequestOK(s) /\ SagaTypeOK
  BY ShapedInv, ServedIsBusy DEF OutcomeInv, SagaDatabaseFails
<1> SUFFICES ASSUME NEW e \in Execs, request[s].exec = e
             PROVE  OutcomeInv'
  BY <1>1, InFlight
<1>2. /\ request[s] \in RollbackRequest
      /\ request[s].fp \in Fps /\ request[s].cur \in Fps
      /\ request[s].todo \subseteq Fps /\ request[s].found \subseteq Fps
      /\ rollback \in [Execs -> [Fps -> Rollback]] /\ reversed \in [Execs -> [Fps -> Nat]]
  BY <1>1, InFlight DEF SagaTypeOK
<1>3. UNCHANGED alive
  BY DEF ServeSlot, FindEffect, CreateRollback, UpdateExecution, FindPending, Fire, Mark,
     SagaDatabaseFails, vars
<1>4. ASSUME Reply(s, {}), UNCHANGED <<status, rollback, reversed>>
      PROVE  OutcomeInv'
  BY <1>1, <1>3, <1>4, NothingGrows, ReplyKeeps, NothingRecorded
<1>5. ASSUME NEW b \in RollbackRequest, request' = [request EXCEPT ![s] = b], UNCHANGED job,
             b.exec = e, b.op = request[s].op, b.failed = request[s].failed,
             RowsGrow,
             b.pc \in {"find", "fire", "mark"} => b.op = "complete" /\ b.failed,
             b.pc \in {"fire", "mark"} =>
                \A f \in b.todo \cup b.found : rollback'[e][f].status # "NONE",
             b.pc = "mark" =>
                /\ rollback'[e][b.cur].status # "NONE"
                /\ b.carried /\ ~rollback'[e][b.cur].local => reversed'[e][b.cur] > 0
      PROVE  JobsAndRequestsOK' /\ JobsEnd
  <2>1. request'[s] = b /\ \A t \in Slots \ {s} : request'[t] = request[t]
    BY <1>1, <1>5, SlotStep
  <2>2. b # Free
    BY DEF RollbackRequest, Free
  <2>3. RequestOK(s)'
    BY <1>1, <1>5, <2>1 DEF RequestOK, Finding
  <2>4. QED  BY <1>1, <1>3, <1>5, <2>1, <2>2, <2>3, MoveKeeps
<1>6. Finding(s) => /\ request[s].op = "complete" /\ request[s].failed /\ HasEnded(e)
                    /\ job[e].outcome = "threw"
  <2>1. HasEnded(e) <=> job[e].outcome # "none"
    BY EndedHasOutcome
  <2>2. QED  BY <1>1, <2>1 DEF RequestOK
<1>a. CASE FindEffect(s)
  <2>1. CASE Reply(s, {})
    BY <1>4, <1>a, <2>1 DEF FindEffect
  <2>2. CASE request' = [request EXCEPT ![s].pc = "create"] /\ UNCHANGED job
    <3> DEFINE b == [request[s] EXCEPT !.pc = "create"]
    <3>1. /\ b \in RollbackRequest /\ b.exec = e /\ b.op = request[s].op
          /\ b.failed = request[s].failed /\ b.pc = "create"
      BY <1>2 DEF RollbackRequest
    <3>2. request' = [request EXCEPT ![s] = b] /\ UNCHANGED <<status, rollback, reversed>>
      BY <1>a, <2>2 DEF FindEffect
    <3> HIDE DEF b
    <3>3. JobsAndRequestsOK' /\ JobsEnd
      BY <1>5, <2>2, <3>1, <3>2, NothingGrows
    <3>4. QED  BY <3>2, <3>3, NothingRecorded
  <2>3. QED  BY <1>a, <2>1, <2>2 DEF FindEffect
<1>b. CASE CreateRollback(s)
  <2> DEFINE b == [status |-> "PENDING", local |-> request[s].local]
             f == request[s].fp
  <2>1. /\ rollback[e][f].status = "NONE" => rollback' = [rollback EXCEPT ![e][f] = b]
        /\ rollback[e][f].status # "NONE" => rollback' = rollback
        /\ UNCHANGED <<status, reversed>> /\ Reply(s, {})
    BY <1>b DEF CreateRollback
  <2>2. b \in Rollback /\ b.status = "PENDING"
    BY <1>2 DEF Rollback, RollbackRequest
  <2> HIDE DEF b
  <2>3. /\ \A d \in Execs, g \in Fps : d # e \/ g # f => rollback'[d][g] = rollback[d][g]
        /\ rollback' # rollback => rollback'[e][f] = b /\ rollback[e][f].status = "NONE"
    BY <1>2, <2>1, <2>2, RollbackType
  <2>4. RowsGrow
    BY <2>1, <2>2, <2>3 DEF RowsGrow
  <2>5. JobsAndRequestsOK' /\ JobsEnd
    BY <1>1, <1>3, <2>1, <2>4, ReplyKeeps
  <2>6. OutcomeIsKept'
    <3>1. \A d \in Execs : StatusGoesOn(d) /\ ReversalGoesOn(d)
      BY <2>1 DEF StatusGoesOn, ReversalGoesOn
    <3>2. QED  BY <2>5, <3>1, RecordsStay
  <2>7. CompletedWasReversed'
    BY <2>1, <2>2, <2>3 DEF OutcomeInv, CompletedWasReversed
  <2>8. QED  BY <2>5, <2>6, <2>7 DEF OutcomeInv, JobsAndRequestsOK
<1>c. CASE UpdateExecution(s)
  <2>1. /\ request[s].op = "complete" /\ UNCHANGED <<rollback, reversed>>
        /\ status' = [status EXCEPT ![e] = IF request[s].failed THEN "FAILED" ELSE "SUCCESS"]
    BY <1>c DEF UpdateExecution, In
  <2>2. /\ HasEnded(e) /\ (request[s].failed <=> job[e].outcome = "threw")
    BY <1>1, <2>1, EndedHasOutcome DEF RequestOK
  <2>3. \A d \in Execs : StatusGoesOn(d) /\ ReversalGoesOn(d)
    BY <1>1, <2>1, <2>2 DEF StatusGoesOn, ReversalGoesOn, SagaTypeOK
  <2>4. RowsGrow
    BY <2>1, NothingGrows
  <2>5. JobsAndRequestsOK' /\ JobsEnd
    <3>1. CASE Reply(s, {})
      BY <1>1, <1>3, <2>4, <3>1, ReplyKeeps
    <3>2. CASE request[s].failed /\ request' = [request EXCEPT ![s].pc = "find"] /\ UNCHANGED job
      <4> DEFINE b == [request[s] EXCEPT !.pc = "find"]
      <4>1. /\ b \in RollbackRequest /\ b.exec = e /\ b.op = request[s].op
            /\ b.failed = request[s].failed /\ b.pc = "find"
        BY <1>2 DEF RollbackRequest
      <4>2. request' = [request EXCEPT ![s] = b]
        BY <3>2
      <4> HIDE DEF b
      <4>3. QED  BY <1>5, <2>1, <2>4, <3>2, <4>1, <4>2
    <3>3. QED  BY <1>c, <3>1, <3>2 DEF UpdateExecution
  <2>6. QED
    BY <2>1, <2>3, <2>4, <2>5, RecordsStay, CompletedStays DEF OutcomeInv, JobsAndRequestsOK

<1>d. CASE FindPending(s)
  <2> DEFINE found == Pending(e)
  <2>1. UNCHANGED <<status, rollback, reversed>> /\ In(s, "complete", "find")
    BY <1>d DEF FindPending
  <2>2. CASE Reply(s, {})
    BY <1>4, <2>1, <2>2
  <2>3. CASE /\ request' = [request EXCEPT ![s] =
                              [@ EXCEPT !.pc = "fire", !.todo = found, !.found = found]]
             /\ UNCHANGED job
    <3> DEFINE b == [request[s] EXCEPT !.pc = "fire", !.todo = found, !.found = found]
    <3>1. /\ b \in RollbackRequest /\ b.exec = e /\ b.op = request[s].op
          /\ b.failed = request[s].failed /\ b.pc = "fire" /\ b.todo = found /\ b.found = found
      BY <1>2 DEF RollbackRequest, Pending
    <3>2. request' = [request EXCEPT ![s] = b]
      BY <2>3
    <3>3. \A f \in found \cup found : rollback'[e][f].status # "NONE"
      BY <2>1 DEF Pending
    <3>4. request[s].op = "complete" /\ request[s].failed
      BY <1>6, <2>1 DEF In, Finding
    <3> HIDE DEF b, found
    <3>5. JobsAndRequestsOK' /\ JobsEnd
      BY <1>5, <2>1, <2>3, <3>1, <3>2, <3>3, <3>4, NothingGrows
    <3>6. QED  BY <2>1, <3>5, NothingRecorded
  <2>4. QED  BY <1>d, <2>2, <2>3 DEF FindPending
<1>e. CASE Fire(s)
  <2>1. PICK f \in request[s].todo, carried \in BOOLEAN :
          /\ Attempted(s, f, carried)
          /\ \/ UNCHANGED reversed /\ (carried => rollback[e][f].local)
             \/ reversed' = [reversed EXCEPT ![e][f] = @ + 1]
    BY <1>e DEF Fire
  <2>2. UNCHANGED <<job, status, rollback>> /\ In(s, "complete", "fire") /\ f \in Fps
    BY <1>2, <1>e DEF Fire
  <2>3. /\ \A d \in Execs, g \in Fps : d # e \/ g # f => reversed'[d][g] = reversed[d][g]
        /\ reversed' # reversed => reversed'[e][f] = reversed[e][f] + 1
        /\ reversed'[e][f] \in Nat
    BY <1>2, <2>1, <2>2, ReversedType
  <2>4. RowsGrow
    BY <1>2, <2>2, <2>3 DEF RowsGrow
  <2>5. carried /\ ~rollback'[e][f].local => reversed'[e][f] > 0
    <3>1. [reversed EXCEPT ![e][f] = @ + 1][e][f] = reversed[e][f] + 1
          /\ reversed[e][f] \in Nat
      BY <1>2, <2>2
    <3>2. QED  BY <2>1, <2>2, <3>1
  <2> DEFINE b == [request[s] EXCEPT !.pc = "mark", !.cur = f, !.todo = request[s].todo \ {f},
                                     !.carried = carried]
  <2>6. /\ b \in RollbackRequest /\ b.exec = e /\ b.op = request[s].op
        /\ b.failed = request[s].failed /\ b.pc = "mark" /\ b.cur = f /\ b.carried = carried
        /\ b.todo \cup b.found \subseteq request[s].todo \cup request[s].found
    BY <1>2, <2>2 DEF RollbackRequest
  <2>7. request' = [request EXCEPT ![s] = b]
    BY <2>1 DEF Attempted
  <2>8. /\ request[s].op = "complete" /\ request[s].failed
        /\ HasEnded(e) /\ job[e].outcome = "threw"
    BY <1>6, <2>2 DEF In, Finding
  <2>9. \A g \in request[s].todo \cup request[s].found : rollback'[e][g].status # "NONE"
    BY <1>1, <2>2 DEF RequestOK, In
  <2> HIDE DEF b
  <2>10. rollback'[e][f].status # "NONE"
    BY <2>1, <2>9
  <2>11. JobsAndRequestsOK' /\ JobsEnd
    BY <1>5, <2>2, <2>4, <2>5, <2>6, <2>7, <2>8, <2>9, <2>10
  <2>12. \A d \in Execs : StatusGoesOn(d) /\ ReversalGoesOn(d)
    BY <2>2, <2>3, <2>8 DEF StatusGoesOn, ReversalGoesOn
  <2>13. QED
    BY <2>2, <2>4, <2>11, <2>12, RecordsStay, CompletedStays DEF OutcomeInv, JobsAndRequestsOK
<1>f. CASE Mark(s)
  <2> DEFINE f == request[s].cur
             v == IF request[s].carried THEN "COMPLETED" ELSE "FAILED"
             b == [rollback[e][f] EXCEPT !.status = v]
  <2>1. /\ UNCHANGED <<status, reversed>> /\ In(s, "complete", "mark")
        /\ rollback' = [rollback EXCEPT ![e][f] = b]
    BY <1>f DEF Mark
  <2>2. v \in {"COMPLETED", "FAILED"} /\ (v = "COMPLETED" <=> request[s].carried)
    BY <1>2 DEF RollbackRequest
  <2>3. b \in Rollback /\ b.status = v /\ b.local = rollback[e][f].local
    <3>1. rollback[e][f] \in Rollback
      BY <1>2
    <3> HIDE DEF v
    <3>2. QED  BY <2>2, <3>1 DEF Rollback
  <2>4. /\ request[s].found \in SUBSET Fps
        /\ \A g \in request[s].todo \cup request[s].found : rollback[e][g].status # "NONE"
        /\ rollback[e][f].status # "NONE"
        /\ request[s].carried /\ ~rollback[e][f].local => reversed[e][f] > 0
        /\ request[s].op = "complete" /\ request[s].failed
    BY <1>1, <1>2, <1>6, <2>1 DEF RequestOK, In, Finding
  <2> HIDE DEF v, b
  <2>5. /\ \A d \in Execs, g \in Fps : d # e \/ g # f => rollback'[d][g] = rollback[d][g]
        /\ rollback'[e][f] = b
    BY <1>2, <2>1, <2>3, RollbackType
  <2>6. RowsGrow
    BY <2>1, <2>2, <2>3, <2>5 DEF RowsGrow
  <2>7. JobsAndRequestsOK' /\ JobsEnd
    <3>1. CASE Reply(s, request[s].found)
      BY <1>1, <1>3, <2>1, <2>4, <2>6, <3>1, ReplyKeeps DEF In
    <3>2. CASE request' = [request EXCEPT ![s].pc = "fire"] /\ UNCHANGED job
      <4> DEFINE q == [request[s] EXCEPT !.pc = "fire"]
      <4>1. /\ q \in RollbackRequest /\ q.exec = e /\ q.op = request[s].op
            /\ q.failed = request[s].failed /\ q.pc = "fire"
            /\ q.todo = request[s].todo /\ q.found = request[s].found
        BY <1>2 DEF RollbackRequest
      <4>2. request' = [request EXCEPT ![s] = q]
        BY <3>2
      <4>3. \A g \in request[s].todo \cup request[s].found : rollback'[e][g].status # "NONE"
        BY <1>2, <2>4, <2>6 DEF RowsGrow
      <4> HIDE DEF q
      <4>4. QED  BY <1>5, <2>4, <2>6, <3>2, <4>1, <4>2, <4>3
    <3>3. QED  BY <1>f, <3>1, <3>2 DEF Mark
  <2>8. \A d \in Execs : StatusGoesOn(d) /\ ReversalGoesOn(d)
    BY <2>1 DEF StatusGoesOn, ReversalGoesOn
  <2>9. CompletedWasReversed'
    BY <2>1, <2>2, <2>3, <2>4, <2>5 DEF OutcomeInv, CompletedWasReversed
  <2>10. QED
    BY <2>7, <2>8, <2>9, RecordsStay DEF OutcomeInv, JobsAndRequestsOK
<1>g. CASE SagaDatabaseFails(s)
  <2>1. CASE Reply(s, {})
    BY <1>4, <1>g, <2>1 DEF SagaDatabaseFails
  <2>2. CASE request' = [request EXCEPT ![s].carried = FALSE] /\ UNCHANGED job
    <3> DEFINE b == [request[s] EXCEPT !.carried = FALSE]
    <3>1. /\ b \in RollbackRequest /\ b.exec = e /\ b.op = request[s].op /\ ~b.carried
          /\ b.failed = request[s].failed /\ b.pc = request[s].pc /\ b.cur = request[s].cur
          /\ b.todo = request[s].todo /\ b.found = request[s].found
      BY <1>2 DEF RollbackRequest
    <3>2. request' = [request EXCEPT ![s] = b] /\ UNCHANGED <<status, rollback, reversed>>
      BY <1>g, <2>2 DEF SagaDatabaseFails
    <3> HIDE DEF b
    <3>3. /\ request[s].pc \in {"find", "fire", "mark"} =>
               request[s].op = "complete" /\ request[s].failed
          /\ request[s].pc \in {"fire", "mark"} =>
               \A f \in request[s].todo \cup request[s].found : rollback'[e][f].status # "NONE"
          /\ request[s].pc = "mark" => rollback'[e][request[s].cur].status # "NONE"
      BY <1>1, <3>2 DEF RequestOK, Finding
    <3>4. JobsAndRequestsOK' /\ JobsEnd
      BY <1>5, <2>2, <3>1, <3>2, <3>3, NothingGrows
    <3>5. QED  BY <3>2, <3>4, NothingRecorded
  <2>3. QED  BY <1>g, <2>1, <2>2 DEF SagaDatabaseFails
<1>h. QED  BY <1>a, <1>b, <1>c, <1>d, <1>e, <1>f, <1>g DEF ServeSlot

\* The calls of the job know nothing of its end.
LEMMA DeadStayDead ==
    ASSUME SDKTypeOK, [Next]_vars
    PROVE  \A e \in Execs : alive'[e] => alive[e]
<1>1. ASSUME NEW e \in Execs, Crash(e)
      PROVE  \A d \in Execs : alive'[d] => alive[d]
  BY <1>1 DEF Crash, SDKTypeOK
<1>2. ASSUME NEW c \in Calls, Attempt(c)
      PROVE  UNCHANGED alive
  BY <1>2 DEF Attempt, Refused, Abort, Responses, Send, GiveUp, BeginExecute, BeginSkip,
     BeginRefused, BeginError, CommitDone, MarkDone, Answered
<1>3. ASSUME NEW c \in Calls, Act(c) \/ Return(c) \/ ReceiptThrows(c) \/ Throw(c)
                              \/ OperationTimeout(c)
      PROVE  UNCHANGED alive
  BY <1>3 DEF Act, Return, ReceiptThrows, Throw, OperationTimeout
<1>4. ASSUME NEW h \in Handlers, ServeOne(h) \/ FailOne(h) \/ RespondToNobody(h)
      PROVE  UNCHANGED alive
  BY <1>4 DEF ServeOne, FailOne, RespondToNobody, clientVars
<1>5. ASSUME NEW c \in Calls, NEW opts \in Options, Start(c, opts)
      PROVE  UNCHANGED alive
  BY <1>5 DEF Start, Invoke
<1>6. ApiCrash \/ UNCHANGED vars => UNCHANGED alive
  BY DEF ApiCrash, vars
<1>7. QED  BY <1>1, <1>2, <1>3, <1>4, <1>5, <1>6 DEF Next, Proceed

LEMMA CallsKeep ==
    ASSUME OutcomeInv, SagaTypeOK', UNCHANGED sagaVars, \A e \in Execs : alive'[e] => alive[e]
    PROVE  OutcomeInv'
<1>1. RowsGrow /\ UNCHANGED <<job, status, rollback, request, reversed>>
  BY NothingGrows DEF sagaVars
<1>2. JobsEnd
  BY <1>1 DEF JobsEnd, HasEnded
<1>3. \A e \in Execs : JobOK(e)'
  <2> SUFFICES ASSUME NEW e \in Execs
               PROVE  JobOK(e)'
    OBVIOUS
  <2>1. JobOK(e)
    BY DEF OutcomeInv
  <2>2. QED  BY <1>1, <2>1, JobStays DEF JobOK
<1>4. \A s \in Slots : request'[s] # Free => RequestOK(s)'
  BY <1>1, <1>2, RequestStays
<1>5. QED  BY <1>1, <1>2, <1>3, <1>4, NothingRecorded DEF JobsAndRequestsOK

LEMMA OutcomeNext ==
    ASSUME EffectEndpoints \subseteq Endpoints, OutcomeInv, [SagaNext]_allVars
    PROVE  OutcomeInv'
<1>1. Shaped /\ SagaTypeOK' /\ SDKTypeOK
  BY ShapedInv, SagaNextShaped DEF Shaped, SagaTypeOK
<1>2. \A e \in Execs : alive'[e] => alive[e]
  BY <1>1, SagaSteps, DeadStayDead
<1>3. UNCHANGED sagaVars => OutcomeInv'
  BY <1>1, <1>2, CallsKeep
<1>4. ASSUME NEW c \in Calls, Compensate(c)
      PROVE  OutcomeInv'
  <2> DEFINE e == ExecOf(c)
             r == [job[e] EXCEPT !.pc = "register", !.fp = FpOf(c),
                                 !.asked = job[e].asked \cup {FpOf(c)}]
  <2>1. e \in Execs /\ FpOf(c) \in Fps
    BY SDKAssumption DEF ExecOf, FpOf
  <2>2. /\ r \in Job /\ r.pc = "register" /\ r.outcome = job[e].outcome
        /\ r.slot = job[e].slot /\ r.hooks = job[e].hooks
    <3>1. job[e] \in Job
      BY <1>1, <2>1 DEF Shaped, SagaTypeOK
    <3> HIDE DEF e
    <3>2. r \in Job
      BY <2>1, <3>1 DEF Job
    <3>3. QED  BY <3>1, <3>2 DEF Job
  <2>3. SetJob(e, r) /\ UNCHANGED <<status, rollback, request, reversed, alive>>
        /\ job[e].pc = "running"
    BY <1>4 DEF Compensate, vars
  <2> HIDE DEF e, r
  <2>4. job'[e] = r /\ \A d \in Execs \ {e} : job'[d] = job[d]
    BY <1>1, <2>1, <2>2, <2>3, JobStep
  <2>5. RowsGrow
    BY <2>3, NothingGrows
  <2>6. JobOK(e) /\ job[e].slot = NoSlot /\ NoSlot \notin Slots /\ job[e].hooks \subseteq Fps
    BY <1>1, <2>1, <2>3, CompensationAssumption DEF OutcomeInv, Shaped, SagaTypeOK, Job
  <2>7. JobOK(e)'
    BY <2>1, <2>2, <2>3, <2>4, <2>5, <2>6 DEF JobOK, RowsGrow
  <2>8. JobsAndRequestsOK' /\ JobsEnd
    BY <2>1, <2>3, <2>4, <2>5, <2>7, OneJobKeeps DEF HasEnded
  <2>9. QED  BY <1>1, <2>3, <2>8, NothingRecorded
<1>5. CASE SagaApiCrash
  <2>1. /\ UNCHANGED <<status, rollback, reversed>> /\ \A s \in Slots : request'[s] = Free
        /\ \A e \in Execs : job'[e] = IF job[e].slot \in Slots
                                      THEN [job[e] EXCEPT !.slot = Broken] ELSE job[e]
    BY <1>5 DEF SagaApiCrash
  <2>2. \A e \in Execs :
          /\ job'[e].pc = job[e].pc /\ job'[e].outcome = job[e].outcome
          /\ job'[e].hooks = job[e].hooks /\ job[e].hooks \subseteq Fps
          /\ job'[e].slot \notin Slots
          /\ job[e].slot = NoSlot => job'[e].slot = NoSlot
    BY <1>1, <2>1, CompensationAssumption DEF Shaped, SagaTypeOK, Job
  <2>3. RowsGrow
    BY <2>1, NothingGrows
  <2>4. ASSUME NEW e \in Execs
        PROVE  JobOK(e)'
    <3>1. JobOK(e)
      BY DEF OutcomeInv
    <3>2. \A f \in job[e].hooks : rollback'[e][f].status # "NONE"
      BY <2>1, <3>1 DEF JobOK
    <3>3. QED  BY <2>2, <3>1, <3>2 DEF JobOK
  <2>5. JobsEnd
    BY <2>2 DEF JobsEnd, HasEnded
  <2>6. JobsAndRequestsOK'
    BY <2>1, <2>4 DEF JobsAndRequestsOK
  <2>7. QED  BY <1>1, <2>1, <2>5, <2>6, NothingRecorded
<1>6. UNCHANGED allVars => UNCHANGED sagaVars
  BY DEF allVars, sagaVars
<1>7. ASSUME NEW c \in Calls, NEW opts \in Options, MakeCall(c, opts)
      PROVE  UNCHANGED sagaVars
  BY <1>7 DEF MakeCall
<1>8. QED
  BY <1>1, <1>3, <1>4, <1>5, <1>6, <1>7, RunJobKeeps, ServeSlotKeeps DEF SagaNext

LEMMA OutcomeInit == SagaInit => OutcomeInv
<1> SUFFICES ASSUME SagaInit
             PROVE  OutcomeInv
  OBVIOUS
<1>1. Shaped /\ NoSlot \notin Slots
  BY SagaInitShaped, CompensationAssumption
<1>2. \A e \in Execs : JobOK(e)
  BY <1>1 DEF SagaInit, JobOK
<1>3. \A s \in Slots : request[s] = Free
  BY DEF SagaInit
<1>4. OutcomeIsKept /\ CompletedWasReversed
  BY DEF SagaInit, OutcomeIsKept, CompletedWasReversed, NoRollback
<1>5. QED  BY <1>1, <1>2, <1>3, <1>4 DEF OutcomeInv, Shaped

\* The API records what the job returned, and reverses nothing of a job that
\* did not throw: a handler of complete() that nobody waits for any more still
\* belongs to a job that has ended, and says of it what the job said.
THEOREM OutcomesAreKept ==
    ASSUME EffectEndpoints \subseteq Endpoints
    PROVE  SagaSpec => []OutcomeIsKept
<1>1. OutcomeInv => OutcomeIsKept
  BY DEF OutcomeInv
<1>2. QED  BY <1>1, OutcomeInit, OutcomeNext, PTL DEF SagaSpec

\* A rollback on record as COMPLETED was carried out by its target: Mark goes by
\* row id after Fire, and no registration in between makes the row another's.
THEOREM CompletedWereReversed ==
    ASSUME EffectEndpoints \subseteq Endpoints
    PROVE  SagaSpec => []CompletedWasReversed
<1>1. OutcomeInv => CompletedWasReversed
  BY DEF OutcomeInv
<1>2. QED  BY <1>1, OutcomeInit, OutcomeNext, PTL DEF SagaSpec

\* The completions in flight that may still call the target of e's rollback
\* of f, and how many completions e has sent or will ever send.
ToFire(e, f) ==
    {s \in Slots : /\ request[s] # Free
                   /\ request[s].op = "complete" /\ request[s].exec = e
                   /\ request[s].pc \in {"received", "find"} \/ f \in request[s].todo}

Sent(e) == IF job[e].pc \in {"off", "running", "register"} THEN 0
           ELSE IF job[e].pc \in {"hooks", "over"} THEN MaxRetries + 1
           ELSE IF job[e].slot = NoSlot THEN job[e].tries ELSE job[e].tries + 1

\* A target is called at most once for each of them, a hook at most once.
ReversalOK(e, f) ==
    /\ rollback[e][f].status = "NONE" => reversed[e][f] = 0 /\ ~rollback[e][f].local
    /\ ~rollback[e][f].local => reversed[e][f] + Cardinality(ToFire(e, f)) <= Sent(e)
    /\ rollback[e][f].local =>
          /\ reversed[e][f] <= 1
          /\ job[e].pc \in {"hooks", "over"} \/ reversed[e][f] = 0
          /\ f \in job[e].hooks => reversed[e][f] = 0

ReversalInv ==
    /\ OutcomeInv
    /\ \A e \in Execs, f \in Fps : ReversalOK(e, f)

SentFacts(e) ==
    /\ job[e].pc \in {"off", "running", "register"} => Sent(e) = 0
    /\ job[e].pc = "complete" =>
          /\ job[e].slot = NoSlot => Sent(e) = job[e].tries
          /\ job[e].slot # NoSlot => Sent(e) = job[e].tries + 1
    /\ job[e].pc \in {"hooks", "over"} => Sent(e) = MaxRetries + 1
    /\ job[e].tries \in Nat /\ job[e].tries <= MaxRetries
    /\ Sent(e) \in Nat /\ Sent(e) <= MaxRetries + 1

LEMMA SentIs == SagaTypeOK => \A e \in Execs : SentFacts(e)
<1> SUFFICES ASSUME SagaTypeOK, NEW e \in Execs
             PROVE  SentFacts(e)
  OBVIOUS
<1>1. /\ job[e].pc \in {"off", "running", "register", "complete", "hooks", "over"}
      /\ job[e].tries \in 0..MaxRetries /\ MaxRetries \in Nat
  BY SDKAssumption DEF SagaTypeOK, Job
<1>2. job[e].tries \in Nat /\ job[e].tries <= MaxRetries
  BY <1>1
<1>3. CASE job[e].pc \in {"off", "running", "register"}
  BY <1>1, <1>2, <1>3 DEF Sent, SentFacts
<1>4. CASE job[e].pc = "complete"
  BY <1>1, <1>2, <1>4 DEF Sent, SentFacts
<1>5. CASE job[e].pc \in {"hooks", "over"}
  BY <1>1, <1>2, <1>5 DEF Sent, SentFacts
<1>6. QED  BY <1>1, <1>3, <1>4, <1>5

LEMMA SentWillBe == SagaTypeOK' => \A e \in Execs : SentFacts(e)'
<1>1. SagaTypeOK' => (\A e \in Execs : SentFacts(e))'
  BY SentIs, PTL
<1>2. QED  BY <1>1

LEMMA ToFireIsFinite ==
    /\ \A e \in Execs, f \in Fps : IsFiniteSet(ToFire(e, f)) /\ Cardinality(ToFire(e, f)) \in Nat
    /\ \A e \in Execs, f \in Fps :
          IsFiniteSet(ToFire(e, f)') /\ Cardinality(ToFire(e, f)') \in Nat
<1>1. \A S \in SUBSET Slots : IsFiniteSet(S) /\ Cardinality(S) \in Nat
  BY FS_Subset, FS_CardinalityType, CompensationAssumption
<1>2. \A e \in Execs, f \in Fps : ToFire(e, f) \subseteq Slots /\ ToFire(e, f)' \subseteq Slots
  BY DEF ToFire
<1>3. QED  BY <1>1, <1>2

\* What a job and a request may become.
JobGoesOn(e) ==
    /\ Sent(e) <= Sent(e)'
    /\ job[e].pc \in {"hooks", "over"} => job'[e].pc \in {"hooks", "over"}
    /\ \A f \in job'[e].hooks : f \in job[e].hooks \/ job[e].pc \notin {"hooks", "over"}

RequestGoesOn(s) ==
    \/ request'[s] = request[s]
    \/ request'[s] = Free
    \/ /\ request[s] # Free
       /\ request'[s].exec = request[s].exec /\ request'[s].op = request[s].op
       /\ \/ request[s].pc \in {"received", "find"}
          \/ /\ request'[s].pc \notin {"received", "find"}
             /\ request'[s].todo \subseteq request[s].todo

RowGoesOn(e, f) ==
    /\ rollback'[e][f].local = rollback[e][f].local
    /\ rollback'[e][f].status = "NONE" => rollback[e][f].status = "NONE"
    /\ reversed'[e][f] = reversed[e][f]

LEMMA FewerToFire ==
    ASSUME \A s \in Slots : RequestGoesOn(s), NEW e \in Execs, NEW f \in Fps
    PROVE  ToFire(e, f)' \subseteq ToFire(e, f)
<1> SUFFICES ASSUME NEW s \in Slots, s \in ToFire(e, f)'
             PROVE  s \in ToFire(e, f)
  BY DEF ToFire
<1>1. /\ request'[s] # Free
      /\ request'[s].op = "complete" /\ request'[s].exec = e
      /\ request'[s].pc \in {"received", "find"} \/ f \in request'[s].todo
  BY DEF ToFire
<1>2. QED  BY <1>1 DEF RequestGoesOn, ToFire

LEMMA ReversalStays ==
    ASSUME SagaTypeOK, SagaTypeOK', NEW e \in Execs, NEW f \in Fps, ReversalOK(e, f),
           RowGoesOn(e, f), JobGoesOn(e), ToFire(e, f)' \subseteq ToFire(e, f)
    PROVE  ReversalOK(e, f)'
<1>1. /\ Sent(e) \in Nat /\ Sent(e)' \in Nat
  BY SentIs, SentWillBe DEF SentFacts
<1>2. Cardinality(ToFire(e, f)') <= Cardinality(ToFire(e, f))
      /\ Cardinality(ToFire(e, f)') \in Nat /\ Cardinality(ToFire(e, f)) \in Nat
  BY ToFireIsFinite, FS_Subset
<1>3. reversed[e][f] \in Nat
  BY DEF SagaTypeOK
<1>4. ~rollback'[e][f].local => reversed'[e][f] + Cardinality(ToFire(e, f)') <= Sent(e)'
  BY <1>1, <1>2, <1>3 DEF ReversalOK, RowGoesOn, JobGoesOn
<1>5. rollback'[e][f].local =>
         /\ reversed'[e][f] <= 1
         /\ job'[e].pc \in {"hooks", "over"} \/ reversed'[e][f] = 0
         /\ f \in job'[e].hooks => reversed'[e][f] = 0
  BY DEF ReversalOK, RowGoesOn, JobGoesOn
<1>6. rollback'[e][f].status = "NONE" => reversed'[e][f] = 0 /\ ~rollback'[e][f].local
  BY DEF ReversalOK, RowGoesOn
<1>7. QED  BY <1>4, <1>5, <1>6 DEF ReversalOK

\* No step sends less, and none but the hooks' own takes anything back.
LEMMA SentGrows ==
    ASSUME SagaTypeOK, SagaTypeOK', NEW e \in Execs,
           \/ job[e].pc \in {"off", "running", "register"}
           \/ job'[e].pc \in {"hooks", "over"}
           \/ /\ job[e].pc = "complete" /\ job'[e].pc = "complete"
              /\ \/ /\ job'[e].tries = job[e].tries
                    /\ job'[e].slot = NoSlot => job[e].slot = NoSlot
                 \/ job'[e].tries = job[e].tries + 1
    PROVE  Sent(e) <= Sent(e)'
<1>1. SentFacts(e) /\ SentFacts(e)'
  BY SentIs, SentWillBe
<1>2. CASE job[e].pc \in {"off", "running", "register"}
  BY <1>1, <1>2 DEF SentFacts
<1>3. CASE job'[e].pc \in {"hooks", "over"}
  BY <1>1, <1>3 DEF SentFacts
<1>4. CASE /\ job[e].pc = "complete" /\ job'[e].pc = "complete"
           /\ \/ /\ job'[e].tries = job[e].tries
                 /\ job'[e].slot = NoSlot => job[e].slot = NoSlot
              \/ job'[e].tries = job[e].tries + 1
  <2> DEFINE x == Sent(e)
             y == Sent(e)'
  <2>1. /\ x \in Nat /\ y \in Nat /\ job[e].tries \in Nat /\ job'[e].tries \in Nat
        /\ job[e].slot = NoSlot => x = job[e].tries
        /\ job[e].slot # NoSlot => x = job[e].tries + 1
        /\ job'[e].slot = NoSlot => y = job'[e].tries
        /\ job'[e].slot # NoSlot => y = job'[e].tries + 1
    BY <1>1, <1>4 DEF SentFacts
  <2> HIDE DEF x, y
  <2>2. x <= y
    BY <1>4, <2>1
  <2>3. QED  BY <2>2 DEF x, y
<1>5. QED  BY <1>2, <1>3, <1>4

\* No step sends less, and none but the hooks' own takes anything back.
LEMMA SameJobGoesOn ==
    ASSUME SagaTypeOK, SagaTypeOK', NEW e \in Execs, job'[e] = job[e]
    PROVE  JobGoesOn(e)
<1>1. job[e].pc \in {"off", "running", "register", "complete", "hooks", "over"}
  BY DEF SagaTypeOK, Job
<1>2. Sent(e) <= Sent(e)'
  BY <1>1, SentGrows
<1>3. QED  BY <1>2 DEF JobGoesOn

LEMMA AllReversalsStay ==
    ASSUME ReversalInv, SagaTypeOK', \A e \in Execs : JobGoesOn(e),
           \A s \in Slots : RequestGoesOn(s), \A e \in Execs, f \in Fps : RowGoesOn(e, f)
    PROVE  \A e \in Execs, f \in Fps : ReversalOK(e, f)'
<1> SUFFICES ASSUME NEW e \in Execs, NEW f \in Fps
             PROVE  ReversalOK(e, f)'
  OBVIOUS
<1>1. SagaTypeOK /\ ReversalOK(e, f) /\ RowGoesOn(e, f) /\ JobGoesOn(e)
  BY DEF ReversalInv, OutcomeInv
<1>2. ToFire(e, f)' \subseteq ToFire(e, f)
  BY FewerToFire
<1>3. QED  BY <1>1, <1>2, ReversalStays

LEMMA SameRowsGoOn ==
    ASSUME UNCHANGED <<rollback, reversed>>
    PROVE  \A e \in Execs, f \in Fps : RowGoesOn(e, f)
  BY DEF RowGoesOn

\* An answer ends a request, and lets a job go on to its hooks.
LEMMA ReplyGoesOn ==
    ASSUME Shaped, SagaTypeOK', NEW s \in Slots, NEW hooks \in SUBSET Fps, Reply(s, hooks)
    PROVE  /\ \A e \in Execs : JobGoesOn(e)
           /\ \A t \in Slots : RequestGoesOn(t)
<1>1. SagaTypeOK /\ \A t \in Slots : request'[t] = Free \/ request'[t] = request[t]
  BY Replied DEF Shaped
<1>2. ASSUME NEW e \in Execs
      PROVE  JobGoesOn(e)
  <2>1. CASE job'[e] = job[e]
    BY <1>1, <2>1, SameJobGoesOn
  <2>2. CASE job[e].pc \in {"register", "complete"} /\ job'[e] = Resume(job[e], hooks)
    <3>1. /\ job[e].pc = "register" => job'[e].pc = "running"
          /\ job[e].pc = "complete" => job'[e].pc \in {"hooks", "over"}
      BY <1>1, <2>2, Resumed DEF SagaTypeOK
    <3>2. Sent(e) <= Sent(e)'
      BY <1>1, <2>2, <3>1, SentGrows
    <3>3. QED  BY <2>2, <3>2 DEF JobGoesOn
  <2>3. QED  BY <2>1, <2>2, Replied
<1>3. QED  BY <1>1, <1>2 DEF RequestGoesOn

LEMMA ReplyReverses ==
    ASSUME ReversalInv, SagaTypeOK', NEW s \in Slots, NEW hooks \in SUBSET Fps,
           Reply(s, hooks), \A e \in Execs, f \in Fps : RowGoesOn(e, f)
    PROVE  \A e \in Execs, f \in Fps : ReversalOK(e, f)'
  BY ShapedInv, ReplyGoesOn, AllReversalsStay DEF ReversalInv

\* One request moves on; the job waits.
LEMMA MoveReverses ==
    ASSUME ReversalInv, SagaTypeOK', UNCHANGED job, NEW s \in Slots,
           RequestGoesOn(s), \A t \in Slots \ {s} : request'[t] = request[t],
           \A e \in Execs, f \in Fps : RowGoesOn(e, f)
    PROVE  \A e \in Execs, f \in Fps : ReversalOK(e, f)'
<1>1. \A t \in Slots : RequestGoesOn(t)
  BY DEF RequestGoesOn
<1>2. \A e \in Execs : JobGoesOn(e)
  BY SameJobGoesOn DEF ReversalInv, OutcomeInv
<1>3. QED  BY <1>1, <1>2, AllReversalsStay

\* One job moves on.
LEMMA JobReverses ==
    ASSUME ReversalInv, SagaTypeOK', NEW e \in Execs, JobGoesOn(e),
           \A d \in Execs \ {e} : job'[d] = job[d],
           \A s \in Slots : request'[s] = Free \/ request'[s] = request[s],
           \A d \in Execs, f \in Fps : RowGoesOn(d, f)
    PROVE  \A d \in Execs, f \in Fps : ReversalOK(d, f)'
<1>1. \A s \in Slots : RequestGoesOn(s)
  BY DEF RequestGoesOn
<1>2. \A d \in Execs : JobGoesOn(d)
  BY SameJobGoesOn DEF ReversalInv, OutcomeInv
<1>3. QED  BY <1>1, <1>2, AllReversalsStay

\* One more completion in flight, which the job has sent.
LEMMA SubmitReverses ==
    ASSUME ReversalInv, SagaTypeOK', NEW e \in Execs, NEW s \in Slots, Submit(e, s)
    PROVE  \A d \in Execs, f \in Fps : ReversalOK(d, f)'
<1>1. /\ Shaped /\ SagaTypeOK /\ job[e] \in Job /\ NoSlot \notin Slots
      /\ \A d \in Execs, f \in Fps : ReversalOK(d, f)
  BY ShapedInv, CompensationAssumption DEF ReversalInv, Shaped, SagaTypeOK
<1>2. PICK local \in BOOLEAN :
         request' = [request EXCEPT ![s] =
                       [pc |-> "received", op |-> job[e].pc, exec |-> e, fp |-> job[e].fp,
                        local |-> local, failed |-> job[e].outcome = "threw", todo |-> {},
                        found |-> {}, cur |-> AnyFp, carried |-> FALSE]]
  BY CompensationAssumption DEF Submit
<1>3. /\ request'[s].op = job[e].pc /\ request'[s].exec = e
      /\ \A t \in Slots \ {s} : request'[t] = request[t]
  BY <1>1, <1>2 DEF SagaTypeOK
<1>4. /\ job[e].pc \in {"register", "complete"} /\ job[e].slot = NoSlot
      /\ request[s] = Free /\ UNCHANGED <<rollback, reversed>>
  BY DEF Submit, Asking
<1>5. /\ [job[e] EXCEPT !.slot = s] \in Job
      /\ [job[e] EXCEPT !.slot = s].pc = job[e].pc
      /\ [job[e] EXCEPT !.slot = s].hooks = job[e].hooks
      /\ [job[e] EXCEPT !.slot = s].tries = job[e].tries
      /\ [job[e] EXCEPT !.slot = s].slot = s
  BY <1>1 DEF Job
<1>6. job'[e] = [job[e] EXCEPT !.slot = s] /\ \A d \in Execs \ {e} : job'[d] = job[d]
  BY <1>1, <1>5, JobStep DEF Submit
<1>7. \A d \in Execs, f \in Fps : RowGoesOn(d, f)
  BY <1>4, SameRowsGoOn
<1>8. JobGoesOn(e)
  <2>1. Sent(e) <= Sent(e)'
    BY <1>1, <1>4, <1>5, <1>6, SentGrows
  <2>2. QED  BY <1>5, <1>6, <2>1 DEF JobGoesOn
<1>9. ASSUME NEW d \in Execs, NEW f \in Fps, ToFire(d, f)' \subseteq ToFire(d, f)
      PROVE  ReversalOK(d, f)'
  <2>1. JobGoesOn(d)
    BY <1>1, <1>6, <1>8, SameJobGoesOn
  <2>2. QED  BY <1>1, <1>7, <1>9, <2>1, ReversalStays
<1>10. ASSUME NEW d \in Execs, NEW f \in Fps, d # e \/ job[e].pc = "register"
       PROVE  ToFire(d, f)' \subseteq ToFire(d, f)
  BY <1>3, <1>4, <1>10 DEF ToFire
<1>11. ASSUME NEW f \in Fps, job[e].pc = "complete"
       PROVE  ReversalOK(e, f)'
  <2>1. ToFire(e, f)' \subseteq ToFire(e, f) \cup {s}
    BY <1>3 DEF ToFire
  <2>2. /\ Cardinality(ToFire(e, f)) \in Nat /\ Cardinality(ToFire(e, f)') \in Nat
        /\ Cardinality(ToFire(e, f)') <= Cardinality(ToFire(e, f)) + 1
    <3>1. IsFiniteSet(ToFire(e, f)) /\ Cardinality(ToFire(e, f)) \in Nat
          /\ Cardinality(ToFire(e, f)') \in Nat
      BY ToFireIsFinite
    <3>2. /\ IsFiniteSet(ToFire(e, f) \cup {s})
          /\ Cardinality(ToFire(e, f) \cup {s}) <= Cardinality(ToFire(e, f)) + 1
      <4>1. \A S : IsFiniteSet(S) /\ Cardinality(S) \in Nat =>
                      /\ IsFiniteSet(S \cup {s})
                      /\ Cardinality(S \cup {s}) <= Cardinality(S) + 1
        BY FS_AddElement
      <4>2. QED  BY <3>1, <4>1
    <3>3. /\ Cardinality(ToFire(e, f)') <= Cardinality(ToFire(e, f) \cup {s})
          /\ Cardinality(ToFire(e, f) \cup {s}) \in Nat
      BY <2>1, <3>2, FS_Subset, FS_CardinalityType
    <3>4. QED  BY <3>1, <3>2, <3>3
  <2>3. /\ Sent(e) \in Nat /\ Sent(e)' \in Nat /\ Sent(e)' = Sent(e) + 1
    <3> DEFINE x == Sent(e)
               y == Sent(e)'
    <3>1. SentFacts(e) /\ SentFacts(e)'
      BY <1>1, SentIs, SentWillBe
    <3>2. /\ x \in Nat /\ y \in Nat /\ job[e].tries \in Nat
          /\ x = job[e].tries /\ y = job[e].tries + 1
      BY <1>1, <1>4, <1>5, <1>6, <1>11, <3>1 DEF SentFacts
    <3> HIDE DEF x, y
    <3>3. y = x + 1
      BY <3>2
    <3>4. QED  BY <3>2, <3>3 DEF x, y
  <2>4. reversed[e][f] \in Nat /\ ReversalOK(e, f) /\ RowGoesOn(e, f)
    BY <1>1, <1>7 DEF SagaTypeOK
  <2>5. ~rollback'[e][f].local => reversed'[e][f] + Cardinality(ToFire(e, f)') <= Sent(e)'
    BY <2>2, <2>3, <2>4 DEF ReversalOK, RowGoesOn
  <2>6. rollback'[e][f].local =>
           /\ reversed'[e][f] <= 1
           /\ job'[e].pc \in {"hooks", "over"} \/ reversed'[e][f] = 0
           /\ f \in job'[e].hooks => reversed'[e][f] = 0
    BY <1>8, <2>4 DEF ReversalOK, RowGoesOn, JobGoesOn
  <2>7. rollback'[e][f].status = "NONE" => reversed'[e][f] = 0 /\ ~rollback'[e][f].local
    BY <2>4 DEF ReversalOK, RowGoesOn
  <2>8. QED  BY <2>5, <2>6, <2>7 DEF ReversalOK
<1>12. QED  BY <1>4, <1>9, <1>10, <1>11

\* A hook is called once with each rollback that was found.
LEMMA HookReverses ==
    ASSUME ReversalInv, SagaTypeOK', NEW e \in Execs, RunHook(e)
    PROVE  \A d \in Execs, f \in Fps : ReversalOK(d, f)'
<1>1. /\ Shaped /\ SagaTypeOK /\ job[e] \in Job /\ job[e].hooks \subseteq Fps
      /\ \A d \in Execs, f \in Fps : ReversalOK(d, f)
      /\ reversed \in [Execs -> [Fps -> Nat]]
  BY ShapedInv DEF ReversalInv, Shaped, SagaTypeOK, Job
<1>2. PICK f \in job[e].hooks, left \in SUBSET job[e].hooks :
        /\ left \subseteq job[e].hooks \ {f}
        /\ SetJob(e, [job[e] EXCEPT !.hooks = left,
                                    !.pc = IF left = {} THEN "over" ELSE job[e].pc])
        /\ \/ UNCHANGED reversed
           \/ rollback[e][f].local /\ reversed' = [reversed EXCEPT ![e][f] = @ + 1]
  BY DEF RunHook
<1> DEFINE r == [job[e] EXCEPT !.hooks = left,
                               !.pc = IF left = {} THEN "over" ELSE job[e].pc]
<1>3. /\ r \in Job /\ r.pc \in {"over", "hooks"} /\ r.hooks = left
  BY <1>1 DEF Job, RunHook
<1>4. job'[e] = r /\ \A d \in Execs \ {e} : job'[d] = job[d]
  BY <1>1, <1>2, <1>3, JobStep
<1> HIDE DEF r
<1>5. UNCHANGED <<request, rollback>> /\ job[e].pc = "hooks" /\ f \in Fps
  BY <1>1 DEF RunHook
<1>6. JobGoesOn(e)
  <2>1. Sent(e) <= Sent(e)'
    BY <1>1, <1>3, <1>4, SentGrows
  <2>2. QED  BY <1>3, <1>4, <1>5, <2>1 DEF JobGoesOn
<1>7. CASE UNCHANGED reversed
  BY <1>4, <1>5, <1>6, <1>7, SameRowsGoOn, JobReverses
<1>8. CASE rollback[e][f].local /\ reversed' = [reversed EXCEPT ![e][f] = @ + 1]
  <2>1. /\ \A d \in Execs, g \in Fps : d # e \/ g # f => reversed'[d][g] = reversed[d][g]
        /\ reversed'[e][f] = reversed[e][f] + 1
    <3>1. [reversed EXCEPT ![e][f] = @ + 1][e][f] = reversed[e][f] + 1
      BY <1>1, <1>5
    <3>2. QED  BY <1>1, <1>5, <1>8, <3>1, ReversedType
  <2>2. ASSUME NEW d \in Execs, NEW g \in Fps, d # e \/ g # f
        PROVE  ReversalOK(d, g)'
    <3>1. RowGoesOn(d, g)
      BY <1>5, <2>1, <2>2 DEF RowGoesOn
    <3>2. JobGoesOn(d)
      BY <1>1, <1>4, <1>6, SameJobGoesOn
    <3>3. ToFire(d, g)' \subseteq ToFire(d, g)
      BY <1>5 DEF ToFire
    <3>4. QED  BY <1>1, <3>1, <3>2, <3>3, ReversalStays
  <2>3. ReversalOK(e, f)'
    <3>1. reversed[e][f] = 0 /\ rollback[e][f].status # "NONE"
      BY <1>1, <1>5, <1>8 DEF ReversalOK
    <3>2. reversed'[e][f] = 1 /\ rollback'[e][f].local /\ rollback'[e][f].status # "NONE"
          /\ job'[e].pc \in {"hooks", "over"} /\ f \notin job'[e].hooks
      BY <1>2, <1>3, <1>4, <1>5, <1>8, <2>1, <3>1
    <3>3. QED  BY <3>2 DEF ReversalOK
  <2>4. QED  BY <1>5, <2>2, <2>3
<1>9. QED  BY <1>2, <1>7, <1>8

LEMMA RunJobReverses ==
    ASSUME ReversalInv, SagaTypeOK', NEW e \in Execs, RunJob(e)
    PROVE  \A d \in Execs, f \in Fps : ReversalOK(d, f)'
<1>1. /\ Shaped /\ SagaTypeOK /\ job[e] \in Job
  BY ShapedInv DEF ReversalInv, Shaped, SagaTypeOK
<1>2. ASSUME NEW r \in Job, SetJob(e, r), r.hooks = job[e].hooks,
             job[e].pc \in {"off", "running"}, UNCHANGED <<rollback, request, reversed>>
      PROVE  \A d \in Execs, f \in Fps : ReversalOK(d, f)'
  <2>1. job'[e] = r /\ \A d \in Execs \ {e} : job'[d] = job[d]
    BY <1>1, <1>2, JobStep
  <2>2. Sent(e) <= Sent(e)'
    BY <1>1, <1>2, SentGrows
  <2>3. JobGoesOn(e)
    BY <1>2, <2>1, <2>2 DEF JobGoesOn
  <2>4. QED  BY <1>2, <2>1, <2>3, SameRowsGoOn, JobReverses
<1>3. ASSUME StartJob(e)
      PROVE  \A d \in Execs, f \in Fps : ReversalOK(d, f)'
  <2>1. /\ [job[e] EXCEPT !.pc = "running"] \in Job
        /\ [job[e] EXCEPT !.pc = "running"].hooks = job[e].hooks
    BY <1>1 DEF Job
  <2>2. QED  BY <1>2, <1>3, <2>1 DEF StartJob
<1>4. ASSUME NEW outcome \in {"value", "threw"}, EndJob(e, outcome)
      PROVE  \A d \in Execs, f \in Fps : ReversalOK(d, f)'
  <2>1. /\ [job[e] EXCEPT !.pc = "complete", !.outcome = outcome] \in Job
        /\ [job[e] EXCEPT !.pc = "complete", !.outcome = outcome].hooks = job[e].hooks
    BY <1>1 DEF Job
  <2>2. QED  BY <1>2, <1>4, <2>1 DEF EndJob
<1>5. ASSUME Repeat(e)
      PROVE  \A d \in Execs, f \in Fps : ReversalOK(d, f)'
  <2>1. /\ job[e].pc \in {"register", "complete"} /\ UNCHANGED <<rollback, reversed>>
        /\ \A s \in Slots : request'[s] = Free \/ request'[s] = request[s]
    BY <1>1, <1>5 DEF Repeat, Asking, SagaTypeOK
  <2>2. job'[e] = TryAgain(job[e]) /\ \A d \in Execs \ {e} : job'[d] = job[d]
    BY <1>1, <1>5, <2>1, TriedAgain, JobStep DEF Repeat
  <2>3. \/ /\ job'[e].pc = job[e].pc /\ job'[e].hooks = job[e].hooks
           /\ job'[e].tries = job[e].tries + 1
        \/ /\ job'[e].hooks = {}
           /\ job[e].pc = "register" => job'[e].pc = "running"
           /\ job[e].pc = "complete" => job'[e].pc = "over"
    BY <1>1, <2>1, <2>2, TriedAgain
  <2>4. Sent(e) <= Sent(e)'
    BY <1>1, <2>1, <2>3, SentGrows
  <2>5. JobGoesOn(e)
    BY <2>1, <2>3, <2>4 DEF JobGoesOn
  <2>6. QED  BY <2>1, <2>2, <2>5, SameRowsGoOn, JobReverses
<1>6. QED  BY <1>3, <1>4, <1>5, SubmitReverses, HookReverses DEF RunJob

\* A target is called for a rollback the request still had before it.
LEMMA FireReverses ==
    ASSUME ReversalInv, SagaTypeOK', NEW s \in Slots, Fire(s)
    PROVE  \A d \in Execs, g \in Fps : ReversalOK(d, g)'
<1> SUFFICES ASSUME NEW e \in Execs, request[s].exec = e
             PROVE  \A d \in Execs, g \in Fps : ReversalOK(d, g)'
  BY InFlight DEF Fire, In, Free, ReversalInv, OutcomeInv
<1>1. /\ request[s] # Free /\ SagaTypeOK /\ In(s, "complete", "fire")
      /\ \A d \in Execs, g \in Fps : ReversalOK(d, g)
      /\ RequestOK(s) /\ reversed \in [Execs -> [Fps -> Nat]]
      /\ UNCHANGED <<job, rollback>>
  BY DEF Fire, In, Free, ReversalInv, OutcomeInv, SagaTypeOK
<1>2. request[s] \in RollbackRequest /\ request[s].todo \subseteq Fps
  BY <1>1, InFlight
<1>3. PICK f \in request[s].todo, carried \in BOOLEAN :
        /\ Attempted(s, f, carried)
        /\ \/ UNCHANGED reversed
           \/ ~rollback[e][f].local /\ reversed' = [reversed EXCEPT ![e][f] = @ + 1]
  BY DEF Fire
<1> DEFINE b == [request[s] EXCEPT !.pc = "mark", !.cur = f, !.todo = request[s].todo \ {f},
                                   !.carried = carried]
<1>4. /\ b \in RollbackRequest /\ b.exec = e /\ b.op = request[s].op /\ b.pc = "mark"
      /\ b.todo = request[s].todo \ {f}
  BY <1>2 DEF RollbackRequest
<1>5. request'[s] = b /\ \A t \in Slots \ {s} : request'[t] = request[t]
  BY <1>1, <1>3, <1>4, SlotStep DEF Attempted
<1> HIDE DEF b
<1>6. \A t \in Slots : RequestGoesOn(t)
  BY <1>1, <1>4, <1>5 DEF RequestGoesOn
<1>7. CASE UNCHANGED reversed
  BY <1>1, <1>5, <1>6, <1>7, SameRowsGoOn, MoveReverses
<1>8. CASE ~rollback[e][f].local /\ reversed' = [reversed EXCEPT ![e][f] = @ + 1]
  <2>1. /\ \A d \in Execs, g \in Fps : d # e \/ g # f => reversed'[d][g] = reversed[d][g]
        /\ reversed'[e][f] = reversed[e][f] + 1 /\ f \in Fps
    <3>1. f \in Fps
      BY <1>2
    <3>2. [reversed EXCEPT ![e][f] = @ + 1][e][f] = reversed[e][f] + 1
      BY <1>1, <1>2, <3>1
    <3>3. QED  BY <1>1, <1>2, <1>8, <3>1, <3>2, ReversedType
  <2>2. ASSUME NEW d \in Execs, NEW g \in Fps, d # e \/ g # f
        PROVE  ReversalOK(d, g)'
    <3>1. RowGoesOn(d, g)
      BY <1>1, <2>1, <2>2 DEF RowGoesOn
    <3>2. JobGoesOn(d)
      BY <1>1, SameJobGoesOn
    <3>3. ToFire(d, g)' \subseteq ToFire(d, g)
      BY <1>6, FewerToFire
    <3>4. QED  BY <1>1, <3>1, <3>2, <3>3, ReversalStays
  <2>3. ReversalOK(e, f)'
    <3>1. s \in ToFire(e, f) /\ ToFire(e, f)' \subseteq ToFire(e, f) \ {s}
      <4>1. ToFire(e, f)' \subseteq ToFire(e, f)
        BY <1>2, <1>6, <2>1, FewerToFire
      <4>2. s \notin ToFire(e, f)'
        BY <1>4, <1>5 DEF ToFire
      <4>3. s \in ToFire(e, f)
        BY <1>1, <1>3 DEF ToFire, In
      <4>4. QED  BY <4>1, <4>2, <4>3
    <3>2. /\ Cardinality(ToFire(e, f)) \in Nat /\ Cardinality(ToFire(e, f)') \in Nat
          /\ Cardinality(ToFire(e, f)') + 1 <= Cardinality(ToFire(e, f))
      <4>1. \A S : IsFiniteSet(S) /\ Cardinality(S) \in Nat /\ s \in S =>
                      /\ IsFiniteSet(S \ {s})
                      /\ Cardinality(S \ {s}) = Cardinality(S) - 1
        BY FS_RemoveElement
      <4>2. \A S, T : IsFiniteSet(S) /\ T \subseteq S => Cardinality(T) <= Cardinality(S)
        BY FS_Subset
      <4>3. /\ IsFiniteSet(ToFire(e, f)) /\ Cardinality(ToFire(e, f)) \in Nat
            /\ Cardinality(ToFire(e, f)') \in Nat
        BY <1>2, <2>1, ToFireIsFinite
      <4>4. /\ IsFiniteSet(ToFire(e, f) \ {s})
            /\ Cardinality(ToFire(e, f) \ {s}) = Cardinality(ToFire(e, f)) - 1
        BY <3>1, <4>1, <4>3
      <4>5. Cardinality(ToFire(e, f)') <= Cardinality(ToFire(e, f) \ {s})
        BY <3>1, <4>2, <4>4
      <4>6. QED  BY <4>3, <4>4, <4>5
    <3>3. /\ Sent(e) \in Nat /\ Sent(e)' \in Nat /\ Sent(e) <= Sent(e)'
      BY <1>1, <1>2, SameJobGoesOn, SentIs, SentWillBe DEF SentFacts, JobGoesOn
    <3>4. reversed[e][f] \in Nat /\ ReversalOK(e, f)
      BY <1>1, <1>2, <2>1
    <3>5. reversed[e][f] + Cardinality(ToFire(e, f)) <= Sent(e)
      BY <1>8, <3>4 DEF ReversalOK
    <3>6. reversed'[e][f] + Cardinality(ToFire(e, f)') <= Sent(e)'
      BY <2>1, <3>2, <3>3, <3>4, <3>5
    <3>7. rollback'[e][f].status # "NONE" /\ ~rollback'[e][f].local
      BY <1>1, <1>3, <1>8 DEF RequestOK, In
    <3>8. QED  BY <3>6, <3>7 DEF ReversalOK
  <2>4. QED  BY <1>2, <2>1, <2>2, <2>3
<1>9. QED  BY <1>3, <1>7, <1>8

\* Nothing of a rollback that did not exist has been reversed.
LEMMA CreateReverses ==
    ASSUME ReversalInv, SagaTypeOK', NEW s \in Slots, CreateRollback(s)
    PROVE  \A d \in Execs, g \in Fps : ReversalOK(d, g)'
<1> SUFFICES ASSUME NEW e \in Execs, NEW f \in Fps,
                    request[s].exec = e, request[s].fp = f
             PROVE  \A d \in Execs, g \in Fps : ReversalOK(d, g)'
  BY InFlight DEF CreateRollback, In, Free, ReversalInv, OutcomeInv
<1> DEFINE b == [status |-> "PENDING", local |-> request[s].local]
<1>1. /\ request[s] # Free /\ Shaped /\ SagaTypeOK /\ OutcomeInv
      /\ \A d \in Execs, g \in Fps : ReversalOK(d, g)
      /\ rollback \in [Execs -> [Fps -> Rollback]] /\ UNCHANGED reversed /\ Reply(s, {})
  BY ShapedInv DEF CreateRollback, In, Free, ReversalInv, OutcomeInv, SagaTypeOK
<1>2. b \in Rollback
  BY <1>1, InFlight DEF Rollback
<1>3. \/ UNCHANGED rollback
      \/ rollback[e][f].status = "NONE" /\ rollback' = [rollback EXCEPT ![e][f] = b]
  BY DEF CreateRollback
<1>4. CASE UNCHANGED rollback
  BY <1>1, <1>4, SameRowsGoOn, ReplyReverses
<1>5. CASE rollback[e][f].status = "NONE" /\ rollback' = [rollback EXCEPT ![e][f] = b]
  <2>1. /\ \A d \in Execs, g \in Fps : d # e \/ g # f => rollback'[d][g] = rollback[d][g]
        /\ rollback'[e][f].status = "PENDING"
    <3>1. [rollback EXCEPT ![e][f] = b][e][f] = b /\ b.status = "PENDING"
      BY <1>1, <1>2
    <3> HIDE DEF b
    <3>2. QED  BY <1>1, <1>2, <1>5, <3>1, RollbackType
  <2>2. /\ \A d \in Execs : JobGoesOn(d)
        /\ \A d \in Execs, g \in Fps : ToFire(d, g)' \subseteq ToFire(d, g)
    BY <1>1, ReplyGoesOn, FewerToFire
  <2>3. ASSUME NEW d \in Execs, NEW g \in Fps, d # e \/ g # f
        PROVE  ReversalOK(d, g)'
    <3>1. RowGoesOn(d, g)
      BY <1>1, <2>1, <2>3 DEF RowGoesOn
    <3>2. QED  BY <1>1, <2>2, <3>1, ReversalStays
  <2>4. ReversalOK(e, f)'
    <3>1. /\ reversed'[e][f] = 0 /\ ~rollback[e][f].local
          /\ reversed[e][f] + Cardinality(ToFire(e, f)) <= Sent(e)
      BY <1>1, <1>2, <1>5 DEF ReversalOK
    <3>2. /\ Sent(e) \in Nat /\ Sent(e)' \in Nat /\ Sent(e) <= Sent(e)'
      BY <1>1, <1>2, <2>2, SentIs, SentWillBe DEF SentFacts, JobGoesOn
    <3>3. /\ Cardinality(ToFire(e, f)) \in Nat /\ Cardinality(ToFire(e, f)') \in Nat
          /\ Cardinality(ToFire(e, f)') <= Cardinality(ToFire(e, f))
      <4>1. \A S, T : IsFiniteSet(S) /\ T \subseteq S => Cardinality(T) <= Cardinality(S)
        BY FS_Subset
      <4>2. QED  BY <1>2, <2>2, <4>1, ToFireIsFinite
    <3>4. reversed'[e][f] + Cardinality(ToFire(e, f)') <= Sent(e)'
      BY <1>1, <3>1, <3>2, <3>3
    <3>5. QED  BY <2>1, <3>1, <3>4 DEF ReversalOK
  <2>5. QED  BY <2>3, <2>4
<1>6. QED  BY <1>3, <1>4, <1>5

LEMMA ServeSlotReverses ==
    ASSUME ReversalInv, SagaTypeOK', NEW s \in Slots, ServeSlot(s) \/ SagaDatabaseFails(s)
    PROVE  \A d \in Execs, g \in Fps : ReversalOK(d, g)'
<1>1. request[s] # Free /\ SagaTypeOK
  BY ServedIsBusy DEF SagaDatabaseFails, ReversalInv, OutcomeInv
<1>2. request[s] \in RollbackRequest
  BY <1>1, InFlight
<1>3. ASSUME NEW hooks \in SUBSET Fps, Reply(s, hooks), UNCHANGED <<rollback, reversed>>
      PROVE  \A d \in Execs, g \in Fps : ReversalOK(d, g)'
  BY <1>3, SameRowsGoOn, ReplyReverses
<1>4. ASSUME NEW b \in RollbackRequest, request' = [request EXCEPT ![s] = b], UNCHANGED job,
             b.exec = request[s].exec, b.op = request[s].op,
             \/ request[s].pc \in {"received", "find"}
             \/ b.pc \notin {"received", "find"} /\ b.todo \subseteq request[s].todo,
             \A d \in Execs, g \in Fps : RowGoesOn(d, g)
      PROVE  \A d \in Execs, g \in Fps : ReversalOK(d, g)'
  <2>1. request'[s] = b /\ \A t \in Slots \ {s} : request'[t] = request[t]
    BY <1>1, <1>4, SlotStep
  <2>2. RequestGoesOn(s)
    BY <1>1, <1>4, <2>1 DEF RequestGoesOn
  <2>3. QED  BY <1>4, <2>1, <2>2, MoveReverses
<1>5. {} \in SUBSET Fps /\ request[s].found \in SUBSET Fps
  BY <1>2 DEF RollbackRequest
<1>6. \A pc \in {"create", "find", "fire"} :
         LET b == [request[s] EXCEPT !.pc = pc]
         IN  /\ b \in RollbackRequest /\ b.exec = request[s].exec /\ b.op = request[s].op
             /\ b.pc = pc /\ b.todo = request[s].todo
  BY <1>2 DEF RollbackRequest
<1>a. CASE FindEffect(s)
  <2>1. CASE request' = [request EXCEPT ![s].pc = "create"] /\ UNCHANGED job
    BY <1>4, <1>6, <1>a, <2>1, SameRowsGoOn DEF FindEffect, In
  <2>2. QED  BY <1>3, <1>5, <1>a, <2>1 DEF FindEffect
<1>b. CASE UpdateExecution(s)
  <2>1. CASE request' = [request EXCEPT ![s].pc = "find"] /\ UNCHANGED job
    BY <1>4, <1>6, <1>b, <2>1, SameRowsGoOn DEF UpdateExecution, In
  <2>2. QED  BY <1>3, <1>5, <1>b, <2>1 DEF UpdateExecution
<1>c. CASE FindPending(s)
  <2> DEFINE found == Pending(request[s].exec)
             b == [request[s] EXCEPT !.pc = "fire", !.todo = found, !.found = found]
  <2>1. CASE request' = [request EXCEPT ![s] = b] /\ UNCHANGED job
    <3>1. found \subseteq Fps
      BY DEF Pending
    <3> HIDE DEF found
    <3>2. b \in RollbackRequest /\ b.exec = request[s].exec /\ b.op = request[s].op
      BY <1>2, <3>1 DEF RollbackRequest
    <3>3. /\ UNCHANGED <<rollback, reversed>> /\ request[s].pc = "find"
      BY <1>c DEF FindPending, In
    <3> HIDE DEF b
    <3>4. QED  BY <1>4, <2>1, <3>2, <3>3, SameRowsGoOn
  <2>2. QED  BY <1>3, <1>5, <1>c, <2>1 DEF FindPending
<1>d. CASE Mark(s)
  <2>1. \A d \in Execs, g \in Fps : RowGoesOn(d, g)
    <3> SUFFICES ASSUME NEW e \in Execs, NEW f \in Fps,
                        request[s].exec = e, request[s].cur = f
                 PROVE  \A d \in Execs, g \in Fps : RowGoesOn(d, g)
      BY <1>1, InFlight
    <3> DEFINE v == IF request[s].carried THEN "COMPLETED" ELSE "FAILED"
               b == [rollback[e][f] EXCEPT !.status = v]
    <3>1. /\ rollback \in [Execs -> [Fps -> Rollback]] /\ v \in {"COMPLETED", "FAILED"}
          /\ rollback' = [rollback EXCEPT ![e][f] = b] /\ UNCHANGED reversed
      BY <1>1, <1>d DEF Mark, SagaTypeOK
    <3> HIDE DEF v
    <3>2. b \in Rollback /\ b.status = v /\ b.local = rollback[e][f].local
      <4>1. rollback[e][f] \in Rollback
        BY <3>1
      <4>2. QED  BY <3>1, <4>1 DEF Rollback
    <3> HIDE DEF b
    <3>3. /\ \A d \in Execs, g \in Fps : d # e \/ g # f => rollback'[d][g] = rollback[d][g]
          /\ rollback'[e][f] = b
      BY <3>1, <3>2, RollbackType
    <3>4. v # "NONE"
      BY <3>1
    <3>5. QED  BY <3>1, <3>2, <3>3, <3>4 DEF RowGoesOn
  <2>2. CASE request' = [request EXCEPT ![s].pc = "fire"] /\ UNCHANGED job
    BY <1>4, <1>6, <2>1, <2>2
  <2>3. CASE Reply(s, request[s].found)
    BY <1>5, <2>1, <2>3, ReplyReverses
  <2>4. QED  BY <1>d, <2>2, <2>3 DEF Mark
<1>e. CASE SagaDatabaseFails(s)
  <2>1. CASE request' = [request EXCEPT ![s].carried = FALSE] /\ UNCHANGED job
    <3> DEFINE b == [request[s] EXCEPT !.carried = FALSE]
    <3>1. /\ b \in RollbackRequest /\ b.exec = request[s].exec /\ b.op = request[s].op
          /\ b.pc = request[s].pc /\ b.todo = request[s].todo
      BY <1>2 DEF RollbackRequest
    <3>2. request' = [request EXCEPT ![s] = b] /\ UNCHANGED <<rollback, reversed>>
      BY <1>e, <2>1 DEF SagaDatabaseFails
    <3> HIDE DEF b
    <3>3. QED  BY <1>4, <2>1, <3>1, <3>2, SameRowsGoOn
  <2>2. QED  BY <1>3, <1>5, <1>e, <2>1 DEF SagaDatabaseFails
<1>f. QED
  BY <1>a, <1>b, <1>c, <1>d, <1>e, FireReverses, CreateReverses DEF ServeSlot

LEMMA ReversalNext ==
    ASSUME EffectEndpoints \subseteq Endpoints, ReversalInv, [SagaNext]_allVars
    PROVE  ReversalInv'
<1>1. OutcomeInv /\ OutcomeInv' /\ SagaTypeOK /\ SagaTypeOK' /\ Shaped
  BY OutcomeNext, ShapedInv DEF ReversalInv, OutcomeInv
<1> SUFFICES \A d \in Execs, g \in Fps : ReversalOK(d, g)'
  BY <1>1 DEF ReversalInv
<1>2. ASSUME UNCHANGED sagaVars
      PROVE  \A d \in Execs, g \in Fps : ReversalOK(d, g)'
  <2>1. /\ \A e \in Execs : JobGoesOn(e)
        /\ \A s \in Slots : RequestGoesOn(s)
    BY <1>1, <1>2, SameJobGoesOn DEF sagaVars, RequestGoesOn
  <2>2. \A e \in Execs, f \in Fps : RowGoesOn(e, f)
    BY <1>2, SameRowsGoOn DEF sagaVars
  <2>3. QED  BY <1>1, <2>1, <2>2, AllReversalsStay
<1>3. ASSUME NEW c \in Calls, Compensate(c)
      PROVE  \A d \in Execs, g \in Fps : ReversalOK(d, g)'
  <2> SUFFICES ASSUME NEW e \in Execs, ExecOf(c) = e
               PROVE  \A d \in Execs, g \in Fps : ReversalOK(d, g)'
    BY SDKAssumption DEF ExecOf
  <2> DEFINE r == [job[e] EXCEPT !.pc = "register", !.fp = FpOf(c),
                                 !.asked = job[e].asked \cup {FpOf(c)}]
  <2>1. r \in Job /\ r.hooks = job[e].hooks
    <3>1. job[e] \in Job /\ FpOf(c) \in Fps
      BY <1>1, SDKAssumption DEF SagaTypeOK, FpOf
    <3>2. QED  BY <3>1 DEF Job
  <2>2. SetJob(e, r) /\ UNCHANGED <<rollback, request, reversed>> /\ job[e].pc = "running"
    BY <1>3 DEF Compensate
  <2> HIDE DEF r
  <2>3. job'[e] = r /\ \A d \in Execs \ {e} : job'[d] = job[d]
    BY <1>1, <2>1, <2>2, JobStep
  <2>4. Sent(e) <= Sent(e)'
    BY <1>1, <2>2, SentGrows
  <2>5. JobGoesOn(e)
    BY <2>1, <2>2, <2>3, <2>4 DEF JobGoesOn
  <2>6. QED  BY <1>1, <2>2, <2>3, <2>5, SameRowsGoOn, JobReverses
<1>4. ASSUME SagaApiCrash
      PROVE  \A d \in Execs, g \in Fps : ReversalOK(d, g)'
  <2>1. /\ UNCHANGED <<rollback, reversed>> /\ \A s \in Slots : request'[s] = Free
        /\ \A e \in Execs : job'[e] = IF job[e].slot \in Slots
                                      THEN [job[e] EXCEPT !.slot = Broken] ELSE job[e]
    BY <1>4 DEF SagaApiCrash
  <2>2. ASSUME NEW e \in Execs
        PROVE  JobGoesOn(e)
    <3>1. /\ job'[e].pc = job[e].pc /\ job'[e].hooks = job[e].hooks
          /\ job'[e].tries = job[e].tries
          /\ job'[e].slot = NoSlot => job[e].slot = NoSlot
          /\ job[e].pc \in {"off", "running", "register", "complete", "hooks", "over"}
      BY <1>1, <2>1 DEF SagaTypeOK, Job, NoSlot, Broken
    <3>2. Sent(e) <= Sent(e)'
      BY <1>1, <3>1, SentGrows
    <3>3. QED  BY <3>1, <3>2 DEF JobGoesOn
  <2>3. \A s \in Slots : RequestGoesOn(s)
    BY <2>1 DEF RequestGoesOn
  <2>4. QED  BY <1>1, <2>1, <2>2, <2>3, SameRowsGoOn, AllReversalsStay
<1>5. UNCHANGED allVars => UNCHANGED sagaVars
  BY DEF allVars, sagaVars
<1>6. ASSUME NEW c \in Calls, NEW opts \in Options, MakeCall(c, opts)
      PROVE  UNCHANGED sagaVars
  BY <1>6 DEF MakeCall
<1>7. QED
  BY <1>1, <1>2, <1>3, <1>4, <1>5, <1>6, RunJobReverses, ServeSlotReverses DEF SagaNext

LEMMA ReversalInit == SagaInit => ReversalInv
<1> SUFFICES ASSUME SagaInit, NEW e \in Execs, NEW f \in Fps
             PROVE  ReversalOK(e, f)
  BY OutcomeInit DEF ReversalInv
<1>1. ToFire(e, f) = {}
  BY DEF SagaInit, ToFire
<1>2. /\ job[e].pc = "off" /\ rollback[e][f] = NoRollback /\ reversed[e][f] = 0
  BY DEF SagaInit
<1>3. Sent(e) = 0 /\ Cardinality(ToFire(e, f)) = 0
  BY <1>1, <1>2, FS_EmptySet DEF Sent
<1>4. QED  BY <1>2, <1>3 DEF ReversalOK, NoRollback

\* However the API's handlers of retried completions overlap, a target is not
\* called more often than there are completions to send: triggerRollbacks of
\* each of them calls what it found once, and complete() sends MaxRetries + 1.
THEOREM TargetsAreCalledBoundedly ==
    ASSUME EffectEndpoints \subseteq Endpoints
    PROVE  SagaSpec => []ReversalsAreBounded
<1>1. ReversalInv => ReversalsAreBounded
  <2> SUFFICES ASSUME ReversalInv, NEW e \in Execs, NEW f \in Fps
               PROVE  reversed[e][f] <= MaxRetries + 1
    BY DEF ReversalsAreBounded
  <2>1. ReversalOK(e, f) /\ SagaTypeOK /\ reversed[e][f] \in Nat
    BY DEF ReversalInv, OutcomeInv, SagaTypeOK
  <2>2. Sent(e) \in Nat /\ Sent(e) <= MaxRetries + 1 /\ MaxRetries \in Nat
    BY <2>1, SentIs, SDKAssumption DEF SentFacts
  <2>3. Cardinality(ToFire(e, f)) \in Nat
    BY ToFireIsFinite
  <2>4. QED  BY <2>1, <2>2, <2>3 DEF ReversalOK
<1>2. QED  BY <1>1, ReversalInit, ReversalNext, PTL DEF SagaSpec
=============================================================================
