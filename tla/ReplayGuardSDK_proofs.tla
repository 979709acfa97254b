----------------------- MODULE ReplayGuardSDK_proofs -----------------------
(***************************************************************************)
(* Theorems about effect(), for any number of calls and executions, any    *)
(* options, retries, losses and crashes.  The SDK talks to the ledger only *)
(* through the requests LedgerSpec allows its callers, so what is proved   *)
(* of the ledger holds under the SDK.  Then follow the types, the protocol *)
(* between a call and its row (runs are exclusive, lifecycles forward), a  *)
(* finished operation that is not repeated, and results that are real.     *)
(***************************************************************************)
EXTENDS ReplayGuardSDK, EffectLedger_proofs

\* The environment of LedgerSpec calls at least the endpoints of effect().
EffectEndpoints == {"begin", "commit", "unknown", "failed"}

\* What a call sends is a request the ledger's environment may make.
LEMMA RequestIsCallable ==
    ASSUME EffectEndpoints \subseteq Endpoints, NEW c \in Calls, Sending(c)
    PROVE  RequestOf(c) \in Callable
<1>1. ExecOf(c) \in Execs /\ FpOf(c) \in Fps
  BY SDKAssumption DEF ExecOf, FpOf
<1>2. OpOf(call[c]) \in EffectEndpoints
  BY DEF OpOf, MarkOp, Sending, EffectEndpoints
<1>3. OpOf(call[c]) = "commit" \/ ~RequestOf(c).payload
  BY DEF OpOf, RequestOf, Sending
<1>4. RequestOf(c).payload \in BOOLEAN
  BY DEF RequestOf
<1>5. RequestOf(c) \in Request
  BY <1>1, <1>2, <1>4 DEF RequestOf, Request, EffectEndpoints, EndpointNames, Scope
<1>6. QED  BY <1>2, <1>3, <1>5 DEF Callable, RequestOf, EffectEndpoints

\* Every step of an attempt is a step of the ledger or leaves it alone.
LEMMA AttemptSteps ==
    ASSUME EffectEndpoints \subseteq Endpoints, NEW c \in Calls, Attempt(c)
    PROVE  LedgerNext \/ UNCHANGED ledgerVars
<1>1. CASE Refused(c)
  BY <1>1 DEF Refused, ledgerVars
<1>2. CASE Abort(c)
  <2>1. CASE UNCHANGED handler
    BY <1>2, <2>1 DEF Abort, ledgerVars
  <2>2. CASE call[c].slot \in Handlers /\ Vanish({call[c].slot})
    BY <2>2 DEF LedgerNext
  <2>3. QED  BY <1>2, <2>1, <2>2 DEF Abort
<1>3. CASE Responses(c)
  <2>1. \E pc, answers : Answered(c, pc, answers)
    BY <1>3 DEF Responses, BeginExecute, BeginSkip, BeginRefused, BeginError, CommitDone, MarkDone
  <2>2. call[c].slot \in Handlers /\ Respond(call[c].slot)
    BY <2>1 DEF Answered
  <2>3. QED  BY <2>2 DEF LedgerNext
<1>4. ASSUME NEW h \in Handlers, Send(c, h)
      PROVE  LedgerNext
  <2>1. Receive(h, RequestOf(c)) /\ RequestOf(c) \in Callable
    BY <1>4, RequestIsCallable DEF Send
  <2>2. QED  BY <2>1 DEF LedgerNext
<1>5. QED  BY <1>1, <1>2, <1>3, <1>4 DEF Attempt

\* So is every step of the system.
LEMMA SystemSteps ==
    ASSUME EffectEndpoints \subseteq Endpoints, [Next]_vars
    PROVE  [LedgerNext]_ledgerVars
<1>1. ASSUME NEW c \in Calls, NEW opts \in Options, Start(c, opts)
      PROVE  UNCHANGED ledgerVars
  BY <1>1 DEF Start, Invoke, ledgerVars
<1>2. ASSUME NEW c \in Calls,
             Act(c) \/ Return(c) \/ ReceiptThrows(c) \/ Throw(c) \/ OperationTimeout(c)
      PROVE  UNCHANGED ledgerVars
  BY <1>2 DEF Act, Return, ReceiptThrows, Throw, OperationTimeout, ledgerVars
<1>3. ASSUME NEW h \in Handlers, ServeOne(h) \/ FailOne(h) \/ RespondToNobody(h)
      PROVE  LedgerNext
  BY <1>3 DEF ServeOne, FailOne, RespondToNobody, LedgerNext
<1>4. ASSUME NEW e \in Execs, Crash(e)
      PROVE  UNCHANGED ledgerVars
  BY <1>4 DEF Crash, ledgerVars
<1>5. ASSUME ApiCrash
      PROVE  LedgerNext
  BY <1>5, Handlers \in SUBSET Handlers DEF ApiCrash, LedgerNext
<1>6. CASE UNCHANGED vars
  BY <1>6 DEF vars, ledgerVars
<1>7. QED  BY <1>1, <1>2, <1>3, <1>4, <1>5, <1>6, AttemptSteps DEF Next, Proceed

\* guard.effect() over the network implements the ledger's specification.
THEOREM SDKImplementsLedger ==
    ASSUME EffectEndpoints \subseteq Endpoints
    PROVE  Spec => LedgerSpec
<1>1. Init => LedgerInit
  BY DEF Init
<1>2. [Next]_vars => [LedgerNext]_ledgerVars
  BY SystemSteps
<1>3. QED  BY <1>1, <1>2, PTL DEF Spec, LedgerSpec

\* However SDK calls are retried, lost or cut short, one execution at most
\* holds the claim on an operation.
THEOREM OneExecutionHoldsTheClaim ==
    ASSUME EffectEndpoints \subseteq Endpoints
    PROVE  Spec => []OneExecuting
BY SDKImplementsLedger, ExecutingIsUnique

\* ... and a claim that was given up or lost is not taken again.
THEOREM SDKClaimsAreTakenOnce ==
    ASSUME EffectEndpoints \subseteq Endpoints
    PROVE  Spec => ClaimIsTakenOnce
BY SDKImplementsLedger, ClaimsAreTakenOnce

-----------------------------------------------------------------------------
(***************************************************************************)
(* Types of the client.                                                    *)
(***************************************************************************)

\* A started call has the fields of a call.
LEMMA StartedCall ==
    ASSUME SDKTypeOK, NEW c \in Calls, Started(c)
    PROVE  call[c] \in CallState
  BY DEF SDKTypeOK, Started, NotStarted

LEMMA ScopeOfCall ==
    ASSUME NEW c \in Calls
    PROVE  ExecOf(c) \in Execs /\ FpOf(c) \in Fps
  BY SDKAssumption DEF ExecOf, FpOf

\* What calls become keeps their type.
LEMMA InPhaseType ==
    ASSUME NEW r \in CallState, NEW pc \in CallPc
    PROVE  InPhase(r, pc) \in CallState
<1>1. 0 \in 0..MaxRetries /\ NoSlot \in Handlers \cup {NoSlot, Broken}
  BY SDKAssumption
<1>2. QED  BY <1>1, Zenon DEF InPhase, CallState

LEMMA FinishType ==
    ASSUME NEW r \in CallState, NEW result \in Results, NEW value \in SUBSET MetadataKeys
    PROVE  Finish(r, result, value) \in CallState
  BY InPhaseType, "settled" \in CallPc DEF Finish, CallState, CallPc

LEMMA RunningType ==
    ASSUME NEW r \in CallState, NEW pc \in CallPc
    PROVE  Running(r, pc) \in CallState
  BY InPhaseType DEF Running, CallState, Lambda

LEMMA LambdaType ==
    ASSUME NEW r \in CallState, NEW l \in Lambda
    PROVE  [r EXCEPT !.lambda = l] \in CallState
  BY DEF CallState

LEMMA SlotType ==
    ASSUME NEW r \in CallState, NEW h \in Handlers \cup {NoSlot, Broken}
    PROVE  /\ [r EXCEPT !.slot = h] \in CallState
           /\ r.tries < MaxRetries => [r EXCEPT !.tries = @ + 1, !.slot = NoSlot] \in CallState
<1>1. NoSlot \in Handlers \cup {NoSlot, Broken}
  OBVIOUS
<1>2. r.tries < MaxRetries => r.tries + 1 \in 0..MaxRetries
  BY SDKAssumption DEF CallState
<1>3. QED  BY <1>1, <1>2 DEF CallState

LEMMA UnavailableType ==
    ASSUME NEW c \in Calls, call[c] \in CallState
    PROVE  Unavailable(c) \in CallState
<1>1. Finish(call[c], "unavailable", {}) \in CallState
  BY FinishType DEF Results
<1>2. Running(call[c], "open") \in CallState
  BY RunningType DEF CallPc
<1>3. QED  BY <1>1, <1>2 DEF Unavailable

LEMMA MarkedType ==
    ASSUME NEW r \in CallState
    PROVE  Marked(r) \in CallState
<1>1. r.result \in Results /\ "threw" \in Results
  BY DEF CallState, Results
<1>2. QED  BY <1>1, FinishType DEF Marked

LEMMA BecomeType ==
    ASSUME SDKTypeOK, NEW c \in Calls, NEW r \in CallState, Become(c, r)
    PROVE  call' \in [Calls -> {NotStarted} \cup CallState]
  BY DEF SDKTypeOK, Become

LEMMA RememberType ==
    ASSUME SDKTypeOK, NEW c \in Calls, NEW value \in SUBSET MetadataKeys, Remember(c, value)
    PROVE  cache' \in [Execs -> [Fps -> [hit: BOOLEAN, value: SUBSET MetadataKeys]]]
  BY ScopeOfCall DEF SDKTypeOK, Remember

\* The types of everything but the ledger.
ClientTypeOK ==
    /\ call \in [Calls -> {NotStarted} \cup CallState]
    /\ alive \in [Execs -> BOOLEAN]
    /\ cache \in [Execs -> [Fps -> [hit: BOOLEAN, value: SUBSET MetadataKeys]]]
    /\ acts \in [Execs -> [Fps -> Nat]]

LEMMA FreshType ==
    ASSUME SDKTypeOK, NEW c \in Calls, NEW opts \in OptionSet
    PROVE  Fresh(opts, KnownBy(c)) \in CallState
<1>1. KnownBy(c) \subseteq Recorded
  BY ScopeOfCall DEF KnownBy, SDKTypeOK, LedgerTypeOK, Row
<1>2. QED  BY <1>1, SDKAssumption DEF Fresh, CallState, CallPc, Results, Lambda

LEMMA InvokeType ==
    ASSUME SDKTypeOK, NEW c \in Calls, NEW opts \in OptionSet
    PROVE  /\ Start(c, opts) => ClientTypeOK'
           /\ StartBare(c, opts) => ClientTypeOK'
<1> DEFINE r == Fresh(opts, KnownBy(c))
           memory == cache[ExecOf(c)][FpOf(c)]
<1>2. r \in CallState
  BY FreshType
<1>3. Finish(r, "cached", memory.value) \in CallState
  <2>1. memory.value \in SUBSET MetadataKeys
    BY ScopeOfCall DEF SDKTypeOK
  <2>2. QED  BY <1>2, <2>1, FinishType DEF Results
<1>4. Running(r, "open") \in CallState
  BY <1>2, RunningType DEF CallPc
<1>5. ASSUME NEW q \in CallState, Invoke(c, q)
      PROVE  ClientTypeOK'
  BY <1>5, BecomeType DEF Invoke, SDKTypeOK, ClientTypeOK
<1>6. QED  BY <1>2, <1>3, <1>4, <1>5 DEF Start, StartBare

LEMMA AttemptFailedType ==
    ASSUME SDKTypeOK, NEW c \in Calls, Sending(c), AttemptFailed(c)
    PROVE  /\ call' \in [Calls -> {NotStarted} \cup CallState]
           /\ cache' \in [Execs -> [Fps -> [hit: BOOLEAN, value: SUBSET MetadataKeys]]]
<1>1. call[c] \in CallState
  BY StartedCall DEF Sending
<1>2. {"result"} \in SUBSET MetadataKeys
  BY DEF MetadataKeys
<1>3. UNCHANGED cache \/ Remember(c, {"result"})
  BY DEF AttemptFailed, GiveUp
<1>4. cache' \in [Execs -> [Fps -> [hit: BOOLEAN, value: SUBSET MetadataKeys]]]
  BY <1>2, <1>3, RememberType DEF SDKTypeOK
<1>5. \E q \in CallState : Become(c, q)
  <2>1. CASE call[c].tries < MaxRetries /\
             Become(c, [call[c] EXCEPT !.tries = @ + 1, !.slot = NoSlot])
    BY <1>1, <2>1, SlotType
  <2>2. CASE GiveUp(c)
    <3>1. Finish(call[c], "value", {"result"}) \in CallState
      BY <1>1, <1>2, FinishType DEF Results
    <3>2. Unavailable(c) \in CallState /\ Marked(call[c]) \in CallState
      BY <1>1, UnavailableType, MarkedType
    <3>3. QED  BY <2>2, <3>1, <3>2 DEF GiveUp, Sending
  <2>3. QED  BY <2>1, <2>2 DEF AttemptFailed
<1>6. QED  BY <1>4, <1>5, BecomeType

\* A response moves one call on.
LEMMA ResponsesType ==
    ASSUME SDKTypeOK, NEW c \in Calls, Responses(c)
    PROVE  ClientTypeOK'
<1> DEFINE seen == handler[call[c].slot].seen
<1>1. PICK pc, answers : Answered(c, pc, answers)
  BY DEF Responses, BeginExecute, BeginSkip, BeginRefused, BeginError, CommitDone, MarkDone
<1>2. call[c] \in CallState
  BY <1>1, StartedCall DEF Answered
<1>3. seen \in SUBSET MetadataKeys /\ {"result"} \in SUBSET MetadataKeys
  <2>1. handler[call[c].slot] \in Busy
    BY <1>1, BusyHandler DEF Answered, At, SDKTypeOK
  <2>2. QED  BY <2>1, BusyFields DEF MetadataKeys
<1>4. /\ Running(call[c], "await") \in CallState
      /\ Finish(call[c], "cached", seen) \in CallState
      /\ Finish(call[c], "conflict", {}) \in CallState
      /\ Finish(call[c], "value", {"result"}) \in CallState
      /\ Unavailable(c) \in CallState /\ Marked(call[c]) \in CallState
  BY <1>2, <1>3, RunningType, FinishType, UnavailableType, MarkedType DEF CallPc, Results
<1>5. call' \in [Calls -> {NotStarted} \cup CallState]
  <2>1. \E r \in CallState : Become(c, r)
    BY <1>4 DEF Responses, BeginExecute, BeginSkip, BeginRefused, BeginError, CommitDone, MarkDone
  <2>2. QED  BY <2>1, BecomeType
<1>6. cache' \in [Execs -> [Fps -> [hit: BOOLEAN, value: SUBSET MetadataKeys]]]
  <2>1. UNCHANGED cache \/ Remember(c, seen) \/ Remember(c, {"result"})
    BY DEF Responses, BeginExecute, BeginSkip, BeginRefused, BeginError, CommitDone, MarkDone
  <2>2. QED  BY <1>3, <2>1, RememberType DEF SDKTypeOK
<1>7. UNCHANGED <<alive, acts>>
  BY <1>1 DEF Responses, BeginExecute, BeginSkip, BeginRefused, BeginError, CommitDone, MarkDone,
     Answered
<1>8. QED  BY <1>5, <1>6, <1>7 DEF ClientTypeOK, SDKTypeOK

LEMMA AttemptType ==
    ASSUME SDKTypeOK, NEW c \in Calls, Attempt(c)
    PROVE  ClientTypeOK'
<1>1. CASE Refused(c) \/ Abort(c)
  BY <1>1, AttemptFailedType DEF Refused, Abort, ClientTypeOK, SDKTypeOK
<1>2. ASSUME NEW h \in Handlers, Send(c, h)
      PROVE  ClientTypeOK'
  <2>1. [call[c] EXCEPT !.slot = h] \in CallState
    BY <1>2, StartedCall, SlotType DEF Send, Sending
  <2>2. QED  BY <1>2, <2>1, BecomeType DEF Send, ClientTypeOK, SDKTypeOK
<1>3. QED  BY <1>1, <1>2, ResponsesType DEF Attempt

\* So do the steps of the operation ...
LEMMA OperationType ==
    ASSUME SDKTypeOK, NEW c \in Calls,
           Act(c) \/ Return(c) \/ ReceiptThrows(c) \/ Throw(c) \/ OperationTimeout(c)
    PROVE  ClientTypeOK'
<1> DEFINE ended == [call[c] EXCEPT !.lambda = "ended"]
<1>1. call[c] \in CallState
  BY StartedCall DEF Act, Return, ReceiptThrows, Throw, OperationTimeout
<1>2. ended \in CallState /\ [call[c] EXCEPT !.lambda = "acted"] \in CallState
  BY <1>1, LambdaType DEF Lambda
<1>3. {"result"} \in SUBSET MetadataKeys
  BY DEF MetadataKeys
<1>4. /\ InPhase(ended, "commit") \in CallState /\ InPhase(ended, "mark") \in CallState
      /\ Finish(ended, "value", {"result"}) \in CallState
      /\ Finish(ended, "threw", {}) \in CallState
  BY <1>2, <1>3, InPhaseType, FinishType DEF CallPc, Results
<1>5. ASSUME NEW r \in CallState, Become(c, r), UNCHANGED <<alive, cache>>,
             acts' \in [Execs -> [Fps -> Nat]]
      PROVE  ClientTypeOK'
  BY <1>5, BecomeType DEF ClientTypeOK, SDKTypeOK
<1>6. UNCHANGED acts => acts' \in [Execs -> [Fps -> Nat]]
  BY DEF SDKTypeOK
<1>a. CASE Act(c)
  <2>1. acts' \in [Execs -> [Fps -> Nat]]
    BY <1>a, ScopeOfCall DEF Act, SDKTypeOK
  <2>2. QED  BY <1>2, <1>5, <1>a, <2>1 DEF Act
<1>b. CASE Return(c)
  BY <1>2, <1>4, <1>5, <1>6, <1>b DEF Return
<1>c. CASE ReceiptThrows(c)
  <2>1. Finish(call[c], "threw", {}) \in CallState
    BY <1>1, FinishType DEF Results
  <2>2. [Finish(call[c], "threw", {}) EXCEPT !.lambda = "ended"] \in CallState
    BY <2>1, LambdaType DEF Lambda
  <2>3. QED  BY <1>5, <1>6, <1>c, <2>2 DEF ReceiptThrows
<1>d. CASE Throw(c)
  BY <1>2, <1>4, <1>5, <1>6, <1>d DEF Throw
<1>e. CASE OperationTimeout(c)
  <2>1. InPhase(call[c], "mark") \in CallState
    BY <1>1, InPhaseType DEF CallPc
  <2>2. [InPhase(call[c], "mark") EXCEPT !.result = "timedOut"] \in CallState
    BY <2>1 DEF CallState, Results
  <2>3. QED  BY <1>5, <1>6, <1>e, <2>2 DEF OperationTimeout
<1>f. QED  BY <1>a, <1>b, <1>c, <1>d, <1>e

\* ... and crashes.
LEMMA CrashType ==
    ASSUME SDKTypeOK
    PROVE  /\ \A e \in Execs : Crash(e) => ClientTypeOK'
           /\ ApiCrash => ClientTypeOK'
<1>1. ASSUME NEW c \in Calls, Started(c)
      PROVE  /\ [InPhase(call[c], "dead") EXCEPT !.lambda = "none"] \in CallState
             /\ [call[c] EXCEPT !.lambda = "none"] \in CallState
             /\ [call[c] EXCEPT !.slot = Broken] \in CallState
  BY <1>1, StartedCall, InPhaseType, LambdaType, SlotType DEF CallPc, Lambda
<1>2. ASSUME NEW e \in Execs, Crash(e)
      PROVE  ClientTypeOK'
  <2>1. call' \in [Calls -> {NotStarted} \cup CallState]
    BY <1>1, <1>2 DEF Crash, SDKTypeOK
  <2>2. QED  BY <1>2, <2>1 DEF Crash, ClientTypeOK, SDKTypeOK
<1>3. ASSUME ApiCrash
      PROVE  ClientTypeOK'
  <2>1. call' \in [Calls -> {NotStarted} \cup CallState]
    BY <1>1, <1>3 DEF ApiCrash, SDKTypeOK
  <2>2. QED  BY <1>3, <2>1 DEF ApiCrash, ClientTypeOK, SDKTypeOK
<1>4. QED  BY <1>2, <1>3

LEMMA SDKNextType ==
    ASSUME EffectEndpoints \subseteq Endpoints, SDKTypeOK, [Next]_vars
    PROVE  SDKTypeOK'
<1>1. LedgerTypeOK'
  BY SystemSteps, LedgerNextType DEF SDKTypeOK
<1>2. ASSUME UNCHANGED clientVars
      PROVE  ClientTypeOK'
  BY <1>2 DEF clientVars, ClientTypeOK, SDKTypeOK
<1>3. ASSUME NEW c \in Calls, NEW opts \in Options, Start(c, opts)
      PROVE  ClientTypeOK'
  BY <1>3, InvokeType, SDKAssumption
<1>4. ASSUME NEW h \in Handlers, ServeOne(h) \/ FailOne(h) \/ RespondToNobody(h)
      PROVE  ClientTypeOK'
  BY <1>2, <1>4 DEF ServeOne, FailOne, RespondToNobody
<1>5. ASSUME UNCHANGED vars
      PROVE  ClientTypeOK'
  BY <1>5 DEF vars, ClientTypeOK, SDKTypeOK
<1>6. ASSUME Proceed
      PROVE  ClientTypeOK'
  BY <1>4, <1>6, AttemptType, OperationType, CrashType DEF Proceed
<1>7. ClientTypeOK'
  BY <1>3, <1>5, <1>6, CrashType DEF Next
<1>8. QED  BY <1>1, <1>7 DEF SDKTypeOK, ClientTypeOK

\* Calls, caches, rows and handlers keep their shapes.
THEOREM SDKTypeCorrect ==
    ASSUME EffectEndpoints \subseteq Endpoints
    PROVE  Spec => []SDKTypeOK
<1>1. Init => SDKTypeOK
  <2>1. Init => LedgerTypeOK
    BY LedgerInitType DEF Init
  <2>2. Init => ClientTypeOK
    BY DEF Init, ClientTypeOK, Miss
  <2>3. QED  BY <2>1, <2>2 DEF SDKTypeOK, ClientTypeOK
<1>2. SDKTypeOK /\ [Next]_vars => SDKTypeOK'
  BY SDKNextType
<1>3. QED  BY <1>1, <1>2, PTL DEF Spec

-----------------------------------------------------------------------------
(***************************************************************************)
(* The protocol between a call and its row.  Requests outlive the attempt  *)
(* that sent them, so the invariant speaks of every request in flight of a *)
(* call, whether or not the call still waits for it.  It supposes that an  *)
(* execution makes one call for an operation (two would share a row).      *)
(***************************************************************************)
OneCallEach == \A c, d \in Calls : ExecOf(c) = ExecOf(d) /\ FpOf(c) = FpOf(d) => c = d

\* The request in slot h was sent by call c.
From(h, c) ==
    ~At(h, "idle") /\ handler[h].req.exec = ExecOf(c) /\ handler[h].req.fp = FpOf(c)

Updates(h) == handler[h].req.op # "begin"

StatusOf(c) == row[ExecOf(c)][FpOf(c)].status

\* Only started calls send requests, and only those of effect().
RequestIsOurs(h) ==
    ~At(h, "idle") =>
        /\ handler[h].req.op \in EffectEndpoints
        /\ \E c \in Calls : Started(c) /\ From(h, c)
        /\ ~At(h, "mergeOwn")
        /\ Updates(h) => handler[h].pc \in {"received", "done"}

\* A call waits for a request of its own.
SlotIsOwn(c) ==
    Started(c) /\ call[c].slot # NoSlot =>
        /\ Sending(c)
        /\ call[c].slot \in Handlers =>
              From(call[c].slot, c) /\ handler[call[c].slot].req.op = OpOf(call[c])

\* All updates of a call's row that are in flight ask for the same status; none
\* is sent before the operation has ended or was given up.
UpdatesAgree(c) ==
    \A h \in Handlers : From(h, c) /\ Updates(h) =>
        /\ call[c].pc \in {"commit", "mark", "settled", "dead"}
        /\ call[c].pc \in {"commit", "mark"} => handler[h].req.op = OpOf(call[c])
        /\ StatusOf(c) \in {"EXECUTING", Target[handler[h].req.op]}
        /\ \A k \in Handlers : From(k, c) /\ Updates(k) => handler[k].req.op = handler[h].req.op

\* The status of the row, where the call is.
StatusFollows(c) ==
    /\ call[c].pc = "idle" => StatusOf(c) = "NONE"
    /\ call[c].pc = "begin" => StatusOf(c) \in {"NONE", "EXECUTING", "SKIPPED", "FAILED"}
    /\ call[c].pc = "await" => StatusOf(c) = "EXECUTING"
    /\ call[c].pc \in {"commit", "mark"} => StatusOf(c) \in {"EXECUTING", Target[OpOf(call[c])]}

\* Who reads EXECUTE finds the row EXECUTING.
GrantIsFresh(c) ==
    \A h \in Handlers :
        /\ From(h, c) /\ ~Updates(h) /\ At(h, "done") /\ handler[h].answer = "EXECUTE"
        /\ call[c].pc = "begin"
        => StatusOf(c) = "EXECUTING"

CallFollows(c) == SlotIsOwn(c) /\ UpdatesAgree(c) /\ StatusFollows(c) /\ GrantIsFresh(c)

ProtocolInv ==
    /\ SDKTypeOK
    /\ \A h \in Handlers : RequestIsOurs(h)
    /\ \A c \in Calls : CallFollows(c)

LEMMA OursIsEffectRequest ==
    ASSUME NEW h \in Handlers, RequestIsOurs(h), ~At(h, "idle")
    PROVE  EffectRequest(h)
  BY DEF RequestIsOurs, EffectRequest, EffectEndpoints, Updates

\* A database call of a request keeps the protocol, of its call and of others.
LEMMA MovesFollow ==
    ASSUME OneCallEach, ProtocolInv, NEW h \in Handlers, Moves(h), UNCHANGED clientVars
    PROVE  /\ \A k \in Handlers : RequestIsOurs(k)'
           /\ \A c \in Calls : CallFollows(c)'
<1>1. /\ call' = call
      /\ \A k \in Handlers : RequestIsOurs(k)
      /\ \A c \in Calls : CallFollows(c)
  BY DEF ProtocolInv, clientVars
<1>2. \A k \in Handlers, c \in Calls :
        /\ From(k, c)' <=> From(k, c)
        /\ Updates(k)' <=> Updates(k)
        /\ handler'[k].req = handler[k].req
        /\ k # h => handler'[k] = handler[k]
  BY DEF Moves, From, Updates, At
<1>3. \A c \in Calls :
        /\ OpOf(call[c])' = OpOf(call[c])
        /\ Sending(c)' <=> Sending(c)
        /\ Started(c)' <=> Started(c)
  BY <1>1 DEF OpOf, MarkOp, Sending, Started
<1>4. ASSUME NEW k \in Handlers
      PROVE  RequestIsOurs(k)'
  <2>1. CASE k = h
    BY <1>1, <1>2, <1>3, <2>1 DEF Moves, RequestIsOurs, At, Updates
  <2>2. CASE k # h
    <3>1. handler'[k] = handler[k]
      BY <2>2 DEF Moves
    <3>2. QED  BY <1>1, <1>2, <1>3, <3>1 DEF RequestIsOurs, At, Updates
  <2>3. QED  BY <2>1, <2>2
<1>5. ASSUME NEW c \in Calls
      PROVE  CallFollows(c)'
  <2>1. ExecOf(c) \in Execs /\ FpOf(c) \in Fps /\ CallFollows(c)
    BY <1>1, ScopeOfCall
  <2>2. \/ StatusOf(c)' = StatusOf(c)
        \/ /\ From(h, c) /\ ~Updates(h)
           /\ StatusOf(c) = "NONE" /\ StatusOf(c)' \in {"EXECUTING", "SKIPPED", "FAILED"}
        \/ /\ From(h, c) /\ Updates(h)
           /\ StatusOf(c)' = Target[handler[h].req.op]
    <3>1. StatusWrite(h, ExecOf(c), FpOf(c))
      BY <2>1 DEF Moves
    <3>2. StatusOf(c)' = row'[ExecOf(c)][FpOf(c)].status
      BY DEF StatusOf
    <3>3. QED  BY <3>1, <3>2 DEF StatusWrite, StatusOf, From, Updates, Moves
  <2>3. SlotIsOwn(c)'
    BY <1>1, <1>2, <1>3, <2>1 DEF CallFollows, SlotIsOwn
  <2>4. UpdatesAgree(c)'
    <3> SUFFICES ASSUME NEW k \in Handlers, From(k, c), Updates(k)
                 PROVE  /\ call[c].pc \in {"commit", "mark", "settled", "dead"}
                        /\ call[c].pc \in {"commit", "mark"} => handler[k].req.op = OpOf(call[c])
                        /\ StatusOf(c)' \in {"EXECUTING", Target[handler[k].req.op]}
                        /\ \A j \in Handlers : From(j, c) /\ Updates(j) =>
                              handler[j].req.op = handler[k].req.op
      BY <1>1, <1>2, <1>3 DEF UpdatesAgree
    <3>1. StatusOf(c) \in {"EXECUTING", Target[handler[k].req.op]}
      BY <2>1 DEF CallFollows, UpdatesAgree
    <3>2. StatusOf(c) # "NONE"
      <4>1. handler[k].req.op \in {"commit", "unknown", "failed"}
        BY <1>1 DEF RequestIsOurs, From, Updates, EffectEndpoints
      <4>2. QED  BY <3>1, <4>1 DEF Target
    <3>3. StatusOf(c)' \in {"EXECUTING", Target[handler[k].req.op]}
      BY <2>1, <2>2, <3>1, <3>2 DEF CallFollows, UpdatesAgree
    <3>4. QED  BY <2>1, <3>3 DEF CallFollows, UpdatesAgree
  <2>5. StatusFollows(c)'
    <3>1. CASE StatusOf(c)' = StatusOf(c)
      BY <1>1, <1>3, <2>1, <3>1 DEF CallFollows, StatusFollows
    <3>2. CASE From(h, c) /\ ~Updates(h) /\ StatusOf(c) = "NONE"
               /\ StatusOf(c)' \in {"EXECUTING", "SKIPPED", "FAILED"}
      <4>1. Started(c)
        BY <1>1, <3>2 DEF RequestIsOurs, From, OneCallEach
      <4>2. call[c].pc \notin {"await", "commit", "mark"}
        <5>1. call[c].pc \in {"commit", "mark"} => OpOf(call[c]) \in {"commit", "unknown", "failed"}
          BY DEF OpOf, MarkOp
        <5>2. QED  BY <2>1, <3>2, <5>1 DEF CallFollows, StatusFollows, Target
      <4>3. QED  BY <1>1, <3>2, <4>1, <4>2 DEF StatusFollows, Started
    <3>3. CASE From(h, c) /\ Updates(h) /\ StatusOf(c)' = Target[handler[h].req.op]
      BY <1>1, <1>3, <2>1, <3>3 DEF CallFollows, StatusFollows, UpdatesAgree
    <3>4. QED  BY <2>2, <3>1, <3>2, <3>3
  <2>6. GrantIsFresh(c)'
    <3> SUFFICES ASSUME NEW k \in Handlers, From(k, c), ~Updates(k), At(k, "done")',
                        handler'[k].answer = "EXECUTE", call[c].pc = "begin"
                 PROVE  StatusOf(c)' = "EXECUTING"
      BY <1>1, <1>2 DEF GrantIsFresh
    <3>1. \A j \in Handlers : ~(From(j, c) /\ Updates(j))
      BY <2>1 DEF CallFollows, UpdatesAgree
    <3>2. CASE k # h
      <4>1. StatusOf(c) = "EXECUTING"
        BY <1>2, <2>1, <3>2 DEF CallFollows, GrantIsFresh, At
      <4>2. QED  BY <2>2, <3>1, <4>1
    <3>3. CASE k = h
      <4>1. handler[h].req.exec = ExecOf(c) /\ handler[h].req.fp = FpOf(c)
        BY <3>3 DEF From
      <4>2. StatusOf(c) \notin {"COMMITTED", "VERIFIED"}
        BY <2>1 DEF CallFollows, StatusFollows
      <4>3. ExecOf(c) \notin Finished(FpOf(c))
        BY <4>2 DEF Finished, WithStatus, StatusOf
      <4>4. row'[ExecOf(c)][FpOf(c)].status = "EXECUTING"
        BY <3>3, <4>1, <4>3 DEF Moves, At
      <4>5. QED  BY <4>4 DEF StatusOf
    <3>4. QED  BY <3>2, <3>3
  <2>7. QED  BY <2>3, <2>4, <2>5, <2>6 DEF CallFollows
<1>6. QED  BY <1>4, <1>5

\* No two calls wait for the same request.
LEMMA SlotsUnshared ==
    ASSUME OneCallEach, ProtocolInv, NEW c \in Calls, NEW d \in Calls, Started(c), Started(d),
           call[c].slot \in Handlers, call[d].slot = call[c].slot
    PROVE  c = d
<1>1. call[c].slot # NoSlot
  BY SDKAssumption
<1>2. From(call[c].slot, c) /\ From(call[c].slot, d)
  BY <1>1 DEF ProtocolInv, CallFollows, SlotIsOwn
<1>3. QED  BY <1>2 DEF From, OneCallEach

\* How a call moves on without sending anything.
Advance(c) ==
    /\ Started(c) /\ call'[c].slot \in {NoSlot, Broken}
    /\ call'[c].slot = Broken => call'[c].pc \in {"begin", "commit", "mark"}
    /\ \/ call'[c].pc = call[c].pc /\ OpOf(call'[c]) = OpOf(call[c])
       \/ call'[c].pc \in {"settled", "dead"}
       \/ call'[c].pc = "open" /\ call[c].pc = "begin"
       \/ call'[c].pc = "await" /\ call[c].pc = "begin" /\ StatusOf(c) = "EXECUTING"
       \/ call'[c].pc \in {"commit", "mark"} /\ call[c].pc = "await"

\* ... and how it stays where it is.
Stays(c) ==
    /\ call'[c].pc = call[c].pc /\ call'[c].slot = call[c].slot
    /\ OpOf(call'[c]) = OpOf(call[c])
    /\ Started(c) /\ call[c].slot \in Handlers => handler'[call[c].slot] = handler[call[c].slot]

\* What a request in flight after such a step was before it.
LEMMA FromBefore ==
    ASSUME NEW h \in Handlers, handler'[h] \in {handler[h], Idle}, NEW c \in Calls, From(h, c)'
    PROVE  handler'[h] = handler[h] /\ From(h, c)
  BY DEF From, At, Idle

\* Steps of calls that send nothing, and requests that end, keep the protocol.
LEMMA AdvanceFollows ==
    ASSUME ProtocolInv, UNCHANGED row, \A h \in Handlers : handler'[h] \in {handler[h], Idle},
           \A c \in Calls : Stays(c) \/ Advance(c)
    PROVE  /\ \A h \in Handlers : RequestIsOurs(h)'
           /\ \A c \in Calls : CallFollows(c)'
<1>1. /\ \A h \in Handlers : RequestIsOurs(h)
      /\ \A c \in Calls : CallFollows(c)
  BY DEF ProtocolInv
<1>2. \A c \in Calls : Started(c) => Started(c)'
  <2> TAKE c \in Calls
  <2>1. CASE Stays(c)
    BY <2>1 DEF Stays, Started
  <2>2. CASE Advance(c)
    BY <2>2 DEF Advance, Started
  <2>3. QED  BY <2>1, <2>2
<1>3. ASSUME NEW h \in Handlers
      PROVE  RequestIsOurs(h)'
  <2>1. CASE handler'[h] = Idle
    BY <2>1 DEF RequestIsOurs, At, Idle
  <2>2. CASE handler'[h] = handler[h]
    BY <1>1, <1>2, <2>2 DEF RequestIsOurs, At, Updates, From
  <2>3. QED  BY <2>1, <2>2
<1>4. ASSUME NEW c \in Calls
      PROVE  CallFollows(c)'
  <2>1. CallFollows(c) /\ StatusOf(c)' = StatusOf(c)
    BY <1>1 DEF StatusOf
  <2>2. \A h \in Handlers : From(h, c)' =>
          /\ From(h, c) /\ handler'[h] = handler[h]
          /\ Updates(h)' <=> Updates(h)
    BY FromBefore DEF Updates
  <2>3. CASE Stays(c)
    <3>1. SlotIsOwn(c)'
      BY <2>1, <2>3 DEF Stays, CallFollows, SlotIsOwn, Sending, Started, From, At
    <3>2. UpdatesAgree(c)'
      BY <2>1, <2>2, <2>3 DEF Stays, CallFollows, UpdatesAgree
    <3>3. StatusFollows(c)'
      BY <2>1, <2>3 DEF Stays, CallFollows, StatusFollows
    <3>4. GrantIsFresh(c)'
      BY <2>1, <2>2, <2>3 DEF Stays, CallFollows, GrantIsFresh, At
    <3>5. QED  BY <3>1, <3>2, <3>3, <3>4 DEF CallFollows
  <2>4. CASE Advance(c)
    <3>1. SlotIsOwn(c)'
      BY <1>2, <2>4, SDKAssumption DEF Advance, SlotIsOwn, Sending
    <3>2. UpdatesAgree(c)'
      BY <2>1, <2>2, <2>4 DEF Advance, CallFollows, UpdatesAgree
    <3>3. StatusFollows(c)'
      BY <2>1, <2>4 DEF Advance, CallFollows, StatusFollows, Started
    <3>4. GrantIsFresh(c)'
      BY <2>1, <2>2, <2>4 DEF Advance, CallFollows, GrantIsFresh, At
    <3>5. QED  BY <3>1, <3>2, <3>3, <3>4 DEF CallFollows
  <2>5. QED  BY <2>3, <2>4
<1>5. QED  BY <1>3, <1>4

\* A request is sent.
LEMMA SendFollows ==
    ASSUME OneCallEach, ProtocolInv, NEW c \in Calls, NEW s \in Handlers, Send(c, s)
    PROVE  /\ \A h \in Handlers : RequestIsOurs(h)'
           /\ \A d \in Calls : CallFollows(d)'
<1>1. /\ \A h \in Handlers : RequestIsOurs(h)
      /\ \A d \in Calls : CallFollows(d)
      /\ SDKTypeOK
  BY DEF ProtocolInv
<1>2. /\ Sending(c) /\ call[c].slot = NoSlot /\ At(s, "idle") /\ row' = row
      /\ handler'[s] = [pc |-> "received", req |-> RequestOf(c), other |-> ExecOf(c),
                        seen |-> {}, answer |-> "none"]
      /\ \A h \in Handlers \ {s} : handler'[h] = handler[h]
      /\ \A d \in Calls \ {c} : call'[d] = call[d]
  BY <1>1 DEF Send, Receive, RequestOf, Become, SDKTypeOK, LedgerTypeOK
<1>3. /\ call'[c].pc = call[c].pc /\ call'[c].slot = s /\ call'[c].opts = call[c].opts
      /\ call'[c].result = call[c].result
  <2>1. call[c] \in CallState
    BY <1>1, <1>2, StartedCall DEF Sending
  <2>2. QED  BY <1>1, <2>1 DEF Send, Become, SDKTypeOK, CallState
<1>4. OpOf(call'[c]) = OpOf(call[c])
  BY <1>3 DEF OpOf, MarkOp
<1>5. /\ handler'[s].req.op = OpOf(call[c]) /\ handler'[s].pc = "received"
      /\ handler'[s].req.exec = ExecOf(c) /\ handler'[s].req.fp = FpOf(c)
  BY <1>2 DEF RequestOf
<1>6. \A d \in Calls : Started(d) => Started(d)'
  BY <1>2, <1>3 DEF Started
<1>7. From(s, c)'
  BY <1>5 DEF From, At
<1>8. ASSUME NEW h \in Handlers
      PROVE  RequestIsOurs(h)'
  <2>1. CASE h = s
    <3>1. OpOf(call[c]) \in EffectEndpoints
      BY <1>2 DEF OpOf, MarkOp, Sending, EffectEndpoints
    <3>2. Started(c)'
      BY <1>2, <1>6 DEF Sending
    <3>3. QED  BY <1>5, <1>7, <2>1, <3>1, <3>2 DEF RequestIsOurs, At
  <2>2. CASE h # s
    BY <1>1, <1>2, <1>6, <2>2 DEF RequestIsOurs, At, Updates, From
  <2>3. QED  BY <2>1, <2>2
<1>9. ASSUME NEW d \in Calls, d # c
      PROVE  CallFollows(d)'
  <2>1. ~From(s, d)' /\ ~From(s, d)
    BY <1>2, <1>5, <1>9 DEF From, OneCallEach
  <2>2. \A h \in Handlers : From(h, d)' =>
          /\ From(h, d) /\ handler'[h] = handler[h]
          /\ Updates(h)' <=> Updates(h)
    BY <1>2, <2>1 DEF From, At, Updates
  <2>3. call'[d] = call[d] /\ StatusOf(d)' = StatusOf(d) /\ CallFollows(d)
    BY <1>1, <1>2, <1>9 DEF StatusOf
  <2>4. SlotIsOwn(d)'
    BY <1>2, <2>1, <2>3 DEF CallFollows, SlotIsOwn, Sending, Started, From, At
  <2>5. UpdatesAgree(d)'
    BY <2>2, <2>3 DEF CallFollows, UpdatesAgree
  <2>6. StatusFollows(d)' /\ GrantIsFresh(d)'
    BY <2>2, <2>3 DEF CallFollows, StatusFollows, GrantIsFresh, At
  <2>7. QED  BY <2>4, <2>5, <2>6 DEF CallFollows
<1>10. CallFollows(c)'
  <2>1. CallFollows(c) /\ StatusOf(c)' = StatusOf(c)
    BY <1>1, <1>2 DEF StatusOf
  <2>2. \A h \in Handlers \ {s} : From(h, c)' =>
          /\ From(h, c) /\ handler'[h] = handler[h]
          /\ Updates(h)' <=> Updates(h)
    BY <1>2 DEF From, At, Updates
  <2>3. SlotIsOwn(c)'
    BY <1>2, <1>3, <1>4, <1>5, <1>6, <1>7 DEF SlotIsOwn, Sending
  <2>4. UpdatesAgree(c)'
    <3>1. \A h \in Handlers : From(h, c)' /\ Updates(h)' =>
            /\ call[c].pc \in {"commit", "mark", "settled", "dead"}
            /\ call[c].pc \in {"commit", "mark"} => handler'[h].req.op = OpOf(call[c])
            /\ StatusOf(c) \in {"EXECUTING", Target[handler'[h].req.op]}
      <4> TAKE h \in Handlers
      <4>1. CASE h = s
        <5>1. Updates(s)' => call[c].pc \in {"commit", "mark"}
          BY <1>2, <1>5 DEF Updates, OpOf, Sending
        <5>2. QED  BY <1>5, <2>1, <4>1, <5>1 DEF CallFollows, StatusFollows
      <4>2. CASE h # s
        BY <2>1, <2>2, <4>2 DEF CallFollows, UpdatesAgree
      <4>3. QED  BY <4>1, <4>2
    <3>2. \A h \in Handlers : From(h, c)' /\ Updates(h)' => handler'[h].req.op = OpOf(call[c])
      BY <1>2, <3>1 DEF Sending
    <3>3. QED  BY <1>3, <1>4, <2>1, <3>1, <3>2 DEF UpdatesAgree
  <2>5. StatusFollows(c)'
    BY <1>3, <1>4, <2>1 DEF CallFollows, StatusFollows
  <2>6. GrantIsFresh(c)'
    BY <1>3, <1>5, <2>1, <2>2 DEF CallFollows, GrantIsFresh, At
  <2>7. QED  BY <2>3, <2>4, <2>5, <2>6 DEF CallFollows
<1>11. QED  BY <1>8, <1>9, <1>10

\* Nothing of a call that has not started is in flight.
LEMMA StartFollows ==
    ASSUME OneCallEach, ProtocolInv, NEW c \in Calls, NEW opts \in OptionSet,
           Start(c, opts) \/ StartBare(c, opts)
    PROVE  /\ \A h \in Handlers : RequestIsOurs(h)'
           /\ \A d \in Calls : CallFollows(d)'
<1>1. /\ \A h \in Handlers : RequestIsOurs(h)
      /\ \A d \in Calls : CallFollows(d)
      /\ SDKTypeOK
  BY DEF ProtocolInv
<1>2. row' = row /\ handler' = handler /\ ~Started(c)
  BY DEF Start, StartBare, Invoke
<1>3. /\ call'[c].pc \in {"begin", "settled", "open"} /\ call'[c].slot = NoSlot
      /\ \A d \in Calls \ {c} : call'[d] = call[d]
  <2> DEFINE r == Fresh(opts, KnownBy(c))
  <2>1. PICK s : Become(c, s) /\ (s = r \/ s = Running(r, "open") \/ \E v : s = Finish(r, "cached", v))
    BY DEF Start, StartBare, Invoke
  <2>2. /\ r.pc = "begin" /\ r.slot = NoSlot
        /\ Running(r, "open").pc = "open" /\ Running(r, "open").slot = NoSlot
        /\ \A v : Finish(r, "cached", v).pc = "settled" /\ Finish(r, "cached", v).slot = NoSlot
    BY DEF Fresh, Running, Finish, InPhase
  <2> HIDE DEF r
  <2>3. s.pc \in {"begin", "settled", "open"} /\ s.slot = NoSlot
    BY <2>1, <2>2
  <2>4. call'[c] = s /\ \A d \in Calls \ {c} : call'[d] = call[d]
    BY <1>1, <2>1 DEF Become, SDKTypeOK
  <2>5. QED  BY <2>3, <2>4
<1>4. \A d \in Calls : Started(d) => Started(d)'
  BY <1>3 DEF Started
<1>5. ASSUME NEW h \in Handlers
      PROVE  RequestIsOurs(h)'
  BY <1>1, <1>2, <1>4 DEF RequestIsOurs, At, Updates, From
<1>6. ASSUME NEW d \in Calls
      PROVE  CallFollows(d)'
  <2>1. \A h \in Handlers : From(h, d)' <=> From(h, d)
    BY <1>2 DEF From, At
  <2>2. CallFollows(d) /\ StatusOf(d)' = StatusOf(d)
    BY <1>1, <1>2 DEF StatusOf
  <2>3. CASE d = c
    <3>1. \A h \in Handlers : ~From(h, c)
      BY <1>1, <1>2 DEF RequestIsOurs, From, OneCallEach
    <3>2. StatusOf(c) = "NONE"
      BY <1>2, <2>2, <2>3 DEF CallFollows, StatusFollows, Started
    <3>3. QED
      BY <1>3, <2>1, <2>2, <2>3, <3>1, <3>2
      DEF CallFollows, SlotIsOwn, UpdatesAgree, StatusFollows, GrantIsFresh
  <2>4. CASE d # c
    BY <1>2, <1>3, <2>1, <2>2, <2>4
    DEF CallFollows, SlotIsOwn, UpdatesAgree, StatusFollows, GrantIsFresh, Started, Sending,
        Updates, At, From
  <2>5. QED  BY <2>3, <2>4
<1>7. QED  BY <1>5, <1>6

\* The fields of what a call becomes.
LEMMA Becomes ==
    ASSUME SDKTypeOK, NEW c \in Calls, NEW r, Become(c, r)
    PROVE  call'[c] = r /\ \A d \in Calls \ {c} : call'[d] = call[d]
  BY DEF SDKTypeOK, Become

LEMMA PhaseFields ==
    ASSUME NEW r \in CallState, NEW pc, NEW result, NEW value
    PROVE  /\ InPhase(r, pc).pc = pc /\ InPhase(r, pc).slot = NoSlot
           /\ InPhase(r, pc).result = r.result /\ InPhase(r, pc).opts = r.opts
           /\ InPhase(r, pc).lambda = r.lambda /\ InPhase(r, pc).known = r.known
           /\ InPhase(r, pc).value = r.value
           /\ Finish(r, result, value).pc = "settled" /\ Finish(r, result, value).slot = NoSlot
           /\ Finish(r, result, value).lambda = r.lambda
           /\ Finish(r, result, value).known = r.known
           /\ Finish(r, result, value).result = result
           /\ Finish(r, result, value).value = value
           /\ Running(r, pc).pc = pc /\ Running(r, pc).slot = NoSlot
           /\ Running(r, pc).result = r.result /\ Running(r, pc).opts = r.opts
           /\ Running(r, pc).lambda = "running" /\ Running(r, pc).known = r.known
           /\ Running(r, pc).value = r.value
  BY DEF InPhase, Finish, Running, CallState

\* A failed attempt is repeated, or the call goes on without the ledger.
LEMMA AttemptFailedAdvances ==
    ASSUME SDKTypeOK, NEW c \in Calls, Sending(c), AttemptFailed(c)
    PROVE  Advance(c) /\ \A d \in Calls \ {c} : call'[d] = call[d]
<1>1. call[c] \in CallState /\ Started(c)
  BY StartedCall DEF Sending
<1>2. CASE Become(c, [call[c] EXCEPT !.tries = @ + 1, !.slot = NoSlot])
  <2>1. call'[c] = [call[c] EXCEPT !.tries = @ + 1, !.slot = NoSlot]
    BY <1>2, Becomes
  <2>2. /\ call'[c].pc = call[c].pc /\ call'[c].slot = NoSlot
        /\ call'[c].result = call[c].result /\ call'[c].opts = call[c].opts
    BY <1>1, <2>1 DEF CallState
  <2>3. OpOf(call'[c]) = OpOf(call[c])
    BY <2>2 DEF OpOf, MarkOp
  <2>4. NoSlot # Broken
    BY DEF NoSlot, Broken
  <2>5. QED  BY <1>1, <1>2, <2>2, <2>3, <2>4, Becomes DEF Advance
<1>3. CASE GiveUp(c)
  <2>1. PICK r : /\ Become(c, r) /\ r.slot = NoSlot
                 /\ r.pc = "settled" \/ (r.pc = "open" /\ call[c].pc = "begin")
    BY <1>1, <1>3, PhaseFields DEF GiveUp, Sending, Unavailable, Marked
  <2>2. NoSlot # Broken
    BY DEF NoSlot, Broken
  <2>3. QED  BY <1>1, <2>1, <2>2, Becomes DEF Advance
<1>4. QED  BY <1>2, <1>3 DEF AttemptFailed

\* What a response means for its call.
LEMMA ResponsesAdvance ==
    ASSUME ProtocolInv, NEW c \in Calls, Responses(c)
    PROVE  /\ Advance(c) /\ \A d \in Calls \ {c} : call'[d] = call[d]
           /\ Respond(call[c].slot) /\ call[c].slot \in Handlers /\ Started(c)
<1> DEFINE s == call[c].slot
<1>1. SDKTypeOK /\ CallFollows(c)
  BY DEF ProtocolInv
<1>2. PICK pc, answers : Answered(c, pc, answers)
  BY DEF Responses, BeginExecute, BeginSkip, BeginRefused, BeginError, CommitDone, MarkDone
<1>3. Started(c) /\ s \in Handlers /\ Respond(s) /\ At(s, "done") /\ call[c] \in CallState
  BY <1>1, <1>2, StartedCall DEF Answered
<1>4. NoSlot # Broken
  BY DEF NoSlot, Broken
<1>5. CASE BeginExecute(c)
  <2>1. call[c].pc = "begin" /\ handler[s].answer = "EXECUTE"
    BY <1>5 DEF BeginExecute, Answered
  <2>2. From(s, c) /\ ~Updates(s)
    <3>1. s # NoSlot
      BY <1>3, SDKAssumption
    <3>2. QED  BY <1>1, <1>3, <2>1, <3>1 DEF CallFollows, SlotIsOwn, OpOf, Updates
  <2>3. StatusOf(c) = "EXECUTING"
    BY <1>1, <1>3, <2>1, <2>2 DEF CallFollows, GrantIsFresh
  <2>4. QED  BY <1>1, <1>3, <1>4, <1>5, <2>1, <2>3, Becomes, PhaseFields DEF BeginExecute, Advance
<1>6. CASE BeginSkip(c) \/ BeginRefused(c) \/ BeginError(c) \/ CommitDone(c) \/ MarkDone(c)
  <2>1. PICK r : /\ Become(c, r) /\ r.slot = NoSlot
                 /\ r.pc = "settled" \/ (r.pc = "open" /\ call[c].pc = "begin")
    BY <1>3, <1>6, PhaseFields DEF BeginSkip, BeginRefused, BeginError, CommitDone, MarkDone,
       Unavailable, Marked, Answered
  <2>2. QED  BY <1>1, <1>3, <1>4, <2>1, Becomes DEF Advance
<1>7. QED  BY <1>5, <1>6 DEF Responses

\* What a call does with its requests keeps the protocol.
LEMMA AttemptFollows ==
    ASSUME OneCallEach, ProtocolInv, NEW c \in Calls, Attempt(c)
    PROVE  /\ \A h \in Handlers : RequestIsOurs(h)'
           /\ \A d \in Calls : CallFollows(d)'
<1> DEFINE s == call[c].slot
<1>1. SDKTypeOK
  BY DEF ProtocolInv
<1>2. ASSUME Advance(c), \A d \in Calls \ {c} : call'[d] = call[d], UNCHANGED row,
             \/ UNCHANGED handler
             \/ /\ Started(c) /\ s \in Handlers /\ handler'[s] = Idle
                /\ \A h \in Handlers \ {s} : handler'[h] = handler[h]
      PROVE  /\ \A h \in Handlers : RequestIsOurs(h)'
             /\ \A d \in Calls : CallFollows(d)'
  <2>1. \A h \in Handlers : handler'[h] \in {handler[h], Idle}
    BY <1>2
  <2>2. \A d \in Calls : Stays(d) \/ Advance(d)
    BY <1>2, SlotsUnshared DEF Stays
  <2>3. QED  BY <1>2, <2>1, <2>2, AdvanceFollows
<1>3. CASE Refused(c)
  BY <1>1, <1>2, <1>3, AttemptFailedAdvances DEF Refused
<1>4. CASE Abort(c)
  <2>1. Advance(c) /\ (\A d \in Calls \ {c} : call'[d] = call[d]) /\ Started(c)
    BY <1>1, <1>4, AttemptFailedAdvances DEF Abort, Sending
  <2>2. s \in Handlers /\ Vanish({s}) =>
          handler'[s] = Idle /\ \A h \in Handlers \ {s} : handler'[h] = handler[h]
    BY DEF Vanish
  <2>3. QED  BY <1>2, <1>4, <2>1, <2>2 DEF Abort
<1>5. CASE Responses(c)
  <2>1. Respond(s) /\ s \in Handlers =>
          /\ handler'[s] = Idle /\ UNCHANGED row
          /\ \A h \in Handlers \ {s} : handler'[h] = handler[h]
    BY <1>1 DEF Respond, SDKTypeOK, LedgerTypeOK
  <2>2. QED  BY <1>2, <1>5, <2>1, ResponsesAdvance
<1>6. CASE \E h \in Handlers : Send(c, h)
  BY <1>6, SendFollows
<1>7. QED  BY <1>3, <1>4, <1>5, <1>6 DEF Attempt

\* A call that does not send anything has no request in flight.
LEMMA NotSendingHasNoSlot ==
    ASSUME ProtocolInv, NEW c \in Calls, Started(c), ~Sending(c)
    PROVE  call[c].slot = NoSlot
  BY DEF ProtocolInv, CallFollows, SlotIsOwn

\* Nor do the operation and its timer disturb it.
LEMMA OperationAdvances ==
    ASSUME ProtocolInv, NEW c \in Calls,
           Act(c) \/ Return(c) \/ ReceiptThrows(c) \/ Throw(c) \/ OperationTimeout(c)
    PROVE  /\ Stays(c) \/ Advance(c)
           /\ \A d \in Calls \ {c} : call'[d] = call[d]
           /\ UNCHANGED <<row, handler>>
<1> DEFINE ended == [call[c] EXCEPT !.lambda = "ended"]
<1>1. SDKTypeOK /\ Started(c) /\ call[c] \in CallState
  BY StartedCall DEF ProtocolInv, Act, Return, ReceiptThrows, Throw, OperationTimeout
<1>2. UNCHANGED <<row, handler>>
  BY DEF Act, Return, ReceiptThrows, Throw, OperationTimeout
<1>3. \A l \in Lambda : LET r == [call[c] EXCEPT !.lambda = l] IN
        /\ r \in CallState /\ r.pc = call[c].pc /\ r.slot = call[c].slot
        /\ r.opts = call[c].opts /\ r.result = call[c].result
  BY <1>1 DEF CallState
<1>4. ASSUME NEW l \in Lambda, Become(c, [call[c] EXCEPT !.lambda = l])
      PROVE  Stays(c) /\ \A d \in Calls \ {c} : call'[d] = call[d]
  <2>1. call'[c] = [call[c] EXCEPT !.lambda = l]
    BY <1>1, <1>4, Becomes
  <2>2. OpOf(call'[c]) = OpOf(call[c])
    BY <1>3, <2>1 DEF OpOf, MarkOp
  <2>3. QED  BY <1>1, <1>2, <1>3, <1>4, <2>1, <2>2, Becomes DEF Stays
<1>5. ASSUME NEW r, Become(c, r), r.slot = NoSlot,
             \/ r.pc = "settled"
             \/ r.pc \in {"commit", "mark"} /\ call[c].pc = "await"
      PROVE  Advance(c) /\ \A d \in Calls \ {c} : call'[d] = call[d]
  <2>1. NoSlot # Broken
    BY DEF NoSlot, Broken
  <2>2. QED  BY <1>1, <1>5, <2>1, Becomes DEF Advance
<1>6. "ended" \in Lambda /\ "acted" \in Lambda
  BY DEF Lambda
<1>7. ended \in CallState /\ ended.pc = call[c].pc
  BY <1>3, <1>6
<1>a. CASE Act(c)
  BY <1>2, <1>4, <1>6, <1>a DEF Act
<1>b. CASE Return(c)
  BY <1>2, <1>4, <1>5, <1>6, <1>7, <1>b, PhaseFields DEF Return
<1>c. CASE ReceiptThrows(c)
  <2> DEFINE r == Finish(call[c], "threw", {})
  <2>1. r \in CallState
    BY <1>1, FinishType DEF Results
  <2>4. r.pc = "settled" /\ r.slot = NoSlot
    BY <1>1, PhaseFields
  <2>2. [r EXCEPT !.lambda = "ended"].pc = "settled" /\ [r EXCEPT !.lambda = "ended"].slot = NoSlot
    BY <2>1, <2>4 DEF CallState
  <2>3. QED  BY <1>2, <1>5, <1>c, <2>2 DEF ReceiptThrows
<1>d. CASE Throw(c)
  BY <1>2, <1>4, <1>5, <1>6, <1>7, <1>d, PhaseFields DEF Throw
<1>e. CASE OperationTimeout(c)
  <2> DEFINE r == InPhase(call[c], "mark")
  <2>1. r \in CallState /\ r.pc = "mark" /\ r.slot = NoSlot
    BY <1>1, InPhaseType, PhaseFields DEF CallPc
  <2>2. [r EXCEPT !.result = "timedOut"].pc = "mark"
        /\ [r EXCEPT !.result = "timedOut"].slot = NoSlot
    BY <2>1 DEF CallState
  <2>3. QED  BY <1>2, <1>5, <1>e, <2>2 DEF OperationTimeout
<1>f. QED  BY <1>a, <1>b, <1>c, <1>d, <1>e

\* The guarded process dies, or the API.
LEMMA CrashAdvances ==
    ASSUME ProtocolInv, NEW e \in Execs, Crash(e), NEW c \in Calls
    PROVE  Stays(c) \/ Advance(c)
<1>1. SDKTypeOK /\ UNCHANGED <<row, handler>>
  BY DEF ProtocolInv, Crash
<1>2. NoSlot # Broken
  BY DEF NoSlot, Broken
<1>3. CASE ExecOf(c) = e /\ Started(c) /\ call[c].pc # "settled"
  <2> DEFINE r == InPhase(call[c], "dead")
  <2>0. call[c] \in CallState
    BY <1>1, <1>3, StartedCall
  <2>1. r \in CallState /\ r.pc = "dead" /\ r.slot = NoSlot
    BY <2>0, InPhaseType, PhaseFields DEF CallPc
  <2>2. call'[c] = [r EXCEPT !.lambda = "none"]
    BY <1>3 DEF Crash
  <2>3. call'[c].pc = "dead" /\ call'[c].slot = NoSlot
    BY <2>1, <2>2 DEF CallState
  <2>4. QED  BY <1>2, <1>3, <2>3 DEF Advance
<1>4. CASE ExecOf(c) = e /\ Started(c) /\ call[c].pc = "settled"
  <2>1. call'[c] = [call[c] EXCEPT !.lambda = "none"] /\ call[c] \in CallState
    BY <1>1, <1>4, StartedCall DEF Crash
  <2>2. call'[c].pc = "settled" /\ call'[c].slot = call[c].slot
    BY <1>4, <2>1 DEF CallState
  <2>3. call[c].slot = NoSlot
    BY <1>4, NotSendingHasNoSlot DEF Sending
  <2>4. QED  BY <1>2, <1>4, <2>2, <2>3 DEF Advance
<1>5. CASE ~(ExecOf(c) = e /\ Started(c))
  BY <1>1, <1>5 DEF Crash, Stays
<1>6. QED  BY <1>3, <1>4, <1>5

LEMMA ApiCrashAdvances ==
    ASSUME ProtocolInv, ApiCrash, NEW c \in Calls
    PROVE  Stays(c) \/ Advance(c)
<1>1. SDKTypeOK
  BY DEF ProtocolInv
<1>2. CASE Started(c) /\ call[c].slot \in Handlers
  <2>1. call'[c] = [call[c] EXCEPT !.slot = Broken] /\ call[c] \in CallState
    BY <1>1, <1>2, StartedCall DEF ApiCrash
  <2>2. /\ call'[c].pc = call[c].pc /\ call'[c].slot = Broken
        /\ call'[c].opts = call[c].opts /\ call'[c].result = call[c].result
    BY <2>1 DEF CallState
  <2>3. OpOf(call'[c]) = OpOf(call[c])
    BY <2>2 DEF OpOf, MarkOp
  <2>4. call[c].pc \in {"begin", "commit", "mark"}
    <3>1. call[c].slot # NoSlot
      BY <1>2, SDKAssumption
    <3>2. QED  BY <1>2, <3>1, NotSendingHasNoSlot DEF Sending
  <2>5. QED  BY <1>2, <2>2, <2>3, <2>4 DEF Advance
<1>3. CASE ~(Started(c) /\ call[c].slot \in Handlers)
  BY <1>3 DEF ApiCrash, Stays
<1>4. QED  BY <1>2, <1>3

\* Every step keeps the protocol.
LEMMA ProtocolNext ==
    ASSUME EffectEndpoints \subseteq Endpoints, OneCallEach, ProtocolInv, [Next]_vars
    PROVE  ProtocolInv'
<1> DEFINE Follows == /\ \A h \in Handlers : RequestIsOurs(h)'
                      /\ \A c \in Calls : CallFollows(c)'
<1>1. SDKTypeOK /\ SDKTypeOK'
  BY SDKNextType DEF ProtocolInv
<1>2. ASSUME UNCHANGED <<row, handler>>, \A c \in Calls : Stays(c) \/ Advance(c)
      PROVE  Follows
  BY <1>2, AdvanceFollows
<1>3. ASSUME NEW c \in Calls, NEW opts \in Options, Start(c, opts)
      PROVE  Follows
  <2>1. opts \in OptionSet
    BY SDKAssumption
  <2>2. QED  BY <1>3, <2>1, StartFollows
<1>4. ASSUME NEW c \in Calls,
             Act(c) \/ Return(c) \/ ReceiptThrows(c) \/ Throw(c) \/ OperationTimeout(c)
      PROVE  Follows
  BY <1>2, <1>4, OperationAdvances DEF Stays
<1>5. ASSUME NEW h \in Handlers, ServeOne(h) \/ FailOne(h)
      PROVE  Follows
  <2>1. ~At(h, "idle")
    BY <1>1, <1>5, ServesOne DEF ServeOne, FailOne, DatabaseFails, SDKTypeOK, At, Busy, BusyPc
  <2>2. EffectRequest(h)
    BY <2>1, OursIsEffectRequest DEF ProtocolInv
  <2>3. Moves(h) /\ UNCHANGED clientVars
    BY <1>1, <1>5, <2>2, RequestMoves DEF ServeOne, FailOne, SDKTypeOK
  <2>4. QED  BY <2>3, MovesFollow
<1>6. ASSUME NEW h \in Handlers, RespondToNobody(h)
      PROVE  Follows
  <2>1. /\ row' = row /\ handler'[h] = Idle /\ call' = call
        /\ \A k \in Handlers \ {h} : handler'[k] = handler[k]
    BY <1>1, <1>6 DEF RespondToNobody, Respond, SDKTypeOK, LedgerTypeOK, clientVars
  <2>2. \A c \in Calls : Started(c) /\ call[c].slot \in Handlers => call[c].slot # h
    BY <1>6, SDKAssumption DEF RespondToNobody, Awaited
  <2>3. \A c \in Calls : Stays(c)
    BY <2>1, <2>2 DEF Stays
  <2>4. \A k \in Handlers : handler'[k] \in {handler[k], Idle}
    BY <2>1
  <2>5. QED  BY <2>1, <2>3, <2>4, AdvanceFollows
<1>7. ASSUME NEW e \in Execs, Crash(e)
      PROVE  Follows
  BY <1>2, <1>7, CrashAdvances DEF Crash
<1>8. ASSUME ApiCrash
      PROVE  Follows
  <2>1. row' = row /\ \A k \in Handlers : handler'[k] \in {handler[k], Idle}
    BY <1>8 DEF ApiCrash, Vanish
  <2>2. QED  BY <1>8, <2>1, ApiCrashAdvances, AdvanceFollows
<1>9. ASSUME UNCHANGED vars
      PROVE  Follows
  BY <1>2, <1>9 DEF vars, Stays
<1>10. ASSUME Proceed
       PROVE  Follows
  BY <1>4, <1>5, <1>6, <1>7, <1>10, AttemptFollows DEF Proceed
<1>11. Follows
  BY <1>3, <1>8, <1>9, <1>10 DEF Next
<1>12. QED  BY <1>1, <1>11 DEF ProtocolInv

LEMMA ProtocolInit == Init => ProtocolInv
<1> SUFFICES ASSUME Init
             PROVE  ProtocolInv
  OBVIOUS
<1>1. SDKTypeOK
  BY LedgerInitType DEF Init, SDKTypeOK, Miss
<1>2. \A h \in Handlers : At(h, "idle")
  BY DEF Init, LedgerInit, At, Idle
<1>3. \A c \in Calls : call[c].pc = "idle" /\ StatusOf(c) = "NONE"
  BY ScopeOfCall DEF Init, LedgerInit, NotStarted, StatusOf, NoRow, NewRow
<1>4. \A h \in Handlers : RequestIsOurs(h)
  BY <1>2 DEF RequestIsOurs
<1>5. \A c \in Calls : CallFollows(c)
  BY <1>2, <1>3
  DEF CallFollows, SlotIsOwn, UpdatesAgree, StatusFollows, GrantIsFresh, Started, From
<1>6. QED  BY <1>1, <1>4, <1>5 DEF ProtocolInv

\* The protocol holds throughout: a request in flight is of a started call, a
\* call waits for a request of its own, the updates of a row agree, and the row
\* is where its call is, whatever is lost, retried, late or crashed.
THEOREM CallsFollowTheProtocol ==
    ASSUME EffectEndpoints \subseteq Endpoints, OneCallEach
    PROVE  Spec => []ProtocolInv
<1>1. ProtocolInv /\ [Next]_vars => ProtocolInv'
  BY ProtocolNext
<1>2. QED  BY <1>1, ProtocolInit, PTL DEF Spec

\* Who awaits its operation holds the claim on it.
LEMMA ClaimsExclude ==
    ASSUME OneCallEach
    PROVE  ProtocolInv /\ OneExecuting => RunsExclusively
<1> SUFFICES ASSUME ProtocolInv, OneExecuting, NEW c \in Calls, NEW d \in Calls,
                    call[c].pc = "await", call[d].pc = "await", FpOf(c) = FpOf(d)
             PROVE  c = d
  BY DEF RunsExclusively
<1>1. StatusOf(c) = "EXECUTING" /\ StatusOf(d) = "EXECUTING"
  BY DEF ProtocolInv, CallFollows, StatusFollows
<1>2. ExecOf(c) \in Executing(FpOf(c)) /\ ExecOf(d) \in Executing(FpOf(c))
  BY <1>1, ScopeOfCall DEF Executing, WithStatus, StatusOf
<1>3. ExecOf(c) = ExecOf(d)
  BY <1>2, ScopeOfCall DEF OneExecuting
<1>4. QED  BY <1>3 DEF OneCallEach

\* Two executions never run the same operation under guard at the same time: a
\* call that awaits its operation holds the EXECUTING claim, which is unique.
THEOREM RunsAreExclusive ==
    ASSUME EffectEndpoints \subseteq Endpoints, OneCallEach
    PROVE  Spec => []RunsExclusively
<1>1. ProtocolInv /\ OneExecuting => RunsExclusively
  BY ClaimsExclude
<1>2. QED  BY <1>1, CallsFollowTheProtocol, OneExecutionHoldsTheClaim, PTL

\* How a step may change the status of a row: nothing but its own call's
\* updates, which agree, moves it once it exists.
LEMMA StatusMovesForward ==
    ASSUME EffectEndpoints \subseteq Endpoints, ProtocolInv, [Next]_vars,
           NEW e \in Execs, NEW f \in Fps, row'[e][f].status # row[e][f].status
    PROVE  \/ row[e][f].status = "NONE"
           \/ /\ row[e][f].status = "EXECUTING"
              /\ row'[e][f].status \in {"COMMITTED", "UNKNOWN", "FAILED"}
<1> SUFFICES ASSUME row[e][f].status # "NONE"
             PROVE  /\ row[e][f].status = "EXECUTING"
                    /\ row'[e][f].status \in {"COMMITTED", "UNKNOWN", "FAILED"}
  OBVIOUS
<1>1. PICK h \in Handlers : Serve(h)
  <2>1. row' # row
    OBVIOUS
  <2>2. QED  BY <2>1, SystemSteps DEF LedgerNext, ledgerVars, Receive, DatabaseFails,
             Respond, Vanish
<1>2. ~At(h, "idle") /\ RequestIsOurs(h) /\ LedgerTypeOK
  BY <1>1, ServesOne DEF ProtocolInv, SDKTypeOK, At, Busy, BusyPc
<1>3. StatusWrite(h, e, f)
  BY <1>1, <1>2, OursIsEffectRequest, ServeWrites
<1>4. /\ e = handler[h].req.exec /\ f = handler[h].req.fp /\ Updates(h)
      /\ row'[e][f].status = Target[handler[h].req.op]
  BY <1>3 DEF StatusWrite, Updates
<1>5. PICK c \in Calls : From(h, c)
  BY <1>2 DEF RequestIsOurs
<1>6. row[e][f].status \in {"EXECUTING", Target[handler[h].req.op]}
  BY <1>4, <1>5 DEF ProtocolInv, CallFollows, UpdatesAgree, From, StatusOf
<1>7. handler[h].req.op \in {"commit", "unknown", "failed"}
  BY <1>2, <1>4 DEF RequestIsOurs, EffectEndpoints, Updates
<1>8. QED  BY <1>4, <1>6, <1>7 DEF Target

\* A row that was claimed moves once, to COMMITTED, UNKNOWN or FAILED, and a
\* late, duplicated or retried request never moves it again.
THEOREM LifecyclesAreForward ==
    ASSUME EffectEndpoints \subseteq Endpoints, OneCallEach
    PROVE  Spec => LifecycleIsForward
<1> DEFINE Forward == \A e \in Execs, f \in Fps :
              row'[e][f].status # row[e][f].status =>
                  \/ row[e][f].status = "NONE"
                  \/ /\ row[e][f].status = "EXECUTING"
                     /\ row'[e][f].status \in {"COMMITTED", "UNKNOWN", "FAILED"}
<1>1. ProtocolInv /\ [Next]_vars => [Forward]_vars
  BY StatusMovesForward
<1>2. QED  BY <1>1, CallsFollowTheProtocol, PTL DEF Spec, LifecycleIsForward

-----------------------------------------------------------------------------
(***************************************************************************)
(* What had been COMMITTED is not done again.  When the call started, the  *)
(* row of another execution was COMMITTED and, by the above, it stays; so  *)
(* the search of every begin the call sends finds it.                      *)
(***************************************************************************)
Barred(c) ==
    Started(c) /\ FailPolicy[ExecOf(c)] = "CLOSED" /\ "COMMITTED" \in call[c].known

StaysOut(c) ==
    /\ call[c].lambda = "none" /\ call[c].pc \in {"begin", "settled", "dead"}
    /\ StatusOf(c) \in {"NONE", "SKIPPED"}
    /\ \E w \in Execs \ {ExecOf(c)} : row[w][FpOf(c)].status = "COMMITTED"
    /\ \A h \in Handlers : From(h, c) =>
          /\ handler[h].pc \in {"received", "recordSkip", "done"}
          /\ handler[h].answer # "EXECUTE"

BarredInv == ProtocolInv /\ \A c \in Calls : Barred(c) => StaysOut(c)

\* A call remembers what it knew when it started.
LEMMA KnownKept ==
    ASSUME SDKTypeOK, [Next]_vars, NEW c \in Calls, Started(c)
    PROVE  Started(c)' /\ call'[c].known = call[c].known
<1> DEFINE Kept == Started(c)' /\ call'[c].known = call[c].known
<1>1. call[c] \in CallState
  BY StartedCall
<1>2. ASSUME call'[c] = call[c]
      PROVE  Kept
  BY <1>2 DEF Started
<1>3. ASSUME NEW d \in Calls, NEW r, Become(d, r),
             d = c => r.pc # "idle" /\ r.known = call[c].known
      PROVE  Kept
  <2>1. call'[d] = r /\ \A b \in Calls \ {d} : call'[b] = call[b]
    BY <1>3, Becomes
  <2>2. QED  BY <1>2, <1>3, <2>1 DEF Started
<1>4. ASSUME NEW r \in CallState, r.known = call[c].known
      PROVE  /\ [r EXCEPT !.lambda = "ended"].known = call[c].known
             /\ [r EXCEPT !.lambda = "ended"].pc # "idle"
             /\ r.pc # "idle"
  BY <1>4 DEF CallState, CallPc
<1>5. ASSUME NEW d \in Calls, NEW opts \in Options, Start(d, opts)
      PROVE  Kept
  BY <1>3, <1>5 DEF Start, Invoke
<1>6. ASSUME NEW d \in Calls, Sending(d), AttemptFailed(d)
      PROVE  Kept
  <2>1. \E r : Become(d, r) /\ (d = c => r.pc # "idle" /\ r.known = call[c].known)
    <3>1. CASE Become(d, [call[d] EXCEPT !.tries = @ + 1, !.slot = NoSlot])
      <4>1. /\ [call[c] EXCEPT !.tries = @ + 1, !.slot = NoSlot].pc # "idle"
            /\ [call[c] EXCEPT !.tries = @ + 1, !.slot = NoSlot].known = call[c].known
        BY <1>1 DEF CallState, CallPc
      <4>2. QED  BY <3>1, <4>1
    <3>2. CASE GiveUp(d)
      BY <1>1, <1>6, <3>2, PhaseFields DEF GiveUp, Sending, Unavailable, Marked
    <3>3. QED  BY <1>6, <3>1, <3>2 DEF AttemptFailed
  <2>2. QED  BY <1>3, <1>6, <2>1
<1>7. ASSUME NEW d \in Calls, Responses(d)
      PROVE  Kept
  <2>1. \E r : Become(d, r) /\ (d = c => r.pc # "idle" /\ r.known = call[c].known)
    BY <1>1, <1>7, PhaseFields DEF Responses, BeginExecute, BeginSkip, BeginRefused,
       BeginError, CommitDone, MarkDone, Unavailable, Marked
  <2>2. QED  BY <1>3, <2>1
<1>8. ASSUME NEW d \in Calls, NEW h \in Handlers, Send(d, h)
      PROVE  Kept
  <2>1. [call[c] EXCEPT !.slot = h].pc # "idle" /\ [call[c] EXCEPT !.slot = h].known = call[c].known
    BY <1>1 DEF CallState, CallPc
  <2>2. QED  BY <1>3, <1>8, <2>1 DEF Send
<1>9. ASSUME NEW d \in Calls,
             Act(d) \/ Return(d) \/ ReceiptThrows(d) \/ Throw(d) \/ OperationTimeout(d)
      PROVE  Kept
  <2> DEFINE ended == [call[c] EXCEPT !.lambda = "ended"]
             threw == Finish(call[c], "threw", {})
             mark == InPhase(call[c], "mark")
  <2>1. ended \in CallState /\ ended.known = call[c].known /\ ended.pc # "idle"
    BY <1>1, LambdaType, <1>4 DEF Lambda
  <2>2. [call[c] EXCEPT !.lambda = "acted"].known = call[c].known
        /\ [call[c] EXCEPT !.lambda = "acted"].pc # "idle"
    BY <1>1 DEF CallState, CallPc
  <2>3. threw \in CallState /\ mark \in CallState
    BY <1>1, FinishType, InPhaseType DEF Results, CallPc
  <2>4. threw.known = call[c].known /\ mark.known = call[c].known /\ mark.pc = "mark"
    BY <1>1, PhaseFields
  <2>5. [threw EXCEPT !.lambda = "ended"].known = call[c].known
        /\ [threw EXCEPT !.lambda = "ended"].pc # "idle"
    BY <1>4, <2>3, <2>4
  <2>6. [mark EXCEPT !.result = "timedOut"].known = call[c].known
        /\ [mark EXCEPT !.result = "timedOut"].pc # "idle"
    BY <2>3, <2>4 DEF CallState
  <2>a. CASE Act(d)
    BY <1>3, <2>2, <2>a DEF Act
  <2>b. CASE Return(d) \/ Throw(d)
    <3>1. /\ InPhase(ended, "commit").known = call[c].known /\ InPhase(ended, "commit").pc # "idle"
          /\ InPhase(ended, "mark").known = call[c].known /\ InPhase(ended, "mark").pc # "idle"
          /\ Finish(ended, "value", {"result"}).known = call[c].known
          /\ Finish(ended, "value", {"result"}).pc # "idle"
          /\ Finish(ended, "threw", {}).known = call[c].known
          /\ Finish(ended, "threw", {}).pc # "idle"
      <4> HIDE DEF ended
      <4>1. QED  BY <2>1, PhaseFields
    <3>2. \E r : Become(d, r) /\ (d = c => r.pc # "idle" /\ r.known = call[c].known)
      BY <2>1, <2>b, <3>1 DEF Return, Throw
    <3>3. QED  BY <1>3, <3>2
  <2>c. CASE ReceiptThrows(d)
    BY <1>3, <2>5, <2>c DEF ReceiptThrows
  <2>d. CASE OperationTimeout(d)
    BY <1>3, <2>6, <2>d DEF OperationTimeout
  <2>e. QED  BY <1>9, <2>a, <2>b, <2>c, <2>d
<1>10. ASSUME NEW e \in Execs, Crash(e)
       PROVE  Kept
  <2>1. InPhase(call[c], "dead") \in CallState /\ InPhase(call[c], "dead").known = call[c].known
    <3>1. InPhase(call[c], "dead") \in CallState
      BY <1>1, InPhaseType DEF CallPc
    <3>2. QED  BY <1>1, <3>1, PhaseFields
  <2>2. \A r \in CallState : r.known = call[c].known =>
          [r EXCEPT !.lambda = "none"].known = call[c].known
          /\ [r EXCEPT !.lambda = "none"].pc # "idle"
    BY DEF CallState, CallPc
  <2>3. QED  BY <1>1, <1>2, <1>10, <2>1, <2>2 DEF Crash, Started
<1>11. ASSUME ApiCrash
       PROVE  Kept
  <2>1. [call[c] EXCEPT !.slot = Broken].known = call[c].known
        /\ [call[c] EXCEPT !.slot = Broken].pc # "idle"
    BY <1>1 DEF CallState, CallPc
  <2>2. QED  BY <1>2, <1>11, <2>1 DEF ApiCrash, Started
<1>12. ASSUME NEW d \in Calls, Attempt(d)
       PROVE  Kept
  BY <1>6, <1>7, <1>8, <1>12 DEF Attempt, Refused, Abort
<1>13. ASSUME NEW h \in Handlers, ServeOne(h) \/ FailOne(h) \/ RespondToNobody(h)
       PROVE  Kept
  BY <1>2, <1>13 DEF ServeOne, FailOne, RespondToNobody, clientVars
<1>14. ASSUME UNCHANGED vars
       PROVE  Kept
  BY <1>2, <1>14 DEF vars
<1>15. ASSUME Proceed
       PROVE  Kept
  BY <1>9, <1>10, <1>12, <1>13, <1>15 DEF Proceed
<1>16. QED  BY <1>5, <1>11, <1>14, <1>15 DEF Next

\* The requests of a barred call are skipped, whoever else is served.
LEMMA BarredRequests ==
    ASSUME EffectEndpoints \subseteq Endpoints, ProtocolInv, [Next]_vars,
           NEW c \in Calls, StaysOut(c)
    PROVE  /\ StatusOf(c)' \in {"NONE", "SKIPPED"}
           /\ \A h \in Handlers : From(h, c)' =>
                 /\ handler'[h].pc \in {"received", "recordSkip", "done"}
                 /\ handler'[h].answer # "EXECUTE"
<1> DEFINE Fine(h) == /\ handler'[h].pc \in {"received", "recordSkip", "done"}
                      /\ handler'[h].answer # "EXECUTE"
<1>1. /\ LedgerTypeOK /\ CallFollows(c) /\ ExecOf(c) \in Execs /\ FpOf(c) \in Fps
      /\ \A h \in Handlers : RequestIsOurs(h)
  BY ScopeOfCall DEF ProtocolInv, SDKTypeOK
<1>2. \A h \in Handlers : handler'[h] = handler[h] /\ From(h, c)' => Fine(h)
  BY DEF StaysOut, From, At
<1>3. UNCHANGED row => StatusOf(c)' \in {"NONE", "SKIPPED"}
  BY DEF StaysOut, StatusOf
<1>4. ASSUME NEW s \in Handlers, NEW req, Receive(s, req)
      PROVE  UNCHANGED row /\ \A h \in Handlers : From(h, c)' => Fine(h)
  BY <1>1, <1>2, <1>4 DEF Receive, LedgerTypeOK
<1>5. ASSUME NEW slots, Vanish(slots)
      PROVE  UNCHANGED row /\ \A h \in Handlers : From(h, c)' => Fine(h)
  BY <1>1, <1>2, <1>5 DEF Vanish, From, At, Idle
<1>6. ASSUME NEW s \in Handlers, Respond(s)
      PROVE  UNCHANGED row /\ \A h \in Handlers : From(h, c)' => Fine(h)
  BY <1>1, <1>2, <1>6 DEF Respond, From, At, Idle, LedgerTypeOK
<1>7. ASSUME NEW s \in Handlers, Serve(s) \/ DatabaseFails(s)
      PROVE  /\ StatusOf(c)' \in {"NONE", "SKIPPED"}
             /\ \A h \in Handlers : From(h, c)' => Fine(h)
  <2>1. ~At(s, "idle")
    BY <1>1, <1>7, ServesOne DEF DatabaseFails, At, Busy, BusyPc
  <2>2. Moves(s)
    BY <1>1, <1>7, <2>1, OursIsEffectRequest, RequestMoves
  <2>3. \A h \in Handlers \ {s} : handler'[h] = handler[h]
    BY <2>2 DEF Moves
  <2>4. CASE From(s, c)
    <3>1. handler[s].req.op = "begin"
      <4>1. Updates(s) => Target[handler[s].req.op] \in {"COMMITTED", "UNKNOWN", "FAILED"}
        BY <1>1, <2>1 DEF RequestIsOurs, EffectEndpoints, Updates, Target
      <4>2. QED  BY <1>1, <2>4, <4>1 DEF CallFollows, UpdatesAgree, StaysOut, Updates
    <3>2. Finished(FpOf(c)) # {}
      BY DEF StaysOut, Finished, WithStatus
    <3>3. ExecOf(c) \notin Finished(FpOf(c))
      BY DEF StaysOut, Finished, WithStatus, StatusOf
    <3>4. handler[s].req.exec = ExecOf(c) /\ handler[s].req.fp = FpOf(c)
          /\ handler[s].pc \in {"received", "recordSkip", "done"} /\ handler[s].answer # "EXECUTE"
      BY <2>4 DEF From, StaysOut
    <3>5. Fine(s) /\ row'[ExecOf(c)][FpOf(c)].status \in {StatusOf(c), "SKIPPED"}
      BY <1>1, <1>7, <3>1, <3>2, <3>3, <3>4, BeginSkips DEF StatusOf
    <3>6. QED  BY <1>2, <2>3, <3>5 DEF StaysOut, StatusOf
  <2>5. CASE ~From(s, c)
    <3>1. ~From(s, c)'
      BY <2>1, <2>2, <2>5 DEF Moves, From
    <3>2. StatusOf(c)' = StatusOf(c)
      BY <1>1, <2>1, <2>2, <2>5 DEF Moves, StatusWrite, StatusOf, From
    <3>3. QED  BY <1>2, <2>3, <3>1, <3>2 DEF StaysOut
  <2>6. QED  BY <2>4, <2>5
<1>8. CASE UNCHANGED ledgerVars
  BY <1>2, <1>3, <1>8 DEF ledgerVars
<1>9. QED  BY <1>3, <1>4, <1>5, <1>6, <1>7, <1>8, SystemSteps DEF LedgerNext

\* It stays where it is or settles, and never runs its operation.
LEMMA BarredCall ==
    ASSUME ProtocolInv, [Next]_vars, NEW c \in Calls, Started(c), StaysOut(c),
           FailPolicy[ExecOf(c)] = "CLOSED"
    PROVE  call'[c].lambda = "none" /\ call'[c].pc \in {"begin", "settled", "dead"}
<1> DEFINE Out(r) == r.lambda = "none" /\ r.pc \in {"begin", "settled", "dead"}
<1>1. SDKTypeOK /\ CallFollows(c) /\ call[c] \in CallState /\ Out(call[c])
  BY StartedCall DEF ProtocolInv, StaysOut
<1>2. ASSUME NEW d \in Calls, NEW r, Become(d, r), d = c => Out(r)
      PROVE  Out(call'[c])
  BY <1>1, <1>2, Becomes
<1>3. /\ Out([call[c] EXCEPT !.tries = @ + 1, !.slot = NoSlot])
      /\ \A h : Out([call[c] EXCEPT !.slot = h])
      /\ Out([call[c] EXCEPT !.lambda = "none"])
  BY <1>1 DEF CallState
<1>4. \A res, v : Out(Finish(call[c], res, v))
  BY <1>1, PhaseFields
<1>5. ASSUME NEW d \in Calls, NEW opts \in Options, Start(d, opts)
      PROVE  Out(call'[c])
  BY <1>2, <1>5 DEF Start, Invoke
<1>6. ASSUME NEW d \in Calls, Sending(d), AttemptFailed(d)
      PROVE  Out(call'[c])
  <2>1. CASE Become(d, [call[d] EXCEPT !.tries = @ + 1, !.slot = NoSlot])
    BY <1>2, <1>3, <2>1
  <2>2. CASE GiveUp(d)
    <3>1. d = c => call[d].pc = "begin"
      BY <1>1, <1>6 DEF Sending
    <3>2. d = c => GiveUp(c)
                   /\ Become(c, Finish(call[c], "unavailable", {}))
      BY <2>2, <3>1 DEF GiveUp, Unavailable
    <3>3. \E r : Become(d, r)
      BY <2>2 DEF GiveUp
    <3>4. CASE d = c
      BY <1>2, <1>4, <3>2, <3>4
    <3>5. CASE d # c
      BY <1>2, <3>3, <3>5
    <3>6. QED  BY <3>4, <3>5
  <2>3. QED  BY <1>6, <2>1, <2>2 DEF AttemptFailed
<1>7. ASSUME NEW d \in Calls, Responses(d)
      PROVE  Out(call'[c])
  <2>1. CASE BeginExecute(d)
    <3>1. d # c
      <4>1. SUFFICES ASSUME d = c
                     PROVE  FALSE
        OBVIOUS
      <4>2. call[c].pc = "begin" /\ call[c].slot \in Handlers
            /\ handler[call[c].slot].answer = "EXECUTE"
        BY <2>1, <4>1 DEF BeginExecute, Answered
      <4>3. From(call[c].slot, c)
        BY <1>1, <4>2, SDKAssumption DEF CallFollows, SlotIsOwn
      <4>4. QED  BY <4>2, <4>3 DEF StaysOut
    <3>2. QED  BY <1>2, <2>1, <3>1 DEF BeginExecute
  <2>2. CASE BeginSkip(d) \/ BeginRefused(d) \/ BeginError(d) \/ CommitDone(d) \/ MarkDone(d)
    <3>1. \E r : Become(d, r) /\ (d = c => Out(r))
      BY <1>4, <2>2 DEF BeginSkip, BeginRefused, BeginError, CommitDone, MarkDone, Unavailable,
         Marked
    <3>2. QED  BY <1>2, <3>1
  <2>3. QED  BY <1>7, <2>1, <2>2 DEF Responses
<1>8. ASSUME NEW d \in Calls, Attempt(d)
      PROVE  Out(call'[c])
  BY <1>2, <1>3, <1>6, <1>7, <1>8 DEF Attempt, Refused, Abort, Send
<1>9. ASSUME NEW d \in Calls,
             Act(d) \/ Return(d) \/ ReceiptThrows(d) \/ Throw(d) \/ OperationTimeout(d)
      PROVE  Out(call'[c])
  <2>1. d # c
    BY <1>1, <1>9 DEF Act, Return, ReceiptThrows, Throw, OperationTimeout
  <2>2. \E r : Become(d, r)
    BY <1>9 DEF Act, Return, ReceiptThrows, Throw, OperationTimeout
  <2>3. QED  BY <1>2, <2>1, <2>2
<1>10. ASSUME NEW e \in Execs, Crash(e)
       PROVE  Out(call'[c])
  <2>1. InPhase(call[c], "dead") \in CallState /\ InPhase(call[c], "dead").pc = "dead"
    <3>1. InPhase(call[c], "dead") \in CallState
      BY <1>1, InPhaseType DEF CallPc
    <3>2. QED  BY <1>1, <3>1, PhaseFields
  <2>2. Out([InPhase(call[c], "dead") EXCEPT !.lambda = "none"])
    BY <2>1 DEF CallState
  <2>3. QED  BY <1>1, <1>3, <1>10, <2>2 DEF Crash
<1>11. ASSUME ApiCrash
       PROVE  Out(call'[c])
  BY <1>1, <1>3, <1>11 DEF ApiCrash
<1>12. ASSUME NEW h \in Handlers, ServeOne(h) \/ FailOne(h) \/ RespondToNobody(h)
       PROVE  Out(call'[c])
  BY <1>1, <1>12 DEF ServeOne, FailOne, RespondToNobody, clientVars
<1>13. ASSUME UNCHANGED vars
       PROVE  Out(call'[c])
  BY <1>1, <1>13 DEF vars
<1>14. ASSUME Proceed
       PROVE  Out(call'[c])
  BY <1>8, <1>9, <1>10, <1>12, <1>14 DEF Proceed
<1>15. QED  BY <1>5, <1>11, <1>13, <1>14 DEF Next

\* Nothing but its start makes a call a started one.
LEMMA ProceedStartsNone ==
    ASSUME SDKTypeOK, Proceed \/ ApiCrash, NEW c \in Calls, Started(c)'
    PROVE  Started(c)
<1> SUFFICES ASSUME ~Started(c)
             PROVE  FALSE
  OBVIOUS
<1>1. call'[c] # call[c]
  BY DEF Started
<1>2. ASSUME NEW d \in Calls, Started(d), NEW r, Become(d, r)
      PROVE  FALSE
  BY <1>1, <1>2, Becomes
<1>3. ASSUME NEW d \in Calls, Attempt(d)
      PROVE  FALSE
  <2>1. Started(d) /\ \E r : Become(d, r)
    BY <1>3 DEF Attempt, Refused, Abort, AttemptFailed, GiveUp, Sending, Responses, BeginExecute,
       BeginSkip, BeginRefused, BeginError, CommitDone, MarkDone, Answered, Send
  <2>2. QED  BY <1>2, <2>1
<1>4. ASSUME NEW d \in Calls,
             Act(d) \/ Return(d) \/ ReceiptThrows(d) \/ Throw(d) \/ OperationTimeout(d)
      PROVE  FALSE
  <2>1. Started(d) /\ \E r : Become(d, r)
    BY <1>4 DEF Act, Return, ReceiptThrows, Throw, OperationTimeout
  <2>2. QED  BY <1>2, <2>1
<1>5. ~Proceed
  BY <1>1, <1>3, <1>4 DEF Proceed, Crash, ServeOne, FailOne, RespondToNobody, clientVars
<1>6. ~ApiCrash
  BY <1>1 DEF ApiCrash
<1>7. QED  BY <1>5, <1>6

LEMMA OnlyStartStarts ==
    ASSUME SDKTypeOK, [Next]_vars, NEW c \in Calls, ~Started(c), Started(c)'
    PROVE  \E opts \in Options : Start(c, opts)
<1>1. call'[c] # call[c] /\ ~Proceed /\ ~ApiCrash
  BY ProceedStartsNone DEF Started
<1>2. PICK d \in Calls, opts \in Options : Start(d, opts)
  BY <1>1 DEF Next, vars
<1>3. d = c
  <2>1. \E r : Become(d, r)
    BY <1>2 DEF Start, Invoke
  <2>2. QED  BY <1>1, <2>1, Becomes
<1>4. QED  BY <1>2, <1>3

\* Under failPolicy CLOSED, what another execution had COMMITTED when the call
\* started does not take effect again, whatever is lost, retried or crashes.
THEOREM CommittedIsNotRepeated ==
    ASSUME EffectEndpoints \subseteq Endpoints, OneCallEach
    PROVE  Spec => []CommittedNeverRepeats
<1>1. Init => BarredInv
  BY ProtocolInit DEF BarredInv, Barred, Started, Init, NotStarted
<1>2. BarredInv /\ [Next]_vars => BarredInv'
  <2> SUFFICES ASSUME BarredInv, [Next]_vars
               PROVE  BarredInv'
    OBVIOUS
  <2>1. ProtocolInv /\ ProtocolInv' /\ SDKTypeOK
    BY ProtocolNext DEF BarredInv, ProtocolInv
  <2>2. ASSUME NEW c \in Calls, Barred(c)'
        PROVE  StaysOut(c)'
    <3>1. CASE Started(c)
      <4>1. Barred(c) /\ StaysOut(c) /\ ExecOf(c) \in Execs /\ FpOf(c) \in Fps
        BY <2>1, <2>2, <3>1, KnownKept, ScopeOfCall DEF Barred, BarredInv
      <4>2. call'[c].lambda = "none" /\ call'[c].pc \in {"begin", "settled", "dead"}
        BY <2>1, <3>1, <4>1, BarredCall DEF Barred
      <4>3. PICK w \in Execs \ {ExecOf(c)} : row[w][FpOf(c)].status = "COMMITTED"
        BY <4>1 DEF StaysOut
      <4>4. row'[w][FpOf(c)].status = "COMMITTED"
        BY <2>1, <4>1, <4>3, StatusMovesForward
      <4>5. QED  BY <2>1, <4>1, <4>2, <4>4, BarredRequests DEF StaysOut
    <3>2. CASE ~Started(c)
      <4>1. PICK opts \in Options : Start(c, opts)
        BY <2>1, <2>2, <3>2, OnlyStartStarts DEF Barred
      <4>2. opts \in OptionSet /\ Fresh(opts, KnownBy(c)) \in CallState
        BY <2>1, SDKAssumption, FreshType
      <4>3. /\ call'[c].lambda = "none" /\ call'[c].pc \in {"begin", "settled"}
            /\ call'[c].known = KnownBy(c)
        BY <2>1, <4>1, <4>2, Becomes, PhaseFields DEF Start, Invoke, Fresh
      <4>4. row' = row /\ handler' = handler
        BY <4>1 DEF Start, Invoke
      <4>5. \E w \in Execs \ {ExecOf(c)} : row[w][FpOf(c)].status = "COMMITTED"
        BY <2>2, <4>3 DEF Barred, KnownBy
      <4>6. \A h \in Handlers : ~From(h, c)
        BY <2>1, <3>2 DEF ProtocolInv, RequestIsOurs, From, OneCallEach
      <4>7. StatusOf(c) = "NONE"
        BY <2>1, <3>2 DEF ProtocolInv, CallFollows, StatusFollows, Started
      <4>8. QED  BY <4>3, <4>4, <4>5, <4>6, <4>7 DEF StaysOut, StatusOf, From, At
    <3>3. QED  BY <3>1, <3>2
  <2>3. QED  BY <2>1, <2>2 DEF BarredInv
<1>3. BarredInv => CommittedNeverRepeats
  BY DEF BarredInv, Barred, StaysOut, CommittedNeverRepeats
<1>4. QED  BY <1>1, <1>2, <1>3, PTL DEF Spec

-----------------------------------------------------------------------------
(***************************************************************************)
(* Cached results.  That a cached result belongs to an operation that took *)
(* effect has to be carried from the provider through the commit request,  *)
(* the row, the metadata a begin handler read, its answer and the local    *)
(* cache: each link is a conjunct.  Calls may share an execution here.     *)
(***************************************************************************)
Acted(f) == \E e \in Execs : acts[e][f] > 0

\* A row is COMMITTED only after its operation took effect, and the protocol
\* has nobody who would confirm it.
RowIsBacked(f) ==
    \A e \in Execs : /\ row[e][f].status # "VERIFIED"
                     /\ row[e][f].status = "COMMITTED" => Acted(f)

\* So is a commit on its way, and what a begin is about to answer.
HandlerIsBacked(h) ==
    ~At(h, "idle") =>
        /\ handler[h].req.op \in EffectEndpoints
        /\ EffectRequest(h)
        /\ handler[h].req.op = "commit" => Acted(handler[h].req.fp)
        /\ handler[h].pc \in {"received", "recordSkip", "done"} /\ handler[h].seen # {}
             => Acted(handler[h].req.fp)

\* A call waits for a request for its operation, and waits alone.
SlotIsMine(c) ==
    Started(c) /\ call[c].slot \in Handlers =>
        /\ ~At(call[c].slot, "idle") /\ handler[call[c].slot].req.fp = FpOf(c)
        /\ \A d \in Calls \ {c} : Started(d) => call[d].slot # call[c].slot

\* What a call knows of its operation, f.
Sound(r, f) ==
    /\ r.pc = "commit" \/ r.lambda = "acted" => Acted(f)
    /\ r.result = "cached" /\ r.value # {} => Acted(f)

CallIsBacked(c) == Started(c) => Sound(call[c], FpOf(c))

CacheIsBacked ==
    \A e \in Execs, f \in Fps : cache[e][f].hit /\ cache[e][f].value # {} => Acted(f)

DoneInv ==
    /\ SDKTypeOK
    /\ \A f \in Fps : RowIsBacked(f)
    /\ \A h \in Handlers : HandlerIsBacked(h)
    /\ \A c \in Calls : SlotIsMine(c) /\ CallIsBacked(c)
    /\ CacheIsBacked

\* An operation that took effect has taken effect for good.
LEMMA ActedKept ==
    ASSUME SDKTypeOK, [Next]_vars, NEW f \in Fps, Acted(f)
    PROVE  Acted(f)'
<1>1. PICK e \in Execs : acts[e][f] > 0
  BY DEF Acted
<1>2. ASSUME NEW c \in Calls, Act(c)
      PROVE  acts'[e][f] > 0
  BY <1>1, <1>2, ScopeOfCall DEF Act, SDKTypeOK
<1>3. UNCHANGED acts \/ \E c \in Calls : Act(c)
  BY DEF Next, Proceed, Start, Invoke, Attempt, Refused, Abort, Send, Responses, BeginExecute,
     BeginSkip, BeginRefused, BeginError, CommitDone, MarkDone, Answered, Return,
     ReceiptThrows, Throw, OperationTimeout, ServeOne, FailOne, RespondToNobody, clientVars,
     Crash, ApiCrash, vars
<1>4. QED  BY <1>1, <1>2, <1>3 DEF Acted

\* What calls send, and what the API does with it.
LEMMA RequestsDone ==
    ASSUME EffectEndpoints \subseteq Endpoints, DoneInv, [Next]_vars
    PROVE  /\ \A f \in Fps : RowIsBacked(f)'
           /\ \A h \in Handlers : HandlerIsBacked(h)'
<1>1. /\ SDKTypeOK /\ LedgerTypeOK
      /\ \A f \in Fps : RowIsBacked(f)
      /\ \A h \in Handlers : HandlerIsBacked(h)
  BY DEF DoneInv, SDKTypeOK
<1>2. \A f \in Fps : Acted(f) => Acted(f)'
  BY <1>1, ActedKept
<1>3. \A h \in Handlers : ~At(h, "idle") => handler[h].req.fp \in Fps /\ handler[h].req.exec \in Execs
  BY <1>1, BusyHandler, BusyFields
<1>4. ASSUME NEW h \in Handlers, handler'[h] \in {handler[h], Idle}
      PROVE  HandlerIsBacked(h)'
  <2>1. CASE handler'[h] = Idle
    BY <2>1 DEF HandlerIsBacked, At, Idle
  <2>2. CASE handler'[h] = handler[h]
    BY <1>1, <1>2, <1>3, <2>2 DEF HandlerIsBacked, EffectRequest, At
  <2>3. QED  BY <1>4, <2>1, <2>2
<1>5. UNCHANGED row => \A f \in Fps : RowIsBacked(f)'
  BY <1>1, <1>2 DEF RowIsBacked
<1>6. ASSUME NEW c \in Calls, NEW s \in Handlers, Send(c, s)
      PROVE  UNCHANGED row /\ \A h \in Handlers : HandlerIsBacked(h)'
  <2>1. /\ UNCHANGED row /\ \A h \in Handlers \ {s} : handler'[h] = handler[h]
        /\ handler'[s] = [pc |-> "received", req |-> RequestOf(c), other |-> RequestOf(c).exec,
                          seen |-> {}, answer |-> "none"]
    BY <1>1, <1>6 DEF Send, Receive, LedgerTypeOK
  <2>2. /\ RequestOf(c).op \in EffectEndpoints
        /\ RequestOf(c).op = "commit" => call[c].pc = "commit"
        /\ RequestOf(c).fp = FpOf(c)
    BY <1>6 DEF Send, Sending, RequestOf, OpOf, MarkOp, EffectEndpoints
  <2>3. RequestOf(c).op = "commit" => Acted(FpOf(c))'
    <3>1. call[c].pc = "commit" => Acted(FpOf(c))
      BY <1>6 DEF DoneInv, CallIsBacked, Sound, Send, Sending
    <3>2. QED  BY <1>2, <2>2, <3>1, ScopeOfCall
  <2>4. HandlerIsBacked(s)'
    <3>1. /\ handler'[s].req.op = RequestOf(c).op /\ handler'[s].req.fp = FpOf(c)
          /\ handler'[s].pc = "received" /\ handler'[s].seen = {}
      BY <2>1, <2>2
    <3>2. EffectRequest(s)'
      BY <2>2, <3>1 DEF EffectRequest, EffectEndpoints, At
    <3>3. QED  BY <2>2, <2>3, <3>1, <3>2 DEF HandlerIsBacked
  <2>5. QED  BY <1>4, <2>1, <2>4
<1>7. ASSUME NEW s \in Handlers, Serve(s) \/ DatabaseFails(s)
      PROVE  /\ \A f \in Fps : RowIsBacked(f)'
             /\ \A h \in Handlers : HandlerIsBacked(h)'
  <2>1. ~At(s, "idle")
    BY <1>1, <1>7, ServesOne DEF DatabaseFails, At, Busy, BusyPc
  <2>2. EffectRequest(s) /\ Moves(s) /\ handler[s].req.op \in EffectEndpoints
    BY <1>1, <1>7, <2>1, RequestMoves DEF HandlerIsBacked
  <2>3. ASSUME NEW f \in Fps
        PROVE  RowIsBacked(f)'
    <3>1. \A e \in Execs : StatusWrite(s, e, f)
      BY <2>2 DEF Moves
    <3>2. ASSUME NEW e \in Execs
          PROVE  /\ row'[e][f].status # "VERIFIED"
                 /\ row'[e][f].status = "COMMITTED" => Acted(f)
      <4>1. CASE row'[e][f].status = row[e][f].status
        BY <1>1, <4>1 DEF RowIsBacked
      <4>2. CASE f = handler[s].req.fp /\ row'[e][f].status \in {"EXECUTING", "SKIPPED", "FAILED"}
        BY <4>2
      <4>3. CASE f = handler[s].req.fp /\ handler[s].req.op # "begin"
                 /\ row'[e][f].status = Target[handler[s].req.op]
        <5>1. handler[s].req.op \in {"commit", "unknown", "failed"}
          BY <2>2, <4>3 DEF EffectRequest
        <5>2. handler[s].req.op = "commit" => Acted(f)
          BY <1>1, <2>1, <4>3 DEF HandlerIsBacked
        <5>3. QED  BY <4>3, <5>1, <5>2 DEF Target
      <4>4. QED  BY <3>1, <4>1, <4>2, <4>3 DEF StatusWrite
    <3>3. QED  BY <1>2, <3>2 DEF RowIsBacked
  <2>4. HandlerIsBacked(s)'
    <3>1. handler'[s].req = handler[s].req /\ handler'[s].pc \notin {"idle", "mergeOwn"}
          /\ (handler[s].req.op # "begin" => handler'[s].pc = "done")
      BY <2>2 DEF Moves
    <3>2. EffectRequest(s)'
      BY <2>2, <3>1 DEF EffectRequest, At
    <3>3. handler'[s].pc \in {"received", "recordSkip", "done"} /\ handler'[s].seen # {}
            => Acted(handler[s].req.fp)
      <4>1. Finished(handler[s].req.fp) # {} => Acted(handler[s].req.fp)
        BY <1>1, <1>3, <2>1 DEF Finished, WithStatus, RowIsBacked
      <4>2. handler[s].pc = "recordSkip" /\ handler[s].seen # {} => Acted(handler[s].req.fp)
        BY <1>1, <2>1 DEF HandlerIsBacked
      <4>3. QED  BY <1>1, <1>7, <2>2, <4>1, <4>2, ServeReads
    <3>4. handler[s].req.op = "commit" => Acted(handler[s].req.fp)
      BY <1>1, <2>1 DEF HandlerIsBacked
    <3>5. QED  BY <1>2, <1>3, <2>1, <2>2, <3>1, <3>2, <3>3, <3>4 DEF HandlerIsBacked
  <2>5. QED  BY <1>4, <2>2, <2>3, <2>4 DEF Moves
<1>8. ASSUME UNCHANGED row, \A h \in Handlers : handler'[h] \in {handler[h], Idle}
      PROVE  /\ \A f \in Fps : RowIsBacked(f)'
             /\ \A h \in Handlers : HandlerIsBacked(h)'
  BY <1>4, <1>5, <1>8
<1>9. ASSUME NEW c \in Calls, Attempt(c)
      PROVE  \/ UNCHANGED row /\ \A h \in Handlers : handler'[h] \in {handler[h], Idle}
             \/ \E s \in Handlers : Send(c, s)
  <2>1. CASE Refused(c)
    BY <2>1 DEF Refused
  <2>2. CASE Abort(c)
    BY <2>2 DEF Abort, Vanish
  <2>3. CASE Responses(c)
    <3>1. \E pc, answers : Answered(c, pc, answers)
      BY <2>3 DEF Responses, BeginExecute, BeginSkip, BeginRefused, BeginError, CommitDone, MarkDone
    <3>2. Respond(call[c].slot)
      BY <3>1 DEF Answered
    <3>3. QED  BY <1>1, <3>2 DEF Respond, LedgerTypeOK
  <2>4. QED  BY <1>9, <2>1, <2>2, <2>3 DEF Attempt
<1>10. ASSUME NEW h \in Handlers, RespondToNobody(h)
       PROVE  UNCHANGED row /\ \A k \in Handlers : handler'[k] \in {handler[k], Idle}
  BY <1>1, <1>10 DEF RespondToNobody, Respond, LedgerTypeOK
<1>11. ASSUME ApiCrash \/ UNCHANGED vars
       PROVE  UNCHANGED row /\ \A k \in Handlers : handler'[k] \in {handler[k], Idle}
  BY <1>11 DEF ApiCrash, Vanish, vars
<1>12. ASSUME NEW c \in Calls,
              Act(c) \/ Return(c) \/ ReceiptThrows(c) \/ Throw(c) \/ OperationTimeout(c)
       PROVE  UNCHANGED <<row, handler>>
  BY <1>12 DEF Act, Return, ReceiptThrows, Throw, OperationTimeout
<1>13. ASSUME NEW c \in Calls, NEW opts \in Options, Start(c, opts)
       PROVE  UNCHANGED <<row, handler>>
  BY <1>13 DEF Start, Invoke
<1>14. ASSUME NEW e \in Execs, Crash(e)
       PROVE  UNCHANGED <<row, handler>>
  BY <1>14 DEF Crash
<1>15. CASE Proceed
  BY <1>6, <1>5, <1>7, <1>8, <1>9, <1>10, <1>12, <1>14, <1>15 DEF Proceed, ServeOne, FailOne
<1>16. QED  BY <1>8, <1>11, <1>13, <1>15 DEF Next

\* How what a call knows survives what it becomes.
LEMMA SoundStays ==
    ASSUME NEW r \in CallState, NEW f \in Fps, Sound(r, f)
    PROVE  /\ \A result, value :
                 result # "cached" \/ value = {} \/ Acted(f) => Sound(Finish(r, result, value), f)
           /\ \A pc : pc # "commit" \/ Acted(f) => Sound(InPhase(r, pc), f)
           /\ \A pc : pc # "commit" => Sound(Running(r, pc), f)
           /\ \A slot : Sound([r EXCEPT !.slot = slot], f)
           /\ Sound([r EXCEPT !.tries = @ + 1, !.slot = NoSlot], f)
           /\ \A lambda : lambda # "acted" => Sound([r EXCEPT !.lambda = lambda], f)
           /\ \A result : result # "cached" => Sound([r EXCEPT !.result = result], f)
<1>1. \A result, value :
        result # "cached" \/ value = {} \/ Acted(f) => Sound(Finish(r, result, value), f)
  BY PhaseFields DEF Sound
<1>2. \A pc : pc # "commit" \/ Acted(f) => Sound(InPhase(r, pc), f)
  BY PhaseFields DEF Sound
<1>3. \A pc : pc # "commit" => Sound(Running(r, pc), f)
  BY PhaseFields DEF Sound
<1>4. /\ \A slot : Sound([r EXCEPT !.slot = slot], f)
      /\ Sound([r EXCEPT !.tries = @ + 1, !.slot = NoSlot], f)
      /\ \A lambda : lambda # "acted" => Sound([r EXCEPT !.lambda = lambda], f)
      /\ \A result : result # "cached" => Sound([r EXCEPT !.result = result], f)
  BY DEF Sound, CallState
<1>5. QED  BY <1>1, <1>2, <1>3, <1>4

\* A call moves on knowing no more than it may, and remembers no more.
Knows(c, r) ==
    /\ Become(c, r) /\ Sound(r, FpOf(c))
    /\ \/ UNCHANGED cache
       \/ \E value : Remember(c, value) /\ (value # {} => Acted(FpOf(c)))

\* What ends a call, or lets it run, is something it may know.
LEMMA EndsSound ==
    ASSUME NEW c \in Calls, call[c] \in CallState, Sound(call[c], FpOf(c))
    PROVE  /\ \A result, value : result # "cached" \/ value = {} \/ Acted(FpOf(c)) =>
                 /\ Sound(Finish(call[c], result, value), FpOf(c))
                 /\ Finish(call[c], result, value).slot = NoSlot
           /\ \A pc : pc # "commit" => /\ Sound(Running(call[c], pc), FpOf(c))
                                       /\ Running(call[c], pc).slot = NoSlot
           /\ Sound(Unavailable(c), FpOf(c)) /\ Unavailable(c).slot = NoSlot
           /\ Sound(Marked(call[c]), FpOf(c)) /\ Marked(call[c]).slot = NoSlot
<1>1. \A result, value : Finish(call[c], result, value).slot = NoSlot
  BY PhaseFields
<1>2. \A pc : Running(call[c], pc).slot = NoSlot
  BY PhaseFields
<1>3. \A result, value : result # "cached" \/ value = {} \/ Acted(FpOf(c)) =>
         Sound(Finish(call[c], result, value), FpOf(c))
  BY SoundStays, ScopeOfCall
<1>4. \A pc : pc # "commit" => Sound(Running(call[c], pc), FpOf(c))
  BY SoundStays, ScopeOfCall
<1>5. Sound(Unavailable(c), FpOf(c)) /\ Unavailable(c).slot = NoSlot
  BY <1>1, <1>2, <1>3, <1>4 DEF Unavailable
<1>6. Sound(Marked(call[c]), FpOf(c)) /\ Marked(call[c]).slot = NoSlot
  BY <1>1, <1>3 DEF Marked
<1>7. QED  BY <1>1, <1>2, <1>3, <1>4, <1>5, <1>6

LEMMA AttemptFailedKnows ==
    ASSUME DoneInv, NEW c \in Calls, Sending(c), AttemptFailed(c)
    PROVE  \E r : Knows(c, r) /\ r.slot = NoSlot
<1> DEFINE f == FpOf(c)
<1>1. call[c] \in CallState /\ Sound(call[c], f) /\ f \in Fps
  BY StartedCall, ScopeOfCall DEF DoneInv, Sending, CallIsBacked
<1>2. CASE /\ Become(c, [call[c] EXCEPT !.tries = @ + 1, !.slot = NoSlot])
           /\ UNCHANGED cache
  <2>1. [call[c] EXCEPT !.tries = @ + 1, !.slot = NoSlot].slot = NoSlot
    BY <1>1 DEF CallState
  <2>2. QED  BY <1>1, <1>2, <2>1, SoundStays DEF Knows
<1>3. CASE GiveUp(c)
  <2>1. CASE call[c].pc = "begin"
    <3>1. Become(c, Unavailable(c)) /\ UNCHANGED cache
      BY <1>3, <2>1 DEF GiveUp
    <3>2. Sound(Unavailable(c), f) /\ Unavailable(c).slot = NoSlot
      BY <1>1, EndsSound
    <3>3. QED  BY <3>1, <3>2 DEF Knows
  <2>2. CASE call[c].pc = "commit"
    <3>1. Become(c, Finish(call[c], "value", {"result"})) /\ Remember(c, {"result"}) /\ Acted(f)
      BY <1>1, <1>3, <2>2 DEF GiveUp, Sound
    <3>2. /\ Sound(Finish(call[c], "value", {"result"}), f)
          /\ Finish(call[c], "value", {"result"}).slot = NoSlot
      BY <1>1, EndsSound
    <3>3. QED  BY <3>1, <3>2 DEF Knows
  <2>3. CASE call[c].pc = "mark"
    <3>1. Become(c, Marked(call[c])) /\ UNCHANGED cache
      BY <1>3, <2>3 DEF GiveUp
    <3>2. Sound(Marked(call[c]), f) /\ Marked(call[c]).slot = NoSlot
      BY <1>1, EndsSound
    <3>3. QED  BY <3>1, <3>2 DEF Knows
  <2>4. QED  BY <2>1, <2>2, <2>3 DEF Sending
<1>4. QED  BY <1>2, <1>3 DEF AttemptFailed

LEMMA ResponsesKnow ==
    ASSUME DoneInv, NEW c \in Calls, Responses(c)
    PROVE  \E r : Knows(c, r) /\ r.slot = NoSlot
<1> DEFINE f == FpOf(c)
           s == call[c].slot
<1>1. PICK pc, answers : Answered(c, pc, answers)
  BY DEF Responses, BeginExecute, BeginSkip, BeginRefused, BeginError, CommitDone, MarkDone
<1>2. /\ Started(c) /\ s \in Handlers /\ At(s, "done") /\ SDKTypeOK
      /\ SlotIsMine(c) /\ CallIsBacked(c) /\ HandlerIsBacked(s)
  BY <1>1 DEF DoneInv, Answered
<1>3. call[c] \in CallState /\ Sound(call[c], f) /\ f \in Fps
  BY <1>2, StartedCall, ScopeOfCall DEF CallIsBacked
<1>4. handler[s].seen # {} => Acted(f)
  BY <1>2 DEF SlotIsMine, HandlerIsBacked, At
<1>5. CASE BeginExecute(c)
  <2>1. Sound(Running(call[c], "await"), f) /\ Running(call[c], "await").slot = NoSlot
    BY <1>3, EndsSound
  <2>2. QED  BY <1>5, <2>1 DEF BeginExecute, Knows
<1>6. CASE BeginSkip(c)
  <2>1. /\ Sound(Finish(call[c], "cached", handler[s].seen), f)
        /\ Finish(call[c], "cached", handler[s].seen).slot = NoSlot
    BY <1>3, <1>4, EndsSound
  <2>2. QED  BY <1>4, <1>6, <2>1 DEF BeginSkip, Knows
<1>7. CASE BeginRefused(c)
  <2>1. Sound(Finish(call[c], "conflict", {}), f) /\ Finish(call[c], "conflict", {}).slot = NoSlot
    BY <1>3, EndsSound
  <2>2. QED  BY <1>7, <2>1 DEF BeginRefused, Knows
<1>8. CASE BeginError(c)
  <2>1. Sound(Unavailable(c), f) /\ Unavailable(c).slot = NoSlot
    BY <1>3, EndsSound
  <2>2. QED  BY <1>8, <2>1 DEF BeginError, Knows
<1>9. CASE CommitDone(c)
  <2>1. Acted(f)
    BY <1>3, <1>9 DEF CommitDone, Answered, Sound
  <2>2. /\ Sound(Finish(call[c], "value", {"result"}), f)
        /\ Finish(call[c], "value", {"result"}).slot = NoSlot
    BY <1>3, EndsSound
  <2>3. QED  BY <1>9, <2>1, <2>2 DEF CommitDone, Knows
<1>10. CASE MarkDone(c)
  <2>1. Sound(Marked(call[c]), f) /\ Marked(call[c]).slot = NoSlot
    BY <1>3, EndsSound
  <2>2. QED  BY <1>10, <2>1 DEF MarkDone, Knows
<1>11. QED  BY <1>5, <1>6, <1>7, <1>8, <1>9, <1>10 DEF Responses

LEMMA StartKnows ==
    ASSUME DoneInv, NEW c \in Calls, NEW opts \in OptionSet, Start(c, opts)
    PROVE  \E r : Knows(c, r) /\ r.slot = NoSlot
<1> DEFINE r == Fresh(opts, KnownBy(c))
           memory == cache[ExecOf(c)][FpOf(c)]
<1>1. /\ r \in CallState /\ r.pc = "begin" /\ r.lambda = "none" /\ r.result = "none"
      /\ r.slot = NoSlot
  BY FreshType DEF DoneInv, Fresh
<1>2. Sound(r, FpOf(c))
  BY <1>1 DEF Sound
<1>3. memory.hit /\ memory.value # {} => Acted(FpOf(c))
  BY ScopeOfCall DEF DoneInv, CacheIsBacked
<1>4. memory.hit => /\ Sound(Finish(r, "cached", memory.value), FpOf(c))
                    /\ Finish(r, "cached", memory.value).slot = NoSlot
  <2> HIDE DEF r, memory
  <2>1. memory.hit => Sound(Finish(r, "cached", memory.value), FpOf(c))
    BY <1>1, <1>2, <1>3, SoundStays, ScopeOfCall
  <2>2. QED  BY <1>1, <2>1, PhaseFields
<1>5. QED  BY <1>1, <1>2, <1>4 DEF Start, Invoke, Knows

\* The operation's own steps, but the one that takes effect.
LEMMA OperationKnows ==
    ASSUME DoneInv, NEW c \in Calls,
           Return(c) \/ ReceiptThrows(c) \/ Throw(c) \/ OperationTimeout(c)
    PROVE  \E r : Knows(c, r) /\ r.slot \in {NoSlot, call[c].slot}
<1> DEFINE f == FpOf(c)
           ended == [call[c] EXCEPT !.lambda = "ended"]
<1>1. call[c] \in CallState /\ Sound(call[c], f) /\ f \in Fps /\ UNCHANGED cache
  BY StartedCall, ScopeOfCall DEF DoneInv, CallIsBacked, Return, ReceiptThrows, Throw,
     OperationTimeout
<1>2. /\ ended \in CallState /\ ended.pc = call[c].pc /\ ended.slot = call[c].slot
      /\ Sound(ended, f)
  <2>1. ended \in CallState
    BY <1>1, LambdaType DEF Lambda
  <2>2. ended.pc = call[c].pc /\ ended.slot = call[c].slot
    BY <1>1 DEF CallState
  <2>3. QED  BY <1>1, <2>1, <2>2, SoundStays
<1>3. /\ \A pc : pc # "commit" \/ Acted(f) =>
            Sound(InPhase(ended, pc), f) /\ InPhase(ended, pc).slot = NoSlot
      /\ \A result, value : result # "cached" =>
            Sound(Finish(ended, result, value), f) /\ Finish(ended, result, value).slot = NoSlot
  <2> HIDE DEF ended, f
  <2>1. \A pc : pc # "commit" \/ Acted(f) => Sound(InPhase(ended, pc), f)
    BY <1>1, <1>2, SoundStays
  <2>2. \A result, value : result # "cached" => Sound(Finish(ended, result, value), f)
    BY <1>1, <1>2, SoundStays
  <2>3. \A pc : InPhase(ended, pc).slot = NoSlot
    BY <1>2, PhaseFields
  <2>4. \A result, value : Finish(ended, result, value).slot = NoSlot
    BY <1>2, PhaseFields
  <2>5. QED  BY <2>1, <2>2, <2>3, <2>4
<1>4. CASE Return(c)
  <2>1. Acted(f)
    BY <1>1, <1>4 DEF Return, Sound
  <2>2. \/ Become(c, ended) \/ Become(c, InPhase(ended, "commit"))
        \/ Become(c, Finish(ended, "value", {"result"}))
    BY <1>4 DEF Return
  <2> HIDE DEF ended, f
  <2>3. QED  BY <1>1, <1>2, <1>3, <2>1, <2>2 DEF Knows, f
<1>5. CASE Throw(c)
  <2>1. \/ Become(c, ended) \/ Become(c, InPhase(ended, "mark"))
        \/ Become(c, Finish(ended, "threw", {}))
    BY <1>5 DEF Throw
  <2> HIDE DEF ended, f
  <2>2. QED  BY <1>1, <1>2, <1>3, <2>1 DEF Knows, f
<1>6. CASE ReceiptThrows(c)
  <2> DEFINE r == Finish(call[c], "threw", {})
  <2>1. r \in CallState /\ r.slot = NoSlot /\ Sound(r, f)
    <3>1. r \in CallState
      BY <1>1, FinishType DEF Results
    <3>2. QED  BY <1>1, <3>1, EndsSound
  <2>2. Sound([r EXCEPT !.lambda = "ended"], f) /\ [r EXCEPT !.lambda = "ended"].slot = NoSlot
    <3> HIDE DEF r
    <3>1. [r EXCEPT !.lambda = "ended"].slot = NoSlot
      BY <2>1 DEF CallState
    <3>2. QED  BY <1>1, <2>1, <3>1, SoundStays
  <2>3. QED  BY <1>1, <1>6, <2>2 DEF ReceiptThrows, Knows
<1>7. CASE OperationTimeout(c)
  <2> DEFINE r == InPhase(call[c], "mark")
  <2>1. r \in CallState /\ r.slot = NoSlot /\ Sound(r, f)
    <3>1. r \in CallState
      BY <1>1, InPhaseType DEF CallPc
    <3>2. r.slot = NoSlot
      BY <1>1, PhaseFields
    <3>3. QED  BY <1>1, <3>1, <3>2, SoundStays
  <2>2. Sound([r EXCEPT !.result = "timedOut"], f) /\ [r EXCEPT !.result = "timedOut"].slot = NoSlot
    <3> HIDE DEF r
    <3>1. [r EXCEPT !.result = "timedOut"].slot = NoSlot
      BY <2>1 DEF CallState
    <3>2. QED  BY <1>1, <2>1, <3>1, SoundStays
  <2>3. QED  BY <1>1, <1>7, <2>2 DEF OperationTimeout, Knows
<1>8. QED  BY <1>4, <1>5, <1>6, <1>7

\* A call that moves on so keeps what all calls know, and the caches.
LEMMA KnowsKept ==
    ASSUME DoneInv, [Next]_vars, NEW c \in Calls, NEW r, Knows(c, r)
    PROVE  (\A d \in Calls : CallIsBacked(d)') /\ CacheIsBacked'
<1>1. SDKTypeOK /\ CacheIsBacked /\ \A d \in Calls : CallIsBacked(d)
  BY DEF DoneInv
<1>2. \A f \in Fps : Acted(f) => Acted(f)'
  BY <1>1, ActedKept
<1>3. ASSUME NEW d \in Calls
      PROVE  CallIsBacked(d)'
  <2>1. call'[c] = r /\ Sound(r, FpOf(c)) /\ \A x \in Calls \ {c} : call'[x] = call[x]
    BY <1>1, Becomes DEF Knows
  <2>2. CASE d = c
    <3>1. Sound(r, FpOf(c))'
      BY <1>2, <2>1, ScopeOfCall DEF Sound
    <3>2. call'[c].pc = r.pc /\ call'[c].lambda = r.lambda /\ call'[c].result = r.result
          /\ call'[c].value = r.value
      BY <2>1
    <3>3. QED  BY <1>2, <2>1, <2>2, <3>2, ScopeOfCall DEF CallIsBacked, Sound
  <2>3. CASE d # c
    BY <1>1, <1>2, <2>1, <2>3, ScopeOfCall DEF CallIsBacked, Sound, Started
  <2>4. QED  BY <2>2, <2>3
<1>4. CacheIsBacked'
  <2>1. CASE UNCHANGED cache
    BY <1>1, <1>2, <2>1 DEF CacheIsBacked
  <2>2. ASSUME NEW value, Remember(c, value), value # {} => Acted(FpOf(c))
        PROVE  CacheIsBacked'
    <3>1. ASSUME NEW e \in Execs, NEW f \in Fps
          PROVE  \/ cache'[e][f] = cache[e][f]
                 \/ f = FpOf(c) /\ cache'[e][f] = [hit |-> TRUE, value |-> value]
      BY <1>1, <2>2, ScopeOfCall DEF Remember, SDKTypeOK
    <3>2. QED  BY <1>1, <1>2, <2>2, <3>1 DEF CacheIsBacked
  <2>3. QED  BY <2>1, <2>2 DEF Knows
<1>5. QED  BY <1>3, <1>4

\* A step that leaves calls and caches as they are, or resets fields, keeps them too.
LEMMA SilentKept ==
    ASSUME DoneInv, [Next]_vars, UNCHANGED cache,
           \A c \in Calls : Started(c)' =>
              /\ Started(c)
              /\ call'[c].pc \in {call[c].pc, "dead"} /\ call'[c].lambda \in {call[c].lambda, "none"}
              /\ call'[c].result = call[c].result /\ call'[c].value = call[c].value
    PROVE  (\A d \in Calls : CallIsBacked(d)') /\ CacheIsBacked'
<1>1. SDKTypeOK /\ CacheIsBacked /\ \A d \in Calls : CallIsBacked(d)
  BY DEF DoneInv
<1>2. \A f \in Fps : Acted(f) => Acted(f)'
  BY <1>1, ActedKept
<1>3. ASSUME NEW d \in Calls
      PROVE  CallIsBacked(d)'
  BY <1>1, <1>2, ScopeOfCall DEF CallIsBacked, Sound
<1>4. QED  BY <1>1, <1>2, <1>3 DEF CacheIsBacked

\* A call keeps its slot and the request in it, or waits for none.
Holds(c) ==
    Started(c)' /\ call'[c].slot \in Handlers =>
        /\ Started(c) /\ call'[c].slot = call[c].slot
        /\ handler'[call[c].slot].req = handler[call[c].slot].req
        /\ handler'[call[c].slot].pc # "idle"

LEMMA HoldsKept ==
    ASSUME DoneInv, \A c \in Calls : Holds(c)
    PROVE  \A c \in Calls : SlotIsMine(c)'
<1>1. \A c \in Calls : SlotIsMine(c)
  BY DEF DoneInv
<1>2. QED  BY <1>1 DEF Holds, SlotIsMine, At

\* One call moves on, and at most its slot is freed.
LEMMA OneHolds ==
    ASSUME DoneInv, NEW c \in Calls, NEW r, Become(c, r),
           \/ r.slot = NoSlot
           \/ Started(c) /\ r.slot = call[c].slot /\ UNCHANGED handler,
           \A h \in Handlers : h # call[c].slot => handler'[h] = handler[h],
           Started(c) \/ UNCHANGED handler
    PROVE  \A d \in Calls : SlotIsMine(d)'
<1>1. SDKTypeOK /\ (\A d \in Calls : SlotIsMine(d)) /\ NoSlot \notin Handlers
  BY SDKAssumption DEF DoneInv
<1>2. call'[c] = r /\ \A d \in Calls \ {c} : call'[d] = call[d]
  BY <1>1, Becomes
<1>3. Holds(c)
  BY <1>1, <1>2 DEF Holds, SlotIsMine, At
<1>4. ASSUME NEW d \in Calls \ {c}
      PROVE  Holds(d)
  <2>1. call'[d] = call[d] /\ SlotIsMine(d)
    BY <1>1, <1>2
  <2>2. Started(d) /\ call[d].slot \in Handlers => handler'[call[d].slot] = handler[call[d].slot]
    BY <2>1 DEF SlotIsMine
  <2>3. QED  BY <2>1, <2>2 DEF Holds, SlotIsMine, At, Started
<1>5. QED  BY <1>3, <1>4, HoldsKept

LEMMA AttemptDone ==
    ASSUME DoneInv, [Next]_vars, NEW c \in Calls, Attempt(c)
    PROVE  /\ \A d \in Calls : SlotIsMine(d)' /\ CallIsBacked(d)'
           /\ CacheIsBacked'
<1>1. SDKTypeOK /\ LedgerTypeOK /\ (\A d \in Calls : SlotIsMine(d)) /\ NoSlot \notin Handlers
  BY SDKAssumption DEF DoneInv, SDKTypeOK
<1>2. ASSUME \E r : Knows(c, r) /\ r.slot = NoSlot, Started(c),
             \A h \in Handlers : h # call[c].slot => handler'[h] = handler[h]
      PROVE  /\ \A d \in Calls : SlotIsMine(d)' /\ CallIsBacked(d)'
             /\ CacheIsBacked'
  <2>1. PICK r : Knows(c, r) /\ r.slot = NoSlot
    BY <1>2
  <2>2. \A d \in Calls : SlotIsMine(d)'
    BY <1>2, <2>1, OneHolds DEF Knows
  <2>3. QED  BY <2>1, <2>2, KnowsKept
<1>3. CASE Refused(c)
  BY <1>2, <1>3, AttemptFailedKnows DEF Refused, Sending
<1>4. CASE Abort(c)
  <2>1. \A h \in Handlers : h # call[c].slot => handler'[h] = handler[h]
    BY <1>4 DEF Abort, Vanish
  <2>2. QED  BY <1>2, <1>4, <2>1, AttemptFailedKnows DEF Abort, Sending
<1>5. CASE Responses(c)
  <2>1. PICK pc, answers : Answered(c, pc, answers)
    BY <1>5 DEF Responses, BeginExecute, BeginSkip, BeginRefused, BeginError, CommitDone, MarkDone
  <2>2. \A h \in Handlers : h # call[c].slot => handler'[h] = handler[h]
    BY <1>1, <2>1 DEF Answered, Respond, LedgerTypeOK
  <2>3. Started(c)
    BY <2>1 DEF Answered
  <2>4. QED  BY <1>2, <1>5, <2>2, <2>3, ResponsesKnow
<1>6. ASSUME NEW s \in Handlers, Send(c, s)
      PROVE  /\ \A d \in Calls : SlotIsMine(d)' /\ CallIsBacked(d)'
             /\ CacheIsBacked'
  <2> DEFINE r == [call[c] EXCEPT !.slot = s]
  <2>1. call[c] \in CallState /\ Started(c) /\ Sound(call[c], FpOf(c))
    BY <1>1, <1>6, StartedCall DEF DoneInv, CallIsBacked, Send, Sending
  <2>2. Knows(c, r)
    BY <1>6, <2>1, SoundStays, ScopeOfCall DEF Send, Knows
  <2>3. /\ call'[c].slot = s /\ \A d \in Calls \ {c} : call'[d] = call[d]
    BY <1>1, <1>6, <2>1, Becomes DEF Send, CallState
  <2>4. /\ At(s, "idle") /\ handler'[s].pc = "received" /\ handler'[s].req.fp = FpOf(c)
        /\ \A h \in Handlers \ {s} : handler'[h] = handler[h]
    BY <1>1, <1>6 DEF Send, Receive, RequestOf, LedgerTypeOK
  <2>5. \A d \in Calls \ {c} : Started(d) => call[d].slot # s
    BY <1>1, <2>4 DEF SlotIsMine
  <2>6. SlotIsMine(c)'
    BY <2>3, <2>4, <2>5 DEF SlotIsMine, At, Started
  <2>7. ASSUME NEW d \in Calls \ {c}
        PROVE  SlotIsMine(d)'
    BY <1>1, <2>3, <2>4, <2>5 DEF SlotIsMine, At, Started
  <2>8. QED  BY <2>2, <2>6, <2>7, KnowsKept
<1>7. QED  BY <1>3, <1>4, <1>5, <1>6 DEF Attempt

LEMMA CallsDone ==
    ASSUME EffectEndpoints \subseteq Endpoints, DoneInv, [Next]_vars
    PROVE  /\ \A c \in Calls : SlotIsMine(c)' /\ CallIsBacked(c)'
           /\ CacheIsBacked'
<1> DEFINE Goal == /\ \A c \in Calls : SlotIsMine(c)' /\ CallIsBacked(c)'
                   /\ CacheIsBacked'
<1>1. /\ SDKTypeOK /\ (\A c \in Calls : SlotIsMine(c)) /\ {NoSlot, Broken} \cap Handlers = {}
      /\ \A h \in Handlers : HandlerIsBacked(h)
  BY SDKAssumption DEF DoneInv
<1>2. ASSUME NEW c \in Calls, NEW r, Knows(c, r), r.slot = NoSlot \/ (Started(c) /\ r.slot = call[c].slot),
             UNCHANGED handler
      PROVE  Goal
  <2>1. \A d \in Calls : SlotIsMine(d)'
    BY <1>2, OneHolds DEF Knows
  <2>2. QED  BY <1>2, <2>1, KnowsKept
<1>3. ASSUME UNCHANGED clientVars, NEW h \in Handlers,
             \A k \in Handlers \ {h} : handler'[k] = handler[k],
             \/ handler'[h].req = handler[h].req /\ handler'[h].pc # "idle"
             \/ h \notin Awaited
      PROVE  Goal
  <2>1. call' = call /\ cache' = cache
    BY <1>3 DEF clientVars
  <2>2. \A c \in Calls : Holds(c)
    BY <1>1, <1>3, <2>1 DEF Holds, SlotIsMine, Awaited, Started, At
  <2>3. \A c \in Calls : SlotIsMine(c)'
    BY <2>2, HoldsKept
  <2>4. QED  BY <2>1, <2>3, SilentKept DEF Started
<1>4. ASSUME NEW c \in Calls, NEW opts \in Options, Start(c, opts)
      PROVE  Goal
  <2>1. UNCHANGED handler /\ opts \in OptionSet
    BY <1>4, SDKAssumption DEF Start, Invoke
  <2>2. QED  BY <1>2, <1>4, <2>1, StartKnows
<1>5. ASSUME NEW c \in Calls, Attempt(c)
      PROVE  Goal
  BY <1>5, AttemptDone
<1>6. ASSUME NEW c \in Calls, Act(c)
      PROVE  Goal
  <2> DEFINE r == [call[c] EXCEPT !.lambda = "acted"]
  <2>1. Started(c) /\ call[c] \in CallState /\ CallIsBacked(c) /\ UNCHANGED <<handler, cache>>
    BY <1>1, <1>6, StartedCall DEF Act, DoneInv
  <2>2. call'[c] = r /\ \A d \in Calls \ {c} : call'[d] = call[d]
    BY <1>1, <1>6, Becomes DEF Act
  <2>3. r.slot = call[c].slot
    BY <2>1 DEF CallState
  <2>4. Acted(FpOf(c))'
    <3>1. acts'[ExecOf(c)][FpOf(c)] = acts[ExecOf(c)][FpOf(c)] + 1
          /\ acts[ExecOf(c)][FpOf(c)] \in Nat
      BY <1>1, <1>6, ScopeOfCall DEF Act, SDKTypeOK
    <3>2. acts'[ExecOf(c)][FpOf(c)] > 0
      BY <3>1
    <3>3. QED  BY <3>2, ScopeOfCall DEF Acted
  <2>5. \A d \in Calls : SlotIsMine(d)'
    BY <1>6, <2>1, <2>3, OneHolds DEF Act
  <2>6. \A f \in Fps : Acted(f) => Acted(f)'
    BY <1>1, ActedKept
  <2>7. \A d \in Calls : CallIsBacked(d)'
    BY <2>2, <2>4, <2>6, ScopeOfCall DEF DoneInv, CallIsBacked, Sound, Started
  <2>8. CacheIsBacked'
    BY <2>1, <2>6 DEF DoneInv, CacheIsBacked
  <2>9. QED  BY <2>5, <2>7, <2>8
<1>7. ASSUME NEW c \in Calls, Return(c) \/ ReceiptThrows(c) \/ Throw(c) \/ OperationTimeout(c)
      PROVE  Goal
  <2>1. UNCHANGED handler /\ Started(c)
    BY <1>7 DEF Return, ReceiptThrows, Throw, OperationTimeout
  <2>2. QED  BY <1>2, <1>7, <2>1, OperationKnows
<1>8. ASSUME NEW h \in Handlers, ServeOne(h) \/ FailOne(h)
      PROVE  Goal
  <2>1. ~At(h, "idle")
    BY <1>1, <1>8, ServesOne DEF ServeOne, FailOne, DatabaseFails, At, Busy, BusyPc, SDKTypeOK
  <2>2. Moves(h)
    BY <1>1, <1>8, <2>1, RequestMoves DEF HandlerIsBacked, ServeOne, FailOne, SDKTypeOK
  <2>3. QED  BY <1>3, <1>8, <2>2 DEF Moves, ServeOne, FailOne
<1>9. ASSUME NEW h \in Handlers, RespondToNobody(h)
      PROVE  Goal
  BY <1>1, <1>3, <1>9 DEF RespondToNobody, Respond, SDKTypeOK, LedgerTypeOK
<1>10. ASSUME NEW e \in Execs, Crash(e)
       PROVE  Goal
  <2>1. UNCHANGED <<handler, cache>>
    BY <1>10 DEF Crash
  <2>2. ASSUME NEW c \in Calls
        PROVE  Started(c)' =>
                 /\ Started(c)
                 /\ call'[c].pc \in {call[c].pc, "dead"} /\ call'[c].lambda \in {call[c].lambda, "none"}
                 /\ call'[c].result = call[c].result /\ call'[c].value = call[c].value
                 /\ call'[c].slot \in {NoSlot, call[c].slot}
    <3>1. CASE call'[c] = call[c]
      BY <3>1 DEF Started
    <3>2. CASE Started(c) /\ call'[c] = [call[c] EXCEPT !.lambda = "none"]
      <4>1. call[c] \in CallState
        BY <1>1, <3>2, StartedCall
      <4>2. QED  BY <3>2, <4>1 DEF CallState
    <3>3. CASE Started(c) /\ call'[c] = [InPhase(call[c], "dead") EXCEPT !.lambda = "none"]
      <4>1. call[c] \in CallState
        BY <1>1, <3>3, StartedCall
      <4>2. InPhase(call[c], "dead") \in CallState
        BY <4>1, InPhaseType DEF CallPc
      <4>3. /\ call'[c].pc = InPhase(call[c], "dead").pc /\ call'[c].lambda = "none"
            /\ call'[c].result = InPhase(call[c], "dead").result
            /\ call'[c].value = InPhase(call[c], "dead").value
            /\ call'[c].slot = InPhase(call[c], "dead").slot
        BY <3>3, <4>2 DEF CallState
      <4>4. QED  BY <3>3, <4>1, <4>3, PhaseFields
    <3>4. QED  BY <1>10, <3>1, <3>2, <3>3 DEF Crash
  <2>3. \A c \in Calls : Holds(c)
    BY <1>1, <2>1, <2>2 DEF Holds, SlotIsMine, At
  <2>4. \A c \in Calls : SlotIsMine(c)'
    BY <2>3, HoldsKept
  <2>5. QED  BY <2>1, <2>2, <2>4, SilentKept
<1>11. ASSUME ApiCrash
       PROVE  Goal
  <2>1. UNCHANGED cache
    BY <1>11 DEF ApiCrash
  <2>2. ASSUME NEW c \in Calls
        PROVE  Started(c)' =>
                 /\ Started(c)
                 /\ call'[c].pc \in {call[c].pc, "dead"} /\ call'[c].lambda \in {call[c].lambda, "none"}
                 /\ call'[c].result = call[c].result /\ call'[c].value = call[c].value
                 /\ call'[c].slot \notin Handlers
    <3>1. CASE Started(c) /\ call[c].slot \in Handlers /\ call'[c] = [call[c] EXCEPT !.slot = Broken]
      <4>1. call[c] \in CallState
        BY <1>1, <3>1, StartedCall
      <4>2. QED  BY <1>1, <3>1, <4>1 DEF CallState
    <3>2. CASE ~(Started(c) /\ call[c].slot \in Handlers) /\ call'[c] = call[c]
      BY <3>2 DEF Started
    <3>3. QED  BY <1>11, <3>1, <3>2 DEF ApiCrash
  <2>3. \A c \in Calls : SlotIsMine(c)'
    BY <2>2, HoldsKept DEF Holds
  <2>4. QED  BY <2>1, <2>2, <2>3, SilentKept
<1>12. ASSUME UNCHANGED vars
       PROVE  Goal
  <2>1. call' = call /\ cache' = cache /\ handler' = handler
    BY <1>12 DEF vars
  <2>2. \A c \in Calls : SlotIsMine(c)'
    BY <1>1, <2>1 DEF SlotIsMine, Started, At
  <2>3. QED  BY <2>1, <2>2, SilentKept DEF Started
<1>13. CASE Proceed
  BY <1>5, <1>6, <1>7, <1>8, <1>9, <1>10, <1>13 DEF Proceed
<1>14. QED  BY <1>4, <1>11, <1>12, <1>13 DEF Next

\* effect() hands back metadata of an earlier run only of an operation that took
\* effect, also when calls of one execution share the row.
THEOREM CachedResultsAreReal ==
    ASSUME EffectEndpoints \subseteq Endpoints
    PROVE  Spec => []CachedWasDone
<1>1. Init => DoneInv
  <2> SUFFICES ASSUME Init
               PROVE  DoneInv
    OBVIOUS
  <2>1. SDKTypeOK
    BY LedgerInitType DEF Init, SDKTypeOK, Miss
  <2>2. \A h \in Handlers : At(h, "idle")
    BY DEF Init, LedgerInit, At, Idle
  <2>3. \A e \in Execs, f \in Fps : row[e][f].status = "NONE" /\ ~cache[e][f].hit
    BY DEF Init, LedgerInit, NoRow, NewRow, Miss
  <2>4. \A c \in Calls : ~Started(c)
    BY DEF Init, NotStarted, Started
  <2>5. QED
    BY <2>1, <2>2, <2>3, <2>4
    DEF DoneInv, RowIsBacked, HandlerIsBacked, SlotIsMine, CallIsBacked, CacheIsBacked
<1>2. DoneInv /\ [Next]_vars => DoneInv'
  <2> SUFFICES ASSUME DoneInv, [Next]_vars
               PROVE  DoneInv'
    OBVIOUS
  <2>1. SDKTypeOK'
    BY SDKNextType DEF DoneInv
  <2>2. QED  BY <2>1, RequestsDone, CallsDone DEF DoneInv
<1>3. DoneInv => CachedWasDone
  BY DEF DoneInv, CallIsBacked, Sound, Acted, CachedWasDone
<1>4. QED  BY <1>1, <1>2, <1>3, PTL DEF Spec
=============================================================================
