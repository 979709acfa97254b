------------------------- MODULE PythonGuard_proofs -------------------------
(***************************************************************************)
(* Theorems about the Python SDK: its threads, its pool and the calls made *)
(* inside operations keep to the ledger's specification, and an operation  *)
(* whose caller was told that it timed out is never recorded as ended; for *)
(* any number of calls, threads, workers, options and retries.             *)
(***************************************************************************)
EXTENDS PythonGuard, ReplayGuardSDK_proofs, FiniteSetTheorems

-----------------------------------------------------------------------------
(* Python's steps, by what they do to the ledger.                          *)

\* What is not a step of ReplayGuardSDK.
Bare(c) == \E opts \in Options : StartBare(c, opts)

Unsent(c) == NoContext(c)

\* The operation ends with a timeout, or with one of a call within it.
EndsLate(c) == RaisesTimeout(c) \/ (Runs(c) /\ PassesTimeoutOn(c))

LEMMA LateEnd ==
    ASSUME NEW c \in Calls, EndsLate(c), call[c] \in CallState
    PROVE  /\ Started(c) /\ call[c].pc = "await" /\ call[c].lambda \in {"running", "acted"}
           /\ UNCHANGED <<row, handler, alive, cache, acts>>
           /\ \E s \in CallState :
                 /\ Become(c, s)
                 /\ s.pc \in {"mark", "settled"} /\ s.slot = NoSlot
                 /\ s.lambda = "ended" /\ s.result = "timedOut"
<1> DEFINE r == InPhase(call[c], "mark")
           s == [r EXCEPT !.result = "timedOut", !.lambda = "ended"]
           q == Finish(call[c], "timedOut", {})
           t == [q EXCEPT !.lambda = "ended"]
<1>1. "timedOut" \in Results /\ "ended" \in Lambda /\ "mark" \in CallPc /\ {} \in SUBSET MetadataKeys
  BY DEF Results, Lambda, CallPc
<1>2. r \in CallState /\ r.pc = "mark" /\ r.slot = NoSlot
  BY InPhaseType, PhaseFields DEF CallPc
<1>3. q \in CallState
  BY <1>1, FinishType
<1>4. q.pc = "settled" /\ q.slot = NoSlot /\ q.result = "timedOut"
  BY PhaseFields
<1>5. s \in CallState /\ s.pc = "mark" /\ s.slot = NoSlot /\ s.lambda = "ended" /\ s.result = "timedOut"
  <2> HIDE DEF r
  <2>1. QED  BY <1>1, <1>2 DEF CallState
<1>6. t \in CallState /\ t.pc = "settled" /\ t.slot = NoSlot /\ t.lambda = "ended" /\ t.result = "timedOut"
  <2> HIDE DEF q
  <2>1. QED  BY <1>1, <1>3, <1>4 DEF CallState
<1>7. Become(c, s) \/ Become(c, t)
  BY DEF EndsLate, RaisesTimeout, PassesTimeoutOn
<1>8. \E z \in CallState :
          /\ Become(c, z)
          /\ z.pc \in {"mark", "settled"} /\ z.slot = NoSlot
          /\ z.lambda = "ended" /\ z.result = "timedOut"
  <2> HIDE DEF s, t
  <2>1. QED  BY <1>5, <1>6, <1>7
<1>9. QED  BY <1>8 DEF EndsLate, RaisesTimeout, PassesTimeoutOn, Runs

LEMMA PythonSteps ==
    ASSUME PyNext
    PROVE  \/ [Next]_vars
           \/ \E c \in Calls : Bare(c) \/ Unsent(c) \/ EndsLate(c)
<1>1. ASSUME NEW c \in Calls, NEW opts \in Options, Effect(c, opts)
      PROVE  Next \/ Bare(c)
  BY <1>1 DEF Effect, Bare, Next
<1>2. ASSUME NEW c \in Calls, PyAttempt(c)
      PROVE  Next \/ Unsent(c)
  BY <1>2 DEF PyAttempt, Unsent, Execute, Next, Proceed, Attempt, Responses
<1>3. ASSUME NEW c \in Calls, TakesEffect(c) \/ Ends(c) \/ TimesOut(c) \/ RaisesTimeout(c)
      PROVE  Next \/ EndsLate(c)
  BY <1>3 DEF TakesEffect, Ends, TimesOut, EndsLate, Next, Proceed
<1>4. ASSUME NEW h \in Handlers, ServeOne(h) \/ FailOne(h) \/ RespondToNobody(h)
      PROVE  Next
  BY <1>4 DEF Next, Proceed
<1>5. ASSUME NEW e \in Execs, Complete(e)
      PROVE  UNCHANGED vars
  BY <1>5 DEF Complete, vars
<1>6. ASSUME NEW e \in Execs, ProcessDies(e)
      PROVE  Next
  BY <1>6 DEF ProcessDies, Next, Proceed
<1>7. ApiCrash => Next
  BY DEF Next
<1>8. QED  BY <1>1, <1>2, <1>3, <1>4, <1>5, <1>6, <1>7 DEF PyNext

\* These leave the ledger alone, and the other calls.
LEMMA OwnSteps ==
    ASSUME NEW c \in Calls, Bare(c) \/ Unsent(c) \/ EndsLate(c)
    PROVE  UNCHANGED <<row, handler, alive, acts>>
  BY DEF Bare, StartBare, Invoke, Unsent, NoContext, EndsLate, RaisesTimeout, PassesTimeoutOn

\* The Python SDK talks to the ledger only through requests LedgerSpec allows
\* its callers: with its threads, too, it implements the ledger's specification.
THEOREM PythonImplementsLedger ==
    ASSUME EffectEndpoints \subseteq Endpoints
    PROVE  PySpec => LedgerSpec
<1>1. PyInit => LedgerInit
  BY DEF PyInit, Init
<1>2. [PyNext]_allVars => [LedgerNext]_ledgerVars
  <2>1. UNCHANGED allVars => UNCHANGED ledgerVars
    BY DEF allVars, ledgerVars
  <2>2. ASSUME NEW c \in Calls, Bare(c) \/ Unsent(c) \/ EndsLate(c)
        PROVE  UNCHANGED ledgerVars
    BY <2>2, OwnSteps DEF ledgerVars
  <2>3. QED  BY <2>1, <2>2, PythonSteps, SystemSteps
<1>3. QED  BY <1>1, <1>2, PTL DEF PySpec, LedgerSpec

-----------------------------------------------------------------------------
(* Types.                                                                   *)

LEMMA PythonTypes ==
    ASSUME EffectEndpoints \subseteq Endpoints, SDKTypeOK, [PyNext]_allVars
    PROVE  SDKTypeOK'
<1>1. CASE [Next]_vars
  BY <1>1, SDKNextType
<1>2. ASSUME NEW c \in Calls, Bare(c) \/ Unsent(c) \/ EndsLate(c), ClientTypeOK'
      PROVE  SDKTypeOK'
  <2>1. LedgerTypeOK'
    BY <1>2, OwnSteps, LedgerNextType DEF SDKTypeOK, ledgerVars
  <2>2. QED  BY <1>2, <2>1 DEF SDKTypeOK, ClientTypeOK
<1>3. ASSUME NEW c \in Calls, Bare(c)
      PROVE  ClientTypeOK'
  BY <1>3, InvokeType, SDKAssumption DEF Bare
<1>4. ASSUME NEW c \in Calls, Unsent(c)
      PROVE  ClientTypeOK'
  <2>1. call[c] \in CallState /\ {"result"} \in SUBSET MetadataKeys
    BY <1>4, StartedCall DEF Unsent, NoContext, Sending, MetadataKeys
  <2>2. /\ Finish(call[c], "value", {"result"}) \in CallState
        /\ Unavailable(c) \in CallState /\ Marked(call[c]) \in CallState
    BY <2>1, FinishType, UnavailableType, MarkedType DEF Results
  <2>3. \E r \in CallState : Become(c, r)
    BY <1>4, <2>2 DEF Unsent, NoContext, GiveUp, Sending
  <2>4. UNCHANGED cache \/ Remember(c, {"result"})
    BY <1>4 DEF Unsent, NoContext, GiveUp
  <2>5. QED
    BY <1>4, <2>1, <2>3, <2>4, BecomeType, RememberType, OwnSteps DEF ClientTypeOK, SDKTypeOK
<1>5. ASSUME NEW c \in Calls, EndsLate(c)
      PROVE  ClientTypeOK'
  <2>1. call[c] \in CallState
    BY <1>5, StartedCall DEF EndsLate, RaisesTimeout, Runs
  <2>2. QED  BY <1>5, <2>1, LateEnd, BecomeType DEF ClientTypeOK, SDKTypeOK
<1>6. CASE UNCHANGED allVars
  <2>1. UNCHANGED vars
    BY <1>6 DEF allVars, vars
  <2>2. QED  BY <1>1, <2>1
<1>7. QED  BY <1>1, <1>2, <1>3, <1>4, <1>5, <1>6, PythonSteps

\* Calls, caches, rows and requests keep their shape.
LEMMA PythonSDKType ==
    ASSUME EffectEndpoints \subseteq Endpoints
    PROVE  PySpec => []SDKTypeOK
<1>1. PyInit => SDKTypeOK
  BY LedgerInitType DEF PyInit, Init, SDKTypeOK, Miss
<1>2. QED  BY <1>1, PythonTypes, PTL DEF PySpec

-----------------------------------------------------------------------------
(***************************************************************************)
(* Operations that were given up.  A row says COMMITTED or FAILED because  *)
(* some call ran its operation to the end before its timer fired; that has *)
(* to be followed from the call through its request to the row.  FAILED is *)
(* written for a refused begin, too, but never over a row, and who runs an *)
(* operation has one.                                                      *)
(***************************************************************************)

\* What an operation does with a thread, and where a call is with its operation:
\* it may still report the end of an operation only if its timer has not fired.
Occupies(r) == r.lambda \in {"running", "acted"}
RanToEnd(r) == r.lambda = "ended" /\ r.result # "timedOut"
Claims(r) == r.pc = "await" \/ r.result = "timedOut"

Shape(r) ==
    /\ r.pc = "begin" => r.lambda = "none" /\ r.result = "none"
    /\ r.pc = "await" => Occupies(r) /\ r.result = "none"
    /\ r.pc = "commit" => r.lambda = "ended" /\ r.result = "none"
    /\ r.pc = "mark" => r.result = "timedOut" \/ (r.lambda = "ended" /\ r.result = "none")

CallFits(c) ==
    Started(c) =>
        /\ Shape(call[c])
        /\ ~alive[ExecOf(c)] => call[c].pc \in {"settled", "dead"} /\ call[c].lambda = "none"

\* Some call ran operation f of execution e to its end, or nobody can tell.
RanOut(e, f) ==
    \/ ~alive[e]
    \/ \E d \in Calls : /\ Started(d) /\ ExecOf(d) = e /\ FpOf(d) = f
                        /\ RanToEnd(call[d])

\* The row of an operation that somebody was told to run.
ClaimFits(e, f) ==
    /\ row[e][f].status # "NONE"
    /\ row[e][f].status = "FAILED" => RanOut(e, f)

RowFits(e, f) ==
    /\ row[e][f].status # "VERIFIED"
    /\ row[e][f].status = "COMMITTED" => RanOut(e, f)

\* Who reports an operation's end has seen it, and who is told EXECUTE has a row.
HandlerFits(h) ==
    LET e == handler[h].req.exec
        f == handler[h].req.fp
    IN  ~At(h, "idle") =>
            /\ EffectRequest(h)
            /\ handler[h].req.op \in {"commit", "failed"} => RanOut(e, f)
            /\ At(h, "done") /\ handler[h].answer = "EXECUTE" => ClaimFits(e, f)

\* A call waits, alone, for a request of its own.
SlotFits(c) ==
    Started(c) /\ call[c].slot \in Handlers =>
        /\ From(call[c].slot, c)
        /\ \A d \in Calls \ {c} : Started(d) => call[d].slot # call[c].slot

ClaimHolds(c) == Started(c) /\ Claims(call[c]) => ClaimFits(ExecOf(c), FpOf(c))

LateInv ==
    /\ SDKTypeOK
    /\ \A c \in Calls : CallFits(c) /\ SlotFits(c) /\ ClaimHolds(c)
    /\ \A h \in Handlers : HandlerFits(h)
    /\ \A e \in Execs, f \in Fps : RowFits(e, f)

\* What a call may become by itself.
Turn(r, s) ==
    /\ s.pc # "idle" /\ s.slot \in {NoSlot, Broken, r.slot}
    /\ Shape(s)
    /\ Claims(s) => Claims(r)
    /\ RanToEnd(r) => RanToEnd(s)

\* ... without its operation ending.
Works(r, s) == Turn(r, s) /\ s.slot = NoSlot /\ (Occupies(r) => Occupies(s))

LEMMA FinishWorks ==
    ASSUME NEW r \in CallState, Shape(r), NEW result \in Results \ {"timedOut"}, NEW value
    PROVE  Works(r, Finish(r, result, value))
<1> DEFINE s == Finish(r, result, value)
<1>1. /\ s.pc = "settled" /\ s.slot = NoSlot /\ s.lambda = r.lambda /\ s.result = result
  BY PhaseFields
<1>2. Works(r, s)
  <2> HIDE DEF s
  <2>1. QED  BY <1>1 DEF Works, Turn, Shape, Claims, RanToEnd, Occupies
<1>3. QED  BY <1>2

LEMMA MarkedWorks ==
    ASSUME NEW r \in CallState, Shape(r)
    PROVE  Works(r, Marked(r))
<1> DEFINE s == Marked(r)
<1>1. /\ s.pc = "settled" /\ s.slot = NoSlot /\ s.lambda = r.lambda
      /\ s.result = IF r.result = "none" THEN "threw" ELSE r.result
  BY PhaseFields DEF Marked
<1>2. Works(r, s)
  <2> HIDE DEF s
  <2>1. QED  BY <1>1 DEF Works, Turn, Shape, Claims, RanToEnd, Occupies
<1>3. QED  BY <1>2

LEMMA UnavailableWorks ==
    ASSUME NEW c \in Calls, call[c] \in CallState, Shape(call[c]), call[c].pc = "begin"
    PROVE  Works(call[c], Unavailable(c))
<1> DEFINE s == Running(call[c], "open")
<1>1. /\ s.pc = "open" /\ s.slot = NoSlot /\ s.lambda = "running" /\ s.result = call[c].result
  BY PhaseFields
<1>2. Works(call[c], s)
  <2> HIDE DEF s
  <2>1. QED  BY <1>1 DEF Works, Turn, Shape, Claims, RanToEnd, Occupies
<1>3. Works(call[c], Finish(call[c], "unavailable", {}))
  BY FinishWorks DEF Results
<1>4. QED  BY <1>2, <1>3 DEF Unavailable

LEMMA GiveUpWorks ==
    ASSUME NEW c \in Calls, call[c] \in CallState, Shape(call[c]), Sending(c), GiveUp(c)
    PROVE  \E s : Become(c, s) /\ Works(call[c], s)
<1>1. Works(call[c], Finish(call[c], "value", {"result"}))
  BY FinishWorks DEF Results
<1>2. QED  BY <1>1, UnavailableWorks, MarkedWorks DEF GiveUp, Sending

LEMMA AttemptFailedWorks ==
    ASSUME NEW c \in Calls, call[c] \in CallState, Shape(call[c]), Sending(c), AttemptFailed(c)
    PROVE  \E s : Become(c, s) /\ Works(call[c], s)
<1> DEFINE s == [call[c] EXCEPT !.tries = @ + 1, !.slot = NoSlot]
<1>1. /\ s.pc = call[c].pc /\ s.slot = NoSlot /\ s.lambda = call[c].lambda
      /\ s.result = call[c].result
  BY DEF CallState
<1>2. Works(call[c], s)
  <2> HIDE DEF s
  <2>1. QED  BY <1>1 DEF Works, Turn, Shape, Claims, RanToEnd, Occupies, CallState, CallPc
<1>3. QED  BY <1>2, GiveUpWorks DEF AttemptFailed

LEMMA AnswerWorks ==
    ASSUME NEW c \in Calls, call[c] \in CallState, Shape(call[c]),
           BeginSkip(c) \/ BeginRefused(c) \/ BeginError(c) \/ CommitDone(c) \/ MarkDone(c)
    PROVE  \E s : Become(c, s) /\ Works(call[c], s)
<1>1. /\ Works(call[c], Finish(call[c], "cached", handler[call[c].slot].seen))
      /\ Works(call[c], Finish(call[c], "conflict", {}))
      /\ Works(call[c], Finish(call[c], "value", {"result"}))
  BY FinishWorks DEF Results
<1>2. QED
  BY <1>1, UnavailableWorks, MarkedWorks DEF BeginSkip, BeginRefused, BeginError, CommitDone,
     MarkDone, Answered

LEMMA TimerWorks ==
    ASSUME NEW c \in Calls, call[c] \in CallState, Shape(call[c]), OperationTimeout(c)
    PROVE  \E s : Become(c, s) /\ Works(call[c], s)
<1> DEFINE r == InPhase(call[c], "mark")
           s == [r EXCEPT !.result = "timedOut"]
<1>1. /\ r \in CallState /\ r.pc = "mark" /\ r.slot = NoSlot /\ r.lambda = call[c].lambda
  BY InPhaseType, PhaseFields DEF CallPc
<1>2. s.pc = "mark" /\ s.slot = NoSlot /\ s.lambda = call[c].lambda /\ s.result = "timedOut"
  <2> HIDE DEF r
  <2>1. QED  BY <1>1 DEF CallState
<1>3. Become(c, s) /\ call[c].pc = "await"
  BY DEF OperationTimeout
<1> HIDE DEF r, s
<1>4. QED  BY <1>2, <1>3 DEF Works, Turn, Shape, Claims, RanToEnd, Occupies

LEMMA ActTurns ==
    ASSUME NEW c \in Calls, call[c] \in CallState, Shape(call[c]), Act(c)
    PROVE  \E s : /\ Become(c, s) /\ Turn(call[c], s) /\ s.slot = call[c].slot
                  /\ Occupies(call[c]) => Occupies(s)
<1> DEFINE s == [call[c] EXCEPT !.lambda = "acted"]
<1>1. /\ s.pc = call[c].pc /\ s.slot = call[c].slot /\ s.lambda = "acted"
      /\ s.result = call[c].result
  BY DEF CallState
<1>2. Become(c, s) /\ call[c].lambda = "running"
  BY DEF Act
<1> HIDE DEF s
<1>3. QED  BY <1>1, <1>2 DEF Turn, Shape, Claims, RanToEnd, Occupies, CallState, CallPc

\* The operation ends.
LEMMA EndTurns ==
    ASSUME NEW c \in Calls, call[c] \in CallState, Shape(call[c]), Started(c),
           Return(c) \/ ReceiptThrows(c) \/ Throw(c) \/ EndsLate(c)
    PROVE  \E s : Become(c, s) /\ Turn(call[c], s)
<1> DEFINE ended == [call[c] EXCEPT !.lambda = "ended"]
<1>1. /\ ended \in CallState
      /\ ended.pc = call[c].pc /\ ended.slot = call[c].slot /\ ended.lambda = "ended"
      /\ ended.result = call[c].result
  BY DEF CallState, Lambda
<1>2. \A pc \in CallPc : /\ InPhase(ended, pc).pc = pc /\ InPhase(ended, pc).slot = NoSlot
                         /\ InPhase(ended, pc).lambda = "ended"
                         /\ InPhase(ended, pc).result = call[c].result
  <2> HIDE DEF ended
  <2>1. QED  BY <1>1, PhaseFields
<1>3. \A result, value : /\ Finish(ended, result, value).pc = "settled"
                         /\ Finish(ended, result, value).slot = NoSlot
                         /\ Finish(ended, result, value).lambda = "ended"
                         /\ Finish(ended, result, value).result = result
  <2> HIDE DEF ended
  <2>1. QED  BY <1>1, PhaseFields
<1>4. Occupies(call[c])
  BY LateEnd DEF Return, ReceiptThrows, Throw, Occupies
<1>5. CASE Become(c, ended) /\ call[c].pc \notin {"await", "open"}
  <2> HIDE DEF ended
  <2>1. QED  BY <1>1, <1>4, <1>5 DEF Turn, Shape, Claims, RanToEnd, Occupies, Started
<1>6. CASE \E pc \in {"commit", "mark"} : Become(c, InPhase(ended, pc)) /\ call[c].pc = "await"
  <2> HIDE DEF ended
  <2>1. PICK pc \in {"commit", "mark"} : Become(c, InPhase(ended, pc)) /\ call[c].pc = "await"
    BY <1>6
  <2>2. pc \in CallPc
    BY DEF CallPc
  <2> DEFINE s == InPhase(ended, pc)
  <2>3. s.pc = pc /\ s.slot = NoSlot /\ s.lambda = "ended" /\ s.result = call[c].result
    BY <1>2, <2>2
  <2> HIDE DEF s
  <2>4. Turn(call[c], s)
    BY <1>4, <2>1, <2>3 DEF Turn, Shape, Claims, RanToEnd, Occupies
  <2>5. QED  BY <2>1, <2>4 DEF s
<1>7. CASE \E result \in {"value", "threw"} : \E value : Become(c, Finish(ended, result, value))
  <2> HIDE DEF ended
  <2>0. PICK result \in {"value", "threw"} : \E value : Become(c, Finish(ended, result, value))
    BY <1>7
  <2>1. PICK value : Become(c, Finish(ended, result, value))
    BY <2>0
  <2> DEFINE s == Finish(ended, result, value)
  <2>2. s.pc = "settled" /\ s.slot = NoSlot /\ s.lambda = "ended" /\ s.result = result
    BY <1>3
  <2> HIDE DEF s
  <2>3. Turn(call[c], s)
    BY <1>4, <2>2 DEF Turn, Shape, Claims, RanToEnd, Occupies
  <2>4. QED  BY <2>1, <2>3 DEF s
<1>8. CASE ReceiptThrows(c)
  <2> DEFINE q == Finish(call[c], "threw", {})
             s == [q EXCEPT !.lambda = "ended"]
  <2>1. q \in CallState /\ q.pc = "settled" /\ q.slot = NoSlot /\ q.result = "threw"
    BY FinishType, PhaseFields DEF Results
  <2>2. s.pc = "settled" /\ s.slot = NoSlot /\ s.lambda = "ended" /\ s.result = "threw"
    <3> HIDE DEF q
    <3>1. QED  BY <2>1 DEF CallState
  <2>3. Become(c, s)
    BY <1>8 DEF ReceiptThrows
  <2> HIDE DEF q, s
  <2>4. QED  BY <1>4, <2>2, <2>3 DEF Turn, Shape, Claims, RanToEnd, Occupies
<1>9. CASE EndsLate(c)
  <2>1. PICK s : /\ Become(c, s) /\ call[c].pc = "await"
                 /\ s.pc \in {"mark", "settled"} /\ s.slot = NoSlot
                 /\ s.lambda = "ended" /\ s.result = "timedOut"
    BY <1>9, LateEnd
  <2>2. QED  BY <1>4, <2>1 DEF Turn, Shape, Claims, RanToEnd, Occupies
<1>10. Return(c) \/ Throw(c) => \/ Become(c, ended) /\ call[c].pc \notin {"await", "open"}
                                \/ \E pc \in {"commit", "mark"} :
                                      Become(c, InPhase(ended, pc)) /\ call[c].pc = "await"
                                \/ \E result \in {"value", "threw"} : \E value :
                                      Become(c, Finish(ended, result, value))
  <2>1. CASE Return(c)
    <3>1. \/ Become(c, ended) /\ call[c].pc \notin {"await", "open"}
          \/ Become(c, InPhase(ended, "commit")) /\ call[c].pc = "await"
          \/ Become(c, Finish(ended, "value", {"result"}))
      BY <1>1, <2>1 DEF Return
    <3> HIDE DEF ended
    <3>2. QED  BY <3>1
  <2>2. CASE Throw(c)
    <3>1. \/ Become(c, ended) /\ call[c].pc \notin {"await", "open"}
          \/ Become(c, InPhase(ended, "mark")) /\ call[c].pc = "await"
          \/ Become(c, Finish(ended, "threw", {}))
      BY <1>1, <2>2 DEF Throw
    <3> HIDE DEF ended
    <3>2. QED  BY <3>1
  <2>3. QED  BY <2>1, <2>2
<1>11. QED  BY <1>5, <1>6, <1>7, <1>8, <1>9, <1>10

\* How a call passes a step that leaves the rows alone.
Passes(c) ==
    /\ Started(c) => Started(c)'
    /\ Started(c) /\ RanToEnd(call[c]) => RanToEnd(call[c])' \/ ~alive'[ExecOf(c)]
    /\ CallFits(c)'
    /\ Started(c)' /\ call'[c].slot \in Handlers =>
          /\ Started(c) /\ call'[c].slot = call[c].slot
          /\ handler'[call[c].slot] = handler[call[c].slot]
    /\ Started(c)' /\ Claims(call[c])' => ClaimFits(ExecOf(c), FpOf(c))

\* Requests that end, and calls that send nothing.
LEMMA PassingKeepsLate ==
    ASSUME LateInv, SDKTypeOK', UNCHANGED row,
           \A h \in Handlers : handler'[h] \in {handler[h], Idle},
           \A e \in Execs : ~alive[e] => ~alive'[e],
           \A c \in Calls : Passes(c)
    PROVE  LateInv'
<1>1. ASSUME NEW e \in Execs, NEW f \in Fps, RanOut(e, f)
      PROVE  RanOut(e, f)'
  BY <1>1 DEF RanOut, Passes
<1>2. ASSUME NEW e \in Execs, NEW f \in Fps
      PROVE  /\ RowFits(e, f)'
             /\ ClaimFits(e, f) => ClaimFits(e, f)'
  BY <1>1 DEF LateInv, RowFits, ClaimFits
<1>3. ASSUME NEW h \in Handlers
      PROVE  HandlerFits(h)'
  <2>1. CASE handler'[h] = Idle
    BY <2>1 DEF HandlerFits, At, Idle
  <2>2. CASE handler'[h] = handler[h] /\ ~At(h, "idle")
    <3>1. handler[h].req.exec \in Execs /\ handler[h].req.fp \in Fps
      BY <2>2, BusyHandler, BusyFields DEF LateInv, SDKTypeOK
    <3>2. HandlerFits(h)
      BY DEF LateInv
    <3>3. QED  BY <1>1, <1>2, <2>2, <3>1, <3>2 DEF HandlerFits, EffectRequest, At
  <2>3. CASE handler'[h] = handler[h] /\ At(h, "idle")
    BY <2>3 DEF HandlerFits, At
  <2>4. QED  BY <2>1, <2>2, <2>3
<1>4. ASSUME NEW c \in Calls
      PROVE  CallFits(c)' /\ SlotFits(c)' /\ ClaimHolds(c)'
  <2>1. Passes(c) /\ SlotFits(c) /\ ExecOf(c) \in Execs /\ FpOf(c) \in Fps
    BY ScopeOfCall DEF LateInv
  <2>2. ClaimHolds(c)'
    BY <1>2, <2>1 DEF Passes, ClaimHolds
  <2>3. SlotFits(c)'
    <3> SUFFICES ASSUME Started(c)', call'[c].slot \in Handlers
                 PROVE  /\ From(call[c].slot, c)'
                        /\ \A d \in Calls \ {c} : Started(d)' => call'[d].slot # call'[c].slot
      BY DEF SlotFits
    <3>1. /\ Started(c) /\ call'[c].slot = call[c].slot
          /\ handler'[call[c].slot] = handler[call[c].slot]
      BY <2>1 DEF Passes
    <3>2. From(call[c].slot, c) /\ \A d \in Calls \ {c} : Started(d) => call[d].slot # call[c].slot
      BY <2>1, <3>1 DEF SlotFits
    <3>3. From(call[c].slot, c)'
      BY <3>1, <3>2 DEF From, At
    <3>4. ASSUME NEW d \in Calls \ {c}, Started(d)', call'[d].slot = call'[c].slot
          PROVE  FALSE
      BY <3>1, <3>2, <3>4 DEF Passes
    <3>5. QED  BY <3>3, <3>4
  <2>4. QED  BY <2>1, <2>2, <2>3 DEF Passes
<1>5. QED  BY <1>2, <1>3, <1>4 DEF LateInv

\* A call that has something left to do lives.
LEMMA BusyCallLives ==
    ASSUME LateInv, NEW c \in Calls, Started(c),
           call[c].pc \notin {"settled", "dead"} \/ call[c].lambda # "none"
    PROVE  alive[ExecOf(c)]
  BY DEF LateInv, CallFits

\* Only the request a call waits for may end.
Drops(c, s) ==
    \/ UNCHANGED handler
    \/ /\ s.slot = NoSlot /\ call[c].slot \in Handlers
       /\ handler'[call[c].slot] = Idle
       /\ \A h \in Handlers \ {call[c].slot} : handler'[h] = handler[h]

\* One call moves.
LEMMA OneMoves ==
    ASSUME LateInv, SDKTypeOK', UNCHANGED <<row, alive>>, NEW c \in Calls, Started(c),
           alive[ExecOf(c)], NEW s, Become(c, s), Drops(c, s),
           s.pc # "idle", s.slot \in {NoSlot, Broken, call[c].slot}, Shape(s),
           RanToEnd(call[c]) => RanToEnd(s),
           Claims(s) => ClaimFits(ExecOf(c), FpOf(c))
    PROVE  LateInv'
<1>1. call'[c] = s /\ \A d \in Calls \ {c} : call'[d] = call[d]
  BY Becomes DEF LateInv
<1>2. NoSlot \notin Handlers /\ Broken \notin Handlers
  BY SDKAssumption
<1>3. Passes(c)
  <2>1. Started(c)' /\ CallFits(c)'
    BY <1>1 DEF Started, CallFits
  <2>2. s.slot \in Handlers => UNCHANGED handler
    BY <1>2 DEF Drops
  <2>3. QED  BY <1>1, <1>2, <2>1, <2>2 DEF Passes
<1>4. ASSUME NEW d \in Calls, d # c
      PROVE  Passes(d)
  <2>1. call'[d] = call[d] /\ (Started(d)' <=> Started(d))
    BY <1>1, <1>4 DEF Started
  <2>2. CallFits(d) /\ ClaimHolds(d) /\ SlotFits(d)
    BY DEF LateInv
  <2>3. Started(d) /\ call[d].slot \in Handlers => handler'[call[d].slot] = handler[call[d].slot]
    BY <1>4, <2>2 DEF SlotFits, Drops
  <2>4. CallFits(d)'
    BY <2>1, <2>2 DEF CallFits
  <2>5. QED  BY <2>1, <2>2, <2>3, <2>4 DEF Passes, ClaimHolds
<1>5. \A h \in Handlers : handler'[h] \in {handler[h], Idle}
  BY DEF Drops
<1>6. \A d \in Calls : Passes(d)
  BY <1>3, <1>4
<1>7. QED  BY <1>5, <1>6, PassingKeepsLate

LEMMA TurnsKeepLate ==
    ASSUME LateInv, SDKTypeOK', UNCHANGED <<row, alive>>, NEW c \in Calls, Started(c),
           call[c].pc \notin {"settled", "dead"} \/ call[c].lambda # "none",
           NEW s, Become(c, s), Drops(c, s), Turn(call[c], s)
    PROVE  LateInv'
<1>1. alive[ExecOf(c)]
  BY BusyCallLives
<1>2. Claims(s) => ClaimFits(ExecOf(c), FpOf(c))
  BY DEF LateInv, ClaimHolds, Turn
<1>3. QED  BY <1>1, <1>2, OneMoves DEF Turn

\* A call goes on with its request, or without the ledger.
LEMMA AttemptKeepsLate ==
    ASSUME LateInv, SDKTypeOK', NEW c \in Calls,
           Refused(c) \/ Abort(c) \/ Responses(c) \/ Unsent(c)
    PROVE  LateInv'
<1> DEFINE h == call[c].slot
<1>1. Started(c) /\ UNCHANGED <<row, alive>>
  BY DEF Refused, Abort, Responses, Unsent, NoContext, Sending, BeginExecute, BeginSkip,
     BeginRefused, BeginError, CommitDone, MarkDone, Answered, Respond, Vanish
<1>2. call[c] \in CallState /\ Shape(call[c]) /\ SlotFits(c)
  BY <1>1, StartedCall DEF LateInv, CallFits
<1>3. \/ UNCHANGED handler
      \/ /\ h \in Handlers /\ handler'[h] = Idle
         /\ \A k \in Handlers \ {h} : handler'[k] = handler[k]
  <2>1. h \in Handlers /\ (Respond(h) \/ Vanish({h})) =>
          handler'[h] = Idle /\ \A k \in Handlers \ {h} : handler'[k] = handler[k]
    BY DEF Respond, Vanish, LateInv, SDKTypeOK, LedgerTypeOK
  <2>2. QED
    BY <2>1 DEF Refused, Abort, Responses, Unsent, NoContext, BeginExecute, BeginSkip,
       BeginRefused, BeginError, CommitDone, MarkDone, Answered
<1>4. call[c].pc \notin {"settled", "dead"}
  BY DEF Refused, Abort, Responses, Unsent, NoContext, Sending, BeginExecute, BeginSkip,
     BeginRefused, BeginError, CommitDone, MarkDone, Answered
<1>5. CASE ~BeginExecute(c)
  <2>1. PICK s : Become(c, s) /\ Works(call[c], s)
    BY <1>2, <1>5, AttemptFailedWorks, AnswerWorks, GiveUpWorks
    DEF Refused, Abort, Responses, Unsent, NoContext
  <2>2. Turn(call[c], s) /\ Drops(c, s)
    BY <1>3, <2>1 DEF Works, Drops
  <2>3. QED  BY <1>1, <1>4, <2>1, <2>2, TurnsKeepLate
<1>6. CASE BeginExecute(c)
  <2> DEFINE s == Running(call[c], "await")
  <2>1. s.pc = "await" /\ s.slot = NoSlot /\ s.lambda = "running" /\ s.result = call[c].result
    BY <1>2, PhaseFields
  <2>2. Become(c, s) /\ h \in Handlers /\ At(h, "done") /\ handler[h].answer = "EXECUTE"
        /\ call[c].pc = "begin"
    BY <1>6 DEF BeginExecute, Answered
  <2> HIDE DEF s
  <2>3. ClaimFits(ExecOf(c), FpOf(c))
    BY <1>1, <1>2, <2>2 DEF LateInv, SlotFits, From, HandlerFits
  <2>4. Shape(s) /\ ~RanToEnd(call[c]) /\ Drops(c, s)
    BY <1>2, <1>3, <2>1, <2>2 DEF Shape, Occupies, RanToEnd, Drops
  <2>5. alive[ExecOf(c)]
    BY <1>1, <1>4, BusyCallLives
  <2>6. QED  BY <1>1, <2>1, <2>2, <2>3, <2>4, <2>5, OneMoves
<1>7. QED  BY <1>5, <1>6

\* The operation, and its timer.
LEMMA OperationKeepsLate ==
    ASSUME LateInv, SDKTypeOK', NEW c \in Calls,
           Act(c) \/ Return(c) \/ ReceiptThrows(c) \/ Throw(c) \/ OperationTimeout(c)
           \/ EndsLate(c)
    PROVE  LateInv'
<1>1. Started(c) /\ UNCHANGED <<row, alive, handler>>
  BY OwnSteps DEF Act, Return, ReceiptThrows, Throw, OperationTimeout, EndsLate, RaisesTimeout,
     Runs
<1>2. call[c] \in CallState /\ Shape(call[c])
  BY <1>1, StartedCall DEF LateInv, CallFits
<1>3. call[c].pc \notin {"settled", "dead"} \/ call[c].lambda # "none"
  BY <1>2, LateEnd DEF Act, Return, ReceiptThrows, Throw, OperationTimeout
<1>4. PICK s : Become(c, s) /\ Turn(call[c], s)
  BY <1>1, <1>2, ActTurns, EndTurns, TimerWorks DEF Works
<1>5. Drops(c, s)
  BY <1>1 DEF Drops
<1>6. QED  BY <1>1, <1>3, <1>4, <1>5, TurnsKeepLate

\* A call starts.
LEMMA StartKeepsLate ==
    ASSUME LateInv, SDKTypeOK', NEW c \in Calls, NEW opts, Start(c, opts) \/ StartBare(c, opts)
    PROVE  LateInv'
<1>1. ~Started(c) /\ alive[ExecOf(c)] /\ UNCHANGED <<row, handler, alive>>
  BY DEF Start, StartBare, Invoke
<1>2. /\ call'[c].pc # "idle" /\ call'[c].slot = NoSlot /\ Shape(call'[c]) /\ ~Claims(call'[c])
      /\ \A d \in Calls \ {c} : call'[d] = call[d]
  <2> DEFINE r == Fresh(opts, KnownBy(c))
  <2>1. PICK s : Become(c, s) /\ \/ s = r
                                 \/ \E v : s = Finish(r, "cached", v)
                                 \/ s = Running(r, "open")
    BY DEF Start, StartBare, Invoke
  <2>2. /\ s.slot = NoSlot /\ s.pc \in {"begin", "settled", "open"}
        /\ s.pc = "begin" => s.lambda = "none" /\ s.result = "none"
        /\ s.result # "timedOut"
    <3>1. r.pc = "begin" /\ r.slot = NoSlot /\ r.lambda = "none" /\ r.result = "none"
      BY DEF Fresh
    <3>2. /\ Running(r, "open").pc = "open" /\ Running(r, "open").slot = NoSlot
          /\ Running(r, "open").result = "none"
      BY DEF Fresh, Running, InPhase
    <3>3. \A v : /\ Finish(r, "cached", v).pc = "settled" /\ Finish(r, "cached", v).slot = NoSlot
                 /\ Finish(r, "cached", v).result = "cached"
      BY DEF Fresh, Finish, InPhase
    <3> HIDE DEF r
    <3>4. QED  BY <2>1, <3>1, <3>2, <3>3
  <2>3. call'[c] = s /\ \A d \in Calls \ {c} : call'[d] = call[d]
    BY <2>1, Becomes DEF LateInv
  <2>4. QED  BY <2>2, <2>3 DEF Shape, Claims
<1>3. NoSlot \notin Handlers
  BY SDKAssumption
<1>4. Passes(c)
  BY <1>1, <1>2, <1>3 DEF Passes, CallFits, Started
<1>5. ASSUME NEW d \in Calls, d # c
      PROVE  Passes(d)
  <2>1. CallFits(d) /\ ClaimHolds(d)
    BY DEF LateInv
  <2>2. call'[d] = call[d]
    BY <1>2, <1>5
  <2>3. QED  BY <1>1, <2>1, <2>2 DEF Passes, CallFits, ClaimHolds, Started
<1>6. \A d \in Calls : Passes(d)
  BY <1>4, <1>5
<1>7. QED  BY <1>1, <1>6, PassingKeepsLate

\* Processes die, and responses find nobody.
LEMMA CrashKeepsLate ==
    ASSUME LateInv, SDKTypeOK', NEW e \in Execs, Crash(e)
    PROVE  LateInv'
<1>1. /\ UNCHANGED <<row, handler>> /\ alive[e] /\ ~alive'[e]
      /\ \A x \in Execs \ {e} : alive'[x] = alive[x]
  BY DEF Crash, LateInv, SDKTypeOK
<1>2. ASSUME NEW c \in Calls
      PROVE  Passes(c)
  <2>1. CallFits(c) /\ ClaimHolds(c) /\ ExecOf(c) \in Execs
    BY ScopeOfCall DEF LateInv
  <2>2. CASE ExecOf(c) # e \/ ~Started(c)
    <3>1. call'[c] = call[c]
      BY <2>2 DEF Crash
    <3>2. QED  BY <1>1, <2>1, <2>2, <3>1 DEF Passes, CallFits, ClaimHolds, Started
  <2>3. CASE ExecOf(c) = e /\ Started(c)
    <3>1. call[c] \in CallState
      BY <2>3, StartedCall DEF LateInv
    <3>2. CASE call[c].pc # "settled"
      <4> DEFINE r == InPhase(call[c], "dead")
                 s == [r EXCEPT !.lambda = "none"]
      <4>1. r \in CallState /\ r.pc = "dead" /\ r.slot = NoSlot /\ r.result = call[c].result
        <5>1. "dead" \in CallPc
          BY DEF CallPc
        <5>2. r \in CallState
          BY <3>1, <5>1, InPhaseType
        <5>3. r.pc = "dead" /\ r.slot = NoSlot /\ r.result = call[c].result
          BY <3>1, PhaseFields
        <5>4. QED  BY <5>2, <5>3
      <4>2. s.pc = "dead" /\ s.slot = NoSlot /\ s.lambda = "none" /\ s.result = call[c].result
        <5> HIDE DEF r
        <5>1. QED  BY <4>1 DEF CallState
      <4>3. call'[c] = s
        BY <2>3, <3>2 DEF Crash
      <4> HIDE DEF r, s
      <4>4. QED
        BY <1>1, <2>1, <2>3, <4>2, <4>3, SDKAssumption
        DEF Passes, CallFits, ClaimHolds, Started, Shape, Claims
    <3>3. CASE call[c].pc = "settled"
      <4> DEFINE s == [call[c] EXCEPT !.lambda = "none"]
      <4>1. /\ s.pc = "settled" /\ s.slot = call[c].slot /\ s.lambda = "none"
            /\ s.result = call[c].result
        BY <3>1, <3>3 DEF CallState
      <4>2. call'[c] = s
        BY <2>3, <3>3 DEF Crash
      <4> HIDE DEF s
      <4>3. QED
        BY <1>1, <2>1, <2>3, <4>1, <4>2 DEF Passes, CallFits, ClaimHolds, Started, Shape, Claims
    <3>4. QED  BY <3>2, <3>3
  <2>4. QED  BY <2>2, <2>3
<1>3. QED  BY <1>1, <1>2, PassingKeepsLate

LEMMA ApiCrashKeepsLate ==
    ASSUME LateInv, SDKTypeOK', ApiCrash
    PROVE  LateInv'
<1>1. UNCHANGED <<row, alive>> /\ \A h \in Handlers : handler'[h] = Idle
  BY DEF ApiCrash, Vanish
<1>2. ASSUME NEW c \in Calls
      PROVE  Passes(c)
  <2>1. CallFits(c) /\ ClaimHolds(c)
    BY DEF LateInv
  <2>2. CASE Started(c) /\ call[c].slot \in Handlers
    <3> DEFINE s == [call[c] EXCEPT !.slot = Broken]
    <3>1. call[c] \in CallState
      BY <2>2, StartedCall DEF LateInv
    <3>2. /\ s.pc = call[c].pc /\ s.slot = Broken /\ s.lambda = call[c].lambda
          /\ s.result = call[c].result
      BY <3>1 DEF CallState
    <3>3. call'[c] = s
      BY <2>2 DEF ApiCrash
    <3> HIDE DEF s
    <3>4. QED
      BY <1>1, <2>1, <2>2, <3>2, <3>3, SDKAssumption
      DEF Passes, CallFits, ClaimHolds, Started, Shape, Claims, RanToEnd, Occupies
  <2>3. CASE ~(Started(c) /\ call[c].slot \in Handlers)
    <3>1. call'[c] = call[c]
      BY <2>3 DEF ApiCrash
    <3>2. QED  BY <1>1, <2>1, <2>3, <3>1 DEF Passes, CallFits, ClaimHolds, Started
  <2>4. QED  BY <2>2, <2>3
<1>3. QED  BY <1>1, <1>2, PassingKeepsLate

LEMMA RespondKeepsLate ==
    ASSUME LateInv, SDKTypeOK', NEW h \in Handlers, RespondToNobody(h)
    PROVE  LateInv'
<1>1. /\ h \notin Awaited /\ handler'[h] = Idle /\ UNCHANGED <<row, call, alive>>
      /\ \A k \in Handlers \ {h} : handler'[k] = handler[k]
  BY DEF RespondToNobody, Respond, clientVars, LateInv, SDKTypeOK, LedgerTypeOK
<1>2. ASSUME NEW c \in Calls
      PROVE  Passes(c)
  <2>1. CallFits(c) /\ ClaimHolds(c)
    BY DEF LateInv
  <2>2. Started(c) /\ call[c].slot \in Handlers => call[c].slot # h
    BY <1>1, SDKAssumption DEF Awaited
  <2>3. QED  BY <1>1, <2>1, <2>2 DEF Passes, CallFits, ClaimHolds, Started
<1>3. QED  BY <1>1, <1>2, PassingKeepsLate

\* A request is sent.
LEMMA SendKeepsLate ==
    ASSUME LateInv, SDKTypeOK', NEW c \in Calls, NEW h \in Handlers, Send(c, h)
    PROVE  LateInv'
<1>1. /\ Sending(c) /\ Started(c) /\ call[c].slot = NoSlot /\ At(h, "idle")
      /\ UNCHANGED <<row, alive>>
      /\ handler'[h] = [pc |-> "received", req |-> RequestOf(c), other |-> ExecOf(c),
                        seen |-> {}, answer |-> "none"]
      /\ \A k \in Handlers \ {h} : handler'[k] = handler[k]
      /\ call'[c] = [call[c] EXCEPT !.slot = h]
      /\ \A d \in Calls \ {c} : call'[d] = call[d]
  BY DEF Send, Receive, RequestOf, Become, Sending, LateInv, SDKTypeOK, LedgerTypeOK
<1>2. /\ handler'[h].pc = "received" /\ handler'[h].req.op = OpOf(call[c])
      /\ handler'[h].req.exec = ExecOf(c) /\ handler'[h].req.fp = FpOf(c)
  BY <1>1 DEF RequestOf
<1>3. /\ call'[c].slot = h /\ call'[c].pc = call[c].pc /\ call'[c].lambda = call[c].lambda
      /\ call'[c].result = call[c].result
  <2>1. call[c] \in CallState
    BY <1>1, StartedCall DEF LateInv
  <2>2. QED  BY <1>1, <2>1 DEF CallState
<1>4. ASSUME NEW d \in Calls
      PROVE  /\ Started(d)' <=> Started(d)
             /\ RanToEnd(call[d])' <=> RanToEnd(call[d])
             /\ Claims(call[d])' <=> Claims(call[d])
             /\ Shape(call[d])' <=> Shape(call[d])
             /\ call'[d].pc = call[d].pc /\ call'[d].lambda = call[d].lambda
  <2>1. CASE d = c
    BY <1>3, <2>1 DEF Started, RanToEnd, Claims, Shape, Occupies
  <2>2. CASE d # c
    BY <1>1, <2>2 DEF Started
  <2>3. QED  BY <2>1, <2>2
<1>5. ASSUME NEW e \in Execs, NEW f \in Fps
      PROVE  /\ RanOut(e, f)' <=> RanOut(e, f)
             /\ ClaimFits(e, f)' <=> ClaimFits(e, f)
             /\ RowFits(e, f)'
  <2>1. RanOut(e, f)' <=> RanOut(e, f)
    BY <1>1, <1>4 DEF RanOut
  <2>2. QED  BY <1>1, <2>1 DEF LateInv, RowFits, ClaimFits
<1>6. ExecOf(c) \in Execs /\ FpOf(c) \in Fps
  BY ScopeOfCall
<1>7. ASSUME NEW k \in Handlers
      PROVE  HandlerFits(k)'
  <2>1. CASE k = h
    <3>1. OpOf(call[c]) \in {"commit", "failed"} => RanOut(ExecOf(c), FpOf(c))
      <4>1. OpOf(call[c]) \in {"commit", "failed"} => RanToEnd(call[c])
        BY <1>1 DEF LateInv, CallFits, Shape, OpOf, MarkOp, Sending, RanToEnd
      <4>2. QED  BY <1>1, <4>1 DEF RanOut
    <3>2. OpOf(call[c]) \in {"begin", "commit", "unknown", "failed"}
      BY <1>1 DEF OpOf, MarkOp, Sending
    <3>3. QED  BY <1>2, <1>5, <1>6, <2>1, <3>1, <3>2 DEF HandlerFits, EffectRequest, At
  <2>2. CASE k # h /\ ~At(k, "idle")
    <3>1. handler[k].req.exec \in Execs /\ handler[k].req.fp \in Fps
      BY <2>2, BusyHandler, BusyFields DEF LateInv, SDKTypeOK
    <3>2. HandlerFits(k) /\ handler'[k] = handler[k]
      BY <1>1, <2>2 DEF LateInv
    <3>3. QED  BY <1>5, <3>1, <3>2 DEF HandlerFits, EffectRequest, At
  <2>3. CASE k # h /\ At(k, "idle")
    BY <1>1, <2>3 DEF HandlerFits, At
  <2>4. QED  BY <2>1, <2>2, <2>3
<1>8. ASSUME NEW d \in Calls
      PROVE  CallFits(d)' /\ ClaimHolds(d)'
  BY <1>1, <1>4, <1>5, ScopeOfCall DEF LateInv, CallFits, ClaimHolds
<1>9. ASSUME NEW d \in Calls, Started(d), call[d].slot \in Handlers
      PROVE  From(call[d].slot, d) /\ call[d].slot # h /\ d # c
  <2>1. From(call[d].slot, d)
    BY <1>9 DEF LateInv, SlotFits
  <2>2. QED  BY <1>1, <1>9, <2>1, SDKAssumption DEF From
<1>10. ASSUME NEW d \in Calls
       PROVE  SlotFits(d)'
  <2>1. CASE d = c
    <3>1. From(h, c)'
      BY <1>2 DEF From, At
    <3>2. QED  BY <1>1, <1>3, <1>4, <1>9, <2>1, <3>1 DEF SlotFits
  <2>2. CASE d # c
    <3> SUFFICES ASSUME Started(d), call[d].slot \in Handlers
                 PROVE  /\ From(call[d].slot, d)'
                        /\ \A x \in Calls \ {d} : Started(x) => call'[x].slot # call[d].slot
      BY <1>1, <1>4, <2>2 DEF SlotFits
    <3>1. From(call[d].slot, d)'
      BY <1>1, <1>9 DEF From, At
    <3>2. \A x \in Calls \ {d} : Started(x) => call[x].slot # call[d].slot
      BY DEF LateInv, SlotFits
    <3>3. QED  BY <1>1, <1>3, <1>9, <3>1, <3>2
  <2>3. QED  BY <2>1, <2>2
<1>11. QED  BY <1>5, <1>7, <1>8, <1>10 DEF LateInv

\* A request is served.
LEMMA ServeKeepsLate ==
    ASSUME LateInv, SDKTypeOK', NEW h \in Handlers, UNCHANGED clientVars,
           Serve(h) \/ DatabaseFails(h)
    PROVE  LateInv'
<1> DEFINE op == handler[h].req.op
<1>0. PICK x, g : x = handler[h].req.exec /\ g = handler[h].req.fp
  OBVIOUS
<1>1. UNCHANGED <<call, alive>> /\ LedgerTypeOK
  BY DEF clientVars, LateInv, SDKTypeOK
<1>2. ~At(h, "idle")
  BY <1>1, ServesOne DEF DatabaseFails, At, Busy, BusyPc
<1>3. HandlerFits(h) /\ EffectRequest(h) /\ x \in Execs /\ g \in Fps
  BY <1>0, <1>1, <1>2, BusyHandler, BusyFields DEF LateInv, HandlerFits
<1>4. Moves(h)
  BY <1>1, <1>3, RequestMoves
<1>5. \A e \in Execs, f \in Fps : RanOut(e, f)' <=> RanOut(e, f)
  BY <1>1 DEF RanOut, Started
<1>6. op \in {"commit", "failed"} => RanOut(x, g)
  BY <1>0, <1>2, <1>3 DEF HandlerFits
<1>7. /\ op \in {"begin", "commit", "unknown", "failed"}
      /\ Target["commit"] = "COMMITTED" /\ Target["unknown"] = "UNKNOWN"
      /\ Target["failed"] = "FAILED"
  BY <1>3 DEF EffectRequest, Target
<1>8. ASSUME NEW e \in Execs, NEW f \in Fps
      PROVE  /\ RowFits(e, f)'
             /\ ClaimFits(e, f) => ClaimFits(e, f)'
  <2>1. StatusWrite(h, e, f) /\ RowFits(e, f)
    BY <1>4 DEF Moves, LateInv
  <2>2. RanOut(e, f)' <=> RanOut(e, f)
    BY <1>5
  <2>3. CASE row'[e][f].status = row[e][f].status
    BY <2>1, <2>2, <2>3 DEF RowFits, ClaimFits
  <2>4. CASE /\ op = "begin" /\ row[e][f].status = "NONE"
             /\ row'[e][f].status \in {"EXECUTING", "SKIPPED", "FAILED"}
    BY <2>4 DEF RowFits, ClaimFits
  <2>5. CASE e = x /\ f = g /\ op # "begin" /\ row'[e][f].status = Target[op]
    BY <1>6, <1>7, <2>2, <2>5 DEF RowFits, ClaimFits
  <2>6. QED  BY <1>0, <2>1, <2>3, <2>4, <2>5 DEF StatusWrite
<1>9. ASSUME NEW k \in Handlers
      PROVE  HandlerFits(k)'
  <2>1. CASE k = h
    <3>1. handler'[h].req = handler[h].req /\ ~At(h, "idle")' /\ ~At(h, "mergeOwn")'
          /\ (op # "begin" => handler'[h].pc = "done")
      BY <1>4 DEF Moves, At
    <3>2. EffectRequest(h)'
      BY <1>7, <3>1 DEF EffectRequest
    <3>3. At(h, "done")' /\ handler'[h].answer = "EXECUTE" => ClaimFits(x, g)'
      <4>1. CASE x \in Finished(g)
        <5>1. ClaimFits(x, g)
          BY <4>1 DEF Finished, WithStatus, ClaimFits
        <5>2. QED  BY <1>3, <1>8, <5>1
      <4>2. CASE row'[x][g].status = "EXECUTING"
        BY <4>2 DEF ClaimFits
      <4>3. QED  BY <1>0, <1>4, <4>1, <4>2 DEF Moves, At
    <3>4. op \in {"commit", "failed"} => RanOut(x, g)'
      BY <1>3, <1>5, <1>6
    <3>5. QED  BY <1>0, <2>1, <3>1, <3>2, <3>3, <3>4 DEF HandlerFits
  <2>2. CASE k # h /\ ~At(k, "idle")
    <3>1. handler[k].req.exec \in Execs /\ handler[k].req.fp \in Fps
      BY <1>1, <2>2, BusyHandler, BusyFields
    <3>2. HandlerFits(k) /\ handler'[k] = handler[k]
      BY <1>4, <2>2 DEF LateInv, Moves
    <3>3. QED  BY <1>5, <1>8, <3>1, <3>2 DEF HandlerFits, EffectRequest, At
  <2>3. CASE k # h /\ At(k, "idle")
    BY <1>4, <2>3 DEF HandlerFits, At, Moves
  <2>4. QED  BY <2>1, <2>2, <2>3
<1>10. ASSUME NEW c \in Calls
       PROVE  CallFits(c)' /\ ClaimHolds(c)' /\ SlotFits(c)'
  <2>1. CallFits(c) /\ ClaimHolds(c) /\ SlotFits(c) /\ ExecOf(c) \in Execs /\ FpOf(c) \in Fps
    BY ScopeOfCall DEF LateInv
  <2>2. \A k \in Handlers : From(k, c) => From(k, c)'
    BY <1>4 DEF Moves, From, At
  <2>3. QED  BY <1>1, <1>8, <2>1, <2>2 DEF CallFits, ClaimHolds, SlotFits, Started
<1>11. QED  BY <1>8, <1>9, <1>10 DEF LateInv

LEMMA LateInit == PyInit => LateInv
<1> SUFFICES ASSUME PyInit
             PROVE  LateInv
  OBVIOUS
<1>1. SDKTypeOK
  BY LedgerInitType DEF PyInit, Init, SDKTypeOK, Miss
<1>2. \A c \in Calls : ~Started(c)
  BY DEF PyInit, Init, Started, NotStarted
<1>3. \A e \in Execs, f \in Fps : row[e][f].status = "NONE"
  BY DEF PyInit, Init, LedgerInit, NoRow, NewRow
<1>4. \A h \in Handlers : At(h, "idle")
  BY DEF PyInit, Init, LedgerInit, Idle, At
<1>5. QED
  BY <1>1, <1>2, <1>3, <1>4 DEF LateInv, CallFits, SlotFits, ClaimHolds, HandlerFits, RowFits

LEMMA LateNext ==
    ASSUME EffectEndpoints \subseteq Endpoints, LateInv, [PyNext]_allVars
    PROVE  LateInv'
<1>1. SDKTypeOK'
  BY PythonTypes DEF LateInv
<1>2. CASE UNCHANGED vars
  BY <1>2 DEF vars, LateInv, SDKTypeOK, LedgerTypeOK, CallFits, SlotFits, ClaimHolds, HandlerFits,
     RowFits, Started, From, At, EffectRequest, ClaimFits, RanOut
<1>3. CASE \E c \in Calls, opts \in Options : Start(c, opts)
  BY <1>1, <1>3, StartKeepsLate
<1>4. ASSUME NEW c \in Calls, Attempt(c) \/ Unsent(c)
      PROVE  LateInv'
  BY <1>1, <1>4, AttemptKeepsLate, SendKeepsLate DEF Attempt
<1>5. ASSUME NEW c \in Calls,
             Act(c) \/ Return(c) \/ ReceiptThrows(c) \/ Throw(c) \/ OperationTimeout(c)
             \/ EndsLate(c)
      PROVE  LateInv'
  BY <1>1, <1>5, OperationKeepsLate
<1>6. ASSUME NEW h \in Handlers, ServeOne(h) \/ FailOne(h) \/ RespondToNobody(h)
      PROVE  LateInv'
  BY <1>1, <1>6, ServeKeepsLate, RespondKeepsLate DEF ServeOne, FailOne
<1>7. CASE ApiCrash \/ \E e \in Execs : Crash(e)
  BY <1>1, <1>7, ApiCrashKeepsLate, CrashKeepsLate
<1>8. ASSUME NEW c \in Calls, Bare(c)
      PROVE  LateInv'
  BY <1>1, <1>8, StartKeepsLate DEF Bare
<1>9. [Next]_vars => LateInv'
  BY <1>2, <1>3, <1>4, <1>5, <1>6, <1>7 DEF Next, Proceed
<1>10. UNCHANGED allVars => UNCHANGED vars
  BY DEF allVars, vars
<1>11. QED  BY <1>2, <1>4, <1>5, <1>8, <1>9, <1>10, PythonSteps

\* Who was told EXECUTE, and has not seen its operation end, is not the one the
\* row speaks of.
LEMMA LateImpliesOpen == LateInv => LateIsOpen
<1> SUFFICES ASSUME LateInv, NEW c \in Calls, Started(c), call[c].result = "timedOut",
                    call[c].lambda # "none",
                    row[ExecOf(c)][FpOf(c)].status \in {"COMMITTED", "FAILED"}
             PROVE  \E d \in Calls \ {c} : /\ Started(d) /\ call[d].lambda = "ended"
                                           /\ FpOf(d) = FpOf(c) /\ ExecOf(d) = ExecOf(c)
  BY DEF LateIsOpen
<1>1. alive[ExecOf(c)]
  BY DEF LateInv, CallFits
<1>2. RanOut(ExecOf(c), FpOf(c))
  BY ScopeOfCall DEF LateInv, RowFits, ClaimHolds, Claims, ClaimFits
<1>3. PICK d \in Calls : /\ Started(d) /\ ExecOf(d) = ExecOf(c) /\ FpOf(d) = FpOf(c)
                         /\ RanToEnd(call[d])
  BY <1>1, <1>2 DEF RanOut
<1>4. QED  BY <1>3 DEF RanToEnd

\* However many threads, workers and retries there are, an operation that its
\* caller was told had timed out is not recorded as COMMITTED or FAILED unless
\* another call of the execution ran it to its end (future.result(timeout) and
\* the unknown mark in effect() of the Python SDK).
THEOREM LateResultsAreNotRecorded ==
    ASSUME EffectEndpoints \subseteq Endpoints
    PROVE  PySpec => []LateIsOpen
  BY LateInit, LateNext, LateImpliesOpen, PTL DEF PySpec

-----------------------------------------------------------------------------
(***************************************************************************)
(* The executor.  Who is in the pool or in its queue runs an operation,    *)
(* and nobody is there twice; without that, the worker that is freed could *)
(* be given an operation it already has, and one would stay idle.          *)
(***************************************************************************)
Items(q) == {q[i] : i \in DOMAIN q}
Distinct(q) == \A i, j \in DOMAIN q : q[i] = q[j] => i = j

PoolFits(e) ==
    /\ pool[e] \subseteq Calls /\ IsFiniteSet(pool[e]) /\ Cardinality(pool[e]) <= Workers
    /\ queue[e] \in Seq(Calls) /\ Distinct(queue[e])
    /\ queue[e] # <<>> => Cardinality(pool[e]) = Workers
    /\ pool[e] \cap Items(queue[e]) = {}
    /\ \A c \in pool[e] \cup Items(queue[e]) : ExecOf(c) = e /\ Started(c) /\ Occupies(call[c])

PoolInv ==
    /\ pool \in [Execs -> SUBSET Calls]
    /\ queue \in [Execs -> Seq(Calls)]
    /\ context \in [Execs -> BOOLEAN]
    /\ \A e \in Execs : PoolFits(e)

\* The end of the queue, and its head.
LEMMA Queueing ==
    ASSUME NEW q \in Seq(Calls), Distinct(q), NEW c \in Calls, c \notin Items(q)
    PROVE  /\ Append(q, c) \in Seq(Calls) /\ Append(q, c) # <<>>
           /\ Distinct(Append(q, c))
           /\ Items(Append(q, c)) = Items(q) \cup {c}
<1> DEFINE n == Len(q) + 1
           s == Append(q, c)
<1>1. /\ s \in Seq(Calls) /\ Len(s) = n /\ s[n] = c /\ n \in Nat \ {0}
      /\ \A i \in 1..Len(q) : s[i] = q[i]
      /\ DOMAIN q = 1..Len(q) /\ DOMAIN s = 1..n
  OBVIOUS
<1>2. s # <<>>
  BY <1>1
<1> HIDE DEF s
<1>3. \A i \in DOMAIN s : i = n \/ i \in DOMAIN q
  BY <1>1
<1>4. \A i \in DOMAIN q : i \in DOMAIN s /\ i # n /\ s[i] = q[i] /\ q[i] # c
  BY <1>1 DEF Items
<1>5. Distinct(s)
  BY <1>1, <1>3, <1>4 DEF Distinct
<1>6. Items(s) = Items(q) \cup {c}
  BY <1>1, <1>3, <1>4 DEF Items
<1>7. QED  BY <1>1, <1>2, <1>5, <1>6 DEF s

LEMMA Dequeueing ==
    ASSUME NEW q \in Seq(Calls), Distinct(q), q # <<>>
    PROVE  /\ Tail(q) \in Seq(Calls) /\ Distinct(Tail(q))
           /\ Head(q) \in Items(q) /\ Head(q) \in Calls
           /\ Items(Tail(q)) = Items(q) \ {Head(q)}
<1> DEFINE s == Tail(q)
<1>1. /\ s \in Seq(Calls) /\ Len(q) \in Nat \ {0} /\ Len(s) = Len(q) - 1
      /\ Head(q) = q[1] /\ Head(q) \in Calls
      /\ \A i \in 1..Len(s) : s[i] = q[i + 1]
      /\ DOMAIN q = 1..Len(q) /\ DOMAIN s = 1..Len(s)
  OBVIOUS
<1> HIDE DEF s
<1>2. 1 \in DOMAIN q
  BY <1>1
<1>3. \A i \in DOMAIN s : i + 1 \in DOMAIN q /\ i + 1 # 1 /\ s[i] = q[i + 1] /\ i \in Int
  BY <1>1
<1>4. \A j \in DOMAIN q : j # 1 => j - 1 \in DOMAIN s /\ s[j - 1] = q[j]
  <2> TAKE j \in DOMAIN q
  <2> HAVE j # 1
  <2>1. j - 1 \in 1..Len(s) /\ (j - 1) + 1 = j
    BY <1>1
  <2>2. QED  BY <1>1, <2>1
<1>5. Distinct(s)
  <2> SUFFICES ASSUME NEW i \in DOMAIN s, NEW j \in DOMAIN s, s[i] = s[j]
               PROVE  i = j
    BY DEF Distinct
  <2>1. i + 1 = j + 1
    BY <1>3 DEF Distinct
  <2>2. QED  BY <1>3, <2>1
<1>6. Items(s) = Items(q) \ {q[1]}
  <2>1. ASSUME NEW x \in Items(s)
        PROVE  x \in Items(q) \ {q[1]}
    <3>1. PICK i \in DOMAIN s : x = s[i]
      BY <2>1 DEF Items
    <3>2. QED  BY <1>2, <1>3, <3>1 DEF Items, Distinct
  <2>2. ASSUME NEW x \in Items(q) \ {q[1]}
        PROVE  x \in Items(s)
    <3>1. PICK j \in DOMAIN q : x = q[j]
      BY <2>2 DEF Items
    <3>2. QED  BY <1>4, <2>2, <3>1 DEF Items
  <2>3. QED  BY <2>1, <2>2
<1>7. Head(q) \in Items(q)
  BY <1>1, <1>2 DEF Items
<1>8. QED  BY <1>1, <1>5, <1>6, <1>7 DEF s

\* Operations go on.
Working(c) == Started(c) /\ Occupies(call[c])
KeepsWorking(c) == Working(c) => Working(c)'

LEMMA PoolUndisturbed ==
    ASSUME PoolInv, NEW e \in Execs, pool'[e] = pool[e], queue'[e] = queue[e],
           \A c \in Calls : ExecOf(c) = e => KeepsWorking(c)
    PROVE  PoolFits(e)'
<1>1. PoolFits(e)
  BY DEF PoolInv
<1>2. \A c \in pool[e] \cup Items(queue[e]) : c \in Calls
  BY <1>1 DEF PoolFits, Items
<1>3. QED  BY <1>1, <1>2 DEF PoolFits, KeepsWorking, Working

\* submit() with a worker to spare, and without.
LEMMA SubmitFits ==
    ASSUME PoolInv, NEW c \in Calls, Submit(c), ~Working(c), Working(c)',
           \A d \in Calls : KeepsWorking(d)
    PROVE  PoolInv'
<1>1. PICK e \in Execs : e = ExecOf(c)
  BY ScopeOfCall
<1>2. PoolFits(e) /\ Workers \in Nat
  BY PythonAssumption DEF PoolInv
<1>3. c \notin pool[e] /\ c \notin Items(queue[e])
  BY <1>1, <1>2 DEF PoolFits, Working
<1>4. \A x \in Execs \ {e} : pool'[x] = pool[x] /\ queue'[x] = queue[x]
  BY <1>1 DEF Submit, PoolInv
<1>5. \A d \in pool[e] \cup Items(queue[e]) : d \in Calls /\ ExecOf(d) = e /\ Working(d)'
  BY <1>2 DEF PoolFits, Items, KeepsWorking, Working
<1>6. CASE Cardinality(pool[e]) < Workers
  <2>1. pool' = [pool EXCEPT ![e] = @ \cup {c}] /\ queue' = queue /\ context' = context
    BY <1>1, <1>6 DEF Submit
  <2>2. pool'[e] = pool[e] \cup {c} /\ queue'[e] = queue[e]
    BY <2>1 DEF PoolInv
  <2>3. IsFiniteSet(pool[e]) /\ Cardinality(pool[e]) \in Nat
    BY <1>2, FS_CardinalityType DEF PoolFits
  <2>4. /\ IsFiniteSet(pool[e] \cup {c})
        /\ Cardinality(pool[e] \cup {c}) = Cardinality(pool[e]) + 1
    BY <1>3, <2>3, FS_AddElement
  <2>5. queue[e] = <<>> /\ Cardinality(pool[e] \cup {c}) <= Workers
    BY <1>2, <1>6, <2>3, <2>4 DEF PoolFits
  <2>6. Items(queue[e]) = {}
    BY <2>5 DEF Items
  <2>7. PoolFits(e)'
    <3>1. \A d \in pool'[e] \cup Items(queue[e]) : ExecOf(d) = e /\ Working(d)'
      BY <1>1, <1>5, <2>2
    <3>2. QED  BY <1>2, <2>2, <2>4, <2>5, <2>6, <3>1 DEF PoolFits, Working
  <2>8. pool' \in [Execs -> SUBSET Calls]
    BY <2>1 DEF PoolInv
  <2>9. QED  BY <1>4, <2>1, <2>7, <2>8, PoolUndisturbed DEF PoolInv
<1>7. CASE ~(Cardinality(pool[e]) < Workers)
  <2>1. queue' = [queue EXCEPT ![e] = Append(@, c)] /\ pool' = pool /\ context' = context
    BY <1>1, <1>7 DEF Submit
  <2>2. queue'[e] = Append(queue[e], c) /\ pool'[e] = pool[e]
    BY <2>1 DEF PoolInv
  <2>3. Cardinality(pool[e]) = Workers
    <3>1. Cardinality(pool[e]) \in Nat
      BY <1>2, FS_CardinalityType DEF PoolFits
    <3>2. QED  BY <1>2, <1>7, <3>1 DEF PoolFits
  <2>4. /\ queue'[e] \in Seq(Calls) /\ Distinct(queue'[e])
        /\ Items(queue'[e]) = Items(queue[e]) \cup {c}
    BY <1>2, <1>3, <2>2, Queueing DEF PoolFits
  <2>5. PoolFits(e)'
    <3>1. \A d \in pool[e] \cup Items(queue'[e]) : ExecOf(d) = e /\ Working(d)'
      BY <1>1, <1>5, <2>4
    <3>2. QED  BY <1>2, <1>3, <2>2, <2>3, <2>4, <3>1 DEF PoolFits, Working
  <2>6. queue' \in [Execs -> Seq(Calls)]
    BY <2>1, <2>2, <2>4 DEF PoolInv
  <2>7. QED  BY <1>4, <2>1, <2>5, <2>6, PoolUndisturbed DEF PoolInv
<1>8. QED  BY <1>6, <1>7

\* The operation of c ends, in the pool or in a thread of its own.
LEMMA LeaveFits ==
    ASSUME PoolInv, NEW c \in Calls, Leave(c), ~Queued(c),
           \A d \in Calls \ {c} : KeepsWorking(d)
    PROVE  PoolInv'
<1>1. PICK e \in Execs : e = ExecOf(c)
  BY ScopeOfCall
<1>2. PoolFits(e) /\ Workers \in Nat \ {0}
  BY PythonAssumption DEF PoolInv
<1>3. c \notin Items(queue[e])
  BY <1>1 DEF Queued, Items
<1>4. /\ \A x \in Execs \ {e} : pool'[x] = pool[x] /\ queue'[x] = queue[x]
      /\ context' = context
  BY <1>1 DEF Leave, PoolInv
<1>5. \A d \in (pool[e] \cup Items(queue[e])) \ {c} : d \in Calls /\ ExecOf(d) = e /\ Working(d)'
  BY <1>2 DEF PoolFits, Items, KeepsWorking, Working
<1>6. \A x \in Execs \ {e} : PoolFits(x)'
  BY <1>1, <1>4, PoolUndisturbed
<1>7. CASE c \notin pool[e]
  <2>1. pool' = pool /\ queue' = queue
    BY <1>1, <1>7 DEF Leave
  <2>2. PoolFits(e)'
    <3>1. \A d \in pool[e] \cup Items(queue[e]) : d # c
      BY <1>3, <1>7
    <3>2. QED  BY <1>2, <1>5, <2>1, <3>1 DEF PoolFits, Working
  <2>3. QED  BY <1>4, <1>6, <2>1, <2>2 DEF PoolInv
<1>8. CASE c \in pool[e] /\ queue[e] = <<>>
  <2>1. pool' = [pool EXCEPT ![e] = (@ \ {c}) \cup {}] /\ queue' = queue
    BY <1>1, <1>8 DEF Leave
  <2>2. pool'[e] = pool[e] \ {c} /\ queue'[e] = <<>> /\ pool' \in [Execs -> SUBSET Calls]
    BY <1>8, <2>1 DEF PoolInv
  <2>3. /\ IsFiniteSet(pool[e]) /\ Cardinality(pool[e]) \in Nat
        /\ IsFiniteSet(pool[e] \ {c})
        /\ Cardinality(pool[e] \ {c}) = Cardinality(pool[e]) - 1
    BY <1>2, <1>8, FS_CardinalityType, FS_RemoveElement DEF PoolFits
  <2>4. Items(<<>>) = {}
    BY DEF Items
  <2>5. PoolFits(e)'
    <3>1. \A d \in pool'[e] : ExecOf(d) = e /\ Working(d)'
      BY <1>5, <2>2
    <3>2. Cardinality(pool'[e]) <= Workers
      BY <1>2, <2>2, <2>3 DEF PoolFits
    <3>3. QED  BY <1>2, <1>8, <2>2, <2>3, <2>4, <3>1, <3>2 DEF PoolFits, Working
  <2>6. QED  BY <1>4, <1>6, <2>1, <2>2, <2>5 DEF PoolInv
<1>9. CASE c \in pool[e] /\ queue[e] # <<>>
  <2> DEFINE n == Head(queue[e])
  <2>1. /\ pool' = [pool EXCEPT ![e] = (@ \ {c}) \cup {n}]
        /\ queue' = [queue EXCEPT ![e] = Tail(@)]
    BY <1>1, <1>9 DEF Leave
  <2>2. /\ Tail(queue[e]) \in Seq(Calls) /\ Distinct(Tail(queue[e]))
        /\ n \in Items(queue[e]) /\ n \in Calls
        /\ Items(Tail(queue[e])) = Items(queue[e]) \ {n}
    BY <1>2, <1>9, Dequeueing DEF PoolFits
  <2>3. /\ pool'[e] = (pool[e] \ {c}) \cup {n} /\ queue'[e] = Tail(queue[e])
        /\ pool' \in [Execs -> SUBSET Calls] /\ queue' \in [Execs -> Seq(Calls)]
    BY <2>1, <2>2 DEF PoolInv
  <2> HIDE DEF n
  <2>4. n \notin pool[e] /\ n # c
    BY <1>2, <1>3, <2>2 DEF PoolFits
  <2>5. /\ IsFiniteSet(pool[e]) /\ Cardinality(pool[e]) \in Nat
        /\ IsFiniteSet(pool[e] \ {c})
        /\ Cardinality(pool[e] \ {c}) = Cardinality(pool[e]) - 1
    BY <1>2, <1>9, FS_CardinalityType, FS_RemoveElement DEF PoolFits
  <2>6. /\ IsFiniteSet((pool[e] \ {c}) \cup {n})
        /\ Cardinality((pool[e] \ {c}) \cup {n}) = Cardinality(pool[e] \ {c}) + 1
    BY <2>4, <2>5, FS_AddElement
  <2>7. Cardinality(pool'[e]) = Workers /\ IsFiniteSet(pool'[e])
    BY <1>2, <1>9, <2>3, <2>5, <2>6 DEF PoolFits
  <2>8. PoolFits(e)'
    <3>1. \A d \in pool'[e] \cup Items(queue'[e]) : ExecOf(d) = e /\ Working(d)'
      BY <1>3, <1>5, <2>2, <2>3, <2>4
    <3>2. pool'[e] \subseteq Calls /\ pool'[e] \cap Items(queue'[e]) = {}
      BY <1>2, <2>2, <2>3 DEF PoolFits
    <3>3. QED  BY <1>2, <2>2, <2>3, <2>7, <3>1, <3>2 DEF PoolFits, Working
  <2>9. QED  BY <1>4, <1>6, <2>3, <2>8 DEF PoolInv
<1>10. QED  BY <1>7, <1>8, <1>9

LEMMA PoolStays ==
    ASSUME PoolInv, UNCHANGED <<pool, queue>>, context' \in [Execs -> BOOLEAN],
           \A c \in Calls : KeepsWorking(c)
    PROVE  PoolInv'
  BY PoolUndisturbed DEF PoolInv

LEMMA BecomingWorks ==
    ASSUME SDKTypeOK, NEW c \in Calls, NEW s, Become(c, s), s.pc # "idle",
           Occupies(call[c]) => Occupies(s)
    PROVE  \A d \in Calls : KeepsWorking(d)
<1>1. call'[c] = s /\ \A d \in Calls \ {c} : call'[d] = call[d]
  BY Becomes
<1>2. KeepsWorking(c)
  BY <1>1 DEF KeepsWorking, Working, Started
<1>3. ASSUME NEW d \in Calls, d # c
      PROVE  KeepsWorking(d)
  BY <1>1, <1>3 DEF KeepsWorking, Working, Started
<1>4. QED  BY <1>2, <1>3

\* effect() up to its operation, and after it.
LEMMA AttemptFits ==
    ASSUME LateInv, PoolInv, NEW c \in Calls, PyAttempt(c)
    PROVE  PoolInv'
<1>1. SDKTypeOK /\ (Started(c) => call[c] \in CallState /\ Shape(call[c]))
  BY StartedCall DEF LateInv, CallFits
<1>2. CASE Execute(c)
  <2> DEFINE s == Running(call[c], "await")
  <2>1. Started(c) /\ call[c].pc = "begin" /\ Become(c, s)
    BY <1>2 DEF Execute, BeginExecute, Answered
  <2>2. s.pc = "await" /\ s.lambda = "running"
    BY <1>1, <2>1, PhaseFields
  <2> HIDE DEF s
  <2>3. ~Working(c) /\ Working(c)'
    BY <1>1, <2>1, <2>2, Becomes DEF Working, Started, Occupies, Shape
  <2>4. \A d \in Calls : KeepsWorking(d)
    BY <1>1, <2>1, <2>2, BecomingWorks DEF Occupies
  <2>5. Submit(c) \/ UNCHANGED pyVars
    BY <1>2 DEF Execute
  <2>6. UNCHANGED pyVars => PoolInv'
    BY <2>4, PoolStays DEF pyVars, PoolInv
  <2>7. QED  BY <2>3, <2>4, <2>5, <2>6, SubmitFits
<1>3. CASE ~Execute(c)
  <2>1. UNCHANGED <<pool, queue, context>>
    BY <1>3 DEF PyAttempt, NoContext, pyVars
  <2>2. ASSUME NEW h \in Handlers, Send(c, h)
        PROVE  \A d \in Calls : KeepsWorking(d)
    <3> DEFINE s == [call[c] EXCEPT !.slot = h]
    <3>1. call[c] \in CallState /\ Become(c, s) /\ Started(c)
      BY <1>1, <2>2 DEF Send, Sending
    <3>2. s.pc # "idle" /\ s.lambda = call[c].lambda
      BY <3>1 DEF CallState, Started
    <3> HIDE DEF s
    <3>3. QED  BY <1>1, <3>1, <3>2, BecomingWorks DEF Occupies
  <2>3. CASE ~\E h \in Handlers : Send(c, h)
    <3>1. /\ Started(c)
          /\ \/ Sending(c) /\ (GiveUp(c) \/ AttemptFailed(c))
             \/ BeginSkip(c) \/ BeginRefused(c) \/ BeginError(c) \/ CommitDone(c) \/ MarkDone(c)
      BY <1>3, <2>3 DEF PyAttempt, NoContext, Refused, Abort, Sending, BeginSkip, BeginRefused,
         BeginError, CommitDone, MarkDone, Answered
    <3>2. PICK s : Become(c, s) /\ Works(call[c], s)
      BY <1>1, <3>1, GiveUpWorks, AttemptFailedWorks, AnswerWorks
    <3>3. s.pc # "idle" /\ (Occupies(call[c]) => Occupies(s))
      BY <3>2 DEF Works, Turn
    <3>4. \A d \in Calls : KeepsWorking(d)
      BY <1>1, <3>2, <3>3, BecomingWorks
    <3>5. QED  BY <2>1, <3>4, PoolStays DEF PoolInv
  <2>4. QED  BY <2>1, <2>2, <2>3, PoolStays DEF PoolInv
<1>4. QED  BY <1>2, <1>3

LEMMA OperationFits ==
    ASSUME LateInv, PoolInv, NEW c \in Calls,
           TakesEffect(c) \/ Ends(c) \/ TimesOut(c) \/ RaisesTimeout(c)
    PROVE  PoolInv'
<1>1. SDKTypeOK /\ Started(c) /\ call[c] \in CallState /\ Shape(call[c])
  <2>1. Started(c)
    BY DEF TakesEffect, Ends, TimesOut, RaisesTimeout, Runs, OperationTimeout
  <2>2. QED  BY <2>1, StartedCall DEF LateInv, CallFits
<1>2. CASE TakesEffect(c) \/ TimesOut(c)
  <2>1. PICK s : Become(c, s) /\ Turn(call[c], s) /\ (Occupies(call[c]) => Occupies(s))
    BY <1>1, <1>2, ActTurns, TimerWorks DEF TakesEffect, TimesOut, Works
  <2>2. \A d \in Calls : KeepsWorking(d)
    BY <1>1, <2>1, BecomingWorks DEF Turn
  <2>3. QED  BY <1>2, <2>2, PoolStays DEF TakesEffect, TimesOut, pyVars, PoolInv
<1>3. CASE Ends(c) \/ RaisesTimeout(c)
  <2>1. PICK s : Become(c, s)
    BY <1>1, <1>3, EndTurns DEF Ends, EndsLate
  <2>2. \A d \in Calls \ {c} : KeepsWorking(d)
    BY <1>1, <2>1, Becomes DEF KeepsWorking, Working, Started
  <2>3. Leave(c) /\ ~Queued(c)
    BY <1>3 DEF Ends, RaisesTimeout, Runs
  <2>4. QED  BY <2>2, <2>3, LeaveFits
<1>4. QED  BY <1>2, <1>3

\* The process dies, and its executor with it.
LEMMA DeathFits ==
    ASSUME LateInv, PoolInv, NEW e \in Execs, ProcessDies(e)
    PROVE  PoolInv'
<1>1. /\ pool' = [pool EXCEPT ![e] = {}] /\ queue' = [queue EXCEPT ![e] = <<>>]
      /\ context' = context /\ Crash(e)
  BY DEF ProcessDies
<1>2. pool'[e] = {} /\ queue'[e] = <<>>
  BY <1>1 DEF PoolInv
<1>3. Items(<<>>) = {} /\ Distinct(<<>>)
  BY DEF Items, Distinct
<1>4. PoolFits(e)'
  <2>1. IsFiniteSet({}) /\ Cardinality({}) = 0 /\ 0 <= Workers
    BY FS_EmptySet, PythonAssumption
  <2>2. QED  BY <1>2, <1>3, <2>1 DEF PoolFits
<1>5. ASSUME NEW x \in Execs, x # e
      PROVE  PoolFits(x)'
  <2>1. \A c \in Calls : ExecOf(c) = x => KeepsWorking(c)
    BY <1>1, <1>5 DEF Crash, KeepsWorking, Working, Started
  <2>2. pool'[x] = pool[x] /\ queue'[x] = queue[x]
    BY <1>1, <1>5 DEF PoolInv
  <2>3. QED  BY <2>1, <2>2, PoolUndisturbed
<1>6. pool' \in [Execs -> SUBSET Calls] /\ queue' \in [Execs -> Seq(Calls)]
  BY <1>1 DEF PoolInv
<1>7. QED  BY <1>1, <1>4, <1>5, <1>6 DEF PoolInv

LEMMA PoolNext ==
    ASSUME LateInv, PoolInv, [PyNext]_allVars
    PROVE  PoolInv'
<1>1. ASSUME UNCHANGED call
      PROVE  \A c \in Calls : KeepsWorking(c)
  BY <1>1 DEF KeepsWorking, Working, Started
<1>2. CASE UNCHANGED allVars
  BY <1>1, <1>2, PoolStays DEF allVars, PoolInv
<1>3. ASSUME NEW c \in Calls, NEW opts \in Options, Effect(c, opts)
      PROVE  PoolInv'
  <2>1. PICK s : Become(c, s) /\ ~Started(c)
    BY <1>3 DEF Effect, Start, StartBare, Invoke
  <2>2. \A d \in Calls : KeepsWorking(d)
    BY <2>1, Becomes DEF LateInv, KeepsWorking, Working, Started
  <2>3. QED  BY <1>3, <2>2, PoolStays DEF Effect, pyVars, PoolInv
<1>4. ASSUME NEW c \in Calls,
             PyAttempt(c) \/ TakesEffect(c) \/ Ends(c) \/ TimesOut(c) \/ RaisesTimeout(c)
      PROVE  PoolInv'
  BY <1>4, AttemptFits, OperationFits
<1>5. ASSUME NEW h \in Handlers, ServeOne(h) \/ FailOne(h) \/ RespondToNobody(h),
             UNCHANGED pyVars
      PROVE  PoolInv'
  BY <1>1, <1>5, PoolStays DEF ServeOne, FailOne, RespondToNobody, clientVars, pyVars, PoolInv
<1>6. ASSUME NEW e \in Execs, Complete(e)
      PROVE  PoolInv'
  BY <1>1, <1>6, PoolStays DEF Complete, PoolInv
<1>7. ASSUME ApiCrash, UNCHANGED pyVars
      PROVE  PoolInv'
  <2>1. ASSUME NEW c \in Calls
        PROVE  KeepsWorking(c)
    <3>1. CASE Started(c) /\ call[c].slot \in Handlers
      <4> DEFINE s == [call[c] EXCEPT !.slot = Broken]
      <4>1. call[c] \in CallState /\ call'[c] = s
        BY <1>7, <3>1, StartedCall DEF LateInv, ApiCrash
      <4>2. s.pc = call[c].pc /\ s.lambda = call[c].lambda
        BY <4>1 DEF CallState
      <4> HIDE DEF s
      <4>3. QED  BY <4>1, <4>2 DEF KeepsWorking, Working, Started, Occupies
    <3>2. CASE ~(Started(c) /\ call[c].slot \in Handlers)
      BY <1>7, <3>2 DEF ApiCrash, KeepsWorking, Working, Started
    <3>3. QED  BY <3>1, <3>2
  <2>2. QED  BY <1>7, <2>1, PoolStays DEF pyVars, PoolInv
<1>8. QED  BY <1>2, <1>3, <1>4, <1>5, <1>6, <1>7, DeathFits DEF PyNext

\* However many operations are submitted, time out, nest or are left behind,
\* no more of them run at once than there are workers, and no worker is idle
\* while one is queued (ThreadPoolExecutor, complete(), a dying process).
THEOREM PythonTypeCorrect ==
    ASSUME EffectEndpoints \subseteq Endpoints
    PROVE  PySpec => []PyTypeOK
<1>1. PyInit => LateInv /\ PoolInv
  <2> SUFFICES ASSUME PyInit
               PROVE  PoolInv
    BY LateInit
  <2>1. \A e \in Execs : pool[e] = {} /\ queue[e] = <<>>
    BY DEF PyInit
  <2>2. Items(<<>>) = {} /\ Distinct(<<>>)
    BY DEF Items, Distinct
  <2>3. IsFiniteSet({}) /\ Cardinality({}) = 0 /\ 0 <= Workers
    BY FS_EmptySet, PythonAssumption
  <2>4. ASSUME NEW e \in Execs
        PROVE  PoolFits(e)
    <3>1. pool[e] = {} /\ queue[e] = <<>>
      BY <2>1
    <3>2. <<>> \in Seq(Calls)
      OBVIOUS
    <3>3. QED  BY <2>2, <2>3, <3>1, <3>2 DEF PoolFits
  <2>5. QED  BY <2>4 DEF PyInit, PoolInv
<1>2. LateInv /\ PoolInv => PyTypeOK
  BY DEF LateInv, PoolInv, PoolFits, PyTypeOK
<1>3. LateInv /\ PoolInv /\ [PyNext]_allVars => (LateInv /\ PoolInv)'
  BY LateNext, PoolNext
<1>4. QED  BY <1>1, <1>2, <1>3, PTL DEF PySpec

-----------------------------------------------------------------------------
(***************************************************************************)
(* The protocol of ReplayGuardSDK_proofs, with Python's steps.  As there,  *)
(* an execution makes one call for an operation: two threads that make the *)
(* same one share its row, and once it is COMMITTED begin lets both run.   *)
(***************************************************************************)

LEMMA OwnStepsFollow ==
    ASSUME OneCallEach, ProtocolInv, NEW c \in Calls, Bare(c) \/ Unsent(c) \/ EndsLate(c)
    PROVE  /\ \A h \in Handlers : RequestIsOurs(h)'
           /\ \A d \in Calls : CallFollows(d)'
<1>1. SDKTypeOK
  BY DEF ProtocolInv
<1>2. CASE Bare(c)
  BY <1>2, StartFollows, SDKAssumption DEF Bare
<1>3. CASE Unsent(c) \/ EndsLate(c)
  <2>1. Started(c) /\ call[c] \in CallState
    BY <1>1, <1>3, StartedCall DEF Unsent, NoContext, Sending, EndsLate, RaisesTimeout, Runs
  <2>2. PICK s : /\ Become(c, s) /\ s.slot = NoSlot
                 /\ \/ s.pc = "settled"
                    \/ s.pc = "open" /\ call[c].pc = "begin"
                    \/ s.pc = "mark" /\ call[c].pc = "await"
    <3>1. CASE Unsent(c)
      BY <2>1, <3>1, PhaseFields DEF Unsent, NoContext, GiveUp, Sending, Unavailable, Marked
    <3>2. CASE EndsLate(c)
      BY <2>1, <3>2, LateEnd
    <3>3. QED  BY <1>3, <3>1, <3>2
  <2>3. Advance(c) /\ \A d \in Calls \ {c} : call'[d] = call[d]
    <3>1. NoSlot # Broken
      BY DEF NoSlot, Broken
    <3>2. QED  BY <1>1, <2>1, <2>2, <3>1, Becomes DEF Advance
  <2>4. UNCHANGED <<row, handler>>
    BY OwnSteps
  <2>5. \A d \in Calls : Stays(d) \/ Advance(d)
    BY <2>3, <2>4 DEF Stays
  <2>6. QED  BY <2>4, <2>5, AdvanceFollows
<1>4. QED  BY <1>2, <1>3

LEMMA PythonProtocolNext ==
    ASSUME EffectEndpoints \subseteq Endpoints, OneCallEach, ProtocolInv, [PyNext]_allVars
    PROVE  ProtocolInv'
<1>1. SDKTypeOK'
  BY PythonTypes DEF ProtocolInv
<1>2. CASE [Next]_vars
  BY <1>2, ProtocolNext
<1>3. CASE \E c \in Calls : Bare(c) \/ Unsent(c) \/ EndsLate(c)
  BY <1>1, <1>3, OwnStepsFollow DEF ProtocolInv
<1>4. UNCHANGED allVars => UNCHANGED vars
  BY DEF allVars, vars
<1>5. QED  BY <1>2, <1>3, <1>4, PythonSteps

\* No two calls run the same operation under guard at the same time, in Python
\* too: neither threads, nor an operation left in the pool, nor a context that
\* is taken away lets a second call get EXECUTE while one awaits.
THEOREM PythonRunsAreExclusive ==
    ASSUME EffectEndpoints \subseteq Endpoints, OneCallEach
    PROVE  PySpec => []RunsExclusively
<1>1. PyInit => ProtocolInv
  BY ProtocolInit DEF PyInit
<1>2. ProtocolInv /\ [PyNext]_allVars => ProtocolInv'
  BY PythonProtocolNext
<1>3. ProtocolInv /\ OneExecuting => RunsExclusively
  BY ClaimsExclude
<1>4. PySpec => []OneExecuting
  BY PythonImplementsLedger, ExecutingIsUnique, PTL
<1>5. QED  BY <1>1, <1>2, <1>3, <1>4, PTL DEF PySpec
=============================================================================
