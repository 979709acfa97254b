------------------------- MODULE LegacyGuard_proofs -------------------------
(***************************************************************************)
(* Theorems about guard.fetch(): for any number of calls, executions and   *)
(* requests in flight, any scopes and policies, retries, losses, crashes.  *)
(***************************************************************************)
EXTENDS LegacyGuard, EffectLedger_proofs

\* What a call sends is a request the ledger's environment may make.
LEMMA RequestIsCallable ==
    ASSUME "verify" \in Endpoints, NEW c \in Calls
    PROVE  RequestOf(c) \in Callable
<1>1. ExecOf(c) \in Execs /\ FpOf(c) \in Fps /\ ScopeOf[c] \in Scope
  BY LegacyAssumption DEF ExecOf, FpOf
<1>2. RequestOf(c) \in Request
  BY <1>1 DEF RequestOf, Request, EndpointNames, Scope
<1>3. QED  BY <1>2 DEF RequestOf, Callable

LEMMA LegacySteps ==
    ASSUME "verify" \in Endpoints, [Next]_vars
    PROVE  [LedgerNext]_ledgerVars
<1>1. ASSUME NEW c \in Calls, Start(c) \/ Act(c) \/ Return(c) \/ ReturnUnreported(c)
      PROVE  UNCHANGED ledgerVars
  BY <1>1 DEF Start, Act, Return, ReturnUnreported, ledgerVars
<1>2. ASSUME NEW c \in Calls, Abort(c)
      PROVE  LedgerNext \/ UNCHANGED ledgerVars
  <2>1. CASE UNCHANGED handler
    BY <1>2, <2>1 DEF Abort, ledgerVars
  <2>2. CASE call[c].slot \in Handlers /\ Vanish({call[c].slot})
    BY <2>2 DEF LedgerNext
  <2>3. QED  BY <1>2, <2>1, <2>2 DEF Abort
<1>3. ASSUME NEW c \in Calls, NEW h \in Handlers, Send(c, h)
      PROVE  LedgerNext
  <2>1. Receive(h, RequestOf(c)) /\ RequestOf(c) \in Callable
    BY <1>3, RequestIsCallable DEF Send
  <2>2. QED  BY <2>1 DEF LedgerNext
<1>4. ASSUME NEW c \in Calls,
             VerifyExecute(c) \/ VerifySkip(c) \/ VerifyError(c) \/ ReportDone(c)
      PROVE  LedgerNext
  <2>1. call[c].slot \in Handlers /\ Respond(call[c].slot)
    BY <1>4 DEF VerifyExecute, VerifySkip, VerifyError, ReportDone, Answered
  <2>2. QED  BY <2>1 DEF LedgerNext
<1>5. ASSUME NEW h \in Handlers, Work(h)
      PROVE  LedgerNext
  BY <1>5 DEF Work, LedgerNext
<1>6. ASSUME NEW e \in Execs, Crash(e)
      PROVE  UNCHANGED ledgerVars
  BY <1>6 DEF Crash, ledgerVars
<1>7. ASSUME ApiCrash
      PROVE  LedgerNext
  BY <1>7, Handlers \in SUBSET Handlers DEF ApiCrash, LedgerNext
<1>8. CASE UNCHANGED vars
  BY <1>8 DEF vars, ledgerVars
<1>9. QED  BY <1>1, <1>2, <1>3, <1>4, <1>5, <1>6, <1>7, <1>8 DEF Next

\* guard.fetch() over the network implements the ledger's specification: no row
\* it was told to EXECUTE by is missing, none is deleted.
THEOREM LegacyImplementsLedger ==
    ASSUME "verify" \in Endpoints
    PROVE  Spec => LedgerSpec
<1>1. Init => LedgerInit
  BY DEF Init
<1>2. [Next]_vars => [LedgerNext]_ledgerVars
  BY LegacySteps
<1>3. QED  BY <1>1, <1>2, PTL DEF Spec, LedgerSpec

-----------------------------------------------------------------------------
(* Types.                                                                   *)

LEMMA CallOf ==
    ASSUME NEW c \in Calls
    PROVE  ExecOf(c) \in Execs /\ FpOf(c) \in Fps /\ ScopeOf[c] \in Scope
  BY LegacyAssumption DEF ExecOf, FpOf

LEMMA Becomes ==
    ASSUME LegacyTypeOK, NEW c \in Calls, NEW r \in CallState, Become(c, r)
    PROVE  /\ call' \in [Calls -> {NotStarted} \cup CallState]
           /\ call'[c] = r /\ \A d \in Calls \ {c} : call'[d] = call[d]
  BY DEF LegacyTypeOK, Become

LEMMA StartedCall ==
    ASSUME LegacyTypeOK, NEW c \in Calls
    PROVE  Started(c) <=> call[c] \in CallState
  BY DEF LegacyTypeOK, Started, NotStarted, CallState

Phases == {"verify", "run", "report", "settled", "dead"}

\* The parts of a call that its phases leave alone, and those they set.
LEMMA PhaseFields ==
    ASSUME NEW r \in CallState, NEW pc \in Phases,
           NEW result \in {"response", "hit", "threw", "unavailable"},
           NEW value \in SUBSET MetadataKeys
    PROVE  /\ InPhase(r, pc) \in CallState /\ Settle(r, result, value) \in CallState
           /\ InPhase(r, pc).pc = pc /\ Settle(r, result, value).pc = "settled"
           /\ InPhase(r, pc).slot = NoSlot /\ Settle(r, result, value).slot = NoSlot
           /\ InPhase(r, pc).acted = r.acted /\ Settle(r, result, value).acted = r.acted
           /\ InPhase(r, pc).known = r.known /\ Settle(r, result, value).known = r.known
           /\ InPhase(r, pc).value = r.value /\ Settle(r, result, value).value = value
<1>1. 0 \in 0..MaxRetries
  BY LegacyAssumption
<1>2. /\ InPhase(r, pc) \in CallState /\ InPhase(r, pc).pc = pc
      /\ InPhase(r, pc).slot = NoSlot /\ InPhase(r, pc).acted = r.acted
      /\ InPhase(r, pc).known = r.known /\ InPhase(r, pc).value = r.value
  BY <1>1 DEF InPhase, CallState, Phases
<1>3. /\ InPhase(r, "settled") \in CallState /\ InPhase(r, "settled").pc = "settled"
      /\ InPhase(r, "settled").slot = NoSlot /\ InPhase(r, "settled").acted = r.acted
      /\ InPhase(r, "settled").known = r.known
  BY <1>1 DEF InPhase, CallState
<1> HIDE DEF InPhase
<1>4. /\ Settle(r, result, value) \in CallState /\ Settle(r, result, value).pc = "settled"
      /\ Settle(r, result, value).slot = NoSlot /\ Settle(r, result, value).acted = r.acted
      /\ Settle(r, result, value).known = r.known /\ Settle(r, result, value).value = value
  BY <1>3 DEF Settle, CallState
<1>5. QED  BY <1>2, <1>4

\* What a step makes of a call that goes on without a request.
Left(c, r) ==
    /\ r \in CallState /\ r.slot = NoSlot /\ r.acted = call[c].acted /\ r.known = call[c].known
    /\ r.pc \in {"verify", "report"} => r.pc = call[c].pc
    /\ r.pc = "run" => call[c].pc = "verify" /\ FailPolicy[ExecOf(c)] = "OPEN"
    /\ "result" \in r.value => "result" \in call[c].value \/ call[c].pc = "report"

LEMMA UnverifiedType ==
    ASSUME NEW c \in Calls, call[c] \in CallState, call[c].pc = "verify"
    PROVE  Left(c, Unverified(c))
<1>1. FailPolicy[ExecOf(c)] \in {"OPEN", "CLOSED"} /\ {} \in SUBSET MetadataKeys
  BY CallOf, LegacyAssumption
<1>2. QED  BY <1>1, PhaseFields DEF Unverified, Left, Phases

LEMMA FailedType ==
    ASSUME NEW c \in Calls, call[c] \in CallState, Sending(c), AttemptFailed(c)
    PROVE  \E r : Left(c, r) /\ Become(c, r)
<1>1. CASE call[c].tries < MaxRetries
  <2> DEFINE r == [call[c] EXCEPT !.tries = call[c].tries + 1, !.slot = NoSlot]
  <2>1. call[c].tries + 1 \in 0..MaxRetries
    BY <1>1, LegacyAssumption DEF CallState
  <2>2. /\ r \in CallState /\ r.slot = NoSlot /\ r.acted = call[c].acted
        /\ r.known = call[c].known /\ r.pc = call[c].pc /\ r.value = call[c].value
    BY <2>1 DEF CallState
  <2>3. Become(c, r)
    BY <1>1 DEF AttemptFailed
  <2> HIDE DEF r
  <2>4. Left(c, r)
    BY <2>2 DEF Left, Sending
  <2>5. QED  BY <2>3, <2>4
<1>2. CASE ~(call[c].tries < MaxRetries) /\ call[c].pc = "verify"
  BY <1>2, UnverifiedType DEF AttemptFailed
<1>3. CASE ~(call[c].tries < MaxRetries) /\ call[c].pc = "report"
  <2>1. {"result"} \in SUBSET MetadataKeys
    BY DEF MetadataKeys
  <2>2. Left(c, Settle(call[c], "response", {"result"}))
    BY <1>3, <2>1, PhaseFields, "verify" \in Phases DEF Left, Phases
  <2>3. Become(c, Settle(call[c], "response", {"result"}))
    BY <1>3 DEF AttemptFailed
  <2>4. QED  BY <2>2, <2>3
<1>4. QED  BY <1>1, <1>2, <1>3 DEF Sending

LEMMA RememberType ==
    ASSUME LegacyTypeOK, NEW c \in Calls, NEW value \in SUBSET MetadataKeys,
           Remember(c, value)
    PROVE  /\ cache' \in [Execs -> [Fps -> [hit: BOOLEAN, value: SUBSET MetadataKeys]]]
           /\ \A e \in Execs, f \in Fps :
                 \/ cache'[e][f] = cache[e][f]
                 \/ f = FpOf(c) /\ cache'[e][f].value = value
<1> SUFFICES ASSUME NEW x \in Execs, NEW g \in Fps, ExecOf(c) = x, FpOf(c) = g
             PROVE  /\ cache' \in [Execs -> [Fps -> [hit: BOOLEAN, value: SUBSET MetadataKeys]]]
                    /\ \A e \in Execs, f \in Fps :
                          \/ cache'[e][f] = cache[e][f]
                          \/ f = g /\ cache'[e][f].value = value
  BY CallOf
<1> DEFINE C == [hit: BOOLEAN, value: SUBSET MetadataKeys]
           b == [hit |-> TRUE, value |-> value]
<1>1. b \in C /\ b.value = value /\ cache \in [Execs -> [Fps -> C]]
  BY DEF LegacyTypeOK
<1>2. cache' = [cache EXCEPT ![x][g] = b]
  BY DEF Remember
<1> HIDE DEF b, C
<1>3. cache[x] \in [Fps -> C] /\ [cache[x] EXCEPT ![g] = b] \in [Fps -> C]
  BY <1>1
<1>4. cache' \in [Execs -> [Fps -> C]]
  BY <1>1, <1>2, <1>3
<1>5. /\ cache'[x][g] = b
      /\ \A e \in Execs, f \in Fps : e # x \/ f # g => cache'[e][f] = cache[e][f]
  BY <1>1, <1>2, <1>3
<1>6. QED  BY <1>1, <1>4, <1>5 DEF C

LEMMA ActType ==
    ASSUME LegacyTypeOK, NEW c \in Calls,
           acts' = [acts EXCEPT ![ExecOf(c)][FpOf(c)] = @ + 1]
    PROVE  /\ acts' \in [Execs -> [Fps -> Nat]]
           /\ \A e \in Execs, f \in Fps : acts[e][f] > 0 => acts'[e][f] > 0
           /\ acts'[ExecOf(c)][FpOf(c)] > 0
<1> SUFFICES ASSUME NEW x \in Execs, NEW g \in Fps, ExecOf(c) = x, FpOf(c) = g
             PROVE  /\ acts' \in [Execs -> [Fps -> Nat]]
                    /\ \A e \in Execs, f \in Fps : acts[e][f] > 0 => acts'[e][f] > 0
                    /\ acts'[x][g] > 0
  BY CallOf
<1>1. acts \in [Execs -> [Fps -> Nat]] /\ acts' = [acts EXCEPT ![x][g] = acts[x][g] + 1]
  BY DEF LegacyTypeOK
<1>2. acts[x] \in [Fps -> Nat] /\ acts[x][g] \in Nat
      /\ [acts[x] EXCEPT ![g] = acts[x][g] + 1] \in [Fps -> Nat]
  BY <1>1
<1>3. acts' \in [Execs -> [Fps -> Nat]]
  BY <1>1, <1>2
<1>4. /\ acts'[x][g] = acts[x][g] + 1
      /\ \A e \in Execs, f \in Fps : e # x \/ f # g => acts'[e][f] = acts[e][f]
  BY <1>1, <1>2
<1>5. acts'[x][g] > 0
  BY <1>2, <1>4
<1>6. QED  BY <1>3, <1>4, <1>5

\* A new call, and what it reads as it starts.
NewCall(c) ==
    [pc |-> "verify", tries |-> 0, slot |-> NoSlot, acted |-> FALSE,
     known |-> VerifyMatches(ExecOf(c), FpOf(c), ScopeOf[c]) # {} /\ ~Exists(ExecOf(c), FpOf(c)),
     result |-> "none", value |-> {}]

LEMMA StartType ==
    ASSUME LegacyTypeOK, NEW c \in Calls, Start(c)
    PROVE  \E r \in CallState :
              /\ Become(c, r)
              /\ r.slot = NoSlot /\ ~r.acted /\ r.pc \in {"verify", "settled"}
              /\ r.known => /\ VerifyMatches(ExecOf(c), FpOf(c), ScopeOf[c]) # {}
                            /\ ~Exists(ExecOf(c), FpOf(c))
              /\ r.value \in {{}, cache[ExecOf(c)][FpOf(c)].value}
<1> DEFINE n == NewCall(c)
           hit == cache[ExecOf(c)][FpOf(c)]
<1>1. hit.value \in SUBSET MetadataKeys
  BY CallOf DEF LegacyTypeOK
<1>2. Become(c, IF hit.hit THEN Settle(n, "hit", hit.value) ELSE n)
  BY DEF Start, NewCall
<1>3. /\ n \in CallState /\ n.slot = NoSlot /\ ~n.acted /\ n.pc = "verify" /\ n.value = {}
      /\ n.known => /\ VerifyMatches(ExecOf(c), FpOf(c), ScopeOf[c]) # {}
                    /\ ~Exists(ExecOf(c), FpOf(c))
  <2> DEFINE k == VerifyMatches(ExecOf(c), FpOf(c), ScopeOf[c]) # {} /\ ~Exists(ExecOf(c), FpOf(c))
  <2>1. k \in BOOLEAN /\ 0 \in 0..MaxRetries
    BY LegacyAssumption
  <2>2. n = [pc |-> "verify", tries |-> 0, slot |-> NoSlot, acted |-> FALSE, known |-> k,
             result |-> "none", value |-> {}]
    BY DEF NewCall
  <2>3. k => /\ VerifyMatches(ExecOf(c), FpOf(c), ScopeOf[c]) # {}
             /\ ~Exists(ExecOf(c), FpOf(c))
    OBVIOUS
  <2> HIDE DEF k, n
  <2>4. n \in CallState
    BY <2>1, <2>2 DEF CallState
  <2>5. QED  BY <2>2, <2>3, <2>4
<1> HIDE DEF n, hit
<1>4. /\ Settle(n, "hit", hit.value) \in CallState
      /\ Settle(n, "hit", hit.value).pc = "settled"
      /\ Settle(n, "hit", hit.value).slot = NoSlot
      /\ Settle(n, "hit", hit.value).acted = n.acted
      /\ Settle(n, "hit", hit.value).known = n.known
      /\ Settle(n, "hit", hit.value).value = hit.value
  BY <1>1, <1>3, PhaseFields DEF Phases
<1>5. CASE hit.hit
  <2>1. hit.value \in {{}, hit.value}
    OBVIOUS
  <2>2. QED  BY <1>2, <1>3, <1>4, <1>5, <2>1 DEF hit
<1>6. CASE ~hit.hit
  BY <1>2, <1>3, <1>6
<1>7. QED  BY <1>5, <1>6

\* The answer a call takes.
LEMMA AnsweredType ==
    ASSUME LegacyTypeOK, NEW c \in Calls,
           VerifyExecute(c) \/ VerifySkip(c) \/ VerifyError(c) \/ ReportDone(c)
    PROVE  /\ Sending(c) /\ call[c].slot \in Handlers /\ Respond(call[c].slot)
           /\ UNCHANGED <<row, alive, acts>>
           /\ \E r \in CallState :
                 /\ Become(c, r)
                 /\ \/ Left(c, r) /\ UNCHANGED cache
                    \/ /\ handler[call[c].slot].answer = "EXECUTE" /\ call[c].pc = "verify"
                       /\ r = InPhase(call[c], "run") /\ UNCHANGED cache
                    \/ /\ r = Settle(call[c], "hit", handler[call[c].slot].seen)
                       /\ Remember(c, handler[call[c].slot].seen)
                       /\ handler[call[c].slot].seen \in SUBSET MetadataKeys
<1>1. \E pc \in {"verify", "report"} : \E answers : Answered(c, pc, answers)
  BY DEF VerifyExecute, VerifySkip, VerifyError, ReportDone
<1>2. /\ Sending(c) /\ call[c].slot \in Handlers /\ Respond(call[c].slot)
      /\ UNCHANGED <<row, alive, acts>> /\ At(call[c].slot, "done")
  BY <1>1 DEF Answered, Sending, Respond
<1>3. call[c] \in CallState /\ handler[call[c].slot].seen \in SUBSET MetadataKeys
  <2>1. handler[call[c].slot] \in Busy
    BY <1>2, BusyHandler DEF At, LegacyTypeOK
  <2>2. QED  BY <1>2, <2>1, BusyFields, StartedCall DEF Started, Sending
<1>4. CASE VerifyExecute(c)
  <2>1. InPhase(call[c], "run") \in CallState
    BY <1>3, PhaseFields, "run" \in Phases, {} \in SUBSET MetadataKeys DEF Phases
  <2>2. QED  BY <1>2, <1>4, <2>1 DEF VerifyExecute, Answered
<1>5. CASE VerifySkip(c)
  <2>1. Settle(call[c], "hit", handler[call[c].slot].seen) \in CallState
    BY <1>3, PhaseFields, "run" \in Phases DEF Phases
  <2>2. QED  BY <1>2, <1>3, <1>5, <2>1 DEF VerifySkip
<1>6. CASE VerifyError(c)
  <2>1. Left(c, Unverified(c))
    BY <1>3, <1>6, UnverifiedType DEF VerifyError, Answered
  <2>2. QED  BY <1>2, <1>6, <2>1 DEF VerifyError, Left
<1>7. CASE ReportDone(c)
  <2>1. {"result"} \in SUBSET MetadataKeys
    BY DEF MetadataKeys
  <2>2. call[c].pc = "report"
    BY <1>7 DEF ReportDone, Answered
  <2>3. Left(c, Settle(call[c], "response", {"result"}))
    BY <1>3, <2>1, <2>2, PhaseFields, "verify" \in Phases DEF Left, Phases
  <2>4. QED  BY <1>2, <1>7, <2>3 DEF ReportDone, Left
<1>8. QED  BY <1>2, <1>4, <1>5, <1>6, <1>7

LEMMA ReturnType ==
    ASSUME LegacyTypeOK, NEW c \in Calls, Return(c) \/ ReturnUnreported(c)
    PROVE  /\ call[c].pc = "run" /\ UNCHANGED <<row, handler, alive, acts>>
           /\ \E r \in CallState :
                 /\ Become(c, r) /\ r.slot = NoSlot
                 /\ r.acted = call[c].acted /\ r.known = call[c].known
                 /\ \/ /\ r.pc = "report" /\ call[c].acted /\ r.value = call[c].value
                       /\ Remember(c, {"result"})
                    \/ r.pc = "settled" /\ r.value = {} /\ UNCHANGED cache
<1>1. /\ call[c].pc = "run" /\ UNCHANGED <<row, handler, alive, acts>>
      /\ call[c] \in CallState /\ {} \in SUBSET MetadataKeys
  BY StartedCall DEF Return, ReturnUnreported, Started
<1>2. CASE Return(c)
  <2>1. /\ InPhase(call[c], "report") \in CallState
        /\ InPhase(call[c], "report").pc = "report"
        /\ InPhase(call[c], "report").slot = NoSlot
        /\ InPhase(call[c], "report").acted = call[c].acted
        /\ InPhase(call[c], "report").known = call[c].known
        /\ InPhase(call[c], "report").value = call[c].value
    BY <1>1, PhaseFields, "report" \in Phases DEF Phases
  <2>2. Become(c, InPhase(call[c], "report")) /\ call[c].acted /\ Remember(c, {"result"})
    BY <1>2 DEF Return
  <2>3. QED  BY <1>1, <2>1, <2>2
<1>3. CASE ReturnUnreported(c)
  BY <1>1, <1>3, PhaseFields, "run" \in Phases DEF ReturnUnreported, Phases
<1>4. QED  BY <1>1, <1>2, <1>3

\* A death of the process, or of the API, leaves the calls it does not concern.
LEMMA CrashType ==
    ASSUME LegacyTypeOK, NEW e \in Execs, Crash(e)
    PROVE  /\ UNCHANGED <<row, handler, cache, acts>> /\ alive' \in [Execs -> BOOLEAN]
           /\ call' \in [Calls -> {NotStarted} \cup CallState]
           /\ \A c \in Calls :
                 \/ call'[c] = call[c]
                 \/ /\ Started(c) /\ call'[c] \in CallState
                    /\ call'[c].pc = "dead" /\ call'[c].slot = NoSlot
                    /\ call'[c].acted = call[c].acted /\ call'[c].known = call[c].known
                    /\ call'[c].value = call[c].value
<1>1. UNCHANGED <<row, handler, cache, acts>> /\ alive' \in [Execs -> BOOLEAN]
  BY DEF Crash, LegacyTypeOK
<1>2. \A c \in Calls : \/ call'[c] = call[c]
                       \/ Started(c) /\ call'[c] = InPhase(call[c], "dead")
  BY DEF Crash
<1>3. \A c \in Calls : Started(c) =>
         /\ InPhase(call[c], "dead") \in CallState
         /\ InPhase(call[c], "dead").pc = "dead" /\ InPhase(call[c], "dead").slot = NoSlot
         /\ InPhase(call[c], "dead").acted = call[c].acted
         /\ InPhase(call[c], "dead").known = call[c].known
         /\ InPhase(call[c], "dead").value = call[c].value
  BY StartedCall, PhaseFields, "dead" \in Phases, {} \in SUBSET MetadataKeys DEF Phases
<1>4. \A c \in Calls : call'[c] \in {NotStarted} \cup CallState
  BY <1>2, <1>3 DEF LegacyTypeOK
<1>5. call' \in [Calls -> {NotStarted} \cup CallState]
  BY <1>4 DEF Crash
<1>6. QED  BY <1>1, <1>2, <1>3, <1>5

LEMMA ApiCrashType ==
    ASSUME LegacyTypeOK, ApiCrash
    PROVE  /\ UNCHANGED <<row, alive, cache, acts>>
           /\ call' \in [Calls -> {NotStarted} \cup CallState]
           /\ \A c \in Calls :
                 \/ call'[c] = call[c] /\ (Started(c) => call[c].slot \notin Handlers)
                 \/ /\ Started(c) /\ call'[c] \in CallState /\ call'[c].slot = Broken
                    /\ call'[c].pc = call[c].pc /\ call'[c].acted = call[c].acted
                    /\ call'[c].known = call[c].known /\ call'[c].value = call[c].value
<1>1. UNCHANGED <<row, alive, cache, acts>>
  BY DEF ApiCrash, Vanish
<1>2. \A c \in Calls : call'[c] = IF Started(c) /\ call[c].slot \in Handlers
                                  THEN [call[c] EXCEPT !.slot = Broken] ELSE call[c]
  BY DEF ApiCrash
<1>3. ASSUME NEW c \in Calls, Started(c)
      PROVE  LET b == [call[c] EXCEPT !.slot = Broken]
             IN  /\ b \in CallState /\ b.slot = Broken /\ b.pc = call[c].pc
                 /\ b.acted = call[c].acted /\ b.known = call[c].known
                 /\ b.value = call[c].value
  <2>1. call[c] \in CallState
    BY <1>3, StartedCall
  <2>2. QED  BY <2>1 DEF CallState
<1>4. \A c \in Calls : call'[c] \in {NotStarted} \cup CallState
  BY <1>2, <1>3 DEF LegacyTypeOK
<1>5. call' \in [Calls -> {NotStarted} \cup CallState]
  BY <1>4 DEF ApiCrash
<1>6. QED  BY <1>1, <1>2, <1>3, <1>5

LEMMA SendType ==
    ASSUME LegacyTypeOK, NEW c \in Calls, NEW h \in Handlers, Send(c, h)
    PROVE  \E r \in CallState :
              /\ Become(c, r) /\ r.slot = h /\ r.pc = call[c].pc
              /\ r.acted = call[c].acted /\ r.known = call[c].known /\ r.value = call[c].value
<1> DEFINE r == [call[c] EXCEPT !.slot = h]
<1>1. call[c] \in CallState /\ Become(c, r)
  BY StartedCall DEF Send, Sending, Started
<1>2. /\ r \in CallState /\ r.slot = h /\ r.pc = call[c].pc
      /\ r.acted = call[c].acted /\ r.known = call[c].known /\ r.value = call[c].value
  BY <1>1 DEF CallState
<1>3. QED  BY <1>1, <1>2

LEMMA ActsType ==
    ASSUME LegacyTypeOK, NEW c \in Calls, Act(c)
    PROVE  /\ call[c].pc = "run"
           /\ \E r \in CallState :
                 /\ Become(c, r) /\ r.slot = call[c].slot /\ r.pc = call[c].pc
                 /\ r.acted /\ r.known = call[c].known /\ r.value = call[c].value
<1> DEFINE r == [call[c] EXCEPT !.acted = TRUE]
<1>1. call[c] \in CallState /\ Become(c, r) /\ call[c].pc = "run"
  BY StartedCall DEF Act, Started
<1>2. /\ r \in CallState /\ r.slot = call[c].slot /\ r.pc = call[c].pc
      /\ r.acted /\ r.known = call[c].known /\ r.value = call[c].value
  BY <1>1 DEF CallState
<1>3. QED  BY <1>1, <1>2

LEMMA AbortType ==
    ASSUME LegacyTypeOK, NEW c \in Calls, Abort(c)
    PROVE  /\ Sending(c) /\ UNCHANGED <<row, alive, cache, acts>>
           /\ \E r : Left(c, r) /\ Become(c, r)
           /\ \/ UNCHANGED handler
              \/ call[c].slot \in Handlers /\ Vanish({call[c].slot})
<1>1. call[c] \in CallState
  BY StartedCall DEF Abort, Sending, Started
<1>2. QED  BY <1>1, FailedType DEF Abort

LEMMA LegacyNextType ==
    ASSUME "verify" \in Endpoints, LegacyTypeOK, [Next]_vars
    PROVE  LegacyTypeOK'
<1>1. LedgerTypeOK'
  BY LegacySteps, LedgerNextType DEF LegacyTypeOK
<1> DEFINE Others == /\ alive' \in [Execs -> BOOLEAN]
                     /\ cache' \in [Execs -> [Fps -> [hit: BOOLEAN, value: SUBSET MetadataKeys]]]
                     /\ acts' \in [Execs -> [Fps -> Nat]]
<1>2. UNCHANGED <<alive, cache, acts>> => Others
  BY DEF LegacyTypeOK
<1>3. ASSUME NEW c \in Calls, \E r \in CallState : Become(c, r), Others
      PROVE  LegacyTypeOK'
  BY <1>1, <1>3, Becomes DEF LegacyTypeOK
<1>4. ASSUME NEW c \in Calls, NEW value \in SUBSET MetadataKeys, Remember(c, value)
      PROVE  cache' \in [Execs -> [Fps -> [hit: BOOLEAN, value: SUBSET MetadataKeys]]]
  BY <1>4, RememberType
<1>5. alive \in [Execs -> BOOLEAN] /\ acts \in [Execs -> [Fps -> Nat]]
  BY DEF LegacyTypeOK
<1>6. {"result"} \in SUBSET MetadataKeys
  BY DEF MetadataKeys
<1>a. ASSUME NEW c \in Calls, Start(c)
      PROVE  LegacyTypeOK'
  <2>1. UNCHANGED <<alive, cache, acts>>
    BY <1>a DEF Start
  <2>2. QED  BY <1>2, <1>3, <1>a, <2>1, StartType
<1>b. ASSUME NEW c \in Calls, Abort(c)
      PROVE  LegacyTypeOK'
  BY <1>2, <1>3, <1>b, AbortType DEF Left
<1>c. ASSUME NEW c \in Calls, NEW h \in Handlers, Send(c, h)
      PROVE  LegacyTypeOK'
  BY <1>2, <1>3, <1>c, SendType DEF Send
<1>d. ASSUME NEW c \in Calls,
             VerifyExecute(c) \/ VerifySkip(c) \/ VerifyError(c) \/ ReportDone(c)
      PROVE  LegacyTypeOK'
  <2>1. /\ UNCHANGED <<alive, acts>> /\ \E r \in CallState : Become(c, r)
        /\ UNCHANGED cache \/ \E value \in SUBSET MetadataKeys : Remember(c, value)
    BY <1>d, AnsweredType
  <2>2. cache' \in [Execs -> [Fps -> [hit: BOOLEAN, value: SUBSET MetadataKeys]]]
    BY <1>4, <2>1 DEF LegacyTypeOK
  <2>3. QED  BY <1>3, <1>5, <2>1, <2>2
<1>e. ASSUME NEW c \in Calls, Act(c)
      PROVE  LegacyTypeOK'
  <2>1. acts' = [acts EXCEPT ![ExecOf(c)][FpOf(c)] = @ + 1] /\ UNCHANGED <<alive, cache>>
    BY <1>e DEF Act
  <2>2. Others
    BY <2>1, ActType DEF LegacyTypeOK
  <2>3. QED  BY <1>3, <1>e, <2>2, ActsType
<1>f. ASSUME NEW c \in Calls, Return(c) \/ ReturnUnreported(c)
      PROVE  LegacyTypeOK'
  <2>1. /\ UNCHANGED <<alive, acts>> /\ \E r \in CallState : Become(c, r)
        /\ UNCHANGED cache \/ Remember(c, {"result"})
    BY <1>f, ReturnType
  <2>2. cache' \in [Execs -> [Fps -> [hit: BOOLEAN, value: SUBSET MetadataKeys]]]
    BY <1>4, <1>6, <2>1 DEF LegacyTypeOK
  <2>3. QED  BY <1>3, <1>5, <2>1, <2>2
<1>g. ASSUME NEW h \in Handlers, Work(h)
      PROVE  LegacyTypeOK'
  BY <1>1, <1>g DEF Work, clientVars, LegacyTypeOK
<1>h. ASSUME NEW e \in Execs, Crash(e)
      PROVE  LegacyTypeOK'
  BY <1>1, <1>h, CrashType DEF LegacyTypeOK
<1>i. ASSUME ApiCrash
      PROVE  LegacyTypeOK'
  BY <1>1, <1>i, ApiCrashType DEF LegacyTypeOK
<1>j. UNCHANGED vars => LegacyTypeOK'
  BY <1>1 DEF vars, LegacyTypeOK
<1>k. QED
  BY <1>a, <1>b, <1>c, <1>d, <1>e, <1>f, <1>g, <1>h, <1>i, <1>j DEF Next

LEMMA LegacyInitType == Init => LegacyTypeOK
  BY LedgerInitType DEF Init, LegacyTypeOK, Miss

\* Calls, caches, rows and requests keep their shapes.
THEOREM LegacyTypeCorrect ==
    ASSUME "verify" \in Endpoints
    PROVE  Spec => []LegacyTypeOK
<1>1. LegacyTypeOK /\ [Next]_vars => LegacyTypeOK'
  BY LegacyNextType
<1>2. QED  BY <1>1, LegacyInitType, PTL DEF Spec

-----------------------------------------------------------------------------
(***************************************************************************)
(* The requests of guard.fetch(): each is a verify of the call it belongs  *)
(* to, and a call waits for a request of its own.                          *)
(***************************************************************************)

\* h serves a request of call c.
From(h, c) ==
    ~At(h, "idle") /\ handler[h].req.exec = ExecOf(c) /\ handler[h].req.fp = FpOf(c)

VerifyPc == {"received", "recordSkip", "mergeOwn", "insert", "race", "done"}

VerifyOnly(h) == ~At(h, "idle") => Serves(h, "verify") /\ handler[h].pc \in VerifyPc

Waits(c) == Started(c) /\ call[c].slot \in Handlers

FetchInv ==
    /\ LegacyTypeOK
    /\ \A h \in Handlers : VerifyOnly(h)
    /\ \A c \in Calls : Waits(c) => Sending(c) /\ From(call[c].slot, c)
    /\ \A c, d \in Calls : Waits(c) /\ Waits(d) /\ call[c].slot = call[d].slot => c = d

\* A database call of such a request: what it does to its row, and what it reads.
VerifyStep(h, e, f) ==
    LET b == handler[h]
        a == handler'[h]
        found == VerifyMatches(e, f, b.req.scope)
    IN  \/ /\ b.pc = "received" /\ UNCHANGED row
           /\ \/ found = {} /\ a.pc = "insert" /\ a.seen = b.seen
              \/ /\ e \in found /\ a.pc = "mergeOwn"
                 /\ a.seen = row[e][f].metadata
              \/ /\ a.pc = "recordSkip"
                 /\ \E w \in found \ {e} : a.seen = row[w][f].metadata
        \/ /\ b.pc = "recordSkip" /\ a.pc = "done"
           /\ \/ /\ row[e][f].status = "NONE" /\ row'[e][f] = NewRow("SKIPPED", {"origin"})
                 /\ a.answer = "SKIP" /\ a.seen = b.seen
              \/ UNCHANGED row /\ a.answer = "ERROR" /\ a.seen = {}
        \/ /\ b.pc = "mergeOwn" /\ a.pc = "done" /\ a.answer = "EXECUTE" /\ a.seen = {}
           /\ row'[e][f].status = row[e][f].status
           /\ row'[e][f].metadata = b.seen \cup Reported(b.req)
        \/ /\ b.pc = "insert"
           /\ \/ /\ row[e][f].status = "NONE"
                 /\ row'[e][f] = NewRow("COMMITTED", Reported(b.req))
                 /\ a.pc = "done" /\ a.answer = "EXECUTE" /\ a.seen = {}
              \/ UNCHANGED row /\ a.pc = "race" /\ a.seen = b.seen
        \/ /\ b.pc = "race" /\ UNCHANGED row /\ a.pc = "done" /\ a.answer = "SKIP"
           /\ a.seen = {} \/ \E w \in found : a.seen = row[w][f].metadata

OthersStay(h, e, f) ==
    /\ \A k \in Handlers \ {h} : handler'[k] = handler[k]
    /\ \A d \in Execs, g \in Fps : d # e \/ g # f => row'[d][g] = row[d][g]

LEMMA VerifyServes ==
    ASSUME LedgerTypeOK, NEW h \in Handlers, VerifyOnly(h), Serve(h)
    PROVE  /\ handler[h] \in Busy /\ Serves(h, "verify")
           /\ handler'[h].req = handler[h].req
           /\ OthersStay(h, handler[h].req.exec, handler[h].req.fp)
           /\ VerifyStep(h, handler[h].req.exec, handler[h].req.fp)
<1>1. /\ handler[h] \in Busy /\ handler'[h].req = handler[h].req
      /\ \A k \in Handlers \ {h} : handler'[k] = handler[k]
  BY ServesOne
<1>2. Serves(h, "verify") /\ handler[h].pc \in VerifyPc
  BY <1>1 DEF VerifyOnly, At, Busy, BusyPc
<1> SUFFICES ASSUME NEW e \in Execs, NEW f \in Fps,
                    handler[h].req.exec = e, handler[h].req.fp = f
             PROVE  OthersStay(h, e, f) /\ VerifyStep(h, e, f)
  BY <1>1, <1>2, BusyFields
<1>3. /\ \A pc : Goto(h, pc) => handler'[h].pc = pc /\ handler'[h].seen = handler[h].seen
      /\ \A pc, w, m : GotoWith(h, pc, w, m) => handler'[h].pc = pc /\ handler'[h].seen = m
      /\ \A a, m : Answer(h, a, m) =>
            handler'[h].pc = "done" /\ handler'[h].answer = a /\ handler'[h].seen = m
  BY <1>1 DEF Goto, GotoWith, Answer, Busy, LedgerTypeOK
<1>4. UNCHANGED row => OthersStay(h, e, f)
  BY <1>1 DEF OthersStay
<1>5. ASSUME NEW r, Store(e, f, r)
      PROVE  row'[e][f] = r /\ OthersStay(h, e, f)
  <2>1. row \in [Execs -> [Fps -> Row]] /\ row' = [row EXCEPT ![e][f] = r]
    BY <1>5 DEF LedgerTypeOK, Store
  <2>2. row'[e][f] = r /\ \A d \in Execs, g \in Fps : d # e \/ g # f => row'[d][g] = row[d][g]
    BY <2>1
  <2>3. QED  BY <1>1, <2>2 DEF OthersStay
<1>a. CASE VerifyDedup(h)
  <2>1. UNCHANGED row /\ handler[h].pc = "received"
    BY <1>a DEF VerifyDedup, At
  <2>2. QED  BY <1>3, <1>4, <1>a, <2>1 DEF VerifyDedup, VerifyStep
<1>b. CASE RecordSkip(h)
  BY <1>3, <1>4, <1>5, <1>b DEF RecordSkip, VerifyStep, At, Exists
<1>c. CASE MergeOwn(h)
  <2> DEFINE r == [row[e][f] EXCEPT !.metadata = handler[h].seen \cup Reported(handler[h].req)]
  <2>1. Store(e, f, r) /\ Answer(h, "EXECUTE", {}) /\ handler[h].pc = "mergeOwn"
    BY <1>c DEF MergeOwn, At
  <2>2. r.status = row[e][f].status /\ r.metadata = handler[h].seen \cup Reported(handler[h].req)
    <3>1. row[e][f] \in Row
      BY RowFields
    <3>2. QED  BY <3>1 DEF Row
  <2> HIDE DEF r
  <2>3. row'[e][f] = r /\ OthersStay(h, e, f)
    BY <1>5, <2>1
  <2>4. QED  BY <1>3, <2>1, <2>2, <2>3 DEF VerifyStep
<1>d. CASE InsertCommitted(h)
  BY <1>3, <1>4, <1>5, <1>d DEF InsertCommitted, VerifyStep, At, Exists
<1>e. CASE ViolationSkip(h)
  <2>1. /\ handler[h].pc = "race" /\ UNCHANGED row
        /\ \/ Answer(h, "SKIP", {})
           \/ \E w \in VerifyMatches(e, f, handler[h].req.scope) :
                 Answer(h, "SKIP", row[w][f].metadata)
    BY <1>2, <1>e DEF ViolationSkip, At, Serves
  <2>2. QED  BY <1>3, <1>4, <2>1 DEF VerifyStep
<1>f. ~(\/ BeginDedup(h) \/ BeginConflict(h) \/ FlagOther(h) \/ RecordConflict(h)
        \/ InsertExecuting(h) \/ ViolationConflict(h))
  BY <1>2 DEF BeginDedup, BeginConflict, FlagOther, RecordConflict, InsertExecuting,
     ViolationConflict, VerifyPc, At, Serves
<1>g. ~(CommitSideEffect(h) \/ MarkUnknown(h) \/ MarkFailed(h))
  BY <1>2, Zenon DEF CommitSideEffect, MarkUnknown, MarkFailed, Update, Serves
<1>h. QED  BY <1>a, <1>b, <1>c, <1>d, <1>e, <1>f, <1>g DEF Serve

\* What a step of call c may do to the requests: end the one it waits for.
EndsOwn(c) ==
    \A h \in Handlers : \/ handler'[h] = handler[h]
                        \/ handler'[h] = Idle /\ Waits(c) /\ h = call[c].slot

Fetching ==
    /\ \A h \in Handlers : VerifyOnly(h)
    /\ \A c \in Calls : Waits(c) => Sending(c) /\ From(call[c].slot, c)
    /\ \A c, d \in Calls : Waits(c) /\ Waits(d) /\ call[c].slot = call[d].slot => c = d

LEMMA CallFetches ==
    ASSUME FetchInv, NEW c \in Calls, NEW r \in CallState, Become(c, r),
           r.slot \notin Handlers, EndsOwn(c)
    PROVE  Fetching'
<1>1. call'[c] = r /\ \A d \in Calls \ {c} : call'[d] = call[d]
  BY Becomes DEF FetchInv
<1>2. \A d \in Calls : Waits(d)' => d # c /\ Waits(d) /\ call'[d].slot = call[d].slot
  BY <1>1 DEF Waits, Started
<1>3. \A h \in Handlers : VerifyOnly(h)'
  BY DEF FetchInv, EndsOwn, VerifyOnly, At, Idle, Serves
<1>4. ASSUME NEW d \in Calls, Waits(d)'
      PROVE  (Sending(d) /\ From(call[d].slot, d))'
  <2>1. d # c /\ Waits(d) /\ Sending(d) /\ From(call[d].slot, d)
    BY <1>2, <1>4 DEF FetchInv
  <2>2. handler'[call[d].slot] = handler[call[d].slot]
    BY <2>1 DEF EndsOwn, Waits, FetchInv
  <2>3. QED  BY <1>1, <2>1, <2>2 DEF Sending, From, At, ExecOf, FpOf
<1>5. \A d, x \in Calls : Waits(d)' /\ Waits(x)' /\ call'[d].slot = call'[x].slot => d = x
  BY <1>2 DEF FetchInv
<1>6. QED  BY <1>3, <1>4, <1>5 DEF Fetching

LEMMA SendFetches ==
    ASSUME FetchInv, NEW c \in Calls, NEW h \in Handlers, Send(c, h)
    PROVE  Fetching'
<1>1. PICK r \in CallState : Become(c, r) /\ r.slot = h /\ r.pc = call[c].pc
  BY SendType DEF FetchInv
<1>2. call'[c] = r /\ \A d \in Calls \ {c} : call'[d] = call[d]
  BY <1>1, Becomes DEF FetchInv
<1>3. /\ Sending(c) /\ ~Waits(c) /\ At(h, "idle")
      /\ handler'[h] = [pc |-> "received", req |-> RequestOf(c), other |-> RequestOf(c).exec,
                        seen |-> {}, answer |-> "none"]
      /\ \A k \in Handlers \ {h} : handler'[k] = handler[k]
  BY LegacyAssumption DEF Send, Receive, Waits, FetchInv, LegacyTypeOK, LedgerTypeOK
<1>4. \A k \in Handlers : VerifyOnly(k)'
  BY <1>3 DEF FetchInv, VerifyOnly, At, Serves, RequestOf, VerifyPc
<1>5. Waits(c)' /\ (Sending(c) /\ From(call[c].slot, c))'
  BY <1>1, <1>2, <1>3 DEF Waits, Started, Sending, From, At, RequestOf, ExecOf, FpOf
<1>6. ASSUME NEW d \in Calls, d # c, Waits(d)'
      PROVE  /\ Waits(d) /\ call'[d].slot # h
             /\ (Sending(d) /\ From(call[d].slot, d))'
  <2>1. Waits(d) /\ call'[d] = call[d] /\ Sending(d) /\ From(call[d].slot, d)
    BY <1>2, <1>6 DEF Waits, Started, FetchInv
  <2>2. call[d].slot # h /\ handler'[call[d].slot] = handler[call[d].slot]
    BY <1>3, <2>1 DEF From, Waits
  <2>3. QED  BY <2>1, <2>2 DEF Sending, From, At, ExecOf, FpOf
<1>7. \A d, x \in Calls : Waits(d)' /\ Waits(x)' /\ call'[d].slot = call'[x].slot => d = x
  BY <1>1, <1>2, <1>6 DEF FetchInv
<1>8. QED  BY <1>4, <1>5, <1>6, <1>7 DEF Fetching

LEMMA WorkFetches ==
    ASSUME FetchInv, NEW h \in Handlers, Work(h)
    PROVE  Fetching'
<1>1. /\ LedgerTypeOK /\ VerifyOnly(h) /\ UNCHANGED call
      /\ \A k \in Handlers : VerifyOnly(k)
  BY DEF FetchInv, LegacyTypeOK, Work, clientVars
<1> SUFFICES ASSUME /\ \A k \in Handlers : VerifyOnly(k)'
                    /\ \A k \in Handlers : ~At(k, "idle") =>
                          \/ handler'[k].pc # "idle" /\ handler'[k].req = handler[k].req
                          \/ k = h /\ \A c \in Calls : Started(c) => call[c].slot # h
             PROVE  Fetching'
  <2>1. CASE Serve(h)
    <3>1. /\ handler'[h].req = handler[h].req /\ Serves(h, "verify")
          /\ \A k \in Handlers \ {h} : handler'[k] = handler[k]
          /\ handler'[h].pc \in VerifyPc
      BY <1>1, <2>1, VerifyServes DEF OthersStay, VerifyStep, VerifyPc
    <3>2. /\ \A k \in Handlers : VerifyOnly(k)'
          /\ \A k \in Handlers : ~At(k, "idle") =>
                handler'[k].pc # "idle" /\ handler'[k].req = handler[k].req
      BY <1>1, <3>1 DEF VerifyOnly, At, Serves, VerifyPc
    <3>3. QED  BY <3>2
  <2>2. CASE DatabaseFails(h)
    <3>1. /\ handler[h] \in Busy /\ Answer(h, "ERROR", {})
      BY <1>1, <2>2, BusyHandler DEF DatabaseFails
    <3>2. /\ handler'[h].req = handler[h].req /\ handler'[h].pc = "done"
          /\ \A k \in Handlers \ {h} : handler'[k] = handler[k]
      BY <1>1, <3>1 DEF Answer, Busy, LedgerTypeOK
    <3>3. ~At(h, "idle")
      BY <2>2 DEF DatabaseFails
    <3>4. /\ \A k \in Handlers : VerifyOnly(k)'
          /\ \A k \in Handlers : ~At(k, "idle") =>
                handler'[k].pc # "idle" /\ handler'[k].req = handler[k].req
      BY <1>1, <3>2, <3>3 DEF VerifyOnly, At, Serves, VerifyPc
    <3>5. QED  BY <3>4
  <2>3. CASE Respond(h) /\ \A c \in Calls : Started(c) => call[c].slot # h
    <3>1. handler'[h] = Idle /\ \A k \in Handlers \ {h} : handler'[k] = handler[k]
      BY <1>1, <2>3 DEF Respond, LedgerTypeOK
    <3>2. QED  BY <1>1, <2>3, <3>1 DEF VerifyOnly, At, Serves, Idle
  <2>4. QED  BY <2>1, <2>2, <2>3 DEF Work
<1>2. \A c \in Calls : Waits(c)' <=> Waits(c)
  BY <1>1 DEF Waits, Started
<1>3. ASSUME NEW c \in Calls, Waits(c)
      PROVE  (Sending(c) /\ From(call[c].slot, c))'
  <2>1. Sending(c) /\ From(call[c].slot, c) /\ call[c].slot \in Handlers /\ Started(c)
    BY <1>3 DEF FetchInv, Waits
  <2>2. handler'[call[c].slot].pc # "idle" /\ handler'[call[c].slot].req = handler[call[c].slot].req
    BY <2>1 DEF From
  <2>3. QED  BY <1>1, <2>1, <2>2 DEF Sending, From, At, ExecOf, FpOf
<1>4. \A c, d \in Calls : Waits(c)' /\ Waits(d)' /\ call'[c].slot = call'[d].slot => c = d
  BY <1>1, <1>2 DEF FetchInv
<1>5. QED  BY <1>2, <1>3, <1>4 DEF Fetching

LEMMA CrashFetches ==
    ASSUME FetchInv, ApiCrash \/ \E e \in Execs : Crash(e)
    PROVE  Fetching'
<1>1. LegacyTypeOK /\ NoSlot \notin Handlers /\ Broken \notin Handlers
  BY LegacyAssumption DEF FetchInv
<1>2. CASE ApiCrash
  <2>1. \A h \in Handlers : handler'[h] = Idle
    BY <1>2 DEF ApiCrash, Vanish
  <2>2. \A c \in Calls : ~Waits(c)'
    BY <1>1, <1>2, ApiCrashType DEF Waits, Started
  <2>3. QED  BY <2>1, <2>2 DEF Fetching, VerifyOnly, At, Idle
<1>3. ASSUME NEW e \in Execs, Crash(e)
      PROVE  Fetching'
  <2>1. UNCHANGED handler
    BY <1>1, <1>3, CrashType
  <2>2. \A c \in Calls : Waits(c)' => Waits(c) /\ call'[c] = call[c]
    BY <1>1, <1>3, CrashType DEF Waits, Started
  <2>3. \A h \in Handlers : VerifyOnly(h)'
    BY <2>1 DEF FetchInv, VerifyOnly, At, Serves
  <2>4. \A c \in Calls : Waits(c)' => (Sending(c) /\ From(call[c].slot, c))'
    BY <2>1, <2>2 DEF FetchInv, Sending, From, At, ExecOf, FpOf
  <2>5. \A c, d \in Calls : Waits(c)' /\ Waits(d)' /\ call'[c].slot = call'[d].slot => c = d
    BY <2>2 DEF FetchInv
  <2>6. QED  BY <2>3, <2>4, <2>5 DEF Fetching
<1>4. QED  BY <1>2, <1>3

\* The steps of a call but Send.
CallStep(c) ==
    \/ Start(c) \/ Abort(c) \/ VerifyExecute(c) \/ VerifySkip(c) \/ VerifyError(c)
    \/ ReportDone(c) \/ Act(c) \/ Return(c) \/ ReturnUnreported(c)

LEMMA CallEnds ==
    ASSUME FetchInv, NEW c \in Calls, CallStep(c)
    PROVE  /\ EndsOwn(c) /\ UNCHANGED row
           /\ \E r \in CallState : Become(c, r) /\ r.slot \notin Handlers
<1>1. /\ LegacyTypeOK /\ NoSlot \notin Handlers
      /\ handler \in [Handlers -> {Idle} \cup Busy]
  BY LegacyAssumption DEF FetchInv, LegacyTypeOK, LedgerTypeOK
<1>2. UNCHANGED handler => EndsOwn(c)
  BY DEF EndsOwn
<1>3. Sending(c) => Started(c)
  BY DEF Sending, Started
<1>4. CASE Start(c)
  BY <1>1, <1>2, <1>4, StartType DEF Start
<1>5. CASE Abort(c)
  <2>1. Vanish({call[c].slot}) /\ Waits(c) => EndsOwn(c)
    BY DEF Vanish, EndsOwn
  <2>2. QED  BY <1>1, <1>2, <1>3, <1>5, <2>1, AbortType DEF Left, Waits
<1>6. CASE VerifyExecute(c) \/ VerifySkip(c) \/ VerifyError(c) \/ ReportDone(c)
  <2>1. /\ Waits(c) /\ Respond(call[c].slot) /\ UNCHANGED row /\ call[c] \in CallState
    BY <1>1, <1>3, <1>6, AnsweredType, StartedCall DEF Waits
  <2>2. EndsOwn(c)
    BY <1>1, <2>1 DEF Respond, EndsOwn, Waits
  <2>3. \E r \in CallState : Become(c, r) /\ r.slot = NoSlot
    <3>1. PICK r \in CallState :
            /\ Become(c, r)
            /\ \/ Left(c, r)
               \/ r = InPhase(call[c], "run")
               \/ /\ r = Settle(call[c], "hit", handler[call[c].slot].seen)
                  /\ handler[call[c].slot].seen \in SUBSET MetadataKeys
      BY <1>1, <1>6, AnsweredType
    <3>2. r.slot = NoSlot
      BY <2>1, <3>1, PhaseFields, "run" \in Phases, {} \in SUBSET MetadataKeys DEF Left, Phases
    <3>3. QED  BY <3>1, <3>2
  <2>4. QED  BY <1>1, <2>1, <2>2, <2>3
<1>7. CASE Act(c)
  <2>1. call[c].slot \notin Handlers
    BY <1>7 DEF FetchInv, Act, Waits, Sending, Started
  <2>2. QED  BY <1>1, <1>2, <1>7, <2>1, ActsType DEF Act
<1>8. CASE Return(c) \/ ReturnUnreported(c)
  BY <1>1, <1>2, <1>8, ReturnType
<1>9. QED  BY <1>4, <1>5, <1>6, <1>7, <1>8 DEF CallStep

LEMMA FetchNext ==
    ASSUME "verify" \in Endpoints, FetchInv, [Next]_vars
    PROVE  FetchInv'
<1>1. LegacyTypeOK'
  BY LegacyNextType DEF FetchInv
<1>2. ASSUME NEW c \in Calls, CallStep(c)
      PROVE  Fetching'
  BY <1>2, CallEnds, CallFetches
<1>3. CASE UNCHANGED vars
  <2>1. UNCHANGED <<call, handler>>
    BY <1>3 DEF vars
  <2>2. \A h \in Handlers : VerifyOnly(h)'
    BY <2>1 DEF FetchInv, VerifyOnly, At, Serves
  <2>3. \A c \in Calls : Waits(c)' => (Sending(c) /\ From(call[c].slot, c))'
    BY <2>1 DEF FetchInv, Waits, Started, Sending, From, At, ExecOf, FpOf
  <2>4. \A c, d \in Calls : Waits(c)' /\ Waits(d)' /\ call'[c].slot = call'[d].slot => c = d
    BY <2>1 DEF FetchInv, Waits, Started, Fetching
  <2>5. Fetching'
    BY <2>2, <2>3, <2>4 DEF Fetching
  <2>6. QED  BY <1>1, <2>5 DEF FetchInv, Fetching
<1>4. ASSUME Next
      PROVE  Fetching'
  <2>1. \/ \E c \in Calls : CallStep(c) \/ \E h \in Handlers : Send(c, h)
        \/ \E h \in Handlers : Work(h)
        \/ ApiCrash \/ \E e \in Execs : Crash(e)
    BY <1>4 DEF Next, CallStep
  <2>2. QED  BY <1>2, <2>1, SendFetches, WorkFetches, CrashFetches
<1>5. QED  BY <1>1, <1>3, <1>4 DEF FetchInv, Fetching

LEMMA FetchInit == Init => FetchInv
  BY LegacyInitType DEF Init, LedgerInit, FetchInv, VerifyOnly, At, Idle, Waits, Started, NotStarted

-----------------------------------------------------------------------------
(* Where results come from.                                                 *)

\* The guarded request f took effect somewhere.
Took(f) == \E e \in Execs : acts[e][f] > 0

\* A result in a row, in a request, in a call or in a cache is of a request that
\* took effect.
RowsReal == \A e \in Execs, f \in Fps : "result" \in row[e][f].metadata => Took(f)

RequestsReal ==
    \A h \in Handlers :
        ~At(h, "idle") /\ (handler[h].req.payload \/ "result" \in handler[h].seen)
            => Took(handler[h].req.fp)

CallReal(c) ==
    Started(c) /\ (call[c].acted \/ call[c].pc = "report" \/ "result" \in call[c].value)
        => Took(FpOf(c))

CachesReal == \A e \in Execs, f \in Fps : "result" \in cache[e][f].value => Took(f)

ResultInv ==
    /\ FetchInv
    /\ RowsReal /\ RequestsReal /\ CachesReal
    /\ \A c \in Calls : CallReal(c)

LEMMA TookStays ==
    ASSUME LegacyTypeOK,
           \/ UNCHANGED acts
           \/ \E c \in Calls : acts' = [acts EXCEPT ![ExecOf(c)][FpOf(c)] = @ + 1]
    PROVE  \A f \in Fps : Took(f) => Took(f)'
<1>1. \A e \in Execs, f \in Fps : acts[e][f] > 0 => acts'[e][f] > 0
  BY ActType
<1>2. QED  BY <1>1 DEF Took

LEMMA WorkIsReal ==
    ASSUME ResultInv, NEW h \in Handlers, Work(h)
    PROVE  RowsReal' /\ RequestsReal' /\ CachesReal' /\ \A c \in Calls : CallReal(c)'
<1>1. /\ LedgerTypeOK /\ VerifyOnly(h) /\ UNCHANGED <<call, cache, acts>>
  BY DEF ResultInv, FetchInv, LegacyTypeOK, Work, clientVars
<1>2. \A f : Took(f)' <=> Took(f)
  BY <1>1 DEF Took
<1>3. CachesReal' /\ \A c \in Calls : CallReal(c)'
  BY <1>1, <1>2 DEF ResultInv, CachesReal, CallReal, Started, FpOf
<1> SUFFICES RowsReal' /\ RequestsReal'
  BY <1>3
<1>4. CASE Serve(h)
  <2> SUFFICES ASSUME NEW e \in Execs, NEW f \in Fps,
                      handler[h].req.exec = e, handler[h].req.fp = f
               PROVE  RowsReal' /\ RequestsReal'
    BY <1>1, <1>4, VerifyServes, BusyFields
  <2>1. /\ handler'[h].req = handler[h].req /\ OthersStay(h, e, f) /\ VerifyStep(h, e, f)
        /\ handler[h] \in Busy /\ ~At(h, "idle")
    BY <1>1, <1>4, VerifyServes DEF At, Busy, BusyPc
  <2>2. /\ \A w \in Execs : "result" \in row[w][f].metadata => Took(f)
        /\ "result" \in handler[h].seen => Took(f)
        /\ "result" \in Reported(handler[h].req) => Took(f)
    BY <2>1 DEF ResultInv, RowsReal, RequestsReal, Reported
  <2>3. \A w \in VerifyMatches(e, f, handler[h].req.scope) : w \in Execs
    BY DEF VerifyMatches, WithStatus
  <2>4. "result" \in row'[e][f].metadata => Took(f)
    BY <2>1, <2>2 DEF VerifyStep, NewRow
  <2>5. "result" \in handler'[h].seen => Took(f)
    BY <2>1, <2>2, <2>3 DEF VerifyStep
  <2>6. RowsReal'
    BY <1>2, <2>1, <2>4 DEF ResultInv, RowsReal, OthersStay
  <2>7. RequestsReal'
    BY <1>2, <2>1, <2>5 DEF ResultInv, RequestsReal, OthersStay, At
  <2>8. QED  BY <2>6, <2>7
<1>5. CASE DatabaseFails(h) \/ Respond(h)
  <2>1. UNCHANGED row
    BY <1>5 DEF DatabaseFails, Respond
  <2>2. RowsReal'
    BY <1>2, <2>1 DEF ResultInv, RowsReal
  <2>3. /\ \A k \in Handlers \ {h} : handler'[k] = handler[k]
        /\ \/ handler'[h] = Idle
           \/ ~At(h, "idle") /\ handler'[h].req = handler[h].req /\ handler'[h].seen = {}
    <3>1. CASE Respond(h)
      BY <1>1, <3>1 DEF Respond, LedgerTypeOK
    <3>2. CASE DatabaseFails(h)
      <4>1. handler[h] \in Busy /\ Answer(h, "ERROR", {}) /\ ~At(h, "idle")
        BY <1>1, <3>2, BusyHandler DEF DatabaseFails
      <4>2. QED  BY <1>1, <4>1 DEF Answer, Busy, LedgerTypeOK
    <3>3. QED  BY <1>5, <3>1, <3>2
  <2>4. RequestsReal'
    BY <1>2, <2>3 DEF ResultInv, RequestsReal, At, Idle
  <2>5. QED  BY <2>2, <2>4
<1>6. QED  BY <1>4, <1>5 DEF Work

LEMMA NotServedIsReal ==
    ASSUME ResultInv, UNCHANGED row, \A f \in Fps : Took(f) => Took(f)',
           \A h \in Handlers : handler'[h] = handler[h] \/ handler'[h] = Idle
    PROVE  RowsReal' /\ RequestsReal'
<1>1. RowsReal'
  BY DEF ResultInv, RowsReal
<1>2. ASSUME NEW h \in Handlers, handler'[h] = handler[h], ~At(h, "idle")
      PROVE  handler[h].req.fp \in Fps
  <2>1. handler[h] \in Busy
    BY <1>2, BusyHandler DEF ResultInv, FetchInv, LegacyTypeOK
  <2>2. QED  BY <2>1, BusyFields
<1>3. RequestsReal'
  BY <1>2 DEF ResultInv, RequestsReal, At, Idle
<1>4. QED  BY <1>1, <1>3

LEMMA CallIsReal ==
    ASSUME ResultInv, NEW c \in Calls, CallStep(c)
    PROVE  RowsReal' /\ RequestsReal' /\ CachesReal' /\ \A d \in Calls : CallReal(d)'
<1>1. LegacyTypeOK /\ FetchInv /\ CallReal(c) /\ FpOf(c) \in Fps /\ ExecOf(c) \in Execs
  BY CallOf DEF ResultInv, FetchInv
<1>2. \A f \in Fps : Took(f) => Took(f)'
  <2>1. \/ UNCHANGED acts
        \/ acts' = [acts EXCEPT ![ExecOf(c)][FpOf(c)] = @ + 1]
    BY DEF CallStep, Start, Abort, VerifyExecute, VerifySkip, VerifyError, ReportDone,
       Answered, Act, Return, ReturnUnreported
  <2>2. QED  BY <1>1, <2>1, TookStays
<1>3. RowsReal' /\ RequestsReal'
  BY <1>1, <1>2, CallEnds, NotServedIsReal DEF EndsOwn
<1>4. ASSUME NEW r \in CallState, Become(c, r),
             r.acted \/ r.pc = "report" \/ "result" \in r.value => Took(FpOf(c))'
      PROVE  \A d \in Calls : CallReal(d)'
  <2>1. call'[c] = r /\ \A d \in Calls \ {c} : call'[d] = call[d]
    BY <1>1, <1>4, Becomes
  <2>2. CallReal(c)'
    BY <1>4, <2>1 DEF CallReal, FpOf
  <2>3. ASSUME NEW d \in Calls \ {c}
        PROVE  CallReal(d)'
    BY <1>2, <2>1, CallOf DEF ResultInv, CallReal, Started, FpOf
  <2>4. QED  BY <2>2, <2>3
<1>5. UNCHANGED cache => CachesReal'
  BY <1>2 DEF ResultInv, CachesReal
<1>6. ASSUME NEW value \in SUBSET MetadataKeys, Remember(c, value),
             "result" \in value => Took(FpOf(c))
      PROVE  CachesReal'
  <2>1. \A e \in Execs, f \in Fps : \/ cache'[e][f] = cache[e][f]
                                    \/ f = FpOf(c) /\ cache'[e][f].value = value
    BY <1>1, <1>6, RememberType
  <2>2. QED  BY <1>2, <1>6, <2>1 DEF ResultInv, CachesReal
<1>7. Started(c) => (call[c].acted \/ call[c].pc = "report" \/ "result" \in call[c].value
                        => Took(FpOf(c)) /\ Took(FpOf(c))')
  BY <1>1, <1>2 DEF CallReal
<1>a. CASE Start(c)
  <2>1. UNCHANGED cache /\ ("result" \in cache[ExecOf(c)][FpOf(c)].value => Took(FpOf(c))')
    BY <1>1, <1>2, <1>a DEF Start, ResultInv, CachesReal
  <2>2. PICK r \in CallState :
          /\ Become(c, r) /\ ~r.acted /\ r.pc \in {"verify", "settled"}
          /\ r.value \in {{}, cache[ExecOf(c)][FpOf(c)].value}
    BY <1>1, <1>a, StartType
  <2>3. QED  BY <1>3, <1>4, <1>5, <2>1, <2>2
<1>b. CASE Abort(c)
  <2>1. PICK r : Left(c, r) /\ Become(c, r)
    BY <1>1, <1>b, AbortType
  <2>2. Started(c) /\ UNCHANGED cache
    BY <1>1, <1>b, AbortType DEF Sending, Started
  <2>3. QED  BY <1>3, <1>4, <1>5, <1>7, <2>1, <2>2 DEF Left
<1>c. CASE VerifyExecute(c) \/ VerifySkip(c) \/ VerifyError(c) \/ ReportDone(c)
  <2>1. /\ Waits(c) /\ call[c] \in CallState /\ Respond(call[c].slot)
    BY <1>1, <1>c, AnsweredType, StartedCall DEF Waits, Sending, Started
  <2>2. "result" \in handler[call[c].slot].seen => Took(FpOf(c)) /\ Took(FpOf(c))'
    BY <1>1, <1>2, <2>1 DEF ResultInv, FetchInv, RequestsReal, From, Waits
  <2>3. PICK r \in CallState :
          /\ Become(c, r)
          /\ \/ Left(c, r) /\ UNCHANGED cache
             \/ r = InPhase(call[c], "run") /\ UNCHANGED cache
             \/ /\ r = Settle(call[c], "hit", handler[call[c].slot].seen)
                /\ Remember(c, handler[call[c].slot].seen)
                /\ handler[call[c].slot].seen \in SUBSET MetadataKeys
    BY <1>1, <1>c, AnsweredType
  <2>4. Started(c)
    BY <2>1 DEF Waits
  <2>5. CASE Left(c, r) /\ UNCHANGED cache
    BY <1>3, <1>4, <1>5, <1>7, <2>3, <2>4, <2>5 DEF Left
  <2>6. CASE r = InPhase(call[c], "run") /\ UNCHANGED cache
    <3>1. r.pc = "run" /\ r.acted = call[c].acted /\ r.value = call[c].value
      BY <2>1, <2>6, PhaseFields, "run" \in Phases, {} \in SUBSET MetadataKeys DEF Phases
    <3>2. QED  BY <1>3, <1>4, <1>5, <1>7, <2>3, <2>4, <2>6, <3>1
  <2>7. CASE /\ r = Settle(call[c], "hit", handler[call[c].slot].seen)
             /\ Remember(c, handler[call[c].slot].seen)
             /\ handler[call[c].slot].seen \in SUBSET MetadataKeys
    <3>1. /\ r.pc = "settled" /\ r.acted = call[c].acted
          /\ r.value = handler[call[c].slot].seen
      <4>1. \A v \in SUBSET MetadataKeys :
               /\ Settle(call[c], "hit", v).pc = "settled"
               /\ Settle(call[c], "hit", v).acted = call[c].acted
               /\ Settle(call[c], "hit", v).value = v
        <5> SUFFICES ASSUME NEW v \in SUBSET MetadataKeys
                     PROVE  /\ Settle(call[c], "hit", v).pc = "settled"
                            /\ Settle(call[c], "hit", v).acted = call[c].acted
                            /\ Settle(call[c], "hit", v).value = v
          OBVIOUS
        <5>1. "hit" \in {"response", "hit", "threw", "unavailable"} /\ "run" \in Phases
          BY DEF Phases
        <5>2. QED  BY <2>1, <5>1, PhaseFields
      <4>2. \A v : Settle(call[c], "hit", v) = r /\ v \in SUBSET MetadataKeys
                  => r.pc = "settled" /\ r.acted = call[c].acted /\ r.value = v
        BY <4>1
      <4>3. QED  BY <2>7, <4>2
    <3>2. QED  BY <1>3, <1>4, <1>6, <1>7, <2>2, <2>3, <2>4, <2>7, <3>1
  <2>8. QED  BY <2>3, <2>5, <2>6, <2>7
<1>d. CASE Act(c)
  <2>1. Took(FpOf(c))' /\ UNCHANGED cache
    <3>1. acts'[ExecOf(c)][FpOf(c)] > 0 /\ UNCHANGED cache
      BY <1>1, <1>d, ActType DEF Act
    <3>2. QED  BY <1>1, <3>1 DEF Took, ExecOf, FpOf
  <2>2. QED  BY <1>1, <1>3, <1>4, <1>5, <1>d, <2>1, ActsType
<1>e. CASE Return(c) \/ ReturnUnreported(c)
  <2>1. PICK r \in CallState :
          /\ Become(c, r) /\ r.acted = call[c].acted
          /\ \/ /\ r.pc = "report" /\ call[c].acted /\ r.value = call[c].value
                /\ Remember(c, {"result"})
             \/ r.pc = "settled" /\ r.value = {} /\ UNCHANGED cache
    BY <1>1, <1>e, ReturnType
  <2>2. Started(c) /\ {"result"} \in SUBSET MetadataKeys
    BY <1>1, <1>e, ReturnType DEF Started, MetadataKeys
  <2>3. \A d \in Calls : CallReal(d)'
    BY <1>4, <1>7, <2>1, <2>2
  <2>4. CachesReal'
    BY <1>5, <1>6, <1>7, <2>1, <2>2
  <2>5. QED  BY <1>3, <2>3, <2>4
<1>f. QED  BY <1>a, <1>b, <1>c, <1>d, <1>e DEF CallStep

LEMMA SendIsReal ==
    ASSUME ResultInv, NEW c \in Calls, NEW h \in Handlers, Send(c, h)
    PROVE  RowsReal' /\ RequestsReal' /\ CachesReal' /\ \A d \in Calls : CallReal(d)'
<1>1. LegacyTypeOK /\ CallReal(c) /\ Started(c)
  BY DEF ResultInv, FetchInv, Send, Sending, Started
<1>2. PICK r \in CallState :
        /\ Become(c, r) /\ r.pc = call[c].pc /\ r.acted = call[c].acted /\ r.value = call[c].value
  BY <1>1, SendType
<1>3. call'[c] = r /\ \A d \in Calls \ {c} : call'[d] = call[d]
  BY <1>1, <1>2, Becomes
<1>4. UNCHANGED <<row, cache, acts>>
  BY DEF Send, Receive
<1>5. \A f : Took(f)' <=> Took(f)
  BY <1>4 DEF Took
<1>6. /\ handler'[h].req = RequestOf(c) /\ handler'[h].seen = {}
      /\ \A k \in Handlers \ {h} : handler'[k] = handler[k]
  BY <1>1 DEF Send, Receive, LegacyTypeOK, LedgerTypeOK
<1>7. RequestOf(c).payload => Took(RequestOf(c).fp)
  BY <1>1 DEF RequestOf, CallReal
<1>8. RequestsReal'
  BY <1>5, <1>6, <1>7 DEF ResultInv, RequestsReal, At
<1>9. \A d \in Calls : CallReal(d)'
  BY <1>1, <1>2, <1>3, <1>5 DEF ResultInv, CallReal, Started, FpOf
<1>10. RowsReal' /\ CachesReal'
  BY <1>4, <1>5 DEF ResultInv, RowsReal, CachesReal
<1>11. QED  BY <1>8, <1>9, <1>10

LEMMA CrashIsReal ==
    ASSUME ResultInv, ApiCrash \/ \E e \in Execs : Crash(e)
    PROVE  RowsReal' /\ RequestsReal' /\ CachesReal' /\ \A d \in Calls : CallReal(d)'
<1>1. LegacyTypeOK
  BY DEF ResultInv, FetchInv
<1>2. /\ UNCHANGED <<row, cache, acts>>
      /\ \A h \in Handlers : handler'[h] = handler[h] \/ handler'[h] = Idle
      /\ \A c \in Calls :
            \/ call'[c] = call[c]
            \/ /\ Started(c) /\ call'[c].acted = call[c].acted /\ call'[c].value = call[c].value
               /\ call'[c].pc = "report" => call[c].pc = "report"
  <2>1. CASE ApiCrash
    BY <1>1, <2>1, ApiCrashType DEF ApiCrash, Vanish
  <2>2. CASE \E e \in Execs : Crash(e)
    BY <1>1, <2>2, CrashType
  <2>3. QED  BY <2>1, <2>2
<1>3. \A f : Took(f)' <=> Took(f)
  BY <1>2 DEF Took
<1>4. RowsReal' /\ RequestsReal'
  BY <1>2, <1>3, NotServedIsReal
<1>5. CachesReal'
  BY <1>2, <1>3 DEF ResultInv, CachesReal
<1>6. \A c \in Calls : CallReal(c)'
  BY <1>2, <1>3 DEF ResultInv, CallReal, Started, FpOf
<1>7. QED  BY <1>4, <1>5, <1>6

LEMMA ResultNext ==
    ASSUME "verify" \in Endpoints, ResultInv, [Next]_vars
    PROVE  ResultInv'
<1>1. FetchInv'
  BY FetchNext DEF ResultInv
<1>2. CASE UNCHANGED vars
  <2>1. UNCHANGED <<row, handler, call, cache, acts>> /\ \A f : Took(f)' <=> Took(f)
    BY <1>2 DEF vars, Took
  <2>2. RowsReal' /\ RequestsReal' /\ CachesReal'
    BY <2>1 DEF ResultInv, RowsReal, RequestsReal, CachesReal, At
  <2>3. \A c \in Calls : CallReal(c)'
    BY <2>1 DEF ResultInv, CallReal, Started, FpOf
  <2>4. QED  BY <1>1, <2>2, <2>3 DEF ResultInv
<1>3. CASE Next
  <2>1. \/ \E c \in Calls : CallStep(c) \/ \E h \in Handlers : Send(c, h)
        \/ \E h \in Handlers : Work(h)
        \/ ApiCrash \/ \E e \in Execs : Crash(e)
    BY <1>3 DEF Next, CallStep
  <2>2. RowsReal' /\ RequestsReal' /\ CachesReal' /\ \A d \in Calls : CallReal(d)'
    BY <2>1, CallIsReal, SendIsReal, WorkIsReal, CrashIsReal
  <2>3. QED  BY <1>1, <2>2 DEF ResultInv
<1>4. QED  BY <1>2, <1>3

LEMMA ResultInit == Init => ResultInv
<1>1. Init => RowsReal /\ RequestsReal /\ CachesReal
  BY DEF Init, LedgerInit, RowsReal, RequestsReal, CachesReal, NoRow, NewRow, At, Idle, Miss
<1>2. Init => \A c \in Calls : CallReal(c)
  BY DEF Init, CallReal, Started, NotStarted
<1>3. QED  BY <1>1, <1>2, FetchInit DEF ResultInv

\* The body of a response that verify replays is of a request that took effect,
\* although verify writes COMMITTED before anything has: a row that only was
\* claimed has no result in it, and nothing but a report puts one there.
THEOREM ResponsesAreReal ==
    ASSUME "verify" \in Endpoints
    PROVE  Spec => []ReplaysAResponse
<1>1. ResultInv => ReplaysAResponse
  BY DEF ResultInv, CallReal, ReplaysAResponse, Took
<1>2. ResultInv /\ [Next]_vars => ResultInv'
  BY ResultNext
<1>3. QED  BY <1>1, <1>2, ResultInit, PTL DEF Spec

-----------------------------------------------------------------------------
(***************************************************************************)
(* Requests that another execution had made.  The theorem is about calls   *)
(* that differ in their execution or in their request: two calls of one    *)
(* execution with the same request share a row, and once verify has        *)
(* written it COMMITTED for one of them, it tells the other to EXECUTE.    *)
(***************************************************************************)

OneCallEach == \A c, d \in Calls : ExecOf(c) = ExecOf(d) /\ FpOf(c) = FpOf(d) => c = d

\* c must not make its request: at its start another execution had.
Warned(c) == Started(c) /\ call[c].known /\ FailPolicy[ExecOf(c)] = "CLOSED"

\* h cannot answer EXECUTE: its search will find, or found, another's row.
Skips(h, c) ==
    /\ handler[h].req.scope = ScopeOf[c] /\ handler[h].pc \in {"received", "recordSkip", "done"}
    /\ At(h, "done") => handler[h].answer # "EXECUTE"

\* The row that verify finds, and that it cannot find c's own.
MadeElsewhere(c) ==
    /\ row[ExecOf(c)][FpOf(c)].status # "COMMITTED"
    /\ \E w \in Execs : /\ row[w][FpOf(c)].status = "COMMITTED"
                        /\ ScopeOf[c] = "PROJECT" \/ JobOf[w] = JobOf[ExecOf(c)]

HeldBack(c) ==
    /\ ~call[c].acted /\ call[c].pc \in {"verify", "settled", "dead"}
    /\ MadeElsewhere(c)
    /\ \A h \in Handlers : From(h, c) => Skips(h, c)

Sent(h) == ~At(h, "idle") => \E c \in Calls : Started(c) /\ From(h, c)

Knowing ==
    /\ \A h \in Handlers : Sent(h)
    /\ \A c \in Calls : Warned(c) => HeldBack(c)

KnownInv == FetchInv /\ Knowing

LEMMA FromOne ==
    ASSUME OneCallEach, NEW h \in Handlers, NEW c \in Calls, NEW d \in Calls,
           From(h, c), From(h, d)
    PROVE  c = d
  BY DEF OneCallEach, From

\* A step that serves nothing keeps a call back.
LEMMA StaysHeld ==
    ASSUME NEW c \in Calls, HeldBack(c), UNCHANGED row,
           ~call'[c].acted, call'[c].pc \in {"verify", "settled", "dead"},
           \A h \in Handlers : handler'[h] = handler[h] \/ handler'[h] = Idle
    PROVE  HeldBack(c)'
<1>1. MadeElsewhere(c)'
  BY DEF HeldBack, MadeElsewhere, ExecOf, FpOf
<1>2. ASSUME NEW h \in Handlers, From(h, c)'
      PROVE  Skips(h, c)'
  <2>1. handler'[h] = handler[h] /\ From(h, c)
    BY <1>2 DEF From, At, Idle, ExecOf, FpOf
  <2>2. QED  BY <2>1 DEF HeldBack, Skips, At
<1>3. QED  BY <1>1, <1>2 DEF HeldBack

\* ... and every request that is left is of a call, if calls stay started.
LEMMA StaySent ==
    ASSUME \A h \in Handlers : Sent(h),
           \A h \in Handlers : handler'[h] = handler[h] \/ handler'[h] = Idle,
           \A c \in Calls : Started(c) => Started(c)'
    PROVE  \A h \in Handlers : Sent(h)'
<1> SUFFICES ASSUME NEW h \in Handlers, handler'[h] = handler[h], ~At(h, "idle")
             PROVE  \E c \in Calls : (Started(c) /\ From(h, c))'
  BY DEF Sent, At, Idle
<1>1. PICK c \in Calls : Started(c) /\ From(h, c)
  BY DEF Sent
<1>2. (Started(c) /\ From(h, c))'
  BY <1>1 DEF From, At, ExecOf, FpOf
<1>3. QED  BY <1>2

\* A call that starts is warned only by the row of another.
LEMMA StartIsHeld ==
    ASSUME KnownInv, OneCallEach, NEW c \in Calls, Start(c), Warned(c)'
    PROVE  HeldBack(c)'
<1>1. /\ LegacyTypeOK /\ UNCHANGED <<row, handler>> /\ ~Started(c)
  BY DEF KnownInv, FetchInv, Start
<1>2. PICK r \in CallState :
        /\ Become(c, r) /\ ~r.acted /\ r.pc \in {"verify", "settled"}
        /\ r.known => /\ VerifyMatches(ExecOf(c), FpOf(c), ScopeOf[c]) # {}
                      /\ ~Exists(ExecOf(c), FpOf(c))
  BY <1>1, StartType
<1>3. call'[c] = r /\ r.known
  BY <1>1, <1>2, Becomes DEF Warned
<1>4. MadeElsewhere(c)
  <2>1. row[ExecOf(c)][FpOf(c)].status = "NONE"
    BY <1>2, <1>3 DEF Exists
  <2>2. PICK w \in VerifyMatches(ExecOf(c), FpOf(c), ScopeOf[c]) : TRUE
    BY <1>2, <1>3
  <2>3. /\ w \in Execs /\ row[w][FpOf(c)].status = "COMMITTED"
        /\ ScopeOf[c] = "PROJECT" \/ JobOf[w] = JobOf[ExecOf(c)]
    BY <2>2 DEF VerifyMatches, WithStatus
  <2>4. QED  BY <2>1, <2>3 DEF MadeElsewhere
<1>5. ASSUME NEW h \in Handlers, From(h, c)
      PROVE  FALSE
  <2>1. PICK d \in Calls : Started(d) /\ From(h, d)
    BY <1>5 DEF KnownInv, Knowing, Sent, From
  <2>2. d = c
    BY <1>5, <2>1, FromOne
  <2>3. QED  BY <1>1, <2>1, <2>2
<1>6. \A h \in Handlers : ~From(h, c)'
  BY <1>1, <1>5 DEF From, At, ExecOf, FpOf
<1>7. MadeElsewhere(c)'
  BY <1>1, <1>4 DEF MadeElsewhere, ExecOf, FpOf
<1>8. QED  BY <1>2, <1>3, <1>6, <1>7 DEF HeldBack

\* No other step of a call that is kept back makes its request.
LEMMA CallIsHeld ==
    ASSUME KnownInv, NEW c \in Calls, CallStep(c), ~Start(c), Warned(c)'
    PROVE  HeldBack(c)'
<1>1. LegacyTypeOK /\ FetchInv /\ UNCHANGED row /\ EndsOwn(c)
  BY CallEnds DEF KnownInv, FetchInv
<1> DEFINE Same(r) == r.acted = call[c].acted /\ r.known = call[c].known
           Back(r) == Same(r) /\ (HeldBack(c) => r.pc \in {"verify", "settled", "dead"})
<1>2. ASSUME NEW r \in CallState, Become(c, r), Started(c), Back(r),
             FailPolicy[ExecOf(c)] = "CLOSED"
      PROVE  HeldBack(c)'
  <2>1. call'[c] = r
    BY <1>1, <1>2, Becomes
  <2>2. Warned(c)
    BY <1>2, <2>1 DEF Warned
  <2>3. HeldBack(c)
    BY <2>2 DEF KnownInv, Knowing
  <2>4. ~call'[c].acted /\ call'[c].pc \in {"verify", "settled", "dead"}
    BY <1>2, <2>1, <2>3 DEF HeldBack
  <2>5. QED  BY <1>1, <2>3, <2>4, StaysHeld DEF EndsOwn
<1>3. FailPolicy[ExecOf(c)] = "CLOSED"
  BY DEF Warned, ExecOf
<1>4. ASSUME NEW r, Left(c, r), Started(c)
      PROVE  r \in CallState /\ Back(r)
  BY <1>3, <1>4 DEF Left, HeldBack, CallState
<1>5. HeldBack(c) => call[c].pc # "run"
  BY DEF HeldBack
<1>b. CASE Abort(c)
  <2>1. PICK r : Left(c, r) /\ Become(c, r)
    BY <1>1, <1>b, AbortType
  <2>2. Started(c)
    BY <1>1, <1>b, AbortType DEF Sending, Started
  <2>3. r \in CallState /\ Back(r)
    BY <1>4, <2>1, <2>2
  <2>4. QED  BY <1>2, <1>3, <2>1, <2>2, <2>3
<1>c. CASE VerifyExecute(c) \/ VerifySkip(c) \/ VerifyError(c) \/ ReportDone(c)
  <2>1. /\ Waits(c) /\ call[c] \in CallState /\ Respond(call[c].slot) /\ Started(c)
    BY <1>1, <1>c, AnsweredType, StartedCall DEF Waits, Sending, Started
  <2>2. HeldBack(c) => handler[call[c].slot].answer # "EXECUTE"
    BY <1>1, <2>1 DEF FetchInv, HeldBack, Skips, Respond, Waits
  <2>3. PICK r \in CallState :
          /\ Become(c, r)
          /\ \/ Left(c, r)
             \/ handler[call[c].slot].answer = "EXECUTE" /\ r = InPhase(call[c], "run")
             \/ /\ r = Settle(call[c], "hit", handler[call[c].slot].seen)
                /\ handler[call[c].slot].seen \in SUBSET MetadataKeys
    BY <1>1, <1>c, AnsweredType
  <2>4. Back(r)
    <3>1. CASE Left(c, r)
      BY <1>4, <2>1, <3>1
    <3>2. CASE handler[call[c].slot].answer = "EXECUTE" /\ r = InPhase(call[c], "run")
      <4>1. {} \in SUBSET MetadataKeys /\ "run" \in Phases
        BY DEF Phases
      <4>2. r.acted = call[c].acted /\ r.known = call[c].known
        BY <2>1, <3>2, <4>1, PhaseFields
      <4>3. QED  BY <2>2, <3>2, <4>2
    <3>3. ASSUME NEW v \in SUBSET MetadataKeys, r = Settle(call[c], "hit", v)
          PROVE  Back(r)
      <4>1. "hit" \in {"response", "hit", "threw", "unavailable"} /\ "run" \in Phases
        BY DEF Phases
      <4>2. QED  BY <2>1, <3>3, <4>1, PhaseFields
    <3>4. QED  BY <2>3, <3>1, <3>2, <3>3
  <2>5. QED  BY <1>2, <1>3, <2>1, <2>3, <2>4
<1>d. CASE Act(c)
  <2>1. /\ call[c].pc = "run" /\ Started(c)
        /\ \E r \in CallState : Become(c, r) /\ r.known = call[c].known
    BY <1>1, <1>d, ActsType DEF Started
  <2>2. Warned(c)
    BY <1>1, <1>3, <2>1, Becomes DEF Warned
  <2>3. QED  BY <1>5, <2>1, <2>2 DEF KnownInv, Knowing
<1>e. CASE Return(c) \/ ReturnUnreported(c)
  <2>1. PICK r \in CallState : Become(c, r) /\ r.known = call[c].known
    BY <1>1, <1>e, ReturnType
  <2>2. call[c].pc = "run" /\ Started(c)
    BY <1>1, <1>e, ReturnType DEF Started
  <2>3. Warned(c)
    BY <1>1, <1>3, <2>1, <2>2, Becomes DEF Warned
  <2>4. QED  BY <1>5, <2>2, <2>3 DEF KnownInv, Knowing
<1>f. QED  BY <1>b, <1>c, <1>d, <1>e DEF CallStep

LEMMA CallKnows ==
    ASSUME KnownInv, OneCallEach, NEW c \in Calls, CallStep(c)
    PROVE  Knowing'
<1>1. LegacyTypeOK /\ UNCHANGED row /\ EndsOwn(c)
  BY CallEnds DEF KnownInv, FetchInv
<1>2. PICK r \in CallState : Become(c, r)
  BY CallEnds DEF KnownInv
<1>3. call'[c] = r /\ \A d \in Calls \ {c} : call'[d] = call[d]
  BY <1>1, <1>2, Becomes
<1>4. \A d \in Calls : Started(d) => Started(d)'
  BY <1>3 DEF Started, CallState
<1>5. \A h \in Handlers : Sent(h)'
  BY <1>1, <1>4, StaySent DEF KnownInv, Knowing, EndsOwn
<1>6. Warned(c)' => HeldBack(c)'
  BY StartIsHeld, CallIsHeld
<1>7. ASSUME NEW d \in Calls \ {c}, Warned(d)'
      PROVE  HeldBack(d)'
  <2>1. Warned(d) /\ call'[d] = call[d]
    BY <1>3, <1>7 DEF Warned, Started, ExecOf
  <2>2. HeldBack(d)
    BY <2>1 DEF KnownInv, Knowing
  <2>3. QED  BY <1>1, <2>1, <2>2, StaysHeld DEF HeldBack, EndsOwn
<1>8. QED  BY <1>5, <1>6, <1>7 DEF Knowing

LEMMA SendKnows ==
    ASSUME KnownInv, OneCallEach, NEW c \in Calls, NEW h \in Handlers, Send(c, h)
    PROVE  Knowing'
<1>1. LegacyTypeOK /\ Started(c) /\ Sending(c) /\ UNCHANGED row
  BY DEF KnownInv, FetchInv, Send, Sending, Started, Receive
<1>2. PICK r \in CallState :
        /\ Become(c, r) /\ r.pc = call[c].pc /\ r.acted = call[c].acted /\ r.known = call[c].known
  BY <1>1, SendType
<1>3. call'[c] = r /\ \A d \in Calls \ {c} : call'[d] = call[d]
  BY <1>1, <1>2, Becomes
<1>4. /\ handler'[h].pc = "received" /\ handler'[h].req = RequestOf(c)
      /\ \A k \in Handlers \ {h} : handler'[k] = handler[k]
  BY <1>1 DEF Send, Receive, LegacyTypeOK, LedgerTypeOK
<1>5. From(h, c)'
  BY <1>4 DEF From, At, RequestOf, ExecOf, FpOf
<1>6. \A d \in Calls : /\ call'[d].pc = call[d].pc /\ call'[d].acted = call[d].acted
                       /\ Warned(d)' => Warned(d)
                       /\ Started(d) => Started(d)'
  BY <1>1, <1>2, <1>3 DEF Warned, Started, ExecOf
<1>7. ASSUME NEW k \in Handlers
      PROVE  Sent(k)'
  <2>1. CASE k = h
    BY <1>1, <1>5, <1>6, <2>1 DEF Sent
  <2>2. CASE k # h /\ ~At(k, "idle")'
    <3>1. handler'[k] = handler[k] /\ ~At(k, "idle")
      BY <1>4, <2>2 DEF At
    <3>2. PICK d \in Calls : Started(d) /\ From(k, d)
      BY <3>1 DEF KnownInv, Knowing, Sent
    <3>3. (Started(d) /\ From(k, d))'
      BY <1>6, <3>1, <3>2 DEF From, At, ExecOf, FpOf
    <3>4. QED  BY <3>3 DEF Sent
  <2>3. QED  BY <2>1, <2>2 DEF Sent
<1>8. ASSUME NEW d \in Calls, Warned(d)'
      PROVE  HeldBack(d)'
  <2>1. HeldBack(d)
    BY <1>6, <1>8 DEF KnownInv, Knowing
  <2>2. MadeElsewhere(d)'
    BY <1>1, <2>1 DEF HeldBack, MadeElsewhere, ExecOf, FpOf
  <2>3. ASSUME NEW k \in Handlers, From(k, d)'
        PROVE  Skips(k, d)'
    <3>1. CASE k # h
      BY <1>4, <2>1, <2>3, <3>1 DEF From, At, ExecOf, FpOf, HeldBack, Skips
    <3>2. CASE k = h
      <4>1. d = c
        BY <1>4, <2>3, <3>2 DEF From, RequestOf, OneCallEach, ExecOf, FpOf
      <4>2. call[c].pc = "verify"
        BY <1>1, <2>1, <4>1 DEF HeldBack, Sending
      <4>3. QED  BY <1>4, <3>2, <4>1, <4>2 DEF Skips, At, RequestOf
    <3>3. QED  BY <3>1, <3>2
  <2>4. QED  BY <1>6, <2>1, <2>2, <2>3 DEF HeldBack
<1>9. QED  BY <1>7, <1>8 DEF Knowing

\* What a database call does to a call that is kept back.
LEMMA ServeHolds ==
    ASSUME FetchInv, NEW h \in Handlers, Serve(h), UNCHANGED call,
           NEW c \in Calls, HeldBack(c)
    PROVE  HeldBack(c)'
<1> SUFFICES ASSUME NEW e \in Execs, NEW f \in Fps,
                    handler[h].req.exec = e, handler[h].req.fp = f
             PROVE  HeldBack(c)'
  BY VerifyServes, BusyFields DEF FetchInv, LegacyTypeOK
<1>1. /\ handler'[h].req = handler[h].req /\ OthersStay(h, e, f) /\ VerifyStep(h, e, f)
      /\ ~At(h, "idle") /\ ExecOf(c) \in Execs /\ FpOf(c) \in Fps
  BY VerifyServes, CallOf DEF FetchInv, LegacyTypeOK, At, Busy, BusyPc
<1>2. row[e][f].status = "COMMITTED" => row'[e][f].status = "COMMITTED"
  BY <1>1 DEF VerifyStep
<1>3. \A w \in Execs, g \in Fps : row[w][g].status = "COMMITTED" => row'[w][g].status = "COMMITTED"
  BY <1>1, <1>2 DEF OthersStay
<1>4. From(h, c) => /\ row'[e][f].status # "COMMITTED"
                    /\ Skips(h, c)'
  <2> SUFFICES ASSUME From(h, c)
               PROVE  row'[e][f].status # "COMMITTED" /\ Skips(h, c)'
    OBVIOUS
  <2>1. Skips(h, c) /\ e = ExecOf(c) /\ f = FpOf(c) /\ row[e][f].status # "COMMITTED"
    BY DEF HeldBack, MadeElsewhere, From
  <2>2. e \notin VerifyMatches(e, f, handler[h].req.scope)
    BY <2>1 DEF VerifyMatches, WithStatus
  <2>3. VerifyMatches(e, f, handler[h].req.scope) # {}
    <3>1. PICK w \in Execs : /\ row[w][f].status = "COMMITTED"
                             /\ ScopeOf[c] = "PROJECT" \/ JobOf[w] = JobOf[e]
      BY <2>1 DEF HeldBack, MadeElsewhere
    <3>2. w \in VerifyMatches(e, f, handler[h].req.scope)
      BY <2>1, <3>1 DEF VerifyMatches, WithStatus, Skips
    <3>3. QED  BY <3>2
  <2>4. CASE handler[h].pc = "received"
    BY <1>1, <2>1, <2>2, <2>3, <2>4 DEF VerifyStep, Skips, At
  <2>5. CASE handler[h].pc = "recordSkip"
    BY <1>1, <2>1, <2>5 DEF VerifyStep, Skips, At, NewRow
  <2>6. QED  BY <1>1, <2>1, <2>4, <2>5 DEF Skips, VerifyStep
<1>5. MadeElsewhere(c)'
  <2>1. row'[ExecOf(c)][FpOf(c)].status # "COMMITTED"
    <3>1. CASE e = ExecOf(c) /\ f = FpOf(c)
      BY <1>1, <1>4, <3>1 DEF From
    <3>2. CASE ~(e = ExecOf(c) /\ f = FpOf(c))
      BY <1>1, <3>2 DEF OthersStay, HeldBack, MadeElsewhere
    <3>3. QED  BY <3>1, <3>2
  <2>2. QED  BY <1>1, <1>3, <2>1 DEF HeldBack, MadeElsewhere, ExecOf, FpOf
<1>6. ASSUME NEW k \in Handlers, From(k, c)'
      PROVE  Skips(k, c)'
  <2>1. CASE k = h
    BY <1>1, <1>4, <1>6, <2>1 DEF From, ExecOf, FpOf
  <2>2. CASE k # h
    BY <1>1, <1>6, <2>2 DEF OthersStay, From, At, ExecOf, FpOf, HeldBack, Skips
  <2>3. QED  BY <2>1, <2>2
<1>7. QED  BY <1>5, <1>6 DEF HeldBack

LEMMA WorkKnows ==
    ASSUME KnownInv, NEW h \in Handlers, Work(h)
    PROVE  Knowing'
<1>1. /\ LedgerTypeOK /\ FetchInv /\ VerifyOnly(h) /\ UNCHANGED call
  BY DEF KnownInv, FetchInv, LegacyTypeOK, Work, clientVars
<1>2. \A k \in Handlers \ {h} : handler'[k] = handler[k]
  BY <1>1, VerifyServes DEF Work, DatabaseFails, Respond, Answer, LedgerTypeOK, OthersStay
<1>3. \/ At(h, "idle") \/ handler'[h] = Idle \/ handler'[h].req = handler[h].req
  BY <1>1, VerifyServes, BusyHandler
     DEF Work, DatabaseFails, Respond, Answer, LedgerTypeOK, Busy
<1>4. ~At(h, "idle")
  BY <1>1, VerifyServes DEF Work, DatabaseFails, Respond, At, Busy, BusyPc
<1>5. ASSUME NEW k \in Handlers, ~At(k, "idle")'
      PROVE  \E c \in Calls : (Started(c) /\ From(k, c))'
  <2>1. ~At(k, "idle") /\ handler'[k].req = handler[k].req
    BY <1>2, <1>3, <1>4, <1>5 DEF At, Idle
  <2>2. PICK c \in Calls : Started(c) /\ From(k, c)
    BY <2>1 DEF KnownInv, Knowing, Sent
  <2>3. (Started(c) /\ From(k, c))'
    BY <1>1, <1>5, <2>1, <2>2 DEF Started, From, ExecOf, FpOf
  <2>4. QED  BY <2>3
<1>6. ASSUME NEW c \in Calls, Warned(c)'
      PROVE  HeldBack(c)'
  <2>1. HeldBack(c)
    BY <1>1, <1>6 DEF Warned, Started, ExecOf, KnownInv, Knowing
  <2>2. CASE Serve(h)
    BY <1>1, <2>1, <2>2, ServeHolds
  <2>3. CASE Respond(h)
    <3>1. handler'[h] = Idle /\ UNCHANGED row
      BY <1>1, <2>3 DEF Respond, LedgerTypeOK
    <3>2. QED  BY <1>1, <1>2, <2>1, <3>1, StaysHeld DEF HeldBack
  <2>4. CASE DatabaseFails(h)
    <3>1. /\ UNCHANGED row /\ handler'[h].req = handler[h].req
          /\ handler'[h].pc = "done" /\ handler'[h].answer = "ERROR"
      BY <1>1, <1>4, <2>4, BusyHandler DEF DatabaseFails, Answer, Busy, LedgerTypeOK
    <3>2. MadeElsewhere(c)'
      BY <2>1, <3>1 DEF HeldBack, MadeElsewhere, ExecOf, FpOf
    <3>3. ASSUME NEW k \in Handlers, From(k, c)'
          PROVE  Skips(k, c)'
      <4>1. CASE k = h
        BY <1>4, <2>1, <3>1, <3>3, <4>1 DEF From, ExecOf, FpOf, HeldBack, Skips, At
      <4>2. CASE k # h
        BY <1>2, <2>1, <3>3, <4>2 DEF From, At, ExecOf, FpOf, HeldBack, Skips
      <4>3. QED  BY <4>1, <4>2
    <3>4. QED  BY <1>1, <2>1, <3>2, <3>3 DEF HeldBack
  <2>5. QED  BY <2>2, <2>3, <2>4 DEF Work
<1>7. QED  BY <1>5, <1>6 DEF Knowing, Sent

LEMMA CrashKnows ==
    ASSUME KnownInv, ApiCrash \/ \E e \in Execs : Crash(e)
    PROVE  Knowing'
<1>1. LegacyTypeOK
  BY DEF KnownInv, FetchInv
<1>2. /\ UNCHANGED row
      /\ \A h \in Handlers : handler'[h] = handler[h] \/ handler'[h] = Idle
      /\ \A c \in Calls :
            \/ call'[c] = call[c]
            \/ /\ Started(c) /\ call'[c] \in CallState /\ call'[c].acted = call[c].acted
               /\ call'[c].known = call[c].known /\ call'[c].pc \in {"dead", call[c].pc}
  <2>1. CASE ApiCrash
    BY <1>1, <2>1, ApiCrashType DEF ApiCrash, Vanish
  <2>2. CASE \E e \in Execs : Crash(e)
    BY <1>1, <2>2, CrashType
  <2>3. QED  BY <2>1, <2>2
<1>3. \A c \in Calls : (Started(c) => Started(c)') /\ (Warned(c)' => Warned(c))
  BY <1>2 DEF Started, Warned, CallState, ExecOf
<1>4. \A h \in Handlers : Sent(h)'
  BY <1>2, <1>3, StaySent DEF KnownInv, Knowing
<1>5. ASSUME NEW c \in Calls, Warned(c)'
      PROVE  HeldBack(c)'
  <2>1. HeldBack(c)
    BY <1>3, <1>5 DEF KnownInv, Knowing
  <2>2. ~call'[c].acted /\ call'[c].pc \in {"verify", "settled", "dead"}
    BY <1>2, <2>1 DEF HeldBack
  <2>3. QED  BY <1>2, <2>1, <2>2, StaysHeld
<1>6. QED  BY <1>4, <1>5 DEF Knowing

LEMMA KnownNext ==
    ASSUME "verify" \in Endpoints, OneCallEach, KnownInv, [Next]_vars
    PROVE  KnownInv'
<1>1. FetchInv'
  BY FetchNext DEF KnownInv
<1>2. CASE UNCHANGED vars
  <2>1. UNCHANGED <<row, handler, call>>
    BY <1>2 DEF vars
  <2>2. \A c \in Calls : (Started(c) => Started(c)') /\ (Warned(c)' => Warned(c))
    BY <2>1 DEF Started, Warned, ExecOf
  <2>3. \A h \in Handlers : Sent(h)'
    BY <2>1, <2>2, StaySent DEF KnownInv, Knowing
  <2>4. \A c \in Calls : Warned(c)' => HeldBack(c)'
    BY <2>1, <2>2, StaysHeld DEF KnownInv, Knowing, HeldBack
  <2>5. QED  BY <1>1, <2>3, <2>4 DEF KnownInv, Knowing
<1>3. CASE Next
  <2>1. \/ \E c \in Calls : CallStep(c) \/ \E h \in Handlers : Send(c, h)
        \/ \E h \in Handlers : Work(h)
        \/ ApiCrash \/ \E e \in Execs : Crash(e)
    BY <1>3 DEF Next, CallStep
  <2>2. Knowing'
    BY <2>1, CallKnows, SendKnows, WorkKnows, CrashKnows
  <2>3. QED  BY <1>1, <2>2 DEF KnownInv
<1>4. QED  BY <1>2, <1>3

LEMMA KnownInit == Init => KnownInv
<1>1. Init => Knowing
  BY DEF Init, LedgerInit, Knowing, Sent, At, Idle, Warned, Started, NotStarted
<1>2. QED  BY <1>1, FetchInit DEF KnownInv

\* Under failPolicy CLOSED, a request that another execution had made is not
\* made again: whatever is lost, repeated or cut short, its verify can only
\* find the other's row, for nothing takes that row's COMMITTED back and only
\* an execution's own requests write its own row.
THEOREM KnownIsNotRepeated ==
    ASSUME "verify" \in Endpoints, OneCallEach
    PROVE  Spec => []MadeOnce
<1>1. KnownInv => MadeOnce
  BY DEF KnownInv, Knowing, Warned, HeldBack, MadeOnce
<1>2. KnownInv /\ [Next]_vars => KnownInv'
  BY KnownNext
<1>3. QED  BY <1>1, <1>2, KnownInit, PTL DEF Spec
=============================================================================
