---------------------------- MODULE LegacyGuard ----------------------------
(***************************************************************************)
(* guard.fetch() of the SDK, the older protocol: verify, which writes the  *)
(* COMMITTED row before anything has happened, the guarded request itself, *)
(* and a second verify that reports its result.  The API's side of it is   *)
(* EffectLedger.  Processes die, requests get lost, time out and are sent  *)
(* again while the API still works at the ones that were given up.         *)
(***************************************************************************)
EXTENDS EffectLedger

CONSTANTS
    Calls,          \* invocations of guard.fetch()
    CallFor,        \* CallFor[c]: the execution and the fingerprint of call c
    ScopeOf,        \* ScopeOf[c]: the scope call c passes to verify
    FailPolicy,     \* FailPolicy[e]: "OPEN" or "CLOSED"
    MaxRetries,     \* network.maxRetries
    Faults          \* which of "crash", "apiCrash", "network", "database" may happen

NoSlot == "noSlot"
Broken == "broken"

ASSUME LegacyAssumption ==
    /\ CallFor \in [Calls -> [exec: Execs, fp: Fps]]
    /\ ScopeOf \in [Calls -> Scope]
    /\ FailPolicy \in [Execs -> {"OPEN", "CLOSED"}]
    /\ MaxRetries \in Nat
    /\ Faults \subseteq {"crash", "apiCrash", "network", "database"}
    /\ {NoSlot, Broken} \cap Handlers = {}

VARIABLES
    call,           \* call[c]: where the invocation is
    alive,          \* alive[e]: the process running execution e has not died
    cache,          \* cache[e]: localCache of e's SDK instance
    acts            \* acts[e][f]: how often request f took effect for e

vars == <<row, handler, call, alive, cache, acts>>
clientVars == <<call, alive, cache, acts>>

-----------------------------------------------------------------------------
(* State of an invocation.                                                  *)

\* known is history: when fetch() was called, another execution in scope had
\* the request COMMITTED, and its own had no row for it.
CallState ==
    [pc: {"verify", "run", "report", "settled", "dead"}, tries: 0..MaxRetries,
     slot: Handlers \cup {NoSlot, Broken}, acted: BOOLEAN, known: BOOLEAN,
     result: {"none", "response", "hit", "threw", "unavailable"},
     value: SUBSET MetadataKeys]

NotStarted == [pc |-> "idle"]

Miss == [hit |-> FALSE, value |-> {}]

ExecOf(c) == CallFor[c].exec
FpOf(c) == CallFor[c].fp

Started(c) == call[c].pc # "idle"
Sending(c) == call[c].pc \in {"verify", "report"}

Become(c, r) == call' = [call EXCEPT ![c] = r]

InPhase(r, pc) == [r EXCEPT !.pc = pc, !.tries = 0, !.slot = NoSlot]
Settle(r, result, value) ==
    [InPhase(r, "settled") EXCEPT !.result = result, !.value = value]

\* Mutant of Unverified: the fail policy is not looked at.
RunUnverified(c) == InPhase(call[c], "run")

\* verify() failed: fail closed, or execute.
Unverified(c) == IF FailPolicy[ExecOf(c)] = "CLOSED"
                 THEN Settle(call[c], "unavailable", {}) ELSE InPhase(call[c], "run")

Remember(c, value) ==
    cache' = [cache EXCEPT ![ExecOf(c)][FpOf(c)] = [hit |-> TRUE, value |-> value]]

-----------------------------------------------------------------------------
(* fetch().                                                                 *)

\* A local cache hit returns at once.
Start(c) ==
    LET e == ExecOf(c)
        f == FpOf(c)
        r == [pc |-> "verify", tries |-> 0, slot |-> NoSlot, acted |-> FALSE,
              known |-> VerifyMatches(e, f, ScopeOf[c]) # {} /\ ~Exists(e, f),
              result |-> "none", value |-> {}]
    IN  /\ ~Started(c) /\ alive[e]
        /\ Become(c, IF cache[e][f].hit THEN Settle(r, "hit", cache[e][f].value) ELSE r)
        /\ UNCHANGED <<row, handler, alive, cache, acts>>

\* The report does not pass the scope on; the API takes MONITOR.
RequestOf(c) ==
    [op |-> "verify", exec |-> ExecOf(c), fp |-> FpOf(c), payload |-> call[c].pc = "report",
     scope |-> IF call[c].pc = "report" THEN "MONITOR" ELSE ScopeOf[c]]

Send(c, h) ==
    /\ Sending(c) /\ call[c].slot = NoSlot
    /\ Receive(h, RequestOf(c))
    /\ Become(c, [call[c] EXCEPT !.slot = h])
    /\ UNCHANGED <<alive, cache, acts>>

\* Mutant of AttemptFailed: one attempt too many.
OneTooMany(c) ==
    Become(c, IF call[c].tries <= MaxRetries
              THEN [call[c] EXCEPT !.tries = @ + 1, !.slot = NoSlot]
              ELSE IF call[c].pc = "verify" THEN Unverified(c)
              ELSE Settle(call[c], "response", {"result"}))

\* fetch threw: try again, or give up; a report that is given up is forgotten.
AttemptFailed(c) ==
    Become(c, IF call[c].tries < MaxRetries
              THEN [call[c] EXCEPT !.tries = @ + 1, !.slot = NoSlot]
              ELSE IF call[c].pc = "verify" THEN Unverified(c)
              ELSE Settle(call[c], "response", {"result"}))

\* The API cannot be reached, the connection broke, or the request times out:
\* it was lost, or the API is still at it.
Abort(c) ==
    /\ Sending(c)
    /\ \/ call[c].slot = Broken /\ UNCHANGED handler
       \/ "network" \in Faults /\ UNCHANGED handler
       \/ /\ "network" \in Faults /\ call[c].slot \in Handlers
          /\ At(call[c].slot, "received") /\ Vanish({call[c].slot})
    /\ AttemptFailed(c)
    /\ UNCHANGED <<row, alive, cache, acts>>

Answered(c, pc, answers) ==
    /\ call[c].pc = pc /\ call[c].slot \in Handlers
    /\ At(call[c].slot, "done") /\ handler[call[c].slot].answer \in answers
    /\ Respond(call[c].slot)
    /\ UNCHANGED <<alive, acts>>

VerifyExecute(c) ==
    /\ Answered(c, "verify", {"EXECUTE"})
    /\ Become(c, InPhase(call[c], "run"))
    /\ UNCHANGED cache

\* The caller gets a made-up response with status 200.
VerifySkip(c) ==
    /\ Answered(c, "verify", {"SKIP"})
    /\ Become(c, Settle(call[c], "hit", handler[call[c].slot].seen))
    /\ Remember(c, handler[call[c].slot].seen)

VerifyError(c) ==
    /\ Answered(c, "verify", {"ERROR"})
    /\ Become(c, Unverified(c))
    /\ UNCHANGED cache

ReportDone(c) ==
    /\ Answered(c, "report", {"EXECUTE", "SKIP", "ERROR"})
    /\ Become(c, Settle(call[c], "response", {"result"}))
    /\ UNCHANGED cache

-----------------------------------------------------------------------------
(* The guarded request.                                                     *)

Act(c) ==
    /\ call[c].pc = "run" /\ ~call[c].acted
    /\ Become(c, [call[c] EXCEPT !.acted = TRUE])
    /\ acts' = [acts EXCEPT ![ExecOf(c)][FpOf(c)] = @ + 1]
    /\ UNCHANGED <<row, handler, alive, cache>>

\* Mutant of Return: any response is reported.
ReturnAny(c) ==
    /\ call[c].pc = "run"
    /\ Become(c, InPhase(call[c], "report"))
    /\ Remember(c, {"result"})
    /\ UNCHANGED <<row, handler, alive, acts>>

\* A response that is ok, with a JSON body: remember and report it.
Return(c) ==
    /\ call[c].pc = "run" /\ call[c].acted
    /\ Become(c, InPhase(call[c], "report"))
    /\ Remember(c, {"result"})
    /\ UNCHANGED <<row, handler, alive, acts>>

\* Any other response, whatever the server has done, is handed on as it is;
\* fetch itself may fail.
ReturnUnreported(c) ==
    /\ call[c].pc = "run"
    /\ \E result \in {"response", "threw"} : Become(c, Settle(call[c], result, {}))
    /\ UNCHANGED <<row, handler, alive, cache, acts>>

-----------------------------------------------------------------------------
(* Crashes.                                                                 *)

Crash(e) ==
    /\ "crash" \in Faults /\ alive[e]
    /\ alive' = [alive EXCEPT ![e] = FALSE]
    /\ call' = [c \in Calls |->
                  IF ExecOf(c) = e /\ Started(c) /\ call[c].pc # "settled"
                  THEN InPhase(call[c], "dead") ELSE call[c]]
    /\ UNCHANGED <<row, handler, cache, acts>>

ApiCrash ==
    /\ "apiCrash" \in Faults
    /\ Vanish(Handlers)
    /\ call' = [c \in Calls |->
                  IF Started(c) /\ call[c].slot \in Handlers
                  THEN [call[c] EXCEPT !.slot = Broken] ELSE call[c]]
    /\ UNCHANGED <<alive, cache, acts>>

\* The next database call of the API, its failure, or the response to a
\* request that nobody waits for any more.
Work(h) ==
    /\ \/ Serve(h)
       \/ "database" \in Faults /\ DatabaseFails(h)
       \/ Respond(h) /\ \A c \in Calls : Started(c) => call[c].slot # h
    /\ UNCHANGED clientVars

-----------------------------------------------------------------------------

Init ==
    /\ LedgerInit
    /\ call = [c \in Calls |-> NotStarted]
    /\ alive = [e \in Execs |-> TRUE]
    /\ cache = [e \in Execs |-> [f \in Fps |-> Miss]]
    /\ acts = [e \in Execs |-> [f \in Fps |-> 0]]

Next ==
    \/ \E c \in Calls :
        \/ Start(c) \/ Abort(c) \/ \E h \in Handlers : Send(c, h)
        \/ VerifyExecute(c) \/ VerifySkip(c) \/ VerifyError(c) \/ ReportDone(c)
        \/ Act(c) \/ Return(c) \/ ReturnUnreported(c)
    \/ \E h \in Handlers : Work(h)
    \/ \E e \in Execs : Crash(e)
    \/ ApiCrash

Spec == Init /\ [][Next]_vars

-----------------------------------------------------------------------------
(* Properties.                                                              *)

\* Shapes of the state.
LegacyTypeOK ==
    /\ LedgerTypeOK
    /\ call \in [Calls -> {NotStarted} \cup CallState]
    /\ alive \in [Execs -> BOOLEAN]
    /\ cache \in [Execs -> [Fps -> [hit: BOOLEAN, value: SUBSET MetadataKeys]]]
    /\ acts \in [Execs -> [Fps -> Nat]]

\* Under failPolicy CLOSED, a request that another execution in scope had made
\* when fetch() was called is not made again, although the verify that asked
\* may have been lost, repeated, overtaken by its repetition or cut short.
MadeOnce ==
    \A c \in Calls :
        Started(c) /\ call[c].known /\ FailPolicy[ExecOf(c)] = "CLOSED" => ~call[c].acted

\* A replayed response with a body in it is the body of a response: the
\* request took effect in some execution.
ReplaysAResponse ==
    \A c \in Calls :
        Started(c) /\ call[c].result = "hit" /\ "result" \in call[c].value
            => \E e \in Execs : acts[e][FpOf(c)] > 0
=============================================================================
