------------------------ MODULE CircuitBreaker_proofs ------------------------
(***************************************************************************)
(* The circuit breaker: types, the end of every block, and the retry       *)
(* budget as a refinement of RetryBudget, for any number of jobs, runners, *)
(* requests and STREAK rows, and any lives of entries and cooldowns.       *)
(***************************************************************************)
EXTENDS CircuitBreaker, TLAPS

\* Where a request can be, but "idle".
BusyPc == {"received", "streak", "reset", "count", "hydrate", "hydrated",
           "trip", "refresh", "open", "create"}

LEMMA BusyRequest ==
    ASSUME BreakerTypeOK, NEW r \in Requests, ~At(r, "idle")
    PROVE  /\ request[r] \in Busy /\ request[r].key \in Keys
           /\ request[r].attempt \in Nat /\ request[r].id \in StreakIds \cup {0}
  BY DEF BreakerTypeOK, At, Idle, Busy

\* How a request moves on.
LEMMA MovedRequest ==
    ASSUME BreakerTypeOK, NEW r \in Requests, request[r] \in Busy
    PROVE  /\ \A pc : Goto(r, pc) =>
                 /\ request'[r].pc = pc /\ request'[r].key = request[r].key
                 /\ request'[r].attempt = request[r].attempt
                 /\ \A q \in Requests \ {r} : request'[q] = request[q]
           /\ \A pc, i : GotoWith(r, pc, i) =>
                 /\ request'[r].pc = pc /\ request'[r].key = request[r].key
                 /\ request'[r].attempt = request[r].attempt
                 /\ \A q \in Requests \ {r} : request'[q] = request[q]
<1>1. request = [q \in Requests |-> request[q]]
  BY DEF BreakerTypeOK
<1>2. \A pc : /\ [request[r] EXCEPT !.pc = pc].pc = pc
              /\ [request[r] EXCEPT !.pc = pc].key = request[r].key
              /\ [request[r] EXCEPT !.pc = pc].attempt = request[r].attempt
  BY DEF Busy
<1>3. ASSUME NEW pc, Goto(r, pc)
      PROVE  /\ request'[r].pc = pc /\ request'[r].key = request[r].key
             /\ request'[r].attempt = request[r].attempt
             /\ \A q \in Requests \ {r} : request'[q] = request[q]
  BY <1>1, <1>2, <1>3 DEF Goto
<1>4. ASSUME NEW pc, NEW i, GotoWith(r, pc, i)
      PROVE  /\ request'[r].pc = pc /\ request'[r].key = request[r].key
             /\ request'[r].attempt = request[r].attempt
             /\ \A q \in Requests \ {r} : request'[q] = request[q]
  <2> DEFINE b == [request[r] EXCEPT !.pc = pc, !.id = i]
  <2>1. request' = [request EXCEPT ![r] = b]
    BY <1>4 DEF GotoWith
  <2>2. b.pc = pc /\ b.key = request[r].key /\ b.attempt = request[r].attempt
    BY DEF Busy
  <2> HIDE DEF b
  <2>3. request'[r] = b /\ \A q \in Requests \ {r} : request'[q] = request[q]
    BY <1>1, <2>1
  <2>4. QED  BY <2>2, <2>3
<1>5. QED  BY <1>3, <1>4

LEMMA RequestType ==
    ASSUME BreakerTypeOK, NEW r \in Requests, request[r] \in Busy
    PROVE  \A pc \in BusyPc :
              /\ Goto(r, pc) => request' \in [Requests -> {Idle} \cup Busy]
              /\ \A i \in StreakIds \cup {0} :
                    GotoWith(r, pc, i) => request' \in [Requests -> {Idle} \cup Busy]
              /\ \A a \in Nat :
                    request' = [request EXCEPT ![r] = [@ EXCEPT !.pc = pc, !.attempt = a]]
                       => request' \in [Requests -> {Idle} \cup Busy]
<1> SUFFICES ASSUME NEW pc \in BusyPc
             PROVE  /\ Goto(r, pc) => request' \in [Requests -> {Idle} \cup Busy]
                    /\ \A i \in StreakIds \cup {0} :
                          GotoWith(r, pc, i) => request' \in [Requests -> {Idle} \cup Busy]
                    /\ \A a \in Nat :
                          request' = [request EXCEPT ![r] = [@ EXCEPT !.pc = pc, !.attempt = a]]
                             => request' \in [Requests -> {Idle} \cup Busy]
  OBVIOUS
<1>1. [request[r] EXCEPT !.pc = pc] \in Busy
  BY DEF Busy, BusyPc
<1>2. \A i \in StreakIds \cup {0} : [request[r] EXCEPT !.pc = pc, !.id = i] \in Busy
  BY DEF Busy, BusyPc
<1>3. \A a \in Nat : [request[r] EXCEPT !.pc = pc, !.attempt = a] \in Busy
  BY DEF Busy, BusyPc
<1>4. ASSUME NEW b \in Busy, request' = [request EXCEPT ![r] = b]
      PROVE  request' \in [Requests -> {Idle} \cup Busy]
  BY <1>4 DEF BreakerTypeOK
<1>5. QED  BY <1>1, <1>2, <1>3, <1>4 DEF Goto, GotoWith

LEMMA DoneType ==
    ASSUME BreakerTypeOK, NEW r \in Requests, Done(r)
    PROVE  /\ request' \in [Requests -> {Idle} \cup Busy]
           /\ runner' \in [Runners -> Runner]
<1>1. request' \in [Requests -> {Idle} \cup Busy]
  BY DEF BreakerTypeOK, Done
<1>2. \A n \in Runners : NoSession(runner[n]) \in Runner
  <2>1. 0 \in 0..MaxRetries
    BY BreakerAssumption
  <2>2. QED  BY <2>1 DEF BreakerTypeOK, Runner, NoSession
<1>3. runner' \in [Runners -> Runner]
  BY <1>2 DEF BreakerTypeOK, Done
<1>4. QED  BY <1>1, <1>3

\* Writes to the cache.
LEMMA EntryType ==
    ASSUME NEW k \in Keys, NEW old \in Entry, entry \in [Keys -> Entry]
    PROVE  /\ \A a \in Nat : SetAttempt(k, old, a) => entry' \in [Keys -> Entry]
           /\ \A c \in 0..Cooldown : TripBreaker(k, old, c) => entry' \in [Keys -> Entry]
<1>1. \A a \in Nat : [old EXCEPT !.attempt = a, !.ttl = TTL] \in Entry
  <2>1. TTL \in 0..TTL
    BY BreakerAssumption
  <2>2. QED  BY <2>1 DEF Entry
<1>2. \A c \in 0..Cooldown :
        [attempt |-> IF old.attempt = 0 THEN LoopAttempt ELSE old.attempt,
         cooldown |-> c, ttl |-> TTL] \in Entry
  BY BreakerAssumption DEF Entry
<1>3. QED  BY <1>1, <1>2 DEF SetAttempt, TripBreaker

LEMMA NoEntryType == NoEntry \in Entry
  BY BreakerAssumption DEF NoEntry, Entry

LEMMA DecideType ==
    ASSUME BreakerTypeOK, NEW r \in Requests, request[r] \in Busy, NEW old \in Entry,
           NEW attempt \in Nat, Decide(r, old, attempt)
    PROVE  /\ entry' \in [Keys -> Entry] /\ lock' \in 0..Cooldown
           /\ request' \in [Requests -> {Idle} \cup Busy]
<1>1. request[r].key \in Keys /\ Cooldown \in 0..Cooldown /\ entry \in [Keys -> Entry]
      /\ lock \in 0..Cooldown
  BY BreakerAssumption DEF Busy, BreakerTypeOK
<1>2. entry' \in [Keys -> Entry]
  BY <1>1, EntryType DEF Decide
<1>3. request' \in [Requests -> {Idle} \cup Busy]
  <2>1. CASE Goto(r, "trip")
    BY <2>1, RequestType DEF BusyPc
  <2>2. CASE request' = [request EXCEPT ![r] = [@ EXCEPT !.pc = "create", !.attempt = attempt]]
    BY <2>2, RequestType DEF BusyPc
  <2>3. QED  BY <2>1, <2>2 DEF Decide
<1>4. QED  BY <1>1, <1>2, <1>3 DEF Decide

\* A request that is served leaves the types alone.
LEMMA HandleType ==
    ASSUME BreakerTypeOK, NEW r \in Requests, Handle(r)
    PROVE  BreakerTypeOK'
<1>1. ~At(r, "idle")
  BY DEF Handle, FastPath, CheckStreak, ResetStreak, Count, Hydrate, UseHydrated, FindStreak,
     RefreshStreak, CreateStreak, CreateExecution, At
<1>2. /\ request[r] \in Busy /\ request[r].key \in Keys
      /\ request[r].attempt \in Nat /\ request[r].id \in StreakIds \cup {0}
  BY <1>1, BusyRequest
<1>3. /\ entry \in [Keys -> Entry] /\ streak \in [StreakIds -> Streak]
      /\ ran \in [Keys -> Nat] /\ top \in [Keys -> Nat]
      /\ request \in [Requests -> {Idle} \cup Busy] /\ runner \in [Runners -> Runner]
      /\ analytics \in {"idle", "analyze", "detect", "open"} /\ lock \in 0..Cooldown
      /\ Cooldown \in 0..Cooldown /\ 0 \in 0..Cooldown
  BY BreakerAssumption DEF BreakerTypeOK
<1>4. Done(r) => /\ request' \in [Requests -> {Idle} \cup Busy]
                 /\ runner' \in [Runners -> Runner]
  BY DoneType
<1>5. \A pc \in BusyPc :
        /\ Goto(r, pc) => request' \in [Requests -> {Idle} \cup Busy]
        /\ \A i \in StreakIds \cup {0} :
              GotoWith(r, pc, i) => request' \in [Requests -> {Idle} \cup Busy]
        /\ \A a \in Nat :
              request' = [request EXCEPT ![r] = [@ EXCEPT !.pc = pc, !.attempt = a]]
                 => request' \in [Requests -> {Idle} \cup Busy]
  BY <1>2, RequestType
<1>6. \A i \in StreakIds :
        /\ streak[i] \in Streak /\ streak[i].age \in 0..Cooldown
        /\ [streak[i] EXCEPT !.active = FALSE] \in Streak
        /\ [streak[i] EXCEPT !.age = 0] \in Streak
        /\ [active |-> TRUE, age |-> 0] \in Streak
  BY <1>3 DEF Streak
<1>a. CASE FastPath(r)
  BY <1>3, <1>4, <1>5, <1>a DEF FastPath, BusyPc, BreakerTypeOK
<1>b. CASE CheckStreak(r)
  <2>1. CASE Goto(r, "count") /\ UNCHANGED <<entry, runner>>
    BY <1>3, <1>5, <1>b, <2>1 DEF CheckStreak, BusyPc, BreakerTypeOK
  <2>2. ASSUME NEW i \in Active, streak[i].age < Cooldown, Done(r),
               TripBreaker(request[r].key, entry[request[r].key], Cooldown - streak[i].age)
        PROVE  BreakerTypeOK'
    <3>1. Cooldown - streak[i].age \in 0..Cooldown /\ entry[request[r].key] \in Entry
      <4>1. \A x \in 0..Cooldown : Cooldown - x \in 0..Cooldown
        BY BreakerAssumption
      <4>2. i \in StreakIds
        BY DEF Active
      <4>3. QED  BY <1>2, <1>3, <1>6, <4>1, <4>2
    <3>2. entry' \in [Keys -> Entry]
      BY <1>2, <1>3, <2>2, <3>1, EntryType
    <3>3. QED  BY <1>3, <1>4, <1>b, <2>2, <3>2 DEF CheckStreak, BreakerTypeOK
  <2>3. ASSUME NEW i \in Active, GotoWith(r, "reset", i), UNCHANGED <<entry, runner>>
        PROVE  BreakerTypeOK'
    BY <1>3, <1>5, <1>b, <2>3 DEF CheckStreak, BusyPc, Active, BreakerTypeOK
  <2>4. QED  BY <1>b, <2>1, <2>2, <2>3 DEF CheckStreak
<1>c. CASE ResetStreak(r)
  <2>1. streak' \in [StreakIds -> Streak]
    BY <1>3, <1>6, <1>c DEF ResetStreak, Streak
  <2>2. QED  BY <1>3, <1>5, <1>c, <2>1 DEF ResetStreak, BusyPc, BreakerTypeOK
<1>d. CASE Count(r)
  <2> DEFINE k == request[r].key
  <2>1. entry[k] \in Entry /\ entry[k].attempt + 1 \in Nat /\ NoEntry \in Entry
    BY <1>2, <1>3, NoEntryType DEF Entry
  <2>2. CASE Decide(r, entry[k], entry[k].attempt + 1) \/ Decide(r, NoEntry, 1)
    BY <1>2, <1>3, <1>d, <2>1, <2>2, DecideType DEF Count, BreakerTypeOK
  <2>3. CASE entry' = [entry EXCEPT ![k] = NoEntry] /\ Goto(r, "hydrate") /\ UNCHANGED lock
    BY <1>2, <1>3, <1>5, <1>d, <2>1, <2>3 DEF Count, BusyPc, BreakerTypeOK
  <2>4. QED  BY <1>d, <2>2, <2>3 DEF Count
<1>e. CASE Hydrate(r)
  <2>1. top[request[r].key] + 1 \in Nat
    BY <1>2, <1>3
  <2>2. request' \in [Requests -> {Idle} \cup Busy]
    BY <1>5, <1>e, <2>1 DEF Hydrate, Hydrated, BusyPc
  <2>3. QED  BY <1>3, <1>e, <2>2 DEF Hydrate, BreakerTypeOK
<1>f. CASE UseHydrated(r)
  <2>1. entry[request[r].key] \in Entry
    BY <1>2, <1>3
  <2>2. QED  BY <1>2, <1>3, <1>f, <2>1, DecideType DEF UseHydrated, BreakerTypeOK
<1>g. CASE FindStreak(r)
  BY <1>3, <1>5, <1>g DEF FindStreak, Active, BusyPc, BreakerTypeOK
<1>i. CASE RefreshStreak(r)
  <2>1. streak' \in [StreakIds -> Streak]
    BY <1>3, <1>6, <1>i DEF RefreshStreak, Streak
  <2>2. QED  BY <1>3, <1>4, <1>i, <2>1 DEF RefreshStreak, BreakerTypeOK
<1>j. CASE CreateStreak(r)
  <2>1. streak' \in [StreakIds -> Streak]
    BY <1>3, <1>6, <1>j DEF CreateStreak, OpenStreak
  <2>2. QED  BY <1>3, <1>4, <1>j, <2>1 DEF CreateStreak, BreakerTypeOK
<1>k. CASE CreateExecution(r)
  <2>1. ran' \in [Keys -> Nat] /\ top' \in [Keys -> Nat]
    BY <1>2, <1>3, <1>k DEF CreateExecution
  <2>2. QED  BY <1>3, <1>4, <1>k, <2>1 DEF CreateExecution, BreakerTypeOK
<1>l. QED
  BY <1>a, <1>b, <1>c, <1>d, <1>e, <1>f, <1>g, <1>i, <1>j, <1>k DEF Handle

\* The state keeps its shape.
THEOREM BreakerTypeCorrect == Spec => []BreakerTypeOK
<1>1. Init => BreakerTypeOK
  <2>1. 0 \in 0..Cooldown /\ Cooldown \in 0..Cooldown /\ 0 \in 0..TTL /\ 0 \in 0..MaxRetries
    BY BreakerAssumption
  <2>2. QED
    BY <2>1 DEF Init, BreakerTypeOK, NoEntry, Entry, NoStreak, Streak, Runner
<1>2. ASSUME BreakerTypeOK, [Next]_vars
      PROVE  BreakerTypeOK'
  <2>1. /\ entry \in [Keys -> Entry] /\ streak \in [StreakIds -> Streak]
        /\ request \in [Requests -> {Idle} \cup Busy] /\ runner \in [Runners -> Runner]
        /\ analytics \in {"idle", "analyze", "detect", "open"} /\ lock \in 0..Cooldown
        /\ 0 \in 0..MaxRetries /\ Cooldown \in 0..Cooldown
    BY <1>2, BreakerAssumption DEF BreakerTypeOK
  <2>2. ASSUME NEW n \in Runners, Call(n)
        PROVE  BreakerTypeOK'
    <3>1. [waits |-> TRUE, tries |-> 0, slot |-> NoSlot, calls |-> runner[n].calls + 1] \in Runner
      BY <2>1 DEF Runner
    <3>2. runner' \in [Runners -> Runner]
      BY <2>1, <2>2, <3>1 DEF Call
    <3>3. QED  BY <1>2, <2>2, <3>2 DEF Call, BreakerTypeOK
  <2>3. ASSUME NEW n \in Runners, Retry(n)
        PROVE  BreakerTypeOK'
    <3>1. runner[n].tries < MaxRetries => NextTry(runner[n]) \in Runner
      <4>1. runner[n].tries < MaxRetries => runner[n].tries + 1 \in 0..MaxRetries
        BY <2>1, BreakerAssumption DEF Runner
      <4>2. QED  BY <2>1, <4>1 DEF Runner, NextTry
    <3>2. NoSession(runner[n]) \in Runner
      BY <2>1 DEF Runner, NoSession
    <3>3. \E b \in Runner : runner' = [runner EXCEPT ![n] = b]
      BY <2>3, <3>1, <3>2 DEF Retry
    <3>4. runner' \in [Runners -> Runner]
      BY <2>1, <3>3
    <3>5. QED  BY <1>2, <2>3, <3>4 DEF Retry, BreakerTypeOK
  <2>4. ASSUME NEW n \in Runners, NEW r \in Requests, Send(n, r)
        PROVE  BreakerTypeOK'
    <3>1. [runner[n] EXCEPT !.slot = r] \in Runner
      BY <2>1 DEF Runner
    <3>2. runner' \in [Runners -> Runner]
      BY <2>1, <2>4, <3>1 DEF Send
    <3>3. [pc |-> "received", key |-> KeyOf[n], attempt |-> 0, id |-> 0] \in Busy
      BY BreakerAssumption DEF Busy
    <3>4. request' \in [Requests -> {Idle} \cup Busy]
      BY <2>1, <2>4, <3>3 DEF Send
    <3>5. QED  BY <1>2, <2>4, <3>2, <3>4 DEF Send, BreakerTypeOK
  <2>5. ASSUME NEW r \in Requests, Handle(r)
        PROVE  BreakerTypeOK'
    BY <1>2, <2>5, HandleType
  <2>6. ASSUME NEW r \in Requests, DatabaseFails(r)
        PROVE  BreakerTypeOK'
    BY <1>2, <2>6, DoneType DEF DatabaseFails, BreakerTypeOK
  <2>7. ASSUME NEW k \in Keys, Evict(k)
        PROVE  BreakerTypeOK'
    <3>1. entry' \in [Keys -> Entry]
      BY <2>1, <2>7, NoEntryType DEF Evict
    <3>2. QED  BY <1>2, <2>7, <3>1 DEF Evict, BreakerTypeOK
  <2>8. ASSUME Deactivate
        PROVE  streak' \in [StreakIds -> Streak]
    BY <2>1, <2>8 DEF Deactivate, Streak
  <2>9. CASE AnalyzeMonitor \/ Aggregate
    BY <1>2, <2>8, <2>9 DEF AnalyzeMonitor, Aggregate, BreakerTypeOK
  <2>10. CASE Nightly \/ Detect
    BY <1>2, <2>10 DEF Nightly, Detect, BreakerTypeOK
  <2>11. CASE OpenRecursive
    <3>1. [active |-> TRUE, age |-> 0] \in Streak
      BY BreakerAssumption DEF Streak
    <3>2. streak' \in [StreakIds -> Streak]
      BY <2>1, <2>11, <3>1 DEF OpenRecursive, OpenStreak
    <3>3. QED  BY <1>2, <2>1, <2>11, <3>2 DEF OpenRecursive, BreakerTypeOK
  <2>12. CASE Restart
    <3>1. \A n \in Runners : [runner[n] EXCEPT !.slot = Broken] \in Runner
      BY <2>1 DEF Runner
    <3>2. runner' \in [Runners -> Runner]
      BY <2>1, <2>12, <3>1 DEF Restart
    <3>3. QED  BY <1>2, <2>12, <3>2, NoEntryType DEF Restart, BreakerTypeOK
  <2>13. CASE Tick
    <3>1. \A n \in Nat : \A m \in 0..n : Less(m) \in 0..n
      BY DEF Less
    <3>2. \A k \in Keys : [entry[k] EXCEPT !.ttl = Less(@), !.cooldown = Less(@)] \in Entry
      BY <2>1, <3>1, BreakerAssumption DEF Entry
    <3>3. \A i \in StreakIds :
            [streak[i] EXCEPT !.age = IF @ < Cooldown THEN @ + 1 ELSE @] \in Streak
      <4>1. \A x \in 0..Cooldown : (IF x < Cooldown THEN x + 1 ELSE x) \in 0..Cooldown
        BY BreakerAssumption
      <4>2. QED  BY <2>1, <4>1 DEF Streak
    <3>4. lock' \in 0..Cooldown
      BY <2>1, <2>13, <3>1, BreakerAssumption DEF Tick
    <3>5. QED  BY <1>2, <2>13, <3>2, <3>3, <3>4 DEF Tick, BreakerTypeOK
  <2>14. CASE UNCHANGED vars
    BY <1>2, <2>14 DEF vars, BreakerTypeOK
  <2>15. QED
    BY <1>2, <2>2, <2>3, <2>4, <2>5, <2>6, <2>7, <2>9, <2>10, <2>11, <2>12, <2>13, <2>14 DEF Next
<1>3. QED  BY <1>1, <1>2, PTL DEF Spec

-----------------------------------------------------------------------------
(* The end of every block.                                                  *)

\* No block outlasts a full cooldown.
LEMMA FullLock ==
    ASSUME BreakerTypeOK', lock' = Cooldown
    PROVE  BlocksEnd'
<1>1. \A k \in Keys : entry'[k].cooldown \in 0..Cooldown
  BY DEF BreakerTypeOK, Entry
<1>2. \A i \in StreakIds : streak'[i].age \in 0..Cooldown
  BY DEF BreakerTypeOK, Streak
<1>3. \A x \in 0..Cooldown : x <= Cooldown /\ Cooldown - x <= Cooldown
  BY BreakerAssumption
<1>4. QED  BY <1>1, <1>2, <1>3 DEF BlocksEnd, Active

\* What does not lengthen a block nor shorten the lock.
LEMMA NoLongerBlock ==
    ASSUME BlocksEnd, lock' = lock,
           \A k \in Keys : entry'[k].cooldown = entry[k].cooldown \/ entry'[k].cooldown <= lock,
           \A i \in StreakIds : streak'[i].active =>
              streak[i].active /\ streak'[i].age = streak[i].age
    PROVE  BlocksEnd'
  BY DEF BlocksEnd, Active

LEMMA HandleEndsBlocks ==
    ASSUME BreakerTypeOK, BreakerTypeOK', BlocksEnd, NEW r \in Requests, Handle(r)
    PROVE  BlocksEnd'
<1>1. ~At(r, "idle")
  BY DEF Handle, FastPath, CheckStreak, ResetStreak, Count, Hydrate, UseHydrated, FindStreak,
     RefreshStreak, CreateStreak, CreateExecution, At
<1>2. request[r].key \in Keys
  BY <1>1, BusyRequest
<1>3. /\ entry \in [Keys -> Entry] /\ streak \in [StreakIds -> Streak] /\ lock \in 0..Cooldown
  BY DEF BreakerTypeOK
<1>4. ASSUME NEW old \in Entry, NEW a, Decide(r, old, a), old.cooldown <= lock,
             UNCHANGED streak
      PROVE  BlocksEnd'
  <2>1. CASE lock' = Cooldown
    BY <2>1, FullLock
  <2>2. CASE SetAttempt(request[r].key, old, a) /\ lock' = lock
    <3>1. [old EXCEPT !.attempt = a, !.ttl = TTL].cooldown = old.cooldown
      BY DEF Entry
    <3>2. \A k \in Keys : entry'[k].cooldown = entry[k].cooldown \/ entry'[k].cooldown <= lock
      BY <1>2, <1>3, <1>4, <2>2, <3>1 DEF SetAttempt
    <3>3. QED  BY <1>4, <2>2, <3>2, NoLongerBlock
  <2>3. QED  BY <1>4, <2>1, <2>2 DEF Decide
<1>5. NoEntry \in Entry /\ NoEntry.cooldown <= lock
  <2>1. NoEntry.cooldown = 0
    BY DEF NoEntry
  <2>2. 0 <= lock
    BY <1>3, BreakerAssumption
  <2>3. QED  BY <2>1, <2>2, NoEntryType
<1>6. \A k \in Keys : entry[k] \in Entry /\ entry[k].cooldown <= lock
  BY <1>3 DEF BlocksEnd
<1>a. CASE FastPath(r) \/ Hydrate(r) \/ FindStreak(r) \/ CreateExecution(r)
  BY <1>a, NoLongerBlock DEF FastPath, Hydrate, FindStreak, CreateExecution
<1>b. CASE CheckStreak(r)
  <2>1. CASE UNCHANGED entry
    BY <1>b, <2>1, NoLongerBlock DEF CheckStreak
  <2>2. ASSUME NEW i \in Active,
               TripBreaker(request[r].key, entry[request[r].key], Cooldown - streak[i].age)
        PROVE  BlocksEnd'
    <3>1. entry'[request[r].key].cooldown <= lock
      BY <1>2, <1>3, <2>2 DEF TripBreaker, BlocksEnd
    <3>2. \A k \in Keys \ {request[r].key} : entry'[k] = entry[k]
      BY <1>2, <1>3, <2>2 DEF TripBreaker
    <3>3. QED  BY <1>b, <3>1, <3>2, NoLongerBlock DEF CheckStreak
  <2>3. QED  BY <1>b, <2>1, <2>2 DEF CheckStreak
<1>c. CASE ResetStreak(r)
  <2>1. \A i \in StreakIds : streak'[i].active =>
           streak[i].active /\ streak'[i].age = streak[i].age
    BY <1>3, <1>c DEF ResetStreak, Streak
  <2>2. QED  BY <1>c, <2>1, NoLongerBlock DEF ResetStreak
<1>d. CASE Count(r)
  <2>1. CASE entry' = [entry EXCEPT ![request[r].key] = NoEntry] /\ UNCHANGED lock
    <3>1. \A k \in Keys : entry'[k].cooldown = entry[k].cooldown \/ entry'[k].cooldown <= lock
      BY <1>2, <1>3, <1>5, <2>1
    <3>2. QED  BY <1>d, <2>1, <3>1, NoLongerBlock DEF Count
  <2>2. QED  BY <1>2, <1>4, <1>5, <1>6, <1>d, <2>1 DEF Count
<1>e. CASE UseHydrated(r)
  BY <1>2, <1>4, <1>6, <1>e DEF UseHydrated
<1>f. CASE RefreshStreak(r) \/ CreateStreak(r)
  BY <1>f, FullLock DEF RefreshStreak, CreateStreak
<1>g. QED  BY <1>a, <1>b, <1>c, <1>d, <1>e, <1>f DEF Handle

\* A monitor is refused starts no longer than one cooldown after the breaker
\* last tripped: CheckStreak hands on what is left of the row's cooldown, and
\* only a trip or a new STREAK row begins another.
THEOREM EveryBlockEnds == Spec => []BlocksEnd
<1>1. Init => BlocksEnd
  BY DEF Init, BlocksEnd, Active, NoEntry, NoStreak
<1>2. ASSUME BreakerTypeOK, BreakerTypeOK', BlocksEnd, [Next]_vars
      PROVE  BlocksEnd'
  <2>1. /\ entry \in [Keys -> Entry] /\ streak \in [StreakIds -> Streak] /\ lock \in 0..Cooldown
    BY <1>2 DEF BreakerTypeOK
  <2>2. ASSUME NEW n \in Runners, Call(n) \/ Retry(n) \/ \E r \in Requests : Send(n, r)
        PROVE  BlocksEnd'
    BY <1>2, <2>2, NoLongerBlock DEF Call, Retry, Send
  <2>3. ASSUME NEW r \in Requests, Handle(r)
        PROVE  BlocksEnd'
    BY <1>2, <2>3, HandleEndsBlocks
  <2>4. ASSUME NEW r \in Requests, DatabaseFails(r)
        PROVE  BlocksEnd'
    BY <1>2, <2>4, NoLongerBlock DEF DatabaseFails
  <2>5. NoEntry.cooldown = 0 /\ 0 <= lock
    BY <2>1, BreakerAssumption DEF NoEntry
  <2>6. ASSUME NEW k \in Keys, Evict(k)
        PROVE  BlocksEnd'
    <3>1. \A j \in Keys : entry'[j].cooldown = entry[j].cooldown \/ entry'[j].cooldown <= lock
      BY <2>1, <2>5, <2>6 DEF Evict
    <3>2. QED  BY <1>2, <2>6, <3>1, NoLongerBlock DEF Evict
  <2>7. CASE AnalyzeMonitor \/ Aggregate
    <3>1. Deactivate /\ UNCHANGED <<entry, lock>>
      BY <2>7 DEF AnalyzeMonitor, Aggregate
    <3>2. \A i \in StreakIds : ~streak'[i].active
      BY <2>1, <3>1 DEF Deactivate, Streak
    <3>3. QED  BY <1>2, <3>1, <3>2, NoLongerBlock
  <2>8. CASE Nightly \/ Detect
    BY <1>2, <2>8, NoLongerBlock DEF Nightly, Detect
  <2>9. CASE OpenRecursive
    BY <1>2, <2>9, FullLock DEF OpenRecursive
  <2>10. CASE Restart
    <3>1. \A k \in Keys : entry'[k].cooldown <= lock
      BY <2>5, <2>10 DEF Restart
    <3>2. QED  BY <1>2, <2>10, <3>1, NoLongerBlock DEF Restart
  <2>11. CASE Tick
    <3>1. \A x, y \in 0..Cooldown : x <= y => Less(x) <= Less(y)
      BY BreakerAssumption DEF Less
    <3>2. \A x, y \in 0..Cooldown :
             Cooldown - x <= y => Cooldown - (IF x < Cooldown THEN x + 1 ELSE x) <= Less(y)
      BY BreakerAssumption DEF Less
    <3>3. \A k \in Keys : entry'[k].cooldown <= lock'
      <4>1. \A k \in Keys : entry'[k].cooldown = Less(entry[k].cooldown)
        BY <2>1, <2>11 DEF Tick, Entry
      <4>2. \A k \in Keys : entry[k].cooldown \in 0..Cooldown
        BY <2>1 DEF Entry
      <4>3. lock' = Less(lock)
        BY <2>11 DEF Tick
      <4>4. QED  BY <1>2, <2>1, <3>1, <4>1, <4>2, <4>3 DEF BlocksEnd
    <3>4. \A i \in StreakIds : streak'[i].active => Cooldown - streak'[i].age <= lock'
      <4>1. \A i \in StreakIds :
              /\ streak'[i].active = streak[i].active
              /\ streak'[i].age = IF streak[i].age < Cooldown THEN streak[i].age + 1
                                                               ELSE streak[i].age
              /\ streak[i].age \in 0..Cooldown
        BY <2>1, <2>11 DEF Tick, Streak
      <4>2. lock' = Less(lock)
        BY <2>11 DEF Tick
      <4>3. QED  BY <1>2, <2>1, <3>2, <4>1, <4>2 DEF BlocksEnd, Active
    <3>5. QED  BY <3>3, <3>4 DEF BlocksEnd, Active
  <2>12. CASE UNCHANGED vars
    BY <1>2, <2>12, NoLongerBlock DEF vars
  <2>13. QED
    BY <1>2, <2>2, <2>3, <2>4, <2>6, <2>7, <2>8, <2>9, <2>10, <2>11, <2>12 DEF Next
<1>3. QED  BY <1>1, <1>2, BreakerTypeCorrect, PTL DEF Spec

-----------------------------------------------------------------------------
(* The budget.                                                              *)

\* Each job has one runner, and no request is sent while an earlier one of it
\* may still be at work.
OneRunnerEach ==
    /\ \A m, n \in Runners : KeyOf[m] = KeyOf[n] /\ KeyOf[n] \in Jobs => m = n
    /\ "network" \notin Faults

\* Who waits for which request.
Waiting ==
    /\ \A n \in Runners : runner[n].slot \in Requests =>
          /\ runner[n].waits /\ ~At(runner[n].slot, "idle")
          /\ request[runner[n].slot].key = KeyOf[n]
    /\ \A m, n \in Runners : runner[m].slot = runner[n].slot /\ runner[n].slot \in Requests
                                => m = n
    /\ \A r \in Requests : ~At(r, "idle") => \E n \in Runners : runner[n].slot = r

\* What the database and the cache know of job k.
Counted(k) ==
    /\ ran[k] <= top[k]
    /\ top[k] = 0 \/ top[k] < Budget
    /\ entry[k].attempt = 0 \/ entry[k].attempt >= top[k]

\* The attempt a request of job k counted.
Numbered(r) ==
    LET k == request[r].key
    IN  /\ At(r, "hydrated") => request[r].attempt > top[k]
        /\ At(r, "create") =>
              /\ request[r].attempt > top[k] /\ request[r].attempt < Budget
              /\ entry[k].attempt = 0 \/ entry[k].attempt >= request[r].attempt

BudgetInv ==
    /\ BreakerTypeOK
    /\ Waiting
    /\ \A k \in Jobs : Counted(k)
    /\ \A r \in Requests : ~At(r, "idle") /\ request[r].key \in Jobs => Numbered(r)

\* At most one request of a job is at work.
LEMMA OneRequestEach ==
    ASSUME OneRunnerEach, Waiting, NEW q \in Requests, NEW r \in Requests,
           ~At(q, "idle"), ~At(r, "idle"),
           request[q].key = request[r].key, request[r].key \in Jobs
    PROVE  q = r
<1>1. PICK m \in Runners : runner[m].slot = q
  BY DEF Waiting
<1>2. PICK n \in Runners : runner[n].slot = r
  BY DEF Waiting
<1>3. KeyOf[m] = KeyOf[n] /\ KeyOf[n] \in Jobs
  BY <1>1, <1>2 DEF Waiting
<1>4. QED  BY <1>1, <1>2, <1>3 DEF OneRunnerEach

\* An answer, and a step of a request, leave it known who waits for what.
LEMMA AnsweredWaiting ==
    ASSUME BreakerTypeOK, Waiting, NEW r \in Requests, Done(r)
    PROVE  /\ Waiting' /\ At(r, "idle")'
           /\ \A q \in Requests \ {r} : request'[q] = request[q]
<1>1. request'[r] = Idle /\ \A q \in Requests \ {r} : request'[q] = request[q]
  BY DEF Done, BreakerTypeOK
<1>2. \A n \in Runners : NoSession(runner[n]).slot = NoSlot /\ NoSlot \notin Requests
  BY BreakerAssumption DEF BreakerTypeOK, Runner, NoSession
<1>3. \A n \in Runners :
        /\ runner[n].slot = r => runner'[n].slot \notin Requests
        /\ runner[n].slot # r => runner'[n] = runner[n]
  BY <1>2 DEF Done
<1>4. \A n \in Runners : runner'[n].slot \in Requests =>
         runner'[n] = runner[n] /\ runner[n].slot # r
  BY <1>3
<1>5. QED  BY <1>1, <1>3, <1>4 DEF Waiting, At, Idle

LEMMA MovedWaiting ==
    ASSUME Waiting, UNCHANGED runner, NEW r \in Requests, ~At(r, "idle"),
           request'[r].pc # "idle", request'[r].key = request[r].key,
           \A q \in Requests \ {r} : request'[q] = request[q]
    PROVE  Waiting'
  BY DEF Waiting, At

\* A step of request r concerns its own job.
LEMMA OthersKeep ==
    ASSUME BudgetInv, OneRunnerEach, BreakerTypeOK', Waiting', NEW r \in Requests,
           ~At(r, "idle"), NEW k \in Keys, request[r].key = k,
           \A q \in Requests \ {r} : request'[q] = request[q],
           \A j \in Keys \ {k} :
              entry'[j] = entry[j] /\ top'[j] = top[j] /\ ran'[j] = ran[j],
           k \in Jobs => Counted(k)',
           \/ At(r, "idle")'
           \/ request'[r].key = k /\ (k \in Jobs => Numbered(r)')
    PROVE  BudgetInv'
<1>1. \A j \in Jobs : Counted(j)'
  <2>1. \A j \in Jobs \ {k} : Counted(j)'
    BY DEF BudgetInv, Counted, Jobs
  <2>2. QED  BY <2>1
<1>2. ASSUME NEW q \in Requests, ~At(q, "idle")', request'[q].key \in Jobs
      PROVE  Numbered(q)'
  <2>1. CASE q = r
    BY <1>2, <2>1
  <2>2. CASE q # r
    <3>1. request'[q] = request[q] /\ ~At(q, "idle") /\ request[q].key \in Jobs
      BY <1>2, <2>2 DEF At
    <3>2. request[q].key # k
      BY <2>2, <3>1, OneRequestEach DEF BudgetInv
    <3>3. /\ entry'[request[q].key] = entry[request[q].key]
          /\ top'[request[q].key] = top[request[q].key]
      BY <3>1, <3>2 DEF Jobs
    <3>4. Numbered(q)
      BY <3>1 DEF BudgetInv
    <3>5. QED  BY <3>1, <3>3, <3>4 DEF Numbered, At
  <2>3. QED  BY <2>1, <2>2
<1>3. QED  BY <1>1, <1>2 DEF BudgetInv

\* A trip, which may have to make up the attempt, does not undercount.
LEMMA TripCounts ==
    ASSUME Budget <= LoopAttempt + 1, entry \in [Keys -> Entry], NEW k \in Keys,
           top[k] \in Nat, top[k] = 0 \/ top[k] < Budget,
           NEW old \in Entry, old.attempt = 0 \/ old.attempt >= top[k],
           NEW c, TripBreaker(k, old, c)
    PROVE  /\ entry'[k].attempt >= top[k]
           /\ \A j \in Keys \ {k} : entry'[j] = entry[j]
<1>1. entry'[k].attempt = IF old.attempt = 0 THEN LoopAttempt ELSE old.attempt
  BY DEF TripBreaker
<1>2. \A j \in Keys \ {k} : entry'[j] = entry[j]
  BY DEF TripBreaker
<1>3. top[k] <= LoopAttempt
  BY BreakerAssumption
<1>4. QED  BY <1>1, <1>2, <1>3 DEF Entry

\* The decision: a start within the budget, or a trip.
LEMMA DecisionCounts ==
    ASSUME Budget <= LoopAttempt + 1, BudgetInv, NEW r \in Requests, request[r] \in Busy,
           NEW k \in Keys, request[r].key = k,
           NEW old \in Entry, NEW attempt \in Nat, Decide(r, old, attempt),
           UNCHANGED <<ran, top>>,
           k \in Jobs => attempt > top[k] /\ (old.attempt = 0 \/ old.attempt >= top[k])
    PROVE  /\ request'[r].pc # "idle" /\ request'[r].key = k
           /\ \A q \in Requests \ {r} : request'[q] = request[q]
           /\ \A j \in Keys \ {k} : entry'[j] = entry[j]
           /\ k \in Jobs => Counted(k)' /\ Numbered(r)'
<1>1. entry \in [Keys -> Entry] /\ request = [q \in Requests |-> request[q]]
      /\ top[k] \in Nat /\ BreakerTypeOK
  BY DEF BudgetInv, BreakerTypeOK, Busy
<1>2. k \in Jobs => Counted(k)
  BY DEF BudgetInv
<1>3. CASE attempt >= Budget
  <2>1. TripBreaker(k, old, Cooldown) /\ Goto(r, "trip")
    BY <1>3 DEF Decide
  <2>2. /\ request'[r].pc = "trip" /\ request'[r].key = k
        /\ \A q \in Requests \ {r} : request'[q] = request[q]
    BY <1>1, <2>1, MovedRequest
  <2>3. \A j \in Keys \ {k} : entry'[j] = entry[j]
    BY <1>1, <2>1 DEF TripBreaker
  <2>4. k \in Jobs => entry'[k].attempt >= top[k]
    BY <1>1, <1>2, <2>1, TripCounts DEF Counted
  <2>5. k \in Jobs => Counted(k)'
    BY <1>2, <2>4 DEF Counted
  <2>6. Numbered(r)'
    BY <2>2 DEF Numbered, At
  <2>7. QED  BY <2>2, <2>3, <2>5, <2>6
<1>4. CASE attempt < Budget
  <2>1. SetAttempt(k, old, attempt)
        /\ request' = [request EXCEPT ![r] = [@ EXCEPT !.pc = "create", !.attempt = attempt]]
    BY <1>4, BreakerAssumption DEF Decide
  <2> DEFINE b == [request[r] EXCEPT !.pc = "create", !.attempt = attempt]
             e == [old EXCEPT !.attempt = attempt, !.ttl = TTL]
  <2>2. request' = [request EXCEPT ![r] = b] /\ entry' = [entry EXCEPT ![k] = e]
    BY <2>1 DEF SetAttempt
  <2>3. b.pc = "create" /\ b.key = k /\ b.attempt = attempt /\ e.attempt = attempt
    BY DEF Busy, Entry
  <2> HIDE DEF b, e
  <2>4. /\ request'[r] = b /\ \A q \in Requests \ {r} : request'[q] = request[q]
    BY <1>1, <2>2
  <2>5. entry'[k] = e /\ \A j \in Keys \ {k} : entry'[j] = entry[j]
    BY <1>1, <2>2
  <2>6. k \in Jobs => Counted(k)'
    BY <1>1, <1>2, <2>3, <2>5 DEF Counted
  <2>7. k \in Jobs => Numbered(r)'
    BY <1>1, <1>4, <2>3, <2>4, <2>5 DEF Numbered, At
  <2>8. QED  BY <2>3, <2>4, <2>5, <2>6, <2>7
<1>5. QED  BY <1>3, <1>4, BreakerAssumption

\* Serving a request keeps the count, and creates no execution beyond the
\* budget.
LEMMA HandleCounts ==
    ASSUME Budget <= LoopAttempt + 1, OneRunnerEach, BudgetInv, BreakerTypeOK',
           NEW r \in Requests, Handle(r)
    PROVE  /\ BudgetInv'
           /\ \/ UNCHANGED ran
              \/ \E k \in Keys : /\ ran' = [ran EXCEPT ![k] = @ + 1]
                                 /\ k \in Jobs => ran[k] + 1 < Budget
<1>1. ~At(r, "idle")
  BY DEF Handle, FastPath, CheckStreak, ResetStreak, Count, Hydrate, UseHydrated, FindStreak,
     RefreshStreak, CreateStreak, CreateExecution, At
<1>2. /\ BreakerTypeOK /\ Waiting
      /\ request[r] \in Busy /\ request[r].key \in Keys
      /\ request[r].attempt \in Nat /\ request[r].id \in StreakIds \cup {0}
  BY <1>1, BusyRequest DEF BudgetInv
<1> SUFFICES ASSUME NEW k \in Keys, request[r].key = k
             PROVE  /\ BudgetInv'
                    /\ \/ UNCHANGED ran
                       \/ \E j \in Keys : /\ ran' = [ran EXCEPT ![j] = @ + 1]
                                          /\ j \in Jobs => ran[j] + 1 < Budget
  BY <1>2
<1>3. /\ entry \in [Keys -> Entry] /\ entry[k] \in Entry /\ entry[k].attempt \in Nat
      /\ ran \in [Keys -> Nat] /\ top \in [Keys -> Nat] /\ top[k] \in Nat /\ ran[k] \in Nat
  BY <1>2 DEF BreakerTypeOK, Entry
<1>4. k \in Jobs => Counted(k) /\ Numbered(r)
  BY <1>1 DEF BudgetInv
<1>5. ASSUME Done(r), UNCHANGED ran, \A j \in Keys \ {k} : entry'[j] = entry[j],
             UNCHANGED top, k \in Jobs => entry'[k].attempt = 0 \/ entry'[k].attempt >= top[k]
      PROVE  BudgetInv' /\ UNCHANGED ran
  <2>1. Waiting' /\ At(r, "idle")' /\ \A q \in Requests \ {r} : request'[q] = request[q]
    BY <1>2, <1>5, AnsweredWaiting
  <2>2. k \in Jobs => Counted(k)'
    BY <1>4, <1>5 DEF Counted
  <2>3. QED  BY <1>1, <1>5, <2>1, <2>2, OthersKeep
<1>6. ASSUME NEW pc, pc \notin {"idle", "hydrated", "create"},
             Goto(r, pc) \/ \E i : GotoWith(r, pc, i),
             UNCHANGED <<runner, ran, top>>, \A j \in Keys \ {k} : entry'[j] = entry[j],
             k \in Jobs => entry'[k].attempt = 0 \/ entry'[k].attempt >= top[k]
      PROVE  BudgetInv' /\ UNCHANGED ran
  <2>1. /\ request'[r].pc = pc /\ request'[r].key = k
        /\ \A q \in Requests \ {r} : request'[q] = request[q]
    BY <1>2, <1>6, MovedRequest
  <2>2. Waiting'
    BY <1>1, <1>2, <1>6, <2>1, MovedWaiting
  <2>3. k \in Jobs => Counted(k)'
    BY <1>4, <1>6 DEF Counted
  <2>4. Numbered(r)'
    BY <1>6, <2>1 DEF Numbered, At
  <2>5. QED  BY <1>1, <1>6, <2>1, <2>2, <2>3, <2>4, OthersKeep
<1>7. k \in Jobs => entry[k].attempt = 0 \/ entry[k].attempt >= top[k]
  BY <1>4 DEF Counted
<1>8. ASSUME NEW old \in Entry, NEW attempt \in Nat, Decide(r, old, attempt),
             UNCHANGED <<runner, ran, top>>,
             k \in Jobs => attempt > top[k] /\ (old.attempt = 0 \/ old.attempt >= top[k])
      PROVE  BudgetInv' /\ UNCHANGED ran
  <2>1. /\ request'[r].pc # "idle" /\ request'[r].key = k
        /\ \A q \in Requests \ {r} : request'[q] = request[q]
        /\ \A j \in Keys \ {k} : entry'[j] = entry[j]
        /\ k \in Jobs => Counted(k)' /\ Numbered(r)'
    BY <1>2, <1>8, DecisionCounts
  <2>2. Waiting'
    BY <1>1, <1>2, <1>8, <2>1, MovedWaiting
  <2>3. QED  BY <1>1, <1>8, <2>1, <2>2, OthersKeep
<1>a. CASE FastPath(r)
  BY <1>5, <1>6, <1>7, <1>a DEF FastPath
<1>b. CASE CheckStreak(r)
  <2>1. CASE Goto(r, "count") /\ UNCHANGED <<entry, runner>>
    BY <1>6, <1>7, <1>b, <2>1 DEF CheckStreak
  <2>2. ASSUME NEW i \in Active, Done(r),
               TripBreaker(request[r].key, entry[request[r].key], Cooldown - streak[i].age)
        PROVE  BudgetInv' /\ UNCHANGED ran
    <3>1. \A j \in Keys \ {k} : entry'[j] = entry[j]
      BY <1>3, <2>2 DEF TripBreaker
    <3>2. k \in Jobs => entry'[k].attempt >= top[k]
      BY <1>3, <1>4, <2>2, TripCounts DEF Counted
    <3>3. QED  BY <1>5, <1>b, <2>2, <3>1, <3>2 DEF CheckStreak
  <2>3. ASSUME NEW i \in Active, GotoWith(r, "reset", i), UNCHANGED <<entry, runner>>
        PROVE  BudgetInv' /\ UNCHANGED ran
    BY <1>6, <1>7, <1>b, <2>3 DEF CheckStreak
  <2>4. QED  BY <1>b, <2>1, <2>2, <2>3 DEF CheckStreak
<1>c. CASE ResetStreak(r)
  BY <1>6, <1>7, <1>c DEF ResetStreak
<1>d. CASE Count(r)
  <2>1. CASE Decide(r, entry[k], entry[k].attempt + 1) /\ Hit(k)
    <3>1. entry[k].attempt + 1 \in Nat /\ UNCHANGED <<runner, ran, top>>
      BY <1>3, <1>d DEF Count
    <3>2. k \in Jobs => /\ entry[k].attempt + 1 > top[k]
                        /\ entry[k].attempt = 0 \/ entry[k].attempt >= top[k]
      BY <1>3, <1>7, <2>1 DEF Hit
    <3>3. QED  BY <1>3, <1>8, <2>1, <3>1, <3>2
  <2>2. CASE Decide(r, NoEntry, 1) /\ k = Anonymous
    <3>1. k \notin Jobs /\ UNCHANGED <<runner, ran, top>>
      BY <1>d, <2>2 DEF Count, Jobs
    <3>2. QED  BY <1>8, <2>2, <3>1, NoEntryType
  <2>3. CASE entry' = [entry EXCEPT ![k] = NoEntry] /\ Goto(r, "hydrate")
    <3>1. entry'[k].attempt = 0 /\ \A j \in Keys \ {k} : entry'[j] = entry[j]
      BY <1>3, <2>3 DEF NoEntry
    <3>2. QED  BY <1>6, <1>d, <2>3, <3>1 DEF Count
  <2>4. QED  BY <1>d, <2>1, <2>2, <2>3 DEF Count
<1>e. CASE Hydrate(r)
  <2> DEFINE b == [request[r] EXCEPT !.pc = "hydrated", !.attempt = top[k] + 1]
  <2>1. request' = [request EXCEPT ![r] = b]
    BY <1>e DEF Hydrate, Hydrated
  <2>2. b.pc = "hydrated" /\ b.key = k /\ b.attempt = top[k] + 1
    BY <1>2 DEF Busy
  <2> HIDE DEF b
  <2>3. request'[r] = b /\ \A q \in Requests \ {r} : request'[q] = request[q]
    BY <1>2, <2>1 DEF BreakerTypeOK
  <2>4. Waiting'
    BY <1>1, <1>2, <1>e, <2>2, <2>3, MovedWaiting DEF Hydrate
  <2>5. k \in Jobs => Counted(k)' /\ Numbered(r)'
    BY <1>3, <1>4, <1>e, <2>2, <2>3 DEF Hydrate, Counted, Numbered, At
  <2>6. QED  BY <1>1, <1>e, <2>2, <2>3, <2>4, <2>5, OthersKeep DEF Hydrate
<1>f. CASE UseHydrated(r)
  <2>1. k \in Jobs => request[r].attempt > top[k]
    BY <1>4, <1>f DEF UseHydrated, Numbered
  <2>2. QED  BY <1>2, <1>3, <1>7, <1>8, <1>f, <2>1 DEF UseHydrated
<1>g. CASE FindStreak(r)
  BY <1>6, <1>7, <1>g DEF FindStreak
<1>i. CASE RefreshStreak(r) \/ CreateStreak(r)
  BY <1>5, <1>7, <1>i DEF RefreshStreak, CreateStreak
<1>k. CASE CreateExecution(r)
  <2>1. /\ ran'[k] = ran[k] + 1 /\ ran' = [ran EXCEPT ![k] = @ + 1]
        /\ top'[k] = IF request[r].attempt > top[k] THEN request[r].attempt ELSE top[k]
        /\ \A j \in Keys \ {k} : ran'[j] = ran[j] /\ top'[j] = top[j]
        /\ UNCHANGED entry
    BY <1>3, <1>k DEF CreateExecution
  <2>2. k \in Jobs => /\ request[r].attempt > top[k] /\ request[r].attempt < Budget
                      /\ entry[k].attempt = 0 \/ entry[k].attempt >= request[r].attempt
                      /\ ran[k] <= top[k]
    BY <1>4, <1>k DEF CreateExecution, Numbered, Counted
  <2>3. k \in Jobs => Counted(k)'
    BY <1>2, <1>3, <2>1, <2>2 DEF Counted
  <2>4. k \in Jobs => ran[k] + 1 < Budget
    BY <1>2, <1>3, <2>2, BreakerAssumption
  <2>5. Waiting' /\ At(r, "idle")' /\ \A q \in Requests \ {r} : request'[q] = request[q]
    BY <1>2, <1>k, AnsweredWaiting DEF CreateExecution
  <2>6. QED  BY <1>1, <2>1, <2>3, <2>4, <2>5, OthersKeep
<1>l. QED
  BY <1>a, <1>b, <1>c, <1>d, <1>e, <1>f, <1>g, <1>i, <1>k DEF Handle

LEMMA BudgetInit == Init => BudgetInv
<1> SUFFICES ASSUME Init
             PROVE  BudgetInv
  OBVIOUS
<1>1. BreakerTypeOK
  <2>1. 0 \in 0..Cooldown /\ Cooldown \in 0..Cooldown /\ 0 \in 0..TTL /\ 0 \in 0..MaxRetries
    BY BreakerAssumption
  <2>2. QED
    BY <2>1 DEF Init, BreakerTypeOK, NoEntry, Entry, NoStreak, Streak, Runner
<1>2. \A r \in Requests : At(r, "idle")
  BY DEF Init, At, Idle
<1>3. \A n \in Runners : runner[n].slot \notin Requests
  BY BreakerAssumption DEF Init
<1>4. Waiting
  BY <1>2, <1>3 DEF Waiting
<1>5. \A k \in Jobs : Counted(k)
  BY DEF Init, Counted, NoEntry, Jobs
<1>6. QED  BY <1>1, <1>2, <1>4, <1>5 DEF BudgetInv

\* Steps that count nothing and serve no request.
LEMMA NothingCounted ==
    ASSUME BudgetInv, BreakerTypeOK', Waiting', UNCHANGED <<ran, top>>,
           \A k \in Jobs : entry'[k].attempt = entry[k].attempt \/ entry'[k].attempt = 0,
           \A r \in Requests : \/ request'[r] = request[r]
                               \/ request'[r].pc \notin {"hydrated", "create"}
    PROVE  BudgetInv'
<1>1. \A k \in Jobs : Counted(k)'
  BY DEF BudgetInv, Counted
<1>2. ASSUME NEW r \in Requests, ~At(r, "idle")', request'[r].key \in Jobs
      PROVE  Numbered(r)'
  <2>1. CASE request'[r].pc \notin {"hydrated", "create"}
    BY <2>1 DEF Numbered, At
  <2>2. CASE request'[r] = request[r]
    <3>1. Numbered(r) /\ request[r].key \in Jobs
      BY <1>2, <2>2 DEF BudgetInv, At
    <3>2. \/ entry'[request[r].key].attempt = entry[request[r].key].attempt
          \/ entry'[request[r].key].attempt = 0
      BY <3>1
    <3>3. QED  BY <2>2, <3>1, <3>2 DEF Numbered, At
  <2>3. QED  BY <2>1, <2>2
<1>3. QED  BY <1>1, <1>2 DEF BudgetInv

\* Where a job has one runner, its requests are not sent again while they may
\* be at work, and the budget is at most one more than the attempt a trip makes
\* up, each job is started fewer than Budget times: CircuitBreaker implements
\* RetryBudget through cache evictions, restarts, database faults, analytics
\* and the end of every cooldown.
THEOREM RetryBudgetIsKept ==
    ASSUME Budget <= LoopAttempt + 1, OneRunnerEach
    PROVE  Spec => BudgetIsKept
<1>1. ASSUME BudgetInv, BreakerTypeOK', [Next]_vars
      PROVE  /\ BudgetInv'
             /\ \/ UNCHANGED ran
                \/ \E k \in Keys : /\ ran' = [ran EXCEPT ![k] = @ + 1]
                                   /\ k \in Jobs => ran[k] + 1 < Budget
  <2>1. /\ BreakerTypeOK /\ Waiting /\ entry \in [Keys -> Entry]
        /\ request \in [Requests -> {Idle} \cup Busy] /\ runner \in [Runners -> Runner]
        /\ NoSlot \notin Requests /\ Broken \notin Requests
    BY <1>1, BreakerAssumption DEF BudgetInv, BreakerTypeOK
  <2> DEFINE Kept == BudgetInv' /\ UNCHANGED ran
  <2>2. ASSUME NEW n \in Runners, Call(n)
        PROVE  Kept
    <3>1. Waiting'
      <4>1. runner[n].slot \notin Requests
            /\ runner'[n].slot = NoSlot
            /\ \A m \in Runners \ {n} : runner'[m] = runner[m]
        BY <2>1, <2>2 DEF Call, Waiting
      <4>2. UNCHANGED request
        BY <2>2 DEF Call
      <4>3. QED  BY <2>1, <4>1, <4>2 DEF Waiting, At
    <3>2. QED  BY <1>1, <2>2, <3>1, NothingCounted DEF Call
  <2>3. ASSUME NEW n \in Runners, Retry(n)
        PROVE  Kept
    <3>1. runner[n].slot = Broken
      BY <2>3 DEF Retry, OneRunnerEach
    <3>2. /\ runner'[n].slot = NoSlot
          /\ \A m \in Runners \ {n} : runner'[m] = runner[m]
      BY <2>1, <2>3 DEF Retry, NextTry, NoSession, Runner
    <3>3. UNCHANGED request
      BY <2>3 DEF Retry
    <3>4. Waiting'
      BY <2>1, <3>1, <3>2, <3>3 DEF Waiting, At
    <3>5. QED  BY <1>1, <2>3, <3>4, NothingCounted DEF Retry
  <2>4. ASSUME NEW n \in Runners, NEW r \in Requests, Send(n, r)
        PROVE  Kept
    <3>1. /\ request'[r].pc = "received" /\ request'[r].key = KeyOf[n]
          /\ \A q \in Requests \ {r} : request'[q] = request[q]
      BY <2>1, <2>4 DEF Send
    <3>2. /\ runner'[n].slot = r /\ runner'[n].waits
          /\ \A m \in Runners \ {n} : runner'[m] = runner[m]
      BY <2>1, <2>4 DEF Send, Runner
    <3>3. /\ \A m \in Runners : runner[m].slot # r
          /\ runner[n].slot \notin Requests /\ At(r, "idle")
      BY <2>1, <2>4 DEF Send, Waiting
    <3>4. Waiting'
      BY <2>1, <3>1, <3>2, <3>3 DEF Waiting, At
    <3>5. QED  BY <1>1, <2>4, <3>1, <3>4, NothingCounted DEF Send
  <2>5. ASSUME NEW r \in Requests, Handle(r)
        PROVE  /\ BudgetInv'
               /\ \/ UNCHANGED ran
                  \/ \E k \in Keys : /\ ran' = [ran EXCEPT ![k] = @ + 1]
                                     /\ k \in Jobs => ran[k] + 1 < Budget
    BY <1>1, <2>5, HandleCounts
  <2>6. ASSUME NEW r \in Requests, DatabaseFails(r)
        PROVE  Kept
    <3>1. Waiting' /\ At(r, "idle")' /\ \A q \in Requests \ {r} : request'[q] = request[q]
      BY <2>1, <2>6, AnsweredWaiting DEF DatabaseFails
    <3>2. QED  BY <1>1, <2>6, <3>1, NothingCounted DEF DatabaseFails, At
  <2>7. Waiting /\ UNCHANGED <<request, runner>> => Waiting'
    BY DEF Waiting, At
  <2>8. ASSUME NEW k \in Keys, Evict(k)
        PROVE  Kept
    <3>1. \A j \in Jobs : entry'[j].attempt = entry[j].attempt \/ entry'[j].attempt = 0
      BY <2>1, <2>8 DEF Evict, NoEntry, Jobs
    <3>2. QED  BY <1>1, <2>1, <2>7, <2>8, <3>1, NothingCounted DEF Evict
  <2>9. CASE AnalyzeMonitor \/ Aggregate \/ Nightly \/ Detect \/ OpenRecursive
    BY <1>1, <2>1, <2>7, <2>9, NothingCounted
       DEF AnalyzeMonitor, Aggregate, Nightly, Detect, OpenRecursive
  <2>10. CASE Restart
    <3>1. /\ \A r \in Requests : request'[r].pc = "idle"
          /\ \A k \in Jobs : entry'[k].attempt = 0
      BY <2>10 DEF Restart, Idle, NoEntry, Jobs
    <3>2. \A n \in Runners : runner'[n].slot \notin Requests
      BY <2>1, <2>10 DEF Restart, Runner
    <3>3. Waiting'
      BY <3>1, <3>2 DEF Waiting, At
    <3>4. QED  BY <1>1, <2>10, <3>1, <3>3, NothingCounted DEF Restart
  <2>11. CASE Tick
    <3>1. \A k \in Jobs : entry'[k].attempt = entry[k].attempt
      BY <2>1, <2>11 DEF Tick, Entry, Jobs
    <3>2. QED  BY <1>1, <2>1, <2>7, <2>11, <3>1, NothingCounted DEF Tick
  <2>12. CASE UNCHANGED vars
    BY <1>1, <2>1, <2>7, <2>12, NothingCounted DEF vars
  <2>13. QED
    BY <1>1, <2>2, <2>3, <2>4, <2>5, <2>6, <2>8, <2>9, <2>10, <2>11, <2>12 DEF Next
<1> DEFINE admitted == [j \in Jobs |-> ran[j]]
<1>2. Init => AbstractBudget!Init
  BY DEF Init, AbstractBudget!Init, Jobs
<1>3. ASSUME BudgetInv, BreakerTypeOK', [Next]_vars
      PROVE  [AbstractBudget!Next]_admitted
  <2>1. CASE UNCHANGED ran
    BY <2>1
  <2>2. ASSUME NEW k \in Keys, ran' = [ran EXCEPT ![k] = @ + 1],
               k \in Jobs => ran[k] + 1 < Budget
        PROVE  [AbstractBudget!Next]_admitted
    <3>1. ran \in [Keys -> Nat]
      BY <1>3 DEF BudgetInv, BreakerTypeOK
    <3>2. CASE k \in Jobs
      <4>1. admitted' = [admitted EXCEPT ![k] = @ + 1] /\ admitted[k] = ran[k]
        BY <2>2, <3>1, <3>2 DEF Jobs
      <4>2. AbstractBudget!Admit(k)
        BY <2>2, <3>2, <4>1 DEF AbstractBudget!Admit
      <4>3. QED  BY <3>2, <4>2 DEF AbstractBudget!Next
    <3>3. CASE k \notin Jobs
      <4>1. admitted' = admitted
        BY <2>2, <3>1, <3>3 DEF Jobs
      <4>2. QED  BY <4>1
    <3>4. QED  BY <3>2, <3>3
  <2>3. QED  BY <1>1, <1>3, <2>1, <2>2
<1>4. QED
  BY <1>1, <1>2, <1>3, BudgetInit, BreakerTypeCorrect, PTL DEF Spec, BudgetIsKept, AbstractBudget!Spec
=============================================================================
