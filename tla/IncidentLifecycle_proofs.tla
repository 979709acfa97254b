---------------------- MODULE IncidentLifecycle_proofs ----------------------
(***************************************************************************)
(* Theorems about IncidentLifecycle: for any number of monitors, of        *)
(* heartbeats in flight and of overlapping passes.                         *)
(***************************************************************************)
EXTENDS IncidentLifecycle, FiniteSetTheorems, TLAPS

\* A thread that is not idle has the fields of a thread.
LEMMA BusyThread ==
    ASSUME IncidentTypeOK, NEW t \in Threads, ~At(t, "idle")
    PROVE  thread[t] \in ThreadState
  BY DEF IncidentTypeOK, Idle, At

\* Where createIncident leads.
LEMMA CreatedType ==
    ASSUME IncidentTypeOK, NEW t \in Threads, thread[t] \in ThreadState, Created(t)
    PROVE  thread' \in [Threads -> {Idle} \cup ThreadState]
  BY DEF IncidentTypeOK, Created, Goto, Become, ThreadState

\* Resolving incidents of a monitor keeps what threads remember well-formed.
LEMMA UnseeType ==
    ASSUME NEW m, NEW closed, NEW r \in {Idle} \cup ThreadState
    PROVE  Unsee(m, closed, r) \in {Idle} \cup ThreadState
  BY DEF Unsee, ThreadState

\* The types are inductive, one database call at a time.
LEMMA StepType ==
    ASSUME IncidentTypeOK, NEW t \in Threads, Step(t)
    PROVE  IncidentTypeOK'
<1> DEFINE m == thread[t].monitor
<1>1. thread[t] \in ThreadState
  <2>1. ~At(t, "idle")
    BY DEF Step, At, Record, FindToResolve, ResolveOpen, FindOpenIncident, InsertIncident,
       FindMonitor, UpdateNextExpected
  <2>2. QED  BY <2>1, BusyThread
<1>2. m \in Monitors /\ monitor[m] \in MonitorRow /\ incident[m] \in SUBSET Incidents
  BY <1>1 DEF ThreadState, IncidentTypeOK
<1>3. \A pc \in {"find", "check", "resolve", "create", "reread", "update"} :
        Goto(t, pc) => thread' \in [Threads -> {Idle} \cup ThreadState]
  BY <1>1 DEF Goto, Become, ThreadState, IncidentTypeOK
<1>4. Become(t, Idle) => thread' \in [Threads -> {Idle} \cup ThreadState]
  BY DEF Become, IncidentTypeOK
<1>a. CASE Record(t)
  BY <1>a, <1>2, <1>3 DEF Record, IncidentTypeOK, MonitorRow
<1>b. CASE FindToResolve(t)
  BY <1>b, <1>3 DEF FindToResolve, IncidentTypeOK
<1>c. CASE ResolveOpen(t)
  <2>1. [thread[t] EXCEPT !.pc = "reread"] \in ThreadState
    BY <1>1 DEF ThreadState
  <2>2. thread' \in [Threads -> {Idle} \cup ThreadState]
    BY <1>c, <2>1, UnseeType DEF ResolveOpen, Resolve, IncidentTypeOK
  <2>3. incident' \in [Monitors -> SUBSET Incidents]
    BY <1>c, <1>2 DEF ResolveOpen, Resolve, IncidentTypeOK
  <2>4. QED  BY <1>c, <2>2, <2>3 DEF ResolveOpen, Resolve, IncidentTypeOK
<1>d. CASE FindOpenIncident(t)
  BY <1>d, <1>1, <1>3, CreatedType DEF FindOpenIncident, IncidentTypeOK
<1>e. CASE InsertIncident(t)
  <2>1. PICK i \in Incidents : incident' = [incident EXCEPT ![m] = @ \cup {i}]
    BY <1>e DEF InsertIncident
  <2>2. QED  BY <1>e, <1>1, <1>2, <2>1, CreatedType DEF InsertIncident, IncidentTypeOK
<1>f. CASE FindMonitor(t)
  BY <1>f, <1>3, <1>4 DEF FindMonitor, IncidentTypeOK
<1>g. CASE UpdateNextExpected(t)
  BY <1>g, <1>2, <1>4 DEF UpdateNextExpected, IncidentTypeOK, MonitorRow
<1>h. QED  BY <1>a, <1>b, <1>c, <1>d, <1>e, <1>f, <1>g DEF Step

\* Every step of the system keeps the types.
LEMMA NextType ==
    ASSUME IncidentTypeOK, [Next]_vars
    PROVE  IncidentTypeOK'
<1>1. ASSUME NEW t \in Beats, NEW m \in Monitors, NEW type \in {"SUCCESS", "FAILURE"},
             Receive(t, m, type)
      PROVE  IncidentTypeOK'
  BY <1>1 DEF Receive, Become, IncidentTypeOK, ThreadState, Threads
<1>2. ASSUME NEW t \in Passes, StartPass(t)
      PROVE  IncidentTypeOK'
  <2>1. PICK m \in Monitors, todo \in SUBSET Monitors :
          Become(t, [pc |-> "mark", kind |-> "missed", monitor |-> m, todo |-> todo, seen |-> {}])
    BY <1>2 DEF StartPass
  <2>2. QED  BY <1>2, <2>1 DEF StartPass, Become, IncidentTypeOK, ThreadState, Threads
<1>3. ASSUME NEW t \in Passes, NEW m \in Monitors, MarkDown(t, m)
      PROVE  IncidentTypeOK'
  <2>1. t \in Threads /\ thread[t] \in ThreadState
    BY <1>3, BusyThread DEF MarkDown, At, Threads
  <2>2. monitor' \in [Monitors -> MonitorRow]
    BY <1>3 DEF MarkDown, IncidentTypeOK, MonitorRow
  <2>3. thread' \in [Threads -> {Idle} \cup ThreadState]
    BY <1>3, <2>1 DEF MarkDown, Become, IncidentTypeOK, ThreadState
  <2>4. QED  BY <1>3, <2>2, <2>3 DEF MarkDown, IncidentTypeOK
<1>4. ASSUME NEW t \in Threads, ThreadFails(t)
      PROVE  IncidentTypeOK'
  BY <1>4 DEF ThreadFails, Become, IncidentTypeOK
<1>5. ASSUME NEW m \in Monitors, NEW i \in Incidents, ResolveByHand(m, i)
      PROVE  IncidentTypeOK'
  <2>1. thread' \in [Threads -> {Idle} \cup ThreadState]
    BY <1>5, UnseeType DEF ResolveByHand, IncidentTypeOK
  <2>2. QED  BY <1>5, <2>1 DEF ResolveByHand, IncidentTypeOK
<1>6. ASSUME NEW m \in Monitors, Schedule(m) \/ DeleteMonitor(m) \/ Elapse(m)
      PROVE  IncidentTypeOK'
  BY <1>6 DEF Schedule, DeleteMonitor, Elapse, IncidentTypeOK, MonitorRow
<1>7. CASE Restart
  BY <1>7 DEF Restart, IncidentTypeOK
<1>8. CASE UNCHANGED vars
  BY <1>8 DEF vars, IncidentTypeOK
<1>9. QED  BY <1>1, <1>2, <1>3, <1>4, <1>5, <1>6, <1>7, <1>8, StepType DEF Next

\* Monitors, incidents and threads keep their shapes.
THEOREM IncidentTypeCorrect == Spec => []IncidentTypeOK
<1>1. Init => IncidentTypeOK
  BY DEF Init, IncidentTypeOK, MonitorRow
<1>2. IncidentTypeOK /\ [Next]_vars => IncidentTypeOK'
  BY NextType
<1>3. QED  BY <1>1, <1>2, PTL DEF Spec

-----------------------------------------------------------------------------
(***************************************************************************)
(* A recovery ends the incidents it found.  What a thread has seen and     *)
(* nobody has resolved is still open; only heartbeats that fail, and       *)
(* passes, open incidents.                                                 *)
(***************************************************************************)
SeenIsOpen ==
    \A t \in Threads : ~At(t, "idle") =>
        /\ thread[t].seen \subseteq incident[thread[t].monitor]
        /\ thread[t].pc \in {"mark", "check", "create"} => thread[t].kind # "SUCCESS"

EndInv == IncidentTypeOK /\ SeenIsOpen /\ SuccessEndsIncidents

\* What EndInv says of one thread.
EndsWell(t) == ~At(t, "idle") =>
    /\ thread[t].seen \subseteq incident[thread[t].monitor]
    /\ thread[t].pc \in {"mark", "check", "create"} => thread[t].kind # "SUCCESS"
    /\ thread[t].pc \in {"reread", "update"} /\ thread[t].kind = "SUCCESS"
          => thread[t].seen = {}

LEMMA EndInvOfThreads == EndInv <=> IncidentTypeOK /\ \A t \in Threads : EndsWell(t)
<1>1. \A t \in Threads : thread[t].pc \in {"reread", "update"} => ~At(t, "idle")
  BY DEF At
<1>2. QED  BY <1>1, Zenon DEF EndInv, SeenIsOpen, SuccessEndsIncidents, EndsWell

\* A thread ends well if it does not move and no incident it has seen is resolved.
LEMMA StillEndsWell ==
    ASSUME NEW t \in Threads, EndsWell(t), thread'[t] = thread[t],
           \A m : incident[m] \subseteq incident'[m]
    PROVE  EndsWell(t)'
  BY DEF EndsWell, At

LEMMA IdleEndsWell ==
    ASSUME NEW t \in Threads, thread'[t] = Idle
    PROVE  EndsWell(t)'
  BY DEF EndsWell, At, Idle

\* What one database call of a thread does to the threads and incidents.
LEMMA StepEndsWell ==
    ASSUME EndInv, NEW t \in Threads, Step(t), NEW u \in Threads
    PROVE  EndsWell(u)'
<1> DEFINE m == thread[t].monitor
           Keeps == /\ thread'[t].kind = thread[t].kind
                    /\ thread'[t].monitor = m
                    /\ thread'[t].seen = thread[t].seen
<1>1. EndsWell(t) /\ EndsWell(u) /\ IncidentTypeOK /\ IncidentTypeOK'
  BY EndInvOfThreads, StepType DEF EndInv
<1>2. ~At(t, "idle") /\ thread[t] \in ThreadState
  <2>1. ~At(t, "idle")
    BY DEF Step, At, Record, FindToResolve, ResolveOpen, FindOpenIncident, InsertIncident,
       FindMonitor, UpdateNextExpected
  <2>2. QED  BY <1>1, <2>1, BusyThread
<1>3. \A pc : Goto(t, pc) =>
        /\ thread'[t].pc = pc /\ Keeps
        /\ u # t => thread'[u] = thread[u]
  BY <1>1, <1>2 DEF Goto, Become, IncidentTypeOK, ThreadState
<1>4. Become(t, Idle) => thread'[t] = Idle /\ (u # t => thread'[u] = thread[u])
  BY <1>1 DEF Become, IncidentTypeOK
<1>5. Created(t) =>
        /\ \/ thread'[t] = Idle
           \/ thread'[t].pc = "reread" /\ Keeps
           \/ thread'[t].pc = "mark" /\ thread[t].kind = "missed" /\ Keeps
        /\ u # t => thread'[u] = thread[u]
  BY <1>3, <1>4 DEF Created
<1>6. ASSUME \A n : incident[n] \subseteq incident'[n], u # t => thread'[u] = thread[u],
             EndsWell(t)'
      PROVE  EndsWell(u)'
  BY <1>6, <1>1, StillEndsWell
<1>a. CASE Record(t)
  BY <1>a, <1>1, <1>2, <1>3, <1>6 DEF Record, EndsWell, At
<1>b. CASE FindToResolve(t)
  BY <1>b, <1>1, <1>2, <1>3, <1>6 DEF FindToResolve, EndsWell, At
<1>d. CASE FindOpenIncident(t)
  BY <1>d, <1>1, <1>2, <1>3, <1>5, <1>6, IdleEndsWell DEF FindOpenIncident, EndsWell, At
<1>e. CASE InsertIncident(t)
  BY <1>e, <1>1, <1>2, <1>5, <1>6, IdleEndsWell
     DEF InsertIncident, EndsWell, At, IncidentTypeOK
<1>f. CASE FindMonitor(t)
  BY <1>f, <1>1, <1>2, <1>3, <1>4, <1>6, IdleEndsWell DEF FindMonitor, EndsWell, At
<1>g. CASE UpdateNextExpected(t)
  BY <1>g, <1>4, <1>6, IdleEndsWell DEF UpdateNextExpected
<1>c. CASE ResolveOpen(t)
  BY <1>c, <1>1, <1>2, BusyThread DEF ResolveOpen, Resolve, EndsWell, At, ThreadState,
     IncidentTypeOK, Unsee, Idle
<1>h. QED  BY <1>a, <1>b, <1>c, <1>d, <1>e, <1>f, <1>g DEF Step

\* Resolving an incident by hand takes it from everybody who has seen it.
LEMMA UnseeEndsWell ==
    ASSUME EndInv, NEW m \in Monitors, NEW i \in Incidents, ResolveByHand(m, i),
           NEW u \in Threads
    PROVE  EndsWell(u)'
<1>1. EndsWell(u) /\ IncidentTypeOK
  BY EndInvOfThreads DEF EndInv
<1>2. incident' = [incident EXCEPT ![m] = @ \ {i}] /\ thread'[u] = Unsee(m, {i}, thread[u])
  BY DEF ResolveByHand
<1>3. CASE thread[u] = Idle
  BY <1>2, <1>3, IdleEndsWell DEF Unsee
<1>4. CASE thread[u] \in ThreadState
  <2>1. thread'[u].pc = thread[u].pc /\ thread'[u].kind = thread[u].kind
        /\ thread'[u].monitor = thread[u].monitor
        /\ thread'[u].seen = IF thread[u].monitor = m THEN thread[u].seen \ {i}
                             ELSE thread[u].seen
    BY <1>2, <1>4 DEF Unsee, ThreadState, Idle
  <2>2. thread[u].monitor \in Monitors
    BY <1>4 DEF ThreadState
  <2>3. QED  BY <1>1, <1>2, <2>1, <2>2 DEF EndsWell, At, IncidentTypeOK
<1>5. QED  BY <1>1, <1>3, <1>4 DEF IncidentTypeOK

LEMMA NextEndsWell ==
    ASSUME EndInv, [Next]_vars, NEW u \in Threads
    PROVE  EndsWell(u)'
<1>1. EndsWell(u) /\ IncidentTypeOK
  BY EndInvOfThreads DEF EndInv
<1>2. ASSUME NEW t \in Threads, NEW r, Become(t, r), UNCHANGED incident,
             u = t => (thread'[u] = r => EndsWell(u)')
      PROVE  EndsWell(u)'
  <2>1. thread'[t] = r /\ (u # t => thread'[u] = thread[u])
    BY <1>2, <1>1 DEF Become, IncidentTypeOK
  <2>2. QED  BY <1>2, <2>1, <1>1, StillEndsWell
<1>3. ASSUME NEW t \in Beats, NEW m \in Monitors, NEW type \in {"SUCCESS", "FAILURE"},
             Receive(t, m, type)
      PROVE  EndsWell(u)'
  <2>1. t \in Threads
    BY DEF Threads
  <2>2. QED  BY <1>2, <1>3, <2>1 DEF Receive, EndsWell, At
<1>4. ASSUME NEW t \in Passes, StartPass(t)
      PROVE  EndsWell(u)'
  <2>1. t \in Threads
    BY DEF Threads
  <2>2. QED  BY <1>2, <1>4, <2>1 DEF StartPass, EndsWell, At
<1>5. ASSUME NEW t \in Passes, NEW m \in Monitors, MarkDown(t, m)
      PROVE  EndsWell(u)'
  <2>1. t \in Threads
    BY DEF Threads
  <2>2. thread[t] \in ThreadState
    BY <1>1, <1>5, <2>1, BusyThread DEF MarkDown, At
  <2>3. m \in Monitors /\ thread'[t].kind = thread[t].kind /\ thread'[t].pc = "check" /\
        thread'[t].monitor = m /\ thread'[t].seen = incident[m]
    BY <1>1, <1>5, <2>1, <2>2 DEF MarkDown, Become, ThreadState, IncidentTypeOK
  <2>4. u = t => EndsWell(u)'
    BY <1>1, <1>5, <2>3 DEF MarkDown, EndsWell, At
  <2>5. QED  BY <1>2, <1>5, <2>1, <2>4 DEF MarkDown
<1>6. ASSUME NEW t \in Threads, ThreadFails(t)
      PROVE  EndsWell(u)'
  BY <1>2, <1>6, IdleEndsWell DEF ThreadFails
<1>7. ASSUME NEW m \in Monitors, Schedule(m) \/ DeleteMonitor(m) \/ Elapse(m)
      PROVE  EndsWell(u)'
  BY <1>1, <1>7, StillEndsWell DEF Schedule, DeleteMonitor, Elapse
<1>8. CASE Restart
  BY <1>8, IdleEndsWell DEF Restart
<1>9. CASE UNCHANGED vars
  BY <1>1, <1>9, StillEndsWell DEF vars
<1>10. QED
  BY <1>3, <1>4, <1>5, <1>6, <1>7, <1>8, <1>9, StepEndsWell, UnseeEndsWell DEF Next

\* A SUCCESS heartbeat that has passed autoResolve has ended every incident it
\* found, duplicates included, whoever resolves and opens others meanwhile.
THEOREM SuccessesEndIncidents == Spec => []SuccessEndsIncidents
<1>1. Init => EndInv
  BY DEF Init, EndInv, IncidentTypeOK, MonitorRow, SeenIsOpen, SuccessEndsIncidents, At, Idle
<1>2. EndInv /\ [Next]_vars => EndInv'
  <2> SUFFICES ASSUME EndInv, [Next]_vars
               PROVE  EndInv'
    OBVIOUS
  <2>1. IncidentTypeOK'
    BY NextType DEF EndInv
  <2>2. (\A u \in Threads : EndsWell(u))'
    BY NextEndsWell DEF Threads
  <2>3. (EndInv <=> IncidentTypeOK /\ \A t \in Threads : EndsWell(t))'
    BY EndInvOfThreads, PTL
  <2>4. QED  BY <2>1, <2>2, <2>3
<1>3. EndInv => SuccessEndsIncidents
  BY DEF EndInv
<1>4. QED  BY <1>1, <1>2, <1>3, PTL DEF Spec

-----------------------------------------------------------------------------
(***************************************************************************)
(* Duplicates are bounded.  A thread that is about to insert an incident   *)
(* of a monitor holds a place for it, and no thread takes a place unless   *)
(* the monitor has no open incident.                                       *)
(***************************************************************************)
Creators(m) == {t \in Threads : At(t, "create") /\ thread[t].monitor = m}

PlacesLast(m) ==
    /\ IsFiniteSet(incident[m])
    /\ Cardinality(incident[m]) + Cardinality(Creators(m)) <= Cardinality(Threads)

DuplicateInv == IncidentTypeOK /\ \A m \in Monitors : PlacesLast(m)

LEMMA ThreadsAreFinite == IsFiniteSet(Threads) /\ Cardinality(Threads) \in Nat
<1>1. IsFiniteSet(Threads)
  BY IncidentAssumption, FS_Union DEF Threads
<1>2. QED  BY <1>1, FS_CardinalityType

LEMMA CreatorsAreFinite ==
    ASSUME NEW m
    PROVE  IsFiniteSet(Creators(m)) /\ Cardinality(Creators(m)) \in Nat
           /\ Cardinality(Creators(m)) <= Cardinality(Threads)
<1>1. Creators(m) \subseteq Threads
  BY DEF Creators
<1>2. QED  BY <1>1, ThreadsAreFinite, FS_Subset, FS_CardinalityType

\* A step frees places, finds nothing open, or uses a place up.
LEMMA PlacesKept ==
    ASSUME NEW m \in Monitors, PlacesLast(m),
           \/ incident'[m] \subseteq incident[m] /\ Creators(m)' \subseteq Creators(m)
           \/ incident'[m] = {}
           \/ \E i \in Incidents, t \in Creators(m) :
                 /\ incident'[m] = incident[m] \cup {i}
                 /\ Creators(m)' \subseteq Creators(m) \ {t}
    PROVE  PlacesLast(m)'
<1> DEFINE open == incident[m]
           places == Creators(m)
<1>1. /\ IsFiniteSet(open) /\ Cardinality(open) \in Nat
      /\ IsFiniteSet(places) /\ Cardinality(places) \in Nat
      /\ Cardinality(open) + Cardinality(places) <= Cardinality(Threads)
  BY CreatorsAreFinite, FS_CardinalityType DEF PlacesLast
<1>2. IsFiniteSet(places') /\ Cardinality(places') \in Nat
      /\ Cardinality(places') <= Cardinality(Threads)
  <2>1. (IsFiniteSet(places) /\ Cardinality(places) \in Nat
         /\ Cardinality(places) <= Cardinality(Threads))'
    BY CreatorsAreFinite, PTL
  <2>2. QED  BY <2>1 DEF Threads
<1>3. CASE open' \subseteq open /\ places' \subseteq places
  <2>1. IsFiniteSet(open') /\ Cardinality(open') \in Nat
        /\ Cardinality(open') <= Cardinality(open)
    BY <1>1, <1>3, FS_Subset, FS_CardinalityType
  <2>2. Cardinality(places') <= Cardinality(places)
    BY <1>1, <1>3, FS_Subset
  <2>3. QED  BY <1>1, <1>2, <2>1, <2>2, ThreadsAreFinite DEF PlacesLast, Threads
<1>4. CASE open' = {}
  BY <1>2, <1>4, FS_EmptySet, ThreadsAreFinite DEF PlacesLast, Threads
<1>5. CASE \E i \in Incidents, t \in places : open' = open \cup {i} /\ places' \subseteq places \ {t}
  <2>1. PICK i \in Incidents, t \in places : open' = open \cup {i} /\ places' \subseteq places \ {t}
    BY <1>5
  <2>2. IsFiniteSet(open') /\ Cardinality(open') \in Nat
        /\ Cardinality(open') <= Cardinality(open) + 1
    <3>1. IsFiniteSet(open \cup {i})
      BY <1>1, FS_AddElement
    <3>2. Cardinality(open \cup {i}) \in {Cardinality(open), Cardinality(open) + 1}
      BY <1>1, FS_AddElement
    <3>3. QED  BY <1>1, <2>1, <3>1, <3>2
  <2>3. IsFiniteSet(places \ {t}) /\ Cardinality(places \ {t}) = Cardinality(places) - 1
    BY <1>1, <2>1, FS_RemoveElement
  <2>4. Cardinality(places') <= Cardinality(places) - 1
    BY <2>1, <2>3, FS_Subset
  <2>5. QED  BY <1>1, <1>2, <2>2, <2>4, ThreadsAreFinite DEF PlacesLast, Threads
<1>6. QED  BY <1>3, <1>4, <1>5

LEMMA StepKeepsPlaces ==
    ASSUME DuplicateInv, NEW t \in Threads, Step(t), NEW n \in Monitors
    PROVE  PlacesLast(n)'
<1> DEFINE m == thread[t].monitor
<1>1. IncidentTypeOK /\ PlacesLast(n)
  BY DEF DuplicateInv
<1>2. thread[t] \in ThreadState
  <2>1. ~At(t, "idle")
    BY DEF Step, At, Record, FindToResolve, ResolveOpen, FindOpenIncident, InsertIncident,
       FindMonitor, UpdateNextExpected
  <2>2. QED  BY <1>1, <2>1, BusyThread
<1>3. \A pc : Goto(t, pc) =>
        /\ thread'[t].pc = pc /\ thread'[t].monitor = m
        /\ \A u \in Threads \ {t} : thread'[u] = thread[u]
  BY <1>1, <1>2 DEF Goto, Become, IncidentTypeOK, ThreadState
<1>4. Become(t, Idle) =>
        thread'[t].pc = "idle" /\ \A u \in Threads \ {t} : thread'[u] = thread[u]
  BY <1>1 DEF Become, IncidentTypeOK, Idle
<1>5. Created(t) =>
        thread'[t].pc # "create" /\ \A u \in Threads \ {t} : thread'[u] = thread[u]
  BY <1>3, <1>4 DEF Created
<1>6. ASSUME thread'[t].pc # "create", \A u \in Threads \ {t} : thread'[u] = thread[u]
      PROVE  Creators(n)' \subseteq Creators(n) \ {t}
  BY <1>6 DEF Creators, At, Threads
<1>a. CASE Record(t)
  BY <1>a, <1>1, <1>3, <1>6, PlacesKept DEF Record
<1>b. CASE FindToResolve(t)
  BY <1>b, <1>1, <1>3, <1>6, PlacesKept DEF FindToResolve
<1>c. CASE ResolveOpen(t)
  <2>1. incident'[n] \subseteq incident[n]
    BY <1>c, <1>1 DEF ResolveOpen, Resolve, IncidentTypeOK
  <2>2. \A u \in Threads : thread'[u].pc = "create" =>
          thread[u].pc = "create" /\ thread'[u].monitor = thread[u].monitor
    BY <1>c, <1>1, <1>2, BusyThread
       DEF ResolveOpen, Resolve, Unsee, IncidentTypeOK, ThreadState, Idle
  <2>3. Creators(n)' \subseteq Creators(n)
    BY <2>2 DEF Creators, At, Threads
  <2>4. QED  BY <1>1, <2>1, <2>3, PlacesKept
<1>d. CASE FindOpenIncident(t)
  <2>1. CASE incident[m] = {} /\ n = m
    BY <1>1, <1>d, <2>1, PlacesKept DEF FindOpenIncident
  <2>2. CASE incident[m] = {} /\ n # m
    <3>1. Creators(n)' \subseteq Creators(n)
      BY <1>3, <1>d, <2>2 DEF FindOpenIncident, Creators, At, Threads
    <3>2. QED  BY <1>1, <1>d, <3>1, PlacesKept DEF FindOpenIncident
  <2>3. CASE incident[m] # {}
    BY <1>1, <1>5, <1>6, <1>d, <2>3, PlacesKept DEF FindOpenIncident
  <2>4. QED  BY <2>1, <2>2, <2>3
<1>e. CASE InsertIncident(t)
  <2>1. PICK i \in Incidents : incident' = [incident EXCEPT ![m] = @ \cup {i}]
    BY <1>e DEF InsertIncident
  <2>2. Creators(n)' \subseteq Creators(n) \ {t}
    BY <1>e, <1>5, <1>6 DEF InsertIncident
  <2>3. CASE n = m
    <3>1. t \in Creators(n)
      BY <1>e, <2>3 DEF InsertIncident, Creators
    <3>2. incident'[n] = incident[n] \cup {i}
      BY <1>1, <2>1, <2>3 DEF IncidentTypeOK
    <3>3. QED  BY <1>1, <2>2, <3>1, <3>2, PlacesKept
  <2>4. CASE n # m
    <3>1. incident'[n] = incident[n]
      BY <1>1, <2>1, <2>4 DEF IncidentTypeOK
    <3>2. QED  BY <1>1, <2>2, <3>1, PlacesKept
  <2>5. QED  BY <2>3, <2>4
<1>f. CASE FindMonitor(t)
  BY <1>f, <1>1, <1>3, <1>4, <1>6, PlacesKept DEF FindMonitor
<1>g. CASE UpdateNextExpected(t)
  BY <1>g, <1>1, <1>4, <1>6, PlacesKept DEF UpdateNextExpected
<1>h. QED  BY <1>a, <1>b, <1>c, <1>d, <1>e, <1>f, <1>g DEF Step

LEMMA NextKeepsPlaces ==
    ASSUME DuplicateInv, [Next]_vars, NEW n \in Monitors
    PROVE  PlacesLast(n)'
<1>1. IncidentTypeOK /\ PlacesLast(n)
  BY DEF DuplicateInv
<1>2. ASSUME incident'[n] \subseteq incident[n],
             \A u \in Threads : thread'[u].pc = "create" =>
               thread[u].pc = "create" /\ thread'[u].monitor = thread[u].monitor
      PROVE  PlacesLast(n)'
  <2>1. Creators(n)' \subseteq Creators(n)
    BY <1>2 DEF Creators, At, Threads
  <2>2. QED  BY <1>1, <1>2, <2>1, PlacesKept
<1>3. ASSUME NEW t \in Threads, NEW r, r.pc # "create", Become(t, r), UNCHANGED incident
      PROVE  PlacesLast(n)'
  BY <1>1, <1>2, <1>3 DEF Become, IncidentTypeOK
<1>4. ASSUME NEW t \in Beats, NEW m \in Monitors, NEW type \in {"SUCCESS", "FAILURE"},
             Receive(t, m, type)
      PROVE  PlacesLast(n)'
  BY <1>3, <1>4 DEF Receive, Threads
<1>5. ASSUME NEW t \in Passes, StartPass(t)
      PROVE  PlacesLast(n)'
  BY <1>3, <1>5 DEF StartPass, Threads
<1>6. ASSUME NEW t \in Passes, NEW m \in Monitors, MarkDown(t, m)
      PROVE  PlacesLast(n)'
  <2>1. t \in Threads /\ thread[t] \in ThreadState
    BY <1>1, <1>6, BusyThread DEF MarkDown, At, Threads
  <2>2. [thread[t] EXCEPT !.pc = "check", !.monitor = m, !.todo = @ \ {m},
                          !.seen = incident[m]].pc # "create"
    BY <2>1 DEF ThreadState
  <2>3. QED  BY <1>3, <1>6, <2>1, <2>2 DEF MarkDown
<1>7. ASSUME NEW t \in Threads, ThreadFails(t)
      PROVE  PlacesLast(n)'
  BY <1>3, <1>7 DEF ThreadFails, Idle
<1>8. ASSUME NEW m \in Monitors, NEW i \in Incidents, ResolveByHand(m, i)
      PROVE  PlacesLast(n)'
  <2>1. incident'[n] \subseteq incident[n]
    BY <1>1, <1>8 DEF ResolveByHand, IncidentTypeOK
  <2>2. \A u \in Threads : thread'[u].pc = "create" =>
          thread[u].pc = "create" /\ thread'[u].monitor = thread[u].monitor
    BY <1>1, <1>8 DEF ResolveByHand, Unsee, IncidentTypeOK, ThreadState, Idle
  <2>3. QED  BY <1>2, <2>1, <2>2
<1>9. ASSUME NEW m \in Monitors, Schedule(m) \/ DeleteMonitor(m) \/ Elapse(m)
      PROVE  PlacesLast(n)'
  BY <1>2, <1>9 DEF Schedule, DeleteMonitor, Elapse
<1>10. CASE Restart
  BY <1>2, <1>10 DEF Restart, Idle
<1>11. CASE UNCHANGED vars
  BY <1>2, <1>11 DEF vars
<1>12. QED
  BY <1>4, <1>5, <1>6, <1>7, <1>8, <1>9, <1>10, <1>11, StepKeepsPlaces DEF Next

\* A monitor never has more open incidents than there are requests and passes
\* that can look at the same time, for any number of them.
THEOREM DuplicatesStayBounded == Spec => []DuplicatesAreBounded
<1>1. Init => DuplicateInv
  <2> SUFFICES ASSUME Init, NEW m \in Monitors
               PROVE  IncidentTypeOK /\ PlacesLast(m)
    BY Zenon DEF DuplicateInv, Init, IncidentTypeOK, MonitorRow
  <2>1. IncidentTypeOK
    BY DEF Init, IncidentTypeOK, MonitorRow
  <2>2. incident[m] = {} /\ Creators(m) = {}
    BY DEF Init, Creators, At, Idle
  <2>3. QED  BY <2>1, <2>2, FS_EmptySet, ThreadsAreFinite DEF PlacesLast
<1>2. DuplicateInv /\ [Next]_vars => DuplicateInv'
  <2> SUFFICES ASSUME DuplicateInv, [Next]_vars
               PROVE  DuplicateInv'
    OBVIOUS
  <2>1. IncidentTypeOK'
    BY NextType DEF DuplicateInv
  <2>2. QED  BY <2>1, NextKeepsPlaces DEF DuplicateInv
<1>3. DuplicateInv => DuplicatesAreBounded
  <2> SUFFICES ASSUME DuplicateInv, NEW m \in Monitors
               PROVE  Cardinality(incident[m]) <= Cardinality(Threads)
    BY DEF DuplicatesAreBounded
  <2>1. Cardinality(incident[m]) \in Nat /\ PlacesLast(m)
    BY FS_CardinalityType DEF DuplicateInv, PlacesLast
  <2>2. QED  BY <2>1, CreatorsAreFinite, ThreadsAreFinite DEF PlacesLast
<1>4. QED  BY <1>1, <1>2, <1>3, PTL DEF Spec
=============================================================================
