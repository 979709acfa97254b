------------------------- MODULE IncidentLifecycle -------------------------
(***************************************************************************)
(* Monitors and their incidents: the heartbeat endpoint, the worker that   *)
(* looks for missed heartbeats, and IncidentService, which both call.      *)
(*                                                                         *)
(* Nothing locks a monitor: heartbeat requests, and passes of the worker,  *)
(* which setInterval starts whether or not the last one has ended, are     *)
(* threads that interleave at every database call.  Incidents that have    *)
(* been resolved are forgotten, so that their names can be used again.     *)
(***************************************************************************)
EXTENDS Naturals, FiniteSets

CONSTANTS
    Monitors,
    Beats,          \* heartbeat requests the API can have in flight
    Passes,         \* worker passes that can overlap
    Incidents,      \* names of a monitor's incidents; one more than threads is enough
    Faults          \* which of "database", "restart" may happen

ASSUME IncidentAssumption ==
    /\ IsFiniteSet(Beats) /\ IsFiniteSet(Passes)
    /\ Faults \subseteq {"database", "restart"}

VARIABLES
    monitor,        \* monitor[m]: the Monitor row
    incident,       \* incident[m]: the Incident rows of m that are open
    thread          \* thread[t]: a heartbeat request or a pass

vars == <<monitor, incident, thread>>

Threads == Beats \cup Passes

-----------------------------------------------------------------------------
(* State.                                                                   *)

\* due: nextExpectedAt, as the clock sees it.
MonitorRow == [status: {"UP", "DOWN"}, due: {"unset", "future", "past"}, deleted: BOOLEAN]

\* todo: monitors the pass has yet to handle; seen is history: incidents of the
\* monitor that were open when the thread arrived at it, and still are.
ThreadState ==
    [pc: {"record", "find", "resolve", "check", "create", "reread", "update", "mark"},
     kind: {"SUCCESS", "FAILURE", "missed"}, monitor: Monitors,
     todo: SUBSET Monitors, seen: SUBSET Incidents]

Idle == [pc |-> "idle"]

At(t, pc) == thread[t].pc = pc
Become(t, r) == thread' = [thread EXCEPT ![t] = r]
Goto(t, pc) == Become(t, [thread[t] EXCEPT !.pc = pc])

\* What a thread becomes when incidents of m are resolved.
Unsee(m, closed, r) ==
    IF r # Idle /\ r.monitor = m THEN [r EXCEPT !.seen = @ \ closed] ELSE r

-----------------------------------------------------------------------------
(* IncidentService.                                                         *)

\* createIncident has returned: the request goes on, the pass takes the next
\* monitor.
Created(t) ==
    CASE thread[t].kind # "missed" -> Goto(t, "reread")
      [] thread[t].kind = "missed" /\ thread[t].todo # {} -> Goto(t, "mark")
      [] OTHER -> Become(t, Idle)

\* Mutant of FindOpenIncident: the pass looks for its own incidents only.
FindNoIncident(t) ==
    /\ At(t, "check")
    /\ IF incident[thread[t].monitor] = {} \/ thread[t].kind = "missed"
       THEN Goto(t, "create") ELSE Created(t)
    /\ UNCHANGED <<monitor, incident>>

\* createIncident: is one open already?
FindOpenIncident(t) ==
    /\ At(t, "check")
    /\ IF incident[thread[t].monitor] = {} THEN Goto(t, "create") ELSE Created(t)
    /\ UNCHANGED <<monitor, incident>>

InsertIncident(t) ==
    /\ At(t, "create")
    /\ LET unused == Incidents \ incident[thread[t].monitor]
       IN  /\ unused # {}
           /\ incident' = [incident EXCEPT ![thread[t].monitor] =
                             @ \cup {CHOOSE i \in unused : TRUE}]
    /\ Created(t)
    /\ UNCHANGED monitor

\* autoResolve reads what is open ...
FindToResolve(t) ==
    /\ At(t, "find")
    /\ Goto(t, IF incident[thread[t].monitor] = {} THEN "reread" ELSE "resolve")
    /\ UNCHANGED <<monitor, incident>>

Resolve(t, closed) ==
    /\ incident' = [incident EXCEPT ![thread[t].monitor] = @ \ closed]
    /\ thread' = [u \in Threads |->
                    Unsee(thread[t].monitor, closed,
                          IF u = t THEN [thread[t] EXCEPT !.pc = "reread"] ELSE thread[u])]
    /\ UNCHANGED monitor

\* Mutant of ResolveOpen: one incident is resolved, as if there were only one.
ResolveOne(t) ==
    /\ At(t, "resolve")
    /\ \E i \in incident[thread[t].monitor] : Resolve(t, {i})

\* ... and resolves what is open by then.
ResolveOpen(t) == At(t, "resolve") /\ Resolve(t, incident[thread[t].monitor])

\* PATCH /analytics/incidents/:id/resolve, by a member of the project.
ResolveByHand(m, i) ==
    /\ i \in incident[m]
    /\ incident' = [incident EXCEPT ![m] = @ \ {i}]
    /\ thread' = [t \in Threads |-> Unsee(m, {i}, thread[t])]
    /\ UNCHANGED monitor

-----------------------------------------------------------------------------
(* Heartbeats.                                                              *)

\* The token of a deleted monitor is still found.
Receive(t, m, type) ==
    /\ At(t, "idle")
    /\ Become(t, [pc |-> "record", kind |-> type, monitor |-> m, todo |-> {},
                  seen |-> incident[m]])
    /\ UNCHANGED <<monitor, incident>>

\* Mutant of Record: a late heartbeat degrades the monitor.
RecordLate(t) ==
    /\ At(t, "record")
    /\ IF thread[t].kind = "SUCCESS"
       THEN /\ monitor' = [monitor EXCEPT ![thread[t].monitor].status =
                             IF monitor[thread[t].monitor].due = "past" THEN "DEGRADED" ELSE "UP"]
            /\ Goto(t, "find")
       ELSE monitor' = [monitor EXCEPT ![thread[t].monitor].status = "DOWN"] /\ Goto(t, "check")
    /\ UNCHANGED incident

\* One transaction: the heartbeat and the status.
Record(t) ==
    /\ At(t, "record")
    /\ IF thread[t].kind = "SUCCESS"
       THEN monitor' = [monitor EXCEPT ![thread[t].monitor].status = "UP"] /\ Goto(t, "find")
       ELSE monitor' = [monitor EXCEPT ![thread[t].monitor].status = "DOWN"] /\ Goto(t, "check")
    /\ UNCHANGED incident

\* MonitorRepository.update reads the monitor, deleted or not, first.
FindMonitor(t) ==
    /\ At(t, "reread")
    /\ IF monitor[thread[t].monitor].deleted THEN Become(t, Idle) ELSE Goto(t, "update")
    /\ UNCHANGED <<monitor, incident>>

UpdateNextExpected(t) ==
    /\ At(t, "update")
    /\ monitor' = [monitor EXCEPT ![thread[t].monitor].due = "future"]
    /\ Become(t, Idle)
    /\ UNCHANGED incident

-----------------------------------------------------------------------------
(* The worker.                                                              *)

Missed(m) == monitor[m].status = "UP" /\ monitor[m].due = "past" /\ ~monitor[m].deleted

\* checkMissedHeartbeats: the list is read once.
StartPass(t) ==
    LET missed == {m \in Monitors : Missed(m)}
    IN  /\ At(t, "idle") /\ missed # {}
        /\ Become(t, [pc |-> "mark", kind |-> "missed", monitor |-> CHOOSE m \in missed : TRUE,
                      todo |-> missed, seen |-> {}])
        /\ UNCHANGED <<monitor, incident>>

MarkDown(t, m) ==
    /\ At(t, "mark") /\ m \in thread[t].todo
    /\ monitor' = [monitor EXCEPT ![m].status = "DOWN"]
    /\ Become(t, [thread[t] EXCEPT !.pc = "check", !.monitor = m, !.todo = @ \ {m},
                                   !.seen = incident[m]])
    /\ UNCHANGED incident

-----------------------------------------------------------------------------
(* The rest of the world.                                                   *)

\* POST /monitors, which writes nextExpectedAt after the row, and PUT with a
\* new schedule.
Schedule(m) ==
    /\ monitor[m].due # "future" /\ ~monitor[m].deleted
    /\ monitor' = [monitor EXCEPT ![m].due = "future"]
    /\ UNCHANGED <<incident, thread>>

\* DELETE /monitors/:id.
DeleteMonitor(m) ==
    /\ ~monitor[m].deleted
    /\ monitor' = [monitor EXCEPT ![m].deleted = TRUE]
    /\ UNCHANGED <<incident, thread>>

\* The clock passes nextExpectedAt.
Elapse(m) ==
    /\ monitor[m].due = "future"
    /\ monitor' = [monitor EXCEPT ![m].due = "past"]
    /\ UNCHANGED <<incident, thread>>

\* Mutant of ThreadFails: a failed pass keeps the next one from starting.
PassStaysRunning(t) ==
    /\ "database" \in Faults
    /\ ~At(t, "idle")
    /\ Become(t, IF t \in Beats THEN Idle
                 ELSE [thread[t] EXCEPT !.pc = "mark", !.todo = {}, !.seen = {}])
    /\ UNCHANGED <<monitor, incident>>

\* A database call fails: the request ends with 500; the whole pass is given
\* up, the monitors it has not come to included.
ThreadFails(t) ==
    /\ "database" \in Faults
    /\ ~At(t, "idle")
    /\ Become(t, Idle)
    /\ UNCHANGED <<monitor, incident>>

Restart ==
    /\ "restart" \in Faults
    /\ thread' = [t \in Threads |-> Idle]
    /\ UNCHANGED <<monitor, incident>>

-----------------------------------------------------------------------------

Init ==
    /\ monitor = [m \in Monitors |-> [status |-> "UP", due |-> "unset", deleted |-> FALSE]]
    /\ incident = [m \in Monitors |-> {}]
    /\ thread = [t \in Threads |-> Idle]

Step(t) ==
    \/ Record(t) \/ FindToResolve(t) \/ ResolveOpen(t)
    \/ FindOpenIncident(t) \/ InsertIncident(t)
    \/ FindMonitor(t) \/ UpdateNextExpected(t)

Next ==
    \/ \E t \in Beats, m \in Monitors, type \in {"SUCCESS", "FAILURE"} : Receive(t, m, type)
    \/ \E t \in Passes : StartPass(t) \/ \E m \in Monitors : MarkDown(t, m)
    \/ \E t \in Threads : Step(t) \/ ThreadFails(t)
    \/ \E m \in Monitors, i \in Incidents : ResolveByHand(m, i)
    \/ \E m \in Monitors : Schedule(m) \/ DeleteMonitor(m) \/ Elapse(m)
    \/ Restart

Spec == Init /\ [][Next]_vars

(***************************************************************************)
(* Fairness.  setInterval starts a pass every minute; what a pass does     *)
(* progresses; the database does not fail it every time, nor does the API  *)
(* restart each time before it has reached a monitor.                      *)
(***************************************************************************)
Fairness ==
    \A t \in Passes : /\ WF_vars(StartPass(t)) /\ WF_vars(Step(t))
                      /\ \A m \in Monitors : SF_vars(MarkDown(t, m))

FairSpec == Spec /\ Fairness

-----------------------------------------------------------------------------
(* Properties.                                                              *)

\* Shapes of the state.
IncidentTypeOK ==
    /\ monitor \in [Monitors -> MonitorRow]
    /\ incident \in [Monitors -> SUBSET Incidents]
    /\ thread \in [Threads -> {Idle} \cup ThreadState]

\* A SUCCESS heartbeat that gets past autoResolve has ended every incident
\* that was open when it arrived, duplicates included, whoever else resolves
\* and opens incidents of the monitor meanwhile.
SuccessEndsIncidents ==
    \A t \in Threads :
        thread[t].pc \in {"reread", "update"} /\ thread[t].kind = "SUCCESS"
            => thread[t].seen = {}

\* Duplicates come from races alone: a monitor never has more open incidents
\* than there are requests and passes that can look at the same time, however
\* often they are cut short, resolved by hand and followed by others.
DuplicatesAreBounded ==
    \A m \in Monitors : Cardinality(incident[m]) <= Cardinality(Threads)

\* A monitor whose heartbeat is overdue is marked DOWN in the end, although
\* passes fail and are cut short, unless a heartbeat or a change of
\* schedule comes first.
MissedIsNoticed == \A m \in Monitors : Missed(m) ~> ~Missed(m)
=============================================================================
