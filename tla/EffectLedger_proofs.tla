------------------------ MODULE EffectLedger_proofs -------------------------
(***************************************************************************)
(* Theorems about EffectLedger: for any number of executions, fingerprints *)
(* and requests in flight, and whatever the callers send.                  *)
(***************************************************************************)
EXTENDS EffectLedger, TLAPS

\* A busy handler is not idle, so its fields have their types.
LEMMA BusyHandler ==
    ASSUME LedgerTypeOK, NEW h \in Handlers, ~At(h, "idle")
    PROVE  handler[h] \in Busy
  BY DEF LedgerTypeOK, Idle, At

\* Storing a well-formed row keeps the table well-formed.
LEMMA StoreType ==
    ASSUME LedgerTypeOK, NEW e \in Execs, NEW f \in Fps, NEW r \in Row, Store(e, f, r)
    PROVE  row' \in [Execs -> [Fps -> Row]]
  BY DEF LedgerTypeOK, Store

LEMMA NewRowType ==
    ASSUME NEW s \in Recorded \cup {"NONE"}, NEW m \in SUBSET MetadataKeys
    PROVE  NewRow(s, m) \in Row
  BY DEF NewRow, Row, FailureType

\* The three ways a handler moves on keep it well-formed.
LEMMA HandlerType ==
    ASSUME LedgerTypeOK, NEW h \in Handlers, handler[h] \in Busy,
           NEW pc \in BusyPc, NEW w \in Execs, NEW a \in Answers,
           NEW m \in SUBSET MetadataKeys,
           Goto(h, pc) \/ GotoWith(h, pc, w, m) \/ Answer(h, a, m)
    PROVE  handler' \in [Handlers -> {Idle} \cup Busy]
<1>1. CASE Goto(h, pc)
  BY <1>1 DEF Goto, Busy, LedgerTypeOK
<1>2. CASE GotoWith(h, pc, w, m)
  BY <1>2 DEF GotoWith, Busy, LedgerTypeOK
<1>3. CASE Answer(h, a, m)
  BY <1>3 DEF Answer, Busy, LedgerTypeOK, BusyPc
<1>4. QED  BY <1>1, <1>2, <1>3

\* The fields of a busy handler that the actions use.
LEMMA BusyFields ==
    ASSUME NEW b \in Busy
    PROVE  /\ b.req \in Request /\ b.other \in Execs /\ b.seen \in SUBSET MetadataKeys
           /\ b.req.exec \in Execs /\ b.req.fp \in Fps
           /\ b.req.op \in EndpointNames /\ b.req.payload \in BOOLEAN
  BY DEF Busy, Request

LEMMA RowFields ==
    ASSUME LedgerTypeOK, NEW e \in Execs, NEW f \in Fps
    PROVE  /\ row[e][f] \in Row
           /\ row[e][f].metadata \in SUBSET MetadataKeys
  BY DEF LedgerTypeOK, Row

\* A row whose metadata, or whose status, metadata and receipt are rewritten.
LEMMA RewrittenRow ==
    ASSUME NEW r \in Row, NEW s \in Recorded, NEW m \in SUBSET MetadataKeys, NEW b \in BOOLEAN
    PROVE  /\ [r EXCEPT !.metadata = m] \in Row
           /\ [r EXCEPT !.status = s, !.metadata = m] \in Row
           /\ [r EXCEPT !.status = s, !.metadata = m, !.receipt = b] \in Row
  BY DEF Row

\* Every update endpoint preserves the types.
LEMMA UpdateType ==
    ASSUME LedgerTypeOK, NEW h \in Handlers, NEW op \in EndpointNames, NEW r \in Row,
           Update(h, op, r)
    PROVE  LedgerTypeOK'
<1>1. handler[h] \in Busy
  BY BusyHandler DEF Update, At
<1>2. handler[h].req.exec \in Execs /\ handler[h].req.fp \in Fps
  BY <1>1, BusyFields
<1>3. row' \in [Execs -> [Fps -> Row]]
  BY <1>2, StoreType DEF Update, LedgerTypeOK
<1>4. handler' \in [Handlers -> {Idle} \cup Busy]
  <2>1. \E a \in Answers : Answer(h, a, {})
    BY DEF Update, Answers
  <2>2. QED  BY <1>1, <1>2, <2>1, HandlerType, "done" \in BusyPc DEF BusyPc
<1>5. QED  BY <1>3, <1>4 DEF LedgerTypeOK

\* No database call of a handler leaves the types.
LEMMA ServeType ==
    ASSUME LedgerTypeOK, NEW h \in Handlers, Serve(h)
    PROVE  LedgerTypeOK'
<1> DEFINE e == handler[h].req.exec
           f == handler[h].req.fp
<1>1. handler[h] \in Busy
  BY BusyHandler, Zenon DEF Serve, At, BeginDedup, RecordSkip, BeginConflict, FlagOther,
     RecordConflict, InsertExecuting, ViolationConflict, ViolationSkip, VerifyDedup,
     MergeOwn, InsertCommitted, CommitSideEffect, MarkUnknown, MarkFailed, Update
<1>2. /\ e \in Execs /\ f \in Fps /\ handler[h].other \in Execs
      /\ handler[h].seen \in SUBSET MetadataKeys
      /\ handler[h].req.payload \in BOOLEAN
  BY <1>1, BusyFields
<1>3. \A w \in Execs : row[w][f] \in Row /\ row[w][f].metadata \in SUBSET MetadataKeys
  BY <1>2, RowFields
<1>4. {} \in SUBSET MetadataKeys
  OBVIOUS
<1>5. \A pc \in BusyPc : Goto(h, pc) => handler' \in [Handlers -> {Idle} \cup Busy]
  BY <1>1, <1>2, <1>4, HandlerType, "none" \in Answers DEF Answers
<1>6. \A pc \in BusyPc, w \in Execs, m \in SUBSET MetadataKeys :
        GotoWith(h, pc, w, m) => handler' \in [Handlers -> {Idle} \cup Busy]
  BY <1>1, HandlerType, "none" \in Answers DEF Answers
<1>7. \A a \in Answers, m \in SUBSET MetadataKeys :
        Answer(h, a, m) => handler' \in [Handlers -> {Idle} \cup Busy]
  BY <1>1, <1>2, HandlerType, "done" \in BusyPc DEF BusyPc
<1>8. \A w \in Execs, r \in Row : Store(w, f, r) => row' \in [Execs -> [Fps -> Row]]
  BY <1>2, StoreType
<1>9. UNCHANGED row => row' \in [Execs -> [Fps -> Row]]
  BY DEF LedgerTypeOK
<1>10. /\ NewRow("SKIPPED", {"origin"}) \in Row /\ NewRow("FAILED", {"conflict"}) \in Row
       /\ NewRow("EXECUTING", {}) \in Row
       /\ \A m \in SUBSET MetadataKeys : NewRow("COMMITTED", m) \in Row
  BY NewRowType DEF Recorded, MetadataKeys
<1>11. Reported(handler[h].req) \in SUBSET MetadataKeys
  BY DEF Reported, MetadataKeys
<1>a. CASE BeginDedup(h)
  <2>1. UNCHANGED row
    BY <1>a DEF BeginDedup
  <2>2. Finished(f) \subseteq Execs
    BY DEF Finished, WithStatus
  <2>3. handler' \in [Handlers -> {Idle} \cup Busy]
    BY <1>a, <1>2, <1>3, <1>4, <1>5, <1>6, <1>7, <2>2 DEF BeginDedup, BusyPc, Answers
  <2>4. QED  BY <1>9, <2>1, <2>3 DEF LedgerTypeOK
<1>b. CASE RecordSkip(h)
  <2>1. row' \in [Execs -> [Fps -> Row]]
    BY <1>b, <1>2, <1>8, <1>9, <1>10 DEF RecordSkip
  <2>2. handler' \in [Handlers -> {Idle} \cup Busy]
    BY <1>b, <1>2, <1>4, <1>7 DEF RecordSkip, Answers
  <2>3. QED  BY <2>1, <2>2 DEF LedgerTypeOK
<1>c. CASE BeginConflict(h)
  <2>1. UNCHANGED row
    BY <1>c DEF BeginConflict
  <2>2. Executing(f) \subseteq Execs
    BY DEF Executing, WithStatus
  <2>3. handler' \in [Handlers -> {Idle} \cup Busy]
    BY <1>c, <1>3, <1>5, <1>6, <2>2 DEF BeginConflict, BusyPc
  <2>4. QED  BY <1>9, <2>1, <2>3 DEF LedgerTypeOK
<1>d. CASE FlagOther(h)
  <2> DEFINE w == handler[h].other
             m == handler[h].seen \cup {"conflict"}
  <2>1. m \in SUBSET MetadataKeys
    BY <1>2 DEF MetadataKeys
  <2>2. [row[w][f] EXCEPT !.metadata = m] \in Row
    BY <1>2, <1>3, <2>1, RewrittenRow, "UNKNOWN" \in Recorded, TRUE \in BOOLEAN DEF Recorded
  <2>3. row' \in [Execs -> [Fps -> Row]]
    BY <1>d, <1>2, <1>8, <2>2 DEF FlagOther
  <2>4. handler' \in [Handlers -> {Idle} \cup Busy]
    BY <1>d, <1>5 DEF FlagOther, BusyPc
  <2>5. QED  BY <2>3, <2>4 DEF LedgerTypeOK
<1>e. CASE RecordConflict(h)
  <2>1. row' \in [Execs -> [Fps -> Row]]
    BY <1>e, <1>2, <1>8, <1>9, <1>10 DEF RecordConflict
  <2>2. handler' \in [Handlers -> {Idle} \cup Busy]
    BY <1>e, <1>4, <1>7 DEF RecordConflict, Answers
  <2>3. QED  BY <2>1, <2>2 DEF LedgerTypeOK
<1>f. CASE InsertExecuting(h)
  <2>1. row' \in [Execs -> [Fps -> Row]]
    BY <1>f, <1>2, <1>8, <1>9, <1>10 DEF InsertExecuting
  <2>2. handler' \in [Handlers -> {Idle} \cup Busy]
    BY <1>f, <1>4, <1>5, <1>7 DEF InsertExecuting, Answers, BusyPc
  <2>3. QED  BY <2>1, <2>2 DEF LedgerTypeOK
<1>g. CASE ViolationConflict(h)
  <2>1. handler' \in [Handlers -> {Idle} \cup Busy]
    BY <1>g, <1>4, <1>5, <1>7 DEF ViolationConflict, Answers, BusyPc
  <2>2. QED  BY <1>g, <1>9, <2>1 DEF LedgerTypeOK, ViolationConflict
<1>i. CASE ViolationSkip(h)
  <2>1. Finished(f) \subseteq Execs /\ VerifyMatches(e, f, handler[h].req.scope) \subseteq Execs
    BY DEF Finished, VerifyMatches, WithStatus
  <2>2. \E m \in SUBSET MetadataKeys : Answer(h, "SKIP", m)
    BY <1>i, <1>3, <1>4, <2>1 DEF ViolationSkip
  <2>3. handler' \in [Handlers -> {Idle} \cup Busy]
    BY <1>7, <2>2 DEF Answers
  <2>4. QED  BY <1>i, <1>9, <2>3 DEF LedgerTypeOK, ViolationSkip
<1>j. CASE VerifyDedup(h)
  <2>1. VerifyMatches(e, f, handler[h].req.scope) \subseteq Execs
    BY DEF VerifyMatches, WithStatus
  <2>2. handler' \in [Handlers -> {Idle} \cup Busy]
    BY <1>j, <1>2, <1>3, <1>5, <1>6, <2>1 DEF VerifyDedup, BusyPc
  <2>3. QED  BY <1>j, <1>9, <2>2 DEF LedgerTypeOK, VerifyDedup
<1>k. CASE MergeOwn(h)
  <2> DEFINE m == handler[h].seen \cup Reported(handler[h].req)
  <2>1. m \in SUBSET MetadataKeys
    BY <1>2, <1>11
  <2>2. [row[e][f] EXCEPT !.metadata = m] \in Row
    BY <1>2, <1>3, <2>1, RewrittenRow, "UNKNOWN" \in Recorded, TRUE \in BOOLEAN DEF Recorded
  <2>3. row' \in [Execs -> [Fps -> Row]]
    BY <1>k, <1>2, <1>8, <2>2 DEF MergeOwn
  <2>4. handler' \in [Handlers -> {Idle} \cup Busy]
    BY <1>k, <1>4, <1>7 DEF MergeOwn, Answers
  <2>5. QED  BY <2>3, <2>4 DEF LedgerTypeOK
<1>l. CASE InsertCommitted(h)
  <2>1. row' \in [Execs -> [Fps -> Row]]
    BY <1>l, <1>2, <1>8, <1>9, <1>10, <1>11 DEF InsertCommitted
  <2>2. handler' \in [Handlers -> {Idle} \cup Busy]
    BY <1>l, <1>4, <1>5, <1>7 DEF InsertCommitted, Answers, BusyPc
  <2>3. QED  BY <2>1, <2>2 DEF LedgerTypeOK
<1>m. CASE CommitSideEffect(h)
  <2>1. [RowOf(h) EXCEPT !.status = "COMMITTED", !.metadata = {"result"},
                         !.receipt = handler[h].req.payload] \in Row
    BY <1>2, <1>3, RewrittenRow, "COMMITTED" \in Recorded,
       {"result"} \in SUBSET MetadataKeys DEF Recorded, MetadataKeys, RowOf
  <2>2. QED  BY <1>m, <2>1, UpdateType DEF CommitSideEffect, EndpointNames
<1>n. CASE MarkUnknown(h)
  <2>1. [RowOf(h) EXCEPT !.status = "UNKNOWN", !.metadata = {"reason"}] \in Row
    BY <1>2, <1>3, RewrittenRow, "UNKNOWN" \in Recorded, TRUE \in BOOLEAN,
       {"reason"} \in SUBSET MetadataKeys DEF Recorded, MetadataKeys, RowOf
  <2>2. QED  BY <1>n, <2>1, UpdateType DEF MarkUnknown, EndpointNames
<1>o. CASE MarkFailed(h)
  <2>1. [RowOf(h) EXCEPT !.status = "FAILED", !.metadata = {"error"}] \in Row
    BY <1>2, <1>3, RewrittenRow, "FAILED" \in Recorded, TRUE \in BOOLEAN,
       {"error"} \in SUBSET MetadataKeys DEF Recorded, MetadataKeys, RowOf
  <2>2. QED  BY <1>o, <2>1, UpdateType DEF MarkFailed, EndpointNames
<1>q. QED
  BY <1>a, <1>b, <1>c, <1>d, <1>e, <1>f, <1>g, <1>i, <1>j, <1>k, <1>l, <1>m, <1>n, <1>o DEF Serve

\* No step of the ledger or its callers leaves them.
LEMMA LedgerNextType ==
    ASSUME LedgerTypeOK, [LedgerNext]_ledgerVars
    PROVE  LedgerTypeOK'
<1>1. ASSUME NEW h \in Handlers, NEW req \in Callable, Receive(h, req)
      PROVE  LedgerTypeOK'
  BY <1>1 DEF Receive, Callable, Busy, BusyPc, Answers, Request, LedgerTypeOK
<1>2. ASSUME NEW h \in Handlers, Respond(h)
      PROVE  LedgerTypeOK'
  BY <1>2 DEF Respond, LedgerTypeOK
<1>3. ASSUME NEW slots \in SUBSET Handlers, Vanish(slots)
      PROVE  LedgerTypeOK'
  BY <1>3 DEF Vanish, LedgerTypeOK
<1>4. ASSUME NEW h \in Handlers, DatabaseFails(h)
      PROVE  LedgerTypeOK'
  <2>1. handler[h] \in Busy
    BY <1>4, BusyHandler DEF DatabaseFails
  <2>2. handler' \in [Handlers -> {Idle} \cup Busy]
    BY <1>4, <2>1, BusyFields, HandlerType, "done" \in BusyPc, "ERROR" \in Answers
    DEF DatabaseFails, BusyPc, Answers
  <2>3. QED  BY <1>4, <2>2 DEF DatabaseFails, LedgerTypeOK
<1>5. CASE UNCHANGED ledgerVars
  BY <1>5 DEF ledgerVars, LedgerTypeOK
<1>6. QED  BY <1>1, <1>2, <1>3, <1>4, <1>5, ServeType DEF LedgerNext

LEMMA LedgerInitType == LedgerInit => LedgerTypeOK
  BY NewRowType, "NONE" \in Recorded \cup {"NONE"}, {} \in SUBSET MetadataKeys
  DEF LedgerInit, LedgerTypeOK, NoRow

\* Rows and handlers always have the shape the schema and the code give them.
THEOREM LedgerTypeCorrect == LedgerSpec => []LedgerTypeOK
<1>1. LedgerInit => LedgerTypeOK
  BY LedgerInitType
<1>2. LedgerTypeOK /\ [LedgerNext]_ledgerVars => LedgerTypeOK'
  BY LedgerNextType
<1>3. QED  BY <1>1, <1>2, PTL DEF LedgerSpec

-----------------------------------------------------------------------------
(***************************************************************************)
(* The EXECUTING claim.  The one fact everything rests on: of all database *)
(* calls only the insert of beginSideEffect makes a row EXECUTING, and the *)
(* two unique indexes let it through only when the row does not exist and  *)
(* no row of the fingerprint is EXECUTING.                                 *)
(***************************************************************************)

\* What a claim needs, for row e of operation f.
ClaimFree(e, f) == ~Exists(e, f) /\ Executing(f) = {}

\* How one database call may change a row's status: it does not delete the
\* row, and it makes it EXECUTING only if the claim is free.
StatusStep(e, f) ==
    /\ Exists(e, f) => row'[e][f].status # "NONE"
    /\ row'[e][f].status = "EXECUTING" => row[e][f].status = "EXECUTING" \/ ClaimFree(e, f)

\* A call that changes at most the row (x, g), and this one as StatusStep says.
LEMMA StoredStatus ==
    ASSUME LedgerTypeOK, NEW x \in Execs, NEW g \in Fps, NEW r, Store(x, g, r),
           r.status # "NONE",
           r.status = "EXECUTING" => row[x][g].status = "EXECUTING" \/ ClaimFree(x, g)
    PROVE  \A e \in Execs, f \in Fps : StatusStep(e, f)
<1> TAKE e \in Execs, f \in Fps
<1>1. CASE e = x /\ f = g
  <2>1. row'[e][f] = r
    BY <1>1 DEF Store, LedgerTypeOK
  <2>2. QED  BY <1>1, <2>1 DEF StatusStep
<1>2. CASE ~(e = x /\ f = g)
  <2>1. row'[e][f] = row[e][f]
    BY <1>2 DEF Store, LedgerTypeOK
  <2>2. QED  BY <2>1 DEF StatusStep, Exists
<1>3. QED  BY <1>1, <1>2

LEMMA UpdatedStatus ==
    ASSUME LedgerTypeOK, NEW h \in Handlers, NEW op, NEW r, Update(h, op, r),
           handler[h] \in Busy, r.status \notin {"NONE", "EXECUTING"}
    PROVE  \A e \in Execs, f \in Fps : StatusStep(e, f)
<1>1. handler[h].req.exec \in Execs /\ handler[h].req.fp \in Fps
  BY BusyFields
<1>2. CASE UNCHANGED row
  BY <1>2 DEF StatusStep, Exists
<1>3. CASE Store(handler[h].req.exec, handler[h].req.fp, r)
  BY <1>1, <1>3, StoredStatus
<1>4. QED  BY <1>2, <1>3 DEF Update

\* No database call of a handler deletes a row or takes a claim that is held.
LEMMA ServeStatus ==
    ASSUME LedgerTypeOK, NEW h \in Handlers, Serve(h)
    PROVE  \A e \in Execs, f \in Fps : StatusStep(e, f)
<1> DEFINE x == handler[h].req.exec
           g == handler[h].req.fp
           w == handler[h].other
<1>1. handler[h] \in Busy
  BY BusyHandler, Zenon DEF Serve, At, BeginDedup, RecordSkip, BeginConflict, FlagOther,
     RecordConflict, InsertExecuting, ViolationConflict, ViolationSkip, VerifyDedup,
     MergeOwn, InsertCommitted, CommitSideEffect, MarkUnknown, MarkFailed, Update
<1>2. x \in Execs /\ g \in Fps /\ w \in Execs
  BY <1>1, BusyFields
<1>3. ASSUME UNCHANGED row
      PROVE  \A e \in Execs, f \in Fps : StatusStep(e, f)
  BY <1>3 DEF StatusStep, Exists
<1>4. ASSUME NEW y \in Execs, NEW r, Store(y, g, r), r.status \notin {"NONE", "EXECUTING"}
      PROVE  \A e \in Execs, f \in Fps : StatusStep(e, f)
  BY <1>2, <1>4, StoredStatus
<1>a. CASE BeginDedup(h) \/ BeginConflict(h) \/ ViolationConflict(h) \/ ViolationSkip(h)
           \/ VerifyDedup(h)
  BY <1>3, <1>a DEF BeginDedup, BeginConflict, ViolationConflict, ViolationSkip, VerifyDedup
<1>b. CASE RecordSkip(h)
  BY <1>2, <1>3, <1>4, <1>b DEF RecordSkip, NewRow
<1>c. CASE RecordConflict(h)
  BY <1>2, <1>3, <1>4, <1>c DEF RecordConflict, NewRow
<1>d. CASE InsertCommitted(h)
  BY <1>2, <1>3, <1>4, <1>d DEF InsertCommitted, NewRow
<1>e. CASE InsertExecuting(h)
  <2>1. CASE ~MayExecute(x, g)
    BY <1>3, <1>e, <2>1 DEF InsertExecuting
  <2>2. CASE MayExecute(x, g)
    <3>1. Store(x, g, NewRow("EXECUTING", {})) /\ ClaimFree(x, g)
      BY <1>e, <2>2 DEF InsertExecuting, MayExecute, ClaimFree
    <3>2. NewRow("EXECUTING", {}).status # "NONE"
      BY DEF NewRow
    <3>3. QED  BY <1>2, <3>1, <3>2, StoredStatus
  <2>3. QED  BY <2>1, <2>2
<1>f. CASE FlagOther(h)
  <2> DEFINE r == [row[w][g] EXCEPT !.metadata = handler[h].seen \cup {"conflict"}]
  <2>1. Store(w, g, r)
    BY <1>f DEF FlagOther
  <2>2. r.status = row[w][g].status
    BY <1>2, RowFields DEF Row
  <2>3. CASE Exists(w, g)
    BY <1>2, <2>1, <2>2, <2>3, StoredStatus DEF Exists
  <2>4. CASE ~Exists(w, g)
    <3> TAKE e \in Execs, f \in Fps
    <3>1. row'[e][f].status = row[e][f].status
      BY <1>2, <2>1, <2>2 DEF Store, LedgerTypeOK
    <3>2. QED  BY <3>1 DEF StatusStep, Exists
  <2>5. QED  BY <2>3, <2>4
<1>g. CASE MergeOwn(h)
  <2> DEFINE r == [row[x][g] EXCEPT !.metadata = handler[h].seen \cup Reported(handler[h].req)]
  <2>1. Store(x, g, r)
    BY <1>g DEF MergeOwn
  <2>2. r.status = row[x][g].status
    BY <1>2, RowFields DEF Row
  <2> TAKE e \in Execs, f \in Fps
  <2>3. row'[e][f].status = row[e][f].status
    BY <1>2, <2>1, <2>2 DEF Store, LedgerTypeOK
  <2>4. QED  BY <2>3 DEF StatusStep, Exists
<1>i. CASE CommitSideEffect(h)
  <2>1. [RowOf(h) EXCEPT !.status = "COMMITTED", !.metadata = {"result"},
                         !.receipt = handler[h].req.payload].status = "COMMITTED"
    BY <1>2, RowFields DEF Row, RowOf
  <2>2. QED  BY <1>1, <1>i, <2>1, UpdatedStatus DEF CommitSideEffect
<1>j. CASE MarkUnknown(h)
  <2>1. [RowOf(h) EXCEPT !.status = "UNKNOWN", !.metadata = {"reason"}].status = "UNKNOWN"
    BY <1>2, RowFields DEF Row, RowOf
  <2>2. QED  BY <1>1, <1>j, <2>1, UpdatedStatus DEF MarkUnknown
<1>k. CASE MarkFailed(h)
  <2>1. [RowOf(h) EXCEPT !.status = "FAILED", !.metadata = {"error"}].status = "FAILED"
    BY <1>2, RowFields DEF Row, RowOf
  <2>2. QED  BY <1>1, <1>k, <2>1, UpdatedStatus DEF MarkFailed
<1>l. QED
  BY <1>a, <1>b, <1>c, <1>d, <1>e, <1>f, <1>g, <1>i, <1>j, <1>k DEF Serve

\* The same of every step of the ledger.
LEMMA NextStatus ==
    ASSUME LedgerTypeOK, [LedgerNext]_ledgerVars
    PROVE  \A e \in Execs, f \in Fps : StatusStep(e, f)
<1>1. CASE UNCHANGED row
  BY <1>1 DEF StatusStep, Exists
<1>2. CASE \E h \in Handlers : Serve(h)
  BY <1>2, ServeStatus
<1>3. UNCHANGED row \/ \E h \in Handlers : Serve(h)
  BY DEF LedgerNext, ledgerVars, Receive, DatabaseFails, Respond, Vanish
<1>4. QED  BY <1>1, <1>2, <1>3

\* A step writes at most one row.
LEMMA NextChangesOneRow ==
    ASSUME LedgerTypeOK, [LedgerNext]_ledgerVars, NEW f \in Fps,
           NEW d \in Execs, NEW e \in Execs,
           row'[d][f] # row[d][f], row'[e][f] # row[e][f]
    PROVE  d = e
<1>1. PICK h \in Handlers : Serve(h)
  BY DEF LedgerNext, ledgerVars, Receive, DatabaseFails, Respond, Vanish
<1>2. \E x, g, r : Store(x, g, r)
  BY <1>1 DEF Serve, BeginDedup, RecordSkip, BeginConflict, FlagOther, RecordConflict,
     InsertExecuting, ViolationConflict, ViolationSkip, VerifyDedup, MergeOwn,
     InsertCommitted, CommitSideEffect, MarkUnknown, MarkFailed, Update
<1>3. PICK x, g, r : Store(x, g, r)
  BY <1>2
<1>4. \A y \in Execs : y # x => row'[y][f] = row[y][f]
  BY <1>3 DEF Store, LedgerTypeOK
<1>5. QED  BY <1>4

\* At most one execution holds the EXECUTING claim on a fingerprint.
THEOREM ExecutingIsUnique == LedgerSpec => []OneExecuting
<1>1. LedgerInit => OneExecuting
  BY DEF LedgerInit, OneExecuting, Executing, WithStatus, NoRow, NewRow
<1>2. LedgerTypeOK /\ OneExecuting /\ [LedgerNext]_ledgerVars => OneExecuting'
  <2> SUFFICES ASSUME LedgerTypeOK, OneExecuting, [LedgerNext]_ledgerVars,
                      NEW f \in Fps, NEW d \in Executing(f)', NEW e \in Executing(f)'
               PROVE  d = e
    BY DEF OneExecuting
  <2>1. d \in Execs /\ e \in Execs
        /\ row'[d][f].status = "EXECUTING" /\ row'[e][f].status = "EXECUTING"
    BY DEF Executing, WithStatus
  <2>2. StatusStep(d, f) /\ StatusStep(e, f)
    BY <2>1, NextStatus
  <2>3. CASE d \in Executing(f) /\ e \in Executing(f)
    BY <2>3 DEF OneExecuting
  <2>4. CASE Executing(f) = {}
    <3>1. row'[d][f] # row[d][f] /\ row'[e][f] # row[e][f]
      BY <2>1, <2>4 DEF Executing, WithStatus
    <3>2. QED  BY <2>1, <3>1, NextChangesOneRow
  <2>5. QED  BY <2>1, <2>2, <2>3, <2>4 DEF StatusStep, ClaimFree, Executing, WithStatus
<1>3. QED  BY <1>1, <1>2, LedgerTypeCorrect, PTL DEF LedgerSpec

\* The claim is taken once, and rows stay.
THEOREM ClaimsAreTakenOnce == LedgerSpec => ClaimIsTakenOnce
<1> DEFINE Taken == \A e \in Execs, f \in Fps :
              /\ Exists(e, f) => Exists(e, f)'
              /\ row'[e][f].status = "EXECUTING" => row[e][f].status \in {"NONE", "EXECUTING"}
<1>1. LedgerTypeOK /\ [LedgerNext]_ledgerVars => [Taken]_ledgerVars
  BY NextStatus DEF StatusStep, ClaimFree, Exists
<1>2. QED  BY <1>1, LedgerTypeCorrect, PTL DEF LedgerSpec, ClaimIsTakenOnce

-----------------------------------------------------------------------------
(***************************************************************************)
(* Grants.  GrantIsRecorded is not inductive: MergeOwn answers EXECUTE for *)
(* a row that was read before.  Rows never disappear, so it is enough that *)
(* the row was there when it was read.                                     *)
(***************************************************************************)

Granted(h) ==
    \/ At(h, "mergeOwn")
    \/ At(h, "done") /\ handler[h].answer = "EXECUTE"

GrantInv == \A h \in Handlers : Granted(h) => Exists(handler[h].req.exec, handler[h].req.fp)

\* A database call of one handler leaves the others alone, and keeps its request.
LEMMA ServesOne ==
    ASSUME LedgerTypeOK, NEW h \in Handlers, Serve(h)
    PROVE  /\ \A k \in Handlers \ {h} : handler'[k] = handler[k]
           /\ handler'[h].req = handler[h].req
           /\ handler[h] \in Busy
<1>1. handler[h] \in Busy
  BY BusyHandler, Zenon DEF Serve, At, BeginDedup, RecordSkip, BeginConflict, FlagOther,
     RecordConflict, InsertExecuting, ViolationConflict, ViolationSkip, VerifyDedup,
     MergeOwn, InsertCommitted, CommitSideEffect, MarkUnknown, MarkFailed, Update
<1>2. \/ \E pc : Goto(h, pc)
      \/ \E pc, w, m : GotoWith(h, pc, w, m)
      \/ \E a, m : Answer(h, a, m)
  BY Zenon DEF Serve, BeginDedup, RecordSkip, BeginConflict, FlagOther, RecordConflict,
     InsertExecuting, ViolationConflict, ViolationSkip, VerifyDedup, MergeOwn,
     InsertCommitted, CommitSideEffect, MarkUnknown, MarkFailed, Update
<1>3. CASE \E pc : Goto(h, pc)
  BY <1>1, <1>3 DEF Goto, Busy, LedgerTypeOK
<1>4. CASE \E pc, w, m : GotoWith(h, pc, w, m)
  BY <1>1, <1>4 DEF GotoWith, Busy, LedgerTypeOK
<1>5. CASE \E a, m : Answer(h, a, m)
  BY <1>1, <1>5 DEF Answer, Busy, LedgerTypeOK
<1>6. QED  BY <1>1, <1>2, <1>3, <1>4, <1>5

\* Where the three ways of moving on lead.
LEMMA MovedOn ==
    ASSUME LedgerTypeOK, NEW h \in Handlers, handler[h] \in Busy
    PROVE  /\ \A pc : Goto(h, pc) => handler'[h].pc = pc
           /\ \A pc, w, m : GotoWith(h, pc, w, m) => handler'[h].pc = pc
           /\ \A a, m : Answer(h, a, m) => handler'[h].pc = "done" /\ handler'[h].answer = a
  BY DEF Goto, GotoWith, Answer, Busy, LedgerTypeOK

\* The call that leads to a grant finds or writes the row.
LEMMA GrantFindsRow ==
    ASSUME LedgerTypeOK, GrantInv, NEW h \in Handlers, Serve(h), Granted(h)'
    PROVE  Exists(handler[h].req.exec, handler[h].req.fp)'
<1> DEFINE x == handler[h].req.exec
           g == handler[h].req.fp
<1>1. /\ handler[h] \in Busy /\ x \in Execs /\ g \in Fps
      /\ handler'[h].req = handler[h].req
  BY ServesOne, BusyFields
<1>2. ASSUME Exists(x, g)
      PROVE  Exists(x, g)'
  BY <1>1, <1>2, ServeStatus DEF StatusStep, Exists
<1>3. \A pc : Goto(h, pc) \/ (\E w, m : GotoWith(h, pc, w, m)) => handler'[h].pc = pc
  BY <1>1, MovedOn
<1>4. \A a, m : Answer(h, a, m) => handler'[h].pc = "done" /\ handler'[h].answer = a
  BY <1>1, MovedOn
<1>5. \/ handler'[h].pc = "mergeOwn"
      \/ handler'[h].pc = "done" /\ handler'[h].answer = "EXECUTE"
  BY DEF Granted, At
<1>6. ASSUME NEW s, NEW m, s # "NONE", Store(x, g, NewRow(s, m))
      PROVE  Exists(x, g)'
  BY <1>1, <1>6 DEF Store, NewRow, Exists, LedgerTypeOK
<1>a. CASE BeginDedup(h)
  <2>1. Exists(x, g)
    BY <1>3, <1>4, <1>5, <1>a DEF BeginDedup, Finished, WithStatus, Exists
  <2>2. QED  BY <1>2, <2>1
<1>b. CASE RecordSkip(h) \/ RecordConflict(h)
  BY <1>4, <1>5, <1>b DEF RecordSkip, RecordConflict
<1>c. CASE BeginConflict(h) \/ FlagOther(h)
  BY <1>3, <1>5, <1>c DEF BeginConflict, FlagOther
<1>d. CASE InsertExecuting(h)
  BY <1>3, <1>5, <1>6, <1>d DEF InsertExecuting
<1>e. CASE ViolationConflict(h) \/ ViolationSkip(h)
  BY <1>3, <1>4, <1>5, <1>e DEF ViolationConflict, ViolationSkip
<1>f. CASE VerifyDedup(h)
  <2>1. Exists(x, g)
    BY <1>3, <1>5, <1>f DEF VerifyDedup, VerifyMatches, WithStatus, Exists
  <2>2. QED  BY <1>2, <2>1
<1>g. CASE MergeOwn(h)
  BY <1>2, <1>g DEF MergeOwn, GrantInv, Granted
<1>i. CASE InsertCommitted(h)
  BY <1>3, <1>5, <1>6, <1>i DEF InsertCommitted
<1>j. CASE CommitSideEffect(h) \/ MarkUnknown(h) \/ MarkFailed(h)
  BY <1>4, <1>5, <1>j DEF CommitSideEffect, MarkUnknown, MarkFailed, Update
<1>k. QED
  BY <1>a, <1>b, <1>c, <1>d, <1>e, <1>f, <1>g, <1>i, <1>j DEF Serve

\* Whoever is told to EXECUTE has a row in the ledger.
THEOREM GrantsAreRecorded == LedgerSpec => []GrantIsRecorded
<1>1. LedgerInit => GrantInv
  BY DEF LedgerInit, GrantInv, Granted, At, Idle
<1>2. LedgerTypeOK /\ GrantInv /\ [LedgerNext]_ledgerVars => GrantInv'
  <2> SUFFICES ASSUME LedgerTypeOK, GrantInv, [LedgerNext]_ledgerVars,
                      NEW k \in Handlers, Granted(k)'
               PROVE  Exists(handler[k].req.exec, handler[k].req.fp)'
    BY DEF GrantInv
  <2>1. ASSUME handler'[k] = handler[k]
        PROVE  Exists(handler[k].req.exec, handler[k].req.fp)'
    <3>1. Granted(k) /\ ~At(k, "idle")
      BY <2>1 DEF Granted, At
    <3>2. handler[k].req.exec \in Execs /\ handler[k].req.fp \in Fps
      BY <3>1, BusyHandler, BusyFields
    <3>3. Exists(handler[k].req.exec, handler[k].req.fp)
      BY <3>1 DEF GrantInv
    <3>4. QED  BY <2>1, <3>2, <3>3, NextStatus DEF StatusStep, Exists
  <2>2. ASSUME NEW h \in Handlers, Serve(h)
        PROVE  Exists(handler[k].req.exec, handler[k].req.fp)'
    <3>1. CASE k = h
      <4>1. Exists(handler[h].req.exec, handler[h].req.fp)'
        BY <2>2, <3>1, GrantFindsRow
      <4>2. QED  BY <3>1, <4>1
    <3>2. CASE k # h
      BY <2>1, <2>2, <3>2, ServesOne
    <3>3. QED  BY <3>1, <3>2
  <2>3. ASSUME NEW h \in Handlers, NEW req \in Callable, Receive(h, req)
        PROVE  Exists(handler[k].req.exec, handler[k].req.fp)'
    <3>1. k # h
      BY <2>3 DEF Receive, Granted, At, LedgerTypeOK
    <3>2. QED  BY <2>1, <2>3, <3>1 DEF Receive, LedgerTypeOK
  <2>4. ASSUME NEW h \in Handlers, Respond(h)
        PROVE  Exists(handler[k].req.exec, handler[k].req.fp)'
    <3>1. k # h
      BY <2>4 DEF Respond, Granted, At, Idle, LedgerTypeOK
    <3>2. QED  BY <2>1, <2>4, <3>1 DEF Respond, LedgerTypeOK
  <2>5. ASSUME NEW slots \in SUBSET Handlers, Vanish(slots)
        PROVE  Exists(handler[k].req.exec, handler[k].req.fp)'
    <3>1. k \notin slots
      BY <2>5 DEF Vanish, Granted, At, Idle
    <3>2. QED  BY <2>1, <2>5, <3>1 DEF Vanish
  <2>6. ASSUME NEW h \in Handlers, DatabaseFails(h)
        PROVE  Exists(handler[k].req.exec, handler[k].req.fp)'
    <3>1. handler[h] \in Busy
      BY <2>6, BusyHandler DEF DatabaseFails
    <3>2. k # h
      BY <2>6, <3>1, MovedOn DEF DatabaseFails, Granted, At
    <3>3. QED  BY <2>1, <2>6, <3>2 DEF DatabaseFails, Answer, LedgerTypeOK
  <2>7. CASE UNCHANGED ledgerVars
    BY <2>1, <2>7 DEF ledgerVars
  <2>8. QED  BY <2>2, <2>3, <2>4, <2>5, <2>6, <2>7 DEF LedgerNext
<1>3. GrantInv => GrantIsRecorded
  BY DEF GrantInv, Granted, GrantIsRecorded
<1>4. QED  BY <1>1, <1>2, <1>3, LedgerTypeCorrect, PTL DEF LedgerSpec

-----------------------------------------------------------------------------
(***************************************************************************)
(* What a database call writes, for requests of guard.effect().            *)
(***************************************************************************)

\* The status an update writes.
Target == [commit |-> "COMMITTED", unknown |-> "UNKNOWN", failed |-> "FAILED"]

\* The request in slot h is a begin, or an update that has yet to be served.
EffectRequest(h) ==
    /\ handler[h].req.op \in {"begin", "commit", "unknown", "failed"}
    /\ ~At(h, "mergeOwn")
    /\ handler[h].req.op # "begin" => handler[h].pc \in {"received", "done"}

\* How such a request changes the status of row (e, f).
StatusWrite(h, e, f) ==
    \/ row'[e][f].status = row[e][f].status
    \/ /\ e = handler[h].req.exec /\ f = handler[h].req.fp
       /\ \/ /\ handler[h].req.op = "begin" /\ row[e][f].status = "NONE"
             /\ row'[e][f].status \in {"EXECUTING", "SKIPPED", "FAILED"}
          \/ /\ handler[h].req.op # "begin"
             /\ row'[e][f].status = Target[handler[h].req.op]

LEMMA ServeWrites ==
    ASSUME LedgerTypeOK, NEW h \in Handlers, Serve(h), EffectRequest(h)
    PROVE  \A e \in Execs, f \in Fps : StatusWrite(h, e, f)
<1> DEFINE x == handler[h].req.exec
           g == handler[h].req.fp
           w == handler[h].other
<1>1. handler[h] \in Busy /\ x \in Execs /\ g \in Fps /\ w \in Execs
  BY ServesOne, BusyFields
<1>2. ASSUME UNCHANGED row
      PROVE  \A e \in Execs, f \in Fps : StatusWrite(h, e, f)
  BY <1>2 DEF StatusWrite
<1>3. ASSUME NEW y \in Execs, NEW r, Store(y, g, r), r.status = row[y][g].status
      PROVE  \A e \in Execs, f \in Fps : StatusWrite(h, e, f)
  BY <1>1, <1>3 DEF Store, LedgerTypeOK, StatusWrite
<1>4. ASSUME NEW r, Store(x, g, r),
             \/ /\ handler[h].req.op = "begin" /\ row[x][g].status = "NONE"
                /\ r.status \in {"EXECUTING", "SKIPPED", "FAILED"}
             \/ handler[h].req.op # "begin" /\ r.status = Target[handler[h].req.op]
      PROVE  \A e \in Execs, f \in Fps : StatusWrite(h, e, f)
  BY <1>1, <1>4 DEF Store, LedgerTypeOK, StatusWrite
<1>5. \A pc \in {"recordSkip", "recordConflict", "insert"} :
        At(h, pc) => handler[h].req.op = "begin"
  BY DEF EffectRequest, At
<1>6. \A s, m : NewRow(s, m).status = s
  BY DEF NewRow
<1>7. ASSUME NEW op, NEW r, Update(h, op, r), op # "begin", r.status = Target[op]
      PROVE  \A e \in Execs, f \in Fps : StatusWrite(h, e, f)
  BY <1>2, <1>4, <1>7 DEF Update, Serves
<1>8. Target["commit"] = "COMMITTED" /\ Target["unknown"] = "UNKNOWN" /\ Target["failed"] = "FAILED"
  BY DEF Target
<1>a. CASE BeginDedup(h) \/ BeginConflict(h) \/ ViolationConflict(h) \/ ViolationSkip(h)
           \/ VerifyDedup(h)
  BY <1>2, <1>a DEF BeginDedup, BeginConflict, ViolationConflict, ViolationSkip, VerifyDedup
<1>b. CASE RecordSkip(h)
  BY <1>2, <1>4, <1>5, <1>6, <1>b DEF RecordSkip, Exists
<1>c. CASE RecordConflict(h)
  BY <1>2, <1>4, <1>5, <1>6, <1>c DEF RecordConflict, Exists
<1>d. CASE InsertExecuting(h)
  BY <1>2, <1>4, <1>5, <1>6, <1>d DEF InsertExecuting, MayExecute, Exists
<1>e. CASE FlagOther(h)
  <2>1. [row[w][g] EXCEPT !.metadata = handler[h].seen \cup {"conflict"}].status
          = row[w][g].status
    BY <1>1, RowFields DEF Row
  <2>2. QED  BY <1>1, <1>3, <1>e, <2>1 DEF FlagOther
<1>f. CASE MergeOwn(h) \/ InsertCommitted(h)
  BY <1>f DEF MergeOwn, InsertCommitted, Serves, EffectRequest
<1>g. CASE CommitSideEffect(h)
  <2>1. [RowOf(h) EXCEPT !.status = "COMMITTED", !.metadata = {"result"},
                         !.receipt = handler[h].req.payload].status = "COMMITTED"
    BY <1>1, RowFields DEF Row, RowOf
  <2>2. QED  BY <1>7, <1>8, <1>g, <2>1 DEF CommitSideEffect
<1>i. CASE MarkUnknown(h)
  <2>1. [RowOf(h) EXCEPT !.status = "UNKNOWN", !.metadata = {"reason"}].status = "UNKNOWN"
    BY <1>1, RowFields DEF Row, RowOf
  <2>2. QED  BY <1>7, <1>8, <1>i, <2>1 DEF MarkUnknown
<1>j. CASE MarkFailed(h)
  <2>1. [RowOf(h) EXCEPT !.status = "FAILED", !.metadata = {"error"}].status = "FAILED"
    BY <1>1, RowFields DEF Row, RowOf
  <2>2. QED  BY <1>7, <1>8, <1>j, <2>1 DEF MarkFailed
<1>k. QED
  BY <1>a, <1>b, <1>c, <1>d, <1>e, <1>f, <1>g, <1>i, <1>j DEF Serve

\* Where such a request goes next, and what it takes to be told EXECUTE.
LEMMA ServeLeads ==
    ASSUME LedgerTypeOK, NEW h \in Handlers, Serve(h), EffectRequest(h)
    PROVE  /\ handler'[h].pc \notin {"idle", "mergeOwn"}
           /\ handler[h].req.op # "begin" => handler'[h].pc = "done"
           /\ handler'[h].pc = "done" /\ handler'[h].answer = "EXECUTE" =>
                 \/ handler[h].req.exec \in Finished(handler[h].req.fp)
                 \/ row'[handler[h].req.exec][handler[h].req.fp].status = "EXECUTING"
<1> DEFINE x == handler[h].req.exec
           g == handler[h].req.fp
<1>1. handler[h] \in Busy /\ x \in Execs /\ g \in Fps
  BY ServesOne, BusyFields
<1>2. /\ \A pc : Goto(h, pc) => handler'[h].pc = pc
      /\ \A pc, v, m : GotoWith(h, pc, v, m) => handler'[h].pc = pc
      /\ \A a, m : Answer(h, a, m) => handler'[h].pc = "done" /\ handler'[h].answer = a
  BY <1>1, MovedOn
<1>3. \A pc : pc \notin {"received", "done"} /\ At(h, pc) => handler[h].req.op = "begin"
  BY DEF EffectRequest, At
<1>a. CASE BeginDedup(h)
  BY <1>2, <1>a DEF BeginDedup, Serves
<1>b. CASE RecordSkip(h) \/ RecordConflict(h)
  BY <1>2, <1>3, <1>b DEF RecordSkip, RecordConflict
<1>c. CASE BeginConflict(h) \/ FlagOther(h)
  BY <1>2, <1>3, <1>c DEF BeginConflict, FlagOther
<1>d. CASE InsertExecuting(h)
  <2>1. Store(x, g, NewRow("EXECUTING", {})) => row'[x][g].status = "EXECUTING"
    BY <1>1 DEF Store, NewRow, LedgerTypeOK
  <2>2. QED  BY <1>2, <1>d, <2>1 DEF InsertExecuting, Serves
<1>e. CASE ViolationConflict(h) \/ ViolationSkip(h)
  BY <1>2, <1>3, <1>e DEF ViolationConflict, ViolationSkip
<1>f. CASE VerifyDedup(h) \/ MergeOwn(h) \/ InsertCommitted(h)
  BY <1>f DEF VerifyDedup, MergeOwn, InsertCommitted, Serves, EffectRequest
<1>g. CASE CommitSideEffect(h) \/ MarkUnknown(h) \/ MarkFailed(h)
  BY <1>2, <1>g DEF CommitSideEffect, MarkUnknown, MarkFailed, Update
<1>i. QED
  BY <1>a, <1>b, <1>c, <1>d, <1>e, <1>f, <1>g DEF Serve

\* All that the other parties can tell of a request's next database call.
Moves(h) ==
    /\ ~At(h, "idle")
    /\ \A k \in Handlers \ {h} : handler'[k] = handler[k]
    /\ handler'[h].req = handler[h].req
    /\ handler'[h].pc \notin {"idle", "mergeOwn"}
    /\ handler[h].req.op # "begin" => handler'[h].pc = "done"
    /\ handler'[h].pc = "done" /\ handler'[h].answer = "EXECUTE" =>
          \/ handler[h].req.exec \in Finished(handler[h].req.fp)
          \/ row'[handler[h].req.exec][handler[h].req.fp].status = "EXECUTING"
    /\ \A e \in Execs, f \in Fps : StatusWrite(h, e, f)

LEMMA RequestMoves ==
    ASSUME LedgerTypeOK, NEW h \in Handlers, EffectRequest(h), Serve(h) \/ DatabaseFails(h)
    PROVE  Moves(h)
<1>1. CASE Serve(h)
  <2>1. ~At(h, "idle")
    BY <1>1, ServesOne DEF At, Busy, BusyPc
  <2>2. QED  BY <1>1, <2>1, ServesOne, ServeWrites, ServeLeads DEF Moves
<1>2. CASE DatabaseFails(h)
  <2>1. handler[h] \in Busy
    BY <1>2, BusyHandler DEF DatabaseFails
  <2>2. handler'[h].pc = "done" /\ handler'[h].answer = "ERROR"
    BY <1>2, <2>1, MovedOn DEF DatabaseFails
  <2>3. handler'[h].req = handler[h].req /\ \A k \in Handlers \ {h} : handler'[k] = handler[k]
    BY <1>2, <2>1 DEF DatabaseFails, Answer, Busy, LedgerTypeOK
  <2>4. \A e \in Execs, f \in Fps : StatusWrite(h, e, f)
    BY <1>2 DEF DatabaseFails, StatusWrite
  <2>5. QED  BY <1>2, <2>2, <2>3, <2>4 DEF Moves, DatabaseFails
<1>3. QED  BY <1>1, <1>2

\* Once a finished row of another execution is there, a begin that has not
\* passed its search leads to a SKIP or an error.
LEMMA BeginSkips ==
    ASSUME LedgerTypeOK, NEW h \in Handlers, Serve(h) \/ DatabaseFails(h),
           handler[h].req.op = "begin", handler[h].pc \in {"received", "recordSkip", "done"},
           Finished(handler[h].req.fp) # {},
           handler[h].req.exec \notin Finished(handler[h].req.fp),
           handler[h].answer # "EXECUTE"
    PROVE  /\ handler'[h].pc \in {"recordSkip", "done"} /\ handler'[h].answer # "EXECUTE"
           /\ row'[handler[h].req.exec][handler[h].req.fp].status \in
                {row[handler[h].req.exec][handler[h].req.fp].status, "SKIPPED"}
<1> DEFINE x == handler[h].req.exec
           g == handler[h].req.fp
<1>1. handler[h] \in Busy /\ x \in Execs /\ g \in Fps
  BY BusyHandler, BusyFields DEF At
<1>2. /\ \A a, m : Answer(h, a, m) => handler'[h].pc = "done" /\ handler'[h].answer = a
      /\ \A pc, v, m : GotoWith(h, pc, v, m) =>
            handler'[h].pc = pc /\ handler'[h].answer = handler[h].answer
  <2>1. \A pc, v, m : GotoWith(h, pc, v, m) => handler'[h].answer = handler[h].answer
    BY <1>1 DEF GotoWith, Busy, LedgerTypeOK
  <2>2. QED  BY <1>1, <2>1, MovedOn
<1>3. CASE DatabaseFails(h)
  BY <1>2, <1>3 DEF DatabaseFails
<1>4. CASE BeginDedup(h)
  BY <1>2, <1>4 DEF BeginDedup
<1>5. CASE RecordSkip(h)
  <2>1. Store(x, g, NewRow("SKIPPED", {"origin"})) => row'[x][g].status = "SKIPPED"
    BY <1>1 DEF Store, NewRow, LedgerTypeOK
  <2>2. QED  BY <1>2, <1>5, <2>1 DEF RecordSkip
<1>6. QED
  BY <1>3, <1>4, <1>5 DEF Serve, At, Serves, BeginConflict, FlagOther, RecordConflict,
     InsertExecuting, ViolationConflict, ViolationSkip, VerifyDedup, MergeOwn,
     InsertCommitted, CommitSideEffect, MarkUnknown, MarkFailed, Update

\* What a request read of a row: nothing, what it had read before, or the
\* metadata of a finished row of its fingerprint.
LEMMA ServeReads ==
    ASSUME LedgerTypeOK, NEW h \in Handlers, EffectRequest(h), Serve(h) \/ DatabaseFails(h),
           handler'[h].pc \in {"received", "recordSkip", "done"}, handler'[h].seen # {}
    PROVE  \/ handler[h].pc = "recordSkip" /\ handler'[h].seen = handler[h].seen
           \/ Finished(handler[h].req.fp) # {}
<1>1. handler[h] \in Busy
  BY BusyHandler, ServesOne DEF DatabaseFails
<1>2. /\ \A pc : Goto(h, pc) => handler'[h].pc = pc
      /\ \A pc, v, m : GotoWith(h, pc, v, m) => handler'[h].pc = pc
      /\ \A a, m : Answer(h, a, m) => handler'[h].seen = m
  <2>1. \A a, m : Answer(h, a, m) => handler'[h].seen = m
    BY <1>1 DEF Answer, Busy, LedgerTypeOK
  <2>2. QED  BY <1>1, <2>1, MovedOn
<1>a. CASE BeginDedup(h) \/ BeginConflict(h) \/ FlagOther(h)
  BY <1>2, <1>a DEF BeginDedup, BeginConflict, FlagOther
<1>b. CASE RecordSkip(h) \/ RecordConflict(h)
  BY <1>2, <1>b DEF RecordSkip, RecordConflict, At
<1>c. CASE InsertExecuting(h) \/ ViolationConflict(h)
  BY <1>2, <1>c DEF InsertExecuting, ViolationConflict
<1>d. CASE ViolationSkip(h)
  <2>1. handler[h].req.op = "begin"
    BY <1>d DEF ViolationSkip, EffectRequest, At
  <2>2. QED  BY <1>2, <1>d, <2>1 DEF ViolationSkip
<1>e. CASE VerifyDedup(h) \/ MergeOwn(h) \/ InsertCommitted(h)
  BY <1>e DEF VerifyDedup, MergeOwn, InsertCommitted, Serves, EffectRequest
<1>f. CASE CommitSideEffect(h) \/ MarkUnknown(h) \/ MarkFailed(h)
  BY <1>2, <1>f DEF CommitSideEffect, MarkUnknown, MarkFailed, Update
<1>g. CASE DatabaseFails(h)
  BY <1>2, <1>g DEF DatabaseFails
<1>i. QED
  BY <1>a, <1>b, <1>c, <1>d, <1>e, <1>f, <1>g DEF Serve
=============================================================================
