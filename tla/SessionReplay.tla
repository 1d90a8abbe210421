---------------------------- MODULE SessionReplay ----------------------------
(***************************************************************************)
(* The recorder of a page together with the backend that keeps one row per *)
(* session (backend/src/session_replay/mod.rs).                            *)
(*                                                                         *)
(* A finalize request adds what one upload carried to the totals of its    *)
(* session.  The totals live in a cache of the process; the row is written *)
(* from them and replaces the one before it, if it ends no earlier.        *)
(***************************************************************************)
EXTENDS ReplayRecorder

CONSTANT Tasks      \* requests the backend works on at the same time

ASSUME TasksAssumption == Tasks # {}

VARIABLES
  cache,       \* FINALIZE_CACHE: the totals of the session
  row,         \* what ClickHouse shows of the session
  task,        \* task[t]: the request t works on
  received,    \* history: events of all requests taken in
  disturbed    \* history: a request was lost or failed, the process restarted in
               \* between or two requests were worked on at the same time

backendVars == <<cache, row, task, received, disturbed>>
vars == <<consent, script, mode, page, rec, buffer, matrix, emitted, uploads,
          identified, dueError, pendingError, minReached, segments, requests,
          turns, faults, crossed, lateStart, cache, row, task, received, disturbed>>

NoMeta == [n |-> 0, ended |-> 0]
Idle == [step |-> "idle", meta |-> NoMeta]

ReplayInit ==
  /\ Init
  /\ cache = NoMeta
  /\ row = NoMeta
  /\ task = [t \in Tasks |-> Idle]
  /\ received = 0
  /\ disturbed = FALSE

Later(a, b) == IF a < b THEN b ELSE a
AddedLast(meta, q) == [n |-> meta.n + q.n, ended |-> q.ended]   \* fault: no max
Added(meta, q) == [n |-> meta.n + q.n, ended |-> Later(meta.ended, q.ended)]

\* ReplacingMergeTree(ended_at) keeps the version that ends last, of two the newer.
Replaced(old, new) == IF new.ended >= old.ended THEN new ELSE old

Busy == \E t \in Tasks : task[t].step # "idle"

\* Requests arrive in any order. The handler reads the totals and awaits the upsert.
Receive(t, q) ==
  /\ task[t].step = "idle"
  /\ requests' = requests \ {q}
  /\ task' = [task EXCEPT ![t] = [step |-> "upserting", meta |-> Added(cache, q)]]
  /\ received' = received + q.n
  /\ disturbed' = (disturbed \/ Busy)
  /\ UNCHANGED <<consent, script, mode, page, rec, buffer, matrix, emitted, uploads,
                 identified, dueError, pendingError, minReached, segments,
                 turns, faults, crossed, lateStart, cache, row>>

Upserted(t) ==
  /\ task[t].step = "upserting"
  /\ row' = Replaced(row, task[t].meta)
  /\ task' = [task EXCEPT ![t].step = "upserted"]
  /\ UNCHANGED <<recorderVars, cache, received, disturbed>>

\* Only then the totals are stored.
CacheTotals(t) ==
  /\ task[t].step = "upserted"
  /\ cache' = task[t].meta
  /\ task' = [task EXCEPT ![t] = Idle]
  /\ UNCHANGED <<recorderVars, row, received, disturbed>>

\* The upsert fails, or times out after ClickHouse executed it; the browser does
\* not repeat the request.
UpsertFails(t, executed) ==
  /\ Fault
  /\ task[t].step = "upserting"
  /\ row' = IF executed THEN Replaced(row, task[t].meta) ELSE row
  /\ disturbed' = TRUE
  /\ task' = [task EXCEPT ![t] = Idle]
  /\ UNCHANGED <<consent, script, mode, page, rec, buffer, matrix, emitted, uploads,
                 identified, dueError, pendingError, minReached, segments,
                 requests, turns, crossed, lateStart, cache, received>>

\* A request that is lost on its way or refused by the checks of a replay request.
RequestLost(q) ==
  /\ Fault
  /\ requests' = requests \ {q}
  /\ disturbed' = TRUE
  /\ UNCHANGED <<consent, script, mode, page, rec, buffer, matrix, emitted, uploads,
                 identified, dueError, pendingError, minReached, segments,
                 turns, crossed, lateStart, cache, row, task, received>>

\* The process and its cache go; the rows stay.
BackendRestarts ==
  /\ Fault
  /\ cache' = NoMeta
  /\ task' = [t \in Tasks |-> Idle]
  /\ disturbed' = (disturbed \/ Busy \/ cache # NoMeta)
  /\ UNCHANGED <<consent, script, mode, page, rec, buffer, matrix, emitted, uploads,
                 identified, dueError, pendingError, minReached, segments,
                 requests, turns, crossed, lateStart, row, received>>

BackendNext ==
  \/ \E t \in Tasks, q \in requests : Receive(t, q)
  \/ \E t \in Tasks : Upserted(t) \/ CacheTotals(t)
  \/ \E t \in Tasks, executed \in BOOLEAN : UpsertFails(t, executed)
  \/ \E q \in requests : RequestLost(q)
  \/ BackendRestarts

Next == (RecorderNext /\ UNCHANGED backendVars) \/ BackendNext

\* A fetch is answered or fails, a timer fires, the backend goes on working.
Fairness ==
  /\ \A u \in Slot : WF_vars((Presigned(u) \/ Uploaded(u)) /\ UNCHANGED backendVars)
  /\ WF_vars(StopStep /\ UNCHANGED backendVars)
  /\ WF_vars(ScriptRuns /\ UNCHANGED backendVars)
  /\ WF_vars(Start /\ UNCHANGED backendVars)

Spec == ReplayInit /\ [][Next]_vars /\ Fairness
-----------------------------------------------------------------------------
TypeOK ==
  /\ consent \in BOOLEAN
  /\ script \in {"absent", "loading", "running"}
  /\ mode \in {"sampled", "onError"}
  /\ page \in {"on", "off"}
  /\ rec \in [initialized : BOOLEAN, isRecording : BOOLEAN, disabled : BOOLEAN,
              stopping : {"no", "flushing", "pausing"}, hooked : BOOLEAN, live : Nat,
              deferred : Nat, failures : 0 .. MaxFlushErrors]
  /\ emitted \in 0 .. MaxEvents
  /\ rec.hooked => rec.live > 0
  /\ buffer \in Seq(1 .. emitted)
  /\ matrix \in Seq(Seq(1 .. emitted)) /\ Len(matrix) \in {1, 2}
  /\ \A u \in Slot : uploads[u].phase \in {"none", "presign", "put"}
                     /\ uploads[u].events \in Seq(1 .. emitted)
  /\ cache \in [n : Nat, ended : 0 .. emitted]
  /\ disturbed \in BOOLEAN

\* What the recorder holds is the tail of what was emitted: whatever fails, is
\* retried or is stopped half way, no event is skipped or reordered on its way
\* into the bucket, until the recorder gives up.
NothingSkipped ==
  LET held == uploads[1].events \o buffer
      stored == UNION {Range(segments[i]) : i \in DOMAIN segments}
  IN mode = "sampled" /\ ~rec.disabled =>
       /\ \A i \in DOMAIN held : held[i] = emitted - Len(held) + i
       /\ 1 .. (emitted - Len(held)) \subseteq stored
       /\ \A i \in DOMAIN segments : \A j \in DOMAIN segments[i] :
            segments[i][j] = Head(segments[i]) + j - 1

\* A segment whose upload the browser saw succeed is finalized, so that the
\* dashboard finds it. In error mode two overlapping uploads share one pending
\* error, and the first to end takes it.
UploadedIsFinalized ==
  [][\A u \in Slot : Uploaded(u) /\ ~crossed => requests' # requests]_vars

\* A recorder that rrweb runs can be stopped, and there is only one, unless a
\* deferred start slipped into a stop that was still uploading.
OneRecorder == ~lateStart => rec.live <= 1 /\ (rec.live = 1 => rec.hooked /\ rec.initialized)

\* The row of a session never shows more than was uploaded for it, and once its
\* requests are handled it shows all of it, in whatever order they arrived.
RowTotals ==
  /\ row.n <= received
  /\ ~disturbed /\ ~Busy => row.n = received

\* flushAll() ends: each round uploads something or counts a failure.
StopCompletes == rec.stopping # "no" ~> rec.stopping = "no"

\* Once consent is revoked nothing more is recorded.
RevokedIsRespected == [][emitted' # emitted => consent]_vars
=============================================================================
