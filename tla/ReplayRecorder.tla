--------------------------- MODULE ReplayRecorder ---------------------------
(***************************************************************************)
(* The session recorder of one page (static/replay.js) and the part of the *)
(* tracker that loads it (static/analytics.js).                            *)
(*                                                                         *)
(* All of it runs in one thread, but nearly every handler ends in a        *)
(* promise or a timer: an upload is a presign and a PUT, a start waits for *)
(* the page to settle, a stop waits for the uploads.  Navigations, consent *)
(* changes, errors and the cutoffs come in between.                        *)
(*                                                                         *)
(* Events are the numbers 1, 2, ... in the order rrweb emits them.  The    *)
(* page stays open: closing it ends a behaviour at some state of it.       *)
(***************************************************************************)
EXTENDS Naturals, Sequences, FiniteSets, SequencesExt

CONSTANTS
  MaxFlushErrors,   \* config.maxConsecutiveFlushErrors
  MaxEvents,        \* bound: events emitted
  MaxTurns,         \* bound: navigations, consent changes, stops and errors
  MaxFaults         \* bound: failed uploads, and what fails at the backend

ASSUME RecorderAssumption ==
  /\ MaxFlushErrors \in Nat \ {0}
  /\ MaxEvents \in Nat
  /\ MaxTurns \in Nat
  /\ MaxFaults \in Nat

VARIABLES
  consent,      \* the consent in localStorage, or given by the script's attribute
  script,       \* replay.js: "absent", "loading" or "running"
  mode,         \* "sampled", or "onError": upload only around errors
  page,         \* "on", or "off": a path of data-disable-replay-on-urls
  rec,          \* the flags of the recorder's state, see NewRecorder
  buffer,       \* events to upload (sampled)
  matrix,       \* the last two segments recorded (onError)
  emitted,      \* number of events emitted
  uploads,      \* uploads[u]: the upload in slot u; slot 1 is ongoingFlush
  identified,   \* replaySession.id and visId are set, by the first presign
  dueError,     \* errorFlushPending: an error's flush is due
  pendingError, \* pendingErrorType is set
  minReached,   \* hasReachedMinDuration()
  segments,     \* objects in the bucket, in the order stored
  requests,     \* finalize requests on their way
  turns,        \* bounded by MaxTurns
  faults,       \* bounded by MaxFaults
  crossed,      \* history: two uploads of errors overlapped
  lateStart     \* history: a deferred start came while a stop was uploading

recorderVars == <<consent, script, mode, page, rec, buffer, matrix, emitted, uploads,
                  identified, dueError, pendingError, minReached, segments,
                  requests, turns, faults, crossed, lateStart>>

Slot == {1, 2}
NoUpload == [phase |-> "none", events |-> <<>>, error |-> FALSE]

\* live counts the rrweb recorders that run, hooked says whether the last one
\* can still be stopped (recordingStop), deferred counts the starts to come.  A stop that is not over
\* waits for an upload ("flushing") or for its timer ("pausing").
NewRecorder == [initialized |-> FALSE, isRecording |-> FALSE, stopping |-> "no",
                disabled |-> FALSE, hooked |-> FALSE, live |-> 0, deferred |-> 0,
                failures |-> 0]

Init ==
  /\ consent \in BOOLEAN
  /\ script \in IF consent THEN {"absent", "loading"} ELSE {"absent"}
  /\ mode \in {"sampled", "onError"}
  /\ page \in {"on", "off"}
  /\ rec = NewRecorder
  /\ buffer = <<>>
  /\ matrix = <<<<>>>>
  /\ emitted = 0
  /\ uploads = [u \in Slot |-> NoUpload]
  /\ identified = FALSE
  /\ dueError = FALSE
  /\ pendingError = FALSE
  /\ minReached = FALSE
  /\ segments = <<>>
  /\ requests = {}
  /\ turns = 0
  /\ faults = 0
  /\ crossed = FALSE
  /\ lateStart = FALSE

Turn == turns < MaxTurns /\ turns' = turns + 1
Fault == faults < MaxFaults /\ faults' = faults + 1
-----------------------------------------------------------------------------
\* Recording.

\* The custom event a handler adds through rrweb, into the buffer of its mode;
\* without a live recorder rrweb throws and the handler ignores it.
Adds == rec.live > 0 /\ emitted < MaxEvents
AddedTo(b) == IF Adds /\ mode = "sampled" THEN Append(b, emitted + 1) ELSE b

\* Fault: the oldest segment is kept.
AddToMatrixKeeping(checkout) ==
  LET m == IF checkout THEN Append(matrix, <<>>) ELSE matrix
  IN [m EXCEPT ![Len(m)] = Append(@, emitted + 1)]

AddToMatrix(checkout) ==
  LET m == IF checkout THEN <<Last(matrix), <<>>>> ELSE matrix
  IN [m EXCEPT ![Len(m)] = Append(@, emitted + 1)]

AddCustomEvent ==
  /\ emitted' = IF Adds THEN emitted + 1 ELSE emitted
  /\ matrix' = IF Adds /\ mode = "onError" THEN AddToMatrix(FALSE) ELSE matrix

\* rrweb emits an event; a periodic full snapshot opens a segment of the matrix.
Emit(checkout) ==
  /\ rec.live > 0
  /\ page = "on"
  /\ emitted < MaxEvents
  /\ emitted' = emitted + 1
  /\ IF mode = "sampled"
       THEN buffer' = Append(buffer, emitted + 1) /\ ~checkout /\ UNCHANGED matrix
       ELSE matrix' = AddToMatrix(checkout) /\ UNCHANGED buffer
  /\ UNCHANGED <<consent, script, mode, page, rec, uploads, identified, dueError,
                 pendingError, minReached, segments, requests, turns, faults,
                 crossed, lateStart>>

\* Fault: startRecording() does not look at initialized.
StartAnyway ==
  /\ rec.deferred > 0
  /\ rec' = [rec EXCEPT !.deferred = @ - 1, !.initialized = TRUE, !.isRecording = TRUE,
                        !.hooked = TRUE, !.live = @ + 1]
  /\ UNCHANGED <<consent, script, mode, page, buffer, matrix, emitted, uploads,
                 identified, dueError, pendingError, minReached, segments,
                 requests, turns, faults, crossed, lateStart>>

\* The deferred start: the second of two finds the recorder initialized.
Start ==
  /\ rec.deferred > 0
  /\ rec' = IF rec.initialized THEN [rec EXCEPT !.deferred = @ - 1]
            ELSE [rec EXCEPT !.deferred = @ - 1, !.initialized = TRUE,
                             !.isRecording = TRUE, !.hooked = TRUE, !.live = @ + 1]
  /\ lateStart' = (lateStart \/ (rec.stopping # "no" /\ ~rec.initialized))
  /\ UNCHANGED <<consent, script, mode, page, buffer, matrix, emitted, uploads,
                 identified, dueError, pendingError, minReached, segments,
                 requests, turns, faults, crossed>>
-----------------------------------------------------------------------------
\* Flushing and stopping.

\* flush() uploads all of the buffer b, unless one of its early returns is taken.
Flushable(b) == ~rec.disabled /\ b # <<>> /\ uploads[1] = NoUpload /\ minReached

StartUpload(u, events, error) ==
  uploads' = [uploads EXCEPT ![u] = [NoUpload EXCEPT !.phase = "presign",
                                                     !.events = events, !.error = error]]

FlushOf(b) == IF Flushable(b) THEN buffer' = <<>> /\ StartUpload(1, b, FALSE)
              ELSE buffer' = b /\ UNCHANGED uploads

\* The flush loop, the size limit and a page that becomes hidden.
Flush ==
  /\ script = "running"
  /\ Flushable(buffer)
  /\ FlushOf(buffer)
  /\ UNCHANGED <<consent, script, mode, page, rec, matrix, emitted, identified,
                 dueError, pendingError, minReached, segments, requests, turns,
                 faults, crossed, lateStart>>

Halted(r) == [r EXCEPT !.live = IF r.hooked THEN @ - 1 ELSE @, !.hooked = FALSE]
Stopped(r) == [r EXCEPT !.initialized = FALSE, !.isRecording = FALSE, !.stopping = "no"]

\* flushAll() goes on while there is something it may flush; after an upload it
\* pauses before it does.
MoreToFlush(r, b) == ~r.disabled /\ minReached /\ b # <<>>
AfterFlushForgets(r, b) ==                          \* fault: no finally
  IF r.stopping = "flushing" /\ MoreToFlush(r, b) THEN [r EXCEPT !.stopping = "pausing"] ELSE r
AfterFlush(r, b) == IF r.stopping # "flushing" THEN r
                    ELSE IF MoreToFlush(r, b) THEN [r EXCEPT !.stopping = "pausing"]
                    ELSE Stopped(r)

\* stopRecording() with the buffer b: when nothing is to be uploaded the promises
\* settle before any other task runs.
StopRecording(b) ==
  IF rec.stopping # "no" THEN buffer' = b /\ UNCHANGED <<rec, uploads>>
  ELSE /\ FlushOf(b)
       /\ rec' = IF MoreToFlush(rec, b) THEN [Halted(rec) EXCEPT !.stopping = "flushing"]
                 ELSE Stopped(Halted(rec))

\* The idle cutoff, the maximal duration, beforeunload and pagehide.
Stop ==
  /\ Turn
  /\ script = "running"
  /\ StopRecording(buffer)
  /\ UNCHANGED <<consent, script, mode, page, matrix, emitted, identified, dueError,
                 pendingError, minReached, segments, requests, faults, crossed,
                 lateStart>>

\* The pause of flushAll() is over: the next upload, or the end of the stop.
StopStep ==
  /\ rec.stopping = "pausing"
  /\ FlushOf(buffer)
  /\ rec' = IF MoreToFlush(rec, buffer) THEN [rec EXCEPT !.stopping = "flushing"]
            ELSE Stopped(rec)
  /\ UNCHANGED <<consent, script, mode, page, matrix, emitted, identified, dueError,
                 pendingError, minReached, segments, requests, turns, faults,
                 crossed, lateStart>>

MinDurationPasses ==
  /\ ~minReached
  /\ minReached' = TRUE
  /\ UNCHANGED <<consent, script, mode, page, rec, buffer, matrix, emitted, uploads,
                 identified, dueError, pendingError, segments, requests,
                 turns, faults, crossed, lateStart>>
-----------------------------------------------------------------------------
\* Uploading.

\* The backend presigns a key, and tells the session it identified.
Presigned(u) ==
  /\ uploads[u].phase = "presign"
  /\ uploads' = [uploads EXCEPT ![u].phase = "put"]
  /\ identified' = TRUE
  /\ UNCHANGED <<consent, script, mode, page, rec, buffer, matrix, emitted, dueError,
                 pendingError, minReached, segments, requests, turns, faults,
                 crossed, lateStart>>

StoreSegment(u) == segments' = Append(segments, uploads[u].events)

\* Fault: an error's upload waits for the minimal duration, too.
FinalizeSessionLate(u) ==
  IF ~rec.disabled /\ minReached /\ identified
    THEN /\ requests' = requests \cup
              {[id |-> Len(segments) + 1, n |-> Len(uploads[u].events),
                ended |-> Last(uploads[u].events)]}
         /\ pendingError' = FALSE
    ELSE UNCHANGED <<requests, pendingError>>

\* finalizeSession() after the upload u.
FinalizeSession(u) ==
  IF ~rec.disabled /\ (pendingError \/ minReached) /\ identified
    THEN /\ requests' = requests \cup
              {[id |-> Len(segments) + 1, n |-> Len(uploads[u].events),
                ended |-> Last(uploads[u].events)]}
         /\ pendingError' = FALSE
    ELSE UNCHANGED <<requests, pendingError>>

\* The PUT is answered. The upload of an error empties the matrix, whatever has
\* been recorded into it since.
Uploaded(u) ==
  /\ uploads[u].phase = "put"
  /\ StoreSegment(u)
  /\ FinalizeSession(u)
  /\ IF uploads[u].error
       THEN matrix' = <<<<>>>> /\ UNCHANGED rec
       ELSE rec' = AfterFlush([rec EXCEPT !.failures = 0], buffer) /\ UNCHANGED matrix
  /\ uploads' = [uploads EXCEPT ![u] = NoUpload]
  /\ UNCHANGED <<consent, script, mode, page, buffer, emitted, identified, dueError,
                 minReached, turns, faults, crossed, lateStart>>

\* Fault: the events go back behind what was recorded since.
FlushErrorAppends(events) ==
  /\ buffer' = buffer \o events
  /\ rec' = AfterFlush([rec EXCEPT !.failures = @ + 1], buffer \o events)

\* handleFlushError(): the events go back to the front of the buffer, or the
\* recorder gives up and stops for good.
FlushError(events) ==
  IF rec.failures + 1 < MaxFlushErrors
    THEN /\ buffer' = events \o buffer
         /\ rec' = AfterFlush([rec EXCEPT !.failures = @ + 1], events \o buffer)
    ELSE /\ buffer' = <<>>
         /\ rec' = LET r == [rec EXCEPT !.failures = @ + 1, !.disabled = TRUE]
                   IN IF rec.stopping = "no" THEN Stopped(Halted(r)) ELSE AfterFlush(r, <<>>)

\* The presign or the PUT fails; a PUT whose answer is lost has stored the object.
UploadFails(u, stored) ==
  /\ Fault
  /\ uploads[u] # NoUpload
  /\ stored => uploads[u].phase = "put"
  /\ IF stored THEN StoreSegment(u) ELSE UNCHANGED segments
  /\ IF uploads[u].error
       THEN pendingError' = FALSE /\ UNCHANGED <<rec, buffer>>
       ELSE FlushError(uploads[u].events) /\ UNCHANGED pendingError
  /\ uploads' = [uploads EXCEPT ![u] = NoUpload]
  /\ UNCHANGED <<consent, script, mode, page, matrix, emitted, identified, dueError,
                 minReached, requests, turns, crossed, lateStart>>

-----------------------------------------------------------------------------
\* Errors.

\* notifyError(): the flush follows three seconds later, or at beforeunload.
NotifyError ==
  /\ Turn
  /\ script = "running"
  /\ ~dueError
  /\ dueError' = TRUE
  /\ IF page = "on" THEN AddCustomEvent /\ buffer' = AddedTo(buffer)
                    ELSE UNCHANGED <<emitted, matrix, buffer>>
  /\ UNCHANGED <<consent, script, mode, page, rec, uploads, identified, pendingError,
                 minReached, segments, requests, faults, crossed, lateStart>>

\* Both segments.
MatrixEvents == IF Len(matrix) = 1 THEN matrix[1] ELSE matrix[1] \o matrix[2]

\* doFlush(): in error mode the matrix is uploaded and stays until the answer.
ErrorFlush ==
  /\ dueError
  /\ dueError' = FALSE
  /\ \/ /\ mode = "sampled"
        /\ pendingError' = TRUE
        /\ FlushOf(buffer)
        /\ UNCHANGED crossed
     \/ /\ mode = "onError"
        /\ MatrixEvents = <<>>
        /\ UNCHANGED <<pendingError, buffer, uploads, crossed>>
     \/ /\ mode = "onError"
        /\ MatrixEvents # <<>>
        /\ pendingError' = TRUE
        /\ \E u \in Slot : uploads[u] = NoUpload /\ StartUpload(u, MatrixEvents, TRUE)
        /\ crossed' = (crossed \/ \E u \in Slot : uploads[u] # NoUpload)
        /\ UNCHANGED buffer
  /\ UNCHANGED <<consent, script, mode, page, rec, matrix, emitted, identified,
                 minReached, segments, requests, turns, faults, lateStart>>
-----------------------------------------------------------------------------
\* Loading, consent and navigation.

\* setReplayConsent(true): the first time it loads the script, if the session is
\* sampled or errors are to be replayed; a loaded recorder is not started again.
GrantConsent ==
  /\ Turn
  /\ consent' = TRUE
  /\ script' \in IF script = "absent" THEN {"absent", "loading"} ELSE {script}
  /\ UNCHANGED <<mode, page, rec, buffer, matrix, emitted, uploads, identified,
                 dueError, pendingError, minReached, segments, requests, faults,
                 crossed, lateStart>>

\* setReplayConsent(false): while the script loads there is nothing to stop yet.
RevokeConsent ==
  /\ Turn
  /\ consent' = FALSE
  /\ IF script = "running" THEN StopRecording(buffer) ELSE UNCHANGED <<rec, buffer, uploads>>
  /\ UNCHANGED <<script, mode, page, matrix, emitted, identified, dueError,
                 pendingError, minReached, segments, requests, faults, crossed,
                 lateStart>>

ScriptRuns ==
  /\ script = "loading"
  /\ script' = "running"
  /\ rec' = IF page = "on" THEN [rec EXCEPT !.deferred = @ + 1] ELSE rec
  /\ UNCHANGED <<consent, mode, page, buffer, matrix, emitted, uploads, identified,
                 dueError, pendingError, minReached, segments, requests, turns,
                 faults, crossed, lateStart>>

\* handleNavigationChange(), to another path.
Navigate(to) ==
  /\ Turn
  /\ page' = to
  /\ \/ /\ script # "running"
        /\ UNCHANGED <<rec, buffer, matrix, emitted, uploads>>
     \/ /\ script = "running" /\ to = "on" /\ ~rec.isRecording
        /\ rec' = [rec EXCEPT !.deferred = @ + 1]
        /\ UNCHANGED <<buffer, matrix, emitted, uploads>>
     \/ /\ script = "running" /\ to = "on" /\ rec.isRecording
        /\ AddCustomEvent
        /\ buffer' = AddedTo(buffer)
        /\ UNCHANGED <<rec, uploads>>
     \/ /\ script = "running" /\ to = "off"
        /\ AddCustomEvent
        /\ StopRecording(AddedTo(buffer))
  /\ UNCHANGED <<consent, script, mode, identified, dueError, pendingError, minReached,
                 segments, requests, faults, crossed, lateStart>>

UploadStep == \E u \in Slot : Presigned(u) \/ Uploaded(u)

RecorderNext ==
  \/ \E checkout \in BOOLEAN : Emit(checkout)
  \/ Start
  \/ Flush
  \/ Stop
  \/ StopStep
  \/ MinDurationPasses
  \/ UploadStep
  \/ \E u \in Slot, stored \in BOOLEAN : UploadFails(u, stored)
  \/ NotifyError
  \/ ErrorFlush
  \/ GrantConsent
  \/ RevokeConsent
  \/ ScriptRuns
  \/ \E to \in {"on", "off"} : Navigate(to)
=============================================================================
